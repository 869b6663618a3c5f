---------------------------- MODULE InviteStore ----------------------------
(***************************************************************************)
(* The relay invitation store (src/src/relay_invites.rs): the codes that   *)
(* admit newcomers to the relay, their redemptions, and the limits each    *)
(* minter works under.  Every operation of RelayInviteStore runs under the *)
(* store's write lock, so every operation is one atomic action here; the   *)
(* handlers that combine them are in InviteAdmission.                      *)
(*                                                                         *)
(* Times are small naturals.  A code's label and creation time, and the    *)
(* times at which a code was revoked or a redemption made, are display     *)
(* data and left out.                                                      *)
(***************************************************************************)
EXTENDS Integers, FiniteSets

CONSTANTS
    Codes,          \* the codes that may ever be minted
    Keys,           \* public keys: minters and newcomers alike
    Admins,         \* the keys with a console session
    Minters,        \* the keys a grant or one of the relay's lists may name
    None,           \* Rust's Option::None
    Grants,         \* the explicit grants an admin may hand out
    AskedUses,      \* the max_uses values a mint request may carry
    AskedTtls,      \* the expires_in values a mint request may carry
    Allowance,      \* DEFAULT_INVITE_ALLOWANCE
    AllowanceTtl,   \* DEFAULT_ALLOWANCE_TTL_SECS
    AdminUses,      \* DEFAULT_RELAY_INVITE_MAX_USES
    AdminTtl,       \* DEFAULT_RELAY_INVITE_TTL_SECS
    MaxTime,        \* bound: the clock stops here
    MaxRedemptions  \* bound: redemptions on record, evicted ones included

Option(S) == S \cup {None}

\* A MinterGrant; handle_admin_grant and default_allowance keep every limit
\* at one or more.
Grant == [maxCodes : Nat \ {0}, maxUses : Nat \ {0},
          maxTotal : Nat \ {0}, maxTtl : Nat]

Invite == [by : Keys, admin : BOOLEAN, maxUses : Option(Nat),
           expires : Option(Nat), revoked : BOOLEAN]

\* The n-th entry of a code's redemptions vector.
Redemption == [code : Codes, n : Nat, pk : Keys]

ASSUME KeysAssumption == IsFiniteSet(Keys) /\ IsFiniteSet(Codes) /\ Admins \subseteq Keys /\ Minters \subseteq Keys
ASSUME NoneAssumption == None \notin Nat /\ None \notin Invite /\ None \notin Grant
ASSUME GrantsAssumption == Grants \subseteq Grant
ASSUME AskedAssumption == AskedUses \subseteq Option(Nat) /\ AskedTtls \subseteq Option(Nat)
ASSUME DefaultsAssumption ==
    /\ Allowance \in Nat \ {0} /\ AllowanceTtl \in Nat
    /\ AdminUses \in Nat \ {0} /\ AdminTtl \in Nat
ASSUME BoundsAssumption == MaxTime \in Nat /\ MaxRedemptions \in Nat

VARIABLES
    invites,        \* InviteState::invites, None where no code was minted
    redeemed,       \* every redemption ever recorded
    evicted,        \* those whose evicted_at is set
    grants,         \* InviteState::minters
    auto,           \* keys the allowance check covers: owner, admins, references
    now,            \* the clock
    admitCeiling,   \* ghost: the largest maxTotal a key ever minted under
    codeCeiling     \* ghost: the largest maxCodes a key ever minted under

stored == <<invites, redeemed, evicted, grants>>
ceilings == <<admitCeiling, codeCeiling>>
storeVars == <<stored, auto, now, ceilings>>

LesserOf(a, b) == IF a <= b THEN a ELSE b
GreaterOf(a, b) == IF a >= b THEN a ELSE b
Monus(a, b) == IF a >= b THEN a - b ELSE 0

-----------------------------------------------------------------------------
(* What the store answers. *)

RedemptionsOf(c) == {r \in redeemed : r.code = c}
\* Mutant: an eviction refunds the use.
UsesRefunded(c) == Cardinality(RedemptionsOf(c) \ evicted)
Uses(c) == Cardinality(RedemptionsOf(c))

IsExpired(c) == invites[c].expires # None /\ now > invites[c].expires

IsExhausted(c) == invites[c].maxUses # None /\ Uses(c) >= invites[c].maxUses
IsLive(c) == ~invites[c].revoked /\ ~IsExpired(c) /\ ~IsExhausted(c)

LiveRedemptionsOf(pk) == {r \in redeemed \ evicted : r.pk = pk}
AdmittedPubkeys == {r.pk : r \in redeemed \ evicted}

MintedBy(pk) == {c \in Codes : invites[c] # None /\ invites[c].by = pk}
BoundCodesOf(pk) == {c \in MintedBy(pk) : ~invites[c].admin}
AdmitsBy(pk) == Cardinality({r \in redeemed : r.code \in BoundCodesOf(pk)})
LiveCodesBy(pk) == Cardinality({c \in MintedBy(pk) : IsLive(c)})

DefaultAllowance ==
    [maxCodes |-> Allowance, maxUses |-> Allowance,
     maxTotal |-> Allowance, maxTtl |-> AllowanceTtl]

\* An explicit grant wins over the automatic allowance.
EffectiveGrant(gs, covered, pk) ==
    CASE gs[pk] # None -> gs[pk]
      [] gs[pk] = None /\ pk \in covered -> DefaultAllowance
      [] OTHER -> None

GrantOf(pk) == EffectiveGrant(grants, auto, pk)

AdmitsLeft(pk) == Monus(GrantOf(pk).maxTotal, AdmitsBy(pk))
\* Mutant: the panel counts dead codes against max_codes.
CodesLeftOfAll(pk) == Monus(GrantOf(pk).maxCodes, Cardinality(MintedBy(pk)))
CodesLeft(pk) == Monus(GrantOf(pk).maxCodes, LiveCodesBy(pk))

\* minter_status(pk).can_mint: what the "Invite people" panel shows.
CanMint(pk) == GrantOf(pk) # None /\ CodesLeft(pk) > 0 /\ AdmitsLeft(pk) > 0

-----------------------------------------------------------------------------
(* What the store does. *)

\* The ghosts follow the limits in force after the step.
RaiseCeilings ==
    LET After(pk) == EffectiveGrant(grants', auto', pk)
    IN  /\ admitCeiling' = [k \in Keys |->
              IF After(k) = None THEN admitCeiling[k]
              ELSE GreaterOf(admitCeiling[k], After(k).maxTotal)]
        /\ codeCeiling' = [k \in Keys |->
              IF After(k) = None THEN codeCeiling[k]
              ELSE GreaterOf(codeCeiling[k], After(k).maxCodes)]

\* The limits of a console code: zero asks for no limit, nothing for the default.
AdminTerms(uses, ttl) ==
    [maxUses |-> CASE uses = None -> AdminUses [] uses = 0 -> None [] OTHER -> uses,
     expires |-> CASE ttl = None -> now + AdminTtl [] ttl = 0 -> None [] OTHER -> now + ttl]

\* The limits of everyone else's code: clamped to the grant and to what is left of it.
BoundTerms(pk, uses, ttl) ==
    LET g == GrantOf(pk)
        wantedUses == IF uses \in {None, 0} THEN g.maxUses ELSE uses
        wantedTtl == IF ttl \in {None, 0} THEN g.maxTtl ELSE ttl
    IN  [maxUses |-> LesserOf(LesserOf(wantedUses, g.maxUses), AdmitsLeft(pk)),
         expires |-> now + LesserOf(wantedTtl, g.maxTtl)]

MayMint(pk) ==
    /\ GrantOf(pk) # None
    /\ LiveCodesBy(pk) < GrantOf(pk).maxCodes
    /\ AdmitsLeft(pk) # 0

Mint(c, pk, asAdmin, uses, ttl) ==
    /\ invites[c] = None
    /\ asAdmin \/ MayMint(pk)
    /\ LET terms == IF asAdmin THEN AdminTerms(uses, ttl) ELSE BoundTerms(pk, uses, ttl)
       IN  invites' = [invites EXCEPT ![c] =
               [by |-> pk, admin |-> asAdmin, maxUses |-> terms.maxUses,
                expires |-> terms.expires, revoked |-> FALSE]]
    /\ UNCHANGED <<redeemed, evicted, grants, auto, now, ceilings>>

\* Mutant: only the grant's existence is checked at redemption.
MinterActiveWhileGranted(c) == invites[c].admin \/ GrantOf(invites[c].by) # None

MinterActive(c) ==
    LET m == invites[c].by
    IN  invites[c].admin \/ (GrantOf(m) # None /\ AdmitsBy(m) < GrantOf(m).maxTotal)

\* Mutant: the key's other codes are not looked at.
RedeemAgain(c, pk) ==
    /\ Cardinality(redeemed) < MaxRedemptions
    /\ invites[c] # None
    /\ IsLive(c)
    /\ MinterActive(c)
    /\ redeemed' = redeemed \cup {[code |-> c, n |-> Uses(c) + 1, pk |-> pk]}
    /\ UNCHANGED <<invites, evicted, grants, auto, now, ceilings>>

\* redeem() returning Admitted.
Redeem(c, pk) ==
    /\ Cardinality(redeemed) < MaxRedemptions
    /\ LiveRedemptionsOf(pk) = {}
    /\ invites[c] # None
    /\ IsLive(c)
    /\ MinterActive(c)
    /\ redeemed' = redeemed \cup {[code |-> c, n |-> Uses(c) + 1, pk |-> pk]}
    /\ UNCHANGED <<invites, evicted, grants, auto, now, ceilings>>

\* The redemptions an evicting revoke takes away from code c.
EvictedByRevoke(c, evict) == IF evict THEN RedemptionsOf(c) \ evicted ELSE {}

Revoke(c, evict) ==
    /\ invites[c] # None
    /\ invites' = [invites EXCEPT ![c].revoked = TRUE]
    /\ evicted' = evicted \cup EvictedByRevoke(c, evict)
    /\ UNCHANGED <<redeemed, grants, auto, now, ceilings>>

Evict(pk) ==
    /\ LiveRedemptionsOf(pk) # {}
    /\ evicted' = evicted \cup LiveRedemptionsOf(pk)
    /\ UNCHANGED <<invites, redeemed, grants, auto, now, ceilings>>

SetGrant(pk, g) ==
    /\ grants' = [grants EXCEPT ![pk] = g]
    /\ UNCHANGED <<invites, redeemed, evicted, auto, now>>
    /\ RaiseCeilings

RemoveGrant(pk) ==
    /\ grants[pk] # None
    /\ grants' = [grants EXCEPT ![pk] = None]
    /\ UNCHANGED <<invites, redeemed, evicted, auto, now>>
    /\ RaiseCeilings

\* The owner, admin or reference lists change; the store asks them live.
ChangeLists(pk) ==
    /\ auto' = IF pk \in auto THEN auto \ {pk} ELSE auto \cup {pk}
    /\ UNCHANGED <<stored, now>>
    /\ RaiseCeilings

Tick ==
    /\ now < MaxTime
    /\ now' = now + 1
    /\ UNCHANGED <<stored, auto, ceilings>>

-----------------------------------------------------------------------------

StoreInit ==
    /\ invites = [c \in Codes |-> None]
    /\ redeemed = {}
    /\ evicted = {}
    /\ grants = [k \in Keys |-> None]
    /\ auto \in SUBSET Minters
    /\ now = 0
    /\ admitCeiling = [k \in Keys |-> IF k \in auto THEN Allowance ELSE 0]
    /\ codeCeiling = [k \in Keys |-> IF k \in auto THEN Allowance ELSE 0]

StoreNext ==
    \/ \E c \in Codes, pk \in Minters, uses \in AskedUses, ttl \in AskedTtls :
          Mint(c, pk, FALSE, uses, ttl)
    \/ \E c \in Codes, pk \in Admins, uses \in AskedUses, ttl \in AskedTtls :
          Mint(c, pk, TRUE, uses, ttl)
    \/ \E c \in Codes, pk \in Keys : Redeem(c, pk)
    \/ \E c \in Codes, evict \in BOOLEAN : Revoke(c, evict)
    \/ \E pk \in Keys : Evict(pk)
    \/ \E pk \in Minters, g \in Grants : SetGrant(pk, g)
    \/ \E pk \in Minters : RemoveGrant(pk)
    \/ \E pk \in Minters : ChangeLists(pk)
    \/ Tick

StoreSpec == StoreInit /\ [][StoreNext]_storeVars

-----------------------------------------------------------------------------
(* Properties. *)

\* Every variable keeps its type, every redemption is of a minted code, and the
\* positions of a code's redemptions are those of a vector.
TypeOK ==
    /\ invites \in [Codes -> Option(Invite)]
    /\ redeemed \in SUBSET Redemption
    /\ evicted \in SUBSET redeemed
    /\ IsFiniteSet(redeemed)
    /\ \A r \in redeemed : invites[r.code] # None /\ r.n <= Uses(r.code)
    /\ grants \in [Keys -> Option(Grant)]
    /\ auto \in SUBSET Keys
    /\ now \in Nat
    /\ admitCeiling \in [Keys -> Nat]
    /\ codeCeiling \in [Keys -> Nat]

\* A key holds at most one live redemption, whichever codes it presented and
\* however often it was evicted and came back: redeem() is idempotent per key.
OneLiveRedemption ==
    \A r, s \in redeemed \ evicted : r.pk = s.pk => r = s

\* No code admits more redemptions than its max_uses, evicted ones included:
\* an eviction refunds nothing.
UsesWithinLimit ==
    \A c \in Codes :
        invites[c] # None /\ invites[c].maxUses # None => Uses(c) <= invites[c].maxUses

\* Over all of a minter's codes together, no more people came in than the most
\* generous total ever in force for that minter, although every code was
\* clamped separately and the limits moved in between.
AdmitsWithinCeiling == \A pk \in Keys : AdmitsBy(pk) <= admitCeiling[pk]

\* A minter never has more live codes of their own than the largest max_codes
\* ever in force for them.
LiveCodesWithinCeiling ==
    \A pk \in Keys :
        Cardinality({c \in BoundCodesOf(pk) : IsLive(c)}) <= codeCeiling[pk]

\* A code bound by a grant is never unlimited or eternal.
BoundCodesAreFinite ==
    \A c \in Codes :
        invites[c] # None /\ ~invites[c].admin =>
            invites[c].maxUses # None /\ invites[c].expires # None

\* What the panel offers is what mint() grants: minter_status computes
\* can_mint from what is left, mint() from what is spent.
PanelAgreesWithMint == \A pk \in Keys : CanMint(pk) <=> MayMint(pk)

\* The terms of a minter hold for what they mint, whenever the limits moved.
TermsHold == LiveCodesWithinCeiling /\ BoundCodesAreFinite /\ PanelAgreesWithMint

\* History is never rewritten: a redemption stays on record and an eviction is
\* never undone, so what is spent stays spent.
HistoryKept == [][redeemed \subseteq redeemed' /\ evicted \subseteq evicted']_storeVars

\* A code that stopped admitting for good (revoked, expired, exhausted) never
\* comes back to life, whatever happens to its minter's limits.
DeadCodesStayDead ==
    [][\A c \in Codes : invites[c] # None /\ ~IsLive(c) => ~IsLive(c)']_storeVars
=============================================================================
