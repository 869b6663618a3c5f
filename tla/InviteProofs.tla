---------------------------- MODULE InviteProofs ----------------------------
(***************************************************************************)
(* What relay invitations guarantee, for every set of codes and keys, every *)
(* grant and every bound: the store on its own, as its operations follow one *)
(* another; the hot-path copy of the admitted keys, for any number of      *)
(* handlers at once, with file errors, backups and restarts between any two *)
(* of their steps; and the file, which a restart loads.                    *)
(***************************************************************************)
EXTENDS InviteAdmission, FiniteSetTheorems, TLAPS

\* The ghost admitCeiling really is a ceiling of the limit in force.
CeilingCovers ==
    \A k \in Keys : GrantOf(k) # None => GrantOf(k).maxTotal <= admitCeiling[k]

\* The inductive invariant: a quota holds because the limit it is checked
\* against never exceeds the ceiling it is compared with.
StoreInv ==
    /\ TypeOK
    /\ OneLiveRedemption
    /\ UsesWithinLimit
    /\ CeilingCovers
    /\ AdmitsWithinCeiling

USE KeysAssumption, NoneAssumption, GrantsAssumption, AskedAssumption,
    DefaultsAssumption, BoundsAssumption

-----------------------------------------------------------------------------
(* Counting. *)

\* Adding one element adds at most one, and exactly one when it is new.
LEMMA AddOne ==
    ASSUME NEW S, IsFiniteSet(S), NEW x
    PROVE  /\ IsFiniteSet(S \cup {x})
           /\ Cardinality(S) \in Nat
           /\ Cardinality(S \cup {x}) \in Nat
           /\ Cardinality(S \cup {x}) <= Cardinality(S) + 1
           /\ x \notin S => Cardinality(S \cup {x}) = Cardinality(S) + 1
<1>1. /\ IsFiniteSet(S \cup {x})
      /\ Cardinality(S \cup {x}) = IF x \in S THEN Cardinality(S) ELSE Cardinality(S) + 1
  BY FS_AddElement
<1>2. Cardinality(S) \in Nat /\ Cardinality(S \cup {x}) \in Nat
  BY <1>1, FS_CardinalityType
<1>3. QED BY <1>1, <1>2

\* Every count the store compares with a limit is a natural number.
LEMMA CountsAreNat ==
    ASSUME TypeOK
    PROVE  /\ \A c \in Codes : Uses(c) \in Nat /\ IsFiniteSet(RedemptionsOf(c))
           /\ \A k \in Keys : AdmitsBy(k) \in Nat
<1>1. ASSUME NEW c \in Codes PROVE Uses(c) \in Nat /\ IsFiniteSet(RedemptionsOf(c))
  <2>1. RedemptionsOf(c) \subseteq redeemed /\ IsFiniteSet(redeemed)
    BY DEF RedemptionsOf, TypeOK
  <2>2. QED BY <2>1, FS_Subset, FS_CardinalityType DEF Uses
<1>2. ASSUME NEW k \in Keys PROVE AdmitsBy(k) \in Nat
  <2>1. {r \in redeemed : r.code \in BoundCodesOf(k)} \subseteq redeemed /\ IsFiniteSet(redeemed)
    BY DEF TypeOK
  <2>2. QED BY <2>1, FS_Subset, FS_CardinalityType DEF AdmitsBy
<1>3. QED BY <1>1, <1>2

\* A grant in force is a grant, whether it was handed out or is the allowance.
LEMMA GrantsInForce ==
    ASSUME NEW gs \in [Keys -> Option(Grant)], NEW covered, NEW k \in Keys,
           EffectiveGrant(gs, covered, k) # None
    PROVE  EffectiveGrant(gs, covered, k) \in Grant
BY DEF EffectiveGrant, DefaultAllowance, Grant, Option

-----------------------------------------------------------------------------
(* The initial state. *)

LEMMA InitEstablishes == StoreInit => StoreInv
<1> SUFFICES ASSUME StoreInit PROVE StoreInv
  OBVIOUS
<1>1. TypeOK
  BY FS_EmptySet DEF StoreInit, TypeOK, Option
<1>2. \A c \in Codes : Uses(c) = 0
  BY FS_EmptySet DEF StoreInit, Uses, RedemptionsOf
<1>3. \A k \in Keys : AdmitsBy(k) = 0
  <2>1. \A k \in Keys : {r \in redeemed : r.code \in BoundCodesOf(k)} = {}
    BY DEF StoreInit
  <2>2. QED BY <2>1, FS_EmptySet DEF AdmitsBy
<1>4. OneLiveRedemption
  BY DEF StoreInit, OneLiveRedemption
<1>5. UsesWithinLimit
  BY DEF StoreInit, UsesWithinLimit
<1>6. CeilingCovers
  BY DEF StoreInit, CeilingCovers, GrantOf, EffectiveGrant, DefaultAllowance
<1>7. AdmitsWithinCeiling
  BY <1>1, <1>3 DEF AdmitsWithinCeiling, TypeOK
<1>8. QED BY <1>1, <1>4, <1>5, <1>6, <1>7 DEF StoreInv

-----------------------------------------------------------------------------
(* Minting. *)

\* The limits of a fresh code have the right type: a console code's from the
\* request, everyone else's clamped to the grant.
LEMMA TermsType ==
    ASSUME TypeOK, NEW k \in Keys, NEW asAdmin \in BOOLEAN,
           NEW uses \in AskedUses, NEW ttl \in AskedTtls, asAdmin \/ MayMint(k)
    PROVE  LET terms == IF asAdmin THEN AdminTerms(uses, ttl) ELSE BoundTerms(k, uses, ttl)
           IN  terms.maxUses \in Option(Nat) /\ terms.expires \in Option(Nat)
<1>1. CASE asAdmin
  BY <1>1 DEF AdminTerms, Option, TypeOK
<1>2. CASE ~asAdmin
  <2>1. GrantOf(k) \in Grant
    BY <1>2, GrantsInForce DEF MayMint, GrantOf, TypeOK
  <2>2. AdmitsLeft(k) \in Nat
    BY <2>1, CountsAreNat DEF AdmitsLeft, Monus, Grant
  <2>3. BoundTerms(k, uses, ttl).maxUses \in Nat
    BY <2>1, <2>2 DEF BoundTerms, LesserOf, Grant, Option
  <2>4. BoundTerms(k, uses, ttl).expires \in Nat
    BY <2>1 DEF BoundTerms, LesserOf, Grant, Option, TypeOK
  <2>5. QED BY <1>2, <2>3, <2>4 DEF Option
<1>3. QED BY <1>1, <1>2

\* Minting preserves the invariant: the new code has no redemption yet, so it
\* counts for nothing.
LEMMA MintPreserves ==
    ASSUME StoreInv, NEW c \in Codes, NEW k \in Keys, NEW asAdmin \in BOOLEAN,
           NEW uses \in AskedUses, NEW ttl \in AskedTtls,
           Mint(c, k, asAdmin, uses, ttl)
    PROVE  StoreInv'
<1> DEFINE terms == IF asAdmin THEN AdminTerms(uses, ttl) ELSE BoundTerms(k, uses, ttl)
           fresh == [by |-> k, admin |-> asAdmin, maxUses |-> terms.maxUses,
                     expires |-> terms.expires, revoked |-> FALSE]
<1>0. TypeOK BY DEF StoreInv
<1>1. fresh \in Invite
  BY <1>0, TermsType DEF Mint, Invite
<1>2. /\ invites[c] = None
      /\ invites' = [invites EXCEPT ![c] = fresh]
      /\ UNCHANGED <<redeemed, evicted, grants, auto, now, admitCeiling, codeCeiling>>
  BY DEF Mint, ceilings
<1> HIDE DEF fresh, terms
<1>3. \A r \in redeemed : r.code # c
  BY <1>0, <1>2 DEF TypeOK
<1>4. \A d \in Codes : RedemptionsOf(d)' = RedemptionsOf(d) /\ Uses(d)' = Uses(d)
  BY <1>2 DEF RedemptionsOf, Uses
<1>5. TypeOK'
  <2>1. invites' \in [Codes -> Option(Invite)]
    BY <1>0, <1>1, <1>2 DEF TypeOK, Option
  <2>2. \A r \in redeemed : r.code \in Codes
    BY <1>0 DEF TypeOK, Redemption
  <2>3. \A r \in redeemed' : invites'[r.code] # None /\ r.n <= Uses(r.code)'
    BY <1>0, <1>2, <1>3, <1>4, <2>2 DEF TypeOK
  <2>4. QED BY <1>0, <1>2, <2>1, <2>3 DEF TypeOK
<1>6. OneLiveRedemption'
  BY <1>2 DEF StoreInv, OneLiveRedemption
<1>7. UsesWithinLimit'
  <2> SUFFICES ASSUME NEW d \in Codes, invites'[d] # None, invites'[d].maxUses # None
               PROVE  Uses(d)' <= invites'[d].maxUses
    BY DEF UsesWithinLimit
  <2>1. CASE d = c
    <3>1. RedemptionsOf(c) = {}
      BY <1>3 DEF RedemptionsOf
    <3>2. Uses(c)' = 0
      BY <1>4, <3>1, FS_EmptySet DEF Uses
    <3>3. invites'[c].maxUses \in Nat
      BY <1>5, <2>1 DEF TypeOK, Invite, Option
    <3>4. QED BY <2>1, <3>2, <3>3
  <2>2. CASE d # c
    BY <1>0, <1>2, <1>4, <2>2 DEF StoreInv, UsesWithinLimit, TypeOK
  <2>3. QED BY <2>1, <2>2
<1>8. CeilingCovers'
  BY <1>2 DEF StoreInv, CeilingCovers, GrantOf
<1>9. AdmitsWithinCeiling'
  <2> SUFFICES ASSUME NEW m \in Keys PROVE AdmitsBy(m)' <= admitCeiling'[m]
    BY DEF AdmitsWithinCeiling
  <2>1. \A d \in Codes : d # c => (d \in BoundCodesOf(m)' <=> d \in BoundCodesOf(m))
    BY <1>0, <1>2 DEF BoundCodesOf, MintedBy, TypeOK
  <2>2. \A r \in redeemed : r.code \in BoundCodesOf(m)' <=> r.code \in BoundCodesOf(m)
    BY <1>0, <1>3, <2>1 DEF TypeOK, Redemption
  <2>3. {r \in redeemed : r.code \in BoundCodesOf(m)}' = {r \in redeemed : r.code \in BoundCodesOf(m)}
    BY <1>2, <2>2
  <2>4. QED BY <1>2, <2>3 DEF AdmitsBy, StoreInv, AdmitsWithinCeiling
<1>10. QED BY <1>5, <1>6, <1>7, <1>8, <1>9 DEF StoreInv

-----------------------------------------------------------------------------
(* Redeeming. *)

\* Redeeming preserves the invariant: the key held nothing live, the code had a
\* use left, and its minter a place left.
LEMMA RedeemPreserves ==
    ASSUME StoreInv, NEW c \in Codes, NEW k \in Keys, Redeem(c, k)
    PROVE  StoreInv'
<1> DEFINE new == [code |-> c, n |-> Uses(c) + 1, pk |-> k]
<1>0. TypeOK BY DEF StoreInv
<1>1. /\ redeemed' = redeemed \cup {new}
      /\ UNCHANGED <<invites, evicted, grants, auto, now, admitCeiling, codeCeiling>>
      /\ invites[c] # None /\ LiveRedemptionsOf(k) = {}
  BY DEF Redeem, ceilings
<1>2. Uses(c) \in Nat
  BY <1>0, CountsAreNat
<1>3. new \in Redemption /\ new.code = c /\ new.pk = k /\ new.n = Uses(c) + 1
  BY <1>2 DEF Redemption
<1>4. new \notin redeemed
  BY <1>0, <1>2, <1>3 DEF TypeOK
<1> HIDE DEF new
<1>5. RedemptionsOf(c)' = RedemptionsOf(c) \cup {new} /\ new \notin RedemptionsOf(c)
  BY <1>1, <1>3, <1>4 DEF RedemptionsOf
<1>6. Uses(c)' = Uses(c) + 1
  BY <1>0, <1>5, CountsAreNat, AddOne DEF Uses
<1>7. \A d \in Codes : d # c => Uses(d)' = Uses(d)
  <2>1. \A d \in Codes : d # c => RedemptionsOf(d)' = RedemptionsOf(d)
    BY <1>1, <1>3 DEF RedemptionsOf
  <2>2. QED BY <2>1 DEF Uses
<1>8. TypeOK'
  <2>1. redeemed' \in SUBSET Redemption /\ evicted' \in SUBSET redeemed'
    BY <1>0, <1>1, <1>3 DEF TypeOK
  <2>2. IsFiniteSet(redeemed')
    BY <1>0, <1>1, AddOne DEF TypeOK
  <2>3. \A r \in redeemed : r.code \in Codes /\ r.n \in Nat /\ r.n <= Uses(r.code)
    BY <1>0 DEF TypeOK, Redemption
  <2>4. \A d \in Codes : Uses(d) \in Nat /\ Uses(d) <= Uses(d)'
    BY <1>0, <1>6, <1>7, CountsAreNat
  <2>5. \A r \in redeemed : r.n <= Uses(r.code)'
    BY <2>3, <2>4, <1>6, <1>7
  <2>6. \A r \in redeemed' : invites'[r.code] # None /\ r.n <= Uses(r.code)'
    BY <1>0, <1>1, <1>2, <1>3, <1>6, <2>5 DEF TypeOK
  <2>7. QED BY <1>0, <1>1, <2>1, <2>2, <2>6 DEF TypeOK
<1>9. OneLiveRedemption'
  BY <1>1, <1>3 DEF StoreInv, OneLiveRedemption, LiveRedemptionsOf
<1>10. UsesWithinLimit'
  <2> SUFFICES ASSUME NEW d \in Codes, invites'[d] # None, invites'[d].maxUses # None
               PROVE  Uses(d)' <= invites'[d].maxUses
    BY DEF UsesWithinLimit
  <2>1. CASE d = c
    <3>1. invites[c].maxUses \in Nat
      BY <1>0, <1>1, <2>1 DEF TypeOK, Invite, Option
    <3>2. ~(Uses(c) >= invites[c].maxUses)
      BY <1>1, <2>1 DEF Redeem, IsLive, IsExhausted
    <3>3. QED BY <1>1, <1>2, <1>6, <2>1, <3>1, <3>2
  <2>2. CASE d # c
    BY <1>1, <1>7, <2>2 DEF StoreInv, UsesWithinLimit
  <2>3. QED BY <2>1, <2>2
<1>11. CeilingCovers'
  BY <1>1 DEF StoreInv, CeilingCovers, GrantOf
<1>12. AdmitsWithinCeiling'
  <2> SUFFICES ASSUME NEW m \in Keys PROVE AdmitsBy(m)' <= admitCeiling[m]
    BY <1>1 DEF AdmitsWithinCeiling
  <2> DEFINE spent == {r \in redeemed : r.code \in BoundCodesOf(m)}
  <2>1. BoundCodesOf(m)' = BoundCodesOf(m)
    BY <1>1 DEF BoundCodesOf, MintedBy
  <2>2. IsFiniteSet(spent)
    BY <1>0, FS_Subset DEF TypeOK
  <2>3. AdmitsBy(m) = Cardinality(spent) /\ AdmitsBy(m) <= admitCeiling[m]
    BY DEF AdmitsBy, StoreInv, AdmitsWithinCeiling
  <2>4. CASE c \in BoundCodesOf(m)
    <3>1. {r \in redeemed : r.code \in BoundCodesOf(m)}' = spent \cup {new}
      BY <1>1, <1>3, <2>1, <2>4
    <3>2. AdmitsBy(m)' <= AdmitsBy(m) + 1 /\ AdmitsBy(m) \in Nat /\ AdmitsBy(m)' \in Nat
      <4> HIDE DEF spent
      <4>1. AdmitsBy(m)' = Cardinality(spent \cup {new})
        BY <3>1 DEF AdmitsBy
      <4>2. QED BY <2>2, <2>3, <4>1, AddOne
    <3>3. invites[c].by = m /\ ~invites[c].admin
      BY <2>4 DEF BoundCodesOf, MintedBy
    <3>4. GrantOf(m) # None /\ AdmitsBy(m) < GrantOf(m).maxTotal
      BY <3>3 DEF Redeem, MinterActive
    <3>5. GrantOf(m).maxTotal \in Nat /\ GrantOf(m).maxTotal <= admitCeiling[m]
      BY <1>0, <3>4, GrantsInForce DEF StoreInv, CeilingCovers, GrantOf, TypeOK, Grant
    <3>6. admitCeiling[m] \in Nat
      BY <1>0 DEF TypeOK
    <3>7. QED BY <3>2, <3>4, <3>5, <3>6
  <2>5. CASE c \notin BoundCodesOf(m)
    <3>1. {r \in redeemed : r.code \in BoundCodesOf(m)}' = spent
      BY <1>1, <1>3, <2>1, <2>5
    <3>2. QED BY <2>3, <3>1 DEF AdmitsBy
  <2>6. QED BY <2>4, <2>5
<1>13. QED BY <1>8, <1>9, <1>10, <1>11, <1>12 DEF StoreInv

-----------------------------------------------------------------------------
(* Taking away: revoking and evicting only mark what is on record. *)

\* A step that keeps the redemptions, the minters of every code and the codes'
\* limits, and only adds evictions, preserves the invariant.
LEMMA MarkingPreserves ==
    ASSUME StoreInv,
           invites' \in [Codes -> Option(Invite)],
           \A c \in Codes : (invites'[c] = None) <=> (invites[c] = None),
           \A c \in Codes : invites[c] # None =>
               /\ invites'[c].by = invites[c].by
               /\ invites'[c].admin = invites[c].admin
               /\ invites'[c].maxUses = invites[c].maxUses,
           evicted \subseteq evicted', evicted' \subseteq redeemed,
           UNCHANGED <<redeemed, grants, auto, now, admitCeiling, codeCeiling>>
    PROVE  StoreInv'
<1>0. TypeOK BY DEF StoreInv
<1>1. \A d \in Codes : Uses(d)' = Uses(d)
  BY DEF Uses, RedemptionsOf
<1>2. TypeOK'
  <2>1. \A r \in redeemed : r.code \in Codes
    BY <1>0 DEF TypeOK, Redemption
  <2>2. \A r \in redeemed' : invites'[r.code] # None /\ r.n <= Uses(r.code)'
    BY <1>0, <1>1, <2>1 DEF TypeOK
  <2>3. QED BY <1>0, <2>2 DEF TypeOK
<1>3. OneLiveRedemption'
  BY DEF StoreInv, OneLiveRedemption
<1>4. UsesWithinLimit'
  BY <1>1 DEF StoreInv, UsesWithinLimit
<1>5. CeilingCovers'
  BY DEF StoreInv, CeilingCovers, GrantOf
<1>6. \A m \in Keys : BoundCodesOf(m)' = BoundCodesOf(m)
  BY DEF BoundCodesOf, MintedBy
<1>7. AdmitsWithinCeiling'
  BY <1>6 DEF StoreInv, AdmitsWithinCeiling, AdmitsBy
<1>8. QED BY <1>2, <1>3, <1>4, <1>5, <1>7 DEF StoreInv

\* Revoking a code, with or without its people, preserves the invariant.
LEMMA RevokePreserves ==
    ASSUME StoreInv, NEW c \in Codes, NEW evict \in BOOLEAN, Revoke(c, evict)
    PROVE  StoreInv'
<1>0. TypeOK BY DEF StoreInv
<1>1. invites' = [invites EXCEPT ![c].revoked = TRUE] /\ invites[c] # None
  BY DEF Revoke
<1>2. invites[c] \in Invite
  BY <1>0, <1>1 DEF TypeOK, Option
<1>3. [invites[c] EXCEPT !.revoked = TRUE] \in Invite
  BY <1>2 DEF Invite
<1>4. invites' \in [Codes -> Option(Invite)]
  BY <1>0, <1>1, <1>3 DEF TypeOK, Option
<1>5. \A d \in Codes : (invites'[d] = None) <=> (invites[d] = None)
  BY <1>0, <1>1, <1>3 DEF TypeOK
<1>6. \A d \in Codes : invites[d] # None =>
               /\ invites'[d].by = invites[d].by
               /\ invites'[d].admin = invites[d].admin
               /\ invites'[d].maxUses = invites[d].maxUses
  BY <1>0, <1>1, <1>2 DEF TypeOK, Invite
<1>7. evicted \subseteq evicted' /\ evicted' \subseteq redeemed
  BY <1>0 DEF TypeOK, Revoke, EvictedByRevoke, RedemptionsOf
<1>8. UNCHANGED <<redeemed, grants, auto, now, admitCeiling, codeCeiling>>
  BY DEF Revoke, ceilings
<1>9. QED BY <1>4, <1>5, <1>6, <1>7, <1>8, MarkingPreserves

\* Evicting a key preserves the invariant.
LEMMA EvictPreserves ==
    ASSUME StoreInv, NEW k \in Keys, Evict(k)
    PROVE  StoreInv'
<1>0. TypeOK BY DEF StoreInv
<1>1. UNCHANGED <<invites, redeemed, grants, auto, now, admitCeiling, codeCeiling>>
  BY DEF Evict, ceilings
<1>2. evicted \subseteq evicted' /\ evicted' \subseteq redeemed
  BY <1>0 DEF TypeOK, Evict, LiveRedemptionsOf
<1>3. QED BY <1>0, <1>1, <1>2, MarkingPreserves DEF TypeOK

-----------------------------------------------------------------------------
(* Limits that move: grants, the relay's lists and the clock. *)

\* The ceilings rise to the limits in force, and never sink.
LEMMA CeilingsRise ==
    ASSUME TypeOK, grants' \in [Keys -> Option(Grant)], RaiseCeilings
    PROVE  /\ admitCeiling' \in [Keys -> Nat] /\ codeCeiling' \in [Keys -> Nat]
           /\ \A k \in Keys : admitCeiling[k] <= admitCeiling'[k]
           /\ CeilingCovers'
<1> DEFINE After(k) == EffectiveGrant(grants', auto', k)
<1>1. \A k \in Keys : After(k) # None => After(k).maxTotal \in Nat /\ After(k).maxCodes \in Nat
  <2>1. ASSUME NEW k \in Keys, After(k) # None PROVE After(k) \in Grant
    BY <2>1, GrantsInForce
  <2>2. \A g \in Grant : g.maxTotal \in Nat /\ g.maxCodes \in Nat
    BY DEF Grant
  <2> HIDE DEF After
  <2>3. QED BY <2>1, <2>2
<1>2. /\ admitCeiling' = [k \in Keys |->
            IF After(k) = None THEN admitCeiling[k] ELSE GreaterOf(admitCeiling[k], After(k).maxTotal)]
      /\ codeCeiling' = [k \in Keys |->
            IF After(k) = None THEN codeCeiling[k] ELSE GreaterOf(codeCeiling[k], After(k).maxCodes)]
  BY DEF RaiseCeilings
<1>3. \A k \in Keys : GrantOf(k)' = After(k)
  BY DEF GrantOf
<1> HIDE DEF After
<1>4. \A k \in Keys : admitCeiling[k] \in Nat /\ codeCeiling[k] \in Nat
  BY DEF TypeOK
<1>5. admitCeiling' \in [Keys -> Nat] /\ codeCeiling' \in [Keys -> Nat]
  BY <1>1, <1>2, <1>4 DEF GreaterOf
<1>6. \A k \in Keys : /\ admitCeiling[k] <= admitCeiling'[k]
                      /\ After(k) # None => After(k).maxTotal <= admitCeiling'[k]
  BY <1>1, <1>2, <1>4 DEF GreaterOf
<1>7. QED BY <1>3, <1>5, <1>6 DEF CeilingCovers

\* A step that touches only the limits, and raises the ceilings to them,
\* preserves the invariant.
LEMMA LimitsPreserve ==
    ASSUME StoreInv, UNCHANGED <<invites, redeemed, evicted>>,
           grants' \in [Keys -> Option(Grant)], auto' \in SUBSET Keys, now' \in Nat,
           RaiseCeilings
    PROVE  StoreInv'
<1>0. TypeOK BY DEF StoreInv
<1>1. /\ admitCeiling' \in [Keys -> Nat] /\ codeCeiling' \in [Keys -> Nat]
      /\ \A k \in Keys : admitCeiling[k] <= admitCeiling'[k]
      /\ CeilingCovers'
  BY <1>0, CeilingsRise
<1>2. \A k \in Keys : admitCeiling[k] \in Nat
  BY <1>0 DEF TypeOK
<1>3. \A d \in Codes : Uses(d)' = Uses(d)
  BY DEF Uses, RedemptionsOf
<1>4. TypeOK'
  <2>1. \A r \in redeemed : r.code \in Codes
    BY <1>0 DEF TypeOK, Redemption
  <2>2. \A r \in redeemed' : invites'[r.code] # None /\ r.n <= Uses(r.code)'
    BY <1>0, <1>3, <2>1 DEF TypeOK
  <2>3. QED BY <1>0, <1>1, <2>2 DEF TypeOK
<1>5. OneLiveRedemption'
  BY DEF StoreInv, OneLiveRedemption
<1>6. UsesWithinLimit'
  BY <1>3 DEF StoreInv, UsesWithinLimit
<1>7. AdmitsWithinCeiling'
  <2>1. \A m \in Keys : AdmitsBy(m)' = AdmitsBy(m) /\ AdmitsBy(m) \in Nat
    BY <1>0, CountsAreNat DEF AdmitsBy, BoundCodesOf, MintedBy
  <2>2. \A m \in Keys : AdmitsBy(m) <= admitCeiling[m] /\ admitCeiling'[m] \in Nat
    BY <1>1 DEF StoreInv, AdmitsWithinCeiling
  <2>3. QED BY <1>1, <1>2, <2>1, <2>2 DEF AdmitsWithinCeiling
<1>8. QED BY <1>1, <1>4, <1>5, <1>6, <1>7 DEF StoreInv

\* Nothing the limits are checked against moves with the clock.
LEMMA TickPreserves == StoreInv /\ Tick => StoreInv'
<1> SUFFICES ASSUME StoreInv, Tick PROVE StoreInv'
  OBVIOUS
<1>0. TypeOK BY DEF StoreInv
<1>1. UNCHANGED <<invites, redeemed, evicted, grants, auto, admitCeiling, codeCeiling>> /\ now' \in Nat
  BY <1>0 DEF Tick, stored, ceilings, TypeOK
<1>2. TypeOK'
  BY <1>0, <1>1 DEF TypeOK, Uses, RedemptionsOf
<1>3. UsesWithinLimit'
  BY <1>1 DEF StoreInv, UsesWithinLimit, Uses, RedemptionsOf
<1>4. AdmitsWithinCeiling'
  BY <1>1 DEF StoreInv, AdmitsWithinCeiling, AdmitsBy, BoundCodesOf, MintedBy
<1>5. QED
  BY <1>1, <1>2, <1>3, <1>4
  DEF StoreInv, OneLiveRedemption, CeilingCovers, GrantOf

-----------------------------------------------------------------------------
(* The theorems. *)

\* Every operation of the store preserves the invariant.
LEMMA NextPreserves == StoreInv /\ [StoreNext]_storeVars => StoreInv'
<1> SUFFICES ASSUME StoreInv, [StoreNext]_storeVars PROVE StoreInv'
  OBVIOUS
<1>0. TypeOK BY DEF StoreInv
<1>1. ASSUME NEW c \in Codes, NEW k \in Minters, NEW uses \in AskedUses, NEW ttl \in AskedTtls,
             Mint(c, k, FALSE, uses, ttl)
      PROVE  StoreInv'
  BY <1>1, MintPreserves
<1>2. ASSUME NEW c \in Codes, NEW k \in Admins, NEW uses \in AskedUses, NEW ttl \in AskedTtls,
             Mint(c, k, TRUE, uses, ttl)
      PROVE  StoreInv'
  BY <1>2, MintPreserves
<1>3. ASSUME NEW c \in Codes, NEW k \in Keys, Redeem(c, k) PROVE StoreInv'
  BY <1>3, RedeemPreserves
<1>4. ASSUME NEW c \in Codes, NEW evict \in BOOLEAN, Revoke(c, evict) PROVE StoreInv'
  BY <1>4, RevokePreserves
<1>5. ASSUME NEW k \in Keys, Evict(k) PROVE StoreInv'
  BY <1>5, EvictPreserves
<1>6. ASSUME NEW k \in Minters, NEW g \in Grants, SetGrant(k, g) PROVE StoreInv'
  <2>1. grants' \in [Keys -> Option(Grant)]
    BY <1>0, <1>6 DEF SetGrant, TypeOK, Option
  <2>2. QED BY <1>0, <1>6, <2>1, LimitsPreserve DEF SetGrant, TypeOK
<1>7. ASSUME NEW k \in Minters, RemoveGrant(k) PROVE StoreInv'
  <2>1. grants' \in [Keys -> Option(Grant)]
    BY <1>0, <1>7 DEF RemoveGrant, TypeOK, Option
  <2>2. QED BY <1>0, <1>7, <2>1, LimitsPreserve DEF RemoveGrant, TypeOK
<1>8. ASSUME NEW k \in Minters, ChangeLists(k) PROVE StoreInv'
  <2>1. auto' \in SUBSET Keys
    BY <1>0, <1>8 DEF ChangeLists, TypeOK
  <2>2. QED BY <1>0, <1>8, <2>1, LimitsPreserve DEF ChangeLists, stored, TypeOK
<1>9. CASE Tick
  BY <1>9, TickPreserves
<1>10. CASE UNCHANGED storeVars
  BY <1>10
  DEF storeVars, stored, ceilings, StoreInv, TypeOK, OneLiveRedemption, UsesWithinLimit,
      CeilingCovers, AdmitsWithinCeiling, Uses, RedemptionsOf, GrantOf, AdmitsBy,
      BoundCodesOf, MintedBy
<1>11. QED
  BY <1>1, <1>2, <1>3, <1>4, <1>5, <1>6, <1>7, <1>8, <1>9, <1>10 DEF StoreNext

\* The invariant holds throughout.
LEMMA Invariance == StoreSpec => []StoreInv
BY InitEstablishes, NextPreserves, PTL DEF StoreSpec

\* Type correctness of the store.
THEOREM StoreTypes == StoreSpec => []TypeOK
BY Invariance, PTL DEF StoreInv

\* However claims, evictions and new codes interleave, a key holds at most one
\* live redemption: redeem() is idempotent per key.
THEOREM AtMostOneLiveRedemption == StoreSpec => []OneLiveRedemption
BY Invariance, PTL DEF StoreInv

\* No code ever admits more than its max_uses, evictions included.
THEOREM CodesStayWithinTheirUses == StoreSpec => []UsesWithinLimit
BY Invariance, PTL DEF StoreInv

\* A minter's codes together never bring in more people than the most generous
\* total that was ever in force for the minter.
THEOREM MintersStayWithinTheirTotal == StoreSpec => []AdmitsWithinCeiling
BY Invariance, PTL DEF StoreInv

\* Redemptions stay on record and evictions are final.
THEOREM HistoryIsKept == StoreSpec => HistoryKept
<1>1. ASSUME StoreInv, [StoreNext]_storeVars
      PROVE  [redeemed \subseteq redeemed' /\ evicted \subseteq evicted']_storeVars
  BY <1>1 DEF StoreNext, Mint, Redeem, Revoke, Evict, SetGrant, RemoveGrant,
              ChangeLists, Tick, storeVars, stored
<1>2. QED BY <1>1, Invariance, PTL DEF StoreSpec, HistoryKept
-----------------------------------------------------------------------------
(* What a code keeps, and what it can only lose. *)

\* A minted code keeps its minter and its limits; revocations and redemptions
\* stay, and the clock does not go back.
LEMMA CodesKeepTheirTerms ==
    ASSUME TypeOK, [StoreNext]_storeVars, NEW c \in Codes, invites[c] # None
    PROVE  /\ invites'[c] # None
           /\ invites'[c].by = invites[c].by /\ invites'[c].admin = invites[c].admin
           /\ invites'[c].maxUses = invites[c].maxUses
           /\ invites'[c].expires = invites[c].expires
           /\ invites[c].revoked => invites'[c].revoked
           /\ redeemed \subseteq redeemed'
           /\ now' >= now
<1>0. invites \in [Codes -> Option(Invite)] /\ invites[c] \in Invite /\ now \in Nat
  BY DEF TypeOK, Option
<1>1. ASSUME NEW d \in Codes, NEW k \in Keys, NEW asAdmin \in BOOLEAN,
             NEW uses \in AskedUses, NEW ttl \in AskedTtls, Mint(d, k, asAdmin, uses, ttl)
      PROVE  invites'[c] = invites[c] /\ redeemed' = redeemed /\ now' = now
  BY <1>0, <1>1 DEF Mint
<1>2. ASSUME NEW d \in Codes, NEW k \in Keys, Redeem(d, k)
      PROVE  invites' = invites /\ redeemed \subseteq redeemed' /\ now' = now
  BY <1>2 DEF Redeem
<1>3. ASSUME NEW d \in Codes, NEW evict \in BOOLEAN, Revoke(d, evict)
      PROVE  /\ invites'[c] \in {invites[c], [invites[c] EXCEPT !.revoked = TRUE]}
             /\ redeemed' = redeemed /\ now' = now
  BY <1>0, <1>3 DEF Revoke
<1>4. CASE \/ \E k \in Keys : Evict(k)
           \/ \E k \in Minters, g \in Grants : SetGrant(k, g)
           \/ \E k \in Minters : RemoveGrant(k)
           \/ \E k \in Minters : ChangeLists(k)
           \/ UNCHANGED storeVars
  <2>1. invites' = invites /\ redeemed' = redeemed /\ now' = now
    BY <1>4 DEF Evict, SetGrant, RemoveGrant, ChangeLists, storeVars, stored
  <2>2. QED BY <1>0, <2>1
<1>5. CASE Tick
  BY <1>0, <1>5 DEF Tick, stored
<1>6. CASE \E d \in Codes, evict \in BOOLEAN : Revoke(d, evict)
  <2>1. PICK d \in Codes, evict \in BOOLEAN : Revoke(d, evict)
    BY <1>6
  <2>2. /\ invites'[c] \in {invites[c], [invites[c] EXCEPT !.revoked = TRUE]}
        /\ redeemed' = redeemed /\ now' = now
    BY <1>3, <2>1
  <2>3. CASE invites'[c] = invites[c]
    BY <1>0, <2>2, <2>3
  <2>4. CASE invites'[c] = [invites[c] EXCEPT !.revoked = TRUE]
    <3>1. invites'[c] \in Invite /\ invites'[c].revoked
      BY <1>0, <2>4 DEF Invite
    <3>2. /\ invites'[c].by = invites[c].by /\ invites'[c].admin = invites[c].admin
          /\ invites'[c].maxUses = invites[c].maxUses
          /\ invites'[c].expires = invites[c].expires
      BY <1>0, <2>4 DEF Invite
    <3>3. invites'[c] # None
      BY <3>1
    <3>4. redeemed \subseteq redeemed' /\ now' >= now
      BY <1>0, <2>2
    <3>5. QED BY <3>1, <3>2, <3>3, <3>4
  <2>5. QED BY <2>2, <2>3, <2>4
<1>7. CASE \E d \in Codes, k \in Minters, uses \in AskedUses, ttl \in AskedTtls :
              Mint(d, k, FALSE, uses, ttl)
  <2>1. invites'[c] = invites[c] /\ redeemed' = redeemed /\ now' = now
    BY <1>1, <1>7
  <2>2. QED BY <1>0, <2>1
<1>8. CASE \E d \in Codes, k \in Admins, uses \in AskedUses, ttl \in AskedTtls :
              Mint(d, k, TRUE, uses, ttl)
  <2>1. invites'[c] = invites[c] /\ redeemed' = redeemed /\ now' = now
    BY <1>1, <1>8
  <2>2. QED BY <1>0, <2>1
<1>9. CASE \E d \in Codes, k \in Keys : Redeem(d, k)
  <2>1. invites' = invites /\ redeemed \subseteq redeemed' /\ now' = now
    BY <1>2, <1>9
  <2>2. QED BY <1>0, <2>1
<1>10. QED BY <1>4, <1>5, <1>6, <1>7, <1>8, <1>9 DEF StoreNext

\* No step brings a dead code back to life: each of the three causes of death lasts.
LEMMA DeathLasts ==
    ASSUME TypeOK, TypeOK', [StoreNext]_storeVars, NEW c \in Codes, invites[c] # None, IsLive(c)'
    PROVE  IsLive(c)
<1>1. /\ invites'[c].maxUses = invites[c].maxUses /\ invites'[c].expires = invites[c].expires
      /\ invites[c].revoked => invites'[c].revoked
      /\ redeemed \subseteq redeemed' /\ now' >= now
  BY CodesKeepTheirTerms
<1>2. invites[c] \in Invite /\ now \in Nat /\ now' \in Nat
  BY DEF TypeOK, Option
<1>3. Uses(c) <= Uses(c)' /\ Uses(c) \in Nat /\ Uses(c)' \in Nat
  <2>1. IsFiniteSet(RedemptionsOf(c)') /\ Uses(c)' \in Nat
    <3>1. RedemptionsOf(c)' \subseteq redeemed' /\ IsFiniteSet(redeemed')
      BY DEF RedemptionsOf, TypeOK
    <3>2. QED BY <3>1, FS_Subset, FS_CardinalityType DEF Uses
  <2>2. RedemptionsOf(c) \subseteq RedemptionsOf(c)'
    BY <1>1 DEF RedemptionsOf
  <2>3. QED BY <2>1, <2>2, CountsAreNat, FS_Subset DEF Uses
<1>4. IsExpired(c) => IsExpired(c)'
  BY <1>1, <1>2 DEF IsExpired, Invite, Option
<1>5. IsExhausted(c) => IsExhausted(c)'
  BY <1>1, <1>2, <1>3 DEF IsExhausted, Invite, Option
<1>6. QED BY <1>1, <1>2, <1>4, <1>5 DEF IsLive, Invite

\* The ghost codeCeiling really is a ceiling of the limit in force.
CodeCeilingCovers ==
    \A k \in Keys : GrantOf(k) # None => GrantOf(k).maxCodes <= codeCeiling[k]

TermsInv == StoreInv /\ CodeCeilingCovers /\ LiveCodesWithinCeiling /\ BoundCodesAreFinite

\* A minter's own live codes.
LiveBound(k) == {c \in BoundCodesOf(k) : IsLive(c)}

\* The live codes of any set are finitely many.
LEMMA LiveCodesAreFinite ==
    ASSUME NEW k \in Keys
    PROVE  /\ IsFiniteSet(LiveBound(k)) /\ Cardinality(LiveBound(k)) \in Nat
           /\ LiveCodesBy(k) \in Nat /\ Cardinality(LiveBound(k)) <= LiveCodesBy(k)
<1> DEFINE live == {c \in MintedBy(k) : IsLive(c)}
<1>1. LiveBound(k) \subseteq live /\ live \subseteq Codes
  BY DEF LiveBound, BoundCodesOf, MintedBy
<1>2. IsFiniteSet(live)
  BY <1>1, FS_Subset
<1>3. QED BY <1>1, <1>2, FS_Subset, FS_CardinalityType DEF LiveCodesBy

\* In the initial state no code is minted and the ceilings are the allowance.
LEMMA InitTerms == StoreInit => TermsInv
<1> SUFFICES ASSUME StoreInit PROVE TermsInv
  OBVIOUS
<1>1. StoreInv
  BY InitEstablishes
<1>2. CodeCeilingCovers
  BY DEF StoreInit, CodeCeilingCovers, GrantOf, EffectiveGrant, DefaultAllowance
<1>3. LiveCodesWithinCeiling
  <2>1. \A k \in Keys : {c \in BoundCodesOf(k) : IsLive(c)} = {}
    BY DEF StoreInit, BoundCodesOf, MintedBy
  <2>2. \A k \in Keys : codeCeiling[k] \in Nat
    BY <1>1 DEF StoreInv, TypeOK
  <2>3. QED BY <2>1, <2>2, FS_EmptySet DEF LiveCodesWithinCeiling
<1>4. BoundCodesAreFinite
  BY DEF StoreInit, BoundCodesAreFinite
<1>5. QED BY <1>1, <1>2, <1>3, <1>4 DEF TermsInv

\* The ceiling on live codes follows the limits: no step lowers it, and one that
\* changes the limits raises it to what is in force.
LEMMA CeilingFollows ==
    ASSUME TermsInv, StoreInv', [StoreNext]_storeVars
    PROVE  CodeCeilingCovers' /\ \A k \in Keys : codeCeiling[k] <= codeCeiling'[k]
<1>0. codeCeiling \in [Keys -> Nat] /\ TypeOK' /\ CodeCeilingCovers
  BY DEF TermsInv, StoreInv, TypeOK
<1>1. CASE UNCHANGED <<grants, auto, codeCeiling>>
  BY <1>0, <1>1 DEF CodeCeilingCovers, GrantOf
<1>2. CASE RaiseCeilings
  <2> DEFINE After(k) == EffectiveGrant(grants', auto', k)
  <2>1. \A k \in Keys : codeCeiling'[k] = IF After(k) = None THEN codeCeiling[k]
                                          ELSE GreaterOf(codeCeiling[k], After(k).maxCodes)
    BY <1>2 DEF RaiseCeilings
  <2>2. \A k \in Keys : After(k) # None => After(k).maxCodes \in Nat
    BY <1>0, GrantsInForce DEF TypeOK, Grant
  <2>3. \A k \in Keys : GrantOf(k)' = After(k)
    BY DEF GrantOf
  <2> HIDE DEF After
  <2>4. QED BY <1>0, <2>1, <2>2, <2>3 DEF CodeCeilingCovers, GreaterOf
<1>3. UNCHANGED <<grants, auto, codeCeiling>> \/ RaiseCeilings
  BY DEF StoreNext, Mint, Redeem, Revoke, Evict, SetGrant, RemoveGrant, ChangeLists,
         Tick, storeVars, stored, ceilings
<1>4. QED BY <1>1, <1>2, <1>3

\* A step that mints no code under a grant adds none to the live ones.
LEMMA NoLiveCodeAppears ==
    ASSUME TypeOK, TypeOK', [StoreNext]_storeVars, NEW k \in Keys,
           \A c \in Codes : invites[c] = None => invites'[c] = None \/ invites'[c].admin
    PROVE  LiveBound(k)' \subseteq LiveBound(k)
<1> SUFFICES ASSUME NEW c \in LiveBound(k)' PROVE c \in LiveBound(k)
  OBVIOUS
<1>1. /\ c \in Codes /\ invites'[c] # None /\ invites'[c].by = k /\ ~invites'[c].admin
      /\ IsLive(c)'
  BY DEF LiveBound, BoundCodesOf, MintedBy
<1>2. invites[c] # None
  BY <1>1
<1>3. QED
  BY <1>1, <1>2, CodesKeepTheirTerms, DeathLasts DEF LiveBound, BoundCodesOf, MintedBy

\* Minting under a grant adds one code at most, and only below the limit in force.
LEMMA MintedWithinCeiling ==
    ASSUME TermsInv, StoreInv', [StoreNext]_storeVars, NEW d \in Codes, NEW m \in Minters,
           NEW uses \in AskedUses, NEW ttl \in AskedTtls, Mint(d, m, FALSE, uses, ttl),
           NEW k \in Keys
    PROVE  Cardinality(LiveBound(k))' <= codeCeiling'[k]
<1>0. TypeOK /\ TypeOK' /\ m \in Keys /\ codeCeiling \in [Keys -> Nat]
  BY DEF TermsInv, StoreInv, TypeOK
<1>1. /\ codeCeiling' = codeCeiling /\ MayMint(m) /\ invites[d] = None
      /\ invites'[d].by = m
      /\ \A c \in Codes \ {d} : invites'[c] = invites[c]
  BY <1>0 DEF Mint, ceilings, TypeOK
<1>2. LiveBound(k)' \subseteq LiveBound(k) \cup IF k = m THEN {d} ELSE {}
  <2> SUFFICES ASSUME NEW c \in LiveBound(k)', c # d \/ k # m PROVE c \in LiveBound(k)
    OBVIOUS
  <2>1. /\ c \in Codes /\ invites'[c] # None /\ invites'[c].by = k /\ ~invites'[c].admin
        /\ IsLive(c)'
    BY DEF LiveBound, BoundCodesOf, MintedBy
  <2>2. c # d
    BY <1>1, <2>1
  <2>3. QED
    BY <1>0, <1>1, <2>1, <2>2, DeathLasts DEF LiveBound, BoundCodesOf, MintedBy
<1>3. Cardinality(LiveBound(k)) <= codeCeiling[k]
  BY DEF TermsInv, LiveCodesWithinCeiling, LiveBound
<1>4. CASE k # m
  <2>1. LiveBound(k)' \subseteq LiveBound(k)
    BY <1>2, <1>4
  <2>2. Cardinality(LiveBound(k)') <= Cardinality(LiveBound(k)) /\ Cardinality(LiveBound(k)') \in Nat
    BY <2>1, LiveCodesAreFinite, FS_Subset, FS_CardinalityType
  <2>3. QED BY <1>0, <1>1, <1>3, <2>2, LiveCodesAreFinite
<1>5. CASE k = m
  <2>1. GrantOf(m) # None /\ GrantOf(m) \in Grant
    BY <1>0, <1>1, GrantsInForce DEF MayMint, GrantOf, TypeOK
  <2>2. LiveCodesBy(m) < GrantOf(m).maxCodes /\ GrantOf(m).maxCodes <= codeCeiling[m]
    BY <1>0, <1>1, <2>1 DEF MayMint, TermsInv, CodeCeilingCovers
  <2>3. GrantOf(m).maxCodes \in Nat
    BY <2>1 DEF Grant
  <2>4. /\ IsFiniteSet(LiveBound(m) \cup {d})
        /\ Cardinality(LiveBound(m) \cup {d}) <= Cardinality(LiveBound(m)) + 1
        /\ Cardinality(LiveBound(m) \cup {d}) \in Nat
    BY <1>0, LiveCodesAreFinite, AddOne
  <2>5. LiveBound(m)' \subseteq LiveBound(m) \cup {d}
    BY <1>2, <1>5
  <2>6. Cardinality(LiveBound(m)') <= Cardinality(LiveBound(m) \cup {d}) /\ Cardinality(LiveBound(m)') \in Nat
    BY <2>4, <2>5, FS_Subset, FS_CardinalityType
  <2>7. Cardinality(LiveBound(m)) <= LiveCodesBy(m) /\ LiveCodesBy(m) \in Nat /\ Cardinality(LiveBound(m)) \in Nat
    BY <1>0, LiveCodesAreFinite
  <2>8. Cardinality(LiveBound(m)') <= codeCeiling'[m]
    BY <1>0, <1>1, <2>2, <2>3, <2>4, <2>6, <2>7
  <2>9. QED BY <1>5, <2>8
<1>6. QED BY <1>4, <1>5

\* A grant's code gets a limit of uses and an expiry, and keeps both.
LEMMA FiniteTermsStay ==
    ASSUME TermsInv, StoreInv', [StoreNext]_storeVars
    PROVE  BoundCodesAreFinite'
<1> SUFFICES ASSUME NEW c \in Codes, invites'[c] # None, ~invites'[c].admin
             PROVE  invites'[c].maxUses # None /\ invites'[c].expires # None
  BY DEF BoundCodesAreFinite
<1>0. TypeOK BY DEF TermsInv, StoreInv
<1>1. CASE invites[c] # None
  BY <1>0, <1>1, CodesKeepTheirTerms DEF TermsInv, BoundCodesAreFinite
<1>2. CASE invites[c] = None
  <2>1. PICK m \in Minters, uses \in AskedUses, ttl \in AskedTtls : Mint(c, m, FALSE, uses, ttl)
    <3>1. ASSUME NEW d \in Codes, NEW m \in Keys, NEW asAdmin \in BOOLEAN,
                 NEW uses \in AskedUses, NEW ttl \in AskedTtls, Mint(d, m, asAdmin, uses, ttl)
          PROVE  c = d /\ ~asAdmin
      BY <1>0, <1>2, <3>1 DEF Mint, TypeOK
    <3>2. ASSUME NEW d \in Codes, NEW evict \in BOOLEAN, Revoke(d, evict) PROVE FALSE
      BY <1>0, <1>2, <3>2 DEF Revoke, TypeOK
    <3>3. ASSUME invites' = invites PROVE FALSE
      BY <1>2, <3>3
    <3>4. QED
      BY <3>1, <3>2, <3>3
      DEF StoreNext, Redeem, Evict, SetGrant, RemoveGrant, ChangeLists, Tick, storeVars, stored
  <2>2. BoundTerms(m, uses, ttl).maxUses \in Nat /\ BoundTerms(m, uses, ttl).expires \in Nat
    <3>1. GrantOf(m) \in Grant
      BY <1>0, <2>1, GrantsInForce DEF Mint, MayMint, GrantOf, TypeOK
    <3>2. AdmitsLeft(m) \in Nat
      BY <1>0, <3>1, CountsAreNat DEF AdmitsLeft, Monus, Grant
    <3>3. QED BY <1>0, <3>1, <3>2 DEF BoundTerms, LesserOf, Grant, Option, TypeOK
  <2>3. /\ invites'[c].maxUses = BoundTerms(m, uses, ttl).maxUses
        /\ invites'[c].expires = BoundTerms(m, uses, ttl).expires
    BY <1>0, <2>1 DEF Mint, TypeOK
  <2>4. QED BY <2>2, <2>3
<1>3. QED BY <1>1, <1>2

\* Every operation keeps the terms.
LEMMA TermsPreserved == TermsInv /\ [StoreNext]_storeVars => TermsInv'
<1> SUFFICES ASSUME TermsInv, [StoreNext]_storeVars PROVE TermsInv'
  OBVIOUS
<1>1. StoreInv' /\ TypeOK /\ TypeOK'
  BY NextPreserves DEF TermsInv, StoreInv
<1>2. CodeCeilingCovers' /\ \A k \in Keys : codeCeiling[k] <= codeCeiling'[k]
  BY <1>1, CeilingFollows
<1>3. LiveCodesWithinCeiling'
  <2> SUFFICES ASSUME NEW k \in Keys PROVE Cardinality(LiveBound(k))' <= codeCeiling'[k]
    BY DEF LiveCodesWithinCeiling, LiveBound
  <2>1. CASE \E c \in Codes, m \in Minters, uses \in AskedUses, ttl \in AskedTtls :
                Mint(c, m, FALSE, uses, ttl)
    BY <1>1, <2>1, MintedWithinCeiling
  <2>2. CASE ~\E c \in Codes, m \in Minters, uses \in AskedUses, ttl \in AskedTtls :
                 Mint(c, m, FALSE, uses, ttl)
    <3>1. \A c \in Codes : invites[c] = None => invites'[c] = None \/ invites'[c].admin
      <4> SUFFICES ASSUME NEW c \in Codes, invites[c] = None
                   PROVE  invites'[c] = None \/ invites'[c].admin
        OBVIOUS
      <4>1. ASSUME NEW d \in Codes, NEW m \in Keys,
                   NEW uses \in AskedUses, NEW ttl \in AskedTtls, Mint(d, m, TRUE, uses, ttl)
            PROVE  invites'[c] = None \/ invites'[c].admin
        BY <1>1, <4>1 DEF Mint, TypeOK
      <4>2. ASSUME NEW d \in Codes, NEW evict \in BOOLEAN, Revoke(d, evict)
            PROVE  invites'[c] = None
        BY <1>1, <4>2 DEF Revoke, TypeOK
      <4>3. QED
        BY <2>2, <4>1, <4>2
        DEF StoreNext, Redeem, Evict, SetGrant, RemoveGrant, ChangeLists, Tick, storeVars, stored
    <3>2. LiveBound(k)' \subseteq LiveBound(k)
      BY <1>1, <3>1, NoLiveCodeAppears
    <3>3. Cardinality(LiveBound(k)') <= Cardinality(LiveBound(k)) /\ Cardinality(LiveBound(k)') \in Nat
      BY <3>2, LiveCodesAreFinite, FS_Subset, FS_CardinalityType
    <3>4. Cardinality(LiveBound(k)) <= codeCeiling[k]
      BY DEF TermsInv, LiveCodesWithinCeiling, LiveBound
    <3>5. QED BY <1>1, <1>2, <3>3, <3>4, LiveCodesAreFinite DEF TypeOK
  <2>3. QED BY <2>1, <2>2
<1>4. BoundCodesAreFinite'
  BY <1>1, FiniteTermsStay
<1>5. QED BY <1>1, <1>2, <1>3, <1>4 DEF TermsInv

\* What is left of the limits is positive exactly when what is spent is below them.
LEMMA PanelCounts == TypeOK => PanelAgreesWithMint
<1> SUFFICES ASSUME TypeOK, NEW k \in Keys PROVE CanMint(k) <=> MayMint(k)
  BY DEF PanelAgreesWithMint
<1>1. CASE GrantOf(k) = None
  BY <1>1 DEF CanMint, MayMint
<1>2. CASE GrantOf(k) # None
  <2>1. GrantOf(k).maxCodes \in Nat /\ GrantOf(k).maxTotal \in Nat
    BY <1>2, GrantsInForce DEF GrantOf, Grant, TypeOK
  <2>2. LiveCodesBy(k) \in Nat /\ AdmitsBy(k) \in Nat
    BY LiveCodesAreFinite, CountsAreNat
  <2>3. QED BY <1>2, <2>1, <2>2 DEF CanMint, MayMint, CodesLeft, AdmitsLeft, Monus
<1>3. QED BY <1>1, <1>2

\* A minter's terms hold for every code minted under them, however the limits move: no
\* more live codes than ever allowed, none without limits, and a panel that offers what
\* mint() grants.
THEOREM MintersTermsHold == StoreSpec => []TermsHold
<1>1. TermsInv => TermsHold
  BY PanelCounts DEF TermsInv, StoreInv, TermsHold
<1>2. QED BY <1>1, InitTerms, TermsPreserved, PTL DEF StoreSpec

\* A code that was revoked, has expired or is used up never admits anyone again.
THEOREM DeadForGood == StoreSpec => DeadCodesStayDead
<1>1. ASSUME StoreInv, StoreInv', [StoreNext]_storeVars
      PROVE  [\A c \in Codes : invites[c] # None /\ ~IsLive(c) => ~IsLive(c)']_storeVars
  BY <1>1, DeathLasts DEF StoreInv
<1>2. QED BY <1>1, Invariance, PTL DEF StoreSpec, DeadCodesStayDead

-----------------------------------------------------------------------------
(* The handlers around the store. *)

USE NobodyAssumption

-----------------------------------------------------------------------------
(* What a restart may load. *)

\* The positions of a code's redemptions are those of a vector.
Numbered(R) ==
    /\ R \subseteq Redemption
    /\ IsFiniteSet(R)
    /\ \A r \in R : r.n <= Cardinality({s \in R : s.code = r.code})

\* The redemptions R, of which E are evicted, hold no key twice.
Sound(R, E) ==
    /\ Numbered(R)
    /\ E \subseteq R
    /\ \A r, s \in R \ E : r.pk = s.pk => r = s

SoundFile(f) == IsSaved(f) => Sound(f.redeemed, f.evicted)

\* Every state that was saved, or is about to be, is sound.
FilesSound ==
    /\ SoundFile(disk) /\ SoundFile(tmp) /\ SoundFile(backup)
    /\ \A w \in Workers : task[w].at \in {"open", "write"} => SoundFile(task[w].snap)

\* t has the fields of a task.
IsTask(t) ==
    {"at", "who", "victim", "claims", "evictions", "grant", "snap", "fd"} \subseteq DOMAIN t

TaskShape ==
    /\ DOMAIN task = Workers
    /\ task = [w \in Workers |-> task[w]]
    /\ \A w \in Workers :
          /\ IsTask(task[w])
          /\ task[w].at = "check" => task[w].victim = None

-----------------------------------------------------------------------------
(* The hot-path copy. *)

Live(pk) == LiveRedemptionsOf(pk) # {}

\* A key on its way in is live, one on its way out is not, and otherwise the copy is exact.
Exact(pk) ==
    /\ Admitting(pk) => Live(pk)
    /\ Withdrawing(pk) => ~Live(pk)
    /\ ~Admitting(pk) /\ ~Withdrawing(pk) => (pk \in invited <=> Live(pk))

AdmissionInv ==
    /\ TaskShape
    /\ Sound(redeemed, evicted)
    /\ FilesSound
    /\ \A pk \in Keys \ raced : Exact(pk)

LEMMA NothingIsSound == Sound({}, {})
BY FS_EmptySet DEF Sound, Numbered

LEMMA AdmissionInit_Inv == AdmissionInit => AdmissionInv
<1> SUFFICES ASSUME AdmissionInit PROVE AdmissionInv
  OBVIOUS
<1>1. TaskShape /\ \A w \in Workers : task[w].at = "idle"
  BY DEF AdmissionInit, TaskShape, IsTask, Idle
<1>2. Sound(redeemed, evicted)
  BY NothingIsSound DEF AdmissionInit, StoreInit
<1>3. FilesSound
  BY <1>1 DEF AdmissionInit, FilesSound, SoundFile, IsSaved
<1>4. \A pk \in Keys : Exact(pk)
  BY <1>1 DEF AdmissionInit, StoreInit, Exact, Admitting, Withdrawing, Live, LiveRedemptionsOf
<1>5. QED BY <1>1, <1>2, <1>3, <1>4 DEF AdmissionInv

-----------------------------------------------------------------------------
(* Steps that concern neither the copy nor who is on the way. *)

OnTheWay == {"admit", "readmit", "check", "drop"}

\* The task of v is on nobody's way, before and after, or the same.
Aside(v) ==
    \/ task[v].at \notin OnTheWay /\ task'[v].at \notin OnTheWay
    \/ task'[v].at = task[v].at /\ task'[v].who = task[v].who /\ task'[v].victim = task[v].victim

LEMMA AsideStep ==
    ASSUME AdmissionInv, TaskShape', FilesSound',
           \A v \in Workers : Aside(v),
           UNCHANGED <<invited, redeemed, evicted, raced>>
    PROVE  AdmissionInv'
<1>1. \A pk : (Admitting(pk)' <=> Admitting(pk)) /\ (Withdrawing(pk)' <=> Withdrawing(pk))
  BY DEF Aside, OnTheWay, Admitting, Withdrawing
<1>2. \A pk : Live(pk)' <=> Live(pk)
  BY DEF Live, LiveRedemptionsOf
<1>3. QED BY <1>1, <1>2 DEF AdmissionInv, Exact

\* A worker begins a task, or ends one: the shape of the others stays.
LEMMA BegunTask ==
    ASSUME AdmissionInv, NEW w \in Workers, NEW begun, Begin(w, begun),
           IsTask(begun),
           begun.at = "check" => begun.victim = None
    PROVE  /\ TaskShape'
           /\ task'[w] = begun
           /\ \A v \in Workers : v # w => task'[v] = task[v]
BY DEF Begin, AdmissionInv, TaskShape

\* Minting, revoking, grants: a store operation that evicts and redeems nothing.
LEMMA StoreRequestKeeps ==
    ASSUME AdmissionInv, NEW w \in Workers, NEW begun, Begin(w, begun), IsTask(begun),
           begun.at \in {"snapshot", "grant"},
           task[w].at = "idle",
           UNCHANGED <<invited, redeemed, evicted, raced, disk, tmp, backup>>
    PROVE  AdmissionInv'
<1>1. /\ TaskShape'
      /\ task'[w] = begun
      /\ \A v \in Workers : v # w => task'[v] = task[v]
  BY BegunTask
<1>2. FilesSound'
  BY <1>1 DEF AdmissionInv, FilesSound, SoundFile
<1>3. \A v \in Workers : Aside(v)
  BY <1>1 DEF Aside, OnTheWay
<1>4. QED BY <1>1, <1>2, <1>3, AsideStep

\* Requests that leave the copy alone.
LEMMA ListRequestsKeep ==
    ASSUME AdmissionInv, NEW w \in Workers,
           \/ \E c \in Codes : \E pk, asAdmin, uses, ttl :
                 MintAndPersist(w, c, pk, asAdmin, uses, ttl)
           \/ \E c \in Codes : RevokeRequest(w, c)
           \/ \E pk \in Minters, r \in GrantRequests : GrantRead(w, pk, r)
           \/ \E pk \in Minters : UngrantRequest(w, pk)
    PROVE  AdmissionInv'
<1> DEFINE saving == [Idle EXCEPT !.at = "snapshot"]
<1>1. IsTask(saving) /\ saving.at = "snapshot"
  BY DEF Idle, IsTask
<1> HIDE DEF saving
<1>2. ASSUME NEW c \in Codes, NEW pk, NEW asAdmin, NEW uses, NEW ttl,
             MintAndPersist(w, c, pk, asAdmin, uses, ttl)
      PROVE  AdmissionInv'
  BY <1>1, <1>2, StoreRequestKeeps DEF MintAndPersist, Mint, fileVars, saving
<1>3. ASSUME NEW c \in Codes, RevokeRequest(w, c) PROVE AdmissionInv'
  <2>1. UNCHANGED evicted
    BY <1>3 DEF RevokeRequest, Revoke, EvictedByRevoke
  <2>2. QED BY <1>1, <1>3, <2>1, StoreRequestKeeps DEF RevokeRequest, Revoke, fileVars, saving
<1>4. ASSUME NEW pk \in Minters, NEW r, GrantRead(w, pk, r) PROVE AdmissionInv'
  <2>1. PICK g : Begin(w, [Idle EXCEPT !.at = "grant", !.victim = pk, !.grant = g, !.asked = r])
    BY <1>4 DEF GrantRead, GrantBegins
  <2> DEFINE t == [Idle EXCEPT !.at = "grant", !.victim = pk, !.grant = g, !.asked = r]
  <2>2. IsTask(t) /\ t.at = "grant"
    BY DEF Idle, IsTask
  <2>3. Begin(w, t)
    BY <2>1
  <2> HIDE DEF t
  <2>4. QED BY <1>4, <2>2, <2>3, StoreRequestKeeps DEF GrantRead, GrantBegins, storeVars, stored, fileVars
<1>5. ASSUME NEW pk \in Minters, UngrantRequest(w, pk) PROVE AdmissionInv'
  BY <1>1, <1>5, StoreRequestKeeps DEF UngrantRequest, RemoveGrant, fileVars, saving
<1>6. QED BY <1>2, <1>3, <1>4, <1>5

-----------------------------------------------------------------------------
(* persist(), grants and backups. *)

\* What one step of persist() does to the task, and to the files.
LEMMA PersistStep ==
    ASSUME AdmissionInv, NEW w \in Workers,
           TaskShape',
           \A v \in Workers : v = w \/ task'[v].at = task[v].at,
           \A v \in Workers : v = w \/ task'[v].who = task[v].who,
           \A v \in Workers : v = w \/ task'[v].victim = task[v].victim,
           \A v \in Workers : v = w \/ task'[v].snap = task[v].snap,
           task[w].at \notin OnTheWay, task'[w].at \notin OnTheWay,
           task'[w].at \in {"open", "write"} => SoundFile(task'[w].snap),
           SoundFile(disk'), SoundFile(tmp'),
           UNCHANGED <<invited, redeemed, evicted, raced, backup>>
    PROVE  AdmissionInv'
<1>1. FilesSound'
  BY DEF AdmissionInv, FilesSound, SoundFile
<1>2. \A v \in Workers : Aside(v)
  BY DEF Aside
<1>3. QED BY <1>1, <1>2, AsideStep

LEMMA WorkerRests ==
    ASSUME AdmissionInv, NEW w \in Workers, Done(w)
    PROVE  /\ TaskShape'
           /\ task'[w].at = "idle" /\ task'[w].snap = None
           /\ \A v \in Workers : v # w => task'[v] = task[v]
BY DEF Done, AdmissionInv, TaskShape, IsTask, Idle

LEMMA PersistKeeps ==
    ASSUME AdmissionInv, NEW w \in Workers,
           \/ Snapshot(w) \/ OpenTmp(w) \/ WriteTmp(w) \/ RenameTmp(w) \/ PersistFails(w)
           \/ GrantSet(w)
    PROVE  AdmissionInv'
<1> USE DEF storeVars, stored, fileVars
<1>0. /\ TaskShape /\ Sound(redeemed, evicted) /\ FilesSound
      /\ SoundFile(disk) /\ SoundFile(tmp)
      /\ IsTask(task[w])
  BY DEF AdmissionInv, FilesSound, TaskShape
<1>1. CASE Snapshot(w)
  <2>1. /\ task'[w].at = "open" /\ task'[w].snap = CurrentState /\ IsTask(task'[w])
        /\ \A v \in Workers : v # w => task'[v] = task[v]
        /\ DOMAIN task' = Workers /\ task' = [v \in Workers |-> task'[v]]
    BY <1>0, <1>1 DEF Snapshot, TaskShape, IsTask
  <2>2. TaskShape'
    BY <1>0, <2>1 DEF TaskShape
  <2>3. SoundFile(CurrentState)
    BY <1>0 DEF SoundFile, CurrentState
  <2>4. QED BY <1>0, <1>1, <2>1, <2>2, <2>3, PersistStep DEF Snapshot, OnTheWay
<1>2. CASE OpenTmp(w)
  <2>1. /\ task'[w].at = "write" /\ task'[w].snap = task[w].snap /\ IsTask(task'[w])
        /\ \A v \in Workers : v # w => task'[v] = task[v]
        /\ DOMAIN task' = Workers /\ task' = [v \in Workers |-> task'[v]]
    BY <1>0, <1>2 DEF OpenTmp, TaskShape, IsTask
  <2>2. TaskShape'
    BY <1>0, <2>1 DEF TaskShape
  <2>3. SoundFile(Empty) /\ SoundFile(task[w].snap)
    BY <1>0, <1>2 DEF SoundFile, IsSaved, OpenTmp, FilesSound
  <2>4. QED BY <1>0, <1>2, <2>1, <2>2, <2>3, PersistStep DEF OpenTmp, OnTheWay
<1>3. CASE WriteTmp(w)
  <2>1. /\ task'[w].at = "rename" /\ IsTask(task'[w])
        /\ \A v \in Workers : v # w => task'[v] = task[v]
        /\ DOMAIN task' = Workers /\ task' = [v \in Workers |-> task'[v]]
    BY <1>0, <1>3 DEF WriteTmp, Goto, TaskShape, IsTask
  <2>2. TaskShape'
    BY <1>0, <2>1 DEF TaskShape
  <2>3. SoundFile(Torn) /\ SoundFile(task[w].snap)
    BY <1>0, <1>3 DEF SoundFile, IsSaved, WriteTmp, FilesSound
  <2>4. \A f : \A g \in Overwritten(f, task[w].snap) : SoundFile(g)
    BY <2>3 DEF Overwritten
  <2>5. SoundFile(tmp') /\ SoundFile(disk')
    BY <1>0, <1>3, <2>4 DEF WriteTmp
  <2>6. QED BY <1>0, <1>3, <2>1, <2>2, <2>5, PersistStep DEF WriteTmp, OnTheWay
<1>4. CASE RenameTmp(w) /\ tmp = NoFile
  BY <1>0, <1>4, WorkerRests, PersistStep DEF RenameTmp, OnTheWay
<1>5. CASE RenameTmp(w) /\ tmp # NoFile
  <2>1. task' = [v \in Workers |->
            IF v = w THEN Idle ELSE [task[v] EXCEPT !.fd = AfterRename(@)]]
    BY <1>5 DEF RenameTmp
  <2>2. IsTask(Idle) /\ Idle.at = "idle"
    BY DEF Idle, IsTask
  <2>3. ASSUME NEW v \in Workers, v # w
        PROVE  /\ task'[v].at = task[v].at /\ task'[v].who = task[v].who
               /\ task'[v].victim = task[v].victim /\ task'[v].snap = task[v].snap
               /\ IsTask(task'[v])
    BY <1>0, <2>1, <2>3 DEF TaskShape, IsTask
  <2>4. TaskShape'
    BY <1>0, <2>1, <2>2, <2>3 DEF TaskShape
  <2>5. SoundFile(NoFile)
    BY DEF SoundFile, IsSaved
  <2>6. QED BY <1>0, <1>5, <2>1, <2>2, <2>3, <2>4, <2>5, PersistStep DEF RenameTmp, OnTheWay
<1>6. CASE PersistFails(w)
  BY <1>0, <1>6, WorkerRests, PersistStep DEF PersistFails, Answer, OnTheWay
<1>7. CASE GrantSet(w)
  <2>1. /\ task'[w].at = "snapshot" /\ IsTask(task'[w])
        /\ \A v \in Workers : v # w => task'[v] = task[v]
        /\ DOMAIN task' = Workers /\ task' = [v \in Workers |-> task'[v]]
    BY <1>0, <1>7 DEF GrantSet, TaskShape, IsTask
  <2>2. TaskShape'
    BY <1>0, <2>1 DEF TaskShape
  <2>3. /\ task[w].at = "grant" /\ UNCHANGED <<invited, redeemed, evicted, raced, backup, disk, tmp>>
        /\ \A v \in Workers : v = w \/ task'[v] = task[v]
    BY <1>0, <1>7, <2>1 DEF GrantSet, SetGrant
  <2>4. SoundFile(disk') /\ SoundFile(tmp')
    BY <1>0, <2>3
  <2>5. QED BY <1>0, <2>1, <2>2, <2>3, <2>4, PersistStep DEF OnTheWay
<1>8. QED BY <1>1, <1>2, <1>3, <1>4, <1>5, <1>6, <1>7

LEMMA BackupKeeps == ASSUME AdmissionInv, TakeBackup \/ RestoreBackup PROVE AdmissionInv'
<1> USE DEF storeVars, stored, handlerVars
<1>1. UNCHANGED <<task, invited, redeemed, evicted, raced>>
  BY DEF TakeBackup, RestoreBackup
<1>2. TaskShape'
  BY <1>1 DEF AdmissionInv, TaskShape
<1>3. FilesSound'
  BY <1>1 DEF AdmissionInv, FilesSound, SoundFile, TakeBackup, RestoreBackup
<1>4. \A v \in Workers : Aside(v)
  BY <1>1 DEF Aside
<1>5. QED BY <1>1, <1>2, <1>3, <1>4, AsideStep

-----------------------------------------------------------------------------
(* Keys on their way in. *)

\* The redemption a claim records is new, and the code's last.
LEMMA NewRedemption ==
    ASSUME Sound(redeemed, evicted), NEW c \in Codes, NEW pk \in Keys,
           LiveRedemptionsOf(pk) = {}
    PROVE  LET r == [code |-> c, n |-> Uses(c) + 1, pk |-> pk]
           IN  r \notin redeemed /\ Sound(redeemed \cup {r}, evicted)
<1> DEFINE r == [code |-> c, n |-> Uses(c) + 1, pk |-> pk]
           of(R, d) == {s \in R : s.code = d}
           more == redeemed \cup {r}
<1>1. IsFiniteSet(redeemed) /\ redeemed \subseteq Redemption /\ evicted \subseteq redeemed
  BY DEF Sound, Numbered
<1>2. \A d : IsFiniteSet(of(redeemed, d)) /\ Cardinality(of(redeemed, d)) \in Nat
  <2>1. ASSUME NEW d PROVE IsFiniteSet(of(redeemed, d))
    <3>1. of(redeemed, d) \subseteq redeemed
      OBVIOUS
    <3> HIDE DEF of
    <3>2. QED BY <1>1, <3>1, FS_Subset
  <2> HIDE DEF of
  <2>2. QED BY <2>1, FS_CardinalityType
<1>3. Uses(c) = Cardinality(of(redeemed, c)) /\ Uses(c) \in Nat
  BY <1>2 DEF Uses, RedemptionsOf
<1>4. r \in Redemption /\ r.code = c /\ r.n = Uses(c) + 1 /\ r.pk = pk
  BY <1>3 DEF Redemption
<1> HIDE DEF r
<1>5. \A s \in redeemed : s.n \in Nat /\ s.n <= Cardinality(of(redeemed, s.code))
  BY <1>1 DEF Sound, Numbered, Redemption
<1>6. r \notin redeemed
  BY <1>3, <1>4, <1>5
<1>7. of(more, c) = of(redeemed, c) \cup {r} /\ \A d : d # c => of(more, d) = of(redeemed, d)
  BY <1>4
<1>8. r \notin of(redeemed, c)
  BY <1>6
<1> HIDE DEF of
<1>9. Cardinality(of(more, c)) = Uses(c) + 1
  BY <1>2, <1>3, <1>7, <1>8, AddOne
<1>10. \A s \in more : s.n <= Cardinality(of(more, s.code))
  <2>1. ASSUME NEW s \in redeemed PROVE s.n <= Cardinality(of(more, s.code))
    <3>1. CASE s.code = c
      BY <1>3, <1>5, <1>9, <3>1
    <3>2. CASE s.code # c
      BY <1>5, <1>7, <3>2
    <3>3. QED BY <3>1, <3>2
  <2>2. r.n <= Cardinality(of(more, r.code))
    BY <1>3, <1>4, <1>9
  <2>3. QED BY <2>1, <2>2
<1>11. Numbered(more)
  <2>1. IsFiniteSet(more)
    BY <1>1, AddOne
  <2>2. QED BY <1>1, <1>4, <1>10, <2>1 DEF Numbered, of
<1>12. \A s, t \in more \ evicted : s.pk = t.pk => s = t
  <2>1. \A s \in redeemed \ evicted : s.pk # pk
    BY DEF LiveRedemptionsOf
  <2>2. QED BY <1>4, <2>1 DEF Sound
<1>13. QED BY <1>1, <1>6, <1>11, <1>12 DEF Sound, r

\* A claim: its key is live, and on its way in; if it was on its way out it is raced.
LEMMA ClaimsKeep ==
    ASSUME AdmissionInv, NEW w \in Workers, NEW pk \in Keys,
           (\E c \in Codes : Claim(w, c, pk)) \/ ClaimAgain(w, pk)
    PROVE  AdmissionInv'
<1>1. PICK begun : /\ Begin(w, begun)
                   /\ IsTask(begun)
                   /\ begun.at \in {"admit", "readmit"} /\ begun.who = {pk}
  <2>1. CASE \E c \in Codes : Claim(w, c, pk)
    <3>1. PICK claims : Begin(w, [Idle EXCEPT !.at = "admit", !.who = {pk}, !.claims = claims])
      BY <2>1 DEF Claim
    <3> DEFINE begun == [Idle EXCEPT !.at = "admit", !.who = {pk}, !.claims = claims]
    <3>2. IsTask(begun) /\ begun.at = "admit" /\ begun.who = {pk}
      BY DEF Idle, IsTask
    <3> HIDE DEF begun
    <3>3. Begin(w, begun)
      BY <3>1 DEF begun
    <3>4. QED BY <3>2, <3>3
  <2>2. CASE ClaimAgain(w, pk)
    <3> DEFINE begun == [Idle EXCEPT !.at = "readmit", !.who = {pk},
                                     !.claims = LiveRedemptionsOf(pk)]
    <3>1. IsTask(begun) /\ begun.at = "readmit" /\ begun.who = {pk}
      BY DEF Idle, IsTask
    <3> HIDE DEF begun
    <3>2. Begin(w, begun)
      BY <2>2 DEF ClaimAgain, begun
    <3>3. QED BY <3>1, <3>2
  <2>3. QED BY <2>1, <2>2
<1>2. /\ TaskShape'
      /\ task'[w] = begun
      /\ \A v \in Workers : v # w => task'[v] = task[v]
  BY <1>1, BegunTask
<1>3. /\ task[w].at = "idle" /\ UNCHANGED <<invited, evicted, disk, tmp, backup>>
      /\ raced' = IF Withdrawing(pk) THEN raced \cup {pk} ELSE raced
  BY DEF Claim, ClaimAgain, Redeem, storeVars, stored, fileVars
<1>4. /\ Sound(redeemed', evicted') /\ Live(pk)'
      /\ \A q \in Keys : q # pk => (Live(q)' <=> Live(q))
  <2>1. ASSUME NEW c \in Codes, Claim(w, c, pk)
        PROVE  /\ Sound(redeemed', evicted') /\ Live(pk)'
               /\ \A q \in Keys : q # pk => (Live(q)' <=> Live(q))
    <3> DEFINE r == [code |-> c, n |-> Uses(c) + 1, pk |-> pk]
    <3>1. redeemed' = redeemed \cup {r} /\ LiveRedemptionsOf(pk) = {}
      BY <2>1 DEF Claim, Redeem
    <3>2. r.pk = pk /\ r \notin redeemed /\ Sound(redeemed \cup {r}, evicted)
      BY <2>1, <3>1, NewRedemption DEF AdmissionInv
    <3> HIDE DEF r
    <3>3. r \in redeemed' \ evicted'
      BY <1>3, <3>1, <3>2 DEF AdmissionInv, Sound
    <3>4. QED BY <1>3, <3>1, <3>2, <3>3 DEF Live, LiveRedemptionsOf
  <2>2. CASE ClaimAgain(w, pk)
    <3>1. UNCHANGED <<redeemed, evicted>> /\ Live(pk)
      BY <2>2 DEF ClaimAgain, storeVars, stored, Live
    <3>2. QED BY <3>1 DEF AdmissionInv, Live, LiveRedemptionsOf
  <2>3. QED BY <2>1, <2>2
<1>5. FilesSound'
  BY <1>1, <1>2, <1>3 DEF AdmissionInv, FilesSound, SoundFile
<1>6. /\ Admitting(pk)' /\ (Withdrawing(pk)' <=> Withdrawing(pk))
      /\ \A q : q # pk => (Admitting(q)' <=> Admitting(q)) /\ (Withdrawing(q)' <=> Withdrawing(q))
  BY <1>1, <1>2, <1>3 DEF Admitting, Withdrawing
<1>7. \A q \in Keys \ raced' : Exact(q)'
  BY <1>3, <1>4, <1>6 DEF AdmissionInv, Exact
<1>8. QED BY <1>2, <1>4, <1>5, <1>7 DEF AdmissionInv

\* The claim reaches the copy.
LEMMA AddInvitedKeeps == ASSUME AdmissionInv, NEW w \in Workers, AddInvited(w) PROVE AdmissionInv'
<1> USE DEF storeVars, stored, fileVars
<1>1. /\ TaskShape'
      /\ task'[w].at \in {"snapshot", "idle"}
      /\ \A v \in Workers : v # w => task'[v] = task[v]
  <2>1. CASE task[w].at = "admit"
    <3>1. /\ task'[w].at = "snapshot" /\ IsTask(task'[w])
          /\ \A v \in Workers : v # w => task'[v] = task[v]
          /\ DOMAIN task' = Workers /\ task' = [v \in Workers |-> task'[v]]
      BY <2>1 DEF AddInvited, AdmissionInv, TaskShape, IsTask
    <3>2. QED BY <3>1 DEF AdmissionInv, TaskShape
  <2>2. CASE task[w].at = "readmit"
    BY <2>2, WorkerRests DEF AddInvited, Answer
  <2>3. QED BY <2>1, <2>2 DEF AddInvited
<1>2. /\ task[w].at \in {"admit", "readmit"} /\ invited' = invited \cup task[w].who
      /\ UNCHANGED <<redeemed, evicted, raced, disk, tmp, backup>>
  BY DEF AddInvited
<1>3. FilesSound'
  BY <1>1, <1>2 DEF AdmissionInv, FilesSound, SoundFile
<1>4. \A q : /\ Admitting(q)' => Admitting(q)
             /\ Withdrawing(q)' <=> Withdrawing(q)
             /\ Admitting(q) => Admitting(q)' \/ q \in task[w].who
             /\ q \in task[w].who => Admitting(q)
  BY <1>1, <1>2 DEF Admitting, Withdrawing
<1>5. \A q : Live(q)' <=> Live(q)
  BY <1>2 DEF Live, LiveRedemptionsOf
<1>6. \A q \in Keys \ raced' : Exact(q)'
  BY <1>2, <1>4, <1>5 DEF AdmissionInv, Exact
<1>7. QED BY <1>1, <1>2, <1>3, <1>6 DEF AdmissionInv

-----------------------------------------------------------------------------
(* Keys on their way out. *)

\* What an eviction does: the keys of gone hold nothing live any more, and are raced if they
\* were on their way in.
LEMMA EvictionKeeps ==
    ASSUME AdmissionInv, NEW w \in Workers, NEW begun, Begin(w, begun), IsTask(begun),
           begun.at \in {"check", "drop"},
           begun.at = "check" => begun.victim = None,
           NEW gone, gone \subseteq redeemed \ evicted,
           (begun.who \cup {begun.victim}) \ {None} = KeysOf(gone),
           task[w].at = "idle",
           evicted' = evicted \cup gone,
           raced' = raced \cup {pk \in KeysOf(gone) : Admitting(pk)},
           UNCHANGED <<invited, redeemed, disk, tmp, backup>>,
           \A r \in redeemed \ evicted : r.pk \in KeysOf(gone) => r \in gone
    PROVE  AdmissionInv'
<1>1. /\ TaskShape'
      /\ task'[w] = begun
      /\ \A v \in Workers : v # w => task'[v] = task[v]
  BY BegunTask
<1>2. Sound(redeemed', evicted')
  BY DEF AdmissionInv, Sound
<1>3. FilesSound'
  BY <1>1 DEF AdmissionInv, FilesSound, SoundFile
<1>4. \A q \in Keys : /\ Admitting(q)' <=> Admitting(q)
                      /\ Withdrawing(q)' <=> Withdrawing(q) \/ q \in KeysOf(gone)
  BY <1>1 DEF Admitting, Withdrawing
<1>5. \A q \in Keys : Live(q)' <=> Live(q) /\ q \notin KeysOf(gone)
  BY DEF Live, LiveRedemptionsOf, KeysOf
<1>6. \A q \in Keys \ raced' : Exact(q)'
  BY <1>4, <1>5 DEF AdmissionInv, Exact
<1>7. QED BY <1>1, <1>2, <1>3, <1>6 DEF AdmissionInv

\* An evicting revoke takes the one live redemption of each of its keys.
LEMMA RevokeEvictingKeeps ==
    ASSUME AdmissionInv, NEW w \in Workers, NEW c \in Codes, RevokeEvicting(w, c)
    PROVE  AdmissionInv'
<1> DEFINE gone == EvictedByRevoke(c, TRUE)
           begun == [Idle EXCEPT !.at = "check", !.who = KeysOf(gone), !.evictions = gone]
<1>1. gone \subseteq redeemed \ evicted
  BY DEF EvictedByRevoke, RedemptionsOf
<1>2. KeysOf(gone) \subseteq Keys
  BY <1>1 DEF KeysOf, AdmissionInv, Sound, Numbered, Redemption
<1>3. \A r \in redeemed \ evicted : r.pk \in KeysOf(gone) => r \in gone
  BY <1>1 DEF KeysOf, AdmissionInv, Sound
<1>4. /\ Begin(w, begun) /\ task[w].at = "idle"
      /\ evicted' = evicted \cup gone
      /\ raced' = raced \cup {pk \in KeysOf(gone) : Admitting(pk)}
      /\ UNCHANGED <<invited, redeemed, disk, tmp, backup>>
  BY DEF RevokeEvicting, Revoke, fileVars
<1> HIDE DEF gone
<1>5. /\ IsTask(begun) /\ begun.at = "check" /\ begun.victim = None
      /\ begun.who = KeysOf(gone)
  BY DEF Idle, IsTask
<1> HIDE DEF begun
<1>6. (begun.who \cup {begun.victim}) \ {None} = KeysOf(gone)
  BY <1>2, <1>5
<1>7. QED BY <1>1, <1>3, <1>4, <1>5, <1>6, EvictionKeeps

LEMMA EvictRequestKeeps ==
    ASSUME AdmissionInv, NEW w \in Workers, NEW pk \in Keys, EvictRequest(w, pk)
    PROVE  AdmissionInv'
<1> DEFINE gone == LiveRedemptionsOf(pk)
           begun == [Idle EXCEPT !.at = "drop", !.victim = pk, !.evictions = gone]
<1>1. gone \subseteq redeemed \ evicted /\ gone # {} /\ \A r \in gone : r.pk = pk
  BY DEF LiveRedemptionsOf, EvictRequest, Evict
<1>2. KeysOf(gone) = {pk}
  BY <1>1 DEF KeysOf
<1>3. \A r \in redeemed \ evicted : r.pk \in KeysOf(gone) => r \in gone
  BY <1>2 DEF LiveRedemptionsOf
<1>4. /\ Begin(w, begun) /\ task[w].at = "idle"
      /\ evicted' = evicted \cup gone
      /\ raced' = IF Admitting(pk) THEN raced \cup {pk} ELSE raced
      /\ UNCHANGED <<invited, redeemed, disk, tmp, backup>>
  BY DEF EvictRequest, Evict, fileVars
<1> HIDE DEF gone
<1>5. raced' = raced \cup {q \in KeysOf(gone) : Admitting(q)}
  BY <1>2, <1>4
<1>6. /\ IsTask(begun) /\ begun.at = "drop" /\ begun.victim = pk /\ begun.who = {}
  BY DEF Idle, IsTask
<1> HIDE DEF begun
<1>7. (begun.who \cup {begun.victim}) \ {None} = KeysOf(gone)
  BY <1>2, <1>6
<1>8. QED BY <1>1, <1>3, <1>4, <1>5, <1>6, <1>7, EvictionKeeps

\* A key that holds another live redemption after all is raced already.
LEMMA CheckKeeps == ASSUME AdmissionInv, NEW w \in Workers, CheckEvicted(w) PROVE AdmissionInv'
<1> USE DEF storeVars, stored, fileVars
<1>1. /\ task[w].at = "check" /\ task[w].victim = None /\ IsTask(task[w])
      /\ UNCHANGED <<invited, redeemed, evicted, raced, disk, tmp, backup>>
  BY DEF CheckEvicted, AdmissionInv, TaskShape
<1> DEFINE othersStay == \A v \in Workers : v # w => task'[v] = task[v]
           sameOnTheWay ==
              /\ task'[w].at \notin {"admit", "readmit", "open", "write"}
              /\ \A q \in Keys \ raced :
                    task'[w].at \in {"check", "drop"} /\ q \in task'[w].who \cup {task'[w].victim}
                      <=> q \in task[w].who
<1>2. othersStay /\ TaskShape' /\ sameOnTheWay
  <2>1. CASE task[w].who = {} /\ Goto(w, "snapshot")
    <3>1. /\ task'[w].at = "snapshot" /\ IsTask(task'[w])
          /\ \A v \in Workers : v # w => task'[v] = task[v]
          /\ DOMAIN task' = Workers /\ task' = [v \in Workers |-> task'[v]]
      BY <1>1, <2>1 DEF Goto, AdmissionInv, TaskShape, IsTask
    <3>2. QED BY <2>1, <3>1 DEF AdmissionInv, TaskShape
  <2>2. ASSUME NEW pk \in task[w].who, LiveRedemptionsOf(pk) = {},
               task' = [task EXCEPT ![w].at = "drop", ![w].who = @ \ {pk}, ![w].victim = pk]
        PROVE  othersStay /\ TaskShape' /\ sameOnTheWay
    <3>1. /\ task'[w].at = "drop" /\ task'[w].who = task[w].who \ {pk}
          /\ task'[w].victim = pk /\ IsTask(task'[w])
          /\ \A v \in Workers : v # w => task'[v] = task[v]
          /\ DOMAIN task' = Workers /\ task' = [v \in Workers |-> task'[v]]
      BY <1>1, <2>2 DEF AdmissionInv, TaskShape, IsTask
    <3>2. TaskShape'
      BY <3>1 DEF AdmissionInv, TaskShape
    <3>3. QED BY <3>1, <3>2
  <2>3. ASSUME NEW pk \in task[w].who, LiveRedemptionsOf(pk) # {},
               task' = [task EXCEPT ![w].who = @ \ {pk}]
        PROVE  othersStay /\ TaskShape' /\ sameOnTheWay
    <3>1. /\ task'[w].at = "check" /\ task'[w].who = task[w].who \ {pk}
          /\ task'[w].victim = None /\ IsTask(task'[w])
          /\ \A v \in Workers : v # w => task'[v] = task[v]
          /\ DOMAIN task' = Workers /\ task' = [v \in Workers |-> task'[v]]
      BY <1>1, <2>3 DEF AdmissionInv, TaskShape, IsTask
    <3>2. TaskShape'
      BY <3>1 DEF AdmissionInv, TaskShape
    <3>3. Withdrawing(pk) /\ Live(pk)
      BY <1>1, <2>3 DEF Withdrawing, Live
    <3>4. pk \notin Keys \ raced
      BY <3>3 DEF AdmissionInv, Exact
    <3>5. QED BY <3>1, <3>2, <3>4
  <2>4. QED BY <2>1, <2>2, <2>3 DEF CheckEvicted
<1>3. FilesSound'
  BY <1>1, <1>2 DEF AdmissionInv, FilesSound, SoundFile
<1>4. \A q \in Keys \ raced : /\ Admitting(q)' <=> Admitting(q)
                              /\ Withdrawing(q)' <=> Withdrawing(q)
  BY <1>1, <1>2 DEF Admitting, Withdrawing
<1>5. \A q : Live(q)' <=> Live(q)
  BY <1>1 DEF Live, LiveRedemptionsOf
<1>6. \A q \in Keys \ raced' : Exact(q)'
  BY <1>1, <1>4, <1>5 DEF AdmissionInv, Exact
<1>7. QED BY <1>1, <1>2, <1>3, <1>6 DEF AdmissionInv

\* The key leaves the copy: unless raced it holds nothing live.
LEMMA DropKeeps == ASSUME AdmissionInv, NEW w \in Workers, DropInvited(w) PROVE AdmissionInv'
<1> USE DEF storeVars, stored, fileVars
<1>1. /\ task[w].at = "drop" /\ IsTask(task[w]) /\ invited' = invited \ {task[w].victim}
      /\ UNCHANGED <<redeemed, evicted, raced, disk, tmp, backup>>
  BY DEF DropInvited, AdmissionInv, TaskShape
<1>2. /\ task'[w].at = "check" /\ task'[w].victim = None /\ task'[w].who = task[w].who
      /\ IsTask(task'[w])
      /\ \A v \in Workers : v # w => task'[v] = task[v]
      /\ DOMAIN task' = Workers /\ task' = [v \in Workers |-> task'[v]]
  <2>1. /\ DOMAIN task = Workers
        /\ {"at", "who", "victim", "claims", "evictions", "grant", "snap", "fd"} \subseteq DOMAIN task[w]
    BY <1>1 DEF AdmissionInv, TaskShape, IsTask
  <2>2. task' = [task EXCEPT ![w].at = "check", ![w].victim = None]
    BY DEF DropInvited
  <2>3. QED BY <2>1, <2>2 DEF IsTask
<1>3. TaskShape'
  BY <1>2 DEF AdmissionInv, TaskShape
<1>4. FilesSound'
  BY <1>1, <1>2 DEF AdmissionInv, FilesSound, SoundFile
<1>5. \A q \in Keys : /\ Admitting(q)' <=> Admitting(q)
                      /\ Withdrawing(q)' => Withdrawing(q)
                      /\ Withdrawing(q) => Withdrawing(q)' \/ q = task[w].victim
  BY <1>1, <1>2 DEF Admitting, Withdrawing
<1>6. Withdrawing(task[w].victim)
  BY <1>1 DEF Withdrawing
<1>7. \A q : Live(q)' <=> Live(q)
  BY <1>1 DEF Live, LiveRedemptionsOf
<1>8. \A q \in Keys \ raced' : Exact(q)'
  BY <1>1, <1>5, <1>6, <1>7 DEF AdmissionInv, Exact
<1>9. QED BY <1>1, <1>3, <1>4, <1>8 DEF AdmissionInv

-----------------------------------------------------------------------------
\* A restart loads a sound state, and the copy from it.
LEMMA RestartKeeps == ASSUME AdmissionInv, Restart PROVE AdmissionInv'
<1>1. /\ redeemed' = Loaded(disk).redeemed /\ evicted' = Loaded(disk).evicted
      /\ invited' = AdmittedPubkeys' /\ UNCHANGED <<disk, tmp, backup>>
      /\ task' = [w \in Workers |-> Idle]
  BY DEF Restart
<1>2. Sound(Loaded(disk).redeemed, Loaded(disk).evicted)
  <2>1. CASE IsSaved(disk)
    BY <2>1 DEF AdmissionInv, FilesSound, SoundFile, Loaded
  <2>2. CASE ~IsSaved(disk)
    BY <2>2, NothingIsSound DEF Loaded, NoState
  <2>3. QED BY <2>1, <2>2
<1>3. TaskShape' /\ \A w \in Workers : task'[w].at = "idle"
  BY <1>1 DEF TaskShape, IsTask, Idle
<1>4. FilesSound'
  BY <1>1, <1>3 DEF AdmissionInv, FilesSound, SoundFile
<1>5. \A q : q \in invited' <=> Live(q)'
  BY <1>1 DEF AdmittedPubkeys, Live, LiveRedemptionsOf
<1>6. \A q : ~Admitting(q)' /\ ~Withdrawing(q)'
  BY <1>3 DEF Admitting, Withdrawing
<1>7. QED BY <1>1, <1>2, <1>3, <1>4, <1>5, <1>6 DEF AdmissionInv, Exact

-----------------------------------------------------------------------------
LEMMA AdmissionInvHolds == AdmissionSpec => []AdmissionInv
<1>1. AdmissionInit => AdmissionInv
  BY AdmissionInit_Inv
<1>2. AdmissionInv /\ [AdmissionNext]_admissionVars => AdmissionInv'
  <2> SUFFICES ASSUME AdmissionInv, [AdmissionNext]_admissionVars PROVE AdmissionInv'
    OBVIOUS
  <2>1. ASSUME NEW w \in Workers, Request(w) PROVE AdmissionInv'
    <3>1. CASE \E c \in Codes, pk \in Keys : Claim(w, c, pk)
      BY <3>1, ClaimsKeep
    <3>2. CASE \E pk \in Keys : ClaimAgain(w, pk)
      BY <3>2, ClaimsKeep
    <3>3. CASE \E c \in Codes, pk \in Admins \cup Minters, uses \in AskedUses, ttl \in AskedTtls :
                  AdminMintRequest(w, c, pk, uses, ttl) \/ MintRequest(w, c, pk, uses, ttl)
      <4>1. \E c \in Codes : \E pk, asAdmin, uses, ttl : MintAndPersist(w, c, pk, asAdmin, uses, ttl)
        BY <3>3 DEF AdminMintRequest, MintRequest
      <4>2. QED BY <4>1, ListRequestsKeep
    <3>4. CASE \E c \in Codes : RevokeRequest(w, c) \/ RevokeEvicting(w, c)
      BY <3>4, ListRequestsKeep, RevokeEvictingKeeps
    <3>5. CASE \E pk \in Keys : EvictRequest(w, pk)
      BY <3>5, EvictRequestKeeps
    <3>6. CASE \/ \E pk \in Minters, r \in GrantRequests : GrantRead(w, pk, r)
               \/ \E pk \in Minters : UngrantRequest(w, pk)
      BY <3>6, ListRequestsKeep
    <3>7. QED BY <2>1, <3>1, <3>2, <3>3, <3>4, <3>5, <3>6 DEF Request
  <2>2. ASSUME NEW w \in Workers, Work(w) PROVE AdmissionInv'
    BY <2>2, AddInvitedKeeps, CheckKeeps, DropKeeps, PersistKeeps DEF Work
  <2>3. CASE TakeBackup \/ RestoreBackup \/ Restart
    BY <2>3, BackupKeeps, RestartKeeps
  <2>4. CASE UNCHANGED admissionVars
    <3>1. UNCHANGED <<task, invited, redeemed, evicted, raced, disk, tmp, backup>>
      BY <2>4 DEF admissionVars, storeVars, stored, handlerVars, fileVars
    <3>2. TaskShape' /\ FilesSound' /\ \A v \in Workers : Aside(v)
      BY <3>1 DEF AdmissionInv, TaskShape, FilesSound, SoundFile, Aside
    <3>3. QED BY <3>1, <3>2, AsideStep
  <2>5. QED BY <2>1, <2>2, <2>3, <2>4 DEF AdmissionNext
<1>3. QED BY <1>1, <1>2, PTL DEF AdmissionSpec

\* invite_api.rs and Whitelist::invited: however the handlers interleave, whatever file
\* operation fails and wherever a crash falls, the copy admission reads agrees with the store on
\* every key that is not on its way in or out, unless an admission and a withdrawal of that key
\* overlapped.
THEOREM HotPathStaysExact == AdmissionSpec => []HotPathExact
<1>1. AdmissionInv => HotPathExact
  BY DEF AdmissionInv, Exact, Live, HotPathExact
<1>2. QED BY <1>1, AdmissionInvHolds, PTL

\* relay_invites.rs: redeem() keeps a key to one live redemption although the handlers around
\* the store interleave, files are torn, backups restored and older states loaded.
THEOREM OneLiveAcrossRestarts == AdmissionSpec => []OneLiveRedemption
<1>1. AdmissionInv => OneLiveRedemption
  BY DEF AdmissionInv, Sound, OneLiveRedemption
<1>2. QED BY <1>1, AdmissionInvHolds, PTL

-----------------------------------------------------------------------------
(* What the files hold. *)

\* The codes a grant binds m by, as f has them.
BoundIn(f, m) == {c \in Codes : f.invites[c] # None /\ f.invites[c].by = m /\ ~f.invites[c].admin}

\* f is a state the store may be in, where no key's limits were ever above limit.
Whole(f, limit) ==
    /\ f \in Saved
    /\ Sound(f.redeemed, f.evicted)
    /\ \A r \in f.redeemed : f.invites[r.code] # None
    /\ \A c \in Codes :
          f.invites[c] # None /\ f.invites[c].maxUses # None =>
             Cardinality({r \in f.redeemed : r.code = c}) <= f.invites[c].maxUses
    /\ \A m \in Keys : Cardinality({r \in f.redeemed : r.code \in BoundIn(f, m)}) <= limit[m]

\* Every file that loads is whole, and so is what a task is about to write.
FilesWhole ==
    /\ \A f \in {disk, tmp, backup} : IsSaved(f) => Whole(f, admitCeiling)
    /\ \A w \in Workers : task[w].at \in {"open", "write"} => Whole(task[w].snap, admitCeiling)

HandlerTypes ==
    /\ task \in [Workers -> Task]
    /\ invited \in SUBSET Keys /\ raced \in SUBSET Keys
    /\ acked \in SUBSET Redemption /\ answered \in SUBSET Redemption
    /\ given \in [Keys -> Nat] /\ overtaken \in SUBSET Keys
    /\ restored \in BOOLEAN
    /\ \A w \in Workers : task[w].at = "grant" =>
          task[w].victim \in Minters /\ task[w].grant \in Grant /\ task[w].asked \in GrantRequest

StateInv == StoreInv /\ HandlerTypes /\ FilesWhole

-----------------------------------------------------------------------------
(* Files and states. *)

USE FilesAssumption, SavedAssumption, FreshAssumption
USE DEF grantGhosts

LEMMA CurrentIsWhole ==
    ASSUME StoreInv, Sound(redeemed, evicted)
    PROVE  Whole(CurrentState, admitCeiling) /\ IsSaved(CurrentState)
<1>1. /\ CurrentState.invites = invites /\ CurrentState.redeemed = redeemed
      /\ CurrentState.evicted = evicted
  BY DEF CurrentState
<1>2. CurrentState \in Saved
  BY DEF CurrentState, Saved, StoreInv, TypeOK
<1> HIDE DEF CurrentState
<1>3. IsSaved(CurrentState)
  BY <1>2 DEF IsSaved
<1>4. \A r \in redeemed : invites[r.code] # None
  BY DEF StoreInv, TypeOK
<1>5. \A c \in Codes : invites[c] # None /\ invites[c].maxUses # None =>
             Cardinality({r \in redeemed : r.code = c}) <= invites[c].maxUses
  BY DEF StoreInv, UsesWithinLimit, Uses, RedemptionsOf
<1>6. \A m \in Keys : BoundIn(CurrentState, m) = BoundCodesOf(m)
  BY <1>1 DEF BoundIn, BoundCodesOf, MintedBy
<1>7. \A m \in Keys : Cardinality({r \in redeemed : r.code \in BoundCodesOf(m)}) <= admitCeiling[m]
  BY DEF StoreInv, AdmitsWithinCeiling, AdmitsBy
<1>8. QED BY <1>1, <1>2, <1>3, <1>4, <1>5, <1>6, <1>7 DEF Whole

\* A higher limit suits what a lower one suited.
LEMMA WholeLasts ==
    ASSUME NEW low \in [Keys -> Nat], NEW high \in [Keys -> Nat],
           \A k \in Keys : low[k] <= high[k],
           NEW f, Whole(f, low)
    PROVE  Whole(f, high)
<1>1. ASSUME NEW m \in Keys
      PROVE  Cardinality({r \in f.redeemed : r.code \in BoundIn(f, m)}) <= high[m]
  <2> DEFINE admits == {r \in f.redeemed : r.code \in BoundIn(f, m)}
  <2>1. IsFiniteSet(f.redeemed)
    BY DEF Whole, Sound, Numbered
  <2>2. admits \in SUBSET f.redeemed /\ Cardinality(admits) <= low[m]
    BY DEF Whole
  <2> HIDE DEF admits
  <2>3. Cardinality(admits) \in Nat
    BY <2>1, <2>2, FS_Subset, FS_CardinalityType
  <2>4. Cardinality(admits) <= high[m]
    BY <2>2, <2>3
  <2>5. QED BY <2>4 DEF admits
<1>2. QED BY <1>1 DEF Whole

\* Nothing is on record in the state a relay without a file starts from.
LEMMA NoStateIsWhole == ASSUME NEW limit \in [Keys -> Nat] PROVE Whole(NoState, limit)
<1>1. /\ NoState.redeemed = {} /\ NoState.evicted = {}
      /\ \A c \in Codes : NoState.invites[c] = None
      /\ NoState \in Saved
  BY DEF NoState, Saved, Option
<1> HIDE DEF NoState
<1>2. Cardinality({}) = 0 /\ \A m \in Keys : limit[m] \in Nat
  BY FS_EmptySet
<1>3. \A m \in Keys : {r \in NoState.redeemed : r.code \in BoundIn(NoState, m)} = {}
  BY <1>1
<1>4. \A m \in Keys : Cardinality({r \in NoState.redeemed : r.code \in BoundIn(NoState, m)}) <= limit[m]
  <2>1. ASSUME NEW m \in Keys
        PROVE  Cardinality({r \in NoState.redeemed : r.code \in BoundIn(NoState, m)}) = 0
    BY ONLY <1>2, <1>3, <2>1
  <2>2. QED BY <1>2, <2>1
<1>5. Sound(NoState.redeemed, NoState.evicted)
  BY <1>1, NothingIsSound
<1>6. /\ \A r \in NoState.redeemed : NoState.invites[r.code] # None
      /\ \A c \in Codes : NoState.invites[c] # None /\ NoState.invites[c].maxUses # None =>
            Cardinality({r \in NoState.redeemed : r.code = c}) <= NoState.invites[c].maxUses
  <2>1. \A r \in NoState.redeemed : NoState.invites[r.code] # None
    BY <1>1
  <2>2. ASSUME NEW c \in Codes, NoState.invites[c] # None PROVE FALSE
    BY <1>1, <2>2
  <2>3. QED BY ONLY <2>1, <2>2
<1>7. QED BY ONLY <1>1, <1>4, <1>5, <1>6 DEF Whole

-----------------------------------------------------------------------------
(* The store under its handlers. *)

CeilingsKept == \A k \in Keys : admitCeiling[k] <= admitCeiling'[k]

\* What a restart loads is a state of the store, within the ceilings there were.
LEMMA RestartKeepsStore ==
    ASSUME StoreInv, FilesWhole, Restart
    PROVE  StoreInv' /\ CeilingsKept
<1> DEFINE f == Loaded(disk)
<1>1. TypeOK /\ admitCeiling \in [Keys -> Nat]
  BY DEF StoreInv, TypeOK
<1>2. Whole(f, admitCeiling)
  BY <1>1, NoStateIsWhole DEF FilesWhole, Loaded
<1>3. /\ invites' = f.invites /\ redeemed' = f.redeemed
      /\ evicted' = f.evicted /\ grants' = f.grants
      /\ UNCHANGED <<auto, now>> /\ RaiseCeilings
  BY DEF Restart
<1> HIDE DEF f
<1>4. /\ invites' \in [Codes -> Option(Invite)] /\ grants' \in [Keys -> Option(Grant)]
      /\ redeemed' \in SUBSET Redemption
  BY <1>2, <1>3 DEF Whole, Saved
<1>5. /\ admitCeiling' \in [Keys -> Nat] /\ codeCeiling' \in [Keys -> Nat]
      /\ CeilingsKept
      /\ CeilingCovers'
  BY <1>1, <1>3, <1>4, CeilingsRise DEF CeilingsKept
<1>6. \A c : Uses(c)' = Cardinality({r \in f.redeemed : r.code = c})
  BY <1>3 DEF Uses, RedemptionsOf
<1>7. TypeOK'
  <2>1. evicted' \in SUBSET redeemed' /\ IsFiniteSet(redeemed')
    BY <1>2, <1>3 DEF Whole, Sound, Numbered
  <2>2. \A r \in redeemed' : invites'[r.code] # None /\ r.n <= Uses(r.code)'
    BY <1>2, <1>3, <1>6 DEF Whole, Sound, Numbered
  <2>3. auto' \in SUBSET Keys /\ now' \in Nat
    BY <1>1, <1>3 DEF TypeOK
  <2>4. QED BY <1>4, <1>5, <2>1, <2>2, <2>3 DEF TypeOK
<1>8. OneLiveRedemption'
  BY <1>2, <1>3 DEF Whole, Sound, OneLiveRedemption
<1>9. UsesWithinLimit'
  BY <1>2, <1>3, <1>6 DEF Whole, UsesWithinLimit
<1>10. AdmitsWithinCeiling'
  <2>1. Whole(f, admitCeiling')
    BY <1>1, <1>2, <1>5, WholeLasts DEF CeilingsKept
  <2>2. \A m \in Keys : BoundCodesOf(m)' = BoundIn(f, m)
    BY <1>3 DEF BoundCodesOf, MintedBy, BoundIn
  <2>3. QED BY <1>3, <2>1, <2>2 DEF Whole, AdmitsWithinCeiling, AdmitsBy
<1>11. QED BY <1>5, <1>7, <1>8, <1>9, <1>10 DEF StoreInv

\* A handler's step on the store is one of the store's operations.
LEMMA HandlersKeepStore ==
    ASSUME StoreInv, HandlerTypes, NEW w \in Workers, Request(w) \/ Work(w)
    PROVE  StoreInv' /\ CeilingsKept
<1>0. TypeOK /\ admitCeiling \in [Keys -> Nat]
  BY DEF StoreInv, TypeOK
<1> USE DEF CeilingsKept
<1>1. CASE UNCHANGED storeVars
  <2>1. UNCHANGED admitCeiling
    BY <1>1 DEF storeVars, ceilings
  <2>2. QED BY <1>0, <1>1, <2>1, NextPreserves
<1>2. ASSUME NEW c \in Codes, NEW k \in Keys, NEW asAdmin \in BOOLEAN,
             NEW uses \in AskedUses, NEW ttl \in AskedTtls, Mint(c, k, asAdmin, uses, ttl)
      PROVE  StoreInv' /\ CeilingsKept
  <2>1. UNCHANGED admitCeiling
    BY <1>2 DEF Mint, ceilings
  <2>2. QED BY <1>0, <1>2, <2>1, MintPreserves
<1>3. ASSUME NEW c \in Codes, NEW k \in Keys, Redeem(c, k) PROVE StoreInv' /\ CeilingsKept
  <2>1. UNCHANGED admitCeiling
    BY <1>3 DEF Redeem, ceilings
  <2>2. QED BY <1>0, <1>3, <2>1, RedeemPreserves
<1>4. ASSUME NEW c \in Codes, NEW evict \in BOOLEAN, Revoke(c, evict)
      PROVE  StoreInv' /\ CeilingsKept
  <2>1. UNCHANGED admitCeiling
    BY <1>4 DEF Revoke, ceilings
  <2>2. QED BY <1>0, <1>4, <2>1, RevokePreserves
<1>5. ASSUME NEW k \in Keys, Evict(k) PROVE StoreInv' /\ CeilingsKept
  <2>1. UNCHANGED admitCeiling
    BY <1>5 DEF Evict, ceilings
  <2>2. QED BY <1>0, <1>5, <2>1, EvictPreserves
<1>6. ASSUME NEW k \in Keys, NEW g \in Grant, SetGrant(k, g) PROVE StoreInv' /\ CeilingsKept
  <2>1. grants' \in [Keys -> Option(Grant)] /\ RaiseCeilings
    BY <1>0, <1>6 DEF SetGrant, TypeOK, Option
  <2>2. CeilingsKept
    BY <1>0, <2>1, CeilingsRise
  <2>3. QED BY <1>0, <1>6, <2>1, <2>2, LimitsPreserve DEF SetGrant, TypeOK
<1>7. ASSUME NEW k \in Keys, RemoveGrant(k) PROVE StoreInv' /\ CeilingsKept
  <2>1. grants' \in [Keys -> Option(Grant)] /\ RaiseCeilings
    BY <1>0, <1>7 DEF RemoveGrant, TypeOK, Option
  <2>2. CeilingsKept
    BY <1>0, <2>1, CeilingsRise
  <2>3. QED BY <1>0, <1>7, <2>1, <2>2, LimitsPreserve DEF RemoveGrant, TypeOK
<1> HIDE DEF CeilingsKept
<1>8. CASE Request(w)
  <2>1. ASSUME NEW c \in Codes, NEW k \in Keys, Claim(w, c, k) PROVE StoreInv' /\ CeilingsKept
    BY <1>3, <2>1 DEF Claim
  <2>2. ASSUME NEW k \in Keys, ClaimAgain(w, k) PROVE StoreInv' /\ CeilingsKept
    BY <1>1, <2>2 DEF ClaimAgain
  <2>3. ASSUME NEW c \in Codes, NEW k \in Admins \cup Minters, NEW uses \in AskedUses,
               NEW ttl \in AskedTtls,
               AdminMintRequest(w, c, k, uses, ttl) \/ MintRequest(w, c, k, uses, ttl)
        PROVE  StoreInv' /\ CeilingsKept
    <3>1. Mint(c, k, TRUE, uses, ttl) \/ Mint(c, k, FALSE, uses, ttl)
      BY <2>3 DEF AdminMintRequest, MintRequest, MintAndPersist
    <3>2. k \in Keys
      BY KeysAssumption
    <3>3. QED BY <1>2, <3>1, <3>2
  <2>4. ASSUME NEW c \in Codes, RevokeRequest(w, c) \/ RevokeEvicting(w, c)
        PROVE  StoreInv' /\ CeilingsKept
    BY <1>4, <2>4 DEF RevokeRequest, RevokeEvicting
  <2>5. ASSUME NEW k \in Keys, EvictRequest(w, k) PROVE StoreInv' /\ CeilingsKept
    BY <1>5, <2>5 DEF EvictRequest
  <2>6. ASSUME NEW k \in Minters, NEW r, GrantRead(w, k, r) \/ UngrantRequest(w, k)
        PROVE  StoreInv' /\ CeilingsKept
    BY <1>1, <1>7, <2>6, KeysAssumption DEF GrantRead, GrantBegins, UngrantRequest
  <2>7. \/ \E c \in Codes, pk \in Keys : Claim(w, c, pk)
        \/ \E pk \in Keys : ClaimAgain(w, pk)
        \/ \E c \in Codes, pk \in Admins \cup Minters, uses \in AskedUses, ttl \in AskedTtls :
              AdminMintRequest(w, c, pk, uses, ttl) \/ MintRequest(w, c, pk, uses, ttl)
        \/ \E c \in Codes : RevokeRequest(w, c) \/ RevokeEvicting(w, c)
        \/ \E pk \in Keys : EvictRequest(w, pk)
        \/ \E pk \in Minters, r \in GrantRequests : GrantRead(w, pk, r) \/ UngrantRequest(w, pk)
        \/ \E pk \in Minters : UngrantRequest(w, pk)
    BY <1>8 DEF Request
  <2>8. QED BY ONLY <2>1, <2>2, <2>3, <2>4, <2>5, <2>6, <2>7
<1>9. CASE GrantSet(w)
  <2>1. task[w].victim \in Keys /\ task[w].grant \in Grant
    BY <1>9, KeysAssumption DEF GrantSet, HandlerTypes
  <2>2. QED BY <1>6, <1>9, <2>1 DEF GrantSet
<1>10. CASE Work(w) /\ ~GrantSet(w)
  <2>1. UNCHANGED storeVars
    BY <1>10 DEF Work, AddInvited, CheckEvicted, DropInvited, Snapshot, OpenTmp, WriteTmp,
                 RenameTmp, PersistFails
  <2>2. QED BY <1>1, <2>1
<1>11. QED BY <1>8, <1>9, <1>10

-----------------------------------------------------------------------------
(* The handlers' own state keeps its type. *)

LEMMA IdleIsTask == Idle \in Task /\ Idle.at = "idle" /\ Idle.snap = None
BY DEF Idle, Task, Steps, Option

\* A step of w that leaves it with task t, which asks for no grant, or for a proper one.
LEMMA TypesStep ==
    ASSUME HandlerTypes, NEW w \in Workers, NEW t \in Task,
           task' = [task EXCEPT ![w] = t],
           t.at = "grant" => t.victim \in Minters /\ t.grant \in Grant /\ t.asked \in GrantRequest,
           invited' \in SUBSET Keys, raced' \in SUBSET Keys,
           acked' \in SUBSET Redemption, answered' \in SUBSET Redemption,
           given' \in [Keys -> Nat], overtaken' \in SUBSET Keys, restored' = restored
    PROVE  HandlerTypes'
<1>1. task' \in [Workers -> Task]
  BY DEF HandlerTypes
<1>2. \A v \in Workers : task'[v].at = "grant" =>
         task'[v].victim \in Minters /\ task'[v].grant \in Grant /\ task'[v].asked \in GrantRequest
  <2>1. \A v \in Workers : task'[v] = IF v = w THEN t ELSE task[v]
    BY DEF HandlerTypes
  <2>2. QED BY <2>1 DEF HandlerTypes
<1>3. QED BY <1>1, <1>2 DEF HandlerTypes

\* A request leaves a grant, with room for the people it adds.
LEMMA RequestedIsGrant ==
    ASSUME NEW g \in Grant, NEW r \in GrantRequest
    PROVE  /\ Requested(g, r) \in Grant
           /\ Requested(g, r).maxTotal = Asked(r.maxTotal, g.maxTotal) + r.add
<1>1. /\ g.maxTotal \in Nat \ {0} /\ g.maxUses \in Nat \ {0} /\ g.maxCodes \in Nat \ {0}
      /\ g.maxTtl \in Nat
  BY DEF Grant
<1>2. /\ r.maxTotal \in Option(Nat) /\ r.maxUses \in Option(Nat) /\ r.maxCodes \in Option(Nat)
      /\ r.maxTtl \in Option(Nat) /\ r.add \in Nat
  BY DEF GrantRequest
<1>3. \A limit \in Option(Nat), n \in Nat \ {0} : Asked(limit, n) \in Nat \ {0}
  BY DEF Asked, GreaterOf, Option
<1> DEFINE codes == Asked(r.maxCodes, g.maxCodes)
           uses == Asked(r.maxUses, g.maxUses)
           total == Asked(r.maxTotal, g.maxTotal)
           ttl == IF r.maxTtl = None THEN g.maxTtl ELSE GreaterOf(r.maxTtl, 1)
           limits == [maxCodes |-> codes, maxUses |-> uses, maxTotal |-> total, maxTtl |-> ttl]
<1>4. codes \in Nat \ {0} /\ uses \in Nat \ {0} /\ total \in Nat \ {0}
  BY <1>1, <1>2, <1>3
<1>5. ttl \in Nat
  BY <1>1, <1>2 DEF GreaterOf, Option
<1>6. Requested(g, r) = IF r.add = 0 THEN limits ELSE WithExtraAdmits(limits, r.add)
  BY DEF Requested
<1> HIDE DEF codes, uses, total, ttl
<1>7. WithExtraAdmits(limits, r.add) \in Grant /\ WithExtraAdmits(limits, r.add).maxTotal = total + r.add
  <2>1. total + r.add \in Nat \ {0} /\ GreaterOf(codes, total + r.add) \in Nat \ {0}
    BY <1>2, <1>4 DEF GreaterOf
  <2>2. QED BY <1>4, <1>5, <2>1 DEF WithExtraAdmits, Grant
<1>8. limits \in Grant /\ limits.maxTotal = total
  BY <1>4, <1>5 DEF Grant
<1> HIDE DEF limits
<1>9. /\ Requested(g, r) \in Grant
      /\ Requested(g, r).maxTotal = total + r.add
  BY <1>2, <1>4, <1>6, <1>7, <1>8
<1>10. QED BY <1>9 DEF total

LEMMA RequestTypes ==
    ASSUME StoreInv, HandlerTypes, NEW w \in Workers, Request(w)
    PROVE  HandlerTypes'
<1>0. /\ redeemed \subseteq Redemption /\ evicted \subseteq redeemed
      /\ redeemed' \subseteq Redemption
      /\ task \in [Workers -> Task]
  <2>1. StoreInv'
    BY HandlersKeepStore
  <2>2. QED BY <2>1 DEF StoreInv, TypeOK, HandlerTypes
<1>1. \A k : LiveRedemptionsOf(k) \subseteq Redemption
  BY <1>0 DEF LiveRedemptionsOf
<1>2. \A k : k \in Minters => k \in Keys
  BY KeysAssumption
<1>3. ASSUME NEW c \in Codes, NEW k \in Keys, Claim(w, c, k) PROVE HandlerTypes'
  <2> DEFINE t == [Idle EXCEPT !.at = "admit", !.who = {k}, !.claims = redeemed' \ redeemed]
  <2>1. t \in Task /\ t.at = "admit"
    BY <1>0, IdleIsTask DEF Idle, Task, Steps
  <2>2. task' = [task EXCEPT ![w] = t]
    BY <1>3 DEF Claim, Begin
  <2> HIDE DEF t
  <2>3. UNCHANGED <<invited, acked, answered, given, overtaken, restored>> /\ raced' \in SUBSET Keys
    BY <1>3 DEF Claim, fileVars, HandlerTypes
  <2>4. QED BY <2>1, <2>2, <2>3, TypesStep DEF HandlerTypes
<1>4. ASSUME NEW k \in Keys, ClaimAgain(w, k) PROVE HandlerTypes'
  <2> DEFINE t == [Idle EXCEPT !.at = "readmit", !.who = {k}, !.claims = LiveRedemptionsOf(k)]
  <2>1. t \in Task /\ t.at = "readmit"
    BY <1>1, IdleIsTask DEF Idle, Task, Steps
  <2>2. task' = [task EXCEPT ![w] = t]
    BY <1>4 DEF ClaimAgain, Begin
  <2> HIDE DEF t
  <2>3. UNCHANGED <<invited, acked, answered, given, overtaken, restored>> /\ raced' \in SUBSET Keys
    BY <1>4 DEF ClaimAgain, fileVars, HandlerTypes
  <2>4. QED BY <2>1, <2>2, <2>3, TypesStep DEF HandlerTypes
<1>5. ASSUME Begin(w, [Idle EXCEPT !.at = "snapshot"]), given' \in [Keys -> Nat],
             UNCHANGED <<invited, acked, answered, raced, overtaken, restored>>
      PROVE  HandlerTypes'
  <2> DEFINE t == [Idle EXCEPT !.at = "snapshot"]
  <2>1. t \in Task /\ t.at = "snapshot"
    BY IdleIsTask DEF Idle, Task, Steps
  <2>2. task' = [task EXCEPT ![w] = t]
    BY <1>5 DEF Begin
  <2> HIDE DEF t
  <2>3. QED BY <1>5, <2>1, <2>2, TypesStep DEF HandlerTypes
<1>6. ASSUME NEW c \in Codes, RevokeEvicting(w, c) PROVE HandlerTypes'
  <2> DEFINE gone == EvictedByRevoke(c, TRUE)
             t == [Idle EXCEPT !.at = "check", !.who = KeysOf(gone), !.evictions = gone]
  <2>1. gone \subseteq Redemption /\ KeysOf(gone) \subseteq Keys
    BY <1>0 DEF EvictedByRevoke, RedemptionsOf, KeysOf, Redemption
  <2>2. task' = [task EXCEPT ![w] = t]
    BY <1>6 DEF RevokeEvicting, Begin
  <2>3. UNCHANGED <<invited, acked, answered, given, overtaken, restored>> /\ raced' \in SUBSET Keys
    BY <1>6, <2>1 DEF RevokeEvicting, fileVars, HandlerTypes
  <2> HIDE DEF gone
  <2>4. t \in Task /\ t.at = "check"
    BY <2>1, IdleIsTask DEF Idle, Task, Steps
  <2> HIDE DEF t
  <2>5. QED BY <2>2, <2>3, <2>4, TypesStep DEF HandlerTypes
<1>7. ASSUME NEW k \in Keys, EvictRequest(w, k) PROVE HandlerTypes'
  <2> DEFINE t == [Idle EXCEPT !.at = "drop", !.victim = k, !.evictions = LiveRedemptionsOf(k)]
  <2>1. t \in Task /\ t.at = "drop"
    BY <1>1, IdleIsTask DEF Idle, Task, Steps, Option
  <2>2. task' = [task EXCEPT ![w] = t]
    BY <1>7 DEF EvictRequest, Begin
  <2> HIDE DEF t
  <2>3. UNCHANGED <<invited, acked, answered, given, overtaken, restored>> /\ raced' \in SUBSET Keys
    BY <1>7 DEF EvictRequest, fileVars, HandlerTypes
  <2>4. QED BY <2>1, <2>2, <2>3, TypesStep DEF HandlerTypes
<1>8. ASSUME NEW k \in Minters, NEW r \in GrantRequests, GrantRead(w, k, r) PROVE HandlerTypes'
  <2> DEFINE existing == IF GrantOf(k) = None THEN FreshGrant ELSE GrantOf(k)
             g == Requested(existing, r)
             t == [Idle EXCEPT !.at = "grant", !.victim = k, !.grant = g, !.asked = r]
  <2>1. existing \in Grant
    BY <1>2, GrantsInForce DEF GrantOf, StoreInv, TypeOK
  <2>2. task' = [task EXCEPT ![w] = t]
    BY <1>8 DEF GrantRead, GrantBegins, Begin
  <2> HIDE DEF existing
  <2>3. r \in GrantRequest /\ g \in Grant
    BY <2>1, RequestedIsGrant, RequestsAssumption
  <2> HIDE DEF g
  <2>4. t \in Task /\ t.at = "grant" /\ t.victim = k /\ t.grant = g /\ t.asked = r
    BY <1>2, <2>3, IdleIsTask DEF Idle, Task, Steps, Option
  <2> HIDE DEF t
  <2>5. UNCHANGED <<invited, acked, answered, given, overtaken, raced, restored>>
    BY <1>8 DEF GrantRead, GrantBegins, fileVars
  <2>6. QED BY <2>2, <2>3, <2>4, <2>5, TypesStep DEF HandlerTypes
<1>9. \/ \E c \in Codes, k \in Keys : Claim(w, c, k)
      \/ \E k \in Keys : ClaimAgain(w, k)
      \/ \E c \in Codes, k \in Admins \cup Minters, uses \in AskedUses, ttl \in AskedTtls :
            AdminMintRequest(w, c, k, uses, ttl) \/ MintRequest(w, c, k, uses, ttl)
      \/ \E c \in Codes : RevokeRequest(w, c)
      \/ \E c \in Codes : RevokeEvicting(w, c)
      \/ \E k \in Keys : EvictRequest(w, k)
      \/ \E k \in Minters, r \in GrantRequests : GrantRead(w, k, r)
      \/ \E k \in Minters : UngrantRequest(w, k)
  BY DEF Request
<1>10. ASSUME \/ \E c, k, uses, ttl : AdminMintRequest(w, c, k, uses, ttl) \/ MintRequest(w, c, k, uses, ttl)
              \/ \E c : RevokeRequest(w, c)
       PROVE  HandlerTypes'
  BY <1>5, <1>10 DEF AdminMintRequest, MintRequest, MintAndPersist, RevokeRequest, fileVars, HandlerTypes
<1>11. ASSUME NEW k, UngrantRequest(w, k) PROVE HandlerTypes'
  <2>1. given' \in [Keys -> Nat]
    BY <1>11 DEF UngrantRequest, HandlerTypes
  <2>2. QED BY <1>5, <1>11, <2>1 DEF UngrantRequest, fileVars
<1>12. QED BY ONLY <1>11, <1>3, <1>4, <1>6, <1>7, <1>8, <1>9, <1>10

LEMMA WorkTypes ==
    ASSUME StoreInv, Sound(redeemed, evicted), HandlerTypes, NEW w \in Workers, Work(w)
    PROVE  HandlerTypes'
<1>0. /\ task \in [Workers -> Task] /\ task[w] \in Task
      /\ task[w].claims \subseteq Redemption /\ task[w].evictions \subseteq Redemption
      /\ task[w].who \subseteq Keys
      /\ invited \subseteq Keys /\ acked \subseteq Redemption /\ answered \subseteq Redemption
      /\ given \in [Keys -> Nat] /\ overtaken \in SUBSET Keys
  BY DEF HandlerTypes, Task
<1>1. ASSUME NEW t \in Task, task' = [task EXCEPT ![w] = t], t.at # "grant",
             UNCHANGED <<raced, restored>>, invited' \in SUBSET Keys,
             acked' = acked \/ acked' = acked \cup task[w].claims,
             answered' = answered \/ answered' = answered \cup task[w].evictions,
             given' \in [Keys -> Nat], overtaken' \in SUBSET Keys
      PROVE  HandlerTypes'
  <2>1. acked' \in SUBSET Redemption /\ answered' \in SUBSET Redemption /\ raced' \in SUBSET Keys
    BY <1>0, <1>1 DEF HandlerTypes
  <2>2. QED BY <1>1, <2>1, TypesStep
<1>2. CASE AddInvited(w)
  <2>1. invited' \in SUBSET Keys /\ UNCHANGED <<raced, restored, given, overtaken>>
    BY <1>0, <1>2 DEF AddInvited, fileVars
  <2>2. CASE task[w].at = "admit"
    <3> DEFINE t == [task[w] EXCEPT !.at = "snapshot", !.who = {}]
    <3>1. t \in Task /\ t.at # "grant"
      BY <1>0 DEF Task, Steps
    <3>2. task' = [task EXCEPT ![w] = t] /\ UNCHANGED <<acked, answered>>
      BY <1>0, <1>2, <2>2 DEF AddInvited
    <3> HIDE DEF t
    <3>3. QED BY <1>0, <1>1, <2>1, <3>1, <3>2
  <2>3. CASE task[w].at = "readmit"
    <3>1. task' = [task EXCEPT ![w] = Idle]
          /\ acked' = acked \cup task[w].claims /\ answered' = answered \cup task[w].evictions
      BY <1>2, <2>3 DEF AddInvited, Answer, Done
    <3>2. QED BY <1>0, <1>1, <2>1, <3>1, IdleIsTask
  <2>4. QED BY <1>2, <2>2, <2>3 DEF AddInvited
<1>3. CASE CheckEvicted(w)
  <2>1. UNCHANGED <<invited, acked, answered, given, overtaken, raced, restored>>
    BY <1>3 DEF CheckEvicted, fileVars
  <2>2. CASE Goto(w, "snapshot")
    <3> DEFINE t == [task[w] EXCEPT !.at = "snapshot"]
    <3>1. t \in Task /\ t.at # "grant"
      BY <1>0 DEF Task, Steps
    <3>2. task' = [task EXCEPT ![w] = t]
      BY <1>0, <2>2 DEF Goto
    <3> HIDE DEF t
    <3>3. QED BY <1>0, <1>1, <2>1, <3>1, <3>2
  <2>3. ASSUME NEW k \in task[w].who,
               task' = [task EXCEPT ![w].at = "drop", ![w].who = @ \ {k}, ![w].victim = k]
        PROVE  HandlerTypes'
    <3> DEFINE t == [task[w] EXCEPT !.at = "drop", !.who = @ \ {k}, !.victim = k]
    <3>1. k \in Option(Keys)
      BY <1>0 DEF Option
    <3>2. t \in Task /\ t.at # "grant"
      BY <1>0, <3>1 DEF Task, Steps
    <3>3. task' = [task EXCEPT ![w] = t]
      BY <1>0, <2>3
    <3> HIDE DEF t
    <3>4. QED BY <1>0, <1>1, <2>1, <3>2, <3>3
  <2>4. ASSUME NEW k \in task[w].who, task' = [task EXCEPT ![w].who = @ \ {k}]
        PROVE  HandlerTypes'
    <3> DEFINE t == [task[w] EXCEPT !.who = @ \ {k}]
    <3>1. t \in Task /\ t.at = "check"
      BY <1>0, <1>3 DEF Task, Steps, CheckEvicted
    <3>2. task' = [task EXCEPT ![w] = t]
      BY <1>0, <2>4
    <3> HIDE DEF t
    <3>3. QED BY <1>0, <1>1, <2>1, <3>1, <3>2
  <2>5. QED BY <1>3, <2>2, <2>3, <2>4 DEF CheckEvicted
<1>4. CASE DropInvited(w)
  <2> DEFINE t == [task[w] EXCEPT !.at = "check", !.victim = None]
  <2>1. t \in Task /\ t.at # "grant"
    BY <1>0 DEF Task, Steps, Option
  <2>2. task' = [task EXCEPT ![w] = t]
    BY <1>0, <1>4 DEF DropInvited
  <2>3. invited' \in SUBSET Keys /\ UNCHANGED <<acked, answered, given, overtaken, raced, restored>>
    BY <1>0, <1>4 DEF DropInvited, fileVars
  <2> HIDE DEF t
  <2>4. QED BY <1>0, <1>1, <2>1, <2>2, <2>3
<1>5. CASE GrantSet(w)
  <2> DEFINE t == [task[w] EXCEPT !.at = "snapshot", !.victim = None, !.grant = None, !.asked = None]
             asked == task[w].asked
             before == IF asked.maxTotal = None THEN given[task[w].victim] ELSE 0
  <2>1. t \in Task /\ t.at # "grant"
    BY <1>0 DEF Task, Steps, Option
  <2>2. task' = [task EXCEPT ![w] = t]
    BY <1>0, <1>5 DEF GrantSet
  <2>3. given' \in [Keys -> Nat] /\ overtaken' \in SUBSET Keys
    <3>1. task[w].victim \in Keys /\ asked \in GrantRequest
      BY <1>5, KeysAssumption DEF GrantSet, HandlerTypes
    <3>2. given' = [given EXCEPT ![task[w].victim] = before + asked.add]
      BY <1>5 DEF GrantSet
    <3>3. before + asked.add \in Nat
      BY <1>0, <3>1 DEF GrantRequest
    <3>4. overtaken' = overtaken \/ overtaken' = overtaken \cup {task[w].victim}
      BY <1>5 DEF GrantSet
    <3>5. QED BY <1>0, <3>1, <3>2, <3>3, <3>4
  <2>4. UNCHANGED <<invited, acked, answered, raced, restored>>
    BY <1>5 DEF GrantSet, fileVars
  <2> HIDE DEF t
  <2>5. QED BY <1>0, <1>1, <2>1, <2>2, <2>3, <2>4
<1>6. CASE Snapshot(w)
  <2> DEFINE t == [task[w] EXCEPT !.at = "open", !.snap = CurrentState]
  <2>1. CurrentState \in Saved
    BY CurrentIsWhole DEF Whole
  <2>2. task' = [task EXCEPT ![w] = t]
    BY <1>0, <1>6 DEF Snapshot
  <2> HIDE DEF CurrentState
  <2>3. t \in Task /\ t.at # "grant"
    BY <1>0, <2>1 DEF Task, Steps, Option
  <2>4. UNCHANGED <<invited, acked, answered, given, overtaken, raced, restored>>
    BY <1>6 DEF Snapshot, fileVars
  <2> HIDE DEF t
  <2>5. QED BY <1>0, <1>1, <2>2, <2>3, <2>4
<1>7. CASE OpenTmp(w)
  <2> DEFINE t == [task[w] EXCEPT !.at = "write", !.fd = "tmp"]
  <2>1. t \in Task /\ t.at # "grant"
    BY <1>0 DEF Task, Steps
  <2>2. task' = [task EXCEPT ![w] = t]
    BY <1>0, <1>7 DEF OpenTmp
  <2>3. UNCHANGED <<invited, acked, answered, given, overtaken, raced, restored>>
    BY <1>7 DEF OpenTmp
  <2> HIDE DEF t
  <2>4. QED BY <1>0, <1>1, <2>1, <2>2, <2>3
<1>8. CASE WriteTmp(w)
  <2> DEFINE t == [task[w] EXCEPT !.at = "rename"]
  <2>1. t \in Task /\ t.at # "grant"
    BY <1>0 DEF Task, Steps
  <2>2. task' = [task EXCEPT ![w] = t]
    BY <1>0, <1>8 DEF WriteTmp, Goto
  <2>3. UNCHANGED <<invited, acked, answered, given, overtaken, raced, restored>>
    BY <1>8 DEF WriteTmp
  <2> HIDE DEF t
  <2>4. QED BY <1>0, <1>1, <2>1, <2>2, <2>3
<1>9. CASE RenameTmp(w) /\ tmp # NoFile
  <2>1. task' = [v \in Workers |->
            IF v = w THEN Idle ELSE [task[v] EXCEPT !.fd = AfterRename(@)]]
    BY <1>9 DEF RenameTmp
  <2>2. ASSUME NEW v \in Workers
        PROVE  /\ task'[v] \in Task
               /\ task'[v].at = "grant" =>
                     /\ task'[v].victim \in Minters /\ task'[v].grant \in Grant
                     /\ task'[v].asked \in GrantRequest
    <3>1. CASE v = w
      BY <2>1, <3>1, IdleIsTask
    <3>2. CASE v # w
      <4>1. task[v] \in Task /\ AfterRename(task[v].fd) \in {"none", "tmp", "disk", "orphan"}
        BY <1>0 DEF Task, AfterRename
      <4>2. task'[v] = [task[v] EXCEPT !.fd = AfterRename(task[v].fd)]
        BY <2>1, <3>2
      <4>3. task'[v] \in Task /\ task'[v].at = task[v].at
            /\ task'[v].victim = task[v].victim /\ task'[v].grant = task[v].grant
            /\ task'[v].asked = task[v].asked
        BY <4>1, <4>2 DEF Task
      <4>4. QED BY <4>3 DEF HandlerTypes
    <3>3. QED BY <3>1, <3>2
  <2>3. task' \in [Workers -> Task]
    BY <2>1, <2>2
  <2>4. /\ UNCHANGED <<invited, raced, given, overtaken, restored>>
        /\ acked' \in SUBSET Redemption /\ answered' \in SUBSET Redemption
    BY <1>0, <1>9 DEF RenameTmp
  <2>5. QED BY <2>2, <2>3, <2>4 DEF HandlerTypes
<1>10. CASE (RenameTmp(w) /\ tmp = NoFile) \/ PersistFails(w)
  <2>1. /\ task' = [task EXCEPT ![w] = Idle]
        /\ acked' = acked \cup task[w].claims /\ answered' = answered \cup task[w].evictions
        /\ UNCHANGED <<invited, raced, given, overtaken, restored>>
    BY <1>10 DEF RenameTmp, PersistFails, Answer, Done, fileVars
  <2>2. QED BY <1>0, <1>1, <2>1, IdleIsTask
<1>11. QED BY <1>2, <1>3, <1>4, <1>5, <1>6, <1>7, <1>8, <1>9, <1>10 DEF Work

-----------------------------------------------------------------------------
(* The files stay whole. *)

\* Steps that change neither file nor what is about to be written.
LEMMA FilesStep ==
    ASSUME FilesWhole, CeilingsKept, StoreInv, StoreInv',
           \A f \in {disk', tmp', backup'} : IsSaved(f) => Whole(f, admitCeiling),
           \A v \in Workers : task'[v].at \in {"open", "write"} => Whole(task'[v].snap, admitCeiling)
    PROVE  FilesWhole'
<1>1. admitCeiling \in [Keys -> Nat] /\ admitCeiling' \in [Keys -> Nat]
  BY DEF StoreInv, TypeOK
<1>2. \A f : Whole(f, admitCeiling) => Whole(f, admitCeiling')
  BY <1>1, WholeLasts DEF CeilingsKept
<1>3. QED BY <1>2 DEF FilesWhole, IsSaved

\* What a request of w leaves: a task with its files still to be written, which will confirm
\* what the store now has on record.
Begins(w, begun) ==
    /\ task[w].at = "idle" /\ Begin(w, begun)
    /\ begun.at \in Steps \ {"idle", "open", "write", "rename"}
    /\ begun.claims \subseteq redeemed' /\ begun.evictions \subseteq evicted'
    /\ begun.at \in {"readmit", "grant"} => UNCHANGED stored
    /\ redeemed \subseteq redeemed' /\ evicted \subseteq evicted'
    /\ UNCHANGED <<acked, answered, fileVars>>

LEMMA RequestBegins == ASSUME NEW w \in Workers, Request(w) PROVE \E begun : Begins(w, begun)
<1> USE DEF Steps
<1> DEFINE started == \E begun : Begins(w, begun)
<1>1. ASSUME NEW c, NEW k, Claim(w, c, k) PROVE started
  <2> DEFINE t == [Idle EXCEPT !.at = "admit", !.who = {k}, !.claims = redeemed' \ redeemed]
  <2>1. /\ task[w].at = "idle" /\ Begin(w, t) /\ UNCHANGED <<acked, answered, fileVars>>
        /\ redeemed \subseteq redeemed' /\ evicted \subseteq evicted'
    BY <1>1 DEF Claim, Redeem
  <2>2. t.at = "admit" /\ t.claims \subseteq redeemed' /\ t.evictions = {}
    BY DEF Idle
  <2> HIDE DEF t
  <2>3. QED BY <2>1, <2>2 DEF Begins
<1>2. ASSUME NEW k, ClaimAgain(w, k) PROVE started
  <2> DEFINE t == [Idle EXCEPT !.at = "readmit", !.who = {k}, !.claims = LiveRedemptionsOf(k)]
  <2>1. /\ task[w].at = "idle" /\ Begin(w, t) /\ UNCHANGED <<stored, acked, answered, fileVars>>
        /\ redeemed' = redeemed /\ evicted' = evicted
    BY <1>2 DEF ClaimAgain, storeVars, stored
  <2>2. t.at = "readmit" /\ t.claims \subseteq redeemed /\ t.evictions = {}
    BY DEF Idle, LiveRedemptionsOf
  <2> HIDE DEF t
  <2>3. QED BY <2>1, <2>2 DEF Begins
<1>3. ASSUME \/ \E c, k, uses, ttl : AdminMintRequest(w, c, k, uses, ttl) \/ MintRequest(w, c, k, uses, ttl)
             \/ \E c : RevokeRequest(w, c)
             \/ \E k : UngrantRequest(w, k)
      PROVE  started
  <2> DEFINE t == [Idle EXCEPT !.at = "snapshot"]
  <2>1. task[w].at = "idle" /\ Begin(w, t) /\ UNCHANGED <<acked, answered, fileVars>>
    BY <1>3 DEF AdminMintRequest, MintRequest, MintAndPersist, RevokeRequest, UngrantRequest
  <2>2. redeemed \subseteq redeemed' /\ evicted \subseteq evicted'
    <3>1. /\ \A c, k, asAdmin, uses, ttl : Mint(c, k, asAdmin, uses, ttl) =>
                redeemed' = redeemed /\ evicted' = evicted
          /\ \A c, evict : Revoke(c, evict) => redeemed' = redeemed /\ evicted \subseteq evicted'
          /\ \A k : RemoveGrant(k) => redeemed' = redeemed /\ evicted' = evicted
      BY DEF Mint, Revoke, RemoveGrant
    <3>2. QED BY <1>3, <3>1 DEF AdminMintRequest, MintRequest, MintAndPersist, RevokeRequest, UngrantRequest
  <2>3. t.at = "snapshot" /\ t.claims = {} /\ t.evictions = {}
    BY DEF Idle
  <2> HIDE DEF t
  <2>4. QED BY <2>1, <2>2, <2>3 DEF Begins
<1>4. ASSUME NEW c, RevokeEvicting(w, c) PROVE started
  <2> DEFINE gone == EvictedByRevoke(c, TRUE)
             t == [Idle EXCEPT !.at = "check", !.who = KeysOf(gone), !.evictions = gone]
  <2>1. /\ task[w].at = "idle" /\ Begin(w, t) /\ UNCHANGED <<acked, answered, fileVars>>
        /\ redeemed' = redeemed /\ evicted' = evicted \cup gone
    BY <1>4 DEF RevokeEvicting, Revoke
  <2>2. t.at = "check" /\ t.claims = {} /\ t.evictions = gone
    BY DEF Idle
  <2> HIDE DEF t
  <2>3. QED BY <2>1, <2>2 DEF Begins
<1>5. ASSUME NEW k, EvictRequest(w, k) PROVE started
  <2> DEFINE t == [Idle EXCEPT !.at = "drop", !.victim = k, !.evictions = LiveRedemptionsOf(k)]
  <2>1. /\ task[w].at = "idle" /\ Begin(w, t) /\ UNCHANGED <<acked, answered, fileVars>>
        /\ redeemed' = redeemed /\ evicted' = evicted \cup LiveRedemptionsOf(k)
    BY <1>5 DEF EvictRequest, Evict
  <2>2. t.at = "drop" /\ t.claims = {} /\ t.evictions = LiveRedemptionsOf(k)
    BY DEF Idle
  <2> HIDE DEF t
  <2>3. QED BY <2>1, <2>2 DEF Begins
<1>6. ASSUME NEW k, NEW r, GrantRead(w, k, r) PROVE started
  <2> DEFINE existing == IF GrantOf(k) = None THEN FreshGrant ELSE GrantOf(k)
             t == [Idle EXCEPT !.at = "grant", !.victim = k, !.grant = Requested(existing, r), !.asked = r]
  <2>1. /\ task[w].at = "idle" /\ Begin(w, t) /\ UNCHANGED <<stored, acked, answered, fileVars>>
        /\ redeemed' = redeemed /\ evicted' = evicted
    BY <1>6 DEF GrantRead, GrantBegins, storeVars, stored
  <2>2. t.at = "grant" /\ t.claims = {} /\ t.evictions = {}
    BY DEF Idle
  <2> HIDE DEF t
  <2>3. QED BY <2>1, <2>2 DEF Begins
<1> HIDE DEF started
<1>7. \/ \E c, k, uses, ttl : AdminMintRequest(w, c, k, uses, ttl) \/ MintRequest(w, c, k, uses, ttl)
      \/ \E c : RevokeRequest(w, c)
      \/ \E k : UngrantRequest(w, k)
      \/ \E c, k : Claim(w, c, k)
      \/ \E k : ClaimAgain(w, k) \/ EvictRequest(w, k)
      \/ \E k, r : GrantRead(w, k, r)
      \/ \E c : RevokeEvicting(w, c)
  BY DEF Request
<1>8. started
  BY ONLY <1>1, <1>2, <1>3, <1>4, <1>5, <1>6, <1>7
<1>9. QED BY <1>8 DEF started

LEMMA FilesStayWhole ==
    ASSUME StoreInv, StoreInv', CeilingsKept, Sound(redeemed, evicted), HandlerTypes, FilesWhole,
           NEW w \in Workers, Request(w) \/ Work(w)
    PROVE  FilesWhole'
<1>0. task \in [Workers -> Task]
  BY DEF HandlerTypes
<1>1. ASSUME \A v \in Workers : v # w => task'[v] = task[v],
             task'[w].at \in {"open", "write"} => Whole(task'[w].snap, admitCeiling),
             \A f \in {disk', tmp'} : IsSaved(f) => Whole(f, admitCeiling),
             UNCHANGED backup
      PROVE  FilesWhole'
  BY <1>1, FilesStep DEF FilesWhole
<1>2. CASE Request(w)
  <2>1. PICK begun : Begins(w, begun)
    BY <1>2, RequestBegins
  <2>2. UNCHANGED <<disk, tmp, backup>>
    BY <2>1 DEF Begins, fileVars
  <2>3. /\ \A v \in Workers : v # w => task'[v] = task[v]
        /\ task'[w].at \notin {"open", "write"}
    BY <1>0, <2>1 DEF Begins, Begin
  <2>4. QED BY <1>1, <2>2, <2>3 DEF FilesWhole
<1>3. CASE Snapshot(w)
  <2>1. /\ \A v \in Workers : v # w => task'[v] = task[v]
        /\ task'[w].snap = CurrentState
    BY <1>0, <1>3 DEF Snapshot, Task
  <2>2. UNCHANGED <<disk, tmp, backup>>
    BY <1>3 DEF Snapshot, fileVars
  <2>3. QED BY <1>1, <2>1, <2>2, CurrentIsWhole DEF FilesWhole
<1>4. CASE OpenTmp(w)
  <2>1. /\ \A v \in Workers : v # w => task'[v] = task[v]
        /\ task'[w].snap = task[w].snap /\ task[w].at = "open"
    BY <1>0, <1>4 DEF OpenTmp, Task
  <2>2. UNCHANGED <<disk, backup>> /\ ~IsSaved(tmp')
    BY <1>4 DEF OpenTmp, IsSaved
  <2>3. QED BY <1>1, <2>1, <2>2 DEF FilesWhole
<1>5. CASE WriteTmp(w)
  <2>1. /\ \A v \in Workers : v # w => task'[v] = task[v]
        /\ task'[w].at = "rename" /\ task[w].at = "write"
    BY <1>0, <1>5 DEF WriteTmp, Goto, Task
  <2>2. \A f : \A g \in Overwritten(f, task[w].snap) : IsSaved(g) => Whole(g, admitCeiling)
    BY <2>1 DEF Overwritten, FilesWhole, IsSaved
  <2>3. \A f \in {disk', tmp'} : IsSaved(f) => Whole(f, admitCeiling)
    BY <1>5, <2>2 DEF WriteTmp, FilesWhole
  <2>4. QED BY <1>1, <1>5, <2>1, <2>3 DEF WriteTmp
<1>6. CASE RenameTmp(w) /\ tmp # NoFile
  <2>1. \A v \in Workers : /\ v # w => task'[v].at = task[v].at /\ task'[v].snap = task[v].snap
                           /\ v = w => task'[v].at = "idle"
    BY <1>0, <1>6, IdleIsTask DEF RenameTmp, Task
  <2>2. disk' = tmp /\ tmp' = NoFile /\ backup' = backup
    BY <1>6 DEF RenameTmp
  <2>3. \A v \in Workers : task'[v].at \in {"open", "write"} => Whole(task'[v].snap, admitCeiling)
    BY <2>1 DEF FilesWhole
  <2>4. \A f \in {disk', tmp', backup'} : IsSaved(f) => Whole(f, admitCeiling)
    BY <2>2 DEF FilesWhole, IsSaved
  <2>5. QED BY <2>3, <2>4, FilesStep
<1>7. CASE (RenameTmp(w) /\ tmp = NoFile) \/ PersistFails(w)
  <2>1. task' = [task EXCEPT ![w] = Idle] /\ UNCHANGED <<disk, tmp, backup>>
    BY <1>7 DEF RenameTmp, PersistFails, Answer, Done, fileVars
  <2>2. QED BY <1>0, <1>1, <2>1, IdleIsTask DEF FilesWhole
<1>8. CASE AddInvited(w) \/ CheckEvicted(w) \/ DropInvited(w) \/ GrantSet(w)
  <2>1. UNCHANGED <<disk, tmp, backup>>
    BY <1>8 DEF AddInvited, CheckEvicted, DropInvited, GrantSet, fileVars
  <2>2. /\ \A v \in Workers : v # w => task'[v] = task[v]
        /\ task'[w].at \notin {"open", "write"}
    <3>1. task[w] \in Task
      BY <1>0
    <3>2. CASE AddInvited(w)
      BY <1>0, <3>1, <3>2, IdleIsTask DEF AddInvited, Answer, Done, Task
    <3>3. CASE CheckEvicted(w)
      <4>1. /\ task[w].at = "check"
            /\ \/ task' = [task EXCEPT ![w].at = "snapshot"]
               \/ \E k : task' = [task EXCEPT ![w].at = "drop", ![w].who = @ \ {k}, ![w].victim = k]
               \/ \E k : task' = [task EXCEPT ![w].who = @ \ {k}]
        BY <3>3 DEF CheckEvicted, Goto
      <4>2. DOMAIN task = Workers /\ "at" \in DOMAIN task[w] /\ "who" \in DOMAIN task[w]
        BY <1>0, <3>1 DEF Task
      <4>3. CASE task' = [task EXCEPT ![w].at = "snapshot"]
        BY <4>2, <4>3
      <4>4. ASSUME NEW k,
                   task' = [task EXCEPT ![w].at = "drop", ![w].who = @ \ {k}, ![w].victim = k]
            PROVE  task'[w].at = "drop" /\ \A v \in Workers : v # w => task'[v] = task[v]
        BY <4>2, <4>4
      <4>5. ASSUME NEW k, task' = [task EXCEPT ![w].who = @ \ {k}]
            PROVE  task'[w].at = task[w].at /\ \A v \in Workers : v # w => task'[v] = task[v]
        BY <4>2, <4>5
      <4>6. QED BY <4>1, <4>3, <4>4, <4>5
    <3>4. CASE DropInvited(w) \/ GrantSet(w)
      BY <1>0, <3>1, <3>4 DEF DropInvited, GrantSet, Task
    <3>5. QED BY <1>8, <3>2, <3>3, <3>4
  <2>3. QED BY <1>1, <2>1, <2>2 DEF FilesWhole
<1>9. QED BY <1>2, <1>3, <1>4, <1>5, <1>6, <1>7, <1>8 DEF Work

LEMMA BackupKeepsState ==
    ASSUME StateInv, TakeBackup \/ RestoreBackup \/ UNCHANGED admissionVars
    PROVE  StateInv'
<1>1. /\ UNCHANGED <<storeVars, handlerVars>> /\ tmp' = tmp
      /\ {disk', backup'} \subseteq {disk, backup} /\ restored' \in {restored, TRUE}
  BY DEF TakeBackup, RestoreBackup, admissionVars, fileVars
<1>2. StoreInv'
  BY <1>1, NextPreserves DEF StateInv
<1>3. HandlerTypes'
  BY <1>1 DEF StateInv, HandlerTypes, handlerVars
<1>4. UNCHANGED <<task, admitCeiling>>
  BY <1>1 DEF storeVars, ceilings, handlerVars
<1>5. FilesWhole'
  BY <1>1, <1>4 DEF StateInv, FilesWhole, IsSaved
<1>6. QED BY <1>2, <1>3, <1>5 DEF StateInv

LEMMA RestartKeepsState == ASSUME StateInv, Restart PROVE StateInv'
<1>1. StoreInv' /\ CeilingsKept
  BY RestartKeepsStore DEF StateInv
<1>2. /\ invited' = AdmittedPubkeys' /\ raced' = {} /\ given' = [k \in Keys |-> 0]
      /\ overtaken' = {}
      /\ task' = [w \in Workers |-> Idle] /\ restored' = FALSE
      /\ UNCHANGED <<disk, tmp, backup>>
  BY DEF Restart
<1>3. acked' \subseteq acked /\ answered' \subseteq answered
  BY DEF Restart, ForgetAnswers
<1>4. invited' \in SUBSET Keys
  BY <1>1, <1>2 DEF AdmittedPubkeys, StoreInv, TypeOK, Redemption
<1>5. HandlerTypes'
  BY <1>2, <1>3, <1>4, IdleIsTask DEF StateInv, HandlerTypes
<1>6. FilesWhole'
  <2>1. \A w \in Workers : task'[w].at = "idle"
    BY <1>2, IdleIsTask
  <2>2. QED BY <1>1, <1>2, <2>1, FilesStep DEF StateInv, FilesWhole
<1>7. QED BY <1>1, <1>5, <1>6 DEF StateInv

LEMMA StateInit == AdmissionInit => StateInv
<1> SUFFICES ASSUME AdmissionInit PROVE StateInv
  OBVIOUS
<1>1. StoreInv
  BY InitEstablishes DEF AdmissionInit
<1>2. \A w \in Workers : task[w].at = "idle"
  BY IdleIsTask DEF AdmissionInit
<1>3. HandlerTypes
  BY <1>2, IdleIsTask DEF AdmissionInit, HandlerTypes
<1>4. FilesWhole
  BY <1>2 DEF AdmissionInit, FilesWhole, IsSaved
<1>5. QED BY <1>1, <1>3, <1>4 DEF StateInv

LEMMA StateInvHolds == AdmissionSpec => []StateInv
<1>1. AdmissionInit => StateInv
  BY StateInit
<1>2. StateInv /\ AdmissionInv /\ [AdmissionNext]_admissionVars => StateInv'
  <2> SUFFICES ASSUME StateInv, AdmissionInv, [AdmissionNext]_admissionVars PROVE StateInv'
    OBVIOUS
  <2>1. ASSUME NEW w \in Workers, Request(w) \/ Work(w) PROVE StateInv'
    <3>1. Sound(redeemed, evicted)
      BY DEF AdmissionInv
    <3>2. StoreInv' /\ CeilingsKept
      BY <2>1, HandlersKeepStore DEF StateInv
    <3>3. HandlerTypes'
      BY <2>1, <3>1, RequestTypes, WorkTypes DEF StateInv
    <3>4. FilesWhole'
      BY <2>1, <3>1, <3>2, FilesStayWhole DEF StateInv
    <3>5. QED BY <3>2, <3>3, <3>4 DEF StateInv
  <2>2. QED BY <2>1, BackupKeepsState, RestartKeepsState DEF AdmissionNext
<1>3. QED BY <1>1, <1>2, AdmissionInvHolds, PTL DEF AdmissionSpec

\* invite_api.rs, relay_invites.rs: whatever the handlers do at once and whichever of their
\* files a crash leaves, every variable keeps its type; what a file loads as is a state of the
\* store, or nothing.
THEOREM AdmissionTypes == AdmissionSpec => []AdmissionTypeOK
<1>1. StateInv => AdmissionTypeOK
  BY DEF StateInv, StoreInv, HandlerTypes, FilesWhole, Whole, IsSaved, Contents, AdmissionTypeOK
<1>2. QED BY <1>1, StateInvHolds, PTL

\* relay_invites.rs, new() and persist(): a restart never lets more people in through a code
\* than its max_uses, or through a minter's codes than the most generous total ever in force,
\* although the file it loads may be older than what ran.
THEOREM QuotasOutliveRestarts == AdmissionSpec => [](UsesWithinLimit /\ AdmitsWithinCeiling)
<1>1. StateInv => UsesWithinLimit /\ AdmitsWithinCeiling
  BY DEF StateInv, StoreInv
<1>2. QED BY <1>1, StateInvHolds, PTL

-----------------------------------------------------------------------------
(* One handler at a time. *)

OneWorker == \A v, w \in Workers : v = w

\* Nothing answered since the last save, and nothing half done.
Rested == \A w \in Workers : task[w].at \in {"idle", "readmit", "grant"}

SavingInStep ==
    \A w \in Workers :
        /\ task[w].at = "write" => tmp = Empty /\ task[w].fd = "tmp"
        /\ task[w].at = "rename" => tmp = task[w].snap
        /\ task[w].at \in {"open", "write", "rename"} => task[w].snap = CurrentState
        /\ task[w].claims \subseteq redeemed
        /\ task[w].evictions \subseteq evicted

OneWriterInv ==
    /\ {disk, backup} \cap {Empty, Torn} = {}
    /\ SavingInStep
    /\ Rested => OnDisk = CurrentState \/ (restored /\ disk = backup)
    /\ ~restored =>
          /\ OnDisk.redeemed \subseteq redeemed /\ OnDisk.evicted \subseteq evicted
          /\ acked \subseteq OnDisk.redeemed /\ answered \subseteq OnDisk.evicted


\* The step of w, who has the files to itself, keeps them in step with the store.
LEMMA RequestInStep ==
    ASSUME OneWorker, StateInv, OneWriterInv, NEW w \in Workers, Request(w)
    PROVE  OneWriterInv'
<1>1. PICK begun : Begins(w, begun)
  BY RequestBegins
<1>2. task' = [task EXCEPT ![w] = begun] /\ task \in [Workers -> Task]
  BY <1>1 DEF Begins, Begin, StateInv, HandlerTypes
<1>3. task'[w] = begun /\ task[w].at = "idle" /\ \A v \in Workers : v = w
  BY <1>1, <1>2 DEF Begins, OneWorker
<1>4. UNCHANGED <<disk, tmp, backup, restored, acked, answered, OnDisk>>
  BY <1>1 DEF Begins, fileVars, OnDisk
<1>5. SavingInStep'
  BY <1>1, <1>3 DEF Begins, SavingInStep
<1>6. Rested' => OnDisk' = CurrentState' \/ (restored' /\ disk' = backup')
  <2> SUFFICES ASSUME Rested' PROVE OnDisk' = CurrentState' \/ (restored' /\ disk' = backup')
    OBVIOUS
  <2>1. Rested /\ begun.at \in {"readmit", "grant"}
    BY <1>1, <1>3 DEF Begins, Rested
  <2>2. UNCHANGED CurrentState
    BY <1>1, <2>1 DEF Begins, stored, CurrentState
  <2>3. QED BY <1>4, <2>1, <2>2 DEF OneWriterInv
<1>7. redeemed \subseteq redeemed' /\ evicted \subseteq evicted'
  BY <1>1 DEF Begins
<1> HIDE DEF OnDisk
<1>8. QED BY <1>4, <1>5, <1>6, <1>7 DEF OneWriterInv

\* The work of a handler before its files: the copy, the evicted keys, the grant.
LEMMA WorkInStep ==
    ASSUME OneWorker, StateInv, OneWriterInv, NEW w \in Workers,
           AddInvited(w) \/ CheckEvicted(w) \/ DropInvited(w) \/ GrantSet(w) \/ Snapshot(w)
    PROVE  OneWriterInv'
<1> USE DEF storeVars, stored, fileVars
<1>0. task \in [Workers -> Task] /\ task[w] \in Task /\ \A v \in Workers : v = w
  BY DEF StateInv, HandlerTypes, OneWorker
<1>1. UNCHANGED <<disk, tmp, backup, restored, redeemed, evicted, OnDisk>>
  BY DEF AddInvited, CheckEvicted, DropInvited, GrantSet, SetGrant, Snapshot, OnDisk
<1>2. /\ task[w].claims \subseteq redeemed /\ task[w].evictions \subseteq evicted
      /\ {disk, backup} \cap {Empty, Torn} = {}
      /\ ~restored => /\ OnDisk.redeemed \subseteq redeemed /\ OnDisk.evicted \subseteq evicted
                      /\ acked \subseteq OnDisk.redeemed /\ answered \subseteq OnDisk.evicted
  BY DEF OneWriterInv, SavingInStep
<1> HIDE DEF OnDisk
<1>3. ASSUME task'[w].at \in {"check", "drop", "snapshot", "open"},
             task'[w].claims = task[w].claims, task'[w].evictions = task[w].evictions,
             task'[w].at = "open" => task'[w].snap = CurrentState',
             UNCHANGED <<acked, answered>>
      PROVE  OneWriterInv'
  <2>1. SavingInStep' /\ ~Rested'
    BY <1>0, <1>1, <1>2, <1>3 DEF SavingInStep, Rested
  <2>2. QED BY <1>1, <1>2, <1>3, <2>1 DEF OneWriterInv
<1>4. CASE AddInvited(w)
  <2>1. CASE task[w].at = "readmit"
    <3>1. /\ task'[w] = Idle /\ acked' = acked \cup task[w].claims
          /\ answered' = answered \cup task[w].evictions
      BY <1>0, <1>4, <2>1 DEF AddInvited, Answer, Done
    <3>2. task'[w].at = "idle" /\ task'[w].claims = {} /\ task'[w].evictions = {}
      BY <3>1 DEF Idle
    <3>3. SavingInStep'
      BY <1>0, <3>2 DEF SavingInStep
    <3>4. OnDisk = CurrentState \/ (restored /\ disk = backup)
      BY <1>0, <2>1 DEF OneWriterInv, Rested
    <3>5. UNCHANGED CurrentState
      BY <1>4 DEF AddInvited, CurrentState
    <3>6. ~restored => task[w].claims \subseteq OnDisk.redeemed /\ task[w].evictions \subseteq OnDisk.evicted
      BY <1>2, <3>4 DEF CurrentState
    <3> HIDE DEF CurrentState
    <3>7. QED BY <1>1, <1>2, <3>1, <3>3, <3>4, <3>5, <3>6 DEF OneWriterInv
  <2>2. CASE task[w].at = "admit"
    <3>1. task' = [task EXCEPT ![w].at = "snapshot", ![w].who = {}] /\ UNCHANGED <<acked, answered>>
      BY <1>4, <2>2 DEF AddInvited
    <3>2. /\ task'[w].at = "snapshot"
          /\ task'[w].claims = task[w].claims /\ task'[w].evictions = task[w].evictions
      BY <1>0, <3>1 DEF Task
    <3>3. QED BY <1>3, <3>1, <3>2
  <2>3. QED BY <1>4, <2>1, <2>2 DEF AddInvited
<1>5. CASE CheckEvicted(w)
  <2>1. task[w].at = "check" /\ UNCHANGED <<acked, answered>>
    BY <1>5 DEF CheckEvicted
  <2>2. \/ task' = [task EXCEPT ![w].at = "snapshot"]
        \/ \E k : task' = [task EXCEPT ![w].at = "drop", ![w].who = @ \ {k}, ![w].victim = k]
        \/ \E k : task' = [task EXCEPT ![w].who = @ \ {k}]
    BY <1>5 DEF CheckEvicted, Goto
  <2>3. DOMAIN task = Workers /\ {"at", "who", "victim", "claims", "evictions"} \subseteq DOMAIN task[w]
    BY <1>0 DEF Task
  <2>4. /\ task'[w].at \in {"snapshot", "drop", "check"}
        /\ task'[w].claims = task[w].claims /\ task'[w].evictions = task[w].evictions
    <3>1. CASE task' = [task EXCEPT ![w].at = "snapshot"]
      BY <2>3, <3>1
    <3>2. ASSUME NEW k, task' = [task EXCEPT ![w].at = "drop", ![w].who = @ \ {k}, ![w].victim = k]
          PROVE  /\ task'[w].at \in {"snapshot", "drop", "check"}
                 /\ task'[w].claims = task[w].claims /\ task'[w].evictions = task[w].evictions
      BY <2>3, <3>2
    <3>3. ASSUME NEW k, task' = [task EXCEPT ![w].who = @ \ {k}]
          PROVE  /\ task'[w].at \in {"snapshot", "drop", "check"}
                 /\ task'[w].claims = task[w].claims /\ task'[w].evictions = task[w].evictions
      BY <2>1, <2>3, <3>3
    <3>4. QED BY <2>2, <3>1, <3>2, <3>3
  <2>5. QED BY <1>3, <2>1, <2>4
<1>6. CASE DropInvited(w)
  <2>1. /\ task'[w].at = "check"
        /\ task'[w].claims = task[w].claims /\ task'[w].evictions = task[w].evictions
        /\ UNCHANGED <<acked, answered>>
    BY <1>0, <1>6 DEF DropInvited, Task
  <2>2. QED BY <1>3, <2>1
<1>7. CASE GrantSet(w)
  <2>1. /\ task'[w].at = "snapshot"
        /\ task'[w].claims = task[w].claims /\ task'[w].evictions = task[w].evictions
        /\ UNCHANGED <<acked, answered>>
    BY <1>0, <1>7 DEF GrantSet, Task
  <2>2. QED BY <1>3, <2>1
<1>8. CASE Snapshot(w)
  <2>1. UNCHANGED CurrentState
    BY <1>8 DEF Snapshot, CurrentState
  <2> HIDE DEF CurrentState
  <2>2. /\ task'[w].at = "open" /\ task'[w].snap = CurrentState
        /\ task'[w].claims = task[w].claims /\ task'[w].evictions = task[w].evictions
        /\ UNCHANGED <<acked, answered>>
    BY <1>0, <1>8 DEF Snapshot, Task
  <2>3. QED BY <1>3, <2>1, <2>2
<1>9. QED BY <1>4, <1>5, <1>6, <1>7, <1>8

\* The one writer's persist(): what it renames is what the store holds.
LEMMA PersistInStep ==
    ASSUME OneWorker, StateInv, AdmissionInv, OneWriterInv, NEW w \in Workers,
           OpenTmp(w) \/ WriteTmp(w) \/ RenameTmp(w)
    PROVE  OneWriterInv'
<1>0. task \in [Workers -> Task] /\ task[w] \in Task /\ \A v \in Workers : v = w
  BY DEF StateInv, HandlerTypes, OneWorker
<1>1. UNCHANGED <<backup, restored, redeemed, evicted, CurrentState>>
  BY DEF OpenTmp, WriteTmp, RenameTmp, storeVars, stored, CurrentState
<1>2. /\ task[w].claims \subseteq redeemed /\ task[w].evictions \subseteq evicted
      /\ task[w].snap = CurrentState
      /\ {disk, backup} \cap {Empty, Torn} = {}
      /\ ~restored => /\ OnDisk.redeemed \subseteq redeemed /\ OnDisk.evicted \subseteq evicted
                      /\ acked \subseteq OnDisk.redeemed /\ answered \subseteq OnDisk.evicted
  BY DEF OneWriterInv, SavingInStep, OpenTmp, WriteTmp, RenameTmp
<1>3. IsSaved(CurrentState) /\ CurrentState.redeemed = redeemed /\ CurrentState.evicted = evicted
  BY CurrentIsWhole DEF StateInv, AdmissionInv, CurrentState
<1> HIDE DEF CurrentState
<1>4. CASE OpenTmp(w)
  <2>1. /\ task'[w].at = "write" /\ task'[w].fd = "tmp" /\ task'[w].snap = task[w].snap
        /\ task'[w].claims = task[w].claims /\ task'[w].evictions = task[w].evictions
    BY <1>0, <1>4 DEF OpenTmp, Task
  <2>2. tmp' = Empty /\ UNCHANGED <<disk, acked, answered>>
    BY <1>4 DEF OpenTmp
  <2>3. SavingInStep' /\ ~Rested'
    BY <1>0, <1>1, <1>2, <2>1, <2>2 DEF SavingInStep, Rested
  <2>4. QED BY <1>1, <1>2, <2>2, <2>3 DEF OneWriterInv, OnDisk
<1>5. CASE WriteTmp(w)
  <2>1. /\ task'[w].at = "rename" /\ task'[w].snap = task[w].snap
        /\ task'[w].claims = task[w].claims /\ task'[w].evictions = task[w].evictions
    BY <1>0, <1>5 DEF WriteTmp, Goto, Task
  <2>2. tmp = Empty /\ task[w].fd = "tmp"
    BY <1>5 DEF WriteTmp, OneWriterInv, SavingInStep
  <2>3. tmp' = task[w].snap /\ UNCHANGED <<disk, acked, answered>>
    BY <1>5, <2>2 DEF WriteTmp, Overwritten
  <2>4. SavingInStep' /\ ~Rested'
    BY <1>0, <1>1, <1>2, <2>1, <2>3 DEF SavingInStep, Rested
  <2>5. QED BY <1>1, <1>2, <2>3, <2>4 DEF OneWriterInv, OnDisk
<1>6. CASE RenameTmp(w)
  <2>1. tmp = CurrentState /\ tmp # NoFile
    BY <1>2, <1>3, <1>6 DEF RenameTmp, OneWriterInv, SavingInStep, IsSaved
  <2>2. /\ task'[w] = Idle /\ disk' = CurrentState
        /\ acked' = acked \cup task[w].claims /\ answered' = answered \cup task[w].evictions
    BY <1>6, <2>1 DEF RenameTmp
  <2>3. task'[w].at = "idle" /\ task'[w].claims = {} /\ task'[w].evictions = {}
    BY <2>2 DEF Idle
  <2>4. SavingInStep'
    BY <1>0, <2>3 DEF SavingInStep
  <2>5. OnDisk' = CurrentState /\ disk' \notin {Empty, Torn}
    BY <1>3, <2>2 DEF OnDisk, Loaded, IsSaved
  <2>6. ~restored => acked' \subseteq redeemed /\ answered' \subseteq evicted
    BY <1>2, <2>2
  <2> HIDE DEF OnDisk
  <2>7. QED BY <1>1, <1>2, <1>3, <2>4, <2>5, <2>6 DEF OneWriterInv
<1>7. QED BY <1>4, <1>5, <1>6

\* Backups, restores and restarts between the steps.
LEMMA OperatorInStep ==
    ASSUME StateInv, OneWriterInv, TakeBackup \/ RestoreBackup \/ Restart \/ UNCHANGED admissionVars
    PROVE  OneWriterInv'
<1>1. CASE TakeBackup \/ UNCHANGED admissionVars
  <2>1. UNCHANGED <<storeVars, handlerVars, disk, tmp, restored>> /\ backup' \in {backup, disk}
    BY <1>1 DEF TakeBackup, admissionVars, fileVars
  <2>2. UNCHANGED <<task, redeemed, evicted, acked, answered, CurrentState, OnDisk>>
    BY <2>1 DEF storeVars, stored, handlerVars, CurrentState, OnDisk
  <2>3. SavingInStep' /\ (Rested' <=> Rested)
    BY <2>1, <2>2 DEF OneWriterInv, SavingInStep, Rested
  <2> HIDE DEF CurrentState, OnDisk
  <2>4. backup' = backup \/ backup' = disk
    BY <2>1
  <2>5. QED BY <2>1, <2>2, <2>3, <2>4 DEF OneWriterInv
<1>2. CASE RestoreBackup
  <2>1. UNCHANGED <<storeVars, handlerVars, tmp, backup>> /\ disk' = backup /\ restored'
    BY <1>2 DEF RestoreBackup
  <2>2. UNCHANGED <<task, redeemed, evicted, CurrentState>>
    BY <2>1 DEF storeVars, stored, handlerVars, CurrentState
  <2>3. SavingInStep'
    BY <2>1, <2>2 DEF OneWriterInv, SavingInStep
  <2>4. QED BY <2>1, <2>3 DEF OneWriterInv
<1>3. CASE Restart
  <2>1. /\ invites' = OnDisk.invites /\ redeemed' = OnDisk.redeemed
        /\ evicted' = OnDisk.evicted /\ grants' = OnDisk.grants
        /\ UNCHANGED <<disk, tmp, backup, OnDisk>>
        /\ task' = [w \in Workers |-> Idle] /\ restored' = FALSE
    BY <1>3 DEF Restart, OnDisk
  <2>2. OnDisk' = CurrentState'
    <3>1. CASE IsSaved(disk)
      <4>1. disk \in Saved
        BY <3>1 DEF StateInv, FilesWhole, Whole
      <4>2. QED BY <2>1, <3>1, <4>1 DEF OnDisk, Loaded, CurrentState, Saved
    <3>2. CASE ~IsSaved(disk)
      BY <2>1, <3>2 DEF OnDisk, Loaded, NoState, CurrentState
    <3>3. QED BY <3>1, <3>2
  <2>3. \A w \in Workers : task'[w].at = "idle" /\ task'[w].claims = {} /\ task'[w].evictions = {}
    BY <2>1 DEF Idle
  <2>4. SavingInStep'
    BY <2>3 DEF SavingInStep
  <2>5. acked' \subseteq OnDisk.redeemed /\ answered' \subseteq OnDisk.evicted
    BY <1>3 DEF Restart, ForgetAnswers, OneWriterInv, OnDisk
  <2> HIDE DEF OnDisk
  <2>6. QED BY <2>1, <2>2, <2>4, <2>5 DEF OneWriterInv
<1>4. QED BY <1>1, <1>2, <1>3

LEMMA OneWriterHolds == ASSUME OneWorker, ~IoErrors PROVE AdmissionSpec => []OneWriterInv
<1>1. AdmissionInit => OneWriterInv
  <2> SUFFICES ASSUME AdmissionInit PROVE OneWriterInv
    OBVIOUS
  <2>1. \A w \in Workers : task[w].at = "idle" /\ task[w].claims = {} /\ task[w].evictions = {}
    BY DEF AdmissionInit, Idle
  <2>2. OnDisk = NoState /\ CurrentState = NoState
    BY DEF AdmissionInit, StoreInit, OnDisk, Loaded, IsSaved, NoState, CurrentState
  <2>3. SavingInStep
    BY <2>1 DEF SavingInStep
  <2>4. NoState.redeemed = {} /\ NoState.evicted = {}
    BY DEF NoState
  <2> HIDE DEF OnDisk, NoState, CurrentState
  <2>5. QED BY <2>2, <2>3, <2>4 DEF AdmissionInit, StoreInit, OneWriterInv
<1>2. StateInv /\ AdmissionInv /\ OneWriterInv /\ [AdmissionNext]_admissionVars => OneWriterInv'
  <2> SUFFICES ASSUME StateInv, AdmissionInv, OneWriterInv, [AdmissionNext]_admissionVars
               PROVE  OneWriterInv'
    OBVIOUS
  <2>1. ASSUME NEW w \in Workers, Request(w) \/ Work(w) PROVE OneWriterInv'
    BY <2>1, RequestInStep, WorkInStep, PersistInStep DEF Work, PersistFails
  <2>2. QED BY <2>1, OperatorInStep DEF AdmissionNext
<1>3. QED BY <1>1, <1>2, StateInvHolds, AdmissionInvHolds, PTL DEF AdmissionSpec

\* docs/relay-invites.md, "the store is on disk before the relay replies OK": with one handler
\* at a time and no I/O error, a crash between any two steps leaves a file that loads and holds
\* every claim and eviction answered, whatever is backed up or restored in between.
THEOREM AnswersAreOnDisk == ASSUME OneWorker, ~IoErrors PROVE AdmissionSpec => []AnsweredOnDisk
<1>1. OneWriterInv => AnsweredOnDisk
  BY DEF OneWriterInv, AnsweredOnDisk, DiskLoadable, AckedOnDisk
<1>2. QED BY <1>1, OneWriterHolds, PTL

\* invite_api.rs: under the same conditions every handler that changes the store persists it
\* before it ends, so a restart while none runs loses nothing.
THEOREM DiskStaysCurrent == ASSUME OneWorker, ~IoErrors PROVE AdmissionSpec => []DiskCurrent
<1>1. OneWriterInv => DiskCurrent
  BY DEF OneWriterInv, Rested, Quiet, DiskCurrent
<1>2. QED BY <1>1, OneWriterHolds, PTL

-----------------------------------------------------------------------------
(* People added to a grant. *)

\* What a request about to be set leaves to the people added before it and by it.
GivenBy(t) == (IF t.asked.maxTotal = None THEN given[t.victim] ELSE 0) + t.asked.add

GivenInv ==
    /\ \A k \in Keys \ overtaken :
          IF grants[k] = None THEN given[k] = 0 ELSE grants[k].maxTotal > given[k]
    /\ \A w \in Workers : task[w].at = "grant" /\ task[w].victim \notin overtaken =>
          task[w].grant.maxTotal > GivenBy(task[w])

\* Nobody's limits change, and no request to raise one comes in.
LEMMA GivenKept ==
    ASSUME GivenInv, UNCHANGED <<grants, given, overtaken>>,
           \A w \in Workers : task'[w].at = "grant" =>
              /\ task[w].at = "grant" /\ task'[w].grant = task[w].grant
              /\ task'[w].victim = task[w].victim /\ task'[w].asked = task[w].asked
    PROVE  GivenInv'
BY DEF GivenInv, GivenBy

LEMMA GivenRequest ==
    ASSUME StateInv, GivenInv, NEW w \in Workers, Request(w)
    PROVE  GivenInv'
<1>0. /\ task \in [Workers -> Task] /\ given \in [Keys -> Nat]
      /\ grants \in [Keys -> Option(Grant)]
  BY DEF StateInv, StoreInv, TypeOK, HandlerTypes
<1>1. ASSUME NEW begun, Begin(w, begun), begun.at # "grant", UNCHANGED <<grants, given, overtaken>>
      PROVE  GivenInv'
  <2>1. \A v \in Workers : task'[v].at # "grant" \/ task'[v] = task[v]
    BY <1>0, <1>1 DEF Begin
  <2>2. QED BY <1>1, <2>1, GivenKept
<1>2. ASSUME NEW c, NEW k, Claim(w, c, k) PROVE GivenInv'
  <2> DEFINE t == [Idle EXCEPT !.at = "admit", !.who = {k}, !.claims = redeemed' \ redeemed]
  <2>1. Begin(w, t) /\ UNCHANGED <<grants, given, overtaken>>
    BY <1>2 DEF Claim, Redeem
  <2>2. t.at # "grant"
    BY DEF Idle
  <2> HIDE DEF t
  <2>3. QED BY <1>1, <2>1, <2>2
<1>3. ASSUME NEW k, ClaimAgain(w, k) PROVE GivenInv'
  <2> DEFINE t == [Idle EXCEPT !.at = "readmit", !.who = {k}, !.claims = LiveRedemptionsOf(k)]
  <2>1. Begin(w, t) /\ UNCHANGED <<grants, given, overtaken>>
    BY <1>3 DEF ClaimAgain, storeVars, stored
  <2>2. t.at # "grant"
    BY DEF Idle
  <2> HIDE DEF t
  <2>3. QED BY <1>1, <2>1, <2>2
<1>4. ASSUME \/ \E c, k, uses, ttl : AdminMintRequest(w, c, k, uses, ttl) \/ MintRequest(w, c, k, uses, ttl)
             \/ \E c : RevokeRequest(w, c)
      PROVE  GivenInv'
  <2> DEFINE t == [Idle EXCEPT !.at = "snapshot"]
  <2>1. Begin(w, t) /\ UNCHANGED <<given, overtaken>>
    BY <1>4 DEF AdminMintRequest, MintRequest, MintAndPersist, RevokeRequest
  <2>2. UNCHANGED grants
    <3>1. /\ \A c, k, asAdmin, uses, ttl : Mint(c, k, asAdmin, uses, ttl) => UNCHANGED grants
          /\ \A c, evict : Revoke(c, evict) => UNCHANGED grants
      BY DEF Mint, Revoke
    <3>2. QED BY <1>4, <3>1 DEF AdminMintRequest, MintRequest, MintAndPersist, RevokeRequest
  <2>3. t.at # "grant"
    BY DEF Idle
  <2> HIDE DEF t
  <2>4. QED BY <1>1, <2>1, <2>2, <2>3
<1>5. ASSUME NEW c, RevokeEvicting(w, c) PROVE GivenInv'
  <2> DEFINE gone == EvictedByRevoke(c, TRUE)
             t == [Idle EXCEPT !.at = "check", !.who = KeysOf(gone), !.evictions = gone]
  <2>1. Begin(w, t) /\ UNCHANGED <<grants, given, overtaken>>
    BY <1>5 DEF RevokeEvicting, Revoke
  <2>2. t.at # "grant"
    BY DEF Idle
  <2> HIDE DEF t
  <2>3. QED BY <1>1, <2>1, <2>2
<1>6. ASSUME NEW k, EvictRequest(w, k) PROVE GivenInv'
  <2> DEFINE t == [Idle EXCEPT !.at = "drop", !.victim = k, !.evictions = LiveRedemptionsOf(k)]
  <2>1. Begin(w, t) /\ UNCHANGED <<grants, given, overtaken>>
    BY <1>6 DEF EvictRequest, Evict
  <2>2. t.at # "grant"
    BY DEF Idle
  <2> HIDE DEF t
  <2>3. QED BY <1>1, <2>1, <2>2
<1>7. ASSUME NEW k \in Keys, UngrantRequest(w, k) PROVE GivenInv'
  <2> DEFINE t == [Idle EXCEPT !.at = "snapshot"]
  <2>1. /\ grants' = [grants EXCEPT ![k] = None] /\ given' = [given EXCEPT ![k] = 0]
        /\ Begin(w, t) /\ UNCHANGED overtaken
    BY <1>7 DEF UngrantRequest, RemoveGrant
  <2>2. t.at = "snapshot"
    BY DEF Idle
  <2> HIDE DEF t
  <2>3. ASSUME NEW v \in Workers, task'[v].at = "grant", task'[v].victim \notin overtaken'
        PROVE  task'[v].grant.maxTotal > GivenBy(task[v])'
    <3>1. task'[v] = task[v]
      BY <1>0, <2>1, <2>2, <2>3 DEF Begin
    <3>2. task[v].at = "grant" /\ task[v].victim \in Keys
      BY <2>3, <3>1, KeysAssumption DEF StateInv, HandlerTypes
    <3>3. task[v].grant \in Grant /\ task[v].asked \in GrantRequest
      BY <3>2 DEF StateInv, HandlerTypes
    <3> DEFINE victim == task[v].victim
               total == task[v].asked.maxTotal
               add == task[v].asked.add
    <3>4. add \in Nat /\ task[v].grant.maxTotal \in Nat
      BY <3>3 DEF GrantRequest, Grant
    <3>5. given[victim] \in Nat /\ given'[victim] \in {0, given[victim]}
      BY <1>0, <2>1, <3>2
    <3>6. task[v].grant.maxTotal > (IF total = None THEN given[victim] ELSE 0) + add
      BY <2>1, <2>3, <3>1, <3>2 DEF GivenInv, GivenBy
    <3>7. GivenBy(task[v])' = (IF total = None THEN given'[victim] ELSE 0) + add
      BY <3>1 DEF GivenBy
    <3> HIDE DEF victim, total, add
    <3>8. QED BY <3>1, <3>4, <3>5, <3>6, <3>7
  <2>4. \A q \in Keys \ overtaken' :
           IF grants'[q] = None THEN given'[q] = 0 ELSE grants'[q].maxTotal > given'[q]
    BY <1>0, <2>1 DEF GivenInv
  <2>5. QED BY <2>3, <2>4 DEF GivenInv, GivenBy
<1>8. ASSUME NEW k \in Keys, NEW r \in GrantRequests, GrantRead(w, k, r) PROVE GivenInv'
  <2> DEFINE existing == IF GrantOf(k) = None THEN FreshGrant ELSE GrantOf(k)
             g == Requested(existing, r)
             t == [Idle EXCEPT !.at = "grant", !.victim = k, !.grant = g, !.asked = r]
  <2>1. Begin(w, t) /\ UNCHANGED <<grants, given, overtaken>>
    BY <1>8 DEF GrantRead, GrantBegins, storeVars, stored
  <2>2. existing \in Grant
    BY <1>0, GrantsInForce DEF GrantOf
  <2>3. k \notin overtaken => existing.maxTotal > given[k]
    <3>1. \A h \in Grant : h.maxTotal \in Nat /\ h.maxTotal > 0
      BY DEF Grant
    <3>2. CASE grants[k] = None
      <4>1. k \notin overtaken => given[k] = 0
        BY <3>2 DEF GivenInv
      <4> HIDE DEF existing
      <4>2. QED BY <2>2, <3>1, <4>1
    <3>3. CASE grants[k] # None
      <4>1. existing = grants[k]
        BY <3>3 DEF GrantOf, EffectiveGrant
      <4> HIDE DEF existing
      <4>2. QED BY <2>2, <3>1, <3>3, <4>1 DEF GivenInv
    <3>4. QED BY <3>2, <3>3
  <2> HIDE DEF existing
  <2>4. r \in GrantRequest /\ g.maxTotal = Asked(r.maxTotal, existing.maxTotal) + r.add
    BY <2>2, RequestedIsGrant, RequestsAssumption
  <2> HIDE DEF g
  <2>5. t.at = "grant" /\ t.victim = k /\ t.grant = g /\ t.asked = r
    BY DEF Idle
  <2> HIDE DEF t
  <2>6. task'[w] = t /\ given[k] \in Nat
    BY <1>0, <2>1 DEF Begin
  <2>7. k \notin overtaken => g.maxTotal > (IF r.maxTotal = None THEN given[k] ELSE 0) + r.add
    <3>1. existing.maxTotal \in Nat \ {0} /\ r.add \in Nat /\ r.maxTotal \in Option(Nat)
      BY <2>2, <2>4 DEF Grant, GrantRequest
    <3>2. QED BY <2>3, <2>4, <2>6, <3>1 DEF Asked, GreaterOf, Option
  <2>8. GivenBy(task[w])' = (IF r.maxTotal = None THEN given[k] ELSE 0) + r.add
    BY <2>1, <2>5, <2>6 DEF GivenBy
  <2>9. ASSUME NEW v \in Workers, task'[v].at = "grant", task'[v].victim \notin overtaken'
        PROVE  task'[v].grant.maxTotal > GivenBy(task[v])'
    <3>1. CASE v = w
      BY <2>1, <2>5, <2>6, <2>7, <2>8, <2>9, <3>1
    <3>2. CASE v # w
      <4>1. task'[v] = task[v]
        BY <1>0, <2>1, <3>2 DEF Begin
      <4>2. GivenBy(task[v])' = GivenBy(task[v])
        BY <2>1, <4>1 DEF GivenBy
      <4>3. QED BY <2>1, <2>9, <4>1, <4>2 DEF GivenInv
    <3>3. QED BY <3>1, <3>2
  <2>10. QED BY <2>1, <2>9 DEF GivenInv, GivenBy
<1>9. \/ \E c, k, uses, ttl : AdminMintRequest(w, c, k, uses, ttl) \/ MintRequest(w, c, k, uses, ttl)
      \/ \E c : RevokeRequest(w, c)
      \/ \E c, k : Claim(w, c, k)
      \/ \E k : ClaimAgain(w, k) \/ EvictRequest(w, k)
      \/ \E c : RevokeEvicting(w, c)
      \/ \E k \in Minters, r \in GrantRequests : GrantRead(w, k, r)
      \/ \E k \in Minters : UngrantRequest(w, k)
  BY DEF Request
<1>10. Minters \subseteq Keys
  BY KeysAssumption
<1>11. QED BY ONLY <1>2, <1>3, <1>4, <1>5, <1>6, <1>7, <1>8, <1>9, <1>10

LEMMA GivenWork ==
    ASSUME StateInv, GivenInv, NEW w \in Workers, Work(w)
    PROVE  GivenInv'
<1>0. /\ task \in [Workers -> Task] /\ task[w] \in Task /\ given \in [Keys -> Nat]
      /\ grants \in [Keys -> Option(Grant)]
  BY DEF StateInv, StoreInv, TypeOK, HandlerTypes
<1>1. ASSUME UNCHANGED <<grants, given, overtaken>>, task'[w].at # "grant",
             \A v \in Workers \ {w} :
                /\ task'[v].at = task[v].at /\ task'[v].grant = task[v].grant
                /\ task'[v].victim = task[v].victim /\ task'[v].asked = task[v].asked
      PROVE  GivenInv'
  BY <1>1, GivenKept
<1>2. CASE GrantSet(w)
  <2> DEFINE k == task[w].victim
             g == task[w].grant
             asked == task[w].asked
             sum == (IF asked.maxTotal = None THEN given[k] ELSE 0) + asked.add
  <2>1. k \in Keys /\ g \in Grant /\ asked \in GrantRequest /\ (k \notin overtaken => g.maxTotal > sum)
    BY <1>2, KeysAssumption DEF GrantSet, StateInv, HandlerTypes, GivenInv, GivenBy
  <2>2. grants' = [grants EXCEPT ![k] = g] /\ given' = [given EXCEPT ![k] = sum]
    BY <1>2 DEF GrantSet, SetGrant
  <2>3. task'[w].at # "grant" /\ \A v \in Workers \ {w} : task'[v] = task[v]
    BY <1>0, <1>2 DEF GrantSet, Task
  <2>4. g # None
    BY <2>1, NoneAssumption
  <2>5. /\ overtaken \subseteq overtaken'
        /\ \A v \in Workers \ {w} : task[v].at = "grant" /\ task[v].victim = k => k \in overtaken'
    BY <1>2 DEF GrantSet, GrantPending
  <2> HIDE DEF k, g, asked, sum
  <2>6. \A q \in Keys \ overtaken' :
           IF grants'[q] = None THEN given'[q] = 0 ELSE grants'[q].maxTotal > given'[q]
    BY <1>0, <2>1, <2>2, <2>4, <2>5 DEF GivenInv
  <2>7. ASSUME NEW v \in Workers, task'[v].at = "grant", task'[v].victim \notin overtaken'
        PROVE  task'[v].grant.maxTotal > GivenBy(task[v])'
    <3>1. v # w /\ task'[v] = task[v]
      BY <2>3, <2>7
    <3>2. task[v].victim # k
      BY <2>5, <2>7, <3>1
    <3>3. GivenBy(task[v])' = GivenBy(task[v])
      BY <1>0, <2>1, <2>2, <3>1, <3>2 DEF GivenBy
    <3>4. QED BY <2>5, <2>7, <3>1, <3>3 DEF GivenInv
  <2>8. QED BY <2>6, <2>7 DEF GivenInv, GivenBy
<1>3. CASE AddInvited(w) \/ DropInvited(w) \/ Snapshot(w) \/ OpenTmp(w)
  <2>1. UNCHANGED <<grants, given, overtaken>>
    BY <1>3 DEF AddInvited, DropInvited, Snapshot, OpenTmp, storeVars, stored
  <2>2. task'[w].at # "grant" /\ \A v \in Workers \ {w} : task'[v] = task[v]
    BY <1>0, <1>3, IdleIsTask DEF AddInvited, DropInvited, Snapshot, OpenTmp, Answer, Done, Task
  <2>3. QED BY <1>1, <2>1, <2>2
<1>4. CASE WriteTmp(w) \/ PersistFails(w)
  <2>1. UNCHANGED <<grants, given, overtaken>>
    BY <1>4 DEF WriteTmp, PersistFails, storeVars, stored
  <2>2. task'[w].at # "grant" /\ \A v \in Workers \ {w} : task'[v] = task[v]
    BY <1>0, <1>4, IdleIsTask DEF WriteTmp, PersistFails, Answer, Done, Goto, Task
  <2>3. QED BY <1>1, <2>1, <2>2
<1>5. CASE RenameTmp(w)
  <2>1. UNCHANGED <<grants, given, overtaken>>
    BY <1>5 DEF RenameTmp, storeVars, stored
  <2>2. task'[w].at # "grant"
    BY <1>0, <1>5, IdleIsTask DEF RenameTmp, Done
  <2>3. ASSUME NEW v \in Workers \ {w}
        PROVE  /\ task'[v].at = task[v].at /\ task'[v].grant = task[v].grant
               /\ task'[v].victim = task[v].victim /\ task'[v].asked = task[v].asked
    <3>1. task'[v] = task[v] \/ task'[v] = [task[v] EXCEPT !.fd = AfterRename(@)]
      BY <1>0, <1>5 DEF RenameTmp, Done
    <3>2. QED BY <1>0, <3>1 DEF Task
  <2>4. QED BY <1>1, <2>1, <2>2, <2>3
<1>6. CASE CheckEvicted(w)
  <2>1. UNCHANGED <<grants, given, overtaken>> /\ task[w].at = "check"
    BY <1>6 DEF CheckEvicted, storeVars, stored
  <2>2. \/ task' = [task EXCEPT ![w].at = "snapshot"]
        \/ \E k : task' = [task EXCEPT ![w].at = "drop", ![w].who = @ \ {k}, ![w].victim = k]
        \/ \E k : task' = [task EXCEPT ![w].who = @ \ {k}]
    BY <1>6 DEF CheckEvicted, Goto
  <2>3. DOMAIN task = Workers /\ {"at", "who", "victim"} \subseteq DOMAIN task[w]
    BY <1>0 DEF Task
  <2>4. \A v \in Workers \ {w} : task'[v] = task[v]
    BY <2>2, <2>3
  <2>5. task'[w].at \in {"snapshot", "drop", "check"}
    <3>1. CASE task' = [task EXCEPT ![w].at = "snapshot"]
      BY <2>3, <3>1
    <3>2. ASSUME NEW k, task' = [task EXCEPT ![w].at = "drop", ![w].who = @ \ {k}, ![w].victim = k]
          PROVE  task'[w].at = "drop"
      BY <2>3, <3>2
    <3>3. ASSUME NEW k, task' = [task EXCEPT ![w].who = @ \ {k}] PROVE task'[w].at = "check"
      BY <2>1, <2>3, <3>3
    <3>4. QED BY <2>2, <3>1, <3>2, <3>3
  <2>6. QED BY <1>1, <2>1, <2>4, <2>5
<1>7. QED BY <1>2, <1>3, <1>4, <1>5, <1>6 DEF Work

LEMMA GivenHolds == AdmissionSpec => []GivenInv
<1>1. AdmissionInit => GivenInv
  BY IdleIsTask DEF AdmissionInit, StoreInit, GivenInv
<1>2. StateInv /\ GivenInv /\ [AdmissionNext]_admissionVars => GivenInv'
  <2> SUFFICES ASSUME StateInv, GivenInv, [AdmissionNext]_admissionVars PROVE GivenInv'
    OBVIOUS
  <2>1. ASSUME NEW w \in Workers, Request(w) \/ Work(w) PROVE GivenInv'
    BY <2>1, GivenRequest, GivenWork
  <2>2. CASE TakeBackup \/ RestoreBackup \/ UNCHANGED admissionVars
    <3>1. UNCHANGED <<grants, given, overtaken, task>>
      BY <2>2 DEF TakeBackup, RestoreBackup, admissionVars, storeVars, stored, handlerVars
    <3>2. QED BY <3>1, GivenKept
  <2>3. CASE Restart
    <3>1. /\ given' = [k \in Keys |-> 0] /\ task' = [w \in Workers |-> Idle]
          /\ grants' \in [Keys -> Option(Grant)]
      BY <2>3, RestartKeepsStore DEF Restart, StateInv, StoreInv, TypeOK
    <3>2. \A g \in Grant : g.maxTotal > 0
      BY DEF Grant
    <3>3. \A k \in Keys : grants'[k] # None => grants'[k].maxTotal > 0
      BY <3>1, <3>2 DEF Option
    <3>4. QED BY <3>1, <3>3, IdleIsTask DEF GivenInv
  <2>4. QED BY <2>1, <2>2, <2>3 DEF AdmissionNext
<1>3. QED BY <1>1, <1>2, StateInvHolds, PTL DEF AdmissionSpec

\* invite_api.rs, add_admits gives that many more people on top of what the key may invite
\* now: whatever other limits are set and however many handlers run, a grant has room for
\* everybody added to it since its total was last set, unless one request for the key set
\* its limits while another had read them and not yet set its own.
THEOREM PeopleAddedAreKept == AdmissionSpec => []AddedPeopleKept
<1>1. GivenInv => AddedPeopleKept
  BY DEF GivenInv, AddedPeopleKept
<1>2. QED BY <1>1, GivenHolds, PTL
=============================================================================
