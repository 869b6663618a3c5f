---------------------------- MODULE AccessTiers ----------------------------
(***************************************************************************)
(* Who may use the relay, and on what budget: the lists of                 *)
(* src/src/whitelist.rs and src/src/blacklist.rs with the Web-of-Trust     *)
(* tier behind them, and what the console says of the same lists           *)
(* (src/src/admin.rs).  The ladder is written down several times there:    *)
(* once to decide, once to pick a budget, once to explain, once to list.   *)
(***************************************************************************)
EXTENDS Hops, FiniteSets

CONSTANTS
    Owner,       \* an admin's key
    Published,   \* the accounts each key follows
    PageRows     \* ADMITTED_PAGE_MAX

ASSUME OwnerAssumption == Owner \in Keys
ASSUME PublishedAssumption == IsFiniteSet(Keys) /\ Published \in [Keys -> SUBSET Keys]
ASSUME RowsAssumption == PageRows \in Nat

VARIABLES
    manual,      \* Whitelist::inner
    follows,     \* Whitelist::follow_derived
    invited,     \* Whitelist::invited
    black,       \* Blacklist::inner
    wot,         \* whether the Web-of-Trust tier is on
    local,       \* whether it measures in a graph of its own, and does not ask an oracle
    pinned,      \* the roots the settings name, {} to use the reference accounts
    roots,       \* WotOracle::roots
    verdict,     \* the cached verdict of each key, Refused for one out of reach
    listed       \* the accounts found by the last rebuild, with their hops

lists == <<manual, follows, invited, black>>
wotSettings == <<wot, local, pinned>>
wotState == <<wotSettings, roots, verdict, listed>>
accessVars == <<lists, wotState>>

Refused == MaxHops + 1
Admitting == 0..MaxHops

-----------------------------------------------------------------------------
(* The decision. *)

\* Nothing restricts access.
isEmpty == ~wot /\ manual = {} /\ follows = {}

contains(k) ==
    /\ k \notin black
    /\ \/ k \in manual \cup follows \cup invited
       \/ wot /\ verdict[k] \in Admitting

admits(k) == k \notin black /\ (isEmpty \/ contains(k) \/ k = Owner)

needsWotResolution(k) ==
    wot /\ k \notin black \cup manual \cup follows \cup invited /\ verdict[k] = None

-----------------------------------------------------------------------------
(* The budget. *)

Tier(name) == [name |-> name, hops |-> 0]
WebOfTrust(hops) == [name |-> "web_of_trust", hops |-> hops]

\* Mutant: an invited key is looked up in the graph first.
tierOfGraphFirst(k) ==
    CASE k \in black -> Tier("denied")
      [] k \in manual \ black -> Tier("manual")
      [] k \in follows \ (black \cup manual) -> Tier("follow_sync")
      [] k \notin black \cup manual \cup follows /\ wot ->
            IF verdict[k] \in Admitting THEN WebOfTrust(verdict[k]) ELSE Tier("denied")
      [] k \in invited \ (black \cup manual \cup follows) /\ ~wot -> Tier("invite")
      [] OTHER -> Tier(IF isEmpty THEN "open" ELSE "denied")

tierOf(k) ==
    CASE k \in black -> Tier("denied")
      [] k \in manual \ black -> Tier("manual")
      [] k \in follows \ (black \cup manual) -> Tier("follow_sync")
      [] k \in invited \ (black \cup manual \cup follows) -> Tier("invite")
      [] k \notin black \cup manual \cup follows \cup invited /\ wot ->
            IF verdict[k] \in Admitting THEN WebOfTrust(verdict[k]) ELSE Tier("denied")
      [] OTHER -> Tier(IF isEmpty THEN "open" ELSE "denied")

\* In hundredths of pubkey_rate_limit_per_minute.
budgetPercent(t) ==
    CASE t.name \in {"manual", "follow_sync", "invite"} -> 100
      [] t.name = "web_of_trust" ->
            IF t.hops <= 1 THEN 100 ELSE IF t.hops = 2 THEN 50 ELSE 25
      [] t.name = "open" -> 10
      [] t.name = "denied" -> 0

budgetKey(t) ==
    CASE t.name \in {"follow_sync", "invite"} -> "direct"
      [] t.name = "web_of_trust" ->
            IF t.hops <= 1 THEN "direct" ELSE IF t.hops = 2 THEN "wot_mid" ELSE "wot_far"
      [] OTHER -> t.name

\* with_pubkey_rate_limit makes a limiter for each of these tiers.
Rungs == {Tier("manual"), Tier("follow_sync"), WebOfTrust(2), WebOfTrust(3), Tier("open")}

\* limiter_for: the limiter of the key's tier, or else the one of the full budget.
limiterPercent(k) ==
    LET rungs == {t \in Rungs : budgetKey(t) = budgetKey(tierOf(k))}
    IN  IF rungs = {} THEN 100 ELSE budgetPercent(CHOOSE t \in rungs : TRUE)

-----------------------------------------------------------------------------
(* The console. *)

\* WotOracle::graph.
hasGraph == wot /\ local

\* handle_access_check: what it says of a key; the graph is asked, not the cache, and
\* nobody where there is none.
accessCheck(k) ==
    LET hops == IF hasGraph THEN distance(Published, roots, k) ELSE None
    IN  CASE k \in black -> Tier("denied")
          [] k \in manual \ black -> Tier("manual")
          [] k \in follows \ (black \cup manual) -> Tier("follow_sync")
          [] k \in invited \ (black \cup manual \cup follows) -> Tier("invite")
          [] k \notin black \cup manual \cup follows \cup invited /\ hops # None -> WebOfTrust(hops)
          [] OTHER -> Tier(IF isEmpty THEN "open" ELSE "denied")

\* handle_access_sources: the budgets the console states.
budgetLadder == {[key |-> budgetKey(t), percent |-> budgetPercent(t)] : t \in Rungs}

ListedAt(hops) == {k \in DOMAIN listed : listed[k] \in hops}

\* admitted_page with an offset of 0: as many as a page holds, in the order of the rebuild.
FirstRows(keys) ==
    IF Cardinality(keys) <= PageRows THEN keys
    ELSE CHOOSE first \in SUBSET keys : Cardinality(first) = PageRows

\* handle_access_tier, all pages of it: of the hops that count for tier 1 it has the first
\* rows, of the others a page at a time.
tierPage(n) ==
    IF n = 1
    THEN (manual \cup follows \cup invited
             \cup (IF hasGraph THEN FirstRows(ListedAt({0})) \cup FirstRows(ListedAt({1})) ELSE {})) \ black
    ELSE IF hasGraph THEN ListedAt({n}) \ black ELSE {}

\* handle_access_tier_summary: what the overview counts for tier 1.  Sources that
\* overlap count twice, a blocked key counts unless it is a follow.
tier1Total ==
    LET sources == Cardinality(manual) + Cardinality(follows \ black) + Cardinality(invited)
        near == IF hasGraph THEN Cardinality(ListedAt({0, 1})) ELSE 0
    IN  IF sources >= near THEN sources ELSE near

-----------------------------------------------------------------------------
(* Properties. *)

AccessTypeOK ==
    /\ {manual, follows, invited, black, pinned, roots} \subseteq SUBSET Keys
    /\ wot \in BOOLEAN /\ local \in BOOLEAN
    /\ verdict \in [Keys -> Admitting \cup {Refused, None}]
    /\ DOMAIN listed \subseteq Keys
    /\ \A k \in DOMAIN listed : listed[k] \in Admitting

\* Everyone who is admitted by a list, or by a graph that was rebuilt from the present
\* roots, is on the tier page of their own budget, but for those near the roots when there
\* are more of them than a page has rows; and when the overview counts nobody in tier 1,
\* its page is empty.
OnTheirPage(k) ==
    LET t == tierOf(k)
    IN  IF t.name = "web_of_trust"
        THEN hasGraph /\ listed = reachable(Published, roots) =>
                \/ k \in tierPage(TierForHops(t.hops))
                \/ t.hops <= 1 /\ Cardinality(ListedAt({t.hops})) > PageRows
        ELSE k \in tierPage(1)
AdmittedAreListed ==
    /\ \A k \in Keys : contains(k) => OnTheirPage(k)
    /\ tier1Total = 0 => tierPage(1) = {}

\* What the console can know of a key: whom an oracle admits it takes to be on no list.
Told(t) == IF t.name = "web_of_trust" /\ ~local THEN Tier("denied") ELSE t

\* The four ladders agree: the budget denies exactly whom the admission rule keeps out
\* (tier_of and admits walk the lists separately; admins come in beside the lists), an
\* admitted key is held to the share of its tier, the console's ladder states that
\* share, what the console says of a key is what the relay does once resolved, as far as
\* it can know, and its pages list who is admitted.
LaddersAgree ==
    /\ \A k \in Keys \ {Owner} :
          /\ admits(k) <=> tierOf(k).name # "denied"
          /\ admits(k) =>
                /\ limiterPercent(k) = budgetPercent(tierOf(k))
                /\ [key |-> budgetKey(tierOf(k)), percent |-> limiterPercent(k)] \in budgetLadder
    /\ \A k \in Keys : ~needsWotResolution(k) => accessCheck(k) = Told(tierOf(k))
    /\ AdmittedAreListed
=============================================================================
