---------------------------- MODULE FollowGraph ----------------------------
(***************************************************************************)
(* The follow graph of src/src/wot_graph.rs: who follows whom, as far as   *)
(* contact lists are at hand, and the rebuild that walks outward from the  *)
(* roots and fetches the lists it lacks, on a budget.                      *)
(*                                                                         *)
(* The network is external: a fetch returns the newest lists of some of    *)
(* the accounts asked for.                                                 *)
(***************************************************************************)
EXTENDS Hops, FiniteSets

CONSTANTS
    Published,   \* the accounts each key follows, by its newest contact list
    MaxFetches   \* contact lists fetched in a rebuild at most

ASSUME PublishedAssumption == IsFiniteSet(Keys) /\ Published \in [Keys -> SUBSET Keys]
ASSUME NoListAssumption == \A follows \in SUBSET Keys : follows # None
ASSUME FetchesAssumption == MaxFetches \in Nat

VARIABLES
    edges,       \* the follows of a key, None without a contact list
    built,       \* built_at is set
    coverage,    \* how far the graph can be trusted
    admitted,    \* the accounts the console lists, with their hops
    stored,      \* the keys whose contact list this relay stores
    walk,        \* the locals of a running rebuild
    lost         \* ghost: a list asked for in the last rebuild did not come

graph == <<edges, built, coverage, admitted>>
graphVars == <<graph, stored, walk, lost>>

-----------------------------------------------------------------------------
(* The rebuild. *)

EmptyCoverage == [truncated |-> FALSE, completeTo |-> 0, total |-> 0]
NoWalk == [at |-> "idle", roots |-> {}, hop |-> 0, frontier |-> {}, known |-> {},
           edges |-> Unknown, budget |-> 0, coverage |-> EmptyCoverage]

EdgesFromDatabase == [k \in Keys |-> IF k \in stored THEN Published[k] ELSE None]

\* Without roots the graph is emptied at once.
RebuildWithout ==
    /\ edges' = Unknown
    /\ coverage' = EmptyCoverage
    /\ built' = TRUE
    /\ walk' = [NoWalk EXCEPT !.at = "clear"]
    /\ lost' = FALSE
    /\ UNCHANGED <<admitted, stored>>

RebuildStart(roots) ==
    /\ walk.at = "idle"
    /\ IF roots = {} THEN RebuildWithout
       ELSE /\ walk' = [at |-> IF MaxHops = 0 THEN "replace" ELSE "hop", roots |-> roots, hop |-> 0,
                        frontier |-> roots, known |-> roots, edges |-> EdgesFromDatabase,
                        budget |-> MaxFetches,
                        coverage |-> [EmptyCoverage EXCEPT !.completeTo = MaxHops]]
            /\ lost' = FALSE
            /\ UNCHANGED <<graph, stored>>

Least(a, b) == IF a <= b THEN a ELSE b

\* How many lists are asked for.
Asked(needed) == Least(Cardinality(needed), walk.budget)

\* Mutant: a truncated hop is still claimed.
CoveredOneMore(c, needed, missing) ==
    IF Cardinality(missing) < Cardinality(needed)
    THEN [c EXCEPT !.truncated = TRUE, !.completeTo = Least(@, walk.hop + 1)]
    ELSE c

\* A hop whose lists are not all asked for is truncated.
Covered(c, needed, missing) ==
    IF Cardinality(missing) < Cardinality(needed)
    THEN [c EXCEPT !.truncated = TRUE, !.completeTo = Least(@, walk.hop)]
    ELSE c

\* One hop: the frontier's missing lists are fetched while the budget lasts, and the
\* accounts they follow are the next frontier.
RebuildHop ==
    /\ walk.at = "hop"
    /\ \E missing, found \in SUBSET walk.frontier :
          LET needed == {k \in walk.frontier : walk.edges[k] = None}
              g == [k \in Keys |-> IF k \in found THEN Published[k] ELSE walk.edges[k]]
              next == FollowsOf(g, walk.frontier) \ walk.known
              budget == walk.budget - Cardinality(missing)
              over == next = {} \/ budget = 0 \/ walk.hop + 1 = MaxHops
          IN  /\ missing \subseteq needed /\ found \subseteq missing
              /\ Cardinality(missing) = Asked(needed)
              /\ walk' = [walk EXCEPT !.at = IF over THEN "replace" ELSE "hop",
                                      !.hop = @ + 1,
                                      !.frontier = IF over THEN {} ELSE next,
                                      !.known = IF over THEN {} ELSE @ \cup next,
                                      !.edges = g,
                                      !.budget = budget,
                                      !.coverage = Covered(@, needed, missing)]
              /\ lost' = (lost \/ found # missing)
    /\ UNCHANGED <<graph, stored>>

\* replace(), its writes one after the other: first the edges ...
Replace ==
    /\ walk.at = "replace"
    /\ edges' = walk.edges
    /\ coverage' = walk.coverage
    /\ walk' = [walk EXCEPT !.at = "publish", !.edges = Unknown]
    /\ UNCHANGED <<built, admitted, stored, lost>>

\* ... then built_at, and the list for the console.
Publish ==
    LET in == reachable(edges, walk.roots)
    IN  /\ walk.at = "publish"
        /\ built' = TRUE
        /\ admitted' = in
        /\ coverage' = [coverage EXCEPT !.total = Cardinality(DOMAIN in)]
        /\ walk' = [walk EXCEPT !.at = "clear"]
        /\ UNCHANGED <<edges, stored, lost>>

\* A contact list is published here.
StoreContactList(k) ==
    /\ k \notin stored
    /\ stored' = stored \cup {k}
    /\ UNCHANGED <<graph, walk, lost>>

GraphInit ==
    /\ edges = Unknown
    /\ built = FALSE
    /\ coverage = EmptyCoverage
    /\ admitted = [k \in {} |-> 0]
    /\ stored = {}
    /\ walk = NoWalk
    /\ lost = FALSE

-----------------------------------------------------------------------------
(* Properties. *)

Coverages == [truncated : BOOLEAN, completeTo : 0..MaxHops, total : Nat]
Walks == [at : {"idle", "hop", "replace", "publish", "clear"}, roots : SUBSET Keys,
          hop : 0..MaxHops, frontier : SUBSET Keys, known : SUBSET Keys,
          edges : [Keys -> (SUBSET Keys) \cup {None}], budget : 0..MaxFetches, coverage : Coverages]

GraphTypeOK ==
    /\ edges \in [Keys -> (SUBSET Keys) \cup {None}]
    /\ built \in BOOLEAN /\ lost \in BOOLEAN
    /\ coverage \in Coverages
    /\ stored \in SUBSET Keys
    /\ DOMAIN admitted \subseteq Keys
    /\ \A k \in DOMAIN admitted : admitted[k] \in 0..MaxHops
    /\ walk \in Walks
=============================================================================
