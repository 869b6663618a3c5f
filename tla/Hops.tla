-------------------------------- MODULE Hops --------------------------------
(***************************************************************************)
(* Distances in a follow graph: the breadth-first search of                *)
(* src/src/wot_graph.rs, and what a distance means for access.             *)
(***************************************************************************)
EXTENDS Naturals

CONSTANTS
    Keys,      \* public keys
    None,      \* Rust's Option::None
    MaxHops    \* relay.wot.max_hops

ASSUME HopsAssumption == MaxHops \in Nat
ASSUME NoHopsAssumption == None \notin Nat

Unknown == [k \in Keys |-> None]
FollowsOf(g, ks) == UNION {g[k] : k \in {k \in ks : g[k] # None}}

\* The keys first met at each hop, and all met so far.
Layers(g, roots) ==
    LET layer[hop \in 0..MaxHops] ==
            IF hop = 0 THEN [frontier |-> roots, seen |-> roots]
            ELSE LET last == layer[hop - 1]
                     next == FollowsOf(g, last.frontier) \ last.seen
                 IN  [frontier |-> next, seen |-> last.seen \cup next]
    IN  layer

distance(g, roots, target) ==
    LET layer == Layers(g, roots)
        hops == {hop \in 0..MaxHops : target \in layer[hop].frontier}
    IN  IF hops = {} THEN None ELSE CHOOSE hop \in hops : TRUE

reachable(g, roots) ==
    [k \in Layers(g, roots)[MaxHops].seen |-> distance(g, roots, k)]

\* The reference definition: the length of a shortest chain of follows.
ChainOf(g, roots, target, n) ==
    \E c \in [0..n -> Keys] :
        /\ c[0] \in roots
        /\ c[n] = target
        /\ \A i \in 1..n : g[c[i - 1]] # None /\ c[i] \in g[c[i - 1]]
ShortestChain(g, roots, target) ==
    LET lengths == {n \in 0..MaxHops : ChainOf(g, roots, target, n)}
    IN  IF lengths = {} THEN None
        ELSE CHOOSE n \in lengths : \A m \in lengths : n <= m

\* AccessTier::tier_for_hops.
TierForHops(hops) == IF hops \in {0, 1} THEN 1 ELSE hops
=============================================================================
