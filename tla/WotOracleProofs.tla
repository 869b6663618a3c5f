--------------------------- MODULE WotOracleProofs ---------------------------
(***************************************************************************)
(* Cached Web-of-Trust verdicts against roots and graphs that move, for    *)
(* any keys, any graph, any budget and lifetimes, and any number of        *)
(* connections and console requests at once; the search against shortest   *)
(* chains; and the rebuild, whatever the network returns.                  *)
(***************************************************************************)
EXTENDS WotOracle, WellFoundedInduction, FiniteSetTheorems, TLAPS

USE ClientsAssumption, RefsAssumption

-----------------------------------------------------------------------------
(* The search. *)

\* A non-empty set of naturals has a least element.
LEMMA LeastOf ==
    ASSUME NEW S \in SUBSET Nat, S # {}
    PROVE  \E m \in S : \A n \in S : ~(n < m)
<1>1. PICK m \in S : \A n \in S : <<n, m>> \notin OpToRel(<, Nat)
  <2>1. IsWellFoundedOn(OpToRel(<, Nat), Nat)
    BY NatLessThanWellFounded
  <2> QED BY <2>1, WFMin, Zenon
<1>2. QED BY <1>1, Zenon DEF OpToRel

\* Induction over the hops, with the hops of which something holds as a set.
LEMMA HopInduction ==
    ASSUME NEW S, 0 \in S,
           \A hop \in 0..MaxHops : hop \in S /\ hop + 1 \in 0..MaxHops => hop + 1 \in S
    PROVE  \A hop \in 0..MaxHops : hop \in S
<1> DEFINE left == {hop \in 0..MaxHops : hop \notin S}
<1> SUFFICES ASSUME left # {} PROVE FALSE
  OBVIOUS
<1>1. left \in SUBSET Nat
  BY HopsAssumption
<1>2. PICK m \in left : \A n \in left : ~(n < m)
  BY <1>1, LeastOf
<1>3. m \in 0..MaxHops /\ m \notin S /\ m # 0
  BY <1>2
<1>4. m - 1 \in 0..MaxHops /\ m - 1 < m /\ (m - 1) + 1 = m
  BY <1>3, HopsAssumption
<1>5. m - 1 \in S
  BY <1>2, <1>4
<1>6. QED BY <1>3, <1>4, <1>5

\* Whom the accounts of a layer follow for the first time, and the layer they make.
Following(g, last) == FollowsOf(g, last.frontier) \ last.seen
After(g, last) == [frontier |-> Following(g, last), seen |-> last.seen \cup Following(g, last)]
Ground(rs) == [frontier |-> rs, seen |-> rs]

\* The layers are what the recursive function says: some function meets its equation.
LEMMA LayersStep ==
    ASSUME NEW g, NEW rs
    PROVE  /\ Layers(g, rs)[0] = Ground(rs)
           /\ \A hop \in 0..MaxHops :
                 hop + 1 \in 0..MaxHops => Layers(g, rs)[hop + 1] = After(g, Layers(g, rs)[hop])
<1> DEFINE isLayers(f) == f = [hop \in 0..MaxHops |->
                               IF hop = 0 THEN Ground(rs) ELSE After(g, f[hop - 1])]
           walks(f, n) == /\ f[0] = Ground(rs)
                          /\ \A hop \in 0..n : hop # 0 => f[hop] = After(g, f[hop - 1])
           layer == Layers(g, rs)
<1>1. PICK f : walks(f, MaxHops)
  <2> DEFINE S == {n \in 0..MaxHops : \E f : walks(f, n)}
  <2>1. 0 \in S
    <3>1. walks([hop \in {0} |-> Ground(rs)], 0)
      OBVIOUS
    <3> HIDE DEF walks
    <3>2. \E f : walks(f, 0)
      BY <3>1
    <3>3. QED BY <3>2, HopsAssumption
  <2>2. ASSUME NEW n \in 0..MaxHops, n \in S, n + 1 \in 0..MaxHops PROVE n + 1 \in S
    <3>1. PICK f : walks(f, n)
      BY <2>2
    <3> DEFINE h == [hop \in 0..(n + 1) |-> IF hop = n + 1 THEN After(g, f[n]) ELSE f[hop]]
    <3>2. n \in Nat
      BY HopsAssumption
    <3>3. h[0] = f[0]
      BY <3>2
    <3>4. ASSUME NEW hop \in 0..(n + 1), hop # 0 PROVE h[hop] = After(g, h[hop - 1])
      <4>1. hop - 1 \in 0..n /\ hop - 1 # n + 1 /\ hop - 1 \in 0..(n + 1)
        BY <3>2, <3>4
      <4>2. h[hop - 1] = f[hop - 1]
        BY <4>1
      <4>3. CASE hop = n + 1
        <5>1. hop - 1 = n
          BY <3>2, <4>3
        <5>2. h[hop] = After(g, f[n])
          BY <4>3
        <5> HIDE DEF h
        <5>3. QED BY <4>2, <5>1, <5>2
      <4>4. CASE hop # n + 1
        <5>1. hop \in 0..n
          BY <3>2, <4>4
        <5>2. h[hop] = f[hop]
          BY <4>4
        <5> HIDE DEF h
        <5>3. QED BY <3>1, <3>4, <4>2, <5>1, <5>2
      <4>5. QED BY <4>3, <4>4
    <3> HIDE DEF h
    <3>5. walks(h, n + 1)
      BY <3>1, <3>3, <3>4
    <3> HIDE DEF walks
    <3>6. QED BY <2>2, <3>5
  <2>3. \A n \in 0..MaxHops : n \in S
    <3> HIDE DEF S
    <3>1. QED BY <2>1, <2>2, HopInduction
  <2>4. MaxHops \in S
    BY <2>3, HopsAssumption
  <2> HIDE DEF walks
  <2>5. QED BY <2>4
<1>2. isLayers([hop \in 0..MaxHops |-> f[hop]])
  <2>1. \A hop \in 0..MaxHops : hop # 0 => hop - 1 \in 0..MaxHops
    BY HopsAssumption
  <2>2. QED BY <1>1, <2>1
<1>3. isLayers(layer)
  <2>1. layer = CHOOSE h : isLayers(h)
    BY DEF Layers, After, Following, Ground
  <2> HIDE DEF isLayers, layer
  <2>2. QED BY <1>2, <2>1
<1> HIDE DEF layer
<1>4. layer[0] = Ground(rs)
  BY <1>3, HopsAssumption
<1>5. ASSUME NEW hop \in 0..MaxHops, hop + 1 \in 0..MaxHops
      PROVE  layer[hop + 1] = After(g, layer[hop])
  <2>1. hop + 1 # 0 /\ (hop + 1) - 1 = hop
    BY HopsAssumption
  <2>2. layer[hop + 1] = IF hop + 1 = 0 THEN Ground(rs) ELSE After(g, layer[(hop + 1) - 1])
    BY <1>3, <1>5
  <2>3. QED BY <2>1, <2>2
<1>6. QED BY <1>4, <1>5 DEF layer

\* A layer holds all those met before it, and its frontier is new.
LEMMA LayersGrow ==
    ASSUME NEW g, NEW rs
    PROVE  \A hop \in 0..MaxHops :
              /\ \A i \in 0..hop : /\ Layers(g, rs)[i].seen \subseteq Layers(g, rs)[hop].seen
                                   /\ Layers(g, rs)[i].frontier \subseteq Layers(g, rs)[hop].seen
              /\ \A k \in Layers(g, rs)[hop].seen : \E i \in 0..hop : k \in Layers(g, rs)[i].frontier
              /\ \A i \in 0..hop :
                    i # hop => Layers(g, rs)[i].frontier \cap Layers(g, rs)[hop].frontier = {}
<1> DEFINE L == Layers(g, rs)
           holds(hop) == /\ \A i \in 0..hop : L[i].seen \subseteq L[hop].seen /\ L[i].frontier \subseteq L[hop].seen
                         /\ \A k \in L[hop].seen : \E i \in 0..hop : k \in L[i].frontier
                         /\ \A i \in 0..hop : i # hop => L[i].frontier \cap L[hop].frontier = {}
           S == {hop \in 0..MaxHops : holds(hop)}
<1>1. L[0].frontier = rs /\ L[0].seen = rs
  <2>1. L[0] = Ground(rs)
    BY LayersStep
  <2> HIDE DEF L
  <2>2. QED BY <2>1 DEF Ground
<1>2. ASSUME NEW hop \in 0..MaxHops, hop + 1 \in 0..MaxHops
      PROVE  /\ L[hop + 1].frontier = Following(g, L[hop])
             /\ L[hop + 1].seen = L[hop].seen \cup L[hop + 1].frontier
             /\ L[hop + 1].frontier \cap L[hop].seen = {}
  <2>1. L[hop + 1] = After(g, L[hop])
    BY <1>2, LayersStep
  <2>2. Following(g, L[hop]) \cap L[hop].seen = {}
    BY DEF Following
  <2> HIDE DEF L
  <2>3. QED BY <2>1, <2>2 DEF After
<1> HIDE DEF L
<1>3. 0 \in S
  <2>1. 0 \in 0..MaxHops /\ \A i \in 0..0 : i = 0
    BY HopsAssumption
  <2>2. QED BY <1>1, <2>1
<1>4. ASSUME NEW hop \in 0..MaxHops, hop \in S, hop + 1 \in 0..MaxHops PROVE hop + 1 \in S
  <2>0. holds(hop)
    BY <1>4
  <2>1. hop \in 0..hop /\ hop + 1 \in 0..(hop + 1) /\ 0..hop \subseteq 0..(hop + 1)
    BY HopsAssumption
  <2>2. \A i \in 0..(hop + 1) : i # hop + 1 => i \in 0..hop
    BY HopsAssumption
  <2>3. /\ L[hop + 1].seen = L[hop].seen \cup L[hop + 1].frontier
        /\ L[hop + 1].frontier \cap L[hop].seen = {}
    BY <1>2, <1>4
  <2>4. \A i \in 0..(hop + 1) :
            L[i].seen \subseteq L[hop + 1].seen /\ L[i].frontier \subseteq L[hop + 1].seen
    BY <2>0, <2>2, <2>3
  <2>5. \A k \in L[hop + 1].seen : \E i \in 0..(hop + 1) : k \in L[i].frontier
    BY <2>0, <2>1, <2>3
  <2>6. \A i \in 0..(hop + 1) : i # hop + 1 => L[i].frontier \cap L[hop + 1].frontier = {}
    BY <2>0, <2>2, <2>3
  <2>7. QED BY <1>4, <2>4, <2>5, <2>6
<1>5. \A hop \in 0..MaxHops : hop \in S
  <2> HIDE DEF S
  <2>1. QED BY <1>3, <1>4, HopInduction
<1>6. QED BY <1>5 DEF L

\* Everyone is first met at one hop, and that is the distance.
LEMMA DistanceIsLayer ==
    ASSUME NEW g, NEW rs, NEW k
    PROVE  /\ \A hop \in 0..MaxHops :
                 k \in Layers(g, rs)[hop].frontier => distance(g, rs, k) = hop
           /\ distance(g, rs, k) # None =>
                 /\ distance(g, rs, k) \in 0..MaxHops
                 /\ k \in Layers(g, rs)[distance(g, rs, k)].frontier
<1> DEFINE L == Layers(g, rs)
           hops == {hop \in 0..MaxHops : k \in L[hop].frontier}
<1>1. \A hop \in 0..MaxHops : \A i \in 0..hop : i # hop => L[i].frontier \cap L[hop].frontier = {}
  BY LayersGrow
<1>2. distance(g, rs, k) = IF hops = {} THEN None ELSE CHOOSE hop \in hops : TRUE
  BY DEF distance
<1> HIDE DEF L
<1>3. ASSUME NEW hop \in hops, NEW i \in hops PROVE hop = i
  <2>1. hop \in 0..i \/ i \in 0..hop
    BY HopsAssumption
  <2>2. QED BY <1>1, <2>1
<1>4. QED BY <1>2, <1>3 DEF L

\* What a graph is: of each key the accounts it follows, or no contact list.
IsGraph(g) == g \in [Keys -> (SUBSET Keys) \cup {None}]

LEMMA FollowsAreLists ==
    ASSUME NEW g, IsGraph(g), NEW ks \in SUBSET Keys
    PROVE  /\ FollowsOf(g, ks) \subseteq Keys
           /\ \A k : k \in FollowsOf(g, ks) <=> \E j \in ks : g[j] # None /\ k \in g[j]
<1>1. ASSUME NEW k PROVE k \in FollowsOf(g, ks) <=> \E j \in ks : g[j] # None /\ k \in g[j]
  <2>1. k \in FollowsOf(g, ks) <=> \E follows \in {g[j] : j \in {j \in ks : g[j] # None}} : k \in follows
    BY Zenon DEF FollowsOf
  <2>2. QED BY <2>1
<1>2. \A j \in ks : g[j] # None => g[j] \subseteq Keys
  BY DEF IsGraph
<1>3. QED BY <1>1, <1>2

\* The search meets keys.
LEMMA LayersAreKeys ==
    ASSUME NEW g, IsGraph(g), NEW rs \in SUBSET Keys
    PROVE  \A hop \in 0..MaxHops :
              /\ Layers(g, rs)[hop].frontier \subseteq Keys
              /\ Layers(g, rs)[hop].seen \subseteq Keys
<1> DEFINE L == Layers(g, rs)
           S == {hop \in 0..MaxHops : L[hop].frontier \subseteq Keys /\ L[hop].seen \subseteq Keys}
<1>1. 0 \in S
  <2>1. L[0] = Ground(rs)
    BY LayersStep
  <2> HIDE DEF L
  <2>2. QED BY <2>1, HopsAssumption DEF Ground
<1>2. ASSUME NEW hop \in 0..MaxHops, hop \in S, hop + 1 \in 0..MaxHops PROVE hop + 1 \in S
  <2>1. L[hop + 1] = After(g, L[hop])
    BY <1>2, LayersStep
  <2> HIDE DEF L
  <2>2. Following(g, L[hop]) \subseteq Keys
    BY <1>2, FollowsAreLists DEF Following
  <2>3. QED BY <1>2, <2>1, <2>2 DEF After
<1>3. \A hop \in 0..MaxHops : hop \in S
  <2> HIDE DEF S
  <2>1. QED BY <1>1, <1>2, HopInduction
<1>4. QED BY <1>3

\* Two graphs that agree on whom a search meets before hop n give the same layers up to n.
LEMMA LayersAgree ==
    ASSUME NEW g, NEW h, NEW rs, NEW n \in 0..MaxHops,
           \A hop \in 0..MaxHops : hop < n =>
              \A k \in Layers(h, rs)[hop].frontier : g[k] = h[k]
    PROVE  \A hop \in 0..MaxHops : hop <= n => Layers(g, rs)[hop] = Layers(h, rs)[hop]
<1> DEFINE L == Layers(g, rs)
           M == Layers(h, rs)
           S == {hop \in 0..MaxHops : hop <= n => L[hop] = M[hop]}
<1>1. 0 \in S
  <2>1. L[0] = Ground(rs) /\ M[0] = Ground(rs)
    BY LayersStep
  <2> HIDE DEF L, M
  <2>2. QED BY <2>1, HopsAssumption
<1>2. ASSUME NEW hop \in 0..MaxHops, hop \in S, hop + 1 \in 0..MaxHops PROVE hop + 1 \in S
  <2> SUFFICES ASSUME hop + 1 <= n PROVE L[hop + 1] = M[hop + 1]
    BY <1>2
  <2>1. L[hop + 1] = After(g, L[hop]) /\ M[hop + 1] = After(h, M[hop])
    BY <1>2, LayersStep
  <2>2. hop < n /\ hop <= n
    BY HopsAssumption
  <2>3. L[hop] = M[hop] /\ \A k \in M[hop].frontier : g[k] = h[k]
    BY <1>2, <2>2
  <2> HIDE DEF L, M
  <2>4. FollowsOf(g, M[hop].frontier) = FollowsOf(h, M[hop].frontier)
    BY <2>3 DEF FollowsOf
  <2>5. QED BY <2>1, <2>3, <2>4 DEF After, Following
<1>3. \A hop \in 0..MaxHops : hop \in S
  <2> HIDE DEF S
  <2>1. QED BY <1>1, <1>2, HopInduction
<1>4. QED BY <1>3

\* Whom the search meets at a hop, a chain of as many follows leads to.
LEMMA LayerHasChain ==
    ASSUME NEW g, IsGraph(g), NEW rs \in SUBSET Keys
    PROVE  \A hop \in 0..MaxHops : \A k \in Layers(g, rs)[hop].frontier : ChainOf(g, rs, k, hop)
<1> DEFINE L == Layers(g, rs)
           S == {hop \in 0..MaxHops : \A k \in L[hop].frontier : ChainOf(g, rs, k, hop)}
<1>1. 0 \in S
  <2>1. L[0] = Ground(rs)
    BY LayersStep
  <2> HIDE DEF L
  <2>2. ASSUME NEW k \in rs PROVE ChainOf(g, rs, k, 0)
    <3>1. [i \in 0..0 |-> k] \in [0..0 -> Keys] /\ [i \in 0..0 |-> k][0] = k
      BY <2>2
    <3>2. \A i \in 1..0 : FALSE
      OBVIOUS
    <3>3. QED BY <3>1, <3>2 DEF ChainOf
  <2>3. L[0].frontier = rs
    BY <2>1 DEF Ground
  <2>4. QED BY <2>2, <2>3, HopsAssumption
<1>2. ASSUME NEW hop \in 0..MaxHops, hop \in S, hop + 1 \in 0..MaxHops PROVE hop + 1 \in S
  <2>1. L[hop + 1] = After(g, L[hop]) /\ L[hop].frontier \subseteq Keys
    BY <1>2, LayersStep, LayersAreKeys
  <2>2. \A p \in L[hop].frontier : ChainOf(g, rs, p, hop)
    BY <1>2
  <2> HIDE DEF L
  <2>3. ASSUME NEW k \in L[hop + 1].frontier PROVE ChainOf(g, rs, k, hop + 1)
    <3>1. k \in FollowsOf(g, L[hop].frontier)
      BY <2>1, <2>3 DEF After, Following
    <3>2. PICK p \in L[hop].frontier : g[p] # None /\ k \in g[p]
      BY <2>1, <3>1, FollowsAreLists
    <3>3. k \in Keys
      BY <2>1, <3>1, FollowsAreLists
    <3>4. PICK c \in [0..hop -> Keys] :
              /\ c[0] \in rs
              /\ c[hop] = p
              /\ \A i \in 1..hop : g[c[i - 1]] # None /\ c[i] \in g[c[i - 1]]
      BY <2>2, <3>2 DEF ChainOf
    <3> DEFINE d == [i \in 0..(hop + 1) |-> IF i = hop + 1 THEN k ELSE c[i]]
    <3>5. /\ hop \in Nat
          /\ \A i \in 0..(hop + 1) : i # hop + 1 => i \in 0..hop
          /\ \A i \in 1..(hop + 1) : /\ i \in 0..(hop + 1) /\ i - 1 \in 0..(hop + 1)
                                     /\ i - 1 # hop + 1
                                     /\ i # hop + 1 => i \in 1..hop
                                     /\ i = hop + 1 => i - 1 = hop
          /\ 0 # hop + 1 /\ 0 \in 0..(hop + 1) /\ hop + 1 \in 0..(hop + 1)
      BY HopsAssumption
    <3>6. d \in [0..(hop + 1) -> Keys]
      BY <3>3, <3>4, <3>5
    <3>7. d[hop + 1] = k /\ d[0] = c[0] /\ \A i \in 0..(hop + 1) : i # hop + 1 => d[i] = c[i]
      BY <3>5
    <3> HIDE DEF d
    <3>8. ASSUME NEW i \in 1..(hop + 1) PROVE g[d[i - 1]] # None /\ d[i] \in g[d[i - 1]]
      <4>1. d[i - 1] = c[i - 1]
        BY <3>5, <3>7
      <4>2. CASE i = hop + 1
        BY <3>2, <3>4, <3>5, <3>7, <4>1, <4>2
      <4>3. CASE i # hop + 1
        BY <3>4, <3>5, <3>7, <4>1, <4>3
      <4>4. QED BY <4>2, <4>3
    <3>9. QED BY <3>4, <3>6, <3>7, <3>8 DEF ChainOf
  <2>4. QED BY <1>2, <2>3
<1>3. \A hop \in 0..MaxHops : hop \in S
  <2> HIDE DEF S
  <2>1. QED BY <1>1, <1>2, HopInduction
<1>4. QED BY <1>3

\* Where a chain leads, the search has been after as many hops.
LEMMA ChainIsSeen ==
    ASSUME NEW g, IsGraph(g), NEW rs \in SUBSET Keys
    PROVE  \A hop \in 0..MaxHops : \A k \in Keys :
              ChainOf(g, rs, k, hop) => k \in Layers(g, rs)[hop].seen
<1> DEFINE L == Layers(g, rs)
           S == {hop \in 0..MaxHops : \A k \in Keys : ChainOf(g, rs, k, hop) => k \in L[hop].seen}
<1>1. 0 \in S
  <2>1. L[0] = Ground(rs)
    BY LayersStep
  <2> HIDE DEF L
  <2>2. L[0].seen = rs
    BY <2>1 DEF Ground
  <2>3. \A k \in Keys : ChainOf(g, rs, k, 0) => k \in rs
    BY DEF ChainOf
  <2>4. QED BY <2>2, <2>3, HopsAssumption
<1>2. ASSUME NEW hop \in 0..MaxHops, hop \in S, hop + 1 \in 0..MaxHops PROVE hop + 1 \in S
  <2>1. /\ L[hop + 1] = After(g, L[hop])
        /\ \A i \in 0..hop : L[i].frontier \subseteq Keys
        /\ \A k \in L[hop].seen : \E i \in 0..hop : k \in L[i].frontier
    <3>1. L[hop + 1] = After(g, L[hop])
      BY <1>2, LayersStep
    <3>2. \A i \in 0..MaxHops : L[i].frontier \subseteq Keys
      BY LayersAreKeys
    <3>3. \A k \in L[hop].seen : \E i \in 0..hop : k \in L[i].frontier
      BY LayersGrow
    <3>4. 0..hop \subseteq 0..MaxHops
      BY HopsAssumption
    <3> HIDE DEF L
    <3>5. QED BY ONLY <3>1, <3>2, <3>3, <3>4
  <2>2. \A i \in 0..hop : i + 1 \in 0..MaxHops /\ (i = hop \/ i + 1 \in 0..hop)
    BY <1>2, HopsAssumption
  <2>3. \A i \in 0..hop : /\ L[i + 1] = After(g, L[i])
                          /\ L[i].seen \subseteq L[hop].seen
                          /\ i + 1 \in 0..hop => L[i + 1].seen \subseteq L[hop].seen
    BY <1>2, <2>2, LayersStep, LayersGrow, HopsAssumption
  <2>4. \A k \in Keys : ChainOf(g, rs, k, hop) => k \in L[hop].seen
    BY <1>2
  <2> HIDE DEF L
  <2>5. L[hop].seen \subseteq L[hop + 1].seen
    BY <2>1 DEF After
  <2>6. ASSUME NEW i \in 0..hop PROVE FollowsOf(g, L[i].frontier) \subseteq L[hop + 1].seen
    <3>1. FollowsOf(g, L[i].frontier) \subseteq L[i + 1].seen
      <4>1. L[i + 1] = After(g, L[i])
        BY <2>3, <2>6
      <4>2. Following(g, L[i]) = FollowsOf(g, L[i].frontier) \ L[i].seen
        BY DEF Following
      <4>3. L[i + 1].seen = L[i].seen \cup Following(g, L[i])
        BY <4>1 DEF After
      <4>4. QED BY ONLY <4>2, <4>3
    <3>2. CASE i = hop
      BY <3>1, <3>2
    <3>3. CASE i + 1 \in 0..hop
      BY <2>3, <2>5, <2>6, <3>1, <3>3
    <3>4. QED BY <2>2, <2>6, <3>2, <3>3
  <2>7. ASSUME NEW k \in Keys, ChainOf(g, rs, k, hop + 1) PROVE k \in L[hop + 1].seen
    <3>1. PICK c \in [0..(hop + 1) -> Keys] :
              /\ c[0] \in rs
              /\ c[hop + 1] = k
              /\ \A i \in 1..(hop + 1) : g[c[i - 1]] # None /\ c[i] \in g[c[i - 1]]
      BY <2>7 DEF ChainOf
    <3>2. /\ 0..hop \subseteq 0..(hop + 1) /\ hop \in 0..hop /\ 0 \in 0..hop
          /\ hop + 1 \in 1..(hop + 1) /\ (hop + 1) - 1 = hop
          /\ \A i \in 1..hop : i \in 1..(hop + 1) /\ i \in 0..hop /\ i - 1 \in 0..hop
      BY HopsAssumption
    <3> DEFINE d == [i \in 0..hop |-> c[i]]
    <3>3. /\ d \in [0..hop -> Keys]
          /\ d[0] = c[0] /\ d[hop] = c[hop]
          /\ \A i \in 1..hop : d[i] = c[i] /\ d[i - 1] = c[i - 1]
      BY <3>1, <3>2
    <3>4. c[hop] \in Keys
      BY <3>1, <3>2
    <3> HIDE DEF d
    <3>5. ChainOf(g, rs, c[hop], hop)
      BY <3>1, <3>2, <3>3 DEF ChainOf
    <3>6. PICK i \in 0..hop : c[hop] \in L[i].frontier
      BY <2>1, <2>4, <3>4, <3>5
    <3>7. g[c[hop]] # None /\ k \in g[c[hop]]
      BY <3>1, <3>2
    <3>8. k \in FollowsOf(g, L[i].frontier)
      BY <2>1, <3>6, <3>7, FollowsAreLists
    <3>9. QED BY <2>6, <3>8
  <2>8. QED BY <1>2, <2>7
<1>3. \A hop \in 0..MaxHops : hop \in S
  <2> HIDE DEF S
  <2>1. QED BY <1>1, <1>2, HopInduction
<1>4. QED BY <1>3

\* wot_graph.rs, WotGraph::distance: the breadth-first search gives the length of a shortest
\* chain of follows from a root, and nothing where no chain within the horizon exists.
THEOREM SearchIsShortest ==
    ASSUME NEW g, IsGraph(g), NEW rs \in SUBSET Keys, NEW k \in Keys
    PROVE  distance(g, rs, k) = ShortestChain(g, rs, k)
<1> DEFINE L == Layers(g, rs)
           lengths == {n \in 0..MaxHops : ChainOf(g, rs, k, n)}
           d == distance(g, rs, k)
<1>1. \A n \in lengths : \E hop \in 0..n : k \in L[hop].frontier
  BY ChainIsSeen, LayersGrow
<1>2. \A n \in 0..MaxHops : \A hop \in 0..n : hop \in 0..MaxHops /\ hop <= n
  BY HopsAssumption
<1>3. \A hop \in 0..MaxHops : k \in L[hop].frontier => d = hop /\ hop \in lengths
  BY DistanceIsLayer, LayerHasChain
<1>4. d # None => d \in 0..MaxHops /\ k \in L[d].frontier
  BY DistanceIsLayer
<1>5. ShortestChain(g, rs, k) = IF lengths = {} THEN None
                                ELSE CHOOSE n \in lengths : \A m \in lengths : n <= m
  BY DEF ShortestChain
<1> HIDE DEF d, L
<1>6. CASE d = None
  <2>1. \A hop \in 0..MaxHops : k \notin L[hop].frontier
    BY <1>3, <1>6, NoHopsAssumption
  <2>2. lengths = {}
    BY <1>1, <1>2, <2>1
  <2>3. QED BY <1>5, <1>6, <2>2 DEF d
<1>7. CASE d # None
  <2>1. d \in lengths
    BY <1>3, <1>4, <1>7
  <2>2. \A m \in lengths : d <= m
    BY <1>1, <1>2, <1>3
  <2>3. lengths \subseteq Nat
    BY HopsAssumption
  <2> DEFINE n == CHOOSE n \in lengths : \A m \in lengths : n <= m
  <2>4. n \in lengths /\ \A m \in lengths : n <= m
    BY <2>1, <2>2
  <2> HIDE DEF n, lengths
  <2>5. n <= d /\ d <= n /\ n \in Nat /\ d \in Nat
    BY <2>1, <2>2, <2>3, <2>4
  <2>6. n = d
    BY <2>5
  <2>7. QED BY <1>5, <2>1, <2>6 DEF d, n
<1>8. QED BY <1>6, <1>7

\* Once nobody new is met, nobody is.
LEMMA EmptyStaysEmpty ==
    ASSUME NEW g, NEW rs, NEW n \in 0..MaxHops, Layers(g, rs)[n].frontier = {}
    PROVE  \A hop \in 0..MaxHops : hop >= n => Layers(g, rs)[hop].frontier = {}
<1> DEFINE L == Layers(g, rs)
           S == {hop \in 0..MaxHops : hop >= n => L[hop].frontier = {}}
<1>1. 0 \in S
  BY HopsAssumption
<1>2. ASSUME NEW hop \in 0..MaxHops, hop \in S, hop + 1 \in 0..MaxHops PROVE hop + 1 \in S
  <2>1. L[hop + 1] = After(g, L[hop])
    BY <1>2, LayersStep
  <2>2. hop + 1 >= n => hop + 1 = n \/ hop >= n
    BY HopsAssumption
  <2>3. L[hop].frontier = {} => Following(g, L[hop]) = {}
    BY DEF Following, FollowsOf
  <2>4. L[n].frontier = {}
    OBVIOUS
  <2> HIDE DEF L
  <2>5. L[hop + 1].frontier = Following(g, L[hop])
    BY <2>1 DEF After
  <2>6. QED BY <1>2, <2>2, <2>3, <2>4, <2>5
<1>3. \A hop \in 0..MaxHops : hop \in S
  <2> HIDE DEF S
  <2>1. QED BY <1>1, <1>2, HopInduction
<1>4. QED BY <1>3

\* Without roots the search meets nobody, however many hops it may take.
LEMMA NoRootsReachNobody ==
    ASSUME NEW g, NEW k
    PROVE  distance(g, {}, k) = None
<1> DEFINE L == Layers(g, {})
<1>1. L[0].frontier = {}
  <2>1. L[0] = Ground({})
    BY LayersStep
  <2> HIDE DEF L
  <2>2. QED BY <2>1 DEF Ground
<1>2. \A hop \in 0..MaxHops : L[hop].frontier = {}
  BY <1>1, EmptyStaysEmpty, HopsAssumption
<1>3. QED BY <1>2, DistanceIsLayer

-----------------------------------------------------------------------------
(* In the relay's own graph. *)

\* Without an oracle only the steps of the local graph are taken.
LocalSteps == {"idle", "roots", "measure", "keep", "store"}

Shape ==
    /\ local
    /\ worker \in [Workers -> [at : LocalSteps, key : Clients \cup {None}, roots : SUBSET Keys,
                               todo : SUBSET Keys, best : Verdict]]
    /\ \A w \in Workers : worker[w].at # "idle" => worker[w].key \in Clients
    /\ \A w \in Workers : worker[w].at = "roots" => worker[w].best = None
    /\ DOMAIN cache = Clients
    /\ console \in [Consoles -> Requests]
    /\ "at" \in DOMAIN walk
    /\ roots \subseteq Keys
    /\ refs \subseteq Keys

\* A lookup in flight holds the present roots, and once it has measured, their distance in
\* the present graph, unless it is among the raced.
InFlightIsCurrent ==
    \A w \in Workers :
        /\ worker[w].at \in {"measure", "keep", "store"} /\ worker[w].key \notin raced =>
              worker[w].roots = roots
        /\ worker[w].at \in {"keep", "store"} /\ worker[w].key \notin raced =>
              worker[w].best = distance(edges, roots, worker[w].key)

\* A refusal about to be stored is that of a built graph, or of a relay without roots.
RefusalIsConfident ==
    \A w \in Workers :
        worker[w].at = "store" => worker[w].best # None \/ built \/ worker[w].roots = {}

WotInv == Shape /\ InFlightIsCurrent /\ RefusalIsConfident /\ VerdictsAreCurrent

LEMMA InitHolds == ASSUME local, Init PROVE WotInv
<1>1. Shape
  BY DEF Init, GraphInit, NoWalk, Shape, Rest, Verdict, LocalSteps, EmptyCache, Requests
<1>2. \A w \in Workers : worker[w].at = "idle"
  BY DEF Init, Rest
<1>3. InFlightIsCurrent /\ RefusalIsConfident
  BY <1>2 DEF InFlightIsCurrent, RefusalIsConfident
<1>4. \A k \in Clients : ~cached(k)
  BY DEF Init, EmptyCache, cached
<1>5. VerdictsAreCurrent
  BY <1>4 DEF VerdictsAreCurrent, RefusedByBuiltGraphOnly
<1>6. QED BY <1>1, <1>3, <1>5 DEF WotInv

\* A distance is a verdict.
LEMMA DistanceIsVerdict ==
    ASSUME NEW g, NEW rs, NEW k PROVE distance(g, rs, k) \in Verdict
<1> DEFINE hops == {hop \in 0..MaxHops : k \in Layers(g, rs)[hop].frontier}
<1>1. distance(g, rs, k) = IF hops = {} THEN None ELSE CHOOSE hop \in hops : TRUE
  BY DEF distance
<1>2. QED BY <1>1 DEF Verdict

\* What is cached stays current while roots, graph and cache stay and the raced grow.
LEMMA VerdictsFramed ==
    ASSUME VerdictsAreCurrent, raced \subseteq raced',
           UNCHANGED <<local, roots, cache, edges, built>>,
           Clearing => Clearing'
    PROVE  VerdictsAreCurrent'
BY DEF VerdictsAreCurrent, RefusedByBuiltGraphOnly, cached, Graph

\* A step of one connection that keeps everything shared.
LEMMA PrivateStep ==
    ASSUME WotInv, NEW w \in Workers, NEW task,
           worker' = [worker EXCEPT ![w] = task],
           UNCHANGED <<local, refs, roots, cache, console, raced, edges, built, walk>>,
           task \in [at : LocalSteps, key : Clients \cup {None}, roots : SUBSET Keys,
                     todo : SUBSET Keys, best : Verdict],
           task.at # "idle" => task.key \in Clients,
           task.at = "roots" => task.best = None,
           task.at \in {"measure", "keep", "store"} /\ task.key \notin raced =>
              task.roots = roots,
           task.at \in {"keep", "store"} /\ task.key \notin raced =>
              task.best = distance(edges, roots, task.key),
           task.at = "store" => task.best # None \/ built \/ task.roots = {}
    PROVE  WotInv'
<1>1. Shape'
  BY DEF WotInv, Shape
<1>2. InFlightIsCurrent'
  BY DEF WotInv, Shape, InFlightIsCurrent
<1>3. RefusalIsConfident'
  BY DEF WotInv, Shape, RefusalIsConfident
<1>4. VerdictsAreCurrent'
  BY VerdictsFramed DEF WotInv, Clearing
<1>5. QED BY <1>1, <1>2, <1>3, <1>4 DEF WotInv

\* The steps of resolve() but the last.
LEMMA ResolveKeeps ==
    ASSUME WotInv, NEW w \in Workers,
           \/ \E k \in Clients : Resolve(w, k)
           \/ ReadRoots(w) \/ Measure(w) \/ Keep(w)
    PROVE  WotInv'
<1> USE DEF graphVars, graph
<1>0. /\ Shape /\ InFlightIsCurrent /\ RefusalIsConfident
      /\ worker[w] \in [at : LocalSteps, key : Clients \cup {None}, roots : SUBSET Keys,
                        todo : SUBSET Keys, best : Verdict]
  BY DEF WotInv, Shape
<1>1. ASSUME NEW k \in Clients, Resolve(w, k) PROVE WotInv'
  <2> DEFINE task == [Rest EXCEPT !.at = "roots", !.key = k]
  <2>1. task.at = "roots" /\ task.key = k /\ task.best = None
    BY DEF Rest
  <2>2. worker' = [worker EXCEPT ![w] = task]
    BY <1>1 DEF Resolve
  <2>3. task \in [at : LocalSteps, key : Clients \cup {None}, roots : SUBSET Keys,
                  todo : SUBSET Keys, best : Verdict]
    BY DEF Rest, LocalSteps, Verdict
  <2> HIDE DEF task
  <2>4. QED BY <1>1, <2>1, <2>2, <2>3, PrivateStep DEF Resolve
<1>2. CASE ReadRoots(w)
  <2> DEFINE task == [worker[w] EXCEPT !.roots = roots, !.todo = roots,
                                       !.at = IF roots = {} THEN "store" ELSE "measure"]
  <2>1. worker' = [worker EXCEPT ![w] = task]
    BY <1>0, <1>2 DEF ReadRoots, Shape
  <2>2. /\ task.at = IF roots = {} THEN "store" ELSE "measure"
        /\ task.roots = roots /\ task.key = worker[w].key /\ task.best = None
        /\ task.key \in Clients
        /\ task \in [at : LocalSteps, key : Clients \cup {None}, roots : SUBSET Keys,
                     todo : SUBSET Keys, best : Verdict]
    BY <1>0, <1>2 DEF ReadRoots, Shape, LocalSteps
  <2>3. roots = {} => distance(edges, roots, task.key) = None
    BY NoRootsReachNobody
  <2> HIDE DEF task
  <2>4. QED BY <1>2, <2>1, <2>2, <2>3, PrivateStep DEF ReadRoots
<1>3. CASE Measure(w)
  <2> DEFINE hops == distance(edges, worker[w].roots, worker[w].key)
             task == [worker[w] EXCEPT !.best = hops, !.at = "keep"]
  <2>1. hops \in Verdict
    BY DistanceIsVerdict
  <2>2. worker[w].key \notin raced => hops = distance(edges, roots, worker[w].key)
    BY <1>0, <1>3 DEF Measure, InFlightIsCurrent
  <2>3. worker' = [worker EXCEPT ![w] = task]
    BY <1>0, <1>3 DEF Measure, Shape
  <2> HIDE DEF hops
  <2>4. /\ task.at = "keep" /\ task.best = hops
        /\ task.roots = worker[w].roots /\ task.key = worker[w].key
        /\ task.key \in Clients
        /\ task \in [at : LocalSteps, key : Clients \cup {None}, roots : SUBSET Keys,
                     todo : SUBSET Keys, best : Verdict]
    <3>1. worker[w] \in [at : LocalSteps, key : Clients \cup {None}, roots : SUBSET Keys,
                          todo : SUBSET Keys, best : Verdict]
      BY <1>0 DEF Shape
    <3>2. worker[w].key \in Clients
      BY <1>0, <1>3 DEF Measure, Shape
    <3>3. "keep" \in LocalSteps
      BY DEF LocalSteps
    <3> QED BY ONLY <3>1, <3>2, <3>3, <2>1
  <2>5. task.key \notin raced => task.roots = roots
    BY <1>0, <1>3, <2>4 DEF Measure, InFlightIsCurrent
  <2> HIDE DEF task
  <2>6. UNCHANGED <<local, refs, roots, cache, console, raced, edges, built, walk>>
    BY <1>3 DEF Measure, graphVars
  <2>7. /\ task.key \notin raced => task.best = distance(edges, roots, task.key)
        /\ task.at = "keep" /\ task.key \in Clients
    BY <2>2, <2>4
  <2>8. QED BY <2>3, <2>4, <2>5, <2>6, <2>7, PrivateStep
<1>4. CASE Keep(w) /\ (worker[w].best # None \/ built)
  <2> DEFINE task == [worker[w] EXCEPT !.at = "store"]
  <2>1. worker' = [worker EXCEPT ![w] = task]
    BY <1>0, <1>4 DEF Keep, Goto, Shape
  <2>2. /\ task.at = "store" /\ task.best = worker[w].best
        /\ task.roots = worker[w].roots /\ task.key = worker[w].key
        /\ task.key \in Clients
        /\ task \in [at : LocalSteps, key : Clients \cup {None}, roots : SUBSET Keys,
                     todo : SUBSET Keys, best : Verdict]
    BY <1>0, <1>4 DEF Keep, Shape, LocalSteps
  <2>3. task.key \notin raced =>
            task.roots = roots /\ task.best = distance(edges, roots, task.key)
    BY <1>0, <1>4, <2>2 DEF Keep, InFlightIsCurrent
  <2> HIDE DEF task
  <2>4. QED BY <1>4, <2>1, <2>2, <2>3, PrivateStep DEF Keep
<1>5. CASE Keep(w) /\ ~(worker[w].best # None \/ built)
  <2>1. worker' = [worker EXCEPT ![w] = Rest]
    BY <1>5 DEF Keep, Return
  <2>2. Rest \in [at : LocalSteps, key : Clients \cup {None}, roots : SUBSET Keys,
                  todo : SUBSET Keys, best : Verdict]
    BY DEF Rest, LocalSteps, Verdict
  <2>3. Rest.at = "idle"
    BY DEF Rest
  <2>4. QED BY <1>5, <2>1, <2>2, <2>3, PrivateStep DEF Keep
<1>6. QED BY <1>1, <1>2, <1>3, <1>4, <1>5

\* The last step of resolve(): what it stores for a key not raced is the present distance.
LEMMA StoreKeeps == ASSUME WotInv, NEW w \in Workers, Store(w) PROVE WotInv'
<1> USE DEF graphVars, graph
<1>0. /\ Shape /\ InFlightIsCurrent /\ RefusalIsConfident
      /\ worker[w].at = "store" /\ worker[w].key \in Clients
      /\ cache' = [cache EXCEPT ![worker[w].key] = Entry(worker[w].best)]
      /\ worker' = [worker EXCEPT ![w] = Rest]
      /\ UNCHANGED <<local, refs, roots, console, raced, edges, built, walk>>
  BY DEF WotInv, Shape, Store, Return
<1>1. Shape'
  <2>1. Rest \in [at : LocalSteps, key : Clients \cup {None}, roots : SUBSET Keys,
                  todo : SUBSET Keys, best : Verdict]
    BY DEF Rest, LocalSteps, Verdict
  <2>2. Rest.at = "idle"
    BY DEF Rest
  <2>3. QED BY <1>0, <2>1, <2>2 DEF Shape
<1>2. InFlightIsCurrent' /\ RefusalIsConfident'
  <2>1. Rest.at = "idle"
    BY DEF Rest
  <2>2. QED BY <1>0, <2>1 DEF InFlightIsCurrent, RefusalIsConfident, Shape
<1>3. VerdictsAreCurrent'
  <2>1. Clearing' = Clearing /\ Graph = edges /\ Graph' = edges
    BY <1>0 DEF Clearing, Graph, Shape
  <2>2. /\ worker[w].key \notin raced => worker[w].best = distance(edges, roots, worker[w].key)
        /\ worker[w].key \notin raced /\ roots # {} => worker[w].best # None \/ built
    BY <1>0 DEF InFlightIsCurrent, RefusalIsConfident
  <2>3. Entry(worker[w].best).hops = worker[w].best
    BY DEF Entry
  <2>4. ASSUME ~Clearing, NEW k \in Clients \ raced, cached(k)'
        PROVE  TierOf(cache'[k].hops) = TierOf(distance(edges, roots, k))
    <3>1. CASE k = worker[w].key
      BY <1>0, <2>2, <2>3, <2>4, <3>1 DEF Shape
    <3>2. CASE k # worker[w].key
      BY <1>0, <2>1, <2>4, <3>2 DEF WotInv, VerdictsAreCurrent, Shape, cached
    <3>3. QED BY <3>1, <3>2
  <2>5. ASSUME ~built, roots # {}, ~Clearing, NEW k \in Clients \ raced, cached(k)'
        PROVE  cache'[k].hops # None
    <3>1. CASE k = worker[w].key
      BY <1>0, <2>2, <2>3, <2>5, <3>1 DEF Shape
    <3>2. CASE k # worker[w].key
      BY <1>0, <2>5, <3>2 DEF WotInv, VerdictsAreCurrent, RefusedByBuiltGraphOnly, Shape, cached
    <3>3. QED BY <3>1, <3>2
  <2>6. RefusedByBuiltGraphOnly'
    BY <1>0, <2>1, <2>5 DEF RefusedByBuiltGraphOnly
  <2>7. QED BY <1>0, <2>1, <2>4, <2>6 DEF VerdictsAreCurrent
<1>4. QED BY <1>1, <1>2, <1>3 DEF WotInv

\* A change of the roots: who reads them meanwhile is raced, and all verdicts go before
\* anything is claimed of them again.
LEMMA ConsoleKeeps ==
    ASSUME WotInv, NEW c \in Consoles,
           ConsoleStep(c) \/ \E rs \in RefSets : EditReferences(c, rs)
    PROVE  WotInv'
<1> USE DEF graphVars, graph
<1>0. /\ Shape /\ InFlightIsCurrent /\ RefusalIsConfident
      /\ console[c] \in Requests
  BY DEF WotInv, Shape
<1>1. ASSUME NEW rs \in RefSets, EditReferences(c, rs) PROVE WotInv'
  <2>1. Shape'
    BY <1>0, <1>1 DEF EditReferences, Shape, Requests
  <2>2. InFlightIsCurrent' /\ RefusalIsConfident'
    BY <1>0, <1>1 DEF EditReferences, InFlightIsCurrent, RefusalIsConfident
  <2>3. Clearing => Clearing'
    BY <1>0, <1>1 DEF EditReferences, Clearing, Shape
  <2>4. VerdictsAreCurrent'
    BY <1>1, <2>3, VerdictsFramed DEF WotInv, EditReferences
  <2>5. QED BY <2>1, <2>2, <2>4 DEF WotInv
<1>2. CASE ListReferences(c)
  <2>1. Shape'
    BY <1>0, <1>2 DEF ListReferences, Shape, Requests
  <2>2. InFlightIsCurrent' /\ RefusalIsConfident'
    BY <1>0, <1>2 DEF ListReferences, InFlightIsCurrent, RefusalIsConfident
  <2>3. Clearing => Clearing'
    BY <1>0, <1>2 DEF ListReferences, Clearing, Shape
  <2>4. VerdictsAreCurrent'
    BY <1>2, <2>3, VerdictsFramed DEF WotInv, ListReferences
  <2>5. QED BY <2>1, <2>2, <2>4 DEF WotInv
<1>3. CASE SetRoots(c)
  <2>1. Shape'
    BY <1>0, <1>3 DEF SetRoots, Shape, Requests
  <2>2. \A w \in Workers : worker[w].at \in {"measure", "keep", "store"} => worker[w].key \in raced'
    BY <1>3 DEF SetRoots, Resolving, KeysAt
  <2>3. InFlightIsCurrent' /\ RefusalIsConfident'
    BY <1>0, <1>3, <2>2 DEF SetRoots, InFlightIsCurrent, RefusalIsConfident
  <2>4. Clearing'
    BY <1>0, <1>3 DEF SetRoots, Clearing, Shape, Requests
  <2>5. VerdictsAreCurrent'
    BY <2>4 DEF VerdictsAreCurrent, RefusedByBuiltGraphOnly
  <2>6. QED BY <2>1, <2>3, <2>5 DEF WotInv
<1>4. CASE ClearVerdicts(c)
  <2>1. Shape'
    BY <1>0, <1>4 DEF ClearVerdicts, Shape, Requests, EmptyCache
  <2>2. InFlightIsCurrent' /\ RefusalIsConfident'
    BY <1>0, <1>4 DEF ClearVerdicts, InFlightIsCurrent, RefusalIsConfident
  <2>3. \A k \in Clients : ~cached(k)'
    BY <1>4 DEF ClearVerdicts, EmptyCache, cached
  <2>4. VerdictsAreCurrent'
    BY <2>3 DEF VerdictsAreCurrent, RefusedByBuiltGraphOnly
  <2>5. QED BY <2>1, <2>2, <2>4 DEF WotInv
<1>5. QED BY <1>1, <1>2, <1>3, <1>4 DEF ConsoleStep

\* A rebuild: a lookup that has measured in the old graph is raced, and from the first
\* change of the graph to the clearing nothing is claimed of verdicts.
LEMMA RebuildKeeps == ASSUME WotInv, RebuildStep PROVE WotInv'
<1>0. /\ Shape /\ InFlightIsCurrent /\ RefusalIsConfident /\ VerdictsAreCurrent
      /\ UNCHANGED <<local, refs, roots, cache, worker, console>>
  BY DEF WotInv, RebuildStep
<1>1. CASE RebuildStart(refs) /\ refs = {} /\ raced' = raced \cup Measured
  <2>1. walk'.at = "clear" /\ "at" \in DOMAIN walk' /\ built' = TRUE
    BY <1>1 DEF RebuildStart, RebuildWithout, NoWalk
  <2>2. Clearing'
    BY <2>1 DEF Clearing
  <2>3. \A w \in Workers : worker[w].at \in {"keep", "store"} => worker[w].key \in raced'
    BY <1>1 DEF Measured, KeysAt
  <2>4. Shape'
    BY <1>0, <2>1 DEF Shape
  <2>5. InFlightIsCurrent' /\ RefusalIsConfident'
    BY <1>0, <1>1, <2>1, <2>3 DEF InFlightIsCurrent, RefusalIsConfident
  <2>6. VerdictsAreCurrent'
    BY <2>2 DEF VerdictsAreCurrent, RefusedByBuiltGraphOnly
  <2>7. QED BY <2>4, <2>5, <2>6 DEF WotInv
<1>2. CASE RebuildStart(refs) /\ refs # {} /\ raced' = raced
  <2>1. walk.at = "idle" /\ "at" \in DOMAIN walk' /\ UNCHANGED <<edges, built>>
    BY <1>2 DEF RebuildStart, graph
  <2>2. QED BY <1>0, <1>2, <2>1, VerdictsFramed
    DEF WotInv, Shape, InFlightIsCurrent, RefusalIsConfident, Clearing
<1>3. CASE RebuildHop /\ raced' = raced
  <2>1. walk.at = "hop" /\ "at" \in DOMAIN walk' /\ UNCHANGED <<edges, built>>
    BY <1>0, <1>3 DEF RebuildHop, graph, Shape
  <2>2. QED BY <1>0, <1>3, <2>1, VerdictsFramed
    DEF WotInv, Shape, InFlightIsCurrent, RefusalIsConfident, Clearing
<1>4. CASE Replace /\ raced' = raced \cup Measured
  <2>1. walk'.at = "publish" /\ "at" \in DOMAIN walk' /\ built' = built
    BY <1>0, <1>4 DEF Replace, Shape
  <2>2. Clearing'
    BY <2>1 DEF Clearing
  <2>3. \A w \in Workers : worker[w].at \in {"keep", "store"} => worker[w].key \in raced'
    BY <1>4 DEF Measured, KeysAt
  <2>4. Shape'
    BY <1>0, <2>1 DEF Shape
  <2>5. InFlightIsCurrent' /\ RefusalIsConfident'
    BY <1>0, <1>4, <2>1, <2>3 DEF InFlightIsCurrent, RefusalIsConfident
  <2>6. VerdictsAreCurrent'
    BY <2>2 DEF VerdictsAreCurrent, RefusedByBuiltGraphOnly
  <2>7. QED BY <2>4, <2>5, <2>6 DEF WotInv
<1>5. CASE Publish /\ raced' = raced
  <2>1. walk'.at = "clear" /\ "at" \in DOMAIN walk' /\ edges' = edges /\ built'
    BY <1>0, <1>5 DEF Publish, Shape
  <2>2. Clearing'
    BY <2>1 DEF Clearing
  <2>3. Shape'
    BY <1>0, <2>1 DEF Shape
  <2>4. InFlightIsCurrent' /\ RefusalIsConfident'
    BY <1>0, <1>5, <2>1 DEF InFlightIsCurrent, RefusalIsConfident
  <2>5. VerdictsAreCurrent'
    BY <2>2 DEF VerdictsAreCurrent, RefusedByBuiltGraphOnly
  <2>6. QED BY <2>3, <2>4, <2>5 DEF WotInv
<1>6. QED BY <1>1, <1>2, <1>3, <1>4, <1>5 DEF RebuildStep, Rebuild

LEMMA ClearingKeeps == ASSUME WotInv, ClearAfterRebuild PROVE WotInv'
<1>1. Shape'
  BY DEF WotInv, Shape, ClearAfterRebuild, EmptyCache, NoWalk, graph
<1>2. InFlightIsCurrent' /\ RefusalIsConfident'
  BY DEF WotInv, InFlightIsCurrent, RefusalIsConfident, ClearAfterRebuild, graph
<1>3. \A k \in Clients : ~cached(k)'
  BY DEF ClearAfterRebuild, EmptyCache, cached
<1>4. VerdictsAreCurrent'
  BY <1>3 DEF VerdictsAreCurrent, RefusedByBuiltGraphOnly
<1>5. QED BY <1>1, <1>2, <1>4 DEF WotInv

\* With time verdicts only go, and a key stays raced while it has one or is looked up.
LEMMA VerdictsAge == ASSUME VerdictsAreCurrent, Tick PROVE VerdictsAreCurrent'
<1>1. UNCHANGED <<local, roots, console, edges, built, walk>>
  BY DEF Tick, graphVars, graph
<1>2. ASSUME NEW k \in Clients \ raced', cached(k)'
      PROVE  k \notin raced /\ cached(k) /\ cache'[k].hops = cache[k].hops
  <2>1. cache'[k] # None
    BY <1>2 DEF cached
  <2>2. k \notin raced
    BY <1>2, <2>1 DEF Tick
  <2>3. cached(k) /\ cache'[k] = [cache[k] EXCEPT !.left = @ - 1]
    BY <2>1 DEF Tick
  <2>4. [cache[k] EXCEPT !.left = @ - 1].hops = cache[k].hops
    OBVIOUS
  <2>5. QED BY <2>2, <2>3, <2>4
<1>3. Clearing' = Clearing /\ Graph' = Graph
  BY <1>1 DEF Clearing, Graph
<1>4. QED BY <1>1, <1>2, <1>3 DEF VerdictsAreCurrent, RefusedByBuiltGraphOnly

LEMMA TickKeeps == ASSUME WotInv, Tick PROVE WotInv'
<1>1. /\ UNCHANGED <<local, refs, roots, worker, console, edges, built, walk>>
      /\ Shape /\ InFlightIsCurrent /\ RefusalIsConfident /\ VerdictsAreCurrent
  BY DEF WotInv, Tick, graphVars, graph
<1>2. Shape'
  BY <1>1 DEF Shape, Tick
<1>3. InFlightIsCurrent' /\ RefusalIsConfident'
  <2>1. \A w \in Workers : worker[w].at \in {"measure", "keep", "store"} =>
            (worker[w].key \in raced => worker[w].key \in raced')
    BY DEF Tick, Resolving, KeysAt
  <2>2. QED BY <1>1, <2>1 DEF InFlightIsCurrent, RefusalIsConfident
<1>4. VerdictsAreCurrent'
  BY <1>1, VerdictsAge
<1>5. QED BY <1>2, <1>3, <1>4 DEF WotInv

\* A step of a relay that measures in its own graph.
LEMMA LocalKeeps == ASSUME WotInv, [Next]_vars PROVE WotInv'
<1>1. ASSUME NEW w \in Workers, ResolveStep(w) \/ \E k \in Clients : Resolve(w, k)
      PROVE  WotInv'
  <2>1. worker[w].at \in LocalSteps
    BY DEF WotInv, Shape
  <2>2. ~(CheckBreaker(w) \/ Query(w) \/ RecordFailure(w) \/ OpenBreaker(w)
          \/ RecordSuccess(w) \/ CloseBreaker(w))
    BY <2>1 DEF LocalSteps, CheckBreaker, Query, RecordFailure, OpenBreaker, RecordSuccess,
                CloseBreaker
  <2>3. QED BY <1>1, <2>2, ResolveKeeps, StoreKeeps DEF ResolveStep
<1>2. ASSUME NEW c \in Consoles,
             ConsoleStep(c) \/ \E rs \in RefSets : EditReferences(c, rs)
      PROVE  WotInv'
  BY <1>2, ConsoleKeeps
<1>3. CASE RebuildStep \/ ClearAfterRebuild \/ Tick
  BY <1>3, RebuildKeeps, ClearingKeeps, TickKeeps
<1>4. CASE (\E k \in Posters : ContactList(k)) \/ UNCHANGED vars
  <2>1. /\ UNCHANGED <<local, refs, roots, cache, worker, console, raced, edges, built, walk>>
        /\ Clearing' = Clearing
    BY <1>4 DEF ContactList, StoreContactList, vars, wotVars, graphVars, graph, Clearing
  <2>2. Shape' /\ InFlightIsCurrent' /\ RefusalIsConfident'
    BY <2>1 DEF WotInv, Shape, InFlightIsCurrent, RefusalIsConfident
  <2>3. VerdictsAreCurrent'
    BY <2>1, VerdictsFramed DEF WotInv
  <2>4. QED BY <2>2, <2>3 DEF WotInv
<1>5. ~OracleChanges
  BY DEF WotInv, Shape, OracleChanges
<1>6. QED BY <1>1, <1>2, <1>3, <1>4, <1>5 DEF Next

-----------------------------------------------------------------------------
(* At an oracle: a distance is put together from one answer for each root. *)

Away(r, k) == distance(Published, {r}, k)

LEMMA PublishedIsGraph == IsGraph(Published)
BY PublishedAssumption DEF IsGraph

\* A chain from a set of roots is one from a root of the set.
LEMMA ChainFromOne ==
    ASSUME NEW rs, NEW k, NEW n
    PROVE  ChainOf(Published, rs, k, n) <=> \E r \in rs : ChainOf(Published, {r}, k, n)
BY DEF ChainOf

\* The length of a shortest chain is that of a chain, and none is shorter.
LEMMA ShortestIsLeast ==
    ASSUME NEW rs \in SUBSET Keys, NEW k \in Keys
    PROVE  LET d == distance(Published, rs, k) IN
           /\ d # None => d \in 0..MaxHops /\ ChainOf(Published, rs, k, d)
           /\ \A n \in 0..MaxHops : ChainOf(Published, rs, k, n) => d # None /\ d <= n
<1> DEFINE lengths == {n \in 0..MaxHops : ChainOf(Published, rs, k, n)}
           d == distance(Published, rs, k)
<1>1. d = IF lengths = {} THEN None ELSE CHOOSE n \in lengths : \A m \in lengths : n <= m
  BY SearchIsShortest, PublishedIsGraph DEF ShortestChain
<1>2. ASSUME lengths # {}
      PROVE  \E n \in lengths : \A m \in lengths : n <= m
  <2>1. lengths \in SUBSET Nat
    BY HopsAssumption
  <2> HIDE DEF lengths
  <2>2. PICK n \in lengths : \A m \in lengths : ~(m < n)
    BY <1>2, <2>1, LeastOf
  <2>3. \A m \in lengths : n <= m
    BY <2>1, <2>2
  <2>4. QED BY <2>3
<1>3. lengths # {} => d \in lengths /\ \A m \in lengths : d <= m
  BY <1>1, <1>2
<1>4. lengths = {} => d = None
  BY <1>1
<1>5. d \in lengths => d # None
  BY NoHopsAssumption, HopsAssumption
<1>6. \A n : n \in lengths <=> n \in 0..MaxHops /\ ChainOf(Published, rs, k, n)
  OBVIOUS
<1> HIDE DEF lengths, d
<1>7. /\ d # None => d \in 0..MaxHops /\ ChainOf(Published, rs, k, d)
      /\ \A n \in 0..MaxHops : ChainOf(Published, rs, k, n) => d # None /\ d <= n
  BY <1>3, <1>4, <1>5, <1>6
<1>8. QED BY <1>7 DEF d

\* From more roots nothing is farther ...
LEMMA MoreRootsAreNearer ==
    ASSUME NEW rs \in SUBSET Keys, NEW r \in rs, NEW k \in Keys, Away(r, k) # None
    PROVE  distance(Published, rs, k) # None /\ distance(Published, rs, k) <= Away(r, k)
<1>1. Away(r, k) \in 0..MaxHops /\ ChainOf(Published, {r}, k, Away(r, k))
  BY ShortestIsLeast DEF Away
<1>2. ChainOf(Published, rs, k, Away(r, k))
  BY <1>1, ChainFromOne
<1>3. QED BY <1>1, <1>2, ShortestIsLeast

\* ... and one of the roots is as near as all of them.
LEMMA SomeRootIsNearest ==
    ASSUME NEW rs \in SUBSET Keys, NEW k \in Keys, distance(Published, rs, k) # None
    PROVE  \E r \in rs : Away(r, k) # None /\ Away(r, k) <= distance(Published, rs, k)
<1> DEFINE d == distance(Published, rs, k)
<1>1. d \in 0..MaxHops /\ ChainOf(Published, rs, k, d)
  BY ShortestIsLeast
<1>2. PICK r \in rs : ChainOf(Published, {r}, k, d)
  BY <1>1, ChainFromOne
<1>3. Away(r, k) # None /\ Away(r, k) <= d
  BY <1>1, <1>2, ShortestIsLeast DEF Away
<1>4. QED BY <1>3

\* A root needs no query.
LEMMA RootIsAtHome == ASSUME NEW r \in Keys PROVE Away(r, r) = 0
<1>1. 0 \in 0..MaxHops
  BY HopsAssumption
<1>2. ChainOf(Published, {r}, r, 0)
  <2>1. [i \in 0..0 |-> r] \in [0..0 -> Keys]
    OBVIOUS
  <2>2. \A i \in 1..0 : FALSE
    OBVIOUS
  <2>3. [i \in 0..0 |-> r][0] = r
    OBVIOUS
  <2>4. QED BY <2>1, <2>2, <2>3 DEF ChainOf
<1>3. Away(r, r) # None /\ Away(r, r) <= 0
  BY <1>1, <1>2, ShortestIsLeast DEF Away
<1>4. Away(r, r) \in 0..MaxHops
  BY <1>3, ShortestIsLeast DEF Away
<1>5. QED BY <1>3, <1>4, HopsAssumption

\* The best of the answers for these roots.
Nearest(best, rs, k) ==
    /\ best # None => \E r \in rs : Away(r, k) = best
    /\ \A r \in rs : Away(r, k) # None => best # None /\ best <= Away(r, k)

LEMMA NothingAskedYet == ASSUME NEW k PROVE Nearest(None, {}, k)
BY DEF Nearest

LEMMA AwayIsVerdict == ASSUME NEW r, NEW k PROVE Away(r, k) \in Verdict
BY DistanceIsVerdict DEF Away

\* One more answer.
LEMMA NearestStep ==
    ASSUME NEW best \in Verdict, NEW rs, NEW r, NEW k, Nearest(best, rs, k)
    PROVE  /\ Nearer(best, Away(r, k)) \in Verdict
           /\ Nearest(Nearer(best, Away(r, k)), rs \cup {r}, k)
<1> DEFINE new == Nearer(best, Away(r, k))
<1>1. /\ Away(r, k) \in Verdict
      /\ \A q \in rs : Away(q, k) \in Verdict
  BY AwayIsVerdict
<1>2. \A v \in Verdict : v # None => v \in Nat
  BY HopsAssumption DEF Verdict
<1>3. /\ new = best \/ new = Away(r, k)
      /\ best # None => new # None /\ new <= best
      /\ Away(r, k) # None => new # None /\ new <= Away(r, k)
  BY <1>1, <1>2 DEF Nearer
<1>4. new \in Verdict
  BY <1>1, <1>3
<1>5. new # None => \E q \in rs \cup {r} : Away(q, k) = new
  BY <1>3 DEF Nearest
<1>6. ASSUME NEW q \in rs \cup {r}, Away(q, k) # None PROVE new # None /\ new <= Away(q, k)
  <2>1. CASE q = r
    BY <1>3, <1>6, <2>1
  <2>2. CASE q \in rs
    <3>1. best # None /\ best <= Away(q, k)
      BY <1>6, <2>2 DEF Nearest
    <3>2. new \in Nat /\ best \in Nat /\ Away(q, k) \in Nat
      BY <1>1, <1>2, <1>3, <1>4, <1>6, <2>2, <3>1
    <3>3. new <= best
      BY <1>3, <3>1
    <3>4. QED BY <3>1, <3>2, <3>3, <1>3
  <2>3. QED BY <1>6, <2>1, <2>2
<1> HIDE DEF new
<1>7. QED BY <1>4, <1>5, <1>6 DEF Nearest, new

\* When all are asked, the best answer is the distance from all of them ...
LEMMA NearestIsDistance ==
    ASSUME NEW best \in Verdict, NEW rs \in SUBSET Keys, NEW k \in Keys, Nearest(best, rs, k)
    PROVE  best = distance(Published, rs, k)
<1> DEFINE d == distance(Published, rs, k)
<1>1. d \in Verdict /\ \A v \in Verdict : v # None => v \in Nat
  BY DistanceIsVerdict, HopsAssumption DEF Verdict
<1>2. best # None => d # None /\ d <= best
  BY MoreRootsAreNearer DEF Nearest
<1>3. ASSUME d # None PROVE best # None /\ best <= d
  <2>1. PICK r \in rs : Away(r, k) # None /\ Away(r, k) <= d
    BY <1>3, SomeRootIsNearest
  <2>2. best # None /\ best <= Away(r, k)
    BY <2>1 DEF Nearest
  <2>3. best \in Nat /\ d \in Nat /\ Away(r, k) \in Nat
    BY <1>1, <1>3, <2>1, <2>2, AwayIsVerdict
  <2> HIDE DEF d
  <2>4. QED BY <2>1, <2>2, <2>3
<1> HIDE DEF d
<1>4. best = d
  <2>1. best # None /\ d # None => best \in Nat /\ d \in Nat /\ d <= best /\ best <= d
    BY <1>1, <1>2, <1>3
  <2>2. QED BY <1>2, <1>3, <2>1
<1>5. QED BY <1>4 DEF d

\* ... and the search may stop at a root or its direct follow, whose tier is the same.
LEMMA NearEnough ==
    ASSUME NEW rs \in SUBSET Keys, NEW r \in rs, NEW k \in Keys, Away(r, k) \in {0, 1}
    PROVE  TierOf(Away(r, k)) = TierOf(distance(Published, rs, k))
<1> DEFINE d == distance(Published, rs, k)
<1>1. Away(r, k) # None
  BY NoHopsAssumption
<1>2. d # None /\ d <= Away(r, k)
  BY <1>1, MoreRootsAreNearer
<1>3. d \in Nat
  BY <1>2, DistanceIsVerdict, HopsAssumption DEF Verdict
<1> HIDE DEF d
<1>4. d \in {0, 1}
  BY <1>2, <1>3
<1>5. TierOf(Away(r, k)) = TierOf(d)
  BY <1>1, <1>2, <1>4 DEF TierOf, TierForHops
<1>6. QED BY <1>5 DEF d

OracleSteps == {"idle", "roots", "breaker", "query", "failure", "open", "success", "close",
                "store"}
OracleTasks == [at : OracleSteps, key : Clients \cup {None}, roots : SUBSET Keys,
                todo : SUBSET Keys, best : Verdict]

\* At an oracle no graph is built, and no step of one is taken.
OracleShape ==
    /\ ~local
    /\ walk.at = "idle"
    /\ worker \in [Workers -> OracleTasks]
    /\ \A w \in Workers : worker[w].at # "idle" => worker[w].key \in Clients
    /\ \A w \in Workers : worker[w].at = "roots" => worker[w].best = None
    /\ DOMAIN cache = Clients
    /\ console \in [Consoles -> Requests]
    /\ roots \subseteq Keys
    /\ refs \subseteq Keys

\* A task that asks has the best answer of those present roots it asked about; a task that
\* has its answers, the tier of the distance from all of them.
Asking(task) ==
    task.roots = roots /\ task.todo \subseteq roots /\ Nearest(task.best, roots \ task.todo, task.key)
Answered(task) == TierOf(task.best) = TierOf(distance(Published, roots, task.key))
TaskIsCurrent(task) ==
    /\ task.at \in {"breaker", "query"} /\ task.key \notin raced => Asking(task)
    /\ task.at \in {"success", "close", "store"} /\ task.key \notin raced => Answered(task)
AnswersAreCurrent == \A w \in Workers : TaskIsCurrent(worker[w])

OracleInv == OracleShape /\ AnswersAreCurrent /\ VerdictsAreCurrent

LEMMA OracleInit == ASSUME ~local, Init PROVE OracleInv
<1>1. OracleShape
  BY DEF Init, GraphInit, NoWalk, OracleShape, OracleTasks, OracleSteps, Rest, Verdict, EmptyCache,
         Requests
<1>2. AnswersAreCurrent
  BY DEF Init, Rest, AnswersAreCurrent, TaskIsCurrent
<1>3. \A k \in Clients : ~cached(k)
  BY DEF Init, EmptyCache, cached
<1>4. VerdictsAreCurrent
  BY <1>3 DEF VerdictsAreCurrent, RefusedByBuiltGraphOnly
<1>5. QED BY <1>1, <1>2, <1>4 DEF OracleInv

\* A step of one connection that keeps what others see but the breaker.
LEMMA OraclePrivate ==
    ASSUME OracleInv, NEW w \in Workers, NEW task \in OracleTasks,
           worker' = [worker EXCEPT ![w] = task],
           UNCHANGED <<local, refs, roots, cache, console, raced, edges, built, walk>>,
           task.at # "idle" => task.key \in Clients,
           task.at = "roots" => task.best = None,
           TaskIsCurrent(task)
    PROVE  OracleInv'
<1>1. OracleShape'
  BY DEF OracleInv, OracleShape
<1>2. ASSUME NEW v \in Workers PROVE TaskIsCurrent(worker[v])'
  <2>1. worker'[v] = IF v = w THEN task ELSE worker[v]
    BY <1>2 DEF OracleInv, OracleShape
  <2>2. TaskIsCurrent(worker'[v])
    BY <2>1 DEF OracleInv, AnswersAreCurrent
  <2>3. QED BY <2>2 DEF TaskIsCurrent, Asking, Answered
<1>3. AnswersAreCurrent'
  BY <1>2 DEF AnswersAreCurrent
<1>4. VerdictsAreCurrent'
  BY VerdictsFramed DEF OracleInv, Clearing
<1>5. QED BY <1>1, <1>3, <1>4 DEF OracleInv

LEMMA RestIsCurrent ==
    Rest \in OracleTasks /\ Rest.at = "idle" /\ TaskIsCurrent(Rest)
<1>1. Rest \in OracleTasks /\ Rest.at = "idle"
  BY DEF Rest, OracleTasks, OracleSteps, Verdict
<1>2. QED BY <1>1 DEF TaskIsCurrent

\* A task whose place alone changes.
LEMMA Moves ==
    ASSUME OracleInv, NEW w \in Workers, NEW at \in OracleSteps \ {"idle", "roots"},
           worker[w].at # "idle", Goto(w, at),
           UNCHANGED <<local, refs, roots, cache, console, raced, edges, built, walk>>,
           at \in {"breaker", "query"} /\ worker[w].key \notin raced => Asking(worker[w]),
           at \in {"success", "close", "store"} /\ worker[w].key \notin raced => Answered(worker[w])
    PROVE  OracleInv'
<1>1. worker[w] \in OracleTasks /\ worker[w].key \in Clients /\ DOMAIN worker = Workers
  BY DEF OracleInv, OracleShape
<1>2. PICK task : task = [worker[w] EXCEPT !.at = at]
  OBVIOUS
<1>3. worker' = [worker EXCEPT ![w] = task]
  BY <1>1, <1>2 DEF Goto
<1>4. /\ task \in OracleTasks /\ task.at = at /\ task.key = worker[w].key
      /\ task.roots = worker[w].roots /\ task.todo = worker[w].todo /\ task.best = worker[w].best
  BY <1>1, <1>2 DEF OracleTasks
<1>5. TaskIsCurrent(task)
  BY <1>4 DEF TaskIsCurrent, Asking, Answered
<1>6. QED BY <1>1, <1>3, <1>4, <1>5, OraclePrivate

\* The steps of resolve() but the queries and the last.
LEMMA OracleResolves ==
    ASSUME OracleInv, NEW w \in Workers,
           \/ \E k \in Clients : Resolve(w, k)
           \/ ReadRoots(w) \/ CheckBreaker(w) \/ RecordFailure(w) \/ OpenBreaker(w)
           \/ RecordSuccess(w) \/ CloseBreaker(w)
    PROVE  OracleInv'
<1> USE DEF graphVars, graph
<1>0. /\ OracleShape /\ AnswersAreCurrent /\ worker[w] \in OracleTasks /\ ~local
      /\ worker[w].at # "idle" => worker[w].key \in Clients
      /\ DOMAIN worker = Workers /\ TaskIsCurrent(worker[w])
  BY DEF OracleInv, OracleShape, AnswersAreCurrent
<1>1. ASSUME NEW k \in Clients, Resolve(w, k) PROVE OracleInv'
  <2>1. PICK task : task = [Rest EXCEPT !.at = "roots", !.key = k]
    OBVIOUS
  <2>2. /\ task \in OracleTasks /\ task.at = "roots" /\ task.key = k /\ task.best = None
    BY <2>1 DEF Rest, OracleTasks, OracleSteps, Verdict
  <2>3. worker' = [worker EXCEPT ![w] = task]
    BY <1>1, <2>1 DEF Resolve
  <2>4. TaskIsCurrent(task)
    BY <2>2 DEF TaskIsCurrent
  <2>5. QED BY <1>1, <2>2, <2>3, <2>4, OraclePrivate DEF Resolve
<1>2. CASE ReadRoots(w)
  <2>1. PICK task : task = [worker[w] EXCEPT !.roots = roots, !.todo = roots,
                                 !.at = IF roots = {} THEN "store" ELSE "breaker"]
    OBVIOUS
  <2>2. worker' = [worker EXCEPT ![w] = task]
    BY <1>0, <1>2, <2>1 DEF ReadRoots
  <2>3. /\ task.at = IF roots = {} THEN "store" ELSE "breaker"
        /\ task.roots = roots /\ task.todo = roots /\ task.key = worker[w].key
        /\ task.best = None /\ task.key \in Clients /\ task \in OracleTasks
    BY <1>0, <1>2, <2>1 DEF ReadRoots, OracleShape, OracleTasks, OracleSteps
  <2>4. CASE roots = {}
    <3>1. Answered(task)
      BY <2>3, <2>4, NoRootsReachNobody DEF Answered
    <3>2. TaskIsCurrent(task)
      BY <2>3, <2>4, <3>1 DEF TaskIsCurrent
    <3>3. QED BY <1>2, <2>2, <2>3, <2>4, <3>2, OraclePrivate DEF ReadRoots
  <2>5. CASE roots # {}
    <3>1. roots \ task.todo = {}
      BY <2>3
    <3>2. Asking(task)
      BY <2>3, <3>1, NothingAskedYet DEF Asking
    <3>3. TaskIsCurrent(task)
      BY <2>3, <2>5, <3>2 DEF TaskIsCurrent
    <3>4. QED BY <1>2, <2>2, <2>3, <2>5, <3>3, OraclePrivate DEF ReadRoots
  <2>6. QED BY <2>4, <2>5
<1>3. ASSUME Return(w), UNCHANGED <<local, refs, roots, cache, console, raced, edges, built, walk>>
      PROVE  OracleInv'
  BY <1>3, RestIsCurrent, OraclePrivate DEF Return
<1>4. CASE CheckBreaker(w)
  <2>1. worker[w].key \notin raced => Asking(worker[w])
    BY <1>0, <1>4 DEF CheckBreaker, TaskIsCurrent
  <2>2. "query" \in OracleSteps \ {"idle", "roots"}
    BY DEF OracleSteps
  <2>3. CASE Goto(w, "query")
    BY <1>4, <2>1, <2>2, <2>3, Moves DEF CheckBreaker
  <2>4. QED BY <1>3, <1>4, <2>3 DEF CheckBreaker
<1>5. CASE RecordFailure(w)
  <2>1. "open" \in OracleSteps \ {"idle", "roots"}
    BY DEF OracleSteps
  <2>2. CASE Goto(w, "open")
    BY <1>5, <2>1, <2>2, Moves DEF RecordFailure
  <2>3. QED BY <1>3, <1>5, <2>2 DEF RecordFailure
<1>6. CASE OpenBreaker(w)
  BY <1>3, <1>6 DEF OpenBreaker
<1>7. CASE RecordSuccess(w)
  <2>1. "close" \in OracleSteps \ {"idle", "roots"}
    BY DEF OracleSteps
  <2>2. worker[w].key \notin raced => Answered(worker[w])
    BY <1>0, <1>7 DEF RecordSuccess, TaskIsCurrent
  <2>3. QED BY <1>7, <2>1, <2>2, Moves DEF RecordSuccess
<1>8. CASE CloseBreaker(w)
  <2>1. "store" \in OracleSteps \ {"idle", "roots"}
    BY DEF OracleSteps
  <2>2. worker[w].key \notin raced => Answered(worker[w])
    BY <1>0, <1>8 DEF CloseBreaker, TaskIsCurrent
  <2>3. QED BY <1>8, <2>1, <2>2, Moves DEF CloseBreaker
<1>9. QED BY <1>1, <1>2, <1>4, <1>5, <1>6, <1>7, <1>8

\* A query: the answer joins those before it, a root or its direct follow ends the search,
\* and so does the last answer.
LEMMA OracleQueries == ASSUME OracleInv, NEW w \in Workers, Query(w) PROVE OracleInv'
<1> USE DEF graphVars, graph
<1>0. /\ OracleShape /\ worker[w] \in OracleTasks /\ worker[w].key \in Clients
      /\ DOMAIN worker = Workers /\ TaskIsCurrent(worker[w]) /\ worker[w].at = "query"
      /\ roots \subseteq Keys /\ worker[w].key \in Keys
      /\ UNCHANGED <<local, refs, roots, cache, console, raced, edges, built, walk>>
  BY ClientsAssumption DEF OracleInv, OracleShape, AnswersAreCurrent, Query
<1> DEFINE key == worker[w].key
           Best(r) == IF r = key THEN 0 ELSE Nearer(worker[w].best, Away(r, key))
<1>1. PICK r \in worker[w].todo :
        IF r = key \/ up
        THEN worker' = [worker EXCEPT ![w].best = Best(r), ![w].todo = worker[w].todo \ {r},
                            ![w].at = IF Best(r) \in {0, 1} \/ worker[w].todo \ {r} = {}
                                      THEN "success" ELSE "query"]
        ELSE Goto(w, "failure")
  BY DEF Query, Away
<1>2. CASE ~(r = key \/ up)
  <2>1. "failure" \in OracleSteps \ {"idle", "roots"}
    BY DEF OracleSteps
  <2>2. QED BY <1>0, <1>1, <1>2, <2>1, Moves
<1>3. CASE r = key \/ up
  <2> DEFINE best == Best(r)
             rest == worker[w].todo \ {r}
  <2>1. PICK task : task = [worker[w] EXCEPT !.best = best, !.todo = rest,
                                 !.at = IF best \in {0, 1} \/ rest = {} THEN "success" ELSE "query"]
    OBVIOUS
  <2>2. worker' = [worker EXCEPT ![w] = task]
    BY <1>0, <1>1, <1>3, <2>1
  <2>3. best \in Verdict
    <3>1. worker[w].best \in Verdict
      BY <1>0 DEF OracleTasks
    <3>2. CASE r = key
      BY <3>2, HopsAssumption DEF Verdict
    <3>3. CASE r # key
      BY <3>1, <3>3, AwayIsVerdict DEF Nearer
    <3>4. QED BY <3>2, <3>3
  <2> HIDE DEF best
  <2>4. /\ task.at = IF best \in {0, 1} \/ rest = {} THEN "success" ELSE "query"
        /\ task.best = best /\ task.todo = rest /\ task.roots = worker[w].roots
        /\ task.key = key /\ task \in OracleTasks
    BY <1>0, <2>1, <2>3 DEF OracleTasks, OracleSteps
  <2>5. ASSUME key \notin raced
        PROVE  /\ worker[w].roots = roots /\ rest \subseteq roots /\ r \in roots
               /\ Nearest(best, roots \ rest, key)
    <3>1. Asking(worker[w])
      BY <1>0, <2>5 DEF TaskIsCurrent
    <3>2. worker[w].roots = roots /\ rest \subseteq roots /\ r \in roots
      BY <1>1, <3>1 DEF Asking
    <3>3. roots \ rest = (roots \ worker[w].todo) \cup {r}
      BY <1>1, <3>1 DEF Asking
    <3>4. Nearest(Nearer(worker[w].best, Away(r, key)), roots \ rest, key)
      BY <1>0, <3>1, <3>3, NearestStep DEF Asking, OracleTasks
    <3>5. CASE r = key
      <4>1. Away(r, key) = 0
        BY <1>0, <3>5, RootIsAtHome
      <4>2. worker[w].best # None => worker[w].best \in Nat
        BY <1>0, HopsAssumption DEF OracleTasks, Verdict
      <4>3. Nearer(worker[w].best, Away(r, key)) = 0
        BY <4>1, <4>2, NoHopsAssumption DEF Nearer
      <4>4. best = 0
        BY <3>5 DEF best
      <4>5. QED BY <3>2, <3>4, <4>3, <4>4
    <3>6. CASE r # key
      BY <3>2, <3>4, <3>6 DEF best
    <3>7. QED BY <3>5, <3>6
  <2>6. ASSUME key \notin raced, task.at = "query" PROVE Asking(task)
    BY <2>4, <2>5, <2>6 DEF Asking
  <2>7. ASSUME key \notin raced, task.at = "success" PROVE Answered(task)
    <3>1. CASE best \in {0, 1}
      <4>1. best # None
        BY <3>1, NoHopsAssumption
      <4>2. PICK q \in roots : Away(q, key) = best
        BY <2>5, <2>7, <4>1 DEF Nearest
      <4>3. QED BY <1>0, <2>4, <3>1, <4>2, NearEnough DEF Answered
    <3>2. CASE rest = {}
      <4>1. roots \ rest = roots
        BY <3>2
      <4>2. best = distance(Published, roots, key)
        BY <1>0, <2>3, <2>5, <2>7, <4>1, NearestIsDistance
      <4>3. QED BY <2>4, <4>2 DEF Answered
    <3>3. QED BY <2>4, <2>7, <3>1, <3>2
  <2>8. TaskIsCurrent(task)
    BY <2>4, <2>6, <2>7 DEF TaskIsCurrent
  <2>9. task.at \notin {"idle", "roots"}
    BY <2>4
  <2>10. QED BY <1>0, <2>2, <2>4, <2>8, <2>9, OraclePrivate
<1>4. QED BY <1>2, <1>3

\* The last step of resolve().
LEMMA OracleStores == ASSUME OracleInv, NEW w \in Workers, Store(w) PROVE OracleInv'
<1> USE DEF graphVars, graph
<1>0. /\ OracleShape /\ AnswersAreCurrent /\ worker[w].at = "store" /\ worker[w].key \in Clients
      /\ cache' = [cache EXCEPT ![worker[w].key] = Entry(worker[w].best)]
      /\ worker' = [worker EXCEPT ![w] = Rest]
      /\ UNCHANGED <<local, refs, roots, console, raced, edges, built, walk>>
  BY DEF OracleInv, OracleShape, Store, Return
<1>1. OracleShape'
  BY <1>0, RestIsCurrent DEF OracleShape
<1>2. ASSUME NEW v \in Workers PROVE TaskIsCurrent(worker[v])'
  <2>1. worker'[v] = IF v = w THEN Rest ELSE worker[v]
    BY <1>0, <1>2 DEF OracleShape
  <2>2. TaskIsCurrent(worker'[v])
    BY <1>0, <2>1, RestIsCurrent DEF AnswersAreCurrent
  <2>3. QED BY <1>0, <2>2 DEF TaskIsCurrent, Asking, Answered
<1>3. AnswersAreCurrent'
  BY <1>2 DEF AnswersAreCurrent
<1>4. VerdictsAreCurrent'
  <2>1. Clearing' = Clearing /\ Graph = Published /\ Graph' = Published /\ ~local'
    BY <1>0 DEF Clearing, Graph, OracleShape
  <2>2. worker[w].key \notin raced => Answered(worker[w])
    BY <1>0 DEF AnswersAreCurrent, TaskIsCurrent
  <2>3. Entry(worker[w].best).hops = worker[w].best
    BY DEF Entry
  <2>4. ASSUME ~Clearing, NEW k \in Clients \ raced, cached(k)'
        PROVE  TierOf(cache'[k].hops) = TierOf(distance(Published, roots, k))
    <3>1. CASE k = worker[w].key
      BY <1>0, <2>2, <2>3, <2>4, <3>1 DEF OracleShape, Answered
    <3>2. CASE k # worker[w].key
      BY <1>0, <2>1, <2>4, <3>2 DEF OracleInv, VerdictsAreCurrent, OracleShape, cached
    <3>3. QED BY <3>1, <3>2
  <2>5. QED BY <1>0, <2>1, <2>4 DEF VerdictsAreCurrent, RefusedByBuiltGraphOnly
<1>5. QED BY <1>1, <1>3, <1>4 DEF OracleInv

\* Current tasks stay so while the roots stay and the raced grow.
LEMMA AnswersFramed ==
    ASSUME AnswersAreCurrent, UNCHANGED <<worker, roots>>,
           \A w \in Workers : worker[w].at \in {"breaker", "query", "success", "close", "store"} =>
               (worker[w].key \in raced => worker[w].key \in raced')
    PROVE  AnswersAreCurrent'
BY DEF AnswersAreCurrent, TaskIsCurrent, Asking, Answered

\* A change of the roots.
LEMMA OracleConsole ==
    ASSUME OracleInv, NEW c \in Consoles,
           ConsoleStep(c) \/ \E rs \in RefSets : EditReferences(c, rs)
    PROVE  OracleInv'
<1> USE DEF graphVars, graph
<1>0. OracleShape /\ AnswersAreCurrent /\ console[c] \in Requests /\ DOMAIN console = Consoles
  BY DEF OracleInv, OracleShape
<1>1. ASSUME NEW rs \in RefSets, EditReferences(c, rs) PROVE OracleInv'
  <2>1. OracleShape'
    BY <1>0, <1>1, RefsAssumption DEF EditReferences, OracleShape, Requests
  <2>2. AnswersAreCurrent'
    BY <1>0, <1>1, AnswersFramed DEF EditReferences
  <2>3. Clearing => Clearing'
    BY <1>0, <1>1 DEF EditReferences, Clearing
  <2>4. VerdictsAreCurrent'
    BY <1>1, <2>3, VerdictsFramed DEF OracleInv, EditReferences
  <2>5. QED BY <2>1, <2>2, <2>4 DEF OracleInv
<1>2. CASE ListReferences(c)
  <2>1. OracleShape'
    BY <1>0, <1>2 DEF ListReferences, OracleShape, Requests
  <2>2. AnswersAreCurrent'
    BY <1>0, <1>2, AnswersFramed DEF ListReferences
  <2>3. Clearing => Clearing'
    BY <1>0, <1>2 DEF ListReferences, Clearing
  <2>4. VerdictsAreCurrent'
    BY <1>2, <2>3, VerdictsFramed DEF OracleInv, ListReferences
  <2>5. QED BY <2>1, <2>2, <2>4 DEF OracleInv
<1>3. CASE SetRoots(c)
  <2>1. OracleShape'
    BY <1>0, <1>3 DEF SetRoots, OracleShape, Requests
  <2>2. \A w \in Workers : worker[w].at \in {"breaker", "query", "success", "close", "store"} =>
            worker[w].key \in raced'
    BY <1>3 DEF SetRoots, Resolving, KeysAt
  <2>3. AnswersAreCurrent'
    BY <1>3, <2>2 DEF SetRoots, AnswersAreCurrent, TaskIsCurrent
  <2>4. Clearing'
    BY <1>0, <1>3 DEF SetRoots, Clearing, Requests
  <2>5. VerdictsAreCurrent'
    BY <2>4 DEF VerdictsAreCurrent, RefusedByBuiltGraphOnly
  <2>6. QED BY <2>1, <2>3, <2>5 DEF OracleInv
<1>4. CASE ClearVerdicts(c)
  <2>1. OracleShape'
    BY <1>0, <1>4 DEF ClearVerdicts, OracleShape, Requests, EmptyCache
  <2>2. AnswersAreCurrent'
    BY <1>0, <1>4, AnswersFramed DEF ClearVerdicts
  <2>3. \A k \in Clients : ~cached(k)'
    BY <1>4 DEF ClearVerdicts, EmptyCache, cached
  <2>4. VerdictsAreCurrent'
    BY <2>3 DEF VerdictsAreCurrent, RefusedByBuiltGraphOnly
  <2>5. QED BY <2>1, <2>2, <2>4 DEF OracleInv
<1>5. QED BY <1>1, <1>2, <1>3, <1>4 DEF ConsoleStep

\* Time.
LEMMA OracleTicks == ASSUME OracleInv, Tick PROVE OracleInv'
<1>1. /\ UNCHANGED <<local, refs, roots, worker, console, edges, built, walk>>
      /\ OracleShape /\ AnswersAreCurrent /\ VerdictsAreCurrent
  BY DEF OracleInv, Tick, graphVars, graph
<1>2. OracleShape'
  BY <1>1 DEF OracleShape, Tick
<1>3. AnswersAreCurrent'
  <2>1. \A w \in Workers : worker[w].at \in {"breaker", "query", "success", "close", "store"} =>
            (worker[w].key \in raced => worker[w].key \in raced')
    BY DEF Tick, Resolving, KeysAt
  <2>2. QED BY <1>1, <2>1, AnswersFramed
<1>4. VerdictsAreCurrent'
  BY <1>1, VerdictsAge
<1>5. QED BY <1>2, <1>3, <1>4 DEF OracleInv

\* A step of a relay that asks an oracle.
LEMMA OracleKeeps == ASSUME OracleInv, [Next]_vars PROVE OracleInv'
<1>1. ASSUME NEW w \in Workers, ResolveStep(w) \/ \E k \in Clients : Resolve(w, k)
      PROVE  OracleInv'
  <2>1. worker[w].at \in OracleSteps
    BY DEF OracleInv, OracleShape, OracleTasks
  <2>2. ~(Measure(w) \/ Keep(w))
    BY <2>1 DEF OracleSteps, Measure, Keep
  <2>3. QED BY <1>1, <2>2, OracleResolves, OracleQueries, OracleStores DEF ResolveStep
<1>2. ASSUME NEW c \in Consoles,
             ConsoleStep(c) \/ \E rs \in RefSets : EditReferences(c, rs)
      PROVE  OracleInv'
  BY <1>2, OracleConsole
<1>3. ~(RebuildStep \/ ClearAfterRebuild \/ \E k \in Posters : ContactList(k))
  BY DEF OracleInv, OracleShape, RebuildStep, Rebuild, RebuildHop, Publish, Replace,
         ClearAfterRebuild, ContactList
<1>4. CASE OracleChanges \/ UNCHANGED vars
  <2>1. /\ UNCHANGED <<local, refs, roots, cache, worker, console, raced, edges, built, walk>>
        /\ Clearing' = Clearing
    BY <1>4 DEF OracleChanges, vars, wotVars, graphVars, graph, Clearing
  <2>2. OracleShape'
    BY <2>1 DEF OracleInv, OracleShape
  <2>3. AnswersAreCurrent'
    BY <2>1, AnswersFramed DEF OracleInv
  <2>4. VerdictsAreCurrent'
    BY <2>1, VerdictsFramed DEF OracleInv
  <2>5. QED BY <2>2, <2>3, <2>4 DEF OracleInv
<1>5. QED BY <1>1, <1>2, <1>3, <1>4, OracleTicks DEF Next

-----------------------------------------------------------------------------
\* wot.rs: whatever lookups, rebuilds and moves of the reference accounts overlap, in either
\* mode, a cached verdict puts its key on the tier that the present roots and the present
\* graph give it, but for a key whose lookup overlapped such a change; and a refusal is never
\* that of a graph still to be built.
THEOREM CachedVerdictsAreCurrent == Spec => []VerdictsAreCurrent
<1>1. Init => WotInv \/ OracleInv
  BY InitHolds, OracleInit
<1>2. (WotInv \/ OracleInv) /\ [Next]_vars => (WotInv \/ OracleInv)'
  BY LocalKeeps, OracleKeeps
<1>3. WotInv \/ OracleInv => VerdictsAreCurrent
  BY DEF WotInv, OracleInv
<1>4. QED BY <1>1, <1>2, <1>3, PTL DEF Spec

-----------------------------------------------------------------------------
(* The rebuild. *)

\* The layers a rebuild should find, and that g holds the lists of those before hop n.
Real == Layers(Published, walk.roots)
Holds(g, n) ==
    \A hop \in 0..MaxHops : hop < n => \A k \in Real[hop].frontier : g[k] = Published[k]

\* The list of a key is the newest one, or not at hand.
Genuine(g) == \A k \in Keys : g[k] \in {None, Published[k]}

RootTypes ==
    /\ refs \in SUBSET Keys /\ roots \in SUBSET Keys
    /\ console \in [Consoles -> Requests]

WalkTypes ==
    /\ IsGraph(edges)
    /\ coverage \in Coverages
    /\ lost \in BOOLEAN
    /\ walk \in [at : {"idle", "hop", "replace", "publish", "clear"}, roots : SUBSET Keys,
                 hop : 0..MaxHops, frontier : SUBSET Keys, known : SUBSET Keys,
                 edges : [Keys -> (SUBSET Keys) \cup {None}], budget : Nat,
                 coverage : Coverages]
    /\ Genuine(walk.edges)

\* A walk that lost no list so far stands where the search in the newest lists would, and
\* has the lists of all it has passed.
WalksAlong ==
    walk.at = "hop" =>
        /\ walk.hop < MaxHops
        /\ ~walk.coverage.truncated /\ walk.coverage.completeTo = MaxHops
        /\ ~lost => /\ walk.frontier = Real[walk.hop].frontier
                    /\ walk.known = Real[walk.hop].seen
                    /\ Holds(walk.edges, walk.hop)

\* A finished walk holds the lists of the hops it claims, and so does the graph it replaces.
Claimed(g, c) == ~lost /\ (c.truncated \/ walk.budget > 0) => Holds(g, c.completeTo)
ClaimsHeld ==
    /\ walk.at = "replace" => Claimed(walk.edges, walk.coverage)
    /\ walk.at \in {"publish", "clear"} => Claimed(edges, coverage)

WalkInv == WalkTypes /\ WalksAlong /\ ClaimsHeld

\* A graph that holds the lists up to a hop gives the distances up to it.
LEMMA HeldIsMeasured ==
    ASSUME NEW g, NEW n \in 0..MaxHops, Holds(g, n), NEW k,
           distance(Published, walk.roots, k) # None,
           distance(Published, walk.roots, k) <= n
    PROVE  distance(g, walk.roots, k) = distance(Published, walk.roots, k)
<1> DEFINE d == distance(Published, walk.roots, k)
<1>1. d \in 0..MaxHops /\ k \in Real[d].frontier
  BY DistanceIsLayer DEF Real
<1>2. \A hop \in 0..MaxHops : hop <= n => Layers(g, walk.roots)[hop] = Real[hop]
  BY LayersAgree DEF Holds, Real
<1>3. k \in Layers(g, walk.roots)[d].frontier
  BY <1>1, <1>2
<1>4. QED BY <1>1, <1>3, DistanceIsLayer

LEMMA WalkInvIsEnough ==
    ASSUME WalkInv, RootTypes PROVE ConfidentHops
<1>1. DistanceIsShortest
  BY SearchIsShortest DEF DistanceIsShortest, WalkInv, WalkTypes, RootTypes
<1>2. ASSUME walk.at = "clear", ~lost, coverage.truncated \/ walk.budget > 0, NEW k \in Keys,
             distance(Published, walk.roots, k) # None,
             distance(Published, walk.roots, k) <= coverage.completeTo
      PROVE  distance(edges, walk.roots, k) = distance(Published, walk.roots, k)
  <2>1. Holds(edges, coverage.completeTo)
    BY <1>2 DEF WalkInv, ClaimsHeld, Claimed
  <2>2. coverage.completeTo \in 0..MaxHops
    BY DEF WalkInv, WalkTypes, Coverages
  <2>3. QED BY <1>2, <2>1, <2>2, HeldIsMeasured
<1>3. QED BY <1>1, <1>2 DEF ConfidentHops

\* The walk is left alone by all but the rebuild.
LEMMA WalkFramed ==
    ASSUME WalkInv, UNCHANGED <<edges, coverage, walk, lost>> PROVE WalkInv'
BY DEF WalkInv, WalkTypes, WalksAlong, ClaimsHeld, Claimed, Holds, Genuine, IsGraph, Real

LEMMA UnknownIsGenuine == IsGraph(Unknown) /\ Genuine(Unknown)
BY DEF IsGraph, Genuine, Unknown

LEMMA StartKeepsWalk ==
    ASSUME WalkInv, RootTypes, RebuildStart(refs) PROVE WalkInv'
<1>1. EmptyCoverage \in Coverages /\ ~EmptyCoverage.truncated
  BY HopsAssumption DEF EmptyCoverage, Coverages
<1>2. CASE refs = {}
  <2>1. walk' = [NoWalk EXCEPT !.at = "clear"] /\ lost' = FALSE
        /\ edges' = Unknown /\ coverage' = EmptyCoverage
    BY <1>2 DEF RebuildStart, RebuildWithout
  <2>2. /\ walk'.at = "clear" /\ walk'.budget = 0 /\ walk'.edges = Unknown
        /\ walk' \in [at : {"idle", "hop", "replace", "publish", "clear"}, roots : SUBSET Keys,
                      hop : 0..MaxHops, frontier : SUBSET Keys, known : SUBSET Keys,
                      edges : [Keys -> (SUBSET Keys) \cup {None}], budget : Nat,
                      coverage : Coverages]
    BY <1>1, <2>1, UnknownIsGenuine, HopsAssumption DEF NoWalk, IsGraph
  <2>3. WalkTypes'
    BY <1>1, <2>1, <2>2, UnknownIsGenuine DEF WalkTypes, Genuine, IsGraph
  <2>4. WalksAlong'
    BY <2>2 DEF WalksAlong
  <2>5. ClaimsHeld'
    BY <1>1, <2>1, <2>2 DEF ClaimsHeld, Claimed
  <2>6. QED BY <2>3, <2>4, <2>5 DEF WalkInv
<1>3. CASE refs # {}
  <2> DEFINE cover == [EmptyCoverage EXCEPT !.completeTo = MaxHops]
  <2>0. refs \in SUBSET Keys
    BY DEF RootTypes
  <2>1. cover \in Coverages /\ ~cover.truncated /\ cover.completeTo = MaxHops
    <3>1. MaxHops \in 0..MaxHops
      BY HopsAssumption
    <3>2. QED BY <1>1, <3>1 DEF Coverages
  <2>2. IsGraph(EdgesFromDatabase) /\ Genuine(EdgesFromDatabase)
    BY PublishedAssumption DEF IsGraph, Genuine, EdgesFromDatabase
  <2>3. /\ walk' = [at |-> IF MaxHops = 0 THEN "replace" ELSE "hop", roots |-> refs, hop |-> 0,
                    frontier |-> refs, known |-> refs, edges |-> EdgesFromDatabase,
                    budget |-> MaxFetches, coverage |-> cover]
        /\ lost' = FALSE
        /\ UNCHANGED <<edges, coverage>>
    BY <1>3 DEF RebuildStart, graph
  <2> HIDE DEF cover
  <2>4. /\ walk'.at = IF MaxHops = 0 THEN "replace" ELSE "hop"
        /\ walk'.roots = refs /\ walk'.hop = 0 /\ walk'.frontier = refs /\ walk'.known = refs
        /\ walk'.edges = EdgesFromDatabase /\ walk'.coverage = cover
    BY <2>3
  <2>5. WalkTypes'
    <3>1. walk' \in [at : {"idle", "hop", "replace", "publish", "clear"}, roots : SUBSET Keys,
                     hop : 0..MaxHops, frontier : SUBSET Keys, known : SUBSET Keys,
                     edges : [Keys -> (SUBSET Keys) \cup {None}], budget : Nat,
                     coverage : Coverages]
      BY <2>0, <2>1, <2>2, <2>3, HopsAssumption, FetchesAssumption DEF IsGraph
    <3>2. QED BY <2>2, <2>3, <2>4, <3>1 DEF WalkInv, WalkTypes, Genuine, IsGraph
  <2>6. WalksAlong'
    <3>1. Layers(Published, refs)[0] = Ground(refs)
      BY LayersStep
    <3>2. Real' = Layers(Published, refs)
      BY <2>4 DEF Real
    <3>3. Real'[0].frontier = refs /\ Real'[0].seen = refs
      BY <3>1, <3>2 DEF Ground
    <3>4. Holds(walk.edges, 0)'
      BY HopsAssumption DEF Holds
    <3>5. walk'.at = "hop" => 0 < MaxHops
      BY <2>4, HopsAssumption
    <3>6. (Holds(walk.edges, walk.hop))'
      BY <2>4, <3>4
    <3>7. QED BY <2>1, <2>4, <3>3, <3>5, <3>6 DEF WalksAlong
  <2>7. ClaimsHeld'
    <3>1. walk'.at = "replace" => MaxHops = 0
      BY <2>4
    <3>2. \A g : MaxHops = 0 => (Holds(g, MaxHops))'
      BY DEF Holds
    <3>3. walk'.at \notin {"publish", "clear"}
      BY <2>4
    <3>4. QED BY <2>1, <2>4, <3>1, <3>2, <3>3 DEF ClaimsHeld, Claimed
  <2>8. QED BY <2>5, <2>6, <2>7 DEF WalkInv
<1>4. QED BY <1>2, <1>3

\* A hop: unless it asks for fewer lists than it needs, or one does not come, it has those of
\* the whole frontier, and goes on to whom the newest lists name.
LEMMA HopKeepsWalk ==
    ASSUME WalkInv, RebuildHop PROVE WalkInv'
<1> DEFINE needed == {k \in walk.frontier : walk.edges[k] = None}
<1>1. PICK missing, found \in SUBSET walk.frontier :
          LET g == [k \in Keys |-> IF k \in found THEN Published[k] ELSE walk.edges[k]]
              next == FollowsOf(g, walk.frontier) \ walk.known
              budget == walk.budget - Cardinality(missing)
              over == next = {} \/ budget = 0 \/ walk.hop + 1 = MaxHops
          IN  /\ missing \subseteq needed /\ found \subseteq missing
              /\ Cardinality(missing) = Asked(needed)
              /\ walk' = [walk EXCEPT !.at = IF over THEN "replace" ELSE "hop",
                                      !.hop = @ + 1,
                                      !.frontier = IF over THEN {} ELSE next,
                                      !.known = IF over THEN {} ELSE @ \cup next,
                                      !.edges = g,
                                      !.budget = budget,
                                      !.coverage = Covered(@, needed, missing)]
              /\ lost' = (lost \/ found # missing)
  BY DEF RebuildHop
<1> DEFINE g == [k \in Keys |-> IF k \in found THEN Published[k] ELSE walk.edges[k]]
           next == FollowsOf(g, walk.frontier) \ walk.known
           budget == walk.budget - Cardinality(missing)
           over == next = {} \/ budget = 0 \/ walk.hop + 1 = MaxHops
           cover == Covered(walk.coverage, needed, missing)
           short == Cardinality(missing) < Cardinality(needed)
<1>2. /\ walk.at = "hop" /\ walk.hop < MaxHops
      /\ ~walk.coverage.truncated /\ walk.coverage.completeTo = MaxHops
      /\ UNCHANGED <<edges, coverage>>
  BY DEF RebuildHop, WalkInv, WalksAlong, graph
<1>3. /\ walk.roots \in SUBSET Keys /\ walk.frontier \in SUBSET Keys /\ walk.known \in SUBSET Keys
      /\ walk.hop \in 0..MaxHops /\ walk.budget \in Nat /\ walk.coverage \in Coverages
      /\ IsGraph(walk.edges) /\ Genuine(walk.edges)
  BY DEF WalkInv, WalkTypes, IsGraph
<1>4. /\ Cardinality(missing) \in Nat /\ Cardinality(needed) \in Nat
      /\ Cardinality(missing) <= Cardinality(needed)
      /\ ~short => missing = needed
      /\ budget \in Nat
      /\ short => budget = 0
  <2>1. IsFiniteSet(needed)
    BY <1>3, PublishedAssumption, FS_Subset
  <2>2. /\ IsFiniteSet(missing) /\ Cardinality(missing) <= Cardinality(needed)
        /\ Cardinality(missing) = Cardinality(needed) => missing = needed
    BY <1>1, <2>1, FS_Subset
  <2>3. Cardinality(missing) \in Nat /\ Cardinality(needed) \in Nat
    BY <2>1, <2>2, FS_CardinalityType
  <2>4. Cardinality(missing) = IF Cardinality(needed) <= walk.budget THEN Cardinality(needed)
                               ELSE walk.budget
    BY <1>1 DEF Asked, Least
  <2> HIDE DEF needed
  <2>5. QED BY <1>3, <2>2, <2>3, <2>4
<1>5. IsGraph(g) /\ Genuine(g)
  BY <1>3, PublishedAssumption DEF IsGraph, Genuine
<1>6. ASSUME NEW k \in Keys, walk.edges[k] = Published[k] PROVE g[k] = Published[k]
  BY <1>6
<1>7. ASSUME ~short, found = missing, NEW k \in walk.frontier PROVE g[k] = Published[k]
  <2>1. k \in found \/ walk.edges[k] = Published[k]
    BY <1>3, <1>4, <1>7 DEF Genuine
  <2>2. QED BY <1>3, <2>1
<1>8. /\ cover \in Coverages
      /\ cover.truncated <=> short
      /\ cover.completeTo = IF short THEN walk.hop ELSE MaxHops
  <2>1. CASE short
    <3>1. cover = [walk.coverage EXCEPT !.truncated = TRUE, !.completeTo = Least(@, walk.hop)]
      BY <2>1 DEF Covered
    <3>2. Least(walk.coverage.completeTo, walk.hop) = walk.hop
      BY <1>2, <1>3, HopsAssumption DEF Least
    <3> HIDE DEF cover, short
    <3>3. QED BY <1>3, <2>1, <3>1, <3>2 DEF Coverages
  <2>2. CASE ~short
    <3>1. cover = walk.coverage
      BY <2>2 DEF Covered
    <3> HIDE DEF cover, short
    <3>2. QED BY <1>2, <1>3, <2>2, <3>1 DEF Coverages
  <2>3. QED BY <2>1, <2>2
<1>9. FollowsOf(g, walk.frontier) \subseteq Keys
  BY <1>3, <1>5, FollowsAreLists
<1>10. next \in SUBSET Keys
  BY <1>9
<1>11. /\ walk' = [walk EXCEPT !.at = IF over THEN "replace" ELSE "hop",
                               !.hop = @ + 1,
                               !.frontier = IF over THEN {} ELSE next,
                               !.known = IF over THEN {} ELSE @ \cup next,
                               !.edges = g, !.budget = budget, !.coverage = cover]
       /\ lost' = (lost \/ found # missing)
  BY <1>1
<1>12. over \in BOOLEAN /\ (~over => next # {} /\ budget # 0 /\ walk.hop + 1 # MaxHops)
  OBVIOUS
<1>13. over => next = {} \/ budget = 0 \/ walk.hop + 1 = MaxHops
  OBVIOUS
<1>14. walk.hop + 1 \in 0..MaxHops
  BY <1>2, <1>3, HopsAssumption
<1>15. next = FollowsOf(g, walk.frontier) \ walk.known
  OBVIOUS
<1> HIDE DEF needed, g, next, budget, over, cover, short
<1>16. /\ walk'.at = IF over THEN "replace" ELSE "hop"
       /\ walk'.hop = walk.hop + 1 /\ walk'.roots = walk.roots
       /\ walk'.frontier = IF over THEN {} ELSE next
       /\ walk'.known = IF over THEN {} ELSE walk.known \cup next
       /\ walk'.edges = g /\ walk'.budget = budget /\ walk'.coverage = cover
       /\ walk' \in [at : {"idle", "hop", "replace", "publish", "clear"}, roots : SUBSET Keys,
                     hop : 0..MaxHops, frontier : SUBSET Keys, known : SUBSET Keys,
                     edges : [Keys -> (SUBSET Keys) \cup {None}], budget : Nat,
                     coverage : Coverages]
  <2>1. walk \in [at : {"idle", "hop", "replace", "publish", "clear"}, roots : SUBSET Keys,
                  hop : 0..MaxHops, frontier : SUBSET Keys, known : SUBSET Keys,
                  edges : [Keys -> (SUBSET Keys) \cup {None}], budget : Nat,
                  coverage : Coverages]
    BY DEF WalkInv, WalkTypes
  <2>2. g \in [Keys -> (SUBSET Keys) \cup {None}]
    BY <1>5 DEF IsGraph
  <2>3. QED BY ONLY <2>1, <2>2, <1>4, <1>8, <1>10, <1>11, <1>14
<1>17. WalkTypes'
  <2>1. Genuine(walk.edges)'
    BY <1>5, <1>16 DEF Genuine
  <2>2. QED BY <1>2, <1>11, <1>16, <2>1 DEF WalkInv, WalkTypes, IsGraph
<1>18. Real' = Real
  BY <1>16 DEF Real
<1>19. ASSUME ~lost PROVE Holds(g, walk.hop)
  <2>1. Holds(walk.edges, walk.hop)
    BY <1>2, <1>19 DEF WalkInv, WalksAlong
  <2>2. \A hop \in 0..MaxHops : Real[hop].frontier \subseteq Keys
    <3>1. IsGraph(Published)
      BY PublishedAssumption DEF IsGraph
    <3>2. QED BY <1>3, <3>1, LayersAreKeys DEF Real
  <2>3. QED BY <1>6, <2>1, <2>2 DEF Holds
<1>20. ASSUME ~lost', ~short
       PROVE  /\ Holds(g, walk.hop + 1)
              /\ next = Real[walk.hop + 1].frontier
              /\ Real[walk.hop + 1].seen = walk.known \cup next
  <2>1. ~lost /\ found = missing
    BY <1>11, <1>20
  <2>2. walk.frontier = Real[walk.hop].frontier /\ walk.known = Real[walk.hop].seen
    BY <1>2, <2>1 DEF WalkInv, WalksAlong
  <2>3. \A k \in walk.frontier : g[k] = Published[k]
    BY <1>7, <1>20, <2>1
  <2>4. \A hop \in 0..MaxHops : hop < walk.hop + 1 => hop < walk.hop \/ hop = walk.hop
    BY <1>3, HopsAssumption
  <2>5. Holds(g, walk.hop + 1)
    BY <1>19, <2>1, <2>2, <2>3, <2>4 DEF Holds
  <2>6. Real[walk.hop + 1] = After(Published, Real[walk.hop])
    BY <1>3, <1>14, LayersStep DEF Real
  <2>7. \A k \in walk.frontier : Published[k] # None
    BY <1>3, PublishedAssumption, NoListAssumption
  <2>8. FollowsOf(g, walk.frontier) = FollowsOf(Published, walk.frontier)
    BY <2>3 DEF FollowsOf
  <2>9. next = Following(Published, Real[walk.hop])
    BY <1>15, <2>2, <2>8 DEF Following
  <2>10. QED BY <2>2, <2>5, <2>6, <2>9 DEF After
<1>21. WalksAlong'
  <2> SUFFICES ASSUME ~over PROVE WalksAlong'
    BY <1>16 DEF WalksAlong
  <2>1. ~short /\ walk.hop + 1 < MaxHops
    BY <1>4, <1>12, <1>14, HopsAssumption
  <2>2. ~cover.truncated /\ cover.completeTo = MaxHops
    BY <1>8, <2>1
  <2>3. ~lost' => (Holds(walk.edges, walk.hop))'
    BY <1>16, <1>18, <1>20, <2>1 DEF Holds
  <2>4. QED BY <1>16, <1>18, <1>20, <2>1, <2>2, <2>3 DEF WalksAlong
<1>22. ClaimsHeld'
  <2> SUFFICES ASSUME over, ~lost', cover.truncated \/ budget > 0
               PROVE  Holds(walk.edges, walk.coverage.completeTo)'
    BY <1>16 DEF ClaimsHeld, Claimed
  <2>0. ~lost
    BY <1>11
  <2>1. CASE short
    <3>1. Holds(g, walk.hop)
      BY <1>19, <2>0
    <3>2. cover.completeTo = walk.hop
      BY <1>8, <2>1
    <3>3. QED BY <1>16, <1>18, <3>1, <3>2 DEF Holds
  <2>2. CASE ~short
    <3>1. budget > 0 /\ cover.completeTo = MaxHops
      BY <1>8, <2>2
    <3>2. next = {} \/ walk.hop + 1 = MaxHops
      BY <1>4, <1>13, <3>1
    <3>3. Holds(g, walk.hop + 1) /\ next = Real[walk.hop + 1].frontier
      BY <1>20, <2>2
    <3>4. CASE walk.hop + 1 = MaxHops
      BY <1>16, <1>18, <3>1, <3>3, <3>4 DEF Holds
    <3>5. CASE next = {}
      <4>1. Real[walk.hop + 1].frontier = {}
        BY <3>3, <3>5
      <4>2. \A hop \in 0..MaxHops : hop >= walk.hop + 1 => Real[hop].frontier = {}
        BY <1>14, <4>1, EmptyStaysEmpty DEF Real
      <4>3. \A hop \in 0..MaxHops : hop < walk.hop + 1 \/ hop >= walk.hop + 1
        BY <1>14, HopsAssumption
      <4>4. \A hop \in 0..MaxHops : \A k \in Real[hop].frontier : g[k] = Published[k]
        BY <3>3, <4>2, <4>3 DEF Holds
      <4>5. QED BY <1>16, <1>18, <4>4 DEF Holds
    <3>6. QED BY <3>2, <3>4, <3>5
  <2>3. QED BY <2>1, <2>2
<1>23. QED BY <1>17, <1>21, <1>22 DEF WalkInv

\* The graph takes over the walk's lists, and then nothing but its count changes.
LEMMA ReplaceKeepsWalk ==
    ASSUME WalkInv, Replace \/ Publish \/ ClearAfterRebuild PROVE WalkInv'
<1>0. /\ walk \in [at : {"idle", "hop", "replace", "publish", "clear"}, roots : SUBSET Keys,
                   hop : 0..MaxHops, frontier : SUBSET Keys, known : SUBSET Keys,
                   edges : [Keys -> (SUBSET Keys) \cup {None}], budget : Nat,
                   coverage : Coverages]
      /\ IsGraph(edges) /\ coverage \in Coverages /\ lost \in BOOLEAN /\ Genuine(walk.edges)
  BY DEF WalkInv, WalkTypes
<1>1. CASE Replace
  <2>1. /\ walk.at = "replace" /\ edges' = walk.edges /\ coverage' = walk.coverage /\ lost' = lost
        /\ walk' = [walk EXCEPT !.at = "publish", !.edges = Unknown]
    BY <1>1 DEF Replace
  <2>2. /\ walk'.at = "publish" /\ walk'.roots = walk.roots /\ walk'.budget = walk.budget
        /\ walk'.edges = Unknown
        /\ walk' \in [at : {"idle", "hop", "replace", "publish", "clear"}, roots : SUBSET Keys,
                      hop : 0..MaxHops, frontier : SUBSET Keys, known : SUBSET Keys,
                      edges : [Keys -> (SUBSET Keys) \cup {None}], budget : Nat,
                      coverage : Coverages]
    BY <1>0, <2>1, UnknownIsGenuine DEF IsGraph
  <2>3. WalkTypes'
    <3>1. IsGraph(edges)' /\ coverage' \in Coverages
      BY <1>0, <2>1 DEF IsGraph
    <3>2. Genuine(walk.edges)'
      BY <2>2, UnknownIsGenuine DEF Genuine
    <3>3. QED BY <1>0, <2>1, <2>2, <3>1, <3>2 DEF WalkTypes
  <2>4. Claimed(walk.edges, walk.coverage)
    BY <2>1 DEF WalkInv, ClaimsHeld
  <2>5. Real' = Real
    BY <2>2 DEF Real
  <2>6. ClaimsHeld'
    BY <2>1, <2>2, <2>4, <2>5 DEF ClaimsHeld, Claimed, Holds
  <2>7. QED BY <2>2, <2>3, <2>6 DEF WalkInv, WalksAlong
<1>2. CASE Publish
  <2> DEFINE in == reachable(edges, walk.roots)
  <2>1. /\ walk.at = "publish" /\ edges' = edges /\ lost' = lost
        /\ coverage' = [coverage EXCEPT !.total = Cardinality(DOMAIN in)]
        /\ walk' = [walk EXCEPT !.at = "clear"]
    BY <1>2 DEF Publish
  <2>2. Cardinality(DOMAIN in) \in Nat
    <3>1. DOMAIN in = Layers(edges, walk.roots)[MaxHops].seen
      BY DEF reachable
    <3>2. MaxHops \in 0..MaxHops
      BY HopsAssumption
    <3>3. DOMAIN in \subseteq Keys
      BY <1>0, <3>1, <3>2, LayersAreKeys
    <3>4. QED BY <3>3, PublishedAssumption, FS_Subset, FS_CardinalityType
  <2> HIDE DEF in
  <2>3. /\ coverage' \in Coverages /\ coverage'.truncated = coverage.truncated
        /\ coverage'.completeTo = coverage.completeTo
    BY <1>0, <2>1, <2>2 DEF Coverages
  <2>4. /\ walk'.at = "clear" /\ walk'.roots = walk.roots /\ walk'.budget = walk.budget
        /\ walk'.edges = walk.edges
        /\ walk' \in [at : {"idle", "hop", "replace", "publish", "clear"}, roots : SUBSET Keys,
                      hop : 0..MaxHops, frontier : SUBSET Keys, known : SUBSET Keys,
                      edges : [Keys -> (SUBSET Keys) \cup {None}], budget : Nat,
                      coverage : Coverages]
    BY <1>0, <2>1
  <2>5. WalkTypes'
    BY <1>0, <2>1, <2>3, <2>4 DEF WalkTypes, IsGraph, Genuine
  <2>6. Claimed(edges, coverage)
    BY <2>1 DEF WalkInv, ClaimsHeld
  <2>7. Real' = Real
    BY <2>4 DEF Real
  <2>8. ClaimsHeld'
    BY <2>1, <2>3, <2>4, <2>6, <2>7 DEF ClaimsHeld, Claimed, Holds
  <2>9. QED BY <2>4, <2>5, <2>8 DEF WalkInv, WalksAlong
<1>3. CASE ClearAfterRebuild
  <2>1. walk' = NoWalk /\ lost' = FALSE /\ UNCHANGED <<edges, coverage>>
    BY <1>3 DEF ClearAfterRebuild, graph
  <2>2. EmptyCoverage \in Coverages
    BY HopsAssumption DEF EmptyCoverage, Coverages
  <2>3. /\ NoWalk.at = "idle" /\ NoWalk.edges = Unknown
        /\ NoWalk \in [at : {"idle", "hop", "replace", "publish", "clear"}, roots : SUBSET Keys,
                       hop : 0..MaxHops, frontier : SUBSET Keys, known : SUBSET Keys,
                       edges : [Keys -> (SUBSET Keys) \cup {None}], budget : Nat,
                       coverage : Coverages]
    BY <2>2, UnknownIsGenuine, HopsAssumption DEF NoWalk, IsGraph
  <2>4. WalkTypes'
    BY <1>0, <2>1, <2>3, UnknownIsGenuine DEF WalkTypes, IsGraph, Genuine
  <2>5. QED BY <2>1, <2>3, <2>4 DEF WalkInv, WalksAlong, ClaimsHeld
<1>4. QED BY <1>1, <1>2, <1>3

LEMMA RootTypesKept == ASSUME RootTypes, [Next]_vars PROVE RootTypes'
<1> USE DEF RootTypes
<1>1. ASSUME NEW c \in Consoles, NEW rs \in RefSets, EditReferences(c, rs) PROVE RootTypes'
  BY <1>1 DEF EditReferences, Requests
<1>2. ASSUME NEW c \in Consoles, ListReferences(c) PROVE RootTypes'
  BY <1>2 DEF ListReferences, Requests
<1>3. ASSUME NEW c \in Consoles, SetRoots(c) PROVE RootTypes'
  BY <1>3 DEF SetRoots, Requests
<1>4. ASSUME NEW c \in Consoles, ClearVerdicts(c) PROVE RootTypes'
  BY <1>4 DEF ClearVerdicts, Requests
<1>5. ASSUME NEW w \in Workers, ResolveStep(w) \/ \E k \in Clients : Resolve(w, k)
      PROVE  UNCHANGED <<refs, roots, console>>
  BY <1>5 DEF ResolveStep, Resolve, ReadRoots, Measure, Keep, CheckBreaker, Query, RecordFailure,
              OpenBreaker, RecordSuccess, CloseBreaker, Store
<1>6. ASSUME RebuildStep \/ ClearAfterRebuild \/ Tick \/ OracleChanges
             \/ \E k \in Posters : ContactList(k)
      PROVE  UNCHANGED <<refs, roots, console>>
  BY <1>6 DEF RebuildStep, ClearAfterRebuild, Tick, OracleChanges, ContactList, wotVars
<1>7. UNCHANGED vars => UNCHANGED <<refs, roots, console>>
  BY DEF vars, wotVars
<1>8. UNCHANGED <<refs, roots, console>> => RootTypes'
  OBVIOUS
<1>9. QED BY <1>1, <1>2, <1>3, <1>4, <1>5, <1>6, <1>7, <1>8 DEF Next, ConsoleStep

\* wot_graph.rs: the distance in a graph is the length of a shortest chain of follows; and
\* however the roots move meanwhile, a rebuild that got every list it asked for measures each
\* account within the hops it claims to cover as the newest lists do, unless its budget ended
\* exactly with a hop.
THEOREM RebuildsAreConfident == Spec => []ConfidentHops
<1>1. Init => WalkInv /\ RootTypes
  <2> SUFFICES ASSUME Init PROVE WalkInv /\ RootTypes
    OBVIOUS
  <2>1. RootTypes
    BY DEF Init, RootTypes, Requests
  <2>2. EmptyCoverage \in Coverages
    BY HopsAssumption DEF EmptyCoverage, Coverages
  <2>3. walk = NoWalk /\ edges = Unknown /\ coverage = EmptyCoverage /\ lost = FALSE
    BY DEF Init, GraphInit
  <2>4. /\ NoWalk.at = "idle" /\ NoWalk.edges = Unknown
        /\ NoWalk \in [at : {"idle", "hop", "replace", "publish", "clear"}, roots : SUBSET Keys,
                       hop : 0..MaxHops, frontier : SUBSET Keys, known : SUBSET Keys,
                       edges : [Keys -> (SUBSET Keys) \cup {None}], budget : Nat,
                       coverage : Coverages]
    BY <2>2, UnknownIsGenuine, HopsAssumption DEF NoWalk, IsGraph
  <2>5. WalkTypes
    BY <2>2, <2>3, <2>4, UnknownIsGenuine DEF WalkTypes
  <2>6. QED BY <2>1, <2>3, <2>4, <2>5 DEF WalkInv, WalksAlong, ClaimsHeld
<1>2. WalkInv /\ RootTypes /\ [Next]_vars => WalkInv' /\ RootTypes'
  <2> SUFFICES ASSUME WalkInv, RootTypes, [Next]_vars PROVE WalkInv'
    BY RootTypesKept
  <2>1. CASE RebuildStep \/ ClearAfterRebuild
    <3>1. RebuildStep => RebuildStart(refs) \/ RebuildHop \/ Replace \/ Publish
      BY DEF RebuildStep, Rebuild
    <3>2. QED BY <2>1, <3>1, StartKeepsWalk, HopKeepsWalk, ReplaceKeepsWalk
  <2>2. ASSUME NEW w \in Workers, ResolveStep(w) \/ \E k \in Clients : Resolve(w, k)
        PROVE  UNCHANGED <<edges, coverage, walk, lost>>
    BY <2>2 DEF ResolveStep, Resolve, ReadRoots, Measure, Keep, CheckBreaker, Query, RecordFailure,
                OpenBreaker, RecordSuccess, CloseBreaker, Store, graphVars, graph
  <2>3. ASSUME NEW c \in Consoles, ConsoleStep(c) \/ \E rs \in RefSets : EditReferences(c, rs)
        PROVE  UNCHANGED <<edges, coverage, walk, lost>>
    BY <2>3 DEF ConsoleStep, ListReferences, SetRoots, ClearVerdicts, EditReferences,
                graphVars, graph
  <2>4. ASSUME Tick \/ OracleChanges \/ \E k \in Posters : ContactList(k)
        PROVE  UNCHANGED <<edges, coverage, walk, lost>>
    BY <2>4 DEF Tick, OracleChanges, ContactList, StoreContactList, graphVars, graph
  <2>5. UNCHANGED vars => UNCHANGED <<edges, coverage, walk, lost>>
    BY DEF vars, graphVars, graph
  <2>6. QED BY <2>1, <2>2, <2>3, <2>4, <2>5, WalkFramed DEF Next
<1>3. WalkInv /\ RootTypes => ConfidentHops
  BY WalkInvIsEnough
<1>4. QED BY <1>1, <1>2, <1>3, PTL DEF Spec
=============================================================================
