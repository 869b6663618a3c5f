----------------------------- MODULE WotOracle -----------------------------
(***************************************************************************)
(* Web-of-Trust verdicts (src/src/wot.rs) with the tasks that touch them:  *)
(* connections that resolve their key after AUTH, the hourly rebuild of    *)
(* the follow graph, and the console moving the roots.                     *)
(*                                                                         *)
(* Every access to a lock, an atomic or the cache is a step.  An oracle    *)
(* (external) answers with the distance in its own graph, or fails.  Times *)
(* count down: what is left of an entry's life or of the cooldown.         *)
(***************************************************************************)
EXTENDS FollowGraph

CONSTANTS
    Clients,          \* the keys that connect
    Posters,          \* the keys that publish their contact list on this relay
    Workers,          \* connections that resolve
    Consoles,         \* requests that change the reference accounts
    Modes,            \* relay.wot.local: TRUE for the local graph, FALSE for an oracle
    RefSets,          \* the sets of reference accounts there may be
    CacheTtl,         \* life of a positive verdict
    NegativeTtl,      \* life of a negative one
    Threshold,        \* FAILURE_THRESHOLD
    Cooldown          \* BREAKER_COOLDOWN

ASSUME ClientsAssumption == {Clients, Posters} \subseteq SUBSET Keys
ASSUME RefsAssumption == RefSets \in SUBSET SUBSET Keys
ASSUME TtlAssumption == {CacheTtl, NegativeTtl, Threshold, Cooldown} \subseteq Nat \ {0}
ASSUME NoTaskAssumption == Workers \cap Consoles = {}

VARIABLES
    local,      \* which of the two modes this process runs in
    refs,       \* the reference accounts
    roots,      \* WotOracle::roots
    cache,      \* the verdict of a key and its time left, None without one
    failures,   \* consecutive_failures
    breaker,    \* what is left of the cooldown since breaker_opened_at, None unset
    up,         \* the oracle, or its fallback, answers
    worker,     \* what each connection's resolve() is doing
    console,    \* what each request of the console is doing
    raced       \* ghost: keys whose verdict was in flight while roots or graph changed

breakerVars == <<failures, breaker>>
wotVars == <<local, refs, roots, cache, breakerVars, up, worker, console, raced>>
vars == <<wotVars, graphVars>>

\* Verdict::UNREACHABLE is None.
Verdict == 0..MaxHops \cup {None}
Entry(v) == [hops |-> v, left |-> IF v = None THEN NegativeTtl ELSE CacheTtl]

\* at: the next step of resolve().  roots: its copy of the roots; todo: those not
\* asked about yet.
Rest == [at |-> "idle", key |-> None, roots |-> {}, todo |-> {}, best |-> None]
Idle(w) == worker[w] = Rest
Return(w) == worker' = [worker EXCEPT ![w] = Rest]
Goto(w, at) == worker' = [worker EXCEPT ![w].at = at]

cached(k) == cache[k] # None /\ cache[k].left > 0
Live(k) == IF cached(k) THEN cache[k].hops ELSE None
\* WotOracle::admits.
admits(k) == Live(k) # None

KeysAt(steps) == {worker[w].key : w \in {w \in Workers : worker[w].at \in steps}}
\* The keys whose resolve() has read the graph, or the roots.
Measured == KeysAt({"keep", "store"})
Resolving == KeysAt({"measure", "keep", "breaker", "query", "failure", "open",
                     "success", "close", "store"})

-----------------------------------------------------------------------------
(* resolve(). *)

\* WotAdmissionMiddleware: a connection's key without a live verdict.
Resolve(w, k) ==
    /\ Idle(w)
    /\ ~cached(k)
    /\ worker' = [worker EXCEPT ![w] = [Rest EXCEPT !.at = "roots", !.key = k]]
    /\ UNCHANGED <<local, refs, roots, cache, breakerVars, up, console, raced, graphVars>>

\* Mutant: the breaker stays open.
BreakerOpenForGood == failures >= Threshold /\ breaker # None

\* breaker_open.
BreakerOpen == failures >= Threshold /\ breaker # None /\ breaker > 0

ReadRoots(w) ==
    /\ worker[w].at = "roots"
    /\ worker' = [worker EXCEPT ![w].roots = roots, ![w].todo = roots,
                                ![w].at = CASE roots = {} -> "store"
                                            [] local -> "measure"
                                            [] OTHER -> "breaker"]
    /\ UNCHANGED <<local, refs, roots, cache, breakerVars, up, console, raced, graphVars>>

\* The local graph answers under its lock ...
Measure(w) ==
    /\ worker[w].at = "measure"
    /\ worker' = [worker EXCEPT ![w].best = distance(edges, worker[w].roots, worker[w].key),
                                ![w].at = "keep"]
    /\ UNCHANGED <<local, refs, roots, cache, breakerVars, up, console, raced, graphVars>>

\* ... and a refusal counts only once it is built.
Keep(w) ==
    /\ worker[w].at = "keep"
    /\ IF worker[w].best # None \/ built THEN Goto(w, "store") ELSE Return(w)
    /\ UNCHANGED <<local, refs, roots, cache, breakerVars, up, console, raced, graphVars>>

CheckBreaker(w) ==
    /\ worker[w].at = "breaker"
    /\ IF BreakerOpen THEN Return(w) ELSE Goto(w, "query")
    /\ UNCHANGED <<local, refs, roots, cache, breakerVars, up, console, raced, graphVars>>

Nearer(best, hops) == IF best = None \/ (hops # None /\ hops < best) THEN hops ELSE best

\* The next root: the key itself needs no query; an answer may end the search; a
\* failure ends it without a verdict.
Query(w) ==
    \E r \in worker[w].todo :
        LET key == worker[w].key
            best == IF r = key THEN 0
                    ELSE Nearer(worker[w].best, distance(Published, {r}, key))
            rest == worker[w].todo \ {r}
        IN  /\ worker[w].at = "query"
            /\ IF r = key \/ up
               THEN worker' = [worker EXCEPT ![w].best = best, ![w].todo = rest,
                                             ![w].at = IF best \in {0, 1} \/ rest = {}
                                                       THEN "success" ELSE "query"]
               ELSE Goto(w, "failure")
            /\ UNCHANGED <<local, refs, roots, cache, breakerVars, up, console, raced, graphVars>>

\* record_failure: the count, and the opening at the threshold.  Past the threshold
\* the count is not told apart.
RecordFailure(w) ==
    /\ worker[w].at = "failure"
    /\ failures' = IF failures < Threshold THEN failures + 1 ELSE failures
    /\ IF failures' >= Threshold THEN Goto(w, "open") ELSE Return(w)
    /\ UNCHANGED <<local, refs, roots, cache, breaker, up, console, raced, graphVars>>

OpenBreaker(w) ==
    /\ worker[w].at = "open"
    /\ breaker' = Cooldown
    /\ Return(w)
    /\ UNCHANGED <<local, refs, roots, cache, failures, up, console, raced, graphVars>>

\* record_success.
RecordSuccess(w) ==
    /\ worker[w].at = "success"
    /\ failures' = 0
    /\ Goto(w, "close")
    /\ UNCHANGED <<local, refs, roots, cache, breaker, up, console, raced, graphVars>>

CloseBreaker(w) ==
    /\ worker[w].at = "close"
    /\ breaker' = None
    /\ Goto(w, "store")
    /\ UNCHANGED <<local, refs, roots, cache, failures, up, console, raced, graphVars>>

Store(w) ==
    /\ worker[w].at = "store"
    /\ cache' = [cache EXCEPT ![worker[w].key] = Entry(worker[w].best)]
    /\ Return(w)
    /\ UNCHANGED <<local, refs, roots, breakerVars, up, console, raced, graphVars>>

-----------------------------------------------------------------------------
(* The roots. *)

EmptyCache == [k \in Clients |-> None]

\* A request adds or removes a reference account ...
EditReferences(c, rs) ==
    /\ console[c].at = "idle"
    /\ rs # refs
    /\ refs' = rs
    /\ console' = [console EXCEPT ![c].at = "list"]
    /\ UNCHANGED <<local, roots, cache, breakerVars, up, worker, raced, graphVars>>

\* ... refresh_wot_roots copies the list ...
ListReferences(c) ==
    /\ console[c].at = "list"
    /\ console' = [console EXCEPT ![c] = [at |-> "roots", roots |-> refs]]
    /\ UNCHANGED <<local, refs, roots, cache, breakerVars, up, worker, raced, graphVars>>

\* ... set_roots replaces the roots ...
SetRoots(c) ==
    /\ console[c].at = "roots"
    /\ roots' = console[c].roots
    /\ console' = [console EXCEPT ![c].at = "clear"]
    /\ raced' = raced \cup Resolving
    /\ UNCHANGED <<local, refs, cache, breakerVars, up, worker, graphVars>>

\* Mutant: the verdicts measured against the old roots stay.
KeepVerdicts(c) ==
    /\ console[c].at = "clear"
    /\ console' = [console EXCEPT ![c] = [at |-> "idle", roots |-> {}]]
    /\ UNCHANGED <<local, refs, roots, cache, breakerVars, up, worker, raced, graphVars>>

\* ... and drops the verdicts measured against the old ones.
ClearVerdicts(c) ==
    /\ console[c].at = "clear"
    /\ cache' = EmptyCache
    /\ console' = [console EXCEPT ![c] = [at |-> "idle", roots |-> {}]]
    /\ UNCHANGED <<local, refs, roots, breakerVars, up, worker, raced, graphVars>>

-----------------------------------------------------------------------------
(* The rebuild loop of server.rs. *)

Rebuild ==
    \/ local /\ RebuildStart(refs) /\ raced' = IF refs = {} THEN raced \cup Measured ELSE raced
    \/ (RebuildHop \/ Publish) /\ UNCHANGED raced
    \/ Replace /\ raced' = raced \cup Measured

RebuildStep ==
    /\ Rebuild
    /\ UNCHANGED <<local, refs, roots, cache, breakerVars, up, worker, console>>

\* Verdicts of the previous graph are dropped.
ClearAfterRebuild ==
    /\ walk.at = "clear"
    /\ walk' = NoWalk
    /\ lost' = FALSE
    /\ cache' = EmptyCache
    /\ UNCHANGED <<local, refs, roots, breakerVars, up, worker, console, raced,
                   graph, stored>>

ContactList(k) ==
    /\ local
    /\ StoreContactList(k)
    /\ UNCHANGED wotVars

-----------------------------------------------------------------------------
(* Time, and the oracle. *)

Older(left) == IF left > 0 THEN left - 1 ELSE 0

\* An expired entry is not told from none: prune_cache may take it at any time.  A
\* key whose race is over and whose verdict is gone starts afresh.
Tick ==
    /\ cache' = [k \in Clients |-> IF cached(k) /\ cache[k].left > 1
                                THEN [cache[k] EXCEPT !.left = @ - 1] ELSE None]
    /\ breaker' = IF breaker = None THEN None ELSE Older(breaker)
    /\ raced' = raced \cap ({k \in Clients : cache'[k] # None} \cup Resolving)
    /\ UNCHANGED <<local, refs, roots, failures, up, worker, console, graphVars>>

OracleChanges ==
    /\ ~local
    /\ up' = ~up
    /\ UNCHANGED <<local, refs, roots, cache, breakerVars, worker, console, raced, graphVars>>

Init ==
    /\ GraphInit
    /\ local \in Modes
    /\ refs \in RefSets
    /\ roots = refs
    /\ cache = EmptyCache
    /\ failures = 0
    /\ breaker = None
    /\ up \in (IF local THEN {TRUE} ELSE BOOLEAN)
    /\ worker = [w \in Workers |-> Rest]
    /\ console = [c \in Consoles |-> [at |-> "idle", roots |-> {}]]
    /\ raced = {}

ResolveStep(w) ==
    \/ ReadRoots(w) \/ Measure(w) \/ Keep(w) \/ CheckBreaker(w) \/ Query(w)
    \/ RecordFailure(w) \/ OpenBreaker(w) \/ RecordSuccess(w) \/ CloseBreaker(w) \/ Store(w)

ConsoleStep(c) == ListReferences(c) \/ SetRoots(c) \/ ClearVerdicts(c)

Next ==
    \/ \E w \in Workers : ResolveStep(w) \/ \E k \in Clients : Resolve(w, k)
    \/ \E c \in Consoles : ConsoleStep(c) \/ \E rs \in RefSets : EditReferences(c, rs)
    \/ RebuildStep \/ ClearAfterRebuild
    \/ \E k \in Posters : ContactList(k)
    \/ Tick \/ OracleChanges

\* The runtime runs every task, time passes, the rebuild comes round, and a client
\* that was refused connects again on any worker.
Fairness ==
    /\ \A w \in Workers : WF_vars(ResolveStep(w))
    /\ \A w \in Workers, k \in Clients : SF_vars(Resolve(w, k))
    /\ \A c \in Consoles : WF_vars(ConsoleStep(c))
    /\ WF_vars(RebuildStep) /\ WF_vars(ClearAfterRebuild)
    /\ WF_vars(Tick)

Spec == Init /\ [][Next]_vars /\ Fairness

-----------------------------------------------------------------------------
(* Properties. *)

Tasks == [at : {"idle", "roots", "measure", "keep", "breaker", "query", "failure", "open",
                "success", "close", "store"},
          key : Keys \cup {None}, roots : SUBSET Keys, todo : SUBSET Keys, best : Verdict]
Requests == [at : {"idle", "list", "roots", "clear"}, roots : SUBSET Keys]

\* Every variable keeps its type.
TypeOK ==
    /\ GraphTypeOK
    /\ {local, up} \subseteq BOOLEAN
    /\ {refs, roots, raced} \subseteq SUBSET Keys
    /\ cache \in [Clients -> [hops : Verdict, left : Nat] \cup {None}]
    /\ failures \in 0..Threshold
    /\ breaker \in 0..Cooldown \cup {None}
    /\ worker \in [Workers -> Tasks]
    /\ console \in [Consoles -> Requests]

\* Between a change of roots or graph and the clearing that follows it.
Clearing == walk.at \in {"publish", "clear"} \/ \E c \in Consoles : console[c].at = "clear"
Graph == IF local THEN edges ELSE Published
TierOf(hops) == IF hops = None THEN None ELSE TierForHops(hops)

\* Nobody is locked out for a negative TTL because the graph is not built yet.
RefusedByBuiltGraphOnly ==
    local /\ ~built /\ roots # {} /\ ~Clearing =>
        \A k \in Clients \ raced : cached(k) => cache[k].hops # None

\* A cached verdict is the one the present roots and the present graph give: set_roots
\* and the rebuild drop all others, except those of a lookup in flight; and a refusal
\* is never that of a graph still to be built.
VerdictsAreCurrent ==
    /\ ~Clearing => \A k \in Clients \ raced :
           cached(k) => TierOf(cache[k].hops) = TierOf(distance(Graph, roots, k))
    /\ RefusedByBuiltGraphOnly

\* The search finds shortest chains.
DistanceIsShortest ==
    \A k \in Keys : distance(edges, roots, k) = ShortestChain(edges, roots, k)

\* Distances are those of the graph, and a rebuild that got every list it asked for
\* answers for the hops it claims: within completeTo no path is missing.  When the budget
\* ends exactly with a hop the code claims one more, although that one was not fetched: of
\* a walk that used up its budget only a truncated one is looked at.
ConfidentHops ==
    /\ DistanceIsShortest
    /\ walk.at = "clear" /\ ~lost /\ (coverage.truncated \/ walk.budget > 0) =>
         \A k \in Keys :
            LET hops == distance(Published, walk.roots, k)
            IN  hops # None /\ hops <= coverage.completeTo => distance(edges, walk.roots, k) = hops

\* A key that the graph keeps reaching from roots that stay, or that an answering oracle
\* does, is admitted again and again: no refusal, no open breaker and no verdict of a
\* lookup in flight lasts for ever.
ReachableIsAdmitted ==
    \A k \in Clients, rs \in RefSets :
        <>[](roots = rs /\ up /\ distance(Graph, rs, k) # None) => []<>admits(k)
=============================================================================
