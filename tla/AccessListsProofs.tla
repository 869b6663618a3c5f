-------------------------- MODULE AccessListsProofs --------------------------
(***************************************************************************)
(* The access lists, their files and the Web-of-Trust roots, for any keys, *)
(* any graph, and any number of requests at once: what a restart finds,    *)
(* what opens the relay, which roots are measured from, and that the       *)
(* ladders of the access tiers agree.                                      *)
(***************************************************************************)
EXTENDS AccessLists, FiniteSetTheorems, WellFoundedInduction, TLAPS

-----------------------------------------------------------------------------
(* The invariant: which list is out of step with its file. *)

Saving == {"snapshot", "truncate", "write"}
ThenFollows == {"save follows", "reset follows"}
Resetting == {"reset follows", "reset refs", "save refs", "reset black"}
Moves == {"roots", "roots and sync"}

\* The lists a request has changed and not yet saved.
Dirty(t) ==
    CASE t.at \in Saving -> {t.list} \cup (IF t.after \in ThenFollows THEN {"follows"} ELSE {})
      [] t.at = "empty follows" -> {"manual"}
      [] t.at \in {"list", "roots"} /\ t.after = "save refs" -> {"refs"}
      [] OTHER -> {}

\* It has changed the reference accounts and not yet set the roots.
Moving(t) == t.at \in {"list", "roots"} \/ (t.at \in Saving /\ t.after \in Moves)

\* Where a request is, it has business with these lists.
Placed(t) ==
    /\ t.lone \subseteq t.lists
    /\ t.at = "idle" => t = Idle
    /\ t.at \in Saving => t.list \in t.lists
    /\ t.after \in ThenFollows => "follows" \in t.lists
    /\ t.at \in {"sync", "fetch", "follow"} =>
          t.list = "follows" /\ t.after = "done" /\ "follows" \in t.lists
    /\ t.at = "empty follows" =>
          t.after \in ThenFollows /\ t.list = "manual" /\ "manual" \in t.lists
    /\ t.at \in {"list", "roots"} => t.after \in Moves \cup {"save refs"}
    /\ t.after \in Moves => "refs" \in t.lists
    /\ t.at = "add reference" \/ t.after \in {"add reference", "roots and sync"} =>
          "refs" \in t.lists /\ "follows" \in t.lists
    /\ t.at \in {"reset refs", "reset black"} \/ t.after \in Resetting => t.lists = Lists

\* A list only this request changes is the copy it is writing, to a file it has emptied.
Copied(t) ==
    /\ t.at \in {"truncate", "write"} /\ t.list \in t.lone => t.content = Memory[t.list]
    /\ t.at = "write" /\ t.list \in t.lone => file[t.list] = Torn
    /\ t.at \in Saving /\ t.after \in ThenFollows /\ "follows" \in t.lone => Memory["follows"] = {}
    /\ t.at = "roots" /\ "refs" \in t.lone => t.content = Memory["refs"]

\* The configured keys are listed by every start.
Kept(l) == IF l = "manual" THEN Configured ELSE {}
Clean(l) == Read(l) \cup Kept(l) = Memory[l] \cup Kept(l)

Types ==
    /\ manual \in SUBSET Keys /\ follows \in SUBSET Keys /\ invited \in SUBSET Keys
    /\ black \in SUBSET Keys /\ refs \in SUBSET Keys
    /\ file \in [Lists -> (SUBSET Keys) \cup {Torn}]
    /\ task \in [Requests -> Tasks]
    /\ mixed \in SUBSET Lists

Apart == \A r, q \in Requests : r # q => task[r].lone \cap task[q].lists = {}
SharedIsMixed == \A r \in Requests : task[r].lists \ task[r].lone \subseteq mixed
CleanUnlessDirty ==
    \A l \in Lists \ mixed : (\A r \in Requests : l \notin Dirty(task[r])) => Clean(l)

ListInv ==
    /\ Types
    /\ \A r \in Requests : Placed(task[r]) /\ Copied(task[r])
    /\ Apart /\ SharedIsMixed /\ CleanUnlessDirty

LEMMA MemoryOf ==
    /\ Memory["manual"] = manual /\ Memory["follows"] = follows
    /\ Memory["black"] = black /\ Memory["refs"] = refs
    /\ Memory'["manual"] = manual' /\ Memory'["follows"] = follows'
    /\ Memory'["black"] = black' /\ Memory'["refs"] = refs'
BY DEF Memory

LEMMA KeySets ==
    /\ Configured \subseteq Keys /\ ManualKeys \subseteq Keys /\ RefKeys \subseteq Keys
    /\ BlackKeys \subseteq Keys /\ InviteKeys \subseteq Keys /\ Clients \subseteq Keys
BY KeysAssumption

LEMMA IdleRests == Idle \in Tasks /\ Placed(Idle) /\ Dirty(Idle) = {} /\ ~Moving(Idle)
BY DEF Idle, Tasks, Placed, Dirty, Moving, Steps, Lists, Saving, ThenFollows, Moves, Resetting

\* What a request has not saved is among its lists.
LEMMA DirtyIsListed == ASSUME NEW t \in Tasks, Placed(t) PROVE Dirty(t) \subseteq t.lists
BY DEF Tasks, Placed, Dirty, Saving, ThenFollows, Resetting, Lists

\* One request takes a step, on lists of its own.
LEMMA StepKeeps ==
    ASSUME ListInv, Types', NEW r \in Requests, NEW t,
           task' = [task EXCEPT ![r] = t], Placed(t), Copied(t)',
           t.lists \subseteq task[r].lists, t.lone = task[r].lone \cap t.lists,
           \A l \in Lists \ task[r].lists :
              Memory'[l] = Memory[l] /\ file'[l] = file[l] /\ (l \in mixed' <=> l \in mixed),
           mixed \ mixed' \subseteq task[r].lone,
           \A l \in task[r].lone \ mixed' : l \notin Dirty(t) => Clean(l)'
    PROVE  ListInv'
<1> USE DEF ListInv
<1>1. /\ task[r] \in Tasks /\ t = task'[r] /\ \A q \in Requests \ {r} : task'[q] = task[q]
      /\ \A q \in Requests : task[q] \in Tasks
  BY DEF Types
<1>2. ASSUME NEW q \in Requests \ {r}, NEW l \in task[q].lone
      PROVE  l \in Lists \ task[r].lists
  BY <1>1, <1>2 DEF Apart, Tasks, Placed
<1>3. ASSUME NEW q \in Requests PROVE Placed(task'[q]) /\ Copied(task[q])'
  <2>1. CASE q = r
    BY <1>1, <2>1
  <2>2. CASE q # r
    <3>1. Placed(task[q]) /\ Copied(task[q]) /\ task'[q] = task[q]
      BY <1>1, <2>2
    <3>2. \A l \in task[q].lone : Memory'[l] = Memory[l] /\ file'[l] = file[l]
      BY <1>2, <2>2
    <3>3. QED BY <3>1, <3>2 DEF Copied
  <2>3. QED BY <2>1, <2>2
<1>4. Apart'
  <2>1. ASSUME NEW p \in Requests, NEW q \in Requests, p # q
        PROVE  task'[p].lone \cap task'[q].lists = {}
    <3>1. task[p].lone \cap task[q].lists = {}
      BY <2>1 DEF Apart
    <3>2. task'[p].lone \subseteq task[p].lone /\ task'[q].lists \subseteq task[q].lists
      BY <1>1
    <3>3. QED BY <3>1, <3>2
  <2>2. QED BY <2>1 DEF Apart
<1>5. SharedIsMixed'
  <2>1. ASSUME NEW q \in Requests, NEW l \in task'[q].lists \ task'[q].lone PROVE l \in mixed'
    <3>1. l \in task[q].lists \ task[q].lone
      BY <1>1, <2>1
    <3>2. l \in mixed
      BY <3>1 DEF SharedIsMixed
    <3>3. l \notin task[r].lone
      BY <3>1 DEF Apart
    <3>4. QED BY <3>2, <3>3
  <2>2. QED BY <2>1 DEF SharedIsMixed
<1>6. CleanUnlessDirty'
  <2> SUFFICES ASSUME NEW l \in Lists \ mixed', \A q \in Requests : l \notin Dirty(task'[q])
               PROVE  Clean(l)'
    BY DEF CleanUnlessDirty
  <2>1. CASE l \in task[r].lists
    <3>1. l \in task[r].lone
      BY <2>1 DEF SharedIsMixed
    <3>2. QED BY <1>1, <3>1
  <2>2. CASE l \notin task[r].lists
    <3>1. l \notin mixed /\ Memory'[l] = Memory[l] /\ file'[l] = file[l]
      BY <2>2
    <3>2. l \notin Dirty(task[r])
      BY <1>1, <2>2, DirtyIsListed
    <3>3. \A q \in Requests : l \notin Dirty(task[q])
      BY <1>1, <3>2
    <3>4. Clean(l)
      BY <3>1, <3>3 DEF CleanUnlessDirty
    <3>5. QED BY <3>1, <3>4 DEF Clean, Read, Kept
  <2>3. QED BY <2>1, <2>2
<1>7. QED BY <1>3, <1>4, <1>5, <1>6

\* What a request is when it begins.
Begun(ls, lone, at, list, after) ==
    [Idle EXCEPT !.at = at, !.lists = ls, !.lone = lone, !.list = list, !.after = after]

\* shared: those of its lists that others are changing.
Begins(r, ls, shared, at, list, after) ==
    /\ \A l \in ls : l \in shared <=> \E q \in Requests \ {r} : l \in task[q].lists
    /\ mixed' = mixed \cup shared
    /\ task' = [q \in Requests |-> IF q = r THEN Begun(ls, ls \ shared, at, list, after)
                                   ELSE [task[q] EXCEPT !.lone = @ \ ls]]

LEMMA BeginIs ==
    ASSUME NEW r \in Requests, NEW ls, NEW at, NEW list, NEW after,
           task \in [Requests -> Tasks], Begin(r, ls, at, list, after)
    PROVE  \E shared \in SUBSET ls : Begins(r, ls, shared, at, list, after)
<1> DEFINE shared == {l \in ls : BusyBeside(r, {l})}
<1>1. \A l \in ls : l \in shared <=> \E q \in Requests \ {r} : l \in task[q].lists
  BY DEF BusyBeside
<1>2. /\ mixed' = mixed \cup shared
      /\ task' = [q \in Requests |-> IF q = r THEN Begun(ls, ls \ shared, at, list, after)
                                     ELSE [task[q] EXCEPT !.lone = @ \ ls]]
  BY DEF Begin, Begun
<1>3. shared \in SUBSET ls
  OBVIOUS
<1> HIDE DEF shared
<1>4. QED BY <1>1, <1>2, <1>3 DEF Begins

\* A request may begin so: it has copied nothing yet.
Fits(ls, at, list, after) ==
    /\ ls \in SUBSET Lists
    /\ \A lone \in SUBSET ls : /\ Begun(ls, lone, at, list, after) \in Tasks
                               /\ Placed(Begun(ls, lone, at, list, after))
    /\ at \notin {"truncate", "write", "roots"}
    /\ at \in Saving => after \notin ThenFollows

\* All it has changed by then, if anything, is the list it is to save first.
BeginsClean(ls, at, list, after) ==
    /\ manual' \in SUBSET Keys /\ follows' \in SUBSET Keys /\ invited' \in SUBSET Keys
    /\ black' \in SUBSET Keys /\ refs' \in SUBSET Keys /\ file' = file
    /\ \A l \in Lists : l \notin Dirty(Begun(ls, {}, at, list, after)) => Memory'[l] = Memory[l]

\* A request begins with its change in memory, and what others had for themselves of its
\* lists is theirs no more.
LEMMA BeginKeeps ==
    ASSUME ListInv, NEW r \in Requests, NEW ls, NEW at, NEW list, NEW after,
           Begin(r, ls, at, list, after), Fits(ls, at, list, after), BeginsClean(ls, at, list, after)
    PROVE  ListInv'
<1> USE DEF ListInv, Fits, BeginsClean
<1>0. PICK shared \in SUBSET ls : Begins(r, ls, shared, at, list, after)
  <2>1. task \in [Requests -> Tasks]
    BY DEF Types
  <2> HIDE DEF ListInv, Fits, BeginsClean
  <2>2. QED BY <2>1, BeginIs
<1>1. /\ \A l \in ls : l \in shared <=> \E q \in Requests \ {r} : l \in task[q].lists
      /\ mixed' = mixed \cup shared
      /\ task' = [q \in Requests |-> IF q = r THEN Begun(ls, ls \ shared, at, list, after)
                                     ELSE [task[q] EXCEPT !.lone = @ \ ls]]
  BY <1>0 DEF Begins
<1> DEFINE t == Begun(ls, ls \ shared, at, list, after)
<1>2. /\ t \in Tasks /\ Placed(t)
      /\ t.at = at /\ t.lists = ls /\ t.lone = ls \ shared /\ t.list = list /\ t.after = after
      /\ Dirty(t) = Dirty(Begun(ls, {}, at, list, after))
  BY DEF Begun, Dirty, Idle
<1>3. task'[r] = t
  BY <1>1
<1> HIDE DEF t
<1>4. ASSUME NEW q \in Requests, q # r
      PROVE  /\ task[q] \in Tasks /\ task'[q] \in Tasks
             /\ task'[q] = [task[q] EXCEPT !.lone = @ \ ls]
             /\ task'[q].at = task[q].at /\ task'[q].lists = task[q].lists
             /\ task'[q].lone = task[q].lone \ ls /\ task'[q].list = task[q].list
             /\ task'[q].content = task[q].content /\ task'[q].after = task[q].after
             /\ Dirty(task'[q]) = Dirty(task[q])
  <2>1. task[q] \in Tasks /\ task'[q] = [task[q] EXCEPT !.lone = @ \ ls]
    BY <1>1, <1>4 DEF Types
  <2> HIDE DEF ListInv
  <2>2. /\ task'[q] \in Tasks
        /\ task'[q].at = task[q].at /\ task'[q].lists = task[q].lists
        /\ task'[q].lone = task[q].lone \ ls /\ task'[q].list = task[q].list
        /\ task'[q].content = task[q].content /\ task'[q].after = task[q].after
    BY <2>1 DEF Tasks
  <2>3. Dirty(task'[q]) = Dirty(task[q])
    BY <2>2 DEF Dirty
  <2>4. QED BY <2>1, <2>2, <2>3
<1>5. Types'
  <2>1. task' \in [Requests -> Tasks]
    BY <1>1, <1>2, <1>3, <1>4
  <2>2. mixed' \in SUBSET Lists
    BY <1>1 DEF Types
  <2>3. QED BY <2>1, <2>2 DEF Types
<1>6. Dirty(t) \subseteq ls
  BY <1>2, DirtyIsListed
<1>7. ASSUME NEW l \in Lists \ ls PROVE Memory'[l] = Memory[l]
  BY <1>2, <1>6, <1>7
<1>8. ASSUME NEW q \in Requests PROVE Placed(task'[q]) /\ Copied(task[q])'
  <2>1. CASE q = r
    <3>1. Copied(task[r])'
      BY <1>2, <1>3 DEF Copied
    <3>2. QED BY <1>2, <1>3, <2>1, <3>1
  <2>2. CASE q # r
    <3>1. Placed(task[q]) /\ Copied(task[q])
      OBVIOUS
    <3>2. Placed(task'[q])
      <4>1. CASE task[q].at = "idle"
        <5>1. task[q] = Idle
          BY <3>1, <4>1 DEF Placed
        <5>2. task'[q] = Idle
          BY <1>4, <2>2, <5>1 DEF Idle
        <5>3. QED BY <5>2, IdleRests
      <4>2. CASE task[q].at # "idle"
        <5>1. /\ task'[q].at = task[q].at /\ task'[q].lists = task[q].lists
              /\ task'[q].lone \subseteq task[q].lone /\ task'[q].list = task[q].list
              /\ task'[q].after = task[q].after
          BY <1>4, <2>2
        <5> HIDE DEF ListInv, Fits, BeginsClean
        <5>2. QED BY <3>1, <4>2, <5>1 DEF Placed
      <4>3. QED BY <4>1, <4>2
    <3>3. \A l \in task'[q].lone : l \in task[q].lone /\ l \in Lists \ ls
      <4>1. task[q].lone \subseteq task[q].lists /\ task[q].lists \subseteq Lists
        BY <1>4, <2>2, <3>1 DEF Placed, Tasks
      <4>2. task'[q].lone = task[q].lone \ ls
        BY <1>4, <2>2
      <4> QED BY ONLY <4>1, <4>2
    <3>4. \A l \in task'[q].lone : Memory'[l] = Memory[l]
      BY <1>7, <3>3
    <3>5. task'[q].at = task[q].at /\ task'[q].list = task[q].list /\ task'[q].after = task[q].after
          /\ task'[q].content = task[q].content /\ Copied(task[q]) /\ file' = file
      BY <1>4, <2>2, <3>1
    <3> HIDE DEF ListInv, Fits, BeginsClean
    <3>6. Copied(task[q])'
      BY <3>3, <3>4, <3>5 DEF Copied
    <3>7. QED BY <3>2, <3>6
  <2>3. QED BY <2>1, <2>2
<1>9. Apart'
  <2>1. ASSUME NEW p \in Requests, NEW q \in Requests, p # q
        PROVE  task'[p].lone \cap task'[q].lists = {}
    <3>1. task[p].lone \cap task[q].lists = {}
      BY <2>1 DEF Apart
    <3>2. CASE p = r
      BY <1>1, <1>2, <1>3, <1>4, <2>1, <3>2
    <3>3. CASE q = r
      BY <1>2, <1>3, <1>4, <2>1, <3>3
    <3>4. CASE p # r /\ q # r
      BY <1>4, <3>1, <3>4
    <3>5. QED BY <3>2, <3>3, <3>4
  <2>2. QED BY <2>1 DEF Apart
<1>10. SharedIsMixed'
  <2>1. ASSUME NEW q \in Requests, NEW l \in task'[q].lists \ task'[q].lone PROVE l \in mixed'
    <3>1. CASE q = r
      BY <1>1, <1>2, <1>3, <2>1, <3>1
    <3>2. CASE q # r /\ l \in ls
      BY <1>1, <1>4, <2>1, <3>2
    <3>3. CASE q # r /\ l \notin ls
      BY <1>1, <1>4, <2>1, <3>3 DEF SharedIsMixed
    <3>4. QED BY <3>1, <3>2, <3>3
  <2>2. QED BY <2>1 DEF SharedIsMixed
<1>11. CleanUnlessDirty'
  <2> SUFFICES ASSUME NEW l \in Lists \ mixed', \A q \in Requests : l \notin Dirty(task'[q])
               PROVE  Clean(l)'
    BY DEF CleanUnlessDirty
  <2>1. Memory'[l] = Memory[l] /\ l \notin mixed
    BY <1>1, <1>2, <1>3
  <2>2. \A q \in Requests : q # r => l \notin Dirty(task[q])
    BY <1>4
  <2>3. l \notin Dirty(task[r])
    <3>1. task[r] = Idle
      BY DEF Begin
    <3>2. QED BY <3>1, IdleRests
  <2>4. Clean(l)
    BY <2>1, <2>2, <2>3 DEF CleanUnlessDirty
  <2>5. QED BY <2>1, <2>4 DEF Clean, Read, Kept
<1>12. QED BY <1>5, <1>8, <1>9, <1>10, <1>11

\* A request begins so: with a list to save, an empty list to make, or something to do first.
Starting(ls, at, list, after) ==
    /\ ls \in SUBSET Lists /\ list \in Lists
    /\ at \in {"snapshot", "sync", "empty follows", "add reference"}
    /\ after \in {"done", "roots", "roots and sync", "save follows", "add reference", "reset follows"}
    /\ at = "snapshot" => list \in ls /\ after \notin ThenFollows
    /\ at = "sync" => list = "follows" /\ after = "done" /\ "follows" \in ls
    /\ at = "empty follows" => list = "manual" /\ "manual" \in ls /\ after \in ThenFollows
    /\ after \in ThenFollows => "follows" \in ls
    /\ after \in Moves => "refs" \in ls
    /\ at = "add reference" \/ after \in {"add reference", "roots and sync"} =>
          "refs" \in ls /\ "follows" \in ls
    /\ after \in Resetting => ls = Lists

\* What it has changed by then.
Changed(at, list) == IF at = "snapshot" THEN {list} ELSE IF at = "empty follows" THEN {"manual"} ELSE {}

LEMMA StartingFits ==
    ASSUME NEW ls, NEW list, NEW at, NEW after, Starting(ls, at, list, after)
    PROVE  /\ Fits(ls, at, list, after)
           /\ Dirty(Begun(ls, {}, at, list, after)) = Changed(at, list)
<1> USE DEF Starting, Changed
<1>1. ASSUME NEW lone \in SUBSET ls
      PROVE  Begun(ls, lone, at, list, after) \in Tasks /\ Placed(Begun(ls, lone, at, list, after))
  <2>1. PICK t : t = Begun(ls, lone, at, list, after)
    OBVIOUS
  <2>2. t.at = at /\ t.lists = ls /\ t.lone = lone /\ t.list = list /\ t.after = after
    BY <2>1 DEF Begun, Idle
  <2>3. t \in Tasks
    BY <2>1 DEF Begun, Idle, Tasks, Steps
  <2>4. Placed(t)
    BY <2>2 DEF Placed, Saving
  <2>5. QED BY <2>1, <2>3, <2>4
<1>2. Dirty(Begun(ls, {}, at, list, after)) =
          Changed(at, list)
  <2>1. PICK t : t = Begun(ls, {}, at, list, after)
    OBVIOUS
  <2>2. t.at = at /\ t.list = list /\ t.after = after
    BY <2>1 DEF Begun, Idle
  <2>3. QED BY <2>1, <2>2 DEF Dirty, Saving
<1>3. at \notin {"truncate", "write", "roots"} /\ (at \in Saving => after \notin ThenFollows)
  BY DEF Saving
<1>4. QED BY <1>1, <1>2, <1>3 DEF Fits

\* What each request begins with, and what it has changed by then.
LEMMA Beginnings ==
    /\ Fits({"manual"}, "snapshot", "manual", "done")
    /\ Dirty(Begun({"manual"}, {}, "snapshot", "manual", "done")) = {"manual"}
    /\ Fits({"black"}, "snapshot", "black", "done")
    /\ Dirty(Begun({"black"}, {}, "snapshot", "black", "done")) = {"black"}
    /\ Fits({"refs", "follows"}, "snapshot", "refs", "roots and sync")
    /\ Dirty(Begun({"refs", "follows"}, {}, "snapshot", "refs", "roots and sync")) = {"refs"}
    /\ Fits({"refs"}, "snapshot", "refs", "roots")
    /\ Dirty(Begun({"refs"}, {}, "snapshot", "refs", "roots")) = {"refs"}
    /\ Fits({"follows"}, "sync", "follows", "done")
    /\ Dirty(Begun({"follows"}, {}, "sync", "follows", "done")) = {}
    /\ Fits({"manual", "follows"}, "empty follows", "manual", "save follows")
    /\ Dirty(Begun({"manual", "follows"}, {}, "empty follows", "manual", "save follows")) = {"manual"}
    /\ Fits({"manual", "refs", "follows"}, "snapshot", "manual", "add reference")
    /\ Dirty(Begun({"manual", "refs", "follows"}, {}, "snapshot", "manual", "add reference")) = {"manual"}
    /\ Fits({"refs", "follows"}, "add reference", "refs", "add reference")
    /\ Dirty(Begun({"refs", "follows"}, {}, "add reference", "refs", "add reference")) = {}
    /\ Fits(Lists, "empty follows", "manual", "reset follows")
    /\ Dirty(Begun(Lists, {}, "empty follows", "manual", "reset follows")) = {"manual"}
<1>1. /\ Fits({"manual"}, "snapshot", "manual", "done")
      /\ Dirty(Begun({"manual"}, {}, "snapshot", "manual", "done")) = {"manual"}
  <2>1. Starting({"manual"}, "snapshot", "manual", "done")
    BY DEF Starting, Lists, ThenFollows, Moves, Resetting
  <2>2. Fits({"manual"}, "snapshot", "manual", "done") /\ Dirty(Begun({"manual"}, {}, "snapshot", "manual", "done")) = Changed("snapshot", "manual")
    BY <2>1, StartingFits
  <2>3. QED BY <2>2 DEF Changed
<1>2. /\ Fits({"black"}, "snapshot", "black", "done")
      /\ Dirty(Begun({"black"}, {}, "snapshot", "black", "done")) = {"black"}
  <2>1. Starting({"black"}, "snapshot", "black", "done")
    BY DEF Starting, Lists, ThenFollows, Moves, Resetting
  <2>2. Fits({"black"}, "snapshot", "black", "done") /\ Dirty(Begun({"black"}, {}, "snapshot", "black", "done")) = Changed("snapshot", "black")
    BY <2>1, StartingFits
  <2>3. QED BY <2>2 DEF Changed
<1>3. /\ Fits({"refs", "follows"}, "snapshot", "refs", "roots and sync")
      /\ Dirty(Begun({"refs", "follows"}, {}, "snapshot", "refs", "roots and sync")) = {"refs"}
  <2>1. Starting({"refs", "follows"}, "snapshot", "refs", "roots and sync")
    BY DEF Starting, Lists, ThenFollows, Moves, Resetting
  <2>2. Fits({"refs", "follows"}, "snapshot", "refs", "roots and sync") /\ Dirty(Begun({"refs", "follows"}, {}, "snapshot", "refs", "roots and sync")) = Changed("snapshot", "refs")
    BY <2>1, StartingFits
  <2>3. QED BY <2>2 DEF Changed
<1>4. /\ Fits({"refs"}, "snapshot", "refs", "roots")
      /\ Dirty(Begun({"refs"}, {}, "snapshot", "refs", "roots")) = {"refs"}
  <2>1. Starting({"refs"}, "snapshot", "refs", "roots")
    BY DEF Starting, Lists, ThenFollows, Moves, Resetting
  <2>2. Fits({"refs"}, "snapshot", "refs", "roots") /\ Dirty(Begun({"refs"}, {}, "snapshot", "refs", "roots")) = Changed("snapshot", "refs")
    BY <2>1, StartingFits
  <2>3. QED BY <2>2 DEF Changed
<1>5. /\ Fits({"follows"}, "sync", "follows", "done")
      /\ Dirty(Begun({"follows"}, {}, "sync", "follows", "done")) = {}
  <2>1. Starting({"follows"}, "sync", "follows", "done")
    BY DEF Starting, Lists, ThenFollows, Moves, Resetting
  <2>2. Fits({"follows"}, "sync", "follows", "done") /\ Dirty(Begun({"follows"}, {}, "sync", "follows", "done")) = Changed("sync", "follows")
    BY <2>1, StartingFits
  <2>3. QED BY <2>2 DEF Changed
<1>6. /\ Fits({"manual", "follows"}, "empty follows", "manual", "save follows")
      /\ Dirty(Begun({"manual", "follows"}, {}, "empty follows", "manual", "save follows")) = {"manual"}
  <2>1. Starting({"manual", "follows"}, "empty follows", "manual", "save follows")
    BY DEF Starting, Lists, ThenFollows, Moves, Resetting
  <2>2. Fits({"manual", "follows"}, "empty follows", "manual", "save follows") /\ Dirty(Begun({"manual", "follows"}, {}, "empty follows", "manual", "save follows")) = Changed("empty follows", "manual")
    BY <2>1, StartingFits
  <2>3. QED BY <2>2 DEF Changed
<1>7. /\ Fits({"manual", "refs", "follows"}, "snapshot", "manual", "add reference")
      /\ Dirty(Begun({"manual", "refs", "follows"}, {}, "snapshot", "manual", "add reference")) = {"manual"}
  <2>1. Starting({"manual", "refs", "follows"}, "snapshot", "manual", "add reference")
    BY DEF Starting, Lists, ThenFollows, Moves, Resetting
  <2>2. Fits({"manual", "refs", "follows"}, "snapshot", "manual", "add reference") /\ Dirty(Begun({"manual", "refs", "follows"}, {}, "snapshot", "manual", "add reference")) = Changed("snapshot", "manual")
    BY <2>1, StartingFits
  <2>3. QED BY <2>2 DEF Changed
<1>8. /\ Fits({"refs", "follows"}, "add reference", "refs", "add reference")
      /\ Dirty(Begun({"refs", "follows"}, {}, "add reference", "refs", "add reference")) = {}
  <2>1. Starting({"refs", "follows"}, "add reference", "refs", "add reference")
    BY DEF Starting, Lists, ThenFollows, Moves, Resetting
  <2>2. Fits({"refs", "follows"}, "add reference", "refs", "add reference") /\ Dirty(Begun({"refs", "follows"}, {}, "add reference", "refs", "add reference")) = Changed("add reference", "refs")
    BY <2>1, StartingFits
  <2>3. QED BY <2>2 DEF Changed
<1>9. /\ Fits(Lists, "empty follows", "manual", "reset follows")
      /\ Dirty(Begun(Lists, {}, "empty follows", "manual", "reset follows")) = {"manual"}
  <2>1. Starting(Lists, "empty follows", "manual", "reset follows")
    BY DEF Starting, Lists, ThenFollows, Moves, Resetting
  <2>2. Fits(Lists, "empty follows", "manual", "reset follows") /\ Dirty(Begun(Lists, {}, "empty follows", "manual", "reset follows")) = Changed("empty follows", "manual")
    BY <2>1, StartingFits
  <2>3. QED BY <2>2 DEF Changed
<1>10. QED BY <1>1, <1>2, <1>3, <1>4, <1>5, <1>6, <1>7, <1>8, <1>9

LEMMA RequestKeeps == ASSUME ListInv, NEW r \in Requests, Request(r) PROVE ListInv'
<1>1. /\ manual \in SUBSET Keys /\ follows \in SUBSET Keys /\ invited \in SUBSET Keys
      /\ black \in SUBSET Keys /\ refs \in SUBSET Keys /\ Owner \in Keys
  BY OwnerAssumption DEF ListInv, Types
<1>2. \A l \in Lists : l \in {"manual", "follows", "black", "refs"}
  BY DEF Lists
<1> USE DEF lists, accessVars
<1>3. ASSUME NEW k \in ManualKeys, WhitelistAdd(r, k) \/ WhitelistRemove(r, k) PROVE ListInv'
  <2>1. /\ Begin(r, {"manual"}, "snapshot", "manual", "done")
        /\ manual' \in {manual \cup {k}, manual \ {k}}
        /\ UNCHANGED <<follows, invited, black, refs, file>>
    BY <1>3 DEF WhitelistAdd, WhitelistRemove
  <2>2. manual' \in SUBSET Keys
    BY <1>1, <2>1, <1>3, KeySets
  <2>3. \A l \in Lists : l \notin {"manual"} => Memory'[l] = Memory[l]
    BY <1>2, <2>1, MemoryOf
  <2>4. Fits({"manual"}, "snapshot", "manual", "done") /\ BeginsClean({"manual"}, "snapshot", "manual", "done")
    BY <1>1, <2>1, <2>2, <2>3, Beginnings DEF BeginsClean
  <2>5. QED BY <2>1, <2>4, BeginKeeps
<1>4. ASSUME NEW k \in BlackKeys, BlacklistAdd(r, k) \/ BlacklistRemove(r, k) PROVE ListInv'
  <2>1. /\ Begin(r, {"black"}, "snapshot", "black", "done")
        /\ black' \in {black \cup {k}, black \ {k}}
        /\ UNCHANGED <<manual, follows, invited, refs, file>>
    BY <1>4 DEF BlacklistAdd, BlacklistRemove
  <2>2. black' \in SUBSET Keys
    BY <1>1, <2>1, <1>4, KeySets
  <2>3. \A l \in Lists : l \notin {"black"} => Memory'[l] = Memory[l]
    BY <1>2, <2>1, MemoryOf
  <2>4. Fits({"black"}, "snapshot", "black", "done") /\ BeginsClean({"black"}, "snapshot", "black", "done")
    BY <1>1, <2>1, <2>2, <2>3, Beginnings DEF BeginsClean
  <2>5. QED BY <2>1, <2>4, BeginKeeps
<1>5. ASSUME NEW k \in RefKeys, ReferenceAdd(r, k) PROVE ListInv'
  <2>1. /\ Begin(r, {"refs", "follows"}, "snapshot", "refs", "roots and sync")
        /\ refs' = refs \cup {k}
        /\ UNCHANGED <<manual, follows, invited, black, file>>
    BY <1>5 DEF ReferenceAdd
  <2>2. refs' \in SUBSET Keys
    BY <1>1, <2>1, <1>5, KeySets
  <2>3. \A l \in Lists : l \notin {"refs"} => Memory'[l] = Memory[l]
    BY <1>2, <2>1, MemoryOf
  <2>4. Fits({"refs", "follows"}, "snapshot", "refs", "roots and sync") /\ BeginsClean({"refs", "follows"}, "snapshot", "refs", "roots and sync")
    BY <1>1, <2>1, <2>2, <2>3, Beginnings DEF BeginsClean
  <2>5. QED BY <2>1, <2>4, BeginKeeps
<1>6. ASSUME NEW k \in RefKeys, ReferenceRemove(r, k) PROVE ListInv'
  <2>1. /\ Begin(r, {"refs"}, "snapshot", "refs", "roots")
        /\ refs' = refs \ {k}
        /\ UNCHANGED <<manual, follows, invited, black, file>>
    BY <1>6 DEF ReferenceRemove
  <2>2. refs' \in SUBSET Keys
    BY <1>1, <2>1, <1>6, KeySets
  <2>3. \A l \in Lists : l \notin {"refs"} => Memory'[l] = Memory[l]
    BY <1>2, <2>1, MemoryOf
  <2>4. Fits({"refs"}, "snapshot", "refs", "roots") /\ BeginsClean({"refs"}, "snapshot", "refs", "roots")
    BY <1>1, <2>1, <2>2, <2>3, Beginnings DEF BeginsClean
  <2>5. QED BY <2>1, <2>4, BeginKeeps
<1>7. CASE SyncRequest(r)
  <2>1. /\ Begin(r, {"follows"}, "sync", "follows", "done")
        /\ UNCHANGED <<manual, follows, invited, black, refs, file>>
    BY <1>7 DEF SyncRequest
  <2>2. \A l \in Lists : l \notin {} => Memory'[l] = Memory[l]
    BY <1>2, <2>1, MemoryOf
  <2>3. Fits({"follows"}, "sync", "follows", "done") /\ BeginsClean({"follows"}, "sync", "follows", "done")
    BY <1>1, <2>1, <2>2, Beginnings DEF BeginsClean
  <2>4. QED BY <2>1, <2>3, BeginKeeps
<1>8. CASE OpenRelay(r)
  <2>1. /\ Begin(r, {"manual", "follows"}, "empty follows", "manual", "save follows")
        /\ manual' = {} /\ UNCHANGED <<follows, invited, black, refs, file>>
    BY <1>8 DEF OpenRelay
  <2>2. \A l \in Lists : l \notin {"manual"} => Memory'[l] = Memory[l]
    BY <1>2, <2>1, MemoryOf
  <2>3. Fits({"manual", "follows"}, "empty follows", "manual", "save follows") /\ BeginsClean({"manual", "follows"}, "empty follows", "manual", "save follows")
    BY <1>1, <2>1, <2>2, Beginnings DEF BeginsClean
  <2>4. QED BY <2>1, <2>3, BeginKeeps
<1>9. CASE RestrictRelay(r)
  <2>1. /\ Begin(r, {"manual"}, "snapshot", "manual", "done")
        /\ manual' = manual \cup {Owner} /\ UNCHANGED <<follows, invited, black, refs, file>>
    BY <1>9 DEF RestrictRelay
  <2>2. manual' \in SUBSET Keys
    BY <1>1, <2>1
  <2>3. \A l \in Lists : l \notin {"manual"} => Memory'[l] = Memory[l]
    BY <1>2, <2>1, MemoryOf
  <2>4. Fits({"manual"}, "snapshot", "manual", "done") /\ BeginsClean({"manual"}, "snapshot", "manual", "done")
    BY <1>1, <2>1, <2>2, <2>3, Beginnings DEF BeginsClean
  <2>5. QED BY <2>1, <2>4, BeginKeeps
<1>10. QED BY <1>3, <1>4, <1>5, <1>6, <1>7, <1>8, <1>9 DEF Request

LEMMA OwnerKeeps ==
    ASSUME ListInv, NEW r \in Requests, SetupLists(r) \/ ResetLists(r) PROVE ListInv'
<1>1. /\ manual \in SUBSET Keys /\ follows \in SUBSET Keys /\ invited \in SUBSET Keys
      /\ black \in SUBSET Keys /\ refs \in SUBSET Keys /\ Owner \in Keys
  BY OwnerAssumption DEF ListInv, Types
<1>2. \A l \in Lists : l \in {"manual", "follows", "black", "refs"}
  BY DEF Lists
<1>3. CASE SetupLists(r)
  <2>1. /\ UNCHANGED <<follows, invited, black, refs, file>>
        /\ \/ manual' = manual \cup {Owner} /\ Begin(r, {"manual"}, "snapshot", "manual", "done")
           \/ /\ manual' = manual \cup {Owner}
              /\ Begin(r, {"manual", "refs", "follows"}, "snapshot", "manual", "add reference")
           \/ /\ manual' = manual
              /\ Begin(r, {"refs", "follows"}, "add reference", "refs", "add reference")
    BY <1>3 DEF SetupLists
  <2>2. manual' \in SUBSET Keys
    BY <1>1, <2>1
  <2>3. /\ \A l \in Lists : l \notin {"manual"} => Memory'[l] = Memory[l]
        /\ manual' = manual => \A l \in Lists : l \notin {} => Memory'[l] = Memory[l]
    BY <1>2, <2>1, MemoryOf
  <2>4. CASE Begin(r, {"manual"}, "snapshot", "manual", "done")
    <3>1. Fits({"manual"}, "snapshot", "manual", "done") /\ BeginsClean({"manual"}, "snapshot", "manual", "done")
      BY <1>1, <2>1, <2>2, <2>3, <2>4, Beginnings DEF BeginsClean
    <3>2. QED BY <2>4, <3>1, BeginKeeps
  <2>5. CASE Begin(r, {"manual", "refs", "follows"}, "snapshot", "manual", "add reference")
    <3>1. Fits({"manual", "refs", "follows"}, "snapshot", "manual", "add reference") /\ BeginsClean({"manual", "refs", "follows"}, "snapshot", "manual", "add reference")
      BY <1>1, <2>1, <2>2, <2>3, <2>5, Beginnings DEF BeginsClean
    <3>2. QED BY <2>5, <3>1, BeginKeeps
  <2>6. CASE /\ manual' = manual
             /\ Begin(r, {"refs", "follows"}, "add reference", "refs", "add reference")
    <3>1. Fits({"refs", "follows"}, "add reference", "refs", "add reference") /\ BeginsClean({"refs", "follows"}, "add reference", "refs", "add reference")
      BY <1>1, <2>1, <2>2, <2>3, <2>6, Beginnings DEF BeginsClean
    <3>2. QED BY <2>6, <3>1, BeginKeeps
  <2>7. QED BY <2>1, <2>4, <2>5, <2>6
<1>4. CASE ResetLists(r)
  <2>1. /\ Begin(r, Lists, "empty follows", "manual", "reset follows")
        /\ manual' = {} /\ UNCHANGED <<follows, invited, black, refs, file>>
    BY <1>4 DEF ResetLists
  <2>2. \A l \in Lists : l \notin {"manual"} => Memory'[l] = Memory[l]
    BY <1>2, <2>1, MemoryOf
  <2>3. Fits(Lists, "empty follows", "manual", "reset follows") /\ BeginsClean(Lists, "empty follows", "manual", "reset follows")
    BY <1>1, <2>1, <2>2, Beginnings DEF BeginsClean
  <2>4. QED BY <2>1, <2>3, BeginKeeps
<1>5. QED BY <1>3, <1>4

\* What follows a saved list, or one that could not be: nothing is left dirty but the follows
\* that are emptied with the whitelist.
LEMMA ThenGoesOn ==
    ASSUME NEW r \in Requests, task \in [Requests -> Tasks], Placed(task[r]),
           task[r].at \in {"truncate", "write"}, NEW saved \in BOOLEAN, Then(r, saved)
    PROVE  \E t \in Tasks :
              /\ task' = [task EXCEPT ![r] = t]
              /\ Placed(t) /\ t.lists \subseteq task[r].lists /\ t.lone = task[r].lone \cap t.lists
              /\ Moving(task[r]) => Moving(t) /\ t.at = "list" /\ t.lists = task[r].lists
              /\ \/ /\ t.at \in {"idle", "add reference", "list", "reset refs", "reset black"}
                    /\ Dirty(t) = {}
                    /\ ~(saved /\ task[r].after \in ThenFollows)
                 \/ /\ saved /\ task[r].after \in ThenFollows
                    /\ t.at = "truncate" /\ t.list = "follows" /\ t.content = {}
                    /\ t.after \notin ThenFollows /\ Dirty(t) = {"follows"}
<1> DEFINE o == task[r]
           next(t) == /\ Placed(t) /\ t.lists \subseteq o.lists /\ t.lone = o.lone \cap t.lists
                      /\ Moving(o) => Moving(t) /\ t.at = "list" /\ t.lists = o.lists
                      /\ \/ /\ t.at \in {"idle", "add reference", "list", "reset refs", "reset black"}
                            /\ Dirty(t) = {}
                            /\ ~(saved /\ o.after \in ThenFollows)
                         \/ /\ saved /\ o.after \in ThenFollows
                            /\ t.at = "truncate" /\ t.list = "follows" /\ t.content = {}
                            /\ t.after \notin ThenFollows /\ Dirty(t) = {"follows"}
<1>1. o \in Tasks /\ Placed(o) /\ o.at \in {"truncate", "write"}
  OBVIOUS
<1> SUFFICES \E t \in Tasks : task' = [task EXCEPT ![r] = t] /\ next(t)
  OBVIOUS
<1>2. o.after \in {"done", "roots", "roots and sync", "save follows", "add reference",
                   "reset follows", "reset refs", "save refs", "reset black"}
  BY <1>1 DEF Tasks
<1>3. CASE o.after = "add reference"
  <2> DEFINE t == [o EXCEPT !.at = "add reference", !.content = {}]
  <2>1. task' = [task EXCEPT ![r] = t]
    BY <1>3 DEF Then
  <2> HIDE DEF o
  <2>2. /\ t \in Tasks /\ t.lists = o.lists /\ t.lone = o.lone
        /\ t.at = "add reference" /\ t.list = o.list /\ t.content = {} /\ t.after = o.after
    BY <1>1, <1>3 DEF Tasks, Steps, Lists
  <2> HIDE DEF t
  <2>3. Placed(t)
    BY <1>1, <1>3, <2>2 DEF Placed, Saving, ThenFollows, Moves, Resetting
  <2>4. o.lone \subseteq o.lists
    BY <1>1 DEF Placed
  <2>5. next(t)
    BY <1>1, <1>3, <2>2, <2>3, <2>4 DEF Dirty, Moving, Saving, ThenFollows, Moves
  <2> HIDE DEF next
  <2>6. QED BY <2>1, <2>2, <2>5
<1>4. CASE o.after \in {"roots", "roots and sync"}
  <2> DEFINE t == [o EXCEPT !.at = "list", !.content = {}]
  <2>1. task' = [task EXCEPT ![r] = t]
    BY <1>4 DEF Then
  <2> HIDE DEF o
  <2>2. /\ t \in Tasks /\ t.lists = o.lists /\ t.lone = o.lone
        /\ t.at = "list" /\ t.list = o.list /\ t.content = {} /\ t.after = o.after
    BY <1>1, <1>4 DEF Tasks, Steps, Lists
  <2> HIDE DEF t
  <2>3. Placed(t)
    BY <1>1, <1>4, <2>2 DEF Placed, Saving, ThenFollows, Moves, Resetting
  <2>4. o.lone \subseteq o.lists
    BY <1>1 DEF Placed
  <2>5. next(t)
    BY <1>1, <1>4, <2>2, <2>3, <2>4 DEF Dirty, Moving, Saving, ThenFollows, Moves
  <2> HIDE DEF next
  <2>6. QED BY <2>1, <2>2, <2>5
<1>5. CASE o.after \in {"save follows", "reset follows"} /\ saved
  <2> DEFINE t == [o EXCEPT !.at = "truncate", !.list = "follows", !.content = {},
                            !.after = IF o.after = "save follows" THEN "done" ELSE "reset refs"]
  <2>1. task' = [task EXCEPT ![r] = t]
    BY <1>5 DEF Then
  <2> HIDE DEF o
  <2>2. /\ t \in Tasks /\ t.lists = o.lists /\ t.lone = o.lone
        /\ t.at = "truncate" /\ t.list = "follows" /\ t.content = {} /\ t.after = IF o.after = "save follows" THEN "done" ELSE "reset refs"
    BY <1>1, <1>5 DEF Tasks, Steps, Lists
  <2> HIDE DEF t
  <2>3. Placed(t)
    BY <1>1, <1>5, <2>2 DEF Placed, Saving, ThenFollows, Moves, Resetting
  <2>4. o.lone \subseteq o.lists
    BY <1>1 DEF Placed
  <2>5. next(t)
    BY <1>1, <1>5, <2>2, <2>3, <2>4 DEF Dirty, Moving, Saving, ThenFollows, Moves
  <2> HIDE DEF next
  <2>6. QED BY <2>1, <2>2, <2>5
<1>6. CASE o.after \in {"reset refs", "reset black"} /\ saved
  <2> DEFINE t == [o EXCEPT !.at = o.after, !.content = {}]
  <2>1. task' = [task EXCEPT ![r] = t]
    BY <1>6 DEF Then
  <2> HIDE DEF o
  <2>2. /\ t \in Tasks /\ t.lists = o.lists /\ t.lone = o.lone
        /\ t.at = o.after /\ t.list = o.list /\ t.content = {} /\ t.after = o.after
    BY <1>1, <1>6 DEF Tasks, Steps, Lists
  <2> HIDE DEF t
  <2>3. Placed(t)
    BY <1>1, <1>6, <2>2 DEF Placed, Saving, ThenFollows, Moves, Resetting
  <2>4. o.lone \subseteq o.lists
    BY <1>1 DEF Placed
  <2>5. next(t)
    BY <1>1, <1>6, <2>2, <2>3, <2>4 DEF Dirty, Moving, Saving, ThenFollows, Moves
  <2> HIDE DEF next
  <2>6. QED BY <2>1, <2>2, <2>5
<1>7. CASE \/ o.after \in {"done", "save refs"}
           \/ o.after \in {"save follows", "reset follows", "reset refs", "reset black"} /\ ~saved
  <2>1. task' = [task EXCEPT ![r] = Idle]
    BY <1>7 DEF Then
  <2>2. /\ Idle.at = "idle" /\ Idle.lists = {} /\ Idle.lone = {}
        /\ ~(saved /\ o.after \in ThenFollows) /\ ~Moving(o)
    <3> HIDE DEF o
    <3>1. QED BY <1>1, <1>7 DEF Idle, ThenFollows, Moving, Saving, Moves
  <2>3. next(Idle)
    BY <2>2, IdleRests
  <2> HIDE DEF next
  <2>4. QED BY <2>1, <2>3, IdleRests
<1> HIDE DEF next
<1>8. QED BY <1>2, <1>3, <1>4, <1>5, <1>6, <1>7

\* A list one request has for itself is on disk unless that request has it dirty.
LEMMA AloneIsClean ==
    ASSUME ListInv, NEW r \in Requests, NEW l \in task[r].lone, l \notin mixed,
           l \notin Dirty(task[r])
    PROVE  Clean(l)
<1>1. task[r] \in Tasks /\ Placed(task[r])
  BY DEF ListInv, Types
<1>2. l \in Lists
  BY <1>1 DEF Placed, Tasks
<1>3. ASSUME NEW q \in Requests PROVE l \notin Dirty(task[q])
  <2>1. CASE q = r
    BY <2>1
  <2>2. CASE q # r
    <3>1. l \notin task[q].lists
      BY <2>2 DEF ListInv, Apart
    <3>2. task[q] \in Tasks /\ Placed(task[q])
      BY DEF ListInv, Types
    <3>3. QED BY <3>1, <3>2, DirtyIsListed
  <2>3. QED BY <2>1, <2>2
<1>4. QED BY <1>2, <1>3 DEF ListInv, CleanUnlessDirty

\* One request takes a step that changes no list or file but those it has dirty by then.
LEMMA DirtyStepKeeps ==
    ASSUME ListInv, NEW r \in Requests, NEW t \in Tasks,
           task' = [task EXCEPT ![r] = t], Placed(t), Copied(t)',
           t.lists \subseteq task[r].lists, t.lone = task[r].lone \cap t.lists,
           Dirty(task[r]) \subseteq Dirty(t), mixed' = mixed,
           manual' \in SUBSET Keys, follows' \in SUBSET Keys, invited' \in SUBSET Keys,
           black' \in SUBSET Keys, refs' \in SUBSET Keys,
           file' \in [Lists -> (SUBSET Keys) \cup {Torn}],
           \A l \in Lists : l \notin Dirty(t) => Memory'[l] = Memory[l] /\ file'[l] = file[l]
    PROVE  ListInv'
<1>1. Types'
  BY DEF ListInv, Types
<1>2. Dirty(t) \subseteq task[r].lists
  BY DirtyIsListed
<1>3. \A l \in Lists \ task[r].lists :
          Memory'[l] = Memory[l] /\ file'[l] = file[l] /\ (l \in mixed' <=> l \in mixed)
  BY <1>2
<1>4. ASSUME NEW l \in task[r].lone \ mixed', l \notin Dirty(t) PROVE Clean(l)'
  <2>1. Clean(l)
    BY <1>4, AloneIsClean
  <2>2. l \in Lists
    BY <1>4 DEF ListInv, Types, Placed, Tasks
  <2>3. Memory'[l] = Memory[l] /\ file'[l] = file[l]
    BY <1>4, <2>2
  <2>4. QED BY <2>1, <2>3 DEF Clean, Read, Kept
<1>5. mixed \ mixed' \subseteq task[r].lone
  OBVIOUS
<1>6. QED BY <1>1, <1>3, <1>4, <1>5, StepKeeps

\* A list that is written by one request alone is on disk as it is in memory.
LEMMA WriteKeeps ==
    ASSUME ListInv, NEW r \in Requests, Write(r) \/ WriteFails(r) PROVE ListInv'
<1> DEFINE o == task[r]
<1>1. /\ task \in [Requests -> Tasks] /\ o \in Tasks /\ Placed(o) /\ Copied(o)
      /\ o.at \in {"truncate", "write"} /\ o.list \in Lists /\ o.list \in o.lists
      /\ o.content \in SUBSET Keys
  BY DEF ListInv, Types, Write, WriteFails, Placed, Saving, Tasks
<1>2. /\ manual \in SUBSET Keys /\ follows \in SUBSET Keys /\ invited \in SUBSET Keys
      /\ black \in SUBSET Keys /\ refs \in SUBSET Keys
      /\ UNCHANGED <<manual, follows, invited, black, refs>>
      /\ file \in [Lists -> (SUBSET Keys) \cup {Torn}] /\ mixed \in SUBSET Lists
      /\ SharedIsMixed /\ CleanUnlessDirty
  BY DEF ListInv, Types, Write, WriteFails, accessVars, lists
<1>3. Memory' = Memory
  BY <1>2 DEF Memory
<1>4. ASSUME NEW l \in o.lone, l \notin mixed, l \notin Dirty(o) PROVE Clean(l)
  BY <1>4, AloneIsClean
<1>5. CASE Write(r)
  <2>1. PICK result \in {o.content, Torn} :
            /\ file' = [file EXCEPT ![o.list] = result]
            /\ file[o.list] = Torn => result = o.content
    BY <1>5 DEF Write
  <2>2. o.at = "write" /\ Then(r, TRUE) /\ mixed' = mixed \ (o.lone \cap {o.list})
    BY <1>5 DEF Write
  <2>3. PICK t \in Tasks :
            /\ task' = [task EXCEPT ![r] = t]
            /\ Placed(t) /\ t.lists \subseteq o.lists /\ t.lone = o.lone \cap t.lists
            /\ \/ /\ t.at \in {"idle", "add reference", "list", "reset refs", "reset black"}
                  /\ Dirty(t) = {} /\ o.after \notin ThenFollows
               \/ /\ o.after \in ThenFollows
                  /\ t.at = "truncate" /\ t.list = "follows" /\ t.content = {}
                  /\ t.after \notin ThenFollows /\ Dirty(t) = {"follows"}
    BY <1>1, <2>2, ThenGoesOn
  <2> HIDE DEF o
  <2>4. Types'
    <3>1. file' \in [Lists -> (SUBSET Keys) \cup {Torn}]
      BY <1>1, <1>2, <2>1
    <3>2. task' \in [Requests -> Tasks]
      BY <1>1, <2>3
    <3>3. QED BY <1>2, <2>2, <3>1, <3>2 DEF Types
  <2>5. Copied(t)'
    <3>1. t.at = "truncate" /\ "follows" \in o.lone => Memory["follows"] = {}
      BY <1>1, <2>2, <2>3 DEF Copied, Saving
    <3>2. "follows" \in t.lone => "follows" \in o.lone
      BY <2>3
    <3>3. t.at = "truncate" /\ "follows" \in t.lone => Memory'["follows"] = {}
      BY <1>3, <3>1, <3>2
    <3>4. QED BY <2>3, <3>3 DEF Copied, Saving
  <2>6. ASSUME NEW l \in o.lone \ mixed', l \notin Dirty(t) PROVE Clean(l)'
    <3>1. CASE l = o.list
      <4>1. Memory'[l] = o.content /\ file[l] = Torn
        BY <1>1, <1>3, <2>2, <2>6, <3>1 DEF Copied
      <4>2. file'[l] = o.content
        BY <1>1, <1>2, <2>1, <3>1, <4>1
      <4>3. o.content # Torn
        BY <1>1, TornAssumption DEF Torn
      <4>4. QED BY <4>1, <4>2, <4>3 DEF Clean, Read, Kept
    <3>2. CASE l # o.list
      <4>1. l \notin mixed
        BY <2>2, <2>6, <3>2
      <4>2. l \notin Dirty(o)
        BY <2>2, <2>3, <2>6, <3>2 DEF Dirty, Saving
      <4>3. Clean(l)
        BY <1>4, <2>6, <4>1, <4>2
      <4>4. file'[l] = file[l] /\ Memory'[l] = Memory[l]
        BY <1>2, <1>3, <2>1, <3>2
      <4>5. QED BY <4>3, <4>4 DEF Clean, Read, Kept
    <3>3. QED BY <3>1, <3>2
  <2>7. \A l \in Lists \ o.lists :
            Memory'[l] = Memory[l] /\ file'[l] = file[l] /\ (l \in mixed' <=> l \in mixed)
    BY <1>1, <1>2, <1>3, <2>1, <2>2
  <2>8. mixed \ mixed' \subseteq o.lone
    BY <2>2
  <2>9. QED BY <2>3, <2>4, <2>5, <2>6, <2>7, <2>8, StepKeeps DEF o
<1>6. CASE WriteFails(r)
  <2>1. /\ o.at = "truncate" /\ Then(r, FALSE) /\ file' = file
        /\ mixed' = mixed \cup {o.list} \cup (IF o.after \in ThenFollows THEN {"follows"} ELSE {})
    BY <1>6 DEF WriteFails, ThenFollows
  <2>2. PICK t \in Tasks :
            /\ task' = [task EXCEPT ![r] = t]
            /\ Placed(t) /\ t.lists \subseteq o.lists /\ t.lone = o.lone \cap t.lists
            /\ t.at \in {"idle", "add reference", "list", "reset refs", "reset black"}
            /\ Dirty(t) = {}
    BY <1>1, <2>1, ThenGoesOn
  <2> HIDE DEF o
  <2>3. Types'
    <3>1. task' \in [Requests -> Tasks]
      BY <1>1, <2>2
    <3>2. mixed' \in SUBSET Lists
      BY <1>1, <1>2, <2>1 DEF Lists
    <3>3. QED BY <1>2, <2>1, <3>1, <3>2 DEF Types
  <2>4. Copied(t)'
    BY <2>2 DEF Copied, Saving
  <2>5. ASSUME NEW l \in o.lone \ mixed' PROVE Clean(l)'
    <3>1. l \notin mixed /\ l \notin Dirty(o)
      BY <2>1, <2>5 DEF Dirty, Saving
    <3>2. Clean(l)
      BY <1>4, <2>5, <3>1
    <3>3. QED BY <1>3, <2>1, <3>2 DEF Clean, Read, Kept
  <2>6. \A l \in Lists \ o.lists :
            Memory'[l] = Memory[l] /\ file'[l] = file[l] /\ (l \in mixed' <=> l \in mixed)
    BY <1>1, <1>3, <2>1 DEF Placed
  <2>7. mixed \ mixed' \subseteq o.lone
    BY <2>1
  <2>8. QED BY <2>2, <2>3, <2>4, <2>5, <2>6, <2>7, StepKeeps DEF o
<1>7. QED BY <1>5, <1>6

LEMMA SavingKeeps ==
    ASSUME ListInv, NEW r \in Requests, EmptyFollows(r) \/ Snapshot(r) \/ Truncate(r)
    PROVE  ListInv'
<1> DEFINE o == task[r]
<1>1. /\ task \in [Requests -> Tasks] /\ o \in Tasks /\ Placed(o) /\ Copied(o)
      /\ manual \in SUBSET Keys /\ follows \in SUBSET Keys /\ invited \in SUBSET Keys
      /\ black \in SUBSET Keys /\ refs \in SUBSET Keys
      /\ file \in [Lists -> (SUBSET Keys) \cup {Torn}]
  BY DEF ListInv, Types
<1>2. \A l \in Lists : l \in {"manual", "follows", "black", "refs"}
  BY DEF Lists
<1>3. o.lone \subseteq o.lists /\ o.list \in Lists
  BY <1>1 DEF Placed, Tasks
<1>4. CASE EmptyFollows(r)
  <2>0. PICK t : t = [o EXCEPT !.at = "snapshot"]
    OBVIOUS
  <2>1. /\ o.at = "empty follows" /\ follows' = {} /\ task' = [task EXCEPT ![r] = t]
        /\ UNCHANGED <<manual, invited, black, refs, file, mixed>>
    BY <2>0, <1>1, <1>4 DEF EmptyFollows, Step
  <2> HIDE DEF o
  <2>2. /\ t \in Tasks /\ t.at = "snapshot" /\ t.lists = o.lists /\ t.lone = o.lone
        /\ t.list = o.list /\ t.content = o.content /\ t.after = o.after
    BY <2>0, <1>1 DEF Tasks, Steps
  <2>3. o.after \in ThenFollows /\ o.list = "manual" /\ "manual" \in o.lists
    BY <1>1, <2>1 DEF Placed
  <2>4. Placed(t) /\ Dirty(t) = {"manual", "follows"} /\ Dirty(o) = {"manual"}
    BY <1>1, <2>1, <2>2, <2>3 DEF Placed, Dirty, Saving, ThenFollows, Moves, Resetting
  <2>5. Copied(t)'
    BY <2>1, <2>2, MemoryOf DEF Copied
  <2>6. \A l \in Lists : l \notin Dirty(t) => Memory'[l] = Memory[l] /\ file'[l] = file[l]
    BY <1>2, <2>1, <2>4, MemoryOf
  <2>7. QED BY <1>1, <1>3, <2>1, <2>2, <2>4, <2>5, <2>6, DirtyStepKeeps DEF o
<1>5. CASE Snapshot(r)
  <2>0. PICK t : t = [o EXCEPT !.at = "truncate", !.content = Memory[o.list]]
    OBVIOUS
  <2>1. /\ o.at = "snapshot" /\ task' = [task EXCEPT ![r] = t]
        /\ UNCHANGED <<manual, follows, invited, black, refs, file, mixed>>
    BY <2>0, <1>1, <1>5 DEF Snapshot, Copy, accessVars, lists
  <2>2. Memory[o.list] \in SUBSET Keys
    BY <1>1, <1>2, <1>3, MemoryOf
  <2> HIDE DEF o
  <2>3. /\ t \in Tasks /\ t.at = "truncate" /\ t.lists = o.lists /\ t.lone = o.lone
        /\ t.list = o.list /\ t.content = Memory[o.list] /\ t.after = o.after
    BY <2>0, <1>1, <2>2 DEF Tasks, Steps
  <2>4. Placed(t) /\ Dirty(t) = Dirty(o)
    BY <1>1, <2>1, <2>3 DEF Placed, Dirty, Saving, ThenFollows, Moves, Resetting
  <2>5. \A l \in Lists : Memory'[l] = Memory[l]
    BY <1>2, <2>1, MemoryOf
  <2>6. Copied(t)'
    <3>1. t.list \in Lists /\ "follows" \in Lists
      BY <1>3, <2>3 DEF Lists
    <3>2. t.at \in Saving /\ t.after \in ThenFollows /\ "follows" \in t.lone => Memory["follows"] = {}
      BY <1>1, <2>1, <2>3 DEF Copied, Saving
    <3>3. QED BY <2>3, <2>5, <3>1, <3>2 DEF Copied
  <2>7. QED BY <1>1, <1>3, <2>1, <2>3, <2>4, <2>5, <2>6, DirtyStepKeeps DEF o
<1>6. CASE Truncate(r)
  <2>0. PICK t : t = [o EXCEPT !.at = "write"]
    OBVIOUS
  <2>1. /\ o.at = "truncate" /\ task' = [task EXCEPT ![r] = t]
        /\ file' = [file EXCEPT ![o.list] = Torn]
        /\ UNCHANGED <<manual, follows, invited, black, refs, mixed>>
    BY <2>0, <1>1, <1>6 DEF Truncate, Step, accessVars, lists
  <2> HIDE DEF o
  <2>2. /\ t \in Tasks /\ t.at = "write" /\ t.lists = o.lists /\ t.lone = o.lone
        /\ t.list = o.list /\ t.content = o.content /\ t.after = o.after
    BY <2>0, <1>1 DEF Tasks, Steps
  <2>3. Placed(t) /\ Dirty(t) = Dirty(o) /\ o.list \in Dirty(t)
    BY <1>1, <2>1, <2>2 DEF Placed, Dirty, Saving, ThenFollows, Moves, Resetting
  <2>4. \A l \in Lists : Memory'[l] = Memory[l]
    BY <1>2, <2>1, MemoryOf
  <2>5. /\ file' \in [Lists -> (SUBSET Keys) \cup {Torn}] /\ file'[o.list] = Torn
        /\ \A l \in Lists : l # o.list => file'[l] = file[l]
    BY <1>1, <1>3, <2>1
  <2>6. Copied(t)'
    <3>1. t.list \in Lists /\ "follows" \in Lists
      BY <1>3, <2>2 DEF Lists
    <3>2. /\ t.list \in t.lone => t.content = Memory[t.list]
          /\ t.after \in ThenFollows /\ "follows" \in t.lone => Memory["follows"] = {}
      BY <1>1, <2>1, <2>2 DEF Copied, Saving
    <3>3. QED BY <2>2, <2>4, <2>5, <3>1, <3>2 DEF Copied
  <2>7. QED BY <1>1, <1>3, <2>1, <2>2, <2>3, <2>4, <2>5, <2>6, DirtyStepKeeps DEF o
<1>7. QED BY <1>4, <1>5, <1>6

\* The steps between saving one list and the next.
LEMMA BetweenKeeps ==
    ASSUME ListInv, NEW r \in Requests,
           \/ ListRoots(r) \/ SetRoots(r) \/ StartSync(r) \/ Fetch(r) \/ Follow(r)
           \/ SetupReference(r) \/ ResetReferences(r) \/ ResetBlack(r)
    PROVE  ListInv'
<1> DEFINE o == task[r]
<1>1. /\ task \in [Requests -> Tasks] /\ o \in Tasks /\ Placed(o) /\ Copied(o)
      /\ manual \in SUBSET Keys /\ follows \in SUBSET Keys /\ invited \in SUBSET Keys
      /\ black \in SUBSET Keys /\ refs \in SUBSET Keys
      /\ file \in [Lists -> (SUBSET Keys) \cup {Torn}] /\ Owner \in Keys
  BY OwnerAssumption DEF ListInv, Types
<1>2. \A l \in Lists : l \in {"manual", "follows", "black", "refs"}
  BY DEF Lists
<1>3. o.lone \subseteq o.lists /\ o.list \in Lists /\ o.content \in SUBSET Keys
  BY <1>1 DEF Placed, Tasks
<1> USE DEF accessVars, lists, wotState
<1>4. CASE ListRoots(r)
  <2>0. PICK t : t = [o EXCEPT !.at = "roots", !.content = refs]
    OBVIOUS
  <2>1. /\ o.at = "list" /\ task' = [task EXCEPT ![r] = t]
        /\ UNCHANGED <<manual, follows, invited, black, refs, file, mixed>>
    BY <2>0, <1>1, <1>4 DEF ListRoots, Copy
  <2> HIDE DEF o
  <2>2. /\ t \in Tasks /\ t.at = "roots" /\ t.lists = o.lists /\ t.lone = o.lone
        /\ t.list = o.list /\ t.content = refs /\ t.after = o.after
    BY <2>0, <1>1 DEF Tasks, Steps
  <2>3. Placed(t) /\ Dirty(t) = Dirty(o)
    BY <1>1, <2>1, <2>2 DEF Placed, Dirty, Saving, ThenFollows, Moves, Resetting
  <2>4. \A l \in Lists : Memory'[l] = Memory[l]
    BY <1>2, <2>1, MemoryOf
  <2>5. Copied(t)'
    BY <2>1, <2>2, MemoryOf DEF Copied, Saving
  <2>6. QED BY <1>1, <1>3, <2>1, <2>2, <2>3, <2>4, <2>5, DirtyStepKeeps DEF o
<1>5. CASE SetRoots(r)
  <2>1. /\ o.at = "roots" /\ UNCHANGED <<manual, follows, invited, black, refs, file, mixed>>
    BY <1>5 DEF SetRoots
  <2>2. \A l \in Lists : Memory'[l] = Memory[l]
    BY <1>2, <2>1, MemoryOf
  <2>3. o.after \in {"roots", "roots and sync", "save refs"}
    BY <1>1, <2>1 DEF Placed, Moves
  <2>4. CASE o.after = "roots"
    <3>1. task' = [task EXCEPT ![r] = Idle]
      BY <1>5, <2>4 DEF SetRoots
    <3>2. Idle.lists = {} /\ Idle.lone = {} /\ Copied(Idle)'
      BY DEF Idle, Copied, Saving
    <3>3. Dirty(o) = {}
      BY <2>1, <2>4 DEF Dirty, Saving
    <3>4. QED BY <1>1, <2>1, <2>2, <3>1, <3>2, <3>3, IdleRests, DirtyStepKeeps
  <2>5. CASE o.after = "roots and sync"
    <3>0. PICK t : t = [Idle EXCEPT !.at = "sync", !.lists = {"follows"}, !.list = "follows",
                                 !.lone = o.lone \cap {"follows"}]
      OBVIOUS
    <3>1. task' = [task EXCEPT ![r] = t]
      BY <3>0, <1>5, <2>5 DEF SetRoots
    <3>2. /\ t \in Tasks /\ t.at = "sync" /\ t.lists = {"follows"}
          /\ t.lone = o.lone \cap {"follows"} /\ t.list = "follows" /\ t.after = "done"
      BY <3>0 DEF Idle, Tasks, Steps, Lists
    <3>3. Placed(t) /\ Dirty(t) = {} /\ Copied(t)' /\ Dirty(o) = {} /\ "follows" \in o.lists
      BY <1>1, <2>1, <2>5, <3>2 DEF Placed, Dirty, Copied, Saving, ThenFollows, Moves, Resetting
    <3>4. QED BY <1>1, <1>3, <2>1, <2>2, <3>1, <3>2, <3>3, DirtyStepKeeps
  <2>6. CASE o.after = "save refs"
    <3>0. PICK t : t = [o EXCEPT !.at = "snapshot", !.list = "refs", !.content = {},
                              !.after = "reset black"]
      OBVIOUS
    <3>1. task' = [task EXCEPT ![r] = t]
      BY <3>0, <1>5, <2>6 DEF SetRoots
    <3> HIDE DEF o
    <3>2. /\ t \in Tasks /\ t.at = "snapshot" /\ t.lists = o.lists
          /\ t.lone = o.lone /\ t.list = "refs" /\ t.after = "reset black"
      BY <3>0, <1>1 DEF Tasks, Steps, Lists
    <3>3. /\ Placed(t) /\ Dirty(t) = {"refs"} /\ Copied(t)' /\ Dirty(o) = {"refs"}
      BY <1>1, <2>1, <2>6, <3>2
      DEF Placed, Dirty, Copied, Saving, ThenFollows, Moves, Resetting, Lists
    <3>4. QED BY <1>1, <1>3, <2>1, <2>2, <3>1, <3>2, <3>3, DirtyStepKeeps DEF o
  <2>7. QED BY <2>3, <2>4, <2>5, <2>6
<1>6. CASE StartSync(r)
  <2>1. /\ o.at = "sync" /\ UNCHANGED <<manual, follows, invited, black, refs, file, mixed>>
    BY <1>6 DEF StartSync
  <2>2. \A l \in Lists : Memory'[l] = Memory[l]
    BY <1>2, <2>1, MemoryOf
  <2>3. Dirty(o) = {}
    BY <2>1 DEF Dirty, Saving
  <2>4. CASE refs = {}
    <3>1. task' = [task EXCEPT ![r] = Idle]
      BY <1>6, <2>4 DEF StartSync
    <3>2. Idle.lists = {} /\ Idle.lone = {} /\ Copied(Idle)'
      BY DEF Idle, Copied, Saving
    <3>3. QED BY <1>1, <2>1, <2>2, <2>3, <3>1, <3>2, IdleRests, DirtyStepKeeps
  <2>5. CASE refs # {}
    <3>0. PICK t : t = [o EXCEPT !.at = "fetch", !.content = refs]
      OBVIOUS
    <3>1. task' = [task EXCEPT ![r] = t]
      BY <3>0, <1>1, <1>6, <2>5 DEF StartSync, Copy
    <3> HIDE DEF o
    <3>2. /\ t \in Tasks /\ t.at = "fetch" /\ t.lists = o.lists /\ t.lone = o.lone
          /\ t.list = o.list /\ t.after = o.after
      BY <3>0, <1>1 DEF Tasks, Steps
    <3>3. Placed(t) /\ Dirty(t) = {} /\ Copied(t)'
      BY <1>1, <2>1, <3>2 DEF Placed, Dirty, Copied, Saving, ThenFollows, Moves, Resetting
    <3>4. QED BY <1>1, <1>3, <2>1, <2>2, <2>3, <3>1, <3>2, <3>3, DirtyStepKeeps DEF o
  <2>6. QED BY <2>4, <2>5
<1>7. CASE Fetch(r)
  <2>1. PICK found \in SUBSET o.content :
            task' = [task EXCEPT ![r].at = "follow", ![r].content = UNION {Published[k] : k \in found}]
    BY <1>7 DEF Fetch, Copy
  <2>2. UNION {Published[k] : k \in found} \in SUBSET Keys
    BY <1>3, PublishedAssumption
  <2> DEFINE new == UNION {Published[k] : k \in found}
  <2>0. PICK t : t = [o EXCEPT !.at = "follow", !.content = new]
    OBVIOUS
  <2>3. /\ o.at = "fetch" /\ UNCHANGED <<manual, follows, invited, black, refs, file, mixed>>
    BY <1>7 DEF Fetch
  <2> HIDE DEF new
  <2>4. task' = [task EXCEPT ![r] = t]
    BY <2>0, <1>1, <2>1 DEF new
  <2> HIDE DEF o
  <2>5. /\ t \in Tasks /\ t.at = "follow" /\ t.lists = o.lists /\ t.lone = o.lone
        /\ t.list = o.list /\ t.after = o.after
    BY <2>0, <1>1, <2>2 DEF Tasks, Steps, new
  <2>6. Placed(t) /\ Dirty(t) = {} /\ Dirty(o) = {} /\ Copied(t)'
    BY <1>1, <2>3, <2>5 DEF Placed, Dirty, Copied, Saving, ThenFollows, Moves, Resetting
  <2>7. \A l \in Lists : Memory'[l] = Memory[l]
    BY <1>2, <2>3, MemoryOf
  <2>8. QED BY <1>1, <1>3, <2>3, <2>4, <2>5, <2>6, <2>7, DirtyStepKeeps DEF o
<1>8. CASE Follow(r)
  <2>0. PICK t : t = [o EXCEPT !.at = "truncate"]
    OBVIOUS
  <2>1. /\ o.at = "follow" /\ follows' = o.content /\ task' = [task EXCEPT ![r] = t]
        /\ UNCHANGED <<manual, invited, black, refs, file, mixed>>
    BY <2>0, <1>1, <1>8 DEF Follow, Step
  <2> HIDE DEF o
  <2>2. /\ t \in Tasks /\ t.at = "truncate" /\ t.lists = o.lists /\ t.lone = o.lone
        /\ t.list = o.list /\ t.content = o.content /\ t.after = o.after
    BY <2>0, <1>1 DEF Tasks, Steps
  <2>3. o.list = "follows" /\ o.after = "done" /\ "follows" \in o.lists
    BY <1>1, <2>1 DEF Placed
  <2>4. Placed(t) /\ Dirty(t) = {"follows"} /\ Dirty(o) = {}
    BY <1>1, <2>1, <2>2, <2>3 DEF Placed, Dirty, Saving, ThenFollows, Moves, Resetting
  <2>5. Copied(t)'
    BY <2>1, <2>2, <2>3, MemoryOf DEF Copied, ThenFollows
  <2>6. \A l \in Lists : l \notin Dirty(t) => Memory'[l] = Memory[l] /\ file'[l] = file[l]
    BY <1>2, <2>1, <2>4, MemoryOf
  <2>7. follows' \in SUBSET Keys
    BY <1>3, <2>1
  <2>8. QED BY <1>1, <1>3, <2>1, <2>2, <2>4, <2>5, <2>6, <2>7, DirtyStepKeeps DEF o
<1>9. CASE SetupReference(r)
  <2>1. /\ o.at = "add reference" /\ refs' = refs \cup {Owner}
        /\ UNCHANGED <<manual, follows, invited, black, file, mixed>>
    BY <1>9 DEF SetupReference
  <2>2. refs' \in SUBSET Keys /\ Dirty(o) = {} /\ "refs" \in o.lists /\ "follows" \in o.lists
    BY <1>1, <2>1 DEF Dirty, Saving, Placed
  <2>3. \A l \in Lists : l # "refs" => Memory'[l] = Memory[l]
    BY <1>2, <2>1, MemoryOf
  <2>4. CASE Owner \in refs
    <3>1. task' = [task EXCEPT ![r] = Idle]
      BY <1>9, <2>4 DEF SetupReference
    <3>2. Idle.lists = {} /\ Idle.lone = {} /\ Copied(Idle)'
      BY DEF Idle, Copied, Saving
    <3>3. refs' = refs
      BY <2>1, <2>4
    <3>4. \A l \in Lists : Memory'[l] = Memory[l]
      BY <1>2, <2>3, <3>3, MemoryOf
    <3>5. QED BY <1>1, <2>1, <2>2, <3>1, <3>2, <3>4, IdleRests, DirtyStepKeeps
  <2>5. CASE Owner \notin refs
    <3>0. PICK t : t = [o EXCEPT !.at = "snapshot", !.list = "refs", !.after = "roots and sync"]
      OBVIOUS
    <3>1. task' = [task EXCEPT ![r] = t]
      BY <3>0, <1>9, <2>5 DEF SetupReference
    <3> HIDE DEF o
    <3>2. /\ t \in Tasks /\ t.at = "snapshot" /\ t.lists = o.lists /\ t.lone = o.lone
          /\ t.list = "refs" /\ t.after = "roots and sync"
      BY <3>0, <1>1 DEF Tasks, Steps, Lists
    <3>3. Placed(t) /\ Dirty(t) = {"refs"} /\ Copied(t)'
      BY <1>1, <2>2, <3>2 DEF Placed, Dirty, Copied, Saving, ThenFollows, Moves, Resetting
    <3>4. QED BY <1>1, <1>3, <2>1, <2>2, <2>3, <3>1, <3>2, <3>3, DirtyStepKeeps DEF o
  <2>6. QED BY <2>4, <2>5
<1>10. CASE ResetReferences(r)
  <2>0. PICK t : t = [o EXCEPT !.at = "list", !.content = {}, !.after = "save refs"]
    OBVIOUS
  <2>1. /\ o.at = "reset refs" /\ refs' = {} /\ task' = [task EXCEPT ![r] = t]
        /\ UNCHANGED <<manual, follows, invited, black, file, mixed>>
    BY <2>0, <1>1, <1>10 DEF ResetReferences
  <2> HIDE DEF o
  <2>2. /\ t \in Tasks /\ t.at = "list" /\ t.lists = o.lists /\ t.lone = o.lone
        /\ t.list = o.list /\ t.after = "save refs"
    BY <2>0, <1>1 DEF Tasks, Steps
  <2>3. Placed(t) /\ Dirty(t) = {"refs"} /\ Dirty(o) = {} /\ Copied(t)'
    BY <1>1, <2>1, <2>2
    DEF Placed, Dirty, Copied, Saving, ThenFollows, Moves, Resetting, Lists
  <2>4. \A l \in Lists : l # "refs" => Memory'[l] = Memory[l]
    BY <1>2, <2>1, MemoryOf
  <2>5. QED BY <1>1, <1>3, <2>1, <2>2, <2>3, <2>4, DirtyStepKeeps DEF o
<1>11. CASE ResetBlack(r)
  <2>0. PICK t : t = [o EXCEPT !.at = "snapshot", !.content = {}, !.list = "black", !.after = "done"]
    OBVIOUS
  <2>1. /\ o.at = "reset black" /\ black' = {} /\ task' = [task EXCEPT ![r] = t]
        /\ UNCHANGED <<manual, follows, invited, refs, file, mixed>>
    BY <2>0, <1>1, <1>11 DEF ResetBlack
  <2> HIDE DEF o
  <2>2. /\ t \in Tasks /\ t.at = "snapshot" /\ t.lists = o.lists /\ t.lone = o.lone
        /\ t.list = "black" /\ t.after = "done"
    BY <2>0, <1>1 DEF Tasks, Steps, Lists
  <2>3. Placed(t) /\ Dirty(t) = {"black"} /\ Dirty(o) = {} /\ Copied(t)'
    BY <1>1, <2>1, <2>2
    DEF Placed, Dirty, Copied, Saving, ThenFollows, Moves, Resetting, Lists
  <2>4. \A l \in Lists : l # "black" => Memory'[l] = Memory[l]
    BY <1>2, <2>1, MemoryOf
  <2>5. QED BY <1>1, <1>3, <2>1, <2>2, <2>3, <2>4, DirtyStepKeeps DEF o
<1>12. QED BY <1>4, <1>5, <1>6, <1>7, <1>8, <1>9, <1>10, <1>11

\* A start reads the files, and nothing is under way.
LEMMA RestartKeeps == ASSUME ListInv, Restart PROVE ListInv'
<1>1. /\ file \in [Lists -> (SUBSET Keys) \cup {Torn}] /\ invited \in SUBSET Keys
      /\ file' = file /\ invited' = invited /\ mixed' = {}
      /\ task' = [r \in Requests |-> Idle]
      /\ manual' = Configured \cup Read("manual") /\ follows' = Read("follows")
      /\ black' = Read("black") /\ refs' = Read("refs")
  BY DEF ListInv, Types, Restart
<1>2. \A l \in Lists : Read(l) \in SUBSET Keys
  BY <1>1 DEF Read
<1>3. Types'
  BY <1>1, <1>2, KeySets, IdleRests DEF Types, Lists
<1>4. \A l \in Lists : l \in {"manual", "follows", "black", "refs"}
  BY DEF Lists
<1>5. ASSUME NEW l \in Lists PROVE Clean(l)'
  <2>1. Memory'[l] = Read(l) \cup Kept(l)
    BY <1>1, <1>4, MemoryOf DEF Kept
  <2>2. Read(l)' = Read(l) /\ Kept(l)' = Kept(l)
    BY <1>1 DEF Read, Kept
  <2>3. Clean(l)' <=> Read(l)' \cup Kept(l)' = Memory'[l] \cup Kept(l)'
    BY DEF Clean
  <2>4. QED BY <2>1, <2>2, <2>3
<1>6. ASSUME NEW r \in Requests
      PROVE  /\ task'[r] = Idle /\ task'[r].lone = {} /\ task'[r].lists = {}
             /\ Placed(task'[r]) /\ Copied(task[r])'
  <2>1. task'[r] = Idle
    BY <1>1
  <2>2. Idle.lone = {} /\ Idle.lists = {} /\ Idle.at = "idle"
    BY DEF Idle
  <2>3. QED BY <2>1, <2>2, IdleRests DEF Copied, Saving
<1>7. QED BY <1>3, <1>5, <1>6 DEF ListInv, Apart, SharedIsMixed, CleanUnlessDirty

LEMMA ListFramed ==
    ASSUME ListInv, invited' \in SUBSET Keys,
           UNCHANGED <<manual, follows, black, refs, file, task, mixed>>
    PROVE  ListInv'
<1>1. Memory' = Memory
  BY DEF Memory
<1>2. \A l : Clean(l) => Clean(l)'
  BY <1>1 DEF Clean, Read, Kept
<1>3. \A r \in Requests : Copied(task[r]) => Copied(task[r])'
  BY <1>1 DEF Copied
<1>4. Types'
  BY DEF ListInv, Types
<1>5. QED BY <1>2, <1>3, <1>4 DEF ListInv, Apart, SharedIsMixed, CleanUnlessDirty

LEMMA ListInvStarts == ASSUME Init PROVE ListInv
<1>1. /\ file \in SavedLists /\ manual = Configured \cup file.manual
      /\ follows = file.follows /\ black = file.black /\ refs = file.refs /\ invited = {}
      /\ task = [r \in Requests |-> Idle] /\ mixed = {}
  BY DEF Init
<1>2. /\ DOMAIN file = Lists
      /\ file.manual \in SUBSET Keys /\ file.follows \in SUBSET Keys
      /\ file.black \in SUBSET Keys /\ file.refs \in SUBSET Keys
  <2>1. \A found \in SUBSET RefKeys : UNION {Published[k] : k \in found} \subseteq Keys
    BY KeySets, PublishedAssumption
  <2>2. QED BY <1>1, <2>1, KeySets DEF SavedLists, Lists
<1>3. \A l \in Lists : l \in {"manual", "follows", "black", "refs"}
  BY DEF Lists
<1>4. \A l \in Lists : file[l] \in SUBSET Keys
  BY <1>2, <1>3
<1>5. file \in [Lists -> (SUBSET Keys) \cup {Torn}]
  <2>1. file = [l \in Lists |-> file[l]]
    BY <1>1, <1>2 DEF SavedLists
  <2>2. QED BY <1>4, <2>1
<1>6. Types
  BY <1>1, <1>2, <1>5, KeySets, IdleRests DEF Types
<1>7. ASSUME NEW l \in Lists PROVE Clean(l)
  <2>1. Read(l) = file[l]
    BY <1>4, TornAssumption DEF Read, Torn
  <2>2. Memory[l] = file[l] \cup Kept(l)
    BY <1>1, <1>3, MemoryOf DEF Kept
  <2>3. QED BY <2>1, <2>2 DEF Clean
<1>8. ASSUME NEW r \in Requests
      PROVE  /\ task[r] = Idle /\ task[r].lone = {} /\ task[r].lists = {}
             /\ Placed(task[r]) /\ Copied(task[r])
  <2>1. Idle.lone = {} /\ Idle.lists = {} /\ Idle.at = "idle"
    BY DEF Idle
  <2>2. QED BY <1>1, <2>1, IdleRests DEF Copied, Saving
<1>9. QED BY <1>6, <1>7, <1>8 DEF ListInv, Apart, SharedIsMixed, CleanUnlessDirty

LEMMA ListStep == ASSUME ListInv, [Next]_vars PROVE ListInv'
<1>1. ASSUME NEW r \in Requests,
             Request(r) \/ SetupLists(r) \/ (owned /\ ResetLists(r)) \/ RequestStep(r)
      PROVE  ListInv'
  BY <1>1, RequestKeeps, OwnerKeeps, SavingKeeps, WriteKeeps, BetweenKeeps DEF RequestStep
<1>2. ASSUME NEW k \in InviteKeys, SetInvited(k) PROVE ListInv'
  <2>1. invited' \in SUBSET Keys
    BY <1>2, KeySets DEF SetInvited, ListInv, Types
  <2>2. QED BY <1>2, <2>1, ListFramed DEF SetInvited
<1>3. ASSUME NEW k \in Clients, ResolveWot(k) \/ Expire(k) PROVE ListInv'
  BY <1>3, ListFramed DEF ResolveWot, Expire, lists, ListInv, Types
<1>4. CASE RebuildGraph \/ UNCHANGED vars
  BY <1>4, ListFramed DEF RebuildGraph, vars, accessVars, lists, ListInv, Types
<1>5. CASE Restart
  BY <1>5, RestartKeeps
<1>6. QED BY <1>1, <1>2, <1>3, <1>4, <1>5 DEF Next

LEMMA ListsHold == Spec => []ListInv
<1>1. Init => ListInv
  BY ListInvStarts
<1>2. ListInv /\ [Next]_vars => ListInv'
  BY ListStep
<1>3. QED BY <1>1, <1>2, PTL DEF Spec

\* A list nobody is changing and whose last change was alone and saved is its file.
LEMMA AtRestIsClean ==
    ASSUME ListInv, NEW l \in Lists \ mixed, ~Busy({l}) PROVE Clean(l)
<1>1. ASSUME NEW r \in Requests PROVE l \notin Dirty(task[r])
  <2>1. l \notin task[r].lists
    BY DEF Busy
  <2>2. task[r] \in Tasks /\ Placed(task[r])
    BY DEF ListInv, Types
  <2>3. QED BY <2>1, <2>2, DirtyIsListed
<1>2. QED BY <1>1 DEF ListInv, CleanUnlessDirty

-----------------------------------------------------------------------------
(* What a restart finds, and what opens the relay. *)

\* whitelist.rs, blacklist.rs: however requests interleave with their saves, a restart finds
\* every list as it was, but for one that a request was changing, that two changed at once,
\* or whose file could not be written.
THEOREM ListsSurviveRestart == Spec => RestartKeepsLists
<1>1. ASSUME ListInv, Restart, NEW l \in Lists \ mixed, ~Busy({l})
      PROVE  Memory'[l] = Memory[l] \cup IF l = "manual" THEN Configured ELSE {}
  <2>1. Read(l) \cup Kept(l) = Memory[l] \cup Kept(l)
    BY <1>1, AtRestIsClean DEF Clean
  <2>2. l \in {"manual", "follows", "black", "refs"}
    BY DEF Lists
  <2>3. Memory'[l] = Read(l) \cup Kept(l)
    BY <1>1, <2>2, MemoryOf DEF Restart, Kept
  <2>4. QED BY <2>1, <2>3 DEF Kept
<1>2. ListInv => (Restart => \A l \in Lists \ mixed : ~Busy({l}) =>
                     Memory'[l] = Memory[l] \cup IF l = "manual" THEN Configured ELSE {})
  BY <1>1
<1>3. QED BY <1>2, ListsHold, PTL DEF RestartKeepsLists

\* A request is under way once it has begun.
LEMMA BeginBegins ==
    ASSUME task \in [Requests -> Tasks], NEW r \in Requests, NEW ls, NEW at, NEW list, NEW after,
           Begin(r, ls, at, list, after), at # "idle"
    PROVE  task[r] = Idle /\ task'[r] # Idle
<1>1. PICK shared \in SUBSET ls : Begins(r, ls, shared, at, list, after)
  BY BeginIs
<1>2. task'[r] = Begun(ls, ls \ shared, at, list, after)
  BY <1>1 DEF Begins
<1>3. task'[r].at = at /\ Idle.at = "idle"
  BY <1>2 DEF Begun, Idle
<1>4. QED BY <1>3 DEF Begin

\* whitelist.rs is_empty, admin.rs: no step of a save, no follow sync that finds somebody, no
\* redeemed invite and no restart that reads whole files takes the restriction off.
THEOREM RequestsOpen == Spec => OpensByRequestOnly
<1> DEFINE excused ==
              \/ \E r \in Requests : \/ task[r].at \in {"follow", "empty follows"}
                                     \/ task[r] = Idle /\ task'[r] # Idle
              \/ wot /\ ~wot'
              \/ Torn \in {file["manual"], file["follows"]}
              \/ {"manual", "follows"} \cap mixed # {} \/ Busy({"manual", "follows"})
<1>1. ASSUME ListInv, [Next]_vars, ~isEmpty, isEmpty' PROVE excused
  <2>1. task \in [Requests -> Tasks]
    BY <1>1 DEF ListInv, Types
  <2>2. ~UNCHANGED <<manual, follows, wot>>
    BY <1>1 DEF isEmpty
  <2>3. ASSUME NEW r \in Requests, Request(r) \/ SetupLists(r) \/ (owned /\ ResetLists(r))
        PROVE  task[r] = Idle /\ task'[r] # Idle
    BY <2>1, <2>3, BeginBegins
    DEF Request, SetupLists, ResetLists, WhitelistAdd, WhitelistRemove, BlacklistAdd, BlacklistRemove,
        ReferenceAdd, ReferenceRemove, SyncRequest, OpenRelay, RestrictRelay
  <2>4. ASSUME NEW r \in Requests, RequestStep(r) PROVE excused
    <3>1. EmptyFollows(r) \/ Follow(r)
      BY <2>2, <2>4
      DEF RequestStep, Snapshot, Truncate, Write, WriteFails, ListRoots, SetRoots, StartSync, Fetch,
          SetupReference, ResetReferences, ResetBlack, accessVars, lists, wotState, wotSettings
    <3>2. QED BY <3>1 DEF EmptyFollows, Follow
  <2>5. CASE Restart
    <3>1. ~wot' /\ manual' = {} /\ follows' = {} /\ Read("manual") = {} /\ Configured = {}
          /\ Read("follows") = {}
      BY <1>1, <2>5 DEF isEmpty, Restart
    <3>2. CASE \/ wot \/ "manual" \in mixed \/ "follows" \in mixed
               \/ Busy({"manual"}) \/ Busy({"follows"})
      BY <3>1, <3>2 DEF Busy
    <3>3. CASE ~wot /\ {"manual", "follows"} \subseteq Lists \ mixed
               /\ ~Busy({"manual"}) /\ ~Busy({"follows"})
      <4>1. Clean("manual") /\ Clean("follows")
        BY <1>1, <3>3, AtRestIsClean
      <4>2. manual = {} /\ follows = {}
        BY <3>1, <4>1, MemoryOf DEF Clean, Kept
      <4>3. QED BY <1>1, <3>3, <4>2 DEF isEmpty
    <3>4. QED BY <3>2, <3>3 DEF Lists
  <2>6. CASE \/ \E k \in InviteKeys : SetInvited(k)
             \/ \E k \in Clients : ResolveWot(k) \/ Expire(k)
             \/ RebuildGraph \/ UNCHANGED vars
    BY <2>2, <2>6 DEF SetInvited, ResolveWot, Expire, RebuildGraph, vars, accessVars, lists, wotState, wotSettings
  <2>7. CASE \E r \in Requests : Request(r) \/ SetupLists(r) \/ (owned /\ ResetLists(r))
    BY <2>3, <2>7
  <2>8. CASE \E r \in Requests : RequestStep(r)
    BY <2>4, <2>8
  <2> HIDE DEF excused
  <2>9. QED BY <1>1, <2>5, <2>6, <2>7, <2>8 DEF Next
<1>2. ListInv /\ [Next]_vars =>
        [~isEmpty /\ isEmpty' =>
            \/ \E r \in Requests : \/ task[r].at \in {"follow", "empty follows"}
                                   \/ task[r] = Idle /\ task'[r] # Idle
            \/ wot /\ ~wot'
            \/ Torn \in {file["manual"], file["follows"]}
            \/ {"manual", "follows"} \cap mixed # {} \/ Busy({"manual", "follows"})]_vars
  BY <1>1
<1>3. QED BY <1>2, ListsHold, PTL DEF OpensByRequestOnly, Spec

-----------------------------------------------------------------------------
(* The roots of the Web of Trust. *)

\* The roots are the pinned ones.  Without any they go with the reference accounts but for
\* the request that has still to set them, and nobody else is changing those accounts then.
RootsInv ==
    /\ wot /\ pinned # {} => roots = pinned
    /\ ~crossed =>
        /\ \A r \in Requests : "refs" \in task[r].lists => "refs" \in task[r].lone
        /\ wot /\ pinned = {} => roots = refs \/ \E r \in Requests : Moving(task[r])

\* One request takes a step, and has still to set the roots if the reference accounts change
\* or it had to set them before.
LEMMA RootsStepKeeps ==
    ASSUME ListInv, RootsInv, NEW r \in Requests, NEW t,
           task' = [task EXCEPT ![r] = t],
           t.lists \subseteq task[r].lists, t.lone = task[r].lone \cap t.lists,
           UNCHANGED <<wot, pinned, roots, crossed>>,
           Moving(t) \/ (refs' = refs /\ ~Moving(task[r]))
    PROVE  RootsInv'
<1>1. task'[r] = t /\ \A q \in Requests \ {r} : task'[q] = task[q]
  BY DEF ListInv, Types
<1>2. ASSUME ~crossed, NEW q \in Requests, "refs" \in task'[q].lists PROVE "refs" \in task'[q].lone
  <2>1. "refs" \in task[q].lone
    BY <1>1, <1>2 DEF RootsInv
  <2>2. QED BY <1>1, <1>2, <2>1
<1>3. ASSUME ~crossed, wot, pinned = {} PROVE roots' = refs' \/ \E q \in Requests : Moving(task'[q])
  <2>1. CASE Moving(t)
    BY <1>1, <2>1
  <2>2. CASE refs' = refs /\ ~Moving(task[r])
    BY <1>1, <1>3, <2>2 DEF RootsInv
  <2>3. QED BY <2>1, <2>2
<1>4. QED BY <1>2, <1>3 DEF RootsInv

\* A request that begins with the reference accounts, and is alone with them.
LEMMA RootsBeginKeeps ==
    ASSUME ListInv, RootsInv, NEW r \in Requests, NEW ls \in SUBSET Lists, NEW at, NEW list, NEW after,
           Begin(r, ls, at, list, after), UNCHANGED <<wot, pinned, roots>>,
           crossed' <=> crossed \/ ("refs" \in ls /\ BusyBeside(r, {"refs"})),
           refs' = refs \/ Moving(Begun(ls, {}, at, list, after))
    PROVE  RootsInv'
<1>1. task \in [Requests -> Tasks]
  BY DEF ListInv, Types
<1>2. PICK shared \in SUBSET ls : Begins(r, ls, shared, at, list, after)
  BY <1>1, BeginIs
<1>3. /\ task'[r] = Begun(ls, ls \ shared, at, list, after)
      /\ \A l \in ls : l \in shared <=> \E q \in Requests \ {r} : l \in task[q].lists
  BY <1>2 DEF Begins
<1>4. /\ task'[r].lists = ls /\ task'[r].lone = ls \ shared
      /\ Moving(task'[r]) <=> Moving(Begun(ls, {}, at, list, after))
  BY <1>3 DEF Begun, Idle, Moving
<1>5. ASSUME NEW q \in Requests, q # r
      PROVE  /\ task'[q].lists = task[q].lists /\ task'[q].lone = task[q].lone \ ls
             /\ Moving(task'[q]) <=> Moving(task[q])
  <2>1. task'[q] = [task[q] EXCEPT !.lone = @ \ ls] /\ task[q] \in Tasks
    BY <1>1, <1>2, <1>5 DEF Begins
  <2>2. /\ task'[q].lists = task[q].lists /\ task'[q].lone = task[q].lone \ ls
        /\ task'[q].at = task[q].at /\ task'[q].after = task[q].after
    BY <2>1 DEF Tasks
  <2>3. QED BY <2>2 DEF Moving
<1>6. ~Moving(task[r])
  BY IdleRests DEF Begin
<1>7. ASSUME ~crossed', NEW q \in Requests, "refs" \in task'[q].lists PROVE "refs" \in task'[q].lone
  <2>1. CASE q = r
    BY <1>3, <1>4, <1>7, <2>1 DEF BusyBeside
  <2>2. CASE q # r
    <3>1. "refs" \in task[q].lists /\ "refs" \in task[q].lone
      BY <1>5, <1>7, <2>2 DEF RootsInv
    <3>2. "refs" \notin ls
      BY <1>7, <2>2, <3>1 DEF BusyBeside
    <3>3. QED BY <1>5, <2>2, <3>1, <3>2
  <2>3. QED BY <2>1, <2>2
<1>8. ASSUME ~crossed', wot', pinned' = {} PROVE roots' = refs' \/ \E q \in Requests : Moving(task'[q])
  <2>1. CASE Moving(Begun(ls, {}, at, list, after))
    BY <1>4, <2>1
  <2>2. CASE refs' = refs
    <3>1. roots = refs \/ \E q \in Requests : Moving(task[q])
      BY <1>8 DEF RootsInv
    <3>2. CASE roots = refs
      BY <2>2, <3>2
    <3>3. CASE \E q \in Requests : Moving(task[q])
      BY <1>5, <1>6, <3>3
    <3>4. QED BY <3>1, <3>2, <3>3
  <2>3. QED BY <2>1, <2>2
<1>9. QED BY <1>7, <1>8 DEF RootsInv

\* A step of a request that leaves the roots alone.
LEMMA RootsRequestStep ==
    ASSUME ListInv, RootsInv, NEW r \in Requests, RequestStep(r), ~SetRoots(r) PROVE RootsInv'
<1> DEFINE o == task[r]
<1>1. /\ task \in [Requests -> Tasks] /\ o \in Tasks /\ Placed(o) /\ o.lone \subseteq o.lists
  BY DEF ListInv, Types, Placed
<1>2. UNCHANGED <<wot, pinned, roots, crossed>>
  BY DEF RequestStep, EmptyFollows, Snapshot, Truncate, Write, WriteFails, ListRoots, StartSync,
         Fetch, Follow, SetupReference, ResetReferences, ResetBlack, accessVars, wotState, wotSettings
<1>3. CASE Write(r) \/ WriteFails(r)
  <2>0. PICK saved \in BOOLEAN : Then(r, saved)
    BY <1>3 DEF Write, WriteFails
  <2>1. refs' = refs /\ o.at \in {"truncate", "write"}
    BY <1>3 DEF Write, WriteFails
  <2>2. PICK t \in Tasks :
            /\ task' = [task EXCEPT ![r] = t]
            /\ t.lists \subseteq o.lists /\ t.lone = o.lone \cap t.lists
            /\ Moving(o) => Moving(t)
    BY <1>1, <2>0, <2>1, ThenGoesOn
  <2>3. QED BY <1>2, <2>1, <2>2, RootsStepKeeps
<1>4. ASSUME NEW t, task' = [task EXCEPT ![r] = t], t.lists = o.lists, t.lone = o.lone,
             Moving(t) \/ (refs' = refs /\ ~Moving(o))
      PROVE  RootsInv'
  BY <1>1, <1>2, <1>4, RootsStepKeeps
<1>5. CASE EmptyFollows(r)
  <2>1. PICK t : t = [o EXCEPT !.at = "snapshot"]
    OBVIOUS
  <2>2. task' = [task EXCEPT ![r] = t] /\ refs' = refs /\ o.at = "empty follows"
    BY <1>1, <1>5, <2>1 DEF EmptyFollows, Step
  <2> HIDE DEF o
  <2>3. t.lists = o.lists /\ t.lone = o.lone /\ ~Moving(o)
    BY <1>1, <2>1, <2>2 DEF Tasks, Moving, Saving
  <2>4. QED BY <1>4, <2>2, <2>3
<1>6. CASE Snapshot(r)
  <2>1. PICK t : t = [o EXCEPT !.at = "truncate", !.content = Memory[o.list]]
    OBVIOUS
  <2>2. task' = [task EXCEPT ![r] = t] /\ refs' = refs /\ o.at = "snapshot"
    BY <1>1, <1>6, <2>1 DEF Snapshot, Copy
  <2> HIDE DEF o
  <2>3. t.lists = o.lists /\ t.lone = o.lone /\ (Moving(o) => Moving(t))
    BY <1>1, <2>1, <2>2 DEF Tasks, Moving, Saving
  <2>4. QED BY <1>4, <2>2, <2>3
<1>7. CASE Truncate(r)
  <2>1. PICK t : t = [o EXCEPT !.at = "write"]
    OBVIOUS
  <2>2. task' = [task EXCEPT ![r] = t] /\ refs' = refs /\ o.at = "truncate"
    BY <1>1, <1>7, <2>1 DEF Truncate, Step
  <2> HIDE DEF o
  <2>3. t.lists = o.lists /\ t.lone = o.lone /\ (Moving(o) => Moving(t))
    BY <1>1, <2>1, <2>2 DEF Tasks, Moving, Saving
  <2>4. QED BY <1>4, <2>2, <2>3
<1>8. CASE ListRoots(r)
  <2>1. PICK t : t = [o EXCEPT !.at = "roots", !.content = refs]
    OBVIOUS
  <2>2. task' = [task EXCEPT ![r] = t]
    BY <1>1, <1>8, <2>1 DEF ListRoots, Copy
  <2> HIDE DEF o
  <2>3. t.lists = o.lists /\ t.lone = o.lone /\ Moving(t)
    BY <1>1, <2>1 DEF Tasks, Moving
  <2>4. QED BY <1>4, <2>2, <2>3
<1>9. CASE StartSync(r)
  <2>1. refs' = refs /\ o.at = "sync" /\ ~Moving(o)
    BY <1>9 DEF StartSync, Moving, Saving
  <2>2. CASE refs = {}
    <3>1. task' = [task EXCEPT ![r] = Idle] /\ Idle.lists = {} /\ Idle.lone = {}
      BY <1>9, <2>2 DEF StartSync, Idle
    <3>2. QED BY <1>2, <2>1, <3>1, RootsStepKeeps
  <2>3. CASE refs # {}
    <3>1. PICK t : t = [o EXCEPT !.at = "fetch", !.content = refs]
      OBVIOUS
    <3>2. task' = [task EXCEPT ![r] = t]
      BY <1>1, <1>9, <2>3, <3>1 DEF StartSync, Copy
    <3> HIDE DEF o
    <3>3. t.lists = o.lists /\ t.lone = o.lone
      BY <1>1, <3>1 DEF Tasks
    <3>4. QED BY <1>4, <2>1, <3>2, <3>3
  <2>4. QED BY <2>2, <2>3
<1>10. CASE Fetch(r)
  <2>1. PICK found \in SUBSET o.content :
            task' = [task EXCEPT ![r].at = "follow", ![r].content = UNION {Published[k] : k \in found}]
    BY <1>10 DEF Fetch, Copy
  <2>2. PICK t : t = [o EXCEPT !.at = "follow", !.content = UNION {Published[k] : k \in found}]
    OBVIOUS
  <2>3. task' = [task EXCEPT ![r] = t] /\ refs' = refs /\ o.at = "fetch"
    BY <1>1, <1>10, <2>1, <2>2 DEF Fetch
  <2> HIDE DEF o
  <2>4. t.lists = o.lists /\ t.lone = o.lone /\ ~Moving(o)
    BY <1>1, <2>2, <2>3 DEF Tasks, Moving, Saving
  <2>5. QED BY <1>4, <2>3, <2>4
<1>11. CASE Follow(r)
  <2>1. PICK t : t = [o EXCEPT !.at = "truncate"]
    OBVIOUS
  <2>2. task' = [task EXCEPT ![r] = t] /\ refs' = refs /\ o.at = "follow"
    BY <1>1, <1>11, <2>1 DEF Follow, Step
  <2> HIDE DEF o
  <2>3. t.lists = o.lists /\ t.lone = o.lone /\ ~Moving(o)
    BY <1>1, <2>1, <2>2 DEF Tasks, Moving, Saving
  <2>4. QED BY <1>4, <2>2, <2>3
<1>12. CASE SetupReference(r)
  <2>1. o.at = "add reference" /\ refs' = refs \cup {Owner} /\ ~Moving(o)
    BY <1>12 DEF SetupReference, Moving, Saving
  <2>2. CASE Owner \in refs
    <3>1. task' = [task EXCEPT ![r] = Idle] /\ Idle.lists = {} /\ Idle.lone = {}
      BY <1>12, <2>2 DEF SetupReference, Idle
    <3>2. refs' = refs
      BY <2>1, <2>2
    <3>3. QED BY <1>2, <2>1, <3>1, <3>2, RootsStepKeeps
  <2>3. CASE Owner \notin refs
    <3>1. PICK t : t = [o EXCEPT !.at = "snapshot", !.list = "refs", !.after = "roots and sync"]
      OBVIOUS
    <3>2. task' = [task EXCEPT ![r] = t]
      BY <1>12, <2>3, <3>1 DEF SetupReference
    <3> HIDE DEF o
    <3>3. t.lists = o.lists /\ t.lone = o.lone /\ Moving(t)
      BY <1>1, <3>1 DEF Tasks, Moving, Saving, Moves
    <3>4. QED BY <1>4, <3>2, <3>3
  <2>4. QED BY <2>2, <2>3
<1>13. CASE ResetReferences(r)
  <2>1. PICK t : t = [o EXCEPT !.at = "list", !.content = {}, !.after = "save refs"]
    OBVIOUS
  <2>2. task' = [task EXCEPT ![r] = t]
    BY <1>1, <1>13, <2>1 DEF ResetReferences
  <2> HIDE DEF o
  <2>3. t.lists = o.lists /\ t.lone = o.lone /\ Moving(t)
    BY <1>1, <2>1 DEF Tasks, Moving
  <2>4. QED BY <1>4, <2>2, <2>3
<1>14. CASE ResetBlack(r)
  <2>1. PICK t : t = [o EXCEPT !.at = "snapshot", !.content = {}, !.list = "black", !.after = "done"]
    OBVIOUS
  <2>2. task' = [task EXCEPT ![r] = t] /\ refs' = refs /\ o.at = "reset black"
    BY <1>1, <1>14, <2>1 DEF ResetBlack
  <2> HIDE DEF o
  <2>3. t.lists = o.lists /\ t.lone = o.lone /\ ~Moving(o)
    BY <1>1, <2>1, <2>2 DEF Tasks, Moving, Saving
  <2>4. QED BY <1>4, <2>2, <2>3
<1>15. QED BY <1>3, <1>5, <1>6, <1>7, <1>8, <1>9, <1>10, <1>11, <1>12, <1>13, <1>14 DEF RequestStep

\* The request that sets the roots sets them to what it has listed, which is what the
\* reference accounts are when it is alone with them.
LEMMA SetRootsKeeps ==
    ASSUME ListInv, RootsInv, NEW r \in Requests, SetRoots(r) PROVE RootsInv'
<1> DEFINE o == task[r]
<1>1. /\ task \in [Requests -> Tasks] /\ o \in Tasks /\ Placed(o) /\ Copied(o) /\ Apart
      /\ o.lone \subseteq o.lists
  BY DEF ListInv, Types, Placed
<1>2. /\ o.at = "roots" /\ UNCHANGED <<refs, wot, pinned>>
      /\ roots' = IF wot /\ pinned = {} THEN o.content ELSE roots
      /\ crossed' <=> crossed /\ "refs" \notin o.lone
  BY DEF SetRoots, wotSettings
<1>3. "refs" \in o.lists /\ o.after \in {"roots", "roots and sync", "save refs"}
  BY <1>1, <1>2 DEF Placed, Moves, Resetting, Lists
<1>4. PICK t : /\ task' = [task EXCEPT ![r] = t]
               /\ "refs" \in t.lists => "refs" \in o.lists /\ t.lone = o.lone
  <2>1. CASE o.after = "roots"
    <3>1. task' = [task EXCEPT ![r] = Idle] /\ Idle.lists = {}
      BY <2>1 DEF SetRoots, Idle
    <3>2. QED BY <3>1
  <2>2. CASE o.after = "roots and sync"
    <3>1. PICK t : t = [Idle EXCEPT !.at = "sync", !.lists = {"follows"}, !.list = "follows",
                                    !.lone = o.lone \cap {"follows"}]
      OBVIOUS
    <3>2. task' = [task EXCEPT ![r] = t]
      BY <2>2, <3>1 DEF SetRoots
    <3>3. t.lists = {"follows"}
      BY <3>1 DEF Idle
    <3>4. QED BY <3>2, <3>3
  <2>3. CASE o.after = "save refs"
    <3>1. PICK t : t = [o EXCEPT !.at = "snapshot", !.list = "refs", !.content = {},
                                 !.after = "reset black"]
      OBVIOUS
    <3>2. task' = [task EXCEPT ![r] = t]
      BY <2>3, <3>1 DEF SetRoots
    <3> HIDE DEF o
    <3>3. t.lists = o.lists /\ t.lone = o.lone
      BY <1>1, <3>1 DEF Tasks
    <3>4. QED BY <3>2, <3>3
  <2>4. QED BY <1>3, <2>1, <2>2, <2>3
<1>5. task'[r] = t /\ \A q \in Requests \ {r} : task'[q] = task[q]
  BY <1>1, <1>4
<1>6. ASSUME ~crossed' PROVE "refs" \in o.lone
  BY <1>2, <1>3, <1>6 DEF RootsInv
<1>7. ASSUME ~crossed', NEW q \in Requests, "refs" \in task'[q].lists PROVE "refs" \in task'[q].lone
  <2>1. CASE q = r
    BY <1>4, <1>5, <1>6, <1>7, <2>1
  <2>2. CASE q # r
    BY <1>1, <1>5, <1>6, <1>7, <2>2 DEF Apart
  <2>3. QED BY <2>1, <2>2
<1>8. ASSUME ~crossed', wot', pinned' = {} PROVE roots' = refs'
  BY <1>1, <1>2, <1>6, <1>8, MemoryOf DEF Copied
<1>9. wot' /\ pinned' # {} => roots' = pinned'
  BY <1>2 DEF RootsInv
<1>10. QED BY <1>7, <1>8, <1>9 DEF RootsInv

\* Where each request begins, with respect to the reference accounts.
LEMMA RootsRequestBegins ==
    ASSUME ListInv, RootsInv, NEW r \in Requests,
           Request(r) \/ SetupLists(r) \/ (owned /\ ResetLists(r))
    PROVE  RootsInv'
<1> USE DEF accessVars, wotState, wotSettings
<1>1. ASSUME NEW ls \in SUBSET Lists, "refs" \notin ls, NEW at, NEW list, NEW after,
             Begin(r, ls, at, list, after), UNCHANGED <<wot, pinned, roots, crossed, refs>>
      PROVE  RootsInv'
  BY <1>1, RootsBeginKeeps
<1>2. ASSUME NEW ls \in SUBSET Lists, "refs" \in ls, NEW at, NEW list, NEW after,
             Begin(r, ls, at, list, after), UNCHANGED <<wot, pinned, roots>>, crossed' = Crossing(r),
             refs' = refs \/ Moving(Begun(ls, {}, at, list, after))
      PROVE  RootsInv'
  BY <1>2, RootsBeginKeeps DEF Crossing
<1>3. /\ {"manual"} \in SUBSET Lists /\ {"black"} \in SUBSET Lists /\ {"follows"} \in SUBSET Lists
      /\ {"manual", "follows"} \in SUBSET Lists /\ {"refs"} \in SUBSET Lists
      /\ {"refs", "follows"} \in SUBSET Lists /\ {"manual", "refs", "follows"} \in SUBSET Lists
      /\ Lists \in SUBSET Lists /\ "refs" \in Lists
  BY DEF Lists
<1>4. ASSUME NEW k, WhitelistAdd(r, k) \/ WhitelistRemove(r, k) PROVE RootsInv'
  BY <1>1, <1>3, <1>4 DEF WhitelistAdd, WhitelistRemove
<1>5. ASSUME NEW k, BlacklistAdd(r, k) \/ BlacklistRemove(r, k) PROVE RootsInv'
  BY <1>1, <1>3, <1>5 DEF BlacklistAdd, BlacklistRemove
<1>6. ASSUME NEW k, ReferenceAdd(r, k) PROVE RootsInv'
  <2>1. Moving(Begun({"refs", "follows"}, {}, "snapshot", "refs", "roots and sync"))
    BY DEF Moving, Begun, Idle, Saving, Moves
  <2>2. QED BY <1>2, <1>3, <1>6, <2>1 DEF ReferenceAdd
<1>7. ASSUME NEW k, ReferenceRemove(r, k) PROVE RootsInv'
  <2>1. Moving(Begun({"refs"}, {}, "snapshot", "refs", "roots"))
    BY DEF Moving, Begun, Idle, Saving, Moves
  <2>2. QED BY <1>2, <1>3, <1>7, <2>1 DEF ReferenceRemove
<1>8. CASE SyncRequest(r)
  BY <1>1, <1>3, <1>8 DEF SyncRequest
<1>9. CASE OpenRelay(r)
  BY <1>1, <1>3, <1>9 DEF OpenRelay
<1>10. CASE RestrictRelay(r)
  BY <1>1, <1>3, <1>10 DEF RestrictRelay
<1>11. CASE SetupLists(r)
  <2>1. /\ UNCHANGED <<wot, pinned, roots, refs>>
        /\ \/ Begin(r, {"manual"}, "snapshot", "manual", "done") /\ crossed' = crossed
           \/ /\ Begin(r, {"manual", "refs", "follows"}, "snapshot", "manual", "add reference")
              /\ crossed' = Crossing(r)
           \/ /\ Begin(r, {"refs", "follows"}, "add reference", "refs", "add reference")
              /\ crossed' = Crossing(r)
    BY <1>11 DEF SetupLists
  <2>2. CASE Begin(r, {"manual"}, "snapshot", "manual", "done") /\ crossed' = crossed
    BY <1>1, <1>3, <2>1, <2>2
  <2>3. CASE /\ Begin(r, {"manual", "refs", "follows"}, "snapshot", "manual", "add reference")
             /\ crossed' = Crossing(r)
    BY <1>2, <1>3, <2>1, <2>3
  <2>4. CASE /\ Begin(r, {"refs", "follows"}, "add reference", "refs", "add reference")
             /\ crossed' = Crossing(r)
    BY <1>2, <1>3, <2>1, <2>4
  <2>5. QED BY <2>1, <2>2, <2>3, <2>4
<1>12. CASE ResetLists(r)
  BY <1>2, <1>3, <1>12 DEF ResetLists
<1>13. QED BY <1>4, <1>5, <1>6, <1>7, <1>8, <1>9, <1>10, <1>11, <1>12 DEF Request

\* reference_accounts.rs, admin.rs refresh_wot_roots: however the changes of the reference
\* accounts interleave with the setting of the roots, once the last of them is through the
\* graph is measured from the accounts as they are, unless two changes overlapped; roots
\* that the settings pin stay as they are.
THEOREM RootsFollowReferences == Spec => []RootsAreReferences
<1>1. ASSUME Init PROVE RootsInv
  <2>1. \A r \in Requests : task[r].lists = {}
    BY <1>1 DEF Init, Idle
  <2>2. wot => roots = Centre
    BY <1>1 DEF Init
  <2>3. QED BY <2>1, <2>2 DEF RootsInv, Centre
<1>2. ASSUME ListInv, RootsInv, [Next]_vars PROVE RootsInv'
  <2>1. CASE \E r \in Requests : RequestStep(r)
    BY <1>2, <2>1, RootsRequestStep, SetRootsKeeps
  <2>2. CASE \E r \in Requests : Request(r) \/ SetupLists(r) \/ (owned /\ ResetLists(r))
    BY <1>2, <2>2, RootsRequestBegins
  <2>3. CASE Restart
    <3>1. \A r \in Requests : task'[r] = Idle /\ Idle.lists = {}
      BY <2>3 DEF Restart, Idle
    <3>2. wot' => roots' = Centre'
      BY <2>3 DEF Restart
    <3>3. QED BY <3>1, <3>2 DEF RootsInv, Centre
  <2>4. CASE \/ \E k \in InviteKeys : SetInvited(k)
             \/ \E k \in Clients : ResolveWot(k) \/ Expire(k)
             \/ RebuildGraph \/ UNCHANGED vars
    <3>1. UNCHANGED <<wot, pinned, roots, refs, task, crossed>>
      BY <2>4 DEF SetInvited, ResolveWot, Expire, RebuildGraph, vars, accessVars, lists, wotState, wotSettings
    <3>2. QED BY <1>2, <3>1 DEF RootsInv
  <2>5. QED BY <1>2, <2>1, <2>2, <2>3, <2>4 DEF Next
<1>3. ASSUME ListInv, RootsInv PROVE RootsAreReferences
  <2>1. ASSUME NEW r \in Requests, Moving(task[r]) PROVE "refs" \in task[r].lists
    <3>1. Placed(task[r])
      BY <1>3 DEF ListInv
    <3>2. QED BY <2>1, <3>1 DEF Placed, Moving, Moves, Resetting, Lists
  <2>2. QED BY <1>3, <2>1 DEF RootsInv, RootsAreReferences, Busy, Centre
<1>4. QED BY <1>1, <1>2, <1>3, ListsHold, PTL DEF Spec

-----------------------------------------------------------------------------
(* What the search of the follow graph finds. *)

\* A non-empty set of naturals has a least element.
LEMMA LeastOf ==
    ASSUME NEW S \in SUBSET Nat, S # {}
    PROVE  \E m \in S : \A n \in S : ~(n < m)
<1>1. PICK m \in S : \A n \in S : <<n, m>> \notin OpToRel(<, Nat)
  <2>1. IsWellFoundedOn(OpToRel(<, Nat), Nat)
    BY NatLessThanWellFounded
  <2> QED BY <2>1, WFMin, Zenon
<1>2. QED BY <1>1, Zenon DEF OpToRel

\* Induction over the hops, with the hops of which something holds as a set.
LEMMA HopInduction ==
    ASSUME NEW S, 0 \in S,
           \A hop \in 0..MaxHops : hop \in S /\ hop + 1 \in 0..MaxHops => hop + 1 \in S
    PROVE  \A hop \in 0..MaxHops : hop \in S
<1> DEFINE left == {hop \in 0..MaxHops : hop \notin S}
<1> SUFFICES ASSUME left # {} PROVE FALSE
  OBVIOUS
<1>1. left \in SUBSET Nat
  BY HopsAssumption
<1>2. PICK m \in left : \A n \in left : ~(n < m)
  BY <1>1, LeastOf
<1>3. m \in 0..MaxHops /\ m \notin S /\ m # 0
  BY <1>2
<1>4. m - 1 \in 0..MaxHops /\ m - 1 < m /\ (m - 1) + 1 = m
  BY <1>3, HopsAssumption
<1>5. m - 1 \in S
  BY <1>2, <1>4
<1>6. QED BY <1>3, <1>4, <1>5

\* Whom the accounts of a layer follow for the first time, and the layer they make.
Following(g, last) == FollowsOf(g, last.frontier) \ last.seen
After(g, last) == [frontier |-> Following(g, last), seen |-> last.seen \cup Following(g, last)]
Ground(rs) == [frontier |-> rs, seen |-> rs]

\* The layers are what the recursive function says: some function meets its equation.
LEMMA LayersStep ==
    ASSUME NEW g, NEW rs
    PROVE  /\ Layers(g, rs)[0] = Ground(rs)
           /\ \A hop \in 0..MaxHops :
                 hop + 1 \in 0..MaxHops => Layers(g, rs)[hop + 1] = After(g, Layers(g, rs)[hop])
<1> DEFINE isLayers(f) == f = [hop \in 0..MaxHops |->
                               IF hop = 0 THEN Ground(rs) ELSE After(g, f[hop - 1])]
           walks(f, n) == /\ f[0] = Ground(rs)
                          /\ \A hop \in 0..n : hop # 0 => f[hop] = After(g, f[hop - 1])
           layer == Layers(g, rs)
<1>1. PICK f : walks(f, MaxHops)
  <2> DEFINE S == {n \in 0..MaxHops : \E f : walks(f, n)}
  <2>1. 0 \in S
    <3>1. walks([hop \in {0} |-> Ground(rs)], 0)
      OBVIOUS
    <3> HIDE DEF walks
    <3>2. \E f : walks(f, 0)
      BY <3>1
    <3>3. QED BY <3>2, HopsAssumption
  <2>2. ASSUME NEW n \in 0..MaxHops, n \in S, n + 1 \in 0..MaxHops PROVE n + 1 \in S
    <3>1. PICK f : walks(f, n)
      BY <2>2
    <3> DEFINE h == [hop \in 0..(n + 1) |-> IF hop = n + 1 THEN After(g, f[n]) ELSE f[hop]]
    <3>2. n \in Nat
      BY HopsAssumption
    <3>3. h[0] = f[0]
      BY <3>2
    <3>4. ASSUME NEW hop \in 0..(n + 1), hop # 0 PROVE h[hop] = After(g, h[hop - 1])
      <4>1. hop - 1 \in 0..n /\ hop - 1 # n + 1 /\ hop - 1 \in 0..(n + 1)
        BY <3>2, <3>4
      <4>2. h[hop - 1] = f[hop - 1]
        BY <4>1
      <4>3. CASE hop = n + 1
        <5>1. hop - 1 = n
          BY <3>2, <4>3
        <5>2. h[hop] = After(g, f[n])
          BY <4>3
        <5> HIDE DEF h
        <5>3. QED BY <4>2, <5>1, <5>2
      <4>4. CASE hop # n + 1
        <5>1. hop \in 0..n
          BY <3>2, <4>4
        <5>2. h[hop] = f[hop]
          BY <4>4
        <5> HIDE DEF h
        <5>3. QED BY <3>1, <3>4, <4>2, <5>1, <5>2
      <4>5. QED BY <4>3, <4>4
    <3> HIDE DEF h
    <3>5. walks(h, n + 1)
      BY <3>1, <3>3, <3>4
    <3> HIDE DEF walks
    <3>6. QED BY <2>2, <3>5
  <2>3. \A n \in 0..MaxHops : n \in S
    <3> HIDE DEF S
    <3>1. QED BY <2>1, <2>2, HopInduction
  <2>4. MaxHops \in S
    BY <2>3, HopsAssumption
  <2> HIDE DEF walks
  <2>5. QED BY <2>4
<1>2. isLayers([hop \in 0..MaxHops |-> f[hop]])
  <2>1. \A hop \in 0..MaxHops : hop # 0 => hop - 1 \in 0..MaxHops
    BY HopsAssumption
  <2>2. QED BY <1>1, <2>1
<1>3. isLayers(layer)
  <2>1. layer = CHOOSE h : isLayers(h)
    BY DEF Layers, After, Following, Ground
  <2> HIDE DEF isLayers, layer
  <2>2. QED BY <1>2, <2>1
<1> HIDE DEF layer
<1>4. layer[0] = Ground(rs)
  BY <1>3, HopsAssumption
<1>5. ASSUME NEW hop \in 0..MaxHops, hop + 1 \in 0..MaxHops
      PROVE  layer[hop + 1] = After(g, layer[hop])
  <2>1. hop + 1 # 0 /\ (hop + 1) - 1 = hop
    BY HopsAssumption
  <2>2. layer[hop + 1] = IF hop + 1 = 0 THEN Ground(rs) ELSE After(g, layer[(hop + 1) - 1])
    BY <1>3, <1>5
  <2>3. QED BY <2>1, <2>2
<1>6. QED BY <1>4, <1>5 DEF layer

\* Everyone met by some hop is in a layer of their own up to it, and all are keys.
LEMMA SeenIsLayered ==
    ASSUME NEW rs \in SUBSET Keys
    PROVE  \A hop \in 0..MaxHops :
              /\ Layers(Published, rs)[hop].seen \subseteq Keys
              /\ \A k : k \in Layers(Published, rs)[hop].seen <=>
                          \E i \in 0..hop : k \in Layers(Published, rs)[i].frontier
<1> DEFINE layer == Layers(Published, rs)
           layered(hop) == /\ layer[hop].seen \subseteq Keys
                           /\ \A k : k \in layer[hop].seen <=> \E i \in 0..hop : k \in layer[i].frontier
           S == {hop \in 0..MaxHops : layered(hop)}
<1>1. 0 \in S
  <2>1. layer[0] = Ground(rs)
    BY LayersStep
  <2> HIDE DEF layer
  <2>2. layer[0].frontier = rs /\ layer[0].seen = rs
    BY <2>1 DEF Ground
  <2>3. \A i \in 0..0 : i = 0
    OBVIOUS
  <2>4. layered(0)
    BY <2>2, <2>3
  <2>5. QED BY <2>4, HopsAssumption
<1>2. ASSUME NEW hop \in 0..MaxHops, hop \in S, hop + 1 \in 0..MaxHops PROVE hop + 1 \in S
  <2>1. layer[hop + 1] = After(Published, layer[hop])
    BY <1>2, LayersStep
  <2>2. /\ layer[hop + 1].frontier = Following(Published, layer[hop])
        /\ layer[hop + 1].seen = layer[hop].seen \cup layer[hop + 1].frontier
    BY <2>1 DEF After
  <2>3. layer[hop + 1].frontier \subseteq Keys
    <3>1. \A k \in layer[hop].frontier : k \in layer[hop].seen /\ k \in Keys
      BY <1>2, HopsAssumption
    <3> HIDE DEF layer
    <3>2. FollowsOf(Published, layer[hop].frontier) \subseteq Keys
      BY <3>1, PublishedAssumption DEF FollowsOf
    <3>3. QED BY <2>2, <3>2 DEF Following
  <2> HIDE DEF layer
  <2>4. 0..(hop + 1) = 0..hop \cup {hop + 1}
    BY HopsAssumption
  <2>5. layer[hop + 1].seen \subseteq Keys
    BY <1>2, <2>2, <2>3
  <2>6. ASSUME NEW k
        PROVE  k \in layer[hop + 1].seen <=> \E i \in 0..(hop + 1) : k \in layer[i].frontier
    <3>1. k \in layer[hop].seen <=> \E i \in 0..hop : k \in layer[i].frontier
      BY <1>2
    <3>2. QED BY <2>2, <2>4, <3>1
  <2>7. QED BY <1>2, <2>5, <2>6
<1>3. \A hop \in 0..MaxHops : hop \in S
  <2> HIDE DEF S
  <2>1. QED BY <1>1, <1>2, HopInduction
<1>4. QED BY <1>3

\* A distance is a number of hops, and there is one exactly for those who are met.
LEMMA DistanceIsReach ==
    ASSUME NEW rs \in SUBSET Keys, NEW k
    PROVE  /\ distance(Published, rs, k) \in Admitting \cup {None}
           /\ k \in Layers(Published, rs)[MaxHops].seen <=> distance(Published, rs, k) # None
           /\ Layers(Published, rs)[MaxHops].seen \subseteq Keys
<1> DEFINE hops == {hop \in 0..MaxHops : k \in Layers(Published, rs)[hop].frontier}
<1>1. distance(Published, rs, k) = IF hops = {} THEN None ELSE CHOOSE hop \in hops : TRUE
  BY DEF distance
<1>2. /\ k \in Layers(Published, rs)[MaxHops].seen <=> hops # {}
      /\ Layers(Published, rs)[MaxHops].seen \subseteq Keys
  <2>1. MaxHops \in 0..MaxHops
    BY HopsAssumption
  <2>2. QED BY <2>1, SeenIsLayered
<1>3. hops # {} => (CHOOSE hop \in hops : TRUE) \in Admitting
  BY DEF Admitting
<1>4. None \notin Admitting
  BY NoHopsAssumption, HopsAssumption DEF Admitting
<1> HIDE DEF hops
<1>5. QED BY <1>1, <1>2, <1>3, <1>4

-----------------------------------------------------------------------------
(* The ladders. *)

\* Whoever has a verdict of the graph has the one of the present roots: they are forgotten
\* together.
VerdictInv ==
    /\ wot \in BOOLEAN /\ local \in BOOLEAN /\ pinned \in SUBSET Keys /\ roots \in SUBSET Keys
    /\ verdict = [k \in Keys |-> verdict[k]] /\ \A k \in Keys : verdict[k] \in {None} \cup Answers(k)
    /\ DOMAIN listed \subseteq Keys /\ \A k \in DOMAIN listed : listed[k] \in Admitting

Bounded == begun \in 0..MaxRequests /\ crossed \in BOOLEAN /\ owned \in BOOLEAN

\* Nothing that a verdict depends on is touched.
LEMMA VerdictFramed ==
    ASSUME VerdictInv, UNCHANGED <<wotSettings, roots, listed>>,
           verdict' = [q \in Keys |-> verdict'[q]],
           \A k \in Keys : verdict'[k] \in {verdict[k], None} \cup Answers(k)
    PROVE  VerdictInv'
<1> USE DEF wotSettings
<1>1. \A k : Answers(k)' = Answers(k)
  BY DEF Answers, Measured
<1>2. QED BY <1>1 DEF VerdictInv

\* All verdicts are forgotten.
LEMMA VerdictsForgotten ==
    ASSUME verdict' = NoVerdicts, wot' \in BOOLEAN, local' \in BOOLEAN, pinned' \in SUBSET Keys,
           roots' \in SUBSET Keys,
           DOMAIN listed' \subseteq Keys, \A k \in DOMAIN listed' : listed'[k] \in Admitting
    PROVE  VerdictInv'
<1>1. verdict' = [q \in Keys |-> verdict'[q]] /\ \A k \in Keys : verdict'[k] = None
  BY DEF NoVerdicts
<1>2. QED BY <1>1 DEF VerdictInv

\* What a start finds of the Web-of-Trust settings.
LEMMA SettingsFound ==
    ASSUME NEW s \in Settings
    PROVE  s.on \in BOOLEAN /\ s.local \in BOOLEAN /\ s.pinned \in SUBSET Keys
<1>1. PinnedRoots \cup {{}} \subseteq SUBSET Keys
  BY PinnedAssumption
<1>2. CASE s \in [on : {TRUE}, local : BOOLEAN, pinned : PinnedRoots \cup {{}}]
  BY <1>1, <1>2
<1>3. CASE s = [on |-> FALSE, local |-> TRUE, pinned |-> {}]
  BY <1>3
<1>4. QED BY <1>2, <1>3 DEF Settings

LEMMA VerdictStep == ASSUME ListInv, VerdictInv, [Next]_vars PROVE VerdictInv'
<1> USE DEF accessVars, wotState, lists
<1>1. ASSUME UNCHANGED <<wotSettings, roots, listed, verdict>> PROVE VerdictInv'
  BY <1>1, VerdictFramed DEF VerdictInv
<1>2. ASSUME NEW r \in Requests, Request(r) \/ SetupLists(r) \/ (owned /\ ResetLists(r))
      PROVE  UNCHANGED <<wotSettings, roots, listed, verdict>>
  BY <1>2
  DEF Request, SetupLists, ResetLists, WhitelistAdd, WhitelistRemove, BlacklistAdd, BlacklistRemove,
      ReferenceAdd, ReferenceRemove, SyncRequest, OpenRelay, RestrictRelay
<1>3. ASSUME NEW r \in Requests, RequestStep(r), ~SetRoots(r)
      PROVE  UNCHANGED <<wotSettings, roots, listed, verdict>>
  BY <1>3
  DEF RequestStep, EmptyFollows, Snapshot, Truncate, Write, WriteFails, ListRoots, StartSync,
      Fetch, Follow, SetupReference, ResetReferences, ResetBlack
<1>4. ASSUME NEW r \in Requests, SetRoots(r) PROVE VerdictInv'
  <2>1. task[r].content \in SUBSET Keys
    BY DEF ListInv, Types, Tasks
  <2>2. UNCHANGED <<wotSettings, listed>>
    BY <1>4 DEF SetRoots
  <2>3. CASE wot /\ pinned = {}
    <3>1. roots' = task[r].content /\ verdict' = NoVerdicts
      BY <1>4, <2>3 DEF SetRoots
    <3>2. QED BY <2>1, <2>2, <3>1, VerdictsForgotten DEF VerdictInv, wotSettings
  <2>4. CASE ~(wot /\ pinned = {})
    BY <1>1, <1>4, <2>2, <2>4 DEF SetRoots
  <2>5. QED BY <2>3, <2>4
<1>5. ASSUME NEW k \in Keys, ResolveWot(k) PROVE VerdictInv'
  <2>0. PICK answer \in Answers(k) : verdict' = [verdict EXCEPT ![k] = answer]
    BY <1>5 DEF ResolveWot
  <2>1. UNCHANGED <<wotSettings, roots, listed>>
    BY <1>5 DEF ResolveWot
  <2>2. /\ verdict' = [q \in Keys |-> verdict'[q]]
        /\ \A q \in Keys : verdict'[q] \in {verdict[q]} \cup Answers(q)
    BY <2>0 DEF VerdictInv
  <2>3. QED BY <2>1, <2>2, VerdictFramed
<1>6. ASSUME NEW k \in Keys, Expire(k) PROVE VerdictInv'
  <2>1. UNCHANGED <<wotSettings, roots, listed>> /\ verdict' = [verdict EXCEPT ![k] = None]
    BY <1>6 DEF Expire
  <2>2. verdict' = [q \in Keys |-> verdict'[q]] /\ \A q \in Keys : verdict'[q] \in {verdict[q], None}
    BY <2>1 DEF VerdictInv
  <2>3. QED BY <2>1, <2>2, VerdictFramed
<1>7. CASE RebuildGraph
  <2>1. /\ UNCHANGED <<wotSettings, roots>> /\ verdict' = NoVerdicts /\ Centre \in SUBSET Keys
        /\ listed' \in {listed, reachable(Published, Centre)}
    BY <1>7 DEF RebuildGraph, Centre, VerdictInv, ListInv, Types
  <2>2. PICK found : found = reachable(Published, Centre)
    OBVIOUS
  <2>3. DOMAIN found \subseteq Keys /\ \A k \in DOMAIN found : found[k] \in Admitting
    BY <2>1, <2>2, DistanceIsReach DEF reachable
  <2>4. DOMAIN listed' \subseteq Keys /\ \A k \in DOMAIN listed' : listed'[k] \in Admitting
    BY <2>1, <2>2, <2>3 DEF VerdictInv
  <2>5. QED BY <2>1, <2>4, VerdictsForgotten DEF VerdictInv, wotSettings
<1>8. CASE Restart
  <2>0. PICK found \in Settings : wot' = found.on /\ local' = found.local /\ pinned' = found.pinned
    BY <1>8 DEF Restart
  <2>1. /\ verdict' = NoVerdicts /\ listed' = [k \in {} |-> 0]
        /\ refs' = Read("refs") /\ roots' \in {refs', pinned', {}}
    BY <1>8 DEF Restart, Centre
  <2>2. Read("refs") \in SUBSET Keys
    BY DEF Read, ListInv, Types, Lists
  <2>3. DOMAIN listed' = {}
    BY <2>1
  <2>4. wot' \in BOOLEAN /\ local' \in BOOLEAN /\ pinned' \in SUBSET Keys
    BY <2>0, SettingsFound
  <2>5. QED BY <2>1, <2>2, <2>3, <2>4, VerdictsForgotten
<1>9. CASE (\E k \in InviteKeys : SetInvited(k)) \/ UNCHANGED vars
  BY <1>1, <1>9 DEF SetInvited, vars
<1>10. CASE \E r \in Requests : Request(r) \/ SetupLists(r) \/ (owned /\ ResetLists(r)) \/ RequestStep(r)
  BY <1>1, <1>2, <1>3, <1>4, <1>10
<1>11. CASE \E k \in Clients : ResolveWot(k) \/ Expire(k)
  BY <1>5, <1>6, <1>11, KeySets
<1>12. QED BY <1>7, <1>8, <1>9, <1>10, <1>11 DEF Next

LEMMA VerdictsHold == Spec => [](ListInv /\ VerdictInv)
<1>1. Init => VerdictInv
  <2> SUFFICES ASSUME Init PROVE VerdictInv
    OBVIOUS
  <2>1. refs \in SUBSET Keys
    BY ListInvStarts DEF ListInv, Types
  <2>2. /\ roots \in {refs, pinned, {}} /\ DOMAIN listed = {}
        /\ verdict = [k \in Keys |-> verdict[k]] /\ \A k \in Keys : verdict[k] = None
    BY DEF Init, NoVerdicts, Centre
  <2>3. PICK found \in Settings : wot = found.on /\ local = found.local /\ pinned = found.pinned
    BY DEF Init
  <2>4. wot \in BOOLEAN /\ local \in BOOLEAN /\ pinned \in SUBSET Keys
    BY <2>3, SettingsFound
  <2>5. QED BY <2>1, <2>2, <2>4 DEF VerdictInv
<1>2. ListInv /\ VerdictInv /\ [Next]_vars => VerdictInv'
  BY VerdictStep
<1>3. QED BY <1>1, <1>2, ListsHold, PTL DEF Spec

\* A limit and the rungs of the ladder.
LEMMA Rung ==
    /\ budgetKey(Tier("manual")) = "manual" /\ budgetPercent(Tier("manual")) = 100
    /\ budgetKey(Tier("follow_sync")) = "direct" /\ budgetPercent(Tier("follow_sync")) = 100
    /\ budgetKey(Tier("invite")) = "direct" /\ budgetPercent(Tier("invite")) = 100
    /\ budgetKey(Tier("open")) = "open" /\ budgetPercent(Tier("open")) = 10
    /\ \A hops \in Nat :
          /\ hops <= 1 => /\ budgetKey(WebOfTrust(hops)) = "direct"
                          /\ budgetPercent(WebOfTrust(hops)) = 100
          /\ hops = 2 => /\ budgetKey(WebOfTrust(hops)) = "wot_mid"
                         /\ budgetPercent(WebOfTrust(hops)) = 50
          /\ hops > 2 => /\ budgetKey(WebOfTrust(hops)) = "wot_far"
                         /\ budgetPercent(WebOfTrust(hops)) = 25
BY DEF budgetKey, budgetPercent, Tier, WebOfTrust

\* Every tier that is admitted has a rung, and the rungs of its limiter are as wide as it is.
LEMMA RungsOfATier ==
    ASSUME NEW t, \/ t \in {Tier("manual"), Tier("follow_sync"), Tier("invite"), Tier("open")}
                  \/ \E hops \in Nat : t = WebOfTrust(hops)
    PROVE  /\ \E u \in Rungs : budgetKey(u) = budgetKey(t)
           /\ \A u \in Rungs : budgetKey(u) = budgetKey(t) => budgetPercent(u) = budgetPercent(t)
<1>1. /\ budgetKey(WebOfTrust(2)) = "wot_mid" /\ budgetPercent(WebOfTrust(2)) = 50
      /\ budgetKey(WebOfTrust(3)) = "wot_far" /\ budgetPercent(WebOfTrust(3)) = 25
  BY Rung
<1>2. \E key \in {"manual", "direct", "open", "wot_mid", "wot_far"} :
         /\ budgetKey(t) = key
         /\ budgetPercent(t) = IF key \in {"manual", "direct"} THEN 100
                               ELSE IF key = "open" THEN 10 ELSE IF key = "wot_mid" THEN 50 ELSE 25
  <2>1. CASE t \in {Tier("manual"), Tier("follow_sync"), Tier("invite"), Tier("open")}
    BY <2>1, Rung
  <2>2. CASE \E hops \in Nat : t = WebOfTrust(hops)
    <3>1. PICK hops \in Nat : t = WebOfTrust(hops)
      BY <2>2
    <3>2. hops <= 1 \/ hops = 2 \/ hops > 2
      OBVIOUS
    <3>3. QED BY <3>1, <3>2, Rung
  <2>3. QED BY <2>1, <2>2
<1>3. QED BY <1>1, <1>2, Rung DEF Rungs

LEMMA LimiterIsShare ==
    ASSUME NEW k, \/ tierOf(k) \in {Tier("manual"), Tier("follow_sync"), Tier("invite"), Tier("open")}
                  \/ \E hops \in Nat : tierOf(k) = WebOfTrust(hops)
    PROVE  /\ limiterPercent(k) = budgetPercent(tierOf(k))
           /\ [key |-> budgetKey(tierOf(k)), percent |-> limiterPercent(k)] \in budgetLadder
<1> DEFINE t == tierOf(k)
           rungs == {u \in Rungs : budgetKey(u) = budgetKey(t)}
<1>1. /\ \E u \in Rungs : budgetKey(u) = budgetKey(t)
      /\ \A u \in Rungs : budgetKey(u) = budgetKey(t) => budgetPercent(u) = budgetPercent(t)
  BY RungsOfATier
<1>2. limiterPercent(k) = IF rungs = {} THEN 100 ELSE budgetPercent(CHOOSE u \in rungs : TRUE)
  BY DEF limiterPercent
<1> HIDE DEF t
<1>3. rungs # {} /\ (CHOOSE u \in rungs : TRUE) \in rungs
  BY <1>1
<1>4. limiterPercent(k) = budgetPercent(t)
  BY <1>1, <1>2, <1>3
<1>5. PICK u \in Rungs : budgetKey(u) = budgetKey(t) /\ budgetPercent(u) = budgetPercent(t)
  BY <1>1
<1>6. [key |-> budgetKey(u), percent |-> budgetPercent(u)] \in budgetLadder
  BY DEF budgetLadder
<1>7. QED BY <1>4, <1>5, <1>6 DEF t

\* Where the ladder ends for a key, for the budget and for the console.
LEMMA LadderRungs ==
    ASSUME VerdictInv, NEW k \in Keys
    PROVE  \/ k \in black /\ tierOf(k) = Tier("denied") /\ accessCheck(k) = Tier("denied")
           \/ /\ k \in manual \ black
              /\ tierOf(k) = Tier("manual") /\ accessCheck(k) = Tier("manual")
           \/ /\ k \in follows \ (black \cup manual)
              /\ tierOf(k) = Tier("follow_sync") /\ accessCheck(k) = Tier("follow_sync")
           \/ /\ k \in invited \ (black \cup manual \cup follows)
              /\ tierOf(k) = Tier("invite") /\ accessCheck(k) = Tier("invite")
           \/ /\ k \notin black \cup manual \cup follows \cup invited /\ ~wot
              /\ tierOf(k) = Tier(IF isEmpty THEN "open" ELSE "denied")
              /\ accessCheck(k) = Tier(IF isEmpty THEN "open" ELSE "denied")
           \/ /\ k \notin black \cup manual \cup follows \cup invited /\ wot /\ ~isEmpty
              /\ tierOf(k) = IF verdict[k] \in Admitting THEN WebOfTrust(verdict[k]) ELSE Tier("denied")
              /\ accessCheck(k) = LET hops == distance(Published, roots, k)
                                  IN  IF local /\ hops # None THEN WebOfTrust(hops) ELSE Tier("denied")
<1>1. CASE k \in black
  BY <1>1 DEF tierOf, accessCheck
<1>2. CASE k \in manual \ black
  BY <1>2 DEF tierOf, accessCheck
<1>3. CASE k \in follows \ (black \cup manual)
  BY <1>3 DEF tierOf, accessCheck
<1>4. CASE k \in invited \ (black \cup manual \cup follows)
  BY <1>4 DEF tierOf, accessCheck
<1>5. CASE k \notin black \cup manual \cup follows \cup invited /\ ~wot
  BY <1>5 DEF tierOf, accessCheck, hasGraph
<1>6. CASE k \notin black \cup manual \cup follows \cup invited /\ wot
  <2>1. ~isEmpty
    BY <1>6 DEF isEmpty
  <2>2. tierOf(k) = IF verdict[k] \in Admitting THEN WebOfTrust(verdict[k]) ELSE Tier("denied")
    BY <1>6 DEF tierOf
  <2>3. accessCheck(k) = LET hops == distance(Published, roots, k)
                         IN  IF local /\ hops # None THEN WebOfTrust(hops) ELSE Tier("denied")
    BY <1>6, <2>1 DEF accessCheck, hasGraph
  <2>4. QED BY <1>6, <2>1, <2>2, <2>3
<1>7. QED BY <1>1, <1>2, <1>3, <1>4, <1>5, <1>6

\* A verdict of the graph that admits is the distance, and one that does not says there is
\* none.
LEMMA VerdictIsDistance ==
    ASSUME VerdictInv, local, NEW k \in Keys, verdict[k] # None
    PROVE  /\ verdict[k] \in Admitting => verdict[k] = distance(Published, roots, k)
           /\ verdict[k] \notin Admitting => distance(Published, roots, k) = None
           /\ verdict[k] \in Admitting => verdict[k] \in Nat
<1>1. Refused \notin Admitting /\ None \notin Admitting /\ Admitting \subseteq Nat
  BY HopsAssumption, NoHopsAssumption DEF Refused, Admitting
<1>2. distance(Published, roots, k) \in Admitting \cup {None}
  BY DistanceIsReach DEF VerdictInv
<1>3. QED BY <1>1, <1>2 DEF VerdictInv, Answers, Measured

LEMMA DeniedIsOut == Tier("denied").name = "denied" /\ Tier("open").name = "open"
                     /\ Tier("manual").name = "manual" /\ Tier("follow_sync").name = "follow_sync"
                     /\ Tier("invite").name = "invite"
                     /\ \A hops : WebOfTrust(hops).name = "web_of_trust" /\ WebOfTrust(hops).hops = hops
BY DEF Tier, WebOfTrust

\* The budget denies whom the admission rule keeps out, and the others have their share.
LEMMA BudgetsFollow ==
    ASSUME VerdictInv, NEW k \in Keys \ {Owner}
    PROVE  /\ admits(k) <=> tierOf(k).name # "denied"
           /\ admits(k) =>
                 /\ limiterPercent(k) = budgetPercent(tierOf(k))
                 /\ [key |-> budgetKey(tierOf(k)), percent |-> limiterPercent(k)] \in budgetLadder
<1>1. CASE k \in black
  BY <1>1, LadderRungs, DeniedIsOut DEF admits
<1>2. CASE k \in (manual \cup follows \cup invited) \ black
  <2>1. tierOf(k) \in {Tier("manual"), Tier("follow_sync"), Tier("invite")}
    BY <1>2, LadderRungs
  <2>2. admits(k)
    BY <1>2 DEF admits, contains
  <2>3. QED BY <2>1, <2>2, LimiterIsShare, DeniedIsOut
<1>3. CASE k \notin black \cup manual \cup follows \cup invited /\ ~wot
  <2>1. tierOf(k) = Tier(IF isEmpty THEN "open" ELSE "denied")
    BY <1>3, LadderRungs
  <2>2. admits(k) <=> isEmpty
    BY <1>3 DEF admits, contains
  <2>3. QED BY <2>1, <2>2, LimiterIsShare, DeniedIsOut
<1>4. CASE k \notin black \cup manual \cup follows \cup invited /\ wot
  <2>1. tierOf(k) = IF verdict[k] \in Admitting THEN WebOfTrust(verdict[k]) ELSE Tier("denied")
    BY <1>4, LadderRungs
  <2>2. admits(k) <=> verdict[k] \in Admitting
    BY <1>4 DEF admits, contains, isEmpty
  <2>3. verdict[k] \in Admitting => verdict[k] \in Nat
    BY HopsAssumption DEF Admitting
  <2>4. QED BY <2>1, <2>2, <2>3, LimiterIsShare, DeniedIsOut
<1>5. QED BY <1>1, <1>2, <1>3, <1>4

\* What the console says of a key is what the relay does with it, as far as it can know.
LEMMA ConsoleTellsTrue ==
    ASSUME VerdictInv, NEW k \in Keys, ~needsWotResolution(k) PROVE accessCheck(k) = Told(tierOf(k))
<1>1. CASE k \notin black \cup manual \cup follows \cup invited /\ wot
  <2>1. /\ tierOf(k) = IF verdict[k] \in Admitting THEN WebOfTrust(verdict[k]) ELSE Tier("denied")
        /\ accessCheck(k) = LET hops == distance(Published, roots, k)
                            IN  IF local /\ hops # None THEN WebOfTrust(hops) ELSE Tier("denied")
    BY <1>1, LadderRungs
  <2>2. verdict[k] # None
    BY <1>1 DEF needsWotResolution
  <2>3. CASE local
    <3>1. /\ verdict[k] \in Admitting => verdict[k] = distance(Published, roots, k)
          /\ verdict[k] \notin Admitting => distance(Published, roots, k) = None
      BY <2>2, <2>3, VerdictIsDistance
    <3>2. verdict[k] \in Admitting => distance(Published, roots, k) # None
      BY <2>2, <3>1
    <3>3. accessCheck(k) = tierOf(k)
      BY <2>1, <2>3, <3>1, <3>2
    <3>4. QED BY <2>3, <3>3 DEF Told
  <2>4. CASE ~local
    <3>1. accessCheck(k) = Tier("denied")
      BY <2>1, <2>4
    <3>2. CASE verdict[k] \in Admitting
      <4>1. tierOf(k).name = "web_of_trust"
        BY <2>1, <3>2, DeniedIsOut
      <4>2. QED BY <2>4, <3>1, <4>1 DEF Told
    <3>3. CASE verdict[k] \notin Admitting
      <4>1. tierOf(k) = Tier("denied")
        BY <2>1, <3>3
      <4>2. QED BY <3>1, <4>1 DEF Told
    <3>4. QED BY <3>2, <3>3
  <2>5. QED BY <2>3, <2>4
<1>2. CASE ~(k \notin black \cup manual \cup follows \cup invited /\ wot)
  <2>1. /\ accessCheck(k) = tierOf(k)
        /\ tierOf(k) \in {Tier("denied"), Tier("manual"), Tier("follow_sync"), Tier("invite"), Tier("open")}
    BY <1>2, LadderRungs
  <2>2. tierOf(k).name # "web_of_trust"
    BY <2>1, DeniedIsOut
  <2>3. QED BY <2>1, <2>2 DEF Told
<1>3. QED BY <1>1, <1>2

\* A page that has room for all shows all, and one of nobody shows nobody.
LEMMA RowsOf ==
    ASSUME NEW keys, IsFiniteSet(keys)
    PROVE  /\ Cardinality(keys) <= PageRows => FirstRows(keys) = keys
           /\ keys = {} => FirstRows(keys) = {}
<1>1. Cardinality(keys) <= PageRows => FirstRows(keys) = keys
  BY DEF FirstRows
<1>2. ASSUME keys = {} PROVE Cardinality(keys) <= PageRows
  BY <1>2, FS_EmptySet, RowsAssumption
<1>3. QED BY <1>1, <1>2

\* Keys that are listed are finitely many.
LEMMA FewListed == ASSUME VerdictInv, NEW hops PROVE IsFiniteSet(ListedAt(hops))
<1>1. ListedAt(hops) \subseteq Keys
  BY DEF ListedAt, VerdictInv
<1>2. QED BY <1>1, PublishedAssumption, FS_Subset

\* The tier pages show everyone who is admitted, and the overview does not hide a page.
LEMMA PagesShow == ASSUME ListInv, VerdictInv PROVE AdmittedAreListed
<1>1. ASSUME NEW k \in Keys, contains(k) PROVE OnTheirPage(k)
  <2>1. k \notin black
    BY <1>1 DEF contains
  <2>2. CASE k \in manual \cup follows \cup invited
    <3>1. tierOf(k) \in {Tier("manual"), Tier("follow_sync"), Tier("invite")}
      BY <2>1, <2>2, LadderRungs
    <3>2. tierOf(k).name # "web_of_trust"
      BY <3>1, DeniedIsOut
    <3>3. k \in tierPage(1)
      BY <2>1, <2>2 DEF tierPage
    <3>4. QED BY <3>2, <3>3 DEF OnTheirPage
  <2>3. CASE k \notin manual \cup follows \cup invited
    <3>1. wot /\ verdict[k] \in Admitting
      BY <1>1, <2>3 DEF contains
    <3> DEFINE hops == verdict[k]
    <3>2. tierOf(k).name = "web_of_trust" /\ tierOf(k).hops = hops
      BY <2>1, <2>3, <3>1, LadderRungs, DeniedIsOut
    <3>3. SUFFICES ASSUME hasGraph, listed = reachable(Published, roots),
                          ~(hops <= 1 /\ Cardinality(ListedAt({hops})) > PageRows)
                   PROVE  k \in tierPage(TierForHops(hops))
      BY <3>2 DEF OnTheirPage
    <3>4. verdict[k] # None
      BY <3>1, NoHopsAssumption, HopsAssumption DEF Admitting
    <3>5. hops = distance(Published, roots, k) /\ hops \in Nat
      BY <3>1, <3>3, <3>4, VerdictIsDistance DEF hasGraph
    <3>6. k \in Layers(Published, roots)[MaxHops].seen
      BY <3>4, <3>5, DistanceIsReach DEF VerdictInv
    <3>7. k \in ListedAt({hops})
      BY <3>3, <3>5, <3>6 DEF reachable, ListedAt
    <3> HIDE DEF hops
    <3>8. CASE hops \in {0, 1}
      <4>1. Cardinality(ListedAt({hops})) \in Nat
        BY FewListed, FS_CardinalityType
      <4>2. Cardinality(ListedAt({hops})) <= PageRows
        BY <3>3, <3>8, <4>1, RowsAssumption
      <4>3. k \in FirstRows(ListedAt({hops}))
        BY <3>7, <4>2, FewListed, RowsOf
      <4>4. k \in FirstRows(ListedAt({0})) \cup FirstRows(ListedAt({1}))
        BY <3>8, <4>3
      <4>5. TierForHops(hops) = 1
        BY <3>8 DEF TierForHops
      <4>6. k \in tierPage(1)
        BY <2>1, <3>3, <4>4 DEF tierPage
      <4>7. QED BY <4>5, <4>6
    <3>9. CASE hops \notin {0, 1}
      BY <2>1, <3>3, <3>5, <3>7, <3>9 DEF tierPage, TierForHops
    <3>10. QED BY <3>8, <3>9
  <2>4. QED BY <2>2, <2>3
<1>2. ASSUME tier1Total = 0 PROVE tierPage(1) = {}
  <2> DEFINE sources == Cardinality(manual) + Cardinality(follows \ black) + Cardinality(invited)
             near == IF hasGraph THEN Cardinality(ListedAt({0, 1})) ELSE 0
  <2>1. /\ manual \subseteq Keys /\ follows \ black \subseteq Keys /\ invited \subseteq Keys
        /\ ListedAt({0, 1}) \subseteq Keys
    BY DEF ListInv, Types, VerdictInv, ListedAt
  <2>2. ASSUME NEW keys \in SUBSET Keys
        PROVE  Cardinality(keys) \in Nat /\ (Cardinality(keys) = 0 => keys = {})
    BY PublishedAssumption, FS_Subset, FS_CardinalityType, FS_EmptySet
  <2>3. /\ Cardinality(manual) \in Nat /\ Cardinality(follows \ black) \in Nat
        /\ Cardinality(invited) \in Nat /\ Cardinality(ListedAt({0, 1})) \in Nat
    BY <2>1, <2>2
  <2>4. tier1Total = IF sources >= near THEN sources ELSE near
    BY DEF tier1Total
  <2>5. sources = 0 /\ near = 0
    BY <1>2, <2>3, <2>4
  <2>6. /\ Cardinality(manual) = 0 /\ Cardinality(follows \ black) = 0 /\ Cardinality(invited) = 0
        /\ hasGraph => Cardinality(ListedAt({0, 1})) = 0
    BY <2>3, <2>5
  <2>7. /\ manual = {} /\ follows \ black = {} /\ invited = {}
        /\ hasGraph => ListedAt({0, 1}) = {}
    BY <2>1, <2>2, <2>6
  <2>8. hasGraph => ListedAt({0}) = {} /\ ListedAt({1}) = {}
    BY <2>7 DEF ListedAt
  <2>9. hasGraph => FirstRows(ListedAt({0})) = {} /\ FirstRows(ListedAt({1})) = {}
    BY <2>8, FewListed, RowsOf
  <2>10. QED BY <2>7, <2>9 DEF tierPage
<1>3. QED BY <1>1, <1>2 DEF AdmittedAreListed

\* whitelist.rs admits and tier_of, rate limits, admin.rs: whatever the lists hold, on any
\* graph and with verdicts cached before the last change, the ladders of the decision, the
\* budget, the console's answer and its pages end on the same rung; but of the keys an
\* oracle admits the console knows nothing, and of those near the roots it shows as many as a
\* page has rows.
THEOREM LaddersNeverPart == Spec => []LaddersAgree
<1>1. ASSUME ListInv, VerdictInv PROVE LaddersAgree
  BY <1>1, BudgetsFollow, ConsoleTellsTrue, PagesShow DEF LaddersAgree
<1>2. QED BY <1>1, VerdictsHold, PTL

\* Every variable keeps its type.
THEOREM AccessTypes == Spec => []TypeOK
<1>1. Init => Bounded
  <2>1. Init => begun \in 0..MaxRequests
    BY MaxRequestsAssumption DEF Init
  <2>2. QED BY <2>1 DEF Init, Bounded
<1>2. ASSUME Bounded, [Next]_vars PROVE Bounded'
  <2>1. ASSUME NEW r \in Requests, NEW ls, NEW at, NEW list, NEW after, Begin(r, ls, at, list, after)
        PROVE  begun' \in 0..MaxRequests
    <3>1. begun \in 0..MaxRequests
      BY <1>2 DEF Bounded
    <3>2. begun < MaxRequests /\ begun' = begun + 1
      BY <2>1 DEF Begin
    <3>3. QED BY <3>1, <3>2, MaxRequestsAssumption
  <2>2. ASSUME NEW r \in Requests, Request(r) PROVE Bounded'
    <3>1. /\ \E ls, at, list, after : Begin(r, ls, at, list, after)
          /\ crossed' \in BOOLEAN /\ owned' \in BOOLEAN
      BY <1>2, <2>2
      DEF Request, WhitelistAdd, WhitelistRemove, BlacklistAdd, BlacklistRemove, ReferenceAdd,
          ReferenceRemove, SyncRequest, OpenRelay, RestrictRelay, Crossing, Bounded, BusyBeside
    <3>2. QED BY <2>1, <3>1 DEF Bounded
  <2>3. ASSUME NEW r \in Requests, SetupLists(r) \/ ResetLists(r) PROVE Bounded'
    <3>1. /\ \E ls, at, list, after : Begin(r, ls, at, list, after)
          /\ crossed' \in BOOLEAN /\ owned' \in BOOLEAN
      BY <1>2, <2>3 DEF SetupLists, ResetLists, Crossing, Bounded, BusyBeside
    <3>2. QED BY <2>1, <3>1 DEF Bounded
  <2>4. ASSUME NEW r \in Requests, RequestStep(r) PROVE Bounded'
    BY <1>2, <2>4
    DEF RequestStep, EmptyFollows, Snapshot, Truncate, Write, WriteFails, ListRoots, SetRoots,
        StartSync, Fetch, Follow, SetupReference, ResetReferences, ResetBlack, Bounded
  <2>5. CASE \/ \E k \in InviteKeys : SetInvited(k)
             \/ \E k \in Clients : ResolveWot(k) \/ Expire(k)
             \/ RebuildGraph \/ Restart \/ UNCHANGED vars
    BY <1>2, <2>5 DEF SetInvited, ResolveWot, Expire, RebuildGraph, Restart, vars, Bounded
  <2>6. QED BY <1>2, <2>2, <2>3, <2>4, <2>5 DEF Next
<1>3. ASSUME ListInv, VerdictInv, Bounded PROVE TypeOK
  <2>1. \A k \in Keys : Answers(k) \subseteq Admitting \cup {Refused}
    <3>1. \A k \in Keys : Measured(k) \in Admitting \cup {Refused}
      BY <1>3, DistanceIsReach DEF Measured, VerdictInv
    <3>2. 0 \in Admitting
      BY HopsAssumption DEF Admitting
    <3>3. QED BY <3>1, <3>2 DEF Answers
  <2>2. verdict \in [Keys -> Admitting \cup {Refused, None}]
    <3>1. /\ verdict = [k \in Keys |-> verdict[k]]
          /\ \A k \in Keys : verdict[k] \in Admitting \cup {Refused, None}
      BY <1>3, <2>1 DEF VerdictInv
    <3>2. QED BY <3>1
  <2>3. QED BY <1>3, <2>2 DEF TypeOK, AccessTypeOK, ListInv, Types, VerdictInv, Bounded
<1>4. QED BY <1>1, <1>2, <1>3, VerdictsHold, PTL DEF Spec
=============================================================================
