------------------------ MODULE GroupRegistryProofs ------------------------
(* What the registry promises about a group's id for every set of keys,    *)
(* any number of handlers at once and any number of changes: GroupRegistry *)
(* implements GroupLife.                                                   *)
EXTENDS GroupRegistry, TLAPS

USE KeysAssumption, BoundsAssumption, NoneAssumption

-----------------------------------------------------------------------------
(* What a handler returned, and what is left of it while it is stored. *)

ChangeCommands == {<<Save("manage", k), SaveState(g)>> : k \in Keys, g \in Group}
DeleteCommands == {<<Erase("h"), Erase("d"), Save("tomb", k)>> : k \in Keys}
EraseCommands == {<<Erase("h"), Erase("d"), Erase("unlist")>>}
LastCommands == {SaveState(g) : g \in Group} \cup {Save("post", k) : k \in Keys}
                    \cup {Save("tomb", k) : k \in Keys} \cup {Erase("unlist")}
LastTwo == {<<Erase("d"), c>> : c \in {Save("tomb", k) : k \in Keys} \cup {Erase("unlist")}}

Backlog == {<<>>} \cup ChangeCommands \cup DeleteCommands \cup EraseCommands
               \cup LastTwo \cup {<<c>> : c \in LastCommands}

Left(w) == ToSet(task[w].todo)

LEMMA CommandTypes ==
    /\ \A g \in Group : SaveState(g) \in Command /\ SaveState(g).do = "state" /\ SaveState(g).group = g
    /\ \A k \in Keys : \A what \in {"manage", "post", "tomb"} :
           Save(what, k) \in Command /\ Save(what, k).do = what /\ Save(what, k).by = k
    /\ \A what \in {"h", "d", "unlist"} : Erase(what) \in Command /\ Erase(what).do = what
BY DEF SaveState, Save, Erase, Command

LEMMA SetsOfCommands ==
    /\ ToSet(<<>>) = {}
    /\ \A c1 : ToSet(<<c1>>) = {c1}
    /\ \A c1, c2 : ToSet(<<c1, c2>>) = {c1, c2}
    /\ \A c1, c2, c3 : ToSet(<<c1, c2, c3>>) = {c1, c2, c3}
BY DEF ToSet

LEMMA ShortSequences ==
    ASSUME NEW S, NEW c1 \in S, NEW c2 \in S, NEW c3 \in S
    PROVE  <<>> \in Seq(S) /\ <<c1>> \in Seq(S) /\ <<c1, c2>> \in Seq(S) /\ <<c1, c2, c3>> \in Seq(S)
OBVIOUS

LEMMA BacklogType == Backlog \subseteq Seq(Command)
<1>1. /\ \A g \in Group : SaveState(g) \in Command
      /\ \A k \in Keys : /\ Save("manage", k) \in Command /\ Save("post", k) \in Command
                         /\ Save("tomb", k) \in Command
      /\ Erase("h") \in Command /\ Erase("d") \in Command /\ Erase("unlist") \in Command
  BY CommandTypes
<1> HIDE NoneAssumption
<1>2. \A c1, c2, c3 \in Command :
          /\ <<>> \in Seq(Command) /\ <<c1>> \in Seq(Command)
          /\ <<c1, c2>> \in Seq(Command) /\ <<c1, c2, c3>> \in Seq(Command)
  BY ShortSequences
<1>3. LastCommands \subseteq Command
  BY <1>1 DEF LastCommands
<1>4. {<<c>> : c \in LastCommands} \subseteq Seq(Command)
  BY <1>2, <1>3
<1>5. ChangeCommands \subseteq Seq(Command)
  <2>1. \A k \in Keys, g \in Group : <<Save("manage", k), SaveState(g)>> \in Seq(Command)
    BY <1>1, <1>2
  <2>2. ASSUME NEW t \in ChangeCommands PROVE t \in Seq(Command)
    <3>1. PICK k \in Keys, g \in Group : t = <<Save("manage", k), SaveState(g)>>
      BY DEF ChangeCommands
    <3>2. QED BY <2>1, <3>1
  <2>3. QED BY <2>2
<1>6. DeleteCommands \subseteq Seq(Command) /\ EraseCommands \subseteq Seq(Command)
  BY <1>1, <1>2 DEF DeleteCommands, EraseCommands
<1>7. LastTwo \subseteq Seq(Command)
  BY <1>1, <1>2 DEF LastTwo
<1>8. <<>> \in Seq(Command)
  OBVIOUS
<1>9. QED BY <1>4, <1>5, <1>6, <1>7, <1>8, Zenon DEF Backlog

\* The next command of a backlog, and what it leaves.
LEMMA NextCommand ==
    ASSUME NEW t \in Backlog, t # <<>>
    PROVE  /\ Head(t) \in Command /\ Tail(t) \in Backlog
           /\ ToSet(t) = {Head(t)} \cup ToSet(Tail(t))
           /\ Head(t).do = "manage" => \E g \in Group : ToSet(Tail(t)) = {SaveState(g)}
           /\ Head(t).do = "state" => Head(t).group \in Group /\ Head(t) = SaveState(Head(t).group)
           /\ Head(t).do \in {"post", "tomb"} => Head(t).by \in Keys
           /\ Head(t).do \in {"state", "post", "tomb", "unlist"} => Tail(t) = <<>>
           /\ Head(t).do = "h" => /\ \E c \in ToSet(Tail(t)) : c.do = "d"
                                  /\ \A c \in ToSet(Tail(t)) : c.do \in {"d", "tomb", "unlist"}
           /\ Head(t).do = "d" => /\ Tail(t) # <<>>
                                  /\ \A c \in ToSet(Tail(t)) : c.do \in {"tomb", "unlist"}
<1>1. CASE \E k \in Keys, g \in Group : t = <<Save("manage", k), SaveState(g)>>
  <2> PICK k \in Keys, g \in Group : t = <<Save("manage", k), SaveState(g)>>
    BY <1>1
  <2>1. Head(t) = Save("manage", k) /\ Tail(t) = <<SaveState(g)>>
    OBVIOUS
  <2>2. ToSet(t) = {Head(t), SaveState(g)} /\ ToSet(Tail(t)) = {SaveState(g)}
    BY <2>1, SetsOfCommands
  <2>3. QED BY <2>1, <2>2, CommandTypes DEF Backlog, LastCommands
<1>2. CASE \E k \in Keys : t = <<Erase("h"), Erase("d"), Save("tomb", k)>>
  <2> PICK k \in Keys : t = <<Erase("h"), Erase("d"), Save("tomb", k)>>
    BY <1>2
  <2>1. Head(t) = Erase("h") /\ Tail(t) = <<Erase("d"), Save("tomb", k)>>
    OBVIOUS
  <2>2. /\ ToSet(t) = {Head(t), Erase("d"), Save("tomb", k)}
        /\ ToSet(Tail(t)) = {Erase("d"), Save("tomb", k)}
    BY <2>1, SetsOfCommands
  <2>3. QED BY <2>1, <2>2, CommandTypes DEF Backlog, LastTwo
<1>3. CASE t = <<Erase("h"), Erase("d"), Erase("unlist")>>
  <2>1. Head(t) = Erase("h") /\ Tail(t) = <<Erase("d"), Erase("unlist")>>
    BY <1>3
  <2>2. /\ ToSet(t) = {Head(t), Erase("d"), Erase("unlist")}
        /\ ToSet(Tail(t)) = {Erase("d"), Erase("unlist")}
    BY <1>3, <2>1, SetsOfCommands
  <2>3. QED BY <2>1, <2>2, CommandTypes DEF Backlog, LastTwo
<1>4. CASE \E c \in {Save("tomb", k) : k \in Keys} \cup {Erase("unlist")} : t = <<Erase("d"), c>>
  <2> PICK c \in {Save("tomb", k) : k \in Keys} \cup {Erase("unlist")} : t = <<Erase("d"), c>>
    BY <1>4
  <2>1. Head(t) = Erase("d") /\ Tail(t) = <<c>> /\ Tail(t) # <<>>
    OBVIOUS
  <2>2. ToSet(t) = {Head(t), c} /\ ToSet(Tail(t)) = {c}
    BY <2>1, SetsOfCommands
  <2>3. QED BY <2>1, <2>2, CommandTypes DEF Backlog, LastCommands
<1>5. CASE \E c \in LastCommands : t = <<c>>
  <2> PICK c \in LastCommands : t = <<c>>
    BY <1>5
  <2>1. Head(t) = c /\ Tail(t) = <<>>
    OBVIOUS
  <2>2. ToSet(t) = {Head(t)} /\ ToSet(Tail(t)) = {}
    BY <2>1, SetsOfCommands
  <2>3. QED BY <2>1, <2>2, CommandTypes DEF Backlog, LastCommands
<1>6. QED
  BY <1>1, <1>2, <1>3, <1>4, <1>5
  DEF Backlog, ChangeCommands, DeleteCommands, EraseCommands, LastTwo

-----------------------------------------------------------------------------
(* Types. *)

TasksTyped ==
    /\ task \in [Workers -> Task]
    /\ \A w \in Workers :
          /\ task[w].todo \in Backlog
          /\ (task[w].at = "store") <=> (task[w].todo # <<>>)
          /\ task[w].at \in {"tombs", "previous", "insert", "remove"} => task[w].who \in Keys

RegistryTypes == TypeOK /\ TasksTyped

LEMMA BackloggedTodos ==
    /\ <<>> \in Backlog
    /\ \A k \in Keys, g \in Group : <<Save("manage", k), SaveState(g)>> \in Backlog
    /\ \A k \in Keys : /\ <<Save("post", k)>> \in Backlog
                       /\ <<Save("tomb", k)>> \in Backlog
                       /\ <<Erase("h"), Erase("d"), Save("tomb", k)>> \in Backlog
    /\ <<Erase("h"), Erase("d"), Erase("unlist")>> \in Backlog
BY DEF Backlog, ChangeCommands, DeleteCommands, EraseCommands, LastCommands

\* The three ways a handler's task changes.
LEMMA BeginType ==
    ASSUME TasksTyped, NEW w \in Workers, NEW k \in Keys,
           NEW at \in {"tombs", "previous", "insert", "remove"}, Begin(w, at, k)
    PROVE  TasksTyped'
BY BacklogType, BackloggedTodos DEF TasksTyped, Begin, IdleTask, Task

LEMMA EndType ==
    ASSUME TasksTyped, NEW w \in Workers, End(w)
    PROVE  TasksTyped'
BY BacklogType, BackloggedTodos DEF TasksTyped, End, IdleTask, Task

LEMMA ReturnType ==
    ASSUME TasksTyped, NEW w \in Workers, NEW t \in Backlog, t # <<>>, Return(w, t)
    PROVE  TasksTyped'
BY BacklogType DEF TasksTyped, Return, IdleTask, Task

\* What the commands of a handler do to the database keeps its type.
LEMMA StoreTypes ==
    ASSUME RegistryTypes, NEW w \in Workers, Store(w)
    PROVE  RegistryTypes'
<1> DEFINE c == Head(task[w].todo)
           rest == Tail(task[w].todo)
<1>1. task[w].todo \in Backlog /\ task[w].todo # <<>>
  BY DEF RegistryTypes, TasksTyped, Store
<1>2. /\ c \in Command /\ rest \in Backlog
      /\ c.do = "state" => c.group \in Group
      /\ c.do \in {"post", "tomb"} => c.by \in Keys
  BY <1>1, NextCommand
<1>3. IF rest = <<>> THEN End(w) ELSE Return(w, rest)
  BY DEF Store
<1>4. TasksTyped'
  <2> HIDE DEF c, rest
  <2>1. CASE rest = <<>>
    BY <1>3, <2>1, EndType DEF RegistryTypes
  <2>2. CASE rest # <<>>
    BY <1>2, <1>3, <2>2, ReturnType DEF RegistryTypes
  <2>3. QED BY <2>1, <2>2
<1>5. {group', state'} \subseteq Group \cup {None} /\ clock' \in Nat
  BY <1>2 DEF Store, RegistryTypes, TypeOK, Newer
<1>6. posts' \in SUBSET Keys /\ tombs' \in SUBSET Keys
  BY <1>2 DEF Store, RegistryTypes, TypeOK
<1>7. managed' \in BOOLEAN /\ raced' \in BOOLEAN /\ replaced' \in BOOLEAN
  BY DEF Store, RegistryTypes, TypeOK
<1>8. QED BY <1>4, <1>5, <1>6, <1>7 DEF RegistryTypes, TypeOK, TasksTyped, Task

\* The group a creation inserts, and the one a change leaves.
NewGroup(w) ==
    [admin |-> task[w].who, members |-> {task[w].who} \cup task[w].found, stamp |-> clock + 1]

LEMMA NewGroupType ==
    ASSUME RegistryTypes, NEW w \in Workers, task[w].at = "insert"
    PROVE  NewGroup(w) \in Group
BY DEF RegistryTypes, TypeOK, TasksTyped, Task, NewGroup, Group

LEMMA WithMemberType ==
    ASSUME RegistryTypes, NEW k \in Keys, group # None
    PROVE  /\ WithMember(group, k) \in Group
           /\ WithMember(group, k).admin = group.admin
           /\ group.members \subseteq WithMember(group, k).members
           /\ WithMember(group, k).stamp = clock + 1
<1>1. group \in Group /\ clock + 1 \in Nat
  BY DEF RegistryTypes, TypeOK
<1>2. ASSUME NEW g \in Group
      PROVE  /\ WithMember(g, k) \in Group
             /\ WithMember(g, k).admin = g.admin
             /\ g.members \subseteq WithMember(g, k).members
             /\ WithMember(g, k).stamp = clock + 1
  BY <1>1 DEF WithMember, Group
<1>3. QED BY <1>1, <1>2

LEMMA StepTypes ==
    ASSUME RegistryTypes, [Next]_vars
    PROVE  RegistryTypes'
<1> USE DEF RegistryTypes
<1>1. CASE UNCHANGED vars
  BY <1>1 DEF vars, database, TypeOK, TasksTyped
<1>2. CASE Restart
  <2>1. TasksTyped'
    BY <1>2, BackloggedTodos, BacklogType DEF Restart, IdleTask, Task, TasksTyped
  <2>2. QED BY <1>2, <2>1 DEF Restart, database, TypeOK, TasksTyped
<1>3. ASSUME NEW w \in Workers, NEW k \in Keys, CheckFree(w, k) PROVE RegistryTypes'
  <2>1. TasksTyped'
    BY <1>3, BeginType DEF CheckFree
  <2>2. QED BY <1>3, <2>1 DEF CheckFree, database, TypeOK, TasksTyped
<1>4. ASSUME NEW w \in Workers, QueryTombs(w) PROVE RegistryTypes'
  <2>1. task[w].who \in Keys
    BY <1>4 DEF QueryTombs, TasksTyped
  <2>2. TasksTyped'
    BY <1>4, <2>1, BeginType, EndType DEF QueryTombs
  <2>3. QED BY <1>4, <2>2 DEF QueryTombs, database, TypeOK, TasksTyped
<1>5. ASSUME NEW w \in Workers, QueryPrevious(w) PROVE RegistryTypes'
  <2>1. CASE End(w)
    BY <1>5, <2>1, EndType DEF QueryPrevious, database, TypeOK, TasksTyped
  <2>2. CASE task' = [task EXCEPT ![w].at = "insert", ![w].found = posts \cup tombs]
    <3>1. posts \cup tombs \in SUBSET Keys /\ task[w].at = "previous"
      BY <1>5 DEF QueryPrevious, TypeOK
    <3>2. TasksTyped'
      <4> DEFINE next == [task[w] EXCEPT !.at = "insert", !.found = posts \cup tombs]
      <4>1. task \in [Workers -> Task] /\ task[w] \in Task /\ task' = [task EXCEPT ![w] = next]
        BY <2>2 DEF TasksTyped
      <4>2. /\ next \in Task /\ next.at = "insert"
            /\ next.todo = task[w].todo /\ next.who = task[w].who
        BY <3>1, <4>1 DEF Task
      <4> HIDE DEF next
      <4> QED BY <3>1, <4>1, <4>2 DEF TasksTyped
    <3>3. QED BY <1>5, <3>2 DEF QueryPrevious, database, TypeOK, TasksTyped
  <2>3. QED BY <1>5, <2>1, <2>2 DEF QueryPrevious
<1>6. ASSUME NEW w \in Workers, Insert(w) PROVE RegistryTypes'
  <2>1. task[w].who \in Keys /\ NewGroup(w) \in Group
    BY <1>6, NewGroupType DEF Insert, TasksTyped
  <2>2. group' = NewGroup(w) /\ Return(w, <<Save("manage", task[w].who), SaveState(NewGroup(w))>>)
    BY <1>6 DEF Insert, NewGroup
  <2>3. TasksTyped'
    BY <2>1, <2>2, BackloggedTodos, ReturnType
  <2>4. clock' \in Nat /\ {raced', replaced'} \subseteq BOOLEAN /\ UNCHANGED database
    BY <1>6 DEF Insert, TypeOK
  <2>5. QED BY <2>1, <2>2, <2>3, <2>4 DEF database, TypeOK, TasksTyped
<1>7. ASSUME NEW w \in Workers, NEW k \in Keys, PutUser(w, k) PROVE RegistryTypes'
  <2>1. WithMember(group, k) \in Group
    BY <1>7, WithMemberType DEF PutUser
  <2>2. group' = WithMember(group, k) /\ Return(w, <<Save("manage", k), SaveState(WithMember(group, k))>>)
    BY <1>7 DEF PutUser
  <2>3. TasksTyped'
    BY <2>1, <2>2, BackloggedTodos, ReturnType
  <2>4. QED BY <1>7, <2>1, <2>2, <2>3 DEF PutUser, database, TypeOK, TasksTyped
<1>8. ASSUME NEW w \in Workers, NEW k \in Keys, Post(w, k) PROVE RegistryTypes'
  <2>1. TasksTyped'
    BY <1>8, BackloggedTodos, ReturnType DEF Post
  <2>2. QED BY <1>8, <2>1 DEF Post, database, TypeOK, TasksTyped
<1>9. ASSUME NEW w \in Workers, NEW k \in Keys, DeleteNothing(w, k) PROVE RegistryTypes'
  <2>1. TasksTyped'
    BY <1>9, BackloggedTodos, ReturnType DEF DeleteNothing
  <2>2. QED BY <1>9, <2>1 DEF DeleteNothing, database, TypeOK, TasksTyped
<1>10. ASSUME NEW w \in Workers, NEW k \in Keys, DeleteCheck(w, k) PROVE RegistryTypes'
  <2>1. TasksTyped'
    BY <1>10, BeginType DEF DeleteCheck
  <2>2. QED BY <1>10, <2>1 DEF DeleteCheck, database, TypeOK, TasksTyped
<1>11. ASSUME NEW w \in Workers, RemoveGroup(w) PROVE RegistryTypes'
  <2>1. task[w].who \in Keys
    BY <1>11 DEF RemoveGroup, TasksTyped
  <2>2. TasksTyped'
    BY <1>11, <2>1, BackloggedTodos, ReturnType DEF RemoveGroup
  <2>3. QED BY <1>11, <2>2 DEF RemoveGroup, database, TypeOK, TasksTyped
<1>12. ASSUME NEW w \in Workers, ConsoleDelete(w) PROVE RegistryTypes'
  <2>1. TasksTyped'
    BY <1>12, BackloggedTodos, ReturnType DEF ConsoleDelete
  <2>2. QED BY <1>12, <2>1 DEF ConsoleDelete, database, TypeOK, TasksTyped
<1>13. QED
  BY <1>1, <1>2, <1>3, <1>4, <1>5, <1>6, <1>7, <1>8, <1>9, <1>10, <1>11, <1>12, StoreTypes
  DEF Next

LEMMA InitTypes == Init => RegistryTypes
<1> SUFFICES ASSUME Init PROVE RegistryTypes
  OBVIOUS
<1>1. TasksTyped
  BY BackloggedTodos, BacklogType DEF Init, TasksTyped, Task, IdleTask
<1>2. QED BY <1>1 DEF Init, RegistryTypes, TypeOK, TasksTyped

\* Every variable keeps its type, whatever handlers run at once (TypeOK).
THEOREM RegistryTypesKept == Spec => []TypeOK
<1>1. Init => RegistryTypes
  BY InitTypes
<1>2. RegistryTypes /\ [Next]_vars => RegistryTypes'
  BY StepTypes
<1>3. RegistryTypes => TypeOK
  BY DEF RegistryTypes
<1>4. QED BY <1>1, <1>2, <1>3, PTL DEF Spec

-----------------------------------------------------------------------------
(* The invariant.  As long as no deletion overlapped a creation or a change, *)
(* changes and deletions exclude each other; memory, the database and the    *)
(* queued commands hold successive versions of one id, the newest in memory, *)
(* of one group unless a creation replaced another's; and a 9008 is stored   *)
(* only when the rest is gone.                                               *)

Pending(g) == \E w \in Workers : SaveState(g) \in Left(w)
Version(g) == g \in Group /\ (g = group \/ g = state \/ Pending(g))
Older(g, h) ==
    /\ g.stamp <= h.stamp
    /\ ~replaced => g.members \subseteq h.members
    /\ g.stamp = h.stamp => g = h

Tombing(w) == \E c \in Left(w) : c.do = "tomb"
Emptying(w) == \E c \in Left(w) : c.do = "d"
Unlisting(w) == \E c \in Left(w) : c.do = "unlist"
Wiping(w) == \E c \in Left(w) : c.do = "h"
NoDeletion == \A w \in Workers : ~Deleting(w)

Exclusive ==
    /\ (\E w \in Workers : Changing(w)) => NoDeletion /\ group # None
    /\ \A w \in Workers : Tombing(w) => group = None

Emptied ==
    /\ \A w \in Workers : Tombing(w) \/ Unlisting(w) => state = None \/ Emptying(w)
    /\ group = None /\ NoDeletion => state = None

Freed ==
    /\ \A w \in Workers : task[w].at \in {"previous", "insert"} => tombs = {}
    /\ group # None \/ state # None => tombs = {}

Successive ==
    /\ \A g, h : Version(g) /\ Version(h) => Older(g, h) \/ Older(h, g)
    /\ \A g : Version(g) => /\ g.stamp <= clock
                            /\ group # None => Older(g, group)

Recorded == group # None /\ NoDeletion => group = state \/ Pending(group)

Sound == Exclusive /\ Emptied /\ Freed /\ Successive /\ Recorded
RegistryInv == RegistryTypes /\ (~raced => Sound)

\* A queued state command holds the group it will store.
LEMMA QueuedStates ==
    ASSUME RegistryTypes, NEW w \in Workers
    PROVE  /\ Changing(w) <=> \E g \in Group : SaveState(g) \in Left(w)
           /\ \A c \in Left(w) : c.do = "state" => c.group \in Group /\ c = SaveState(c.group)
<1>1. ASSUME NEW t \in Backlog, NEW c \in ToSet(t), c.do = "state"
      PROVE  c.group \in Group /\ c = SaveState(c.group)
  <2>1. CASE t = <<>>
    BY <1>1, <2>1, SetsOfCommands
  <2>2. CASE t # <<>> /\ c = Head(t)
    BY <1>1, <2>2, NextCommand
  <2>3. CASE t # <<>> /\ c \in ToSet(Tail(t))
    <3>1. Head(t) \in Command /\ Head(t).do # "h" /\ Head(t).do # "d"
      BY <1>1, <2>3, NextCommand
    <3>2. Tail(t) # <<>>
      BY <2>3, SetsOfCommands
    <3>3. Head(t).do = "manage"
      BY <1>1, <2>3, <3>1, <3>2, NextCommand DEF Command
    <3>4. PICK g \in Group : ToSet(Tail(t)) = {SaveState(g)}
      BY <1>1, <2>3, <3>3, NextCommand
    <3>5. QED BY <2>3, <3>4, CommandTypes
  <2>4. QED BY <1>1, <2>1, <2>2, <2>3, NextCommand
<1>2. task[w].todo \in Backlog
  BY DEF RegistryTypes, TasksTyped
<1>3. \A c \in Left(w) : c.do = "state" => c.group \in Group /\ c = SaveState(c.group)
  BY <1>1, <1>2 DEF Left
<1>4. QED BY <1>3, CommandTypes DEF Changing, Unstored, Left

\* The kinds of commands a handler has left.
LEMMA Kinds ==
    ASSUME NEW w \in Workers
    PROVE  Deleting(w) <=> \/ task[w].at = "remove"
                           \/ Tombing(w) \/ Emptying(w) \/ Unlisting(w) \/ Wiping(w)
BY DEF Deleting, Unstored, Tombing, Emptying, Unlisting, Wiping, Left

\* A step that disturbs neither the group nor the commands that count keeps the
\* invariant.
LEMMA NeutralStep ==
    ASSUME Sound, RegistryTypes, RegistryTypes', NEW w \in Workers,
           UNCHANGED <<group, state, tombs, clock, replaced>>,
           \A v \in Others(w) : task'[v] = task[v],
           \A c : c.do \notin {"manage", "post"} => (c \in Left(w)' <=> c \in Left(w)),
           task'[w].at = "remove" <=> task[w].at = "remove",
           task'[w].at \in {"previous", "insert"} => tombs = {}
    PROVE  Sound'
<1>1. \A v \in Workers : \A c : c.do \notin {"manage", "post"} => (c \in Left(v)' <=> c \in Left(v))
  BY DEF Left, Others
<1>2. \A v \in Workers : Deleting(v)' <=> Deleting(v)
  BY <1>1 DEF Deleting, Unstored, Left, Others
<1>3. \A v \in Workers : /\ Changing(v)' <=> Changing(v)
                         /\ Tombing(v)' <=> Tombing(v)
                         /\ Unlisting(v)' <=> Unlisting(v)
                         /\ Emptying(v)' <=> Emptying(v)
  <2>1. \A v \in Workers : Changing(v)' <=> Changing(v)
    BY <1>1 DEF Changing, Unstored, Left
  <2>2. QED BY <1>1, <2>1 DEF Tombing, Unlisting, Emptying
<1>4. \A g : Pending(g)' <=> Pending(g)
  BY <1>1, CommandTypes DEF Pending, SaveState
<1>5. \A g : Version(g)' <=> Version(g)
  BY <1>4 DEF Version
<1>6. NoDeletion' <=> NoDeletion
  BY <1>2 DEF NoDeletion
<1>7. Exclusive'
  BY <1>3, <1>6 DEF Sound, Exclusive
<1>8. Emptied'
  BY <1>3, <1>6 DEF Sound, Emptied
<1>9. Freed'
  BY DEF Sound, Freed, Others
<1>10. Successive'
  BY <1>5 DEF Sound, Successive, Older
<1>11. Recorded'
  BY <1>4, <1>6 DEF Sound, Recorded
<1>12. QED BY <1>7, <1>8, <1>9, <1>10, <1>11 DEF Sound

\* What the three ways of changing a task leave of its commands.
LEMMA AfterReturn ==
    ASSUME RegistryTypes, NEW w \in Workers, NEW t, Return(w, t)
    PROVE  /\ Left(w)' = ToSet(t) /\ task'[w].at = "store"
           /\ \A v \in Others(w) : task'[v] = task[v]
BY DEF RegistryTypes, TasksTyped, Return, IdleTask, Left, Others

LEMMA AfterBegin ==
    ASSUME RegistryTypes, NEW w \in Workers, NEW at, NEW k, Begin(w, at, k)
    PROVE  /\ Left(w)' = {} /\ task'[w].at = at
           /\ \A v \in Others(w) : task'[v] = task[v]
BY SetsOfCommands DEF RegistryTypes, TasksTyped, Begin, IdleTask, Left, Others

LEMMA AfterEnd ==
    ASSUME RegistryTypes, NEW w \in Workers, End(w)
    PROVE  /\ Left(w)' = {} /\ task'[w].at = "idle"
           /\ \A v \in Others(w) : task'[v] = task[v]
BY SetsOfCommands DEF RegistryTypes, TasksTyped, End, IdleTask, Left, Others

LEMMA NothingLeft ==
    ASSUME RegistryTypes, NEW w \in Workers, task[w].at # "store"
    PROVE  Left(w) = {}
BY SetsOfCommands DEF RegistryTypes, TasksTyped, Left

LEMMA IdleHasNothingLeft ==
    ASSUME NEW w \in Workers, Idle(w)
    PROVE  Left(w) = {} /\ task[w].at = "idle" /\ ~Deleting(w) /\ ~Changing(w)
BY SetsOfCommands DEF Idle, IdleTask, Left, Deleting, Changing, Unstored

\* A creation or a change puts a version newer than all others into memory and
\* queues it.
LEMMA NewVersion ==
    ASSUME Sound, RegistryTypes, RegistryTypes', NEW w \in Workers, NEW k \in Keys,
           task[w].at # "store", task[w].at # "remove",
           group' \in Group, group'.stamp = clock + 1, clock' = clock + 1,
           UNCHANGED <<state, tombs>>,
           replaced => replaced',
           group # None /\ ~replaced' => group.members \subseteq group'.members,
           tombs = {},
           \A v \in Others(w) : ~Deleting(v),
           Return(w, <<Save("manage", k), SaveState(group')>>)
    PROVE  Sound'
<1>1. /\ \A v \in Others(w) : task'[v] = task[v] /\ Left(v)' = Left(v)
      /\ Left(w) = {} /\ Left(w)' = {Save("manage", k), SaveState(group')} /\ task'[w].at = "store"
  <2>1. Left(w)' = ToSet(<<Save("manage", k), SaveState(group')>>) /\ task'[w].at = "store"
    BY AfterReturn
  <2>2. \A v \in Others(w) : task'[v] = task[v]
    BY AfterReturn
  <2>3. \A v \in Others(w) : Left(v)' = Left(v)
    BY <2>2 DEF Left
  <2>4. Left(w)' = {Save("manage", k), SaveState(group')}
    BY <2>1, SetsOfCommands
  <2>5. Left(w) = {}
    BY NothingLeft
  <2> QED BY <2>1, <2>2, <2>3, <2>4, <2>5
<1>2. NoDeletion
  BY <1>1 DEF NoDeletion, Deleting, Unstored, Left, Others
<1>3. NoDeletion' /\ \A v \in Workers : ~Tombing(v)' /\ ~Unlisting(v)'
  <2>1. ~Deleting(w)' /\ ~Tombing(w)' /\ ~Unlisting(w)'
    BY <1>1, CommandTypes DEF Deleting, Unstored, Left, Tombing, Unlisting
  <2>2. \A v \in Others(w) : ~Deleting(v)' /\ ~Tombing(v)' /\ ~Unlisting(v)'
    BY <1>1, Kinds DEF Deleting, Unstored, Left, Tombing, Unlisting, Others
  <2>3. QED BY <2>1, <2>2 DEF NoDeletion, Others
<1>4. group' # None
  OBVIOUS
<1>5. \A g : Pending(g)' <=> Pending(g) \/ g = group'
  <2>1. \A g : SaveState(g) = SaveState(group') => g = group'
    BY DEF SaveState
  <2>2. \A g : SaveState(g) # Save("manage", k)
    BY DEF SaveState, Save
  <2>3. QED BY <1>1, <2>1, <2>2 DEF Pending, Others
<1>6. \A g : Version(g)' => Version(g) \/ g = group'
  BY <1>5 DEF Version
<1>7. \A g : Version(g) => Older(g, group)'
  <2> SUFFICES ASSUME NEW g, Version(g) PROVE Older(g, group)'
    OBVIOUS
  <2>1. g \in Group /\ g.stamp \in Nat /\ g.stamp <= clock /\ clock \in Nat
    BY DEF Version, Sound, Successive, Group, RegistryTypes, TypeOK
  <2>2. ~replaced' => g.members \subseteq group'.members
    <3>1. CASE group # None
      BY <3>1 DEF Sound, Successive, Older
    <3>2. CASE group = None
      <4>1. state = None /\ \A v \in Workers : ~Changing(v)
        BY <1>2, <3>2 DEF Sound, Exclusive, Emptied
      <4>2. \A v \in Workers : SaveState(g) \notin Left(v)
        BY <2>1, <4>1, QueuedStates
      <4>3. FALSE
        BY <2>1, <3>2, <4>1, <4>2 DEF Version, Pending
      <4>4. QED BY <4>3
    <3>3. QED BY <3>1, <3>2
  <2>3. QED BY <2>1, <2>2 DEF Older
<1>8. Older(group, group)' /\ group'.stamp <= clock'
  BY DEF Older, Group, RegistryTypes, TypeOK
<1>9. Exclusive'
  BY <1>3, <1>4 DEF Exclusive
<1>10. Emptied'
  BY <1>3, <1>4 DEF Emptied
<1>11. Freed'
  BY DEF Freed
<1>12. Successive'
  <2>1. \A g : Version(g)' => g.stamp <= clock' /\ Older(g, group)'
    <3>1. \A g : Version(g) => g.stamp <= clock'
      BY DEF Version, Sound, Successive, Group, RegistryTypes, TypeOK
    <3>2. QED BY <1>6, <1>7, <1>8, <3>1
  <2>2. ASSUME NEW g, NEW h, Version(g)', Version(h)' PROVE Older(g, h)' \/ Older(h, g)'
    <3>1. CASE g = group' \/ h = group'
      BY <2>1, <2>2, <3>1
    <3>2. CASE Version(g) /\ Version(h)
      BY <3>2 DEF Sound, Successive, Older
    <3>3. QED BY <1>6, <2>2, <3>1, <3>2
  <2>3. QED BY <2>1, <2>2 DEF Successive, Older
<1>13. Recorded'
  BY <1>5 DEF Recorded
<1>14. QED BY <1>9, <1>10, <1>11, <1>12, <1>13 DEF Sound

\* A deletion begins when no change is queued, and keeps what is there.
LEMMA DeletionBegins ==
    ASSUME Sound, RegistryTypes, RegistryTypes', NEW w \in Workers,
           Idle(w) \/ Deleting(w), Left(w) = {},
           UNCHANGED <<group, state, tombs, clock>> \/ (UNCHANGED <<state, tombs, clock>> /\ group' = None),
           replaced' = replaced,
           \A v \in Others(w) : task'[v] = task[v] /\ ~Changing(v),
           Deleting(w)', ~Changing(w)', task'[w].at \in {"remove", "store"},
           Tombing(w)' => group' = None,
           Tombing(w)' \/ Unlisting(w)' => state = None \/ Emptying(w)'
    PROVE  Sound'
<1>1. \A v \in Others(w) : Left(v)' = Left(v)
  BY DEF Left
<1>2. \A v \in Workers : ~Changing(v)'
  <2>1. \A v \in Others(w) : ~Changing(v)'
    BY <1>1 DEF Changing, Unstored, Left
  <2>2. QED BY <2>1 DEF Others
<1>3. \A g : ~Pending(g)'
  BY <1>2, CommandTypes DEF Pending, Changing, Unstored, Left, SaveState
<1>4. ~NoDeletion'
  BY DEF NoDeletion
<1>5. \A g : Version(g)' => Version(g)
  BY <1>3 DEF Version
<1>6. Exclusive'
  <2>1. \A v \in Others(w) : Tombing(v)' => group' = None
    BY <1>1 DEF Tombing, Sound, Exclusive, Others
  <2>2. QED BY <1>2, <2>1 DEF Exclusive, Others
<1>7. Emptied'
  <2>1. \A v \in Others(w) : Tombing(v)' \/ Unlisting(v)' => state' = None \/ Emptying(v)'
    BY <1>1 DEF Tombing, Unlisting, Emptying, Sound, Emptied, Others
  <2>2. state' = state
    OBVIOUS
  <2>3. \A v \in Workers : Tombing(v)' \/ Unlisting(v)' => state' = None \/ Emptying(v)'
    BY <2>1, <2>2 DEF Others
  <2>4. QED BY <1>4, <2>3 DEF Emptied
<1>8. Freed'
  <2>1. \A v \in Workers : task'[v].at \in {"previous", "insert"} => tombs' = {}
    BY DEF Sound, Freed, Others
  <2>2. group' # None \/ state' # None => tombs' = {}
    BY DEF Sound, Freed
  <2>3. QED BY <2>1, <2>2 DEF Freed
<1>9. Successive'
  BY <1>5 DEF Sound, Successive, Older
<1>10. Recorded'
  BY <1>4 DEF Recorded
<1>11. QED BY <1>6, <1>7, <1>8, <1>9, <1>10 DEF Sound

LEMMA DeletionSteps ==
    ASSUME Sound, RegistryTypes, RegistryTypes', ~raced', NEW w \in Workers, NEW k \in Keys,
           \/ DeleteNothing(w, k) \/ DeleteCheck(w, k) \/ RemoveGroup(w) \/ ConsoleDelete(w)
    PROVE  Sound'
<1> USE DEF Others
<1>1. CASE DeleteNothing(w, k)
  <2>1. /\ Idle(w) /\ group = None /\ UNCHANGED <<group, state, tombs, clock, replaced>>
        /\ Return(w, <<Save("tomb", k)>>)
        /\ \A v \in Others(w) : ~Deleting(v)
    BY <1>1 DEF DeleteNothing, database
  <2>2. /\ Left(w)' = {Save("tomb", k)} /\ task'[w].at = "store"
        /\ \A v \in Others(w) : task'[v] = task[v]
    BY <2>1, AfterReturn, SetsOfCommands
  <2>3. Left(w) = {} /\ ~Deleting(w)
    BY <2>1, IdleHasNothingLeft
  <2>4. state = None /\ \A v \in Workers : ~Changing(v)
    BY <2>1, <2>3 DEF NoDeletion, Sound, Emptied, Exclusive
  <2>5. Deleting(w)' /\ ~Changing(w)'
    BY <2>2, CommandTypes DEF Deleting, Changing, Unstored, Left
  <2>6. QED BY <2>1, <2>2, <2>3, <2>4, <2>5, DeletionBegins
<1>2. CASE DeleteCheck(w, k)
  <2>1. /\ Idle(w) /\ UNCHANGED <<group, state, tombs, clock, replaced>> /\ Begin(w, "remove", k)
        /\ \A v \in Others(w) : ~Changing(v)
    BY <1>2 DEF DeleteCheck, database
  <2>2. /\ Left(w)' = {} /\ task'[w].at = "remove"
        /\ \A v \in Others(w) : task'[v] = task[v]
    BY <2>1, AfterBegin
  <2>3. Left(w) = {}
    BY <2>1, IdleHasNothingLeft
  <2>4. Deleting(w)' /\ ~Changing(w)' /\ ~Tombing(w)' /\ ~Unlisting(w)'
    BY <2>2 DEF Deleting, Changing, Unstored, Left, Tombing, Unlisting
  <2>5. QED BY <2>1, <2>2, <2>3, <2>4, DeletionBegins
<1>3. CASE RemoveGroup(w)
  <2>1. /\ task[w].at = "remove" /\ group' = None /\ UNCHANGED <<state, tombs, clock, replaced>>
        /\ Return(w, <<Erase("h"), Erase("d"), Save("tomb", task[w].who)>>)
    BY <1>3 DEF RemoveGroup, database
  <2>2. /\ Left(w)' = {Erase("h"), Erase("d"), Save("tomb", task[w].who)} /\ task'[w].at = "store"
        /\ \A v \in Others(w) : task'[v] = task[v]
    BY <2>1, AfterReturn, SetsOfCommands
  <2>3. Left(w) = {} /\ Deleting(w)
    BY <2>1, NothingLeft DEF Deleting
  <2>4. \A v \in Workers : ~Changing(v)
    BY <2>3 DEF NoDeletion, Sound, Exclusive
  <2>5. Deleting(w)' /\ ~Changing(w)' /\ Emptying(w)'
    BY <2>2 DEF Deleting, Changing, Unstored, Left, Emptying, Save, Erase
  <2>6. QED BY <2>1, <2>2, <2>3, <2>4, <2>5, DeletionBegins
<1>4. CASE ConsoleDelete(w)
  <2>1. /\ Idle(w) /\ UNCHANGED <<group, state, tombs, clock, replaced>>
        /\ Return(w, <<Erase("h"), Erase("d"), Erase("unlist")>>)
        /\ \A v \in Others(w) : ~Changing(v)
    BY <1>4 DEF ConsoleDelete, database
  <2>2. /\ Left(w)' = {Erase("h"), Erase("d"), Erase("unlist")} /\ task'[w].at = "store"
        /\ \A v \in Others(w) : task'[v] = task[v]
    BY <2>1, AfterReturn, SetsOfCommands
  <2>3. Left(w) = {}
    BY <2>1, IdleHasNothingLeft
  <2>4. Deleting(w)' /\ ~Changing(w)' /\ Emptying(w)' /\ ~Tombing(w)'
    BY <2>2 DEF Deleting, Changing, Unstored, Left, Emptying, Tombing, Erase
  <2>5. QED BY <2>1, <2>2, <2>3, <2>4, DeletionBegins
<1>5. QED BY <1>1, <1>2, <1>3, <1>4

\* What storing the next command does to a task.
LEMMA AfterStore ==
    ASSUME RegistryTypes, NEW w \in Workers, Store(w)
    PROVE  LET c == Head(task[w].todo)
           IN  /\ c \in Left(w) /\ c \in Command
               /\ Left(w) = {c} \cup Left(w)' /\ task[w].at = "store"
               /\ Left(w)' = ToSet(Tail(task[w].todo))
               /\ task'[w].at \in {"idle", "store"}
               /\ \A v \in Others(w) : task'[v] = task[v]
               /\ task[w].todo \in Backlog /\ task[w].todo # <<>>
<1> DEFINE rest == Tail(task[w].todo)
<1>1. task[w].at = "store" /\ task[w].todo \in Backlog /\ task[w].todo # <<>>
  BY DEF Store, RegistryTypes, TasksTyped
<1>2. ToSet(task[w].todo) = {Head(task[w].todo)} \cup ToSet(rest) /\ Head(task[w].todo) \in Command
  BY <1>1, NextCommand
<1>3. IF rest = <<>> THEN End(w) ELSE Return(w, rest)
  BY DEF Store
<1>4. /\ Left(w)' = ToSet(rest) /\ task'[w].at \in {"idle", "store"}
      /\ \A v \in Others(w) : task'[v] = task[v]
  <2> HIDE DEF rest
  <2>1. CASE rest = <<>>
    BY <1>3, <2>1, AfterEnd, SetsOfCommands
  <2>2. CASE rest # <<>>
    BY <1>3, <2>2, AfterReturn
  <2>3. QED BY <2>1, <2>2
<1>5. QED BY <1>1, <1>2, <1>4 DEF Left

LEMMA StoreState ==
    ASSUME Sound, RegistryTypes, RegistryTypes', NEW w \in Workers, Store(w),
           Head(task[w].todo).do = "state"
    PROVE  /\ Sound' /\ UNCHANGED <<group, tombs>> /\ tombs = {} /\ group # None
           /\ state' \in Group /\ Older(state', group)
           /\ state # None => Older(state, state')
<1> DEFINE c == Head(task[w].todo)
<1>1. /\ UNCHANGED <<group, tombs, clock, replaced>> /\ state' = Newer(c.group, state)
  BY DEF Store
<1>2. /\ Left(w) = {c} /\ Left(w)' = {} /\ task[w].at = "store" /\ task'[w].at \in {"idle", "store"}
      /\ \A v \in Others(w) : task'[v] = task[v] /\ Left(v)' = Left(v)
      /\ c.group \in Group /\ c = SaveState(c.group)
  BY AfterStore, NextCommand, SetsOfCommands DEF Left
<1>3. Changing(w) /\ Pending(c.group) /\ Version(c.group)
  BY <1>2 DEF Changing, Unstored, Left, Pending, Version
<1>4. NoDeletion /\ group # None /\ tombs = {}
  BY <1>3 DEF Sound, Exclusive, Freed
<1>5. \A v \in Workers : ~Deleting(v)' /\ ~Tombing(v)' /\ ~Unlisting(v)'
  <2>1. \A v \in Workers : ~Deleting(v) /\ ~Tombing(v) /\ ~Unlisting(v)
    BY <1>4, Kinds DEF NoDeletion
  <2>2. QED BY <1>2, <2>1 DEF Deleting, Unstored, Left, Tombing, Unlisting, Others
<1>6. /\ state' \in Group
      /\ Version(state')
      /\ state # None => Older(state, state')
      /\ Older(c.group, state')
  <2>1. CASE state = None
    <3>1. state' = c.group /\ c.group \in Group
      BY <1>1, <1>2, <1>3, <2>1 DEF Newer
    <3>2. Older(c.group, c.group)
      BY <3>1 DEF Older, Group
    <3> QED BY <1>1, <1>2, <1>3, <2>1, <3>1, <3>2
  <2>2. CASE state # None
    <3>1. Version(state) /\ state \in Group
      BY <2>2 DEF Version, RegistryTypes, TypeOK
    <3>2. Older(state, c.group) \/ Older(c.group, state)
      BY <1>3, <3>1 DEF Sound, Successive
    <3>3. c.group \in Group /\ c.group.stamp \in Nat /\ state.stamp \in Nat
      BY <1>2, <3>1 DEF Group
    <3> HIDE DEF c
    <3>4. CASE c.group.stamp > state.stamp
      <4>1. state' = c.group
        BY <1>1, <3>4 DEF Newer
      <4>2. Older(state, c.group) /\ Older(c.group, c.group)
        BY ONLY <3>2, <3>3, <3>4 DEF Older
      <4> QED BY <1>2, <1>3, <3>3, <4>1, <4>2 DEF Version, Pending
    <3>5. CASE ~(c.group.stamp > state.stamp)
      <4>1. state' = state
        BY <1>1, <2>2, <3>5 DEF Newer
      <4>2. Older(c.group, state) /\ Older(state, state)
        BY ONLY <3>2, <3>3, <3>5 DEF Older
      <4> QED BY <1>1, <3>1, <4>1, <4>2 DEF Version
    <3>6. QED BY <3>4, <3>5
  <2>3. QED BY <2>1, <2>2
<1>7. Older(state', group)
  BY <1>4, <1>6 DEF Sound, Successive
<1>8. \A g : Version(g)' => Version(g)
  <2>1. \A g : Pending(g)' => Pending(g)
    BY <1>2 DEF Pending, Others
  <2>2. QED BY <1>1, <1>6, <2>1 DEF Version
<1>9. Exclusive'
  <2>1. ~Changing(w)' /\ \A v \in Workers : ~Tombing(v)'
    BY <1>2, <1>5 DEF Changing, Unstored, Left
  <2>2. NoDeletion'
    BY <1>5 DEF NoDeletion
  <2>3. QED BY <1>1, <1>4, <2>1, <2>2 DEF Exclusive
<1>10. Emptied'
  BY <1>1, <1>4, <1>5 DEF Emptied
<1>11. Freed'
  BY <1>1, <1>4 DEF Freed
<1>12. Successive'
  BY <1>1, <1>8 DEF Sound, Successive, Older
<1>13. Recorded'
  <2>1. group = state \/ Pending(group)
    BY <1>4 DEF Sound, Recorded
  <2>2. CASE group = state \/ group = c.group
    <3>1. Older(group, state')
      BY <1>6, <2>2, <1>4
    <3>2. group = state'
      <4>1. group \in Group
        BY <1>4 DEF RegistryTypes, TypeOK
      <4>2. QED BY <1>6, <1>7, <3>1, <4>1 DEF Older, Group
    <3>3. QED BY <1>1, <3>2 DEF Recorded
  <2>3. CASE group # c.group /\ Pending(group)
    <3>1. PICK v \in Workers : SaveState(group) \in Left(v)
      BY <2>3 DEF Pending
    <3>2. v # w
      BY <1>2, <2>3, <3>1 DEF SaveState
    <3>3. SaveState(group') \in Left(v)'
      BY <1>1, <1>2, <3>1, <3>2 DEF Others
    <3>4. QED BY <3>3 DEF Recorded, Pending
  <2>4. QED BY <2>1, <2>2, <2>3
<1>14. QED BY <1>1, <1>4, <1>6, <1>7, <1>9, <1>10, <1>11, <1>12, <1>13 DEF Sound

\* The commands of a deletion remove what they name; the last one finds the rest
\* removed.
LEMMA StoreDeletion ==
    ASSUME Sound, RegistryTypes, RegistryTypes', ~raced', NEW w \in Workers, Store(w),
           Head(task[w].todo).do \in {"h", "d", "tomb", "unlist"}
    PROVE  /\ Sound'
           /\ \/ UNCHANGED <<group, state>> /\ tombs' = {}
              \/ UNCHANGED <<group, tombs>> /\ state' = None
              \/ UNCHANGED <<group, state>> /\ group = None /\ state = None /\ tombs' # {}
              \/ UNCHANGED <<state, tombs>> /\ group' = None /\ state = None
<1> DEFINE c == Head(task[w].todo)
<1>1. /\ c \in Left(w) /\ Left(w) = {c} \cup Left(w)'
      /\ task[w].at = "store" /\ task'[w].at \in {"idle", "store"}
      /\ \A v \in Others(w) : task'[v] = task[v] /\ Left(v)' = Left(v)
  BY AfterStore DEF Left
<1>2. /\ c.do \in {"tomb", "unlist"} => Left(w)' = {} /\ Left(w) = {c}
      /\ c.do = "h" => (\E e \in Left(w)' : e.do = "d") /\ \A e \in Left(w)' : e.do \in {"d", "tomb", "unlist"}
      /\ c.do = "d" => \A e \in Left(w)' : e.do \in {"tomb", "unlist"}
      /\ c.do = "d" => Tail(task[w].todo) # <<>>
  <2>1. task[w].todo \in Backlog /\ task[w].todo # <<>>
    BY AfterStore
  <2>2. Left(w)' = ToSet(Tail(task[w].todo)) /\ Left(w) = {c} \cup Left(w)'
    BY AfterStore
  <2>3. c.do \in {"tomb", "unlist"} => Tail(task[w].todo) = <<>>
    BY <2>1, NextCommand
  <2>4. /\ c.do = "h" => /\ \E e \in ToSet(Tail(task[w].todo)) : e.do = "d"
                        /\ \A e \in ToSet(Tail(task[w].todo)) : e.do \in {"d", "tomb", "unlist"}
        /\ c.do = "d" => /\ Tail(task[w].todo) # <<>>
                        /\ \A e \in ToSet(Tail(task[w].todo)) : e.do \in {"tomb", "unlist"}
    BY <2>1, NextCommand
  <2>5. ASSUME c.do \in {"tomb", "unlist"} PROVE Left(w)' = {} /\ Left(w) = {c}
    <3>1. Left(w)' = ToSet(<<>>)
      BY <2>2, <2>3, <2>5
    <3>2. Left(w)' = {}
      BY <3>1, SetsOfCommands
    <3> QED BY <2>2, <3>2
  <2>6. c.do = "h" => (\E e \in Left(w)' : e.do = "d") /\ \A e \in Left(w)' : e.do \in {"d", "tomb", "unlist"}
    BY <2>2, <2>4, Zenon
  <2>7. c.do = "d" => Tail(task[w].todo) # <<>> /\ \A e \in Left(w)' : e.do \in {"tomb", "unlist"}
    BY <2>2, <2>4, Zenon
  <2> QED BY <2>5, <2>6, <2>7
<1>3. Deleting(w)
  BY <1>1 DEF Deleting, Unstored, Left
<1>4. \A v \in Workers : ~Changing(v) /\ ~Changing(v)'
  <2>1. \A v \in Workers : ~Changing(v)
    BY <1>3 DEF NoDeletion, Sound, Exclusive
  <2>2. \A v \in Workers : ~Changing(v)'
    BY <1>1, <2>1 DEF Changing, Unstored, Left, Others
  <2>3. QED BY <2>1, <2>2
<1>5. \A g : ~Pending(g)'
  BY <1>4, CommandTypes DEF Pending, Changing, Unstored, Left, SaveState
<1>6. /\ clock' = clock /\ replaced' = replaced
      /\ group' \in {group, None} /\ state' \in {state, None}
      /\ c.do # "unlist" => group' = group
      /\ c.do = "unlist" => group' = None
      /\ c.do # "d" => state' = state
      /\ c.do = "d" => state' = None
      /\ c.do \in {"d", "unlist"} => tombs' = tombs
      /\ c.do = "h" => tombs' = {}
      /\ c.do = "tomb" => tombs' = tombs \cup {c.by}
  BY DEF Store
<1>7. c.do = "tomb" => group = None /\ \A v \in Workers : task'[v].at \notin {"previous", "insert"}
  <2> SUFFICES ASSUME c.do = "tomb" PROVE group = None /\ \A v \in Workers : task'[v].at \notin {"previous", "insert"}
    OBVIOUS
  <2>1. group = None
    BY <1>1 DEF Tombing, Sound, Exclusive
  <2>2. \A v \in Others(w) : task[v].at \notin {"previous", "insert"}
    BY DEF Store
  <2>3. QED BY <1>1, <2>1, <2>2 DEF Others
<1>8. c.do \in {"tomb", "unlist"} => state = None
  <2> SUFFICES ASSUME c.do \in {"tomb", "unlist"} PROVE state = None
    OBVIOUS
  <2>1. Left(w) = {c}
    BY <1>2
  <2>2. (Tombing(w) \/ Unlisting(w)) /\ ~Emptying(w)
    BY <2>1 DEF Tombing, Unlisting, Emptying
  <2>3. QED BY <2>2 DEF Sound, Emptied
<1>9. \A v \in Workers : Tombing(v)' => Tombing(v)
  BY <1>1 DEF Tombing, Others
<1>10. Exclusive'
  <2>1. \A v \in Workers : Tombing(v)' => group' = None
    BY <1>6, <1>9 DEF Sound, Exclusive
  <2>2. QED BY <1>4, <2>1 DEF Exclusive
<1>11. Emptied'
  <2>1. CASE state' = None
    BY <2>1 DEF Emptied
  <2>2. CASE state' # None
    <3>1. c.do = "h" /\ state' = state /\ group' = group
      BY <1>6, <1>8, <2>2
    <3>2. Emptying(w)' /\ Deleting(w)'
      BY <1>2, <3>1 DEF Emptying, Deleting, Unstored, Left
    <3>3. \A v \in Others(w) : Tombing(v)' \/ Unlisting(v)' => Emptying(v)'
      BY <1>1, <2>2, <3>1 DEF Tombing, Unlisting, Emptying, Sound, Emptied, Others
    <3>4. \A v \in Workers : Tombing(v)' \/ Unlisting(v)' => state' = None \/ Emptying(v)'
      BY <3>2, <3>3 DEF Others
    <3>5. ~NoDeletion'
      BY <3>2 DEF NoDeletion
    <3>6. QED BY <3>4, <3>5 DEF Emptied
  <2>3. QED BY <2>1, <2>2
<1>12. Freed'
  <2>1. CASE c.do = "tomb"
    BY <1>6, <1>7, <1>8, <2>1 DEF Freed
  <2>2. CASE c.do # "tomb"
    <3>1. \A v \in Workers : task'[v].at \in {"previous", "insert"} => task[v].at \in {"previous", "insert"}
      BY <1>1 DEF Others
    <3>2. tombs' \in {tombs, {}}
      BY <1>6, <2>2
    <3>3. group' # None \/ state' # None => group # None \/ state # None
      BY <1>6
    <3>4. QED BY <3>1, <3>2, <3>3 DEF Sound, Freed
  <2>3. QED BY <2>1, <2>2
<1>13. Successive'
  <2>1. \A g : Version(g)' => Version(g)
    BY <1>5, <1>6 DEF Version
  <2>2. group' # None => group' = group
    BY <1>6
  <2>3. QED BY <1>6, <2>1, <2>2 DEF Sound, Successive, Older
<1>14. Recorded'
  <2>1. CASE c.do = "unlist"
    BY <1>6, <2>1 DEF Recorded
  <2>2. CASE c.do = "tomb"
    BY <1>6, <1>7, <2>2 DEF Recorded
  <2>3. CASE c.do \in {"h", "d"}
    <3>1. \E e \in Left(w)' : e.do \in {"d", "tomb", "unlist"}
      <4>1. CASE c.do = "h"
        BY <1>2, <4>1
      <4>2. CASE c.do = "d"
        <5>1. /\ Tail(task[w].todo) \in Backlog /\ Tail(task[w].todo) # <<>>
              /\ Left(w)' = ToSet(Tail(task[w].todo))
          BY <1>2, <4>2, AfterStore, NextCommand
        <5>2. Head(Tail(task[w].todo)) \in Left(w)'
          <6>1. ASSUME NEW t \in Backlog, t # <<>> PROVE Head(t) \in ToSet(t)
            BY <6>1, NextCommand
          <6>2. QED BY <5>1, <6>1
        <5>3. QED BY <1>2, <4>2, <5>2
      <4>3. QED BY <2>3, <4>1, <4>2
    <3>2. Deleting(w)'
      BY <3>1 DEF Deleting, Unstored, Left
    <3>3. QED BY <3>2 DEF Recorded, NoDeletion
  <2>4. QED BY <2>1, <2>2, <2>3
<1>15. QED BY <1>6, <1>7, <1>8, <1>10, <1>11, <1>12, <1>13, <1>14 DEF Sound

\* load_groups starts from what is stored, with nothing queued.
LEMMA RestartSound ==
    ASSUME Sound, RegistryTypes, RegistryTypes', Restart
    PROVE  Sound' /\ Quiet' /\ group' = state
<1>1. /\ group' = state /\ UNCHANGED <<state, tombs, clock, replaced>>
      /\ task' = [w \in Workers |-> IdleTask]
  BY DEF Restart, database
<1>2. Quiet'
  BY <1>1 DEF Quiet, Idle
<1>3. \A w \in Workers : /\ Left(w)' = {} /\ task'[w].at = "idle"
  BY <1>1, SetsOfCommands DEF Left, IdleTask
<1>4. \A w \in Workers : ~Changing(w)' /\ ~Deleting(w)' /\ ~Tombing(w)' /\ ~Unlisting(w)'
  BY <1>3 DEF Changing, Deleting, Unstored, Left, Tombing, Unlisting
<1>5. \A g : ~Pending(g)'
  BY <1>3 DEF Pending
<1>6. Exclusive' /\ Emptied' /\ Recorded'
  BY <1>1, <1>4 DEF Exclusive, Emptied, Recorded
<1>7. Freed'
  BY <1>1, <1>3 DEF Freed, Sound
<1>8. Successive'
  <2>1. \A g : Version(g)' => Version(g) /\ g = group'
    BY <1>1, <1>5 DEF Version
  <2>2. \A g : Version(g) => Older(g, g)
    BY DEF Version, Older, Group
  <2>3. QED BY <1>1, <2>1, <2>2 DEF Sound, Successive, Older
<1>9. QED BY <1>1, <1>2, <1>6, <1>7, <1>8 DEF Sound

\* The steps that only look, and those that store a post.
LEMMA LookingSteps ==
    ASSUME Sound, RegistryTypes, RegistryTypes', NEW w \in Workers, NEW k \in Keys,
           CheckFree(w, k) \/ QueryTombs(w) \/ QueryPrevious(w) \/ Post(w, k)
    PROVE  Sound' /\ UNCHANGED <<group, state, tombs>>
<1>1. CASE CheckFree(w, k)
  <2>1. Left(w) = {} /\ task[w].at = "idle"
    BY <1>1, IdleHasNothingLeft DEF CheckFree
  <2>2. /\ Left(w)' = {} /\ task'[w].at = "tombs" /\ \A v \in Others(w) : task'[v] = task[v]
    BY <1>1, AfterBegin DEF CheckFree
  <2>3. UNCHANGED <<group, state, tombs, clock, replaced>>
    BY <1>1 DEF CheckFree, database
  <2>4. QED BY <2>1, <2>2, <2>3, NeutralStep
<1>2. CASE QueryTombs(w)
  <2>1. Left(w) = {} /\ task[w].at = "tombs"
    BY <1>2, NothingLeft DEF QueryTombs
  <2>2. /\ Left(w)' = {} /\ \A v \in Others(w) : task'[v] = task[v]
        /\ task'[w].at \in {"idle", "previous"}
        /\ task'[w].at = "previous" => tombs = {}
    BY <1>2, AfterBegin, AfterEnd DEF QueryTombs
  <2>3. UNCHANGED <<group, state, tombs, clock, replaced>>
    BY <1>2 DEF QueryTombs, database
  <2>4. QED BY <2>1, <2>2, <2>3, NeutralStep
<1>3. CASE QueryPrevious(w)
  <2>1. Left(w) = {} /\ task[w].at = "previous" /\ tombs = {}
    BY <1>3, NothingLeft DEF QueryPrevious, Sound, Freed
  <2>2. /\ Left(w)' = {} /\ \A v \in Others(w) : task'[v] = task[v]
        /\ task'[w].at \in {"idle", "insert"}
    <3>1. CASE End(w)
      BY <3>1, AfterEnd
    <3>2. CASE task' = [task EXCEPT ![w].at = "insert", ![w].found = posts \cup tombs]
      <4>1. task \in [Workers -> Task] /\ task[w] \in Task
        BY DEF RegistryTypes, TasksTyped
      <4>2. task'[w] = [task[w] EXCEPT !.at = "insert", !.found = posts \cup tombs]
        BY <3>2, <4>1
      <4>3. task'[w].at = "insert" /\ task'[w].todo = task[w].todo
        BY <4>1, <4>2 DEF Task
      <4>4. \A v \in Others(w) : task'[v] = task[v]
        BY <3>2, <4>1 DEF Others
      <4> QED BY <2>1, <4>3, <4>4 DEF Left
    <3>3. QED BY <1>3, <3>1, <3>2 DEF QueryPrevious
  <2>3. UNCHANGED <<group, state, tombs, clock, replaced>>
    BY <1>3 DEF QueryPrevious, database
  <2>4. QED BY <2>1, <2>2, <2>3, NeutralStep
<1>4. CASE Post(w, k)
  <2>1. Left(w) = {} /\ task[w].at = "idle"
    BY <1>4, IdleHasNothingLeft DEF Post
  <2>2. /\ Left(w)' = {Save("post", k)} /\ task'[w].at = "store"
        /\ \A v \in Others(w) : task'[v] = task[v]
    BY <1>4, AfterReturn, SetsOfCommands DEF Post
  <2>3. UNCHANGED <<group, state, tombs, clock, replaced>>
    BY <1>4 DEF Post, database
  <2>4. Save("post", k).do = "post"
    BY CommandTypes
  <2>5. QED BY <2>1, <2>2, <2>3, <2>4, NeutralStep
<1>5. QED BY <1>1, <1>2, <1>3, <1>4

LEMMA StoreOther ==
    ASSUME Sound, RegistryTypes, RegistryTypes', NEW w \in Workers, Store(w),
           Head(task[w].todo).do \in {"manage", "post"}
    PROVE  Sound' /\ UNCHANGED <<group, state, tombs>>
<1>1. UNCHANGED <<group, state, tombs, clock, replaced>>
  BY DEF Store
<1>2. /\ Left(w) = {Head(task[w].todo)} \cup Left(w)'
      /\ task[w].at = "store" /\ task'[w].at \in {"idle", "store"}
      /\ \A v \in Others(w) : task'[v] = task[v]
  BY AfterStore
<1>3. QED BY <1>1, <1>2, NeutralStep

LEMMA CreateStep ==
    ASSUME Sound, RegistryTypes, RegistryTypes', ~raced', NEW w \in Workers, Insert(w)
    PROVE  /\ Sound' /\ UNCHANGED <<state, tombs>>
           /\ tombs = {} /\ group' \in Group /\ (~replaced' => group = None)
<1>1. task[w].who \in Keys /\ NewGroup(w) \in Group
  BY NewGroupType DEF Insert, RegistryTypes, TasksTyped
<1>2. /\ task[w].at = "insert" /\ clock' = clock + 1 /\ group' = NewGroup(w)
      /\ Return(w, <<Save("manage", task[w].who), SaveState(NewGroup(w))>>)
      /\ UNCHANGED <<state, tombs>>
      /\ replaced' = (replaced \/ group # None) /\ \A v \in Others(w) : ~Deleting(v)
  BY DEF Insert, NewGroup, database
<1>3. tombs = {} /\ group'.stamp = clock + 1
  BY <1>2 DEF Sound, Freed, NewGroup
<1>4. QED BY <1>1, <1>2, <1>3, NewVersion

LEMMA ChangeStep ==
    ASSUME Sound, RegistryTypes, RegistryTypes', ~raced', NEW w \in Workers, NEW k \in Keys,
           PutUser(w, k)
    PROVE  /\ Sound' /\ UNCHANGED <<state, tombs>>
           /\ group # None /\ group' \in Group
           /\ group'.admin = group.admin /\ group.members \subseteq group'.members
<1>1. /\ group # None /\ clock' = clock + 1 /\ group' = WithMember(group, k)
      /\ Return(w, <<Save("manage", k), SaveState(group')>>)
      /\ UNCHANGED <<state, tombs, replaced>>
      /\ Idle(w) /\ \A v \in Others(w) : ~Deleting(v)
  BY DEF PutUser, database
<1>2. /\ group' \in Group /\ group'.admin = group.admin
      /\ group.members \subseteq group'.members /\ group'.stamp = clock + 1
  BY <1>1, WithMemberType
<1>3. tombs = {} /\ task[w].at = "idle"
  BY <1>1, IdleHasNothingLeft DEF Sound, Freed
<1>4. QED BY <1>1, <1>2, <1>3, NewVersion

-----------------------------------------------------------------------------
(* The steps of GroupLife. *)

Looks == UNCHANGED <<group, state, tombs>>
Creates == group = None /\ tombs = {} /\ group' \in Group /\ UNCHANGED <<state, tombs>>
Changes ==
    /\ group # None /\ group' \in Group
    /\ group'.admin = group.admin /\ group.members \subseteq group'.members
    /\ UNCHANGED <<state, tombs>>
Frees == group' = None /\ UNCHANGED <<state, tombs>>
Keeps ==
    /\ UNCHANGED <<group, tombs>>
    /\ \/ state' = None
       \/ /\ state' \in Group /\ tombs = {} /\ group # None
          /\ Older(state', group)
          /\ state # None => Older(state, state')
Bars == UNCHANGED <<group, state>> /\ group = None /\ state = None /\ tombs' # {}
Lifts == UNCHANGED <<group, state>> /\ tombs' = {} /\ ~Quiet
Restarts == group' = state /\ Quiet' /\ UNCHANGED <<state, tombs, raced, replaced>>

LifeSteps == Looks \/ Creates \/ Changes \/ Frees \/ Keeps \/ Bars \/ Lifts

LEMMA StepIsSound ==
    ASSUME Sound, RegistryTypes, RegistryTypes', ~raced', [Next]_vars
    PROVE  Sound' /\ (replaced' \/ LifeSteps \/ (Restart /\ Restarts))
<1>1. CASE UNCHANGED vars
  <2>1. UNCHANGED <<group, task, clock, state, tombs, replaced>>
    BY <1>1 DEF vars, database
  <2>2. \A w \in Workers : /\ Left(w)' = Left(w) /\ Changing(w)' = Changing(w)
                          /\ Deleting(w)' = Deleting(w) /\ Tombing(w)' = Tombing(w)
                          /\ Unlisting(w)' = Unlisting(w) /\ Emptying(w)' = Emptying(w)
    BY <2>1 DEF Left, Changing, Deleting, Unstored, Tombing, Unlisting, Emptying
  <2>3. NoDeletion' = NoDeletion /\ \A g : Version(g)' = Version(g) /\ Pending(g)' = Pending(g)
    BY <2>1, <2>2 DEF NoDeletion, Version, Pending
  <2>4. Exclusive' /\ Emptied' /\ Freed'
    BY <2>1, <2>2, <2>3 DEF Sound, Exclusive, Emptied, Freed
  <2>5. Successive' /\ Recorded'
    BY <2>1, <2>3 DEF Sound, Successive, Recorded, Older
  <2>6. QED BY <2>1, <2>4, <2>5 DEF Sound, LifeSteps, Looks
<1>2. CASE Restart
  BY <1>2, RestartSound DEF Restart, database, Restarts
<1>3. ASSUME NEW w \in Workers, NEW k \in Keys,
             CheckFree(w, k) \/ QueryTombs(w) \/ QueryPrevious(w) \/ Post(w, k)
      PROVE  Sound' /\ LifeSteps
  BY <1>3, LookingSteps DEF LifeSteps, Looks
<1>4. ASSUME NEW w \in Workers, Insert(w) PROVE Sound' /\ (replaced' \/ LifeSteps)
  BY <1>4, CreateStep DEF LifeSteps, Creates
<1>5. ASSUME NEW w \in Workers, NEW k \in Keys, PutUser(w, k) PROVE Sound' /\ LifeSteps
  BY <1>5, ChangeStep DEF LifeSteps, Changes
<1>6. ASSUME NEW w \in Workers, NEW k \in Keys,
             DeleteNothing(w, k) \/ DeleteCheck(w, k) \/ RemoveGroup(w) \/ ConsoleDelete(w)
      PROVE  Sound' /\ LifeSteps
  <2>1. Sound'
    BY <1>6, DeletionSteps
  <2>2. CASE RemoveGroup(w)
    BY <2>1, <2>2 DEF RemoveGroup, database, LifeSteps, Frees
  <2>3. CASE DeleteNothing(w, k) \/ DeleteCheck(w, k) \/ ConsoleDelete(w)
    BY <2>1, <2>3 DEF DeleteNothing, DeleteCheck, ConsoleDelete, database, LifeSteps, Looks
  <2>4. QED BY <1>6, <2>2, <2>3
<1>7. ASSUME NEW w \in Workers, Store(w) PROVE Sound' /\ LifeSteps
  <2>1. Head(task[w].todo).do \in {"manage", "post", "state", "h", "d", "tomb", "unlist"}
    BY <1>7, AfterStore DEF Command
  <2>2. ~Quiet
    <3>1. task[w].at = "store"
      BY <1>7 DEF Store
    <3>2. ~Idle(w)
      BY <3>1 DEF Idle, IdleTask
    <3> QED BY <3>2 DEF Quiet
  <2>3. CASE Head(task[w].todo).do \in {"manage", "post"}
    BY <1>7, <2>3, StoreOther DEF LifeSteps, Looks
  <2>4. CASE Head(task[w].todo).do = "state"
    BY <1>7, <2>4, StoreState DEF LifeSteps, Keeps
  <2>5. CASE Head(task[w].todo).do \in {"h", "d", "tomb", "unlist"}
    BY <1>7, <2>2, <2>5, StoreDeletion DEF LifeSteps, Keeps, Bars, Lifts, Frees
  <2>6. QED BY <2>1, <2>3, <2>4, <2>5
<1>8. CASE \E w \in Workers :
             \/ \E k \in Keys : CheckFree(w, k) \/ PutUser(w, k) \/ Post(w, k)
             \/ \E k \in Keys : DeleteNothing(w, k) \/ DeleteCheck(w, k)
             \/ QueryTombs(w) \/ QueryPrevious(w) \/ Insert(w)
             \/ RemoveGroup(w) \/ ConsoleDelete(w) \/ Store(w)
  BY <1>3, <1>4, <1>5, <1>6, <1>7, <1>8
<1>9. QED BY <1>1, <1>2, <1>8 DEF Next

LEMMA StepKeepsRaced ==
    ASSUME [Next]_vars
    PROVE  (raced => raced') /\ (replaced => replaced')
<1>1. ASSUME NEW w \in Workers, NEW k \in Keys,
             \/ CheckFree(w, k) \/ PutUser(w, k) \/ Post(w, k)
             \/ DeleteNothing(w, k) \/ DeleteCheck(w, k)
             \/ QueryTombs(w) \/ QueryPrevious(w) \/ Insert(w)
             \/ RemoveGroup(w) \/ ConsoleDelete(w) \/ Store(w)
      PROVE  (raced => raced') /\ (replaced => replaced')
  <2>1. \/ raced' = raced /\ replaced' = replaced
        \/ (raced => raced') /\ replaced' = replaced
        \/ Insert(w)
    BY <1>1
    DEF CheckFree, PutUser, Post, DeleteNothing, DeleteCheck, QueryTombs, QueryPrevious,
        RemoveGroup, ConsoleDelete, Store
  <2>2. Insert(w) => (raced => raced') /\ (replaced => replaced')
    BY DEF Insert
  <2>3. QED BY <2>1, <2>2
<1>2. CASE UNCHANGED vars \/ Restart
  BY <1>2 DEF vars, Restart
<1>3. QED BY <1>1, <1>2 DEF Next

LEMMA InvStep ==
    ASSUME RegistryInv, [Next]_vars
    PROVE  RegistryInv'
<1>1. RegistryTypes'
  BY StepTypes DEF RegistryInv
<1>2. raced => raced'
  BY StepKeepsRaced
<1>3. ASSUME ~raced' PROVE Sound'
  BY <1>1, <1>2, <1>3, StepIsSound DEF RegistryInv
<1>4. QED BY <1>1, <1>3 DEF RegistryInv

LEMMA InvInit == Init => RegistryInv
<1> SUFFICES ASSUME Init PROVE RegistryInv
  OBVIOUS
<1>1. /\ group = None /\ state = None /\ tombs = {}
      /\ \A w \in Workers : Left(w) = {} /\ task[w].at = "idle"
  BY SetsOfCommands DEF Init, IdleTask, Left
<1>2. \A w \in Workers : ~Changing(w) /\ ~Deleting(w) /\ ~Tombing(w) /\ ~Unlisting(w)
  BY <1>1 DEF Changing, Deleting, Unstored, Left, Tombing, Unlisting
<1>3. \A g : ~Version(g)
  BY <1>1 DEF Version, Pending
<1>4. Sound
  BY <1>1, <1>2, <1>3 DEF Sound, Exclusive, Emptied, Freed, Successive, Recorded
<1>5. QED BY <1>4, InitTypes DEF RegistryInv

LEMMA InvHolds == Spec => []RegistryInv
BY InvInit, InvStep, PTL DEF Spec

LEMMA SettledNow == RegistryInv => SettledIsStored
<1> SUFFICES ASSUME RegistryInv, Quiet, ~raced PROVE group = state
  BY DEF SettledIsStored
<1>1. \A w \in Workers : Left(w) = {} /\ ~Deleting(w)
  BY IdleHasNothingLeft DEF Quiet
<1>2. NoDeletion /\ ~Pending(group)
  BY <1>1 DEF NoDeletion, Pending
<1>3. QED BY <1>2 DEF RegistryInv, Sound, Emptied, Recorded

\* Whatever handlers ran at once, and wherever a crash fell: once they are done, the
\* group in memory is the one load_groups would rebuild (SettledIsStored).
THEOREM RegistrySettles == Spec => []SettledIsStored
BY InvHolds, SettledNow, PTL

\* An id with a stored 9008 has no group in memory and none to rebuild.
DeletedStaysDeleted == tombs # {} /\ ~raced => group = None /\ state = None

THEOREM DeletedForGood == Spec => []DeletedStaysDeleted
<1>1. RegistryInv => DeletedStaysDeleted
  BY DEF RegistryInv, Sound, Freed, DeletedStaysDeleted
<1>2. QED BY <1>1, InvHolds, PTL

\* Every step of the registry is a step of GroupLife, or none (KeepsItsLife).
THEOREM RegistryKeepsItsLife == Spec => KeepsItsLife
<1>1. Init => Life!Init
  BY DEF Init, Life!Init, Quiet, Idle
<1>2. RegistryInv' => SettledIsStored'
  BY SettledNow, PTL
<1>3. RegistryInv /\ RegistryInv' /\ [Next]_vars => [Life!Next]_(Life!lifeVars)
  <2> SUFFICES ASSUME RegistryInv, RegistryInv', [Next]_vars PROVE Life!Next
    OBVIOUS
  <2>1. CASE raced' \/ replaced'
    BY <2>1 DEF Life!Next
  <2>2. CASE ~raced' /\ ~replaced'
    <3>1. ~raced /\ ~replaced
      BY <2>2, StepKeepsRaced
    <3>2. LifeSteps \/ Restarts
      BY <2>2, <3>1, StepIsSound DEF RegistryInv
    <3>3. Quiet' => group' = state'
      BY <2>2, <1>2 DEF SettledIsStored
    <3>4. CASE Restarts
      BY <3>4 DEF Restarts, Life!Next, Life!Restart
    <3>5. CASE LifeSteps
      <4>1. CASE Looks
        BY <2>2, <3>1, <3>3, <4>1 DEF Looks, Life!Next
      <4>2. CASE Creates
        BY <2>2, <3>1, <3>3, <4>2 DEF Creates, Life!Next, Life!Create
      <4>3. CASE Changes
        BY <2>2, <3>1, <3>3, <4>3 DEF Changes, Life!Next, Life!Grow, Life!Within
      <4>4. CASE Frees
        BY <2>2, <3>1, <3>3, <4>4 DEF Frees, Life!Next, Life!Free
      <4>5. CASE Keeps
        <5>1. state' \in Group \cup {None} /\ UNCHANGED <<group, tombs>>
          BY <4>5 DEF Keeps
        <5>2. state' # None => tombs' = {}
          BY <4>5 DEF Keeps
        <5>3. /\ state # None /\ state' # None => state.members \subseteq state'.members
              /\ state' # None /\ group # None => state'.members \subseteq group.members
          BY <3>1, <4>5 DEF Keeps, Older
        <5>4. Life!Keep
          BY <5>1, <5>2, <5>3 DEF Life!Keep, Life!Within
        <5>5. QED BY <2>2, <3>1, <3>3, <5>4 DEF Life!Next
      <4>6. CASE Bars
        BY <2>2, <3>1, <3>3, <4>6 DEF Bars, Life!Next, Life!Bar
      <4>7. CASE Lifts
        BY <2>2, <3>1, <3>3, <4>7 DEF Lifts, Life!Next, Life!Lift
      <4>8. QED BY <3>5, <4>1, <4>2, <4>3, <4>4, <4>5, <4>6, <4>7 DEF LifeSteps
    <3>6. QED BY <3>2, <3>4, <3>5
  <2>3. QED BY <2>1, <2>2
<1>4. QED BY <1>1, <1>3, InvHolds, PTL DEF Spec, KeepsItsLife, Life!Spec
=============================================================================
