--------------------------- MODULE GroupRegistry ---------------------------
(***************************************************************************)
(* The life of one group id in src/src/groups.rs: unmanaged, created by a  *)
(* 9007, changed, deleted by a 9008 or from the console, and rebuilt from  *)
(* what is stored when the relay starts.                                   *)
(*                                                                         *)
(* The map of groups changes at once; the events a handler returns are     *)
(* stored afterwards, one by one, while other handlers run.  Creation      *)
(* awaits two queries between its check and its insert.  The database      *)
(* (external) keeps the newest of two replaceable events; no two state     *)
(* events of the group are of one second here.                             *)
(*                                                                         *)
(* What a group's own handlers do is in Group; here a change is one more   *)
(* member.                                                                 *)
(***************************************************************************)
EXTENDS Naturals, Sequences, SequencesExt

CONSTANTS
    Keys,       \* public keys, the relay's own among them
    Relay,      \* the relay's key
    Workers,    \* the tasks that run handlers
    None,       \* Rust's Option::None
    Requests,   \* the requests that arrive
    MaxStamp    \* bound: state events generated

ASSUME KeysAssumption == Relay \in Keys
ASSUME BoundsAssumption == MaxStamp \in Nat

Group == [admin : Keys, members : SUBSET Keys, stamp : Nat]

ASSUME NoneAssumption == None \notin Group /\ None \notin Keys

VARIABLES
    group,      \* the id's entry in Groups::groups
    task,       \* what each worker is doing
    clock,      \* the stamp of the newest state event
    state,      \* stored: 39000, 39001 and 39002, as the group they rebuild
    managed,    \* stored: some 9007 or 9000
    posts,      \* stored: the authors of other events under the id
    tombs,      \* stored: the authors of 9008s
    raced,      \* ghost: a deletion overlapped a creation or a change
    replaced    \* ghost: a creation that another one overtook replaced its group

database == <<state, managed, posts, tombs>>
vars == <<group, task, clock, database, raced, replaced>>

\* A StoreCommand: an event to save, or a filter whose events are deleted.
Save(what, by) == [do |-> what, by |-> by, group |-> None]
SaveState(g) == [do |-> "state", by |-> None, group |-> g]
Erase(what) == [do |-> what, by |-> None, group |-> None]

\* at: the step a creation or deletion takes next.  found: the participants its
\* query found.  todo: the commands its handler returned.
IdleTask == [at |-> "idle", who |-> None, found |-> {}, todo |-> <<>>]

Idle(w) == task[w] = IdleTask
Quiet == \A w \in Workers : Idle(w)
Begin(w, at, k) == task' = [task EXCEPT ![w] = [IdleTask EXCEPT !.at = at, !.who = k]]
Return(w, commands) ==
    task' = [task EXCEPT ![w] = [IdleTask EXCEPT !.at = "store", !.todo = commands]]
End(w) == task' = [task EXCEPT ![w] = IdleTask]

Others(w) == Workers \ {w}
Unstored(w, kinds) == \E c \in ToSet(task[w].todo) : c.do \in kinds
Deleting(w) == task[w].at = "remove" \/ Unstored(w, {"h", "d", "unlist", "tomb"})
Changing(w) == Unstored(w, {"state"})

-----------------------------------------------------------------------------
(* handle_group_create. *)

\* The id is looked up in the map, and no lock is kept.
CheckFree(w, k) ==
    /\ "create" \in Requests
    /\ Idle(w)
    /\ group = None
    /\ Begin(w, "tombs", k)
    /\ UNCHANGED <<group, clock, database, raced, replaced>>

\* Mutant: the id of a deleted group may be created again.
QueryTombsIgnored(w) ==
    /\ task[w].at = "tombs"
    /\ Begin(w, "previous", task[w].who)
    /\ UNCHANGED <<group, clock, database, raced, replaced>>

\* A stored 9008 ends it.
QueryTombs(w) ==
    /\ task[w].at = "tombs"
    /\ IF tombs # {} THEN End(w) ELSE Begin(w, "previous", task[w].who)
    /\ UNCHANGED <<group, clock, database, raced, replaced>>

\* Only the relay's key may take over an id that events were stored under; their
\* authors become members, those of management events aside.
QueryPrevious(w) ==
    LET participants == posts \cup tombs
    IN  /\ task[w].at = "previous"
        /\ IF (managed \/ participants # {}) /\ task[w].who # Relay
           THEN End(w)
           ELSE task' = [task EXCEPT ![w].at = "insert", ![w].found = participants]
        /\ UNCHANGED <<group, clock, database, raced, replaced>>

\* The insert replaces whatever the map holds by now.
Insert(w) ==
    LET k == task[w].who
        g == [admin |-> k, members |-> {k} \cup task[w].found, stamp |-> clock + 1]
    IN  /\ task[w].at = "insert"
        /\ clock < MaxStamp
        /\ clock' = clock + 1
        /\ group' = g
        /\ Return(w, <<Save("manage", k), SaveState(g)>>)
        /\ raced' = (raced \/ \E v \in Others(w) : Deleting(v))
        /\ replaced' = (replaced \/ group # None)
        /\ UNCHANGED database

-----------------------------------------------------------------------------
(* Changes and posts. *)

WithMember(g, k) == [g EXCEPT !.members = @ \cup {k}, !.stamp = clock + 1]

\* Mutant: the change is not stored.
PutUserUnsaved(w, k) ==
    /\ "put" \in Requests
    /\ Idle(w)
    /\ group # None
    /\ clock < MaxStamp
    /\ clock' = clock + 1
    /\ group' = WithMember(group, k)
    /\ Return(w, <<Save("manage", k)>>)
    /\ raced' = (raced \/ \E v \in Others(w) : Deleting(v))
    /\ UNCHANGED <<database, replaced>>

\* A handler that changes the group, under its entry.
PutUser(w, k) ==
    /\ "put" \in Requests
    /\ Idle(w)
    /\ group # None
    /\ clock < MaxStamp
    /\ clock' = clock + 1
    /\ group' = WithMember(group, k)
    /\ Return(w, <<Save("manage", k), SaveState(group')>>)
    /\ raced' = (raced \/ \E v \in Others(w) : Deleting(v))
    /\ UNCHANGED <<database, replaced>>

\* handle_event: anyone posts under an id without a group, members in a group.
Post(w, k) ==
    /\ "post" \in Requests
    /\ Idle(w)
    /\ group # None => k \in group.members
    /\ Return(w, <<Save("post", k)>>)
    /\ UNCHANGED <<group, clock, database, raced, replaced>>

\* handle_event: without a group a 9008, which is no management kind, is one more
\* event of an unmanaged group and is stored.
DeleteNothing(w, k) ==
    /\ "delete" \in Requests
    /\ Idle(w)
    /\ group = None
    /\ Return(w, <<Save("tomb", k)>>)
    /\ raced' = (raced \/ \E v \in Others(w) : Deleting(v))
    /\ UNCHANGED <<group, clock, database, replaced>>

-----------------------------------------------------------------------------
(* Deletion. *)

\* handle_delete_group: the group is looked up and released ...
DeleteCheck(w, k) ==
    /\ "delete" \in Requests
    /\ Idle(w)
    /\ group # None
    /\ k \in {Relay, group.admin}
    /\ Begin(w, "remove", k)
    /\ raced' = (raced \/ \E v \in Others(w) : Changing(v))
    /\ UNCHANGED <<group, clock, database, replaced>>

\* ... and the id is removed from the map, whatever it holds by now.
RemoveGroup(w) ==
    /\ task[w].at = "remove"
    /\ group' = None
    /\ Return(w, <<Erase("h"), Erase("d"), Save("tomb", task[w].who)>>)
    /\ UNCHANGED <<clock, database, raced, replaced>>

\* admin_delete_group deletes from the database itself, then from the map, and
\* leaves no 9008.
ConsoleDelete(w) ==
    /\ "console" \in Requests
    /\ Idle(w)
    /\ group # None
    /\ Return(w, <<Erase("h"), Erase("d"), Erase("unlist")>>)
    /\ raced' = (raced \/ \E v \in Others(w) : Changing(v))
    /\ UNCHANGED <<group, clock, database, replaced>>

-----------------------------------------------------------------------------
(* The database, and restarts. *)

Newer(g, old) == IF old = None \/ g.stamp > old.stamp THEN g ELSE old

\* The next command of a handler takes effect.
Store(w) ==
    LET c == Head(task[w].todo)
        rest == Tail(task[w].todo)
    IN  /\ task[w].at = "store"
        /\ IF rest = <<>> THEN End(w) ELSE Return(w, rest)
        /\ state' = CASE c.do = "state" -> Newer(c.group, state)
                      [] c.do = "d"     -> None
                      [] OTHER          -> state
        /\ managed' = (c.do = "manage" \/ (managed /\ c.do # "h"))
        /\ posts' = CASE c.do = "post" -> posts \cup {c.by}
                      [] c.do = "h"    -> {}
                      [] OTHER         -> posts
        /\ tombs' = CASE c.do = "tomb" -> tombs \cup {c.by}
                      [] c.do = "h"    -> {}
                      [] OTHER         -> tombs
        /\ group' = IF c.do = "unlist" THEN None ELSE group
        /\ raced' = (raced \/ (/\ c.do = "tomb"
                               /\ \E v \in Others(w) : task[v].at \in {"previous", "insert"}))
        /\ UNCHANGED <<clock, replaced>>

\* The relay stops between any two steps and starts again: load_groups.
Restart ==
    /\ "restart" \in Requests
    /\ group' = state
    /\ task' = [w \in Workers |-> IdleTask]
    /\ UNCHANGED <<clock, database, raced, replaced>>

-----------------------------------------------------------------------------

Init ==
    /\ group = None
    /\ task = [w \in Workers |-> IdleTask]
    /\ clock = 0
    /\ state = None
    /\ managed = FALSE
    /\ posts = {}
    /\ tombs = {}
    /\ raced = FALSE /\ replaced = FALSE

Next ==
    \/ \E w \in Workers :
          \/ \E k \in Keys : CheckFree(w, k) \/ PutUser(w, k) \/ Post(w, k)
          \/ \E k \in Keys : DeleteNothing(w, k) \/ DeleteCheck(w, k)
          \/ QueryTombs(w) \/ QueryPrevious(w) \/ Insert(w)
          \/ RemoveGroup(w) \/ ConsoleDelete(w) \/ Store(w)
    \/ Restart

Spec == Init /\ [][Next]_vars

-----------------------------------------------------------------------------
(* Properties. *)

Command == [do : {"manage", "state", "post", "tomb", "h", "d", "unlist"},
            by : Keys \cup {None}, group : Group \cup {None}]
Task == [at : {"idle", "tombs", "previous", "insert", "remove", "store"},
         who : Keys \cup {None}, found : SUBSET Keys, todo : Seq(Command)]

\* Every variable keeps its type, and a worker stores as long as it has commands.
TypeOK ==
    /\ {group, state} \subseteq Group \cup {None}
    /\ task \in [Workers -> Task]
    /\ \A w \in Workers : (task[w].at = "store") <=> (task[w].todo # <<>>)
    /\ clock \in Nat
    /\ {managed, raced, replaced} \subseteq BOOLEAN
    /\ posts \in SUBSET Keys /\ tombs \in SUBSET Keys

\* With no handler running, a restart changes nothing: the group in the map is the
\* one load_groups rebuilds, also after crashes, although the commands of handlers
\* that run at once are stored in any order, and although of two creations in flight
\* the later insert replaces the group of the first.
SettledIsStored == Quiet /\ ~raced => group = state

Life == INSTANCE GroupLife WITH
    held <- group, kept <- state, barred <- tombs # {}, busy <- ~Quiet,
    voided <- raced \/ replaced

\* The registry implements the life of an id as GroupLife promises it: an id with a
\* stored 9008 has no group, not even after a restart, since QueryTombs ends every
\* creation that did not overlap the deletion; nobody replaces a group; and what is
\* stored is never ahead of the map, nor behind it once the handlers are done.
KeepsItsLife == Life!Spec

=============================================================================
