------------------------------- MODULE Records -------------------------------
(***************************************************************************)
(* The stored events and everything that removes some: group deletions and *)
(* 9005s through the queue of store commands, the console's single and     *)
(* bulk deletions, its deletion of a group and its removal of a member     *)
(* (src/src/groups.rs, src/src/admin.rs) and the pruner                    *)
(* (src/src/pruner.rs).  The database and the queue are the relay          *)
(* builder's (external): commands are stored after the handler answered,   *)
(* in any order between connections.                                       *)
(***************************************************************************)
EXTENDS Naturals, FiniteSets

CONSTANTS
    Events,       \* the events that may be stored
    Groups,       \* group ids
    ScopeOf,      \* the scope (subdomain) of each group
    Default,      \* Scope::Default
    None,         \* Rust's Option::None
    MaxAt,        \* bound: the latest created_at
    PageSize,     \* author_kinds_in_scope's PAGE
    MaxPages,     \* author_kinds_in_scope's MAX_PAGES
    MaxChanges    \* bound: how often the database and the queue change

\* id (a number: of two events of one second the larger id counts as newer), scope, group
\* (None without one), kind, author, to (the p tags), at (created_at), about (a report's e tag).
\* The kinds: state (39000 to 39003, with a d tag; all others of a group have an h tag),
\* create (9007), invite (9009), put (9000), message (9, 11), report (1984), and any other.
ASSUME EventsAssumption ==
    /\ IsFiniteSet(Events) /\ MaxAt \in Nat
    /\ \A e \in Events : e.id \in Nat /\ e.at \in 1..MaxAt
    /\ \A e, f \in Events : e.id = f.id => e = f   \* an id is the hash of its event
ASSUME PagesAssumption == PageSize \in Nat \ {0} /\ MaxPages \in Nat \ {0}
ASSUME NoneAssumption == None \notin Nat

VARIABLES
    db,        \* the stored events
    managed,   \* the ids of the groups in the registry
    pending,   \* store commands that handlers returned and that are not carried out
    changes    \* ghost: how often db, managed and pending have changed

recordVars == <<db, managed, pending, changes>>

NeverPrune == {"create", "invite", "put", "state"}   \* NEVER_PRUNE_KINDS: 9000 to 9011, 39000 to 39003
Replaceable == {"profile", "state"}     \* Kind::is_replaceable, is_addressable

Newer(e, f) == e.at > f.at \/ (e.at = f.at /\ e.id > f.id)
Newest(S, n) == {e \in S : Cardinality({f \in S : Newer(f, e)}) < n}

OfGroup(g) == {e \in Events : e.group = g}
Stating(g) == {e \in OfGroup(g) : e.kind = "state"}
Authors == {e.author : e \in Events}
Kinds == {e.kind : e \in Events}
Scopes == {e.scope : e \in Events}
GroupScopes == {ScopeOf[g] : g \in managed}
KnownScopes == GroupScopes \cup {Default}
Prunable == Kinds \ (NeverPrune \cup Replaceable)

Change == changes < MaxChanges /\ changes' = changes + 1

-----------------------------------------------------------------------------
(* Storing. *)

Save(e) == [op |-> "save", events |-> {e}]
Erase(S) == [op |-> "erase", events |-> S]

\* Of a group's state events of one kind the newest is kept.
Slot(e) == {f \in Events : e.kind \in Replaceable /\ f.kind = e.kind /\ f.author = e.author /\ f.group = e.group}
Stored(S, e) ==
    IF \E f \in S \cap Slot(e) : Newer(f, e) THEN S ELSE (S \ Slot(e)) \cup {e}

CarriedOut(S, command) ==
    IF command.op = "erase" THEN S \ command.events
    ELSE Stored(S, CHOOSE e \in command.events : TRUE)

\* An event of a group is saved, whether the group is managed or not.
Publish(e) ==
    /\ Change
    /\ e \notin db
    /\ e.kind # "state" \/ e.group \in managed
    /\ pending' = pending \cup {Save(e)}
    /\ UNCHANGED <<db, managed>>

\* delete_group_request: a command for each of the two tags; the 9008 itself bars the id
\* (GroupRegistry).
DeleteGroup(g) ==
    /\ Change
    /\ g \in managed
    /\ managed' = managed \ {g}
    /\ pending' = pending \cup {Erase(OfGroup(g) \ Stating(g)), Erase(Stating(g))}
    /\ UNCHANGED db

\* delete_event_request: a 9005 reaches events of its group's h tag only.
DeleteInGroup(e) ==
    /\ Change
    /\ e.group \in managed /\ e.kind # "state"
    /\ pending' = pending \cup {Erase({e})}
    /\ UNCHANGED <<db, managed>>

Persist ==
    /\ Change
    /\ \E command \in pending :
          /\ db' = CarriedOut(db, command)
          /\ pending' = pending \ {command}
    /\ UNCHANGED managed

PersistFails ==
    /\ Change
    /\ \E command \in pending : pending' = pending \ {command}
    /\ UNCHANGED <<db, managed>>

-----------------------------------------------------------------------------
(* Removing directly: nobody but the database learns of these. *)

RemoveAll(S) ==
    /\ Change
    /\ db' = db \ S /\ db' # db
    /\ UNCHANGED <<managed, pending>>

\* NIP-09, carried out by the relay builder.
AuthorDeletes(e) == e.kind \notin NeverPrune /\ RemoveAll({e})

\* admin_delete_event, and admin_delete_events for many: whatever the kind.
AdminDelete(e) == e.scope \in KnownScopes /\ RemoveAll({e})

\* admin_delete_group: by the h tag, then by the d tag, then out of the registry.  An error
\* ends it; another request then takes the rest.
AdminDeleteGroup(g) ==
    /\ Change
    /\ g \in managed
    /\ \/ db' = db \ OfGroup(g) /\ managed' = managed \ {g}
       \/ db' = db \ (OfGroup(g) \ Stating(g)) /\ db' # db /\ UNCHANGED managed
    /\ UNCHANGED pending

\* admin_remove_group_member: the 9000s that name the member (the members are in Group).
AdminRemoveMember(g, k) ==
    g \in managed /\ RemoveAll({e \in OfGroup(g) : e.kind = "put" /\ k \in e.to})

\* admin_prune_events and admin_delete_events_by_recipient.  A failing scope ends the
\* request: those before it are done.
Attributed(e, k, by) == IF by = "author" THEN e.author = k ELSE k \in e.to
\* Mutant: the protected kinds are those that are never replaced.
TargetsUnprotected(k, by, kinds, since, until) ==
    {e \in Events : Attributed(e, k, by) /\ e.kind \in kinds \ Replaceable /\ e.at \in since..until}
Targets(k, by, kinds, since, until) ==
    {e \in Events : Attributed(e, k, by) /\ e.kind \in kinds \ NeverPrune /\ e.at \in since..until}
InScopes(S, scopes) == {e \in S : e.scope \in scopes}

Prunings ==
    {Targets(k, by, kinds, since, until) :
        k \in Authors, by \in {"author", "recipient"},
        kinds \in {{kind} : kind \in Kinds} \cup {Kinds}, since \in 1..MaxAt, until \in 1..MaxAt}
AdminPrune == \E S \in Prunings, done \in SUBSET Scopes : RemoveAll(InScopes(S, done))

\* author_kinds_in_scope: newest first, each page strictly before the oldest of the last.
Page(S, until) == Newest({e \in S : until # None /\ e.at <= until}, PageSize)
Oldest(S) == CHOOSE t \in {e.at : e \in S} : \A e \in S : t <= e.at
Before(S, until) ==
    LET page == Page(S, until)
    IN  IF Cardinality(page) < PageSize \/ Oldest(page) = 0 THEN None ELSE Oldest(page) - 1
PageStarts(S) ==
    LET start[p \in 0..MaxPages] == IF p = 0 THEN MaxAt ELSE Before(S, start[p - 1])
    IN  {start[p] : p \in 0..(MaxPages - 1)}

\* Mutant: the first page only.
AuthorKindsOnePage(k, scope) ==
    {e.kind : e \in Page({e \in db : e.author = k /\ e.scope = scope}, MaxAt)}
AuthorKinds(k, scope) ==
    LET own == {e \in db : e.author = k /\ e.scope = scope}
    IN  UNION {{e.kind : e \in Page(own, until)} : until \in PageStarts(own)}

\* admin_delete_user_events, without a choice of kinds and with one: the scopes are those
\* of managed groups.
Wiped(k, kinds, scope) ==
    {e \in Events :
        /\ e.author = k /\ e.scope = scope
        /\ e.kind \in (IF kinds = None THEN AuthorKinds(k, scope) ELSE kinds) \ NeverPrune}
AdminWipe(k, kinds) ==
    \E done \in SUBSET GroupScopes : RemoveAll(UNION {Wiped(k, kinds, s) : s \in done})

\* run_once, one window: a kind, one scope after another.
PruneRun(kind, cutoff) ==
    /\ kind \in Prunable
    /\ \E done \in SUBSET Scopes :
          RemoveAll({e \in InScopes(Events, done) : e.kind = kind /\ e.at <= cutoff})

-----------------------------------------------------------------------------

\* load_groups: the commands on their way are lost, and a group is what its state events say;
\* what else is read (RebuiltFrom) is for a group that has some.
RestartRecords ==
    /\ Change
    /\ pending' = {}
    /\ managed' = {g \in Groups : Stating(g) \cap db # {}}
    /\ UNCHANGED db

\* What removes by a filter, from the console and from the pruner.
Bulk ==
    \/ \E g \in Groups, k \in UNION {e.to : e \in Events} : AdminRemoveMember(g, k)
    \/ AdminPrune
    \/ \E k \in Authors, kinds \in {None} \cup {{kind} : kind \in Kinds} : AdminWipe(k, kinds)
    \/ \E kind \in Kinds, cutoff \in 1..MaxAt : PruneRun(kind, cutoff)

ConsoleDeletes ==
    \/ \E e \in Events : AuthorDeletes(e) \/ AdminDelete(e)
    \/ \E g \in Groups : AdminDeleteGroup(g)
    \/ Bulk

-----------------------------------------------------------------------------
(* Properties. *)

RecordsTypeOK ==
    /\ db \subseteq Events
    /\ managed \subseteq Groups
    /\ pending \subseteq [op : {"save", "erase"}, events : SUBSET Events]
    /\ changes \in 0..MaxChanges

\* Whoever is wiped keeps nothing in a managed group's scope but the protected kinds, and
\* what shares its second with another event of theirs, where a page may end.
WipeReachesAll ==
    \A e \in db : e.scope \in GroupScopes /\ e.kind \notin NeverPrune =>
        \/ e \in Wiped(e.author, None, e.scope)
        \/ \E f \in db \ {e} : f.author = e.author /\ f.scope = e.scope /\ f.at = e.at

\* Whatever removes by a filter takes nothing that load_groups rebuilds a group from: the
\* state events, the creation and the invites, in whatever group, before or after its
\* deletion (joins, 9021, are not protected: they are the members' to lose).
RebuiltFrom(S) == {e \in S : e.kind \in {"state", "create", "invite"}}
GroupsKeepTheirRecords == [][RebuiltFrom(db') # RebuiltFrom(db) => ~Bulk]_recordVars
=============================================================================
