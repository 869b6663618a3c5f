---------------------------- MODULE ObeliskIndex ----------------------------
(***************************************************************************)
(* The index that answers an HTTP bootstrap (src/src/obelisk_index.rs): it *)
(* applies what handlers return before that is stored, hears of no other   *)
(* deletion, and is rebuilt from the database now and then, group by group *)
(* while events keep coming; and a reader who pages through a group's      *)
(* messages in the database, and is shown what they may see of them.       *)
(***************************************************************************)
EXTENDS Moderation

CONSTANTS
    Seeds,            \* what may be stored at first: a creation and a state event per group
    RecentPerGroup,   \* obelisk_index.recent_per_group
    PageLimit,        \* the limit of a page of messages
    Reader            \* the key that reads

ASSUME SeedsAssumption == Seeds \subseteq SUBSET Events
ASSUME RecentAssumption == RecentPerGroup \in Nat \ {0} /\ PageLimit \in Nat \ {0}

VARIABLES
    entries,     \* ObeliskIndex::entries
    rebuilds,    \* the loop's rebuild and the delayed one: idle, sleeping, or what is left
    standing,    \* what Reader is to a group: see Standings
    reader       \* its paging: the group, the cursor, raw (a query's answer until it is shown,
                 \* or nothing) and, as ghosts, what it has seen and what stayed stored to see

indexVars == <<entries, rebuilds>>
readerVars == <<standing, reader>>
vars == <<recordVars, moderationVars, indexVars, readerVars>>

Rebuilders == {"loop", "delayed"}
Idle == [at |-> "idle"]
Sleeping == [at |-> "sleeping"]
Running(left) == [at |-> "running", left |-> left]
Loading(left, g, state) == [at |-> "loading", left |-> left, group |-> g, state |-> state]
Loaded(left, g, entry) == [at |-> "loaded", left |-> left, group |-> g, entry |-> entry]

IsState(e) == e.kind = "state"
IsContent(e) == e.kind \in {"message", "create", "invite"}
Empty == [state |-> {}, recent |-> {}]

StateOf(S, g) == {e \in S : IsState(e) /\ e.group = g}
RecentOf(S, g) == Newest({e \in S : IsContent(e) /\ e.group = g}, RecentPerGroup)

-----------------------------------------------------------------------------
(* What handlers return is applied at once. *)

Entry(g) == IF g \in DOMAIN entries THEN entries[g] ELSE Empty
WithEntry(g, entry) == [h \in DOMAIN entries \cup {g} |-> IF h = g THEN entry ELSE entries[h]]

\* apply_state_event and apply_recent_event.
WithState(entry, e) == IF \E f \in entry.state : f.at > e.at THEN entry ELSE [entry EXCEPT !.state = {e}]
WithRecent(entry, e) == [entry EXCEPT !.recent = RecentOf(@ \cup {e}, e.group)]

\* apply_saved_event.  Events of unmanaged groups are returned before the index hears of them.
ApplySaved(e) ==
    LET g == e.group
    IN  CASE g \notin managed \/ ~(IsState(e) \/ IsContent(e)) -> entries
          [] g \in managed /\ IsState(e) -> WithEntry(g, WithState(Entry(g), e))
          [] OTHER -> WithEntry(g, WithRecent(Entry(g), e))

IndexPublish(e) ==
    /\ ~IsReport(e)
    /\ Publish(e)
    /\ entries' = ApplySaved(e)
    /\ UNCHANGED <<moderationVars, rebuilds, readerVars>>

\* schedule_rebuild_after_persist: none is scheduled while one sleeps or runs.
ScheduleRebuild == rebuilds' = [rebuilds EXCEPT !["delayed"] = IF @ = Idle THEN Sleeping ELSE @]

IndexDelete ==
    /\ \/ \E g \in Groups : DeleteGroup(g)
       \/ \E e \in Events : DeleteInGroup(e)
    /\ ScheduleRebuild
    /\ UNCHANGED <<moderationVars, entries, readerVars>>

-----------------------------------------------------------------------------
(* Rebuilding. *)

\* Mutant: the groups that are left keep their entries.
ClearNothing == UNCHANGED entries
Clear == entries' = [g \in {} |-> Empty]

\* The loop's tick, or the end of the delayed rebuild's second.
StartRebuild(by) ==
    /\ rebuilds[by] = IF by = "loop" THEN Idle ELSE Sleeping
    /\ Clear
    /\ rebuilds' = [rebuilds EXCEPT ![by] = Running(managed)]
    /\ UNCHANGED <<recordVars, moderationVars, readerVars>>

\* load_group_from_lmdb: two queries, with an await at each.
LoadState(by) ==
    /\ rebuilds[by].at = "running"
    /\ \E g \in rebuilds[by].left :
          rebuilds' = [rebuilds EXCEPT ![by] = Loading(@.left \ {g}, g, StateOf(db, g))]
    /\ UNCHANGED <<recordVars, moderationVars, entries, readerVars>>

LoadRecent(by) ==
    /\ rebuilds[by].at = "loading"
    /\ LET load == rebuilds[by]
       IN  rebuilds' = [rebuilds EXCEPT ![by] = Loaded(load.left, load.group,
                            [state |-> load.state, recent |-> RecentOf(db, load.group)])]
    /\ UNCHANGED <<recordVars, moderationVars, entries, readerVars>>

\* Either query may fail: the group is left out of this rebuild.
FailLoad(by) ==
    /\ Change
    /\ \/ /\ rebuilds[by].at = "running"
          /\ \E g \in rebuilds[by].left : rebuilds' = [rebuilds EXCEPT ![by] = Running(@.left \ {g})]
       \/ /\ rebuilds[by].at = "loading"
          /\ rebuilds' = [rebuilds EXCEPT ![by] = Running(@.left)]
    /\ UNCHANGED <<db, managed, pending, moderationVars, entries, readerVars>>

\* What was applied to the entry in the meantime is overwritten.
InsertEntry(by) ==
    /\ rebuilds[by].at = "loaded"
    /\ entries' = WithEntry(rebuilds[by].group, rebuilds[by].entry)
    /\ rebuilds' = [rebuilds EXCEPT ![by] = Running(@.left)]
    /\ UNCHANGED <<recordVars, moderationVars, readerVars>>

FinishRebuild(by) ==
    /\ rebuilds[by] = Running({})
    /\ rebuilds' = [rebuilds EXCEPT ![by] = Idle]
    /\ UNCHANGED <<recordVars, moderationVars, entries, readerVars>>

RebuildStep(by) == LoadState(by) \/ LoadRecent(by) \/ InsertEntry(by) \/ FinishRebuild(by)

-----------------------------------------------------------------------------
(* Reading by pages. *)

\* An operator of the relay; one who sees all of the group, as it is not private or they
\* administer it; a plain member of a private group; or somebody it is closed to.
Standings == {"operator", "all", "member", "none"}

\* A role, a membership or the group's `private` flag changes (Group).
ChangeStanding(g) ==
    /\ Change
    /\ \E other \in Standings \ {standing[g]} : standing' = [standing EXCEPT ![g] = other]
    /\ UNCHANGED <<db, managed, pending, moderationVars, indexVars, reader>>

\* can_read_group, and can_see_event of what the group's tag is on.
MayRead(g) == g \in managed /\ standing[g] # "none"
Sees(e) ==
    \/ standing[e.group] = "operator"
    \/ e.group \in managed /\ (standing[e.group] = "all" \/ e.author = Reader)
    \/ MayRead(e.group) /\ e.kind # "invite"
Visible(S) == {e \in S : Sees(e)}

Messages(g) == {e \in db : e.kind = "message" /\ e.group = g}

\* Mutant: the cursor is the second before the last one.
MessagesFromOneOff(g, before) ==
    Newest({e \in Messages(g) : before = None \/ e.at < before - 1}, 2 * PageLimit)

\* messages_for_group's query: until(before - 1), newest first, twice as many as are shown.
MessagesFrom(g, before) ==
    Newest({e \in Messages(g) : before = None \/ e.at < before}, 2 * PageLimit)

\* A page is shown, and the cursor is its last second: None when there is nothing on it.
Reading(g, page, seen, stored) ==
    [group |-> g, raw |-> {}, seen |-> seen \cup page, stored |-> stored,
     next |-> IF page = {} THEN None ELSE Oldest(page)]

\* The first page, before the query's answer is shown.
StartReading(g) ==
    /\ reader = None /\ MayRead(g)
    /\ reader' = [group |-> g, raw |-> {MessagesFrom(g, None)}, seen |-> {},
                  stored |-> Messages(g), next |-> None]
    /\ UNCHANGED <<recordVars, moderationVars, indexVars, standing>>

ReadOn ==
    /\ reader # None
    /\ reader.raw = {} /\ reader.next # None /\ MayRead(reader.group)
    /\ reader' = [reader EXCEPT !.raw = {MessagesFrom(reader.group, reader.next)},
                                !.stored = @ \cap db]
    /\ UNCHANGED <<recordVars, moderationVars, indexVars, standing>>

\* After the query's await: what Reader may see now, cut to the limit.  To those the group
\* was closed to meanwhile nothing is promised.
Deliver ==
    /\ reader # None
    /\ \E answer \in reader.raw :
          reader' = Reading(reader.group, Newest(Visible(answer), PageLimit), reader.seen,
                            IF MayRead(reader.group) THEN reader.stored \cap db ELSE {})
    /\ UNCHANGED <<recordVars, moderationVars, indexVars, standing>>

\* bootstrap, to page on from its next_before.  From an entry that lags behind the database
\* nothing is promised, nor when Reader may see none of the recent events: there is no cursor
\* then, and no telling this from a group without messages.
Bootstrap(g) ==
    /\ reader = None /\ MayRead(g) /\ g \in DOMAIN entries
    /\ LET recent == entries[g].recent
       IN  \E limit \in 1..RecentPerGroup :
              LET page == Newest(Visible(recent), limit)
              IN  reader' = Reading(g, page, {},
                              IF recent = RecentOf(db, g) /\ page # {} THEN Messages(g) ELSE {})
    /\ UNCHANGED <<recordVars, moderationVars, indexVars, standing>>

-----------------------------------------------------------------------------

Restart ==
    /\ RestartModeration
    /\ entries' = [g \in managed' |-> [state |-> StateOf(db, g), recent |-> RecentOf(db, g)]]
    /\ rebuilds' = [by \in Rebuilders |-> Idle]
    /\ UNCHANGED readerVars

Init ==
    /\ db \in Seeds
    /\ managed = Groups
    /\ pending = {} /\ changes = 0
    /\ evidence = {e \in db : \E r \in db : IsReport(r) /\ r.about = e.id}
    /\ evidenceFile = evidence /\ writing = {}
    /\ resolved = {} /\ captured = {e.id : e \in evidence} /\ overlapped = FALSE
    /\ entries = [g \in managed |-> [state |-> StateOf(db, g), recent |-> RecentOf(db, g)]]
    /\ rebuilds = [by \in Rebuilders |-> Idle]
    /\ standing \in [Groups -> Standings]
    /\ reader = None

Unindexed == UNCHANGED <<indexVars, readerVars>>

Next ==
    \/ \E e \in Events : IndexPublish(e)
    \/ IndexDelete
    \/ (Persist \/ PersistFails \/ ConsoleDeletes) /\ UNCHANGED moderationVars /\ Unindexed
    \/ \E r \in Events : Report(r) /\ Unindexed
    \/ \E c \in Cases : Resolve(c) /\ Unindexed
    \/ \E w \in writing : WriteEvidence(w) /\ Unindexed
    \/ \E by \in Rebuilders : StartRebuild(by) \/ RebuildStep(by) \/ FailLoad(by)
    \/ \E g \in Groups : ChangeStanding(g) \/ StartReading(g) \/ Bootstrap(g)
    \/ ReadOn \/ Deliver
    \/ Restart

\* The loop's timer keeps ticking, and a rebuild that has begun goes on.
Fairness == \A by \in Rebuilders : WF_vars(StartRebuild(by)) /\ WF_vars(RebuildStep(by))
Spec == Init /\ [][Next]_vars /\ Fairness

-----------------------------------------------------------------------------
(* Properties. *)

Exact ==
    entries = [g \in managed |-> [state |-> StateOf(db, g), recent |-> RecentOf(db, g)]]

\* However the index and the database came apart, by commands that were not stored, by
\* deletions it never heard of or by changes under a running rebuild, it holds just what is
\* stored again and again once nothing changes any more (changes are bounded).
IndexCatchesUp == []<>Exact

\* A reader who has paged to the end has seen every message that was stored all the while,
\* but for those that share their second with something they have seen, although pages are
\* filtered and cut after the query, and between it and the page the group changes.
PagesMissNothing ==
    reader # None =>
        (reader.raw = {} /\ reader.next = None =>
            \A e \in reader.stored \cap db : \E f \in reader.seen : f.at = e.at)
=============================================================================
