---------------------------- MODULE AccessLists ----------------------------
(***************************************************************************)
(* The console's changes to the access lists: each changes the list under  *)
(* its lock and writes it to a file afterwards, several requests at once;  *)
(* the follow sync that runs in the background after a reference account   *)
(* is added; the Web-of-Trust roots that go with the reference accounts;   *)
(* restarts that read the files.                                           *)
(*                                                                         *)
(* A file is truncated and then written, and not renamed into place: a     *)
(* crash in between leaves it unreadable.  What a lookup or a rebuild of   *)
(* the follow graph does in detail is in WotOracle.                        *)
(***************************************************************************)
EXTENDS AccessTiers

CONSTANTS
    Requests,      \* tasks of the console that run at once
    Configured,    \* whitelisted_pubkeys of the settings file
    ManualKeys,    \* keys added and removed by hand
    RefKeys,       \* keys made reference accounts
    BlackKeys,     \* keys blocked
    InviteKeys,    \* keys that redeem an invite, or lose it
    Clients,       \* keys that connect and are resolved
    PinnedRoots,   \* what wot.roots may name when it is not empty
    MaxRequests    \* bound: how many requests are made

ASSUME KeysAssumption == {Configured, ManualKeys, RefKeys, BlackKeys, InviteKeys, Clients} \subseteq SUBSET Keys
ASSUME PinnedAssumption == PinnedRoots \subseteq SUBSET Keys
ASSUME MaxRequestsAssumption == MaxRequests \in Nat
ASSUME TornAssumption == \A list \in SUBSET Keys : list # None

VARIABLES
    refs,          \* ReferenceAccounts::inner
    file,          \* the file of each list, Torn if it cannot be read
    task,          \* what each request is doing
    begun,         \* requests made so far
    owned,         \* the relay has an administrator
    mixed,         \* ghost: lists that two requests changed at once, or whose file failed
    crossed        \* ghost: two requests moved the roots at once

vars == <<accessVars, refs, file, task, begun, owned, mixed, crossed>>

Torn == None
Lists == {"manual", "follows", "black", "refs"}
Memory == [manual |-> manual, follows |-> follows, black |-> black, refs |-> refs]

\* lists: those the request changes, lone: those no other request changed meanwhile.
\* list: the one it is saving; content: its copy of a list; after: what is left to do
\* when it is saved.
Idle == [at |-> "idle", lists |-> {}, lone |-> {}, list |-> "manual", content |-> {}, after |-> "done"]
Busy(ls) == \E r \in Requests : task[r].lists \cap ls # {}
BusyBeside(r, ls) == \E q \in Requests \ {r} : task[q].lists \cap ls # {}

Begin(r, ls, at, list, after) ==
    /\ task[r] = Idle
    /\ begun < MaxRequests
    /\ begun' = begun + 1
    /\ LET shared == {l \in ls : BusyBeside(r, {l})}
       IN  /\ task' = [q \in Requests |->
                IF q = r THEN [Idle EXCEPT !.at = at, !.lists = ls, !.lone = ls \ shared,
                                           !.list = list, !.after = after]
                ELSE [task[q] EXCEPT !.lone = @ \ ls]]
           /\ mixed' = mixed \cup shared
Step(r, at) == task' = [task EXCEPT ![r].at = at]
Copy(r, at, content) == task' = [task EXCEPT ![r].at = at, ![r].content = content]

-----------------------------------------------------------------------------
(* The requests: each begins with its change in memory. *)

WhitelistAdd(r, k) ==
    /\ k \notin manual
    /\ manual' = manual \cup {k}
    /\ Begin(r, {"manual"}, "snapshot", "manual", "done")
    /\ UNCHANGED <<follows, invited, black, wotState, refs, file, crossed>>

WhitelistRemove(r, k) ==
    /\ k \in manual
    /\ manual' = manual \ {k}
    /\ Begin(r, {"manual"}, "snapshot", "manual", "done")
    /\ UNCHANGED <<follows, invited, black, wotState, refs, file, crossed>>

BlacklistAdd(r, k) ==
    /\ k \notin black
    /\ black' = black \cup {k}
    /\ Begin(r, {"black"}, "snapshot", "black", "done")
    /\ UNCHANGED <<manual, follows, invited, wotState, refs, file, crossed>>

BlacklistRemove(r, k) ==
    /\ k \in black
    /\ black' = black \ {k}
    /\ Begin(r, {"black"}, "snapshot", "black", "done")
    /\ UNCHANGED <<manual, follows, invited, wotState, refs, file, crossed>>

Crossing(r) == crossed \/ BusyBeside(r, {"refs"})

\* The request goes on as the background task that syncs the follows.
ReferenceAdd(r, k) ==
    /\ k \notin refs
    /\ refs' = refs \cup {k}
    /\ Begin(r, {"refs", "follows"}, "snapshot", "refs", "roots and sync")
    /\ crossed' = Crossing(r)
    /\ UNCHANGED <<lists, wotState, file>>

ReferenceRemove(r, k) ==
    /\ k \in refs
    /\ refs' = refs \ {k}
    /\ Begin(r, {"refs"}, "snapshot", "refs", "roots")
    /\ crossed' = Crossing(r)
    /\ UNCHANGED <<lists, wotState, file>>

SyncRequest(r) ==
    /\ refs # {}
    /\ Begin(r, {"follows"}, "sync", "follows", "done")
    /\ UNCHANGED <<accessVars, refs, file, crossed>>

\* handle_access_settings_update: to open the relay it empties both lists ...
OpenRelay(r) ==
    /\ manual' = {}
    /\ Begin(r, {"manual", "follows"}, "empty follows", "manual", "save follows")
    /\ UNCHANGED <<follows, invited, black, wotState, refs, file, crossed>>

EmptyFollows(r) ==
    /\ task[r].at = "empty follows"
    /\ follows' = {}
    /\ Step(r, "snapshot")
    /\ UNCHANGED <<manual, invited, black, wotState, refs, file, mixed, crossed, begun, owned>>

\* ... and to restrict an open one it lists the admin.
RestrictRelay(r) ==
    /\ isEmpty
    /\ manual' = manual \cup {Owner}
    /\ Begin(r, {"manual"}, "snapshot", "manual", "done")
    /\ UNCHANGED <<follows, invited, black, wotState, refs, file, crossed>>

-----------------------------------------------------------------------------
(* Setup and reset change several lists, one after the other. *)

\* handle_setup, once it has claimed the relay: the owner may be listed, and may
\* become a reference account, whose follows are synced in the background.
SetupLists(r) ==
    /\ ~owned /\ owned' = TRUE
    /\ \/ /\ Owner \notin manual
          /\ manual' = manual \cup {Owner}
          /\ \/ /\ Begin(r, {"manual"}, "snapshot", "manual", "done")
                /\ UNCHANGED crossed
             \/ /\ Begin(r, {"manual", "refs", "follows"}, "snapshot", "manual", "add reference")
                /\ crossed' = Crossing(r)
       \/ /\ Begin(r, {"refs", "follows"}, "add reference", "refs", "add reference")
          /\ crossed' = Crossing(r)
          /\ UNCHANGED manual
    /\ UNCHANGED <<follows, invited, black, wotState, refs, file>>

SetupReference(r) ==
    /\ task[r].at = "add reference"
    /\ refs' = refs \cup {Owner}
    /\ task' = [task EXCEPT ![r] =
            IF Owner \in refs THEN Idle
            ELSE [@ EXCEPT !.at = "snapshot", !.list = "refs", !.after = "roots and sync"]]
    /\ UNCHANGED <<accessVars, file, mixed, crossed, begun, owned>>

\* handle_config_reset, once there is no admin: the whitelist and the follows,
\* then the reference accounts, then the blacklist; a file that cannot be
\* written leaves the rest as it is.
ResetLists(r) ==
    /\ owned' = FALSE
    /\ manual' = {}
    /\ Begin(r, Lists, "empty follows", "manual", "reset follows")
    /\ crossed' = Crossing(r)
    /\ UNCHANGED <<follows, invited, black, wotState, refs, file>>

ResetReferences(r) ==
    /\ task[r].at = "reset refs"
    /\ refs' = {}
    /\ task' = [task EXCEPT ![r].at = "list", ![r].content = {}, ![r].after = "save refs"]
    /\ UNCHANGED <<accessVars, file, mixed, crossed, begun, owned>>

ResetBlack(r) ==
    /\ task[r].at = "reset black"
    /\ black' = {}
    /\ task' = [task EXCEPT ![r].at = "snapshot", ![r].content = {}, ![r].list = "black",
                            ![r].after = "done"]
    /\ UNCHANGED <<manual, follows, invited, wotState, refs, file, mixed, crossed, begun, owned>>

-----------------------------------------------------------------------------
(* Saving a list. *)

Snapshot(r) ==
    /\ task[r].at = "snapshot"
    /\ Copy(r, "truncate", Memory[task[r].list])
    /\ UNCHANGED <<accessVars, refs, file, mixed, crossed, begun, owned>>

Truncate(r) ==
    /\ task[r].at = "truncate"
    /\ file' = [file EXCEPT ![task[r].list] = Torn]
    /\ Step(r, "write")
    /\ UNCHANGED <<accessVars, refs, mixed, crossed, begun, owned>>

\* What comes after a list is saved, or could not be: setup and the changes of a
\* reference account go on with a warning, the others stop.
Then(r, saved) ==
    LET t == task[r]
        SaveFollows(next) ==
            [t EXCEPT !.at = "truncate", !.list = "follows", !.content = {}, !.after = next]
    IN  task' = [task EXCEPT ![r] =
            CASE t.after = "add reference" -> [t EXCEPT !.at = "add reference", !.content = {}]
              [] t.after \in {"roots", "roots and sync"} -> [t EXCEPT !.at = "list", !.content = {}]
              [] t.after = "save follows" /\ saved -> SaveFollows("done")
              [] t.after = "reset follows" /\ saved -> SaveFollows("reset refs")
              [] t.after \in {"reset refs", "reset black"} /\ saved -> [t EXCEPT !.at = t.after, !.content = {}]
              [] OTHER -> Idle]

\* If another request has written in between, its text may show behind this one.
Write(r) ==
    LET t == task[r]
    IN  /\ t.at = "write"
        /\ \E result \in IF file[t.list] = Torn THEN {t.content} ELSE {t.content, Torn} :
              file' = [file EXCEPT ![t.list] = result]
        /\ Then(r, TRUE)
        /\ mixed' = mixed \ (t.lone \cap {t.list})
        /\ UNCHANGED <<accessVars, refs, crossed, begun, owned>>

\* The file cannot be opened: a warning, or an error answer.
WriteFails(r) ==
    /\ task[r].at = "truncate"
    /\ Then(r, FALSE)
    /\ mixed' = mixed \cup {task[r].list} \cup IF task[r].after \in {"save follows", "reset follows"} THEN {"follows"} ELSE {}
    /\ UNCHANGED <<accessVars, refs, file, crossed, begun, owned>>

-----------------------------------------------------------------------------
(* refresh_wot_roots, and the follow sync. *)

\* Mutant: a reference account that is removed stays a root.
ListRootsOnceMore(r) ==
    /\ task[r].at = "list"
    /\ Copy(r, "roots", refs \cup roots)
    /\ UNCHANGED <<accessVars, refs, file, mixed, crossed, begun, owned>>

\* With pinned roots, or without the tier, it returns before this: nothing comes of the copy.
ListRoots(r) ==
    /\ task[r].at = "list"
    /\ Copy(r, "roots", refs)
    /\ UNCHANGED <<accessVars, refs, file, mixed, crossed, begun, owned>>

NoVerdicts == [k \in Keys |-> None]

SetRoots(r) ==
    /\ task[r].at = "roots"
    /\ IF wot /\ pinned = {}
       THEN roots' = task[r].content /\ verdict' = NoVerdicts
       ELSE UNCHANGED <<roots, verdict>>
    /\ task' = [task EXCEPT ![r] =
            CASE task[r].after = "roots" -> Idle
              [] task[r].after = "roots and sync" ->
                    [Idle EXCEPT !.at = "sync", !.lists = {"follows"}, !.list = "follows",
                                 !.lone = task[r].lone \cap {"follows"}]
              [] task[r].after = "save refs" ->
                    [task[r] EXCEPT !.at = "snapshot", !.list = "refs", !.content = {},
                                    !.after = "reset black"]]
    /\ crossed' = (crossed /\ "refs" \notin task[r].lone)
    /\ UNCHANGED <<lists, wotSettings, listed, refs, file, mixed, begun, owned>>

\* The sync lists the reference accounts, and ends at once without any.
StartSync(r) ==
    /\ task[r].at = "sync"
    /\ IF refs = {} THEN task' = [task EXCEPT ![r] = Idle] ELSE Copy(r, "fetch", refs)
    /\ UNCHANGED <<accessVars, refs, file, mixed, crossed, begun, owned>>

\* The contact lists of some of them arrive, of none if the fetch fails.
Fetch(r) ==
    /\ task[r].at = "fetch"
    /\ \E found \in SUBSET task[r].content :
          Copy(r, "follow", UNION {Published[k] : k \in found})
    /\ UNCHANGED <<accessVars, refs, file, mixed, crossed, begun, owned>>

\* Mutant: what the sync did not find again is kept, but not saved.
FollowMore(r) ==
    /\ task[r].at = "follow"
    /\ follows' = follows \cup task[r].content
    /\ Step(r, "truncate")
    /\ UNCHANGED <<manual, invited, black, wotState, refs, file, mixed, crossed, begun, owned>>

Follow(r) ==
    /\ task[r].at = "follow"
    /\ follows' = task[r].content
    /\ Step(r, "truncate")
    /\ UNCHANGED <<manual, invited, black, wotState, refs, file, mixed, crossed, begun, owned>>

-----------------------------------------------------------------------------
(* Around the console. *)

\* handle_relay_claim and the invite handlers; the store survives restarts.
SetInvited(k) ==
    /\ invited' = IF k \in invited THEN invited \ {k} ELSE invited \cup {k}
    /\ UNCHANGED <<manual, follows, black, wotState, refs, file, task, mixed, crossed, begun, owned>>

\* What the graph says, or whatever an oracle does of a key that is no root itself.
Measured(k) == LET hops == distance(Published, roots, k) IN IF hops = None THEN Refused ELSE hops
Answers(k) ==
    CASE local -> {Measured(k)}
      [] ~local /\ roots = {} -> {Refused}
      [] ~local /\ k \in roots -> {0}
      [] OTHER -> Admitting \cup {Refused}

ResolveWot(k) ==
    /\ needsWotResolution(k)
    /\ \E answer \in Answers(k) : verdict' = [verdict EXCEPT ![k] = answer]
    /\ UNCHANGED <<lists, wotSettings, roots, listed, refs, file, task, mixed, crossed, begun, owned>>

Expire(k) ==
    /\ verdict[k] # None
    /\ verdict' = [verdict EXCEPT ![k] = None]
    /\ UNCHANGED <<lists, wotSettings, roots, listed, refs, file, task, mixed, crossed, begun, owned>>

\* What the distances are measured from.
Centre == IF pinned = {} THEN refs ELSE pinned

\* The rebuild lists whom it reaches, but nobody anew without roots.
RebuildGraph ==
    /\ hasGraph
    /\ listed' = IF Centre = {} THEN listed ELSE reachable(Published, Centre)
    /\ verdict' = NoVerdicts
    /\ UNCHANGED <<lists, wotSettings, roots, refs, file, task, mixed, crossed, begun, owned>>

\* Mutant: the follows are not read again.
ReadWithoutFollows(l) == IF file[l] = Torn \/ l = "follows" THEN {} ELSE file[l]

\* A file that cannot be parsed is an empty list.
Read(l) == IF file[l] = Torn THEN {} ELSE file[l]

\* The Web-of-Trust settings a start may find; the tier takes no others until the next.
Settings == [on : {TRUE}, local : BOOLEAN, pinned : PinnedRoots \cup {{}}]
                \cup {[on |-> FALSE, local |-> TRUE, pinned |-> {}]}

\* The process ends at any moment and starts again.
Restart ==
    /\ manual' = Configured \cup Read("manual")
    /\ follows' = Read("follows")
    /\ black' = Read("black")
    /\ refs' = Read("refs")
    /\ \E s \in Settings : wot' = s.on /\ local' = s.local /\ pinned' = s.pinned
    /\ roots' = IF wot' THEN Centre' ELSE {}
    /\ verdict' = NoVerdicts
    /\ listed' = [k \in {} |-> 0]
    /\ task' = [r \in Requests |-> Idle]
    /\ mixed' = {}
    /\ crossed' = FALSE
    /\ UNCHANGED <<invited, file, begun, owned>>

\* The files as earlier requests may have left them.
SavedLists ==
    [manual : SUBSET ManualKeys, black : SUBSET BlackKeys, refs : SUBSET RefKeys,
     follows : {UNION {Published[k] : k \in found} : found \in SUBSET RefKeys}]

Init ==
    /\ file \in SavedLists
    /\ manual = Configured \cup file.manual
    /\ follows = file.follows /\ black = file.black /\ refs = file.refs
    /\ invited = {}
    /\ \E s \in Settings : wot = s.on /\ local = s.local /\ pinned = s.pinned
    /\ roots = IF wot THEN Centre ELSE {}
    /\ verdict = NoVerdicts
    /\ listed = [k \in {} |-> 0]
    /\ task = [r \in Requests |-> Idle]
    /\ begun = 0
    /\ owned \in BOOLEAN
    /\ mixed = {}
    /\ crossed = FALSE

RequestStep(r) ==
    \/ EmptyFollows(r) \/ Snapshot(r) \/ Truncate(r) \/ Write(r) \/ WriteFails(r)
    \/ ListRoots(r) \/ SetRoots(r) \/ StartSync(r) \/ Fetch(r) \/ Follow(r)
    \/ SetupReference(r) \/ ResetReferences(r) \/ ResetBlack(r)

\* An administrator's request leaves the relay owned.
Request(r) ==
    /\ owned
    /\ \/ \E k \in ManualKeys : WhitelistAdd(r, k) \/ WhitelistRemove(r, k)
       \/ \E k \in BlackKeys : BlacklistAdd(r, k) \/ BlacklistRemove(r, k)
       \/ \E k \in RefKeys : ReferenceAdd(r, k) \/ ReferenceRemove(r, k)
       \/ SyncRequest(r) \/ OpenRelay(r) \/ RestrictRelay(r)
    /\ UNCHANGED owned

Next ==
    \/ \E r \in Requests : Request(r) \/ SetupLists(r) \/ (owned /\ ResetLists(r)) \/ RequestStep(r)
    \/ \E k \in InviteKeys : SetInvited(k)
    \/ \E k \in Clients : ResolveWot(k) \/ Expire(k)
    \/ RebuildGraph \/ Restart

Spec == Init /\ [][Next]_vars

-----------------------------------------------------------------------------
(* Properties. *)

Steps == {"idle", "snapshot", "truncate", "write", "empty follows", "list", "roots", "sync",
          "fetch", "follow", "add reference", "reset refs", "reset black"}
Tasks == [at : Steps, lists : SUBSET Lists, lone : SUBSET Lists, list : Lists, content : SUBSET Keys,
          after : {"done", "roots", "roots and sync", "save follows", "add reference",
                   "reset follows", "reset refs", "save refs", "reset black"}]

\* Every variable keeps its type.
TypeOK ==
    /\ AccessTypeOK
    /\ refs \in SUBSET Keys
    /\ file \in [Lists -> (SUBSET Keys) \cup {Torn}]
    /\ task \in [Requests -> Tasks]
    /\ mixed \in SUBSET Lists
    /\ begun \in 0..MaxRequests
    /\ crossed \in BOOLEAN /\ owned \in BOOLEAN

\* A restart finds every list as it was (a configured key that was removed comes back),
\* unless a request is changing it at that moment, its last two changes overlapped, or
\* its file could not be written.
RestartKeepsLists ==
    [][Restart =>
        \A l \in Lists \ mixed : ~Busy({l}) =>
            Memory'[l] = Memory[l] \cup IF l = "manual" THEN Configured ELSE {}]_vars

\* With no request under way distances are measured from the pinned roots, or else from
\* the reference accounts, unless two requests that changed these overlapped: the one that
\* listed them first may set them last.
RootsAreReferences ==
    wot /\ ~crossed /\ ~Busy({"refs"}) => roots = Centre

\* The relay opens to everyone only by an administrator's request, or by a follow sync
\* that comes back with nobody: never by a restart that finds its files whole.
OpensByRequestOnly ==
    [][~isEmpty /\ isEmpty' =>
        \/ \E r \in Requests : \/ task[r].at \in {"follow", "empty follows"}
                               \/ task[r] = Idle /\ task'[r] # Idle
        \/ wot /\ ~wot'
        \/ Torn \in {file["manual"], file["follows"]}
        \/ {"manual", "follows"} \cap mixed # {} \/ Busy({"manual", "follows"})]_vars
=============================================================================
