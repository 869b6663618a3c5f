# Verification of obelisk-relay

TLA+ models of the Obelisk relay (`src/src`), the TLC configurations that check
them on small instances, and proofs, checked by TLAPS, of what holds for every
instance.  Paths below are relative to the repository; `group.rs` stands for
`src/src/group.rs`.

The relay is a NIP-29 group relay: an event processor puts client events through
an admission ladder and hands group events to per-group handlers, which change a
group in memory and return the events to store; an admin console, an invitation
API and an index work on the same state over HTTP.  What can go wrong is mostly
between the copies of one fact: in memory, in a hot-path copy, in a cache, in a
file, in stored events that a restart turns back into memory.

## 1. The system

| component | state | operations | hard behaviour |
|---|---|---|---|
| Relay invitations (`relay_invites.rs`) | `InviteState` under one lock: codes, redemptions, grants | mint, redeem, revoke, evict, set and remove grants, the panel's status | quotas over several codes while limits move; evicted keys that come back; boundary cases of uses and times |
| Invitation handlers (`invite_api.rs`, claims in `groups_event_processor.rs`, startup in `server.rs`, config backups in `admin.rs`) | `Whitelist::invited`, `relay_invites.json` and its temporary file | claim, mint, revoke, evict, grant, backup, restore, start | tasks interleave between the lock, the copy and the file; crashes; failed writes |
| Managed group (`group.rs`) | members and roles, join requests, invites, access flags | 9000 put, 9001 remove, 9002 edit, 9005 delete, 9006 roles, 9009 invite, 9021 join, 9022 leave, posting, replay | lists applied tag by tag; several ways in; state rebuilt from stored events |
| Group registry (`groups.rs`) | `DashMap` of groups, the event database behind a queue | 9007 create, 9008 delete, console deletion, bulk deletions, startup | checks before awaited queries; commands stored later than memory changes |
| Event processor (`groups_event_processor.rs`, `group_state_filter.rs`, `blacklist.rs`, `validation_middleware.rs`) | the known state authors | filters, events, deliveries, claims | a decision when a subscription opens, used long after; a scan in the background |
| Access tiers (`whitelist.rs`, `follow_sync.rs`) | lists by hand, follows, invited keys, blocked keys, references; a file each | ask for admission and budget; change, sync, save, reset | the ladder written down four times; files written beside memory |
| Web of Trust (`wot.rs`, `wot_graph.rs`, `wot_admission_middleware.rs`) | verdict cache, breaker, roots, follow graph | resolve, set roots, rebuild, answer | roots and graph change while a lookup is in flight; failures; a budget |
| Connection limits (`connection_limits.rs`) | counts in total and per address | acquire, drop | a permit given back exactly once |
| Query guards (`unindexed_query.rs`, `search_capability_middleware.rs`) | a budget per connection | predict, bill, refuse | predicts what another component decides later |
| Obelisk index (`obelisk_index.rs`, `obelisk_api.rs`) | groups with recent events | apply commands, rebuild, page | applied before the commands are stored; rebuild races with updates |
| Reports (`reports.rs`) | evidence and its file, cases | capture, resolve, persist | the reported event goes away |
| Compaction, pruner (`compaction.rs`, `pruner.rs`) | request file, the database file and its copies | request, run at startup, prune | the process dies between two renames; kinds never pruned |
| Admin console (`admin.rs`) | sessions, admins, settings file, backups | setup, reset, restore, save, admins | several files one by one; text edited line by line |
| Server, configuration (`server.rs`, `main.rs`, `config.rs`) | wiring | start | order of what is read |
| Maintenance binaries, frontend, metrics, update request | | | not modelled, see section 7 |

They interact as follows.  A connection takes a permit, authenticates, and has its
key resolved by the oracle.  A REQ passes the middlewares (state authors, unindexed
queries, search) before the event processor's `verify_filters` decides; every event
is looked at again when it is delivered.  A claim calls `RelayInviteStore::redeem`,
adds the key to `Whitelist::invited`, persists, and acknowledges; the admission
ladder later reads `Whitelist`, never the store.  A group event goes to `Groups`,
which holds the group's map entry while `Group` changes it and returns
`StoreCommand`s; the index applies them at once, the database later;
`load_groups` reads them back at startup.  The console changes the same lists,
roots, groups and records, and the files they start from.

What makes them correct:

* invitations: nobody spends more than was given, over all codes and in spite of
  evictions; a dead code stays dead; what was answered survives; the hot-path
  copy admits whom the store admits;
* groups: a group keeps an admin; who is in it, who runs it and who waits agree
  with each other and with what a restart rebuilds; invites and access flags
  keep their limits;
* registry: the map holds what a restart rebuilds; a deleted id stays deleted; no
  handler undoes what another did to a group;
* admission: the four ladders agree; a verdict is that of the present roots and
  graph; who stays reachable gets in; the relay opens to all only when asked;
* reading: what is delivered goes to the readers of that moment; narrowing a query
  hides nothing; a permit and a billed query are counted once;
* records: bulk deletions take no group's own records; a wipe leaves nothing; a
  case names the author; the index catches up with the database;
* console: saved settings load; an owned relay stays owned; the admins are those on
  disk; compaction loses nothing.

## 2. The modules

Modules marked with * have theorems about them.  `MC...` modules give values for TLC.

**InviteStore*** is `RelayInviteStore`.  Every method runs under the store's write
lock, so each is one action.  `invites`, `redeemed`, `evicted` and `grants` are
`InviteState`: the redemptions inside each invite are kept as one set of records
whose `n` is the position in the vector, and `evicted_at` as membership in
`evicted`.  `auto` is what the live allowance check (owner, admins, references)
answers.  `admitCeiling` and `codeCeiling` are ghosts: the most generous limits
ever in force for a key.

**InviteAdmission*** extends it with the handlers.  A worker runs one handler;
`task[w].at` is the place it has reached.  Each lock acquisition is a step, so is
each change of `Whitelist::invited`, and `persist()` is four: snapshot under the
lock, open (and truncate) the temporary file, write it, rename it.  The temporary
file has one name for everyone, therefore a descriptor (`fd`) is tracked through
renames and two writers may leave a torn file.  `IoErrors` lets every file
operation fail; the code logs the error and answers all the same.  `Restart` may
happen between any two steps.  Ghosts: `acked` and `answered` are what clients and
the console were told, `raced` the keys whose admission and withdrawal overlapped,
`given` the people added to a grant since its total was last set, `overtaken` the
keys one of whose grant requests set its limits between another's reading and setting
them, `restored` that a backup was copied back and not yet loaded.  A grant request
(`GrantRequests`) sets any of the four limits and adds people, as `handle_admin_grant`
does: it reads what the key has, and sets everything afterwards.

**Group*** is one managed group.  A handler holds the map entry of the group, so
each is one action, with the access checks `find_group_from_event_mut` and the
handler make, and with the events it saves.  `members` maps each key to its roles
or to `None`; `flags` are the access flags of `GroupMetadata`; the variables that
start with `s` are what the database holds.  `Restart` is `load_groups`.  `Ops`
names the operations that occur, so that a property can be stated for the
operations that keep it.

**GroupRegistry*** is the life of one id in `Groups`.  Here the two clocks of the
code are apart: `group`, the map's entry, changes at once, while `database`
(`state` for 39000 to 39002, `managed`, `posts`, `tombs` for 9008s) changes command
by command (`Store`), other workers in between.  `handle_group_create` is four
steps, as its two queries are awaited without a lock; `handle_delete_group` is two.
What `Group` models in detail is one change here, a member put on the list.  Ghosts:
`raced`, that a deletion has overlapped a creation or a change; `replaced`, that of two
creations in flight the later insert has replaced the group of the first.

**GroupLife** is the abstract specification of an id: free, held or barred, one
group at a time whose people stay, what a restart brings back following behind.
`KeepsItsLife` is the refinement, with `held <- group`, `kept <- state`,
`barred <- tombs # {}`, `busy <- ~Quiet`, `voided <- raced \/ replaced`.

**Hops***, **FollowGraph***, **WotOracle*** are the Web of Trust: the breadth-first
search over a follow graph with a reference definition of the distance; the rebuild
that walks outward hop by hop on a budget of fetches, and whose `replace()` writes
one thing after another; the verdict cache, `resolve()` with a step for each lock,
atomic or network access, the breaker with its two atomics apart, the console's
change of the roots, and time.  The network and the oracle are external: a fetch
returns some of the lists asked for, an oracle answers or fails.  Ghosts: `raced`,
the keys whose lookup was in flight while roots or graph changed; `lost`, that a
list asked for did not come.

**AccessTiers*** writes the ladder of lists down as the code does, once to decide
(`contains`, `admits`), once to pick a budget (`tierOf`, `limiterPercent`), once to
explain (`accessCheck`), once to list (`tierPage`, `tier1Total`).  `hasGraph` says
whether there is a graph to explain and list from: the console knows nothing of whom an
oracle admits.  `FirstRows` is the one page of the graph that tier 1 has of each near hop
(`ADMITTED_PAGE_MAX`, here `PageRows`).  **AccessLists***
changes the lists: every request changes memory first and then saves, a file being
truncated and then written, two requests at once, with the follow sync, the roots,
the setup and the reset that change several lists, and restarts.  It starts from
files as earlier requests leave them.  What a start finds of the Web-of-Trust settings
(`Settings`) is whether the tier is on, whether it measures in a graph of its own, and
which roots it pins, if any; with pinned roots the reference accounts do not move them.
Ghosts: `mixed` and `crossed`, the lists and roots that two requests changed at once.

**ConnectionLimiter*** counts permits.  **ReadAccess** has the rules of reading: for
filters, for each event delivered, and of the HTTP API.  **Delivery*** composes the
two: connections with subscriptions, the middlewares that a REQ passes before it is
decided on, publishing, the scan for state authors, and the group and the lists
that change meanwhile.  Ghosts: `late`, the authors of state events a client sent
after the scan; `moved`, the connections on which a REQ passed unbilled and the
lists moved before it was decided.

**Records*** is the database with all that removes from it: the queue of commands,
the console's single and bulk deletions, its deletion of a group and its removal of a
member, NIP-09, the pruner.  `Bulk` is what removes by a filter.  A restart brings back
the groups that have state events.  **Moderation*** extends it with reports: the copy
made when a report comes, its file, the cases.  **ObeliskIndex*** extends that with the
index, its two rebuilds, either of whose queries may fail, and a reader who pages, and
is the specification of the three.  `standing` is what the reader is to a group, and
changes at any time: a page is a query for twice as many events as it shows (`raw`),
of which the reader is then shown what they may see at that moment, cut to the limit
(`Deliver`).

**SettingsFile** is the line editing of `settings.local.yml` and what a YAML parser
makes of the result; lines are records with an indent, a key and a value.
**Compaction*** is the swap of the database file, each rename and removal a step that
may fail; `gap` is a ghost, that a start found no database file.  **Console*** composes them with
setup, sessions, admins, saved settings, reset, backup, restore and restarts, with
each file write a step and crashes in between that leave a file cut off.  Ghosts:
`asked`, what each setting was last saved as; `trusted`, whom an admin or the first
setup let in; `marks`, what may have made a list differ.

Definitions marked "Mutant" are plausible bugs in a handler.  They are part of no
specification; putting one in the place of the real definition shows that a
property notices.  The `TypeOK` of each module states the types of its variables;
TLAPS proves those of InviteStore, InviteAdmission, Group, GroupRegistry, AccessLists and
ConnectionLimiter.  The theorems about a component are in one module: InviteProofs for
the two invitation modules, GroupProofs, GroupRegistryProofs, AccessListsProofs,
DeliveryProofs with ConnectionLimiter, WotOracleProofs with Hops and FollowGraph,
RecordsProofs for Records, Moderation and ObeliskIndex, ConsoleProofs with Compaction.

## 3. The runs

| run | question | bounds |
|---|---|---|
| `invite_store` | Do quotas, ceilings and idempotent redemption hold while codes are minted, spent, revoked and evicted and limits move? | 2 keys (a minter who is also an admin, a newcomer), 2 interchangeable codes, 3 redemptions, time 0..2, one explicit grant beside the automatic allowance |
| `one_writer` | With one handler at a time, does a crash at any step lose anything that was answered? | 1 worker, 2 keys, 1 code, 2 redemptions, grants, backups, restores, restarts |
| `racing` | Which interleavings make the hot-path copy differ from the store, or lose people added to a grant? | 2 workers, 1 key, 1 code, 2 redemptions, failing files, restarts; or 2 workers with grant requests that add a person, set the total, or set every other limit (`CodesOrGrants`: not both in one behaviour) |
| `group_members` | Do lists, leaves, posts and joins keep an admin and the limits of invites? | 3 keys with the relay's, 1 code, lists of up to two tags in both orders, time 0..1 |
| `group_restart` | Is what is stored enough to rebuild members, admins, invites and requests? | the same keys, 2 kinds of invite, made before and after the limits came in, restarts at any point |
| `group_flags` | Can an edit or a restart lower an access flag by accident, in a group converted from an unmanaged one? | ten sets of access tags, three creations, the console, deleted requests, restarts |
| `registry` | Do creations, changes, posts and deletions of one id that overlap, with commands stored in any order, live the life `GroupLife` promises? | 2 workers, 2 keys, 4 state events, restarts |
| `wot` | Are verdicts those of the present roots and graph, and does everyone reachable get in? | 4 keys in a chain with a branch, 2 hops, 2 fetches, 2 lookups, 1 console request, both modes, breaker threshold 2 |
| `access` | Do the ladders agree, and do memory, files and roots, while two requests of the console overlap? | 3 keys, 2 requests after an earlier process's, graph or oracle, pinned roots or none, pages of 1 row, restarts |
| `delivery` | Is what is delivered for its readers, whatever changed since the subscription? | 5 keys, 2 connections from 1 address with room for 1, 4 events, 4 filters, 2 changes of group or lists |
| `records` | Do bulk deletions, reports, rebuilds and readers get on? | 7 events of two seconds, 1 group on a subdomain, pages of 1, 3 changes, of which 2 while somebody reads (`ReportOrReader`) |
| `console` | Do settings, setup, reset, restore and compaction survive each other and a crash? | 2 keys, 2 handlers, 3 requests, 1 crash, a documented and a fresh settings file |

What each property says of the code:

* Invitations.  `OneLiveRedemption`: `redeem()` is idempotent per key, however often
  a key comes back.  `AdmitsWithinCeiling`: each code is clamped when minted and
  again when redeemed; over all codes the sum stays below the largest total in
  force at any time.  `TermsHold`: what a minter's code is made with, how many may
  live, and that the panel's count is the mint's.  `DeadCodesStayDead`: the last use
  and the last second.  `AnsweredOnDisk`, `DiskCurrent`: what the file holds at any
  crash point and when no handler runs.  `AddedPeopleKept`: people added to a grant
  stay in it until a request sets the total or removes the grant; a request about
  another limit takes none back, whatever two handlers do at once, unless one sets its
  limits between the other's reading and setting them (`overtaken`).  `HotPathExact`: an eviction between `redeem()` and
  `add_invited()` of the same key, or a claim between the eviction and
  `remove_invited()`, are the only ways the copy comes to differ from the store.
* Groups.  `AlwaysHasAdmin`, `PromotedByListsOnly`, `InvitesWithinLimits`,
  `NoMemberAwaitsApproval`: the running group.  `RebuildsMembership`, `PendingKept`,
  `SpentInvitesStaySpent`, `RestartNeverOpens`: the stored events say what the group
  in memory says, or err on the closed side.  `LoweredOnlyExplicitly`: three pairs
  of tags and two later flags interact in `apply_tags`; no 9002 lowers `private`,
  `hidden`, `closed` or `restricted` but by the tag for it.  `PendingKept` goes one way:
  whoever waits still waits after a restart.
* Registry.  `SettledIsStored`: with no handler running, the map's entry is the one
  the stored events rebuild, also when two creations were in flight and the second
  replaced the group of the first; only a deletion that overlaps a creation or a change
  (`raced`) is left out.  `KeepsItsLife`: the refinement, with which an id with a
  stored 9008 has no group and nobody loses a group they were let into; it leaves out
  overtaken creations (`replaced`) as well.
* Web of Trust.  `VerdictsAreCurrent`: `set_roots` and the rebuild drop what was
  measured against the old roots and graph; only a lookup in flight escapes.
  `ConfidentHops`: the search finds shortest chains, and within the hops a rebuild
  claims no path is missing.  `ReachableIsAdmitted` (liveness): no refusal, open
  breaker or failed lookup keeps a reachable key out for ever.
* Access.  `LaddersAgree`: as far as the console can know.  Of a key that an oracle
  admits it says that it is on no list, and of the keys within a hop of the roots its
  page has no more than `PageRows`; all else agrees.  `RestartKeepsLists`: a restart finds
  each list as it was, unless its last two changes overlapped or its file failed.
  `RootsAreReferences`: distances are measured from the pinned roots, or without any
  from the reference accounts.  `OpensByRequestOnly`.
* Delivery.  `PermitsCounted`, `ReadersOnly` (with the agreement of the rules for
  subscriptions, deliveries and the HTTP API), `DiscoveryComplete`, `ScrapesArePaid`.
* Records.  `WipeReachesAll`, `CasesNameTheAuthor`.  `GroupsKeepTheirRecords`: nothing
  that removes by a filter takes a state event, a creation or an invite, which
  `load_groups` rebuilds a group from.  `PagesMissNothing`: a reader whose pages are
  filtered and cut after the query still sees every message that stayed, as long as the
  group is open to them.  `IndexCatchesUp` (liveness): the index holds what is stored
  again and again once nothing changes.
* Console.  `SavedSettingsLoad`: the file parses, startup loads what was last saved,
  and the console shows what startup loads.  `ClaimedStaysClaimed`, `AdminsOnDisk`,
  `CompactionSafe`: at every step the process may die at and whatever rename or removal
  fails, every stored event is in the live file or in the original set aside.

**Why the bounds are enough.**  Most of the interesting cases need two of something:
two codes of one minter, two writers, two admins in a list, two console requests, an
eviction and a redemption of one key.  Three redemptions allow redeem, evict,
redeem, evict, redeem by two keys over two codes; time up to 2 passes an expiry set
at 1; the limits sit at 1 and 2, so that every ceiling is reached.  A second code
adds no behaviour to a group, whose invites do not refer to each other.  Four state
events let a group be created, changed, deleted, created and changed again, or
changed by two handlers whose commands cross.  Two hops with two fetches are the
least at which a budget ends inside a hop and between hops.  Lifetimes of one tick
reach every order of expiry and lookup, since a step need not be followed by a tick.
One event in each role (a member's, an outsider's, a former key's, the relay's)
reaches each branch of the rules of reading; a page of one event makes every event
the end of a page, one row on a tier page fewer than there are pinned roots.  A report
and a reader have no state in common, nor have an admin's codes and grants as far as
the hot-path copy goes, so that `ReportOrReader` and `CodesOrGrants` may keep them apart;
`ReportOrReader` also ends a behaviour with a reader after two changes (the properties
hold with three, which takes four minutes).  Three console requests let a reset and a restore or two setups
overlap with a save.  `MaxTime`, `MaxRedemptions`, `MaxTotal`, `MaxJoins`,
`MaxStamp`, `MaxMoves`, `MaxChanges`, `MaxRequests`, `MaxCrashes` and `MaxSubs` bound
counters and appear in guards only.  Symmetry is used for codes, workers, handlers
and connections that differ in nothing, and in no run with a liveness property.

**Deadlock.**  Checked in every run but `records` and `console`, whose changes,
requests and crashes are bounded, so that the system really comes to rest.

**Fairness.**  `wot`: the runtime runs every task that can run (weak fairness of
each lookup step, console step and of the rebuild, which the loop in `server.rs`
repeats), time passes, and a client that is refused connects again (strong fairness
of `Resolve`, since another connection may hold the worker meanwhile).  Nothing is
assumed of the oracle: the property is about keys that it keeps answering for.
`records`: the index's timer keeps ticking and a rebuild that has begun goes on.  No
other run assumes any: the other handlers run to their ends without waiting for one
another, and the models state what may never happen.

## 4. Correspondence

`PROJECT.json` maps each definition to its lines.  Some choices a reader will ask
about:

* `add_members` and `remove_members` change the group tag by tag and restore the
  snapshot they took when a tag or the outcome is refused, all under the group's
  entry: `PutUsers` and `RemoveUsers` are all or nothing.  `UnsetsLastAdmin` looks at
  the group as the tags before left it, the guard of `RemoveUsers` at the admins
  before the list.
* `join_request` in an open group does not look at the code; in a closed one the
  use is counted before the member is added.  If the 39001 cannot be generated
  because no admin is left, the event is refused although memory has changed:
  `Admit` keeps that.
* `remove_members` renews the 39001 only if an admin was named, `set_roles` never.
* `generate_metadata_event` and `load_metadata_from_event` are modelled by what they
  do to the flags: `PublishedTags` and `Reloaded`.  A 39000 that creates the group
  during `load_groups` is applied twice (`first`).
* In `Group` events are stored in the same step as the handler that saves them; the
  delay between the two is `GroupRegistry`'s.  There every state event has a stamp
  of its own, though the code's have the second they were made in.
* A 9008 is not a management kind (`group.rs:683`), so one for an id without a group
  is saved as an unmanaged event (`DeleteNothing`).
* The distance of `wot_graph.rs` is a function over the hops, `Layers`; a lookup in a
  local graph is one step since it holds the graph's lock, one at an oracle is one
  step for each root.  Times count down instead of being compared with a clock.
* `AccessTiers` has one admin (`Owner`), whom the ladder admits beside the lists.
  What the console restores from a backup is in `Console`, not in `AccessLists`.
* The relay builder handles the messages of a connection one after another, hence
  one `pending` REQ for each connection.  A filter whose list of kinds or authors is
  empty matches nothing and is left out (`FiltersAssumption`).
* In `Records` an id orders the events of one second.  Kinds are grouped by what the
  code tells apart: `state`, `create`, `invite` and `put`, which are never pruned,
  `message`, `report`, and any other.
* The three state events 39000 to 39002 are one event in `GroupRegistry` and in
  `Records`, though they are three commands to the database.  `load_groups` makes a group
  of any of them, so that a crash in between brings back a group all the same, with what
  the older of the others say; `Group` looks at what each of them is read for.
* Each screen of `Console` saves one or two settings, keys of `relay` itself or of its
  blocks, in the ways the console edits them; a comment line is left out, a blank line kept, since it ends a
  block for `upsert_relay_value` and for nobody else.
* Left out because nothing reads it back: labels, creation times, display names,
  kind 9000 events, logging and metrics.  Refused requests change nothing and are
  no steps.

## 5. What is proved

All with TLAPS, for any finite set of keys, any codes, grants, tag lists, filters,
events and limits, and any number of workers or connections.

**Invitations** (`InviteProofs`).  The store alone: `StoreTypes`,
`AtMostOneLiveRedemption`, `CodesStayWithinTheirUses`, `MintersStayWithinTheirTotal`,
`HistoryIsKept`, `MintersTermsHold`, `DeadForGood`.  The inductive invariant `StoreInv`
is the conjunction of the state properties and of `CeilingCovers`, that the limit in
force never exceeds the ghost ceiling.  Without it the quota is not inductive: `redeem`
compares with the limit in force, the property with the ceiling.  `TermsInv` does
the same for the number of live codes, with `CodeCeilingCovers` and the fact that no
step but a mint makes a code live.  The type invariant carries that the positions of
a code's redemptions are at most its uses, so that a new redemption is a new element
and counts one; the lemmas on cardinality turn this into the bounds.

The handlers around it, for any number of them, file errors, backups and restarts:

* `HotPathStaysExact` and `OneLiveAcrossRestarts`.  `Exact` is what makes it inductive:
  unless raced, a key on its way in holds a live redemption, a key on its way out holds
  none, and for all others the copy agrees.  An evicting revoke takes the only live
  redemption of its keys, which needs `OneLiveRedemption` in whatever a restart may
  load; hence `FilesSound`, that every saved state, and every one about to be saved,
  has it (`NothingIsSound`: so has no file).
* `AdmissionTypes` and `QuotasOutliveRestarts`: uses and totals stay within the most
  generous limits ever, also over restarts that load an older file or a backup.
  `StateInv` adds to the store's invariant that every file a restart may load, every
  snapshot on its way to one and every backup is whole (`FilesWhole`): it satisfies the
  quotas under the ceilings reached so far, which only rise (`CeilingsKept`).
* `AnswersAreOnDisk` and `DiskStaysCurrent`, for one handler at a time and files that do
  not fail (`OneWorker`, `~IoErrors`; both necessary, see section 6).  `OneWriterInv` says
  that with nobody in `persist()` the file is the store (`Rested`), and that during it
  the snapshot taken is still the store, the descriptor is the temporary file's and what
  was answered before is in the file renamed last (`SavingInStep`).
* `PeopleAddedAreKept`, for any number of handlers.  `GivenInv` says of every grant in
  force, and of every one a request is about to set, that it has room for more than were
  added to it, unless the key is `overtaken`.

**Groups** (`GroupProofs`):

* `GroupTypes`, `MembersDoNotWait`, `EditsLowerExplicitly` (about 9002s only) and
  `RestartsNeverOpen` need no assumption about the operations.  The last rests on `FlagsOnRecord`: the
  stored 39000 has the tags of the flags in memory, and `ReplayRaises`: to apply
  them gives flags no lower.
* `GroupKeepsAnAdmin` assumes that the console removes nobody.  Its inductive
  invariant is `AdminInv`: an admin in memory and an admin in the stored 39001,
  which is what a restart takes the admins from, also after `set_roles` has left
  the two lists different.
* `StoredMembershipIsCurrent` and `RestartsAdmitNobody` assume in addition that no
  9006 sets roles.  The stored lists equal the members and admins, and a restart
  reads them back.
* `InvitesStayWithinLimits` assumes no restart: a replay counts every request that
  named the code, also one that was refused, so the count may pass the ceiling.
  `ListsPromoteOnly` does, too (invariant `NoAdminInvites`): a replayed invite hands
  out the roles it asked for.
* `SpentForGood` and `LimitsAreKept` assume no deleted 9021 and no console
  removals.  The inductive invariant `UsesRecorded` says that the stored 9009
  yields the limits in memory and that at least as many 9021s are stored as uses
  were counted, so that a replay can only find an invite more spent.
* `WaitingIsKept` assumes none of `set_roles`, the console and deleted requests
  (invariant `WaitingOnRecord`: the requests stored of keys that are no members are
  those that wait).

**Registry** (`GroupRegistryProofs`): `RegistryTypesKept`, `RegistrySettles`,
`DeletedForGood`, and `RegistryKeepsItsLife`, the refinement of `GroupLife` (initial states and every step).  The inductive invariant
`RegistryInv` is the types and, unless `raced`, `Sound`: a deletion and a change or
creation never have commands under way together (`Exclusive`), what is erased stays
empty (`Emptied`), a freed id is free until the 9008 is stored (`Freed`), the stored
state is the newest but those under way (`Successive`), and the map's group is
stored or under way (`Recorded`).  Creations that overlap are part of `Sound`: the group
of the later insert has the later stamp.

**Connections and reading**: `PermitsAreCounted` (`DeliveryProofs`: a permit's
address entry is the number of live connections of the address; the cardinality
lemmas do the rest) is carried over to the composition (`PermitsCountedBeside`: every step of `Delivery` is one of the limiter
or leaves it); the module adds `DeliveredToReaders` (the rules agree in every state whose
admins are members, `GroupInv`), `NarrowedMissNothing` (`DiscoveryInv`: the known
authors are complete when first used, and a subscription's filter is the one asked
or its narrowing to them) and `UnbilledIsRefused` (`Predicted`: as long as the
lists have not moved, an unindexed query that was not billed is one the admission
rule refuses).

**Access** (`AccessListsProofs`), for any lists, requests and graph:

* `ListsSurviveRestart`, an action property.  `ListInv` ties each list to the request
  that is saving it: a list outside `mixed` that no request holds dirty reads back from
  its file as it is in memory (`CleanUnlessDirty`), a request's snapshot is the list as
  long as nobody else changes it (`Copied`), two requests that share a list have marked
  it (`SharedIsMixed`).
* `RequestsOpen` follows step by step from the same types.
* `RootsFollowReferences`: pinned roots stay as the start found them; without any, and
  unless `crossed`, at most one request is between a change of the references and that of
  the roots, and it carries the references of the moment (`RootsInv`).
* `LaddersNeverPart`, with its exceptions for oracles and full pages: whoever has a
  verdict in a graph has the one it gives from the present roots (`VerdictInv`), so the
  budget, the console's check and the tier pages, which look
  at one or the other, find the same rung.  That the pages list exactly whom the search
  reaches is by induction on hops (`SeenIsLayered`, `DistanceIsReach`).
* `AccessTypes`.

**Web of Trust** (`WotOracleProofs`):

* `SearchIsShortest`: the breadth-first search returns the length of the shortest chain
  of follows from a root, and nothing when there is none within `MaxHops`, for any graph.
* `CachedVerdictsAreCurrent`, in both modes.  In the relay's own graph a lookup in flight
  holds the present roots and, once it has measured, the present distance
  (`InFlightIsCurrent`), and a refusal on its way to the cache is that of a built graph
  (`RefusalIsConfident`).  At an oracle the verdict is put together from one answer for
  each root: what has been asked so far is the nearest of the roots asked (`Asking`), the
  distance from all roots is the nearest of the distances from each
  (`NearestIsDistance`, by `SearchIsShortest`), and the early stop at hop 0 or 1 leaves a
  value of the same tier (`NearEnough`).
* `RebuildsAreConfident`, of a rebuild that got every list it asked for and whose budget
  did not end exactly with a hop.  `WalksAlong`: the keys the rebuild has met in n rounds are those of the true layers, as
  long as no list was lost and no round was cut short; `Holds` extends a claim from hop to
  hop by induction.

**Records** (`RecordsProofs`):

* `BulkKeepsTheRecords`, that nothing that removes by a filter takes a state event, a
  creation or an invite (it erases events of other kinds only), and `CasesKeepTheAuthor` (`EvidenceInv`: what the handler of a report has seen is
  among the copies and reaches the file, unless two reports overlapped), given that an
  id names one event, as the hash of its content does (`EventsAssumption`).
* `WipesReachAll`: page by page the wipe reaches every event of its author that shares
  its second with none, under `FewStored`, that the author has no more there than the
  pages hold.  The code has that limit, too: 200 pages of 500, `groups.rs:1768`.
  `NewestAreFirst` is what a page is good for: whatever is left out is older than all
  of it.  It and the descent from page to page rest on the least element of a set of
  numbers.
* `ReadersMissNothing`: a reader who pages to the end beside a store that changes has
  seen every message that was there all the while, or another of its second
  (`ReaderInv`: so it is for those at or after the cursor, and the others were there for
  the query whose answer is not shown yet).  Filtering loses nothing because whoever may
  read a group may see each of its messages, and cutting because the cursor is what is
  left last.

**Console** (`ConsoleProofs`):

* `CompactionLosesNothing`, wherever a compaction is cut off.  `StepsFound` says what each
  step has found and left: until the rename no original is set aside, between the
  renames there is no live file and the copy is the original or does not open,
  afterwards the live file is one of the two, and while the original is renamed back
  there may be none; `RequestsCounted`, that a staged request
  has not been attempted.
* `AdminsAreOnDisk`, for any settings, handlers and crashes: a reset replaces the list on
  disk before the one in memory, so that the lists differ only between these two steps
  (`Settled`), and the file is empty there unless somebody crossed the reset (`Wiped`).
  Both use that neither mark for a missing or broken file is a set of events or keys.
* `ClaimedForGood`.  `ClaimInv`: whomever a file, a backup or a handler in flight may make
  an admin is trusted (`Trusting`); a relay in use without admins retains its owner or has
  never been claimed (`Unclaimed`); a reset that has begun to take lists away has retained
  the owner (`Retained`), alone (`Apart`); and where neither the admins' file nor an owner
  is left, the settings, and every save of them under way, still name an admin
  (`Guarded`).
* `SettingsLoad`.  `LoadInv`: what was asked is what startup loads, and a save under way
  writes the edit of a file that could be on disk.

The last two have a hypothesis about the editing of single files, `KeepsConfigured` and
`KeepsSettings`: in a set of files that the screens, a reset and a start do not leave, each
edit sets what it names and nothing else, and the file still parses.  What a fold over
lines computes for every file is beyond the prover; what concurrent handlers, crashes,
backups and restores make of correct edits is what the theorems say.  TLC evaluates both
hypotheses (`ReachedAssumption` in MCConsole) on every file that the screens, resets and
starts can make, in any order, of a settings file as documented, of a fresh one and of a
file that was cut off: 29901 files, closed under all of them.

Each assumption that excludes an operation is necessary, as section 6 shows by a
remark.

The assumptions on constants are named in the modules that declare them, and TLC
evaluates each: keys, codes, connections and events are finite sets where something is
counted, `None` and the marks of missing or torn files are no values of what they stand
for, bounds are numbers, a grant asked for has a grant's type.

**Only model-checked.**  Liveness (`ReachableIsAdmitted`, `IndexCatchesUp`), since fairness
and ENABLED are beyond the prover, and the two hypotheses on the editing of settings.
All other properties of the runs are stated by a theorem.

## 6. Known limits of the code

The models contain the following; where a property excludes one, its comment or its
ghost says so.  Where code and documentation disagree, both are named.

Invitations:

* `persist()` (`relay_invites.rs:416`) gives all callers one temporary file outside
  the lock; one handler may rename the file another has just truncated.  The
  comment at line 405 promises that no crash leaves half a file; `one_writer` shows
  it for one handler at a time.
* A repeated claim is acknowledged from memory while the first is still being
  written (`groups_event_processor.rs:371`); `docs/relay-invites.md:171` promises
  persisted before acknowledged.
* A claim that redeems before and adds the key after an eviction of the same key
  leaves the key in the hot-path copy until a restart (`raced`).
* Of two requests that read one grant, the later one wins, and the people added or the
  limits set by the first are gone (`overtaken`, `invite_api.rs:584-615`).
* A handler that persists between a restore and the restart overwrites the restored file.

Groups and registry:

* `set_roles` (`group.rs:1121`) saves no 39001, so a demoted admin is an admin again
  after a restart; the console's member removal (`groups.rs:1842`) saves no lists, so
  the member is back.  The console may remove the last admin.
* Uses are recounted from the 9021s still stored (`group.rs:1611`); deleting one
  revives a spent invite.  A replayed invite hands out the roles its 9009 asks for.
* An invite whose 9009 is dated before `INVITE_LIMITS_SINCE`, which a client may do today,
  has the default limits until a restart and none after it (`group.rs:1657`;
  `docs/known-issues.md` section 15 means those made before).  The properties of spent
  invites and of limits leave it out (`Grandfathered`).
* A 9008 for an id that never was a group is stored (`groups_event_processor.rs:689`),
  and `handle_group_create` then refuses the id because it "existed before and was
  deleted" (`groups.rs:630`).
* Of two creations of one id in flight the later insert replaces the group of the
  first (`groups.rs:692`), with the people it had; of two within one second the database
  may keep the state events of either, which the models, whose state events have stamps
  of their own, do not show; a creation that checks between the removal from the map
  and the storing of the 9008 revives the id; commands still queued when a group is
  deleted are stored afterwards and bring it back at the next start; a console
  deletion beside a 9008 may erase that and free the id (`GroupLife`'s `Lift`).

Admission and reading:

* A lookup in flight while `set_roots` runs caches a verdict of the old roots for its
  whole lifetime (`raced`).  A rebuild whose budget ends exactly with a hop claims one
  hop too many (`ConfidentHops` leaves that case out).
* Two requests that change the reference accounts at once may leave older roots, or
  older lists on disk; list files are written without a rename, so that a crash may
  leave one empty.  A configured key that the console removed is back after a restart.
  Removing a reference account does not sync the follows; a sync that fails returns
  an empty list, and may thereby open the relay.  A reset that cannot write one file
  leaves the later lists as they were.
* With an oracle the console's check says "none" of whom it admits (`admin.rs:5333`),
  though its comment says that it runs the real ladder; the tier pages are empty.  Of
  more than 500 keys at a hop below 2 the pages of tier 1 show 500 (`admin.rs:2248`),
  though a comment there calls them whole.
* `handle_access_tier_summary` counts overlapping sources twice and blocked keys, too;
  without roots a rebuild keeps the list of the last one.
* The API's `authenticate_nip98` admits blocked keys on an open relay.
* A REQ is billed by what the lists say before it is decided on (`moved`); state events
  that a client signs itself after the scan are not found by narrowed queries (`late`,
  `group_state_filter.rs:107`).  A filter with an empty list of kinds is exempt for
  `verify_filters` (`groups_event_processor.rs:453`) but not for
  `is_ephemeral_only` (`unindexed_query.rs:105`).
* `README.md:239` lists a `ValidationMiddleware`; `server.rs` installs none.

Records:

* `admin_delete_user_events` visits the scopes of managed groups, where its comment
  says all; pages end strictly before a second, so that events of one second may be
  skipped, for `author_kinds_in_scope` and `messages_for_group` alike.
* Evidence is looked for in the scope of the report's connection only; reports in scopes
  without groups are never listed; two reports at once may leave the older snapshot on
  disk, a crash while writing an empty one.
* The index never hears of NIP-09, console or pruner deletions; a deletion during a
  delayed rebuild schedules none; a rebuild overwrites what was applied meanwhile; its
  entries are empty while it runs.
* Joins (9021) are read by `load_groups` but are not among `NEVER_PRUNE_KINDS`
  (`pruner.rs:27`): a pruned one is a use that is not counted after the next restart.
* A bootstrap whose recent events are all hidden from the reader, as 9009s are from plain
  members, has no `next_before` (`obelisk_index.rs:291`): a reader who goes by it takes the
  group for empty.  `Bootstrap` promises nothing then.
* `handle_storage_prune` finds an unknown `attributed_by` only after earlier targets
  have been deleted.

Console:

* Settings are read, edited and written without a lock: of two saves one is lost, and a
  save that reads the file while it is being written loses its header, from when on
  nothing it saves is loaded.  A torn settings file loses the configured admins and
  mints a new identity.  A blank line inside a block that is replaced whole
  (`admin.rs:1026`) leaves the lines behind it without a parent; `settings` as
  documented have none there.
* A setup that was overtaken by a reset or a restore between check and claim takes the
  relay although an owner is retained, and its end may clear that owner.  A restore that
  fails or is cut off half-way may leave neither admins nor owner, and one may take the
  retained owner away while there are no admins; a removed admin's sessions last until
  they expire.
* Every file of the console is written in place.  `Cut` leaves those of a save, a reset and
  a setup cut off; a crash while an admin is added or removed, or in the middle of a
  restore's copy, cuts its file off, too, and a write that fails may leave an empty file,
  where `Fail` leaves the old one.  What these do to the lists is among what the properties
  except by name (`opened`, `adrift`).
* A crash between compaction's two renames starts the relay on an empty database, as do
  one between the removal of a copy that will not open and the original's return
  (`compaction.rs:547-548`), and a return that fails, whose error is ignored (lines 534 and
  548).  `docs/retention.md:118` says that the original is restored if anything fails.  The
  originals are kept beside it and later compactions refuse.  A copy that will not
  open, followed by a crash before it is verified, keeps the relay from starting.

## 7. Not modelled

The frontend and the maintenance binaries (one-shot tools over LMDB) are not part of
the running relay.  Of the console: page rendering, logs, live statistics, uploads,
the exact count's cache (two operators who ask for different windows replace each
other's) and the update request (a check and then a write, without a lock).  Of the
server: routing, metrics, the parsing of values, environment variables and
`settings.{env}.yml`.  The storage history appends samples to a file that nothing
reads back into a decision.  LMDB, the relay builder and the Nostr SDK are external.
Cryptography (signatures, NIP-98) is assumed.

## 8. What is left

The editing of settings proved for every file instead of evaluated on all that the
deployed ones lead to.  Settings spread over several files (`settings.{env}.yml`).
`FewStored` is needed only because the wipe stops after its last page without a word;
if the code reported that, `WipesReachAll` could be stated without it.
