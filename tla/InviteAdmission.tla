-------------------------- MODULE InviteAdmission --------------------------
(***************************************************************************)
(* The handlers around the invitation store, and what they keep in step    *)
(* with it: the hot-path copy of the admitted keys (Whitelist::invited) and *)
(* relay_invites.json.  Each handler is a task on a thread of its own.  It  *)
(* takes the store's lock for one operation, releases it, updates the       *)
(* hot-path copy and persists the store, so two tasks interleave between    *)
(* these steps and a crash may come between any two of them.                *)
(*                                                                         *)
(* persist() writes a temporary file, the same one for every caller, and   *)
(* renames it over relay_invites.json.  A file is what it holds; a task that *)
(* has opened the temporary file follows it through a rename.              *)
(***************************************************************************)
EXTENDS InviteStore

CONSTANTS
    Workers,        \* the threads that run handlers
    Kinds,          \* the requests that arrive
    IoErrors,       \* whether a file operation of persist() may fail
    FreshGrant,     \* the DEFAULT_GRANT_* limits
    GrantRequests,  \* what the console may ask for a minter
    MaxTotal,       \* bound: no grant is given a larger total
    NoFile, Empty, Torn \* file contents that are not a saved state

\* What a file may hold.
Saved == [invites : [Codes -> Option(Invite)], redeemed : SUBSET Redemption,
          evicted : SUBSET Redemption, grants : [Keys -> Option(Grant)]]

\* GrantRequest: limits to set, where there is one, and people to add on top.  A
\* day is one unit of time.
GrantRequest == [maxCodes : Option(Nat), maxUses : Option(Nat), maxTotal : Option(Nat),
                 maxTtl : Option(Nat), add : Nat]

ASSUME FilesAssumption == NoFile # Empty /\ Empty # Torn /\ Torn # NoFile
ASSUME SavedAssumption == \A f \in {NoFile, Empty, Torn} : f \notin Saved
ASSUME FreshAssumption == FreshGrant \in Grant /\ MaxTotal \in Nat /\ IoErrors \in BOOLEAN
ASSUME NobodyAssumption == None \notin Keys
ASSUME RequestsAssumption == GrantRequests \subseteq GrantRequest /\ None \notin GrantRequest

VARIABLES
    invited,        \* Whitelist::invited
    task,           \* what each worker is doing
    disk,           \* relay_invites.json
    tmp,            \* relay_invites.json.tmp
    backup,         \* the copy in a config backup, first one of a new relay's
    acked,          \* ghost: redemptions whose claim was answered OK
    answered,       \* ghost: evictions answered by the console
    raced,          \* ghost: keys whose admission and withdrawal overlapped
    given,          \* ghost: people added to a key's grant since its total was last set
    overtaken,      \* ghost: keys one of whose grant requests set over another's
    restored        \* ghost: a backup was restored and the relay not restarted

grantGhosts == <<given, overtaken>>
handlerVars == <<invited, task, acked, answered, raced, grantGhosts>>
fileVars == <<disk, tmp, backup, restored>>
admissionVars == <<storeVars, handlerVars, fileVars>>

IsSaved(f) == f \notin {NoFile, Empty, Torn}

NoState == [invites |-> [c \in Codes |-> None], redeemed |-> {},
            evicted |-> {}, grants |-> [k \in Keys |-> None]]
CurrentState == [invites |-> invites, redeemed |-> redeemed,
                 evicted |-> evicted, grants |-> grants]

\* at: the step the worker takes next.  who: the keys still to be admitted or
\* withdrawn, victim the one whose turn it is.  claims, evictions: what the answer
\* will confirm.  fd: the file its descriptor names.
Idle == [at |-> "idle", who |-> {}, victim |-> None, claims |-> {}, evictions |-> {},
         grant |-> None, asked |-> None, snap |-> None, fd |-> "none"]

Quiet == \A w \in Workers : task[w].at = "idle"
Admitting(pk) == \E w \in Workers : task[w].at \in {"admit", "readmit"} /\ pk \in task[w].who
Withdrawing(pk) ==
    \E w \in Workers : task[w].at \in {"check", "drop"} /\ pk \in task[w].who \cup {task[w].victim}

Begin(w, begun) == task' = [task EXCEPT ![w] = begun]
Done(w) == task' = [task EXCEPT ![w] = Idle]
Goto(w, step) == task' = [task EXCEPT ![w].at = step]

-----------------------------------------------------------------------------
(* The persist step shared by the handlers. *)

\* The answer goes out: the task is over.
Answer(w) ==
    /\ Done(w)
    /\ acked' = acked \cup task[w].claims
    /\ answered' = answered \cup task[w].evictions

Snapshot(w) ==
    /\ task[w].at = "snapshot"
    /\ task' = [task EXCEPT ![w].at = "open", ![w].snap = CurrentState]
    /\ UNCHANGED <<storeVars, invited, acked, answered, raced, grantGhosts, fileVars>>

\* std::fs::write: the file is created or truncated, then written.
OpenTmp(w) ==
    /\ task[w].at = "open"
    /\ tmp' = Empty
    /\ task' = [task EXCEPT ![w].at = "write", ![w].fd = "tmp"]
    /\ UNCHANGED <<storeVars, invited, acked, answered, raced, grantGhosts, disk, backup, restored>>

\* Written over another task's longer content, the end of that content stays.
Overwritten(content, snap) == IF content = Empty THEN {snap} ELSE {snap, Torn}

WriteTmp(w) ==
    /\ task[w].at = "write"
    /\ Goto(w, "rename")
    /\ CASE task[w].fd = "tmp"  -> tmp' \in Overwritten(tmp, task[w].snap) /\ disk' = disk
         [] task[w].fd = "disk" -> disk' \in Overwritten(disk, task[w].snap) /\ tmp' = tmp
         [] OTHER               -> UNCHANGED <<disk, tmp>>
    /\ UNCHANGED <<storeVars, invited, acked, answered, raced, grantGhosts, backup, restored>>

\* Where descriptors point once the temporary file has become relay_invites.json.
AfterRename(fd) == CASE fd = "tmp" -> "disk" [] fd = "disk" -> "orphan" [] OTHER -> fd

\* The rename fails, and is only logged, if another task renamed the file first.
RenameTmp(w) ==
    /\ task[w].at = "rename"
    /\ acked' = acked \cup task[w].claims
    /\ answered' = answered \cup task[w].evictions
    /\ IF tmp = NoFile
       THEN /\ Done(w)
            /\ UNCHANGED <<disk, tmp>>
       ELSE /\ task' = [v \in Workers |->
                  IF v = w THEN Idle ELSE [task[v] EXCEPT !.fd = AfterRename(@)]]
            /\ disk' = tmp
            /\ tmp' = NoFile
    /\ UNCHANGED <<storeVars, invited, raced, grantGhosts, backup, restored>>

\* Every caller logs the error and answers all the same.
PersistFails(w) ==
    /\ IoErrors
    /\ task[w].at \in {"open", "write", "rename"}
    /\ Answer(w)
    /\ UNCHANGED <<storeVars, invited, raced, grantGhosts, fileVars>>

-----------------------------------------------------------------------------
(* handle_relay_claim.  A refused claim changes nothing. *)

\* The key is admitted by redeem(); the lists follow later.
Claim(w, c, pk) ==
    /\ "claim" \in Kinds
    /\ task[w].at = "idle"
    /\ Redeem(c, pk)
    /\ Begin(w, [Idle EXCEPT !.at = "admit", !.who = {pk}, !.claims = redeemed' \ redeemed])
    /\ raced' = IF Withdrawing(pk) THEN raced \cup {pk} ELSE raced
    /\ UNCHANGED <<invited, acked, answered, grantGhosts, fileVars>>

\* The key holds a live redemption already: acknowledged without persisting.
ClaimAgain(w, pk) ==
    /\ "claim" \in Kinds
    /\ task[w].at = "idle"
    /\ LiveRedemptionsOf(pk) # {}
    /\ Begin(w, [Idle EXCEPT !.at = "readmit", !.who = {pk}, !.claims = LiveRedemptionsOf(pk)])
    /\ raced' = IF Withdrawing(pk) THEN raced \cup {pk} ELSE raced
    /\ UNCHANGED <<storeVars, invited, acked, answered, grantGhosts, fileVars>>

\* Mutant: the claim is acknowledged before it is persisted.
AddInvitedAndAnswer(w) ==
    /\ task[w].at \in {"admit", "readmit"}
    /\ invited' = invited \cup task[w].who
    /\ acked' = acked \cup task[w].claims
    /\ IF task[w].at = "admit"
       THEN task' = [task EXCEPT ![w].at = "snapshot", ![w].who = {}, ![w].claims = {}]
       ELSE Done(w)
    /\ UNCHANGED <<storeVars, answered, raced, grantGhosts, fileVars>>

AddInvited(w) ==
    /\ task[w].at \in {"admit", "readmit"}
    /\ invited' = invited \cup task[w].who
    /\ IF task[w].at = "admit"
       THEN /\ task' = [task EXCEPT ![w].at = "snapshot", ![w].who = {}]
            /\ UNCHANGED <<acked, answered>>
       ELSE Answer(w)
    /\ UNCHANGED <<storeVars, raced, grantGhosts, fileVars>>

-----------------------------------------------------------------------------
(* The handlers of invite_api.rs. *)

MintAndPersist(w, c, pk, asAdmin, uses, ttl) ==
    /\ "mint" \in Kinds
    /\ task[w].at = "idle"
    /\ Mint(c, pk, asAdmin, uses, ttl)
    /\ Begin(w, [Idle EXCEPT !.at = "snapshot"])
    /\ UNCHANGED <<invited, acked, answered, raced, grantGhosts, fileVars>>

\* From the apps everyone is bound by an allowance; the console mints as admin.
MintRequest(w, c, pk, uses, ttl) == MintAndPersist(w, c, pk, FALSE, uses, ttl)
AdminMintRequest(w, c, pk, uses, ttl) == pk \in Admins /\ MintAndPersist(w, c, pk, TRUE, uses, ttl)

\* Mutant: a revocation is not persisted.
RevokeInMemory(w, c) ==
    /\ "revoke" \in Kinds
    /\ task[w].at = "idle"
    /\ Revoke(c, FALSE)
    /\ UNCHANGED <<handlerVars, fileVars>>

\* handle_revoke_mine, and handle_admin_revoke without evict.
RevokeRequest(w, c) ==
    /\ "revoke" \in Kinds
    /\ task[w].at = "idle"
    /\ Revoke(c, FALSE)
    /\ Begin(w, [Idle EXCEPT !.at = "snapshot"])
    /\ UNCHANGED <<invited, acked, answered, raced, grantGhosts, fileVars>>

KeysOf(recs) == {r.pk : r \in recs}

\* Mutant: the keys evicted with a code keep their hot-path entries.
RevokeKeepingInvited(w, c) ==
    LET gone == EvictedByRevoke(c, TRUE)
    IN  /\ "evict" \in Kinds
        /\ task[w].at = "idle"
        /\ Revoke(c, TRUE)
        /\ Begin(w, [Idle EXCEPT !.at = "snapshot", !.evictions = gone])
        /\ raced' = raced \cup {pk \in KeysOf(gone) : Admitting(pk)}
        /\ UNCHANGED <<invited, acked, answered, grantGhosts, fileVars>>

\* handle_admin_revoke with evict.
RevokeEvicting(w, c) ==
    LET gone == EvictedByRevoke(c, TRUE)
    IN  /\ "evict" \in Kinds
        /\ task[w].at = "idle"
        /\ Revoke(c, TRUE)
        /\ Begin(w, [Idle EXCEPT !.at = "check", !.who = KeysOf(gone), !.evictions = gone])
        /\ raced' = raced \cup {pk \in KeysOf(gone) : Admitting(pk)}
        /\ UNCHANGED <<invited, acked, answered, grantGhosts, fileVars>>

\* Per evicted key: does another live redemption hold it?
CheckEvicted(w) ==
    /\ task[w].at = "check"
    /\ \/ task[w].who = {} /\ Goto(w, "snapshot")
       \/ \E pk \in task[w].who :
             IF LiveRedemptionsOf(pk) = {}
             THEN task' = [task EXCEPT ![w].at = "drop", ![w].who = @ \ {pk}, ![w].victim = pk]
             ELSE task' = [task EXCEPT ![w].who = @ \ {pk}]
    /\ UNCHANGED <<storeVars, invited, acked, answered, raced, grantGhosts, fileVars>>

\* handle_admin_evict drops the key without looking at the store again.
EvictRequest(w, pk) ==
    /\ "evict" \in Kinds
    /\ task[w].at = "idle"
    /\ Evict(pk)
    /\ Begin(w, [Idle EXCEPT !.at = "drop", !.victim = pk, !.evictions = LiveRedemptionsOf(pk)])
    /\ raced' = IF Admitting(pk) THEN raced \cup {pk} ELSE raced
    /\ UNCHANGED <<invited, acked, answered, grantGhosts, fileVars>>

DropInvited(w) ==
    /\ task[w].at = "drop"
    /\ invited' = invited \ {task[w].victim}
    /\ task' = [task EXCEPT ![w].at = "check", ![w].victim = None]
    /\ UNCHANGED <<storeVars, acked, answered, raced, grantGhosts, fileVars>>

\* MinterGrant::with_extra_admits.
WithExtraAdmits(g, extra) ==
    LET total == g.maxTotal + extra
    IN  [g EXCEPT !.maxTotal = total,
                  !.maxUses = IF @ >= g.maxTotal THEN total ELSE @,
                  !.maxCodes = GreaterOf(@, total)]

\* The limits a request leaves: those it sets, the others as they were, and room
\* for the people it adds.
Asked(limit, current) == GreaterOf(IF limit = None THEN current ELSE limit, 1)

Requested(g, r) ==
    LET limits == [maxCodes |-> Asked(r.maxCodes, g.maxCodes),
                   maxUses |-> Asked(r.maxUses, g.maxUses),
                   maxTotal |-> Asked(r.maxTotal, g.maxTotal),
                   maxTtl |-> IF r.maxTtl = None THEN g.maxTtl ELSE GreaterOf(r.maxTtl, 1)]
    IN  IF r.add = 0 THEN limits ELSE WithExtraAdmits(limits, r.add)

GrantBegins(w, pk, r, existing) ==
    LET grant == Requested(existing, r)
    IN  /\ "grant" \in Kinds
        /\ task[w].at = "idle"
        /\ grant.maxTotal <= MaxTotal
        /\ Begin(w, [Idle EXCEPT !.at = "grant", !.victim = pk, !.grant = grant, !.asked = r])
        /\ UNCHANGED <<storeVars, invited, acked, answered, raced, grantGhosts, fileVars>>

\* Mutant: a request starts from the defaults, not from the key's own limits.
GrantReadDefaults(w, pk, r) == GrantBegins(w, pk, r, FreshGrant)

\* handle_admin_grant: what the key may invite now is read first, and set, as the
\* request asks, afterwards.
GrantRead(w, pk, r) ==
    GrantBegins(w, pk, r, IF GrantOf(pk) = None THEN FreshGrant ELSE GrantOf(pk))

\* Another request for the same key has read its limits and not set them yet.
GrantPending(w, pk) ==
    \E v \in Workers \ {w} : task[v].at = "grant" /\ task[v].victim = pk

GrantSet(w) ==
    LET pk == task[w].victim
        asked == task[w].asked
    IN  /\ task[w].at = "grant"
        /\ SetGrant(pk, task[w].grant)
        /\ given' = [given EXCEPT ![pk] = (IF asked.maxTotal = None THEN @ ELSE 0) + asked.add]
        /\ overtaken' = IF GrantPending(w, pk) THEN overtaken \cup {pk} ELSE overtaken
        /\ task' = [task EXCEPT ![w].at = "snapshot", ![w].victim = None,
                                ![w].grant = None, ![w].asked = None]
        /\ UNCHANGED <<invited, acked, answered, raced, fileVars>>

\* handle_admin_ungrant.
UngrantRequest(w, pk) ==
    /\ "grant" \in Kinds
    /\ task[w].at = "idle"
    /\ RemoveGrant(pk)
    /\ given' = [given EXCEPT ![pk] = 0]
    /\ Begin(w, [Idle EXCEPT !.at = "snapshot"])
    /\ UNCHANGED <<invited, acked, answered, raced, overtaken, fileVars>>

-----------------------------------------------------------------------------
(* Config backups, and restarts. *)

\* backup_config_files: a copy of the file as it is.
TakeBackup ==
    /\ "backup" \in Kinds
    /\ backup' = disk
    /\ UNCHANGED <<storeVars, handlerVars, disk, tmp, restored>>

\* What a file loads as.
Loaded(f) == IF IsSaved(f) THEN f ELSE NoState

\* handle_config_backup_restore copies the file back (or removes it, if the
\* backup has none); the running store is not reloaded.
RestoreBackup ==
    /\ "backup" \in Kinds
    /\ disk' = backup
    /\ restored' = TRUE
    /\ UNCHANGED <<storeVars, handlerVars, tmp, backup>>

\* An operator who restores a backup gives up what was answered since.
ForgetAnswers(loaded) ==
    /\ acked' = IF restored THEN acked \cap loaded.redeemed ELSE acked
    /\ answered' = IF restored THEN answered \cap loaded.evicted ELSE answered

\* The relay stops, or is killed, and starts again: RelayInviteStore::new, then
\* set_invited(admitted_pubkeys()).  A file that does not load is left alone.
Restart ==
    LET loaded == Loaded(disk)
    IN  /\ "restart" \in Kinds
        /\ invites' = loaded.invites
        /\ redeemed' = loaded.redeemed
        /\ evicted' = loaded.evicted
        /\ grants' = loaded.grants
        /\ invited' = AdmittedPubkeys'
        /\ task' = [w \in Workers |-> Idle]
        /\ raced' = {}
        /\ given' = [k \in Keys |-> 0]
        /\ overtaken' = {}
        /\ restored' = FALSE
        /\ ForgetAnswers(loaded)
        /\ UNCHANGED <<auto, now, disk, tmp, backup>>
        /\ RaiseCeilings

-----------------------------------------------------------------------------

AdmissionInit ==
    /\ StoreInit
    /\ invited = {}
    /\ task = [w \in Workers |-> Idle]
    /\ disk = NoFile
    /\ tmp = NoFile
    /\ backup = NoFile
    /\ acked = {}
    /\ answered = {}
    /\ raced = {}
    /\ given = [k \in Keys |-> 0]
    /\ overtaken = {}
    /\ restored = FALSE

Request(w) ==
    \/ \E c \in Codes, pk \in Keys : Claim(w, c, pk)
    \/ \E pk \in Keys : ClaimAgain(w, pk)
    \/ \E c \in Codes, pk \in Admins \cup Minters, uses \in AskedUses, ttl \in AskedTtls :
          AdminMintRequest(w, c, pk, uses, ttl) \/ MintRequest(w, c, pk, uses, ttl)
    \/ \E c \in Codes : RevokeRequest(w, c) \/ RevokeEvicting(w, c)
    \/ \E pk \in Keys : EvictRequest(w, pk)
    \/ \E pk \in Minters, r \in GrantRequests : GrantRead(w, pk, r)
    \/ \E pk \in Minters : UngrantRequest(w, pk)

Work(w) ==
    \/ AddInvited(w) \/ CheckEvicted(w) \/ DropInvited(w) \/ GrantSet(w)
    \/ Snapshot(w) \/ OpenTmp(w) \/ WriteTmp(w) \/ RenameTmp(w) \/ PersistFails(w)

AdmissionNext ==
    \/ \E w \in Workers : Request(w) \/ Work(w)
    \/ TakeBackup \/ RestoreBackup \/ Restart

AdmissionSpec == AdmissionInit /\ [][AdmissionNext]_admissionVars

-----------------------------------------------------------------------------
(* Properties. *)

Contents == Saved \cup {NoFile, Empty, Torn}
Steps == {"idle", "admit", "readmit", "check", "drop", "grant",
          "snapshot", "open", "write", "rename"}
Task == [at : Steps, who : SUBSET Keys, victim : Option(Keys),
         claims : SUBSET Redemption, evictions : SUBSET Redemption,
         grant : Option(Grant), asked : Option(GrantRequest), snap : Option(Saved), fd : {"none", "tmp", "disk", "orphan"}]

\* Every variable keeps its type.
AdmissionTypeOK ==
    /\ TypeOK
    /\ invited \in SUBSET Keys
    /\ \A w \in Workers : task[w] \in Task
    /\ {disk, tmp, backup} \subseteq Contents
    /\ acked \in SUBSET Redemption /\ answered \in SUBSET Redemption
    /\ raced \in SUBSET Keys
    /\ given \in [Keys -> Nat]
    /\ overtaken \in SUBSET Keys
    /\ restored \in BOOLEAN

OnDisk == Loaded(disk)

\* relay_invites.json always loads: a crash at any step of persist() leaves the
\* previous file or the new one.
DiskLoadable == disk \notin {Empty, Torn}

\* docs/relay-invites.md: the store is on disk before the relay replies OK.
AckedOnDisk == acked \subseteq OnDisk.redeemed

\* Whatever a handler answered survives a crash: the file loads, an acknowledged
\* claim is on it, and so is an eviction the console confirmed, until an operator
\* restores a backup.
AnsweredOnDisk ==
    /\ DiskLoadable
    /\ ~restored => AckedOnDisk /\ answered \subseteq OnDisk.evicted

\* No handler ends with the file behind the store: with none running, a restart
\* loses nothing, or loads the backup an operator restored.
DiskCurrent == Quiet => OnDisk = CurrentState \/ (restored /\ disk = backup)

\* Outside the handlers' own windows, the hot-path copy is exact for every key
\* whose admission and withdrawal never overlapped: no other interleaving of the
\* handlers, and no restart, makes the two disagree.
HotPathExact ==
    \A pk \in Keys \ raced :
        ~Admitting(pk) /\ ~Withdrawing(pk) => (pk \in invited <=> LiveRedemptionsOf(pk) # {})

\* Adding people gives that many more on top of what the key may invite now:
\* they are taken back by a request that sets the total or removes the grant, never
\* by one about another limit, unless two requests for the key overlapped.
AddedPeopleKept ==
    \A pk \in Keys \ overtaken : grants[pk] # None => grants[pk].maxTotal > given[pk]
=============================================================================
