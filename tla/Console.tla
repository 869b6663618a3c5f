------------------------------- MODULE Console -------------------------------
(***************************************************************************)
(* The admin console over the relay's configuration files (src/admin.rs):  *)
(* setup, sessions, the list of admins, saved settings, reset, backup and  *)
(* restore, restart and compaction, and the startup that reads the files   *)
(* (src/main.rs, src/server.rs).                                           *)
(*                                                                         *)
(* Handlers read and write files without a lock of their own; each write   *)
(* is a step, another handler may run between two of them, and the process *)
(* may end at any step, leaving the file it was writing empty.             *)
(***************************************************************************)
EXTENDS SettingsFile, Compaction

CONSTANTS Keys,          \* people's keys
          Founder,       \* the key admin_pubkeys may name
          Handlers,      \* requests that may be in flight at once
          FirstFiles,    \* settings files the relay may be deployed with
          Torn,          \* a file cut off while it was written
          MaxRequests,   \* bound: requests that change something
          MaxCrashes     \* bound: crashes

ASSUME ConsoleAssumption ==
  /\ Founder \in Keys
  /\ \A list \in SUBSET Keys : list # Absent /\ list # Torn
  /\ Absent \notin Keys
  /\ MaxRequests \in Nat /\ MaxCrashes \in Nat

VARIABLES admins,        \* admin_pubkeys in memory
          configured,    \* the admins settings named at startup
          sessions,      \* keys that signed in
          files,         \* settings, admins, setupOwner, relayOwner
          backups,       \* copies of the files
          jobs,          \* handlers in flight
          exiting,       \* the process is about to exit
          requests, crashes,
          asked,         \* ghost: what the last save asked of each setting
          trusted,       \* ghost: keys an admin or the first setup let in
          marks          \* ghost: what may have changed the lists (ClaimedStaysClaimed)

memory == <<admins, configured, sessions, jobs, exiting>>
consoleVars == <<memory, files, backups, requests, crashes, asked, trusted, marks>>
vars == <<consoleVars, compVars>>

-----------------------------------------------------------------------------
(* Settings: what each screen saves, and the file a reset writes.          *)

StorageEdits    == <<Setting("", "prune_retention_by_kind")>>
WotEdits        == <<Setting("", "wot")>>
IndexEdits      == <<Setting("obelisk_index", "enabled")>>
ConnectionEdits == <<Setting("websocket", "max_connections"), Setting("", "max_subscriptions")>>
AccessEdits     == <<Setting("", "pubkey_rate_limit_per_minute")>>
IdentityEdits   == <<Setting("", "relay_name")>>
KeyEdits        == <<Setting("", "relay_secret_key")>>

Screens == {StorageEdits, WotEdits, IndexEdits, ConnectionEdits, AccessEdits,
            IdentityEdits, KeyEdits}

Secret == Setting("", "relay_secret_key")
AdminList == Setting("", "admin_pubkeys")
Settings == (UNION {Range(edits) : edits \in Screens}) \cup {AdminList}

Edited(f, edits) == FoldLeft(LAMBDA g, s : Upsert(g, s, "new"), f, edits)
Loaded(f) == [s \in Settings |-> Loads(f, s)]

SetupMode(secret) ==
  <<Relay, Flat("relay_secret_key", secret), Blank,
    Flat("admin_pubkeys", "nobody"), Blank,
    Flat("max_subscriptions", "default"), Blank,
    Flat("pubkey_rate_limit_per_minute", "default"), Blank,
    Header("obelisk_index"), Child("enabled", "default"), Blank,
    Header("websocket"), Child("max_connections", "default")>>

Configured(f) == IF Loads(f, AdminList) = {"founder"} THEN {Founder} ELSE {}

-----------------------------------------------------------------------------
(* Files and handlers.                                                     *)

OnDisk(f) == IF f.admins \in {Absent, Torn} THEN {} ELSE f.admins

NoFiles == [settings |-> <<>>, admins |-> Absent, setupOwner |-> Absent,
            relayOwner |-> Absent]
Job(op, by) == [op |-> op, by |-> by, step |-> 1, read |-> <<>>, text |-> <<>>,
                edits |-> <<>>, from |-> NoFiles]
Idle == [op |-> "idle"]
InFlight(ops) == {h \in Handlers : jobs[h].op \in ops}
At(h, op, step) == jobs[h].op = op /\ jobs[h].step = step
Next1(h) == [jobs EXCEPT ![h].step = @ + 1]
Done(h) == [jobs EXCEPT ![h] = Idle]

Ask == phase = "up" /\ requests < MaxRequests /\ requests' = requests + 1
Free(h) == jobs[h] = Idle

\* A handler that replaces lists file by file is in flight besides h.
Crossing(h) == InFlight({"reset", "restore"}) \ {h} # {}

\* The admins file as a handler's write leaves it: saved, or not for an I/O
\* error.  adrift: the list in memory is not the one on disk any more.
SaveAdmins(list) ==
  \/ /\ files' = [files EXCEPT !.admins = list]
     /\ marks' = [marks EXCEPT !.adrift = InFlight({"reset", "restore"}) # {}]
  \/ /\ UNCHANGED files
     /\ marks' = [marks EXCEPT !.adrift = TRUE]

Untouched == UNCHANGED compVars

-----------------------------------------------------------------------------
(* Sessions and admins.                                                    *)

SignIn(k) == sessions' = sessions \cup {k}

\* A session that expires only disables: keeping them all allows no less.
Auth(k) ==
  /\ phase = "up" /\ k \in admins \ sessions
  /\ SignIn(k)
  /\ UNCHANGED <<admins, configured, files, backups, jobs, exiting, requests,
                 crashes, asked, trusted, marks>> /\ Untouched

AddAdmin(k, p) ==
  /\ Ask /\ k \in sessions
  /\ admins' = admins \cup {p}
  /\ trusted' = trusted \cup {p}
  /\ SaveAdmins(admins \cup {p})
  /\ UNCHANGED <<configured, sessions, backups, jobs, exiting, crashes, asked>>
  /\ Untouched

RemoveAdmin(k, p) ==
  /\ Ask /\ k \in sessions /\ p # k
  /\ Cardinality(admins) > 1
  /\ admins' = admins \ {p}
  /\ SaveAdmins(admins \ {p})
  /\ UNCHANGED <<configured, sessions, backups, jobs, exiting, crashes, asked, trusted>>
  /\ Untouched

\* Listing the admins writes down a sole admin as the owner.
AdoptOwner(k) ==
  /\ phase = "up" /\ k \in sessions
  /\ files.relayOwner = Absent /\ Cardinality(admins) = 1
  /\ files' = [files EXCEPT !.relayOwner = CHOOSE only \in admins : TRUE]
  /\ UNCHANGED <<memory, backups, requests, crashes, asked, trusted, marks>> /\ Untouched

-----------------------------------------------------------------------------
(* Setup: the checks, the claim under the admins' lock, the owner's record.*)

SetupCheck(h, k) ==
  /\ Ask /\ Free(h)
  /\ admins = {} /\ files.setupOwner \in {Absent, k}
  /\ jobs' = [jobs EXCEPT ![h] = Job("setup", k)]
  /\ UNCHANGED <<admins, configured, sessions, exiting, files, backups, crashes,
                 asked, trusted, marks>> /\ Untouched

\* Mutant: the claim is not saved.
SetupClaimUnsaved(h) ==
  /\ At(h, "setup", 1) /\ admins = {}
  /\ admins' = {jobs[h].by}
  /\ files' \in {files, [files EXCEPT !.admins = {jobs[h].by}]}
  /\ jobs' = Next1(h)
  /\ trusted' = trusted \cup {jobs[h].by}
  /\ marks' = [marks EXCEPT !.adrift = Crossing(h)]
  /\ UNCHANGED <<configured, sessions, exiting, backups, requests, crashes, asked>>
  /\ Untouched

\* The list is looked at again under its lock; an owner retained since the
\* check is not.  When the list cannot be saved the claim is undone.
SetupClaim(h) ==
  /\ At(h, "setup", 1)
  /\ LET k == jobs[h].by IN
     \/ /\ admins = {}
        /\ admins' = {k}
        /\ files' = [files EXCEPT !.admins = {k}]
        /\ jobs' = Next1(h)
        /\ trusted' = IF trusted = {} THEN {k} ELSE trusted
        /\ marks' = [marks EXCEPT !.adrift = Crossing(h),
                                  !.opened = @ \/ files.setupOwner \notin {Absent, k}]
     \/ /\ jobs' = Done(h)
        /\ UNCHANGED <<admins, files, trusted, marks>>
  /\ UNCHANGED <<configured, sessions, exiting, backups, requests, crashes, asked>>
  /\ Untouched

SetupRecord(h) ==
  /\ At(h, "setup", 2)
  /\ files' \in {files, [files EXCEPT !.relayOwner = jobs[h].by]}
  /\ jobs' = Next1(h)
  /\ UNCHANGED <<admins, configured, sessions, exiting, backups, requests, crashes,
                 asked, trusted, marks>> /\ Untouched

SetupFinish(h) ==
  /\ At(h, "setup", 3)
  /\ SignIn(jobs[h].by)
  /\ files' \in {files, [files EXCEPT !.setupOwner = Absent]}
  /\ jobs' = Done(h)
  /\ marks' = [marks EXCEPT !.opened = @ \/ admins = {} \/ OnDisk(files) = {}
                                          \/ InFlight({"reset"}) # {}]
  /\ UNCHANGED <<admins, configured, exiting, backups, requests, crashes, asked,
                 trusted>> /\ Untouched

-----------------------------------------------------------------------------
(* Saving settings: read, edit, write.                                     *)

\* A reader may meet the file while another handler is writing it.
Readings ==
  {files.settings} \cup
    (IF \E h \in Handlers : At(h, "save", 1) \/ At(h, "reset", 2) THEN {<<>>} ELSE {})

Headless(f) == f = <<>> \/ f[1] # Relay

BeginSave(h, k, edits) ==
  /\ Ask /\ Free(h) /\ k \in sessions
  /\ \E read \in Readings :
       jobs' = [jobs EXCEPT ![h] = [Job("save", k) EXCEPT
                  !.read = read, !.text = Edited(read, edits), !.edits = edits]]
  /\ UNCHANGED <<admins, configured, sessions, exiting, files, backups, crashes,
                 asked, trusted, marks>> /\ Untouched

SaveStorage(h, k)    == BeginSave(h, k, StorageEdits)
SaveWot(h, k)        == BeginSave(h, k, WotEdits)
SaveIndex(h, k)      == BeginSave(h, k, IndexEdits)
SaveConnection(h, k) == BeginSave(h, k, ConnectionEdits)
SaveAccess(h, k)     == BeginSave(h, k, AccessEdits)
SaveIdentity(h, k)   == BeginSave(h, k, IdentityEdits)
RotateKey(h, k)      == BeginSave(h, k, KeyEdits)

\* What the console may promise: the settings this save names, unless the file
\* changed under it, and then whatever the text written says.
EndSave(h) ==
  /\ At(h, "save", 1)
  /\ files' = [files EXCEPT !.settings = jobs[h].text]
  /\ asked' = IF files.settings # jobs[h].read THEN Loaded(jobs[h].text)
              ELSE [s \in Settings |-> IF s \in Range(jobs[h].edits)
                                         THEN {"new"} ELSE asked[s]]
  /\ jobs' = Done(h)
  /\ marks' = [marks EXCEPT !.cut = @ \/ Headless(jobs[h].text)]
  /\ UNCHANGED <<admins, configured, sessions, exiting, backups, requests, crashes,
                 trusted>> /\ Untouched

-----------------------------------------------------------------------------
(* Reset: a backup, then the owner, the settings, the admins on disk and   *)
(* in memory.                                                              *)

ResetBegin(h, k) ==
  /\ Ask /\ Free(h) /\ k \in sessions
  /\ backups' = backups \cup {files}
  /\ jobs' = [jobs EXCEPT ![h] = Job("reset", k)]
  /\ marks' = [marks EXCEPT !.opened = @ \/ Crossing(h)]
  /\ UNCHANGED <<admins, configured, sessions, exiting, files, crashes, asked,
                 trusted>> /\ Untouched

\* Mutant: the owner is not retained before the admins go.
ResetOwnerLate(h) ==
  /\ At(h, "reset", 1)
  /\ jobs' = Next1(h)
  /\ UNCHANGED <<admins, configured, sessions, exiting, files, backups, requests,
                 crashes, asked, trusted, marks>> /\ Untouched

ResetOwner(h) ==
  /\ At(h, "reset", 1)
  /\ files' = [files EXCEPT !.setupOwner = jobs[h].by]
  /\ jobs' = Next1(h)
  /\ UNCHANGED <<admins, configured, sessions, exiting, backups, requests, crashes,
                 asked, trusted, marks>> /\ Untouched

\* Mutant: the file is written anew with a new key.
ResetSettingsFresh(h) ==
  /\ At(h, "reset", 2)
  /\ LET f == SetupMode("minted") IN
     /\ files' = [files EXCEPT !.settings = f]
     /\ asked' = [Loaded(f) EXCEPT ![Secret] =
                    IF Headless(files.settings) THEN @ ELSE asked[Secret]]
  /\ jobs' = Next1(h)
  /\ UNCHANGED <<admins, configured, sessions, exiting, backups, requests, crashes,
                 trusted, marks>> /\ Untouched

\* The file is written anew around the relay's key; without one the reset stops.
ResetSettings(h) ==
  /\ At(h, "reset", 2)
  /\ \/ \E secret \in ReadScalar(files.settings, "relay_secret_key") :
          LET f == SetupMode(secret) IN
          /\ files' = [files EXCEPT !.settings = f]
          /\ asked' = [Loaded(f) EXCEPT ![Secret] =
                         IF Headless(files.settings) THEN @ ELSE asked[Secret]]
          /\ jobs' = Next1(h)
     \/ /\ ReadScalar(files.settings, "relay_secret_key") = {}
        /\ jobs' = Done(h)
        /\ UNCHANGED <<files, asked>>
  /\ UNCHANGED <<admins, configured, sessions, exiting, backups, requests, crashes,
                 trusted, marks>> /\ Untouched

ResetAdminsFile(h) ==
  /\ At(h, "reset", 3)
  /\ files' = [files EXCEPT !.admins = {}]
  /\ jobs' = Next1(h)
  /\ UNCHANGED <<admins, configured, sessions, exiting, backups, requests, crashes,
                 asked, trusted, marks>> /\ Untouched

ResetMemory(h) ==
  /\ At(h, "reset", 4)
  /\ admins' = {} /\ sessions' = {}
  /\ jobs' = Done(h)
  /\ marks' = [marks EXCEPT !.adrift = @ \/ Crossing(h)]
  /\ UNCHANGED <<configured, exiting, files, backups, requests, crashes, asked, trusted>>
  /\ Untouched

-----------------------------------------------------------------------------
(* Restore: a backup of what is there, then file after file, then the      *)
(* lists in memory.                                                        *)

RestoreBegin(h, k, b) ==
  /\ Ask /\ Free(h) /\ k \in sessions
  /\ backups' = backups \cup {files}
  /\ jobs' = [jobs EXCEPT ![h] = [Job("restore", k) EXCEPT !.from = b]]
  /\ marks' = [marks EXCEPT !.opened = @ \/ Crossing(h)]
  /\ UNCHANGED <<admins, configured, sessions, exiting, files, crashes, asked,
                 trusted>> /\ Untouched

Restored == <<"settings", "admins", "setupOwner", "relayOwner">>

RestoreFile(h) ==
  /\ jobs[h].op = "restore" /\ jobs[h].step <= Len(Restored)
  /\ LET name == Restored[jobs[h].step] IN
     /\ files' = [files EXCEPT ![name] = jobs[h].from[name]]
     /\ asked' = IF name = "settings" THEN Loaded(jobs[h].from.settings) ELSE asked
  /\ marks' = [marks EXCEPT !.opened = @ \/ (admins = {} /\ files'.setupOwner = Absent)]
  /\ jobs' = Next1(h)
  /\ UNCHANGED <<admins, configured, sessions, exiting, backups, requests, crashes,
                 trusted>> /\ Untouched

\* apply_runtime_config_from_files: the admins of the file, not the configured.
RestoreApply(h) ==
  /\ jobs[h].op = "restore" /\ jobs[h].step > Len(Restored)
  /\ admins' = OnDisk(files)
  /\ jobs' = Done(h)
  /\ marks' = [marks EXCEPT !.adrift = Crossing(h),
                            !.opened = @ \/ (OnDisk(files) = {} /\ files.setupOwner = Absent)]
  /\ UNCHANGED <<configured, sessions, exiting, files, backups, requests, crashes,
                 asked, trusted>> /\ Untouched

\* A file cannot be written, copied or removed: the handler answers an error and
\* what it has done so far stays.
Fail(h) ==
  /\ jobs[h].op = "restore" \/ \E step \in 1..3 : At(h, "reset", step) \/ At(h, "save", 1)
  /\ jobs[h].op = "restore" => jobs[h].step <= Len(Restored)
  /\ jobs' = Done(h)
  /\ marks' = [marks EXCEPT !.adrift = @ \/ jobs[h].op = "restore",
                            !.cut = @ \/ jobs[h].op = "restore"]
  /\ UNCHANGED <<admins, configured, sessions, exiting, files, backups, requests,
                 crashes, asked, trusted>> /\ Untouched

-----------------------------------------------------------------------------
(* Restarts.                                                               *)

RestartRelay(k) ==
  /\ Ask /\ k \in sessions
  /\ exiting' = TRUE
  /\ UNCHANGED <<admins, configured, sessions, jobs, files, backups, crashes, asked,
                 trusted, marks>> /\ Untouched

CompactDatabase(k) ==
  /\ Ask /\ k \in sessions
  /\ CanCompact
  /\ StageRequest
  /\ exiting' = TRUE
  /\ UNCHANGED <<admins, configured, sessions, jobs, files, backups, crashes, asked,
                 trusted, marks>>

\* What the process was writing when it ended: a file is cut off, or none.
Cut ==
  {files} \cup
  {[files EXCEPT !.settings = <<>>] : h \in {h \in Handlers : At(h, "save", 1) \/ At(h, "reset", 2)}} \cup
  {[files EXCEPT !.admins = Torn] : h \in {h \in Handlers : At(h, "setup", 1) \/ At(h, "reset", 3)}}

End ==
  /\ IF exiting THEN UNCHANGED crashes
     ELSE crashes < MaxCrashes /\ crashes' = crashes + 1
  /\ Halt
  /\ admins' = {} /\ configured' = {} /\ sessions' = {} /\ exiting' = FALSE
  /\ jobs' = [h \in Handlers |-> Idle]
  /\ files' \in Cut
  /\ asked' = IF files'.settings = files.settings THEN asked ELSE Loaded(<<>>)
  /\ marks' = [marks EXCEPT !.cut = @ \/ files' # files \/ InFlight({"restore"}) # {}]
  /\ UNCHANGED <<backups, requests, trusted>>

\* A relay without a key gets one, saved before it signs with it.
EnsureIdentity(f) == IF Loads(f, Secret) # {} THEN f ELSE UpsertSecret(f, "minted")

\* async_main: the settings must parse.
Boot ==
  /\ phase = "down" /\ Parses(files.settings)
  /\ phase' = "boot"
  /\ LET f == EnsureIdentity(files.settings) IN
     /\ files' = [files EXCEPT !.settings = f]
     /\ asked' = IF f = files.settings THEN asked ELSE Loaded(f)
  /\ UNCHANGED <<memory, backups, requests, crashes, trusted, marks>>
  /\ UNCHANGED <<db, request, staged, attempts, stored, gap>>

\* run_server: the configured admins and the file's.
Serve ==
  /\ OpenDatabase
  /\ configured' = Configured(files.settings)
  /\ admins' = configured' \cup OnDisk(files)
  /\ trusted' = trusted \cup configured'
  /\ marks' = [marks EXCEPT !.adrift = FALSE,
                  !.opened = @ \/ (marks.cut /\ admins' = {} /\ files.setupOwner = Absent)]
  /\ UNCHANGED <<sessions, jobs, exiting, files, backups, requests, crashes, asked>>

\* Settings files in which no screen of the console, and no start, changes whom
\* admin_pubkeys names; a save of a file read while it was cut off has no header.
KeepsConfigured(tidy) ==
  /\ FirstFiles \subseteq tidy
  /\ \A f \in tidy :
       /\ \A edits \in Screens : /\ Edited(f, edits) \in tidy
                                 /\ Configured(Edited(f, edits)) = Configured(f)
       /\ EnsureIdentity(f) \in tidy
       /\ Configured(EnsureIdentity(f)) = Configured(f)
       /\ \A secret \in ReadScalar(f, "relay_secret_key") : SetupMode(secret) \in tidy
  /\ \A edits \in Screens : Headless(Edited(<<>>, edits))

\* Settings files which parse and stay so, in which every screen of the console changes
\* what startup loads of the settings it names and of no other, a reset keeps the relay's
\* key, and the console shows what startup loads.  A file cut off belongs to them.
KeepsSettings(sound) ==
  /\ FirstFiles \cup {<<>>} \subseteq sound
  /\ \A f \in sound :
       LET loads == Loaded(f) IN
       /\ Parses(f)
       /\ EnsureIdentity(f) \in sound
       /\ \A edits \in Screens :
            LET g == Edited(f, edits) IN
            /\ g \in sound
            /\ Headless(f) => Headless(g)
            /\ ~Headless(g) => Loaded(g) = [s \in Settings |-> IF s \in Range(edits)
                                                THEN {"new"} ELSE loads[s]]
       /\ \A secret \in ReadScalar(f, "relay_secret_key") :
            /\ SetupMode(secret) \in sound
            /\ ~Headless(f) => Loads(SetupMode(secret), Secret) = loads[Secret]
       /\ ~Headless(f) => \A s \in Settings : Shows(f, s) \in {{}, loads[s]}

-----------------------------------------------------------------------------
Init ==
  /\ CompactionInit
  /\ \E f \in FirstFiles :
       /\ files = [NoFiles EXCEPT !.settings = f]
       /\ configured = Configured(f)
       /\ asked = Loaded(f)
  /\ admins = configured /\ trusted = configured
  /\ sessions = {} /\ backups = {} /\ exiting = FALSE
  /\ jobs = [h \in Handlers |-> Idle]
  /\ requests = 0 /\ crashes = 0
  /\ marks = [adrift |-> FALSE, opened |-> FALSE, cut |-> FALSE]

Handle(h) ==
  \/ SetupClaim(h) \/ SetupRecord(h) \/ SetupFinish(h)
  \/ EndSave(h)
  \/ ResetOwner(h) \/ ResetSettings(h) \/ ResetAdminsFile(h) \/ ResetMemory(h)
  \/ RestoreFile(h) \/ RestoreApply(h) \/ Fail(h)

Begin(h) ==
  \/ \E k \in Keys :
       \/ SetupCheck(h, k) \/ ResetBegin(h, k)
       \/ SaveStorage(h, k) \/ SaveWot(h, k) \/ SaveIndex(h, k) \/ SaveConnection(h, k)
       \/ SaveAccess(h, k) \/ SaveIdentity(h, k) \/ RotateKey(h, k)
  \/ \E k \in Keys, b \in backups : RestoreBegin(h, k, b)

Administer ==
  \/ \E k \in Keys : Auth(k) \/ AdoptOwner(k) \/ RestartRelay(k)
                       \/ CompactDatabase(k)
  \/ \E k, p \in Keys : AddAdmin(k, p) \/ RemoveAdmin(k, p)

Next ==
  \/ \E h \in Handlers : Begin(h) \/ Handle(h)
  \/ Administer
  \/ End \/ Boot \/ Serve
  \/ (Compacting \/ \E e \in Events : Store(e)) /\ UNCHANGED consoleVars

Spec == Init /\ [][Next]_vars

-----------------------------------------------------------------------------
(* While no handler is in flight the settings file parses, startup loads   *)
(* from it what the last save of each setting asked, and the console shows *)
(* what startup loads (upsert_relay_value, upsert_block_value,             *)
(* read_block_scalar).  Only two saves that overlap or a write that is cut *)
(* off can undo a save, and a save that read a file being written loses    *)
(* the relay header: from then on nothing it saves is loaded.              *)
SavedSettingsLoad ==
  phase = "up" /\ InFlight({"idle"}) = Handlers =>
    /\ Parses(files.settings)
    /\ ~Headless(files.settings) =>
         /\ Loaded(files.settings) = asked
         /\ \A s \in Settings : Shows(files.settings, s) \in {{}, asked[s]}

(* Once the relay has an owner nobody becomes an admin but by an admin:    *)
(* neither two setups at once, nor a reset cut off between two steps, nor  *)
(* a restart lets a stranger in (handle_setup, handle_config_reset).  What *)
(* does is named by opened: a start with no admins and no retained owner   *)
(* after a file was cut off while it was written or a restore between two  *)
(* files, a restored backup without admins and owner, an owner restored    *)
(* away while there are no admins, and a setup that a reset or a restore   *)
(* overtook between its checks and its claim, or before it cleared the     *)
(* retained owner.                                                         *)
ClaimedStaysClaimed == marks.opened \/ admins \subseteq trusted

(* The admins a restart would load are those in memory, and the configured *)
(* ones, unless a write failed or a list was changed across a reset or a   *)
(* restore (SETUP rolls its claim back when it cannot be saved).           *)
AdminsOnDisk ==
  phase = "up" /\ InFlight({"reset", "restore"}) = {} /\ ~marks.adrift =>
    /\ OnDisk(files) \subseteq admins
    /\ admins \subseteq OnDisk(files) \cup configured
=============================================================================
