---------------------------- MODULE ConsoleProofs ----------------------------
(***************************************************************************)
(* What compaction and the console keep, for any events and keys, any      *)
(* settings files, and any number of handlers, requests and crashes.       *)
(***************************************************************************)
EXTENDS Console, FiniteSetTheorems, TLAPS

USE MarkersAssumption

-----------------------------------------------------------------------------
(* Compaction. *)

\* The live file has every stored event, unless the process died with nothing in its place,
\* or has just set it aside, or the copy put in its place does not open.
LiveHolds ==
    ~gap /\ phase \notin {"movein", "restore"} /\ db.live # Broken => stored \subseteq Held("live")

\* What each step of compact_now has found and left.
StepsFound ==
    /\ phase = "up" => db.live \notin {Absent, Broken}
    /\ phase \in {"copy", "aside"} =>
          db.preCompact = Absent /\ db.live \notin {Absent, Broken}
    /\ phase = "aside" => db.compacting \in {db.live, Broken}
    /\ phase = "movein" => db.live = Absent /\ db.compacting \in {db.preCompact, Broken}
    /\ phase = "verify" => db.live \in {db.preCompact, Broken}
    /\ phase = "restore" => db.live \in {db.preCompact, Broken, Absent}
    /\ phase \in {"movein", "verify", "restore"} => stored \subseteq Held("preCompact")
    /\ phase = "drop" => stored \subseteq Held("live")

\* A request that is staged has not been attempted.
RequestsCounted ==
    /\ staged \in Nat /\ attempts \in Nat
    /\ attempts <= staged
    /\ request => attempts < staged

CompInv ==
    /\ db \in [live : File, compacting : File, preCompact : File]
    /\ stored \subseteq Events
    /\ stored \subseteq Held("live") \cup Held("preCompact")
    /\ LiveHolds
    /\ StepsFound
    /\ RequestsCounted

LEMMA CompInitHolds == CompactionInit => CompInv
BY DEF CompactionInit, CompInv, File, Held, LiveHolds, StepsFound, RequestsCounted

LEMMA CompactingKeeps == ASSUME CompInv, Compacting PROVE CompInv'
<1> USE DEF CompInv, File, Held, LiveHolds, StepsFound, RequestsCounted
<1>1. CASE RunPending
  BY <1>1 DEF RunPending
<1>2. CASE Check
  BY <1>2 DEF Check, Readable
<1>3. CASE StartCopy
  BY <1>3 DEF StartCopy
<1>4. CASE EndCopy
  BY <1>4 DEF EndCopy
<1>5. CASE SetAside
  BY <1>5 DEF SetAside
<1>6. CASE MoveIn
  BY <1>6 DEF MoveIn
<1>7. CASE Verify
  BY <1>7 DEF Verify
<1>8. CASE RestoreOriginal
  BY <1>8 DEF RestoreOriginal
<1>9. CASE DropOriginal
  BY <1>9 DEF DropOriginal
<1>10. QED BY <1>1, <1>2, <1>3, <1>4, <1>5, <1>6, <1>7, <1>8, <1>9 DEF Compacting

LEMMA ServingKeeps ==
    ASSUME CompInv, (\E e \in Events : Store(e)) \/ StageRequest \/ OpenDatabase \/ Halt
    PROVE  CompInv'
<1> USE DEF CompInv, File, Held, LiveHolds, StepsFound, RequestsCounted
<1>1. CASE \E e \in Events : Store(e)
  BY <1>1 DEF Store
<1>2. CASE StageRequest
  BY <1>2 DEF StageRequest
<1>3. CASE OpenDatabase
  BY <1>3 DEF OpenDatabase
<1>4. CASE Halt
  BY <1>4 DEF Halt
<1>5. QED BY <1>1, <1>2, <1>3, <1>4

\* Everything else the console does leaves the files of the database alone, but for Boot,
\* which starts the program.
LEMMA StepKeeps == ASSUME CompInv, [Next]_vars PROVE CompInv'
<1>1. CASE Untouched
  BY <1>1 DEF Untouched, compVars, CompInv, LiveHolds, StepsFound, RequestsCounted, Held
<1>2. CASE Compacting
  BY <1>2, CompactingKeeps
<1>3. CASE \E e \in Events : Store(e)
  BY <1>3, ServingKeeps
<1>4. CASE Boot
  BY <1>4 DEF Boot, CompInv, LiveHolds, StepsFound, RequestsCounted, Held
<1>5. CASE Serve
  <2>1. OpenDatabase
    BY <1>5 DEF Serve
  <2> QED BY <2>1, ServingKeeps
<1>6. CASE End
  <2>1. Halt
    BY <1>6 DEF End
  <2> QED BY <2>1, ServingKeeps
<1>7. CASE \E k \in Keys : CompactDatabase(k)
  <2>1. StageRequest
    BY <1>7 DEF CompactDatabase
  <2> QED BY <2>1, ServingKeeps
<1>8. CASE \E h \in Handlers : Begin(h)
  <2> SUFFICES ASSUME NEW h \in Handlers, Begin(h) PROVE Untouched
    BY <1>1, <1>8
  <2>1. \A k, edits : BeginSave(h, k, edits) => Untouched
    BY DEF BeginSave
  <2>2. \A k, b : SetupCheck(h, k) \/ ResetBegin(h, k) \/ RestoreBegin(h, k, b) => Untouched
    BY DEF SetupCheck, ResetBegin, RestoreBegin
  <2> QED BY <2>1, <2>2 DEF Begin, SaveStorage, SaveWot, SaveIndex, SaveConnection,
       SaveAccess, SaveIdentity, RotateKey
<1>9. CASE \E h \in Handlers : Handle(h)
  BY <1>1, <1>9 DEF Handle, SetupClaim, SetupRecord, SetupFinish, EndSave, ResetOwner,
       ResetSettings, ResetAdminsFile, ResetMemory, RestoreFile, RestoreApply, Fail
<1>10. CASE Administer
  BY <1>1, <1>7, <1>10 DEF Administer, Auth, AdoptOwner, RestartRelay, AddAdmin, RemoveAdmin
<1>11. CASE UNCHANGED vars
  BY <1>1, <1>11 DEF vars, Untouched
<1>12. QED BY <1>2, <1>3, <1>4, <1>5, <1>6, <1>8, <1>9, <1>10, <1>11 DEF Next

\* Whatever step of a compaction the process dies at and whichever renames and removals fail,
\* every stored event is in the live database or in the original set aside, and each request
\* is attempted once; a relay that serves shows all of them, unless it died while the original
\* was aside with nothing in its place or could not rename it back (run_pending, compact_now).
THEOREM CompactionLosesNothing == Spec => []CompactionSafe
<1>1. CompInv => CompactionSafe
  BY DEF CompInv, CompactionSafe, DataKept, CompactsOncePerRequest, LiveHolds, StepsFound,
         RequestsCounted, Held
<1>2. Init => CompInv
  BY CompInitHolds DEF Init
<1>3. CompInv /\ [Next]_vars => CompInv'
  BY StepKeeps
<1>4. QED BY <1>1, <1>2, <1>3, PTL DEF Spec

-----------------------------------------------------------------------------
(* The admins in memory and on disk. *)

USE ConsoleAssumption

IsFiles(f) ==
    /\ {"settings", "admins", "setupOwner", "relayOwner"} \subseteq DOMAIN f
    /\ f.admins \in (SUBSET Keys) \cup {Absent, Torn}

IsJob(job) ==
    /\ {"op", "by", "step", "from"} \subseteq DOMAIN job
    /\ job.op \in {"setup", "save", "reset", "restore"}
    /\ job.by \in Keys /\ job.step \in Nat \ {0}
    /\ IsFiles(job.from)

JobsShape(table) ==
    /\ DOMAIN table = Handlers
    /\ \A h \in Handlers : table[h] = Idle \/ IsJob(table[h])

ConsoleShape ==
    /\ admins \subseteq Keys /\ configured \subseteq Keys
    /\ IsFiles(files) /\ \A b \in backups : IsFiles(b)
    /\ JobsShape(jobs)
    /\ {"adrift", "opened", "cut"} \subseteq DOMAIN marks
    /\ marks.adrift \in BOOLEAN

\* Handlers run only while the relay serves.
UpOnly == phase # "up" => \A h \in Handlers : jobs[h].op = "idle"

Restoring == \E h \in Handlers : jobs[h].op = "restore"
Wiping == \E h \in Handlers : At(h, "reset", 4)

\* A reset replaces the list on disk first: between its two last steps only memory is behind.
Settled ==
    phase = "up" /\ ~Restoring /\ ~Wiping /\ ~marks.adrift =>
      /\ OnDisk(files) \subseteq admins
      /\ admins \subseteq OnDisk(files) \cup configured
Wiped == Wiping /\ ~Restoring /\ ~marks.adrift => OnDisk(files) = {}

DiskInv == ConsoleShape /\ UpOnly /\ Settled /\ Wiped

LEMMA NextJobs ==
    ASSUME JobsShape(jobs), NEW h \in Handlers, jobs[h].op # "idle"
    PROVE  /\ JobsShape(Next1(h))
           /\ Next1(h)[h].op = jobs[h].op /\ Next1(h)[h].step = jobs[h].step + 1
           /\ \A g \in Handlers \ {h} : Next1(h)[g] = jobs[g]
<1>1. IsJob(jobs[h])
  BY DEF JobsShape, Idle
<1>2. DOMAIN Next1(h) = Handlers /\ \A g \in Handlers \ {h} : Next1(h)[g] = jobs[g]
  BY DEF JobsShape, Next1
<1>3. Next1(h)[h] = [jobs[h] EXCEPT !.step = @ + 1]
  BY DEF JobsShape, Next1
<1>4. IsJob(Next1(h)[h]) /\ Next1(h)[h].op = jobs[h].op /\ Next1(h)[h].step = jobs[h].step + 1
  BY <1>1, <1>3 DEF IsJob
<1>5. QED BY <1>2, <1>4 DEF JobsShape

LEMMA DoneJobs ==
    ASSUME JobsShape(jobs), NEW h \in Handlers
    PROVE  /\ JobsShape(Done(h)) /\ Done(h)[h].op = "idle"
           /\ \A g \in Handlers \ {h} : Done(h)[g] = jobs[g]
BY DEF JobsShape, Done, Idle

LEMMA FreshJobs ==
    ASSUME NEW k \in Keys, NEW op \in {"setup", "save", "reset", "restore"}
    PROVE  IsJob(Job(op, k)) /\ Job(op, k).op = op /\ Job(op, k).step = 1
BY DEF IsJob, Job, IsFiles, NoFiles

\* A step that moves a handler on, with the lists where they were.
LEMMA ListsStay ==
    ASSUME DiskInv, NEW h \in Handlers,
           JobsShape(jobs'), \A g \in Handlers \ {h} : jobs'[g] = jobs[g],
           jobs'[h].op = "restore" <=> jobs[h].op = "restore",
           At(h, "reset", 4)' <=> At(h, "reset", 4),
           phase = "up", phase' = "up",
           admins' = admins, configured' = configured,
           files' = files \/ (IsFiles(files') /\ files'.admins = files.admins),
           \A b \in backups' : IsFiles(b),
           {"adrift", "opened", "cut"} \subseteq DOMAIN marks', marks'.adrift = marks.adrift
    PROVE  DiskInv'
<1>1. OnDisk(files)' = OnDisk(files) /\ IsFiles(files')
  BY DEF OnDisk, DiskInv, ConsoleShape
<1>2. (Restoring' <=> Restoring) /\ (Wiping' <=> Wiping)
  BY DEF Restoring, Wiping, At
<1>3. ConsoleShape'
  BY <1>1 DEF DiskInv, ConsoleShape
<1>4. QED BY <1>1, <1>2, <1>3 DEF DiskInv, Settled, Wiped, UpOnly

LEMMA InFlightMeansUp ==
    ASSUME DiskInv, NEW h \in Handlers, jobs[h].op # "idle", Untouched
    PROVE  phase = "up" /\ phase' = "up" /\ IsJob(jobs[h])
BY DEF DiskInv, UpOnly, ConsoleShape, JobsShape, Idle, Untouched, compVars

\* A handler begins: nothing is written, but a restore is in flight from here on.
LEMMA BeginKeeps == ASSUME DiskInv, NEW h \in Handlers, Begin(h) PROVE DiskInv'
<1> DEFINE Starts(job) ==
      /\ Free(h) /\ phase = "up" /\ IsJob(job)
      /\ jobs' = [jobs EXCEPT ![h] = job]
      /\ backups' \in {backups, backups \cup {files}}
      /\ UNCHANGED <<phase, files, admins, configured>>
      /\ {"adrift", "opened", "cut"} \subseteq DOMAIN marks' /\ marks'.adrift = marks.adrift
<1>1. \A job : Starts(job) /\ job.step = 1 => DiskInv'
  <2> SUFFICES ASSUME NEW job, Starts(job), job.step = 1 PROVE DiskInv'
    OBVIOUS
  <2>0. /\ JobsShape(jobs) /\ Free(h) /\ phase = "up" /\ IsJob(job)
        /\ jobs' = [jobs EXCEPT ![h] = job]
        /\ UNCHANGED <<phase, files, admins, configured>>
        /\ {"adrift", "opened", "cut"} \subseteq DOMAIN marks' /\ marks'.adrift = marks.adrift
    BY DEF DiskInv, ConsoleShape
  <2>1. JobsShape(jobs') /\ jobs'[h] = job /\ \A g \in Handlers \ {h} : jobs'[g] = jobs[g]
    BY ONLY <2>0, h \in Handlers DEF JobsShape
  <2>2. ~At(h, "reset", 4) /\ ~At(h, "reset", 4)' /\ jobs[h].op = "idle"
    BY <2>1 DEF At, Free, Idle
  <2>3. \A b \in backups' : IsFiles(b)
    BY DEF DiskInv, ConsoleShape
  <2>4. CASE job.op = "restore"
    <3>1. Restoring'
      BY <2>1, <2>4 DEF Restoring
    <3> QED BY <2>1, <2>3, <3>1 DEF DiskInv, ConsoleShape, UpOnly, Settled, Wiped
  <2>5. CASE job.op # "restore"
    <3>1. jobs'[h].op # "restore" /\ jobs[h].op # "restore" /\ phase' = "up"
      BY <2>0, <2>1, <2>2, <2>5
    <3> QED BY ONLY <2>0, <2>1, <2>2, <2>3, <3>1, DiskInv, h \in Handlers, ListsStay
  <2> QED BY <2>4, <2>5
<1>2. CASE \E k \in Keys : SetupCheck(h, k)
  <2>1. PICK k \in Keys : SetupCheck(h, k)
    BY <1>2
  <2>2. Starts(Job("setup", k))
    BY <2>1, FreshJobs DEF SetupCheck, Ask, Untouched, compVars, DiskInv, ConsoleShape
  <2> QED BY <1>1, <2>2, FreshJobs
<1>3. CASE \E k \in Keys : ResetBegin(h, k)
  <2>1. PICK k \in Keys : ResetBegin(h, k)
    BY <1>3
  <2>2. Starts(Job("reset", k))
    BY <2>1, FreshJobs DEF ResetBegin, Ask, Untouched, compVars, DiskInv, ConsoleShape
  <2> QED BY <1>1, <2>2, FreshJobs
<1>4. CASE \E k \in Keys, edits \in Screens : BeginSave(h, k, edits)
  <2>1. PICK k \in Keys, edits \in Screens, read \in Readings :
          BeginSave(h, k, edits)
          /\ jobs' = [jobs EXCEPT ![h] = [Job("save", k) EXCEPT
                       !.read = read, !.text = Edited(read, edits), !.edits = edits]]
    BY <1>4 DEF BeginSave
  <2> DEFINE job == [Job("save", k) EXCEPT
                       !.read = read, !.text = Edited(read, edits), !.edits = edits]
  <2>2. IsJob(job) /\ job.step = 1
    BY DEF IsJob, Job, IsFiles, NoFiles
  <2>3. Starts(job)
    BY <2>1, <2>2 DEF BeginSave, Ask, Untouched, compVars, DiskInv, ConsoleShape
  <2> QED BY <1>1, <2>2, <2>3
<1>5. CASE \E k \in Keys, b \in backups : RestoreBegin(h, k, b)
  <2>1. PICK k \in Keys, b \in backups : RestoreBegin(h, k, b)
    BY <1>5
  <2> DEFINE job == [Job("restore", k) EXCEPT !.from = b]
  <2>2. IsJob(job) /\ job.step = 1
    BY DEF IsJob, Job, DiskInv, ConsoleShape
  <2>3. Starts(job)
    BY <2>1, <2>2 DEF RestoreBegin, Ask, Untouched, compVars, DiskInv, ConsoleShape
  <2> QED BY <1>1, <2>2, <2>3
<1>6. QED BY <1>2, <1>3, <1>4, <1>5
     DEF Begin, Screens, SaveStorage, SaveWot, SaveIndex, SaveConnection, SaveAccess,
         SaveIdentity, RotateKey

\* The handlers' steps that leave the lists alone.
LEMMA QuietKeeps ==
    ASSUME DiskInv, NEW h \in Handlers,
           SetupRecord(h) \/ SetupFinish(h) \/ EndSave(h) \/ ResetOwner(h) \/ ResetSettings(h)
    PROVE  DiskInv'
<1>1. jobs[h].op \in {"setup", "save", "reset"} /\ Untouched
  BY DEF SetupRecord, SetupFinish, EndSave, ResetOwner, ResetSettings, At
<1>2. phase = "up" /\ phase' = "up" /\ IsJob(jobs[h])
  BY <1>1, InFlightMeansUp
<1>3. /\ jobs' \in {Next1(h), Done(h)}
      /\ jobs' = Next1(h) => ~(jobs[h].op = "reset" /\ jobs[h].step > 2)
      /\ jobs[h].op = "reset" => jobs[h].step \in {1, 2}
  BY <1>1 DEF SetupRecord, SetupFinish, EndSave, ResetOwner, ResetSettings, At
<1>4. JobsShape(jobs)
  BY DEF DiskInv, ConsoleShape
<1>5. JobsShape(jobs') /\ \A g \in Handlers \ {h} : jobs'[g] = jobs[g]
  BY <1>1, <1>3, <1>4, NextJobs, DoneJobs
<1>6. \/ jobs'[h].op = jobs[h].op /\ jobs'[h].step = jobs[h].step + 1
      \/ jobs'[h].op = "idle"
  BY <1>1, <1>3, <1>4, NextJobs, DoneJobs
<1>7. ~At(h, "reset", 4) /\ ~At(h, "reset", 4)'
  BY <1>3, <1>6 DEF At
<1>8. files' = files \/ (IsFiles(files') /\ files'.admins = files.admins)
  BY DEF SetupRecord, SetupFinish, EndSave, ResetOwner, ResetSettings, DiskInv, ConsoleShape, IsFiles
<1>9. UNCHANGED <<admins, configured, backups>>
  BY DEF SetupRecord, SetupFinish, EndSave, ResetOwner, ResetSettings
<1>10. {"adrift", "opened", "cut"} \subseteq DOMAIN marks' /\ marks'.adrift = marks.adrift
  BY DEF SetupRecord, SetupFinish, EndSave, ResetOwner, ResetSettings, DiskInv, ConsoleShape
<1>11. \A b \in backups' : IsFiles(b)
  BY <1>9 DEF DiskInv, ConsoleShape
<1>12. jobs'[h].op # "restore" /\ jobs[h].op # "restore"
  BY <1>1, <1>6
<1>13. QED BY <1>2, <1>5, <1>7, <1>8, <1>9, <1>10, <1>11, <1>12, ListsStay

\* A list is never taken for a file that is not there or is cut off.
LEMMA ListsAreHeld ==
    ASSUME NEW list \in SUBSET Keys, IsFiles(files)
    PROVE  LET f == [files EXCEPT !.admins = list] IN IsFiles(f) /\ OnDisk(f) = list
BY DEF IsFiles, OnDisk

\* A handler that nobody crosses is the only one that replaces lists.
LEMMA NotCrossed ==
    ASSUME NEW h \in Handlers, ~Crossing(h), NEW g \in Handlers \ {h}
    PROVE  jobs[g].op \notin {"reset", "restore"}
BY DEF Crossing, InFlight

LEMMA SetupClaimKeeps == ASSUME DiskInv, NEW h \in Handlers, SetupClaim(h) PROVE DiskInv'
<1> DEFINE k == jobs[h].by
<1>1. jobs[h].op = "setup" /\ jobs[h].step = 1 /\ Untouched
  BY DEF SetupClaim, At
<1>2. phase = "up" /\ phase' = "up" /\ IsJob(jobs[h])
  BY <1>1, InFlightMeansUp
<1>3. ConsoleShape /\ JobsShape(jobs) /\ IsFiles(files) /\ {k} \in SUBSET Keys
  BY <1>2 DEF DiskInv, ConsoleShape, IsJob
<1>4. UNCHANGED <<configured, backups>>
  BY DEF SetupClaim
<1>5. CASE jobs' = Done(h) /\ UNCHANGED <<admins, files, trusted, marks>>
  <2>1. JobsShape(jobs') /\ jobs'[h].op = "idle" /\ \A g \in Handlers \ {h} : jobs'[g] = jobs[g]
    BY <1>3, <1>5, DoneJobs
  <2>2. ~At(h, "reset", 4) /\ ~At(h, "reset", 4)'
    BY <1>1, <2>1 DEF At
  <2> QED BY <1>1, <1>2, <1>3, <1>4, <1>5, <2>1, <2>2, ListsStay DEF ConsoleShape
<1>6. CASE /\ admins' = {k} /\ files' = [files EXCEPT !.admins = {k}]
           /\ jobs' = Next1(h)
           /\ marks' = [marks EXCEPT !.adrift = Crossing(h),
                                     !.opened = @ \/ files.setupOwner \notin {Absent, k}]
  <2>1. /\ JobsShape(jobs') /\ jobs'[h].op = "setup"
        /\ \A g \in Handlers \ {h} : jobs'[g] = jobs[g]
    BY <1>1, <1>3, <1>6, NextJobs
  <2>2. IsFiles(files') /\ OnDisk(files)' = {k} /\ admins' = {k} /\ admins' \subseteq Keys
    BY <1>3, <1>6, ListsAreHeld DEF OnDisk
  <2>3. /\ {"adrift", "opened", "cut"} \subseteq DOMAIN marks' /\ marks'.adrift \in BOOLEAN
        /\ marks'.adrift = Crossing(h)
    BY <1>3, <1>6 DEF ConsoleShape, Crossing
  <2>4. ~marks'.adrift => ~Wiping'
    BY <2>1, <2>3, NotCrossed DEF Wiping, At
  <2>5. ConsoleShape'
    BY <1>3, <1>4, <2>1, <2>2, <2>3 DEF ConsoleShape
  <2> QED BY <1>2, <2>2, <2>4, <2>5 DEF DiskInv, UpOnly, Settled, Wiped
<1>7. QED BY <1>5, <1>6 DEF SetupClaim

LEMMA ResetListKeeps == ASSUME DiskInv, NEW h \in Handlers, ResetAdminsFile(h) PROVE DiskInv'
<1>1. jobs[h].op = "reset" /\ jobs[h].step = 3 /\ Untouched
  BY DEF ResetAdminsFile, At
<1>2. phase = "up" /\ phase' = "up" /\ IsJob(jobs[h])
  BY <1>1, InFlightMeansUp
<1>3. ConsoleShape /\ JobsShape(jobs) /\ IsFiles(files)
  BY DEF DiskInv, ConsoleShape
<1>4. JobsShape(jobs') /\ jobs'[h].op = "reset" /\ jobs'[h].step = 4
  BY <1>1, <1>3, NextJobs DEF ResetAdminsFile
<1>5. IsFiles(files') /\ OnDisk(files)' = {}
  BY <1>3, ListsAreHeld DEF ResetAdminsFile, OnDisk
<1>6. UNCHANGED <<admins, configured, backups, marks>>
  BY DEF ResetAdminsFile
<1>7. Wiping'
  BY <1>4 DEF Wiping, At
<1>8. QED BY <1>2, <1>3, <1>4, <1>5, <1>6, <1>7 DEF DiskInv, ConsoleShape, UpOnly, Settled, Wiped

LEMMA ResetMemoryKeeps == ASSUME DiskInv, NEW h \in Handlers, ResetMemory(h) PROVE DiskInv'
<1>1. At(h, "reset", 4) /\ jobs[h].op = "reset" /\ Untouched
  BY DEF ResetMemory, At
<1>2. phase = "up" /\ phase' = "up"
  BY <1>1, InFlightMeansUp
<1>3. ConsoleShape /\ JobsShape(jobs)
  BY DEF DiskInv, ConsoleShape
<1>4. /\ JobsShape(jobs') /\ jobs'[h].op = "idle"
      /\ \A g \in Handlers \ {h} : jobs'[g] = jobs[g]
  BY <1>1, <1>3, DoneJobs DEF ResetMemory
<1>5. /\ {"adrift", "opened", "cut"} \subseteq DOMAIN marks' /\ marks'.adrift \in BOOLEAN
      /\ marks'.adrift = (marks.adrift \/ Crossing(h))
  BY <1>3 DEF ResetMemory, ConsoleShape, Crossing
<1>6. ~marks'.adrift => ~Wiping' /\ OnDisk(files) = {}
  <2> SUFFICES ASSUME ~marks.adrift, ~Crossing(h) PROVE ~Wiping' /\ OnDisk(files) = {}
    BY <1>5
  <2>1. \A g \in Handlers \ {h} : jobs[g].op \notin {"reset", "restore"}
    BY NotCrossed
  <2>2. Wiping /\ ~Restoring
    BY <1>1, <2>1 DEF Wiping, Restoring
  <2> QED BY <1>4, <2>1, <2>2 DEF DiskInv, Wiped, Wiping, At
<1>7. UNCHANGED <<configured, backups, files>> /\ admins' = {}
  BY DEF ResetMemory
<1>8. ConsoleShape'
  BY <1>3, <1>4, <1>5, <1>7 DEF ConsoleShape
<1>9. OnDisk(files)' = OnDisk(files)
  BY <1>7 DEF OnDisk
<1>10. QED BY <1>2, <1>6, <1>7, <1>8, <1>9 DEF DiskInv, UpOnly, Settled, Wiped

LEMMA RestoreFileKeeps == ASSUME DiskInv, NEW h \in Handlers, RestoreFile(h) PROVE DiskInv'
<1>1. jobs[h].op = "restore" /\ Untouched
  BY DEF RestoreFile
<1>2. phase = "up" /\ phase' = "up" /\ IsJob(jobs[h])
  BY <1>1, InFlightMeansUp
<1>3. ConsoleShape /\ JobsShape(jobs) /\ IsFiles(files) /\ IsFiles(jobs[h].from)
  BY <1>2 DEF DiskInv, ConsoleShape, IsJob
<1>4. JobsShape(jobs') /\ jobs'[h].op = "restore"
  BY <1>1, <1>3, NextJobs DEF RestoreFile
<1>5. IsFiles(files')
  <2>1. files' = [files EXCEPT ![Restored[jobs[h].step]] = jobs[h].from[Restored[jobs[h].step]]]
    BY DEF RestoreFile
  <2> QED BY <1>3, <2>1 DEF IsFiles
<1>6. /\ UNCHANGED <<admins, configured, backups>>
      /\ {"adrift", "opened", "cut"} \subseteq DOMAIN marks' /\ marks'.adrift = marks.adrift
  BY <1>3 DEF RestoreFile, ConsoleShape
<1>7. Restoring'
  BY <1>4 DEF Restoring
<1>8. QED BY <1>2, <1>3, <1>4, <1>5, <1>6, <1>7 DEF DiskInv, ConsoleShape, UpOnly, Settled, Wiped

LEMMA RestoreApplyKeeps == ASSUME DiskInv, NEW h \in Handlers, RestoreApply(h) PROVE DiskInv'
<1>1. jobs[h].op = "restore" /\ Untouched
  BY DEF RestoreApply
<1>2. phase = "up" /\ phase' = "up"
  BY <1>1, InFlightMeansUp
<1>3. ConsoleShape /\ JobsShape(jobs)
  BY DEF DiskInv, ConsoleShape
<1>4. /\ JobsShape(jobs') /\ jobs'[h].op = "idle"
      /\ \A g \in Handlers \ {h} : jobs'[g] = jobs[g]
  BY <1>3, DoneJobs DEF RestoreApply
<1>5. /\ {"adrift", "opened", "cut"} \subseteq DOMAIN marks' /\ marks'.adrift \in BOOLEAN
      /\ marks'.adrift = Crossing(h)
  BY <1>3 DEF RestoreApply, ConsoleShape, Crossing
<1>6. ~marks'.adrift => ~Wiping'
  BY <1>4, <1>5, NotCrossed DEF Wiping, At
<1>7. UNCHANGED <<configured, backups, files>> /\ admins' = OnDisk(files)
  BY DEF RestoreApply
<1>8. OnDisk(files)' = OnDisk(files) /\ OnDisk(files) \subseteq Keys
  BY <1>3, <1>7 DEF OnDisk, ConsoleShape, IsFiles
<1>9. ConsoleShape'
  BY <1>3, <1>4, <1>5, <1>7, <1>8 DEF ConsoleShape
<1>10. QED BY <1>2, <1>6, <1>7, <1>8, <1>9 DEF DiskInv, UpOnly, Settled, Wiped

LEMMA FailKeeps == ASSUME DiskInv, NEW h \in Handlers, Fail(h) PROVE DiskInv'
<1>1. jobs[h].op \in {"restore", "reset", "save"} /\ Untouched /\ ~At(h, "reset", 4)
  BY DEF Fail, At
<1>2. phase = "up" /\ phase' = "up"
  BY <1>1, InFlightMeansUp
<1>3. ConsoleShape /\ JobsShape(jobs)
  BY DEF DiskInv, ConsoleShape
<1>4. /\ JobsShape(jobs') /\ jobs'[h].op = "idle"
      /\ \A g \in Handlers \ {h} : jobs'[g] = jobs[g]
  BY <1>3, DoneJobs DEF Fail
<1>5. /\ {"adrift", "opened", "cut"} \subseteq DOMAIN marks' /\ marks'.adrift \in BOOLEAN
      /\ marks'.adrift = (marks.adrift \/ jobs[h].op = "restore")
  BY <1>3 DEF Fail, ConsoleShape
<1>6. UNCHANGED <<admins, configured, backups, files>>
  BY DEF Fail
<1>7. ConsoleShape'
  BY <1>3, <1>4, <1>5, <1>6 DEF ConsoleShape
<1>8. CASE jobs[h].op = "restore"
  BY <1>2, <1>5, <1>7, <1>8 DEF DiskInv, UpOnly, Settled, Wiped
<1>9. CASE jobs[h].op # "restore"
  <2>1. (Restoring' <=> Restoring) /\ (Wiping' <=> Wiping)
    BY <1>1, <1>4, <1>9 DEF Restoring, Wiping, At
  <2>2. OnDisk(files)' = OnDisk(files)
    BY <1>6 DEF OnDisk
  <2> QED BY <1>2, <1>5, <1>6, <1>7, <1>9, <2>1, <2>2 DEF DiskInv, UpOnly, Settled, Wiped
<1>10. QED BY <1>8, <1>9

LEMMA HandleKeeps == ASSUME DiskInv, NEW h \in Handlers, Handle(h) PROVE DiskInv'
BY QuietKeeps, SetupClaimKeeps, ResetListKeeps, ResetMemoryKeeps, RestoreFileKeeps,
   RestoreApplyKeeps, FailKeeps
DEF Handle

\* An admin is added or removed: the list goes to disk, or the lists have drifted apart.
LEMMA SaveAdminsKeeps ==
    ASSUME DiskInv, NEW list \in SUBSET Keys, phase = "up", phase' = "up", SaveAdmins(list),
           admins' = list, UNCHANGED <<configured, jobs, backups>>
    PROVE  DiskInv'
<1>1. ConsoleShape /\ IsFiles(files)
  BY DEF DiskInv, ConsoleShape
<1>2. CASE /\ files' = [files EXCEPT !.admins = list]
           /\ marks' = [marks EXCEPT !.adrift = InFlight({"reset", "restore"}) # {}]
  <2>1. IsFiles(files') /\ OnDisk(files)' = list
    BY <1>1, <1>2, ListsAreHeld DEF OnDisk
  <2>2. /\ {"adrift", "opened", "cut"} \subseteq DOMAIN marks' /\ marks'.adrift \in BOOLEAN
        /\ marks'.adrift = (InFlight({"reset", "restore"}) # {})
    BY <1>1, <1>2 DEF ConsoleShape
  <2>3. ~marks'.adrift => ~Wiping'
    BY <2>2 DEF Wiping, At, InFlight
  <2>4. ConsoleShape'
    BY <1>1, <2>1, <2>2 DEF ConsoleShape
  <2> QED BY <2>1, <2>3, <2>4 DEF DiskInv, UpOnly, Settled, Wiped
<1>3. CASE UNCHANGED files /\ marks' = [marks EXCEPT !.adrift = TRUE]
  BY <1>1, <1>3 DEF DiskInv, ConsoleShape, UpOnly, Settled, Wiped
<1>4. QED BY <1>2, <1>3 DEF SaveAdmins

LEMMA AdministerKeeps == ASSUME DiskInv, Administer PROVE DiskInv'
<1>1. ConsoleShape /\ IsFiles(files)
  BY DEF DiskInv, ConsoleShape
<1>2. CASE \E k, p \in Keys : AddAdmin(k, p)
  <2>1. PICK k \in Keys, p \in Keys : AddAdmin(k, p)
    BY <1>2
  <2>2. admins \cup {p} \in SUBSET Keys
    BY <1>1 DEF ConsoleShape
  <2> QED BY <2>1, <2>2, SaveAdminsKeeps DEF AddAdmin, Ask, Untouched, compVars
<1>3. CASE \E k, p \in Keys : RemoveAdmin(k, p)
  <2>1. PICK k \in Keys, p \in Keys : RemoveAdmin(k, p)
    BY <1>3
  <2>2. admins \ {p} \in SUBSET Keys
    BY <1>1 DEF ConsoleShape
  <2> QED BY <2>1, <2>2, SaveAdminsKeeps DEF RemoveAdmin, Ask, Untouched, compVars
<1>4. CASE \E k \in Keys : Auth(k) \/ AdoptOwner(k) \/ RestartRelay(k) \/ CompactDatabase(k)
  <2>1. UNCHANGED <<phase, admins, configured, jobs, backups, marks>>
    BY <1>4 DEF Auth, AdoptOwner, RestartRelay, CompactDatabase, Untouched, compVars,
         StageRequest, memory
  <2>2. IsFiles(files') /\ files'.admins = files.admins
    BY <1>1, <1>4 DEF Auth, AdoptOwner, RestartRelay, CompactDatabase, IsFiles
  <2>3. OnDisk(files)' = OnDisk(files)
    BY <2>2 DEF OnDisk
  <2>4. (Restoring' <=> Restoring) /\ (Wiping' <=> Wiping)
    BY <2>1 DEF Restoring, Wiping, At
  <2>5. ConsoleShape'
    BY <1>1, <2>1, <2>2 DEF ConsoleShape
  <2> QED BY <2>1, <2>3, <2>4, <2>5 DEF DiskInv, UpOnly, Settled, Wiped
<1>5. QED BY <1>2, <1>3, <1>4 DEF Administer

\* The program ends and starts again: no handler is in flight until it serves.
LEMMA RestartKeeps == ASSUME DiskInv, End \/ Boot \/ Serve PROVE DiskInv'
<1>1. ConsoleShape /\ IsFiles(files) /\ JobsShape(jobs)
  BY DEF DiskInv, ConsoleShape
<1>2. CASE End
  <2>1. phase' = "down" /\ admins' = {} /\ configured' = {} /\ UNCHANGED backups
    BY <1>2 DEF End, Halt
  <2>2. /\ DOMAIN jobs' = Handlers
        /\ \A h \in Handlers : jobs'[h] = Idle /\ jobs'[h].op = "idle"
    BY <1>2 DEF End, Idle
  <2>3. IsFiles(files')
    BY <1>1, <1>2 DEF End, Cut, IsFiles
  <2>4. {"adrift", "opened", "cut"} \subseteq DOMAIN marks' /\ marks'.adrift = marks.adrift
    BY <1>1, <1>2 DEF End, ConsoleShape
  <2>5. ~Wiping'
    BY <2>2 DEF Wiping, At
  <2>6. ConsoleShape'
    BY <1>1, <2>1, <2>2, <2>3, <2>4 DEF ConsoleShape, JobsShape
  <2> QED BY <2>1, <2>2, <2>5, <2>6 DEF DiskInv, UpOnly, Settled, Wiped
<1>3. CASE Boot
  <2>1. phase = "down" /\ phase' = "boot" /\ UNCHANGED <<admins, configured, jobs, backups, marks>>
    BY <1>3 DEF Boot, memory
  <2>2. IsFiles(files') /\ files'.admins = files.admins
    BY <1>1, <1>3 DEF Boot, IsFiles
  <2>3. \A h \in Handlers : jobs[h].op = "idle" /\ jobs'[h].op = "idle"
    BY <2>1 DEF DiskInv, UpOnly
  <2>4. ~Wiping'
    BY <2>3 DEF Wiping, At
  <2>5. ConsoleShape'
    BY <1>1, <2>1, <2>2 DEF ConsoleShape
  <2> QED BY <2>1, <2>3, <2>4, <2>5 DEF DiskInv, UpOnly, Settled, Wiped
<1>4. CASE Serve
  <2>1. phase = "open" /\ phase' = "up" /\ UNCHANGED <<jobs, backups, files>>
    BY <1>4 DEF Serve, OpenDatabase
  <2>2. configured' \subseteq Keys /\ admins' = configured' \cup OnDisk(files)
    BY <1>4 DEF Serve, Configured
  <2>3. OnDisk(files)' = OnDisk(files) /\ OnDisk(files) \subseteq Keys
    BY <1>1, <2>1 DEF OnDisk, IsFiles
  <2>4. ~Wiping'
    BY <2>1 DEF Wiping, At, DiskInv, UpOnly
  <2>5. {"adrift", "opened", "cut"} \subseteq DOMAIN marks' /\ marks'.adrift = FALSE
    BY <1>1, <1>4 DEF Serve, ConsoleShape
  <2>6. ConsoleShape'
    BY <1>1, <2>1, <2>2, <2>3, <2>5 DEF ConsoleShape
  <2> QED BY <2>1, <2>2, <2>3, <2>4, <2>6 DEF DiskInv, UpOnly, Settled, Wiped
<1>5. QED BY <1>2, <1>3, <1>4

\* Compaction runs before the relay serves, and storing an event while it serves.
LEMMA BesideKeeps ==
    ASSUME DiskInv, Compacting \/ (\E e \in Events : Store(e)) \/ UNCHANGED phase,
           UNCHANGED consoleVars
    PROVE  DiskInv'
<1>1. phase' = "up" <=> phase = "up"
  BY DEF Compacting, RunPending, Check, StartCopy, EndCopy, SetAside, MoveIn, Verify, RestoreOriginal,
         DropOriginal, Store
<1>2. UNCHANGED <<admins, configured, jobs, files, backups, marks>>
  BY DEF consoleVars, memory
<1>3. /\ ConsoleShape' /\ OnDisk(files)' = OnDisk(files)
      /\ (Restoring' <=> Restoring) /\ (Wiping' <=> Wiping)
  BY <1>2 DEF DiskInv, ConsoleShape, Restoring, Wiping, At, OnDisk
<1>4. QED BY <1>1, <1>2, <1>3 DEF DiskInv, UpOnly, Settled, Wiped

LEMMA DiskInvHolds == Spec => []DiskInv
<1>1. Init => DiskInv
  <2> SUFFICES ASSUME Init PROVE DiskInv
    OBVIOUS
  <2>1. PICK f \in FirstFiles : files = [NoFiles EXCEPT !.settings = f] /\ configured = Configured(f)
    BY DEF Init
  <2>2. IsFiles(files) /\ OnDisk(files) = {}
    BY <2>1 DEF IsFiles, NoFiles, OnDisk
  <2>3. admins = configured /\ configured \subseteq Keys /\ backups = {}
    BY <2>1 DEF Configured, Init
  <2>4. DOMAIN jobs = Handlers /\ \A h \in Handlers : jobs[h] = Idle /\ jobs[h].op = "idle"
    BY DEF Init, Idle
  <2>5. {"adrift", "opened", "cut"} \subseteq DOMAIN marks /\ marks.adrift = FALSE /\ phase = "up"
    BY DEF Init, CompactionInit
  <2>6. ~Wiping
    BY <2>4 DEF Wiping, At
  <2> QED BY <2>2, <2>3, <2>4, <2>5, <2>6 DEF DiskInv, ConsoleShape, JobsShape, UpOnly, Settled, Wiped
<1>2. DiskInv /\ [Next]_vars => DiskInv'
  <2> SUFFICES ASSUME DiskInv, [Next]_vars PROVE DiskInv'
    OBVIOUS
  <2>1. CASE \E h \in Handlers : Begin(h) \/ Handle(h)
    BY <2>1, BeginKeeps, HandleKeeps
  <2>2. CASE Administer
    BY <2>2, AdministerKeeps
  <2>3. CASE End \/ Boot \/ Serve
    BY <2>3, RestartKeeps
  <2>4. CASE (Compacting \/ \E e \in Events : Store(e)) /\ UNCHANGED consoleVars
    BY <2>4, BesideKeeps
  <2>5. CASE UNCHANGED vars
    BY <2>5, BesideKeeps DEF vars, compVars
  <2> QED BY <2>1, <2>2, <2>3, <2>4, <2>5 DEF Next
<1>3. QED BY <1>1, <1>2, PTL DEF Spec

\* Between requests the admins in memory are those on disk and the configured ones, in any
\* order of setups, additions, removals, resets, restores and restarts, but when a write
\* failed or a list changed across a reset or a restore (handle_setup, AdminState).
THEOREM AdminsAreOnDisk == Spec => []AdminsOnDisk
<1>1. DiskInv => AdminsOnDisk
  <2> SUFFICES ASSUME DiskInv, phase = "up", InFlight({"reset", "restore"}) = {}, ~marks.adrift
               PROVE  OnDisk(files) \subseteq admins /\ admins \subseteq OnDisk(files) \cup configured
    BY DEF AdminsOnDisk
  <2>1. ~Restoring /\ ~Wiping
    BY DEF InFlight, Restoring, Wiping, At
  <2> QED BY <2>1 DEF DiskInv, Settled
<1>2. QED BY <1>1, DiskInvHolds, PTL

-----------------------------------------------------------------------------
(* Who becomes an admin. *)

TrustedFiles(f, keys) == OnDisk(f) \subseteq keys /\ f.setupOwner \in keys \cup {Absent}

TrustedJob(job, keys) ==
    /\ job.op = "reset" => job.by \in keys
    /\ job.op = "setup" /\ job.step > 1 => job.by \in keys
    /\ job.op = "restore" => TrustedFiles(job.from, keys)

\* Those whom the lists, the sessions, the retained owner and the handlers name were let in.
Trusting ==
    /\ admins \cup sessions \subseteq trusted
    /\ TrustedFiles(files, trusted) /\ \A b \in backups : TrustedFiles(b, trusted)
    /\ \A h \in Handlers : TrustedJob(jobs[h], trusted)

\* A relay that serves and has neither admins nor a retained owner never had any.
Unclaimed == phase = "up" /\ admins = {} /\ files.setupOwner = Absent => trusted = {}

\* A reset that has begun to write has retained the owner.
Begun(job) == job.op = "reset" /\ job.step > 1
Retained == \A h \in Handlers : Begun(jobs[h]) => files.setupOwner # Absent

\* One handler at a time replaces lists file by file.
Replaces(job) == job.op \in {"reset", "restore"}
Apart == \A g, h \in Handlers : g # h => ~(Replaces(jobs[g]) /\ Replaces(jobs[h]))

OwnerHeld == Trusting /\ Unclaimed /\ Retained /\ Apart

\* A start would find an owned relay without admins but the configured ones: then the
\* settings configure some, and so does every save under way.
Bare == OnDisk(files) = {} /\ files.setupOwner = Absent /\ trusted # {}
Names(f) == Headless(f) \/ Configured(f) # {}
GuardedJob(job) == job.op = "save" => Names(job.text)
Guarded ==
    ~Restoring /\ Bare =>
        Configured(files.settings) # {} /\ \A h \in Handlers : GuardedJob(jobs[h])

\* Every settings file, to be written or to be restored, is one that edits keep in order.
TidyJob(job, tidy) ==
    /\ job.op = "save" => Headless(job.text) \/ job.text \in tidy
    /\ job.op = "restore" => job.from.settings \in tidy
Tidied(tidy) ==
    /\ files.settings \in tidy /\ \A b \in backups : b.settings \in tidy
    /\ \A h \in Handlers : TidyJob(jobs[h], tidy)

ClaimInv(tidy) ==
    /\ marks.opened \in BOOLEAN /\ marks.cut \in BOOLEAN
    /\ ~marks.cut => Tidied(tidy)
    /\ ~marks.opened => OwnerHeld /\ (~marks.cut => Guarded)

LEMMA TrustKept ==
    ASSUME Trusting, trusted \subseteq trusted', admins' \cup sessions' \subseteq trusted',
           TrustedFiles(files', trusted'), backups' \subseteq backups \cup {files},
           \A h \in Handlers : jobs'[h] = jobs[h] \/ TrustedJob(jobs'[h], trusted')
    PROVE  Trusting'
<1>1. \A f : TrustedFiles(f, trusted) => TrustedFiles(f, trusted')
  BY DEF TrustedFiles
<1>2. \A h \in Handlers : TrustedJob(jobs[h], trusted')
  BY <1>1 DEF Trusting, TrustedJob
<1>3. \A h \in Handlers : TrustedJob(jobs'[h], trusted')
  BY <1>2
<1>4. \A b \in backups' : TrustedFiles(b, trusted')
  BY <1>1 DEF Trusting
<1>5. QED BY <1>3, <1>4 DEF Trusting

LEMMA RetainKept ==
    ASSUME Retained, files'.setupOwner = files.setupOwner \/ files'.setupOwner # Absent,
           \A h \in Handlers : Begun(jobs'[h]) => Begun(jobs[h]) \/ files'.setupOwner # Absent
    PROVE  Retained'
BY DEF Retained, Begun

LEMMA ApartKept ==
    ASSUME Apart, \A h \in Handlers : Replaces(jobs'[h]) => Replaces(jobs[h])
    PROVE  Apart'
BY DEF Apart, Replaces

LEMMA GuardKept ==
    ASSUME Guarded, Restoring => Restoring', Bare' => Bare,
           files'.settings = files.settings \/ Configured(files'.settings) # {},
           \A h \in Handlers : jobs'[h] = jobs[h] \/ GuardedJob(jobs'[h])
    PROVE  Guarded'
BY DEF Guarded, GuardedJob

LEMMA TidyKept ==
    ASSUME NEW tidy, Tidied(tidy), files'.settings \in tidy, backups' \subseteq backups \cup {files},
           \A h \in Handlers : jobs'[h] = jobs[h] \/ TidyJob(jobs'[h], tidy)
    PROVE  Tidied(tidy)'
BY DEF Tidied, TidyJob

\* What a handler was asked, and what it restores from, stays while it goes on.
LEMMA NextJob ==
    ASSUME DiskInv, NEW h \in Handlers, jobs[h].op # "idle"
    PROVE  /\ Next1(h)[h].op = jobs[h].op /\ Next1(h)[h].step = jobs[h].step + 1
           /\ Next1(h)[h].by = jobs[h].by /\ Next1(h)[h].from = jobs[h].from
           /\ jobs[h].step \in Nat \ {0} /\ jobs[h].by \in Keys /\ jobs[h].by # Absent
           /\ IsFiles(jobs[h].from)
           /\ \A g \in Handlers \ {h} : Next1(h)[g] = jobs[g]
<1>1. JobsShape(jobs)
  BY DEF DiskInv, ConsoleShape
<1>2. IsJob(jobs[h])
  BY <1>1 DEF JobsShape, Idle
<1>3. Next1(h)[h] = [jobs[h] EXCEPT !.step = @ + 1]
  BY <1>1 DEF JobsShape, Next1
<1>4. Next1(h)[h].by = jobs[h].by /\ Next1(h)[h].from = jobs[h].from
  BY <1>2, <1>3 DEF IsJob
<1>5. jobs[h].step \in Nat \ {0} /\ jobs[h].by \in Keys /\ jobs[h].by # Absent /\ IsFiles(jobs[h].from)
  BY <1>2 DEF IsJob
<1>6. QED BY <1>1, <1>4, <1>5, NextJobs

\* A handler that is done asks for nothing.
LEMMA IdleJob ==
    ASSUME NEW job, job.op = "idle"
    PROVE  /\ \A keys : TrustedJob(job, keys)
           /\ \A tidy : TidyJob(job, tidy)
           /\ GuardedJob(job) /\ ~Begun(job) /\ ~Replaces(job) /\ job.op # "restore"
BY DEF TrustedJob, TidyJob, GuardedJob, Begun, Replaces

\* A handler begins: nothing but its job changes.
LEMMA BeginClaims ==
    ASSUME DiskInv, NEW tidy, ClaimInv(tidy), NEW h \in Handlers, NEW job,
           jobs' = [jobs EXCEPT ![h] = job], Free(h), job.step = 1,
           UNCHANGED <<phase, admins, sessions, files, trusted>>,
           backups' \subseteq backups \cup {files},
           marks'.opened \in BOOLEAN, marks'.cut = marks.cut,
           ~marks'.opened => ~marks.opened /\ (Replaces(job) => ~Crossing(h)),
           ~marks.opened => TrustedJob(job, trusted),
           ~marks.cut => TidyJob(job, tidy),
           ~marks.cut /\ job.op = "save" =>
               Headless(job.text) \/ Configured(job.text) = Configured(files.settings)
    PROVE  ClaimInv(tidy)'
<1>1. jobs'[h] = job /\ \A g \in Handlers \ {h} : jobs'[g] = jobs[g]
  BY DEF DiskInv, ConsoleShape, JobsShape
<1>2. jobs[h].op = "idle"
  BY DEF Free, Idle
<1>3. ~marks'.cut => Tidied(tidy)'
  <2> SUFFICES ASSUME ~marks.cut PROVE Tidied(tidy)'
    OBVIOUS
  <2>1. Tidied(tidy) /\ files'.settings \in tidy
    BY DEF ClaimInv, Tidied
  <2>2. QED BY <1>1, <2>1, TidyKept
<1>4. ASSUME ~marks'.opened PROVE OwnerHeld'
  <2>1. OwnerHeld /\ TrustedJob(job, trusted) /\ (Replaces(job) => ~Crossing(h))
    BY <1>4 DEF ClaimInv
  <2>2. Trusting'
    BY <1>1, <2>1, TrustKept DEF OwnerHeld, Trusting
  <2>3. Unclaimed'
    BY <2>1 DEF OwnerHeld, Unclaimed
  <2>4. Retained'
    BY <1>1, <2>1, RetainKept DEF OwnerHeld, Begun
  <2>5. Apart'
    BY <1>1, <2>1, NotCrossed DEF OwnerHeld, Apart, Replaces
  <2>6. QED BY <2>2, <2>3, <2>4, <2>5 DEF OwnerHeld
<1>5. ASSUME ~marks'.opened, ~marks'.cut PROVE Guarded'
  <2>1. Guarded
    BY <1>5 DEF ClaimInv
  <2>2. (Bare' <=> Bare) /\ (Restoring => Restoring')
    BY <1>1, <1>2 DEF Bare, OnDisk, Restoring
  <2>3. CASE Restoring \/ ~Bare
    BY <2>2, <2>3 DEF Guarded
  <2>4. CASE ~Restoring /\ Bare
    <3>1. Configured(files.settings) # {}
      BY <2>1, <2>4 DEF Guarded
    <3>2. GuardedJob(job)
      BY <1>5, <3>1 DEF GuardedJob, Names
    <3>3. QED BY <1>1, <2>1, <2>2, <3>2, GuardKept
  <2>5. QED BY <2>3, <2>4
<1>6. QED BY <1>3, <1>4, <1>5 DEF ClaimInv

LEMMA JobsBegin ==
    ASSUME NEW k, NEW op
    PROVE  /\ Job(op, k).op = op /\ Job(op, k).step = 1 /\ Job(op, k).by = k
           /\ \A b : LET job == [Job(op, k) EXCEPT !.from = b]
                     IN  job.op = op /\ job.step = 1 /\ job.by = k /\ job.from = b
           /\ \A read, text, edits :
                 LET job == [Job(op, k) EXCEPT !.read = read, !.text = text, !.edits = edits]
                 IN  job.op = op /\ job.step = 1 /\ job.by = k /\ job.text = text
BY DEF Job

LEMMA BeginKeepsClaims ==
    ASSUME DiskInv, NEW tidy, KeepsConfigured(tidy), ClaimInv(tidy), NEW h \in Handlers, Begin(h)
    PROVE  ClaimInv(tidy)'
<1>1. {"adrift", "opened", "cut"} \subseteq DOMAIN marks /\ marks.opened \in BOOLEAN
  BY DEF DiskInv, ConsoleShape, ClaimInv
<1>2. CASE \E k \in Keys : SetupCheck(h, k)
  <2>1. PICK k \in Keys : SetupCheck(h, k)
    BY <1>2
  <2>2. PICK job : job = Job("setup", k)
    OBVIOUS
  <2>3. job.op = "setup" /\ job.step = 1
    BY <2>2, JobsBegin
  <2>4. TrustedJob(job, trusted) /\ TidyJob(job, tidy) /\ ~Replaces(job)
    BY <2>3 DEF TrustedJob, TidyJob, Replaces
  <2>5. /\ jobs' = [jobs EXCEPT ![h] = job] /\ Free(h)
        /\ UNCHANGED <<phase, admins, sessions, files, trusted, backups, marks>>
    BY <2>1, <2>2 DEF SetupCheck, Untouched, compVars
  <2>6. QED BY <1>1, <2>3, <2>4, <2>5, BeginClaims
<1>3. CASE \E k \in Keys : ResetBegin(h, k)
  <2>1. PICK k \in Keys : ResetBegin(h, k)
    BY <1>3
  <2>2. PICK job : job = Job("reset", k)
    OBVIOUS
  <2>3. job.op = "reset" /\ job.step = 1 /\ job.by = k
    BY <2>2, JobsBegin
  <2>4. TidyJob(job, tidy)
    BY <2>3 DEF TidyJob
  <2>5. ~marks.opened => TrustedJob(job, trusted)
    BY <2>1, <2>3 DEF ResetBegin, ClaimInv, OwnerHeld, Trusting, TrustedJob
  <2>6. /\ jobs' = [jobs EXCEPT ![h] = job] /\ Free(h)
        /\ UNCHANGED <<phase, admins, sessions, files, trusted>>
        /\ backups' = backups \cup {files}
        /\ marks' = [marks EXCEPT !.opened = @ \/ Crossing(h)]
    BY <2>1, <2>2 DEF ResetBegin, Untouched, compVars
  <2>7. marks'.opened = (marks.opened \/ Crossing(h)) /\ marks'.cut = marks.cut
    BY <1>1, <2>6
  <2>8. marks'.opened \in BOOLEAN /\ (~marks'.opened => ~marks.opened /\ ~Crossing(h))
    BY <1>1, <2>7 DEF Crossing
  <2>9. QED BY <2>3, <2>4, <2>5, <2>6, <2>7, <2>8, BeginClaims
<1>4. CASE \E k \in Keys, edits \in Screens : BeginSave(h, k, edits)
  <2>1. PICK k \in Keys, edits \in Screens : BeginSave(h, k, edits)
    BY <1>4
  <2>2. PICK read \in Readings :
          jobs' = [jobs EXCEPT ![h] = [Job("save", k) EXCEPT
                       !.read = read, !.text = Edited(read, edits), !.edits = edits]]
    BY <2>1 DEF BeginSave
  <2>3. PICK job : job = [Job("save", k) EXCEPT
                       !.read = read, !.text = Edited(read, edits), !.edits = edits]
    OBVIOUS
  <2>4. job.op = "save" /\ job.step = 1 /\ job.text = Edited(read, edits)
    BY <2>3, JobsBegin
  <2>5. TrustedJob(job, trusted) /\ ~Replaces(job)
    BY <2>4 DEF TrustedJob, Replaces
  <2>6. ~marks.cut => /\ Headless(job.text) \/ job.text \in tidy
                      /\ Headless(job.text) \/ Configured(job.text) = Configured(files.settings)
    <3>1. read \in {files.settings, <<>>}
      BY DEF Readings
    <3>2. ~marks.cut => files.settings \in tidy
      BY DEF ClaimInv, Tidied
    <3>3. CASE read = <<>>
      BY <2>4, <3>3 DEF KeepsConfigured
    <3>4. CASE read = files.settings
      <4>1. ASSUME ~marks.cut PROVE /\ Edited(read, edits) \in tidy
                                   /\ Configured(Edited(read, edits)) = Configured(read)
        BY <3>2, <3>4, <4>1 DEF KeepsConfigured
      <4>2. QED BY <2>4, <3>4, <4>1
    <3>5. QED BY <3>1, <3>3, <3>4
  <2>7. ~marks.cut => TidyJob(job, tidy)
    BY <2>4, <2>6 DEF TidyJob
  <2>8. /\ jobs' = [jobs EXCEPT ![h] = job] /\ Free(h)
        /\ UNCHANGED <<phase, admins, sessions, files, trusted, backups, marks>>
    BY <2>1, <2>2, <2>3 DEF BeginSave, Untouched, compVars
  <2>9. QED BY <1>1, <2>4, <2>5, <2>6, <2>7, <2>8, BeginClaims
<1>5. CASE \E k \in Keys, b \in backups : RestoreBegin(h, k, b)
  <2>1. PICK k \in Keys, b \in backups : RestoreBegin(h, k, b)
    BY <1>5
  <2>2. PICK job : job = [Job("restore", k) EXCEPT !.from = b]
    OBVIOUS
  <2>3. job.op = "restore" /\ job.step = 1 /\ job.from = b
    BY <2>2, JobsBegin
  <2>4. ~marks.cut => TidyJob(job, tidy)
    BY <2>3 DEF TidyJob, ClaimInv, Tidied
  <2>5. ~marks.opened => TrustedJob(job, trusted)
    BY <2>3 DEF ClaimInv, OwnerHeld, Trusting, TrustedJob
  <2>6. /\ jobs' = [jobs EXCEPT ![h] = job] /\ Free(h)
        /\ UNCHANGED <<phase, admins, sessions, files, trusted>>
        /\ backups' = backups \cup {files}
        /\ marks' = [marks EXCEPT !.opened = @ \/ Crossing(h)]
    BY <2>1, <2>2 DEF RestoreBegin, Untouched, compVars
  <2>7. marks'.opened = (marks.opened \/ Crossing(h)) /\ marks'.cut = marks.cut
    BY <1>1, <2>6
  <2>8. marks'.opened \in BOOLEAN /\ (~marks'.opened => ~marks.opened /\ ~Crossing(h))
    BY <1>1, <2>7 DEF Crossing
  <2>9. QED BY <2>3, <2>4, <2>5, <2>6, <2>7, <2>8, BeginClaims
<1>6. QED BY <1>2, <1>3, <1>4, <1>5
     DEF Begin, Screens, SaveStorage, SaveWot, SaveIndex, SaveConnection, SaveAccess,
         SaveIdentity, RotateKey

-----------------------------------------------------------------------------
(* Setup. *)

LEMMA SetupClaimsFirst ==
    ASSUME DiskInv, NEW tidy, ClaimInv(tidy), NEW h \in Handlers, SetupClaim(h)
    PROVE  ClaimInv(tidy)'
<1>1. jobs[h].op = "setup" /\ jobs[h].op # "idle" /\ UNCHANGED <<phase, backups, sessions>>
  BY DEF SetupClaim, At, Untouched, compVars
<1>2. PICK k : k = jobs[h].by
  OBVIOUS
<1>3. IsFiles(files) /\ {"adrift", "opened", "cut"} \subseteq DOMAIN marks
  BY DEF DiskInv, ConsoleShape
<1>4. jobs[h].step = 1 /\ k # Absent /\ k \in Keys
  BY <1>1, <1>2, NextJob DEF SetupClaim, At
<1>5. CASE jobs' = Done(h) /\ UNCHANGED <<admins, files, trusted, marks>>
  <2>1. jobs'[h].op = "idle" /\ \A g \in Handlers \ {h} : jobs'[g] = jobs[g]
    BY <1>5, DoneJobs DEF DiskInv, ConsoleShape
  <2>2. ~marks'.cut => Tidied(tidy)'
    BY <1>1, <1>5, <2>1, IdleJob, TidyKept DEF ClaimInv, Tidied
  <2>3. ASSUME ~marks'.opened PROVE OwnerHeld'
    <3>1. OwnerHeld
      BY <1>5, <2>3 DEF ClaimInv
    <3>2. Trusting'
      BY <1>1, <1>5, <2>1, <3>1, IdleJob, TrustKept DEF OwnerHeld, Trusting
    <3>3. Unclaimed' /\ Retained'
      BY <1>1, <1>5, <2>1, <3>1, IdleJob DEF OwnerHeld, Unclaimed, Retained
    <3>4. Apart'
      BY <2>1, <3>1, IdleJob, ApartKept DEF OwnerHeld
    <3>5. QED BY <3>2, <3>3, <3>4 DEF OwnerHeld
  <2>4. ASSUME ~marks'.opened, ~marks'.cut PROVE Guarded'
    <3>1. Guarded
      BY <1>5, <2>4 DEF ClaimInv
    <3>2. (Bare' <=> Bare) /\ (Restoring => Restoring')
      BY <1>1, <1>5, <2>1 DEF Bare, OnDisk, Restoring
    <3>3. QED BY <1>5, <2>1, <3>1, <3>2, IdleJob, GuardKept
  <2>5. QED BY <1>5, <2>2, <2>3, <2>4 DEF ClaimInv
<1>6. CASE /\ admins = {} /\ admins' = {k} /\ files' = [files EXCEPT !.admins = {k}]
           /\ jobs' = Next1(h)
           /\ trusted' = (IF trusted = {} THEN {k} ELSE trusted)
           /\ marks' = [marks EXCEPT !.adrift = Crossing(h),
                                     !.opened = @ \/ files.setupOwner \notin {Absent, k}]
  <2>1. /\ jobs'[h].op = "setup" /\ jobs'[h].by = k /\ \A g \in Handlers \ {h} : jobs'[g] = jobs[g]
    BY <1>1, <1>2, <1>6, NextJob
  <2>2. /\ files'.settings = files.settings /\ files'.setupOwner = files.setupOwner
        /\ OnDisk(files') = {k}
    BY <1>3, <1>4, <1>6 DEF OnDisk, IsFiles
  <2>3. /\ marks'.opened = (marks.opened \/ files.setupOwner \notin {Absent, k})
        /\ marks'.cut = marks.cut
    BY <1>3, <1>6
  <2>4. /\ marks'.opened \in BOOLEAN /\ marks'.cut \in BOOLEAN
        /\ ~marks'.opened => ~marks.opened /\ files.setupOwner \in {Absent, k}
    BY <2>3 DEF ClaimInv
  <2>5. ~marks'.cut => Tidied(tidy)'
    <3>1. TidyJob(jobs'[h], tidy)
      BY <2>1 DEF TidyJob
    <3>2. QED BY <1>1, <2>1, <2>2, <2>3, <3>1, TidyKept DEF ClaimInv, Tidied
  <2>6. ASSUME ~marks'.opened PROVE OwnerHeld'
    <3>1. OwnerHeld /\ phase = "up" /\ files.setupOwner \in {Absent, k}
      BY <1>1, <2>4, <2>6 DEF ClaimInv, DiskInv, UpOnly
    <3>2. k \in trusted' /\ trusted \subseteq trusted'
      BY <1>4, <1>6, <3>1 DEF OwnerHeld, Trusting, TrustedFiles, Unclaimed
    <3>3. TrustedJob(jobs'[h], trusted')
      BY <2>1, <3>2 DEF TrustedJob
    <3>4. TrustedFiles(files', trusted')
      BY <2>2, <3>1, <3>2 DEF TrustedFiles
    <3>5. Trusting'
      BY <1>1, <1>6, <2>1, <3>1, <3>2, <3>3, <3>4, TrustKept DEF OwnerHeld, Trusting
    <3>6. Unclaimed'
      BY <1>6 DEF Unclaimed
    <3>7. Retained' /\ Apart'
      BY <2>1, <2>2, <3>1, RetainKept, ApartKept DEF OwnerHeld, Begun, Replaces
    <3>8. QED BY <3>5, <3>6, <3>7 DEF OwnerHeld
  <2>7. Guarded'
    BY <2>2 DEF Guarded, Bare
  <2>8. QED BY <2>4, <2>5, <2>6, <2>7 DEF ClaimInv
<1>7. QED BY <1>2, <1>5, <1>6 DEF SetupClaim

LEMMA SetupRecordClaims ==
    ASSUME DiskInv, NEW tidy, ClaimInv(tidy), NEW h \in Handlers, SetupRecord(h)
    PROVE  ClaimInv(tidy)'
<1>1. /\ jobs[h].op = "setup" /\ jobs[h].op # "idle" /\ jobs[h].step = 2 /\ jobs' = Next1(h)
      /\ UNCHANGED <<phase, backups, admins, sessions, trusted, marks>>
  BY DEF SetupRecord, At, Untouched, compVars
<1>2. /\ jobs'[h].op = "setup" /\ jobs'[h].by = jobs[h].by
      /\ \A g \in Handlers \ {h} : jobs'[g] = jobs[g]
  BY <1>1, NextJob
<1>3. /\ files'.settings = files.settings /\ files'.setupOwner = files.setupOwner
      /\ OnDisk(files') = OnDisk(files)
  BY DEF DiskInv, ConsoleShape, SetupRecord, OnDisk, IsFiles
<1>4. ~marks'.cut => Tidied(tidy)'
  <2>1. TidyJob(jobs'[h], tidy)
    BY <1>2 DEF TidyJob
  <2>2. QED BY <1>1, <1>2, <1>3, <2>1, TidyKept DEF ClaimInv, Tidied
<1>5. ASSUME ~marks'.opened PROVE OwnerHeld'
  <2>1. OwnerHeld
    BY <1>1, <1>5 DEF ClaimInv
  <2>2. TrustedJob(jobs'[h], trusted') /\ TrustedFiles(files', trusted')
    BY <1>1, <1>2, <1>3, <2>1 DEF OwnerHeld, Trusting, TrustedJob, TrustedFiles
  <2>3. Trusting'
    BY <1>1, <1>2, <2>1, <2>2, TrustKept DEF OwnerHeld, Trusting
  <2>4. Unclaimed'
    BY <1>1, <1>3, <2>1 DEF OwnerHeld, Unclaimed
  <2>5. Retained' /\ Apart'
    BY <1>2, <1>3, <2>1, RetainKept, ApartKept DEF OwnerHeld, Begun, Replaces
  <2>6. QED BY <2>3, <2>4, <2>5 DEF OwnerHeld
<1>6. ASSUME ~marks'.opened, ~marks'.cut PROVE Guarded'
  <2>1. Guarded
    BY <1>1, <1>6 DEF ClaimInv
  <2>2. (Bare' <=> Bare) /\ (Restoring => Restoring') /\ GuardedJob(jobs'[h])
    BY <1>1, <1>2, <1>3 DEF Bare, Restoring, GuardedJob
  <2>3. QED BY <1>2, <1>3, <2>1, <2>2, GuardKept
<1>7. QED BY <1>1, <1>4, <1>5, <1>6 DEF ClaimInv

LEMMA SetupFinishClaims ==
    ASSUME DiskInv, NEW tidy, ClaimInv(tidy), NEW h \in Handlers, SetupFinish(h)
    PROVE  ClaimInv(tidy)'
<1>1. /\ jobs[h].op = "setup" /\ jobs[h].op # "idle" /\ jobs[h].step = 3 /\ jobs' = Done(h)
      /\ sessions' = sessions \cup {jobs[h].by}
      /\ files' \in {files, [files EXCEPT !.setupOwner = Absent]}
      /\ UNCHANGED <<phase, backups, admins, trusted>>
      /\ marks' = [marks EXCEPT !.opened = @ \/ admins = {} \/ OnDisk(files) = {}
                                            \/ InFlight({"reset"}) # {}]
  BY DEF SetupFinish, SignIn, At, Untouched, compVars
<1>2. IsFiles(files) /\ {"adrift", "opened", "cut"} \subseteq DOMAIN marks
  BY DEF DiskInv, ConsoleShape
<1>3. jobs'[h].op = "idle" /\ \A g \in Handlers \ {h} : jobs'[g] = jobs[g]
  BY <1>1, DoneJobs DEF DiskInv, ConsoleShape
<1>4. /\ files'.settings = files.settings /\ files'.setupOwner \in {files.setupOwner, Absent}
      /\ OnDisk(files') = OnDisk(files)
  BY <1>1, <1>2 DEF OnDisk, IsFiles
<1>5. /\ marks'.opened = (marks.opened \/ admins = {} \/ OnDisk(files) = {} \/ InFlight({"reset"}) # {})
      /\ marks'.cut = marks.cut
  BY <1>1, <1>2
<1>6. /\ marks'.opened \in BOOLEAN /\ marks'.cut \in BOOLEAN
      /\ ~marks'.opened => ~marks.opened /\ admins # {} /\ OnDisk(files) # {} /\ InFlight({"reset"}) = {}
  BY <1>5 DEF ClaimInv
<1>7. ~marks'.cut => Tidied(tidy)'
  BY <1>1, <1>3, <1>4, <1>5, IdleJob, TidyKept DEF ClaimInv, Tidied
<1>8. ASSUME ~marks'.opened PROVE OwnerHeld'
  <2>1. OwnerHeld
    BY <1>6, <1>8 DEF ClaimInv
  <2>2. jobs[h].by \in trusted /\ TrustedFiles(files', trusted')
    BY <1>1, <1>4, <2>1 DEF OwnerHeld, Trusting, TrustedJob, TrustedFiles
  <2>3. Trusting'
    BY <1>1, <1>3, <2>1, <2>2, IdleJob, TrustKept DEF OwnerHeld, Trusting
  <2>4. Unclaimed'
    BY <1>1, <1>6, <1>8 DEF Unclaimed
  <2>5. Retained'
    <3>1. \A g \in Handlers : jobs'[g].op # "reset"
      BY <1>3, <1>6, <1>8 DEF InFlight
    <3>2. QED BY <3>1 DEF Retained, Begun
  <2>6. Apart'
    BY <1>3, <2>1, IdleJob, ApartKept DEF OwnerHeld
  <2>7. QED BY <2>3, <2>4, <2>5, <2>6 DEF OwnerHeld
<1>9. ASSUME ~marks'.opened PROVE Guarded'
  BY <1>4, <1>6, <1>9 DEF Guarded, Bare
<1>10. QED BY <1>6, <1>7, <1>8, <1>9 DEF ClaimInv

-----------------------------------------------------------------------------
(* Saving and resetting. *)

LEMMA EndSaveClaims ==
    ASSUME DiskInv, NEW tidy, ClaimInv(tidy), NEW h \in Handlers, EndSave(h)
    PROVE  ClaimInv(tidy)'
<1>1. /\ jobs[h].op = "save" /\ jobs' = Done(h)
      /\ files' = [files EXCEPT !.settings = jobs[h].text]
      /\ UNCHANGED <<phase, backups, admins, sessions, trusted>>
      /\ marks' = [marks EXCEPT !.cut = @ \/ Headless(jobs[h].text)]
  BY DEF EndSave, At, Untouched, compVars
<1>2. IsFiles(files) /\ {"adrift", "opened", "cut"} \subseteq DOMAIN marks
  BY DEF DiskInv, ConsoleShape
<1>3. jobs'[h].op = "idle" /\ \A g \in Handlers \ {h} : jobs'[g] = jobs[g]
  BY <1>1, DoneJobs DEF DiskInv, ConsoleShape
<1>4. PICK text : text = jobs[h].text
  OBVIOUS
<1>5. /\ files'.settings = text /\ files'.setupOwner = files.setupOwner
      /\ OnDisk(files') = OnDisk(files)
  BY <1>1, <1>2, <1>4 DEF OnDisk, IsFiles
<1>6. marks'.cut = (marks.cut \/ Headless(text)) /\ marks'.opened = marks.opened
  BY <1>1, <1>2, <1>4
<1>7. /\ marks'.opened \in BOOLEAN /\ marks'.cut \in BOOLEAN
      /\ ~marks'.cut => ~marks.cut /\ ~Headless(text)
  BY <1>6 DEF ClaimInv, Headless
<1>8. ASSUME ~marks'.cut PROVE Tidied(tidy)'
  <2>1. Tidied(tidy) /\ ~Headless(text)
    BY <1>7, <1>8 DEF ClaimInv
  <2>2. text \in tidy
    BY <1>1, <1>4, <2>1 DEF Tidied, TidyJob
  <2>3. QED BY <1>1, <1>3, <1>5, <2>1, <2>2, IdleJob, TidyKept
<1>9. ASSUME ~marks'.opened PROVE OwnerHeld'
  <2>1. OwnerHeld
    BY <1>6, <1>9 DEF ClaimInv
  <2>2. TrustedFiles(files', trusted')
    BY <1>1, <1>5, <2>1 DEF OwnerHeld, Trusting, TrustedFiles
  <2>3. Trusting'
    BY <1>1, <1>3, <2>1, <2>2, IdleJob, TrustKept DEF OwnerHeld, Trusting
  <2>4. Unclaimed'
    BY <1>1, <1>5, <2>1 DEF OwnerHeld, Unclaimed
  <2>5. Retained' /\ Apart'
    BY <1>3, <1>5, <2>1, IdleJob, RetainKept, ApartKept DEF OwnerHeld
  <2>6. QED BY <2>3, <2>4, <2>5 DEF OwnerHeld
<1>10. ASSUME ~marks'.opened, ~marks'.cut PROVE Guarded'
  <2>1. Guarded /\ ~Headless(text)
    BY <1>6, <1>7, <1>10 DEF ClaimInv
  <2>2. (Bare' <=> Bare) /\ (Restoring => Restoring')
    BY <1>1, <1>3, <1>5 DEF Bare, Restoring
  <2>3. CASE Restoring \/ ~Bare
    BY <2>2, <2>3 DEF Guarded
  <2>4. CASE ~Restoring /\ Bare
    <3>1. Configured(text) # {}
      BY <1>1, <1>4, <2>1, <2>4 DEF Guarded, GuardedJob, Names
    <3>2. QED BY <1>3, <1>5, <2>1, <2>2, <3>1, IdleJob, GuardKept
  <2>5. QED BY <2>3, <2>4
<1>11. QED BY <1>7, <1>8, <1>9, <1>10 DEF ClaimInv

\* A step of a reset that leaves the settings in order, the owner retained and the lists
\* in memory as they are.
LEMMA ResetClaims ==
    ASSUME DiskInv, NEW tidy, ClaimInv(tidy), NEW h \in Handlers,
           jobs[h].op = "reset", jobs' \in {Next1(h), Done(h)},
           UNCHANGED <<phase, backups, admins, sessions, trusted, marks>>,
           ~marks.cut => files'.settings \in tidy,
           ~marks.opened => files'.setupOwner \in trusted \cup {Absent}
                            /\ (files'.setupOwner # Absent \/ (files' = files /\ jobs' = Done(h))),
           OnDisk(files') \in {OnDisk(files), {}}
    PROVE  ClaimInv(tidy)'
<1>1. /\ \/ jobs'[h].op = "reset" /\ jobs'[h].by = jobs[h].by
         \/ jobs'[h].op = "idle"
      /\ jobs' = Done(h) => jobs'[h].op = "idle"
      /\ \A g \in Handlers \ {h} : jobs'[g] = jobs[g]
  BY NextJob, DoneJobs DEF DiskInv, ConsoleShape
<1>2. TidyJob(jobs'[h], tidy) /\ GuardedJob(jobs'[h])
  BY <1>1 DEF TidyJob, GuardedJob
<1>3. ~marks'.cut => Tidied(tidy)'
  BY <1>1, <1>2, TidyKept DEF ClaimInv
<1>4. ASSUME ~marks'.opened PROVE OwnerHeld'
  <2>1. OwnerHeld
    BY <1>4 DEF ClaimInv
  <2>2. TrustedFiles(files', trusted') /\ TrustedJob(jobs'[h], trusted')
    BY <1>1, <1>4, <2>1 DEF OwnerHeld, Trusting, TrustedFiles, TrustedJob
  <2>3. Trusting'
    BY <1>1, <2>1, <2>2, TrustKept DEF OwnerHeld, Trusting
  <2>4. files'.setupOwner # Absent \/ (files'.setupOwner = files.setupOwner /\ jobs'[h].op = "idle")
    BY <1>1, <1>4
  <2>5. Unclaimed'
    BY <2>1, <2>4 DEF OwnerHeld, Unclaimed
  <2>6. Retained'
    BY <1>1, <2>1, <2>4, RetainKept, IdleJob DEF OwnerHeld
  <2>7. Apart'
    BY <1>1, <2>1, ApartKept DEF OwnerHeld, Replaces
  <2>8. QED BY <2>3, <2>5, <2>6, <2>7 DEF OwnerHeld
<1>5. ASSUME ~marks'.opened, ~marks'.cut PROVE Guarded'
  <2>1. Guarded
    BY <1>5 DEF ClaimInv
  <2>2. CASE files'.setupOwner # Absent
    BY <2>2 DEF Guarded, Bare
  <2>3. CASE files' = files
    <3>1. (Bare' <=> Bare) /\ (Restoring => Restoring')
      BY <1>1, <2>3 DEF Bare, Restoring
    <3>2. QED BY <1>1, <1>2, <2>1, <2>3, <3>1, GuardKept
  <2>4. QED BY <1>5, <2>2, <2>3
<1>6. QED BY <1>3, <1>4, <1>5 DEF ClaimInv

LEMMA ResetStepsClaim ==
    ASSUME DiskInv, NEW tidy, KeepsConfigured(tidy), ClaimInv(tidy), NEW h \in Handlers,
           ResetOwner(h) \/ ResetSettings(h) \/ ResetAdminsFile(h)
    PROVE  ClaimInv(tidy)'
<1>1. IsFiles(files)
  BY DEF DiskInv, ConsoleShape
<1>2. /\ ~marks.cut => files.settings \in tidy
      /\ ~marks.opened => files.setupOwner \in trusted \cup {Absent} /\ TrustedJob(jobs[h], trusted)
                          /\ (Begun(jobs[h]) => files.setupOwner # Absent)
  BY DEF ClaimInv, Tidied, OwnerHeld, Trusting, TrustedFiles, Retained
<1>3. CASE ResetOwner(h)
  <2>1. /\ jobs[h].op = "reset" /\ jobs' = Next1(h)
        /\ UNCHANGED <<phase, backups, admins, sessions, trusted, marks>>
        /\ files' = [files EXCEPT !.setupOwner = jobs[h].by]
    BY <1>3 DEF ResetOwner, At, Untouched, compVars
  <2>2. jobs[h].by # Absent
    BY <2>1, NextJob
  <2>3. /\ files'.settings = files.settings /\ files'.setupOwner = jobs[h].by
        /\ OnDisk(files') = OnDisk(files)
    BY <1>1, <2>1 DEF IsFiles, OnDisk
  <2>4. ~marks.opened => files'.setupOwner \in trusted /\ files'.setupOwner # Absent
    BY <1>2, <2>1, <2>2, <2>3 DEF TrustedJob
  <2>5. QED BY <1>2, <2>1, <2>3, <2>4, ResetClaims
<1>4. CASE ResetSettings(h)
  <2>1. /\ jobs[h].op = "reset" /\ jobs[h].step = 2
        /\ UNCHANGED <<phase, backups, admins, sessions, trusted, marks>>
    BY <1>4 DEF ResetSettings, At, Untouched, compVars
  <2>2. ~marks.opened => files.setupOwner # Absent
    BY <1>2, <2>1 DEF Begun
  <2>3. CASE files' = files /\ jobs' = Done(h)
    BY <1>2, <2>1, <2>3, ResetClaims
  <2>4. ASSUME NEW secret \in ReadScalar(files.settings, "relay_secret_key"),
               files' = [files EXCEPT !.settings = SetupMode(secret)], jobs' = Next1(h)
        PROVE  ClaimInv(tidy)'
    <3>1. /\ files'.settings = SetupMode(secret) /\ files'.setupOwner = files.setupOwner
          /\ OnDisk(files') = OnDisk(files)
      BY <1>1, <2>4 DEF IsFiles, OnDisk
    <3>2. ~marks.cut => files'.settings \in tidy
      BY <1>2, <3>1 DEF KeepsConfigured
    <3>3. QED BY <1>2, <2>1, <2>2, <2>4, <3>1, <3>2, ResetClaims
  <2>5. QED BY <1>4, <2>3, <2>4 DEF ResetSettings
<1>5. CASE ResetAdminsFile(h)
  <2>1. /\ jobs[h].op = "reset" /\ jobs[h].step = 3 /\ jobs' = Next1(h)
        /\ UNCHANGED <<phase, backups, admins, sessions, trusted, marks>>
        /\ files' = [files EXCEPT !.admins = {}]
    BY <1>5 DEF ResetAdminsFile, At, Untouched, compVars
  <2>2. /\ files'.settings = files.settings /\ files'.setupOwner = files.setupOwner
        /\ OnDisk(files') = {}
    BY <1>1, <2>1 DEF IsFiles, OnDisk
  <2>3. ~marks.opened => files'.setupOwner # Absent
    BY <1>2, <2>1, <2>2 DEF Begun
  <2>4. QED BY <1>2, <2>1, <2>2, <2>3, ResetClaims
<1>6. QED BY <1>3, <1>4, <1>5

LEMMA ResetMemoryClaims ==
    ASSUME DiskInv, NEW tidy, ClaimInv(tidy), NEW h \in Handlers, ResetMemory(h)
    PROVE  ClaimInv(tidy)'
<1>1. /\ jobs[h].op = "reset" /\ jobs[h].step = 4 /\ jobs' = Done(h)
      /\ UNCHANGED <<phase, backups, files, trusted>>
      /\ admins' = {} /\ sessions' = {}
      /\ marks' = [marks EXCEPT !.adrift = @ \/ Crossing(h)]
  BY DEF ResetMemory, At, Untouched, compVars
<1>2. marks'.opened = marks.opened /\ marks'.cut = marks.cut
  BY <1>1 DEF DiskInv, ConsoleShape
<1>3. jobs'[h].op = "idle" /\ \A g \in Handlers \ {h} : jobs'[g] = jobs[g]
  BY <1>1, DoneJobs DEF DiskInv, ConsoleShape
<1>4. ~marks'.cut => Tidied(tidy)'
  BY <1>1, <1>2, <1>3, IdleJob, TidyKept DEF ClaimInv, Tidied
<1>5. ASSUME ~marks'.opened PROVE OwnerHeld'
  <2>1. OwnerHeld
    BY <1>2, <1>5 DEF ClaimInv
  <2>2. Trusting'
    BY <1>1, <1>3, <2>1, IdleJob, TrustKept DEF OwnerHeld, Trusting
  <2>3. files.setupOwner # Absent
    BY <1>1, <2>1 DEF OwnerHeld, Retained, Begun
  <2>4. Unclaimed'
    BY <1>1, <2>3 DEF Unclaimed
  <2>5. Retained' /\ Apart'
    BY <1>1, <1>3, <2>1, IdleJob, RetainKept, ApartKept DEF OwnerHeld
  <2>6. QED BY <2>2, <2>4, <2>5 DEF OwnerHeld
<1>6. ASSUME ~marks'.opened, ~marks'.cut PROVE Guarded'
  <2>1. Guarded
    BY <1>2, <1>6 DEF ClaimInv
  <2>2. (Bare' <=> Bare) /\ (Restoring => Restoring')
    BY <1>1, <1>3 DEF Bare, OnDisk, Restoring
  <2>3. QED BY <1>1, <1>3, <2>1, <2>2, IdleJob, GuardKept
<1>7. QED BY <1>2, <1>4, <1>5, <1>6 DEF ClaimInv

-----------------------------------------------------------------------------
(* Restoring. *)

LEMMA RestoreFileClaims ==
    ASSUME DiskInv, NEW tidy, ClaimInv(tidy), NEW h \in Handlers, RestoreFile(h)
    PROVE  ClaimInv(tidy)'
<1>1. /\ jobs[h].op = "restore" /\ jobs' = Next1(h) /\ jobs[h].step <= Len(Restored)
      /\ files' = [files EXCEPT ![Restored[jobs[h].step]] = jobs[h].from[Restored[jobs[h].step]]]
      /\ UNCHANGED <<phase, backups, admins, sessions, trusted>>
      /\ marks' = [marks EXCEPT !.opened = @ \/ (admins = {} /\ files'.setupOwner = Absent)]
  BY DEF RestoreFile, Untouched, compVars
<1>2. IsFiles(files) /\ {"adrift", "opened", "cut"} \subseteq DOMAIN marks
  BY DEF DiskInv, ConsoleShape
<1>3. /\ jobs'[h].op = "restore" /\ jobs'[h].from = jobs[h].from /\ jobs[h].step \in Nat \ {0}
      /\ \A g \in Handlers \ {h} : jobs'[g] = jobs[g]
  BY <1>1, NextJob
<1>4. PICK from : from = jobs[h].from
  OBVIOUS
<1>5. /\ files'.settings \in {files.settings, from.settings}
      /\ files'.setupOwner \in {files.setupOwner, from.setupOwner}
      /\ files'.admins \in {files.admins, from.admins}
  <2>1. Restored[jobs[h].step] \in {"settings", "admins", "setupOwner", "relayOwner"}
    BY <1>1, <1>3 DEF Restored
  <2>2. PICK name : name = Restored[jobs[h].step]
    OBVIOUS
  <2>3. files' = [files EXCEPT ![name] = from[name]]
    BY <1>1, <1>4, <2>2
  <2>4. QED BY <1>2, <2>1, <2>2, <2>3 DEF IsFiles
<1>6. OnDisk(files') \in {OnDisk(files), OnDisk(from)}
  BY <1>5 DEF OnDisk
<1>7. /\ marks'.opened = (marks.opened \/ (admins = {} /\ files'.setupOwner = Absent))
      /\ marks'.cut = marks.cut
  BY <1>1, <1>2
<1>8. /\ marks'.opened \in BOOLEAN /\ marks'.cut \in BOOLEAN
      /\ ~marks'.opened => ~marks.opened /\ ~(admins = {} /\ files'.setupOwner = Absent)
  BY <1>7 DEF ClaimInv
<1>9. ASSUME ~marks'.cut PROVE Tidied(tidy)'
  <2>1. Tidied(tidy) /\ TidyJob(jobs[h], tidy)
    BY <1>7, <1>9 DEF ClaimInv, Tidied
  <2>2. from.settings \in tidy /\ TidyJob(jobs'[h], tidy)
    BY <1>1, <1>3, <1>4, <2>1 DEF TidyJob
  <2>3. files'.settings \in tidy
    BY <1>5, <2>1, <2>2 DEF Tidied
  <2>4. QED BY <1>1, <1>3, <2>1, <2>2, <2>3, TidyKept
<1>10. ASSUME ~marks'.opened PROVE OwnerHeld'
  <2>1. OwnerHeld /\ TrustedJob(jobs[h], trusted)
    BY <1>8, <1>10 DEF ClaimInv, OwnerHeld, Trusting
  <2>2. TrustedFiles(from, trusted) /\ TrustedJob(jobs'[h], trusted)
    BY <1>1, <1>3, <1>4, <2>1 DEF TrustedJob
  <2>3. TrustedFiles(files', trusted')
    BY <1>1, <1>5, <1>6, <2>1, <2>2 DEF TrustedFiles, OwnerHeld, Trusting
  <2>4. Trusting'
    BY <1>1, <1>3, <2>1, <2>2, <2>3, TrustKept DEF OwnerHeld, Trusting
  <2>5. Unclaimed'
    BY <1>1, <1>8, <1>10 DEF Unclaimed
  <2>6. Retained'
    <3>1. \A g \in Handlers : jobs'[g].op # "reset"
      BY <1>1, <1>3, <2>1 DEF OwnerHeld, Apart, Replaces
    <3>2. QED BY <3>1 DEF Retained, Begun
  <2>7. Apart'
    BY <1>1, <1>3, <2>1, ApartKept DEF OwnerHeld, Replaces
  <2>8. QED BY <2>4, <2>5, <2>6, <2>7 DEF OwnerHeld
<1>11. Guarded'
  BY <1>3 DEF Guarded, Restoring
<1>12. QED BY <1>8, <1>9, <1>10, <1>11 DEF ClaimInv

LEMMA RestoreApplyClaims ==
    ASSUME DiskInv, NEW tidy, ClaimInv(tidy), NEW h \in Handlers, RestoreApply(h)
    PROVE  ClaimInv(tidy)'
<1>1. /\ jobs' = Done(h) /\ admins' = OnDisk(files)
      /\ UNCHANGED <<phase, backups, files, sessions, trusted>>
      /\ marks' = [marks EXCEPT !.adrift = Crossing(h),
                     !.opened = @ \/ (OnDisk(files) = {} /\ files.setupOwner = Absent)]
  BY DEF RestoreApply, Untouched, compVars
<1>2. {"adrift", "opened", "cut"} \subseteq DOMAIN marks
  BY DEF DiskInv, ConsoleShape
<1>3. jobs'[h].op = "idle" /\ \A g \in Handlers \ {h} : jobs'[g] = jobs[g]
  BY <1>1, DoneJobs DEF DiskInv, ConsoleShape
<1>4. /\ marks'.opened = (marks.opened \/ (OnDisk(files) = {} /\ files.setupOwner = Absent))
      /\ marks'.cut = marks.cut
  BY <1>1, <1>2
<1>5. /\ marks'.opened \in BOOLEAN /\ marks'.cut \in BOOLEAN
      /\ ~marks'.opened => ~marks.opened /\ ~(OnDisk(files) = {} /\ files.setupOwner = Absent)
  BY <1>4 DEF ClaimInv
<1>6. ~marks'.cut => Tidied(tidy)'
  BY <1>1, <1>3, <1>4, IdleJob, TidyKept DEF ClaimInv, Tidied
<1>7. ASSUME ~marks'.opened PROVE OwnerHeld'
  <2>1. OwnerHeld
    BY <1>5, <1>7 DEF ClaimInv
  <2>2. Trusting'
    BY <1>1, <1>3, <2>1, IdleJob, TrustKept DEF OwnerHeld, Trusting, TrustedFiles
  <2>3. Unclaimed'
    BY <1>1, <1>5, <1>7 DEF Unclaimed
  <2>4. Retained' /\ Apart'
    BY <1>1, <1>3, <2>1, IdleJob, RetainKept, ApartKept DEF OwnerHeld
  <2>5. QED BY <2>2, <2>3, <2>4 DEF OwnerHeld
<1>8. ASSUME ~marks'.opened PROVE Guarded'
  BY <1>1, <1>5, <1>8 DEF Guarded, Bare, OnDisk
<1>9. QED BY <1>5, <1>6, <1>7, <1>8 DEF ClaimInv

LEMMA FailClaims ==
    ASSUME DiskInv, NEW tidy, ClaimInv(tidy), NEW h \in Handlers, Fail(h)
    PROVE  ClaimInv(tidy)'
<1>1. /\ jobs' = Done(h)
      /\ UNCHANGED <<phase, backups, files, admins, sessions, trusted>>
      /\ marks' = [marks EXCEPT !.adrift = @ \/ jobs[h].op = "restore",
                                !.cut = @ \/ jobs[h].op = "restore"]
  BY DEF Fail, Untouched, compVars
<1>2. {"adrift", "opened", "cut"} \subseteq DOMAIN marks
  BY DEF DiskInv, ConsoleShape
<1>3. jobs'[h].op = "idle" /\ \A g \in Handlers \ {h} : jobs'[g] = jobs[g]
  BY <1>1, DoneJobs DEF DiskInv, ConsoleShape
<1>4. marks'.opened = marks.opened /\ marks'.cut = (marks.cut \/ jobs[h].op = "restore")
  BY <1>1, <1>2
<1>5. /\ marks'.opened \in BOOLEAN /\ marks'.cut \in BOOLEAN
      /\ ~marks'.cut => ~marks.cut /\ jobs[h].op # "restore"
  BY <1>4 DEF ClaimInv
<1>6. ~marks'.cut => Tidied(tidy)'
  BY <1>1, <1>3, <1>5, IdleJob, TidyKept DEF ClaimInv, Tidied
<1>7. ASSUME ~marks'.opened PROVE OwnerHeld'
  <2>1. OwnerHeld
    BY <1>4, <1>7 DEF ClaimInv
  <2>2. Trusting'
    BY <1>1, <1>3, <2>1, IdleJob, TrustKept DEF OwnerHeld, Trusting
  <2>3. Unclaimed'
    BY <1>1, <2>1 DEF OwnerHeld, Unclaimed
  <2>4. Retained' /\ Apart'
    BY <1>1, <1>3, <2>1, IdleJob, RetainKept, ApartKept DEF OwnerHeld
  <2>5. QED BY <2>2, <2>3, <2>4 DEF OwnerHeld
<1>8. ASSUME ~marks'.opened, ~marks'.cut PROVE Guarded'
  <2>1. Guarded /\ jobs[h].op # "restore"
    BY <1>4, <1>5, <1>8 DEF ClaimInv
  <2>2. (Bare' <=> Bare) /\ (Restoring => Restoring')
    BY <1>1, <1>3, <2>1 DEF Bare, OnDisk, Restoring
  <2>3. QED BY <1>1, <1>3, <2>1, <2>2, IdleJob, GuardKept
<1>9. QED BY <1>4, <1>5, <1>6, <1>7, <1>8 DEF ClaimInv

LEMMA HandleKeepsClaims ==
    ASSUME DiskInv, NEW tidy, KeepsConfigured(tidy), ClaimInv(tidy), NEW h \in Handlers, Handle(h)
    PROVE  ClaimInv(tidy)'
BY SetupClaimsFirst, SetupRecordClaims, SetupFinishClaims, EndSaveClaims, ResetStepsClaim,
   ResetMemoryClaims, RestoreFileClaims, RestoreApplyClaims, FailClaims
DEF Handle

-----------------------------------------------------------------------------
(* Administering and restarting. *)

\* No handler moves and the settings stay: what is asked of the lists.
LEMMA AdminsClaim ==
    ASSUME DiskInv, NEW tidy, ClaimInv(tidy),
           UNCHANGED <<phase, jobs, backups>>,
           marks'.opened = marks.opened, marks'.cut = marks.cut,
           files'.settings = files.settings, files'.setupOwner = files.setupOwner,
           trusted \subseteq trusted',
           ~marks.opened => /\ admins' \cup sessions' \cup OnDisk(files') \subseteq trusted'
                            /\ trusted = {} => trusted' = {}
                            /\ admins' = {} => admins = {}
                            /\ OnDisk(files') = {} => OnDisk(files) = {}
    PROVE  ClaimInv(tidy)'
<1>1. marks'.opened \in BOOLEAN /\ marks'.cut \in BOOLEAN
  BY DEF ClaimInv
<1>2. ~marks'.cut => Tidied(tidy)'
  BY TidyKept DEF ClaimInv, Tidied
<1>3. ASSUME ~marks'.opened PROVE OwnerHeld'
  <2>1. OwnerHeld
    BY <1>3 DEF ClaimInv
  <2>2. TrustedFiles(files', trusted')
    BY <1>3, <2>1 DEF OwnerHeld, Trusting, TrustedFiles
  <2>3. Trusting'
    BY <1>3, <2>1, <2>2, TrustKept DEF OwnerHeld
  <2>4. Unclaimed'
    BY <1>3, <2>1 DEF OwnerHeld, Unclaimed
  <2>5. Retained' /\ Apart'
    BY <2>1, RetainKept, ApartKept DEF OwnerHeld
  <2>6. QED BY <2>3, <2>4, <2>5 DEF OwnerHeld
<1>4. ASSUME ~marks'.opened, ~marks'.cut PROVE Guarded'
  <2>1. Guarded
    BY <1>4 DEF ClaimInv
  <2>2. (Bare' => Bare) /\ (Restoring => Restoring')
    BY <1>4 DEF Bare, Restoring
  <2>3. QED BY <2>1, <2>2, GuardKept
<1>5. QED BY <1>1, <1>2, <1>3, <1>4 DEF ClaimInv

LEMMA SavingAdmins ==
    ASSUME IsFiles(files), {"adrift", "opened", "cut"} \subseteq DOMAIN marks,
           NEW list \in SUBSET Keys, SaveAdmins(list)
    PROVE  /\ marks'.opened = marks.opened /\ marks'.cut = marks.cut
           /\ files'.settings = files.settings /\ files'.setupOwner = files.setupOwner
           /\ OnDisk(files') \in {OnDisk(files), list}
<1>1. CASE /\ files' = [files EXCEPT !.admins = list]
           /\ marks' = [marks EXCEPT !.adrift = InFlight({"reset", "restore"}) # {}]
  BY <1>1 DEF OnDisk, IsFiles
<1>2. CASE UNCHANGED files /\ marks' = [marks EXCEPT !.adrift = TRUE]
  BY <1>2
<1>3. QED BY <1>1, <1>2 DEF SaveAdmins

LEMMA AdministerKeepsClaims ==
    ASSUME DiskInv, NEW tidy, ClaimInv(tidy), Administer
    PROVE  ClaimInv(tidy)'
<1>1. /\ IsFiles(files) /\ admins \subseteq Keys
      /\ {"adrift", "opened", "cut"} \subseteq DOMAIN marks
  BY DEF DiskInv, ConsoleShape
<1>2. ~marks.opened => admins \cup sessions \cup OnDisk(files) \subseteq trusted
  BY DEF ClaimInv, OwnerHeld, Trusting, TrustedFiles
<1>3. CASE \E k, p \in Keys : AddAdmin(k, p)
  <2>1. PICK k \in Keys, p \in Keys : AddAdmin(k, p)
    BY <1>3
  <2>2. /\ k \in sessions /\ admins' = admins \cup {p} /\ trusted' = trusted \cup {p}
        /\ SaveAdmins(admins \cup {p})
        /\ UNCHANGED <<phase, jobs, backups, sessions>>
    BY <2>1 DEF AddAdmin, Ask, Untouched, compVars
  <2>3. PICK list : list = admins \cup {p}
    OBVIOUS
  <2>4. /\ marks'.opened = marks.opened /\ marks'.cut = marks.cut
        /\ files'.settings = files.settings /\ files'.setupOwner = files.setupOwner
        /\ OnDisk(files') \in {OnDisk(files), list}
    BY <1>1, <2>2, <2>3, SavingAdmins
  <2>5. trusted = {} => marks.opened
    BY <1>2, <2>2
  <2>6. QED BY <1>2, <2>2, <2>3, <2>4, <2>5, AdminsClaim
<1>4. CASE \E k, p \in Keys : RemoveAdmin(k, p)
  <2>1. PICK k \in Keys, p \in Keys : RemoveAdmin(k, p)
    BY <1>4
  <2>2. /\ Cardinality(admins) > 1 /\ admins' = admins \ {p}
        /\ SaveAdmins(admins \ {p})
        /\ UNCHANGED <<phase, jobs, backups, sessions, trusted>>
    BY <2>1 DEF RemoveAdmin, Ask, Untouched, compVars
  <2>3. PICK list : list = admins \ {p}
    OBVIOUS
  <2>4. list # {}
    <3>1. list = {} => admins = {} \/ admins = {p}
      BY <2>3
    <3>2. Cardinality({}) = 0 /\ Cardinality({p}) = 1
      BY FS_EmptySet, FS_Singleton
    <3>3. QED BY <2>2, <3>1, <3>2
  <2>5. /\ marks'.opened = marks.opened /\ marks'.cut = marks.cut
        /\ files'.settings = files.settings /\ files'.setupOwner = files.setupOwner
        /\ OnDisk(files') \in {OnDisk(files), list}
    BY <1>1, <2>2, <2>3, SavingAdmins
  <2>6. QED BY <1>2, <2>2, <2>3, <2>4, <2>5, AdminsClaim
<1>5. CASE \E k \in Keys : Auth(k) \/ AdoptOwner(k) \/ RestartRelay(k) \/ CompactDatabase(k)
  <2>1. UNCHANGED <<phase, jobs, backups, admins, trusted, marks>>
    BY <1>5 DEF Auth, AdoptOwner, RestartRelay, CompactDatabase, Untouched, compVars,
         StageRequest, memory
  <2>2. /\ files'.settings = files.settings /\ files'.setupOwner = files.setupOwner
        /\ files'.admins = files.admins
    BY <1>1, <1>5 DEF Auth, AdoptOwner, RestartRelay, CompactDatabase, IsFiles
  <2>3. sessions' \subseteq sessions \cup admins
    BY <1>5 DEF Auth, SignIn, AdoptOwner, RestartRelay, CompactDatabase, memory
  <2>4. OnDisk(files') = OnDisk(files)
    BY <2>2 DEF OnDisk
  <2>5. QED BY <1>2, <2>1, <2>2, <2>3, <2>4, AdminsClaim
<1>6. QED BY <1>3, <1>4, <1>5 DEF Administer

\* Without handlers: what is asked of a relay that ends or starts.
LEMMA RestartClaims ==
    ASSUME NEW tidy, ClaimInv(tidy), \A h \in Handlers : jobs'[h].op = "idle",
           backups' = backups, marks'.opened \in BOOLEAN, marks'.cut \in BOOLEAN,
           ~marks'.opened => ~marks.opened, ~marks'.cut => ~marks.cut,
           ~marks'.cut => files'.settings \in tidy,
           files'.setupOwner = files.setupOwner, OnDisk(files') \in {OnDisk(files), {}},
           trusted \subseteq trusted',
           ~marks'.opened => admins' \cup sessions' \subseteq trusted',
           ~marks'.opened => Unclaimed',
           ~marks'.opened /\ ~marks'.cut => (Bare' => Configured(files'.settings) # {})
    PROVE  ClaimInv(tidy)'
<1>1. ~marks'.cut => Tidied(tidy)'
  BY IdleJob, TidyKept DEF ClaimInv
<1>2. ASSUME ~marks'.opened PROVE OwnerHeld'
  <2>1. OwnerHeld
    BY <1>2 DEF ClaimInv
  <2>2. TrustedFiles(files', trusted')
    BY <2>1 DEF OwnerHeld, Trusting, TrustedFiles
  <2>3. Trusting'
    BY <1>2, <2>1, <2>2, IdleJob, TrustKept DEF OwnerHeld
  <2>4. Retained' /\ Apart'
    BY <2>1, IdleJob, RetainKept, ApartKept DEF OwnerHeld
  <2>5. QED BY <1>2, <2>3, <2>4 DEF OwnerHeld
<1>3. ASSUME ~marks'.opened, ~marks'.cut PROVE Guarded'
  BY <1>3, IdleJob DEF Guarded
<1>4. QED BY <1>1, <1>2, <1>3 DEF ClaimInv

LEMMA EndClaims ==
    ASSUME DiskInv, NEW tidy, ClaimInv(tidy), End
    PROVE  ClaimInv(tidy)'
<1>1. /\ \A h \in Handlers : jobs'[h].op = "idle"
      /\ admins' = {} /\ sessions' = {} /\ phase' = "down" /\ UNCHANGED <<backups, trusted>>
      /\ files' \in Cut
      /\ marks' = [marks EXCEPT !.cut = @ \/ files' # files \/ InFlight({"restore"}) # {}]
  BY DEF End, Halt, Idle
<1>2. IsFiles(files) /\ {"adrift", "opened", "cut"} \subseteq DOMAIN marks
  BY DEF DiskInv, ConsoleShape
<1>3. /\ marks'.cut = (marks.cut \/ files' # files \/ InFlight({"restore"}) # {})
      /\ marks'.opened = marks.opened
  BY <1>1, <1>2
<1>4. /\ marks'.opened \in BOOLEAN /\ marks'.cut \in BOOLEAN
      /\ ~marks'.cut => ~marks.cut /\ files' = files /\ InFlight({"restore"}) = {}
  BY <1>3 DEF ClaimInv
<1>5. files'.setupOwner = files.setupOwner /\ OnDisk(files') \in {OnDisk(files), {}}
  BY <1>1, <1>2 DEF Cut, OnDisk, IsFiles
<1>6. ~marks'.cut => files'.settings \in tidy
  BY <1>4 DEF ClaimInv, Tidied
<1>7. Unclaimed'
  BY <1>1 DEF Unclaimed
<1>8. ASSUME ~marks'.opened, ~marks'.cut, Bare' PROVE Configured(files'.settings) # {}
  <2>1. Guarded /\ files' = files /\ ~Restoring
    BY <1>3, <1>4, <1>8 DEF ClaimInv, InFlight, Restoring
  <2>2. Bare
    BY <1>1, <1>8, <2>1 DEF Bare, OnDisk
  <2>3. QED BY <2>1, <2>2 DEF Guarded
<1>9. QED BY <1>1, <1>3, <1>4, <1>5, <1>6, <1>7, <1>8, RestartClaims

LEMMA StartClaims ==
    ASSUME DiskInv, NEW tidy, KeepsConfigured(tidy), ClaimInv(tidy), Boot \/ Serve
    PROVE  ClaimInv(tidy)'
<1>1. phase \in {"down", "open"} /\ UNCHANGED <<jobs, backups, sessions>>
  BY DEF Boot, Serve, OpenDatabase, memory
<1>2. \A h \in Handlers : jobs'[h].op = "idle"
  BY <1>1 DEF DiskInv, UpOnly
<1>3. IsFiles(files) /\ {"adrift", "opened", "cut"} \subseteq DOMAIN marks
  BY DEF DiskInv, ConsoleShape
<1>4. ~Restoring
  BY <1>1 DEF DiskInv, UpOnly, Restoring
<1>5. ~marks.opened => /\ admins \cup sessions \cup OnDisk(files) \subseteq trusted
                       /\ ~marks.cut => (Bare => Configured(files.settings) # {})
  BY <1>4 DEF ClaimInv, OwnerHeld, Trusting, TrustedFiles, Guarded
<1>6. CASE Boot
  <2>1. /\ phase' = "boot" /\ UNCHANGED <<admins, trusted, marks>>
        /\ files' = [files EXCEPT !.settings = EnsureIdentity(files.settings)]
    BY <1>6 DEF Boot, memory
  <2>2. /\ files'.settings = EnsureIdentity(files.settings)
        /\ files'.setupOwner = files.setupOwner /\ OnDisk(files') = OnDisk(files)
    BY <1>3, <2>1 DEF IsFiles, OnDisk
  <2>3. ~marks.cut => /\ files'.settings \in tidy
                      /\ Configured(files'.settings) = Configured(files.settings)
    BY <2>2 DEF ClaimInv, Tidied, KeepsConfigured
  <2>4. Unclaimed' /\ (Bare' <=> Bare)
    BY <2>1, <2>2 DEF Unclaimed, Bare
  <2>5. marks.opened \in BOOLEAN /\ marks.cut \in BOOLEAN
    BY DEF ClaimInv
  <2>6. QED BY <1>1, <1>2, <1>5, <2>1, <2>2, <2>3, <2>4, <2>5, RestartClaims
<1>7. CASE Serve
  <2>1. /\ UNCHANGED files
        /\ configured' = Configured(files.settings)
        /\ admins' = configured' \cup OnDisk(files)
        /\ trusted' = trusted \cup configured'
        /\ marks' = [marks EXCEPT !.adrift = FALSE,
                       !.opened = @ \/ (marks.cut /\ admins' = {} /\ files.setupOwner = Absent)]
    BY <1>7 DEF Serve
  <2>2. /\ marks'.opened = (marks.opened \/ (marks.cut /\ admins' = {} /\ files.setupOwner = Absent))
        /\ marks'.cut = marks.cut
    BY <1>3, <2>1
  <2>3. /\ marks'.opened \in BOOLEAN /\ marks'.cut \in BOOLEAN
        /\ ~marks'.opened => ~marks.opened
        /\ ~marks'.opened /\ admins' = {} /\ files.setupOwner = Absent => ~marks.cut
    BY <2>2 DEF ClaimInv
  <2>4. ~marks'.cut => files'.settings \in tidy
    BY <2>1, <2>2 DEF ClaimInv, Tidied
  <2>5. ASSUME ~marks'.opened PROVE admins' \cup sessions' \subseteq trusted' /\ Unclaimed'
    <3>1. admins' \cup sessions' \subseteq trusted'
      BY <1>1, <1>5, <2>1, <2>3, <2>5
    <3>2. ASSUME admins' = {}, files.setupOwner = Absent PROVE trusted' = {}
      <4>1. Configured(files.settings) = {} /\ OnDisk(files) = {} /\ ~marks.cut
        BY <2>1, <2>3, <2>5, <3>2
      <4>2. ~Bare
        BY <1>5, <2>3, <2>5, <4>1
      <4>3. trusted = {}
        BY <3>2, <4>1, <4>2 DEF Bare
      <4>4. QED BY <2>1, <4>1, <4>3
    <3>3. QED BY <2>1, <3>1, <3>2 DEF Unclaimed
  <2>6. ASSUME ~marks'.opened, ~marks'.cut, Bare' PROVE Configured(files'.settings) # {}
    <3>1. Bare \/ configured' # {}
      BY <2>1, <2>6 DEF Bare, OnDisk
    <3>2. QED BY <1>5, <2>1, <2>2, <2>3, <2>6, <3>1
  <2>7. OnDisk(files') = OnDisk(files)
    BY <2>1
  <2>8. QED BY <1>1, <1>2, <2>1, <2>2, <2>3, <2>4, <2>5, <2>6, <2>7, RestartClaims
<1>8. QED BY <1>6, <1>7

LEMMA BesideClaims ==
    ASSUME NEW tidy, ClaimInv(tidy), UNCHANGED consoleVars, phase' = "up" => phase = "up"
    PROVE  ClaimInv(tidy)'
<1>1. UNCHANGED <<admins, sessions, jobs, files, backups, trusted, marks>>
  BY DEF consoleVars, memory
<1>2. OwnerHeld => OwnerHeld'
  BY <1>1 DEF OwnerHeld, Trusting, TrustedFiles, TrustedJob, OnDisk, Unclaimed, Retained, Begun,
              Apart, Replaces
<1>3. Guarded => Guarded'
  BY <1>1 DEF Guarded, GuardedJob, Names, Bare, Restoring, OnDisk, Headless
<1>4. Tidied(tidy) => Tidied(tidy)'
  BY <1>1 DEF Tidied, TidyJob, Headless
<1>5. QED BY <1>1, <1>2, <1>3, <1>4 DEF ClaimInv

\* Once the relay has an owner nobody becomes an admin but by an admin, for any keys, any
\* number of handlers, requests, failed writes and crashes, but as the property names; the
\* screens must keep whom the deployed settings configure (handle_setup, handle_config_reset).
THEOREM ClaimedForGood ==
    ASSUME NEW tidy, KeepsConfigured(tidy)
    PROVE  Spec => []ClaimedStaysClaimed
<1>1. ClaimInv(tidy) => ClaimedStaysClaimed
  BY DEF ClaimInv, OwnerHeld, Trusting, ClaimedStaysClaimed
<1>2. Init => ClaimInv(tidy)
  <2> SUFFICES ASSUME Init PROVE ClaimInv(tidy)
    OBVIOUS
  <2>1. PICK f \in FirstFiles : files = [NoFiles EXCEPT !.settings = f] /\ configured = Configured(f)
    BY DEF Init
  <2>2. /\ files.settings = f /\ files.setupOwner = Absent /\ OnDisk(files) = {}
    BY <2>1 DEF NoFiles, OnDisk
  <2>3. /\ admins = configured /\ trusted = configured /\ sessions = {} /\ backups = {}
        /\ \A h \in Handlers : jobs[h].op = "idle"
        /\ marks.opened = FALSE /\ marks.cut = FALSE
    BY DEF Init, Idle
  <2>4. Tidied(tidy)
    BY <2>2, <2>3, IdleJob DEF Tidied, KeepsConfigured
  <2>5. Trusting
    BY <2>2, <2>3, IdleJob DEF Trusting, TrustedFiles
  <2>6. Unclaimed
    BY <2>3 DEF Unclaimed
  <2>7. Retained /\ Apart
    BY <2>3, IdleJob DEF Retained, Apart
  <2>8. Guarded
    BY <2>1, <2>2, <2>3, IdleJob DEF Guarded, Bare
  <2>9. QED BY <2>3, <2>4, <2>5, <2>6, <2>7, <2>8 DEF ClaimInv, OwnerHeld
<1>3. DiskInv /\ ClaimInv(tidy) /\ [Next]_vars => ClaimInv(tidy)'
  <2> SUFFICES ASSUME DiskInv, ClaimInv(tidy), [Next]_vars PROVE ClaimInv(tidy)'
    OBVIOUS
  <2>1. CASE \E h \in Handlers : Begin(h) \/ Handle(h)
    BY <2>1, BeginKeepsClaims, HandleKeepsClaims
  <2>2. CASE Administer
    BY <2>2, AdministerKeepsClaims
  <2>3. CASE End
    BY <2>3, EndClaims
  <2>4. CASE Boot \/ Serve
    BY <2>4, StartClaims
  <2>5. CASE (Compacting \/ \E e \in Events : Store(e)) /\ UNCHANGED consoleVars
    <3>1. phase' = "up" => phase = "up"
      BY <2>5 DEF Compacting, RunPending, Check, StartCopy, EndCopy, SetAside, MoveIn, Verify, RestoreOriginal,
           DropOriginal, Store
    <3>2. QED BY <2>5, <3>1, BesideClaims
  <2>6. CASE UNCHANGED vars
    BY <2>6, BesideClaims DEF vars, compVars
  <2>7. QED BY <2>1, <2>2, <2>3, <2>4, <2>5, <2>6 DEF Next
<1>4. QED BY <1>1, <1>2, <1>3, DiskInvHolds, PTL DEF Spec
-----------------------------------------------------------------------------
(* What startup loads. *)

\* A save under way writes an edit of what it read; a restore, a file of the kind.
SoundJob(job, sound) ==
    /\ job.op = "save" => /\ job.read \in sound /\ job.edits \in Screens
                          /\ job.text = Edited(job.read, job.edits)
    /\ job.op = "restore" => job.from.settings \in sound

\* Whatever file is there, startup loads from it what was asked of each setting, unless the
\* relay header is lost.
LoadInv(sound) ==
    /\ files.settings \in sound /\ \A b \in backups : b.settings \in sound
    /\ \A h \in Handlers : SoundJob(jobs[h], sound)
    /\ Headless(files.settings) \/ asked = Loaded(files.settings)

LEMMA LoadKept ==
    ASSUME NEW sound, LoadInv(sound), files'.settings \in sound,
           backups' \subseteq backups \cup {files},
           \A h \in Handlers : jobs'[h] = jobs[h] \/ SoundJob(jobs'[h], sound),
           Headless(files'.settings) \/ asked' = Loaded(files'.settings)
    PROVE  LoadInv(sound)'
<1>1. \A h \in Handlers : SoundJob(jobs'[h], sound)
  BY DEF LoadInv
<1>2. \A b \in backups' : b.settings \in sound
  BY DEF LoadInv
<1>3. QED BY <1>1, <1>2 DEF LoadInv, SoundJob, Headless

LEMMA OthersSound == ASSUME NEW job, job.op \notin {"save", "restore"} PROVE \A sound : SoundJob(job, sound)
BY DEF SoundJob

LEMMA BeginLoads ==
    ASSUME DiskInv, NEW sound, KeepsSettings(sound), LoadInv(sound), NEW h \in Handlers, Begin(h)
    PROVE  LoadInv(sound)'
<1>1. \A g \in Handlers : \A job : jobs' = [jobs EXCEPT ![h] = job] =>
        jobs'[g] = IF g = h THEN job ELSE jobs[g]
  BY DEF DiskInv, ConsoleShape, JobsShape
<1>2. ASSUME NEW job, jobs' = [jobs EXCEPT ![h] = job], SoundJob(job, sound),
             UNCHANGED <<files, asked>>, backups' \subseteq backups \cup {files}
      PROVE  LoadInv(sound)'
  <2>1. files'.settings \in sound /\ (Headless(files'.settings) \/ asked' = Loaded(files'.settings))
    BY <1>2 DEF LoadInv
  <2>2. \A g \in Handlers : jobs'[g] = jobs[g] \/ SoundJob(jobs'[g], sound)
    BY <1>1, <1>2
  <2>3. QED BY <1>2, <2>1, <2>2, LoadKept
<1>3. CASE \E k \in Keys : SetupCheck(h, k)
  <2>1. PICK k \in Keys : SetupCheck(h, k)
    BY <1>3
  <2>2. Job("setup", k).op = "setup"
    BY JobsBegin
  <2>3. SoundJob(Job("setup", k), sound)
    BY <2>2, OthersSound
  <2>4. QED BY <1>2, <2>1, <2>3 DEF SetupCheck
<1>4. CASE \E k \in Keys : ResetBegin(h, k)
  <2>1. PICK k \in Keys : ResetBegin(h, k)
    BY <1>4
  <2>2. Job("reset", k).op = "reset"
    BY JobsBegin
  <2>3. SoundJob(Job("reset", k), sound)
    BY <2>2, OthersSound
  <2>4. QED BY <1>2, <2>1, <2>3 DEF ResetBegin
<1>5. CASE \E k \in Keys, edits \in Screens : BeginSave(h, k, edits)
  <2>1. PICK k \in Keys, edits \in Screens : BeginSave(h, k, edits)
    BY <1>5
  <2>2. PICK read \in Readings :
          jobs' = [jobs EXCEPT ![h] = [Job("save", k) EXCEPT
                       !.read = read, !.text = Edited(read, edits), !.edits = edits]]
    BY <2>1 DEF BeginSave
  <2>3. PICK job : job = [Job("save", k) EXCEPT
                       !.read = read, !.text = Edited(read, edits), !.edits = edits]
    OBVIOUS
  <2>4. PICK text : text = Edited(read, edits)
    OBVIOUS
  <2>5. job.op = "save" /\ job.read = read /\ job.text = text /\ job.edits = edits
    BY <2>3, <2>4 DEF Job
  <2>6. read \in sound
    <3>1. read \in {files.settings, <<>>}
      BY DEF Readings
    <3>2. QED BY <3>1 DEF LoadInv, KeepsSettings
  <2>7. SoundJob(job, sound)
    BY <2>4, <2>5, <2>6 DEF SoundJob
  <2>8. UNCHANGED <<files, asked, backups>>
    BY <2>1 DEF BeginSave
  <2>9. QED BY <1>2, <2>2, <2>3, <2>7, <2>8
<1>6. CASE \E k \in Keys, b \in backups : RestoreBegin(h, k, b)
  <2>1. PICK k \in Keys, b \in backups : RestoreBegin(h, k, b)
    BY <1>6
  <2>2. PICK job : job = [Job("restore", k) EXCEPT !.from = b]
    OBVIOUS
  <2>3. job.op = "restore" /\ job.from = b
    BY <2>2, JobsBegin
  <2>4. SoundJob(job, sound)
    BY <2>3 DEF SoundJob, LoadInv
  <2>5. /\ UNCHANGED <<files, asked>> /\ backups' = backups \cup {files}
        /\ jobs' = [jobs EXCEPT ![h] = job]
    BY <2>1, <2>2 DEF RestoreBegin
  <2>6. QED BY <1>2, <2>4, <2>5
<1>7. QED BY <1>3, <1>4, <1>5, <1>6
     DEF Begin, Screens, SaveStorage, SaveWot, SaveIndex, SaveConnection, SaveAccess,
         SaveIdentity, RotateKey

\* A handler moves on or is done, and settings are not written.
LEMMA BesideLoads ==
    ASSUME DiskInv, NEW sound, LoadInv(sound), NEW h \in Handlers, jobs[h].op # "idle",
           jobs' \in {Next1(h), Done(h)}, jobs' = Next1(h) => jobs[h].op # "save",
           files'.settings = files.settings, UNCHANGED <<asked, backups>>
    PROVE  LoadInv(sound)'
<1>1. \A g \in Handlers : jobs'[g] = jobs[g] \/ SoundJob(jobs'[g], sound)
  <2>1. CASE jobs' = Next1(h)
    <3>1. /\ jobs'[h].op = jobs[h].op /\ jobs'[h].from = jobs[h].from
          /\ \A g \in Handlers \ {h} : jobs'[g] = jobs[g]
      BY <2>1, NextJob
    <3>2. SoundJob(jobs[h], sound) /\ jobs[h].op # "save"
      BY <2>1 DEF LoadInv
    <3>3. SoundJob(jobs'[h], sound)
      BY <3>1, <3>2 DEF SoundJob
    <3>4. QED BY <3>1, <3>3
  <2>2. CASE jobs' = Done(h)
    <3>1. jobs'[h].op = "idle" /\ \A g \in Handlers \ {h} : jobs'[g] = jobs[g]
      BY <2>2, DoneJobs DEF DiskInv, ConsoleShape
    <3>2. QED BY <3>1, OthersSound
  <2>3. QED BY <2>1, <2>2
<1>2. files'.settings \in sound /\ (Headless(files'.settings) \/ asked' = Loaded(files'.settings))
  BY DEF LoadInv
<1>3. QED BY <1>1, <1>2, LoadKept

\* The end of a save: a file that changed since it was read is what is asked now.
LEMMA EndSaveLoads ==
    ASSUME DiskInv, NEW sound, KeepsSettings(sound), LoadInv(sound), NEW h \in Handlers, EndSave(h)
    PROVE  LoadInv(sound)'
<1>1. PICK read, text, edits :
        read = jobs[h].read /\ text = jobs[h].text /\ edits = jobs[h].edits
  OBVIOUS
<1>2. /\ jobs[h].op = "save" /\ jobs' = Done(h) /\ backups' = backups
      /\ files' = [files EXCEPT !.settings = text]
      /\ asked' = IF files.settings # read THEN Loaded(text)
                  ELSE [s \in Settings |-> IF s \in Range(edits) THEN {"new"} ELSE asked[s]]
  BY <1>1 DEF EndSave, At
<1>3. read \in sound /\ edits \in Screens /\ text = Edited(read, edits)
  BY <1>1, <1>2 DEF LoadInv, SoundJob
<1>4. files'.settings = text
  BY <1>2 DEF DiskInv, ConsoleShape, IsFiles
<1>5. /\ text \in sound /\ (Headless(read) => Headless(text))
      /\ ~Headless(text) => Loaded(text) = [s \in Settings |-> IF s \in Range(edits)
                                              THEN {"new"} ELSE Loaded(read)[s]]
  BY <1>3 DEF KeepsSettings
<1>6. ASSUME ~Headless(text) PROVE asked' = Loaded(text)
  <2>1. CASE files.settings # read
    BY <1>2, <2>1
  <2>2. CASE files.settings = read
    <3>1. asked = Loaded(read)
      BY <1>5, <1>6, <2>2 DEF LoadInv
    <3>2. QED BY <1>2, <1>5, <1>6, <2>2, <3>1
  <2>3. QED BY <2>1, <2>2
<1>7. jobs'[h].op = "idle" /\ \A g \in Handlers \ {h} : jobs'[g] = jobs[g]
  BY <1>2, DoneJobs DEF DiskInv, ConsoleShape
<1>8. \A g \in Handlers : jobs'[g] = jobs[g] \/ SoundJob(jobs'[g], sound)
  BY <1>7, OthersSound
<1>9. QED BY <1>2, <1>4, <1>5, <1>6, <1>8, LoadKept

\* A reset writes the file around the relay's key.
LEMMA ResetLoads ==
    ASSUME DiskInv, NEW sound, KeepsSettings(sound), LoadInv(sound), NEW h \in Handlers,
           ResetSettings(h)
    PROVE  LoadInv(sound)'
<1>1. jobs[h].op = "reset" /\ backups' = backups
  BY DEF ResetSettings, At
<1>2. CASE jobs' = Done(h) /\ UNCHANGED <<files, asked>>
  BY <1>1, <1>2, BesideLoads, NextJob, DoneJobs DEF DiskInv, ConsoleShape
<1>3. ASSUME NEW secret \in ReadScalar(files.settings, "relay_secret_key"),
             files' = [files EXCEPT !.settings = SetupMode(secret)],
             asked' = [Loaded(SetupMode(secret)) EXCEPT ![Secret] =
                          IF Headless(files.settings) THEN @ ELSE asked[Secret]],
             jobs' = Next1(h)
      PROVE  LoadInv(sound)'
  <2>1. PICK f : f = SetupMode(secret)
    OBVIOUS
  <2>2. /\ f \in sound
        /\ ~Headless(files.settings) => Loads(f, Secret) = Loaded(files.settings)[Secret]
    BY <1>3, <2>1 DEF KeepsSettings, LoadInv
  <2>3. files'.settings = f
    BY <1>3, <2>1 DEF DiskInv, ConsoleShape, IsFiles
  <2>4. Secret \in Settings
    <3>1. Secret = KeyEdits[1] /\ 1 \in DOMAIN KeyEdits /\ KeyEdits \in Screens
      BY DEF Secret, KeyEdits, Screens
    <3>2. QED BY <3>1 DEF Settings, Range
  <2>5. Loaded(f)[Secret] = Loads(f, Secret)
    BY <2>4 DEF Loaded
  <2>6. ~Headless(files.settings) => asked[Secret] = Loaded(f)[Secret]
    BY <2>2, <2>5 DEF LoadInv
  <2>7. asked' = Loaded(f)
    <3>1. PICK loads : loads = Loaded(f) /\ DOMAIN loads = Settings /\ loads = [s \in Settings |-> loads[s]]
      BY DEF Loaded
    <3>2. asked' = [loads EXCEPT ![Secret] = loads[Secret]]
      BY <1>3, <2>1, <2>6, <3>1
    <3>3. QED BY <3>1, <3>2
  <2>8. /\ jobs'[h].op = "reset" /\ \A g \in Handlers \ {h} : jobs'[g] = jobs[g]
    BY <1>1, <1>3, NextJob
  <2>9. \A g \in Handlers : jobs'[g] = jobs[g] \/ SoundJob(jobs'[g], sound)
    BY <2>8, OthersSound
  <2>10. QED BY <1>1, <2>2, <2>3, <2>7, <2>9, LoadKept
<1>4. QED BY <1>2, <1>3 DEF ResetSettings

\* A restore writes a file that was saved.
LEMMA RestoreLoads ==
    ASSUME DiskInv, NEW sound, LoadInv(sound), NEW h \in Handlers, RestoreFile(h)
    PROVE  LoadInv(sound)'
<1>1. PICK name, from : name = Restored[jobs[h].step] /\ from = jobs[h].from
  OBVIOUS
<1>2. /\ jobs[h].op = "restore" /\ jobs[h].step <= Len(Restored)
      /\ jobs' = Next1(h) /\ backups' = backups
      /\ files' = [files EXCEPT ![name] = from[name]]
      /\ asked' = IF name = "settings" THEN Loaded(from.settings) ELSE asked
  BY <1>1 DEF RestoreFile
<1>3. /\ jobs'[h].op = "restore" /\ jobs'[h].from = from /\ jobs[h].step \in Nat \ {0}
      /\ \A g \in Handlers \ {h} : jobs'[g] = jobs[g]
  BY <1>1, <1>2, NextJob
<1>4. from.settings \in sound
  BY <1>1, <1>2 DEF LoadInv, SoundJob
<1>5. name \in {"settings", "admins", "setupOwner", "relayOwner"}
  BY <1>1, <1>2, <1>3 DEF Restored
<1>6. files'.settings = IF name = "settings" THEN from.settings ELSE files.settings
  BY <1>2, <1>5 DEF DiskInv, ConsoleShape, IsFiles
<1>7. files'.settings \in sound /\ (Headless(files'.settings) \/ asked' = Loaded(files'.settings))
  BY <1>2, <1>4, <1>6 DEF LoadInv
<1>8. \A g \in Handlers : jobs'[g] = jobs[g] \/ SoundJob(jobs'[g], sound)
  BY <1>3, <1>4 DEF SoundJob
<1>9. QED BY <1>2, <1>7, <1>8, LoadKept

LEMMA HandleLoads ==
    ASSUME DiskInv, NEW sound, KeepsSettings(sound), LoadInv(sound), NEW h \in Handlers, Handle(h)
    PROVE  LoadInv(sound)'
<1>0. IsFiles(files)
  BY DEF DiskInv, ConsoleShape
<1>1. CASE SetupClaim(h) \/ SetupRecord(h) \/ SetupFinish(h)
  <2>1. /\ jobs[h].op = "setup" /\ jobs' \in {Next1(h), Done(h)} /\ UNCHANGED <<asked, backups>>
    BY <1>1 DEF SetupClaim, SetupRecord, SetupFinish, At
  <2>2. files'.settings = files.settings
    BY <1>0, <1>1 DEF SetupClaim, SetupRecord, SetupFinish, IsFiles
  <2>3. QED BY <2>1, <2>2, BesideLoads
<1>2. CASE ResetOwner(h) \/ ResetAdminsFile(h) \/ ResetMemory(h)
  <2>1. /\ jobs[h].op = "reset" /\ jobs' \in {Next1(h), Done(h)} /\ UNCHANGED <<asked, backups>>
    BY <1>2 DEF ResetOwner, ResetAdminsFile, ResetMemory, At
  <2>2. files'.settings = files.settings
    BY <1>0, <1>2 DEF ResetOwner, ResetAdminsFile, ResetMemory, IsFiles
  <2>3. QED BY <2>1, <2>2, BesideLoads
<1>3. CASE RestoreApply(h) \/ Fail(h)
  <2>1. /\ jobs[h].op # "idle" /\ jobs' = Done(h) /\ UNCHANGED <<files, asked, backups>>
    BY <1>3 DEF RestoreApply, Fail, At
  <2>2. jobs' # Next1(h)
    <3>1. jobs'[h].op = "idle"
      BY <2>1, DoneJobs DEF DiskInv, ConsoleShape
    <3>2. Next1(h)[h].op # "idle"
      BY <2>1, NextJob
    <3>3. QED BY <3>1, <3>2
  <2>3. QED BY <2>1, <2>2, BesideLoads
<1>4. QED BY <1>1, <1>2, <1>3, EndSaveLoads, ResetLoads, RestoreLoads DEF Handle

LEMMA AdministerLoads ==
    ASSUME DiskInv, NEW sound, LoadInv(sound), Administer
    PROVE  LoadInv(sound)'
<1>1. IsFiles(files)
  BY DEF DiskInv, ConsoleShape
<1>2. CASE \E k, p \in Keys : AddAdmin(k, p) \/ RemoveAdmin(k, p)
  <2>1. UNCHANGED <<jobs, backups, asked>> /\ \E list : SaveAdmins(list)
    BY <1>2 DEF AddAdmin, RemoveAdmin
  <2>2. files'.settings = files.settings
    BY <1>1, <2>1 DEF SaveAdmins, IsFiles
  <2>3. QED BY <2>1, <2>2, LoadKept DEF LoadInv
<1>3. CASE \E k \in Keys : Auth(k) \/ AdoptOwner(k) \/ RestartRelay(k) \/ CompactDatabase(k)
  <2>1. UNCHANGED <<jobs, backups, asked>>
    BY <1>3 DEF Auth, AdoptOwner, RestartRelay, CompactDatabase, memory
  <2>2. files'.settings = files.settings
    BY <1>1, <1>3 DEF Auth, AdoptOwner, RestartRelay, CompactDatabase, IsFiles
  <2>3. QED BY <2>1, <2>2, LoadKept DEF LoadInv
<1>4. QED BY <1>2, <1>3 DEF Administer

\* A crash cuts a file off; a start gives a relay without a key one.
LEMMA RestartLoads ==
    ASSUME DiskInv, NEW sound, KeepsSettings(sound), LoadInv(sound), End \/ Boot \/ Serve
    PROVE  LoadInv(sound)'
<1>1. IsFiles(files)
  BY DEF DiskInv, ConsoleShape
<1>2. CASE End
  <2>1. /\ \A h \in Handlers : jobs'[h].op = "idle"
        /\ backups' = backups /\ files' \in Cut
        /\ asked' = IF files'.settings = files.settings THEN asked ELSE Loaded(<<>>)
    BY <1>2 DEF End, Idle
  <2>2. files'.settings \in {files.settings, <<>>}
    BY <1>1, <2>1 DEF Cut, IsFiles
  <2>3. \A h \in Handlers : SoundJob(jobs'[h], sound)
    BY <2>1, OthersSound
  <2>4. /\ files'.settings \in sound
        /\ Headless(files'.settings) \/ asked' = Loaded(files'.settings)
    BY <2>1, <2>2 DEF LoadInv, KeepsSettings
  <2>5. QED BY <2>1, <2>3, <2>4, LoadKept
<1>3. CASE Boot
  <2>1. PICK f : f = EnsureIdentity(files.settings)
    OBVIOUS
  <2>2. /\ files' = [files EXCEPT !.settings = f]
        /\ asked' = IF f = files.settings THEN asked ELSE Loaded(f)
        /\ UNCHANGED <<jobs, backups>>
    BY <1>3, <2>1 DEF Boot, memory
  <2>3. f \in sound
    BY <2>1 DEF LoadInv, KeepsSettings
  <2>4. files'.settings = f
    BY <1>1, <2>2 DEF IsFiles
  <2>5. Headless(f) \/ asked' = Loaded(f)
    BY <2>2 DEF LoadInv
  <2>6. QED BY <2>2, <2>3, <2>4, <2>5, LoadKept
<1>4. CASE Serve
  <2>1. UNCHANGED <<jobs, backups, files, asked>>
    BY <1>4 DEF Serve
  <2>2. QED BY <2>1, LoadKept DEF LoadInv
<1>5. QED BY <1>2, <1>3, <1>4

\* Whatever saves, resets, restores and crashes overlap, the settings file parses, and while
\* no handler runs startup loads from it what was last asked of each setting, and the console
\* shows it, unless a write that was cut off lost the header; for any number of handlers,
\* requests and crashes, when each edit alone of a file does what it should
\* (upsert_relay_value, upsert_block_value, handle_config_reset).
THEOREM SettingsLoad ==
    ASSUME NEW sound, KeepsSettings(sound)
    PROVE  Spec => []SavedSettingsLoad
<1>1. LoadInv(sound) => SavedSettingsLoad
  <2> SUFFICES ASSUME LoadInv(sound)
               PROVE  /\ Parses(files.settings)
                      /\ ~Headless(files.settings) =>
                           /\ Loaded(files.settings) = asked
                           /\ \A s \in Settings : Shows(files.settings, s) \in {{}, asked[s]}
    BY DEF SavedSettingsLoad
  <2>1. PICK f : f = files.settings
    OBVIOUS
  <2>2. f \in sound /\ (Headless(f) \/ asked = Loaded(f))
    BY <2>1 DEF LoadInv
  <2>3. Parses(f) /\ (~Headless(f) => \A s \in Settings : Shows(f, s) \in {{}, Loaded(f)[s]})
    BY <2>2 DEF KeepsSettings
  <2>4. QED BY <2>1, <2>2, <2>3
<1>2. Init => LoadInv(sound)
  <2> SUFFICES ASSUME Init PROVE LoadInv(sound)
    OBVIOUS
  <2>1. PICK f \in FirstFiles : files = [NoFiles EXCEPT !.settings = f] /\ asked = Loaded(f)
    BY DEF Init
  <2>2. files.settings = f /\ backups = {} /\ \A h \in Handlers : jobs[h].op = "idle"
    BY <2>1 DEF Init, NoFiles, Idle
  <2>3. f \in sound
    BY DEF KeepsSettings
  <2>4. QED BY <2>1, <2>2, <2>3, OthersSound DEF LoadInv
<1>3. DiskInv /\ LoadInv(sound) /\ [Next]_vars => LoadInv(sound)'
  <2> SUFFICES ASSUME DiskInv, LoadInv(sound), [Next]_vars PROVE LoadInv(sound)'
    OBVIOUS
  <2>1. CASE \E h \in Handlers : Begin(h) \/ Handle(h)
    BY <2>1, BeginLoads, HandleLoads
  <2>2. CASE Administer
    BY <2>2, AdministerLoads
  <2>3. CASE End \/ Boot \/ Serve
    BY <2>3, RestartLoads
  <2>4. CASE UNCHANGED consoleVars
    <3>1. UNCHANGED <<jobs, files, backups, asked>>
      BY <2>4 DEF consoleVars, memory
    <3>2. QED BY <3>1, LoadKept DEF LoadInv
  <2>5. CASE UNCHANGED vars
    BY <2>4, <2>5 DEF vars
  <2>6. QED BY <2>1, <2>2, <2>3, <2>4, <2>5 DEF Next
<1>4. QED BY <1>1, <1>2, <1>3, DiskInvHolds, PTL DEF Spec
=============================================================================
