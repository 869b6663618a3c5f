----------------------------- MODULE Compaction -----------------------------
(***************************************************************************)
(* Compacting the database file at startup (src/compaction.rs), as staged  *)
(* by the console and run by async_main before the database is opened.     *)
(*                                                                         *)
(* A database file is the set of events it holds. The process may die      *)
(* between any two steps; the renames and removals of compact_now are the  *)
(* steps.  A file that would not open (Broken) is what a bad copy leaves.  *)
(***************************************************************************)
EXTENDS Naturals, FiniteSets

CONSTANTS Events,       \* events a client may store
          Absent,       \* there is no such file
          Broken        \* a file LMDB would not open

ASSUME MarkersAssumption ==
  /\ Absent # Broken
  /\ \A held \in SUBSET Events : held # Absent /\ held # Broken

VARIABLES phase,        \* "down", a step of the startup, or "up"
          db,           \* the files data.mdb, data.mdb.compacting, data.mdb.pre-compact
          request,      \* compaction-request.json exists
          staged,       \* compactions asked for so far
          attempts,     \* compactions started so far
          stored,       \* events the relay accepted
          gap           \* ghost: no database file was left for the next start

compVars == <<phase, db, request, staged, attempts, stored, gap>>

File == (SUBSET Events) \cup {Absent, Broken}
Phases == {"down", "boot", "check", "copy", "aside", "movein", "verify",
           "restore", "drop", "open", "up"}

CompactionTypeOK ==
  /\ phase \in Phases
  /\ db \in [live : File, compacting : File, preCompact : File]
  /\ request \in BOOLEAN /\ gap \in BOOLEAN
  /\ staged \in Nat /\ attempts \in Nat
  /\ stored \subseteq Events

CompactionInit ==
  /\ phase = "up"
  /\ db = [live |-> {}, compacting |-> Absent, preCompact |-> Absent]
  /\ request = FALSE /\ gap = FALSE
  /\ staged = 0 /\ attempts = 0
  /\ stored = {}

-----------------------------------------------------------------------------
(* The relay serves: it stores events, and the console stages a request.   *)

Store(e) ==
  /\ phase = "up" /\ e \notin stored
  /\ db' = [db EXCEPT !.live = @ \cup {e}]
  /\ stored' = stored \cup {e}
  /\ UNCHANGED <<phase, request, staged, attempts, gap>>

\* compaction_status refuses while a request is staged.  What it measures may
\* change until the restart, which looks again.
CanCompact == ~request

StageRequest ==
  /\ phase = "up"
  /\ request' = TRUE
  /\ staged' = staged + 1
  /\ UNCHANGED <<phase, db, attempts, stored, gap>>

-----------------------------------------------------------------------------
(* run_pending and compact_now.                                            *)

RunPending ==
  /\ phase = "boot"
  /\ \/ /\ request
        /\ request' = FALSE
        /\ attempts' = attempts + 1
        /\ phase' = "check"
     \/ /\ ~request /\ phase' = "open"
        /\ UNCHANGED <<request, attempts>>
     \/ /\ request /\ phase' = "open"              \* the request cannot be removed
        /\ UNCHANGED <<request, attempts>>
  /\ UNCHANGED <<db, staged, stored, gap>>

Readable == db.live \notin {Absent, Broken}

\* A database that cannot be measured, or too little room, refuses; an
\* incomplete copy is removed, an original set aside earlier is not touched.
Check ==
  /\ phase = "check"
  /\ \/ phase' = "open" /\ UNCHANGED db
     \/ /\ Readable
        /\ db' = [db EXCEPT !.compacting = Absent]
        /\ phase' = IF db.preCompact = Absent THEN "copy" ELSE "open"
  /\ UNCHANGED <<request, staged, attempts, stored, gap>>

\* copy_to_file writes the copy bit by bit; it is whole when it is flushed.
StartCopy ==
  /\ phase = "copy" /\ db.compacting = Absent
  /\ db' = [db EXCEPT !.compacting = Broken]
  /\ UNCHANGED <<phase, request, staged, attempts, stored, gap>>

EndCopy ==
  /\ phase = "copy" /\ db.compacting = Broken
  /\ \/ /\ db' = [db EXCEPT !.compacting = db.live]
        /\ phase' = "aside"
     \/ phase' = "aside" /\ UNCHANGED db           \* a copy that will not open
     \/ /\ db' = [db EXCEPT !.compacting = Absent] \* copy or flush failed
        /\ phase' = "open"
  /\ UNCHANGED <<request, staged, attempts, stored, gap>>

SetAside ==
  /\ phase = "aside"
  /\ \/ /\ db' = [db EXCEPT !.preCompact = db.live, !.live = Absent]
        /\ phase' = "movein"
     \/ phase' = "open" /\ UNCHANGED db
  /\ UNCHANGED <<request, staged, attempts, stored, gap>>

MoveIn ==
  /\ phase = "movein"
  /\ \/ /\ db' = [db EXCEPT !.live = db.compacting, !.compacting = Absent]
        /\ phase' = "verify"
     \/ phase' = "restore" /\ UNCHANGED db
  /\ UNCHANGED <<request, staged, attempts, stored, gap>>

\* Mutant: the compacted file is not opened.
VerifyBlindly ==
  /\ phase = "verify"
  /\ phase' = "drop"
  /\ UNCHANGED <<db, request, staged, attempts, stored, gap>>

\* measure() proves that the compacted file opens; one that will not, or cannot be looked
\* at, is removed, and nobody looks whether that worked.
Verify ==
  /\ phase = "verify"
  /\ \/ /\ db.live # Broken /\ phase' = "drop"
        /\ UNCHANGED db
     \/ /\ phase' = "restore"
        /\ db' = [db EXCEPT !.live = Absent] \/ UNCHANGED db
  /\ UNCHANGED <<request, staged, attempts, stored, gap>>

\* The original is renamed back; nobody looks whether that worked, either.
RestoreOriginal ==
  /\ phase = "restore"
  /\ phase' = "open"
  /\ \/ /\ db' = [db EXCEPT !.live = db.preCompact, !.preCompact = Absent]
        /\ UNCHANGED gap
     \/ /\ gap' = (gap \/ db.live = Absent)
        /\ UNCHANGED db
  /\ UNCHANGED <<request, staged, attempts, stored>>

\* The original goes; when it cannot be removed it stays, with a warning.
DropOriginal ==
  /\ phase = "drop"
  /\ phase' = "open"
  /\ \/ db' = [db EXCEPT !.preCompact = Absent]
     \/ UNCHANGED db
  /\ UNCHANGED <<request, staged, attempts, stored, gap>>

\* LMDB creates an empty database where there is none; a file it cannot open
\* keeps the relay from starting.
OpenDatabase ==
  /\ phase = "open" /\ db.live # Broken
  /\ db' = [db EXCEPT !.live = IF @ = Absent THEN {} ELSE @]
  /\ phase' = "up"
  /\ UNCHANGED <<request, staged, attempts, stored, gap>>

Compacting == RunPending \/ Check \/ StartCopy \/ EndCopy \/ SetAside
                \/ MoveIn \/ Verify \/ RestoreOriginal \/ DropOriginal

\* The process ends, wherever it stands.
Halt ==
  /\ phase # "down"
  /\ phase' = "down"
  /\ gap' = (gap \/ (phase \in {"movein", "restore"} /\ db.live = Absent))
  /\ UNCHANGED <<db, request, staged, attempts, stored>>

-----------------------------------------------------------------------------
Held(f) == IF db[f] \in {Absent, Broken} THEN {} ELSE db[f]

(* Whatever step the process dies at and whatever rename or removal fails, *)
(* every stored event is in the live file or in the original set aside, so *)
(* that it can still be recovered by hand.  A relay that serves shows all  *)
(* of it, unless the process died while the original was set aside with    *)
(* nothing in its place, or could not rename it back (compact_now).        *)
DataKept ==
  /\ stored \subseteq Held("live") \cup Held("preCompact")
  /\ phase = "up" /\ ~gap => stored \subseteq Held("live")

(* A compaction that kills the process is not tried again at the next      *)
(* start: each request is worth one attempt (run_pending consumes it       *)
(* before the work).                                                       *)
CompactsOncePerRequest == attempts <= staged

(* Compaction keeps the data and is not tried again and again.             *)
CompactionSafe == DataKept /\ CompactsOncePerRequest
=============================================================================
