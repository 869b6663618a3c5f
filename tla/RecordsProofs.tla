--------------------------- MODULE RecordsProofs ---------------------------
(***************************************************************************)
(* What bulk deletions leave, what a report's case says, what a wipe and   *)
(* a reader reach page by page, for any events and groups: the             *)
(* specification is ObeliskIndex, where handlers, authors, the console and *)
(* the pruner store and remove events beside each other.                   *)
(***************************************************************************)
EXTENDS ObeliskIndex, FiniteSetTheorems, WellFoundedInduction, TLAPS

\* The handlers that write evidence are those of reports.
WritersReport == \A w \in writing : w.report \in Events

LEMMA WritersReportHolds == Spec => []WritersReport
<1>1. Init => WritersReport
  BY DEF Init, WritersReport
<1>2. WritersReport /\ [Next]_vars => WritersReport'
  <2> SUFFICES ASSUME WritersReport, [Next]_vars PROVE WritersReport'
    OBVIOUS
  <2>1. CASE \E r \in Events : Report(r)
    BY <2>1 DEF Report, WritersReport
  <2>2. CASE \E w \in writing : WriteEvidence(w)
    BY <2>2 DEF WriteEvidence, WritersReport
  <2>3. CASE Restart
    BY <2>3 DEF Restart, RestartModeration, WritersReport
  <2>4. CASE UNCHANGED writing
    BY <2>4 DEF WritersReport
  <2>5. QED
    BY <2>1, <2>2, <2>3, <2>4
    DEF Next, IndexPublish, IndexDelete, Resolve, StartRebuild, RebuildStep, LoadState, LoadRecent,
        FailLoad, InsertEntry, FinishRebuild, ChangeStanding, StartReading, Bootstrap, ReadOn,
        Deliver, vars, moderationVars
<1>3. QED BY <1>1, <1>2, PTL DEF Spec

\* What the database and the queue hold: events, and commands that save one of them or
\* erase some.
RecordsInv ==
    /\ db \subseteq Events
    /\ \A command \in pending : command.op = "erase" \/ \E e \in Events : command = Save(e)

LEMMA RecordsInvHolds == Spec => []RecordsInv
<1>1. Init => RecordsInv
  BY SeedsAssumption DEF Init, RecordsInv
<1>2. WritersReport /\ RecordsInv /\ [Next]_vars => RecordsInv'
  <2> SUFFICES ASSUME WritersReport, RecordsInv, [Next]_vars PROVE RecordsInv'
    OBVIOUS
  <2>1. ASSUME UNCHANGED <<db, pending>> PROVE RecordsInv'
    BY <2>1 DEF RecordsInv
  <2>2. ASSUME NEW e \in Events, Publish(e) PROVE RecordsInv'
    BY <2>2 DEF Publish, RecordsInv
  <2>3. ASSUME NEW S, RemoveAll(S) PROVE RecordsInv'
    BY <2>3 DEF RemoveAll, RecordsInv
  <2>4. CASE \E e \in Events : IndexPublish(e)
    BY <2>2, <2>4 DEF IndexPublish
  <2>5. CASE IndexDelete
    <3>1. ASSUME NEW S, NEW T, db' = db, pending' = pending \cup {Erase(S), Erase(T)} PROVE RecordsInv'
      <4>1. Erase(S).op = "erase" /\ Erase(T).op = "erase"
        BY DEF Erase
      <4>2. QED BY <3>1, <4>1 DEF RecordsInv
    <3>2. ASSUME NEW S, db' = db, pending' = pending \cup {Erase(S)} PROVE RecordsInv'
      BY <3>1, <3>2
    <3>3. QED BY <2>5, <3>1, <3>2 DEF IndexDelete, DeleteGroup, DeleteInGroup
  <2>6. CASE Persist
    <3>1. PICK command \in pending : db' = CarriedOut(db, command) /\ pending' = pending \ {command}
      BY <2>6 DEF Persist
    <3>2. CASE command.op = "erase"
      BY <3>1, <3>2 DEF CarriedOut, RecordsInv
    <3>3. CASE \E e \in Events : command = Save(e)
      <4>1. PICK e \in Events : command = Save(e)
        BY <3>3
      <4>2. db' = Stored(db, e)
        BY <3>1, <4>1 DEF CarriedOut, Save
      <4>3. QED BY <3>1, <4>2 DEF Stored, RecordsInv
    <3>4. QED BY <3>2, <3>3 DEF RecordsInv
  <2>7. CASE PersistFails
    BY <2>7 DEF PersistFails, RecordsInv
  <2>8. CASE ConsoleDeletes
    <3>1. ASSUME NEW g, AdminDeleteGroup(g) PROVE RecordsInv'
      BY <3>1 DEF AdminDeleteGroup, RecordsInv
    <3>2. QED
      BY <2>3, <2>8, <3>1
      DEF ConsoleDeletes, Bulk, AuthorDeletes, AdminDelete, AdminRemoveMember, AdminPrune, AdminWipe,
          PruneRun
  <2>9. CASE \E r \in Events : Report(r)
    <3>1. PICK r \in Events : Report(r)
      BY <2>9
    <3>2. CASE Publish(r)
      BY <2>2, <3>2
    <3>3. CASE UNCHANGED <<db, managed, pending>>
      BY <3>3 DEF RecordsInv
    <3>4. QED BY <3>1, <3>2, <3>3 DEF Report
  <2>10. CASE \E c \in Cases : Resolve(c)
    <3>1. (\E e \in Events : AdminDelete(e)) \/ UNCHANGED <<db, managed, pending>>
      BY <2>10 DEF Resolve
    <3>2. QED BY <2>3, <3>1 DEF AdminDelete, RecordsInv
  <2>11. CASE \E w \in writing : WriteEvidence(w)
    <3>1. PICK w \in writing : WriteEvidence(w)
      BY <2>11
    <3>2. /\ db' = db
          /\ pending' = pending \cup {Save(w.report)}
          /\ w.report \in Events
      BY <3>1 DEF WriteEvidence, Publish, WritersReport
    <3>3. QED BY <3>2 DEF RecordsInv
  <2>12. CASE Restart
    BY <2>12 DEF Restart, RestartModeration, RestartRecords, RecordsInv
  <2>13. QED
    BY <2>1, <2>4, <2>5, <2>6, <2>7, <2>8, <2>9, <2>10, <2>11, <2>12
    DEF Next, StartRebuild, RebuildStep, LoadState, LoadRecent, FailLoad, InsertEntry, FinishRebuild,
        ChangeStanding, StartReading, Bootstrap, ReadOn, Deliver, vars, recordVars
<1>3. QED BY <1>1, <1>2, WritersReportHolds, PTL DEF Spec

-----------------------------------------------------------------------------
(* Removals. *)

\* A removal of other events keeps what groups are rebuilt from.
LEMMA RemovingOthersKeeps ==
    ASSUME NEW S, RemoveAll(S), \A e \in S : e.kind \notin {"state", "create", "invite"}
    PROVE  RebuiltFrom(db') = RebuiltFrom(db)
BY DEF RemoveAll, RebuiltFrom

\* Whatever removes by a filter, of an author, of a recipient, of a member, of a kind or of a
\* time, takes no event that load_groups rebuilds a group from but for joins.
THEOREM BulkKeepsTheRecords == Spec => GroupsKeepTheirRecords
<1> DEFINE kept == {"state", "create", "invite"}
<1>1. kept \subseteq NeverPrune /\ "put" \notin kept
  BY DEF NeverPrune
<1>2. ASSUME NEW g, NEW k, AdminRemoveMember(g, k) PROVE RebuiltFrom(db') = RebuiltFrom(db)
  <2> DEFINE S == {e \in OfGroup(g) : e.kind = "put" /\ k \in e.to}
  <2>1. RemoveAll(S)
    BY <1>2 DEF AdminRemoveMember
  <2>2. \A e \in S : e.kind \notin kept
    BY <1>1
  <2>3. QED BY <2>1, <2>2, RemovingOthersKeeps
<1>3. ASSUME AdminPrune PROVE RebuiltFrom(db') = RebuiltFrom(db)
  <2>1. PICK S \in Prunings, done \in SUBSET Scopes : RemoveAll(InScopes(S, done))
    BY <1>3 DEF AdminPrune
  <2>2. \A e \in InScopes(S, done) : e.kind \notin kept
    BY <1>1 DEF InScopes, Prunings, Targets
  <2>3. QED BY <2>1, <2>2, RemovingOthersKeeps
<1>4. ASSUME NEW k, NEW kinds, AdminWipe(k, kinds) PROVE RebuiltFrom(db') = RebuiltFrom(db)
  <2>1. PICK done : RemoveAll(UNION {Wiped(k, kinds, s) : s \in done})
    BY <1>4 DEF AdminWipe
  <2>2. \A s : \A e \in Wiped(k, kinds, s) : e.kind \notin kept
    BY <1>1 DEF Wiped
  <2>3. \A e \in UNION {Wiped(k, kinds, s) : s \in done} : e.kind \notin kept
    BY <2>2
  <2>4. QED BY <2>1, <2>3, RemovingOthersKeeps
<1>5. ASSUME NEW kind, NEW cutoff, PruneRun(kind, cutoff) PROVE RebuiltFrom(db') = RebuiltFrom(db)
  <2>1. kind \notin kept
    BY <1>1, <1>5 DEF PruneRun, Prunable
  <2>2. PICK done : RemoveAll({e \in InScopes(Events, done) : e.kind = kind /\ e.at <= cutoff})
    BY <1>5 DEF PruneRun
  <2>3. QED BY <2>1, <2>2, RemovingOthersKeeps
<1>6. Bulk => RebuiltFrom(db') = RebuiltFrom(db)
  BY <1>2, <1>3, <1>4, <1>5 DEF Bulk
<1>7. [Next]_vars => [RebuiltFrom(db') # RebuiltFrom(db) => ~Bulk]_recordVars
  BY <1>6
<1>8. QED BY <1>7, PTL DEF Spec, GroupsKeepTheirRecords

-----------------------------------------------------------------------------
(* Cases. *)

Ids(S) == {e.id : e \in S}

\* Unless a write overlapped another report or a crash: what a handler saw is among the
\* copies, a handler that writes has the copies as they are, and with none the file does.
EvidenceInv ==
    /\ evidence \cup evidenceFile \subseteq Events
    /\ \A w \in writing : w.snapshot \subseteq Events
    /\ ~overlapped =>
         /\ captured \subseteq Ids(evidence)
         /\ \A w \in writing : w.snapshot = evidence
         /\ writing = {} => evidenceFile = evidence

LEMMA EvidenceInvHolds == Spec => []EvidenceInv
<1>1. Init => EvidenceInv
  BY SeedsAssumption DEF Init, EvidenceInv, Ids
<1>2. RecordsInv /\ EvidenceInv /\ [Next]_vars => EvidenceInv'
  <2> SUFFICES ASSUME RecordsInv, EvidenceInv, [Next]_vars PROVE EvidenceInv'
    OBVIOUS
  <2>1. ASSUME UNCHANGED <<evidence, evidenceFile, writing, captured, overlapped>> PROVE EvidenceInv'
    BY <2>1 DEF EvidenceInv, Ids
  <2>2. ASSUME NEW r \in Events, Report(r) PROVE EvidenceInv'
    <3>1. /\ evidence' = Take(r)
          /\ captured' = captured \cup Ids(Found(r, {r.scope}))
          /\ overlapped' = (overlapped \/ writing # {})
          /\ evidenceFile' = evidenceFile
          /\ \/ evidence' = evidence /\ writing' = writing
             \/ writing' = writing \cup {[report |-> r, snapshot |-> evidence']}
      BY <2>2 DEF Report, Ids
    <3>2. /\ evidence \subseteq evidence' /\ evidence' \subseteq Events
          /\ Ids(Found(r, {r.scope})) \subseteq Ids(evidence')
      BY <3>1 DEF Take, Found, EvidenceInv, RecordsInv, Ids
    <3>3. \A w \in writing' : w.snapshot \subseteq Events
      BY <3>1, <3>2 DEF EvidenceInv
    <3>4. CASE overlapped'
      BY <3>1, <3>2, <3>3, <3>4 DEF EvidenceInv
    <3>5. CASE ~overlapped'
      <4>1. ~overlapped /\ writing = {} /\ evidenceFile = evidence
        BY <3>1, <3>5 DEF EvidenceInv
      <4>2. captured' \subseteq Ids(evidence')
        BY <3>1, <3>2, <4>1 DEF EvidenceInv, Ids
      <4>3. /\ \A w \in writing' : w.snapshot = evidence'
            /\ writing' = {} => evidence' = evidence
        <5>1. CASE evidence' = evidence /\ writing' = writing
          BY <4>1, <5>1
        <5>2. CASE writing' = writing \cup {[report |-> r, snapshot |-> evidence']}
          <6> DEFINE x == [report |-> r, snapshot |-> evidence']
          <6>1. x.snapshot = evidence' /\ writing' = {x}
            BY <4>1, <5>2
          <6> HIDE DEF x
          <6>2. QED BY <6>1
        <5>3. QED BY <3>1, <5>1, <5>2
      <4>4. evidence' \cup evidenceFile' \subseteq Events
        BY <3>1, <3>2 DEF EvidenceInv
      <4>5. QED BY <3>1, <3>3, <4>1, <4>2, <4>3, <4>4 DEF EvidenceInv
    <3>6. QED BY <3>4, <3>5
  <2>3. ASSUME NEW w \in writing, WriteEvidence(w) PROVE EvidenceInv'
    <3>1. /\ writing' = writing \ {w}
          /\ UNCHANGED <<evidence, captured>>
          /\ \/ evidenceFile' = w.snapshot /\ overlapped' = overlapped
             \/ evidenceFile' = evidenceFile /\ overlapped' = TRUE
      BY <2>3 DEF WriteEvidence
    <3>2. w.snapshot \subseteq Events /\ (~overlapped => w.snapshot = evidence)
      BY DEF EvidenceInv
    <3>3. CASE evidenceFile' = w.snapshot /\ overlapped' = overlapped
      BY <3>1, <3>2, <3>3 DEF EvidenceInv, Ids
    <3>4. CASE evidenceFile' = evidenceFile /\ overlapped' = TRUE
      BY <3>1, <3>4 DEF EvidenceInv
    <3>5. QED BY <3>1, <3>3, <3>4
  <2>4. CASE Restart
    BY <2>4 DEF Restart, RestartModeration, EvidenceInv, Ids
  <2>5. CASE \E c \in Cases : Resolve(c)
    BY <2>1, <2>5 DEF Resolve
  <2>6. QED
    BY <2>1, <2>2, <2>3, <2>4, <2>5
    DEF Next, IndexPublish, IndexDelete, StartRebuild, RebuildStep, LoadState, LoadRecent,
        FailLoad, InsertEntry, FinishRebuild, ChangeStanding, StartReading, Bootstrap, ReadOn,
        Deliver, vars, moderationVars
<1>3. QED BY <1>1, <1>2, RecordsInvHolds, PTL DEF Spec

\* A case names the author of the message it is about and nobody else, though the message
\* is gone and the relay was restarted, if the copy reached its file undisturbed.
THEOREM CasesKeepTheAuthor == Spec => []CasesNameTheAuthor
<1>1. RecordsInv /\ EvidenceInv => CasesNameTheAuthor
  <2> SUFFICES ASSUME RecordsInv, EvidenceInv, NEW c \in Cases, c.target.about # None
               PROVE  LET author == {e.author : e \in {e \in Events : e.id = c.target.about}}
                          subject == Subject(c.target, c.claimed)
                      IN  /\ subject \subseteq author
                          /\ ~overlapped /\ c.target.about \in captured => subject = author
    BY DEF CasesNameTheAuthor
  <2> DEFINE id == c.target.about
             author == {e.author : e \in {e \in Events : e.id = id}}
  <2> HIDE DEF id
  <2>1. StoredAuthor(id) \subseteq author /\ CopiedAuthor(id) \subseteq author
    BY DEF StoredAuthor, CopiedAuthor, RecordsInv, EvidenceInv
  <2>2. Subject(c.target, c.claimed) = IF StoredAuthor(id) # {} THEN StoredAuthor(id) ELSE CopiedAuthor(id)
    BY DEF Subject, id
  <2>3. \A k, l \in author : k = l
    BY EventsAssumption
  <2>4. ~overlapped /\ id \in captured => CopiedAuthor(id) # {}
    BY DEF EvidenceInv, Ids, CopiedAuthor
  <2>5. QED BY <2>1, <2>2, <2>3, <2>4 DEF id
<1>2. QED BY <1>1, RecordsInvHolds, EvidenceInvHolds, PTL

-----------------------------------------------------------------------------
(* Pages, newest first. *)

\* Those of S that count as newer than e.
NewerIn(S, e) == {f \in S : Newer(f, e)}

\* A non-empty set of naturals has a least element.
LEMMA LeastOf ==
    ASSUME NEW S \in SUBSET Nat, S # {}
    PROVE  \E m \in S : \A n \in S : ~(n < m)
<1>1. PICK m \in S : \A n \in S : <<n, m>> \notin OpToRel(<, Nat)
  <2>1. IsWellFoundedOn(OpToRel(<, Nat), Nat)
    BY NatLessThanWellFounded
  <2> QED BY <2>1, WFMin, Zenon
<1>2. QED BY <1>1, Zenon DEF OpToRel

\* Of two events one is newer, and what is newer than the newer one is newer than the other.
LEMMA NewerIsOrder ==
    ASSUME NEW e \in Events, NEW f \in Events
    PROVE  /\ ~Newer(e, e)
           /\ e # f => Newer(e, f) \/ Newer(f, e)
           /\ Newer(f, e) => f.at >= e.at
           /\ \A g \in Events : Newer(g, f) /\ Newer(f, e) => Newer(g, e)
<1>1. /\ \A g \in Events : g.id \in Nat /\ g.at \in Nat
      /\ e.id = f.id => e = f
  BY EventsAssumption
<1>2. QED BY <1>1 DEF Newer

LEMMA NewerAreFinite ==
    ASSUME NEW S \in SUBSET Events, NEW e
    PROVE  IsFiniteSet(S) /\ IsFiniteSet(NewerIn(S, e)) /\ Cardinality(NewerIn(S, e)) \in Nat
<1>1. IsFiniteSet(S)
  BY EventsAssumption, FS_Subset
<1>2. NewerIn(S, e) \subseteq S
  BY DEF NewerIn
<1>3. QED BY <1>1, <1>2, FS_Subset, FS_CardinalityType

\* The newer of two has fewer before it.
LEMMA NewerHasFewer ==
    ASSUME NEW S \in SUBSET Events, NEW e \in S, NEW f \in S, Newer(f, e)
    PROVE  Cardinality(NewerIn(S, f)) < Cardinality(NewerIn(S, e))
<1>1. NewerIn(S, f) \subseteq NewerIn(S, e) /\ f \in NewerIn(S, e) /\ f \notin NewerIn(S, f)
  BY NewerIsOrder DEF NewerIn
<1>2. NewerIn(S, f) # NewerIn(S, e)
  BY <1>1
<1>3. QED BY <1>1, <1>2, NewerAreFinite, FS_Subset

\* Whoever is not among the newest n has all of those before it, and they are n.
LEMMA NewestAreFirst ==
    ASSUME NEW S \in SUBSET Events, NEW n \in Nat, NEW e \in S \ Newest(S, n)
    PROVE  /\ \A f \in Newest(S, n) : Newer(f, e)
           /\ Cardinality(Newest(S, n)) >= n
<1>1. \A f \in S : f \in Newest(S, n) <=> Cardinality(NewerIn(S, f)) < n
  BY DEF Newest, NewerIn
<1>2. Newest(S, n) \subseteq S
  BY DEF Newest
<1>3. ASSUME NEW f \in Newest(S, n) PROVE Newer(f, e)
  <2>1. f \in S /\ f # e
    BY <1>2
  <2>2. ~Newer(e, f)
    <3>1. Cardinality(NewerIn(S, f)) < n /\ ~(Cardinality(NewerIn(S, e)) < n)
      BY <1>1, <2>1
    <3>2. QED BY <2>1, <3>1, NewerHasFewer, NewerAreFinite
  <2>3. QED BY <2>1, <2>2, NewerIsOrder
<1>4. Cardinality(Newest(S, n)) >= n
  <2> DEFINE left == S \ Newest(S, n)
             counts == {Cardinality(NewerIn(S, f)) : f \in left}
  <2>1. counts \in SUBSET Nat /\ counts # {}
    BY NewerAreFinite
  <2>2. PICK m \in counts : \A c \in counts : ~(c < m)
    BY <2>1, LeastOf
  <2>3. PICK g \in left : m = Cardinality(NewerIn(S, g))
    BY <2>2
  <2>4. ASSUME NEW f \in NewerIn(S, g) PROVE f \in Newest(S, n)
    <3>1. f \in S /\ Newer(f, g)
      BY DEF NewerIn
    <3>2. Cardinality(NewerIn(S, f)) < m
      BY <2>3, <3>1, NewerHasFewer
    <3>3. QED BY <2>2, <3>1, <3>2
  <2>5. Cardinality(NewerIn(S, g)) <= Cardinality(Newest(S, n)) /\ Cardinality(Newest(S, n)) \in Nat
    <3>1. IsFiniteSet(Newest(S, n)) /\ NewerIn(S, g) \subseteq Newest(S, n)
      BY <1>2, <2>4, NewerAreFinite, FS_Subset
    <3>2. QED BY <3>1, FS_Subset, FS_CardinalityType
  <2>6. ~(Cardinality(NewerIn(S, g)) < n) /\ Cardinality(NewerIn(S, g)) \in Nat
    BY <1>1, NewerAreFinite
  <2>7. QED BY <2>5, <2>6
<1>5. QED BY <1>3, <1>4

\* A page is empty only when there is nothing.
LEMMA NewestAreSome ==
    ASSUME NEW S \in SUBSET Events, NEW n \in Nat \ {0}, Newest(S, n) = {}
    PROVE  S = {}
<1>1. Cardinality({}) = 0
  BY FS_EmptySet
<1>2. ASSUME NEW e \in S PROVE FALSE
  BY <1>1, NewestAreFirst
<1>3. QED BY <1>2

\* The second in which a page ends.
LEMMA OldestIsLeast ==
    ASSUME NEW S \in SUBSET Events, S # {}
    PROVE  /\ \E e \in S : e.at = Oldest(S)
           /\ \A e \in S : Oldest(S) <= e.at
           /\ Oldest(S) \in Nat
<1> DEFINE ats == {e.at : e \in S}
<1>1. ats \in SUBSET Nat /\ ats # {}
  BY EventsAssumption
<1>2. PICK m \in ats : \A n \in ats : ~(n < m)
  BY <1>1, LeastOf
<1>3. \A e \in S : m <= e.at
  <2> SUFFICES ASSUME NEW e \in S PROVE m <= e.at
    OBVIOUS
  <2>1. e.at \in ats
    OBVIOUS
  <2> HIDE DEF ats
  <2>2. m \in Nat /\ e.at \in Nat /\ ~(e.at < m)
    BY <1>1, <1>2, <2>1
  <2>3. QED BY <2>2
<1>4. Oldest(S) \in ats /\ \A e \in S : Oldest(S) <= e.at
  BY <1>2, <1>3 DEF Oldest
<1>5. QED BY <1>1, <1>4

-----------------------------------------------------------------------------
(* A wipe, page by page. *)

\* The pages start as the recursive function says.
LEMMA StartsStep ==
    ASSUME NEW S
    PROVE  \E start : /\ PageStarts(S) = {start[p] : p \in 0..(MaxPages - 1)}
                      /\ start[0] = MaxAt
                      /\ \A p \in 1..MaxPages : start[p] = Before(S, start[p - 1])
<1> DEFINE equation(f) == f = [p \in 0..MaxPages |-> IF p = 0 THEN MaxAt ELSE Before(S, f[p - 1])]
           walks(f, n) == f[0] = MaxAt /\ \A p \in 1..n : f[p] = Before(S, f[p - 1])
           start == CHOOSE f : equation(f)
           done == {n \in Nat : \E f : walks(f, n)}
<1>1. 0 \in done
  <2>1. walks([p \in {0} |-> MaxAt], 0)
    OBVIOUS
  <2> HIDE DEF walks
  <2>2. QED BY <2>1
<1>2. ASSUME NEW n \in done PROVE n + 1 \in done
  <2>1. PICK f : walks(f, n)
    BY <1>2
  <2> DEFINE g == [p \in 0..(n + 1) |-> IF p = n + 1 THEN Before(S, f[n]) ELSE f[p]]
  <2>2. n \in Nat
    BY <1>2
  <2>3. g[0] = f[0]
    BY <2>2
  <2>4. ASSUME NEW p \in 1..(n + 1) PROVE g[p] = Before(S, g[p - 1])
    <3>1. p - 1 \in 0..n /\ p - 1 # n + 1 /\ p - 1 \in 0..(n + 1) /\ p \in 0..(n + 1)
      BY <2>2
    <3>2. g[p - 1] = f[p - 1]
      BY <3>1
    <3>3. CASE p = n + 1
      <4>1. p - 1 = n /\ g[p] = Before(S, f[n])
        BY <2>2, <3>1, <3>3
      <4> HIDE DEF g
      <4>2. QED BY <3>2, <4>1
    <3>4. CASE p # n + 1
      <4>1. p \in 1..n /\ g[p] = f[p]
        BY <2>2, <3>1, <3>4
      <4> HIDE DEF g
      <4>2. QED BY <2>1, <3>2, <4>1
    <3>5. QED BY <3>3, <3>4
  <2> HIDE DEF g
  <2>5. walks(g, n + 1)
    BY <2>1, <2>3, <2>4
  <2> HIDE DEF walks
  <2>6. QED BY <2>2, <2>5
<1>3. MaxPages \in done
  <2> DEFINE left == {n \in Nat : n \notin done}
  <2> HIDE DEF done
  <2> SUFFICES ASSUME left # {} PROVE FALSE
    BY PagesAssumption
  <2>1. PICK m \in left : \A n \in left : ~(n < m)
    BY LeastOf
  <2>2. m \in Nat /\ m # 0 /\ m \notin done
    BY <1>1, <2>1
  <2>3. m - 1 \in Nat /\ m - 1 < m /\ (m - 1) + 1 = m
    BY <2>2
  <2>4. m - 1 \in done
    BY <2>1, <2>3
  <2>5. QED BY <1>2, <2>2, <2>3, <2>4
<1>4. PICK f : walks(f, MaxPages)
  <2> HIDE DEF walks
  <2>1. QED BY <1>3
<1>5. equation([p \in 0..MaxPages |-> f[p]])
  <2>1. \A p \in 0..MaxPages : p # 0 => p - 1 \in 0..MaxPages /\ p \in 1..MaxPages
    BY PagesAssumption
  <2>2. QED BY <1>4, <2>1
<1>6. equation(start)
  <2> HIDE DEF equation
  <2>1. QED BY <1>5
<1>7. PageStarts(S) = {start[p] : p \in 0..(MaxPages - 1)}
  BY DEF PageStarts
<1> HIDE DEF start
<1>8. start[0] = MaxAt
  BY <1>6, PagesAssumption
<1>9. ASSUME NEW p \in 1..MaxPages PROVE start[p] = Before(S, start[p - 1])
  <2>1. p \in 0..MaxPages /\ p # 0
    BY PagesAssumption
  <2>2. QED BY <1>6, <2>1
<1>10. QED BY <1>7, <1>8, <1>9

\* No author has more events stored in a scope than the pages of one wipe hold.
FewStored ==
    \A k \in Authors, s \in Scopes :
        Cardinality({e \in db : e.author = k /\ e.scope = s}) <= MaxPages * PageSize

\* What was stored after the second t.
After(S, t) == {f \in S : f.at > t}

\* A page that leaves out e, which shares its second with nothing, is full, and the next one
\* starts between its events and e.
LEMMA PageBefore ==
    ASSUME NEW S \in SUBSET Events, NEW e \in S, NEW t \in Nat,
           e.at <= t, e \notin Page(S, t), \A f \in S : f.at = e.at => f = e
    PROVE  /\ Before(S, t) \in Nat /\ e.at <= Before(S, t)
           /\ Cardinality(After(S, Before(S, t))) >= Cardinality(After(S, t)) + PageSize
<1> DEFINE upto == {f \in S : f.at <= t}
           page == Page(S, t)
<1>1. t # None
  BY NoneAssumption
<1>2. page = Newest(upto, PageSize)
  <2>1. {f \in S : t # None /\ f.at <= t} = upto
    BY <1>1
  <2> HIDE DEF upto
  <2>2. QED BY <2>1 DEF Page
<1>3. upto \in SUBSET Events /\ e \in upto /\ e \notin page
  OBVIOUS
<1>4. /\ page \subseteq upto
      /\ \A f \in page : Newer(f, e)
      /\ Cardinality(page) >= PageSize /\ Cardinality(page) \in Nat
      /\ IsFiniteSet(page)
  <2> HIDE DEF upto, page
  <2>1. page \subseteq upto
    BY <1>2 DEF Newest
  <2>2. \A f \in page : Newer(f, e)
    BY <1>2, <1>3, PagesAssumption, NewestAreFirst
  <2>3. Cardinality(page) >= PageSize
    BY <1>2, <1>3, PagesAssumption, NewestAreFirst
  <2>4. page \in SUBSET Events
    BY <1>3, <2>1
  <2>5. IsFiniteSet(page)
    BY <2>4, NewerAreFinite
  <2>6. QED BY <2>1, <2>2, <2>3, <2>5, FS_CardinalityType
<1>5. \A f \in Events : f.at \in Nat /\ f.at >= 1
  BY EventsAssumption
<1>6. \A f \in page : f \in S /\ f.at > e.at /\ f.at <= t
  <2> SUFFICES ASSUME NEW f \in page PROVE f \in S /\ f.at > e.at /\ f.at <= t
    OBVIOUS
  <2> HIDE DEF page
  <2>1. f \in S /\ f.at <= t /\ Newer(f, e)
    BY <1>4
  <2>2. f # e
    BY <1>3
  <2>3. f.at \in Nat /\ e.at \in Nat
    BY <1>5, <2>1
  <2>4. f.at >= e.at /\ f.at # e.at
    BY <2>1, <2>2, <2>3 DEF Newer
  <2>5. QED BY <2>1, <2>3, <2>4
<1> HIDE DEF page
<1>7. page \in SUBSET Events /\ page # {}
  <2>1. Cardinality({}) = 0
    BY FS_EmptySet
  <2>2. page # {}
    BY <1>4, <2>1, PagesAssumption
  <2>3. QED BY <1>6, <2>2
<1>8. /\ Oldest(page) \in Nat /\ Oldest(page) > e.at
      /\ \A f \in page : Oldest(page) <= f.at
      /\ Oldest(page) <= t
  <2>1. /\ Oldest(page) \in Nat
        /\ \A f \in page : Oldest(page) <= f.at
    BY <1>7, OldestIsLeast
  <2>2. PICK f \in page : f.at = Oldest(page)
    BY <1>7, OldestIsLeast
  <2>3. QED BY <1>6, <2>1, <2>2
<1>9. Before(S, t) = Oldest(page) - 1
  <2>1. ~(Cardinality(page) < PageSize)
    BY <1>4, PagesAssumption
  <2>2. e.at \in Nat /\ e.at >= 1
    BY <1>5
  <2>3. Oldest(page) # 0
    BY <1>8, <2>2
  <2>4. QED BY <2>1, <2>3 DEF Before, page
<1>10. PICK b : b = Before(S, t)
  OBVIOUS
<1>11. b \in Nat /\ e.at <= b /\ b < t /\ \A f \in page : f.at > b
  <2>1. e.at \in Nat
    BY <1>5
  <2>2. \A f \in page : f.at \in Nat
    BY <1>5, <1>7
  <2>3. b \in Nat /\ e.at <= b /\ b < t
    BY <1>8, <1>9, <1>10, <2>1
  <2>4. \A f \in page : f.at > b
    BY <1>8, <1>9, <1>10, <2>2
  <2>5. QED BY <2>3, <2>4
<1>12. Cardinality(After(S, b)) >= Cardinality(After(S, t)) + PageSize
  <2>1. After(S, b) \in SUBSET Events /\ After(S, t) \in SUBSET Events
    BY DEF After
  <2>2. IsFiniteSet(After(S, b)) /\ IsFiniteSet(After(S, t))
    BY <2>1, NewerAreFinite
  <2>3. After(S, t) \cap page = {}
    <3>1. ASSUME NEW f \in page, f \in After(S, t) PROVE FALSE
      <4>1. f.at > t /\ f.at <= t /\ f.at \in Nat
        BY <1>5, <1>6, <1>7, <3>1 DEF After
      <4>2. QED BY <4>1
    <3>2. QED BY <3>1
  <2>4. After(S, t) \cup page \subseteq After(S, b)
    <3>1. ASSUME NEW f \in After(S, t) PROVE f \in After(S, b)
      <4>1. f \in S /\ f.at > t /\ f.at \in Nat
        BY <1>5, <3>1 DEF After
      <4>2. f.at > b
        BY <1>11, <4>1
      <4>3. QED BY <4>1, <4>2 DEF After
    <3>2. page \subseteq After(S, b)
      BY <1>6, <1>11 DEF After
    <3>3. QED BY <3>1, <3>2
  <2>5. Cardinality(After(S, t) \cup page) = Cardinality(After(S, t)) + Cardinality(page)
    <3>1. Cardinality(After(S, t) \cup page)
            = Cardinality(After(S, t)) + Cardinality(page) - Cardinality(After(S, t) \cap page)
      BY <1>4, <2>2, FS_Union
    <3>2. Cardinality(After(S, t) \cap page) = 0
      BY <2>3, FS_EmptySet
    <3>3. Cardinality(After(S, t)) \in Nat
      BY <2>2, FS_CardinalityType
    <3>4. QED BY <1>4, <3>1, <3>2, <3>3
  <2>6. Cardinality(After(S, t) \cup page) <= Cardinality(After(S, b))
    BY <2>2, <2>4, FS_Subset
  <2>7. Cardinality(After(S, b)) \in Nat /\ Cardinality(After(S, t)) \in Nat
    BY <2>2, FS_CardinalityType
  <2>8. QED BY <1>4, <2>5, <2>6, <2>7, PagesAssumption
<1>13. QED BY <1>10, <1>11, <1>12

\* Nothing is left out of as many pages as hold everything.
LEMMA PagesReachAll ==
    ASSUME NEW S \in SUBSET Events, NEW e \in S,
           Cardinality(S) <= MaxPages * PageSize, \A f \in S : f.at = e.at => f = e
    PROVE  \E t \in PageStarts(S) : e \in Page(S, t)
<1> SUFFICES ASSUME \A t \in PageStarts(S) : e \notin Page(S, t) PROVE FALSE
  OBVIOUS
<1>1. PICK start : /\ PageStarts(S) = {start[p] : p \in 0..(MaxPages - 1)}
                   /\ start[0] = MaxAt
                   /\ \A p \in 1..MaxPages : start[p] = Before(S, start[p - 1])
  BY StartsStep
<1> DEFINE passed(p) == /\ start[p] \in Nat /\ e.at <= start[p]
                        /\ Cardinality(After(S, start[p])) >= p * PageSize
           left == {p \in 0..MaxPages : ~passed(p)}
<1>2. MaxPages \in Nat /\ PageSize \in Nat /\ MaxPages >= 1
  BY PagesAssumption
<1>3. \A t : IsFiniteSet(After(S, t)) /\ Cardinality(After(S, t)) \in Nat
  <2>1. ASSUME NEW t PROVE IsFiniteSet(After(S, t)) /\ Cardinality(After(S, t)) \in Nat
    <3>1. After(S, t) \in SUBSET Events
      BY DEF After
    <3>2. QED BY <3>1, NewerAreFinite, FS_CardinalityType
  <2>2. QED BY <2>1
<1>4. passed(0)
  <2>1. MaxAt \in Nat /\ e.at <= MaxAt
    BY EventsAssumption
  <2>2. Cardinality(After(S, MaxAt)) >= 0 * PageSize
    BY <1>2, <1>3
  <2>3. QED BY <1>1, <2>1, <2>2
<1>5. ASSUME NEW p \in 0..(MaxPages - 1), passed(p) PROVE passed(p + 1)
  <2>1. p + 1 \in 1..MaxPages /\ (p + 1) - 1 = p
    BY <1>2
  <2>2. start[p + 1] = Before(S, start[p])
    BY <1>1, <2>1
  <2>3. PICK t : t = start[p]
    OBVIOUS
  <2>4. t \in Nat /\ e.at <= t /\ Cardinality(After(S, t)) >= p * PageSize
    BY <1>5, <2>3
  <2>5. e \notin Page(S, t)
    BY <1>1, <2>3
  <2>6. /\ Before(S, t) \in Nat /\ e.at <= Before(S, t)
        /\ Cardinality(After(S, Before(S, t))) >= Cardinality(After(S, t)) + PageSize
    BY <2>4, <2>5, PageBefore
  <2>7. PICK b : b = Before(S, t)
    OBVIOUS
  <2>8. Cardinality(After(S, b)) >= (p + 1) * PageSize
    <3>1. p \in Nat /\ (p + 1) * PageSize = p * PageSize + PageSize /\ p * PageSize \in Nat
      BY <1>2
    <3>2. PICK done : done = p * PageSize
      OBVIOUS
    <3>3. Cardinality(After(S, b)) >= done + PageSize
      BY <1>2, <1>3, <2>4, <2>6, <2>7, <3>1, <3>2
    <3>4. QED BY <3>1, <3>2, <3>3
  <2>9. QED BY <2>2, <2>3, <2>6, <2>7, <2>8
<1>6. passed(MaxPages)
  <2> HIDE DEF passed
  <2> SUFFICES ASSUME left # {} PROVE FALSE
    BY <1>2
  <2>1. left \in SUBSET Nat
    OBVIOUS
  <2>2. PICK m \in left : \A n \in left : ~(n < m)
    BY <2>1, LeastOf
  <2>3. m \in 0..MaxPages /\ ~passed(m)
    BY <2>2
  <2>4. m # 0
    BY <1>4, <2>3
  <2>5. m - 1 \in 0..(MaxPages - 1) /\ m - 1 \in 0..MaxPages /\ m - 1 < m /\ (m - 1) + 1 = m
    BY <1>2, <2>3, <2>4
  <2>6. passed(m - 1)
    BY <2>2, <2>5
  <2>7. passed((m - 1) + 1)
    BY <1>5, <2>5, <2>6
  <2>8. QED BY <2>3, <2>5, <2>7
<1>7. PICK t : t = start[MaxPages]
  OBVIOUS
<1>8. t \in Nat /\ e.at <= t /\ Cardinality(After(S, t)) >= MaxPages * PageSize
  BY <1>6, <1>7
<1>9. e \notin After(S, t) /\ After(S, t) \subseteq S
  <2>1. e.at \in Nat
    BY EventsAssumption
  <2>2. QED BY <1>8, <2>1 DEF After
<1>10. Cardinality(After(S, t)) < Cardinality(S)
  <2>1. IsFiniteSet(S)
    BY NewerAreFinite
  <2>2. Cardinality(After(S, t)) <= Cardinality(S) /\ (Cardinality(After(S, t)) = Cardinality(S) => After(S, t) = S)
    BY <1>9, <2>1, FS_Subset
  <2>3. Cardinality(S) \in Nat
    BY <2>1, FS_CardinalityType
  <2>4. QED BY <1>3, <1>9, <2>2, <2>3
<1>11. PICK most : most = MaxPages * PageSize
  OBVIOUS
<1>12. most \in Nat /\ Cardinality(S) \in Nat
  <2>1. IsFiniteSet(S)
    BY NewerAreFinite
  <2>2. QED BY <1>2, <1>11, <2>1, FS_CardinalityType
<1>13. QED BY <1>3, <1>8, <1>10, <1>11, <1>12

\* A wipe without a choice of kinds reaches every event that is not protected, as long as
\* its pages hold all that the author has in the scope.
THEOREM WipesReachAll == Spec => [](FewStored => WipeReachesAll)
<1>1. RecordsInv => (FewStored => WipeReachesAll)
  <2> SUFFICES ASSUME RecordsInv, FewStored,
                      NEW e \in db, e.scope \in GroupScopes, e.kind \notin NeverPrune,
                      \A f \in db \ {e} :
                          ~(f.author = e.author /\ f.scope = e.scope /\ f.at = e.at)
               PROVE  e \in Wiped(e.author, None, e.scope)
    BY DEF WipeReachesAll
  <2> DEFINE own == {f \in db : f.author = e.author /\ f.scope = e.scope}
  <2>1. e \in Events /\ own \in SUBSET Events /\ e \in own
    BY DEF RecordsInv
  <2>2. e.author \in Authors /\ e.scope \in Scopes
    BY <2>1 DEF Authors, Scopes
  <2>3. Cardinality(own) <= MaxPages * PageSize
    BY <2>2 DEF FewStored
  <2>4. \A f \in own : f.at = e.at => f = e
    OBVIOUS
  <2>5. AuthorKinds(e.author, e.scope) = UNION {{f.kind : f \in Page(own, until)} : until \in PageStarts(own)}
    BY DEF AuthorKinds
  <2> HIDE DEF own
  <2>6. PICK t \in PageStarts(own) : e \in Page(own, t)
    BY <2>1, <2>3, <2>4, PagesReachAll
  <2>7. e.kind \in AuthorKinds(e.author, e.scope)
    BY <2>5, <2>6
  <2>8. QED BY <2>1, <2>7 DEF Wiped
<1>2. QED BY <1>1, RecordsInvHolds, PTL

-----------------------------------------------------------------------------
(* A reader, page by page. *)

\* A page of what may be seen of the newest of S: of what may be seen, all that is in the
\* second in which the page ends, or after it, shares its second with something on the page.
LEMMA PageShows ==
    ASSUME NEW S \in SUBSET Events, NEW m \in Nat \ {0}, NEW n \in Nat \ {0},
           NEW V \in SUBSET Newest(S, m), V # {},
           NEW e \in S, e \in Newest(S, m) => e \in V
    PROVE  /\ Newest(V, n) # {} /\ Oldest(Newest(V, n)) \in Nat
           /\ e.at >= Oldest(Newest(V, n)) => \E f \in Newest(V, n) : f.at = e.at
<1>1. PICK page : page = Newest(V, n)
  OBVIOUS
<1>2. V \in SUBSET Events /\ page \subseteq V
  BY <1>1 DEF Newest
<1>3. page \in SUBSET Events /\ page # {}
  BY <1>1, <1>2, NewestAreSome
<1>4. Oldest(page) \in Nat /\ \E f \in page : f.at = Oldest(page)
  BY <1>3, OldestIsLeast
<1>5. ASSUME e \notin page, e.at >= Oldest(page) PROVE \E f \in page : f.at = e.at
  <2>1. PICK f \in page : f.at = Oldest(page)
    BY <1>4
  <2>2. Newer(f, e)
    <3>1. CASE e \in V
      BY <1>1, <1>2, <1>5, <3>1, NewestAreFirst
    <3>2. CASE e \notin V
      <4>1. e \in S \ Newest(S, m) /\ f \in Newest(S, m)
        BY <1>2, <3>2
      <4>2. QED BY <4>1, NewestAreFirst
    <3>3. QED BY <3>1, <3>2
  <2>3. e \in Events /\ f \in Events
    BY <1>3
  <2>4. e.at \in Nat /\ f.at \in Nat
    BY <2>3, EventsAssumption
  <2>5. f.at >= e.at
    BY <2>2, <2>3, NewerIsOrder
  <2>6. QED BY <1>5, <2>1, <2>4, <2>5
<1>6. QED BY <1>1, <1>3, <1>4, <1>5

Talk(g) == {e \in Events : e.kind = "message" /\ e.group = g}
SharesSecond(e, S) == \E f \in S : f.at = e.at

\* What stayed stored while somebody reads: messages of their group.  Those at or after the
\* cursor share their second with something seen; while an answer is on its way it was taken
\* from messages that were stored, all that were not seen among them.
ReaderInv ==
    reader # None =>
        /\ reader.stored \subseteq Talk(reader.group)
        /\ reader.stored # {} /\ reader.next # None => reader.next \in Nat
        /\ reader.raw = {} => \A e \in reader.stored :
              reader.next = None \/ e.at >= reader.next => SharesSecond(e, reader.seen)
        /\ \A answer \in reader.raw : \E S \in SUBSET Talk(reader.group) :
              /\ answer = Newest(S, 2 * PageLimit)
              /\ \A e \in reader.stored : e \in S \/ SharesSecond(e, reader.seen)

\* A page is shown, and what stayed stored is on it, in its last second, before it, or was
\* seen.
LEMMA ReadingKeeps ==
    ASSUME NEW g, NEW page, NEW seen, NEW stored \in SUBSET Talk(g),
           reader' = Reading(g, page, seen, stored),
           stored # {} => page \in SUBSET Events,
           \A e \in stored :
               \/ SharesSecond(e, seen)
               \/ page # {} /\ (e.at >= Oldest(page) => SharesSecond(e, page))
    PROVE  ReaderInv'
<1> DEFINE next == IF page = {} THEN None ELSE Oldest(page)
<1>1. /\ reader'.group = g /\ reader'.stored = stored /\ reader'.raw = {}
      /\ reader'.seen = seen \cup page /\ reader'.next = next
  BY DEF Reading
<1>2. stored # {} /\ page # {} => next \in Nat /\ next # None /\ next = Oldest(page)
  BY OldestIsLeast, NoneAssumption
<1>3. page = {} => next = None
  OBVIOUS
<1> HIDE DEF next
<1>4. ASSUME NEW e \in stored, next = None \/ e.at >= next PROVE SharesSecond(e, seen \cup page)
  BY <1>2, <1>4 DEF SharesSecond
<1>5. QED BY <1>1, <1>2, <1>3, <1>4 DEF ReaderInv

\* An answer is on its way.
LEMMA AskingKeeps ==
    ASSUME NEW g, NEW S \in SUBSET Talk(g), NEW stored \in SUBSET Talk(g), NEW seen, NEW next,
           reader'.group = g, reader'.stored = stored, reader'.seen = seen, reader'.next = next,
           reader'.raw = {Newest(S, 2 * PageLimit)},
           stored # {} /\ next # None => next \in Nat,
           \A e \in stored : e \in S \/ SharesSecond(e, seen)
    PROVE  ReaderInv'
BY DEF ReaderInv

LEMMA ReaderInvHolds == Spec => []ReaderInv
<1>1. Init => ReaderInv
  BY DEF Init, ReaderInv
<1>2. RecordsInv /\ ReaderInv /\ [Next]_vars => ReaderInv'
  <2> SUFFICES ASSUME RecordsInv, ReaderInv, [Next]_vars PROVE ReaderInv'
    OBVIOUS
  <2>1. ASSUME UNCHANGED reader PROVE ReaderInv'
    BY <2>1 DEF ReaderInv
  <2>2. \A g : Messages(g) \in SUBSET Talk(g) /\ Talk(g) \cap db = Messages(g)
    BY DEF Messages, Talk, RecordsInv
  <2>3. PageLimit \in Nat \ {0} /\ RecentPerGroup \in Nat \ {0} /\ 2 * PageLimit \in Nat \ {0}
    BY RecentAssumption
  <2>4. ASSUME NEW g, StartReading(g) PROVE ReaderInv'
    <3>1. reader' = [group |-> g, raw |-> {MessagesFrom(g, None)}, seen |-> {},
                     stored |-> Messages(g), next |-> None]
      BY <2>4 DEF StartReading
    <3>2. MessagesFrom(g, None) = Newest(Messages(g), 2 * PageLimit)
      <4>1. {e \in Messages(g) : None = None \/ e.at < None} = Messages(g)
        OBVIOUS
      <4>2. QED BY <4>1 DEF MessagesFrom
    <3>3. QED BY <2>2, <3>1, <3>2, AskingKeeps
  <2>5. ASSUME ReadOn PROVE ReaderInv'
    <3>1. PICK g, next, seen, stored :
            /\ g = reader.group /\ next = reader.next /\ seen = reader.seen /\ stored = reader.stored
      OBVIOUS
    <3>2. /\ next # None
          /\ reader'.group = g /\ reader'.next = next /\ reader'.seen = seen
          /\ reader'.stored = stored \cap db /\ reader'.raw = {MessagesFrom(g, next)}
      BY <2>5, <3>1 DEF ReadOn
    <3>3. /\ stored \subseteq Talk(g)
          /\ stored # {} => next \in Nat
          /\ \A e \in stored : e.at >= next => SharesSecond(e, seen)
      BY <2>5, <3>1, <3>2 DEF ReadOn, ReaderInv
    <3> DEFINE S == {e \in Messages(g) : next = None \/ e.at < next}
    <3>4. S \in SUBSET Talk(g) /\ MessagesFrom(g, next) = Newest(S, 2 * PageLimit)
      BY <2>2 DEF MessagesFrom
    <3>5. ASSUME NEW e \in stored \cap db PROVE e \in S \/ SharesSecond(e, seen)
      <4>1. e \in Messages(g) /\ e \in Events
        BY <2>2, <3>3 DEF Talk
      <4>2. e.at \in Nat /\ next \in Nat
        BY <3>3, <4>1, EventsAssumption
      <4>3. QED BY <3>3, <4>1, <4>2
    <3> HIDE DEF S
    <3>6. PICK left : left = stored \cap db
      OBVIOUS
    <3>7. /\ left \in SUBSET Talk(g) /\ reader'.stored = left
          /\ reader'.raw = {Newest(S, 2 * PageLimit)}
          /\ left # {} /\ next # None => next \in Nat
          /\ \A e \in left : e \in S \/ SharesSecond(e, seen)
      BY <3>2, <3>3, <3>4, <3>5, <3>6
    <3>8. QED BY <3>2, <3>4, <3>7, AskingKeeps
  <2>6. ASSUME NEW S \in SUBSET Events, NEW m \in Nat \ {0}, NEW n \in Nat \ {0}, NEW e \in S,
               Sees(e), Visible(Newest(S, m)) # {}
        PROVE  /\ Newest(Visible(Newest(S, m)), n) # {}
               /\ e.at >= Oldest(Newest(Visible(Newest(S, m)), n))
                    => SharesSecond(e, Newest(Visible(Newest(S, m)), n))
    <3>1. PICK V : V = Visible(Newest(S, m))
      OBVIOUS
    <3>2. V \in SUBSET Newest(S, m) /\ V # {} /\ (e \in Newest(S, m) => e \in V)
      BY <2>6, <3>1 DEF Visible
    <3>3. PICK page : page = Newest(V, n)
      OBVIOUS
    <3>4. page # {} /\ (e.at >= Oldest(page) => \E f \in page : f.at = e.at)
      BY <2>6, <3>2, <3>3, PageShows
    <3>5. QED BY <3>1, <3>3, <3>4 DEF SharesSecond
  <2>7. ASSUME Deliver PROVE ReaderInv'
    <3>1. PICK g, seen, before : g = reader.group /\ seen = reader.seen /\ before = reader.stored
      OBVIOUS
    <3>2. PICK answer \in reader.raw :
            reader' = Reading(g, Newest(Visible(answer), PageLimit), seen,
                              IF MayRead(g) THEN before \cap db ELSE {})
      BY <2>7, <3>1 DEF Deliver
    <3>3. before \subseteq Talk(g)
      BY <2>7, <3>1 DEF Deliver, ReaderInv
    <3>4. PICK S \in SUBSET Talk(g) :
            /\ answer = Newest(S, 2 * PageLimit)
            /\ \A e \in before : e \in S \/ SharesSecond(e, seen)
      BY <2>7, <3>1, <3>2 DEF Deliver, ReaderInv
    <3>5. PICK stored, page : /\ stored = IF MayRead(g) THEN before \cap db ELSE {}
                              /\ page = Newest(Visible(answer), PageLimit)
      OBVIOUS
    <3>6. S \in SUBSET Events
      BY <3>4 DEF Talk
    <3>7. page \in SUBSET Events /\ stored \in SUBSET Talk(g)
      BY <3>3, <3>4, <3>5, <3>6 DEF Newest, Visible
    <3>8. ASSUME NEW e \in stored, ~SharesSecond(e, seen)
          PROVE  page # {} /\ (e.at >= Oldest(page) => SharesSecond(e, page))
      <4>1. e \in S /\ MayRead(g)
        BY <3>4, <3>5, <3>8
      <4>2. \A f \in S : Sees(f)
        <5>1. \A f \in S : f.group = g /\ f.kind = "message"
          BY DEF Talk
        <5>2. QED BY <4>1, <5>1 DEF Sees
      <4>3. Newest(S, 2 * PageLimit) # {}
        BY <2>3, <3>6, <4>1, NewestAreSome
      <4>4. Visible(answer) # {}
        BY <3>4, <4>2, <4>3 DEF Visible, Newest
      <4>5. QED BY <2>3, <2>6, <3>4, <3>5, <3>6, <4>1, <4>2, <4>4
    <3>9. QED BY <3>2, <3>5, <3>7, <3>8, ReadingKeeps
  <2>8. ASSUME NEW g, Bootstrap(g) PROVE ReaderInv'
    <3> PICK recent : recent = entries[g].recent
      OBVIOUS
    <3>0. PICK limit \in 1..RecentPerGroup :
            reader' = Reading(g, Newest(Visible(recent), limit), {},
                              IF recent = RecentOf(db, g) /\ Newest(Visible(recent), limit) # {}
                              THEN Messages(g) ELSE {})
      BY <2>8 DEF Bootstrap
    <3>1. PICK page, stored :
            /\ page = Newest(Visible(recent), limit)
            /\ stored = IF recent = RecentOf(db, g) /\ page # {} THEN Messages(g) ELSE {}
            /\ reader' = Reading(g, page, {}, stored)
      BY <3>0
    <3> DEFINE S == {e \in db : IsContent(e) /\ e.group = g}
    <3>2. S \in SUBSET Events /\ Messages(g) \subseteq S
      BY DEF RecordsInv, Messages, IsContent
    <3>3. RecentOf(db, g) = Newest(S, RecentPerGroup)
      BY DEF RecentOf
    <3> HIDE DEF S
    <3>4. limit \in Nat \ {0}
      BY <2>3
    <3>5. stored \in SUBSET Talk(g)
      BY <2>2, <3>1
    <3>6. CASE stored = {}
      BY <3>1, <3>5, <3>6, ReadingKeeps
    <3>7. CASE stored # {}
      <4>1. recent = Newest(S, RecentPerGroup) /\ page # {} /\ stored = Messages(g)
        BY <3>1, <3>3, <3>7
      <4>2. page \in SUBSET Events /\ Visible(recent) # {}
        BY <3>1, <3>2, <4>1 DEF Newest, Visible
      <4>3. ASSUME NEW e \in stored PROVE e.at >= Oldest(page) => SharesSecond(e, page)
        <5>1. e \in S /\ Sees(e)
          <6>1. e.kind = "message" /\ e.group = g /\ MayRead(g)
            BY <2>8, <4>1 DEF Messages, Bootstrap
          <6>2. QED BY <3>2, <4>1, <6>1 DEF Sees
        <5>2. QED BY <2>3, <2>6, <3>1, <3>2, <3>4, <4>1, <4>2, <5>1
      <4>4. QED BY <3>1, <3>5, <4>1, <4>2, <4>3, ReadingKeeps
    <3>8. QED BY <3>6, <3>7
  <2>9. QED
    BY <2>1, <2>4, <2>5, <2>7, <2>8
    DEF Next, IndexPublish, IndexDelete, Unindexed, StartRebuild, RebuildStep, LoadState, LoadRecent,
        FailLoad, InsertEntry, FinishRebuild, ChangeStanding, Restart, readerVars, vars
<1>3. QED BY <1>1, <1>2, RecordsInvHolds, PTL DEF Spec

\* Whoever has paged to the end, from a first page or from a bootstrap, has seen every message
\* that was stored all the while, but for those that share a second with something seen.
THEOREM ReadersMissNothing == Spec => []PagesMissNothing
<1>1. ReaderInv => PagesMissNothing
  BY DEF ReaderInv, PagesMissNothing, SharesSecond
<1>2. QED BY <1>1, ReaderInvHolds, PTL
=============================================================================
