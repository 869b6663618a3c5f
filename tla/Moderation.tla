----------------------------- MODULE Moderation -----------------------------
(***************************************************************************)
(* The moderation queue: what a report points at is copied when the report *)
(* arrives (src/src/groups_event_processor.rs, src/src/reports.rs), so     *)
(* that a case can be judged when the event is gone (src/src/groups.rs,    *)
(* src/src/admin.rs).                                                      *)
(***************************************************************************)
EXTENDS Records

VARIABLES
    evidence,     \* EvidenceStore: the captured events, by id
    evidenceFile, \* reports_evidence.json
    writing,      \* reports whose handler has captured and not yet written, with the snapshot
    resolved,     \* the ids of resolved targets, as the file has them after the next restart
    captured,     \* ghost: the ids that a handler saw stored when it took a report
    overlapped    \* ghost: a write overlapped another report's handler or a crash

moderationVars == <<evidence, evidenceFile, writing, resolved, captured, overlapped>>

IsReport(e) == e.kind = "report"
Reports == {e \in db : IsReport(e)}

\* The reported event, if it is stored in one of these scopes.
Found(r, scopes) == {e \in db : e.id = r.about /\ e.scope \in scopes}

\* EvidenceStore::capture: the first capture wins.
Take(r) == IF \E e \in evidence : e.id = r.about THEN evidence ELSE evidence \cup Found(r, {r.scope})

\* handle_event of a 1984: capture_report_evidence looks in the scope of the report's
\* connection, and the report is stored when the copy has been written.
Report(r) ==
    /\ IsReport(r) /\ r \notin db
    /\ \A w \in writing : w.report # r
    /\ evidence' = Take(r)
    /\ captured' = captured \cup {e.id : e \in Found(r, {r.scope})}
    /\ overlapped' = (overlapped \/ writing # {})
    /\ IF evidence' # evidence
       THEN /\ Change
            /\ writing' = writing \cup {[report |-> r, snapshot |-> evidence']}
            /\ UNCHANGED <<db, managed, pending>>
       ELSE Publish(r) /\ UNCHANGED writing
    /\ UNCHANGED <<evidenceFile, resolved>>

\* persist; an error is logged.
WriteEvidence(w) ==
    /\ Publish(w.report)
    /\ writing' = writing \ {w}
    /\ \/ evidenceFile' = w.snapshot /\ UNCHANGED overlapped
       \/ UNCHANGED evidenceFile /\ overlapped' = TRUE
    /\ UNCHANGED <<evidence, resolved, captured>>

\* What a report points at: an event, or a key when it has no e tag.
Target(r) == [about |-> r.about, keys |-> IF r.about = None THEN r.to ELSE {}]

\* admin_find_event_author, and EvidenceStore::get.
StoredAuthor(id) == {e.author : e \in {e \in db : e.id = id /\ e.scope \in KnownScopes}}
CopiedAuthor(id) == {e.author : e \in {e \in evidence : e.id = id}}

\* Mutant: whom the report names.
SubjectClaimed(t, claimed) ==
    IF t.about = None THEN t.keys ELSE IF StoredAuthor(t.about) # {} THEN StoredAuthor(t.about) ELSE claimed

\* report_subject_pubkey and admin_get_reports: the author of the stored event, or of the
\* copy; whom the report names counts when the target is a key.
Subject(t, claimed) ==
    IF t.about = None THEN t.keys
    ELSE IF StoredAuthor(t.about) # {} THEN StoredAuthor(t.about) ELSE CopiedAuthor(t.about)

\* group_into_cases: one case for each target of the reports in the scopes of groups.
Cases ==
    LET listed == {r \in Reports : r.scope \in KnownScopes}
        About(t) == {r \in listed : Target(r) = t}
    IN  {[target |-> t, reporters |-> {r.author : r \in About(t)},
          claimed |-> UNION {r.to : r \in About(t)}, open |-> t \notin resolved] :
            t \in {Target(r) : r \in listed}}

\* handle_report_resolve: what is decided is done before it is recorded.  The event is
\* deleted, or the subject blacklisted (AccessLists) or removed (Group), or nothing done.
Resolve(c) ==
    /\ \/ \E e \in Events : e.id = c.target.about /\ AdminDelete(e)
       \/ /\ Change
          /\ UNCHANGED <<db, managed, pending>>
    /\ resolved' = resolved \cup {c.target}
    /\ UNCHANGED <<evidence, evidenceFile, writing, captured, overlapped>>

\* A crash may cut a write short, and a file that does not parse is an empty store.  Nor
\* is it certain that the decisions were written.
RestartModeration ==
    /\ RestartRecords
    /\ evidence' \in {evidenceFile} \cup (IF writing = {} THEN {} ELSE {{}})
    /\ evidenceFile' = evidence'
    /\ writing' = {}
    /\ overlapped' = (overlapped \/ writing # {})
    /\ resolved' \in {resolved, {}}
    /\ UNCHANGED captured

-----------------------------------------------------------------------------
(* Properties. *)

\* A reported message that the relay saw stays attributable, to its author and nobody
\* else, when it is deleted, pruned or wiped and the relay restarts, as long as no
\* other report or crash came between a copy and its file.
CasesNameTheAuthor ==
    \A c \in Cases : c.target.about # None =>
        LET author == {e.author : e \in {e \in Events : e.id = c.target.about}}
            subject == Subject(c.target, c.claimed)
        IN  /\ subject \subseteq author
            /\ ~overlapped /\ c.target.about \in captured => subject = author
=============================================================================
