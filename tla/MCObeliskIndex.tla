--------------------------- MODULE MCObeliskIndex ---------------------------
(* One group on a subdomain, a few events of its members, and a report about one. *)
EXTENDS ObeliskIndex

CONSTANTS relay, ana, bo, g1, team

Event(id, group, kind, author, at, to, about) ==
    [id |-> id, scope |-> team, group |-> group, kind |-> kind, author |-> author, at |-> at,
     to |-> to, about |-> about]

Metadata == Event(2, g1, "state", relay, 1, {}, None)
Edited == Event(3, g1, "state", relay, 2, {}, None)
Hello == Event(4, g1, "message", ana, 1, {bo}, None)
Reply == Event(5, g1, "message", bo, 2, {}, None)
Invitation == Event(6, g1, "invite", ana, 2, {}, None)
Added == Event(7, g1, "put", ana, 1, {bo}, None)
Complaint == Event(8, None, "report", bo, 2, {relay}, 4)

MCEvents == {Metadata, Edited, Hello, Reply, Invitation, Added, Complaint}
MCSeeds == {{Metadata, Hello, Added, Complaint}, {Metadata, Hello, Reply, Invitation}}
\* Bound: a behaviour has a report, in a group that is open to all, or a reader, who have no
\* state in common.  Up to two changes come before the end of what is read, and an operator
\* reads as one who may see everything does.
Reported == \E e \in {e \in Events : IsReport(e)} :
                e \in db \/ Save(e) \in pending \/ \E w \in writing : w.report = e
ReportOrReader ==
    /\ Reported => reader = None /\ standing[g1] = "all"
    /\ reader # None => changes <= 2
    /\ standing[g1] # "operator"

MCScopeOf == [g \in {g1} |-> team]
=============================================================================
