------------------------- MODULE MCInviteAdmission -------------------------
(* Small instances of InviteAdmission: one admin's codes and one newcomer. *)
EXTENDS InviteAdmission, TLC

CONSTANTS admin, newcomer, c1, w1, w2

MCKeys == {admin, newcomer}
MCAdmins == {admin}
MCOneKey == {newcomer}
MCFreshGrant == [maxCodes |-> 1, maxUses |-> 1, maxTotal |-> 1, maxTtl |-> 1]
MCAddOne == [maxCodes |-> None, maxUses |-> None, maxTotal |-> None, maxTtl |-> None, add |-> 1]
MCOneLink == [MCAddOne EXCEPT !.maxCodes = 0, !.maxUses = 1, !.maxTtl = 0, !.add = 0]
MCTotal == [MCAddOne EXCEPT !.maxTotal = 1, !.add = 0]
MCGrantRequests == {MCAddOne, MCOneLink, MCTotal}
MCAddingOne == {MCAddOne}
MCNone == {None}
MCCodes == {c1}
\* Bounds: a behaviour has an admin's codes or grants, and no file is written with
\* grants, which the run with one handler does; additions that were lost are counted
\* up to MaxTotal.
CodesOrGrants ==
    \/ /\ auto = {} /\ \A pk \in Keys : grants[pk] = None
       /\ \A w \in Workers : task[w].at # "grant"
    \/ /\ \A c \in Codes : invites[c] = None
       /\ disk = NoFile /\ acked = {} /\ \A w \in Workers : task[w].at # "write"
       /\ \A pk \in Keys : given[pk] <= MaxTotal
WorkerSymmetry == Permutations({w1, w2})
=============================================================================
