-------------------------- MODULE MCGroupRegistry --------------------------
(* Small instances of GroupRegistry: two handlers at once on one id. *)
EXTENDS GroupRegistry, TLC

CONSTANTS relay, alice, w1, w2

MCKeys == {relay, alice}
MCWorkers == {w1, w2}
WorkerSymmetry == Permutations(MCWorkers)
=============================================================================
