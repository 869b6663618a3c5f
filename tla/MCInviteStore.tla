--------------------------- MODULE MCInviteStore ---------------------------
(* Small instance of InviteStore: one minter, who is also an admin, and one newcomer. *)
EXTENDS InviteStore, TLC

CONSTANTS minter, newcomer, c1, c2

MCKeys == {minter, newcomer}
MCCodes == {c1, c2}
MCMinters == {minter}
MCGrants == {[maxCodes |-> 1, maxUses |-> 2, maxTotal |-> 1, maxTtl |-> 1]}
MCAskedUses == {None, 0, 1}
MCAskedTtls == {None, 0}
CodeSymmetry == Permutations(MCCodes)
=============================================================================
