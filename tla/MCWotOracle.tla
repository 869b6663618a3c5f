---------------------------- MODULE MCWotOracle ----------------------------
(* Small instances of WotOracle: a root, two accounts it follows, and the one
   that one of them follows. *)
EXTENDS WotOracle, TLC

CONSTANTS root, near, other, far, w1, w2, console1

MCKeys == {root, near, other, far}
MCPublished == root :> {near, other} @@ near :> {far} @@ other :> {} @@ far :> {root}
MCRefSets == {{}, {root}}
=============================================================================
