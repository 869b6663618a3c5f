--------------------------- MODULE MCAccessLists ---------------------------
(* Small instances of AccessLists: the owner, who follows a friend, who follows
   a stranger; each list has keys of its own to change.  Of the pinned roots
   there are more than a page has rows. *)
EXTENDS AccessLists, TLC

CONSTANTS owner, friend, stranger, r1, r2

MCKeys == {owner, friend, stranger}
MCPublished == owner :> {friend} @@ friend :> {stranger} @@ stranger :> {}
MCPinnedRoots == {{owner, friend}}
Symmetry == Permutations({r1, r2})
=============================================================================
