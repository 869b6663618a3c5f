------------------------------ MODULE GroupLife ------------------------------
(***************************************************************************)
(* What the registry of groups promises about one id, whatever its         *)
(* handlers do step by step (GroupRegistry implements this): the id holds  *)
(* one group at a time, whose people stay; what a restart brings back      *)
(* follows behind, and has caught up whenever no handler runs; and an id   *)
(* with a stored 9008 holds no group until a deletion still under way      *)
(* wipes that 9008, too.                                                   *)
(*                                                                         *)
(* A creation or a deletion that overlaps another change voids the         *)
(* promise: what the code does then is in GroupRegistry.                   *)
(***************************************************************************)

CONSTANTS Group, None

VARIABLES
    held,       \* the group of the id, None without one
    kept,       \* the group a restart would bring back
    barred,     \* a 9008 is stored
    busy,       \* a handler is running, or its events are being stored
    voided      \* a creation or deletion overlapped another change

lifeVars == <<held, kept, barred, busy, voided>>

\* Nobody of g is missing in h.
Within(g, h) == g # None /\ h # None => g.members \subseteq h.members

Init ==
    /\ held = None /\ kept = None
    /\ barred = FALSE /\ busy = FALSE /\ voided = FALSE

Create ==
    /\ held = None /\ ~barred
    /\ held' \in Group
    /\ UNCHANGED <<kept, barred>>

Grow ==
    /\ held # None
    /\ held' \in {g \in Group : g.admin = held.admin /\ Within(held, g)}
    /\ UNCHANGED <<kept, barred>>

\* A deletion frees the id at once, or when the stored events are gone.
Free ==
    /\ held' = None
    /\ UNCHANGED <<kept, barred>>

\* What is kept grows towards what is held, or goes.
Keep ==
    /\ kept' \in Group \cup {None}
    /\ kept' # None => ~barred
    /\ Within(kept, kept') /\ Within(kept', held)
    /\ UNCHANGED <<held, barred>>

Bar ==
    /\ held = None /\ kept = None
    /\ barred' = TRUE
    /\ UNCHANGED <<held, kept>>

\* A second deletion still under way takes the 9008 with the other events.
Lift ==
    /\ barred /\ busy
    /\ barred' = FALSE
    /\ UNCHANGED <<held, kept>>

Restart ==
    /\ held' = kept
    /\ busy' = FALSE
    /\ UNCHANGED <<kept, barred, voided>>

Next ==
    \/ /\ Create \/ Grow \/ Free \/ Keep \/ Bar \/ Lift \/ UNCHANGED <<held, kept, barred>>
       /\ ~busy' => held' = kept'
       /\ ~voided /\ ~voided'
    \/ Restart
    \/ voided'

Spec == Init /\ [][Next]_lifeVars
=============================================================================
