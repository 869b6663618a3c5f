------------------------------ MODULE MCDelivery ------------------------------
(* Delivery with a relay admin, two clients and the relay's former key. *)
EXTENDS Delivery, TLC

CONSTANTS relay, former, moderator, ana, bo, c1, c2, ip1

Event(kind, author, h, d, to) == [kind |-> kind, author |-> author, h |-> h, d |-> d, to |-> to]

MCKeys == {relay, former, moderator, ana, bo}
MCClients == {ana, bo}
MCEvents == {
    Event("state", former, FALSE, TRUE, {}),
    Event("metadata", relay, FALSE, TRUE, {}),
    Event("content", ana, TRUE, FALSE, {}),
    Event("voice", bo, TRUE, FALSE, {ana})}

Filter(kinds, h, search) == [kinds |-> kinds, authors |-> None, h |-> h, search |-> search]
MCFilters == {
    Filter({"metadata", "state"}, FALSE, FALSE),
    Filter({"content"}, TRUE, FALSE),
    Filter(None, FALSE, FALSE),
    Filter(None, FALSE, TRUE)}
Symmetry == Permutations({c1, c2})
=============================================================================
