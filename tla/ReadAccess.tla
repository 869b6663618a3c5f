----------------------------- MODULE ReadAccess -----------------------------
(***************************************************************************)
(* Who may read what: the rule for a subscription's filters, the rule for  *)
(* each event delivered (src/src/groups_event_processor.rs, with the       *)
(* group's own in src/src/group.rs), and the rules of the HTTP API         *)
(* (src/src/obelisk_index.rs, src/src/obelisk_api.rs), for the events and  *)
(* readers of one group.                                                   *)
(***************************************************************************)
EXTENDS Naturals, FiniteSets

CONSTANTS
    Keys,       \* public keys
    None,       \* Rust's Option::None
    Relay,      \* the relay's own key
    Admins      \* the relay admins: admin_pubkeys

ASSUME RelayAssumption == Relay \in Keys /\ Admins \subseteq Keys /\ None \notin Keys

VARIABLES
    group,      \* the managed group: its flags, members and admins
    open,       \* Whitelist::is_empty
    listed,     \* the keys a list or a tier admits
    black       \* the blacklist

accessVars == <<group, open, listed, black>>

\* Kinds, as far as the rules tell them apart.
StateKinds == {"metadata", "state"}              \* 39000; 39001 to 39003
IndexedKinds == {"content", "invite"} \cup StateKinds
EphemeralKinds == {"signer", "voice", "claim"}   \* 24133, 25050, 28934
Kinds == IndexedKinds \cup EphemeralKinds \cup {"report", "other"}

\* kind, author, h and d: whether the tag names the group, to: the p tags.  An event is
\* of the group its h tag names, or, if addressable, its d tag.
InGroup(e) == group.managed /\ IF e.kind \in StateKinds THEN e.d ELSE e.h

\* None of these holds of None, a reader that has not authenticated.
IsRelayAdmin(k) == k = Relay \/ k \in Admins
IsMember(k) == k \in group.members
IsAdmin(k) == k \in group.admins

\* Whitelist::contains and Whitelist::admits.
contains(k) == k \in listed \ black
admits(k) == k \notin black /\ (open \/ contains(k) \/ IsRelayAdmin(k))

-----------------------------------------------------------------------------
(* Subscriptions. *)

\* kinds and authors are None when the filter does not name them.
OnlyKinds(f, kinds) == f.kinds # None /\ f.kinds \subseteq kinds
Matches(f, e) ==
    /\ f.kinds # None => e.kind \in f.kinds
    /\ f.authors # None => e.author \in f.authors
    /\ f.h => e.h

\* verify_filters, the groups a filter names.
GroupFilter(reader) ==
    IF ~group.managed \/ ~group.private THEN "ok"
    ELSE IF reader = None THEN "auth-required"
    ELSE IF IsRelayAdmin(reader) \/ IsMember(reader) THEN "ok" ELSE "restricted"

verifyFilters(f, reader) ==
    CASE ~OnlyKinds(f, {"signer"}) /\ ~admits(reader) ->
            IF reader = None THEN "auth-required" ELSE "restricted"
      [] (OnlyKinds(f, {"signer"}) \/ admits(reader)) /\ f.kinds # None /\ "report" \in f.kinds /\ ~IsRelayAdmin(reader) ->
            "restricted"
      [] OTHER -> IF f.h THEN GroupFilter(reader) ELSE "ok"

-----------------------------------------------------------------------------
(* Delivery. *)

\* Mutant: `hidden` is not asked of the group's state.
groupShowsState(e, reader) ==
    \/ e.kind \in StateKinds /\ (e.kind = "metadata" \/ ~group.private)
    \/ e.kind \notin StateKinds /\ ~group.private
    \/ reader \in {Relay, e.author} \cup group.admins
    \/ IsMember(reader) /\ e.kind # "invite"

\* Group::can_see_event; an unauthenticated reader gets an error for FALSE.
groupShows(e, reader) ==
    \/ e.kind \in StateKinds /\ ~group.hidden /\ (e.kind = "metadata" \/ ~group.private)
    \/ e.kind \notin StateKinds /\ ~group.private
    \/ reader \in {Relay, e.author} \cup group.admins
    \/ IsMember(reader) /\ e.kind # "invite"

canSeeEvent(e, reader) ==
    /\ e.kind # "claim"
    /\ IF e.kind = "voice" /\ e.to # {}
       THEN reader # None /\ (reader \in {e.author} \cup e.to \/ IsRelayAdmin(reader))
       ELSE InGroup(e) => IsRelayAdmin(reader) \/ groupShows(e, reader)

-----------------------------------------------------------------------------
(* The HTTP API. *)

\* authenticate_nip98.
apiAdmits(k) == open \/ contains(k) \/ IsRelayAdmin(k)

\* ObeliskIndex::can_read_group and can_see_event.
apiReads(k) == group.managed /\ (~group.private \/ IsRelayAdmin(k) \/ IsMember(k))
apiSees(e, k) == IsRelayAdmin(k) \/ (group.managed /\ groupShows(e, k))

\* Groups::verify_group_access.
verifyGroupAccess(k) == ~group.private \/ k = Relay \/ IsMember(k)

-----------------------------------------------------------------------------
(* Properties. *)

AccessTypeOK ==
    /\ group \in [managed : BOOLEAN, private : BOOLEAN, hidden : BOOLEAN,
                  members : SUBSET Keys, admins : SUBSET Keys]
    /\ group.admins \subseteq group.members
    /\ open \in BOOLEAN
    /\ {listed, black} \subseteq SUBSET Keys

HasContent(e) == e.kind \in {"content", "report", "other"} /\ e.h

\* A REQ for the group is accepted from just those who may see all that is said in it;
\* whoever is refused would have seen their own events at most.
FilterAgreesWithDelivery(reader, e) ==
    group.managed /\ HasContent(e) /\ reader # None =>
        /\ GroupFilter(reader) = "ok" => canSeeEvent(e, reader)
        /\ GroupFilter(reader) # "ok" => (canSeeEvent(e, reader) => reader = e.author)

\* The API serves a key that is not blocked what a REQ by it would bring, and no more
\* (on an open relay it serves blocked keys, too).
ApiAgreesWithDelivery(k, e) ==
    k \notin black /\ group.managed /\ e.kind \in IndexedKinds /\ InGroup(e) =>
        LET f == [kinds |-> {e.kind}, authors |-> None, h |-> TRUE]
        IN  apiAdmits(k) /\ apiReads(k) /\ apiSees(e, k)
              <=> verifyFilters(f, k) = "ok" /\ canSeeEvent(e, k)

\* The helper for other callers grants no access a REQ would not.
HelperAgreesWithFilter(k) == group.managed /\ verifyGroupAccess(k) => GroupFilter(k) = "ok"
=============================================================================
