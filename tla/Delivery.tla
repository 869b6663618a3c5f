------------------------------ MODULE Delivery ------------------------------
(***************************************************************************)
(* Connections and their subscriptions: a permit at the upgrade, NIP-42,   *)
(* the middlewares a REQ passes before verify_filters decides on it, and   *)
(* the check of every event delivered on it later, while the group, the    *)
(* lists and the published events change.                                  *)
(*                                                                         *)
(* The relay builder (external) handles the messages of a connection one   *)
(* after another and keeps the subscriptions.  What the group's own        *)
(* handlers do is in Group; of what they decide only the outcome is here.  *)
(***************************************************************************)
EXTENDS ReadAccess, ConnectionLimiter

CONSTANTS
    Events,         \* the events that may be published
    Filters,        \* the filters that clients ask with
    Former,         \* the keys this relay had before, and signed group state with
    IndexedSearch,  \* enable_indexed_search
    ScrapeBurst,    \* SCRAPE_BURST
    MaxSubs,        \* bound: the subscriptions of a connection
    Clients,        \* the keys that connect and are listed, blocked and made members
    MaxMoves        \* bound: how often the group and the lists change

ASSUME BurstAssumption == {ScrapeBurst, MaxSubs, MaxMoves} \subseteq Nat
ASSUME FormerAssumption == Former \subseteq Keys /\ Clients \subseteq Keys
\* A list that is empty matches nothing and is left out.
ASSUME FiltersAssumption ==
    Filters \subseteq [kinds : {None} \cup ((SUBSET Kinds) \ {{}}),
                       authors : {None} \cup ((SUBSET Keys) \ {{}}),
                       h : BOOLEAN, search : BOOLEAN]
ASSUME EventsAssumption == \A e \in Events : e.author \in Keys
ASSUME NoneAssumption == \A S \in SUBSET Keys : None # S

VARIABLES
    authed,      \* the key each connection authenticated with
    pending,     \* the REQ of a connection between the middlewares and the processor
    subs,        \* the subscriptions of each connection: the filter asked and the one in use
    scrapes,     \* what is left of each connection's budget of unindexed queries
    published,   \* the events stored, or passed on
    found,       \* the authors a scan for group state has found, None before
    authors,     \* GroupStateAuthors, None until the scan is done
    late,        \* ghost: who signed a state event that a client sent after the scan
    moved,       \* ghost: connections on which a REQ passed unbilled and the lists moved since
    moves        \* ghost: how often the group and the lists changed

connVars == <<limiterVars, authed, pending, subs, scrapes, moved>>
scanVars == <<found, authors, late>>
vars == <<accessVars, connVars, published, scanVars, moves>>

-----------------------------------------------------------------------------
(* Connections. *)

Connect(c, ip) ==
    /\ Acquire(c, ip)
    /\ UNCHANGED <<accessVars, authed, pending, subs, scrapes, moved, published, scanVars, moves>>

Disconnect(c) ==
    /\ Release(c)
    /\ authed' = [authed EXCEPT ![c] = None]
    /\ pending' = [pending EXCEPT ![c] = None]
    /\ subs' = [subs EXCEPT ![c] = {}]
    /\ scrapes' = [scrapes EXCEPT ![c] = ScrapeBurst]
    /\ moved' = moved \ {c}
    /\ UNCHANGED <<accessVars, published, scanVars, moves>>

\* NIP-42.
Auth(c, k) ==
    /\ c \in Connected /\ pending[c] = None
    /\ authed' = [authed EXCEPT ![c] = k]
    /\ UNCHANGED <<accessVars, limiterVars, pending, subs, scrapes, moved, published, scanVars, moves>>

Refill(c) ==
    /\ c \in Connected
    /\ scrapes' = [scrapes EXCEPT ![c] = ScrapeBurst]
    /\ UNCHANGED <<accessVars, limiterVars, authed, pending, subs, moved, published, scanVars, moves>>

-----------------------------------------------------------------------------
(* Subscriptions. *)

wouldScrape(f) == f.authors = None /\ ~f.h
isEphemeralOnly(f) == OnlyKinds(f, EphemeralKinds) /\ f.kinds # {}
isBareGroupStateQuery(f) ==
    OnlyKinds(f, StateKinds) /\ f.kinds # {} /\ f.authors = None /\ ~f.h

\* Mutant: what the scan has found is used before it is complete.
rewritePartly(f) ==
    IF isBareGroupStateQuery(f) THEN [f EXCEPT !.authors = IF authors # None THEN authors ELSE {Relay}]
    ELSE f

rewrite(f) ==
    IF isBareGroupStateQuery(f) /\ authors # None THEN [f EXCEPT !.authors = authors] ELSE f

\* Mutant: the middleware predicts admission by the lists alone.
BilledToListed(c, f) == wouldScrape(f) /\ ~isEphemeralOnly(f) /\ contains(authed[c])

\* The budget of unindexed queries: not for ephemeral events, nor for a REQ that
\* admission is about to refuse.
Billed(c, f) == wouldScrape(f) /\ ~isEphemeralOnly(f) /\ admits(authed[c])
OverBudget(c, f) == Billed(c, f) /\ scrapes[c] = 0
RefusedSearch(f) == f.search /\ ~IndexedSearch

Req(c, asked) ==
    /\ c \in Connected /\ pending[c] = None
    /\ Cardinality(subs[c]) < MaxSubs
    /\ LET f == rewrite(asked)
       IN  /\ ~OverBudget(c, f)
           /\ scrapes' = [scrapes EXCEPT ![c] = IF Billed(c, f) THEN @ - 1 ELSE @]
           /\ pending' = [pending EXCEPT ![c] =
                IF RefusedSearch(f) THEN None ELSE [asked |-> asked, used |-> f, billed |-> Billed(c, f)]]
    /\ UNCHANGED <<accessVars, limiterVars, authed, subs, moved, published, scanVars, moves>>

\* verify_filters; a REQ that is refused is closed.
Verify(c) ==
    /\ pending[c] # None
    /\ subs' = [subs EXCEPT ![c] =
            IF verifyFilters(pending[c].used, authed[c]) = "ok" THEN @ \cup {pending[c]} ELSE @]
    /\ pending' = [pending EXCEPT ![c] = None]
    /\ moved' = moved \ {c}
    /\ UNCHANGED <<accessVars, limiterVars, authed, scrapes, published, scanVars, moves>>

\* What the connection gets of the published events, at this moment.
Delivered(c) ==
    {e \in published :
        /\ \E s \in subs[c] : Matches(s.used, e)
        /\ canSeeEvent(e, authed[c])}

-----------------------------------------------------------------------------
(* Publishing. *)

\* handle_event: the signer's key and the connection's.
Refused(c, e) == e.kind # "signer" /\ (e.author \in black \/ ~admits(authed[c]))

\* A claim is never passed on (InviteAdmission has its handling).  The budgets of the key's
\* tier (AccessTiers), those of reports and the group's handler may refuse an event, too.
Publish(c, e) ==
    /\ c \in Connected /\ pending[c] = None
    /\ e \notin published /\ e.kind # "claim"
    /\ ~Refused(c, e)
    /\ published' \in
          {published \cup {e}} \cup (IF e.kind = "signer" THEN {} ELSE {published})
    /\ late' = IF found # None /\ e.kind \in StateKinds THEN late \cup {e.author} ELSE late
    /\ UNCHANGED <<accessVars, connVars, found, authors, moves>>

\* The relay signs the group's state events itself.
PublishState(e) ==
    /\ group.managed /\ e.kind \in StateKinds /\ e.author = Relay /\ e.d
    /\ published' = published \cup {e}
    /\ UNCHANGED <<accessVars, connVars, scanVars, moves>>

-----------------------------------------------------------------------------
(* Group discovery. *)

ScanStateAuthors ==
    /\ found = None /\ authors = None
    /\ found' = {e.author : e \in {e \in published : e.kind \in StateKinds}}
    /\ UNCHANGED <<accessVars, connVars, published, authors, late, moves>>

PublishAuthors ==
    /\ found # None /\ authors = None
    /\ authors' = found \cup {Relay}
    /\ UNCHANGED <<accessVars, connVars, published, found, late, moves>>

-----------------------------------------------------------------------------
(* The group and the lists. *)

Move == moves < MaxMoves /\ moves' = moves + 1

Regroup(g) ==
    /\ group' = g /\ g # group
    /\ Move
    /\ UNCHANGED <<open, listed, black, connVars, published, scanVars>>

SetAccess(private, hidden) ==
    group.managed /\ Regroup([group EXCEPT !.private = private, !.hidden = hidden])

AddMember(k) == group.managed /\ Regroup([group EXCEPT !.members = @ \cup {k}])

RemoveMember(k) ==
    group.managed /\ Regroup([group EXCEPT !.members = @ \ {k}, !.admins = @ \ {k}])

\* The group's events go with it, before the 9008 of the deletion is answered.
DeleteGroup ==
    /\ group.managed
    /\ Move
    /\ group' = [managed |-> FALSE, private |-> FALSE, hidden |-> FALSE, members |-> {}, admins |-> {}]
    /\ published' = {e \in published : ~InGroup(e)}
    /\ UNCHANGED <<open, listed, black, connVars, scanVars>>

Unbilled == {c \in Conns : pending[c] # None /\ ~pending[c].billed}

SetLists(o, l, b) ==
    /\ open' = o /\ listed' = l /\ black' = b
    /\ Move
    /\ moved' = moved \cup Unbilled
    /\ UNCHANGED <<group, limiterVars, authed, pending, subs, scrapes, published, scanVars>>

Toggled(set, k) == (set \ {k}) \cup ({k} \ set)
SetOpen == SetLists(~open, listed, black)
List(k) == SetLists(open, Toggled(listed, k), black)
Block(k) == SetLists(open, listed, Toggled(black, k))

Init ==
    /\ LimiterInit
    /\ \E private, hidden \in BOOLEAN, k \in Clients :
          group = [managed |-> TRUE, private |-> private, hidden |-> hidden, members |-> {k}, admins |-> {k}]
    /\ open \in BOOLEAN /\ listed = {} /\ black = {}
    /\ authed = [c \in Conns |-> None]
    /\ pending = [c \in Conns |-> None]
    /\ subs = [c \in Conns |-> {}]
    /\ scrapes = [c \in Conns |-> ScrapeBurst]
    /\ published = {e \in Events : e.kind \in StateKinds /\ e.author \in Former}
    /\ found = None /\ authors = None /\ late = {}
    /\ moved = {}
    /\ moves = 0

Next ==
    \/ \E c \in Conns :
          \/ \E ip \in Addrs : Connect(c, ip)
          \/ \E k \in Clients : Auth(c, k)
          \/ \E f \in Filters : Req(c, f)
          \/ \E e \in Events : Publish(c, e)
          \/ Disconnect(c) \/ Refill(c) \/ Verify(c)
    \/ \E e \in Events : PublishState(e)
    \/ \E k \in Clients : AddMember(k) \/ RemoveMember(k) \/ List(k) \/ Block(k)
    \/ \E private, hidden \in BOOLEAN : SetAccess(private, hidden)
    \/ ScanStateAuthors \/ PublishAuthors \/ DeleteGroup \/ SetOpen

Spec == Init /\ [][Next]_vars

-----------------------------------------------------------------------------
(* Properties. *)

\* The rules agree, for every reader and every event that may be published.
RulesAgree ==
    /\ \A e \in Events : \A k \in Keys : FilterAgreesWithDelivery(k, e) /\ ApiAgreesWithDelivery(k, e)
    /\ \A k \in Keys : HelperAgreesWithFilter(k)

\* The rules agree, and however long ago a subscription was made, what a private group says reaches its present
\* members, admins and relay admins only, and its author; a targeted voice signal its parties.
ReadersOnly ==
    /\ RulesAgree
    /\ \A c \in Conns : \A e \in Delivered(c) :
        LET insiders == group.members \cup Admins \cup {Relay, e.author}
        IN  /\ InGroup(e) /\ e.kind \notin StateKinds \cup {"voice"} /\ group.private => authed[c] \in insiders
            /\ InGroup(e) /\ e.kind \in StateKinds /\ group.hidden => authed[c] \in insiders
            /\ e.kind = "voice" /\ e.to # {} => authed[c] \in e.to \cup Admins \cup {Relay, e.author}

\* A subscription for group state that was narrowed to the known authors misses no state
\* event, published before or after the scan, under this relay's key or an earlier one, but
\* those a client sent after the scan.
DiscoveryComplete ==
    \A c \in Conns : \A s \in subs[c] : \A e \in published :
        e.kind \in StateKinds /\ e.author \notin late \ {Relay} => (Matches(s.asked, e) <=> Matches(s.used, e))

\* Every unindexed query that is answered was paid for, unless the lists moved between the
\* middleware's prediction and the decision: both ask the same rule.
ScrapesArePaid ==
    [][\A c \in Conns : \A s \in subs'[c] \ subs[c] :
          wouldScrape(s.used) /\ ~isEphemeralOnly(s.used) /\ c \notin moved => s.billed]_vars
=============================================================================
