--------------------------- MODULE DeliveryProofs ---------------------------
(***************************************************************************)
(* Who is sent what, for every set of keys, events and filters, and every  *)
(* number of connections: subscriptions that outlive the rights they were  *)
(* made with, queries for group state narrowed to the known authors, and   *)
(* the budget of unindexed queries.  The limiter's counts come first, for  *)
(* every number of addresses and every ceiling.                            *)
(***************************************************************************)
EXTENDS Delivery, FiniteSetTheorems, TLAPS

USE RelayAssumption, FiltersAssumption, FormerAssumption, EventsAssumption, NoneAssumption

\* A filter as a client may ask it.
Filter == [kinds : {None} \cup ((SUBSET Kinds) \ {{}}),
           authors : {None} \cup ((SUBSET Keys) \ {{}}), h : BOOLEAN, search : BOOLEAN]

-----------------------------------------------------------------------------
(* Permits.  PermitsCounted is inductive with LimiterTypeOK: a permit      *)
(* moves one connection into or out of the set of its address's holders    *)
(* and of the connected ones.                                              *)

LimiterInv == LimiterTypeOK /\ PermitsCounted

\* The connections, and an address's, are finitely many.
LEMMA HoldersFinite ==
    ASSUME Connected \subseteq Conns, NEW ip
    PROVE  IsFiniteSet(Connected) /\ IsFiniteSet(Holders(ip))
<1>1. IsFiniteSet(Connected)
  BY ConnsAssumption, FS_Subset
<1>2. Holders(ip) \subseteq Connected
  BY DEF Holders
<1> QED BY <1>1, <1>2, FS_Subset

LEMMA InitCounted == LimiterInit => LimiterInv
<1> SUFFICES ASSUME LimiterInit PROVE LimiterInv
  OBVIOUS
<1>1. LimiterTypeOK
  BY DEF LimiterTypeOK, LimiterInit, Connected
<1>2. Connected = {} /\ \A ip : Holders(ip) = {} /\ PerIp(ip) = 0
  BY DEF Holders, PerIp, LimiterInit, Connected
<1>3. Cardinality({}) = 0
  BY FS_EmptySet
<1>4. Cardinality(Connected) = 0 /\ \A ip : Cardinality(Holders(ip)) = 0
  BY <1>2, <1>3
<1>5. MaxPerIp >= 0 /\ (MaxTotal # NoLimit => MaxTotal >= 0)
  BY LimitsAssumption
<1>6. PermitsCounted
  BY ONLY <1>2, <1>4, <1>5, LimiterInit DEF PermitsCounted, LimiterInit
<1> QED BY <1>1, <1>6 DEF LimiterInv

\* A permit adds one connection, to the total and to its address.
LEMMA AcquireCounted ==
    ASSUME LimiterInv, NEW c \in Conns, NEW ip \in Addrs, Acquire(c, ip)
    PROVE  LimiterInv'
<1> USE DEF LimiterInv
<1>1. LimiterTypeOK'
  BY DEF LimiterTypeOK, Acquire, Connected, PerIp
<1>2. Connected' = Connected \cup {c} /\ c \notin Connected
  BY DEF Acquire, Connected
<1>3. Holders(ip)' = Holders(ip) \cup {c} /\ c \notin Holders(ip)
  BY <1>2 DEF Acquire, Holders, Connected
<1>4. \A a \in Addrs \ {ip} : Holders(a)' = Holders(a)
  BY <1>2 DEF Acquire, Holders, Connected
<1>5. /\ IsFiniteSet(Connected)
      /\ \A a : IsFiniteSet(Holders(a))
  BY HoldersFinite DEF LimiterTypeOK
<1>6. Cardinality(Connected') = Cardinality(Connected) + 1
  BY <1>2, <1>5, FS_AddElement
<1>7. Cardinality(Holders(ip)') = Cardinality(Holders(ip)) + 1
  BY <1>3, <1>5, FS_AddElement
<1>8. \A a \in Addrs : PerIp(a)' = IF a = ip THEN PerIp(a) + 1 ELSE PerIp(a)
  BY DEF Acquire, PerIp
<1>9. \A a \in Addrs : PerIp(a) \in Nat
  BY DEF LimiterTypeOK, PerIp
<1>10. \A a \in Addrs : PerIp(a)' = Cardinality(Holders(a)')
  BY <1>4, <1>7, <1>8 DEF PermitsCounted
<1>11. \A a \in DOMAIN perIp' : perIp'[a] # 0
  BY <1>9 DEF Acquire, PermitsCounted
<1>12. total' = Cardinality(Connected')
  BY <1>6 DEF Acquire, PermitsCounted
<1>13. MaxTotal # NoLimit => total' <= MaxTotal
  BY LimitsAssumption DEF Acquire, GlobalLimit, LimiterTypeOK
<1>14. PerIp(ip)' <= MaxPerIp
  BY <1>8, <1>9, LimitsAssumption DEF Acquire, PerIpLimit
<1>15. \A a \in Addrs : Cardinality(Holders(a)') <= MaxPerIp
  BY <1>4, <1>10, <1>14 DEF PermitsCounted
<1> QED BY <1>1, <1>10, <1>11, <1>12, <1>13, <1>15 DEF PermitsCounted

\* A permit given back takes one connection off both counts.
LEMMA ReleaseCounted ==
    ASSUME LimiterInv, NEW c \in Conns, Release(c)
    PROVE  LimiterInv'
<1> USE DEF LimiterInv
<1>0. PICK ip \in Addrs : ip = permit[c]
  BY DEF Release, LimiterTypeOK
<1>1. c \in Connected
  BY DEF Release
<1>2. Connected' = Connected \ {c}
  BY DEF Release, Connected
<1>3. Holders(ip)' = Holders(ip) \ {c} /\ c \in Holders(ip)
  BY <1>0, <1>1, <1>2 DEF Release, Holders, Connected
<1>4. \A a \in Addrs \ {ip} : Holders(a)' = Holders(a)
  BY <1>0, <1>2 DEF Release, Holders, Connected
<1>5. /\ IsFiniteSet(Connected)
      /\ \A a : IsFiniteSet(Holders(a))
  BY HoldersFinite DEF LimiterTypeOK
<1>6. /\ Cardinality(Connected') = Cardinality(Connected) - 1
      /\ Cardinality(Connected) \in Nat
  BY <1>1, <1>2, <1>5, FS_RemoveElement, FS_CardinalityType
<1>7. /\ Cardinality(Holders(ip)') = Cardinality(Holders(ip)) - 1
      /\ Cardinality(Holders(ip)') \in Nat
  <2>1. IsFiniteSet(Holders(ip) \ {c})
    BY <1>5, FS_RemoveElement
  <2> QED BY <1>3, <1>5, <2>1, FS_RemoveElement, FS_CardinalityType
<1>8. ip \in DOMAIN perIp /\ perIp[ip] \in Nat \ {0}
  BY <1>0, <1>1, <1>7, <1>5, FS_CardinalityType DEF PermitsCounted, PerIp, LimiterTypeOK
<1>9. \A a \in Addrs : PerIp(a)' = IF a = ip THEN PerIp(a) - 1 ELSE PerIp(a)
  BY <1>0, <1>8 DEF Release, PerIp, LimiterTypeOK
<1>10. \A a \in Addrs : PerIp(a)' = Cardinality(Holders(a)')
  BY <1>4, <1>7, <1>9 DEF PermitsCounted
<1>11. \A a \in DOMAIN perIp' : perIp'[a] # 0
  BY <1>0, <1>8 DEF Release, PerIp, PermitsCounted, LimiterTypeOK
<1>12. total' = Cardinality(Connected') /\ total' \in Nat
  BY <1>6, <1>2, <1>5, FS_RemoveElement, FS_CardinalityType, <1>1 DEF Release, PermitsCounted, LimiterTypeOK
<1>13. LimiterTypeOK'
  BY <1>0, <1>8, <1>12 DEF LimiterTypeOK, Release, Connected, PerIp
<1>14. MaxTotal # NoLimit => Cardinality(Connected') <= MaxTotal
  BY <1>6, LimitsAssumption DEF PermitsCounted
<1>15. \A a \in Addrs : Cardinality(Holders(a)') <= MaxPerIp
  <2>1. Cardinality(Holders(ip)') <= MaxPerIp
    BY <1>1, <1>5, <1>7, FS_CardinalityType, LimitsAssumption DEF PermitsCounted
  <2> QED BY <1>4, <2>1 DEF PermitsCounted
<1> QED BY <1>10, <1>11, <1>12, <1>13, <1>14, <1>15 DEF PermitsCounted

\* A permit is counted once, in total and for its address, and given back once, whatever
\* the order in which connections come and go (connection_limits.rs), and the ceilings hold.
THEOREM PermitsAreCounted == LimiterSpec => [](LimiterTypeOK /\ PermitsCounted)
<1>1. LimiterInv /\ [LimiterNext]_limiterVars => LimiterInv'
  <2> SUFFICES ASSUME LimiterInv, [LimiterNext]_limiterVars PROVE LimiterInv'
    OBVIOUS
  <2>1. CASE \E c \in Conns : Release(c)
    BY <2>1, ReleaseCounted
  <2>2. CASE \E c \in Conns : \E ip \in Addrs : Acquire(c, ip)
    BY <2>2, AcquireCounted
  <2>3. CASE UNCHANGED limiterVars
    BY <2>3 DEF limiterVars, LimiterInv, LimiterTypeOK, PermitsCounted, Connected, Holders, PerIp
  <2> QED BY <2>1, <2>2, <2>3 DEF LimiterNext
<1> QED BY InitCounted, <1>1, PTL DEF LimiterSpec, LimiterInv

\* However connections come and go beside their subscriptions, the permits counted are
\* those of the connections that live, in total and per address.
THEOREM PermitsCountedBeside == Spec => []PermitsCounted
<1>1. Init => LimiterInit
  BY DEF Init
<1>2. [Next]_vars => [LimiterNext]_limiterVars
  <2> SUFFICES ASSUME [Next]_vars PROVE LimiterNext \/ UNCHANGED limiterVars
    OBVIOUS
  <2>1. CASE \E c \in Conns, ip \in Addrs : Connect(c, ip)
    BY <2>1 DEF Connect, LimiterNext
  <2>2. CASE \E c \in Conns : Disconnect(c)
    BY <2>2 DEF Disconnect, LimiterNext
  <2>3. CASE ~(\E c \in Conns, ip \in Addrs : Connect(c, ip)) /\ ~(\E c \in Conns : Disconnect(c))
    BY <2>3
    DEF Next, Auth, Req, Publish, Refill, Verify, PublishState, AddMember, RemoveMember, List,
        Block, SetAccess, ScanStateAuthors, PublishAuthors, DeleteGroup, SetOpen, SetLists,
        Regroup, vars, connVars
  <2>4. QED BY <2>1, <2>2, <2>3
<1>3. Spec => LimiterSpec
  BY <1>1, <1>2, PTL DEF Spec, LimiterSpec
<1>4. QED BY <1>3, PermitsAreCounted, PTL

-----------------------------------------------------------------------------
(* Who may read. *)

\* The group's admins are members of it.
AdminsAreMembers == group.admins \subseteq group.members

\* The group is a record of its flags and its people.
GroupRecord ==
    group \in [managed : BOOLEAN, private : BOOLEAN, hidden : BOOLEAN,
               members : SUBSET Keys, admins : SUBSET Keys]

GroupInv == GroupRecord /\ AdminsAreMembers

LEMMA GroupInvHolds == Spec => []GroupInv
<1>1. Init => GroupInv
  BY DEF Init, GroupInv, GroupRecord, AdminsAreMembers
<1>2. GroupInv /\ [Next]_vars => GroupInv'
  <2> SUFFICES ASSUME GroupInv, [Next]_vars PROVE GroupInv'
    OBVIOUS
  <2>1. CASE \E k \in Clients : AddMember(k)
    <3>1. PICK k \in Clients : group' = [group EXCEPT !.members = @ \cup {k}]
      BY <2>1 DEF AddMember, Regroup
    <3> QED BY <3>1 DEF GroupInv, GroupRecord, AdminsAreMembers
  <2>2. CASE \E k \in Clients : RemoveMember(k)
    <3>1. PICK k \in Clients :
            group' = [group EXCEPT !.members = @ \ {k}, !.admins = @ \ {k}]
      BY <2>2 DEF RemoveMember, Regroup
    <3> QED BY <3>1 DEF GroupInv, GroupRecord, AdminsAreMembers
  <2>3. CASE \E private, hidden \in BOOLEAN : SetAccess(private, hidden)
    <3>1. PICK private \in BOOLEAN, hidden \in BOOLEAN :
            group' = [group EXCEPT !.private = private, !.hidden = hidden]
      BY <2>3 DEF SetAccess, Regroup
    <3> QED BY <3>1 DEF GroupInv, GroupRecord, AdminsAreMembers
  <2>4. CASE DeleteGroup
    BY <2>4 DEF DeleteGroup, GroupInv, GroupRecord, AdminsAreMembers
  <2>5. CASE group' = group
    BY <2>5 DEF GroupInv, GroupRecord, AdminsAreMembers
  <2>6. QED
    BY <2>1, <2>2, <2>3, <2>4, <2>5
    DEF Next, Connect, Disconnect, Auth, Req, Publish, Refill, Verify, PublishState, List,
        Block, ScanStateAuthors, PublishAuthors, SetOpen, SetLists, vars, accessVars
<1>3. QED BY <1>1, <1>2, PTL DEF Spec

\* The three rules say the same of every key and every event.
LEMMA TheRulesAgree == GroupInv => RulesAgree
<1> SUFFICES ASSUME GroupInv PROVE RulesAgree
  OBVIOUS
<1>0. \A k \in Keys : k # None
  OBVIOUS
<1>1. ASSUME NEW e \in Events, NEW k \in Keys PROVE FilterAgreesWithDelivery(k, e)
  <2> SUFFICES ASSUME group.managed, HasContent(e)
               PROVE  /\ GroupFilter(k) = "ok" => canSeeEvent(e, k)
                      /\ GroupFilter(k) # "ok" => (canSeeEvent(e, k) => k = e.author)
    BY DEF FilterAgreesWithDelivery
  <2>1. /\ e.kind \notin StateKinds /\ e.kind \notin {"claim", "voice", "invite"}
        /\ InGroup(e)
    BY DEF HasContent, StateKinds, InGroup
  <2>2. canSeeEvent(e, k) <=> IsRelayAdmin(k) \/ ~group.private
                                \/ k \in {Relay, e.author} \cup group.admins \/ IsMember(k)
    BY <2>1 DEF canSeeEvent, groupShows
  <2>3. GroupFilter(k) = "ok" <=> ~group.private \/ IsRelayAdmin(k) \/ IsMember(k)
    BY <1>0 DEF GroupFilter
  <2>4. QED BY <2>2, <2>3 DEF GroupInv, AdminsAreMembers, IsMember, IsRelayAdmin
<1>2. ASSUME NEW e \in Events, NEW k \in Keys PROVE ApiAgreesWithDelivery(k, e)
  <2> DEFINE f == [kinds |-> {e.kind}, authors |-> None, h |-> TRUE]
  <2> SUFFICES ASSUME k \notin black, group.managed, e.kind \in IndexedKinds, InGroup(e)
               PROVE  apiAdmits(k) /\ apiReads(k) /\ apiSees(e, k)
                        <=> verifyFilters(f, k) = "ok" /\ canSeeEvent(e, k)
    BY DEF ApiAgreesWithDelivery
  <2>1. e.kind \notin {"claim", "voice", "signer", "report"}
    BY DEF IndexedKinds, StateKinds
  <2>2. apiAdmits(k) <=> admits(k)
    BY DEF apiAdmits, admits
  <2>3. verifyFilters(f, k) = "ok" <=> admits(k) /\ GroupFilter(k) = "ok"
    <3>1. f.kinds = {e.kind} /\ f.h
      OBVIOUS
    <3>2. ~OnlyKinds(f, {"signer"}) /\ "report" \notin f.kinds
      BY <2>1, <3>1 DEF OnlyKinds
    <3>3. CASE admits(k)
      BY <3>1, <3>2, <3>3 DEF verifyFilters
    <3>4. CASE ~admits(k)
      BY <3>1, <3>2, <3>4, <1>0 DEF verifyFilters
    <3>5. QED BY <3>3, <3>4
  <2>4. GroupFilter(k) = "ok" <=> ~group.private \/ IsRelayAdmin(k) \/ IsMember(k)
    BY <1>0 DEF GroupFilter
  <2>5. canSeeEvent(e, k) <=> IsRelayAdmin(k) \/ groupShows(e, k)
    BY <2>1 DEF canSeeEvent
  <2>6. QED BY <2>2, <2>3, <2>4, <2>5 DEF apiReads, apiSees
<1>3. ASSUME NEW k \in Keys PROVE HelperAgreesWithFilter(k)
  BY <1>0 DEF HelperAgreesWithFilter, verifyGroupAccess, GroupFilter, IsRelayAdmin
<1>4. QED BY <1>1, <1>2, <1>3 DEF RulesAgree

\* What is delivered is looked at when it is delivered, so that no subscription, however
\* old, shows a private group or a voice signal to those it is not for; and the rules for
\* subscriptions, deliveries, the HTTP API and its helper agree.
THEOREM DeliveredToReaders == Spec => []ReadersOnly
<1>1. GroupInv => ReadersOnly
  <2> SUFFICES ASSUME GroupInv, NEW c \in Conns, NEW e \in Delivered(c)
               PROVE  LET insiders == group.members \cup Admins \cup {Relay, e.author}
                      IN  /\ InGroup(e) /\ e.kind \notin StateKinds \cup {"voice"} /\ group.private
                               => authed[c] \in insiders
                          /\ InGroup(e) /\ e.kind \in StateKinds /\ group.hidden
                               => authed[c] \in insiders
                          /\ e.kind = "voice" /\ e.to # {}
                               => authed[c] \in e.to \cup Admins \cup {Relay, e.author}
    BY TheRulesAgree DEF ReadersOnly
  <2>1. canSeeEvent(e, authed[c])
    BY DEF Delivered
  <2>2. group.admins \subseteq group.members
    BY DEF GroupInv, AdminsAreMembers
  <2>3. CASE e.kind = "voice"
    BY <2>1, <2>3 DEF canSeeEvent, IsRelayAdmin, StateKinds
  <2>4. CASE e.kind # "voice"
    BY <2>1, <2>2, <2>4 DEF canSeeEvent, groupShows, IsRelayAdmin, IsMember
  <2>5. QED BY <2>3, <2>4
<1>2. QED BY <1>1, GroupInvHolds, PTL

-----------------------------------------------------------------------------
(* Narrowed discovery. *)

\* What a REQ asked and what is asked in its place: the same, or for a query for bare
\* group state the same of the known authors only.
Narrowed(r) ==
    \/ r.used = r.asked
    \/ /\ authors # None
       /\ r.asked.authors = None
       /\ r.used = [r.asked EXCEPT !.authors = authors]

Known == IF found = None THEN {Relay} ELSE found \cup {Relay}

\* The authors are published once, when the scan is done; whoever signed a stored state
\* event after it is the relay, was found, or sent it since.
DiscoveryInv ==
    /\ published \subseteq Events
    /\ authors # None => found # None /\ authors = Known
    /\ found # None => \A e \in published : e.kind \in StateKinds => e.author \in Known \cup late
    /\ \A c \in Conns : \A s \in subs[c] : s.asked \in Filters /\ Narrowed(s)
    /\ \A c \in Conns : pending[c] # None => pending[c].asked \in Filters /\ Narrowed(pending[c])

\* The connections' records are kept for each connection.
Shapes ==
    /\ subs = [c \in Conns |-> subs[c]]
    /\ pending = [c \in Conns |-> pending[c]]

LEMMA ShapesHold == Spec => []Shapes
<1>1. Init => Shapes
  BY DEF Init, Shapes
<1>2. Shapes /\ [Next]_vars => Shapes'
  BY DEF Shapes, Next, Connect, Disconnect, Auth, Req, Publish, Refill, Verify, PublishState,
         AddMember, RemoveMember, List, Block, SetAccess, ScanStateAuthors, PublishAuthors,
         DeleteGroup, SetOpen, SetLists, Regroup, vars, connVars
<1>3. QED BY <1>1, <1>2, PTL DEF Spec

LEMMA DiscoveryInvHolds == Spec => []DiscoveryInv
<1>1. Init => DiscoveryInv
  BY DEF Init, DiscoveryInv
<1>2. Shapes /\ DiscoveryInv /\ [Next]_vars => DiscoveryInv'
  <2> SUFFICES ASSUME Shapes, DiscoveryInv, [Next]_vars PROVE DiscoveryInv'
    OBVIOUS
  <2>1. ASSUME UNCHANGED scanVars, UNCHANGED <<subs, pending>>,
               published' \subseteq published
        PROVE  DiscoveryInv'
    BY <2>1 DEF DiscoveryInv, Narrowed, Known, scanVars
  <2>2. ASSUME NEW c \in Conns, Disconnect(c) PROVE DiscoveryInv'
    <3>1. /\ \A d \in Conns : subs'[d] \subseteq subs[d] /\ (pending'[d] # None => pending'[d] = pending[d])
          /\ UNCHANGED <<found, authors, late, published>>
      BY <2>2 DEF Disconnect, Shapes, scanVars
    <3>2. QED BY <3>1 DEF DiscoveryInv, Narrowed, Known
  <2>3. ASSUME NEW c \in Conns, NEW f \in Filters, Req(c, f) PROVE DiscoveryInv'
    <3> DEFINE r == [asked |-> f, used |-> rewrite(f), billed |-> Billed(c, rewrite(f))]
    <3>1. /\ pending' = [pending EXCEPT ![c] = IF RefusedSearch(rewrite(f)) THEN None ELSE r]
          /\ UNCHANGED <<found, authors, late, published, subs>>
      BY <2>3 DEF Req, scanVars
    <3>2. r.asked \in Filters /\ Narrowed(r)
      BY DEF Narrowed, rewrite, isBareGroupStateQuery
    <3> HIDE DEF r
    <3>3. \A d \in Conns : pending'[d] \in {pending[d], r, None}
      BY <3>1 DEF Shapes
    <3>4. QED BY <3>1, <3>2, <3>3 DEF DiscoveryInv, Narrowed, Known
  <2>4. ASSUME NEW c \in Conns, Verify(c) PROVE DiscoveryInv'
    <3>1. /\ pending[c] # None
          /\ \A d \in Conns : subs'[d] \subseteq subs[d] \cup {pending[c]}
          /\ \A d \in Conns : pending'[d] # None => pending'[d] = pending[d]
          /\ UNCHANGED <<found, authors, late, published>>
      BY <2>4 DEF Verify, Shapes, scanVars
    <3>2. QED BY <3>1 DEF DiscoveryInv, Narrowed, Known
  <2>5. ASSUME NEW c \in Conns, NEW e \in Events, Publish(c, e) PROVE DiscoveryInv'
    <3>1. /\ published' \subseteq published \cup {e}
          /\ late \subseteq late'
          /\ found # None /\ e.kind \in StateKinds => e.author \in late'
          /\ UNCHANGED <<found, authors, subs, pending>>
      BY <2>5 DEF Publish, connVars
    <3>2. QED BY <3>1 DEF DiscoveryInv, Narrowed, Known
  <2>6. ASSUME NEW e \in Events, PublishState(e) PROVE DiscoveryInv'
    <3>1. /\ published' = published \cup {e} /\ e.author = Relay
          /\ UNCHANGED <<found, authors, late, subs, pending>>
      BY <2>6 DEF PublishState, connVars, scanVars
    <3>2. QED BY <3>1 DEF DiscoveryInv, Narrowed, Known
  <2>7. CASE ScanStateAuthors
    <3>1. /\ authors = None
          /\ found' = {e.author : e \in {e \in published : e.kind \in StateKinds}}
          /\ UNCHANGED <<authors, late, published, subs, pending>>
      BY <2>7 DEF ScanStateAuthors, connVars
    <3>2. found' \subseteq Keys
      BY <3>1 DEF DiscoveryInv
    <3>3. \A e \in published : e.kind \in StateKinds => e.author \in found'
      BY <3>1
    <3>4. Known' = found' \cup {Relay}
      BY <3>2 DEF Known
    <3>5. QED BY <3>1, <3>3, <3>4 DEF DiscoveryInv, Narrowed
  <2>8. CASE PublishAuthors
    <3>1. /\ found # None /\ authors = None /\ authors' = Known
          /\ UNCHANGED <<found, late, published, subs, pending>>
      BY <2>8 DEF PublishAuthors, connVars, Known
    <3>2. QED BY <3>1 DEF DiscoveryInv, Narrowed, Known
  <2>9. CASE DeleteGroup
    BY <2>1, <2>9 DEF DeleteGroup, connVars
  <2>10. ASSUME UNCHANGED <<scanVars, subs, pending, published>> PROVE DiscoveryInv'
    BY <2>1, <2>10
  <2>11. QED
    BY <2>2, <2>3, <2>4, <2>5, <2>6, <2>7, <2>8, <2>9, <2>10
    DEF Next, Connect, Auth, Refill, AddMember, RemoveMember, List, Block, SetAccess, SetOpen,
        SetLists, Regroup, vars, connVars
<1>3. QED BY <1>1, <1>2, ShapesHold, PTL DEF Spec

\* A subscription whose query for group state was narrowed misses nothing that is stored,
\* but what a client sent after the scan: the known authors are complete when they are
\* first used, and the relay's own key is one of them.
THEOREM NarrowedMissNothing == Spec => []DiscoveryComplete
<1>1. DiscoveryInv => DiscoveryComplete
  <2> SUFFICES ASSUME DiscoveryInv, NEW c \in Conns, NEW s \in subs[c], NEW e \in published,
                      e.kind \in StateKinds, e.author \notin late \ {Relay}
               PROVE  Matches(s.asked, e) <=> Matches(s.used, e)
    BY DEF DiscoveryComplete
  <2>1. s.asked \in Filter /\ Narrowed(s)
    BY DEF DiscoveryInv, Filter
  <2>2. CASE s.used = s.asked
    BY <2>2
  <2>3. CASE authors # None /\ s.asked.authors = None /\ s.used = [s.asked EXCEPT !.authors = authors]
    <3>1. /\ s.used.kinds = s.asked.kinds /\ s.used.h = s.asked.h
          /\ s.used.authors = authors
      BY <2>1, <2>3 DEF Filter
    <3>2. e.author \in authors
      BY <2>3 DEF DiscoveryInv, Known
    <3>3. QED BY <2>3, <3>1, <3>2 DEF Matches
  <2>4. QED BY <2>1, <2>2, <2>3 DEF Narrowed
<1>2. QED BY <1>1, DiscoveryInvHolds, PTL

-----------------------------------------------------------------------------
(* The budget of unindexed queries. *)

Scrapes(f) == wouldScrape(f) /\ ~isEphemeralOnly(f)

\* While a REQ is between the middleware and the decision, an unindexed query that was
\* not billed is one that admission refuses, unless the lists have moved.
Predicted ==
    \A c \in Conns \ moved :
        pending[c] # None /\ Scrapes(pending[c].used) /\ ~pending[c].billed => ~admits(authed[c])

\* A key, or none, is kept for each connection.
BillShapes == authed = [c \in Conns |-> authed[c]]

LEMMA BillShapesHold == Spec => []BillShapes
<1>1. Init => BillShapes
  BY DEF Init, BillShapes
<1>2. BillShapes /\ [Next]_vars => BillShapes'
  BY DEF BillShapes, Next, Connect, Disconnect, Auth, Req, Publish, Refill, Verify, PublishState,
         AddMember, RemoveMember, List, Block, SetAccess, ScanStateAuthors, PublishAuthors,
         DeleteGroup, SetOpen, SetLists, Regroup, vars, connVars
<1>3. QED BY <1>1, <1>2, PTL DEF Spec

LEMMA PredictedHolds == Spec => []Predicted
<1>1. Init => Predicted
  BY DEF Init, Predicted
<1>2. Shapes /\ BillShapes /\ Predicted /\ [Next]_vars => Predicted'
  <2> SUFFICES ASSUME Shapes, BillShapes, Predicted, [Next]_vars PROVE Predicted'
    OBVIOUS
  <2>1. ASSUME UNCHANGED <<open, listed, black, authed, moved>>,
               \A c \in Conns : pending'[c] # None => pending'[c] = pending[c]
        PROVE  Predicted'
    BY <2>1 DEF Predicted, admits, contains, IsRelayAdmin, Scrapes, wouldScrape, isEphemeralOnly,
                OnlyKinds
  <2>2. ASSUME NEW c \in Conns, Disconnect(c) PROVE Predicted'
    <3>1. /\ UNCHANGED <<open, listed, black>>
          /\ pending'[c] = None /\ moved' = moved \ {c}
          /\ \A d \in Conns : d # c => pending'[d] = pending[d] /\ authed'[d] = authed[d]
      BY <2>2 DEF Disconnect, Shapes, BillShapes, accessVars
    <3>2. QED BY <3>1 DEF Predicted, admits, contains, IsRelayAdmin
  <2>3. ASSUME NEW c \in Conns, NEW k \in Clients, Auth(c, k) PROVE Predicted'
    <3>1. /\ UNCHANGED <<open, listed, black, pending, moved>>
          /\ pending[c] = None
          /\ \A d \in Conns : d # c => authed'[d] = authed[d]
      BY <2>3 DEF Auth, BillShapes, accessVars
    <3>2. QED BY <3>1 DEF Predicted, admits, contains, IsRelayAdmin
  <2>4. ASSUME NEW c \in Conns, NEW f \in Filters, Req(c, f) PROVE Predicted'
    <3> DEFINE r == [asked |-> f, used |-> rewrite(f), billed |-> Billed(c, rewrite(f))]
    <3>1. /\ UNCHANGED <<open, listed, black, authed, moved>>
          /\ \A d \in Conns : d # c => pending'[d] = pending[d]
          /\ pending'[c] \in {None, r}
      BY <2>4 DEF Req, Shapes, accessVars
    <3>2. Scrapes(r.used) /\ ~r.billed => ~admits(authed[c])
      BY DEF Scrapes, Billed
    <3> HIDE DEF r
    <3>3. \A d \in Conns : admits(authed[d])' <=> admits(authed[d])
      BY <3>1 DEF admits, contains, IsRelayAdmin
    <3>4. SUFFICES ASSUME NEW d \in (Conns \ moved)', (pending[d] # None)', Scrapes(pending[d].used)',
                          (~pending[d].billed)'
                   PROVE  ~admits(authed[d])
      BY <3>3 DEF Predicted
    <3>5. CASE d = c /\ pending'[c] = r
      BY <3>2, <3>4, <3>5 DEF Scrapes, wouldScrape, isEphemeralOnly, OnlyKinds
    <3>6. CASE d # c
      BY <3>1, <3>4, <3>6 DEF Predicted, Scrapes, wouldScrape, isEphemeralOnly, OnlyKinds
    <3>7. QED BY <3>1, <3>4, <3>5, <3>6
  <2>5. ASSUME NEW c \in Conns, Verify(c) PROVE Predicted'
    <3>1. /\ UNCHANGED <<open, listed, black, authed>>
          /\ pending'[c] = None /\ moved' = moved \ {c}
          /\ \A d \in Conns : d # c => pending'[d] = pending[d]
      BY <2>5 DEF Verify, Shapes, accessVars
    <3>2. QED BY <3>1 DEF Predicted, admits, contains, IsRelayAdmin
  <2>6. ASSUME NEW o, NEW l, NEW b, SetLists(o, l, b) PROVE Predicted'
    <3>1. moved' = moved \cup {c \in Conns : pending[c] # None /\ ~pending[c].billed}
          /\ pending' = pending
      BY <2>6 DEF SetLists, Unbilled
    <3>2. QED BY <3>1 DEF Predicted
  <2>7. QED
    BY <2>1, <2>2, <2>3, <2>4, <2>5, <2>6
    DEF Next, Connect, Refill, Publish, PublishState, AddMember, RemoveMember, SetAccess, List,
        Block, SetOpen, DeleteGroup, ScanStateAuthors, PublishAuthors, Regroup, vars, connVars,
        accessVars
<1>3. QED BY <1>1, <1>2, ShapesHold, BillShapesHold, PTL DEF Spec

\* A query that asks for something else than signer events, and is decided when the key
\* is not admitted, is refused.
LEMMA RefusedWithoutAdmission ==
    ASSUME NEW f, f.kinds # {}, Scrapes(f), NEW k, ~admits(k)
    PROVE  verifyFilters(f, k) # "ok"
<1>1. ~OnlyKinds(f, {"signer"})
  BY DEF Scrapes, isEphemeralOnly, OnlyKinds, EphemeralKinds
<1>2. QED BY <1>1 DEF verifyFilters

\* Every unindexed query that is answered was paid for, but where the lists moved after
\* the middleware had looked at them: whom it lets pass unbilled, admission refuses.
THEOREM UnbilledIsRefused == Spec => ScrapesArePaid
<1>1. Shapes /\ DiscoveryInv /\ Predicted /\ [Next]_vars
        => [\A c \in Conns : \A s \in subs'[c] \ subs[c] :
              wouldScrape(s.used) /\ ~isEphemeralOnly(s.used) /\ c \notin moved => s.billed]_vars
  <2> SUFFICES ASSUME Shapes, DiscoveryInv, Predicted, [Next]_vars,
                      NEW c \in Conns, NEW s \in subs'[c] \ subs[c], Scrapes(s.used), c \notin moved
               PROVE  s.billed
    BY DEF Scrapes
  <2>1. CASE Verify(c)
    <3>1. /\ pending[c] # None /\ s = pending[c]
          /\ verifyFilters(s.used, authed[c]) = "ok"
      BY <2>1 DEF Verify, Shapes
    <3>2. s.used.kinds # {}
      <4>1. s.asked \in Filter /\ Narrowed(s)
        BY <3>1 DEF DiscoveryInv, Filter
      <4>2. s.used.kinds = s.asked.kinds
        BY <4>1 DEF Narrowed, Filter
      <4>3. s.asked.kinds # {}
        BY <4>1 DEF Filter
      <4>4. QED BY <4>2, <4>3
    <3>3. ~admits(authed[c]) => verifyFilters(s.used, authed[c]) # "ok"
      BY <3>2, RefusedWithoutAdmission
    <3>4. QED BY <3>1, <3>3 DEF Predicted
  <2>2. CASE ~Verify(c)
    <3>1. subs'[c] \subseteq subs[c]
      BY <2>2
      DEF Shapes, Next, Connect, Disconnect, Auth, Req, Publish, Refill, Verify, PublishState,
          AddMember, RemoveMember, List, Block, SetAccess, ScanStateAuthors, PublishAuthors,
          DeleteGroup, SetOpen, SetLists, Regroup, vars, connVars
    <3>2. QED BY <3>1
  <2>3. QED BY <2>1, <2>2
<1>2. QED BY <1>1, ShapesHold, DiscoveryInvHolds, PredictedHolds, PTL DEF Spec, ScrapesArePaid
=============================================================================
