---------------------------- MODULE GroupProofs ----------------------------
(* What a managed group guarantees for every set of keys and codes, every  *)
(* list of tags and every limit, and under which operations it does.       *)
EXTENDS Group, FiniteSetTheorems, TLAPS

USE KeysAssumption, ParticipantsAssumption, CodesAssumption, NoneAssumption,
    TagsAssumption, LimitsAssumption, BoundsAssumption

-----------------------------------------------------------------------------
(* Types. *)

\* A list leaves every key it names with a set of roles.
LEMMA RolesAfterType ==
    ASSUME TypeOK, NEW tags \in PutLists, NEW k \in Keys, NEW i \in 0..Len(tags)
    PROVE  /\ RolesAfter(tags, i, k) \in Option(SUBSET Roles)
           /\ k \in KeysNamed(tags) => RolesAfter(tags, Len(tags), k) # None
           /\ k \notin KeysNamed(tags) => RolesAfter(tags, Len(tags), k) = members[k]
<1>1. tags \in Seq(PTag) /\ Len(tags) \in Nat
  OBVIOUS
<1>2. \A j \in 1..Len(tags) : tags[j].roles \in SUBSET Roles
  <2>1. \A j \in 1..Len(tags) : tags[j] \in PTag
    BY <1>1
  <2>2. \A t \in PTag : t.roles \in SUBSET Roles
    BY DEF PTag
  <2>3. QED BY <2>1, <2>2
<1>3. ASSUME NEW m \in 0..Len(tags)
      PROVE  UNION {tags[j].roles : j \in {j \in 1..m : Decides(tags, m, k, j)}} \in SUBSET Roles
  BY <1>1, <1>2, <1>3
<1>4. members[k] \in Option(SUBSET Roles)
  BY DEF TypeOK
<1>5. \A m \in 0..Len(tags) : RolesAfter(tags, m, k) \in Option(SUBSET Roles)
  BY <1>3, <1>4 DEF RolesAfter, Option
<1>6. k \in KeysNamed(tags) => RolesAfter(tags, Len(tags), k) # None
  BY <1>1, <1>3 DEF RolesAfter, KeysNamed
<1>7. k \notin KeysNamed(tags) => RolesAfter(tags, Len(tags), k) = members[k]
  BY DEF RolesAfter, KeysNamed
<1>8. QED BY <1>5, <1>6, <1>7

LEMMA ApplyTagsType ==
    ASSUME NEW f \in Flags, NEW tags \in SUBSET AccessTags
    PROVE  Coerced(ApplyTags(f, tags)) \in Flags
<1>1. ApplyTags(f, tags) \in Flags
  BY DEF ApplyTags, Flags, Switch
<1>2. QED BY <1>1 DEF Coerced, Flags

LEMMA ReloadedType ==
    ASSUME NEW f \in Flags, NEW first \in BOOLEAN
    PROVE  Reloaded(f, first) \in Flags
<1>1. PublishedTags(f) \in SUBSET AccessTags
  BY DEF PublishedTags, AccessTags
<1>2. NewFlags \in Flags
  BY DEF NewFlags, Flags
<1>3. \A g \in Flags : ApplyTags(g, PublishedTags(f)) \in Flags
  BY <1>1 DEF ApplyTags, Flags, Switch
<1>4. \A g \in Flags : Coerced(g) \in Flags
  BY DEF Coerced, Flags
<1>5. QED BY <1>2, <1>3, <1>4 DEF Reloaded

LEMMA LimitedInviteType ==
    ASSUME NEW tags \in InviteTag, NEW roles \in SUBSET Roles, NEW created \in Nat,
           NEW defaults \in BOOLEAN
    PROVE  LimitedInvite(tags, roles, created, defaults) \in Invite
<1> DEFINE expires == IF tags.expires = None /\ defaults THEN created + DefaultTtl
                      ELSE tags.expires
           maxUses == CASE ~tags.reusable -> None
                        [] tags.reusable /\ tags.maxUses \in {None, 0} ->
                               IF defaults THEN DefaultMaxUses ELSE None
                        [] OTHER -> tags.maxUses
<1>1. /\ tags.reusable \in BOOLEAN /\ tags.maxUses \in Option(Nat)
      /\ tags.expires \in Option(Nat)
  BY DEF InviteTag
<1>2. expires \in Option(Nat)
  BY <1>1 DEF Option
<1>3. maxUses \in Option(Nat)
  BY <1>1 DEF Option
<1>4. LimitedInvite(tags, roles, created, defaults) =
          [roles |-> roles, reusable |-> tags.reusable, expires |-> expires,
           maxUses |-> maxUses, uses |-> 0]
  BY DEF LimitedInvite
<1> HIDE DEF expires, maxUses
<1>5. QED BY <1>1, <1>2, <1>3, <1>4 DEF Invite

\* A 9021 is recorded under a number of its own.
LEMMA JoinEventSaved ==
    ASSUME NEW k \in Keys, NEW c \in Codes \cup {NoCode}, SaveJoinEvent(k, c)
    PROVE  \E e \in JoinEvent :
              e \notin sJoins /\ e.pk = k /\ e.code = c /\ sJoins' = sJoins \cup {e}
<1> DEFINE Fresh(n) == [pk |-> k, code |-> c, n |-> n] \notin sJoins
           n0 == CHOOSE n \in 1..MaxJoins : Fresh(n)
<1>1. n0 \in 1..MaxJoins /\ Fresh(n0)
  BY DEF SaveJoinEvent
<1>2. sJoins' = sJoins \cup {[pk |-> k, code |-> c, n |-> n0]}
  BY DEF SaveJoinEvent
<1> HIDE DEF n0
<1>3. [pk |-> k, code |-> c, n |-> n0] \in JoinEvent
  BY <1>1 DEF JoinEvent
<1>4. QED BY <1>1, <1>2, <1>3

\* One step of whichever handler, with the arguments Next takes it with.
Handled ==
    \/ \E by \in Keys, tags \in PutLists : PutUsers(by, tags)
    \/ \E by \in Keys, tags \in PutLists : SetRoles(by, tags)
    \/ \E by \in Keys, gone \in RemoveSets : RemoveUsers(by, gone)
    \/ \E by \in Keys, tags \in EditTags : EditMetadata(by, tags)
    \/ \E by \in Keys, c \in Codes, tags \in InviteTags : CreateInvite(by, c, tags)
    \/ \E by \in Keys, c \in Codes : DeleteInvite(by, c)
    \/ \E by \in Keys, e \in sJoins : DeleteJoinEvent(by, e)
    \/ \E k \in Keys : Leave(k)
    \/ \E k \in Keys : Post(k)
    \/ \E k \in Keys : ConsoleRemove(k)
    \/ \E k \in Keys, c \in Codes \cup {NoCode} : JoinOpen(k, c)
    \/ \E k \in Keys, c \in Codes \cup {NoCode} : JoinInvited(k, c)
    \/ \E k \in Keys, c \in Codes \cup {NoCode} : JoinPending(k, c)
    \/ Tick
    \/ Restart

LEMMA NextIsHandled == Next => Handled
BY DEF Next, Handled

LEMMA InitTypes == Init => TypeOK
<1> SUFFICES ASSUME Init PROVE TypeOK
  OBVIOUS
<1>1. members \in [Keys -> Option(SUBSET Roles)]
  BY DEF Init, Option, Roles
<1>2. NewFlags \in Flags
  BY DEF NewFlags, Flags
<1>3. flags \in Flags
  BY <1>2, ApplyTagsType DEF Init
<1>4. invites \in [Codes -> Option(Invite)] /\ sInvites \in [Codes -> Option(StoredInvite)]
  BY DEF Init, Option
<1>5. QED BY <1>1, <1>3, <1>4, FS_EmptySet DEF Init, TypeOK

AdmittedTypes ==
    /\ members' \in [Keys -> Option(SUBSET Roles)]
    /\ joinRequests' \in SUBSET Keys
    /\ sAdmins' \in SUBSET Keys /\ sMembers' \in SUBSET Keys
    /\ sJoins' \in SUBSET JoinEvent /\ IsFiniteSet(sJoins')

\* A key let in gets the roles it is let in with.
LEMMA AdmitTypes ==
    ASSUME TypeOK, NEW k \in Keys, NEW c \in Codes \cup {NoCode},
           NEW roles \in SUBSET Roles, Admit(k, c, roles)
    PROVE  AdmittedTypes
<1>1. members' \in [Keys -> Option(SUBSET Roles)] /\ joinRequests' \in SUBSET Keys
  BY DEF Admit, TypeOK, Option
<1>2. CASE HasAdmin
  <2>1. SaveAdmins /\ SaveMembers /\ SaveJoinEvent(k, c)
    BY <1>2 DEF Admit
  <2>2. sJoins' \in SUBSET JoinEvent /\ IsFiniteSet(sJoins')
    BY <2>1, JoinEventSaved, FS_AddElement DEF TypeOK
  <2>3. QED BY <1>1, <2>1, <2>2 DEF SaveAdmins, SaveMembers, AdminsIn, AdmittedTypes
<1>3. CASE ~HasAdmin
  BY <1>1, <1>3 DEF Admit, TypeOK, AdmittedTypes
<1>4. QED BY <1>2, <1>3

LEMMA HandlersType == TypeOK /\ Handled => TypeOK'
<1> SUFFICES ASSUME TypeOK, Handled PROVE TypeOK'
  OBVIOUS
<1>a. ASSUME NEW by \in Keys, NEW tags \in PutLists, PutUsers(by, tags) PROVE TypeOK'
  <2>1. Len(tags) \in 0..Len(tags)
    OBVIOUS
  <2>2. members' \in [Keys -> Option(SUBSET Roles)]
    BY <1>a, <2>1, RolesAfterType DEF PutUsers, MembersAfter
  <2>3. joinRequests' \in SUBSET Keys /\ sAdmins' \in SUBSET Keys /\ sMembers' \in SUBSET Keys
    BY <1>a DEF PutUsers, TypeOK, SaveAdmins, SaveMembers, AdminsIn
  <2>4. UNCHANGED <<invites, flags, now, sFlags, sInvites, sJoins>>
    BY <1>a DEF PutUsers
  <2>5. QED BY <2>2, <2>3, <2>4 DEF TypeOK
<1>b. ASSUME NEW by \in Keys, NEW tags \in PutLists, SetRoles(by, tags) PROVE TypeOK'
  <2>1. Len(tags) \in 0..Len(tags)
    OBVIOUS
  <2>2. members' \in [Keys -> Option(SUBSET Roles)]
    BY <1>b, <2>1, RolesAfterType DEF SetRoles, Option
  <2>3. QED BY <1>b, <2>2 DEF SetRoles, TypeOK, SaveMembers
<1>c. ASSUME NEW by \in Keys, NEW gone \in RemoveSets, RemoveUsers(by, gone) PROVE TypeOK'
  <2>1. members' \in [Keys -> Option(SUBSET Roles)]
    BY <1>c DEF RemoveUsers, TypeOK, Option
  <2>2. joinRequests' \in SUBSET Keys /\ sAdmins' \in SUBSET Keys /\ sMembers' \in SUBSET Keys
    <3>1. joinRequests' \in SUBSET Keys
      BY <1>c DEF RemoveUsers, TypeOK
    <3>2. sAdmins' = sAdmins \/ SaveAdmins
      BY <1>c DEF RemoveUsers
    <3>3. sAdmins' \in SUBSET Keys
      BY <3>2 DEF TypeOK, SaveAdmins, AdminsIn
    <3>4. sMembers' \in SUBSET Keys
      BY <1>c DEF RemoveUsers, SaveMembers
    <3>5. QED BY <3>1, <3>3, <3>4
  <2>3. UNCHANGED <<invites, flags, now, sFlags, sInvites, sJoins>>
    BY <1>c DEF RemoveUsers
  <2>4. QED BY <2>1, <2>2, <2>3 DEF TypeOK
<1>d. ASSUME NEW by \in Keys, NEW tags \in EditTags, EditMetadata(by, tags) PROVE TypeOK'
  <2>1. flags' \in Flags
    BY <1>d, ApplyTagsType DEF EditMetadata, TypeOK
  <2>2. QED BY <1>d, <2>1 DEF EditMetadata, TypeOK
<1>e. ASSUME NEW by \in Keys, NEW c \in Codes, NEW tags \in InviteTags, CreateInvite(by, c, tags)
      PROVE TypeOK'
  <2>1. LimitedInvite(tags, {"member"}, now, TRUE) \in Option(Invite)
    BY LimitedInviteType DEF TypeOK, Roles, Option
  <2>2. [tags |-> tags, created |-> now] \in Option(StoredInvite)
    BY DEF TypeOK, StoredInvite, Option
  <2>3. /\ invites' \in [Codes -> Option(Invite)]
        /\ sInvites' \in [Codes -> Option(StoredInvite)]
    BY <1>e, <2>1, <2>2 DEF CreateInvite, TypeOK
  <2>4. UNCHANGED <<members, joinRequests, flags, now, sFlags, sAdmins, sMembers, sJoins>>
    BY <1>e DEF CreateInvite
  <2>5. QED BY <2>3, <2>4 DEF TypeOK
<1>f. ASSUME NEW by \in Keys, NEW c \in Codes, DeleteInvite(by, c) PROVE TypeOK'
  BY <1>f DEF DeleteInvite, TypeOK, Option
<1>g. ASSUME NEW by \in Keys, NEW e \in sJoins, DeleteJoinEvent(by, e) PROVE TypeOK'
  <2>1. sJoins' \subseteq sJoins /\ IsFiniteSet(sJoins')
    BY <1>g, FS_Subset DEF DeleteJoinEvent, TypeOK
  <2>2. QED BY <1>g, <2>1 DEF DeleteJoinEvent, TypeOK, live
<1>h. ASSUME NEW k \in Keys, Leave(k) PROVE TypeOK'
  <2>1. members' \in [Keys -> Option(SUBSET Roles)]
    BY <1>h DEF Leave, TypeOK, Option
  <2>2. joinRequests' \in SUBSET Keys /\ sAdmins' \in SUBSET Keys /\ sMembers' \in SUBSET Keys
    BY <1>h DEF Leave, TypeOK, SaveAdmins, SaveMembers, AdminsIn
  <2>3. UNCHANGED <<invites, flags, now, sFlags, sInvites, sJoins>>
    BY <1>h DEF Leave
  <2>4. QED BY <2>1, <2>2, <2>3 DEF TypeOK
<1>i. ASSUME NEW k \in Keys, Post(k) PROVE TypeOK'
  <2>1. members' \in [Keys -> Option(SUBSET Roles)]
    BY <1>i DEF Post, TypeOK, Option, Roles
  <2>2. joinRequests' \in SUBSET Keys /\ sAdmins' \in SUBSET Keys /\ sMembers' \in SUBSET Keys
    BY <1>i DEF Post, TypeOK, SaveAdmins, SaveMembers, AdminsIn
  <2>3. UNCHANGED <<invites, flags, now, sFlags, sInvites, sJoins>>
    BY <1>i DEF Post
  <2>4. QED BY <2>1, <2>2, <2>3 DEF TypeOK
<1>j. ASSUME NEW k \in Keys, ConsoleRemove(k) PROVE TypeOK'
  BY <1>j DEF ConsoleRemove, TypeOK, Option, database
<1>k. ASSUME NEW k \in Keys, NEW c \in Codes \cup {NoCode}, JoinOpen(k, c) PROVE TypeOK'
  <2>1. Admit(k, c, {"member"}) /\ {"member"} \in SUBSET Roles
    BY <1>k DEF JoinOpen, Roles
  <2>2. AdmittedTypes
    BY <2>1, AdmitTypes
  <2>3. UNCHANGED <<invites, flags, now, sFlags, sInvites>>
    BY <1>k DEF JoinOpen
  <2>4. QED BY <2>2, <2>3 DEF AdmittedTypes, TypeOK
<1>l. ASSUME NEW k \in Keys, NEW c \in Codes \cup {NoCode}, JoinInvited(k, c) PROVE TypeOK'
  <2>1. c \in Codes /\ invites[c] \in Invite
    BY <1>l DEF JoinInvited, CanUse, TypeOK, Option
  <2>2. invites[c].roles \in SUBSET Roles /\ [invites[c] EXCEPT !.uses = @ + 1] \in Invite
    BY <2>1 DEF Invite
  <2>3. invites' = [invites EXCEPT ![c] = [invites[c] EXCEPT !.uses = @ + 1]]
    BY <1>l, <2>1 DEF JoinInvited, TypeOK, Invite
  <2>4. invites' \in [Codes -> Option(Invite)]
    BY <2>1, <2>2, <2>3 DEF TypeOK, Option
  <2>5. AdmittedTypes
    BY <1>l, <2>2, AdmitTypes DEF JoinInvited
  <2>6. UNCHANGED <<flags, now, sFlags, sInvites>>
    BY <1>l DEF JoinInvited
  <2>7. QED BY <2>4, <2>5, <2>6 DEF AdmittedTypes, TypeOK
<1>m. ASSUME NEW k \in Keys, NEW c \in Codes \cup {NoCode}, JoinPending(k, c) PROVE TypeOK'
  <2>1. sJoins' \in SUBSET JoinEvent /\ IsFiniteSet(sJoins')
    BY <1>m, JoinEventSaved, FS_AddElement DEF JoinPending, TypeOK
  <2>2. QED BY <1>m, <2>1 DEF JoinPending, TypeOK
<1>n. CASE Tick
  <2>1. /\ UNCHANGED <<members, joinRequests, invites, flags>>
        /\ UNCHANGED <<sFlags, sAdmins, sMembers, sInvites, sJoins>>
    BY <1>n DEF Tick, live, database
  <2>2. now' \in Nat
    BY <1>n DEF Tick, TypeOK
  <2>3. QED BY <2>1, <2>2 DEF TypeOK
<1>o. CASE Restart
  <2>1. members' \in [Keys -> Option(SUBSET Roles)]
    BY <1>o DEF Restart, ReloadedRoles, Option, Roles
  <2>2. joinRequests' \in SUBSET Keys
    BY <1>o DEF Restart, TypeOK, JoinEvent
  <2>3. ASSUME NEW c \in Codes PROVE ReloadedInvite(c) \in Option(Invite)
    <3>1. CASE sInvites[c] = None
      BY <3>1 DEF ReloadedInvite, Option
    <3>2. CASE sInvites[c] # None
      <4>1. sInvites[c] \in StoredInvite
        BY <3>2 DEF TypeOK, Option
      <4> DEFINE loaded == LimitedInvite(sInvites[c].tags, sInvites[c].tags.roles, sInvites[c].created,
                                         sInvites[c].created >= LimitsSince)
                 uses == Cardinality({e \in sJoins : e.code = c})
      <4>2. loaded \in Invite
        <5>1. /\ sInvites[c].tags \in InviteTag /\ sInvites[c].created \in Nat
              /\ sInvites[c].tags.roles \in SUBSET Roles
          BY <4>1 DEF StoredInvite, InviteTag
        <5>2. (sInvites[c].created >= LimitsSince) \in BOOLEAN
          OBVIOUS
        <5>3. QED BY <5>1, <5>2, LimitedInviteType
      <4>3. uses \in Nat
        BY FS_Subset, FS_CardinalityType DEF TypeOK
      <4>4. ReloadedInvite(c) = [loaded EXCEPT !.uses = uses]
        BY <3>2 DEF ReloadedInvite
      <4> HIDE DEF loaded, uses
      <4>5. QED BY <4>2, <4>3, <4>4 DEF Invite, Option
    <3>3. QED BY <3>1, <3>2
  <2>4. invites' \in [Codes -> Option(Invite)]
    BY <1>o, <2>3 DEF Restart
  <2>5. flags' \in Flags
    BY <1>o, ReloadedType DEF Restart, TypeOK
  <2>6. QED BY <1>o, <2>1, <2>2, <2>4, <2>5 DEF Restart, TypeOK, database
<1>p. QED
  BY <1>a, <1>b, <1>c, <1>d, <1>e, <1>f, <1>g, <1>h, <1>i, <1>j, <1>k, <1>l, <1>m, <1>n, <1>o
  DEF Handled
\* Every variable of a group keeps its type.
THEOREM GroupTypes == Spec => []TypeOK
<1>1. TypeOK /\ [Next]_vars => TypeOK'
  <2>1. TypeOK /\ UNCHANGED vars => TypeOK'
    BY DEF vars, live, database, TypeOK
  <2>2. QED BY <2>1, NextIsHandled, HandlersType
<1>2. QED BY <1>1, InitTypes, PTL DEF Spec

-----------------------------------------------------------------------------
(* Membership. *)

\* Whatever is stored is stored by a handler that leaves an admin in place, and a
\* restart takes the admins from there.
AdminInv == HasAdmin /\ sAdmins # {}

\* Admitting a key that is no member keeps every admin.
LEMMA AdmitKeepsAdmins ==
    ASSUME TypeOK, HasAdmin, NEW k \in Keys, NEW c, NEW roles, ~IsMember(k), Admit(k, c, roles)
    PROVE  HasAdmin' /\ sAdmins' = AdminsIn(members')
<1>1. AdminSet \subseteq AdminSet'
  BY DEF Admit, TypeOK, AdminSet, AdminsIn, HasRole, IsMember
<1>2. QED BY <1>1 DEF HasAdmin, Admit, SaveAdmins, AdminSet

LEMMA HandlersKeepAdmin ==
    ASSUME "console" \notin Ops, TypeOK, AdminInv, Handled
    PROVE  AdminInv'
<1>a. ASSUME NEW by \in Keys, NEW tags \in PutLists, PutUsers(by, tags) PROVE AdminInv'
  BY <1>a DEF PutUsers, AdminInv, HasAdmin, AdminSet, SaveAdmins
<1>b. ASSUME NEW by \in Keys, NEW tags \in PutLists, SetRoles(by, tags) PROVE AdminInv'
  BY <1>b DEF SetRoles, AdminInv, HasAdmin, AdminSet
<1>c. ASSUME NEW by \in Keys, NEW gone \in RemoveSets, RemoveUsers(by, gone) PROVE AdminInv'
  <2>1. HasAdmin'
    BY <1>c DEF RemoveUsers, HasAdmin, AdminSet
  <2>2. sAdmins' = sAdmins \/ sAdmins' = AdminsIn(members')
    BY <1>c DEF RemoveUsers, SaveAdmins
  <2>3. QED BY <2>1, <2>2 DEF AdminInv, HasAdmin, AdminSet
<1>d. ASSUME UNCHANGED <<members, sAdmins>> PROVE AdminInv'
  BY <1>d DEF AdminInv, HasAdmin, AdminSet
<1>e. ASSUME NEW k \in Keys, Leave(k) PROVE AdminInv'
  <2>1. CASE UNCHANGED <<members, sAdmins>>
    BY <1>d, <2>1
  <2>2. CASE AdminSet # {k} /\ members' = [members EXCEPT ![k] = None]
    <3>1. PICK a \in AdminSet : a # k
      BY <2>2 DEF AdminInv, HasAdmin
    <3>2. a \in AdminSet'
      BY <2>2, <3>1 DEF AdminSet, AdminsIn, HasRole, TypeOK
    <3>3. sAdmins' = sAdmins \/ sAdmins' = AdminsIn(members')
      BY <1>e DEF Leave, SaveAdmins
    <3>4. QED BY <3>2, <3>3 DEF AdminInv, HasAdmin, AdminSet
  <2>3. QED BY <1>e, <2>1, <2>2 DEF Leave
<1>f. ASSUME NEW k \in Keys, Post(k) PROVE AdminInv'
  <2>1. AdminSet \subseteq AdminSet'
    BY <1>f DEF Post, TypeOK, AdminSet, AdminsIn, HasRole, IsMember
  <2>2. QED BY <1>f, <2>1 DEF Post, AdminInv, HasAdmin, SaveAdmins, AdminSet
<1>g. ASSUME NEW k \in Keys, NEW c, JoinOpen(k, c) \/ JoinInvited(k, c) PROVE AdminInv'
  <2>1. PICK roles : ~IsMember(k) /\ Admit(k, c, roles)
    BY <1>g DEF JoinOpen, JoinInvited
  <2>2. HasAdmin' /\ sAdmins' = AdminsIn(members')
    BY <2>1, AdmitKeepsAdmins DEF AdminInv
  <2>3. QED BY <2>2 DEF AdminInv, HasAdmin, AdminSet
<1>h. CASE Restart
  <2>1. AdminSet' = sAdmins
    BY <1>h DEF Restart, AdminSet, AdminsIn, HasRole, ReloadedRoles, TypeOK, Roles
  <2>2. QED BY <1>h, <2>1 DEF Restart, database, AdminInv, HasAdmin
<1>i. QED
  BY <1>a, <1>b, <1>c, <1>d, <1>e, <1>f, <1>g, <1>h
  DEF Handled, EditMetadata, CreateInvite, DeleteInvite, DeleteJoinEvent, ConsoleRemove,
      JoinPending, Tick, live, database

LEMMA AdminInvHolds ==
    ASSUME "console" \notin Ops
    PROVE  Spec => []AdminInv
<1>1. Init => AdminInv
  <2> SUFFICES ASSUME Init PROVE AdminInv
    OBVIOUS
  <2>1. members[Creator] = {"admin"}
    BY DEF Init
  <2>2. Creator \in AdminSet
    BY <2>1 DEF AdminSet, AdminsIn, HasRole, Roles
  <2>3. QED BY <2>2 DEF Init, AdminInv, HasAdmin
<1>2. TypeOK /\ AdminInv /\ [Next]_vars => AdminInv'
  <2>1. AdminInv /\ UNCHANGED vars => AdminInv'
    BY DEF vars, live, database, AdminInv, HasAdmin, AdminSet
  <2>2. QED BY <2>1, NextIsHandled, HandlersKeepAdmin
<1>3. QED BY <1>1, <1>2, GroupTypes, PTL DEF Spec

\* A group always has an admin, and so does what a restart rebuilds of it, as long
\* as nobody is removed from the console.
THEOREM GroupKeepsAnAdmin ==
    ASSUME "console" \notin Ops
    PROVE  Spec => []AlwaysHasAdmin
<1>1. AdminInv => AlwaysHasAdmin
  BY DEF AdminInv, AlwaysHasAdmin
<1>2. QED BY <1>1, AdminInvHolds, PTL
\* Nobody is a member and waits to be let in, whatever operations occur.
THEOREM MembersDoNotWait == Spec => []NoMemberAwaitsApproval
<1>1. Init => NoMemberAwaitsApproval
  BY DEF Init, NoMemberAwaitsApproval
<1>2. TypeOK /\ NoMemberAwaitsApproval /\ [Next]_vars => NoMemberAwaitsApproval'
  <2> SUFFICES ASSUME TypeOK, NoMemberAwaitsApproval, [Next]_vars
               PROVE  NoMemberAwaitsApproval'
    OBVIOUS
  <2>a. ASSUME NEW by \in Keys, NEW tags \in PutLists, PutUsers(by, tags)
        PROVE  NoMemberAwaitsApproval'
    <3>1. Len(tags) \in 0..Len(tags)
      OBVIOUS
    <3>2. \A k \in Keys : k \notin KeysNamed(tags) => members'[k] = members[k]
      BY <2>a, <3>1, RolesAfterType DEF PutUsers, MembersAfter
    <3>3. QED BY <2>a, <3>2 DEF PutUsers, NoMemberAwaitsApproval, IsMember, TypeOK
  <2>b. ASSUME NEW by \in Keys, NEW tags \in PutLists, SetRoles(by, tags)
        PROVE  NoMemberAwaitsApproval'
    BY <2>b DEF SetRoles, NoMemberAwaitsApproval, IsMember, TypeOK
  <2>c. ASSUME NEW by \in Keys, NEW gone \in RemoveSets, RemoveUsers(by, gone)
        PROVE  NoMemberAwaitsApproval'
    BY <2>c DEF RemoveUsers, NoMemberAwaitsApproval, IsMember, TypeOK
  <2>d. ASSUME UNCHANGED <<members, joinRequests>> PROVE NoMemberAwaitsApproval'
    BY <2>d DEF NoMemberAwaitsApproval, IsMember
  <2>e. ASSUME NEW k \in Keys, Leave(k) PROVE NoMemberAwaitsApproval'
    BY <2>e DEF Leave, NoMemberAwaitsApproval, IsMember, TypeOK
  <2>f. ASSUME NEW k \in Keys, NEW roles,
               members' = [members EXCEPT ![k] = roles], joinRequests' = joinRequests \ {k}
        PROVE  NoMemberAwaitsApproval'
    BY <2>f DEF NoMemberAwaitsApproval, IsMember, TypeOK
  <2>g. ASSUME NEW k \in Keys, ConsoleRemove(k) PROVE NoMemberAwaitsApproval'
    BY <2>g DEF ConsoleRemove, NoMemberAwaitsApproval, IsMember, TypeOK
  <2>h. ASSUME NEW k \in Keys, NEW c, JoinPending(k, c) PROVE NoMemberAwaitsApproval'
    BY <2>h DEF JoinPending, NoMemberAwaitsApproval, IsMember
  <2>i. CASE Restart
    BY <2>i DEF Restart, NoMemberAwaitsApproval, IsMember, TypeOK, JoinEvent
  <2>j. CASE Handled
    BY <2>j, <2>a, <2>b, <2>c, <2>d, <2>e, <2>f, <2>g, <2>h, <2>i
    DEF Handled, EditMetadata, CreateInvite, DeleteInvite, DeleteJoinEvent, Post,
        JoinOpen, JoinInvited, Admit, Tick, live
  <2>k. QED BY <2>d, <2>j, NextIsHandled DEF vars, live
<1>3. QED BY <1>1, <1>2, GroupTypes, PTL DEF Spec

\* What is stored names the members and the admins of the group as they are, as
\* long as roles are set by put-user lists alone and nobody is removed from the
\* console.
THEOREM StoredMembershipIsCurrent ==
    ASSUME "console" \notin Ops, "roles" \notin Ops
    PROVE  Spec => []RebuildsMembership
<1>1. Init => RebuildsMembership
  <2> SUFFICES ASSUME Init PROVE RebuildsMembership
    OBVIOUS
  <2>1. \A k \in Keys : members[k] = IF k = Creator THEN {"admin"}
                                    ELSE IF k \in Participants THEN {"member"} ELSE None
    BY DEF Init
  <2>2. MemberSet = {Creator} \cup Participants
    BY <2>1 DEF MemberSet, Roles
  <2>3. AdminSet = {Creator}
    BY <2>1 DEF AdminSet, AdminsIn, HasRole, Roles
  <2>4. QED BY <2>2, <2>3 DEF Init, RebuildsMembership
<1>2. TypeOK /\ AdminInv /\ RebuildsMembership /\ [Next]_vars => RebuildsMembership'
  <2> SUFFICES ASSUME TypeOK, AdminInv, RebuildsMembership, [Next]_vars
               PROVE  RebuildsMembership'
    OBVIOUS
  <2>a. ASSUME SaveAdmins, SaveMembers PROVE RebuildsMembership'
    BY <2>a DEF SaveAdmins, SaveMembers, RebuildsMembership, AdminSet, MemberSet
  <2>b. ASSUME AdminsIn(members') = AdminSet, sAdmins' = sAdmins, SaveMembers
        PROVE  RebuildsMembership'
    BY <2>b DEF SaveMembers, RebuildsMembership, AdminSet, MemberSet
  <2>c. ASSUME UNCHANGED <<members, sAdmins, sMembers>> PROVE RebuildsMembership'
    BY <2>c DEF RebuildsMembership, AdminSet, MemberSet, AdminsIn, HasRole
  <2>d. ASSUME NEW by \in Keys, NEW gone \in RemoveSets, RemoveUsers(by, gone)
        PROVE  RebuildsMembership'
    <3>1. CASE gone \cap AdminSet # {}
      BY <2>a, <2>d, <3>1 DEF RemoveUsers
    <3>2. CASE gone \cap AdminSet = {}
      <4>1. AdminsIn(members') = AdminSet
        BY <2>d, <3>2 DEF RemoveUsers, AdminSet, AdminsIn, HasRole
      <4>2. QED BY <2>b, <2>d, <3>2, <4>1 DEF RemoveUsers
    <3>3. QED BY <3>1, <3>2
  <2>e. ASSUME NEW k \in Keys, Leave(k) PROVE RebuildsMembership'
    <3>1. CASE AdminSet = {k} \/ ~IsMember(k)
      BY <2>c, <2>e, <3>1 DEF Leave
    <3>2. CASE ~(AdminSet = {k} \/ ~IsMember(k)) /\ IsAdmin(k)
      BY <2>a, <2>e, <3>2 DEF Leave
    <3>3. CASE ~(AdminSet = {k} \/ ~IsMember(k)) /\ ~IsAdmin(k)
      <4>1. AdminsIn(members') = AdminSet
        BY <2>e, <3>3 DEF Leave, AdminSet, AdminsIn, HasRole, IsAdmin, TypeOK
      <4>2. QED BY <2>b, <2>e, <3>3, <4>1 DEF Leave
    <3>4. QED BY <3>1, <3>2, <3>3
  <2>f. CASE Restart
    <3>1. sAdmins \subseteq sMembers
      BY DEF RebuildsMembership, AdminSet, AdminsIn, HasRole, MemberSet
    <3>2. AdminSet' = sAdmins
      BY <2>f DEF Restart, AdminSet, AdminsIn, HasRole, ReloadedRoles, TypeOK, Roles
    <3>3. MemberSet' = sMembers
      BY <2>f, <3>1 DEF Restart, MemberSet, ReloadedRoles, TypeOK, Roles
    <3>4. QED BY <2>f, <3>2, <3>3 DEF Restart, database, RebuildsMembership
  <2>g. ASSUME NEW k \in Keys, NEW c, JoinOpen(k, c) \/ JoinInvited(k, c) \/ Post(k)
        PROVE  RebuildsMembership'
    BY <2>a, <2>g DEF JoinOpen, JoinInvited, Post, Admit, AdminInv
  <2>h. CASE Handled
    BY <2>h, <2>a, <2>c, <2>d, <2>e, <2>f, <2>g
    DEF Handled, PutUsers, SetRoles, EditMetadata, CreateInvite, DeleteInvite,
        DeleteJoinEvent, ConsoleRemove, JoinPending, Tick, live, database
  <2>i. QED BY <2>c, <2>h, NextIsHandled DEF vars, live, database
<1>3. QED BY <1>1, <1>2, AdminInvHolds, GroupTypes, PTL DEF Spec
\* So a restart lets nobody in and makes nobody an admin.
THEOREM RestartsAdmitNobody ==
    ASSUME "console" \notin Ops, "roles" \notin Ops
    PROVE  Spec => RestartAdmitsNobody
<1> DEFINE Admits == \/ \E k \in Keys : IsMember(k)' /\ ~IsMember(k)
                     \/ \E k \in Keys : IsAdmin(k)' /\ ~IsAdmin(k)
<1>1. TypeOK /\ RebuildsMembership /\ Restart => ~Admits
  <2> SUFFICES ASSUME TypeOK, RebuildsMembership, Restart PROVE ~Admits
    OBVIOUS
  <2>1. sAdmins \subseteq sMembers
    BY DEF RebuildsMembership, AdminSet, AdminsIn, HasRole, MemberSet
  <2>2. \A k \in Keys : IsMember(k)' => k \in sMembers
    BY <2>1 DEF Restart, IsMember, ReloadedRoles
  <2>3. \A k \in Keys : IsAdmin(k)' => k \in sAdmins
    BY DEF Restart, IsAdmin, HasRole, ReloadedRoles
  <2>4. QED BY <2>2, <2>3 DEF RebuildsMembership, MemberSet, AdminSet, AdminsIn, IsMember, IsAdmin
<1>2. TypeOK /\ RebuildsMembership =>
        [Restart => /\ \A k \in Keys : IsMember(k)' => IsMember(k)
                    /\ \A k \in Keys : IsAdmin(k)' => IsAdmin(k)]_vars
  BY <1>1
<1>3. QED BY <1>2, GroupTypes, StoredMembershipIsCurrent, PTL DEF RestartAdmitsNobody

-----------------------------------------------------------------------------
(* Invites. *)

\* While the relay runs, no invite is used more often than it allows.
THEOREM InvitesStayWithinLimits ==
    ASSUME "restart" \notin Ops
    PROVE  Spec => []InvitesWithinLimits
<1>1. Init => InvitesWithinLimits
  BY DEF Init, InvitesWithinLimits
<1>2. TypeOK /\ InvitesWithinLimits /\ [Next]_vars => InvitesWithinLimits'
  <2> SUFFICES ASSUME TypeOK, InvitesWithinLimits, [Next]_vars PROVE InvitesWithinLimits'
    OBVIOUS
  <2>a. ASSUME NEW by \in Keys, NEW c \in Codes, NEW tags \in InviteTags, CreateInvite(by, c, tags)
        PROVE  InvitesWithinLimits'
    <3> DEFINE made == LimitedInvite(tags, {"member"}, now, TRUE)
    <3>1. made \in Invite
      BY LimitedInviteType DEF TypeOK, Roles
    <3>2. made.uses = 0
      BY DEF LimitedInvite
    <3>3. \A d \in Codes : invites'[d] = invites[d] \/ invites'[d] = made
      BY <2>a DEF CreateInvite, TypeOK
    <3> HIDE DEF made
    <3>4. QED BY <3>1, <3>2, <3>3 DEF InvitesWithinLimits, Invite, Option
  <2>b. ASSUME NEW by \in Keys, NEW c \in Codes, DeleteInvite(by, c) PROVE InvitesWithinLimits'
    BY <2>b DEF DeleteInvite, TypeOK, InvitesWithinLimits
  <2>c. ASSUME NEW k \in Keys, NEW c, JoinInvited(k, c) PROVE InvitesWithinLimits'
    <3>1. c \in Codes /\ invites[c] # None /\ ~Spent(invites[c])
      BY <2>c DEF JoinInvited, CanUse
    <3>2. invites[c] \in Invite
      BY <3>1 DEF TypeOK, Option
    <3>3. /\ invites'[c].uses = invites[c].uses + 1
          /\ invites'[c].maxUses = invites[c].maxUses
          /\ invites'[c].reusable = invites[c].reusable
          /\ \A d \in Codes \ {c} : invites'[d] = invites[d]
      BY <2>c, <3>1, <3>2 DEF JoinInvited, TypeOK, Invite
    <3>4. /\ invites'[c].maxUses # None => invites'[c].uses <= invites'[c].maxUses
          /\ ~invites'[c].reusable => invites'[c].uses <= 1
      BY <3>1, <3>2, <3>3 DEF Spent, Invite, Option
    <3>5. QED BY <3>3, <3>4 DEF InvitesWithinLimits
  <2>d. ASSUME UNCHANGED invites PROVE InvitesWithinLimits'
    BY <2>d DEF InvitesWithinLimits
  <2>e. CASE Handled
    BY <2>e, <2>a, <2>b, <2>c, <2>d
    DEF Handled, PutUsers, SetRoles, RemoveUsers, EditMetadata, DeleteJoinEvent, Leave, Post,
        ConsoleRemove, JoinOpen, JoinPending, Tick, Restart, live
  <2>f. QED BY <2>d, <2>e, NextIsHandled DEF vars, live
<1>3. QED BY <1>1, <1>2, GroupTypes, PTL DEF Spec

UsesOnRecord(c) == {e \in sJoins : e.code = c}
LimitsOnRecord(c) == LimitedInvite(sInvites[c].tags, {}, sInvites[c].created, TRUE)

\* An invite's limits, unless it is grandfathered, and its uses are on record: a
\* restart finds it at least as spent.
UsesRecorded ==
    \A c \in Codes : invites[c] # None =>
        /\ sInvites[c] # None
        /\ ~Grandfathered(c) => /\ invites[c].maxUses = LimitsOnRecord(c).maxUses
                                /\ invites[c].expires = LimitsOnRecord(c).expires
        /\ invites[c].reusable = LimitsOnRecord(c).reusable
        /\ invites[c].uses <= Cardinality(UsesOnRecord(c))

\* The roles an invite hands out have no part in its limits.
LEMMA RolesAreNoLimit ==
    ASSUME NEW tags, NEW roles, NEW created
    PROVE  LET one == LimitedInvite(tags, roles, created, TRUE)
               other == LimitedInvite(tags, {}, created, TRUE)
           IN  /\ one.maxUses = other.maxUses /\ one.reusable = other.reusable
               /\ one.expires = other.expires /\ one.uses = 0
BY DEF LimitedInvite

\* What a restart makes of a stored invite.
LEMMA ReloadedFromRecord ==
    ASSUME TypeOK, NEW c \in Codes, sInvites[c] # None
    PROVE  /\ ~Grandfathered(c) =>
                  /\ ReloadedInvite(c).maxUses = LimitsOnRecord(c).maxUses
                  /\ ReloadedInvite(c).expires = LimitsOnRecord(c).expires
           /\ ReloadedInvite(c).reusable = LimitsOnRecord(c).reusable
           /\ ReloadedInvite(c).uses = Cardinality(UsesOnRecord(c))
<1>1. sInvites[c].created \in Nat
  BY DEF TypeOK, Option, StoredInvite
<1>2. ~Grandfathered(c) <=> sInvites[c].created >= LimitsSince
  BY <1>1, LimitsAssumption DEF Grandfathered
<1>3. QED BY <1>2 DEF ReloadedInvite, LimitsOnRecord, LimitedInvite, UsesOnRecord

LEMMA RecordIsFinite ==
    ASSUME TypeOK, NEW c
    PROVE  IsFiniteSet(UsesOnRecord(c)) /\ Cardinality(UsesOnRecord(c)) \in Nat
BY FS_Subset, FS_CardinalityType DEF TypeOK, UsesOnRecord

\* More join requests on record never make for fewer uses.
LEMMA RecordGrows ==
    ASSUME TypeOK', sJoins \subseteq sJoins', NEW c
    PROVE  Cardinality(UsesOnRecord(c)) <= Cardinality(UsesOnRecord(c)')
<1>1. UsesOnRecord(c) \subseteq UsesOnRecord(c)' /\ UsesOnRecord(c)' \subseteq sJoins'
  BY DEF UsesOnRecord
<1>2. IsFiniteSet(UsesOnRecord(c)')
  BY <1>1, FS_Subset DEF TypeOK
<1>3. QED BY <1>1, <1>2, FS_Subset

LEMMA HandlersRecordUses ==
    ASSUME "delete_join" \notin Ops, TypeOK, TypeOK', AdminInv, UsesRecorded, Handled
    PROVE  UsesRecorded'
<1>a. ASSUME NEW by \in Keys, NEW c \in Codes, NEW tags \in InviteTags, CreateInvite(by, c, tags)
      PROVE  UsesRecorded'
  <2> SUFFICES ASSUME NEW d \in Codes, invites'[d] # None
               PROVE  /\ sInvites'[d] # None
                      /\ ~Grandfathered(d)' =>
                             /\ invites'[d].maxUses = LimitsOnRecord(d)'.maxUses
                             /\ invites'[d].expires = LimitsOnRecord(d)'.expires
                      /\ invites'[d].reusable = LimitsOnRecord(d)'.reusable
                      /\ invites'[d].uses <= Cardinality(UsesOnRecord(d)')
    BY DEF UsesRecorded
  <2>1. UsesOnRecord(d)' = UsesOnRecord(d)
    BY <1>a DEF CreateInvite, UsesOnRecord
  <2>2. CASE d = c
    <3>1. invites'[d] = LimitedInvite(tags, {"member"}, now, TRUE)
      BY <1>a, <2>2 DEF CreateInvite, TypeOK
    <3>2. sInvites'[d] = [tags |-> tags, created |-> now]
      BY <1>a, <2>2 DEF CreateInvite, TypeOK
    <3>3. sInvites'[d] # None
      BY <3>2 DEF TypeOK, StoredInvite
    <3>4. LimitsOnRecord(d)' = LimitedInvite(tags, {}, now, TRUE)
      BY <3>2 DEF LimitsOnRecord, LimitedInvite
    <3> DEFINE made == LimitedInvite(tags, {"member"}, now, TRUE)
               bare == LimitedInvite(tags, {}, now, TRUE)
    <3>5. /\ made.maxUses = bare.maxUses /\ made.reusable = bare.reusable
          /\ made.expires = bare.expires /\ made.uses = 0
      BY RolesAreNoLimit
    <3>6. invites'[d] = made /\ LimitsOnRecord(d)' = bare
      BY <3>1, <3>4
    <3> HIDE DEF made, bare
    <3>7. Cardinality(UsesOnRecord(d)) \in Nat
      BY RecordIsFinite
    <3>8. QED BY <2>1, <3>3, <3>5, <3>6, <3>7
  <2>3. CASE d # c
    <3>1. invites'[d] = invites[d] /\ sInvites'[d] = sInvites[d]
      BY <1>a, <2>3 DEF CreateInvite, TypeOK
    <3>2. LimitsOnRecord(d)' = LimitsOnRecord(d) /\ Grandfathered(d)' = Grandfathered(d)
      BY <3>1 DEF LimitsOnRecord, LimitedInvite, Grandfathered
    <3>3. QED BY <2>1, <3>1, <3>2 DEF UsesRecorded
  <2>4. QED BY <2>2, <2>3
<1>b. ASSUME NEW by \in Keys, NEW c \in Codes, DeleteInvite(by, c) PROVE UsesRecorded'
  <2>1. \A d \in Codes : invites'[d] # None =>
            invites'[d] = invites[d] /\ sInvites'[d] = sInvites[d]
    BY <1>b DEF DeleteInvite, TypeOK
  <2>2. \A d \in Codes : UsesOnRecord(d)' = UsesOnRecord(d)
    BY <1>b DEF DeleteInvite, UsesOnRecord
  <2>3. \A d \in Codes : sInvites'[d] = sInvites[d] =>
            LimitsOnRecord(d)' = LimitsOnRecord(d) /\ Grandfathered(d)' = Grandfathered(d)
    BY DEF LimitsOnRecord, LimitedInvite, Grandfathered
  <2>4. QED BY <2>1, <2>2, <2>3 DEF UsesRecorded
<1>c. ASSUME UNCHANGED <<invites, sInvites>>, sJoins \subseteq sJoins' PROVE UsesRecorded'
  <2>1. \A d \in Codes : LimitsOnRecord(d)' = LimitsOnRecord(d)
                         /\ Grandfathered(d)' = Grandfathered(d)
    BY <1>c DEF LimitsOnRecord, LimitedInvite, Grandfathered
  <2>2. \A d \in Codes : /\ Cardinality(UsesOnRecord(d)) <= Cardinality(UsesOnRecord(d)')
                         /\ Cardinality(UsesOnRecord(d)) \in Nat
                         /\ Cardinality(UsesOnRecord(d)') \in Nat
    <3> SUFFICES ASSUME NEW d \in Codes
                 PROVE  /\ Cardinality(UsesOnRecord(d)) <= Cardinality(UsesOnRecord(d)')
                        /\ Cardinality(UsesOnRecord(d)) \in Nat
                        /\ Cardinality(UsesOnRecord(d)') \in Nat
      OBVIOUS
    <3>1. UsesOnRecord(d)' \subseteq sJoins' /\ IsFiniteSet(sJoins')
      BY DEF TypeOK, UsesOnRecord
    <3>2. IsFiniteSet(UsesOnRecord(d)')
      BY <3>1, FS_Subset
    <3>3. QED BY <1>c, <3>2, RecordGrows, RecordIsFinite, FS_CardinalityType
  <2>3. \A d \in Codes : invites[d] # None => invites[d].uses \in Nat
    BY DEF TypeOK, Option, Invite
  <2>4. QED BY <1>c, <2>1, <2>2, <2>3 DEF UsesRecorded
<1>d. ASSUME NEW k \in Keys, NEW c \in Codes \cup {NoCode}, JoinInvited(k, c) PROVE UsesRecorded'
  <2>1. SaveJoinEvent(k, c)
    BY <1>d DEF JoinInvited, Admit, AdminInv
  <2>2. PICK e \in JoinEvent :
            e \notin sJoins /\ e.code = c /\ sJoins' = sJoins \cup {e}
    BY <2>1, JoinEventSaved
  <2>3. c \in Codes /\ invites[c] # None
    BY <1>d DEF JoinInvited, CanUse
  <2>4. invites[c] \in Invite
    BY <2>3 DEF TypeOK, Option
  <2>5. /\ invites'[c] = [invites[c] EXCEPT !.uses = @ + 1]
        /\ \A d \in Codes \ {c} : invites'[d] = invites[d]
    BY <1>d, <2>3, <2>4 DEF JoinInvited, TypeOK, Invite
  <2>6. Cardinality(UsesOnRecord(c)') = Cardinality(UsesOnRecord(c)) + 1
    <3>1. UsesOnRecord(c)' = UsesOnRecord(c) \cup {e} /\ e \notin UsesOnRecord(c)
      BY <2>2 DEF UsesOnRecord
    <3>2. QED BY <3>1, RecordIsFinite, FS_AddElement
  <2>7. \A d \in Codes \ {c} : UsesOnRecord(d)' = UsesOnRecord(d)
    BY <2>2 DEF UsesOnRecord
  <2>8. /\ sInvites' = sInvites
        /\ \A d \in Codes : LimitsOnRecord(d)' = LimitsOnRecord(d)
                              /\ Grandfathered(d)' = Grandfathered(d)
    BY <1>d DEF JoinInvited, LimitsOnRecord, LimitedInvite, Grandfathered
  <2>9. invites[c].uses \in Nat /\ Cardinality(UsesOnRecord(c)) \in Nat
    BY <2>4, RecordIsFinite DEF Invite
  <2>10. /\ invites'[c].uses = invites[c].uses + 1
         /\ invites'[c].maxUses = invites[c].maxUses
         /\ invites'[c].reusable = invites[c].reusable
         /\ invites'[c].expires = invites[c].expires
    BY <2>4, <2>5 DEF Invite
  <2>11. invites[c].uses <= Cardinality(UsesOnRecord(c))
    BY <2>3 DEF UsesRecorded
  <2>12. invites'[c].uses <= Cardinality(UsesOnRecord(c)')
    BY <2>6, <2>9, <2>10, <2>11
  <2>13. SUFFICES ASSUME NEW d \in Codes, invites'[d] # None
                 PROVE  /\ sInvites'[d] # None
                        /\ ~Grandfathered(d)' =>
                               /\ invites'[d].maxUses = LimitsOnRecord(d)'.maxUses
                               /\ invites'[d].expires = LimitsOnRecord(d)'.expires
                        /\ invites'[d].reusable = LimitsOnRecord(d)'.reusable
                        /\ invites'[d].uses <= Cardinality(UsesOnRecord(d)')
    BY DEF UsesRecorded
  <2>14. CASE d = c
    BY <2>3, <2>8, <2>10, <2>12, <2>14 DEF UsesRecorded
  <2>15. CASE d # c
    <3>1. invites'[d] = invites[d] /\ UsesOnRecord(d)' = UsesOnRecord(d)
      BY <2>5, <2>7, <2>15
    <3>2. QED BY <2>8, <2>13, <3>1 DEF UsesRecorded
  <2>16. QED BY <2>14, <2>15
<1>e. ASSUME NEW k \in Keys, NEW c \in Codes \cup {NoCode}, JoinOpen(k, c) \/ JoinPending(k, c)
      PROVE  UsesRecorded'
  <2>1. UNCHANGED <<invites, sInvites>> /\ SaveJoinEvent(k, c)
    BY <1>e DEF JoinOpen, JoinPending, Admit, AdminInv
  <2>2. sJoins \subseteq sJoins'
    BY <2>1 DEF SaveJoinEvent
  <2>3. QED BY <1>c, <2>1, <2>2
<1>f. CASE Restart
  <2>1. sInvites' = sInvites /\ sJoins' = sJoins
    BY <1>f DEF Restart, database
  <2>2. \A d \in Codes : /\ LimitsOnRecord(d)' = LimitsOnRecord(d)
                         /\ Grandfathered(d)' = Grandfathered(d)
                         /\ UsesOnRecord(d)' = UsesOnRecord(d)
    BY <2>1 DEF LimitsOnRecord, LimitedInvite, Grandfathered, UsesOnRecord
  <2>3. \A d \in Codes : invites'[d] = ReloadedInvite(d)
    BY <1>f DEF Restart
  <2>4. \A d \in Codes : ReloadedInvite(d) # None => sInvites[d] # None
    BY DEF ReloadedInvite
  <2>5. \A d \in Codes : Cardinality(UsesOnRecord(d)) \in Nat
    BY RecordIsFinite
  <2>6. QED BY <2>1, <2>2, <2>3, <2>4, <2>5, ReloadedFromRecord DEF UsesRecorded
<1>g. QED
  BY <1>a, <1>b, <1>c, <1>d, <1>e, <1>f
  DEF Handled, PutUsers, SetRoles, RemoveUsers, EditMetadata, DeleteJoinEvent, Leave, Post,
      ConsoleRemove, Tick, live, database

LEMMA UsesAreRecorded ==
    ASSUME "console" \notin Ops, "delete_join" \notin Ops
    PROVE  Spec => []UsesRecorded
<1>1. Init => UsesRecorded
  BY DEF Init, UsesRecorded
<1>2. TypeOK /\ TypeOK' /\ AdminInv /\ UsesRecorded /\ [Next]_vars => UsesRecorded'
  <2>1. UsesRecorded /\ UNCHANGED vars => UsesRecorded'
    <3> SUFFICES ASSUME UsesRecorded, UNCHANGED vars PROVE UsesRecorded'
      OBVIOUS
    <3>1. invites' = invites /\ sInvites' = sInvites /\ sJoins' = sJoins
      BY DEF vars, live, database
    <3>2. \A c \in Codes : LimitsOnRecord(c)' = LimitsOnRecord(c)
                           /\ Grandfathered(c)' = Grandfathered(c)
      BY <3>1 DEF LimitsOnRecord, LimitedInvite, Grandfathered
    <3>3. \A c \in Codes : UsesOnRecord(c)' = UsesOnRecord(c)
      BY <3>1 DEF UsesOnRecord
    <3> QED BY <3>1, <3>2, <3>3 DEF UsesRecorded
  <2>2. QED BY <2>1, NextIsHandled, HandlersRecordUses
<1>3. QED BY <1>1, <1>2, AdminInvHolds, GroupTypes, PTL DEF Spec

\* While an invite that is not grandfathered lives, its limits stay as they are and its
\* uses never go down.
LEMMA HandlersKeepInvites ==
    ASSUME TypeOK, UsesRecorded, Handled,
           NEW c \in Codes, invites[c] # None, invites'[c] # None, ~Grandfathered(c)
    PROVE  /\ invites'[c].maxUses = invites[c].maxUses
           /\ invites'[c].reusable = invites[c].reusable
           /\ invites'[c].expires = invites[c].expires
           /\ invites[c].uses \in Nat /\ invites'[c].uses \in Nat
           /\ invites[c].uses <= invites'[c].uses
<1>0. invites[c] \in Invite /\ invites[c].uses \in Nat
  BY DEF TypeOK, Option, Invite
<1>1. ASSUME invites'[c] = invites[c]
      PROVE  /\ invites'[c].maxUses = invites[c].maxUses
             /\ invites'[c].reusable = invites[c].reusable
             /\ invites'[c].expires = invites[c].expires
             /\ invites[c].uses \in Nat /\ invites'[c].uses \in Nat
             /\ invites[c].uses <= invites'[c].uses
  BY <1>0, <1>1
<1>2. ASSUME NEW by \in Keys, NEW d \in Codes, NEW tags \in InviteTags, CreateInvite(by, d, tags)
      PROVE  invites'[c] = invites[c]
  BY <1>2 DEF CreateInvite, TypeOK
<1>3. ASSUME NEW by \in Keys, NEW d \in Codes, DeleteInvite(by, d)
      PROVE  invites'[c] = invites[c]
  BY <1>3 DEF DeleteInvite, TypeOK
<1>4. ASSUME NEW k \in Keys, NEW d \in Codes \cup {NoCode}, JoinInvited(k, d)
      PROVE  /\ invites'[c].maxUses = invites[c].maxUses
             /\ invites'[c].reusable = invites[c].reusable
             /\ invites'[c].expires = invites[c].expires
             /\ invites[c].uses \in Nat /\ invites'[c].uses \in Nat
             /\ invites[c].uses <= invites'[c].uses
  <2>1. CASE d = c
    <3>1. invites'[c] = [invites[c] EXCEPT !.uses = @ + 1]
      BY <1>4, <2>1 DEF JoinInvited, TypeOK
    <3>2. QED BY <1>0, <3>1 DEF Invite
  <2>2. CASE d # c
    <3>1. invites'[c] = invites[c]
      BY <1>4, <2>2 DEF JoinInvited, TypeOK
    <3>2. QED BY <1>1, <3>1
  <2>3. QED BY <2>1, <2>2
<1>5. CASE Restart
  <2>1. sInvites[c] # None /\ invites'[c] = ReloadedInvite(c)
    BY <1>5 DEF Restart, UsesRecorded
  <2>2. QED BY <1>0, <2>1, ReloadedFromRecord, RecordIsFinite DEF UsesRecorded
<1>6. QED
  BY <1>1, <1>2, <1>3, <1>4, <1>5
  DEF Handled, PutUsers, SetRoles, RemoveUsers, EditMetadata, DeleteJoinEvent, Leave, Post,
      ConsoleRemove, JoinOpen, JoinPending, Tick, live

\* A spent invite stays spent across restarts (load_join_request_from_event counts
\* its uses from the stored 9021s), if no join request is deleted and the console
\* removes nobody: each of the two loses a use that memory remembers.
THEOREM SpentForGood ==
    ASSUME "console" \notin Ops, "delete_join" \notin Ops
    PROVE  Spec => SpentInvitesStaySpent
<1>1. TypeOK /\ UsesRecorded /\ [Next]_vars =>
          [\A c \in Codes : invites[c] # None /\ invites'[c] # None /\ ~Grandfathered(c)
                              /\ Spent(invites[c]) => Spent(invites'[c])]_vars
  <2> SUFFICES ASSUME TypeOK, UsesRecorded, Handled,
                      NEW c \in Codes, invites[c] # None, invites'[c] # None,
                      ~Grandfathered(c), Spent(invites[c])
               PROVE  Spent(invites'[c])
    BY NextIsHandled
  <2>1. /\ invites'[c].maxUses = invites[c].maxUses
        /\ invites'[c].reusable = invites[c].reusable
        /\ invites[c].uses \in Nat /\ invites'[c].uses \in Nat
        /\ invites[c].uses <= invites'[c].uses
    BY HandlersKeepInvites
  <2>2. invites[c].maxUses \in Option(Nat)
    BY DEF TypeOK, Option, Invite
  <2>3. QED BY <2>1, <2>2 DEF Spent, Option
<1>2. QED BY <1>1, GroupTypes, UsesAreRecorded, PTL DEF Spec, SpentInvitesStaySpent

\* An invite keeps its expiry and its ceiling across restarts (apply_invite_limits
\* rebuilds both from the stored 9009), under the same assumptions.
THEOREM LimitsAreKept ==
    ASSUME "console" \notin Ops, "delete_join" \notin Ops
    PROVE  Spec => LimitsSurvive
<1>1. TypeOK /\ UsesRecorded /\ [Next]_vars =>
          [\A c \in Codes : invites[c] # None /\ invites'[c] # None /\ ~Grandfathered(c) =>
               /\ invites'[c].expires = invites[c].expires
               /\ invites'[c].maxUses = invites[c].maxUses]_vars
  <2> SUFFICES ASSUME TypeOK, UsesRecorded, Handled,
                      NEW c \in Codes, invites[c] # None, invites'[c] # None,
                      ~Grandfathered(c)
               PROVE  /\ invites'[c].expires = invites[c].expires
                      /\ invites'[c].maxUses = invites[c].maxUses
    BY NextIsHandled
  <2>1. QED BY HandlersKeepInvites
<1>2. QED BY <1>1, GroupTypes, UsesAreRecorded, PTL DEF Spec, LimitsSurvive
-----------------------------------------------------------------------------
(* Access flags. *)

\* Whatever tags a metadata edit (9002) carries, it takes no access flag down but by the
\* tag that names it (apply_tags).
THEOREM EditsLowerExplicitly == Spec => LoweredOnlyExplicitly
<1>1. TypeOK =>
          [\A tags \in EditTags :
               (\E by \in Keys : EditMetadata(by, tags)) /\ ~ForcePublic =>
                   /\ flags.restricted /\ ~flags'.restricted => "open" \in tags
                   /\ flags.closed /\ ~flags'.closed => "open" \in tags
                   /\ flags.hidden /\ ~flags'.hidden => "public" \in tags
                   /\ flags.private /\ ~flags'.private => "public" \in tags]_vars
  <2> SUFFICES ASSUME TypeOK, NEW tags \in EditTags, NEW by \in Keys, EditMetadata(by, tags),
                      ~ForcePublic
               PROVE  /\ flags.restricted /\ ~flags'.restricted => "open" \in tags
                      /\ flags.closed /\ ~flags'.closed => "open" \in tags
                      /\ flags.hidden /\ ~flags'.hidden => "public" \in tags
                      /\ flags.private /\ ~flags'.private => "public" \in tags
    OBVIOUS
  <2>1. flags' = ApplyTags(flags, tags)
    BY DEF EditMetadata, Coerced
  <2>2. QED BY <2>1 DEF ApplyTags, Switch
<1>2. QED BY <1>1, GroupTypes, PTL DEF Spec, LoweredOnlyExplicitly

\* The flags in memory are those of the stored 39000, or what a restart made of it.
FlagsOnRecord == flags = sFlags \/ \E first \in BOOLEAN : flags = Reloaded(sFlags, first)

\* A restart that applies the stored tags, once or twice, to a new group raises
\* what the 39000 says, and the second application lowers nothing of the four flags.
LEMMA ReplayRaises ==
    ASSUME ~ForcePublic, NEW f \in Flags, NEW first \in BOOLEAN, NEW second \in BOOLEAN,
           NEW flag \in {"private", "closed", "hidden", "restricted"}
    PROVE  /\ f[flag] => Reloaded(f, first)[flag]
           /\ Reloaded(f, first)[flag] => Reloaded(f, second)[flag]
<1> DEFINE tags == PublishedTags(f)
           once == ApplyTags(NewFlags, tags)
           twice == ApplyTags(once, tags)
<1>1. /\ "private" \in tags <=> f.private
      /\ "public" \in tags <=> ~f.private
      /\ "closed" \in tags <=> f.closed
      /\ "open" \in tags <=> ~f.closed
      /\ "hidden" \in tags <=> f.hidden
      /\ "restricted" \in tags <=> f.restricted
      /\ tags \cap {"private", "public"} # {}
  BY DEF PublishedTags
<1> HIDE DEF tags
<1>2. /\ once.private <=> f.private
      /\ once.closed <=> f.closed
      /\ once.hidden <=> f.hidden \/ (f.private /\ ~f.restricted)
      /\ once.restricted <=> f.restricted \/ f.closed
  BY <1>1 DEF ApplyTags, Switch, NewFlags
<1> HIDE DEF once
<1>3. /\ twice.private <=> f.private
      /\ twice.closed <=> f.closed
      /\ twice.hidden <=> f.hidden \/ (f.private /\ ~f.restricted)
      /\ twice.restricted <=> f.restricted \/ f.closed
  BY <1>1, <1>2 DEF ApplyTags, Switch
<1> HIDE DEF twice
<1>4. \A b \in BOOLEAN : Reloaded(f, b) = IF b THEN twice ELSE once
  BY DEF Reloaded, Coerced, tags, once, twice
<1>5. CASE flag = "private"
  BY <1>2, <1>3, <1>4, <1>5
<1>6. CASE flag = "closed"
  BY <1>2, <1>3, <1>4, <1>6
<1>7. CASE flag = "hidden"
  BY <1>2, <1>3, <1>4, <1>7
<1>8. CASE flag = "restricted"
  BY <1>2, <1>3, <1>4, <1>8
<1>9. QED BY <1>5, <1>6, <1>7, <1>8

\* No restart lowers an access flag, under every operation: replaying the tags of the
\* stored 39000 may raise some, and replaying them again raises the same.
THEOREM RestartsNeverOpen == Spec => RestartNeverOpens
<1>1. Init => FlagsOnRecord
  BY DEF Init, FlagsOnRecord
<1>2. FlagsOnRecord /\ [Next]_vars => FlagsOnRecord'
  <2> SUFFICES ASSUME FlagsOnRecord, [Next]_vars PROVE FlagsOnRecord'
    OBVIOUS
  <2>a. ASSUME UNCHANGED <<flags, sFlags>> PROVE FlagsOnRecord'
    BY <2>a DEF FlagsOnRecord
  <2>b. ASSUME NEW by \in Keys, NEW tags \in EditTags, EditMetadata(by, tags) PROVE FlagsOnRecord'
    BY <2>b DEF EditMetadata, FlagsOnRecord
  <2>c. CASE Restart
    <3>1. PICK first \in BOOLEAN : flags' = Reloaded(sFlags, first)
      BY <2>c DEF Restart
    <3>2. sFlags' = sFlags
      BY <2>c DEF Restart, database
    <3>3. QED BY <3>1, <3>2 DEF FlagsOnRecord
  <2>d. CASE Handled
    BY <2>d, <2>a, <2>b, <2>c
    DEF Handled, PutUsers, SetRoles, RemoveUsers, CreateInvite, DeleteInvite, DeleteJoinEvent,
        Leave, Post, ConsoleRemove, JoinOpen, JoinInvited, JoinPending, Tick, live, database
  <2>e. QED BY <2>a, <2>d, NextIsHandled DEF vars, live, database
<1>3. TypeOK /\ FlagsOnRecord =>
          [Restart /\ ~ForcePublic =>
              \A f \in {"private", "closed", "hidden", "restricted"} : flags[f] => flags'[f]]_vars
  <2> SUFFICES ASSUME TypeOK, FlagsOnRecord, Restart, ~ForcePublic,
                      NEW f \in {"private", "closed", "hidden", "restricted"}, flags[f]
               PROVE  flags'[f]
    OBVIOUS
  <2>1. PICK second \in BOOLEAN : flags' = Reloaded(sFlags, second)
    BY DEF Restart
  <2>2. sFlags \in Flags
    BY DEF TypeOK
  <2>3. CASE flags = sFlags
    BY <2>1, <2>2, <2>3, ReplayRaises
  <2>4. CASE \E first \in BOOLEAN : flags = Reloaded(sFlags, first)
    BY <2>1, <2>2, <2>4, ReplayRaises
  <2>5. QED BY <2>3, <2>4 DEF FlagsOnRecord
<1>4. QED BY <1>1, <1>2, <1>3, GroupTypes, PTL DEF Spec, RestartNeverOpens

-----------------------------------------------------------------------------
(* Ways up, and those who wait. *)

\* While the relay runs no invite hands out the admin role.
NoAdminInvites == \A c \in Codes : invites[c] # None => "admin" \notin invites[c].roles

LEMMA NoAdminInvitesHolds ==
    ASSUME "restart" \notin Ops
    PROVE  Spec => []NoAdminInvites
<1>1. Init => NoAdminInvites
  BY DEF Init, NoAdminInvites
<1>2. TypeOK /\ NoAdminInvites /\ [Next]_vars => NoAdminInvites'
  <2> SUFFICES ASSUME TypeOK, NoAdminInvites, [Next]_vars PROVE NoAdminInvites'
    OBVIOUS
  <2>a. ASSUME NEW by \in Keys, NEW c \in Codes, NEW tags \in InviteTags, CreateInvite(by, c, tags)
        PROVE  NoAdminInvites'
    <3> DEFINE made == LimitedInvite(tags, {"member"}, now, TRUE)
    <3>1. made.roles = {"member"}
      BY DEF LimitedInvite
    <3>2. \A d \in Codes : invites'[d] = invites[d] \/ invites'[d] = made
      BY <2>a DEF CreateInvite, TypeOK
    <3> HIDE DEF made
    <3>3. QED BY <3>1, <3>2 DEF NoAdminInvites
  <2>b. ASSUME NEW by \in Keys, NEW c \in Codes, DeleteInvite(by, c) PROVE NoAdminInvites'
    BY <2>b DEF DeleteInvite, TypeOK, NoAdminInvites
  <2>c. ASSUME NEW k \in Keys, NEW c, JoinInvited(k, c) PROVE NoAdminInvites'
    <3>1. c \in Codes /\ invites[c] \in Invite
      BY <2>c DEF JoinInvited, CanUse, TypeOK, Option
    <3>2. invites'[c].roles = invites[c].roles /\ \A d \in Codes \ {c} : invites'[d] = invites[d]
      BY <2>c, <3>1 DEF JoinInvited, TypeOK, Invite
    <3>3. invites[c] # None
      BY <3>1
    <3>4. QED BY <3>1, <3>2, <3>3 DEF NoAdminInvites
  <2>d. ASSUME UNCHANGED invites PROVE NoAdminInvites'
    BY <2>d DEF NoAdminInvites
  <2>e. CASE Handled
    BY <2>e, <2>a, <2>b, <2>c, <2>d
    DEF Handled, PutUsers, SetRoles, RemoveUsers, EditMetadata, DeleteJoinEvent, Leave, Post,
        ConsoleRemove, JoinOpen, JoinPending, Tick, Restart, live
  <2>f. QED BY <2>d, <2>e, NextIsHandled DEF vars, live
<1>3. QED BY <1>1, <1>2, GroupTypes, PTL DEF Spec

\* While the relay runs, the one way to become an admin is a list that an admin or the
\* relay signed: joining, with whatever invite, posting and leaving promote nobody.
THEOREM ListsPromoteOnly ==
    ASSUME "restart" \notin Ops
    PROVE  Spec => PromotedByListsOnly
<1> DEFINE Up == \E k \in Keys : ~IsAdmin(k) /\ IsAdmin(k)'
           Listed == \E by \in Keys, tags \in PutLists : PutUsers(by, tags) \/ SetRoles(by, tags)
<1>1. TypeOK /\ NoAdminInvites /\ [Next]_vars => [Up => Listed]_vars
  <2> SUFFICES ASSUME TypeOK, NoAdminInvites, Handled, ~Listed PROVE ~Up
    BY NextIsHandled
  <2>a. ASSUME UNCHANGED members PROVE ~Up
    BY <2>a DEF IsAdmin, HasRole
  <2>b. ASSUME NEW k \in Keys, NEW roles, "admin" \notin roles,
               members' = [members EXCEPT ![k] = roles]
        PROVE  ~Up
    BY <2>b DEF IsAdmin, HasRole, TypeOK
  <2>c. ASSUME NEW k \in Keys, members' = [members EXCEPT ![k] = None] PROVE ~Up
    BY <2>c DEF IsAdmin, HasRole, TypeOK
  <2>d. ASSUME NEW by \in Keys, NEW gone \in RemoveSets, RemoveUsers(by, gone) PROVE ~Up
    BY <2>d DEF RemoveUsers, IsAdmin, HasRole
  <2>e. ASSUME NEW k \in Keys, Leave(k) PROVE ~Up
    <3>1. UNCHANGED members \/ members' = [members EXCEPT ![k] = None]
      BY <2>e DEF Leave
    <3>2. QED BY <2>a, <2>c, <3>1
  <2>f. ASSUME NEW k \in Keys, NEW c, JoinInvited(k, c) PROVE ~Up
    <3>1. c \in Codes /\ invites[c] # None /\ members' = [members EXCEPT ![k] = invites[c].roles]
      BY <2>f DEF JoinInvited, CanUse, Admit
    <3>2. "admin" \notin invites[c].roles
      BY <3>1 DEF NoAdminInvites
    <3>3. QED BY <2>b, <3>1, <3>2
  <2>g. ASSUME NEW k \in Keys, NEW c, JoinOpen(k, c) \/ Post(k) PROVE ~Up
    <3>1. members' = [members EXCEPT ![k] = {"member"}]
      BY <2>g DEF JoinOpen, Post, Admit
    <3>2. "admin" \notin {"member"}
      OBVIOUS
    <3>3. QED BY <2>b, <3>1, <3>2
  <2>h. ASSUME NEW k \in Keys, ConsoleRemove(k) PROVE ~Up
    BY <2>c, <2>h DEF ConsoleRemove
  <2> HIDE DEF Up
  <2>i. QED
    BY <2>a, <2>d, <2>e, <2>f, <2>g, <2>h
    DEF Handled, EditMetadata, CreateInvite, DeleteInvite, DeleteJoinEvent, JoinPending,
        Tick, Restart, live
<1>2. QED BY <1>1, NoAdminInvitesHolds, GroupTypes, PTL DEF Spec, PromotedByListsOnly

\* Whoever waits has a 9021 on record.
WaitingOnRecord == \A k \in joinRequests : \E e \in sJoins : e.pk = k

LEMMA WaitingIsRecorded ==
    ASSUME "delete_join" \notin Ops
    PROVE  Spec => []WaitingOnRecord
<1>1. Init => WaitingOnRecord
  BY DEF Init, WaitingOnRecord
<1>2. TypeOK /\ WaitingOnRecord /\ [Next]_vars => WaitingOnRecord'
  <2> SUFFICES ASSUME TypeOK, WaitingOnRecord, [Next]_vars PROVE WaitingOnRecord'
    OBVIOUS
  <2>a. ASSUME joinRequests' \subseteq joinRequests, sJoins \subseteq sJoins' PROVE WaitingOnRecord'
    BY <2>a DEF WaitingOnRecord
  <2>b. ASSUME NEW k \in Keys, NEW c \in Codes \cup {NoCode}, JoinPending(k, c) PROVE WaitingOnRecord'
    <3>1. PICK e \in JoinEvent : e.pk = k /\ sJoins' = sJoins \cup {e}
      BY <2>b, JoinEventSaved DEF JoinPending
    <3>2. joinRequests' = joinRequests \cup {k}
      BY <2>b DEF JoinPending
    <3>3. QED BY <3>1, <3>2 DEF WaitingOnRecord
  <2>c. ASSUME NEW k \in Keys, NEW c \in Codes \cup {NoCode}, NEW roles, Admit(k, c, roles)
        PROVE  WaitingOnRecord'
    <3>1. sJoins \subseteq sJoins'
      BY <2>c DEF Admit, SaveJoinEvent
    <3>2. QED BY <2>a, <2>c, <3>1 DEF Admit
  <2>d. CASE Restart
    BY <2>d DEF Restart, WaitingOnRecord, database
  <2>e. ASSUME NEW k \in Keys, Leave(k) PROVE WaitingOnRecord'
    BY <2>a, <2>e DEF Leave
  <2>f. CASE Handled
    <3>1. ASSUME NEW k \in Keys, NEW c \in Codes \cup {NoCode}, JoinOpen(k, c) \/ JoinInvited(k, c)
          PROVE  WaitingOnRecord'
      BY <2>c, <3>1 DEF JoinOpen, JoinInvited
    <3>2. QED
      BY <2>f, <2>a, <2>b, <2>d, <2>e, <3>1
      DEF Handled, PutUsers, SetRoles, RemoveUsers, EditMetadata, CreateInvite, DeleteInvite,
          DeleteJoinEvent, Post, ConsoleRemove, Tick, live, database
  <2>g. QED BY <2>a, <2>f, NextIsHandled DEF vars, live, database
<1>3. QED BY <1>1, <1>2, GroupTypes, PTL DEF Spec

\* A restart forgets nobody who waits, as long as no 9021 is deleted and memory and the
\* stored lists name the same people: it takes from the requests those the lists name.
THEOREM WaitingIsKept ==
    ASSUME "console" \notin Ops, "roles" \notin Ops, "delete_join" \notin Ops
    PROVE  Spec => PendingKept
<1>1. TypeOK /\ NoMemberAwaitsApproval /\ RebuildsMembership /\ WaitingOnRecord =>
          [Restart => joinRequests \subseteq joinRequests']_vars
  <2> SUFFICES ASSUME TypeOK, NoMemberAwaitsApproval, RebuildsMembership, WaitingOnRecord, Restart,
                      NEW k \in joinRequests
               PROVE  k \in joinRequests'
    OBVIOUS
  <2>1. k \in Keys /\ ~IsMember(k)
    BY DEF NoMemberAwaitsApproval, TypeOK
  <2>2. k \notin sAdmins \cup sMembers
    BY <2>1 DEF RebuildsMembership, MemberSet, AdminSet, AdminsIn, HasRole, IsMember
  <2>3. ReloadedRoles(k) = None
    BY <2>2 DEF ReloadedRoles
  <2>4. PICK e \in sJoins : e.pk = k
    BY DEF WaitingOnRecord
  <2>5. QED BY <2>3, <2>4 DEF Restart
<1>2. QED
  BY <1>1, GroupTypes, MembersDoNotWait, StoredMembershipIsCurrent, WaitingIsRecorded, PTL
  DEF PendingKept
=============================================================================
