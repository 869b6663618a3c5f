------------------------------- MODULE Group -------------------------------
(***************************************************************************)
(* One managed NIP-29 group (src/src/group.rs): who is in it and in which  *)
(* role, who waits to be let in, its invites and its access flags, as the  *)
(* handlers of src/src/groups.rs change them, and what the relay rebuilds  *)
(* of it from stored events when it starts again.                          *)
(*                                                                         *)
(* A handler holds the group's DashMap entry for its whole run, so it is   *)
(* one action.  The events it saves are applied with it; that they reach   *)
(* the database later is left to a module of its own.  Kind 9000 put-user  *)
(* events, timestamps and display metadata are never read back and left    *)
(* out; a refused event changes nothing and is not a step.                 *)
(***************************************************************************)
EXTENDS Integers, Sequences, FiniteSets

CONSTANTS
    Keys,           \* public keys, the relay's own among them
    Relay,          \* the relay's key
    Creator,        \* who signed the group's 9007
    Participants,   \* who posted under the group's id before the relay managed it
    Codes,          \* invite codes
    NoCode,         \* a join request without a code
    None,           \* Rust's Option::None
    Ops,            \* the operations that occur
    CreateTags,     \* the access tags a 9007 may carry
    EditTags,       \* the access tags a 9002 may carry
    PutLists,       \* the p-tag lists of 9000 and 9006 events
    RemoveSets,     \* the keys a 9001 may name
    InviteTags,     \* the limits a 9009 may ask for
    DefaultTtl,     \* DEFAULT_INVITE_TTL_SECS
    DefaultMaxUses, \* DEFAULT_INVITE_MAX_USES
    LimitsSince,    \* INVITE_LIMITS_SINCE: the replay gives older invites no defaults
    ForcePublic,    \* the force_public_groups policy
    MaxTime,        \* bound: the clock stops here
    MaxJoins        \* bound: join requests on record per key and code

Roles == {"admin", "member"}
AccessTags == {"private", "public", "open", "closed", "hidden", "restricted",
               "broadcast", "nonbroadcast"}
Option(S) == {None} \cup S

PTag == [pk : Keys, roles : SUBSET Roles]
InviteTag == [reusable : BOOLEAN, maxUses : Option(Nat), expires : Option(Nat),
              roles : SUBSET Roles]
Flags == [private : BOOLEAN, closed : BOOLEAN, hidden : BOOLEAN,
          restricted : BOOLEAN, broadcast : BOOLEAN]
Invite == [roles : SUBSET Roles, reusable : BOOLEAN, maxUses : Option(Nat),
           expires : Option(Nat), uses : Nat]
StoredInvite == [tags : InviteTag, created : Nat]

\* The n-th 9021 a key published with a code.
JoinEvent == [pk : Keys, code : Codes \cup {NoCode}, n : Nat]

ASSUME KeysAssumption ==
    Relay \in Keys /\ Creator \in Keys /\ IsFiniteSet(Keys)
ASSUME ParticipantsAssumption ==
    Participants \subseteq Keys \ {Creator} /\ (Participants # {} => Creator = Relay)
ASSUME CodesAssumption == NoCode \notin Codes
ASSUME NoneAssumption ==
    (\A R \in SUBSET Roles : None # R) /\ None \notin Nat /\ None \notin Invite /\ None \notin StoredInvite
ASSUME TagsAssumption ==
    /\ CreateTags \subseteq SUBSET AccessTags /\ EditTags \subseteq SUBSET AccessTags
    /\ PutLists \subseteq Seq(PTag) /\ RemoveSets \subseteq SUBSET Keys
    /\ InviteTags \subseteq InviteTag
ASSUME LimitsAssumption == DefaultTtl \in Nat /\ DefaultMaxUses \in Nat \ {0}
                            /\ LimitsSince \in Nat /\ ForcePublic \in BOOLEAN
ASSUME BoundsAssumption == MaxTime \in Nat /\ MaxJoins \in Nat

VARIABLES
    members,        \* Group::members: the roles of each member, None for the rest
    joinRequests,   \* Group::join_requests
    invites,        \* Group::invites
    flags,          \* the access flags of Group::metadata
    now,            \* the clock
    sFlags,         \* the flags the stored 39000 publishes
    sAdmins,        \* the keys of the stored 39001
    sMembers,       \* the keys of the stored 39002
    sInvites,       \* the stored 9009 of each code
    sJoins          \* the stored 9021s

live == <<members, joinRequests, invites, flags>>
database == <<sFlags, sAdmins, sMembers, sInvites, sJoins>>
vars == <<live, now, database>>

MemberSet == {k \in Keys : members[k] # None}
IsMember(k) == members[k] # None
HasRole(ms, k, role) == ms[k] # None /\ role \in ms[k]
IsAdmin(k) == HasRole(members, k, "admin")
AdminsIn(ms) == {k \in Keys : HasRole(ms, k, "admin")}
AdminSet == AdminsIn(members)
HasAdmin == AdminSet # {}

\* can_edit_members, can_edit_metadata, can_create_invites and can_delete_event.
MayEdit(k) == k = Relay \/ IsAdmin(k)

\* verify_member_access.
MemberAccess(k) == ~flags.closed \/ IsMember(k)

\* find_group_from_event_mut: for all but those who ask to join or leave.
MayReach(k) == k = Relay \/ MemberAccess(k)

-----------------------------------------------------------------------------
(* Access flags. *)

NewFlags == [private |-> TRUE, closed |-> TRUE, hidden |-> FALSE,
             restricted |-> TRUE, broadcast |-> FALSE]

\* A pair of opposite tags: the one present decides.  (Both at once: the last
\* one wins in the code; the inputs never hold both.)
Switch(tags, on, off, old) == on \in tags \/ (old /\ off \notin tags)

\* Mutant: an edit lowers a flag it does not mention.
ApplyTagsAfresh(f, tags) ==
    LET private == Switch(tags, "private", "public", f.private)
        accessUpdated == tags \cap {"private", "public"} # {}
    IN  [private |-> private,
         closed |-> Switch(tags, "closed", "open", f.closed),
         broadcast |-> Switch(tags, "broadcast", "nonbroadcast", f.broadcast),
         hidden |-> "hidden" \in tags \/ (~accessUpdated /\ f.hidden),
         restricted |-> "restricted" \in tags \/ (~accessUpdated /\ f.restricted)]

\* GroupMetadata::apply_tags.
ApplyTags(f, tags) ==
    LET private == Switch(tags, "private", "public", f.private)
        accessUpdated == tags \cap {"private", "public"} # {}
    IN  [private |-> private,
         closed |-> Switch(tags, "closed", "open", f.closed),
         broadcast |-> Switch(tags, "broadcast", "nonbroadcast", f.broadcast),
         hidden |-> \/ "hidden" \in tags
                    \/ accessUpdated /\ private /\ "restricted" \notin tags
                    \/ f.hidden /\ "public" \notin tags,
         restricted |-> \/ "restricted" \in tags
                        \/ accessUpdated /\ "closed" \in tags /\ "open" \notin tags
                        \/ f.restricted /\ ~(accessUpdated /\ "open" \in tags)]

\* The force_public_groups policy.
Coerced(f) == IF ForcePublic THEN [f EXCEPT !.private = FALSE, !.hidden = FALSE] ELSE f

\* Mutant: the 39000 does not carry the newer flags.
PublishedLegacyTags(f) ==
    {IF f.private THEN "private" ELSE "public",
     IF f.closed THEN "closed" ELSE "open",
     IF f.broadcast THEN "broadcast" ELSE "nonbroadcast"}

\* generate_metadata_event: the access tags of the 39000.
PublishedTags(f) ==
    {IF f.private THEN "private" ELSE "public",
     IF f.closed THEN "closed" ELSE "open",
     IF f.broadcast THEN "broadcast" ELSE "nonbroadcast"}
    \cup (IF f.hidden THEN {"hidden"} ELSE {})
    \cup (IF f.restricted THEN {"restricted"} ELSE {})

\* Loading a 39000: its tags are applied to a new group, and once more if it is
\* the event that made load_groups create the group.
Reloaded(f, first) ==
    LET once == ApplyTags(NewFlags, PublishedTags(f))
    IN  Coerced(IF first THEN ApplyTags(once, PublishedTags(f)) ELSE once)

-----------------------------------------------------------------------------
(* Membership changes. *)

\* The j-th tag is the last one among the first i that names k.
Decides(tags, i, k, j) ==
    j \in 1..i /\ tags[j].pk = k /\ \A m \in (j + 1)..i : tags[m].pk # k

\* The roles of k once the first i tags of a list are applied.
RolesAfter(tags, i, k) ==
    IF \E j \in 1..i : tags[j].pk = k
    THEN UNION {tags[j].roles : j \in {m \in 1..i : Decides(tags, i, k, m)}}
    ELSE members[k]

MembersAfter(tags, i) == [k \in Keys |-> RolesAfter(tags, i, k)]

\* add_members refuses a tag that takes the admin role from the one admin left
\* by the tags before it.
UnsetsLastAdmin(tags) ==
    \E i \in 1..Len(tags) :
        /\ AdminsIn(MembersAfter(tags, i - 1)) = {tags[i].pk}
        /\ "admin" \notin tags[i].roles

KeysNamed(tags) == {tags[i].pk : i \in 1..Len(tags)}

\* generate_admins_event and generate_members_event, saved.
SaveAdmins == sAdmins' = AdminsIn(members')
SaveMembers == sMembers' = {k \in Keys : members'[k] # None}

\* Mutant: a key put into the group keeps its request to join.
PutUsersOnly(by, tags) ==
    /\ "put" \in Ops
    /\ MayReach(by) /\ MayEdit(by)
    /\ ~UnsetsLastAdmin(tags)
    /\ members' = MembersAfter(tags, Len(tags))
    /\ AdminsIn(members') # {}
    /\ SaveAdmins /\ SaveMembers
    /\ UNCHANGED <<joinRequests, invites, flags, now, sFlags, sInvites, sJoins>>

\* add_members_from_event (9000).
PutUsers(by, tags) ==
    /\ "put" \in Ops
    /\ MayReach(by) /\ MayEdit(by)
    /\ ~UnsetsLastAdmin(tags)
    /\ members' = MembersAfter(tags, Len(tags))
    /\ AdminsIn(members') # {}
    /\ joinRequests' = joinRequests \ KeysNamed(tags)
    /\ SaveAdmins /\ SaveMembers
    /\ UNCHANGED <<invites, flags, now, sFlags, sInvites, sJoins>>

\* Mutant: only the sole admin is protected, not the last two together.
RemoveUsersOneByOne(by, gone) ==
    /\ "remove" \in Ops
    /\ MayReach(by) /\ MayEdit(by)
    /\ \A k \in gone : AdminSet # {k}
    /\ members' = [k \in Keys |-> IF k \in gone THEN None ELSE members[k]]
    /\ joinRequests' = joinRequests \ (gone \cap MemberSet)
    /\ IF gone \cap AdminSet # {} THEN SaveAdmins ELSE sAdmins' = sAdmins
    /\ SaveMembers
    /\ UNCHANGED <<invites, flags, now, sFlags, sInvites, sJoins>>

\* remove_members (9001): the sole admin is refused wherever the list names it,
\* the admins all together at the end.
RemoveUsers(by, gone) ==
    /\ "remove" \in Ops
    /\ MayReach(by) /\ MayEdit(by)
    /\ \A k \in gone : AdminSet # {k}
    /\ members' = [k \in Keys |-> IF k \in gone THEN None ELSE members[k]]
    /\ AdminsIn(members') # {}
    /\ joinRequests' = joinRequests \ (gone \cap MemberSet)
    /\ IF gone \cap AdminSet # {} THEN SaveAdmins ELSE sAdmins' = sAdmins
    /\ SaveMembers
    /\ UNCHANGED <<invites, flags, now, sFlags, sInvites, sJoins>>

\* set_roles (9006): saves the 39002 and the 39003, not the 39001.
SetRoles(by, tags) ==
    /\ "roles" \in Ops
    /\ MayReach(by) /\ MayEdit(by)
    /\ \A i \in 1..Len(tags) : AdminSet = {tags[i].pk} => "admin" \in tags[i].roles
    /\ members' = [k \in Keys |->
            IF IsMember(k) THEN RolesAfter(tags, Len(tags), k) ELSE None]
    /\ AdminsIn(members') # {}
    /\ SaveMembers
    /\ UNCHANGED <<joinRequests, invites, flags, now, sFlags, sAdmins, sInvites, sJoins>>

\* Mutant: an admin who leaves stays on the stored list of admins.
LeaveSavingMembers(k) ==
    /\ "leave" \in Ops
    /\ AdminSet # {k} /\ IsMember(k)
    /\ joinRequests' = joinRequests \ {k}
    /\ members' = [members EXCEPT ![k] = None]
    /\ SaveMembers
    /\ UNCHANGED <<invites, flags, now, sFlags, sAdmins, sInvites, sJoins>>

\* leave_request (9022): a request to join is withdrawn even if the leave is refused.
Leave(k) ==
    /\ "leave" \in Ops
    /\ joinRequests' = joinRequests \ {k}
    /\ IF AdminSet = {k} \/ ~IsMember(k)
       THEN UNCHANGED <<members, sAdmins, sMembers>>
       ELSE /\ members' = [members EXCEPT ![k] = None]
            /\ IF IsAdmin(k) THEN SaveAdmins ELSE sAdmins' = sAdmins
            /\ SaveMembers
    /\ UNCHANGED <<invites, flags, now, sFlags, sInvites, sJoins>>

\* admin_remove_group_member: the console edits the map and saves nothing.
ConsoleRemove(k) ==
    /\ "console" \in Ops
    /\ IsMember(k)
    /\ members' = [members EXCEPT ![k] = None]
    /\ UNCHANGED <<joinRequests, invites, flags, now, database>>

-----------------------------------------------------------------------------
(* Metadata, invites and join requests. *)

\* handle_edit_metadata (9002).
EditMetadata(by, tags) ==
    /\ "edit" \in Ops
    /\ MayReach(by) /\ MayEdit(by)
    /\ flags' = Coerced(ApplyTags(flags, tags))
    /\ sFlags' = flags'
    /\ UNCHANGED <<members, joinRequests, invites, now, sAdmins, sMembers, sInvites, sJoins>>

\* Mutant: an invite hands out whatever roles its event asks for.
InviteWithAskedRoles(tags, roles, created, defaults) ==
    [roles |-> tags.roles, reusable |-> tags.reusable, expires |-> tags.expires,
     maxUses |-> tags.maxUses, uses |-> 0]

\* apply_invite_limits: what the tags say, and the defaults where they are silent.
LimitedInvite(tags, roles, created, defaults) ==
    [roles |-> roles,
     reusable |-> tags.reusable,
     expires |-> IF tags.expires = None /\ defaults THEN created + DefaultTtl ELSE tags.expires,
     maxUses |-> CASE ~tags.reusable              -> None
                   [] tags.reusable /\ tags.maxUses \in {None, 0} ->
                          IF defaults THEN DefaultMaxUses ELSE None
                   [] OTHER                       -> tags.maxUses,
     uses |-> 0]

\* create_invite (9009).
CreateInvite(by, c, tags) ==
    /\ "invite" \in Ops
    /\ MayReach(by) /\ MayEdit(by)
    /\ invites[c] = None
    /\ invites' = [invites EXCEPT ![c] = LimitedInvite(tags, {"member"}, now, TRUE)]
    /\ sInvites' = [sInvites EXCEPT ![c] = [tags |-> tags, created |-> now]]
    /\ UNCHANGED <<members, joinRequests, flags, now, sFlags, sAdmins, sMembers, sJoins>>

Expired(i) == i.expires # None /\ now > i.expires

\* Mutant: off by one at the ceiling.
SpentOneLate(i) == \/ i.maxUses # None /\ i.uses > i.maxUses
                   \/ ~i.reusable /\ i.uses > 1

\* A use ceiling reached, or a single use spent.
Spent(i) == \/ i.maxUses # None /\ i.uses >= i.maxUses
            \/ ~i.reusable /\ i.uses > 0

\* Invite::can_use.
CanUse(c) == c \in Codes /\ invites[c] # None /\ ~Expired(invites[c]) /\ ~Spent(invites[c])

SaveJoinEvent(k, c) ==
    LET Fresh(n) == [pk |-> k, code |-> c, n |-> n] \notin sJoins
    IN  /\ \E n \in 1..MaxJoins : Fresh(n)
        /\ sJoins' = sJoins \cup {[pk |-> k, code |-> c,
                                  n |-> CHOOSE n \in 1..MaxJoins : Fresh(n)]}

\* A join succeeds in memory; with no admin left the 39001 cannot be generated,
\* the event is refused, and nothing of it is stored.
Admit(k, c, roles) ==
    /\ members' = [members EXCEPT ![k] = roles]
    /\ joinRequests' = joinRequests \ {k}
    /\ IF HasAdmin
       THEN SaveAdmins /\ SaveMembers /\ SaveJoinEvent(k, c)
       ELSE UNCHANGED <<sAdmins, sMembers, sJoins>>

\* join_request (9021) in an open group: the code is not looked at.
JoinOpen(k, c) ==
    /\ "join" \in Ops
    /\ ~IsMember(k) /\ ~flags.closed
    /\ Admit(k, c, {"member"})
    /\ UNCHANGED <<invites, flags, now, sFlags, sInvites>>

\* join_request with an invite that may be used: the use is counted first.
JoinInvited(k, c) ==
    /\ "join" \in Ops
    /\ ~IsMember(k) /\ flags.closed
    /\ CanUse(c)
    /\ invites' = [invites EXCEPT ![c].uses = @ + 1]
    /\ Admit(k, c, invites[c].roles)
    /\ UNCHANGED <<flags, now, sFlags, sInvites>>

\* Mutant: a refused request is not stored.
JoinPendingInMemory(k, c) ==
    /\ "join" \in Ops
    /\ ~IsMember(k) /\ flags.closed
    /\ ~CanUse(c)
    /\ joinRequests' = joinRequests \cup {k}
    /\ UNCHANGED <<members, invites, flags, now, database>>

\* join_request without a usable invite: the key waits.
JoinPending(k, c) ==
    /\ "join" \in Ops
    /\ ~IsMember(k) /\ flags.closed
    /\ ~CanUse(c)
    /\ joinRequests' = joinRequests \cup {k}
    /\ SaveJoinEvent(k, c)
    /\ UNCHANGED <<members, invites, flags, now, sFlags, sAdmins, sMembers, sInvites>>

\* handle_group_content: posting in an open, unrestricted group makes a member.
Post(k) ==
    /\ "post" \in Ops
    /\ MayReach(k)
    /\ ~IsMember(k) /\ ~flags.closed /\ ~flags.restricted /\ ~flags.broadcast
    /\ HasAdmin
    /\ members' = [members EXCEPT ![k] = {"member"}]
    /\ joinRequests' = joinRequests \ {k}
    /\ SaveAdmins /\ SaveMembers
    /\ UNCHANGED <<invites, flags, now, sFlags, sInvites, sJoins>>

\* delete_event_request (9005) of an invite's 9009 ...
DeleteInvite(by, c) ==
    /\ "delete_invite" \in Ops
    /\ MayReach(by) /\ MayEdit(by)
    /\ sInvites[c] # None
    /\ invites' = [invites EXCEPT ![c] = None]
    /\ sInvites' = [sInvites EXCEPT ![c] = None]
    /\ UNCHANGED <<members, joinRequests, flags, now, sFlags, sAdmins, sMembers, sJoins>>

\* ... and of a join request, which no handler's state follows.
DeleteJoinEvent(by, e) ==
    /\ "delete_join" \in Ops
    /\ MayReach(by) /\ MayEdit(by)
    /\ sJoins' = sJoins \ {e}
    /\ UNCHANGED <<live, now, sFlags, sAdmins, sMembers, sInvites>>

Tick ==
    /\ now < MaxTime
    /\ now' = now + 1
    /\ UNCHANGED <<live, database>>

-----------------------------------------------------------------------------
(* Startup: Groups::load_groups. *)

\* load_members_from_event, of the 39001 and the 39002 in either order.
ReloadedRoles(k) ==
    IF k \in sAdmins \cup sMembers
    THEN (IF k \in sAdmins THEN {"admin"} ELSE {}) \cup (IF k \in sMembers THEN {"member"} ELSE {})
    ELSE None

\* Mutant: the replay does not count uses.
ReloadedUnused(c) ==
    IF sInvites[c] = None THEN None
    ELSE LimitedInvite(sInvites[c].tags, sInvites[c].tags.roles, sInvites[c].created,
                       sInvites[c].created >= LimitsSince)

\* load_invite_from_event, then load_join_request_from_event for every 9021 that
\* names the code.
ReloadedInvite(c) ==
    IF sInvites[c] = None THEN None
    ELSE [LimitedInvite(sInvites[c].tags, sInvites[c].tags.roles, sInvites[c].created,
                       sInvites[c].created >= LimitsSince)
              EXCEPT !.uses = Cardinality({e \in sJoins : e.code = c})]

Restart ==
    /\ "restart" \in Ops
    /\ members' = [k \in Keys |-> ReloadedRoles(k)]
    /\ joinRequests' = {e.pk : e \in {j \in sJoins : ReloadedRoles(j.pk) = None}}
    /\ invites' = [c \in Codes |-> ReloadedInvite(c)]
    /\ \E first \in BOOLEAN : flags' = Reloaded(sFlags, first)
    /\ UNCHANGED <<now, database>>

-----------------------------------------------------------------------------

\* handle_group_create (9007): Group::new, the earlier participants as members,
\* and all state events saved.
Init ==
    /\ members = [k \in Keys |-> CASE k = Creator -> {"admin"}
                                   [] k \in Participants -> {"member"}
                                   [] OTHER -> None]
    /\ joinRequests = {}
    /\ invites = [c \in Codes |-> None]
    /\ \E tags \in CreateTags : flags = Coerced(ApplyTags(NewFlags, tags))
    /\ now = 0
    /\ sFlags = flags
    /\ sAdmins = {Creator}
    /\ sMembers = {Creator} \cup Participants
    /\ sInvites = [c \in Codes |-> None]
    /\ sJoins = {}

Next ==
    \/ \E by \in Keys :
          \/ \E tags \in PutLists : PutUsers(by, tags) \/ SetRoles(by, tags)
          \/ \E gone \in RemoveSets : RemoveUsers(by, gone)
          \/ \E tags \in EditTags : EditMetadata(by, tags)
          \/ \E c \in Codes, tags \in InviteTags : CreateInvite(by, c, tags)
          \/ \E c \in Codes : DeleteInvite(by, c)
          \/ \E e \in sJoins : DeleteJoinEvent(by, e)
    \/ \E k \in Keys :
          \/ Leave(k) \/ Post(k) \/ ConsoleRemove(k)
          \/ \E c \in Codes \cup {NoCode} : JoinOpen(k, c) \/ JoinInvited(k, c) \/ JoinPending(k, c)
    \/ Tick
    \/ Restart

Spec == Init /\ [][Next]_vars

-----------------------------------------------------------------------------
(* Properties. *)

\* Every variable keeps its type.
TypeOK ==
    /\ members \in [Keys -> Option(SUBSET Roles)]
    /\ joinRequests \in SUBSET Keys
    /\ invites \in [Codes -> Option(Invite)]
    /\ flags \in Flags /\ sFlags \in Flags
    /\ now \in Nat
    /\ sAdmins \in SUBSET Keys /\ sMembers \in SUBSET Keys
    /\ sInvites \in [Codes -> Option(StoredInvite)]
    /\ sJoins \in SUBSET JoinEvent /\ IsFiniteSet(sJoins)

\* A group always has an admin (group.rs): no list of removals, demotions or
\* additions, no leave and no restart takes the last one away.
AlwaysHasAdmin == HasAdmin

\* Nobody waits to be let into a group they are in: every way in takes the
\* request away, also when roles are replaced, a list is refused or a leave fails.
NoMemberAwaitsApproval == \A k \in joinRequests : ~IsMember(k)

\* An invite lets in no more people than it was made for, however the requests
\* arrive: max_uses for a reusable one, one for the others.
InvitesWithinLimits ==
    \A c \in Codes :
        LET i == invites[c]
        IN  i # None => /\ i.maxUses # None => i.uses <= i.maxUses
                        /\ ~i.reusable => i.uses <= 1

\* Nobody becomes an admin but by a list an admin or the relay signed: no request
\* to join, no leave, no post and no invite is a way up.
PromotedByListsOnly ==
    [][(\E k \in Keys : ~IsAdmin(k) /\ IsAdmin(k)') =>
           \E by \in Keys, tags \in PutLists : PutUsers(by, tags) \/ SetRoles(by, tags)]_vars

\* A metadata edit (9002) lowers an access flag only by the tag that says so: `open`
\* for restricted and closed, `public` for hidden and private.
LoweredOnlyExplicitly ==
    [][\A tags \in EditTags :
           (\E by \in Keys : EditMetadata(by, tags)) /\ ~ForcePublic =>
               /\ flags.restricted /\ ~flags'.restricted => "open" \in tags
               /\ flags.closed /\ ~flags'.closed => "open" \in tags
               /\ flags.hidden /\ ~flags'.hidden => "public" \in tags
               /\ flags.private /\ ~flags'.private => "public" \in tags]_vars

\* What is stored rebuilds who is in the group and who runs it (pruner.rs: the
\* group state events reconstitute membership and roles).
RebuildsMembership == sMembers = MemberSet /\ sAdmins = AdminSet

\* A restart lets nobody in and makes nobody an admin.
RestartAdmitsNobody ==
    [][Restart =>
           /\ \A k \in Keys : IsMember(k)' => IsMember(k)
           /\ \A k \in Keys : IsAdmin(k)' => IsAdmin(k)]_vars

\* The 9009 is dated before INVITE_LIMITS_SINCE: the replay gives the invite back
\* without the defaults (docs/known-issues.md, section 15).
Grandfathered(c) == sInvites[c] # None /\ sInvites[c].created < LimitsSince

\* An invite that is spent stays spent, across restarts too, until it is deleted,
\* unless it is grandfathered: the replay may count too many uses, never too few
\* (load_join_request_from_event).
SpentInvitesStaySpent ==
    [][\A c \in Codes : invites[c] # None /\ invites'[c] # None /\ ~Grandfathered(c)
                           /\ Spent(invites[c]) => Spent(invites'[c])]_vars

\* An invite that expires keeps its expiry, and one with a ceiling its ceiling,
\* across restarts, unless it is grandfathered.
LimitsSurvive ==
    [][\A c \in Codes : invites[c] # None /\ invites'[c] # None /\ ~Grandfathered(c) =>
           /\ invites'[c].expires = invites[c].expires
           /\ invites'[c].maxUses = invites[c].maxUses]_vars

\* A restart forgets nobody who waits to be let in.
PendingKept == [][Restart => joinRequests \subseteq joinRequests']_vars

\* A restart never opens a group up: no access flag is lower after it.
RestartNeverOpens ==
    [][Restart /\ ~ForcePublic =>
           \A f \in {"private", "closed", "hidden", "restricted"} : flags[f] => flags'[f]]_vars
=============================================================================
