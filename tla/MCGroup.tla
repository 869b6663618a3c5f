------------------------------ MODULE MCGroup ------------------------------
(* Small instances of Group: its creator, two other keys and one invite. *)
EXTENDS Group, TLC

CONSTANTS creator, alice, bob, relay, c1

Put(k, role) == [pk |-> k, roles |-> {role}]

MCKeys == {creator, alice, relay}

MCCodes == {c1}

\* Promotions, demotions, additions, and lists whose order matters.
MCPutLists ==
    {<<Put(k, r)>> : k \in MCKeys \ {relay}, r \in Roles} \cup
    {<<Put(creator, r), Put(alice, s)>> : r, s \in Roles} \cup
    {<<Put(alice, "admin"), Put(creator, "member")>>,
     <<Put(alice, "member"), Put(alice, "admin")>>}
MCFewLists == {<<Put(alice, "admin")>>, <<Put(alice, "member"), Put(creator, "member")>>}
MCAliceLists == {<<Put(alice, "member")>>}
MCRemoveSets == {{creator}, {alice}, {creator, alice}}

MCCreateTags == {{}, {"public", "open"}, {"private", "open"}}
MCPrivateTags == {{"private", "open"}}
MCEditTags == {{"private"}, {"public"}, {"open"}, {"closed"}, {"hidden"}, {"restricted"},
               {"private", "open"}, {"public", "open"}, {"public", "closed"},
               {"private", "restricted"}}
MCSwitchTags == {{"public", "open"}, {"closed"}}

Limits(reusable, uses, expires, roles) ==
    [reusable |-> reusable, maxUses |-> uses, expires |-> expires, roles |-> roles]
MCInviteTags == {Limits(TRUE, 1, None, {}), Limits(FALSE, None, 0, {"admin"})}

=============================================================================
