\* Membership and invites across restarts.
CONSTANTS
    creator = creator
    alice = alice
    bob = bob
    relay = relay
    c1 = c1
    None = None
    NoCode = NoCode
    Keys <- MCKeys
    Relay = relay
    Creator = creator
    Participants = {}
    Codes <- MCCodes
    Ops = {"put", "remove", "leave", "invite", "join", "post", "delete_invite", "restart"}
    CreateTags <- MCCreateTags
    EditTags <- MCSwitchTags
    PutLists <- MCFewLists
    RemoveSets <- MCRemoveSets
    InviteTags <- MCInviteTags
    DefaultTtl = 1
    DefaultMaxUses = 2
    LimitsSince = 1
    ForcePublic = FALSE
    MaxTime = 1
    MaxJoins = 1
SPECIFICATION Spec
INVARIANTS
    RebuildsMembership
PROPERTIES
    SpentInvitesStaySpent
    PendingKept
