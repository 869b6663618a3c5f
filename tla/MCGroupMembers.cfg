\* Every event a group takes, while the relay runs.
CONSTANTS
    creator = creator
    alice = alice
    bob = bob
    relay = relay
    c1 = c1
    None = None
    NoCode = NoCode
    Keys <- MCKeys
    Relay = relay
    Creator = creator
    Participants = {}
    Codes <- MCCodes
    Ops = {"put", "remove", "roles", "leave", "edit", "invite", "join", "post", "delete_invite"}
    CreateTags <- MCPrivateTags
    EditTags <- MCSwitchTags
    PutLists <- MCPutLists
    RemoveSets <- MCRemoveSets
    InviteTags <- MCInviteTags
    DefaultTtl = 1
    DefaultMaxUses = 2
    LimitsSince = 0
    ForcePublic = FALSE
    MaxTime = 1
    MaxJoins = 1
SPECIFICATION Spec
INVARIANTS
    AlwaysHasAdmin
    InvitesWithinLimits
PROPERTIES
    PromotedByListsOnly
