\* A converted unmanaged group: access flags, the console and restarts.
CONSTANTS
    creator = creator
    alice = alice
    bob = bob
    relay = relay
    c1 = c1
    None = None
    NoCode = NoCode
    Keys <- MCKeys
    Relay = relay
    Creator = relay
    Participants = {alice}
    Codes <- MCCodes
    Ops = {"edit", "put", "post", "join", "delete_join", "console", "restart"}
    CreateTags <- MCCreateTags
    EditTags <- MCEditTags
    PutLists <- MCAliceLists
    RemoveSets <- MCRemoveSets
    InviteTags <- MCInviteTags
    DefaultTtl = 1
    DefaultMaxUses = 2
    LimitsSince = 0
    ForcePublic = FALSE
    MaxTime = 0
    MaxJoins = 1
SPECIFICATION Spec
INVARIANTS
    NoMemberAwaitsApproval
PROPERTIES
    LoweredOnlyExplicitly
    RestartNeverOpens
