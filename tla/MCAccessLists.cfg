\* Two requests of the console change the access lists an earlier process has left,
\* while keys resolve.
CONSTANTS
    owner = owner
    friend = friend
    stranger = stranger
    r1 = r1
    r2 = r2
    None = None
    Keys <- MCKeys
    MaxHops = 2
    Owner = owner
    Published <- MCPublished
    PageRows = 1
    Requests = {r1, r2}
    Configured = {}
    ManualKeys = {owner}
    RefKeys = {owner}
    BlackKeys = {friend}
    InviteKeys = {stranger}
    Clients = {stranger}
    PinnedRoots <- MCPinnedRoots
    MaxRequests = 2
SPECIFICATION Spec
SYMMETRY Symmetry
INVARIANTS
    LaddersAgree
    RootsAreReferences
PROPERTIES
    RestartKeepsLists
    OpensByRequestOnly
