SPECIFICATION Spec
CONSTANTS
    relay = relay
    former = former
    moderator = moderator
    ana = ana
    bo = bo
    c1 = c1
    c2 = c2
    ip1 = ip1
    None = None
    NoLimit = NoLimit
    Keys <- MCKeys
    Clients <- MCClients
    Relay = relay
    Admins = {moderator}
    Conns = {c1, c2}
    Addrs = {ip1}
    MaxTotal = 1
    MaxPerIp = 1
    Events <- MCEvents
    Filters <- MCFilters
    Former = {former}
    IndexedSearch = FALSE
    ScrapeBurst = 1
    MaxSubs = 1
    MaxMoves = 2
SYMMETRY Symmetry
INVARIANTS
    PermitsCounted
    ReadersOnly
    DiscoveryComplete
PROPERTIES
    ScrapesArePaid
