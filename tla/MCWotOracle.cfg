\* Roots, graph and oracle change while connections resolve their keys.
CONSTANTS
    root = root
    near = near
    other = other
    far = far
    w1 = w1
    w2 = w2
    console1 = console1
    None = None
    Keys <- MCKeys
    Clients = {far}
    Posters = {near}
    Published <- MCPublished
    MaxHops = 2
    MaxFetches = 2
    Workers = {w1, w2}
    Consoles = {console1}
    Modes = {TRUE, FALSE}
    RefSets <- MCRefSets
    CacheTtl = 1
    NegativeTtl = 1
    Threshold = 2
    Cooldown = 1
SPECIFICATION Spec
INVARIANTS
    VerdictsAreCurrent
    ConfidentHops
PROPERTIES
    ReachableIsAdmitted
