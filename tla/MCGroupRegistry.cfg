\* Creations, changes, posts and deletions overlap, with restarts.
CONSTANTS
    relay = relay
    alice = alice
    w1 = w1
    w2 = w2
    None = None
    Keys <- MCKeys
    Relay = relay
    Workers <- MCWorkers
    Requests = {"create", "put", "post", "delete", "console", "restart"}
    MaxStamp = 4
SPECIFICATION Spec
SYMMETRY WorkerSymmetry
INVARIANTS
    SettledIsStored
PROPERTIES
    KeepsItsLife
