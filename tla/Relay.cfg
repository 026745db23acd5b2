SPECIFICATION Spec
CONSTANTS
    c1 = c1
    c2 = c2
    Sockets <- Clients
    Sizes = {1, 2}
    MaxCount = 2
    MaxBytes = 3
    StorageLimit = 3
    Ttl = 3
    Slack = 1
    MaxUpdates = 4
    MaxTime = 5
SYMMETRY Symmetry
INVARIANTS TypeOK StorageFollowsMemory RestartLeavesNoHole PeersHaveTheLog StoredRoomsExpire
PROPERTIES OnlyIdleRoomsAreWiped
CHECK_DEADLOCK FALSE
