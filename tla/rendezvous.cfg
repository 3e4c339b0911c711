SPECIFICATION Spec
CONSTANTS
    alice = alice
    bob = bob
    pa1 = pa1
    pa2 = pa2
    pb = pb
    Persons = {alice, bob}
    Pubs = {pa1, pa2, pb}
    PubsOf <- MCPubsOf
    Late = {pa1}
    MaxEvents = 3
    MaxConnections = 2
INVARIANTS
    NothingLost
    MediaFlows
    NobodyStaysWaiting
CHECK_DEADLOCK FALSE
