CONSTANTS
    Producers = {p1, p2}
    Consumers = {c1, c2}
    Capacity = 2
    MaxPushes = 3
SPECIFICATION Spec
INVARIANTS
    NobodySleepsForNothing
    ClearNeverWaits
PROPERTIES
    ImplementsFifo
    AllDelivered
