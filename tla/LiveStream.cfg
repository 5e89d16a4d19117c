SPECIFICATION LiveSpec
CONSTANTS
    Logs = {l1}
    Partitions = {p1}
    Consumers = {c1, c2}
    Subscribers = {s1}
    MaxCopies = 1
    MaxJunk = 1
    MaxFaults = 1
    MaxDeleted = 1
CHECK_DEADLOCK FALSE
INVARIANTS NothingMissed TypeOK AckedIsDurable CommittedIsSettled StreamedOnce StreamedWasStored
PROPERTIES AckedGetsSettled DeliveredGoesOut ImplementsDelivery
