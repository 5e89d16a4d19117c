SPECIFICATION Spec
CONSTANTS
    Requests = {r1, r2}
    Routes = {"ingest"}
    Window <- MCWindow
    Limit <- MCLimit
    MaxFlight = 1
    MaxArrivals = 3
    MaxTime = 4
SYMMETRY Symmetry
CHECK_DEADLOCK FALSE
INVARIANTS TypeOK WindowBound
PROPERTIES RefusalIsEarned
