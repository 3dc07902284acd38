CONSTANTS
    Requests = {"r1", "r2"}
    Seconds = 1
    MaxDrops = 1
    MaxWire = 1
    Restless = {"r1"}
    Metered = {"r2"}
SPECIFICATION Spec
CHECK_DEADLOCK FALSE
INVARIANT
    WaitingIsListed
PROPERTY
    QuietLeaves
