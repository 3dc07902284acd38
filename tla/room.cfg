CONSTANTS
    Tabs = {"A", "B"}
    Hosts = {"A", "B"}
    MaxJoins = 2
    MaxStarts = 2
    MaxCalls = 2
    MaxFaults = 1
SPECIFICATION Spec
CHECK_DEADLOCK FALSE
INVARIANTS
    TypeOK
    RecordingIsAttended
    StarterCanStop
    BusyMeansCall
