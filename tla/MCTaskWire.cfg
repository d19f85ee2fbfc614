SPECIFICATION Spec
CONSTANTS
    Servers <- MCServers
    Jobs <- MCJobs
INVARIANTS
    InputsArrive
    OutputsReturn
    BuffersFreedOnce
    NothingLost
CHECK_DEADLOCK FALSE
