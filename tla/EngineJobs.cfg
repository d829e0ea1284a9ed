SPECIFICATION Spec
CONSTANTS
    j1 = j1 j2 = j2 phone = phone
    Jobs = {j1, j2}
    DeviceOf <- OneDevice
    LivenessTimeout = 1
    MaxRestarts = 0
    Requests = {}
    Faults = {"commit", "store"}
SYMMETRY Symmetry
CHECK_DEADLOCK FALSE
INVARIANTS WorkAreaExclusive
