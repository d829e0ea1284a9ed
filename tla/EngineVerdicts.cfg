SPECIFICATION Spec
CONSTANTS
    j1 = j1 j2 = j2 phone = phone
    Jobs = {j1}
    DeviceOf <- OneDevice
    LivenessTimeout = 2
    MaxRestarts = 2
    Requests = {"cancel", "shutdown"}
    Faults = {"seed"}
CHECK_DEADLOCK FALSE
INVARIANTS EndExplained VerdictTrue
PROPERTIES TerminalFinal CancelEnds StallReaped
