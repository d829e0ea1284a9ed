SPECIFICATION EventsSpec
CHECK_DEADLOCK FALSE
CONSTANTS
    Sources = {"m1", "m2"}
    Udids = {"u"}
    Buffer = 1
    Scenes <- MCBothScenes
    Endpoints = {"e1", "e2"}
    Callers = {"c1", "c2"}
    BusBuffer = 1
    OutBuffer = 1
    Cooldown = 2
    Staleness = 1
    Overdue = 2
    Themes <- MCThemes
INVARIANTS PageShowsDevices
PROPERTIES Converges EndsTold CooldownKept
