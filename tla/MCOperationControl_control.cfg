SPECIFICATION Spec
CONSTANTS
    Paths = {"sock", "a", "b"}
    SocketPath = "sock"
    Inodes = {"i1", "i2"}
    Tails = {"", ".so"}
    Commands = {"ls"}
    PathfulCommands = {"/bin/ls"}
    StartupDocs <- MCStartupDocs
    RequestDocs <- MCRequestDocs
    MaxPayload = 4
    MaxRequests = 2
    MaxChanges = 2
    MaxFaults = 1
CHECK_DEADLOCK FALSE
INVARIANTS
    ReportIsTrue
    StartsUnderItsProfile
    SocketStaysProtected
PROPERTIES
    AskedIsEnforced
