\* OnConnected calls Connect; the client never sends its acknowledgement.
CONSTANTS
    ClientKind = "silent"
    HookOps = {"connect"}
    OnConnectedResults = {"ok"}
    PollMax <- MCPollMax
SPECIFICATION Spec
CHECK_DEADLOCK FALSE
PROPERTY AckPollEnds
