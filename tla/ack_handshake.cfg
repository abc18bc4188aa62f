\* OnConnected returns ok or err, at once or after its own Connect; a
\* neffos client dials, then connects.  Deadlock is not checked: the
\* hook's Connect can hang for good (run early_connect).
CONSTANTS
    ClientKind = "neffos"
    HookOps = {"return", "connect"}
    OnConnectedResults = {"ok", "err"}
    PollMax <- MCPollMax
SPECIFICATION Spec
INVARIANT TypeOK
PROPERTY DialCompletes
PROPERTY ClientConnectReturns
PROPERTY AckPollEnds
CHECK_DEADLOCK FALSE
