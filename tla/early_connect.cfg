\* OnConnected calls Connect, which asks as soon as the server is acknowledged.
CONSTANTS
    ClientKind = "neffos"
    HookOps = {"connect"}
    OnConnectedResults = {"ok"}
    PollMax <- MCPollMax
SPECIFICATION Spec
CHECK_DEADLOCK FALSE
INVARIANT QueueDrained
