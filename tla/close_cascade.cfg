\* Either end closes, or the network connection breaks, while the client
\* connects a namespace, waits for it and disconnects everything, each call
\* with or without a deadline.
\* Deadlock is not checked: after Close the connection stops by design.
CONSTANTS
    n1 = n1
    c1 = c1
    Namespaces = {n1}
    Declared = {n1}
    CallerIds = {c1}
    UserOps <- CloseOps
    CtxKinds = {"none", "deadline"}
    HandlerResults = {"ok"}
    MaxOps = 4
    ConnCanFail = TRUE
SPECIFICATION Spec
CONSTRAINT WireBound
CHECK_DEADLOCK FALSE
INVARIANT HandlersMatchTable

