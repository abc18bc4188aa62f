\* Either end closes, or the network connection breaks, while the client
\* connects a namespace and disconnects everything with a nil context.
CONSTANTS
    n1 = n1
    c1 = c1
    Namespaces = {n1}
    Declared = {n1}
    CallerIds = {c1}
    UserOps <- CloseOps
    CtxKinds = {"none"}
    HandlerResults = {"ok"}
    MaxOps = 3
    ConnCanFail = TRUE
SPECIFICATION Spec
CONSTRAINT WireBound
CHECK_DEADLOCK FALSE
PROPERTY CloseCompletes
