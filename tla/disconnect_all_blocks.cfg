\* The client disconnects everything while the server emits on the namespace.
CONSTANTS
    n1 = n1
    c1 = c1
    Namespaces = {n1}
    Declared = {n1}
    CallerIds = {c1}
    UserOps <- DisconnectAllOps
    CtxKinds = {"none"}
    HandlerResults = {"ok"}
    MaxOps = 3
    ConnCanFail = FALSE
SPECIFICATION Spec
CONSTRAINT WireBound
CHECK_DEADLOCK FALSE
PROPERTY AskCompletes
