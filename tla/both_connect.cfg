\* Both sides call Connect on the same namespace at the same time.
CONSTANTS
    n1 = n1
    c1 = c1
    Namespaces = {n1}
    Declared = {n1}
    CallerIds = {c1}
    UserOps <- BothConnectOps
    CtxKinds = {"none"}
    HandlerResults = {"ok"}
    MaxOps = 1
    ConnCanFail = FALSE
SPECIFICATION Spec
CONSTRAINT WireBound
INVARIANT HandlersMatchTable
