\* Both sides connect and disconnect the same namespace; nobody emits.
CONSTANTS
    n1 = n1
    c1 = c1
    Namespaces = {n1}
    Declared = {n1}
    CallerIds = {c1}
    UserOps <- BothDriveOps
    CtxKinds = {"none"}
    HandlerResults = {"ok", "err"}
    MaxOps = 4
    ConnCanFail = FALSE
SPECIFICATION Spec
CONSTRAINT WireBound
PROPERTY AskCompletes
