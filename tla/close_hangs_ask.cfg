\* Close runs on the client while its connect Ask (nil context) is pending.
CONSTANTS
    n1 = n1
    c1 = c1
    c2 = c2
    Namespaces = {n1}
    Declared = {n1}
    CallerIds = {c1, c2}
    UserOps <- CloseAskOps
    CtxKinds = {"none"}
    HandlerResults = {"ok"}
    MaxOps = 2
    ConnCanFail = FALSE
SPECIFICATION Spec
CONSTRAINT WireBound
CHECK_DEADLOCK FALSE
PROPERTY AskCompletes
