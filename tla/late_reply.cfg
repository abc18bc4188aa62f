\* The client's connect Ask times out before the reply arrives.
CONSTANTS
    n1 = n1
    c1 = c1
    Namespaces = {n1}
    Declared = {n1}
    CallerIds = {c1}
    UserOps <- CancelOps
    CtxKinds = {"deadline"}
    HandlerResults = {"ok"}
    MaxOps = 1
    ConnCanFail = FALSE
SPECIFICATION Spec
CONSTRAINT WireBound
CHECK_DEADLOCK FALSE
PROPERTY ReplyHandedOver
