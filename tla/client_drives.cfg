\* The client connects, disconnects and emits; the server emits and answers.
\* Deadlock is not checked: an emit can overtake a connect reply and block
\* the client reader for good (run emit_overtakes_reply).
CONSTANTS
    n1 = n1
    c1 = c1
    Namespaces = {n1}
    Declared = {n1}
    CallerIds = {c1}
    UserOps <- ClientDrivesOps
    CtxKinds = {"none"}
    HandlerResults = {"ok", "err"}
    MaxOps = 4
    ConnCanFail = FALSE
SPECIFICATION Spec
CONSTRAINT WireBound
INVARIANT TypeOK
INVARIANT NsAgreement
INVARIANT NoEventRejected
PROPERTY ClientSession
CHECK_DEADLOCK FALSE
