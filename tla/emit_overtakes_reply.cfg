\* The pattern neffos documents for a server-driven namespace: the server
\* Connects, the client WaitConnects and then emits on the namespace.
\* WaitConnect returns once the client reader has stored it, which can be
\* before that reader writes the connect reply.
CONSTANTS
    n1 = n1
    c1 = c1
    Namespaces = {n1}
    Declared = {n1}
    CallerIds = {c1}
    UserOps <- WaitConnectOps
    CtxKinds = {"none"}
    HandlerResults = {"ok"}
    MaxOps = 2
    ConnCanFail = FALSE
SPECIFICATION Spec
CONSTRAINT WireBound
CHECK_DEADLOCK FALSE
PROPERTY AskCompletes
