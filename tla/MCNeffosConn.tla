---------------------------- MODULE MCNeffosConn ----------------------------
(* Instantiation of NeffosConn for TLC: the calls each side's user code     *)
(* makes are chosen per run.                                                *)
EXTENDS NeffosConn

\* The client drives namespaces; the server only emits on them.
ClientDrivesOps == [s \in Sides |->
    IF s = "client" THEN {"connect", "disconnect", "emit"} ELSE {"emit"}]

\* Both sides connect and disconnect; nobody emits.
BothDriveOps == [s \in Sides |-> {"connect", "disconnect"}]

\* The server connects (from OnConnected, say); the client waits for the
\* namespace with WaitConnect and then emits on it.
WaitConnectOps == [s \in Sides |->
    IF s = "client" THEN {"waitConnect", "emit"} ELSE {"connect"}]

\* Both sides open namespaces (scenario 4 of the spec).
BothConnectOps == [s \in Sides |-> {"connect"}]

\* Both ends may close the connection while the client connects, waits
\* for namespaces and disconnects them all.
CloseOps == [s \in Sides |->
    IF s = "client" THEN {"connect", "waitConnect", "disconnectAll", "close"}
    ELSE {"close"}]

\* The server closes while the client connects and disconnects.
CloseRaceOps == [s \in Sides |->
    IF s = "client" THEN {"connect", "disconnect"} ELSE {"close"}]

\* The client connects with a context that has a deadline.
CancelOps == [s \in Sides |-> IF s = "client" THEN {"connect"} ELSE {}]

\* The client disconnects everything while the server emits.
DisconnectAllOps == [s \in Sides |->
    IF s = "client" THEN {"connect", "disconnectAll"} ELSE {"emit"}]

\* The client connects while the server disconnects.
ServerDisconnectOps == [s \in Sides |->
    IF s = "client" THEN {"connect"} ELSE {"disconnect"}]

\* One client goroutine connects while another closes (scenario 6).
CloseAskOps == [s \in Sides |->
    IF s = "client" THEN {"connect", "close"} ELSE {}]

\* Bound on frames in flight per direction.
MaxWire == 3
WireBound == \A s \in Sides : Len(wire[s]) <= MaxWire
=============================================================================
