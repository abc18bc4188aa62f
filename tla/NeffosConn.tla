------------------------------ MODULE NeffosConn ------------------------------
(***************************************************************************)
(* The namespace protocol of one neffos connection (src/conn.go), seen     *)
(* from both of its ends after the acknowledgement handshake.               *)
(*                                                                         *)
(* Each side ("client", "server") runs one reader goroutine (startReader,  *)
(* handleMessage, replyConnect, replyDisconnect, tryNamespace) and a few   *)
(* user goroutines that call Connect, NSConn.Disconnect, DisconnectAll,    *)
(* NSConn.Emit (Conn.Write) and Close.  The socket of each direction is a  *)
(* FIFO sequence of messages.  A reply travels back to an Ask through the  *)
(* unbuffered channel registered in c.waitingMessages: the reader's        *)
(* `ch <- msg` completes only when the asking goroutine receives it.       *)
(*                                                                         *)
(* Messages are abstracted to the fields the core reads: the event kind,  *)
(* the namespace, the wait token and whether Err is set.  Rooms, the      *)
(* stack exchange and the server-wide waiter table are not modelled.      *)
(***************************************************************************)
EXTENDS Integers, Sequences, FiniteSets

CONSTANTS
    Namespaces,      \* namespace names user code passes to Connect and Emit
    Declared,        \* names with an event table (c.namespaces), on both sides
    CallerIds,       \* user goroutines of each side
    UserOps,         \* [Sides -> SUBSET Ops]: the calls each side's user code makes
    CtxKinds,        \* SUBSET {"none", "deadline"}: the contexts passed to Ask
    HandlerResults,  \* SUBSET {"ok", "err"}: what user event handlers return
    MaxOps,          \* bound: user calls started by each side
    ConnCanFail      \* BOOLEAN: the network connection may break

Sides == {"client", "server"}
Peer(s) == IF s = "client" THEN "server" ELSE "client"
Ops == {"connect", "disconnect", "disconnectAll", "emit", "close", "waitConnect"}
Reader == "reader"
Callers == Sides \X CallerIds
Actors == Sides \X (CallerIds \cup {Reader})
ReaderOf(s) == <<s, Reader>>

ASSUME /\ Declared \subseteq Namespaces
       /\ Reader \notin CallerIds
       /\ UserOps \in [Sides -> SUBSET Ops]
       /\ CtxKinds \subseteq {"none", "deadline"} /\ CtxKinds # {}
       /\ "ok" \in HandlerResults /\ HandlerResults \subseteq {"ok", "err"}
       /\ MaxOps \in Nat
       /\ ConnCanFail \in BOOLEAN

(* genWait: a token names the side that minted it and a counter value.     *)
MaxTokens == MaxOps * Cardinality(Namespaces)
Tokens == Sides \X (1..MaxTokens)
NoWait == <<"", 0>>
NoNs == ""

Msgs == [kind: {"connect", "disconnect", "event", "reply"},
         ns: Namespaces \cup {NoNs}, wait: Tokens \cup {NoWait}, err: BOOLEAN]
NoMsg == [kind |-> "none", ns |-> NoNs, wait |-> NoWait, err |-> TRUE]

ConnectMsg(n) == [kind |-> "connect", ns |-> n, wait |-> NoWait, err |-> FALSE]
DisconnectMsg(n) == [kind |-> "disconnect", ns |-> n, wait |-> NoWait, err |-> FALSE]
EventMsg(n) == [kind |-> "event", ns |-> n, wait |-> NoWait, err |-> FALSE]
\* genEmptyReplyToWait: a frame that carries only the wait token.
EmptyReply(t) == [kind |-> "reply", ns |-> NoNs, wait |-> t, err |-> FALSE]
\* A plausible slip: the echo is built as a fresh message without the token.
EchoWithoutWait(m) == [m EXCEPT !.err = TRUE, !.wait = NoWait]

\* msg.Err = err; c.Write(msg): the request echoed back with its error set.
Echo(m) == [m EXCEPT !.err = TRUE]

VARIABLES
    closed,     \* c.closed
    sockOpen,   \* the underlying net.Conn is still open
    ns,         \* keys of c.connectedNamespaces
    nsLocked,   \* c.connectedNamespacesMutex held across a blocking call
    gate,       \* c.processes: gate[s][n] while an askConnect(n) runs
    waiting,    \* keys of c.waitingMessages
    nextWait,   \* genWait counter of each side
    wire,       \* wire[s]: messages written by s, not yet read by its peer
    pc,         \* program counter of every goroutine
    call,       \* local variables of every goroutine
    ops,        \* user calls started by each side
    bal,        \* OnNamespaceConnected fires minus OnNamespaceDisconnect fires
    rejected    \* <<side, namespace>> of emitted events tryNamespace refused

vars == <<closed, sockOpen, ns, nsLocked, gate, waiting, nextWait, wire, pc,
          call, ops, bal, rejected>>

Locals == [op: Ops \cup {"none"}, ns: Namespaces \cup {NoNs},
           ctx: {"none", "deadline"}, wait: Tokens \cup {NoWait},
           msg: Msgs \cup {NoMsg}]
NoLocals == [op |-> "none", ns |-> NoNs, ctx |-> "none", wait |-> NoWait,
             msg |-> NoMsg]

Init ==
    /\ closed = [s \in Sides |-> FALSE]
    /\ sockOpen = [s \in Sides |-> TRUE]
    /\ ns = [s \in Sides |-> {}]
    /\ nsLocked = [s \in Sides |-> FALSE]
    /\ gate = [s \in Sides |-> [n \in Namespaces |-> FALSE]]
    /\ waiting = [s \in Sides |-> {}]
    /\ nextWait = [s \in Sides |-> 0]
    /\ wire = [s \in Sides |-> <<>>]
    /\ pc = [a \in Actors |-> IF a[2] = Reader THEN "read" ELSE "idle"]
    /\ call = [a \in Actors |-> NoLocals]
    /\ ops = [s \in Sides |-> 0]
    /\ bal = [s \in Sides |-> [n \in Namespaces |-> 0]]
    /\ rejected = {}

-----------------------------------------------------------------------------
(* Helpers shared by the operations.                                       *)

\* A plausible slip: DisconnectAll does not hold the mutex across its Asks.
FreeAlways(s) == TRUE

\* connectedNamespacesMutex can be taken: no goroutine holds it across an Ask.
Free(s) == ~nsLocked[s]

\* c.write: the socket accepts a frame until it is closed; then the write
\* fails and returns false.  The Close a failed write calls on a close
\* error (IsCloseError, outside src/) is not modelled: the reader's failing
\* ReadData closes the side in any case.
Send(s, m) ==
    wire' = IF sockOpen[s] THEN [wire EXCEPT ![s] = Append(@, m)] ELSE wire

\* canWrite: not closed; other than connect/disconnect, namespace connected.
canWrite(s, m) ==
    /\ ~closed[s]
    /\ m.kind \in {"connect", "disconnect"} \/ m.ns \in ns[s]

\* Conn.Write: a message canWrite refuses is silently dropped.
Write(s, m) == IF canWrite(s, m) THEN Send(s, m) ELSE UNCHANGED wire

writeEmptyReply(s, t) == Send(s, EmptyReply(t))

\* fireEvent of OnNamespaceConnected (+1) or OnNamespaceDisconnect (-1).
Fire(s, n, d) == bal' = [bal EXCEPT ![s][n] = @ + d]

Goto(a, l) == pc' = [pc EXCEPT ![a] = l]

\* A plausible slip in checking the result of Ask: ignoring the Err the peer
\* set.
OkIgnoringErr(a) == call[a].msg # NoMsg

\* The reply the Ask of caller a returned with, if it was not an error.
Ok(a) == call[a].msg # NoMsg /\ ~call[a].msg.err

-----------------------------------------------------------------------------
(* Conn.Ask up to its select: refuse on a closed connection; mint a token  *)
(* (genWait); refuse an expired deadline; else register the token and     *)
(* write the request.  A refusal goes straight to "askDone" with no reply, *)
(* and so does a failed write (ErrWrite), which leaves the entry in place.  *)
\* genWait: the next token of side s.
genWait(s) == nextWait' = [nextWait EXCEPT ![s] = @ + 1]

\* A plausible slip: the channel is registered under msg.wait before
\* genWait has set it, i.e. under the empty token.
AskRegistersUnminted(a, m) ==
    LET s == a[1]
        t == <<s, nextWait[s] + 1>>
        refuse == /\ Goto(a, "askDone")
                  /\ call' = [call EXCEPT ![a].ns = m.ns, ![a].msg = NoMsg]
                  /\ UNCHANGED <<waiting, wire>>
    IN  \/ /\ closed[s]
           /\ refuse
           /\ UNCHANGED nextWait
        \/ /\ ~closed[s] /\ call[a].ctx = "deadline"
           /\ genWait(s)
           /\ refuse
        \/ /\ ~closed[s]
           /\ genWait(s)
           /\ waiting' = [waiting EXCEPT ![s] = @ \cup {m.wait}]
           /\ Write(s, [m EXCEPT !.wait = t])
           /\ call' = [call EXCEPT ![a].ns = m.ns, ![a].wait = t,
                                    ![a].msg = NoMsg]
           /\ Goto(a, IF sockOpen[s] THEN "askWait" ELSE "askDone")

Ask(a, m) ==
    LET s == a[1]
        t == <<s, nextWait[s] + 1>>
        refuse == /\ Goto(a, "askDone")
                  /\ call' = [call EXCEPT ![a].ns = m.ns, ![a].msg = NoMsg]
                  /\ UNCHANGED <<waiting, wire>>
    IN  \/ /\ closed[s]
           /\ refuse
           /\ UNCHANGED nextWait
        \/ /\ ~closed[s] /\ call[a].ctx = "deadline"
           /\ genWait(s)
           /\ refuse
        \/ /\ ~closed[s]
           /\ genWait(s)
           /\ waiting' = [waiting EXCEPT ![s] = @ \cup {t}]
           /\ Write(s, [m EXCEPT !.wait = t])
           /\ call' = [call EXCEPT ![a].ns = m.ns, ![a].wait = t,
                                    ![a].msg = NoMsg]
           /\ Goto(a, IF sockOpen[s] THEN "askWait" ELSE "askDone")

\* The select of Ask: the reader hands the reply over (ch <- msg) and the
\* entry is deleted from c.waitingMessages.
AskReceive(a) ==
    LET s == a[1] IN
    /\ pc[a] = "askWait"
    /\ pc[ReaderOf(s)] = "send"
    /\ call[ReaderOf(s)].msg.wait = call[a].wait
    /\ call' = [call EXCEPT ![a].msg = call[ReaderOf(s)].msg,
                            ![ReaderOf(s)] = NoLocals]
    /\ waiting' = [waiting EXCEPT ![s] = @ \ {call[a].wait}]
    /\ pc' = [pc EXCEPT ![a] = "askDone", ![ReaderOf(s)] = "read"]
    /\ UNCHANGED <<closed, sockOpen, ns, nsLocked, gate, nextWait, wire, ops,
                   bal, rejected>>

\* The select of Ask: ctx.Done() fires; the waiting entry is left in place.
AskCancel(a) ==
    /\ pc[a] = "askWait"
    /\ call[a].ctx = "deadline"
    /\ call' = [call EXCEPT ![a].msg = NoMsg]
    /\ Goto(a, "askDone")
    /\ UNCHANGED <<closed, sockOpen, ns, nsLocked, gate, waiting, nextWait,
                   wire, ops, bal, rejected>>

-----------------------------------------------------------------------------
(* User goroutines.  Call picks the next call and its arguments; the call  *)
(* then runs as the steps below, blocking where the code blocks.          *)

FirstLabel(op) ==
    CASE op = "connect"       -> "askConnect"
      [] op = "disconnect"    -> "askDisconnect"
      [] op = "disconnectAll" -> "disconnectAll"
      [] op = "emit"          -> "emit"
      [] op = "close"         -> "close"
      [] op = "waitConnect"   -> "waitConnect"

Call(a) ==
    LET s == a[1] IN
    /\ pc[a] = "idle"
    /\ ops[s] < MaxOps
    /\ \E op \in UserOps[s], n \in Namespaces, x \in CtxKinds :
          /\ call' = [call EXCEPT ![a] = [NoLocals EXCEPT !.op = op, !.ns = n,
                                                          !.ctx = x]]
          /\ Goto(a, FirstLabel(op))
    /\ ops' = [ops EXCEPT ![s] = @ + 1]
    /\ UNCHANGED <<closed, sockOpen, ns, nsLocked, gate, waiting, nextWait,
                   wire, bal, rejected>>

\* Conn.Connect (on the server once acknowledged) and askConnect up to its
\* Ask: take the process gate, return an existing NSConn, refuse an
\* undeclared namespace, fire the local OnNamespaceConnect, then ask.
askConnect(a) ==
    LET s == a[1]
        n == call[a].ns
    IN  /\ pc[a] = "askConnect"
        /\ ~gate[s][n]
        /\ Free(s)
        /\ \/ /\ n \in ns[s] \/ n \notin Declared
              /\ Goto(a, "idle")
              /\ UNCHANGED <<gate, nextWait, waiting, wire, call>>
           \/ /\ n \notin ns[s] /\ n \in Declared
              /\ "err" \in HandlerResults
              /\ Goto(a, "idle")
              /\ UNCHANGED <<gate, nextWait, waiting, wire, call>>
           \/ /\ n \notin ns[s] /\ n \in Declared
              /\ gate' = [gate EXCEPT ![s][n] = TRUE]
              /\ Ask(a, ConnectMsg(n))
        /\ UNCHANGED <<closed, sockOpen, ns, nsLocked, ops, bal, rejected>>

\* askConnect after its Ask: on success store the NSConn (Lock), fire
\* OnNamespaceConnected; in every case release the process gate.
connectDone(a) ==
    LET s == a[1]
        n == call[a].ns
    IN  /\ pc[a] = "askDone" /\ call[a].op = "connect"
        /\ \/ /\ ~Ok(a)
              /\ UNCHANGED <<ns, bal>>
           \/ /\ Ok(a) /\ Free(s)
              /\ ns' = [ns EXCEPT ![s] = @ \cup {n}]
              /\ Fire(s, n, 1)
        /\ gate' = [gate EXCEPT ![s][n] = FALSE]
        /\ Goto(a, "idle")
        /\ UNCHANGED <<closed, sockOpen, nsLocked, waiting, nextWait, wire,
                       call, ops, rejected>>

\* NSConn.Disconnect: askDisconnect(ctx, msg, true) up to its Ask.
askDisconnect(a) ==
    LET s == a[1]
        n == call[a].ns
    IN  /\ pc[a] = "askDisconnect"
        /\ Free(s)
        /\ \/ /\ n \notin ns[s]
              /\ Goto(a, "idle")
              /\ UNCHANGED <<nextWait, waiting, wire, call>>
           \/ /\ n \in ns[s]
              /\ Ask(a, DisconnectMsg(n))
        /\ UNCHANGED <<closed, sockOpen, ns, nsLocked, gate, ops, bal, rejected>>

\* A plausible slip in askDisconnect: the local OnNamespaceDisconnect fires
\* even when the peer vetoed (the handler call placed before the err check).
disconnectDoneFiresOnVeto(a) ==
    LET s == a[1]
        n == call[a].ns
        all == call[a].op = "disconnectAll"
    IN  /\ pc[a] = "askDone" /\ call[a].op \in {"disconnect", "disconnectAll"}
        /\ \/ /\ ~Ok(a)
              /\ nsLocked' = [nsLocked EXCEPT ![s] = FALSE]
              /\ Goto(a, "idle")
              /\ Fire(s, n, -1)
              /\ UNCHANGED ns
           \/ /\ Ok(a) /\ (all \/ Free(s))
              /\ ns' = [ns EXCEPT ![s] = @ \ {n}]
              /\ Fire(s, n, -1)
              /\ Goto(a, IF all THEN "daNext" ELSE "idle")
              /\ UNCHANGED nsLocked
        /\ UNCHANGED <<closed, sockOpen, gate, waiting, nextWait, wire, call,
                       ops, rejected>>

\* askDisconnect after its Ask: on success delete the entry and fire the
\* local OnNamespaceDisconnect.  With lock = false (DisconnectAll) the
\* mutex is already held by the caller.
disconnectDone(a) ==
    LET s == a[1]
        n == call[a].ns
        all == call[a].op = "disconnectAll"
    IN  /\ pc[a] = "askDone" /\ call[a].op \in {"disconnect", "disconnectAll"}
        /\ \/ /\ ~Ok(a)
              /\ nsLocked' = [nsLocked EXCEPT ![s] = FALSE]
              /\ Goto(a, "idle")
              /\ UNCHANGED <<ns, bal>>
           \/ /\ Ok(a) /\ (all \/ Free(s))
              /\ ns' = [ns EXCEPT ![s] = @ \ {n}]
              /\ Fire(s, n, -1)
              /\ Goto(a, IF all THEN "daNext" ELSE "idle")
              /\ UNCHANGED nsLocked
        /\ UNCHANGED <<closed, sockOpen, gate, waiting, nextWait, wire, call,
                       ops, rejected>>

\* DisconnectAll: take connectedNamespacesMutex for the whole loop.
DisconnectAll(a) ==
    LET s == a[1] IN
    /\ pc[a] = "disconnectAll"
    /\ Free(s)
    /\ nsLocked' = [nsLocked EXCEPT ![s] = TRUE]
    /\ Goto(a, "daNext")
    /\ UNCHANGED <<closed, sockOpen, ns, gate, waiting, nextWait, wire, call,
                   ops, bal, rejected>>

\* The loop of DisconnectAll: askDisconnect(ctx, msg, false) for the next
\* entry (map order is unspecified); unlock when none is left.
disconnectAllNext(a) ==
    LET s == a[1] IN
    /\ pc[a] = "daNext"
    /\ \/ /\ ns[s] = {}
          /\ nsLocked' = [nsLocked EXCEPT ![s] = FALSE]
          /\ Goto(a, "idle")
          /\ UNCHANGED <<nextWait, waiting, wire, call>>
       \/ /\ \E n \in ns[s] : Ask(a, DisconnectMsg(n))
          /\ UNCHANGED nsLocked
    /\ UNCHANGED <<closed, sockOpen, ns, gate, ops, bal, rejected>>
\* NSConn.Emit: Conn.Write of an event (canWrite reads the table, RLock).
Emit(a) ==
    LET s == a[1] IN
    /\ pc[a] = "emit"
    /\ Free(s)
    /\ Write(s, EventMsg(call[a].ns))
    /\ Goto(a, "idle")
    /\ UNCHANGED <<closed, sockOpen, ns, nsLocked, gate, waiting, nextWait,
                   call, ops, bal, rejected>>

\* WaitConnect: poll Namespace (RLock) and isAcknowledged every syncWaitDur
\* until the namespace is connected, or until ctx.Done().  Close clears
\* acknowledged with the table (CloseEnd), so sockOpen stands for it here.
\* A poll that finds nothing changes nothing, so it is not a step.
WaitConnect(a) ==
    LET s == a[1] IN
    /\ pc[a] = "waitConnect"
    /\ \/ call[a].ctx = "deadline"
       \/ Free(s) /\ call[a].ns \in ns[s] /\ sockOpen[s]
    /\ Goto(a, "idle")
    /\ UNCHANGED <<closed, sockOpen, ns, nsLocked, gate, waiting, nextWait,
                   wire, call, ops, bal, rejected>>

-----------------------------------------------------------------------------
(* Conn.Close, called by a user goroutine or by the reader on its way out *)
(* (defer c.Close()).  The compare-and-swap on c.closed comes before the  *)
(* table lock, so other goroutines can see closed while the table is full. *)

AfterClose(a) == IF a[2] = Reader THEN "done" ELSE "idle"

CloseBegin(a) ==
    LET s == a[1] IN
    /\ pc[a] = "close"
    /\ \/ /\ closed[s]
          /\ Goto(a, AfterClose(a))
          /\ UNCHANGED closed
       \/ /\ ~closed[s]
          /\ closed' = [closed EXCEPT ![s] = TRUE]
          /\ Goto(a, "closeLock")
    /\ UNCHANGED <<sockOpen, ns, nsLocked, gate, waiting, nextWait, wire, call,
                   ops, bal, rejected>>

\* Under the table lock fire the forced OnNamespaceDisconnect of every
\* entry and delete it, clear c.waitingMessages, close the socket.
CloseEnd(a) ==
    LET s == a[1] IN
    /\ pc[a] = "closeLock"
    /\ Free(s)
    /\ bal' = [bal EXCEPT ![s] = [n \in Namespaces |->
                   bal[s][n] - (IF n \in ns[s] THEN 1 ELSE 0)]]
    /\ ns' = [ns EXCEPT ![s] = {}]
    /\ waiting' = [waiting EXCEPT ![s] = {}]
    /\ sockOpen' = [sockOpen EXCEPT ![s] = FALSE]
    /\ Goto(a, AfterClose(a))
    /\ UNCHANGED <<closed, nsLocked, gate, nextWait, wire, call, ops, rejected>>

(* A network failure: the connection breaks under both ends at once.  Frames *)
(* in flight are lost, every later write fails (c.write returns false) and *)
(* ReadData returns an error on both sides.  It is the environment's step,  *)
(* so it is not fair.                                                      *)
ConnLost ==
    /\ ConnCanFail
    /\ sockOpen = [s \in Sides |-> TRUE]
    /\ sockOpen' = [s \in Sides |-> FALSE]
    /\ UNCHANGED <<closed, ns, nsLocked, gate, waiting, nextWait, wire, pc,
                   call, ops, bal, rejected>>

-----------------------------------------------------------------------------
(* The reader goroutine: startReader and handleMessage.                   *)

\* A plausible slip: only an error on this side's own socket ends the loop.
ReadFailsOwnOnly(s) == ~sockOpen[s]

\* socket.ReadData returns an error: this socket is closed, or the peer's
\* socket is closed and every frame it wrote has been read.
ReadFails(s) == ~sockOpen[s] \/ (wire[Peer(s)] = <<>> /\ ~sockOpen[Peer(s)])

\* startReader: read the next frame and handle it; on a read error return,
\* and the deferred c.Close() runs.
Read(s) ==
    LET r == ReaderOf(s) IN
    /\ pc[r] = "read"
    /\ \/ /\ sockOpen[s] /\ wire[Peer(s)] # <<>>
          /\ call' = [call EXCEPT ![r].msg = Head(wire[Peer(s)])]
          /\ wire' = [wire EXCEPT ![Peer(s)] = Tail(@)]
          /\ Goto(r, "handle")
       \/ /\ ReadFails(s)
          /\ Goto(r, "close")
          /\ UNCHANGED <<call, wire>>
    /\ UNCHANGED <<closed, sockOpen, ns, nsLocked, gate, waiting, nextWait, ops,
                   bal, rejected>>

InMsg(s) == call[ReaderOf(s)].msg

\* msg.isWait(isClient) and a c.waitingMessages entry for msg.wait.
IsReply(s, m) == m.wait[1] = s /\ m.wait \in waiting[s]

\* handleMessage, reply correlation: ch <- msg blocks until the Ask receives.
handleWaiter(s) ==
    /\ pc[ReaderOf(s)] = "handle"
    /\ IsReply(s, InMsg(s))
    /\ Goto(ReaderOf(s), "send")
    /\ UNCHANGED <<closed, sockOpen, ns, nsLocked, gate, waiting, nextWait,
                   wire, call, ops, bal, rejected>>

\* replyConnect.  Every connect frame carries a wait token here (only Ask
\* sends one), so its `msg.wait == ""` early return is not reachable.  The
\* NSConn is stored before the empty reply is written (replyEmpty); bal
\* counts OnNamespaceConnected with the table change it reports.
replyConnect(s) ==
    LET m == InMsg(s)
        n == m.ns
    IN  /\ pc[ReaderOf(s)] = "handle"
        /\ m.kind = "connect" /\ ~IsReply(s, m)
        /\ Free(s)
        /\ \/ /\ n \in ns[s]
              /\ writeEmptyReply(s, m.wait)
              /\ Goto(ReaderOf(s), "read")
              /\ UNCHANGED <<ns, bal>>
           \/ /\ n \notin ns[s]
              /\ n \notin Declared \/ "err" \in HandlerResults
              /\ Write(s, Echo(m))
              /\ Goto(ReaderOf(s), "read")
              /\ UNCHANGED <<ns, bal>>
           \/ /\ n \notin ns[s] /\ n \in Declared
              /\ ns' = [ns EXCEPT ![s] = @ \cup {n}]
              /\ Fire(s, n, 1)
              /\ Goto(ReaderOf(s), "reply")
              /\ UNCHANGED wire
        /\ UNCHANGED <<closed, sockOpen, nsLocked, gate, waiting, nextWait, call,
                       ops, rejected>>

\* replyDisconnect: the client deletes the entry at once and fires its
\* handler; the server's handler fires first and may veto.  The entry is
\* deleted before the empty reply is written (replyEmpty).
replyDisconnect(s) ==
    LET m == InMsg(s)
        n == m.ns
    IN  /\ pc[ReaderOf(s)] = "handle"
        /\ m.kind = "disconnect" /\ ~IsReply(s, m)
        /\ Free(s)
        /\ \/ /\ n \notin ns[s]
              /\ writeEmptyReply(s, m.wait)
              /\ Goto(ReaderOf(s), "read")
              /\ UNCHANGED <<ns, bal>>
           \/ /\ n \in ns[s] /\ s = "server" /\ "err" \in HandlerResults
              /\ Write(s, Echo(m))
              /\ Goto(ReaderOf(s), "read")
              /\ UNCHANGED <<ns, bal>>
           \/ /\ n \in ns[s]
              /\ ns' = [ns EXCEPT ![s] = @ \ {n}]
              /\ Fire(s, n, -1)
              /\ Goto(ReaderOf(s), "reply")
              /\ UNCHANGED wire
        /\ UNCHANGED <<closed, sockOpen, nsLocked, gate, waiting, nextWait, call,
                       ops, rejected>>

\* The c.writeEmptyReply(msg.wait) that ends replyConnect and replyDisconnect.
replyEmpty(s) ==
    /\ pc[ReaderOf(s)] = "reply"
    /\ writeEmptyReply(s, InMsg(s).wait)
    /\ Goto(ReaderOf(s), "read")
    /\ UNCHANGED <<closed, sockOpen, ns, nsLocked, gate, waiting, nextWait,
                   call, ops, bal, rejected>>

\* A plausible slip: tryNamespace does not wait for a running askConnect.
GateIgnored(s, n) == TRUE

\* processes.get(n).wait(): no askConnect(n) of this side is running.
GateOpen(s, n) == ~(n \in Namespaces /\ gate[s][n])

\* The default branch of handleMessage (events, and empty replies nobody
\* waits for): tryNamespace, then the user handler; a refusal or a handler
\* error is echoed back with Conn.Write, which canWrite may drop.
handleDefault(s) ==
    LET m == InMsg(s)
        n == m.ns
    IN  /\ pc[ReaderOf(s)] = "handle"
        /\ m.kind \in {"event", "reply"} /\ ~IsReply(s, m)
        /\ GateOpen(s, n)
        /\ Free(s)
        /\ \/ /\ n \notin ns[s]
              /\ rejected' = IF m.err THEN rejected ELSE rejected \cup {<<s, n>>}
              /\ Write(s, Echo(m))
           \/ /\ n \in ns[s]
              /\ UNCHANGED <<wire, rejected>>
           \/ /\ n \in ns[s] /\ "err" \in HandlerResults
              /\ Write(s, Echo(m))
              /\ UNCHANGED rejected
        /\ Goto(ReaderOf(s), "read")
        /\ UNCHANGED <<closed, sockOpen, ns, nsLocked, gate, waiting, nextWait,
                       call, ops, bal>>

-----------------------------------------------------------------------------
(* Every goroutine idle, every frame read: the connection sits waiting.   *)
Quiescent ==
    /\ \A a \in Callers : pc[a] = "idle"
    /\ \A s \in Sides : pc[ReaderOf(s)] = "read" /\ wire[s] = <<>>

Terminating == Quiescent /\ UNCHANGED vars

CallerStep(a) ==
    \/ askConnect(a) \/ connectDone(a)
    \/ askDisconnect(a) \/ disconnectDone(a)
    \/ DisconnectAll(a) \/ disconnectAllNext(a)
    \/ Emit(a) \/ WaitConnect(a) \/ AskReceive(a) \/ AskCancel(a)
    \/ CloseBegin(a) \/ CloseEnd(a)

ReaderStep(s) ==
    \/ Read(s) \/ handleWaiter(s) \/ replyConnect(s) \/ replyDisconnect(s)
    \/ replyEmpty(s) \/ handleDefault(s) \/ CloseBegin(ReaderOf(s)) \/ CloseEnd(ReaderOf(s))

Next ==
    \/ \E a \in Callers : Call(a) \/ CallerStep(a)
    \/ \E s \in Sides : ReaderStep(s)
    \/ ConnLost
    \/ Terminating

\* Go schedules every runnable goroutine and a context deadline always
\* expires, so every goroutine's own steps are weakly fair.  Call is not:
\* user code need not call anything.
Spec ==
    /\ Init /\ [][Next]_vars
    /\ \A a \in Callers : WF_vars(CallerStep(a))
    /\ \A s \in Sides : WF_vars(ReaderStep(s))

-----------------------------------------------------------------------------
(* Properties.                                                             *)

TypeOK ==
    /\ closed \in [Sides -> BOOLEAN] /\ sockOpen \in [Sides -> BOOLEAN]
    /\ ns \in [Sides -> SUBSET Namespaces]
    /\ nsLocked \in [Sides -> BOOLEAN]
    /\ gate \in [Sides -> [Namespaces -> BOOLEAN]]
    /\ waiting \in [Sides -> SUBSET Tokens]
    /\ nextWait \in [Sides -> 0..MaxTokens]
    /\ wire \in [Sides -> Seq(Msgs)]
    /\ call \in [Actors -> Locals]
    /\ ops \in [Sides -> 0..MaxOps]
    /\ bal \in [Sides -> [Namespaces -> Int]]
    /\ rejected \subseteq Sides \X (Namespaces \cup {NoNs})

\* NS-table consistency across the two ends (askConnect/replyConnect,
\* askDisconnect/replyDisconnect): whenever nothing is in flight and no
\* goroutine is inside a call, both sides hold the same namespaces.
NsAgreement == Quiescent => ns["client"] = ns["server"]

\* The user's OnNamespaceConnected and OnNamespaceDisconnect handlers see
\* exactly the table: a connected namespace has had one more Connected than
\* accepted Disconnect, any other namespace as many (none fires twice).
HandlersMatchTable ==
    \A s \in Sides, n \in Namespaces : bal[s][n] = IF n \in ns[s] THEN 1 ELSE 0

\* tryNamespace's gate wait: an event the peer emits on a namespace it has
\* connected is never refused with ErrBadNamespace by this side (error
\* echoes of events are not counted: they may cross a disconnect).
NoEventRejected == rejected = {}

\* Ask: every request that is waiting for its reply eventually returns.
AskCompletes == \A a \in Callers : pc[a] = "askWait" ~> pc[a] = "idle"

\* A reply the reader hands to a waiting Ask (ch <- msg) is taken, so the
\* reader goes back to reading the socket.
ReplyHandedOver ==
    \A s \in Sides : pc[ReaderOf(s)] = "send" ~> pc[ReaderOf(s)] = "read"

\* Close has run to its end on side s: the compare-and-swap is done and no
\* goroutine of s still waits for the table lock to clear the table,
\* release the waiters and close the socket.
CloseComplete(s) ==
    /\ closed[s]
    /\ \A a \in {s} \X (CallerIds \cup {Reader}) : pc[a] # "closeLock"

\* Close cascade (spec 4.8): once one side closes, or the network
\* connection breaks, the readers see the socket end, run their deferred
\* Close, and Close completes on both sides.
CloseCompletes ==
    \A s \in Sides :
        (closed[s] \/ ~sockOpen[s]) ~> (CloseComplete(s) /\ CloseComplete(Peer(s)))

\* Refinement, where only the client opens and closes namespaces: the two
\* tables follow NsSession's cycle (server accepts before the client's
\* askConnect stores, server deletes before the client's askDisconnect
\* deletes).
Session == INSTANCE NsSession WITH srv <- ns["server"], cli <- ns["client"]
ClientSession == Session!Spec

=============================================================================
