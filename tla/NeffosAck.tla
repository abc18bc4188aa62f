------------------------------- MODULE NeffosAck -------------------------------
(***************************************************************************)
(* The acknowledgement handshake of a neffos connection (src/conn.go):    *)
(* sendClientACK, handleACK, handleQueue, the server-side Connect poll on *)
(* `acknowledged`, and the first request/reply that follows it.           *)
(*                                                                         *)
(* Client: the Dial goroutine writes 'M' and waits on its readiness latch; *)
(* then it calls Connect.  Server: the OnConnected hook goroutine either   *)
(* returns a verdict or first calls Connect, which resolves readiness and  *)
(* polls `acknowledged`.  Each side's reader runs startReader: frames read *)
(* before `acknowledged` go to handleACK, later ones to HandlePayload.     *)
(* The namespace tables behind Connect are NeffosConn's concern: here a    *)
(* connect request is answered by the peer's reader with a reply frame.   *)
(***************************************************************************)
EXTENDS Integers, Sequences

CONSTANTS
    ClientKind,          \* "neffos", or "silent": a peer that never sends 'M'
    HookOps,             \* SUBSET {"return", "connect"}: what OnConnected does
    OnConnectedResults,  \* SUBSET {"ok", "err"}: what OnConnected returns
    PollMax              \* maxSyncWaitDur in units of syncWaitDur

ASSUME /\ ClientKind \in {"neffos", "silent"}
       /\ HookOps \subseteq {"return", "connect"} /\ HookOps # {}
       /\ OnConnectedResults \subseteq {"ok", "err"} /\ OnConnectedResults # {}
       /\ PollMax \in Nat \ {0}

Sides == {"client", "server"}
Peer(s) == IF s = "client" THEN "server" ELSE "client"
ReaderOf(s) == <<s, "reader">>
Dial == <<"client", "dial">>      \* the goroutine in Dial: sendClientACK, Connect
Hook == <<"server", "hook">>      \* the goroutine running Server.OnConnected
Actors == {Dial, Hook, ReaderOf("client"), ReaderOf("server")}

\* ackBinary, ackIDBinary, ackNotOKBinary, and the payload frames.
AckFrames == {"M", "A", "H"}
Frames == AckFrames \cup {"connect", "reply", "none"}
Verdicts == {"pending", "ok", "err"}

VARIABLES
    ready,       \* c.readiness: the readiness latch of each side
    acked,       \* c.acknowledged
    closed,      \* c.closed
    sockOpen,    \* the underlying net.Conn is still open
    wire,        \* wire[s]: frames s wrote that its peer has not read
    queue,       \* c.queue: frames read before `acknowledged`
    inFrame,     \* the frame each reader is handling
    askPending,  \* a c.waitingMessages entry of the side's one Ask
    t,           \* the local t of the server Connect poll
    pc,          \* program counter of every goroutine
    hookRes      \* what OnConnected returned ("none" while it runs)

vars == <<ready, acked, closed, sockOpen, wire, queue, inFrame, askPending, t,
          pc, hookRes>>

Init ==
    /\ ready = [s \in Sides |-> "pending"]
    /\ acked = [s \in Sides |-> FALSE]
    /\ closed = [s \in Sides |-> FALSE]
    /\ sockOpen = [s \in Sides |-> TRUE]
    /\ wire = [s \in Sides |-> <<>>]
    /\ queue = [s \in Sides |-> <<>>]
    /\ inFrame = [s \in Sides |-> "none"]
    /\ askPending = [s \in Sides |-> FALSE]
    /\ t = PollMax
    /\ pc = [a \in Actors |->
               CASE a = Hook -> "hook"
                 [] ClientKind = "silent" /\ a[1] = "client" -> "stalled"
                 [] a = Dial -> "sendAck"
                 [] OTHER -> "read"]
    /\ hookRes = "none"

-----------------------------------------------------------------------------
(* The readiness latch (waiterOnce): one-shot, the first verdict sticks.   *)

Unwait(s, r) == ready' = [ready EXCEPT ![s] = IF @ = "pending" THEN r ELSE @]

\* isAcknowledged: the atomic load of c.acknowledged.
isAcknowledged(s) == acked[s]

\* readiness.wait() returns: the latch has a verdict.
Resolved(s) == ready[s] # "pending"

\* c.write: the socket takes a frame until it is closed.
Send(s, f) == wire' = IF sockOpen[s] THEN [wire EXCEPT ![s] = Append(@, f)]
                                    ELSE wire

Goto(a, l) == pc' = [pc EXCEPT ![a] = l]

\* Close: compare-and-swap on closed, clear c.waitingMessages, reset
\* acknowledged, close the socket.  Setting the flags again is a no-op.
CloseSide(s) ==
    /\ closed' = [closed EXCEPT ![s] = TRUE]
    /\ sockOpen' = [sockOpen EXCEPT ![s] = FALSE]
    /\ acked' = [acked EXCEPT ![s] = FALSE]
    /\ askPending' = [askPending EXCEPT ![s] = FALSE]

\* Ask of a connect request: refused on a closed connection, else register
\* the wait entry and write the request.
Ask(a) ==
    LET s == a[1] IN
    IF closed[s]
    THEN /\ Goto(a, IF a = Dial THEN "done" ELSE "hookRet")
         /\ UNCHANGED <<wire, askPending>>
    ELSE /\ askPending' = [askPending EXCEPT ![s] = TRUE]
         /\ Send(s, "connect")
         /\ Goto(a, "askWait")

-----------------------------------------------------------------------------
(* The client's Dial goroutine.                                            *)

\* sendClientACK: write 'M'; a failed write closes the connection.
SendClientAck ==
    /\ pc[Dial] = "sendAck"
    /\ IF sockOpen["client"]
       THEN /\ Send("client", "M") /\ Goto(Dial, "ackWait")
            /\ UNCHANGED <<closed, sockOpen, acked, askPending>>
       ELSE /\ CloseSide("client") /\ Goto(Dial, "failed")
            /\ UNCHANGED wire
    /\ UNCHANGED <<ready, queue, inFrame, t, hookRes>>

\* sendClientACK: readiness.wait(); an error closes the connection.
DialWait ==
    /\ pc[Dial] = "ackWait"
    /\ Resolved("client")
    /\ \/ /\ ready["client"] = "ok"
          /\ Goto(Dial, "connect")
          /\ UNCHANGED <<closed, sockOpen, acked, askPending>>
       \/ /\ ready["client"] = "err"
          /\ CloseSide("client")
          /\ Goto(Dial, "failed")
    /\ UNCHANGED <<ready, wire, queue, inFrame, t, hookRes>>

\* The dialled client calls Connect (client side: askConnect, then Ask).
ClientConnect ==
    /\ pc[Dial] = "connect"
    /\ Ask(Dial)
    /\ UNCHANGED <<ready, acked, closed, sockOpen, queue, inFrame, t, hookRes>>

-----------------------------------------------------------------------------
(* The server's OnConnected hook goroutine.                                *)

\* OnConnected either returns a verdict at once or first calls Connect,
\* whose server branch resolves readiness with nil and starts the poll.
HookStart ==
    /\ pc[Hook] = "hook"
    /\ \/ /\ "connect" \in HookOps
          /\ Unwait("server", "ok")
          /\ t' = PollMax
          /\ Goto(Hook, "poll")
          /\ UNCHANGED hookRes
       \/ /\ "return" \in HookOps
          /\ \E r \in OnConnectedResults :
                hookRes' = r /\ Unwait("server", r)
          /\ Goto(Hook, "done")
          /\ UNCHANGED t
    /\ UNCHANGED <<acked, closed, sockOpen, wire, queue, inFrame, askPending>>

\* After Connect returns, OnConnected returns its verdict.
HookReturn ==
    /\ pc[Hook] = "hookRet"
    /\ \E r \in OnConnectedResults : hookRes' = r /\ Unwait("server", r)
    /\ Goto(Hook, "done")
    /\ UNCHANGED <<acked, closed, sockOpen, wire, queue, inFrame, askPending, t>>

\* The poll's update of t; the code assigns instead of decrementing.
PollNextDecrement(x) == x - 1
PollNext(x) == -1

\* One round of `for !c.isAcknowledged()`: sleep, update t, return when
\* closed (checked once t <= maxSyncWaitDur/2) or when t reaches 0.
PollStep ==
    LET t2 == PollNext(t) IN
    /\ pc[Hook] = "poll"
    /\ ~isAcknowledged("server")
    /\ t' = t2
    /\ Goto(Hook, IF (t2 <= PollMax \div 2 /\ closed["server"]) \/ t2 = 0
                  THEN "hookRet" ELSE "poll")
    /\ UNCHANGED <<ready, acked, closed, sockOpen, wire, queue, inFrame,
                   askPending, hookRes>>

\* The poll ends with `acknowledged` set: askConnect and its Ask.
PollAcked ==
    /\ pc[Hook] = "poll"
    /\ isAcknowledged("server")
    /\ Ask(Hook)
    /\ UNCHANGED <<ready, acked, closed, sockOpen, queue, inFrame, t, hookRes>>

\* The reader hands the reply to the waiting Ask (ch <- msg).
AskReceive(a) ==
    LET s == a[1] IN
    /\ pc[a] = "askWait" /\ pc[ReaderOf(s)] = "send"
    /\ askPending' = [askPending EXCEPT ![s] = FALSE]
    /\ pc' = [pc EXCEPT ![a] = IF a = Dial THEN "done" ELSE "hookRet",
                        ![ReaderOf(s)] = "read"]
    /\ UNCHANGED <<ready, acked, closed, sockOpen, wire, queue, inFrame, t,
                   hookRes>>

-----------------------------------------------------------------------------
(* The reader goroutines: startReader, handleACK, HandlePayload.           *)

ReadFails(s) == ~sockOpen[s] \/ (wire[Peer(s)] = <<>> /\ ~sockOpen[Peer(s)])

\* ReadData: take the next frame; on an error resolve readiness with it
\* and leave the loop (the deferred Close runs).
Read(s) ==
    LET r == ReaderOf(s) IN
    /\ pc[r] = "read"
    /\ \/ /\ sockOpen[s] /\ wire[Peer(s)] # <<>>
          /\ inFrame' = [inFrame EXCEPT ![s] = Head(wire[Peer(s)])]
          /\ wire' = [wire EXCEPT ![Peer(s)] = Tail(@)]
          /\ Goto(r, IF isAcknowledged(s) THEN "payload" ELSE "ack")
          /\ UNCHANGED ready
       \/ /\ ReadFails(s)
          /\ Unwait(s, "err")
          /\ Goto(r, "close")
          /\ UNCHANGED <<inFrame, wire>>
    /\ UNCHANGED <<acked, closed, sockOpen, queue, askPending, t, hookRes>>

\* handleACK, ackBinary at the server: wait for readiness first.
AckM(s) ==
    /\ pc[ReaderOf(s)] = "ack" /\ inFrame[s] = "M"
    /\ Goto(ReaderOf(s), "ackReady")
    /\ UNCHANGED <<ready, acked, closed, sockOpen, wire, queue, inFrame,
                   askPending, t, hookRes>>

\* The replies HandlePayload writes for the connect requests of a queue.
QueueReplies(q) == [i \in 1..Len(SelectSeq(q, LAMBDA f : f = "connect")) |->
                      "reply"]

\* handleQueue: dispatch every queued frame in order, then empty the queue.
handleQueue(s) ==
    /\ wire' = IF sockOpen[s] THEN [wire EXCEPT ![s] = @ \o QueueReplies(queue[s])]
                              ELSE wire
    /\ queue' = [queue EXCEPT ![s] = <<>>]

\* A plausible slip: `acknowledged` is not stored before the queue is drained.
AckReadyNoStore(s) ==
    /\ pc[ReaderOf(s)] = "ackReady"
    /\ Resolved(s)
    /\ \/ /\ ready[s] = "err"
          /\ Send(s, "H")
          /\ Goto(ReaderOf(s), "close")
          /\ UNCHANGED <<acked, queue>>
       \/ /\ ready[s] = "ok"
          /\ handleQueue(s)
          /\ Goto(ReaderOf(s), "ackWrite")
          /\ UNCHANGED acked
    /\ UNCHANGED <<ready, closed, sockOpen, inFrame, askPending, t, hookRes>>

\* handleACK, ackBinary: a readiness error is written back as 'H' and the
\* reader stops; success stores `acknowledged` and drains the queue.
AckReady(s) ==
    /\ pc[ReaderOf(s)] = "ackReady"
    /\ Resolved(s)
    /\ \/ /\ ready[s] = "err"
          /\ Send(s, "H")
          /\ Goto(ReaderOf(s), "close")
          /\ UNCHANGED <<acked, queue>>
       \/ /\ ready[s] = "ok"
          /\ acked' = [acked EXCEPT ![s] = TRUE]
          /\ handleQueue(s)
          /\ Goto(ReaderOf(s), "ackWrite")
    /\ UNCHANGED <<ready, closed, sockOpen, inFrame, askPending, t, hookRes>>

\* handleACK, ackBinary: `return c.write('A' + id)`; a failed write ends
\* the reader.
AckWrite(s) ==
    /\ pc[ReaderOf(s)] = "ackWrite"
    /\ Send(s, "A")
    /\ Goto(ReaderOf(s), IF sockOpen[s] THEN "read" ELSE "close")
    /\ UNCHANGED <<ready, acked, closed, sockOpen, queue, inFrame, askPending,
                   t, hookRes>>

\* A plausible slip: the client stores the ID but never resolves readiness.
AckIdNoUnwait(s) ==
    /\ pc[ReaderOf(s)] = "ack" /\ inFrame[s] = "A"
    /\ acked' = [acked EXCEPT ![s] = TRUE]
    /\ Goto(ReaderOf(s), "read")
    /\ UNCHANGED <<ready, closed, sockOpen, wire, queue, inFrame, askPending,
                   t, hookRes>>

\* handleACK, ackIDBinary: store `acknowledged`, resolve readiness.  The
\* handleQueue call of this branch is commented out in the code.
AckId(s) ==
    /\ pc[ReaderOf(s)] = "ack" /\ inFrame[s] = "A"
    /\ acked' = [acked EXCEPT ![s] = TRUE]
    /\ Unwait(s, "ok")
    /\ Goto(ReaderOf(s), "read")
    /\ UNCHANGED <<closed, sockOpen, wire, queue, inFrame, askPending, t,
                   hookRes>>

\* handleACK, ackNotOKBinary: resolve readiness with the error, stop.
AckNotOk(s) ==
    /\ pc[ReaderOf(s)] = "ack" /\ inFrame[s] = "H"
    /\ Unwait(s, "err")
    /\ Goto(ReaderOf(s), "close")
    /\ UNCHANGED <<acked, closed, sockOpen, wire, queue, inFrame, askPending,
                   t, hookRes>>

\* A plausible slip: the default case forgets ackNotOKBinary.
IsAckFrameNoH(f) == f \in {"M", "A"}

\* The cases of handleACK's switch; any other frame is queued.
IsAckFrame(f) == f \in AckFrames

\* handleACK, default: append the frame to c.queue.
Enqueue(s) ==
    /\ pc[ReaderOf(s)] = "ack" /\ ~IsAckFrame(inFrame[s])
    /\ queue' = [queue EXCEPT ![s] = Append(@, inFrame[s])]
    /\ Goto(ReaderOf(s), "read")
    /\ UNCHANGED <<ready, acked, closed, sockOpen, wire, inFrame, askPending,
                   t, hookRes>>

\* HandlePayload after `acknowledged`: a connect request is answered
\* (replyConnect, writeEmptyReply); a reply goes to the waiting Ask.
Payload(s) ==
    /\ pc[ReaderOf(s)] = "payload"
    /\ \/ /\ inFrame[s] = "connect"
          /\ Send(s, "reply")
          /\ Goto(ReaderOf(s), "read")
       \/ /\ inFrame[s] = "reply" /\ askPending[s]
          /\ Goto(ReaderOf(s), "send")
          /\ UNCHANGED wire
    /\ UNCHANGED <<ready, acked, closed, sockOpen, queue, inFrame, askPending,
                   t, hookRes>>

\* The deferred Close of startReader.
ReaderClose(s) ==
    /\ pc[ReaderOf(s)] = "close"
    /\ CloseSide(s)
    /\ Goto(ReaderOf(s), "done")
    /\ UNCHANGED <<ready, wire, queue, inFrame, t, hookRes>>

-----------------------------------------------------------------------------
Ends == {"done", "failed", "stalled"}

\* Every goroutine has finished or waits on a socket nobody writes to.
Quiet ==
    /\ pc[Dial] \in Ends /\ pc[Hook] \in Ends
    /\ \A s \in Sides : wire[s] = <<>> /\ pc[ReaderOf(s)] \in Ends \cup {"read"}

Terminating == Quiet /\ UNCHANGED vars

ReaderStep(s) ==
    \/ Read(s) \/ AckM(s) \/ AckReady(s) \/ AckWrite(s) \/ AckId(s)
    \/ AckNotOk(s) \/ Enqueue(s) \/ Payload(s) \/ ReaderClose(s)

DialStep == SendClientAck \/ DialWait \/ ClientConnect \/ AskReceive(Dial)

HookStep == HookStart \/ PollStep \/ PollAcked \/ AskReceive(Hook) \/ HookReturn

Next == DialStep \/ HookStep \/ (\E s \in Sides : ReaderStep(s)) \/ Terminating

\* Every goroutine that can run is scheduled; a silent peer never writes.
Spec ==
    /\ Init /\ [][Next]_vars
    /\ WF_vars(DialStep) /\ WF_vars(HookStep)
    /\ \A s \in Sides : WF_vars(ReaderStep(s))

-----------------------------------------------------------------------------
(* Properties.                                                             *)

TypeOK ==
    /\ ready \in [Sides -> Verdicts]
    /\ acked \in [Sides -> BOOLEAN] /\ closed \in [Sides -> BOOLEAN]
    /\ sockOpen \in [Sides -> BOOLEAN]
    /\ wire \in [Sides -> Seq(Frames)]
    /\ queue \in [Sides -> Seq(Frames \ AckFrames)]
    /\ inFrame \in [Sides -> Frames]
    /\ askPending \in [Sides -> BOOLEAN]
    /\ t \in -1..PollMax
    /\ hookRes \in {"none", "ok", "err"}

\* handleACK/handleQueue: once a side is acknowledged and its reader is
\* back at ReadData, no frame read before the acknowledgement is left
\* undispatched in c.queue.
QueueDrained ==
    \A s \in Sides : acked[s] /\ pc[ReaderOf(s)] = "read" => queue[s] = <<>>

\* sendClientACK: a Dial waiting on its readiness latch eventually returns,
\* with the acknowledgement or with an error.
DialCompletes == pc[Dial] = "ackWait" ~> pc[Dial] \in {"connect", "failed"}

\* The client's first Connect after Dial gets the server's answer.
ClientConnectReturns == pc[Dial] = "askWait" ~> pc[Dial] = "done"

\* Server Connect: the poll on `acknowledged` ends, by the acknowledgement,
\* by Close, or by its maxSyncWaitDur cap.
AckPollEnds == pc[Hook] = "poll" ~> pc[Hook] # "poll"

=============================================================================
