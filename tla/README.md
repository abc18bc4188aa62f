# TLA+ model of the neffos connection core (`src/conn.go`)

This directory holds TLA+ specifications of the connection state machine of
neffos, a websocket framework, and the TLC configurations that check them.
The only source file is `src/conn.go`; `spec.md` describes the intended
behaviour.

## The system

A `Conn` is one end of a websocket. Both ends run the same code, with
`IsClient()` telling them apart. Each end has:

* **One reader goroutine** (`startReader`). It reads frames. Before the
  acknowledgement it calls `handleACK`; after it, it calls `HandlePayload`
  and `handleMessage`, which dispatch to the following:
  * reply correlation: `ch <- msg` into the waiter registry;
  * `replyConnect` and `replyDisconnect` for the peer's requests;
  * `tryNamespace` and then the user's event handlers for events.

  When a read fails, the loop ends and the deferred `Close` runs.
* **User goroutines** that call:
  * `Connect`, which runs `askConnect`;
  * `NSConn.Disconnect`, which runs `askDisconnect`;
  * `DisconnectAll`;
  * `Write`, used by `Emit`;
  * `Ask`;
  * `Close`.

Each end keeps this state:

| State | Code |
|---|---|
| NS-table | `connectedNamespaces` with `connectedNamespacesMutex` |
| Per-namespace process gates | `processes`: `askConnect` holds one, `tryNamespace` waits on it |
| Waiter registry | `waitingMessages`: wait token to unbuffered channel |
| `genWait` counter | |
| `closed` flag and socket | |
| `acknowledged` flag, readiness latch, pre-ack queue | |

The two ends interact only through frames. `Ask` sends a request carrying a
fresh wait token. The peer's reader answers with an empty reply, or echoes
the request with `Err` set. The asker's reader hands the reply to the
blocked `Ask` through the channel.

## Modules

| Module | Models | Source |
|---|---|---|
| `NeffosConn` | Both ends of one connection after the acknowledgement: namespace connect and disconnect, `DisconnectAll`, `Emit`, `Ask` and reply correlation, the reader dispatch, `Close` and the close cascade | `src/conn.go` 90-103, 209-237, 324-363, 457-480, 486-704, 706-801, 819-863, 869-902 |
| `MCNeffosConn` | Instantiation for TLC: which calls each side's user code makes (`UserOps`), and the wire bound | — |
| `NsSession` | Abstract specification of the namespace protocol when the client drives: per namespace, the cycle *neither → server → both → client → neither* (`Accept`, `Join`, `Release`, `Leave`) | spec §4.4 |
| `NeffosAck` | The acknowledgement handshake: `sendClientACK`, `handleACK` (all four cases), `handleQueue`, the switch in `startReader`, the server `Connect` poll on `acknowledged`, the readiness latch, and the first request/reply after the ack | `src/conn.go` 176-297, 386-416 |
| `MCNeffosAck` | Instantiation for TLC: `PollMax = 4` poll rounds | — |

### State of `NeffosConn`

| Variable | Code |
|---|---|
| `closed[s]` | `c.closed` |
| `sockOpen[s]` | underlying `net.Conn` not yet closed |
| `ns[s]` | keys of `c.connectedNamespaces` |
| `nsLocked[s]` | `connectedNamespacesMutex` held by `DisconnectAll` across its Asks. The mutex is modelled only there, because every other holder releases it without blocking. `Free(s)` is the condition for taking it. |
| `gate[s][n]` | `c.processes.get(n)` started by `askConnect` |
| `waiting[s]` | keys of `c.waitingMessages` |
| `nextWait[s]` | `genWait` counter |
| `wire[s]` | frames `s` wrote that its peer has not yet read (FIFO, per direction) |
| `pc`, `call` | program counter and locals of every goroutine. Actors are `Sides × (CallerIds ∪ {"reader"})`. |
| `ops[s]` | user calls started (bounded by `MaxOps`) |
| `bal[s][n]` | ghost: `OnNamespaceConnected` fires minus accepted `OnNamespaceDisconnect` fires |
| `rejected` | ghost: emitted events that `tryNamespace` refused |

A message is a record with four fields: `kind` (connect, disconnect, event or
reply), `ns`, `wait` (a token `<<side, counter>>`, or none) and `err`.

### Actions

Each action is one atomic step of the goroutine, ending where the code
blocks or where another goroutine can observe an intermediate state.

**Ask**
* `Ask` covers the closed refusal, `genWait`, the expired-deadline refusal,
  registration and `Write`. A failed write (the socket is gone) returns
  `ErrWrite` and leaves the entry registered, as at 846-849.
* `AskReceive` is the rendezvous with the reader (`ch <- msg` / `<-ch`) and
  deletes the registry entry.
* `AskCancel` is `ctx.Done()`. It leaves the entry in place, as the code does.

**Connect**
* `askConnect`: gate, existing-entry return, undeclared namespace, local
  `OnNamespaceConnect` error, then `Ask`.
* `connectDone`: store the entry, fire `OnNamespaceConnected`, release the
  gate.

**Disconnect**
* `askDisconnect` and `disconnectDone`.
* `DisconnectAll` and `disconnectAllNext`. These take the lock and loop with
  `lock=false`.

**Emit and Close**
* `Emit` is `Conn.Write` of an event. `canWrite` drops events for
  namespaces that are not connected.
* `CloseBegin` is the CAS on `closed`. `CloseEnd` runs under the table lock:
  it fires the forced disconnects, clears the table and the registry, and
  closes the socket.

**WaitConnect and the network**
* `WaitConnect` is one step. It returns when the namespace is in the table
  and the connection is still acknowledged, or when its deadline fires.
  Close clears `acknowledged` together with the table, so `sockOpen`
  stands for it. A poll that finds nothing changes no state, so it is not
  a step. A WaitConnect with a nil context that never sees its namespace
  is therefore blocked in the model, where the code polls forever.
* `ConnLost` is the environment breaking the network connection under
  both ends (only where `ConnCanFail` is TRUE). Frames in flight are lost,
  writes fail, and `ReadData` fails on both sides. It is not fair: a
  connection need not break. A failed `c.write` returns false; the `Close`
  it calls on a close error (715-717) is left out, because `IsCloseError`
  is outside `src/` and the reader's failing read closes the side anyway.

**Reader**
* `Read`: on a read error the reader goes to `Close`.
* `handleWaiter`.
* `replyConnect` and `replyDisconnect` change the table. The empty reply is
  written by a separate step, `replyEmpty`, because the code stores or
  deletes the entry before writing the reply and other goroutines can act
  in between.
* `handleDefault`: `tryNamespace` and the handler, with error echoes.

User handlers are modelled by `HandlerResults`: a handler may return an
error or not. An error echo goes through `Write`, and so through `canWrite`.

## Runs

### `NeffosConn` runs

All use `MCNeffosConn`, one caller goroutine per side (two on the client in
`close_hangs_ask`), a declared namespace `n1`,
and at most `MaxWire = 3` frames in flight per direction.

| Run | Expect | Checks | What it shows |
|---|---|---|---|
| `client_drives` | pass | `TypeOK`, `NsAgreement`, `NoEventRejected`, `ClientSession` | The client connects, disconnects and emits; the server emits; handler errors are possible (MaxOps 4, about 180k states). It shows: the ends agree when idle; the gate keeps a racing event from being refused; `NeffosConn` refines `NsSession`. `TypeOK` also holds every registry key to a minted token. |
| `ask_liveness` | pass | `AskCompletes` | Both ends connect and disconnect, up to four operations each (about 350k states), and nobody emits. Every Ask returns and there is no deadlock (deadlock checked). |
| `close_cascade` | pass | `HandlersMatchTable` | Either end closes, or the network connection breaks, while the client connects, WaitConnects and runs DisconnectAll, each call with or without a deadline (MaxOps 4, about 2.5M states, 80 s). DisconnectAll's lock keeps a reader's Close from firing the forced disconnect between a disconnect Ask and its delete, so the handlers stay in step with the table. |
| `both_connect` | violation | `HandlersMatchTable` | Simultaneous Connect fires `OnNamespaceConnected` twice (spec scenario 4). |
| `late_reply` | violation | `ReplyHandedOver` | A reply that arrives after its Ask timed out blocks the reader forever (spec scenario 3 says it is dropped). |
| `disconnect_all_blocks` | violation | `AskCompletes` | DisconnectAll holds the lock across its Asks. An inbound event then deadlocks the reader. |
| `emit_overtakes_reply` | violation | `AskCompletes` | The documented server-driven pattern deadlocks. The server Connects; the client reader stores the namespace; WaitConnect returns before the reply is written; the client's Emit overtakes the reply and blocks the server reader on the gate. |
| `close_hangs_ask` | violation | `AskCompletes` | An Ask with a nil context is not released by Close (spec scenario 6). |
| `close_blocked` | violation | `CloseCompletes` | The server closes while the client's DisconnectAll (nil context) waits for a reply. The client reader's deferred Close blocks on the table lock for good, so the socket is never closed (spec 4.8). 26 steps. |

**Refinement.** `ClientSession` is `NsSession!Spec` under the mapping
`srv <- ns["server"]`, `cli <- ns["client"]`. It is checked only where the
client alone opens and closes namespaces. When both ends drive, the
protocol does not keep the cycle: see `both_connect`, and the
server-disconnect race below.

### `NeffosAck` runs

All use `MCNeffosAck`. There is one handshake, one `Connect` on each side
at most, and `PollMax = 4` poll rounds. The state space is finite, so no
constraint is needed.

| Run | Expect | Checks | What it shows |
|---|---|---|---|
| `ack_handshake` | pass | `TypeOK`, `DialCompletes`, `ClientConnectReturns`, `AckPollEnds` | OnConnected returns ok or err, either at once or after its own Connect. Dial always returns, the client's first Connect is answered, and the server's ack poll ends. |
| `early_connect` | violation | `QueueDrained` | The server stores `acknowledged` before writing `A`. A Connect in OnConnected can therefore put a request ahead of `A`. The client queues it, and the client never drains its queue. |
| `silent_client` | violation | `AckPollEnds` | With a client that never sends `M`, the poll `t = -syncWaitDur` never reaches its 10 s cap. |

Each violation is explained in the `findings` of `PROJECT.json`. Each
property of a passing run has a mutant there: a plausible slip in one
mapped definition that TLC catches with that property.

### Issues observed but not kept as runs

The project keeps at most 12 runs. These issues showed up while modelling,
with properties that are no longer part of a run:

* **Close racing a connect.** `replyConnect` or `askConnect` stores a
  namespace after `Close` has emptied the table (conn.go 574/532 vs 870-882).
  Server `close` against client `connect`/`disconnect`, MaxOps 2, reaches it.
* **Close racing a Disconnect.** `OnNamespaceDisconnect` fires twice, from
  `Close` (879) and from `askDisconnect` (654). `HandlersMatchTable` is
  violated with MaxOps 3.
* **An ungated `replyDisconnect`.** A server Disconnect read between the
  connect reply and the client's insert is answered empty. The tables then
  disagree (`NsAgreement`; server `disconnect`, client `connect`).
* **Readiness resolved by the server's own `Connect` (392) or `canWrite`
  (730).** If OnConnected then returns an error, the client's Dial still
  succeeds, contrary to spec scenario 2 and the comment at 215-216.
  NeffosAck reaches it in 16 steps (`HookOps = {"connect"}`,
  `OnConnectedResults = {"err"}`). It has no run because the project is at
  its 12-run limit.
* **A write error that closes from under the table lock.** `c.write` calls
  `Close` on a close error (715-717). A DisconnectAll whose Ask write fails
  that way would wait in Close on the mutex it holds itself. Which errors
  are close errors is decided outside `src/`, so this is not modelled.
* **Two Disconnects of one namespace at once.** With two client callers,
  both can Disconnect the same namespace concurrently. `askDisconnect`
  takes no gate and reads the NSConn before its Ask (625). The server
  answers the second request empty (664-666), so both Asks succeed and
  `OnNamespaceDisconnect` fires twice (`HandlersMatchTable`, client
  `connect`/`disconnect`, two callers).
* **Emit during one's own Disconnect.** With two client callers, an Emit
  made while the same side's Disconnect is in flight is refused by the
  peer. Spec §4.5 expects this, so the runs keep one caller per side.

### Deadlock checking

Deadlock is not checked in four passing runs:

* `client_drives` and `ack_handshake`: the code really can stop there.
  See `emit_overtakes_reply` and `early_connect`.
* `close_cascade`: after Close the connection stops by design, and a
  cancelled Ask's late reply blocks the reader (`late_reply`).

`Terminating` allows the final stutter only when every goroutine is idle or
finished and no frame is in flight.

### Bounds

* **One namespace.** All the races found involve a single namespace.
  DisconnectAll's loop then runs one Ask and the empty-table exit. Two
  namespaces with deadlines (`close_cascade`) take over 15 minutes.
* **MaxOps 3-4 per side.** Enough for a connect/disconnect/reconnect cycle
  against a concurrent peer operation. `client_drives`, `ask_liveness`
  and `close_cascade` use 4.
* **One caller per side** in the passing runs. With two callers,
  `ask_liveness` runs for more than 15 minutes. In `client_drives`, two
  callers trip over the spec's own expected refusal (§4.5) and over the
  double Disconnect above.
* **MaxWire 3.** Bounds pipelined emits and never cuts a reply, since one
  caller per side has at most one request in flight.
* **Deadlines.** A context deadline is a nondeterministic choice: refused at
  once, or expiring during the wait.
* **Poll time.** In `NeffosAck`, time is counted in poll rounds. With the
  code's assignment `t` stays at -1. With a decrement, it would reach 0
  after `PollMax` rounds.

### Fairness

Both specs assume weak fairness for the steps of each goroutine:

* Go schedules every runnable goroutine.
* A context deadline always fires.

User calls (`Call`) and the network failure (`ConnLost`) are not fair:
user code need not call anything, and a connection need not break.
A goroutine blocked on a lock, a gate, a channel or the readiness latch is
not enabled, so fairness does not make it run. In `silent_client` the
client never writes: nothing in the code obliges a peer to acknowledge.

## Not modelled, and the plan

Done so far:

* The post-ack core (`NeffosConn`).
* The acknowledgement handshake (`NeffosAck`).
* The abstract namespace session and its refinement (`NsSession`,
  `ClientSession`).
* `WaitConnect`, and a broken network connection as a fault (`ConnLost`).

Still open, and why these remain open:

1. **A composition of `NeffosAck` and `NeffosConn`.** `NeffosConn` starts in
   the acknowledged state. The only interaction between the two, the
   request that can overtake `A`, is already represented in `NeffosAck` by a
   connect request. A composed module would multiply the two state spaces
   and would check nothing the two modules do not already check.
2. **Liveness of the namespace session.** The property would be that the
   two tables eventually agree. It fails in every scenario the runs cover:
   * a timed-out Connect leaves the server holding the namespace until a
     retry;
   * a peer emit can deadlock the connect (`emit_overtakes_reply`);
   * when both ends drive, races leave the tables disagreeing for good.

   A passing run would need a scenario without any of these, which checks
   little beyond `NsAgreement`.
3. **Not modelled, by design:**
   * Native-only mode: every operation returns at once.
   * The transport beyond a FIFO per direction and a break of the whole
     connection: read timeouts, partial frames and the HTTP upgrade.
   * Rooms, the stack exchange, serialization, and the server-wide waiter
     table: their code is outside `src/`.
   * The readiness latch itself (`waiterOnce`): also outside `src/`. It is
     modelled from the spec as a sticky one-shot verdict.
