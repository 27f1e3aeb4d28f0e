--------------------------- MODULE RelayApproval ---------------------------
(***************************************************************************)
(* RelayApprovalHandler of hexgate/cli/serve.py: the approval_handler that *)
(* asks the connected playground over the serve WebSocket.  Tool calls     *)
(* (asyncio tasks, several at a time under asyncio.gather) run __call__;   *)
(* _serve_loop binds and unbinds the socket; approval.reply frames run     *)
(* resolve in tasks of their own.  One action is the code one task runs    *)
(* between two awaits.                                                     *)
(***************************************************************************)
CONSTANTS
    Calls,              \* executions of __call__, each with a fresh decision_id
    Sockets,            \* successive serve connections (bounds the reconnects)
    NoSocket,           \* _ws is None
    Free,               \* a send lock nobody holds
    Stream              \* the other senders of the connection (_safe_send)

ASSUME NoSocketAssumption == NoSocket \notin Sockets
ASSUME LockHolders == Free \notin Calls /\ Stream \notin Calls /\ Free # Stream

VARIABLES
    pc,                 \* where each __call__ is
    sock,               \* the ws it captured
    evt,                \* its asyncio.Event is set
    box,                \* its box["allowed"]
    pending,            \* the keys of _pending
    ws,                 \* _ws
    line,               \* state of each connection
    lock,               \* holder of each connection's send_lock
    wire,               \* approval.reply frames under way: <<call, allowed>>
    granted             \* history: the calls a person has allowed

approvalVars == <<pc, sock, evt, box, pending, ws, line, lock, wire, granted>>

\* "lock": waiting for send_lock; "sending": in ws.send; "waiting": in
\* wait_for(evt.wait()); "expiring": the TTL timer has fired and cancelled the
\* wait, the task has not run again yet.
Live == {"lock", "sending", "waiting", "expiring"}

\* "refused": box said no; "unsent": send failed; "offline": no socket bound;
\* "cancelled": the task was cancelled.  All but "approved" keep the tool from
\* running.
Done == {"approved", "refused", "unsent", "offline", "cancelled"}

TypeOK ==
    /\ pc \in [Calls -> {"idle"} \union Live \union Done]
    /\ sock \in [Calls -> Sockets \union {NoSocket}]
    /\ evt \in [Calls -> BOOLEAN]
    /\ box \in [Calls -> BOOLEAN]
    /\ pending \subseteq Calls
    /\ ws \in Sockets \union {NoSocket}
    /\ line \in [Sockets -> {"new", "open", "dead", "gone"}]
    /\ lock \in [Sockets -> Calls \union {Free, Stream}]
    /\ wire \subseteq Calls \X BOOLEAN
    /\ granted \subseteq Calls

ApprovalInit ==
    /\ pc = [c \in Calls |-> "idle"]
    /\ sock = [c \in Calls |-> NoSocket]
    /\ evt = [c \in Calls |-> FALSE]
    /\ box = [c \in Calls |-> FALSE]
    /\ pending = {}
    /\ ws = NoSocket
    /\ line = [s \in Sockets |-> "new"]
    /\ lock = [s \in Sockets |-> Free]
    /\ wire = {}
    /\ granted = {}

-----------------------------------------------------------------------------
(* The connection: _serve_loop and the peer.                               *)

\* connect() succeeds and bind_socket takes the socket and a fresh send lock.
\* run_serve opens the next connection only after _serve_loop has torn down
\* the last one: unbound it, and awaited or cancelled the tasks it dispatched.
Bind(s) ==
    /\ ws = NoSocket
    /\ \A c \in Calls : pc[c] \notin Live
    /\ line[s] = "new"
    /\ line' = [line EXCEPT ![s] = "open"]
    /\ ws' = s
    /\ UNCHANGED <<pc, sock, evt, box, pending, lock, wire, granted>>

\* The transport is lost; the read loop has not noticed yet.
Drop(s) ==
    /\ line[s] = "open"
    /\ line' = [line EXCEPT ![s] = "dead"]
    /\ UNCHANGED <<pc, sock, evt, box, pending, ws, lock, wire, granted>>

\* Faulty variant: entries are answered but stay registered.
UnbindKeepsEntries(s) ==
    /\ ws = s
    /\ line[s] \in {"open", "dead"}
    /\ line' = [line EXCEPT ![s] = "gone"]
    /\ box' = [c \in Calls |-> IF c \in pending THEN FALSE ELSE box[c]]
    /\ evt' = [c \in Calls |-> c \in pending \/ evt[c]]
    /\ ws' = NoSocket
    /\ UNCHANGED <<pc, sock, pending, lock, wire, granted>>

\* Faulty variant: entries are dropped and nobody is woken.
UnbindWakesNobody(s) ==
    /\ ws = s
    /\ line[s] \in {"open", "dead"}
    /\ line' = [line EXCEPT ![s] = "gone"]
    /\ pending' = {}
    /\ ws' = NoSocket
    /\ UNCHANGED <<pc, sock, evt, box, lock, wire, granted>>

\* The read loop ends and its finally block runs unbind_socket.
Unbind(s) ==
    /\ ws = s
    /\ line[s] \in {"open", "dead"}
    /\ line' = [line EXCEPT ![s] = "gone"]
    /\ box' = [c \in Calls |-> IF c \in pending THEN FALSE ELSE box[c]]
    /\ evt' = [c \in Calls |-> c \in pending \/ evt[c]]
    /\ pending' = {}
    /\ ws' = NoSocket
    /\ UNCHANGED <<pc, sock, lock, wire, granted>>

\* Any other send on the connection: stream events, reset ack, error echo.
StreamLock(s) ==
    /\ line[s] \in {"open", "dead"}
    /\ lock[s] = Free
    /\ lock' = [lock EXCEPT ![s] = Stream]
    /\ UNCHANGED <<pc, sock, evt, box, pending, ws, line, wire, granted>>

StreamUnlock(s) ==
    /\ lock[s] = Stream
    /\ lock' = [lock EXCEPT ![s] = Free]
    /\ UNCHANGED <<pc, sock, evt, box, pending, ws, line, wire, granted>>

-----------------------------------------------------------------------------
(* __call__.                                                               *)

\* No socket is bound: denied without asking.
CallOffline(c) ==
    /\ pc[c] = "idle"
    /\ ws = NoSocket
    /\ pc' = [pc EXCEPT ![c] = "offline"]
    /\ UNCHANGED <<sock, evt, box, pending, ws, line, lock, wire, granted>>

\* Capture the socket and register in _pending before anything is sent.
CallRegister(c) ==
    /\ pc[c] = "idle"
    /\ ws # NoSocket
    /\ pc' = [pc EXCEPT ![c] = "lock"]
    /\ sock' = [sock EXCEPT ![c] = ws]
    /\ evt' = [evt EXCEPT ![c] = FALSE]
    /\ box' = [box EXCEPT ![c] = FALSE]
    /\ pending' = pending \union {c}
    /\ UNCHANGED <<ws, line, lock, wire, granted>>

\* async with send_lock: the frame starts onto the captured socket.
TakeSendLock(c) ==
    /\ pc[c] = "lock"
    /\ lock[sock[c]] = Free
    /\ lock' = [lock EXCEPT ![sock[c]] = c]
    /\ pc' = [pc EXCEPT ![c] = "sending"]
    /\ UNCHANGED <<sock, evt, box, pending, ws, line, wire, granted>>

\* Faulty variant: the lock is not released after a good send.
SendOkKeepsLock(c) ==
    /\ pc[c] = "sending"
    /\ line[sock[c]] = "open"
    /\ pc' = [pc EXCEPT ![c] = "waiting"]
    /\ UNCHANGED <<sock, evt, box, pending, ws, line, lock, wire, granted>>

\* ws.send returns.
SendOk(c) ==
    /\ pc[c] = "sending"
    /\ line[sock[c]] = "open"
    /\ lock' = [lock EXCEPT ![sock[c]] = Free]
    /\ pc' = [pc EXCEPT ![c] = "waiting"]
    /\ UNCHANGED <<sock, evt, box, pending, ws, line, wire, granted>>

\* json.dumps or ws.send raises: deny, whatever the box says, and unregister.
SendFail(c) ==
    /\ pc[c] = "sending"
    /\ lock' = [lock EXCEPT ![sock[c]] = Free]
    /\ pc' = [pc EXCEPT ![c] = "unsent"]
    /\ pending' = pending \ {c}
    /\ UNCHANGED <<sock, evt, box, ws, line, wire, granted>>

\* What __call__ returns when it leaves the try block.
Verdict(c) == IF box[c] THEN "approved" ELSE "refused"

\* The event was set: wait_for returns and so does __call__.
Wake(c) ==
    /\ pc[c] = "waiting"
    /\ evt[c]
    /\ pc' = [pc EXCEPT ![c] = Verdict(c)]
    /\ pending' = pending \ {c}
    /\ UNCHANGED <<sock, evt, box, ws, line, lock, wire, granted>>

\* The TTL timer fires and cancels the wait; the task is only scheduled.  It
\* may find the event already set by a reply whose wake-up is still queued.
Expire(c) ==
    /\ pc[c] = "waiting"
    /\ pc' = [pc EXCEPT ![c] = "expiring"]
    /\ UNCHANGED <<sock, evt, box, pending, ws, line, lock, wire, granted>>

\* The task runs: TimeoutError is logged as a denial, the entry is popped, and
\* box["allowed"] is what is returned.
ExpireReturn(c) ==
    /\ pc[c] = "expiring"
    /\ pc' = [pc EXCEPT ![c] = Verdict(c)]
    /\ pending' = pending \ {c}
    /\ UNCHANGED <<sock, evt, box, ws, line, lock, wire, granted>>

\* The task is cancelled (teardown after the grace period, or the run itself):
\* async with releases the lock and the finally clause unregisters.
Cancel(c) ==
    /\ pc[c] \in Live
    /\ pc' = [pc EXCEPT ![c] = "cancelled"]
    /\ pending' = pending \ {c}
    /\ lock' = IF pc[c] = "sending" THEN [lock EXCEPT ![sock[c]] = Free] ELSE lock
    /\ UNCHANGED <<sock, evt, box, ws, line, wire, granted>>

-----------------------------------------------------------------------------
(* Replies.                                                                *)

\* Somebody at a playground tab answers a request whose frame has left.  Tabs
\* may answer twice, and differently.
Reply(c, allowed) ==
    /\ pc[c] \in {"sending", "waiting", "expiring"}
    /\ wire' = wire \union {<<c, allowed>>}
    /\ granted' = IF allowed THEN granted \union {c} ELSE granted
    /\ UNCHANGED <<pc, sock, evt, box, pending, ws, line, lock>>

\* The frame's task runs resolve: pop the entry, then fill the box and set the
\* event.  A decision_id that is not registered changes nothing.  A reply lost
\* with its connection is one that never gets here: nothing obliges it to.
Resolve(c, allowed) ==
    /\ <<c, allowed>> \in wire
    /\ wire' = wire \ {<<c, allowed>>}
    /\ IF c \in pending
       THEN /\ pending' = pending \ {c}
            /\ box' = [box EXCEPT ![c] = allowed]
            /\ evt' = [evt EXCEPT ![c] = TRUE]
       ELSE UNCHANGED <<pending, box, evt>>
    /\ UNCHANGED <<pc, sock, ws, line, lock, granted>>

-----------------------------------------------------------------------------
ConnStep(s) == Bind(s) \/ Drop(s) \/ Unbind(s) \/ StreamLock(s) \/ StreamUnlock(s)

CallStep(c) ==
    \/ CallOffline(c) \/ CallRegister(c) \/ TakeSendLock(c) \/ SendOk(c) \/ SendFail(c)
    \/ Wake(c) \/ Expire(c) \/ ExpireReturn(c) \/ Cancel(c)

ReplyStep(c, allowed) == Reply(c, allowed) \/ Resolve(c, allowed)

ApprovalNext ==
    \/ \E s \in Sockets : ConnStep(s)
    \/ \E c \in Calls : CallStep(c)
    \/ \E c \in Calls, allowed \in BOOLEAN : ReplyStep(c, allowed)

\* The event loop runs every ready task, timers fire, and ws.send ends one way
\* or the other (the keepalive ping closes a dead peer).  asyncio.Lock is FIFO,
\* so a waiter gets it even if others keep coming: strong fairness.  People and
\* networks owe nothing.
ApprovalFairness ==
    /\ \A s \in Sockets : WF_approvalVars(StreamUnlock(s))
    /\ \A c \in Calls :
        /\ SF_approvalVars(TakeSendLock(c))
        /\ WF_approvalVars(SendOk(c) \/ SendFail(c))
        /\ WF_approvalVars(Wake(c))
        /\ WF_approvalVars(Expire(c))
        /\ WF_approvalVars(ExpireReturn(c))

ApprovalSpec == ApprovalInit /\ [][ApprovalNext]_approvalVars

FairApprovalSpec == ApprovalSpec /\ ApprovalFairness

-----------------------------------------------------------------------------
(* Safety.                                                                 *)

\* The registry is exactly the calls still owed an answer, all on the bound
\* socket: no entry outlives its call or its connection, and no request whose
\* frame may be on the wire is missing (its reply would be dropped).
PendingIsOwed ==
    /\ pending = {c \in Calls : pc[c] \in Live /\ ~evt[c]}
    /\ \A c \in pending : sock[c] = ws

\* A call that waits on a connection that is gone has been released: teardown
\* leaves nobody parked until the TTL.
NoneStranded == \A c \in Calls : pc[c] \in Live /\ sock[c] # ws => evt[c]

\* A tool runs only if a person allowed that very call.
ApprovedWasGranted == \A c \in Calls : pc[c] = "approved" => c \in granted

\* One frame at a time per connection: a call is in ws.send only while it holds
\* that connection's lock.
OneSender == \A c \in Calls : pc[c] = "sending" => lock[sock[c]] = c

\* The first answer stands: neither a second reply nor the disconnect that
\* follows a grant changes a box whose event is set.
FirstAnswerStands == [][\A c \in Calls : evt[c] => evt'[c] /\ box'[c] = box[c]]_approvalVars

-----------------------------------------------------------------------------
(* The abstract gate.                                                      *)

\* A call as the gate sees it.
GateStatus(c) ==
    CASE pc[c] = "idle" -> "idle"
      [] pc[c] \in Live -> "open"
      [] pc[c] = "approved" -> "approved"
      [] OTHER -> "denied"

Gate == INSTANCE ApprovalGate WITH status <- [c \in Calls |-> GateStatus(c)]

\* The handler implements the gate, its liveness included: whatever the tabs
\* and the connection do, every call that asks is answered.
GateSafety == Gate!Safety
GateSpec == Gate!Spec
=============================================================================
