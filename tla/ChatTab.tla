------------------------------ MODULE ChatTab ------------------------------
(***************************************************************************)
(* The Playground of a browser tab (dashboard/src/lib/playground.ts): a    *)
(* store and a socket that outlive the page's components, one project at a *)
(* time, and what the browser does with sockets and timers.                *)
(***************************************************************************)
EXTENDS TurnView, FiniteSets

CONSTANTS
    Projects,           \* the user's projects
    Turns,              \* messages typed, in that order
    MaxSockets,         \* bound: sockets opened
    Null                \* no socket, project, turn or timer

ASSUME ChatTabAssumption ==
    /\ Turns \subseteq Nat \ {0} /\ MaxSockets \in Nat
    /\ Null \notin Turns \union Projects \union 1..MaxSockets

VARIABLES
    activeSocket, activeProjectId,
    reconnectTimer,     \* the socket whose end set it
    timers,             \* timers that may still fire, by the socket whose end set them
    ready,              \* socket -> readyState, "new" before it is made
    of,                 \* socket -> its project
    inbox,              \* socket -> frames that have come in
    connected,          \* PlaygroundState ...
    messages,           \* ... its assistant turns
    currentTurnId, pendingApprovals, decisions,
    overlap             \* a project was entered with an older socket of it not yet gone

storeVars == <<connected, messages, currentTurnId, pendingApprovals, decisions>>
linkVars == <<activeSocket, activeProjectId, reconnectTimer, timers, ready, of, inbox, overlap>>
tabVars == <<storeVars, linkVars>>

Sockets == 1..MaxSockets
Fresh == CHOOSE s \in Sockets : ready[s] = "new" /\ \A r \in Sockets : r < s => ready[r] # "new"

Request(d) == [kind |-> "approval.request", decision |-> d]

TabInit ==
    /\ activeSocket = Null /\ activeProjectId = Null /\ reconnectTimer = Null /\ timers = {}
    /\ ready = [s \in Sockets |-> "new"]
    /\ of = [s \in Sockets |-> Null]
    /\ inbox = [s \in Sockets |-> <<>>]
    /\ connected = FALSE /\ messages = <<>> /\ currentTurnId = Null
    /\ pendingApprovals = <<>> /\ decisions = <<>>
    /\ overlap = FALSE

\* INITIAL_STATE.
Wiped ==
    /\ connected' = FALSE /\ messages' = <<>> /\ currentTurnId' = Null
    /\ pendingApprovals' = <<>> /\ decisions' = <<>>

-----------------------------------------------------------------------------
(* WebSocket: once close() is called no message is delivered any more, and  *)
(* the close event comes later.                                             *)

Closing(states, s) ==
    IF s # Null /\ states[s] \in {"connecting", "open"} THEN [states EXCEPT ![s] = "closing"] ELSE states

\* connectSocket, past its test of activeProjectId.
Connect(states, p) ==
    /\ \E s \in Sockets : ready[s] = "new"
    /\ activeSocket' = Fresh
    /\ ready' = [states EXCEPT ![Fresh] = "connecting"]
    /\ of' = [of EXCEPT ![Fresh] = p]

\* Faulty variant: a switch leaves the old socket alone.
LeaveOpen(p) == ready

\* A switch of projects closes the old one's socket.
LeaveOld(p) == IF activeProjectId \notin {Null, p} THEN Closing(ready, activeSocket) ELSE ready

\* Faulty variant: every mount connects.
MountedAlways(p) == FALSE

Mounted(p) == activeProjectId = p /\ activeSocket # Null

\* ensureSocketFor: a project's page is mounted.
EnsureSocketFor(p) ==
    /\ ~Mounted(p)
    /\ Connect(LeaveOld(p), p)
    /\ IF activeProjectId \in {Null, p} THEN UNCHANGED storeVars ELSE Wiped
    /\ activeProjectId' = p
    /\ reconnectTimer' = Null /\ timers' = timers \ {reconnectTimer}
    /\ overlap' = (overlap \/ \E s \in Sockets : of[s] = p /\ ready[s] = "closing")
    /\ UNCHANGED inbox

\* resetPlayground: the user signs out.
ResetPlayground ==
    /\ activeProjectId # Null
    /\ ready' = Closing(ready, activeSocket)
    /\ activeSocket' = Null /\ activeProjectId' = Null
    /\ reconnectTimer' = Null /\ timers' = timers \ {reconnectTimer}
    /\ Wiped
    /\ UNCHANGED <<of, inbox, overlap>>

\* The "open" event (what the relay greets the tab with changes nothing here).
Opened(s) ==
    /\ ready[s] = "connecting"
    /\ ready' = [ready EXCEPT ![s] = "open"]
    /\ connected' = TRUE
    /\ UNCHANGED <<activeSocket, activeProjectId, reconnectTimer, timers, of, inbox, overlap>>
    /\ UNCHANGED <<messages, currentTurnId, pendingApprovals, decisions>>

\* Faulty variant: only a link that was up is made again.
ReconnectsOpened(s) == connected /\ activeProjectId = of[s]

Reconnects(s) == activeProjectId = of[s]

\* The "close" event, of a socket that was closed or that the network ended.
Closed(s) ==
    /\ ready' = [ready EXCEPT ![s] = "closed"]
    /\ inbox' = [inbox EXCEPT ![s] = <<>>]
    /\ connected' = FALSE /\ pendingApprovals' = <<>>
    /\ IF Reconnects(s) THEN timers' = timers \union {s} /\ reconnectTimer' = s
       ELSE UNCHANGED <<timers, reconnectTimer>>
    /\ UNCHANGED <<activeSocket, activeProjectId, of, overlap>>
    /\ UNCHANGED <<messages, currentTurnId, decisions>>

\* setTimeout: connectSocket, given up when the project has changed.
Fires(s) ==
    /\ s \in timers
    /\ timers' = timers \ {s}
    /\ IF activeProjectId = of[s] THEN Connect(ready, of[s]) ELSE UNCHANGED <<activeSocket, ready, of>>
    /\ UNCHANGED <<storeVars, activeProjectId, reconnectTimer, inbox, overlap>>

-----------------------------------------------------------------------------
(* handleFrame *)

\* applyEvent: the turn that currentTurnId names, and the sidebar's decisions.
ApplyEvent(f) ==
    LET i == CHOOSE j \in DOMAIN messages : messages[j].turn = currentTurnId IN
    IF currentTurnId = Null THEN UNCHANGED <<messages, currentTurnId, decisions>>
    ELSE /\ messages' = [messages EXCEPT ![i].view = ApplyToTurn(@, f)]
         /\ currentTurnId' = IF EndsTurn(f) THEN Null ELSE currentTurnId
         /\ decisions' = CASE f.kind = "tool_start" /\ ~Has(decisions, f.tool) -> Append(decisions, Tool(f.tool, "started"))
                           [] f.kind = "tool_end" /\ Has(messages[i].view.tools, f.tool) -> Mark(decisions, f.tool, f.state)
                           [] OTHER -> decisions

\* A request that is pending already is not entered again.
AddApproval(d) == pendingApprovals' = IF d \in Range(pendingApprovals) THEN pendingApprovals ELSE Append(pendingApprovals, d)

HandleFrame(s) ==
    /\ ready[s] = "open" /\ inbox[s] # <<>>
    /\ inbox' = [inbox EXCEPT ![s] = Tail(@)]
    /\ LET f == Head(inbox[s]) IN
       IF f.kind = "approval.request" THEN AddApproval(f.decision) /\ UNCHANGED <<messages, currentTurnId, decisions>>
       ELSE ApplyEvent(f) /\ UNCHANGED pendingApprovals
    /\ UNCHANGED <<connected, activeSocket, activeProjectId, reconnectTimer, timers, ready, of, overlap>>

-----------------------------------------------------------------------------
(* usePlayground: what the user does, when the socket is open.              *)

CanSend == activeSocket # Null /\ ready[activeSocket] = "open"

\* sendChat, the tab's side.
ShowTurn(t) ==
    /\ CanSend
    /\ messages' = Append(messages, [turn |-> t, view |-> NewTurn])
    /\ currentTurnId' = t
    /\ UNCHANGED <<connected, pendingApprovals, decisions, linkVars>>

\* reset, the tab's side.
ClearChat ==
    /\ currentTurnId' = Null /\ messages' = <<>> /\ decisions' = <<>> /\ pendingApprovals' = <<>>
    /\ UNCHANGED <<connected, linkVars>>

\* A prompt, entered once, leaves the stack: answered, or swept when its time is over.
Without(d) == RemoveAt(pendingApprovals, CHOOSE i \in DOMAIN pendingApprovals : pendingApprovals[i] = d)
TakeOff(d) ==
    /\ d \in Range(pendingApprovals)
    /\ pendingApprovals' = Without(d)
    /\ UNCHANGED <<connected, messages, currentTurnId, decisions, linkVars>>
=============================================================================
