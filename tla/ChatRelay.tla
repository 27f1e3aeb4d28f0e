----------------------------- MODULE ChatRelay -----------------------------
(***************************************************************************)
(* Dashboard tabs, the relay and a serve process that reconnects           *)
(* (features/chat/router.py, core/relay.py, cli/serve.py), with a rival    *)
(* process that serves another agent under the same project.               *)
(***************************************************************************)
EXTENDS RelayHub, ServeSession

CONSTANTS
    Agent,              \* the agent of the process
    Rival,              \* the rival's
    MaxResets           \* bound: resets sent

ASSUME AgentsAssumption == {Agent, Rival} \subseteq Names

VARIABLES
    conn,               \* the session's connection
    resets              \* resets sent so far

vars == <<hubVars, sessionVars, conn, resets>>

Init ==
    /\ HubInit
    /\ SessionInit
    /\ conn = None /\ resets = 0

-----------------------------------------------------------------------------
(* Connections. *)

\* The process connects, says hello, and its socket is attached.
Connect(c) ==
    /\ Connected
    /\ AttachServe(c, Agent)
    /\ conn' = c
    /\ UNCHANGED resets

RivalConnects(c) ==
    /\ AttachServe(c, Rival)
    /\ UNCHANGED <<sessionVars, conn, resets>>

\* The network drops a serve socket.
Cut(c) ==
    /\ link[c] = "up" /\ handler[c] = "open"
    /\ link' = [link EXCEPT ![c] = "cut"]
    /\ UNCHANGED <<serve, agent, chats, handler, out, up, read, tab, greeting, shown, seen, raced>>
    /\ UNCHANGED <<sessionVars, conn, resets>>

\* The process finds its socket closed.
Notice ==
    /\ phase = "on" /\ link[conn] # "up"
    /\ Lost
    /\ UNCHANGED <<hubVars, conn, resets>>

Hub ==
    /\ \/ \E c \in Conns : Evicted(c) \/ Receive(c) \/ DetachServe(c)
       \/ \E c \in Conns, t \in Tabs : SendTo(c, t)
       \/ \E t \in Tabs : AttachChat(t) \/ Greet(t) \/ CloseTab(t) \/ DetachChat(t)
    /\ UNCHANGED <<sessionVars, conn, resets>>

-----------------------------------------------------------------------------
(* From a tab to the process: relay_to_serve, which drops a frame when no   *)
(* process is attached, or sends it to whichever is.                        *)

Reaches == serve # None /\ serve = conn /\ link[conn] = "up" /\ phase = "on"

TypeChat(t) ==
    LET x == CHOOSE y \in Turns : stage[y] = "typed" /\ \A z \in Turns : z < y => stage[z] # "typed" IN
    /\ MaySend(t) /\ \E y \in Turns : stage[y] = "typed"
    /\ down' = IF Reaches THEN Append(down, x) ELSE down
    /\ stage' = [stage EXCEPT ![x] = IF Reaches THEN "sent" ELSE "over"]
    /\ UNCHANGED <<hubVars, phase, messages, run, waiting, holder, input, events, epoch, cut, memory, conn, resets>>

TypeReset(t) ==
    /\ MaySend(t) /\ resets < MaxResets
    /\ resets' = resets + 1
    /\ down' = IF Reaches THEN Append(down, Reset) ELSE down
    /\ UNCHANGED <<hubVars, phase, messages, run, stage, waiting, holder, input, events, epoch, cut, memory, conn>>

-----------------------------------------------------------------------------
(* From the process to the tabs.  send_lock hands frames over in the order  *)
(* they were made, so a frame is made and sent in one step.                 *)

\* On a dead socket a send may be lost in silence.
Send ==
    /\ up' = IF link[conn] = "up" THEN [up EXCEPT ![conn] = Append(@, Event)] ELSE up
    /\ UNCHANGED <<serve, agent, chats, handler, out, link, read, tab, greeting, shown, seen, raced>>

SessionSteps ==
    /\ \/ ReadChat /\ UNCHANGED hubVars
       \/ ReadReset /\ Send
       \/ \E t \in Turns :
              \/ StartTurn(t) /\ UNCHANGED hubVars
              \/ (StreamEvent(t) \/ RunEnd(t) \/ RunError(t) \/ Abort(t)) /\ Send
              \/ EventUnsent(t) /\ link[conn] # "up" /\ UNCHANGED hubVars
       \/ Reap /\ UNCHANGED hubVars
    /\ UNCHANGED <<conn, resets>>

Next ==
    \/ \E c \in Conns : Connect(c) \/ RivalConnects(c) \/ Cut(c)
    \/ Notice
    \/ Hub
    \/ \E t \in Tabs : TypeChat(t) \/ TypeReset(t)
    \/ SessionSteps

Spec == Init /\ [][Next]_vars

-----------------------------------------------------------------------------
(* Properties. *)

\* All chat sockets receive the same events from the serve peer (relay.py): from
\* the moment it is attached a tab is sent the frames of each connection one by
\* one, without gap, repetition or exchange, whoever else connects, leaves or
\* fails meanwhile.
FramesInOrder ==
    [][\A t \in Tabs, c \in Conns :
           tab[t] = "open" /\ tab'[t] = "open" => seen'[t][c] - seen[t][c] \in {0, 1}]_vars

\* The indicator of a tab is right (relay.py, attach_serve, detach_serve) once no
\* status is on its way to it: the agent is online exactly when the connection
\* that attached last has not been lost, and bears the name said last.  Only two
\* statuses on their way to a tab at once may leave it wrong.
IndicatorIsTrue ==
    \A t \in Tabs : tab[t] = "open" /\ StatusTo(t) = {} /\ t \notin raced =>
        LET attached == {c \in Conns : handler[c] # "new"}
            online == \E c \in attached : handler[c] # "finished" /\ \A d \in attached : d <= c IN
        shown[t] = Status(online, agent)
=============================================================================
