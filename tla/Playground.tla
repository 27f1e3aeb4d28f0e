----------------------------- MODULE Playground -----------------------------
(***************************************************************************)
(* A Playground tab and, in each project, the relay with a serve process   *)
(* that answers it (features/chat/router.py, cli/serve.py): the user moves *)
(* between projects, signs out, types, resets and answers prompts, while   *)
(* sockets drop and close late.                                            *)
(***************************************************************************)
EXTENDS ChatTab

CONSTANTS
    Guarded,            \* the turns whose run calls a tool that needs approval
    MaxLetters,         \* bound: text deltas of a run
    MaxVisits,          \* bound: pages mounted and sign-outs
    MaxDrops            \* bound: sockets the network ends

VARIABLES
    up,                 \* project -> frames on their way from the tab to the process
    run,                \* turn -> its run: "typed", "sent", "waiting", "running", "over"
    home,               \* turn -> the project it was typed in
    letters,            \* turn -> its text so far
    gate,               \* turn -> its call that needs approval
    visits, drops,
    hasty,              \* a message was sent before the last run was over and its frames read
    unseen,             \* prompts the tab had no socket for, or dropped with it, or swept
    late                \* an old socket's close came after a new one was made

serveVars == <<up, run, home, letters, gate>>
history == <<visits, drops, hasty, unseen, late>>
vars == <<tabVars, serveVars, history>>

Init ==
    /\ TabInit
    /\ up = [p \in Projects |-> <<>>]
    /\ run = [t \in Turns |-> "typed"]
    /\ home = [t \in Turns |-> Null]
    /\ letters = [t \in Turns |-> <<>>]
    /\ gate = [t \in Turns |-> "none"]
    /\ visits = 0 /\ drops = 0
    /\ hasty = FALSE /\ unseen = {} /\ late = FALSE

Alive(p) == {t \in Turns : home[t] = p /\ run[t] \in {"sent", "waiting", "running"}}
Asking(p) == {t \in Turns : home[t] = p /\ gate[t] = "open"}
Listening(p) == {s \in Sockets : of[s] = p /\ ready[s] = "open"}

-----------------------------------------------------------------------------
(* The tab. *)

\* What the tab drops with its store it cannot answer any more.
Visit(p) ==
    /\ visits < MaxVisits /\ visits' = visits + 1
    /\ EnsureSocketFor(p)
    /\ unseen' = unseen \union Asking(p) \union (IF activeProjectId = Null THEN {} ELSE Asking(activeProjectId))
    /\ UNCHANGED <<serveVars, drops, hasty, late>>

SignOut ==
    /\ visits < MaxVisits /\ visits' = visits + 1
    /\ ResetPlayground
    /\ unseen' = unseen \union Asking(activeProjectId)
    /\ UNCHANGED <<serveVars, drops, hasty, late>>

Open(s) == Opened(s) /\ UNCHANGED <<serveVars, history>>

Drop(s) ==
    /\ drops < MaxDrops /\ drops' = drops + 1
    /\ ready[s] \in {"connecting", "open"}
    /\ Closed(s)
    /\ unseen' = unseen \union Asking(of[s])
    /\ UNCHANGED <<serveVars, visits, hasty, late>>

CloseEvent(s) ==
    /\ ready[s] = "closing"
    /\ Closed(s)
    /\ late' = (late \/ (activeSocket # Null /\ ready[activeSocket] = "open"))
    /\ UNCHANGED <<serveVars, visits, drops, hasty, unseen>>

Fire(s) == Fires(s) /\ UNCHANGED <<serveVars, history>>
Receive(s) == HandleFrame(s) /\ UNCHANGED <<serveVars, history>>

Upstream(frames) == up' = [up EXCEPT ![activeProjectId] = @ \o frames]
Chat(t) == [kind |-> "chat", turn |-> t]
Reply(d, allowed) == [kind |-> "approval.reply", turn |-> d, allowed |-> allowed]

SendChat(t) ==
    /\ run[t] = "typed" /\ \A u \in Turns : u < t => run[u] # "typed"
    /\ ShowTurn(t)
    /\ Upstream(<<Chat(t)>>)
    /\ run' = [run EXCEPT ![t] = "sent"]
    /\ home' = [home EXCEPT ![t] = activeProjectId]
    /\ hasty' = (hasty \/ Alive(activeProjectId) # {} \/ currentTurnId # Null \/ inbox[activeSocket] # <<>>)
    /\ UNCHANGED <<letters, gate, visits, drops, unseen, late>>

\* Faulty variant: the prompts are cleared, their calls left waiting.
DenyNone == <<>>

\* Every prompt on the screen is denied, then the conversation is reset (the
\* process's own history is ServeSession's).
DenyAll == [i \in DOMAIN pendingApprovals |-> Reply(pendingApprovals[i], FALSE)]

ResetChat ==
    /\ messages # <<>>
    /\ ClearChat
    /\ IF CanSend THEN Upstream(DenyAll) ELSE UNCHANGED up
    /\ UNCHANGED <<run, home, letters, gate, history>>

Respond(d, allowed) ==
    /\ CanSend
    /\ TakeOff(d)
    /\ Upstream(<<Reply(d, allowed)>>)
    /\ UNCHANGED <<run, home, letters, gate, history>>

\* The sweep, once a second, by the browser's clock against an expires_at that the
\* process stamped by its own, before it waited for the lock, sent, and began to wait
\* for the TTL (serve.py:144): the prompt may go early or late, whatever the call does.
Sweep(d) ==
    /\ TakeOff(d)
    /\ unseen' = unseen \union {d}
    /\ UNCHANGED <<serveVars, visits, drops, hasty, late>>

-----------------------------------------------------------------------------
(* The relay and the process of a project: one turn at a time, and every    *)
(* frame to every socket of the project.                                    *)

Broadcast(p, frames) ==
    /\ inbox' = [s \in Sockets |-> IF s \in Listening(p) THEN inbox[s] \o frames ELSE inbox[s]]
    /\ UNCHANGED <<storeVars, activeSocket, activeProjectId, reconnectTimer, timers, ready, of, overlap>>

Settled(t, allowed) == IF gate[t] = "open" THEN (IF allowed THEN "allowed" ELSE "denied") ELSE gate[t]

\* A frame is read: a turn waits for the ones before, a reply goes to its call.
Read(p) ==
    /\ up[p] # <<>>
    /\ up' = [up EXCEPT ![p] = Tail(@)]
    /\ LET f == Head(up[p]) IN
       \/ f.kind = "chat" /\ run' = [run EXCEPT ![f.turn] = "waiting"] /\ UNCHANGED gate
       \/ f.kind = "approval.reply" /\ gate' = [gate EXCEPT ![f.turn] = Settled(f.turn, f.allowed)] /\ UNCHANGED run
    /\ UNCHANGED <<tabVars, home, letters, history>>

Begin(t) ==
    /\ run[t] = "waiting" /\ \A u \in Turns : home[u] = home[t] => run[u] # "running"
    /\ run' = [run EXCEPT ![t] = "running"]
    /\ Broadcast(home[t], <<RunStart>>)
    /\ UNCHANGED <<up, home, letters, gate, history>>

Say(t) ==
    /\ run[t] = "running" /\ gate[t] # "open" /\ Len(letters[t]) < MaxLetters
    /\ LET letter == <<t, Len(letters[t]) + 1>> IN
       /\ letters' = [letters EXCEPT ![t] = Append(@, letter)]
       /\ Broadcast(home[t], <<BlockDelta(t, "text", <<letter>>)>>)
    /\ UNCHANGED <<up, run, home, gate, history>>

\* A guarded tool asks: one per run here.
Ask(t) ==
    /\ t \in Guarded /\ run[t] = "running" /\ gate[t] = "none"
    /\ gate' = [gate EXCEPT ![t] = "open"]
    /\ Broadcast(home[t], <<ToolStart(t), Request(t)>>)
    /\ unseen' = IF Listening(home[t]) = {} THEN unseen \union {t} ELSE unseen
    /\ UNCHANGED <<up, run, home, letters, visits, drops, hasty, late>>

\* The TTL of the process, by its own clock.
Expire(t) ==
    /\ gate[t] = "open"
    /\ gate' = [gate EXCEPT ![t] = "expired"]
    /\ UNCHANGED <<tabVars, up, run, home, letters, history>>

\* The run ends with its answer, or with an error.
End(t) ==
    /\ run[t] = "running" /\ gate[t] # "open"
    /\ run' = [run EXCEPT ![t] = "over"]
    /\ LET state == IF gate[t] = "allowed" THEN "completed" ELSE "failed"
           tools == IF gate[t] = "none" THEN <<>> ELSE <<ToolEnd(t, state)>> IN
       \E last \in {RunEnd(letters[t]), ErrorEvent} : Broadcast(home[t], Append(tools, last))
    /\ UNCHANGED <<up, home, letters, gate, history>>

Next ==
    \/ \E p \in Projects : Visit(p) \/ Read(p)
    \/ SignOut \/ ResetChat
    \/ \E s \in Sockets : Open(s) \/ Drop(s) \/ CloseEvent(s) \/ Fire(s) \/ Receive(s)
    \/ \E t \in Turns : SendChat(t) \/ Begin(t) \/ Say(t) \/ Ask(t) \/ Expire(t) \/ End(t) \/ Sweep(t)
    \/ \E t \in Turns, allowed \in BOOLEAN : Respond(t, allowed)

Spec == Init /\ [][Next]_vars

-----------------------------------------------------------------------------
(* Properties. *)

\* A switch of projects and a sign-out leave nothing on the screen
\* (playground.ts, ensureSocketFor, resetPlayground): every turn, letter, tool
\* and prompt shown is of the project whose page is open.  Only a project that
\* is entered again before its old socket is gone gets a second socket that
\* nothing closes.
NothingCrosses ==
    ~overlap =>
        /\ \A i \in DOMAIN messages :
               /\ home[messages[i].turn] = activeProjectId
               /\ \A k \in DOMAIN messages[i].view.text : home[messages[i].view.text[k][1]] = activeProjectId
        /\ \A i \in DOMAIN decisions : home[decisions[i].id] = activeProjectId
        /\ \A i \in DOMAIN pendingApprovals : home[pendingApprovals[i]] = activeProjectId

\* A turn shows its own run (playground.ts, currentTurnId): each letter once and in
\* its order, and all of them when it ends, whatever sockets dropped, as long as
\* the user waits for a run to be over before the next message.
OneAnswerPerTurn ==
    ~overlap /\ ~hasty =>
        \A i \in DOMAIN messages :
            LET t == messages[i].turn
                text == messages[i].view.text IN
            /\ \A k \in DOMAIN text : text[k][1] = t
            /\ \A j, k \in DOMAIN text : j < k => text[j][2] < text[k][2]
            /\ ~messages[i].view.streaming => run[t] = "over" /\ (messages[i].view.failed \/ text = letters[t])

\* A call that waits for approval can be answered (playground.ts,
\* respondToApproval, reset): its prompt is on the screen, or its request or its
\* reply is on the way, unless the tab's socket dropped, its page changed or its own
\* clock swept the prompt since.
NoPromptSwallowed ==
    \A t \in Turns : gate[t] = "open" /\ t \notin unseen /\ ~late /\ ~overlap =>
        \/ t \in Range(pendingApprovals)
        \/ \E s \in Sockets : Request(t) \in Range(inbox[s])
        \/ \E i \in DOMAIN up[home[t]] : up[home[t]][i].kind = "approval.reply" /\ up[home[t]][i].turn = t

\* The tab is never left without a way back (playground.ts, connectSocket): in a
\* project the socket is open or being made, or a timer will make one; and the
\* relay status tells the truth unless an old socket's close event comes late.
LinkIsLive ==
    /\ activeProjectId # Null => ready[activeSocket] \in {"connecting", "open"} \/ \E s \in timers : of[s] = activeProjectId
    /\ activeProjectId = Null => \A s \in Sockets : ready[s] \notin {"connecting", "open"} \/ overlap
    /\ ~late /\ ~overlap => (connected <=> CanSend)
=============================================================================
