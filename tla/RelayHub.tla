------------------------------ MODULE RelayHub ------------------------------
(***************************************************************************)
(* The platform's chat relay for one project (core/relay.py) and the two   *)
(* websocket routes that drive it (features/chat/router.py).  The registry *)
(* holds its lock only between awaits, so each of its sections is a step;  *)
(* what interleaves is the sends of one broadcast with everything else.    *)
(***************************************************************************)
EXTENDS Naturals, Sequences, FiniteSets

CONSTANTS
    Conns,              \* serve connections, in the order they are accepted
    Tabs,               \* chat sockets
    Names,              \* agent names a hello may bear
    None

\* A frame is a hello with the agent's name, or any other.
Event == "event"

ASSUME HubAssumption == Conns \subseteq Nat \ {0} /\ None \notin Conns \union Names /\ Event \notin Names
ASSUME NoneAssumption == None \notin [online : BOOLEAN, agent : Names \union {None}]

VARIABLES
    serve,              \* ProjectRelay.serve
    agent,              \* ProjectRelay.agent_name
    chats,              \* ProjectRelay.chats
    handler,            \* ws_serve of each connection
    out,                \* connection -> what its handler is broadcasting, to whom
    link,               \* each serve socket
    up,                 \* frames on their way from the serve process
    read,               \* connection -> frames of it the hub has taken
    tab,                \* each chat socket
    greeting,           \* tab -> the status attach_chat is about to send, or None
    shown,              \* tab -> the status shown to it last, or None
    seen,               \* tab -> connection -> the last frame it was sent or came too late for
    raced               \* tabs to which two statuses were on their way at once

hubVars == <<serve, agent, chats, handler, out, link, up, read, tab, greeting, shown, seen, raced>>

Status(online, name) == [online |-> online, agent |-> name]
Silent == [status |-> None, frame |-> 0, to |-> {}]
Sending(s, n, to) == IF to = {} THEN Silent ELSE [status |-> s, frame |-> n, to |-> to]
Telling(s) == Sending(s, 0, chats)
Relaying(n) == Sending(None, n, chats)
Without(c, t) == Sending(out[c].status, out[c].frame, out[c].to \ {t})

HubInit ==
    /\ serve = None /\ agent = None /\ chats = {}
    /\ handler = [c \in Conns |-> "new"]
    /\ out = [c \in Conns |-> Silent]
    /\ link = [c \in Conns |-> "none"]
    /\ up = [c \in Conns |-> <<>>]
    /\ read = [c \in Conns |-> 0]
    /\ tab = [t \in Tabs |-> "new"]
    /\ greeting = [t \in Tabs |-> None]
    /\ shown = [t \in Tabs |-> None]
    /\ seen = [t \in Tabs |-> [c \in Conns |-> 0]]
    /\ raced = {}

Busy(c) == out[c].to # {}

\* Senders with a status on its way to tab t; a handler that is still closing
\* the socket it replaced is about to announce itself to every tab.
StatusTo(t) ==
    {c \in Conns : handler[c] = "evicting" \/ (out[c].status # None /\ t \in out[c].to)}
        \union (IF greeting[t] = None THEN {} ELSE {None})

\* A status that starts out alone tells a tab the truth again.
NoteRaces ==
    raced' = {t \in Tabs :
        \/ tab'[t] # "closed" /\ Cardinality(StatusTo(t)') > 1
        \/ t \in raced /\ ~(StatusTo(t) = {} /\ StatusTo(t)' # {})}

-----------------------------------------------------------------------------
(* The serve socket. *)

\* attach_serve.  An evicted handler that waits for a frame may yet get one,
\* one that is broadcasting finds its socket closed when it is done.
AttachServe(c, name) ==
    LET previous == serve IN
    /\ handler[c] = "new" /\ \A d \in Conns : d < c => handler[d] # "new"
    /\ serve' = c /\ agent' = None
    /\ handler' = [handler EXCEPT ![c] = IF previous = None THEN "open" ELSE "evicting"]
    /\ link' = [d \in Conns |->
                   IF d = c THEN "up"
                   ELSE IF d # previous THEN link[d]
                   ELSE IF Busy(d) \/ handler[d] = "evicting" THEN "shut" ELSE "parting"]
    /\ out' = IF previous = None THEN [out EXCEPT ![c] = Telling(Status(TRUE, None))] ELSE out
    /\ up' = [up EXCEPT ![c] = <<name>>]
    /\ UNCHANGED <<chats, read, tab, greeting, shown, seen>>
    /\ NoteRaces

\* previous.close() has returned.
Evicted(c) ==
    /\ handler[c] = "evicting"
    /\ handler' = [handler EXCEPT ![c] = "open"]
    /\ out' = [out EXCEPT ![c] = Telling(Status(TRUE, None))]
    /\ UNCHANGED <<serve, agent, chats, link, up, read, tab, greeting, shown, seen>>
    /\ NoteRaces

\* receive_json: a hello sets the agent's name, any other frame is relayed.
Receive(c) ==
    LET name == Head(up[c])
        isHello == name # Event IN
    /\ handler[c] = "open" /\ ~Busy(c) /\ link[c] # "shut" /\ up[c] # <<>>
    /\ up' = [up EXCEPT ![c] = Tail(@)]
    /\ link' = [link EXCEPT ![c] = IF @ = "parting" THEN "shut" ELSE @]
    /\ agent' = IF isHello THEN name ELSE agent
    /\ read' = IF isHello THEN read ELSE [read EXCEPT ![c] = @ + 1]
    /\ out' = [out EXCEPT ![c] = IF isHello THEN Telling(Status(serve # None, name)) ELSE Relaying(read[c] + 1)]
    /\ UNCHANGED <<serve, chats, handler, tab, greeting, shown, seen>>
    /\ NoteRaces

\* The receive loop ends, what was still on the wire is lost: detach_serve,
\* called by whoever is still attached.
FinishIf(c, attached) ==
    /\ handler[c] = "open" /\ ~Busy(c) /\ link[c] # "up"
    /\ handler' = [handler EXCEPT ![c] = "finished"]
    /\ up' = [up EXCEPT ![c] = <<>>]
    /\ serve' = IF attached THEN None ELSE serve
    /\ agent' = IF attached THEN None ELSE agent
    /\ out' = IF attached THEN [out EXCEPT ![c] = Telling(Status(FALSE, None))] ELSE out
    /\ UNCHANGED <<chats, link, read, tab, greeting, shown, seen>>
    /\ NoteRaces

\* Faulty variant: detach does not ask whose socket is attached.
DetachServeAny(c) == FinishIf(c, TRUE)

DetachServe(c) == FinishIf(c, serve = c)

-----------------------------------------------------------------------------
(* The chat sockets. *)

Deliver(c, t) ==
    IF out[c].status # None
    THEN shown' = [shown EXCEPT ![t] = out[c].status] /\ UNCHANGED seen
    ELSE seen' = [seen EXCEPT ![t][c] = out[c].frame] /\ UNCHANGED shown

\* Faulty variant: a send that fails ends the broadcast.
SendToOrStop(c, t) ==
    /\ t \in out[c].to
    /\ out' = [out EXCEPT ![c] = IF tab[t] = "open" THEN Without(c, t) ELSE Silent]
    /\ IF tab[t] = "open" THEN Deliver(c, t) ELSE UNCHANGED <<shown, seen>>
    /\ UNCHANGED <<serve, agent, chats, handler, link, up, read, tab, greeting, raced>>

\* One _safe_send of _broadcast_chat: a socket that is gone is passed over.
SendTo(c, t) ==
    /\ t \in out[c].to
    /\ out' = [out EXCEPT ![c] = Without(c, t)]
    /\ IF tab[t] = "open" THEN Deliver(c, t) ELSE UNCHANGED <<shown, seen>>
    /\ UNCHANGED <<serve, agent, chats, handler, link, up, read, tab, greeting, raced>>

\* attach_chat reads the status in its section and sends it after.
AttachChat(t) ==
    /\ tab[t] = "new"
    /\ tab' = [tab EXCEPT ![t] = "open"]
    /\ chats' = chats \union {t}
    /\ greeting' = [greeting EXCEPT ![t] = Status(serve # None, agent)]
    /\ seen' = [seen EXCEPT ![t] = read]
    /\ UNCHANGED <<serve, agent, handler, out, link, up, read, shown>>
    /\ NoteRaces

Greet(t) ==
    /\ greeting[t] # None
    /\ greeting' = [greeting EXCEPT ![t] = None]
    /\ shown' = IF tab[t] = "open" THEN [shown EXCEPT ![t] = greeting[t]] ELSE shown
    /\ UNCHANGED <<serve, agent, chats, handler, out, link, up, read, tab, seen, raced>>

CloseTab(t) ==
    /\ tab[t] = "open"
    /\ tab' = [tab EXCEPT ![t] = "closed"]
    /\ shown' = [shown EXCEPT ![t] = None]
    /\ seen' = [seen EXCEPT ![t] = [c \in Conns |-> 0]]
    /\ raced' = raced \ {t}
    /\ UNCHANGED <<serve, agent, chats, handler, out, link, up, read, greeting>>

DetachChat(t) ==
    /\ tab[t] = "closed" /\ greeting[t] = None
    /\ tab' = [tab EXCEPT ![t] = "gone"]
    /\ chats' = chats \ {t}
    /\ UNCHANGED <<serve, agent, handler, out, link, up, read, greeting, shown, seen, raced>>

\* A tab may send once ws_chat has greeted it.
MaySend(t) == tab[t] = "open" /\ greeting[t] = None
=============================================================================
