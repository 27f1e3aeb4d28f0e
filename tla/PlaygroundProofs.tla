-------------------------- MODULE PlaygroundProofs --------------------------
(***************************************************************************)
(* Proofs about Playground, for any number of projects, messages, sockets, *)
(* page changes and drops.                                                 *)
(*                                                                         *)
(* The invariant follows the link first: as long as no project is entered  *)
(* with an old socket of it left, one socket at most can hear anything, it *)
(* is the active one and of the open project.  Then what it hears is of    *)
(* that project; and of the turn that currentTurnId names, if the user     *)
(* waited for the runs before it.                                          *)
(***************************************************************************)
EXTENDS Playground, FiniteSetTheorems, WellFoundedInduction, TLAPS

-----------------------------------------------------------------------------
(* Types.                                                                  *)

Letters == Turns \X Nat
Calls == [id : Turns, state : {"started", "completed", "failed"}]
Views == [text : Seq(Letters), reasoning : {<< >>}, tools : Seq(Calls), streaming : BOOLEAN, failed : BOOLEAN]

\* What the process of a project sends to its sockets, and what it is sent.
BareFrames == {RunStart, ErrorEvent}
CallFrames == {ToolStart(t) : t \in Turns} \union {Request(t) : t \in Turns}
ToolEndFrames == {ToolEnd(t, state) : t \in Turns, state \in {"completed", "failed"}}
DeltaFrames == {BlockDelta(letter[1], "text", <<letter>>) : letter \in Letters}
RunEndFrames == {RunEnd(message) : message \in Seq(Letters)}
Frames == BareFrames \union CallFrames \union ToolEndFrames \union DeltaFrames \union RunEndFrames
Upward == [kind : {"chat"}, turn : Turns] \union [kind : {"approval.reply"}, turn : Turns, allowed : BOOLEAN]

LinkType ==
    /\ activeSocket \in Sockets \union {Null} /\ activeProjectId \in Projects \union {Null}
    /\ reconnectTimer \in Sockets \union {Null} /\ timers \subseteq Sockets
    /\ ready \in [Sockets -> {"new", "connecting", "open", "closing", "closed"}]
    /\ of \in [Sockets -> Projects \union {Null}]
    /\ connected \in BOOLEAN /\ overlap \in BOOLEAN /\ late \in BOOLEAN

ShownType ==
    /\ inbox \in [Sockets -> Seq(Frames)]
    /\ messages \in Seq([turn : Turns, view : Views])
    /\ currentTurnId \in Turns \union {Null}
    /\ pendingApprovals \in Seq(Turns) /\ decisions \in Seq(Calls)

RunType ==
    /\ up \in [Projects -> Seq(Upward)]
    /\ run \in [Turns -> {"typed", "sent", "waiting", "running", "over"}]
    /\ home \in [Turns -> Projects \union {Null}]
    /\ letters \in [Turns -> Seq(Letters)]
    /\ gate \in [Turns -> {"none", "open", "allowed", "denied", "expired"}]
    /\ hasty \in BOOLEAN /\ unseen \subseteq Turns

-----------------------------------------------------------------------------
(* The link.                                                               *)

IsLive(s) == ready[s] \in {"connecting", "open"}

\* A socket has a project once it is made, and a timer is of one that has gone.
SocketsAreMade ==
    /\ \A s \in Sockets : ready[s] = "new" <=> of[s] = Null
    /\ \A s \in timers : ready[s] = "closed"

\* An open page has a socket of its project, or will have one.
ActiveIsMade ==
    /\ activeProjectId = Null <=> activeSocket = Null
    /\ activeSocket # Null => ready[activeSocket] \in {"connecting", "open", "closed"}
                              /\ of[activeSocket] = activeProjectId
    /\ activeProjectId # Null => IsLive(activeSocket) \/ \E s \in timers : of[s] = activeProjectId

\* Without overlap the active socket is the only one that lives, no other of its
\* project is still to close, and a timer runs only when it has gone.
OneLink ==
    /\ \A s \in Sockets : IsLive(s) => s = activeSocket
    /\ \A s \in Sockets : of[s] = activeProjectId => ready[s] # "closing"
    /\ \A s \in timers : s = reconnectTimer /\ activeSocket # Null /\ ready[activeSocket] = "closed"
    /\ ~late => (connected <=> CanSend)

-----------------------------------------------------------------------------
(* What is shown is of the open project.                                   *)

\* A frame from the process of project p.
From(f, p) ==
    /\ f.kind \in {"tool_start", "tool_end"} => home[f.tool] = p
    /\ f.kind = "block_delta" => home[f.text[1][1]] = p
    /\ f.kind = "approval.request" => home[f.decision] = p
    /\ f.kind = "run_end" => \A k \in DOMAIN f.message : home[f.message[k][1]] = p

InboxOfProject ==
    \A s \in Sockets :
        /\ \A i \in DOMAIN inbox[s] : From(inbox[s][i], of[s])
        /\ inbox[s] # << >> => ready[s] \in {"open", "closing"}

ShownOfProject ==
    /\ \A i \in DOMAIN messages :
           /\ home[messages[i].turn] = activeProjectId
           /\ \A k \in DOMAIN messages[i].view.text : home[messages[i].view.text[k][1]] = activeProjectId
    /\ \A i \in DOMAIN decisions : home[decisions[i].id] = activeProjectId
    /\ \A i \in DOMAIN pendingApprovals : home[pendingApprovals[i]] = activeProjectId
    /\ activeProjectId = Null =>
           messages = << >> /\ decisions = << >> /\ pendingApprovals = << >> /\ currentTurnId = Null

\* A turn has a home once it was sent; its letters are counted.
RunsAtHome ==
    \A t \in Turns :
        /\ home[t] = Null <=> run[t] = "typed"
        /\ \A n \in DOMAIN letters[t] : letters[t][n] = <<t, n>>
        /\ gate[t] = "open" => run[t] = "running"
        /\ run[t] \in {"typed", "sent", "waiting"} => letters[t] = << >>

\* A chat frame on its way is of a turn that was sent, once, in its own project.
SentOnce ==
    \A p \in Projects : \A i \in DOMAIN up[p] : up[p][i].kind = "chat" =>
        /\ run[up[p][i].turn] = "sent" /\ home[up[p][i].turn] = p
        /\ \A j \in DOMAIN up[p] : up[p][j].kind = "chat" /\ up[p][j].turn = up[p][i].turn => j = i

-----------------------------------------------------------------------------
(* Prompts.                                                                *)

\* Prompts are on the screen once each, and only while the socket is open.
PromptsCanBeSent ==
    /\ pendingApprovals # << >> => CanSend
    /\ \A i, j \in DOMAIN pendingApprovals : pendingApprovals[i] = pendingApprovals[j] => i = j

\* A call whose prompt was not missed is of the open project.
AskedHere ==
    \A t \in Turns : gate[t] = "open" /\ t \notin unseen => home[t] = activeProjectId

\* How the call of turn t can still be answered.
Replied(t) == \E i \in DOMAIN up[home[t]] : up[home[t]][i].kind = "approval.reply" /\ up[home[t]][i].turn = t
Requested(t) == \E s \in Sockets : Request(t) \in Range(inbox[s])
Answerable(t) == t \in Range(pendingApprovals) \/ Requested(t) \/ Replied(t)

\* The call of turn t waits, and the tab has had its request.
Waits(t) == gate[t] = "open" /\ t \notin unseen /\ ~late /\ ~overlap

-----------------------------------------------------------------------------
(* Turns.                                                                  *)

Active(t) == run[t] \in {"sent", "waiting", "running"}

\* A frame of turn c: its letter is one of the run's, its end is the run's.
FrameIsOf(f, c) ==
    /\ f.kind = "block_delta" => f.text[1][1] = c /\ f.text[1][2] \in 1 .. Len(letters[c])
    /\ f.kind = "run_end" => f.message = letters[c] /\ run[c] = "over"
    /\ f.kind = "error" => run[c] = "over"

\* A letter that comes after those the current turn shows.
LetterIsNew(f) ==
    \A m \in DOMAIN messages : messages[m].turn = currentTurnId =>
        \A k \in DOMAIN messages[m].view.text : messages[m].view.text[k][2] < f.text[1][2]

\* The frames of the socket are of the current turn, in order, past what it shows.
HeardInOrder ==
    LET heard == inbox[activeSocket] IN
    /\ \A i \in DOMAIN heard : FrameIsOf(heard[i], currentTurnId)
    /\ \A i \in DOMAIN heard : heard[i].kind = "block_delta" => LetterIsNew(heard[i])
    /\ \A i, j \in DOMAIN heard :
           heard[i].kind = "block_delta" /\ heard[j].kind = "block_delta" /\ i < j =>
               heard[i].text[1][2] < heard[j].text[1][2]

\* The current turn is on the screen, and alone on its way.
CurrentIsHeard ==
    currentTurnId # Null =>
        /\ \E i \in DOMAIN messages : messages[i].turn = currentTurnId
        /\ \A i \in DOMAIN messages : messages[i].turn = currentTurnId => messages[i].view.streaming
        /\ \A t \in Turns : home[t] = activeProjectId /\ Active(t) => t = currentTurnId
        /\ HeardInOrder

\* A message shows letters of its own turn, each once and in order.
ShowsItsRun(t, view) ==
    /\ \A k \in DOMAIN view.text : view.text[k][1] = t /\ view.text[k][2] \in 1 .. Len(letters[t])
    /\ \A j, k \in DOMAIN view.text : j < k => view.text[j][2] < view.text[k][2]
    /\ ~view.streaming => run[t] = "over" /\ (view.failed \/ view.text = letters[t])

TurnsShowTheirRun ==
    /\ \A i, j \in DOMAIN messages : messages[i].turn = messages[j].turn => i = j
    /\ \A i \in DOMAIN messages : ShowsItsRun(messages[i].turn, messages[i].view)

-----------------------------------------------------------------------------

LinkInv == LinkType /\ SocketsAreMade /\ ActiveIsMade /\ (~overlap => OneLink)
RunInv == ShownType /\ RunType /\ RunsAtHome /\ SentOnce
HereInv == ~overlap => InboxOfProject /\ ShownOfProject /\ PromptsCanBeSent /\ AskedHere
PromptInv == \A t \in Turns : Waits(t) => Answerable(t)
TurnInv == ~overlap /\ ~hasty => CurrentIsHeard /\ TurnsShowTheirRun

IInv == LinkInv /\ RunInv /\ HereInv /\ PromptInv /\ TurnInv

-----------------------------------------------------------------------------
(* Lemmas about sequences and numbers.                                     *)

LEMMA AppendFacts ==
    ASSUME NEW S, NEW s \in Seq(S), NEW x \in S
    PROVE  /\ Append(s, x) \in Seq(S)
           /\ DOMAIN s = 1 .. Len(s) /\ Len(s) \in Nat
           /\ DOMAIN Append(s, x) = 1 .. Len(s) + 1
           /\ \A i \in 1 .. Len(s) : Append(s, x)[i] = s[i]
           /\ Append(s, x)[Len(s) + 1] = x
           /\ Len(Append(s, x)) = Len(s) + 1
  OBVIOUS

LEMMA TailFacts ==
    ASSUME NEW S, NEW s \in Seq(S), s # << >>
    PROVE  /\ Head(s) \in S /\ Tail(s) \in Seq(S) /\ Head(s) = s[1] /\ 1 \in DOMAIN s
           /\ DOMAIN s = 1 .. Len(s) /\ Len(s) \in Nat \ {0}
           /\ DOMAIN Tail(s) = 1 .. Len(s) - 1
           /\ \A i \in DOMAIN Tail(s) : /\ Tail(s)[i] = s[i + 1] /\ i + 1 \in DOMAIN s
                                        /\ i + 1 # 1 /\ i \in Nat
           /\ \A i \in DOMAIN s : i = 1 \/ (i - 1 \in DOMAIN Tail(s) /\ Tail(s)[i - 1] = s[i])
  OBVIOUS

LEMMA ConcatFacts ==
    ASSUME NEW S, NEW s \in Seq(S), NEW t \in Seq(S)
    PROVE  /\ s \o t \in Seq(S)
           /\ DOMAIN (s \o t) = 1 .. Len(s) + Len(t) /\ Len(s \o t) = Len(s) + Len(t)
           /\ Len(s) \in Nat /\ Len(t) \in Nat
           /\ DOMAIN s = 1 .. Len(s) /\ DOMAIN t = 1 .. Len(t)
           /\ \A i \in 1 .. Len(s) : (s \o t)[i] = s[i]
           /\ \A i \in 1 .. Len(t) : (s \o t)[Len(s) + i] = t[i]
           /\ \A k \in DOMAIN (s \o t) :
                  k \in DOMAIN s \/ (k - Len(s) \in DOMAIN t /\ (s \o t)[k] = t[k - Len(s)])
  OBVIOUS

LEMMA ConcatOne ==
    ASSUME NEW S, NEW s \in Seq(S), NEW x \in S
    PROVE  /\ s \o <<x>> \in Seq(S)
           /\ DOMAIN (s \o <<x>>) = 1 .. Len(s) + 1 /\ DOMAIN s = 1 .. Len(s) /\ Len(s) \in Nat
           /\ \A k \in DOMAIN (s \o <<x>>) :
                  (k \in DOMAIN s /\ (s \o <<x>>)[k] = s[k]) \/ (k = Len(s) + 1 /\ (s \o <<x>>)[k] = x)
  OBVIOUS

LEMMA EmptySequence ==
    ASSUME NEW S, NEW s \in Seq(S), DOMAIN s = {}
    PROVE  s = << >>
  OBVIOUS

LEMMA RemoveFacts ==
    ASSUME NEW S, NEW s \in Seq(S), NEW i \in DOMAIN s
    PROVE  /\ RemoveAt(s, i) \in Seq(S)
           /\ DOMAIN RemoveAt(s, i) = 1 .. Len(s) - 1 /\ DOMAIN s = 1 .. Len(s) /\ Len(s) \in Nat
           /\ \A j \in 1 .. Len(s) - 1 : RemoveAt(s, i)[j] = IF j < i THEN s[j] ELSE s[j + 1]
<1> DEFINE a == SubSeq(s, 1, i - 1)
           b == SubSeq(s, i + 1, Len(s))
<1>1. Len(s) \in Nat /\ i \in Nat /\ i \in 1 .. Len(s) /\ DOMAIN s = 1 .. Len(s)
  OBVIOUS
<1>2. a \in Seq(S) /\ Len(a) = i - 1 /\ \A j \in 1 .. i - 1 : a[j] = s[j]
  OBVIOUS
<1>3. b \in Seq(S) /\ Len(b) = Len(s) - i /\ \A j \in 1 .. Len(s) - i : b[j] = s[j + i]
  OBVIOUS
<1>4. RemoveAt(s, i) = a \o b
  BY DEF RemoveAt
<1> HIDE DEF a, b
<1>5. a \o b \in Seq(S) /\ DOMAIN (a \o b) = 1 .. Len(s) - 1
  <2>1. a \o b \in Seq(S) /\ DOMAIN (a \o b) = 1 .. Len(a) + Len(b)
    BY <1>2, <1>3, ConcatFacts
  <2>2. Len(a) + Len(b) = Len(s) - 1
    BY <1>1, <1>2, <1>3
  <2> QED BY <2>1, <2>2
<1>6. ASSUME NEW j \in 1 .. Len(s) - 1 PROVE (a \o b)[j] = IF j < i THEN s[j] ELSE s[j + 1]
  <2>1. CASE j < i
    BY <1>1, <1>2, <1>3, <2>1
  <2>2. CASE ~(j < i)
    <3> DEFINE k == j - (i - 1)
    <3>1. j \in 1 .. Len(s) - 1
      BY <1>6
    <3>2. k \in 1 .. Len(s) - i /\ (i - 1) + k = j /\ k + i = j + 1
      BY <1>1, <2>2, <3>1
    <3> HIDE DEF k
    <3>3. (a \o b)[Len(a) + k] = b[k]
      <4>1. a \in Seq(S) /\ b \in Seq(S)
        BY <1>2, <1>3
      <4>2. \A n \in 1 .. Len(b) : (a \o b)[Len(a) + n] = b[n]
        BY <4>1, ConcatFacts
      <4>3. k \in 1 .. Len(b)
        BY <1>3, <3>2
      <4> QED BY <4>2, <4>3
    <3>4. (a \o b)[j] = b[k] /\ b[k] = s[k + i]
      BY <1>2, <1>3, <3>2, <3>3
    <3> QED BY <2>2, <3>2, <3>4
  <2> QED BY <2>1, <2>2
<1> QED BY <1>1, <1>4, <1>5, <1>6

LEMMA BelowTheNext == \A n \in Nat : \A k \in 1 .. n : k < n + 1
  OBVIOUS

LEMMA LeastNumber ==
    ASSUME NEW S, S \subseteq Nat, S # {}
    PROVE  \E x \in S : \A y \in S : ~(y < x)
<1> DEFINE R == OpToRel(<, Nat)
<1>1. IsWellFoundedOn(R, Nat)
  BY NatLessThanWellFounded
<1>2. \A x, y \in Nat : y < x => <<y, x>> \in R
  BY DEF OpToRel
<1> HIDE DEF R
<1>3. \E x \in S : \A y \in S : ~(<<y, x>> \in R)
  BY <1>1, WFMin
<1> QED BY <1>2, <1>3

-----------------------------------------------------------------------------
(* Lemmas about frames and turns.                                          *)

LEMMA NewSocket ==
    ASSUME \E s \in Sockets : ready[s] = "new"
    PROVE  Fresh \in Sockets /\ ready[Fresh] = "new"
<1> DEFINE S == {s \in Sockets : ready[s] = "new"}
<1>1. S \subseteq Nat /\ S # {}
  BY DEF Sockets
<1>2. PICK s \in S : \A r \in S : ~(r < s)
  BY <1>1, LeastNumber
<1>3. s \in Sockets /\ ready[s] = "new" /\ \A r \in Sockets : r < s => ready[r] # "new"
  BY <1>2
<1> QED BY <1>3 DEF Fresh

LEMMA MarkFacts ==
    ASSUME NEW tools \in Seq(Calls), NEW d \in Turns, NEW state \in {"started", "completed", "failed"}
    PROVE  /\ Mark(tools, d, state) \in Seq(Calls)
           /\ DOMAIN Mark(tools, d, state) = DOMAIN tools
           /\ \A i \in DOMAIN tools : Mark(tools, d, state)[i].id = tools[i].id
  BY DEF Mark, Tool, Calls

LEMMA FrameFacts ==
    ASSUME NEW f \in Frames
    PROVE  /\ f.kind \in {"run_start", "error", "tool_start", "tool_end", "approval.request", "block_delta", "run_end"}
           /\ f.kind = "tool_start" => f.tool \in Turns
           /\ f.kind = "tool_end" => f.tool \in Turns /\ f.state \in {"completed", "failed"}
           /\ f.kind = "approval.request" => f.decision \in Turns /\ f = Request(f.decision)
           /\ f.kind = "block_delta" => f.type = "text" /\ f.text[1] \in Letters /\ f.text = <<f.text[1]>>
           /\ f.kind = "run_end" => f.message \in Seq(Letters)
<1>1. CASE f \in BareFrames
  BY <1>1 DEF BareFrames, RunStart, ErrorEvent
<1>2. CASE f \in CallFrames
  BY <1>2 DEF CallFrames, ToolStart, Request
<1>3. CASE f \in ToolEndFrames
  BY <1>3 DEF ToolEndFrames, ToolEnd
<1>4. CASE f \in DeltaFrames
  BY <1>4 DEF DeltaFrames, BlockDelta
<1>5. CASE f \in RunEndFrames
  BY <1>5 DEF RunEndFrames, RunEnd
<1> QED BY <1>1, <1>2, <1>3, <1>4, <1>5 DEF Frames

\* What an event makes of a turn's text and of its state.
LEMMA ApplyFacts ==
    ASSUME NEW view \in Views, NEW f \in Frames, f.kind # "approval.request"
    PROVE  LET after == ApplyToTurn(view, f) IN
           /\ after \in Views
           /\ after.text = IF f.kind = "block_delta" THEN view.text \o f.text
                           ELSE IF f.kind = "run_end" /\ f.message # << >> THEN f.message
                           ELSE view.text
           /\ after.streaming = IF f.kind = "run_start" THEN TRUE
                                ELSE IF f.kind \in {"run_end", "error"} THEN FALSE ELSE view.streaming
           /\ after.failed = IF f.kind = "error" THEN TRUE ELSE view.failed
<1> DEFINE after == ApplyToTurn(view, f)
<1>1. CASE f.kind = "run_start"
  BY <1>1 DEF ApplyToTurn, Views
<1>2. CASE f.kind = "block_delta"
  <2>1. f.type = "text" /\ f.text \in Seq(Letters)
    BY <1>2, FrameFacts
  <2>2. after = [view EXCEPT !.text = @ \o f.text]
    BY <1>2, <2>1 DEF ApplyToTurn
  <2>3. view.text \o f.text \in Seq(Letters)
    BY <2>1, ConcatFacts DEF Views
  <2> QED BY <1>2, <2>2, <2>3 DEF Views
<1>3. CASE f.kind = "tool_start"
  <2>1. after = [view EXCEPT !.tools = IF Has(@, f.tool) THEN @ ELSE Append(@, Tool(f.tool, "started"))]
    BY <1>3 DEF ApplyToTurn, TurnTool
  <2>2. view.tools \in Seq(Calls) /\ Tool(f.tool, "started") \in Calls
    BY <1>3, FrameFacts DEF Views, Tool, Calls
  <2>3. Append(view.tools, Tool(f.tool, "started")) \in Seq(Calls)
    BY <2>2
  <2> QED BY <1>3, <2>1, <2>2, <2>3 DEF Views
<1>4. CASE f.kind = "tool_end"
  <2>1. after = [view EXCEPT !.tools = Mark(@, f.tool, f.state)]
    BY <1>4 DEF ApplyToTurn, TurnTool
  <2>2. Mark(view.tools, f.tool, f.state) \in Seq(Calls)
    BY <1>4, FrameFacts, MarkFacts DEF Views
  <2> QED BY <1>4, <2>1, <2>2 DEF Views
<1>5. CASE f.kind = "run_end"
  <2>1. after = [view EXCEPT !.streaming = FALSE, !.text = IF f.message # << >> THEN f.message ELSE @]
    BY <1>5 DEF ApplyToTurn
  <2>2. f.message \in Seq(Letters)
    BY <1>5, FrameFacts
  <2> QED BY <1>5, <2>1, <2>2 DEF Views
<1>6. CASE f.kind = "error"
  BY <1>6 DEF ApplyToTurn, Views
<1> QED BY <1>1, <1>2, <1>3, <1>4, <1>5, <1>6, FrameFacts

-----------------------------------------------------------------------------
(* The link.                                                               *)

\* Null is no project and no socket.
LEMMA NullIsNone ==
    Null \notin Turns /\ Null \notin Projects /\ Null \notin Sockets
  BY ChatTabAssumption DEF Sockets

LEMMA LinkHolds ==
    Init => LinkInv
<1> SUFFICES ASSUME Init PROVE LinkInv
  OBVIOUS
<1> USE NullIsNone DEF Init, TabInit
<1>1. LinkType
  BY DEF LinkType
<1>2. SocketsAreMade
  BY DEF SocketsAreMade
<1>3. ActiveIsMade
  BY DEF ActiveIsMade
<1>4. OneLink
  BY DEF OneLink, IsLive, CanSend
<1> QED BY <1>1, <1>2, <1>3, <1>4 DEF LinkInv

LEMMA LinkStays ==
    ASSUME LinkInv, UNCHANGED <<activeSocket, activeProjectId, reconnectTimer, timers, ready, of, connected, overlap, late>>
    PROVE  LinkInv'
  BY DEF LinkInv, LinkType, SocketsAreMade, ActiveIsMade, OneLink, IsLive, CanSend

LEMMA VisitLinks ==
    ASSUME LinkInv, NEW p \in Projects, Visit(p)
    PROVE  LinkInv'
<1> USE NullIsNone DEF LinkInv
<1> DEFINE s == Fresh
           left == LeaveOld(p)
<1>1. s \in Sockets /\ ready[s] = "new"
  BY NewSocket DEF Visit, EnsureSocketFor, Connect
<1>2. /\ ~(activeProjectId = p /\ activeSocket # Null)
      /\ activeSocket' = s /\ ready' = [left EXCEPT ![s] = "connecting"] /\ of' = [of EXCEPT ![s] = p]
      /\ activeProjectId \in {Null, p} => UNCHANGED storeVars
      /\ activeProjectId \notin {Null, p} => Wiped
      /\ activeProjectId' = p
      /\ reconnectTimer' = Null /\ timers' = timers \ {reconnectTimer}
      /\ overlap' = (overlap \/ \E r \in Sockets : of[r] = p /\ ready[r] = "closing")
      /\ late' = late
  BY DEF Visit, EnsureSocketFor, Connect, Mounted
<1> HIDE DEF s
<1>3. activeProjectId # p
  BY <1>2 DEF ActiveIsMade
<1>4. connected' \in BOOLEAN /\ (connected' = connected \/ connected' = FALSE)
      /\ (activeProjectId = Null => connected' = connected)
      /\ (activeProjectId # Null => connected' = FALSE)
  BY <1>2, <1>3 DEF storeVars, Wiped, LinkType
<1>5. left \in [Sockets -> {"new", "connecting", "open", "closing", "closed"}]
  BY DEF LeaveOld, Closing, LinkType
<1>6. \A r \in Sockets :
          /\ (left[r] = "new" <=> ready[r] = "new") /\ (ready[r] = "closed" => left[r] = "closed")
          /\ left[r] = ready[r] \/ (r = activeSocket /\ activeProjectId # Null /\ left[r] = "closing")
          /\ r = activeSocket /\ activeProjectId # Null => left[r] \in {"closing", "closed"}
  BY <1>3 DEF LeaveOld, Closing, LinkType, ActiveIsMade
<1> HIDE DEF left
<1>7. LinkType'
  <2>1. overlap' \in BOOLEAN /\ late' \in BOOLEAN
    BY <1>2 DEF LinkType
  <2> QED BY <1>1, <1>2, <1>4, <1>5, <2>1 DEF LinkType
<1>8. /\ ready'[s] = "connecting" /\ of'[s] = p
      /\ \A r \in Sockets \ {s} : ready'[r] = left[r] /\ of'[r] = of[r]
  BY <1>1, <1>2, <1>5 DEF LinkType
<1>9. ActiveIsMade' /\ SocketsAreMade'
  <2>1. ActiveIsMade'
    BY <1>1, <1>2, <1>8 DEF ActiveIsMade, IsLive
  <2>2. \A r \in Sockets : ready'[r] = "new" <=> of'[r] = Null
    BY <1>6, <1>8 DEF SocketsAreMade
  <2>3. \A r \in timers' : ready'[r] = "closed"
    BY <1>1, <1>2, <1>6, <1>8 DEF SocketsAreMade, LinkType
  <2> QED BY <2>1, <2>2, <2>3 DEF SocketsAreMade
<1>10. ASSUME ~overlap' PROVE OneLink'
  <2>1. OneLink /\ ~overlap /\ \A r \in Sockets : ~(of[r] = p /\ ready[r] = "closing")
    BY <1>2, <1>10
  <2>2. \A r \in Sockets : IsLive(r)' => r = activeSocket'
    <3> SUFFICES ASSUME NEW r \in Sockets \ {s}, ready'[r] \in {"connecting", "open"} PROVE FALSE
      BY <1>2 DEF IsLive
    <3>1. left[r] = ready[r] /\ r = activeSocket
      BY <1>6, <1>8, <2>1 DEF OneLink, IsLive
    <3> QED BY <1>6, <1>8, <3>1 DEF ActiveIsMade
  <2>3. \A r \in Sockets : of'[r] = activeProjectId' => ready'[r] # "closing"
    <3> SUFFICES ASSUME NEW r \in Sockets \ {s}, of[r] = p, left[r] = "closing" PROVE FALSE
      BY <1>2, <1>8
    <3> QED BY <1>3, <1>6, <2>1 DEF ActiveIsMade
  <2>4. timers' = {}
    BY <1>2, <2>1 DEF OneLink
  <2>5. ~late' => (connected' <=> CanSend')
    <3> SUFFICES ASSUME ~late PROVE connected' = FALSE
      BY <1>2, <1>8 DEF CanSend
    <3>1. CASE activeProjectId = Null
      BY <1>4, <2>1, <3>1 DEF OneLink, CanSend, ActiveIsMade, LinkType
    <3> QED BY <1>4, <3>1
  <2> QED BY <2>2, <2>3, <2>4, <2>5 DEF OneLink
<1> QED BY <1>7, <1>9, <1>10

LEMMA SignOutLinks ==
    ASSUME LinkInv, SignOut
    PROVE  LinkInv'
<1> USE NullIsNone DEF LinkInv
<1> DEFINE left == Closing(ready, activeSocket)
<1>1. /\ activeProjectId # Null /\ activeSocket # Null /\ activeSocket \in Sockets
      /\ ready' = left /\ activeSocket' = Null /\ activeProjectId' = Null
      /\ reconnectTimer' = Null /\ timers' = timers \ {reconnectTimer}
      /\ connected' = FALSE
      /\ UNCHANGED <<of, overlap, late>>
  BY DEF SignOut, ResetPlayground, Wiped, ActiveIsMade, LinkType
<1>2. left \in [Sockets -> {"new", "connecting", "open", "closing", "closed"}]
  BY DEF Closing, LinkType
<1>3. \A r \in Sockets :
          /\ (left[r] = "new" <=> ready[r] = "new") /\ (ready[r] = "closed" => left[r] = "closed")
          /\ left[r] = ready[r] \/ (r = activeSocket /\ left[r] = "closing")
          /\ r = activeSocket => left[r] \in {"closing", "closed"}
  BY <1>1 DEF Closing, LinkType, ActiveIsMade
<1> HIDE DEF left
<1>4. LinkType' /\ ActiveIsMade' /\ SocketsAreMade'
  <2>1. LinkType' /\ ActiveIsMade'
    BY <1>1, <1>2 DEF LinkType, ActiveIsMade
  <2>2. SocketsAreMade'
    BY <1>1, <1>3 DEF SocketsAreMade, LinkType
  <2> QED BY <2>1, <2>2
<1>5. ASSUME ~overlap' PROVE OneLink'
  <2>1. OneLink
    BY <1>1, <1>5
  <2>2. \A r \in Sockets : ~IsLive(r)'
    BY <1>1, <1>3, <2>1 DEF OneLink, IsLive
  <2>3. \A r \in Sockets : of[r] = Null => ready'[r] # "closing"
    BY <1>1, <1>3 DEF SocketsAreMade, ActiveIsMade
  <2>4. timers' = {}
    BY <1>1, <2>1 DEF OneLink
  <2> QED BY <1>1, <1>3, <2>1, <2>2, <2>3, <2>4 DEF OneLink, CanSend
<1> QED BY <1>4, <1>5

LEMMA OpenLinks ==
    ASSUME LinkInv, NEW s \in Sockets, Open(s)
    PROVE  LinkInv'
<1> USE NullIsNone DEF LinkInv
<1>1. /\ ready[s] = "connecting" /\ ready' = [ready EXCEPT ![s] = "open"] /\ connected' = TRUE
      /\ UNCHANGED <<activeSocket, activeProjectId, reconnectTimer, timers, of, overlap, late>>
  BY DEF Open, Opened, history
<1>2. ready'[s] = "open" /\ \A r \in Sockets \ {s} : ready'[r] = ready[r]
  BY <1>1 DEF LinkType
<1>3. LinkType' /\ SocketsAreMade'
  BY <1>1, <1>2 DEF LinkType, SocketsAreMade
<1>4. ActiveIsMade'
  BY <1>1, <1>2 DEF ActiveIsMade, IsLive, LinkType
<1>5. ASSUME ~overlap' PROVE OneLink'
  <2>1. OneLink /\ s = activeSocket
    BY <1>1, <1>5 DEF OneLink, IsLive
  <2> QED BY <1>1, <1>2, <2>1 DEF OneLink, IsLive, CanSend
<1> QED BY <1>3, <1>4, <1>5

\* The end of a socket, the active one or one that was closed before.
LEMMA ClosedLinks ==
    ASSUME LinkInv, NEW s \in Sockets, Closed(s),
           ready[s] \in {"connecting", "open", "closing"}, overlap' = overlap,
           \/ ready[s] # "closing" /\ late' = late
           \/ ready[s] = "closing" /\ late' = (late \/ (activeSocket # Null /\ ready[activeSocket] = "open"))
    PROVE  LinkInv'
<1> USE NullIsNone DEF LinkInv
<1>1. /\ ready' = [ready EXCEPT ![s] = "closed"] /\ connected' = FALSE
      /\ activeProjectId = of[s] => timers' = timers \union {s} /\ reconnectTimer' = s
      /\ activeProjectId # of[s] => timers' = timers /\ reconnectTimer' = reconnectTimer
      /\ UNCHANGED <<activeSocket, activeProjectId, of>>
  BY DEF Closed, Reconnects
<1>2. ready'[s] = "closed" /\ \A r \in Sockets \ {s} : ready'[r] = ready[r]
  BY <1>1 DEF LinkType
<1>3. LinkType' /\ SocketsAreMade'
  <2>1. late' \in BOOLEAN
    BY DEF LinkType
  <2>2. LinkType'
    BY <1>1, <2>1 DEF LinkType
  <2>3. SocketsAreMade'
    BY <1>1, <1>2 DEF SocketsAreMade, LinkType
  <2> QED BY <2>2, <2>3
<1>4. ActiveIsMade'
  <2>1. activeProjectId # Null => IsLive(activeSocket)' \/ \E r \in timers' : of[r] = activeProjectId
    <3> SUFFICES ASSUME activeProjectId # Null
                 PROVE  IsLive(activeSocket)' \/ \E r \in timers' : of[r] = activeProjectId
      OBVIOUS
    <3>1. CASE s = activeSocket
      BY <1>1, <3>1 DEF ActiveIsMade
    <3>2. CASE s # activeSocket
      BY <1>1, <1>2, <3>2 DEF ActiveIsMade, IsLive, LinkType
    <3> QED BY <3>1, <3>2
  <2> QED BY <1>1, <1>2, <2>1 DEF ActiveIsMade, LinkType
<1>5. ASSUME ~overlap' PROVE OneLink'
  <2>1. OneLink
    BY <1>5
  <2>2. \A r \in Sockets : (IsLive(r)' => r = activeSocket) /\ (of[r] = activeProjectId => ready'[r] # "closing")
    BY <1>2, <2>1 DEF OneLink, IsLive
  <2>3. \A r \in timers' : r = reconnectTimer' /\ activeSocket # Null /\ ready'[activeSocket] = "closed"
    <3>1. CASE activeProjectId = of[s]
      <4>1. s = activeSocket /\ ready[s] # "closed"
        BY <2>1, <3>1 DEF OneLink, IsLive
      <4>2. timers = {}
        BY <2>1, <4>1 DEF OneLink
      <4> QED BY <1>1, <1>2, <3>1, <4>1, <4>2
    <3>2. CASE activeProjectId # of[s]
      BY <1>1, <1>2, <2>1, <3>2 DEF OneLink, LinkType
    <3> QED BY <3>1, <3>2
  <2>4. ~late' => ~CanSend'
    <3>1. CASE ready[s] # "closing"
      BY <1>1, <1>2, <2>1, <3>1 DEF OneLink, IsLive, CanSend
    <3>2. CASE ready[s] = "closing"
      BY <1>1, <1>2, <3>2 DEF CanSend, LinkType
    <3> QED BY <3>1, <3>2
  <2> QED BY <1>1, <2>2, <2>3, <2>4 DEF OneLink
<1> QED BY <1>3, <1>4, <1>5

LEMMA FireLinks ==
    ASSUME LinkInv, NEW s \in Sockets, Fire(s)
    PROVE  LinkInv'
<1> USE NullIsNone DEF LinkInv
<1>1. /\ s \in timers /\ timers' = timers \ {s}
      /\ activeProjectId = of[s] => Connect(ready, of[s])
      /\ activeProjectId # of[s] => UNCHANGED <<activeSocket, ready, of>>
      /\ UNCHANGED <<connected, activeProjectId, reconnectTimer, overlap, late>>
  BY DEF Fire, Fires, storeVars, history
<1>2. CASE activeProjectId # of[s]
  <2>1. LinkType' /\ SocketsAreMade' /\ ActiveIsMade'
    BY <1>1, <1>2 DEF LinkType, SocketsAreMade, ActiveIsMade, IsLive
  <2>2. ASSUME ~overlap' PROVE OneLink'
    BY <1>1, <1>2, <2>2 DEF OneLink, IsLive, CanSend
  <2> QED BY <2>1, <2>2
<1>3. CASE activeProjectId = of[s]
  <2> DEFINE n == Fresh
  <2>1. n \in Sockets /\ ready[n] = "new"
    BY <1>1, <1>3, NewSocket DEF Connect
  <2>2. activeSocket' = n /\ ready' = [ready EXCEPT ![n] = "connecting"] /\ of' = [of EXCEPT ![n] = activeProjectId]
    BY <1>1, <1>3 DEF Connect
  <2> HIDE DEF n
  <2>3. /\ ready'[n] = "connecting" /\ of'[n] = activeProjectId
        /\ \A r \in Sockets \ {n} : ready'[r] = ready[r] /\ of'[r] = of[r]
    BY <2>1, <2>2 DEF LinkType
  <2>4. activeProjectId # Null
    BY <1>1, <1>3 DEF SocketsAreMade
  <2>5. LinkType' /\ SocketsAreMade' /\ ActiveIsMade'
    <3>1. LinkType'
      BY <1>1, <2>1, <2>2 DEF LinkType
    <3>2. SocketsAreMade'
      BY <1>1, <2>1, <2>3, <2>4 DEF SocketsAreMade, LinkType
    <3>3. ActiveIsMade'
      BY <1>1, <2>1, <2>2, <2>3, <2>4 DEF ActiveIsMade, IsLive
    <3> QED BY <3>1, <3>2, <3>3
  <2>6. ASSUME ~overlap PROVE OneLink'
    <3>1. OneLink /\ timers' = {} /\ ready[activeSocket] = "closed"
      BY <1>1, <2>6 DEF OneLink
    <3> QED BY <1>1, <2>1, <2>2, <2>3, <2>4, <3>1 DEF OneLink, IsLive, CanSend
  <2> QED BY <1>1, <2>5, <2>6
<1> QED BY <1>2, <1>3

\* What an action leaves to the link.
LinkAndLate == <<activeSocket, activeProjectId, reconnectTimer, timers, ready, of, connected, overlap, late>>

LEMMA LinkKept ==
    ASSUME LinkInv, Next
    PROVE  LinkInv'
<1>1. CASE \E p \in Projects : Visit(p)
  BY <1>1, VisitLinks
<1>2. CASE SignOut
  BY <1>2, SignOutLinks
<1>3. CASE \E s \in Sockets : Open(s)
  BY <1>3, OpenLinks
<1>4. CASE \E s \in Sockets : Drop(s)
  <2> PICK s \in Sockets : Drop(s)
    BY <1>4
  <2>1. Closed(s) /\ ready[s] \in {"connecting", "open"} /\ overlap' = overlap /\ late' = late
    BY DEF Drop, Closed
  <2> QED BY <2>1, ClosedLinks
<1>5. CASE \E s \in Sockets : CloseEvent(s)
  <2> PICK s \in Sockets : CloseEvent(s)
    BY <1>5
  <2>1. /\ Closed(s) /\ ready[s] = "closing" /\ overlap' = overlap
        /\ late' = (late \/ (activeSocket # Null /\ ready[activeSocket] = "open"))
    BY DEF CloseEvent, Closed
  <2> QED BY <2>1, ClosedLinks
<1>6. CASE \E s \in Sockets : Fire(s)
  BY <1>6, FireLinks
<1>7. ASSUME \/ \E p \in Projects : Read(p)
             \/ ResetChat
             \/ \E s \in Sockets : Receive(s)
             \/ \E t \in Turns : SendChat(t) \/ Begin(t) \/ Say(t) \/ Ask(t) \/ Expire(t) \/ End(t) \/ Sweep(t)
             \/ \E t \in Turns, allowed \in BOOLEAN : Respond(t, allowed)
      PROVE  UNCHANGED LinkAndLate
  <2> USE DEF LinkAndLate, tabVars, linkVars, storeVars, history
  <2>1. CASE \E p \in Projects : Read(p)
    BY <2>1 DEF Read
  <2>2. CASE ResetChat
    BY <2>2 DEF ResetChat, ClearChat
  <2>3. CASE \E s \in Sockets : Receive(s)
    BY <2>3 DEF Receive, HandleFrame
  <2>4. CASE \E t \in Turns : SendChat(t)
    BY <2>4 DEF SendChat, ShowTurn
  <2>5. CASE \E t \in Turns : Begin(t) \/ Say(t) \/ Ask(t)
    BY <2>5 DEF Begin, Say, Ask, Broadcast
  <2>6. CASE \E t \in Turns : End(t)
    BY <2>6 DEF End, Broadcast
  <2>7. CASE \E t \in Turns : Expire(t) \/ Sweep(t)
    BY <2>7 DEF Expire, Sweep, TakeOff
  <2>8. CASE \E t \in Turns, allowed \in BOOLEAN : Respond(t, allowed)
    BY <2>8 DEF Respond, TakeOff
  <2> QED BY <1>7, <2>1, <2>2, <2>3, <2>4, <2>5, <2>6, <2>7, <2>8
<1>8. CASE UNCHANGED LinkAndLate
  BY <1>8, LinkStays DEF LinkAndLate
<1> QED BY <1>1, <1>2, <1>3, <1>4, <1>5, <1>6, <1>7, <1>8 DEF Next

-----------------------------------------------------------------------------
(* The runs and what is shown of them.                                     *)

Messages == [turn : Turns, view : Views]

LEMMA FramesAreFrames ==
    /\ RunStart \in Frames /\ ErrorEvent \in Frames
    /\ \A t \in Turns : ToolStart(t) \in Frames /\ Request(t) \in Frames
    /\ \A t \in Turns, state \in {"completed", "failed"} : ToolEnd(t, state) \in Frames
    /\ \A letter \in Letters : BlockDelta(letter[1], "text", <<letter>>) \in Frames
    /\ \A message \in Seq(Letters) : RunEnd(message) \in Frames
<1>1. RunStart \in Frames /\ ErrorEvent \in Frames
  BY DEF Frames, BareFrames
<1>2. \A t \in Turns : ToolStart(t) \in Frames /\ Request(t) \in Frames
  BY DEF Frames, CallFrames
<1>3. \A t \in Turns, state \in {"completed", "failed"} : ToolEnd(t, state) \in Frames
  BY DEF Frames, ToolEndFrames
<1>4. \A letter \in Letters : BlockDelta(letter[1], "text", <<letter>>) \in Frames
  <2> TAKE letter \in Letters
  <2>1. BlockDelta(letter[1], "text", <<letter>>) \in DeltaFrames
    BY Zenon DEF DeltaFrames
  <2> QED BY <2>1 DEF Frames
<1>5. \A message \in Seq(Letters) : RunEnd(message) \in Frames
  BY DEF Frames, RunEndFrames
<1> QED BY <1>1, <1>2, <1>3, <1>4, <1>5

\* What a frame does to the store.
LEMMA ReceiveFacts ==
    ASSUME RunInv, NEW s \in Sockets, Receive(s), NEW f, f = Head(inbox[s])
    PROVE  /\ ready[s] = "open" /\ inbox[s] \in Seq(Frames) /\ inbox[s] # << >> /\ f \in Frames
           /\ inbox' = [inbox EXCEPT ![s] = Tail(@)]
           /\ UNCHANGED LinkAndLate /\ UNCHANGED serveVars /\ UNCHANGED <<hasty, unseen>>
           /\ f.kind = "approval.request" =>
                  /\ UNCHANGED <<messages, currentTurnId, decisions>>
                  /\ pendingApprovals' = IF f.decision \in Range(pendingApprovals) THEN pendingApprovals
                                         ELSE Append(pendingApprovals, f.decision)
           /\ f.kind # "approval.request" => pendingApprovals' = pendingApprovals
           /\ f.kind # "approval.request" /\ currentTurnId = Null => UNCHANGED <<messages, currentTurnId, decisions>>
           /\ f.kind # "approval.request" /\ currentTurnId # Null =>
                  LET i == CHOOSE j \in DOMAIN messages : messages[j].turn = currentTurnId IN
                  /\ messages' = [messages EXCEPT ![i].view = ApplyToTurn(@, f)]
                  /\ currentTurnId' = IF f.kind \in {"run_end", "error"} THEN Null ELSE currentTurnId
                  /\ decisions' = CASE f.kind = "tool_start" /\ ~Has(decisions, f.tool) -> Append(decisions, Tool(f.tool, "started"))
                                    [] f.kind = "tool_end" /\ Has(messages[i].view.tools, f.tool) -> Mark(decisions, f.tool, f.state)
                                    [] OTHER -> decisions
<1>1. ready[s] = "open" /\ inbox[s] # << >> /\ inbox' = [inbox EXCEPT ![s] = Tail(@)]
  BY DEF Receive, HandleFrame
<1>2. inbox[s] \in Seq(Frames) /\ f \in Frames
  BY <1>1, TailFacts DEF RunInv, ShownType
<1>3. UNCHANGED LinkAndLate /\ UNCHANGED serveVars /\ UNCHANGED <<hasty, unseen>>
  BY DEF Receive, HandleFrame, LinkAndLate, history
<1>4. CASE f.kind = "approval.request"
  BY <1>1, <1>2, <1>3, <1>4 DEF Receive, HandleFrame, AddApproval
<1>5. CASE f.kind # "approval.request"
  <2>1. ApplyEvent(f) /\ pendingApprovals' = pendingApprovals
    BY <1>5 DEF Receive, HandleFrame
  <2>2. CASE currentTurnId = Null
    BY <1>1, <1>2, <1>3, <1>5, <2>1, <2>2 DEF ApplyEvent
  <2>3. CASE currentTurnId # Null
    BY <1>1, <1>2, <1>3, <1>5, <2>1, <2>3 DEF ApplyEvent, EndsTurn
  <2> QED BY <2>2, <2>3
<1> QED BY <1>4, <1>5

\* An event changes the view of one message at most.
LEMMA EventFacts ==
    ASSUME messages \in Seq(Messages), NEW f \in Frames, f.kind # "approval.request", NEW i,
           messages' = [messages EXCEPT ![i].view = ApplyToTurn(@, f)]
    PROVE  /\ messages' \in Seq(Messages) /\ DOMAIN messages' = DOMAIN messages
           /\ \A j \in DOMAIN messages : messages'[j].turn = messages[j].turn
           /\ \A j \in DOMAIN messages : messages'[j].view = IF j = i THEN ApplyToTurn(messages[j].view, f) ELSE messages[j].view
<1>1. DOMAIN messages = 1 .. Len(messages) /\ Len(messages) \in Nat
  OBVIOUS
<1>2. \A j \in DOMAIN messages : messages[j] \in Messages
  BY <1>1
<1>3. \A j \in DOMAIN messages :
          messages'[j] = IF j = i THEN [messages[j] EXCEPT !.view = ApplyToTurn(messages[j].view, f)] ELSE messages[j]
  OBVIOUS
<1>4. DOMAIN messages' = DOMAIN messages /\ messages' = [j \in DOMAIN messages |-> messages'[j]]
  OBVIOUS
<1>5. \A j \in DOMAIN messages : ApplyToTurn(messages[j].view, f) \in Views
  BY <1>2, ApplyFacts DEF Messages
<1>6. \A j \in DOMAIN messages :
          /\ messages'[j] \in Messages
          /\ messages'[j].turn = messages[j].turn
          /\ messages'[j].view = IF j = i THEN ApplyToTurn(messages[j].view, f) ELSE messages[j].view
  BY <1>2, <1>3, <1>5 DEF Messages
<1>7. messages' \in [1 .. Len(messages) -> Messages]
  BY <1>1, <1>4, <1>6
<1>8. messages' \in Seq(Messages)
  BY <1>1, <1>7
<1> QED BY <1>4, <1>6, <1>8

LEMMA RunHolds ==
    Init => RunInv
<1> SUFFICES ASSUME Init PROVE RunInv
  OBVIOUS
<1> USE NullIsNone DEF Init, TabInit
<1>1. ShownType
  BY DEF ShownType
<1>2. RunType
  <2>1. << >> \in Seq(Letters) /\ << >> \in Seq(Upward)
    OBVIOUS
  <2>2. letters \in [Turns -> Seq(Letters)] /\ up \in [Projects -> Seq(Upward)]
    BY <2>1
  <2>3. hasty \in BOOLEAN /\ unseen \subseteq Turns /\ home \in [Turns -> Projects \union {Null}]
    OBVIOUS
  <2> QED BY <2>2, <2>3 DEF RunType
<1>3. RunsAtHome
  BY DEF RunsAtHome
<1>4. SentOnce
  BY DEF SentOnce
<1> QED BY <1>1, <1>2, <1>3, <1>4 DEF RunInv

\* An action of the tab that sends nothing.
LEMMA RunsStay ==
    ASSUME RunInv, UNCHANGED serveVars, ShownType', hasty' \in BOOLEAN, unseen' \subseteq Turns
    PROVE  RunInv'
<1>1. RunType' /\ RunsAtHome'
  BY DEF RunInv, RunType, RunsAtHome, serveVars
<1>2. SentOnce'
  BY DEF RunInv, SentOnce, serveVars
<1> QED BY <1>1, <1>2 DEF RunInv

\* Frames other than chats are sent.
LEMMA SentUp ==
    ASSUME RunInv, NEW p \in Projects, NEW frames \in Seq(Upward),
           \A i \in DOMAIN frames : frames[i].kind = "approval.reply",
           up' = [up EXCEPT ![p] = @ \o frames], UNCHANGED <<run, home, letters, gate, hasty, unseen>>, ShownType'
    PROVE  RunInv'
<1> USE DEF RunInv
<1>1. up[p] \in Seq(Upward)
  BY DEF RunType
<1>2. up'[p] = up[p] \o frames /\ \A q \in Projects \ {p} : up'[q] = up[q]
  BY DEF RunType
<1>3. RunType'
  <2>1. up[p] \o frames \in Seq(Upward)
    BY <1>1, ConcatFacts
  <2>2. up' \in [Projects -> Seq(Upward)]
    BY <2>1 DEF RunType
  <2> QED BY <2>2 DEF RunType
<1>4. \A i \in DOMAIN up'[p] : up'[p][i].kind = "chat" => i \in DOMAIN up[p] /\ up'[p][i] = up[p][i]
  BY <1>1, <1>2, ConcatFacts
<1>5. SentOnce'
  <2> SUFFICES ASSUME NEW q \in Projects, NEW i \in DOMAIN up'[q], up'[q][i].kind = "chat"
               PROVE  /\ run[up'[q][i].turn] = "sent" /\ home[up'[q][i].turn] = q
                      /\ \A j \in DOMAIN up'[q] : up'[q][j].kind = "chat" /\ up'[q][j].turn = up'[q][i].turn => j = i
    BY DEF SentOnce
  <2>1. CASE q = p
    <3>1. i \in DOMAIN up[p] /\ up'[p][i] = up[p][i]
      BY <1>4, <2>1
    <3>2. \A j \in DOMAIN up'[p] : up'[p][j].kind = "chat" => j \in DOMAIN up[p] /\ up'[p][j] = up[p][j]
      BY <1>4
    <3> QED BY <2>1, <3>1, <3>2 DEF SentOnce
  <2>2. CASE q # p
    BY <1>2, <2>2 DEF SentOnce
  <2> QED BY <2>1, <2>2
<1>6. RunsAtHome'
  BY DEF RunsAtHome
<1> QED BY <1>3, <1>5, <1>6

\* What a tab that loses its socket or its page keeps.
LEMMA ShownDropped ==
    ASSUME ShownType, inbox' \in [Sockets -> Seq(Frames)], UNCHANGED storeVars \/ Wiped \/
           (pendingApprovals' = << >> /\ UNCHANGED <<messages, currentTurnId, decisions>>)
    PROVE  ShownType'
<1>1. << >> \in Seq(Messages) /\ << >> \in Seq(Turns) /\ << >> \in Seq(Calls)
  OBVIOUS
<1>2. CASE UNCHANGED storeVars
  BY <1>2 DEF ShownType, storeVars
<1>3. CASE Wiped
  BY <1>1, <1>3 DEF ShownType, Wiped, Messages
<1>4. CASE pendingApprovals' = << >> /\ UNCHANGED <<messages, currentTurnId, decisions>>
  BY <1>1, <1>4 DEF ShownType
<1> QED BY <1>2, <1>3, <1>4

LEMMA TabRuns ==
    ASSUME LinkInv, RunInv,
           \/ \E p \in Projects : Visit(p)
           \/ SignOut
           \/ \E s \in Sockets : Open(s) \/ Drop(s) \/ CloseEvent(s) \/ Fire(s)
    PROVE  RunInv'
<1> USE DEF history
<1>1. ASSUME NEW p \in Projects, Visit(p) PROVE RunInv'
  <2>1. /\ inbox' = inbox /\ (UNCHANGED storeVars \/ Wiped) /\ UNCHANGED serveVars /\ hasty' = hasty
        /\ unseen' = unseen \union Asking(p) \union (IF activeProjectId = Null THEN {} ELSE Asking(activeProjectId))
    BY <1>1 DEF Visit, EnsureSocketFor
  <2>2. unseen' \subseteq Turns /\ hasty' \in BOOLEAN
    BY <2>1 DEF RunInv, RunType, Asking
  <2>3. ShownType'
    BY <2>1, ShownDropped DEF RunInv, ShownType
  <2> QED BY <2>1, <2>2, <2>3, RunsStay
<1>2. CASE SignOut
  <2>1. /\ inbox' = inbox /\ Wiped /\ UNCHANGED serveVars /\ hasty' = hasty
        /\ unseen' = unseen \union Asking(activeProjectId)
    BY <1>2 DEF SignOut, ResetPlayground
  <2>2. unseen' \subseteq Turns /\ hasty' \in BOOLEAN
    BY <2>1 DEF RunInv, RunType, Asking
  <2>3. ShownType'
    BY <2>1, ShownDropped DEF RunInv, ShownType
  <2> QED BY <2>1, <2>2, <2>3, RunsStay
<1>3. ASSUME NEW s \in Sockets, Open(s) PROVE RunInv'
  <2>1. /\ inbox' = inbox /\ UNCHANGED <<messages, currentTurnId, pendingApprovals, decisions>>
        /\ UNCHANGED serveVars /\ UNCHANGED <<hasty, unseen>>
    BY <1>3 DEF Open, Opened
  <2>2. ShownType' /\ hasty' \in BOOLEAN /\ unseen' \subseteq Turns
    BY <2>1 DEF RunInv, ShownType, RunType
  <2> QED BY <2>1, <2>2, RunsStay
<1>4. ASSUME NEW s \in Sockets, Drop(s) \/ CloseEvent(s) PROVE RunInv'
  <2>1. /\ inbox' = [inbox EXCEPT ![s] = << >>] /\ pendingApprovals' = << >>
        /\ UNCHANGED <<messages, currentTurnId, decisions>> /\ UNCHANGED serveVars /\ hasty' = hasty
        /\ unseen' = unseen \/ unseen' = unseen \union Asking(of[s])
    BY <1>4 DEF Drop, CloseEvent, Closed
  <2>2. unseen' \subseteq Turns /\ hasty' \in BOOLEAN
    BY <2>1 DEF RunInv, RunType, Asking
  <2>3. inbox' \in [Sockets -> Seq(Frames)]
    <3>1. << >> \in Seq(Frames)
      OBVIOUS
    <3> QED BY <2>1, <3>1 DEF RunInv, ShownType
  <2>4. ShownType'
    BY <2>1, <2>3, ShownDropped DEF RunInv
  <2> QED BY <2>1, <2>2, <2>4, RunsStay
<1>5. ASSUME NEW s \in Sockets, Fire(s) PROVE RunInv'
  <2>1. inbox' = inbox /\ UNCHANGED storeVars /\ UNCHANGED serveVars /\ UNCHANGED <<hasty, unseen>>
    BY <1>5 DEF Fire, Fires
  <2>2. ShownType' /\ hasty' \in BOOLEAN /\ unseen' \subseteq Turns
    BY <2>1 DEF RunInv, ShownType, RunType, storeVars
  <2> QED BY <2>1, <2>2, RunsStay
<1> QED BY <1>1, <1>2, <1>3, <1>4, <1>5

LEMMA ReceiveRuns ==
    ASSUME RunInv, NEW s \in Sockets, Receive(s)
    PROVE  RunInv'
<1> DEFINE f == Head(inbox[s])
           i == CHOOSE j \in DOMAIN messages : messages[j].turn = currentTurnId
<1>1. /\ inbox[s] \in Seq(Frames) /\ inbox[s] # << >> /\ f \in Frames
      /\ inbox' = [inbox EXCEPT ![s] = Tail(@)] /\ UNCHANGED serveVars /\ UNCHANGED <<hasty, unseen>>
  BY ReceiveFacts
<1>2. inbox' \in [Sockets -> Seq(Frames)]
  <2>1. Tail(inbox[s]) \in Seq(Frames)
    BY <1>1, TailFacts
  <2> QED BY <1>1, <2>1 DEF RunInv, ShownType
<1>3. CASE f.kind = "approval.request"
  <2>1. /\ UNCHANGED <<messages, currentTurnId, decisions>>
        /\ pendingApprovals' = IF f.decision \in Range(pendingApprovals) THEN pendingApprovals
                               ELSE Append(pendingApprovals, f.decision)
    BY <1>3, ReceiveFacts
  <2>2. f.decision \in Turns
    BY <1>1, <1>3, FrameFacts
  <2>3. Append(pendingApprovals, f.decision) \in Seq(Turns)
    BY <2>2 DEF RunInv, ShownType
  <2>4. ShownType'
    BY <1>2, <2>1, <2>3 DEF RunInv, ShownType
  <2> QED BY <1>1, <2>4, RunsStay DEF RunInv, RunType
<1>4. CASE f.kind # "approval.request" /\ currentTurnId = Null
  <2>1. UNCHANGED <<messages, currentTurnId, decisions, pendingApprovals>>
    BY <1>4, ReceiveFacts
  <2>2. ShownType'
    BY <1>2, <2>1 DEF RunInv, ShownType
  <2> QED BY <1>1, <2>2, RunsStay DEF RunInv, RunType
<1>5. CASE f.kind # "approval.request" /\ currentTurnId # Null
  <2>1. /\ pendingApprovals' = pendingApprovals
        /\ messages' = [messages EXCEPT ![i].view = ApplyToTurn(@, f)]
        /\ currentTurnId' = IF f.kind \in {"run_end", "error"} THEN Null ELSE currentTurnId
        /\ decisions' = CASE f.kind = "tool_start" /\ ~Has(decisions, f.tool) -> Append(decisions, Tool(f.tool, "started"))
                          [] f.kind = "tool_end" /\ Has(messages[i].view.tools, f.tool) -> Mark(decisions, f.tool, f.state)
                          [] OTHER -> decisions
    BY <1>5, ReceiveFacts
  <2> HIDE DEF i
  <2>2. messages' \in Seq(Messages)
    BY <1>1, <1>5, <2>1, EventFacts DEF RunInv, ShownType, Messages
  <2>3. decisions \in Seq(Calls)
    BY DEF RunInv, ShownType
  <2>4. f.kind = "tool_start" => Append(decisions, Tool(f.tool, "started")) \in Seq(Calls)
    <3> SUFFICES ASSUME f.kind = "tool_start" PROVE Tool(f.tool, "started") \in Calls
      BY <2>3
    <3> QED BY <1>1, FrameFacts DEF Tool, Calls
  <2>5. f.kind = "tool_end" => Mark(decisions, f.tool, f.state) \in Seq(Calls)
    BY <1>1, <2>3, FrameFacts, MarkFacts
  <2>6. decisions' \in Seq(Calls)
    <3> HIDE DEF f
    <3>1. CASE f.kind = "tool_start"
      BY <2>1, <2>3, <2>4, <3>1
    <3>2. CASE f.kind = "tool_end"
      BY <2>1, <2>3, <2>5, <3>2
    <3>3. CASE f.kind \notin {"tool_start", "tool_end"}
      BY <2>1, <2>3, <3>3
    <3> QED BY <3>1, <3>2, <3>3
  <2>7. ShownType'
    BY <1>2, <2>1, <2>2, <2>6 DEF RunInv, ShownType, Messages
  <2> QED BY <1>1, <2>7, RunsStay DEF RunInv, RunType
<1> QED BY <1>3, <1>4, <1>5

LEMMA BroadcastFacts ==
    ASSUME ShownType, NEW p, NEW frames \in Seq(Frames), Broadcast(p, frames)
    PROVE  /\ ShownType'
           /\ \A s \in Sockets : inbox'[s] = IF of[s] = p /\ ready[s] = "open" THEN inbox[s] \o frames ELSE inbox[s]
           /\ UNCHANGED <<activeSocket, activeProjectId, reconnectTimer, timers, ready, of, overlap>>
           /\ UNCHANGED <<connected, messages, currentTurnId, pendingApprovals, decisions>>
<1>1. /\ inbox' = [s \in Sockets |-> IF s \in Listening(p) THEN inbox[s] \o frames ELSE inbox[s]]
      /\ UNCHANGED <<activeSocket, activeProjectId, reconnectTimer, timers, ready, of, overlap>>
      /\ UNCHANGED <<connected, messages, currentTurnId, pendingApprovals, decisions>>
  BY DEF Broadcast, storeVars
<1>2. \A s \in Sockets : inbox[s] \o frames \in Seq(Frames) /\ inbox[s] \in Seq(Frames)
  BY ConcatFacts DEF ShownType
<1>3. inbox' \in [Sockets -> Seq(Frames)]
  BY <1>1, <1>2
<1>4. ShownType'
  BY <1>1, <1>3 DEF ShownType
<1> QED BY <1>1, <1>4 DEF Listening

LEMMA CanSendFacts ==
    ASSUME LinkInv, CanSend
    PROVE  activeSocket \in Sockets /\ ready[activeSocket] = "open" /\ activeProjectId \in Projects
           /\ of[activeSocket] = activeProjectId
  BY NullIsNone DEF LinkInv, LinkType, ActiveIsMade, CanSend

LEMMA NewTurnIsView == NewTurn \in Views
  BY DEF NewTurn, Views

LEMMA SendChatRuns ==
    ASSUME LinkInv, RunInv, NEW t \in Turns, SendChat(t)
    PROVE  RunInv'
<1> DEFINE p == activeProjectId
<1> USE NullIsNone DEF RunInv
<1>1. p \in Projects
  BY CanSendFacts DEF SendChat, ShowTurn
<1>2. /\ run[t] = "typed" /\ run' = [run EXCEPT ![t] = "sent"] /\ home' = [home EXCEPT ![t] = p]
      /\ up' = [up EXCEPT ![p] = @ \o <<Chat(t)>>]
      /\ messages' = Append(messages, [turn |-> t, view |-> NewTurn]) /\ currentTurnId' = t
      /\ hasty' = (hasty \/ Alive(p) # {} \/ currentTurnId # Null \/ inbox[activeSocket] # << >>)
      /\ UNCHANGED <<letters, gate, unseen, inbox, pendingApprovals, decisions>>
  BY DEF SendChat, ShowTurn, Upstream, linkVars
<1> HIDE DEF p
<1>3. ShownType'
  <2>1. [turn |-> t, view |-> NewTurn] \in Messages
    BY NewTurnIsView DEF Messages
  <2>2. messages' \in Seq(Messages)
    BY <1>2, <2>1 DEF ShownType, Messages
  <2> QED BY <1>2, <2>2 DEF ShownType, Messages
<1>4. up[p] \in Seq(Upward) /\ Chat(t) \in Upward
  BY <1>1 DEF RunType, Chat, Upward
<1> DEFINE chat == Chat(t)
<1>5. chat.kind = "chat" /\ chat.turn = t
  BY DEF Chat
<1> HIDE DEF chat
<1>6. /\ up'[p] \in Seq(Upward) /\ DOMAIN up'[p] = 1 .. Len(up[p]) + 1 /\ Len(up[p]) \in Nat
      /\ DOMAIN up[p] = 1 .. Len(up[p])
      /\ \A i \in 1 .. Len(up[p]) : up'[p][i] = up[p][i]
      /\ up'[p][Len(up[p]) + 1] = chat
      /\ \A q \in Projects \ {p} : up'[q] = up[q]
  <2>1. up'[p] = up[p] \o <<chat>> /\ \A q \in Projects \ {p} : up'[q] = up[q]
    BY <1>1, <1>2 DEF RunType, chat
  <2>2. <<chat>> \in Seq(Upward) /\ DOMAIN <<chat>> = {1} /\ <<chat>>[1] = chat /\ Len(<<chat>>) = 1
    BY <1>4 DEF chat
  <2> QED BY <1>4, <2>1, <2>2, ConcatFacts
<1>7. RunType'
  <2>1. up' \in [Projects -> Seq(Upward)]
    BY <1>1, <1>2, <1>6 DEF RunType
  <2>2. hasty' \in BOOLEAN
    BY <1>2 DEF RunType
  <2> QED BY <1>1, <1>2, <2>1, <2>2 DEF RunType
<1>8. RunsAtHome'
  BY <1>1, <1>2 DEF RunsAtHome, RunType
<1>9. SentOnce'
  <2>1. \A q \in Projects : \A i \in DOMAIN up[q] : up[q][i].kind = "chat" => up[q][i].turn \in Turns /\ up[q][i].turn # t
    <3> SUFFICES ASSUME NEW q \in Projects, NEW i \in DOMAIN up[q], up[q][i].kind = "chat"
                 PROVE  up[q][i].turn \in Turns /\ up[q][i].turn # t
      OBVIOUS
    <3>1. up[q][i] \in Upward
      BY DEF RunType
    <3>2. run[up[q][i].turn] = "sent"
      BY DEF SentOnce
    <3> QED BY <1>2, <3>1, <3>2 DEF Upward
  <2> SUFFICES ASSUME NEW q \in Projects, NEW i \in DOMAIN up'[q], up'[q][i].kind = "chat"
               PROVE  /\ run'[up'[q][i].turn] = "sent" /\ home'[up'[q][i].turn] = q
                      /\ \A j \in DOMAIN up'[q] : up'[q][j].kind = "chat" /\ up'[q][j].turn = up'[q][i].turn => j = i
    BY DEF SentOnce
  <2>2. run'[t] = "sent" /\ home'[t] = p /\ \A u \in Turns \ {t} : run'[u] = run[u] /\ home'[u] = home[u]
    BY <1>2 DEF RunType
  <2>3. CASE q # p
    <3>1. up'[q] = up[q]
      BY <1>6, <2>3
    <3> QED BY <2>1, <2>2, <3>1 DEF SentOnce
  <2>4. CASE q = p
    <3>1. CASE i = Len(up[p]) + 1
      <4>1. up'[p][i].turn = t /\ \A j \in 1 .. Len(up[p]) : up'[p][j].kind = "chat" => up'[p][j].turn # t
        BY <1>1, <1>5, <1>6, <2>1, <3>1
      <4> QED BY <1>6, <2>2, <2>4, <3>1, <4>1
    <3>2. CASE i # Len(up[p]) + 1
      <4>1. i \in DOMAIN up[p] /\ up'[p][i] = up[p][i]
        BY <1>6, <2>4, <3>2
      <4>2. up[p][i].turn \in Turns \ {t}
        BY <1>1, <2>1, <2>4, <4>1
      <4>3. \A j \in DOMAIN up'[p] : up'[p][j].kind = "chat" /\ up'[p][j].turn = up[p][i].turn
                => j \in DOMAIN up[p] /\ up'[p][j] = up[p][j]
        <5> SUFFICES ASSUME NEW j \in DOMAIN up'[p], up'[p][j].turn = up[p][i].turn
                     PROVE  j \in DOMAIN up[p] /\ up'[p][j] = up[p][j]
          OBVIOUS
        <5>1. j # Len(up[p]) + 1
          BY <1>5, <1>6, <4>2
        <5> QED BY <1>6, <5>1
      <4>4. \A j \in DOMAIN up[p] : up[p][j].kind = "chat" /\ up[p][j].turn = up[p][i].turn => j = i
        BY <2>2, <2>4, <4>1 DEF SentOnce
      <4>5. run[up[p][i].turn] = "sent" /\ home[up[p][i].turn] = p
        BY <2>4, <4>1 DEF SentOnce
      <4>6. run'[up'[p][i].turn] = "sent" /\ home'[up'[p][i].turn] = p
        BY <2>2, <4>1, <4>2, <4>5
      <4>7. \A j \in DOMAIN up'[p] : up'[p][j].kind = "chat" /\ up'[p][j].turn = up'[p][i].turn => j = i
        BY <4>1, <4>3, <4>4
      <4> QED BY <2>4, <4>6, <4>7
    <3> QED BY <3>1, <3>2
  <2> QED BY <2>3, <2>4
<1> QED BY <1>3, <1>7, <1>8, <1>9

LEMMA ReadRuns ==
    ASSUME RunInv, NEW p \in Projects, Read(p)
    PROVE  RunInv'
<1> DEFINE f == Head(up[p])
<1> USE DEF RunInv
<1>1. /\ up[p] # << >> /\ up' = [up EXCEPT ![p] = Tail(@)]
      /\ UNCHANGED tabVars /\ UNCHANGED <<home, letters, hasty, unseen>>
      /\ \/ f.kind = "chat" /\ run' = [run EXCEPT ![f.turn] = "waiting"] /\ gate' = gate
         \/ f.kind = "approval.reply" /\ gate' = [gate EXCEPT ![f.turn] = Settled(f.turn, f.allowed)] /\ run' = run
  BY DEF Read, history
<1>2. up[p] \in Seq(Upward)
  BY DEF RunType
<1>3. /\ f \in Upward /\ Tail(up[p]) \in Seq(Upward) /\ f = up[p][1] /\ 1 \in DOMAIN up[p]
      /\ \A i \in DOMAIN Tail(up[p]) : Tail(up[p])[i] = up[p][i + 1] /\ i + 1 \in DOMAIN up[p] /\ i + 1 # 1 /\ i \in Nat
  BY <1>1, <1>2, TailFacts
<1>4. f.turn \in Turns
  BY <1>3 DEF Upward
<1>5. up'[p] = Tail(up[p]) /\ \A q \in Projects \ {p} : up'[q] = up[q]
  BY <1>1 DEF RunType
<1> HIDE DEF f
<1>6. \A t \in Turns : gate'[t] = gate[t] \/ (gate[t] = "open" /\ gate'[t] \in {"allowed", "denied"})
  BY <1>1, <1>4 DEF RunType, Settled
<1>7. RunType'
  <2>1. up' \in [Projects -> Seq(Upward)]
    BY <1>1, <1>3 DEF RunType
  <2>2. run' \in [Turns -> {"typed", "sent", "waiting", "running", "over"}]
    BY <1>1, <1>4 DEF RunType
  <2>3. gate' \in [Turns -> {"none", "open", "allowed", "denied", "expired"}]
    BY <1>1, <1>4 DEF RunType, Settled
  <2> QED BY <1>1, <2>1, <2>2, <2>3 DEF RunType
<1>8. f.kind = "chat" => run[f.turn] = "sent" /\ home[f.turn] = p
  BY <1>3 DEF SentOnce
<1>9. \A t \in Turns : run'[t] = run[t] \/ (t = f.turn /\ f.kind = "chat" /\ run[t] = "sent" /\ run'[t] = "waiting")
  BY <1>1, <1>4, <1>8 DEF RunType
<1>10. RunsAtHome'
  <2> SUFFICES ASSUME NEW t \in Turns
               PROVE  /\ home'[t] = Null <=> run'[t] = "typed"
                      /\ \A n \in DOMAIN letters'[t] : letters'[t][n] = <<t, n>>
                      /\ gate'[t] = "open" => run'[t] = "running"
                      /\ run'[t] \in {"typed", "sent", "waiting"} => letters'[t] = << >>
    BY DEF RunsAtHome
  <2>1. gate'[t] = "open" => gate[t] = "open"
    BY <1>6
  <2> QED BY <1>1, <1>9, <2>1 DEF RunsAtHome
<1>11. SentOnce'
  <2> SUFFICES ASSUME NEW q \in Projects, NEW i \in DOMAIN up'[q], up'[q][i].kind = "chat"
               PROVE  /\ run'[up'[q][i].turn] = "sent" /\ home'[up'[q][i].turn] = q
                      /\ \A j \in DOMAIN up'[q] : up'[q][j].kind = "chat" /\ up'[q][j].turn = up'[q][i].turn => j = i
    BY DEF SentOnce
  <2>1. CASE q = p
    <3>1. up'[p][i] = up[p][i + 1] /\ i + 1 \in DOMAIN up[p] /\ i + 1 # 1 /\ i \in Nat
      BY <1>3, <1>5, <2>1
    <3>2. run[up[p][i + 1].turn] = "sent" /\ home[up[p][i + 1].turn] = p /\ up[p][i + 1].turn \in Turns
      BY <1>2, <2>1, <3>1 DEF SentOnce, Upward
    <3>3. f.kind = "chat" => f.turn # up[p][i + 1].turn
      BY <1>3, <2>1, <3>1 DEF SentOnce
    <3>4. run'[up[p][i + 1].turn] = "sent"
      BY <1>9, <3>2, <3>3
    <3>5. \A j \in DOMAIN up'[p] : up'[p][j].kind = "chat" /\ up'[p][j].turn = up'[p][i].turn => j + 1 = i + 1 /\ j \in Nat
      <4> SUFFICES ASSUME NEW j \in DOMAIN up'[p], up'[p][j].kind = "chat", up'[p][j].turn = up'[p][i].turn
                   PROVE  j + 1 = i + 1 /\ j \in Nat
        OBVIOUS
      <4>1. up'[p][j] = up[p][j + 1] /\ j + 1 \in DOMAIN up[p] /\ j \in Nat
        BY <1>3, <1>5
      <4>2. up[p][j + 1].kind = "chat" /\ up[p][j + 1].turn = up[p][i + 1].turn /\ up[p][i + 1].kind = "chat"
        BY <2>1, <3>1, <4>1
      <4> QED BY <3>1, <4>1, <4>2 DEF SentOnce
    <3> QED BY <1>1, <2>1, <3>1, <3>2, <3>4, <3>5
  <2>2. CASE q # p
    <3>1. up'[q] = up[q]
      BY <1>5, <2>2
    <3>2. run[up[q][i].turn] = "sent" /\ home[up[q][i].turn] = q
      BY <2>2, <3>1 DEF SentOnce
    <3>3. up[q][i].turn \in Turns
      BY <3>1, <2>2 DEF RunType, Upward
    <3>4. run'[up[q][i].turn] = "sent"
      BY <1>8, <1>9, <2>2, <3>2, <3>3
    <3> QED BY <1>1, <2>2, <3>1, <3>2, <3>4 DEF SentOnce
  <2> QED BY <2>1, <2>2
<1>12. ShownType'
  BY <1>1 DEF ShownType, tabVars, storeVars, linkVars
<1> QED BY <1>7, <1>10, <1>11, <1>12

\* A step of a run, whose process sends frames.
LEMMA RunSteps ==
    ASSUME RunInv, NEW t \in Turns, NEW frames \in Seq(Frames), Broadcast(home[t], frames),
           run[t] # "sent", run' \in [Turns -> {"typed", "sent", "waiting", "running", "over"}],
           \A u \in Turns \ {t} : run'[u] = run[u], run'[t] # "sent",
           RunsAtHome', UNCHANGED <<up, home, hasty>>, unseen' \subseteq Turns,
           letters' \in [Turns -> Seq(Letters)],
           gate' \in [Turns -> {"none", "open", "allowed", "denied", "expired"}]
    PROVE  RunInv'
<1> USE DEF RunInv
<1>1. ShownType'
  BY BroadcastFacts
<1>2. RunType'
  BY DEF RunType
<1>3. SentOnce'
  <2> SUFFICES ASSUME NEW q \in Projects, NEW i \in DOMAIN up[q], up[q][i].kind = "chat"
               PROVE  /\ run'[up[q][i].turn] = "sent" /\ home[up[q][i].turn] = q
                      /\ \A j \in DOMAIN up[q] : up[q][j].kind = "chat" /\ up[q][j].turn = up[q][i].turn => j = i
    BY DEF SentOnce
  <2>1. run[up[q][i].turn] = "sent" /\ home[up[q][i].turn] = q
        /\ \A j \in DOMAIN up[q] : up[q][j].kind = "chat" /\ up[q][j].turn = up[q][i].turn => j = i
    BY DEF SentOnce
  <2>2. up[q] \in Seq(Upward)
    BY DEF RunType
  <2>3. up[q][i].turn \in Turns \ {t}
    BY <2>1, <2>2 DEF Upward
  <2> QED BY <2>1, <2>3
<1> QED BY <1>1, <1>2, <1>3

LEMMA OneFrame ==
    ASSUME NEW f \in Frames
    PROVE  /\ <<f>> \in Seq(Frames) /\ Len(<<f>>) = 1 /\ <<f>>[1] = f
           /\ \A g \in Frames : <<f, g>> \in Seq(Frames) /\ Len(<<f, g>>) = 2 /\ <<f, g>>[1] = f /\ <<f, g>>[2] = g
  OBVIOUS

LEMMA OneElement ==
    ASSUME NEW S, NEW x \in S, NEW s, s = <<x>>
    PROVE  s \in Seq(S) /\ Len(s) = 1 /\ DOMAIN s = {1} /\ \A i \in DOMAIN s : s[i] = x
  OBVIOUS

LEMMA LastFrame ==
    ASSUME NEW S, NEW x \in S, NEW y \in S, NEW s, s \in {<< >>, <<x>>}
    PROVE  Append(s, y) \in Seq(S) /\ \A i \in DOMAIN Append(s, y) : Append(s, y)[i] \in {x, y}
<1>1. s \in Seq(S) /\ \A i \in DOMAIN s : s[i] = x
  <2>1. CASE s = << >>
    BY <2>1
  <2>2. CASE s = <<x>>
    BY <2>2
  <2> QED BY <2>1, <2>2
<1> QED BY <1>1, AppendFacts

\* What a process says of a run.
LEMMA ProcessFrames ==
    ASSUME RunInv, NEW t \in Turns
    PROVE  /\ <<RunStart>> \in Seq(Frames) /\ <<ToolStart(t), Request(t)>> \in Seq(Frames)
           /\ <<BlockDelta(t, "text", <<(<<t, Len(letters[t]) + 1>>)>>)>> \in Seq(Frames)
           /\ <<t, Len(letters[t]) + 1>> \in Letters
<1> DEFINE letter == <<t, Len(letters[t]) + 1>>
<1>1. letters[t] \in Seq(Letters)
  BY DEF RunInv, RunType
<1>2. letter \in Letters /\ letter[1] = t
  BY <1>1 DEF Letters
<1>3. BlockDelta(t, "text", <<letter>>) \in Frames
  BY <1>2, FramesAreFrames
<1>4. RunStart \in Frames /\ ToolStart(t) \in Frames /\ Request(t) \in Frames
  BY FramesAreFrames
<1> QED BY <1>2, <1>3, <1>4, OneFrame

LEMMA ProcessRuns ==
    ASSUME RunInv, NEW t \in Turns, Begin(t) \/ Say(t) \/ Ask(t) \/ Expire(t) \/ End(t)
    PROVE  RunInv'
<1> USE DEF RunInv, history
<1>1. CASE Begin(t)
  <2>1. /\ run[t] = "waiting" /\ run' = [run EXCEPT ![t] = "running"]
        /\ Broadcast(home[t], <<RunStart>>) /\ UNCHANGED <<up, home, letters, gate, hasty, unseen>>
    BY <1>1 DEF Begin
  <2>2. RunsAtHome'
    BY <2>1 DEF RunsAtHome, RunType
  <2>3. /\ run' \in [Turns -> {"typed", "sent", "waiting", "running", "over"}]
        /\ run'[t] = "running" /\ \A u \in Turns \ {t} : run'[u] = run[u]
    BY <2>1 DEF RunType
  <2> QED BY <2>1, <2>2, <2>3, ProcessFrames, RunSteps DEF RunType
<1>2. CASE Say(t)
  <2> DEFINE letter == <<t, Len(letters[t]) + 1>>
  <2>1. /\ run[t] = "running" /\ letters' = [letters EXCEPT ![t] = Append(@, letter)]
        /\ Broadcast(home[t], <<BlockDelta(t, "text", <<letter>>)>>) /\ UNCHANGED <<up, run, home, gate, hasty, unseen>>
    BY <1>2 DEF Say
  <2>2. letter \in Letters /\ <<BlockDelta(t, "text", <<letter>>)>> \in Seq(Frames)
    BY ProcessFrames
  <2>3. /\ letters'[t] = Append(letters[t], letter) /\ letters[t] \in Seq(Letters)
        /\ \A u \in Turns \ {t} : letters'[u] = letters[u]
    BY <2>1 DEF RunType
  <2>4. /\ letters'[t] \in Seq(Letters) /\ DOMAIN letters'[t] = 1 .. Len(letters[t]) + 1 /\ Len(letters[t]) \in Nat
        /\ DOMAIN letters[t] = 1 .. Len(letters[t])
        /\ \A i \in 1 .. Len(letters[t]) : letters'[t][i] = letters[t][i]
        /\ letters'[t][Len(letters[t]) + 1] = <<t, Len(letters[t]) + 1>>
    BY <2>2, <2>3, AppendFacts
  <2>5. letters' \in [Turns -> Seq(Letters)]
    BY <2>1, <2>3, <2>4 DEF RunType
  <2>6. \A n \in DOMAIN letters'[t] : letters'[t][n] = <<t, n>>
    <3>1. \A n \in 1 .. Len(letters[t]) : letters[t][n] = <<t, n>>
      BY <2>4 DEF RunsAtHome
    <3>2. \A n \in DOMAIN letters'[t] : n \in 1 .. Len(letters[t]) \/ n = Len(letters[t]) + 1
      BY <2>4
    <3> QED BY <2>4, <3>1, <3>2
  <2> HIDE DEF letter
  <2>7. RunsAtHome'
    BY <2>1, <2>3, <2>6 DEF RunsAtHome
  <2> QED BY <2>1, <2>2, <2>5, <2>7, RunSteps DEF RunType
<1>3. CASE Ask(t)
  <2>1. /\ run[t] = "running" /\ gate' = [gate EXCEPT ![t] = "open"]
        /\ Broadcast(home[t], <<ToolStart(t), Request(t)>>)
        /\ unseen' = unseen \/ unseen' = unseen \union {t}
        /\ UNCHANGED <<up, run, home, letters, hasty>>
    BY <1>3 DEF Ask
  <2>2. RunsAtHome'
    BY <2>1 DEF RunsAtHome, RunType
  <2>3. gate' \in [Turns -> {"none", "open", "allowed", "denied", "expired"}] /\ unseen' \subseteq Turns
    BY <2>1 DEF RunType
  <2> QED BY <2>1, <2>2, <2>3, ProcessFrames, RunSteps DEF RunType
<1>4. CASE Expire(t)
  <2>1. /\ gate[t] = "open" /\ gate' = [gate EXCEPT ![t] = "expired"]
        /\ UNCHANGED tabVars /\ UNCHANGED <<up, run, home, letters, hasty, unseen>>
    BY <1>4 DEF Expire
  <2>2. RunsAtHome'
    BY <2>1 DEF RunsAtHome, RunType
  <2>3. RunType'
    BY <2>1 DEF RunType
  <2>4. ShownType'
    BY <2>1 DEF ShownType, tabVars, storeVars, linkVars
  <2>5. SentOnce'
    BY <2>1 DEF SentOnce
  <2> QED BY <2>2, <2>3, <2>4, <2>5
<1>5. CASE End(t)
  <2> DEFINE state == IF gate[t] = "allowed" THEN "completed" ELSE "failed"
             tools == IF gate[t] = "none" THEN << >> ELSE <<ToolEnd(t, state)>>
  <2>1. /\ run[t] = "running" /\ gate[t] # "open" /\ run' = [run EXCEPT ![t] = "over"]
        /\ UNCHANGED <<up, home, letters, gate, hasty, unseen>>
    BY <1>5 DEF End
  <2>2. PICK last \in {RunEnd(letters[t]), ErrorEvent} : Broadcast(home[t], Append(tools, last))
    BY <1>5 DEF End
  <2>3. last \in Frames /\ ToolEnd(t, state) \in Frames
    BY FramesAreFrames DEF RunType
  <2>4. Append(tools, last) \in Seq(Frames)
    BY <2>3, LastFrame
  <2>5. RunsAtHome'
    BY <2>1 DEF RunsAtHome, RunType
  <2>6. /\ run' \in [Turns -> {"typed", "sent", "waiting", "running", "over"}]
        /\ run'[t] = "over" /\ \A u \in Turns \ {t} : run'[u] = run[u]
    BY <2>1 DEF RunType
  <2> QED BY <2>1, <2>2, <2>4, <2>5, <2>6, RunSteps DEF RunType
<1> QED BY <1>1, <1>2, <1>3, <1>4, <1>5

\* A prompt, entered once, is taken off: the others stay.
LEMMA TakenOff ==
    ASSUME pendingApprovals \in Seq(Turns), NEW d, TakeOff(d)
    PROVE  /\ d \in Turns /\ pendingApprovals' \in Seq(Turns)
           /\ Range(pendingApprovals') \subseteq Range(pendingApprovals)
           /\ Range(pendingApprovals) \subseteq Range(pendingApprovals') \union {d}
           /\ (\A i, j \in DOMAIN pendingApprovals : pendingApprovals[i] = pendingApprovals[j] => i = j) =>
                  \A i, j \in DOMAIN pendingApprovals' : pendingApprovals'[i] = pendingApprovals'[j] => i = j
           /\ UNCHANGED <<connected, messages, currentTurnId, decisions, linkVars>>
<1>1. /\ d \in Range(pendingApprovals) /\ pendingApprovals' = Without(d)
      /\ UNCHANGED <<connected, messages, currentTurnId, decisions, linkVars>>
  BY DEF TakeOff
<1> DEFINE k == CHOOSE i \in DOMAIN pendingApprovals : pendingApprovals[i] = d
<1>2. k \in DOMAIN pendingApprovals /\ pendingApprovals[k] = d
  BY <1>1 DEF Range
<1>3. pendingApprovals' = RemoveAt(pendingApprovals, k)
  BY <1>1 DEF Without
<1> HIDE DEF k
<1>4. /\ pendingApprovals' \in Seq(Turns) /\ DOMAIN pendingApprovals' = 1 .. Len(pendingApprovals) - 1
      /\ DOMAIN pendingApprovals = 1 .. Len(pendingApprovals) /\ Len(pendingApprovals) \in Nat
      /\ \A j \in 1 .. Len(pendingApprovals) - 1 :
             pendingApprovals'[j] = IF j < k THEN pendingApprovals[j] ELSE pendingApprovals[j + 1]
  BY <1>2, <1>3, RemoveFacts
<1>5. d \in Turns /\ k \in Nat
  BY <1>2, <1>4
<1>6. Range(pendingApprovals') \subseteq Range(pendingApprovals)
  <2> SUFFICES ASSUME NEW j \in DOMAIN pendingApprovals'
               PROVE  \E i \in DOMAIN pendingApprovals : pendingApprovals[i] = pendingApprovals'[j]
    BY DEF Range
  <2>1. j \in DOMAIN pendingApprovals /\ j + 1 \in DOMAIN pendingApprovals
    BY <1>4
  <2> QED BY <1>4, <2>1
<1>7. Range(pendingApprovals) \subseteq Range(pendingApprovals') \union {d}
  <2> SUFFICES ASSUME NEW i \in DOMAIN pendingApprovals, pendingApprovals[i] # d
               PROVE  \E j \in DOMAIN pendingApprovals' : pendingApprovals'[j] = pendingApprovals[i]
    BY DEF Range
  <2>1. i # k
    BY <1>2
  <2>2. CASE i < k
    BY <1>2, <1>4, <2>2
  <2>3. CASE i > k
    <3>1. i - 1 \in DOMAIN pendingApprovals' /\ ~(i - 1 < k) /\ (i - 1) + 1 = i
      BY <1>2, <1>4, <1>5, <2>3
    <3> QED BY <1>4, <3>1
  <2> QED BY <1>4, <1>5, <2>1, <2>2, <2>3
<1>8. ASSUME \A i, j \in DOMAIN pendingApprovals : pendingApprovals[i] = pendingApprovals[j] => i = j,
             NEW i \in DOMAIN pendingApprovals', NEW j \in DOMAIN pendingApprovals', pendingApprovals'[i] = pendingApprovals'[j]
      PROVE  i = j
  <2> DEFINE at(n) == IF n < k THEN n ELSE n + 1
  <2>1. \A n \in DOMAIN pendingApprovals' : at(n) \in DOMAIN pendingApprovals /\ pendingApprovals'[n] = pendingApprovals[at(n)] /\ n \in Nat
    BY <1>4
  <2>2. at(i) = at(j)
    BY <1>8, <2>1
  <2> QED BY <1>5, <2>1, <2>2
<1> QED BY <1>1, <1>4, <1>5, <1>6, <1>7, <1>8

LEMMA DenyAllFacts ==
    ASSUME RunInv
    PROVE  /\ DenyAll \in Seq(Upward) /\ DOMAIN DenyAll = DOMAIN pendingApprovals
           /\ \A i \in DOMAIN pendingApprovals : DenyAll[i].kind = "approval.reply" /\ DenyAll[i].turn = pendingApprovals[i]
<1>1. /\ DOMAIN pendingApprovals = 1 .. Len(pendingApprovals) /\ Len(pendingApprovals) \in Nat
      /\ \A i \in DOMAIN pendingApprovals : pendingApprovals[i] \in Turns
  BY DEF RunInv, ShownType
<1>2. \A t \in Turns : Reply(t, FALSE) \in Upward /\ Reply(t, FALSE).kind = "approval.reply" /\ Reply(t, FALSE).turn = t
  BY DEF Reply, Upward
<1>3. DenyAll \in [1 .. Len(pendingApprovals) -> Upward]
  BY <1>1, <1>2 DEF DenyAll
<1>4. DenyAll \in Seq(Upward)
  BY <1>1, <1>3
<1> QED BY <1>1, <1>2, <1>4 DEF DenyAll

LEMMA AnswerRuns ==
    ASSUME LinkInv, RunInv,
           \/ ResetChat
           \/ \E t \in Turns : Sweep(t)
           \/ \E t \in Turns, allowed \in BOOLEAN : Respond(t, allowed)
    PROVE  RunInv'
<1> USE DEF RunInv, history
<1>1. CASE ResetChat
  <2>1. /\ currentTurnId' = Null /\ messages' = << >> /\ decisions' = << >> /\ pendingApprovals' = << >> /\ inbox' = inbox
        /\ UNCHANGED <<run, home, letters, gate, hasty, unseen>>
    BY <1>1 DEF ResetChat, ClearChat, linkVars
  <2>2. << >> \in Seq(Messages) /\ << >> \in Seq(Turns) /\ << >> \in Seq(Calls)
    OBVIOUS
  <2>3. ShownType'
    BY <2>1, <2>2 DEF ShownType, Messages
  <2>4. CASE CanSend
    <3>1. up' = [up EXCEPT ![activeProjectId] = @ \o DenyAll] /\ activeProjectId \in Projects
      BY <1>1, <2>4, CanSendFacts DEF ResetChat, Upstream
    <3>2. DenyAll \in Seq(Upward) /\ \A i \in DOMAIN DenyAll : DenyAll[i].kind = "approval.reply"
      BY DenyAllFacts
    <3> HIDE DEF RunInv
    <3> QED BY <2>1, <2>3, <3>1, <3>2, SentUp
  <2>5. CASE ~CanSend
    <3>1. UNCHANGED serveVars
      BY <1>1, <2>1, <2>5 DEF ResetChat, serveVars
    <3> QED BY <2>1, <2>3, <3>1, RunsStay DEF RunType
  <2> QED BY <2>4, <2>5
<1>2. ASSUME NEW t \in Turns, Sweep(t) PROVE RunInv'
  <2>1. TakeOff(t) /\ UNCHANGED serveVars /\ hasty' = hasty /\ unseen' = unseen \union {t}
    BY <1>2 DEF Sweep
  <2>2. pendingApprovals' \in Seq(Turns) /\ UNCHANGED <<connected, messages, currentTurnId, decisions, linkVars>>
    BY <2>1, TakenOff DEF ShownType
  <2>3. ShownType'
    BY <2>2 DEF ShownType, linkVars
  <2> QED BY <2>1, <2>3, RunsStay DEF RunType
<1>3. ASSUME NEW t \in Turns, NEW allowed \in BOOLEAN, Respond(t, allowed) PROVE RunInv'
  <2>1. /\ TakeOff(t) /\ up' = [up EXCEPT ![activeProjectId] = @ \o <<Reply(t, allowed)>>] /\ activeProjectId \in Projects
        /\ UNCHANGED <<run, home, letters, gate, hasty, unseen>>
    BY <1>3, CanSendFacts DEF Respond, Upstream
  <2>2. pendingApprovals' \in Seq(Turns) /\ UNCHANGED <<connected, messages, currentTurnId, decisions, linkVars>>
    BY <2>1, TakenOff DEF ShownType
  <2>3. ShownType'
    BY <2>2 DEF ShownType, linkVars
  <2>4. Reply(t, allowed) \in Upward /\ Reply(t, allowed).kind = "approval.reply"
    BY DEF Reply, Upward
  <2>5. <<Reply(t, allowed)>> \in Seq(Upward) /\ \A i \in DOMAIN <<Reply(t, allowed)>> : <<Reply(t, allowed)>>[i].kind = "approval.reply"
    BY <2>4
  <2> HIDE DEF RunInv
  <2> QED BY <2>1, <2>3, <2>5, SentUp
<1> QED BY <1>1, <1>2, <1>3

-----------------------------------------------------------------------------
(* What is shown is of the open project.                                   *)

LEMMA HereHolds ==
    Init => HereInv
  BY DEF Init, TabInit, HereInv, InboxOfProject, ShownOfProject, PromptsCanBeSent, AskedHere

LEMMA ShownTypes ==
    ASSUME ShownType
    PROVE  /\ \A i \in DOMAIN messages :
                  /\ messages[i] \in Messages /\ messages[i].turn \in Turns
                  /\ messages[i].view \in Views /\ messages[i].view.text \in Seq(Letters)
                  /\ \A k \in DOMAIN messages[i].view.text : messages[i].view.text[k] \in Letters
                                                               /\ messages[i].view.text[k][1] \in Turns
           /\ \A i \in DOMAIN decisions : decisions[i].id \in Turns
           /\ \A i \in DOMAIN pendingApprovals : pendingApprovals[i] \in Turns
<1>1. \A i \in DOMAIN messages : messages[i] \in Messages
  <2>1. messages \in Seq(Messages)
    BY DEF ShownType, Messages
  <2> QED BY <2>1
<1>2. \A i \in DOMAIN messages : messages[i].turn \in Turns /\ messages[i].view \in Views
  BY <1>1 DEF Messages
<1>3. \A i \in DOMAIN messages : messages[i].view.text \in Seq(Letters)
  BY <1>2 DEF Views
<1>4. \A i \in DOMAIN messages : \A k \in DOMAIN messages[i].view.text : messages[i].view.text[k] \in Letters
  BY <1>3
<1>5. \A letter \in Letters : letter[1] \in Turns
  BY DEF Letters
<1>6. \A i \in DOMAIN decisions : decisions[i] \in Calls
  BY DEF ShownType
<1>7. \A call \in Calls : call.id \in Turns
  BY DEF Calls
<1>8. \A i \in DOMAIN pendingApprovals : pendingApprovals[i] \in Turns
  BY DEF ShownType
<1> QED BY <1>1, <1>2, <1>3, <1>4, <1>5, <1>6, <1>7, <1>8

\* A turn that is typed gets its home: the frames that are on their way are of others.
LEMMA HomesStay ==
    ASSUME NEW f \in Frames, NEW p, p # Null, From(f, p),
           \A t \in Turns : home[t] # Null => home'[t] = home[t]
    PROVE  From(f, p)'
<1>1. f.kind \in {"tool_start", "tool_end"} => home'[f.tool] = p
  BY FrameFacts DEF From
<1>2. f.kind = "block_delta" => home'[f.text[1][1]] = p
  <2> SUFFICES ASSUME f.kind = "block_delta" PROVE home'[f.text[1][1]] = p
    OBVIOUS
  <2>1. f.text[1] \in Letters
    BY FrameFacts
  <2>2. f.text[1][1] \in Turns
    BY <2>1 DEF Letters
  <2> QED BY <2>2 DEF From
<1>3. f.kind = "approval.request" => home'[f.decision] = p
  BY FrameFacts DEF From
<1>4. f.kind = "run_end" => \A k \in DOMAIN f.message : home'[f.message[k][1]] = p
  <2> SUFFICES ASSUME f.kind = "run_end", NEW k \in DOMAIN f.message PROVE home'[f.message[k][1]] = p
    OBVIOUS
  <2>1. f.message \in Seq(Letters)
    BY FrameFacts
  <2>2. f.message[k] \in Letters
    BY <2>1
  <2>3. f.message[k][1] \in Turns
    BY <2>2 DEF Letters
  <2> QED BY <2>3 DEF From
<1> QED BY <1>1, <1>2, <1>3, <1>4 DEF From

\* Nothing comes in but on an open socket, so a new one is silent.
LEMMA InboxStays ==
    ASSUME RunInv, InboxOfProject, UNCHANGED home,
           \A s \in Sockets : inbox'[s] = inbox[s] \/ inbox'[s] = << >>,
           \A s \in Sockets : inbox'[s] # << >> => of'[s] = of[s] /\ ready'[s] \in {"open", "closing"}
    PROVE  InboxOfProject'
<1> SUFFICES ASSUME NEW s \in Sockets
             PROVE  (\A i \in DOMAIN inbox[s] : From(inbox[s][i], of[s]))'
  BY DEF InboxOfProject
<1>1. CASE inbox'[s] = << >>
  BY <1>1
<1>2. CASE inbox'[s] # << >>
  BY <1>2 DEF InboxOfProject, From
<1> QED BY <1>1, <1>2

\* A call that waits is of a turn that was sent.
LEMMA OpenIsHome ==
    ASSUME RunInv, NEW t \in Turns, gate[t] = "open"
    PROVE  home[t] # Null /\ run[t] = "running"
  BY DEF RunInv, RunsAtHome

\* A sign-out and a visit wipe the store, or find it empty.
LEMMA LeaveWipes ==
    ASSUME LinkInv, HereInv, ~overlap', SignOut \/ \E p \in Projects : Visit(p)
    PROVE  messages' = << >> /\ decisions' = << >> /\ pendingApprovals' = << >> /\ currentTurnId' = Null
<1>1. CASE SignOut
  BY <1>1 DEF SignOut, ResetPlayground, Wiped
<1>2. CASE \E p \in Projects : Visit(p)
  <2> PICK p \in Projects : Visit(p)
    BY <1>2
  <2>1. ~overlap /\ (activeProjectId \in {Null, p} => UNCHANGED storeVars)
    BY DEF Visit, EnsureSocketFor
  <2>2. activeProjectId \notin {Null, p} => Wiped
    BY DEF Visit, EnsureSocketFor
  <2>3. activeProjectId # p
    BY NullIsNone DEF Visit, EnsureSocketFor, Mounted, LinkInv, ActiveIsMade
  <2> QED BY <2>1, <2>2, <2>3 DEF Wiped, HereInv, ShownOfProject, storeVars
<1> QED BY <1>1, <1>2

LEMMA LeaveHere ==
    ASSUME LinkInv, RunInv, HereInv, SignOut \/ \E p \in Projects : Visit(p)
    PROVE  HereInv'
<1> USE NullIsNone
<1> SUFFICES ASSUME ~overlap' PROVE (InboxOfProject /\ ShownOfProject /\ PromptsCanBeSent /\ AskedHere)'
  BY DEF HereInv
<1>1. ~overlap /\ inbox' = inbox /\ UNCHANGED serveVars
  <2>1. CASE SignOut
    BY <2>1 DEF SignOut, ResetPlayground
  <2>2. CASE \E p \in Projects : Visit(p)
    BY <2>2 DEF Visit, EnsureSocketFor
  <2> QED BY <2>1, <2>2
<1>2. InboxOfProject /\ ShownOfProject /\ PromptsCanBeSent /\ AskedHere
  BY <1>1 DEF HereInv
<1>3. messages' = << >> /\ decisions' = << >> /\ pendingApprovals' = << >> /\ currentTurnId' = Null
  BY LeaveWipes
<1>4. \A s \in Sockets : inbox[s] # << >> => of'[s] = of[s] /\ ready'[s] \in {"open", "closing"}
  <2> SUFFICES ASSUME NEW s \in Sockets, inbox[s] # << >>
               PROVE  of'[s] = of[s] /\ ready'[s] \in {"open", "closing"}
    OBVIOUS
  <2>1. ready[s] \in {"open", "closing"}
    BY <1>2 DEF InboxOfProject
  <2>2. CASE SignOut
    BY <2>1, <2>2 DEF SignOut, ResetPlayground, Closing, LinkInv, LinkType
  <2>3. CASE \E p \in Projects : Visit(p)
    <3> PICK p \in Projects : Visit(p)
      BY <2>3
    <3> DEFINE left == LeaveOld(p)
    <3>1. /\ ready' = [left EXCEPT ![Fresh] = "connecting"] /\ of' = [of EXCEPT ![Fresh] = p]
          /\ Fresh \in Sockets /\ ready[Fresh] = "new"
      BY NewSocket DEF Visit, EnsureSocketFor, Connect
    <3>2. left \in [Sockets -> {"new", "connecting", "open", "closing", "closed"}] /\ left[s] \in {"open", "closing"}
      BY <2>1 DEF LeaveOld, Closing, LinkInv, LinkType
    <3> HIDE DEF left
    <3> QED BY <2>1, <3>1, <3>2 DEF LinkInv, LinkType
  <2> QED BY <2>2, <2>3
<1>5. InboxOfProject'
  BY <1>1, <1>2, <1>4, InboxStays DEF serveVars
<1>6. ShownOfProject' /\ PromptsCanBeSent'
  BY <1>3 DEF ShownOfProject, PromptsCanBeSent
<1>7. AskedHere'
  <2> SUFFICES ASSUME NEW t \in Turns, gate[t] = "open", t \notin unseen' PROVE FALSE
    BY <1>1 DEF AskedHere, serveVars
  <2>1. home[t] # Null
    BY OpenIsHome
  <2>2. \/ unseen' = unseen \union Asking(activeProjectId)
        \/ \E p \in Projects : unseen' = unseen \union Asking(p) \union (IF activeProjectId = Null THEN {} ELSE Asking(activeProjectId))
    BY DEF SignOut, Visit
  <2>3. t \notin unseen /\ (activeProjectId # Null => t \notin Asking(activeProjectId))
    BY <2>2
  <2> QED BY <1>2, <2>1, <2>3 DEF AskedHere, Asking
<1> QED BY <1>5, <1>6, <1>7

LEMMA OpenHere ==
    ASSUME LinkInv, RunInv, HereInv, NEW s \in Sockets, Open(s)
    PROVE  HereInv'
<1> SUFFICES ASSUME ~overlap' PROVE (InboxOfProject /\ ShownOfProject /\ PromptsCanBeSent /\ AskedHere)'
  BY DEF HereInv
<1>1. /\ ~overlap /\ ready[s] = "connecting" /\ ready' = [ready EXCEPT ![s] = "open"]
      /\ UNCHANGED <<inbox, of, activeSocket, activeProjectId, home, gate, unseen>>
      /\ UNCHANGED <<messages, currentTurnId, pendingApprovals, decisions>>
  BY DEF Open, Opened, serveVars, history
<1>2. InboxOfProject /\ ShownOfProject /\ PromptsCanBeSent /\ AskedHere
  BY <1>1 DEF HereInv
<1>3. ready'[s] = "open" /\ \A r \in Sockets \ {s} : ready'[r] = ready[r]
  BY <1>1 DEF LinkInv, LinkType
<1>4. InboxOfProject'
  <2>1. \A r \in Sockets : inbox[r] # << >> => ready'[r] \in {"open", "closing"}
    BY <1>2, <1>3 DEF InboxOfProject
  <2> QED BY <1>1, <1>2, <2>1, InboxStays
<1>5. ShownOfProject' /\ AskedHere'
  BY <1>1, <1>2 DEF ShownOfProject, AskedHere
<1>6. PromptsCanBeSent'
  BY <1>1, <1>2, <1>3 DEF PromptsCanBeSent, CanSend, LinkInv, LinkType
<1> QED BY <1>4, <1>5, <1>6

LEMMA ClosedHere ==
    ASSUME LinkInv, RunInv, HereInv, NEW s \in Sockets, Drop(s) \/ CloseEvent(s)
    PROVE  HereInv'
<1> SUFFICES ASSUME ~overlap' PROVE (InboxOfProject /\ ShownOfProject /\ PromptsCanBeSent /\ AskedHere)'
  BY DEF HereInv
<1>1. /\ ~overlap /\ ready' = [ready EXCEPT ![s] = "closed"] /\ inbox' = [inbox EXCEPT ![s] = << >>]
      /\ pendingApprovals' = << >> /\ unseen \subseteq unseen'
      /\ UNCHANGED <<of, activeSocket, activeProjectId, home, gate>>
      /\ UNCHANGED <<messages, currentTurnId, decisions>>
  BY DEF Drop, CloseEvent, Closed, serveVars
<1>2. InboxOfProject /\ ShownOfProject /\ PromptsCanBeSent /\ AskedHere
  BY <1>1 DEF HereInv
<1>3. /\ \A r \in Sockets \ {s} : ready'[r] = ready[r] /\ inbox'[r] = inbox[r]
      /\ inbox'[s] = << >>
  BY <1>1 DEF LinkInv, LinkType, RunInv, ShownType
<1>4. InboxOfProject'
  <2>1. \A r \in Sockets : inbox'[r] # << >> => ready'[r] \in {"open", "closing"}
    BY <1>2, <1>3 DEF InboxOfProject
  <2> QED BY <1>1, <1>2, <1>3, <2>1, InboxStays
<1>5. ShownOfProject' /\ AskedHere'
  BY <1>1, <1>2 DEF ShownOfProject, AskedHere
<1>6. PromptsCanBeSent'
  BY <1>1 DEF PromptsCanBeSent
<1> QED BY <1>4, <1>5, <1>6

LEMMA FireHere ==
    ASSUME LinkInv, RunInv, HereInv, NEW s \in Sockets, Fire(s)
    PROVE  HereInv'
<1> SUFFICES ASSUME ~overlap' PROVE (InboxOfProject /\ ShownOfProject /\ PromptsCanBeSent /\ AskedHere)'
  BY DEF HereInv
<1>1. /\ ~overlap /\ s \in timers
      /\ UNCHANGED <<inbox, activeProjectId, home, gate, unseen>>
      /\ UNCHANGED <<messages, currentTurnId, pendingApprovals, decisions>>
      /\ activeProjectId = of[s] => Connect(ready, of[s])
      /\ activeProjectId # of[s] => UNCHANGED <<activeSocket, ready, of>>
  BY DEF Fire, Fires, serveVars, history, storeVars
<1>2. InboxOfProject /\ ShownOfProject /\ PromptsCanBeSent /\ AskedHere
  BY <1>1 DEF HereInv
<1>3. ~CanSend
  BY <1>1 DEF LinkInv, OneLink, CanSend
<1>4. InboxOfProject'
  <2>1. CASE activeProjectId = of[s]
    <3>1. /\ Fresh \in Sockets /\ ready[Fresh] = "new"
          /\ ready' = [ready EXCEPT ![Fresh] = "connecting"] /\ of' = [of EXCEPT ![Fresh] = of[s]]
      BY <1>1, <2>1, NewSocket DEF Connect
    <3>2. \A r \in Sockets : inbox[r] # << >> => of'[r] = of[r] /\ ready'[r] \in {"open", "closing"}
      BY <1>2, <3>1 DEF InboxOfProject, LinkInv, LinkType
    <3> QED BY <1>1, <1>2, <3>2, InboxStays
  <2>2. CASE activeProjectId # of[s]
    BY <1>1, <1>2, <2>2, InboxStays DEF InboxOfProject
  <2> QED BY <2>1, <2>2
<1>5. ShownOfProject' /\ AskedHere'
  BY <1>1, <1>2 DEF ShownOfProject, AskedHere
<1>6. PromptsCanBeSent'
  BY <1>1, <1>2, <1>3 DEF PromptsCanBeSent
<1> QED BY <1>4, <1>5, <1>6

\* The open socket is the one of the open page.
LEMMA Hearing ==
    ASSUME LinkInv, ~overlap, NEW s \in Sockets, ready[s] = "open"
    PROVE  s = activeSocket /\ of[s] = activeProjectId /\ activeProjectId \in Projects /\ CanSend
  BY NullIsNone DEF LinkInv, LinkType, OneLink, ActiveIsMade, IsLive, CanSend

LEMMA BroadcastHere ==
    ASSUME RunInv, InboxOfProject, NEW p, NEW frames \in Seq(Frames),
           \A i \in DOMAIN frames : From(frames[i], p), Broadcast(p, frames), home' = home
    PROVE  InboxOfProject'
<1>1. /\ \A s \in Sockets : inbox'[s] = IF of[s] = p /\ ready[s] = "open" THEN inbox[s] \o frames ELSE inbox[s]
      /\ UNCHANGED <<of, ready>>
  BY BroadcastFacts DEF RunInv
<1> SUFFICES ASSUME NEW s \in Sockets
             PROVE  (/\ \A i \in DOMAIN inbox[s] : From(inbox[s][i], of[s])
                     /\ inbox[s] # << >> => ready[s] \in {"open", "closing"})'
  BY DEF InboxOfProject
<1>2. CASE of[s] = p /\ ready[s] = "open"
  <2>1. inbox'[s] = inbox[s] \o frames /\ inbox[s] \in Seq(Frames)
    BY <1>1, <1>2 DEF RunInv, ShownType
  <2>2. \A i \in DOMAIN inbox'[s] : From(inbox'[s][i], of[s])
    <3> SUFFICES ASSUME NEW i \in DOMAIN inbox'[s] PROVE From(inbox'[s][i], of[s])
      OBVIOUS
    <3>1. \/ i \in DOMAIN inbox[s] /\ inbox'[s][i] = inbox[s][i]
          \/ i - Len(inbox[s]) \in DOMAIN frames /\ inbox'[s][i] = frames[i - Len(inbox[s])]
      BY <2>1, ConcatFacts
    <3> QED BY <1>2, <3>1 DEF InboxOfProject
  <2> QED BY <1>1, <1>2, <2>2 DEF From
<1>3. CASE ~(of[s] = p /\ ready[s] = "open")
  BY <1>1, <1>3 DEF InboxOfProject, From
<1> QED BY <1>2, <1>3

LEMMA ProcessHere ==
    ASSUME LinkInv, RunInv, HereInv, NEW t \in Turns, Begin(t) \/ Say(t) \/ Ask(t) \/ End(t)
    PROVE  HereInv'
<1> SUFFICES ASSUME ~overlap' PROVE (InboxOfProject /\ ShownOfProject /\ PromptsCanBeSent /\ AskedHere)'
  BY DEF HereInv
<1> USE DEF history
<1>1. PICK frames \in Seq(Frames) : Broadcast(home[t], frames) /\ \A i \in DOMAIN frames : From(frames[i], home[t])
  <2>1. CASE Begin(t)
    <3>1. <<RunStart>> \in Seq(Frames) /\ From(RunStart, home[t])
      BY ProcessFrames DEF From, RunStart
    <3>2. \A i \in DOMAIN <<RunStart>> : <<RunStart>>[i] = RunStart
      OBVIOUS
    <3> QED BY <2>1, <3>1, <3>2 DEF Begin
  <2>2. CASE Say(t)
    <3> DEFINE letter == <<t, Len(letters[t]) + 1>>
               delta == BlockDelta(t, "text", <<letter>>)
    <3>1. <<delta>> \in Seq(Frames) /\ From(delta, home[t])
      BY ProcessFrames DEF From, BlockDelta
    <3>2. \A i \in DOMAIN <<delta>> : <<delta>>[i] = delta
      OBVIOUS
    <3> QED BY <2>2, <3>1, <3>2 DEF Say
  <2>3. CASE Ask(t)
    <3>1. <<ToolStart(t), Request(t)>> \in Seq(Frames) /\ From(ToolStart(t), home[t]) /\ From(Request(t), home[t])
      BY ProcessFrames DEF From, ToolStart, Request
    <3>2. \A i \in DOMAIN <<ToolStart(t), Request(t)>> : <<ToolStart(t), Request(t)>>[i] \in {ToolStart(t), Request(t)}
      OBVIOUS
    <3> QED BY <2>3, <3>1, <3>2 DEF Ask
  <2>4. CASE End(t)
    <3> DEFINE state == IF gate[t] = "allowed" THEN "completed" ELSE "failed"
               tools == IF gate[t] = "none" THEN << >> ELSE <<ToolEnd(t, state)>>
    <3>1. PICK last \in {RunEnd(letters[t]), ErrorEvent} : Broadcast(home[t], Append(tools, last))
      BY <2>4 DEF End
    <3>2. last \in Frames /\ ToolEnd(t, state) \in Frames
      BY FramesAreFrames DEF RunInv, RunType
    <3>3. \A k \in DOMAIN letters[t] : home[letters[t][k][1]] = home[t]
      BY DEF RunInv, RunsAtHome
    <3>4. From(last, home[t]) /\ From(ToolEnd(t, state), home[t])
      <4>1. From(RunEnd(letters[t]), home[t])
        BY <3>3 DEF From, RunEnd
      <4>2. From(ErrorEvent, home[t])
        BY DEF From, ErrorEvent
      <4>3. From(ToolEnd(t, state), home[t])
        BY DEF From, ToolEnd
      <4> QED BY <4>1, <4>2, <4>3
    <3>5. Append(tools, last) \in Seq(Frames) /\ \A i \in DOMAIN Append(tools, last) : Append(tools, last)[i] \in {ToolEnd(t, state), last}
      BY <3>2, LastFrame
    <3> HIDE DEF tools, state
    <3> QED BY <3>1, <3>4, <3>5
  <2> QED BY <2>1, <2>2, <2>3, <2>4
<1>2. /\ home' = home
      /\ UNCHANGED <<activeSocket, activeProjectId, ready, of, overlap>>
      /\ UNCHANGED <<messages, currentTurnId, pendingApprovals, decisions>>
  <2>1. home' = home
    BY DEF Begin, Say, Ask, End
  <2> QED BY <1>1, <2>1, BroadcastFacts DEF RunInv
<1>3. InboxOfProject /\ ShownOfProject /\ PromptsCanBeSent /\ AskedHere
  BY <1>2 DEF HereInv
<1>4. InboxOfProject'
  BY <1>1, <1>2, <1>3, BroadcastHere
<1>5. ShownOfProject'
  BY <1>2, <1>3 DEF ShownOfProject
<1>6. PromptsCanBeSent'
  BY <1>2, <1>3 DEF PromptsCanBeSent, CanSend
<1>7. AskedHere'
  <2>1. CASE Ask(t)
    <3>1. /\ gate' = [gate EXCEPT ![t] = "open"]
          /\ unseen' = IF Listening(home[t]) = {} THEN unseen \union {t} ELSE unseen
      BY <2>1 DEF Ask
    <3>2. Listening(home[t]) # {} => home[t] = activeProjectId
      BY <1>2, Hearing DEF Listening
    <3>3. t \notin unseen' => home[t] = activeProjectId
      BY <3>1, <3>2
    <3>4. \A u \in Turns \ {t} : gate'[u] = gate[u] /\ (u \notin unseen' => u \notin unseen)
      BY <3>1 DEF RunInv, RunType
    <3> QED BY <1>2, <1>3, <3>3, <3>4 DEF AskedHere
  <2>2. CASE ~Ask(t)
    <3>1. UNCHANGED <<gate, unseen>>
      BY <2>2 DEF Begin, Say, End
    <3> QED BY <1>2, <1>3, <3>1 DEF AskedHere
  <2> QED BY <2>1, <2>2
<1> QED BY <1>4, <1>5, <1>6, <1>7

LEMMA SendChatHere ==
    ASSUME LinkInv, RunInv, HereInv, NEW t \in Turns, SendChat(t)
    PROVE  HereInv'
<1> USE NullIsNone
<1> SUFFICES ASSUME ~overlap' PROVE (InboxOfProject /\ ShownOfProject /\ PromptsCanBeSent /\ AskedHere)'
  BY DEF HereInv
<1>1. /\ run[t] = "typed" /\ CanSend /\ ~overlap
      /\ home' = [home EXCEPT ![t] = activeProjectId]
      /\ messages' = Append(messages, [turn |-> t, view |-> NewTurn])
      /\ UNCHANGED <<inbox, of, ready, activeSocket, activeProjectId, pendingApprovals, decisions, gate, unseen>>
  BY DEF SendChat, ShowTurn, linkVars
<1>2. InboxOfProject /\ ShownOfProject /\ PromptsCanBeSent /\ AskedHere
  BY <1>1 DEF HereInv
<1>3. activeProjectId # Null /\ home[t] = Null
  BY <1>1, CanSendFacts DEF RunInv, RunsAtHome
<1>4. home'[t] = activeProjectId /\ \A u \in Turns : home[u] # Null => home'[u] = home[u]
  BY <1>1, <1>3 DEF RunInv, RunType
<1>5. InboxOfProject'
  <2> SUFFICES ASSUME NEW s \in Sockets, NEW i \in DOMAIN inbox[s] PROVE From(inbox[s][i], of[s])'
    BY <1>1, <1>2 DEF InboxOfProject
  <2>1. inbox[s] \in Seq(Frames)
    BY DEF RunInv, ShownType
  <2>2. inbox[s] # << >> /\ inbox[s][i] \in Frames
    BY <2>1
  <2>3. of[s] # Null /\ From(inbox[s][i], of[s])
    BY <1>2, <2>2 DEF InboxOfProject, LinkInv, SocketsAreMade
  <2>4. PICK f \in Frames, p \in {of[s]} : f = inbox[s][i]
    BY <2>2
  <2>5. From(f, p)'
    BY <1>4, <2>3, <2>4, HomesStay
  <2>6. inbox'[s][i] = f /\ of'[s] = p
    BY <1>1, <2>4
  <2> QED BY <2>5, <2>6 DEF From
<1>6. ShownOfProject'
  <2>1. /\ messages \in Seq(Messages) /\ [turn |-> t, view |-> NewTurn] \in Messages
    BY NewTurnIsView DEF RunInv, ShownType, Messages
  <2>2. \A i \in DOMAIN messages' :
            \/ i \in DOMAIN messages /\ messages'[i] = messages[i]
            \/ messages'[i] = [turn |-> t, view |-> NewTurn]
    BY <1>1, <2>1, AppendFacts
  <2>3. \A i \in DOMAIN messages' :
           /\ home'[messages'[i].turn] = activeProjectId
           /\ \A k \in DOMAIN messages'[i].view.text : home'[messages'[i].view.text[k][1]] = activeProjectId
    <3> SUFFICES ASSUME NEW i \in DOMAIN messages'
                 PROVE  /\ home'[messages'[i].turn] = activeProjectId
                        /\ \A k \in DOMAIN messages'[i].view.text : home'[messages'[i].view.text[k][1]] = activeProjectId
      OBVIOUS
    <3>1. CASE i \in DOMAIN messages /\ messages'[i] = messages[i]
      <4>1. messages[i].turn \in Turns
        BY <3>1, ShownTypes DEF RunInv
      <4>2. \A k \in DOMAIN messages[i].view.text : messages[i].view.text[k][1] \in Turns
        BY <3>1, ShownTypes DEF RunInv
      <4> QED BY <1>2, <1>3, <1>4, <3>1, <4>1, <4>2 DEF ShownOfProject
    <3>2. CASE messages'[i] = [turn |-> t, view |-> NewTurn]
      BY <1>4, <3>2 DEF NewTurn
    <3> QED BY <2>2, <3>1, <3>2
  <2>4. \A i \in DOMAIN decisions : home'[decisions[i].id] = activeProjectId
    <3>1. \A i \in DOMAIN decisions : decisions[i].id \in Turns
      BY ShownTypes DEF RunInv
    <3> QED BY <1>2, <1>3, <1>4, <3>1 DEF ShownOfProject
  <2>5. \A i \in DOMAIN pendingApprovals : home'[pendingApprovals[i]] = activeProjectId
    <3>1. \A i \in DOMAIN pendingApprovals : pendingApprovals[i] \in Turns
      BY DEF RunInv, ShownType
    <3> QED BY <1>2, <1>3, <1>4, <3>1 DEF ShownOfProject
  <2> QED BY <1>1, <1>3, <2>3, <2>4, <2>5 DEF ShownOfProject
<1>7. PromptsCanBeSent'
  BY <1>1, <1>2 DEF PromptsCanBeSent, CanSend
<1>8. AskedHere'
  BY <1>1, <1>2, <1>4, OpenIsHome DEF AskedHere
<1> QED BY <1>5, <1>6, <1>7, <1>8

LEMMA ReceiveHere ==
    ASSUME LinkInv, RunInv, HereInv, NEW s \in Sockets, Receive(s)
    PROVE  HereInv'
<1> USE NullIsNone
<1> SUFFICES ASSUME ~overlap' PROVE (InboxOfProject /\ ShownOfProject /\ PromptsCanBeSent /\ AskedHere)'
  BY DEF HereInv
<1>1. PICK f : f = Head(inbox[s])
  OBVIOUS
<1> DEFINE i == CHOOSE j \in DOMAIN messages : messages[j].turn = currentTurnId
<1>2. /\ ready[s] = "open" /\ inbox[s] \in Seq(Frames) /\ inbox[s] # << >> /\ f \in Frames
      /\ inbox' = [inbox EXCEPT ![s] = Tail(@)]
      /\ UNCHANGED <<activeSocket, activeProjectId, ready, of, overlap>> /\ UNCHANGED <<home, gate, unseen>>
  BY <1>1, ReceiveFacts DEF LinkAndLate, serveVars
<1>3. InboxOfProject /\ ShownOfProject /\ PromptsCanBeSent /\ AskedHere
  BY <1>2 DEF HereInv
<1>4. s = activeSocket /\ of[s] = activeProjectId /\ activeProjectId # Null /\ CanSend
  BY <1>2, Hearing
<1>5. From(f, activeProjectId)
  BY <1>1, <1>2, <1>3, <1>4, TailFacts DEF InboxOfProject
<1>6. InboxOfProject'
  <2> SUFFICES ASSUME NEW r \in Sockets
               PROVE  (/\ \A k \in DOMAIN inbox[r] : From(inbox[r][k], of[r])
                       /\ inbox[r] # << >> => ready[r] \in {"open", "closing"})'
    BY DEF InboxOfProject
  <2>1. CASE r = s
    <3>1. inbox'[s] = Tail(inbox[s])
      BY <1>2 DEF RunInv, ShownType
    <3>2. \A k \in DOMAIN inbox'[s] : inbox'[s][k] = inbox[s][k + 1] /\ k + 1 \in DOMAIN inbox[s]
      <4>1. \A k \in DOMAIN Tail(inbox[s]) : Tail(inbox[s])[k] = inbox[s][k + 1] /\ k + 1 \in DOMAIN inbox[s]
        BY <1>2, TailFacts
      <4> QED BY <3>1, <4>1
    <3>3. \A k \in DOMAIN inbox'[s] : From(inbox'[s][k], of[s])
      BY <1>3, <3>2 DEF InboxOfProject
    <3>4. \A k \in DOMAIN inbox'[s] : From(inbox[s][k], of[s])'
      BY <1>2, <3>3 DEF From
    <3> QED BY <1>2, <2>1, <3>4
  <2>2. CASE r # s
    <3>1. inbox'[r] = inbox[r]
      BY <1>2, <2>2 DEF RunInv, ShownType
    <3> QED BY <1>2, <1>3, <3>1 DEF InboxOfProject, From
  <2> QED BY <2>1, <2>2
<1>7. PromptsCanBeSent' /\ (\A k \in DOMAIN pendingApprovals' : home[pendingApprovals'[k]] = activeProjectId)
  <2>0. CanSend'
    BY <1>2, <1>4 DEF CanSend
  <2>1. CASE f.kind = "approval.request"
    <3>1. pendingApprovals' = IF f.decision \in Range(pendingApprovals) THEN pendingApprovals
                              ELSE Append(pendingApprovals, f.decision)
      BY <1>1, <2>1, ReceiveFacts
    <3>2. f.decision \in Turns /\ home[f.decision] = activeProjectId /\ pendingApprovals \in Seq(Turns)
      BY <1>2, <1>5, <2>1, FrameFacts DEF From, RunInv, ShownType
    <3>3. CASE f.decision \in Range(pendingApprovals)
      BY <1>3, <2>0, <3>1, <3>3 DEF PromptsCanBeSent, ShownOfProject
    <3>4. CASE f.decision \notin Range(pendingApprovals)
      <4>1. /\ DOMAIN pendingApprovals' = 1 .. Len(pendingApprovals) + 1 /\ Len(pendingApprovals) \in Nat
            /\ DOMAIN pendingApprovals = 1 .. Len(pendingApprovals)
            /\ \A k \in 1 .. Len(pendingApprovals) : pendingApprovals'[k] = pendingApprovals[k]
            /\ pendingApprovals'[Len(pendingApprovals) + 1] = f.decision
        BY <3>1, <3>2, <3>4, AppendFacts
      <4>2. \A k \in 1 .. Len(pendingApprovals) : pendingApprovals[k] # f.decision
        BY <3>4, <4>1 DEF Range
      <4>3. \A j, k \in DOMAIN pendingApprovals' : pendingApprovals'[j] = pendingApprovals'[k] => j = k
        BY <1>3, <4>1, <4>2 DEF PromptsCanBeSent
      <4>4. \A k \in DOMAIN pendingApprovals' : home[pendingApprovals'[k]] = activeProjectId
        BY <1>3, <3>2, <4>1 DEF ShownOfProject
      <4> QED BY <2>0, <4>3, <4>4 DEF PromptsCanBeSent
    <3> QED BY <3>3, <3>4
  <2>2. CASE f.kind # "approval.request"
    <3>1. pendingApprovals' = pendingApprovals
      BY <1>1, <2>2, ReceiveFacts
    <3> QED BY <1>3, <2>0, <3>1 DEF PromptsCanBeSent, ShownOfProject
  <2> QED BY <2>1, <2>2
<1>8. /\ \A j \in DOMAIN messages' :
            /\ home[messages'[j].turn] = activeProjectId
            /\ \A k \in DOMAIN messages'[j].view.text : home[messages'[j].view.text[k][1]] = activeProjectId
      /\ \A j \in DOMAIN decisions' : home[decisions'[j].id] = activeProjectId
  <2>1. CASE f.kind = "approval.request" \/ currentTurnId = Null
    <3>1. UNCHANGED <<messages, decisions>>
      BY <1>1, <2>1, ReceiveFacts
    <3> QED BY <1>3, <3>1 DEF ShownOfProject
  <2>2. CASE f.kind # "approval.request" /\ currentTurnId # Null
    <3>1. /\ messages' = [messages EXCEPT ![i].view = ApplyToTurn(@, f)]
          /\ decisions' = CASE f.kind = "tool_start" /\ ~Has(decisions, f.tool) -> Append(decisions, Tool(f.tool, "started"))
                            [] f.kind = "tool_end" /\ Has(messages[i].view.tools, f.tool) -> Mark(decisions, f.tool, f.state)
                            [] OTHER -> decisions
      BY <1>1, <2>2, ReceiveFacts
    <3> HIDE DEF i
    <3>2. messages \in Seq(Messages) /\ decisions \in Seq(Calls)
      BY DEF RunInv, ShownType, Messages
    <3>3. /\ DOMAIN messages' = DOMAIN messages
          /\ \A j \in DOMAIN messages : messages'[j].turn = messages[j].turn
          /\ \A j \in DOMAIN messages : messages'[j].view = IF j = i THEN ApplyToTurn(messages[j].view, f) ELSE messages[j].view
      BY <1>2, <2>2, <3>1, <3>2, EventFacts
    <3>4. ASSUME NEW j \in DOMAIN messages, NEW k \in DOMAIN messages'[j].view.text
          PROVE  home[messages'[j].view.text[k][1]] = activeProjectId
      <4>1. messages[j].view \in Views /\ messages[j].view.text \in Seq(Letters)
        BY ShownTypes DEF RunInv
      <4>2. \/ messages'[j].view.text = messages[j].view.text
            \/ f.kind = "block_delta" /\ messages'[j].view.text = messages[j].view.text \o f.text
            \/ f.kind = "run_end" /\ messages'[j].view.text = f.message
        <5>1. ApplyToTurn(messages[j].view, f).text = IF f.kind = "block_delta" THEN messages[j].view.text \o f.text
                                                      ELSE IF f.kind = "run_end" /\ f.message # << >> THEN f.message
                                                      ELSE messages[j].view.text
          BY <1>2, <2>2, <4>1, ApplyFacts
        <5>2. messages'[j].view = messages[j].view \/ messages'[j].view = ApplyToTurn(messages[j].view, f)
          BY <3>3
        <5>3. CASE messages'[j].view = messages[j].view
          BY <5>3
        <5>4. CASE messages'[j].view = ApplyToTurn(messages[j].view, f)
          BY <5>1, <5>4
        <5> QED BY <5>2, <5>3, <5>4
      <4>3. CASE messages'[j].view.text = messages[j].view.text
        BY <1>3, <4>3 DEF ShownOfProject
      <4>4. CASE f.kind = "block_delta" /\ messages'[j].view.text = messages[j].view.text \o f.text
        <5>1. f.text[1] \in Letters /\ f.text = <<f.text[1]>> /\ home[f.text[1][1]] = activeProjectId
          BY <1>2, <1>5, <4>4, FrameFacts DEF From
        <5>2. PICK letter \in Letters : letter = f.text[1] /\ f.text = <<letter>>
          BY <5>1
        <5>3. PICK old \in Seq(Letters) : old = messages[j].view.text
          BY <4>1
        <5>4. messages'[j].view.text = old \o <<letter>>
          BY <4>4, <5>2, <5>3
        <5>5. (k \in DOMAIN old /\ messages'[j].view.text[k] = old[k]) \/ messages'[j].view.text[k] = letter
          BY <3>4, <5>4, ConcatOne
        <5> QED BY <1>3, <5>1, <5>2, <5>3, <5>5 DEF ShownOfProject
      <4>5. CASE f.kind = "run_end" /\ messages'[j].view.text = f.message
        BY <1>5, <3>4, <4>5 DEF From
      <4> QED BY <4>2, <4>3, <4>4, <4>5
    <3>5. ASSUME NEW j \in DOMAIN decisions' PROVE home[decisions'[j].id] = activeProjectId
      <4>1. CASE decisions' = decisions
        BY <1>3, <3>5, <4>1 DEF ShownOfProject
      <4>2. CASE f.kind = "tool_start" /\ decisions' = Append(decisions, Tool(f.tool, "started"))
        <5>1. Tool(f.tool, "started") \in Calls /\ Tool(f.tool, "started").id = f.tool /\ home[f.tool] = activeProjectId
          BY <1>2, <1>5, <4>2, FrameFacts DEF Tool, Calls, From
        <5>2. (j \in DOMAIN decisions /\ decisions'[j] = decisions[j]) \/ decisions'[j] = Tool(f.tool, "started")
          BY <3>2, <3>5, <4>2, <5>1, AppendFacts
        <5> QED BY <1>3, <5>1, <5>2 DEF ShownOfProject
      <4>3. CASE f.kind = "tool_end" /\ decisions' = Mark(decisions, f.tool, f.state)
        <5>1. j \in DOMAIN decisions /\ decisions'[j].id = decisions[j].id
          <6>1. f.tool \in Turns /\ f.state \in {"started", "completed", "failed"}
            BY <1>2, <4>3, FrameFacts
          <6>2. /\ DOMAIN Mark(decisions, f.tool, f.state) = DOMAIN decisions
                /\ \A n \in DOMAIN decisions : Mark(decisions, f.tool, f.state)[n].id = decisions[n].id
            BY <3>2, <6>1, MarkFacts
          <6> QED BY <3>5, <4>3, <6>2
        <5> QED BY <1>3, <5>1 DEF ShownOfProject
      <4>4. \/ decisions' = decisions
            \/ f.kind = "tool_start" /\ decisions' = Append(decisions, Tool(f.tool, "started"))
            \/ f.kind = "tool_end" /\ decisions' = Mark(decisions, f.tool, f.state)
        BY <3>1
      <4> QED BY <4>1, <4>2, <4>3, <4>4
    <3> QED BY <1>3, <3>3, <3>4, <3>5 DEF ShownOfProject
  <2> QED BY <2>1, <2>2
<1>9. ShownOfProject'
  BY <1>2, <1>4, <1>7, <1>8 DEF ShownOfProject
<1>10. AskedHere'
  BY <1>2, <1>3 DEF AskedHere
<1> QED BY <1>6, <1>7, <1>9, <1>10

LEMMA AnswerHere ==
    ASSUME LinkInv, RunInv, HereInv,
           \/ \E p \in Projects : Read(p)
           \/ ResetChat
           \/ \E t \in Turns : Expire(t) \/ Sweep(t)
           \/ \E t \in Turns, allowed \in BOOLEAN : Respond(t, allowed)
    PROVE  HereInv'
<1> SUFFICES ASSUME ~overlap' PROVE (InboxOfProject /\ ShownOfProject /\ PromptsCanBeSent /\ AskedHere)'
  BY DEF HereInv
<1> USE DEF history, tabVars, linkVars, storeVars, serveVars
<1>1. /\ UNCHANGED <<inbox, ready, of, activeSocket, activeProjectId, overlap, home>> /\ unseen \subseteq unseen'
      /\ \A t \in Turns : gate'[t] = "open" => gate[t] = "open"
      /\ \/ UNCHANGED <<messages, currentTurnId, pendingApprovals, decisions>>
         \/ messages' = << >> /\ decisions' = << >> /\ pendingApprovals' = << >> /\ currentTurnId' = Null
         \/ UNCHANGED <<messages, currentTurnId, decisions>> /\ \E d : TakeOff(d)
  <2>1. CASE \E p \in Projects : Read(p)
    <3> PICK p \in Projects : Read(p)
      BY <2>1
    <3> DEFINE f == Head(up[p])
    <3>1. f.turn \in Turns
      <4>1. up[p] \in Seq(Upward) /\ up[p] # << >>
        BY DEF Read, RunInv, RunType
      <4>2. f \in Upward
        BY <4>1, TailFacts
      <4> QED BY <4>2 DEF Upward
    <3>2. gate' = gate \/ gate' = [gate EXCEPT ![f.turn] = Settled(f.turn, f.allowed)]
      BY DEF Read
    <3> HIDE DEF f
    <3>3. \A t \in Turns : gate'[t] = "open" => gate[t] = "open"
      BY <3>1, <3>2 DEF Settled, RunInv, RunType
    <3> QED BY <3>3 DEF Read
  <2>2. CASE ResetChat
    BY <2>2 DEF ResetChat, ClearChat
  <2>3. CASE \E t \in Turns : Expire(t)
    BY <2>3 DEF Expire, RunInv, RunType
  <2>4. CASE \E t \in Turns : Sweep(t)
    BY <2>4 DEF Sweep, TakeOff
  <2>5. CASE \E t \in Turns, allowed \in BOOLEAN : Respond(t, allowed)
    BY <2>5 DEF Respond, TakeOff
  <2> QED BY <2>1, <2>2, <2>3, <2>4, <2>5
<1>2. InboxOfProject /\ ShownOfProject /\ PromptsCanBeSent /\ AskedHere
  BY <1>1 DEF HereInv
<1>3. InboxOfProject' /\ AskedHere'
  BY <1>1, <1>2 DEF InboxOfProject, AskedHere, From
<1>4. CASE UNCHANGED <<messages, currentTurnId, pendingApprovals, decisions>>
  BY <1>1, <1>2, <1>3, <1>4 DEF ShownOfProject, PromptsCanBeSent, CanSend
<1>5. CASE messages' = << >> /\ decisions' = << >> /\ pendingApprovals' = << >> /\ currentTurnId' = Null
  BY <1>3, <1>5 DEF ShownOfProject, PromptsCanBeSent
<1>6. CASE UNCHANGED <<messages, currentTurnId, decisions>> /\ \E d : TakeOff(d)
  <2>1. PICK d : TakeOff(d)
    BY <1>6
  <2>2. /\ pendingApprovals' \in Seq(Turns) /\ Range(pendingApprovals') \subseteq Range(pendingApprovals)
        /\ \A i, j \in DOMAIN pendingApprovals' : pendingApprovals'[i] = pendingApprovals'[j] => i = j
    BY <1>2, <2>1, TakenOff DEF RunInv, ShownType, PromptsCanBeSent
  <2>3. pendingApprovals # << >> /\ CanSend
    BY <1>2, <2>1 DEF TakeOff, Range, PromptsCanBeSent
  <2>4. PromptsCanBeSent'
    BY <1>1, <2>2, <2>3 DEF PromptsCanBeSent, CanSend
  <2>5. \A i \in DOMAIN pendingApprovals' : home[pendingApprovals'[i]] = activeProjectId
    <3> SUFFICES ASSUME NEW i \in DOMAIN pendingApprovals' PROVE home[pendingApprovals'[i]] = activeProjectId
      OBVIOUS
    <3>1. PICK j \in DOMAIN pendingApprovals : pendingApprovals[j] = pendingApprovals'[i]
      BY <2>2 DEF Range
    <3> QED BY <1>2, <3>1 DEF ShownOfProject
  <2>6. activeProjectId # Null
    BY <1>2, <2>3 DEF ShownOfProject
  <2> QED BY <1>1, <1>2, <1>3, <1>6, <2>4, <2>5, <2>6 DEF ShownOfProject
<1> QED BY <1>1, <1>4, <1>5, <1>6

LEMMA HereStays ==
    ASSUME HereInv, UNCHANGED vars
    PROVE  HereInv'
<1> USE DEF vars, tabVars, storeVars, linkVars, serveVars, history
<1>1. ASSUME ~overlap PROVE InboxOfProject' /\ ShownOfProject'
  BY <1>1 DEF HereInv, InboxOfProject, ShownOfProject, From
<1>2. ASSUME ~overlap PROVE PromptsCanBeSent' /\ AskedHere'
  BY <1>2 DEF HereInv, PromptsCanBeSent, AskedHere, CanSend
<1> QED BY <1>1, <1>2 DEF HereInv

LEMMA HereKept ==
    ASSUME LinkInv, RunInv, HereInv, Next
    PROVE  HereInv'
<1>1. CASE SignOut \/ \E p \in Projects : Visit(p)
  BY <1>1, LeaveHere
<1>2. CASE \E s \in Sockets : Open(s)
  BY <1>2, OpenHere
<1>3. CASE \E s \in Sockets : Drop(s) \/ CloseEvent(s)
  BY <1>3, ClosedHere
<1>4. CASE \E s \in Sockets : Fire(s)
  BY <1>4, FireHere
<1>5. CASE \E s \in Sockets : Receive(s)
  BY <1>5, ReceiveHere
<1>6. CASE \E t \in Turns : SendChat(t)
  BY <1>6, SendChatHere
<1>7. CASE \E t \in Turns : Begin(t) \/ Say(t) \/ Ask(t) \/ End(t)
  BY <1>7, ProcessHere
<1>8. CASE \/ \E p \in Projects : Read(p)
           \/ ResetChat
           \/ \E t \in Turns : Expire(t) \/ Sweep(t)
           \/ \E t \in Turns, allowed \in BOOLEAN : Respond(t, allowed)
  BY <1>8, AnswerHere
<1> QED BY <1>1, <1>2, <1>3, <1>4, <1>5, <1>6, <1>7, <1>8 DEF Next

LEMMA RunKept ==
    ASSUME LinkInv, RunInv, Next
    PROVE  RunInv'
<1>1. CASE \/ \E p \in Projects : Visit(p)
           \/ SignOut
           \/ \E s \in Sockets : Open(s) \/ Drop(s) \/ CloseEvent(s) \/ Fire(s)
  BY <1>1, TabRuns
<1>2. CASE \E s \in Sockets : Receive(s)
  BY <1>2, ReceiveRuns
<1>3. CASE \E p \in Projects : Read(p)
  BY <1>3, ReadRuns
<1>4. CASE \E t \in Turns : SendChat(t)
  BY <1>4, SendChatRuns
<1>5. CASE \E t \in Turns : Begin(t) \/ Say(t) \/ Ask(t) \/ Expire(t) \/ End(t)
  BY <1>5, ProcessRuns
<1>6. CASE \/ ResetChat
           \/ \E t \in Turns : Sweep(t)
           \/ \E t \in Turns, allowed \in BOOLEAN : Respond(t, allowed)
  BY <1>6, AnswerRuns
<1> QED BY <1>1, <1>2, <1>3, <1>4, <1>5, <1>6 DEF Next

-----------------------------------------------------------------------------
(* Prompts.                                                                *)

LEMMA RangeConcat ==
    ASSUME NEW S, NEW s \in Seq(S), NEW u \in Seq(S)
    PROVE  Range(s) \subseteq Range(s \o u) /\ Range(u) \subseteq Range(s \o u)
<1>1. /\ \A i \in DOMAIN s : i \in DOMAIN (s \o u) /\ (s \o u)[i] = s[i]
      /\ \A i \in DOMAIN u : Len(s) + i \in DOMAIN (s \o u) /\ (s \o u)[Len(s) + i] = u[i]
  BY ConcatFacts
<1> QED BY <1>1 DEF Range

\* What is sent after it leaves a reply on its way.
LEMMA RepliedStays ==
    ASSUME RunInv, NEW t \in Turns, home[t] # Null, home'[t] = home[t], NEW p \in Projects,
           NEW frames \in Seq(Upward), up' = [up EXCEPT ![p] = @ \o frames]
    PROVE  /\ Replied(t) => Replied(t)'
           /\ home[t] = p /\ (\E i \in DOMAIN frames : frames[i].kind = "approval.reply" /\ frames[i].turn = t) => Replied(t)'
<1>1. home[t] \in Projects /\ up[p] \in Seq(Upward)
  BY DEF RunInv, RunType
<1>2. up'[p] = up[p] \o frames /\ \A q \in Projects \ {p} : up'[q] = up[q]
  BY DEF RunInv, RunType
<1>3. /\ \A i \in DOMAIN up[p] : i \in DOMAIN up'[p] /\ up'[p][i] = up[p][i]
      /\ \A i \in DOMAIN frames : Len(up[p]) + i \in DOMAIN up'[p] /\ up'[p][Len(up[p]) + i] = frames[i]
  BY <1>1, <1>2, ConcatFacts
<1>4. Replied(t) => Replied(t)'
  BY <1>1, <1>2, <1>3 DEF Replied
<1>5. home[t] = p /\ (\E i \in DOMAIN frames : frames[i].kind = "approval.reply" /\ frames[i].turn = t) => Replied(t)'
  <2> SUFFICES ASSUME home[t] = p, NEW i \in DOMAIN frames, frames[i].kind = "approval.reply", frames[i].turn = t
               PROVE  Replied(t)'
    OBVIOUS
  <2>1. Len(up[p]) + i \in DOMAIN up'[p] /\ up'[p][Len(up[p]) + i] = frames[i] /\ home'[t] = p
    BY <1>3
  <2> QED BY <2>1 DEF Replied
<1> QED BY <1>4, <1>5

\* A call that waits is of the open project.
LEMMA WaitsHere ==
    ASSUME RunInv, HereInv, NEW t \in Turns, Waits(t)
    PROVE  /\ home[t] = activeProjectId /\ home[t] # Null /\ activeProjectId \in Projects
           /\ InboxOfProject /\ ShownOfProject /\ PromptsCanBeSent
  BY OpenIsHome DEF Waits, HereInv, AskedHere, RunInv, RunType

LEMMA PromptHolds ==
    Init => PromptInv
  BY DEF Init, PromptInv, Waits

LEMMA LeavePrompts ==
    ASSUME LinkInv, RunInv, HereInv, PromptInv, SignOut \/ \E p \in Projects : Visit(p)
    PROVE  PromptInv'
<1> SUFFICES ASSUME NEW t \in Turns, Waits(t)' PROVE FALSE
  BY DEF PromptInv
<1>1. /\ UNCHANGED <<gate, late>> /\ unseen \subseteq unseen' /\ (overlap => overlap')
      /\ activeProjectId # Null => Asking(activeProjectId) \subseteq unseen'
  <2>1. CASE SignOut
    BY <2>1 DEF SignOut, ResetPlayground, serveVars
  <2>2. CASE \E p \in Projects : Visit(p)
    BY <2>2 DEF Visit, EnsureSocketFor, serveVars
  <2> QED BY <2>1, <2>2
<1>2. Waits(t)
  BY <1>1 DEF Waits
<1>3. t \in Asking(activeProjectId) /\ activeProjectId # Null
  BY <1>2, WaitsHere, NullIsNone DEF Asking, Waits
<1> QED BY <1>1, <1>3 DEF Waits

\* An action that sends nothing up and takes nothing away.
LEMMA PromptStays ==
    ASSUME PromptInv, NEW t \in Turns, Waits(t), home'[t] = home[t], Replied(t) => Replied(t)',
           t \in Range(pendingApprovals) => t \in Range(pendingApprovals') \/ Replied(t)',
           \A s \in Sockets : Request(t) \in Range(inbox[s]) =>
               Request(t) \in Range(inbox'[s]) \/ t \in Range(pendingApprovals')
    PROVE  Answerable(t)'
<1>1. Answerable(t)
  BY DEF PromptInv
<1> QED BY <1>1 DEF Answerable, Requested, Request

LEMMA SocketPrompts ==
    ASSUME LinkInv, RunInv, HereInv, PromptInv,
           \E s \in Sockets : Open(s) \/ Drop(s) \/ CloseEvent(s) \/ Fire(s)
    PROVE  PromptInv'
<1> SUFFICES ASSUME NEW t \in Turns, Waits(t)' PROVE Answerable(t)'
  BY DEF PromptInv
<1> USE DEF history, serveVars
<1>1. PICK s \in Sockets : Open(s) \/ Drop(s) \/ CloseEvent(s) \/ Fire(s)
  OBVIOUS
<1>2. CASE Open(s) \/ Fire(s)
  <2>1. UNCHANGED <<up, home, gate, unseen, late, overlap, inbox, pendingApprovals>>
    BY <1>2 DEF Open, Opened, Fire, Fires, storeVars
  <2>2. Waits(t)
    BY <2>1 DEF Waits
  <2> QED BY <2>1, <2>2, PromptStays DEF Replied
<1>3. CASE Drop(s) \/ CloseEvent(s)
  <2>1. /\ UNCHANGED <<up, home, gate, overlap>> /\ unseen \subseteq unseen' /\ (late => late')
        /\ inbox' = [inbox EXCEPT ![s] = << >>]
    <3>1. CASE Drop(s)
      BY <3>1 DEF Drop, Closed
    <3>2. CASE CloseEvent(s)
      BY <3>2 DEF CloseEvent, Closed, LinkInv, LinkType
    <3> QED BY <1>3, <3>1, <3>2
  <2>2. Waits(t)
    BY <2>1 DEF Waits
  <2>3. home[t] = activeProjectId /\ InboxOfProject /\ PromptsCanBeSent
    BY <2>2, WaitsHere
  <2>4. of[s] # activeProjectId
    <3>1. CASE Drop(s)
      <4>1. t \notin Asking(of[s])
        BY <3>1 DEF Drop, Waits
      <4> QED BY <2>2, <2>3, <4>1 DEF Asking, Waits
    <3>2. CASE CloseEvent(s)
      BY <2>2, <3>2 DEF CloseEvent, LinkInv, OneLink, Waits
    <3> QED BY <1>3, <3>1, <3>2
  <2>5. Request(t) \notin Range(inbox[s])
    <3> SUFFICES ASSUME NEW i \in DOMAIN inbox[s], inbox[s][i] = Request(t) PROVE FALSE
      BY DEF Range
    <3>1. From(inbox[s][i], of[s])
      BY <2>3 DEF InboxOfProject
    <3> QED BY <2>3, <2>4, <3>1 DEF From, Request
  <2>6. pendingApprovals = << >>
    <3>1. ~CanSend
      <4>1. CASE Drop(s)
        <5>1. ready[s] \in {"connecting", "open"}
          BY <4>1 DEF Drop
        <5>2. s = activeSocket
          BY <2>2, <5>1 DEF LinkInv, OneLink, IsLive, Waits
        <5> QED BY <2>4, <5>2, CanSendFacts
      <4>2. CASE CloseEvent(s)
        BY <4>2 DEF CloseEvent, CanSend, Waits
      <4> QED BY <1>3, <4>1, <4>2
    <3> QED BY <2>3, <3>1 DEF PromptsCanBeSent
  <2>7. t \notin Range(pendingApprovals)
    BY <2>6 DEF Range
  <2>8. \A r \in Sockets : Request(t) \in Range(inbox[r]) => Request(t) \in Range(inbox'[r])
    BY <2>1, <2>5 DEF RunInv, ShownType
  <2>9. Replied(t) => Replied(t)'
    BY <2>1 DEF Replied
  <2> QED BY <2>1, <2>2, <2>7, <2>8, <2>9, PromptStays
<1> QED BY <1>1, <1>2, <1>3

LEMMA ReceivePrompts ==
    ASSUME LinkInv, RunInv, HereInv, PromptInv, NEW s \in Sockets, Receive(s)
    PROVE  PromptInv'
<1> SUFFICES ASSUME NEW t \in Turns, Waits(t)' PROVE Answerable(t)'
  BY DEF PromptInv
<1>1. PICK f : f = Head(inbox[s])
  OBVIOUS
<1>2. /\ inbox[s] \in Seq(Frames) /\ inbox[s] # << >> /\ f \in Frames
      /\ inbox' = [inbox EXCEPT ![s] = Tail(@)]
      /\ UNCHANGED <<up, home, gate, unseen, late, overlap>>
  BY <1>1, ReceiveFacts DEF LinkAndLate, serveVars
<1>3. Waits(t) /\ pendingApprovals \in Seq(Turns)
  BY <1>2 DEF Waits, RunInv, ShownType
<1>4. /\ Range(pendingApprovals) \subseteq Range(pendingApprovals')
      /\ f = Request(t) => t \in Range(pendingApprovals')
  <2>1. CASE f.kind = "approval.request"
    <3>1. pendingApprovals' = IF f.decision \in Range(pendingApprovals) THEN pendingApprovals
                              ELSE Append(pendingApprovals, f.decision)
      BY <1>1, <2>1, ReceiveFacts
    <3>2. f.decision \in Turns
      BY <1>2, <2>1, FrameFacts
    <3>3. f = Request(t) => f.decision = t
      BY DEF Request
    <3>4. CASE f.decision \in Range(pendingApprovals)
      BY <3>1, <3>3, <3>4
    <3>5. CASE f.decision \notin Range(pendingApprovals)
      <4>1. /\ DOMAIN pendingApprovals' = 1 .. Len(pendingApprovals) + 1 /\ Len(pendingApprovals) \in Nat
            /\ DOMAIN pendingApprovals = 1 .. Len(pendingApprovals)
            /\ \A k \in 1 .. Len(pendingApprovals) : pendingApprovals'[k] = pendingApprovals[k]
            /\ pendingApprovals'[Len(pendingApprovals) + 1] = f.decision
        BY <1>3, <3>1, <3>2, <3>5, AppendFacts
      <4>2. \A k \in DOMAIN pendingApprovals : k \in DOMAIN pendingApprovals' /\ pendingApprovals'[k] = pendingApprovals[k]
        BY <4>1
      <4>3. Len(pendingApprovals) + 1 \in DOMAIN pendingApprovals'
        BY <4>1
      <4> QED BY <3>3, <4>1, <4>2, <4>3 DEF Range
    <3> QED BY <3>4, <3>5
  <2>2. CASE f.kind # "approval.request"
    <3>1. pendingApprovals' = pendingApprovals
      BY <1>1, <2>2, ReceiveFacts
    <3> QED BY <2>2, <3>1 DEF Request
  <2> QED BY <2>1, <2>2
<1>5. \A r \in Sockets : Request(t) \in Range(inbox[r]) => Request(t) \in Range(inbox'[r]) \/ t \in Range(pendingApprovals')
  <2> SUFFICES ASSUME NEW r \in Sockets, NEW i \in DOMAIN inbox[r], inbox[r][i] = Request(t), f # Request(t)
               PROVE  \E k \in DOMAIN inbox'[r] : inbox'[r][k] = Request(t)
    BY <1>4 DEF Range
  <2>1. CASE r = s
    <3>1. inbox'[s] = Tail(inbox[s])
      BY <1>2 DEF RunInv, ShownType
    <3>2. f = inbox[s][1] /\ (i = 1 \/ (i - 1 \in DOMAIN Tail(inbox[s]) /\ Tail(inbox[s])[i - 1] = inbox[s][i]))
      BY <1>1, <1>2, <2>1, TailFacts
    <3> QED BY <2>1, <3>1, <3>2
  <2>2. CASE r # s
    BY <1>2, <2>2 DEF RunInv, ShownType
  <2> QED BY <2>1, <2>2
<1>6. Replied(t) => Replied(t)'
  BY <1>2 DEF Replied
<1> QED BY <1>2, <1>3, <1>4, <1>5, <1>6, PromptStays
LEMMA ProcessPrompts ==
    ASSUME LinkInv, RunInv, HereInv, PromptInv, NEW u \in Turns, Begin(u) \/ Say(u) \/ Ask(u) \/ End(u)
    PROVE  PromptInv'
<1> SUFFICES ASSUME NEW t \in Turns, Waits(t)' PROVE Answerable(t)'
  BY DEF PromptInv
<1> USE DEF history
<1>1. PICK frames \in Seq(Frames) : Broadcast(home[u], frames) /\ (Ask(u) => frames = <<ToolStart(u), Request(u)>>)
  <2>1. CASE Ask(u)
    BY <2>1, ProcessFrames DEF Ask
  <2>2. CASE ~Ask(u) /\ (Begin(u) \/ Say(u))
    BY <2>2, ProcessFrames DEF Begin, Say
  <2>3. CASE ~Ask(u) /\ End(u)
    <3> DEFINE state == IF gate[u] = "allowed" THEN "completed" ELSE "failed"
               tools == IF gate[u] = "none" THEN << >> ELSE <<ToolEnd(u, state)>>
    <3>1. PICK last \in {RunEnd(letters[u]), ErrorEvent} : Broadcast(home[u], Append(tools, last))
      BY <2>3 DEF End
    <3>2. last \in Frames /\ ToolEnd(u, state) \in Frames
      BY FramesAreFrames DEF RunInv, RunType
    <3>3. Append(tools, last) \in Seq(Frames)
      BY <3>2, LastFrame
    <3> HIDE DEF tools, state
    <3> QED BY <2>3, <3>1, <3>3
  <2> QED BY <2>1, <2>2, <2>3
<1>2. /\ \A s \in Sockets : inbox'[s] = IF of[s] = home[u] /\ ready[s] = "open" THEN inbox[s] \o frames ELSE inbox[s]
      /\ overlap' = overlap /\ pendingApprovals' = pendingApprovals
  BY <1>1, BroadcastFacts DEF RunInv
<1>3. UNCHANGED <<up, home, late>> /\ (~Ask(u) => UNCHANGED <<gate, unseen>>)
  BY DEF Begin, Say, Ask, End
<1>4. \A s \in Sockets : inbox[s] \in Seq(Frames) /\ Range(inbox[s]) \subseteq Range(inbox[s] \o frames)
                         /\ Range(frames) \subseteq Range(inbox[s] \o frames)
  BY RangeConcat DEF RunInv, ShownType
<1>5. CASE Ask(u) /\ t = u
  <2>1. unseen' = IF Listening(home[u]) = {} THEN unseen \union {u} ELSE unseen
    BY <1>5 DEF Ask
  <2>2. PICK s \in Sockets : of[s] = home[u] /\ ready[s] = "open"
    BY <1>5, <2>1 DEF Waits, Listening
  <2>3. Request(u) \in Range(frames)
    <3>1. <<ToolStart(u), Request(u)>>[2] = Request(u) /\ 2 \in DOMAIN <<ToolStart(u), Request(u)>>
      OBVIOUS
    <3> QED BY <1>1, <1>5, <3>1 DEF Range
  <2>4. Request(u) \in Range(inbox'[s])
    BY <1>2, <1>4, <2>2, <2>3
  <2>5. Request(t)' = Request(u)
    BY <1>5 DEF Request
  <2> QED BY <2>4, <2>5 DEF Answerable, Requested
<1>6. CASE ~(Ask(u) /\ t = u)
  <2>1. Waits(t)
    <3>1. CASE Ask(u)
      <4>1. gate' = [gate EXCEPT ![u] = "open"] /\ unseen \subseteq unseen'
        BY <3>1 DEF Ask
      <4> QED BY <1>2, <1>3, <1>6, <3>1, <4>1 DEF Waits, RunInv, RunType
    <3>2. CASE ~Ask(u)
      BY <1>2, <1>3, <3>2 DEF Waits
    <3> QED BY <3>1, <3>2
  <2>2. \A s \in Sockets : Request(t) \in Range(inbox[s]) => Request(t) \in Range(inbox'[s])
    BY <1>2, <1>4
  <2>3. Replied(t) => Replied(t)'
    BY <1>3 DEF Replied
  <2> QED BY <1>2, <1>3, <2>1, <2>2, <2>3, PromptStays
<1> QED BY <1>5, <1>6

LEMMA SentPrompts ==
    ASSUME LinkInv, RunInv, HereInv, PromptInv,
           \/ ResetChat
           \/ \E u \in Turns : SendChat(u) \/ Sweep(u)
           \/ \E u \in Turns, allowed \in BOOLEAN : Respond(u, allowed)
    PROVE  PromptInv'
<1> SUFFICES ASSUME NEW t \in Turns, Waits(t)' PROVE Answerable(t)'
  BY DEF PromptInv
<1> USE DEF history, linkVars, serveVars
<1>1. UNCHANGED <<inbox, gate, late, overlap>> /\ unseen \subseteq unseen'
  <2>1. CASE ResetChat
    BY <2>1 DEF ResetChat, ClearChat
  <2>2. CASE \E u \in Turns : SendChat(u)
    BY <2>2 DEF SendChat, ShowTurn
  <2>3. CASE \E u \in Turns : Sweep(u)
    BY <2>3 DEF Sweep, TakeOff
  <2>4. CASE \E u \in Turns, allowed \in BOOLEAN : Respond(u, allowed)
    BY <2>4 DEF Respond, TakeOff
  <2> QED BY <2>1, <2>2, <2>3, <2>4
<1>2. Waits(t)
  BY <1>1 DEF Waits
<1>3. home[t] = activeProjectId /\ home[t] # Null /\ activeProjectId \in Projects /\ PromptsCanBeSent /\ gate[t] = "open"
  BY <1>2, WaitsHere DEF Waits
<1>4. CASE ResetChat
  <2>1. home' = home /\ pendingApprovals' = << >>
    BY <1>4 DEF ResetChat, ClearChat
  <2>2. CASE CanSend
    <3>1. up' = [up EXCEPT ![activeProjectId] = @ \o DenyAll]
      BY <1>4, <2>2 DEF ResetChat, Upstream
    <3>2. /\ DenyAll \in Seq(Upward) /\ DOMAIN DenyAll = DOMAIN pendingApprovals
          /\ \A i \in DOMAIN pendingApprovals : DenyAll[i].kind = "approval.reply" /\ DenyAll[i].turn = pendingApprovals[i]
      BY DenyAllFacts
    <3>3. t \in Range(pendingApprovals) => \E i \in DOMAIN DenyAll : DenyAll[i].kind = "approval.reply" /\ DenyAll[i].turn = t
      BY <3>2 DEF Range
    <3>4. PICK p \in Projects, frames \in Seq(Upward) : p = activeProjectId /\ frames = DenyAll
      BY <1>3, <3>2
    <3>5. (Replied(t) => Replied(t)') /\ (t \in Range(pendingApprovals) => Replied(t)')
      BY <1>3, <2>1, <3>1, <3>3, <3>4, RepliedStays
    <3> QED BY <1>1, <1>2, <2>1, <3>5, PromptStays
  <2>3. CASE ~CanSend
    <3>1. up' = up /\ t \notin Range(pendingApprovals)
      BY <1>3, <1>4, <2>3 DEF ResetChat, PromptsCanBeSent, Range
    <3>2. Replied(t) => Replied(t)'
      BY <2>1, <3>1 DEF Replied
    <3> QED BY <1>1, <1>2, <2>1, <3>1, <3>2, PromptStays
  <2> QED BY <2>2, <2>3
<1>5. ASSUME NEW u \in Turns, SendChat(u) PROVE Answerable(t)'
  <2>1. /\ run[u] = "typed" /\ home' = [home EXCEPT ![u] = activeProjectId] /\ pendingApprovals' = pendingApprovals
        /\ up' = [up EXCEPT ![activeProjectId] = @ \o <<Chat(u)>>]
    BY <1>5 DEF SendChat, ShowTurn, Upstream
  <2>2. home'[t] = home[t]
    BY <1>3, <2>1, OpenIsHome DEF RunInv, RunType
  <2>3. Chat(u) \in Upward
    BY DEF Chat, Upward
  <2>4. PICK p \in Projects, frames \in Seq(Upward) : p = activeProjectId /\ frames = <<Chat(u)>>
    <3>1. <<Chat(u)>> \in Seq(Upward)
      BY <2>3, OneElement
    <3> QED BY <1>3, <3>1
  <2>5. Replied(t) => Replied(t)'
    BY <1>3, <2>1, <2>2, <2>4, RepliedStays
  <2> QED BY <1>1, <1>2, <2>1, <2>2, <2>5, PromptStays
<1>6. ASSUME NEW u \in Turns, Sweep(u) PROVE Answerable(t)'
  <2>1. TakeOff(u) /\ u # t /\ UNCHANGED <<up, home>>
    BY <1>6 DEF Sweep, Waits
  <2>2. Range(pendingApprovals) \subseteq Range(pendingApprovals') \union {u}
    BY <2>1, TakenOff DEF RunInv, ShownType
  <2>3. Replied(t) => Replied(t)'
    BY <2>1 DEF Replied
  <2> QED BY <1>1, <1>2, <2>1, <2>2, <2>3, PromptStays
<1>7. ASSUME NEW u \in Turns, NEW allowed \in BOOLEAN, Respond(u, allowed) PROVE Answerable(t)'
  <2>1. TakeOff(u) /\ home' = home /\ up' = [up EXCEPT ![activeProjectId] = @ \o <<Reply(u, allowed)>>]
    BY <1>7 DEF Respond, Upstream
  <2>2. Range(pendingApprovals) \subseteq Range(pendingApprovals') \union {u}
    BY <2>1, TakenOff DEF RunInv, ShownType
  <2>3. Reply(u, allowed) \in Upward /\ Reply(u, allowed).kind = "approval.reply" /\ Reply(u, allowed).turn = u
    BY DEF Reply, Upward
  <2>4. PICK p \in Projects, frames \in Seq(Upward) : p = activeProjectId /\ frames = <<Reply(u, allowed)>>
    <3>1. <<Reply(u, allowed)>> \in Seq(Upward)
      BY <2>3, OneElement
    <3> QED BY <1>3, <3>1
  <2>5. 1 \in DOMAIN frames /\ frames[1].kind = "approval.reply" /\ frames[1].turn = u
    BY <2>3, <2>4
  <2>6. (Replied(t) => Replied(t)') /\ (t = u => Replied(t)')
    BY <1>3, <2>1, <2>4, <2>5, RepliedStays
  <2> QED BY <1>1, <1>2, <2>1, <2>2, <2>6, PromptStays
<1> QED BY <1>4, <1>5, <1>6, <1>7

LEMMA ReadPrompts ==
    ASSUME LinkInv, RunInv, HereInv, PromptInv,
           (\E p \in Projects : Read(p)) \/ (\E u \in Turns : Expire(u))
    PROVE  PromptInv'
<1> SUFFICES ASSUME NEW t \in Turns, Waits(t)' PROVE Answerable(t)'
  BY DEF PromptInv
<1> USE DEF history, tabVars, linkVars, storeVars
<1>1. ASSUME NEW p \in Projects, Read(p) PROVE Answerable(t)'
  <2> DEFINE f == Head(up[p])
  <2>1. /\ up[p] # << >> /\ up' = [up EXCEPT ![p] = Tail(@)]
        /\ UNCHANGED <<inbox, pendingApprovals, home, unseen, late, overlap>>
        /\ \/ f.kind = "chat" /\ gate' = gate
           \/ f.kind = "approval.reply" /\ gate' = [gate EXCEPT ![f.turn] = Settled(f.turn, f.allowed)]
    BY <1>1 DEF Read
  <2>2. up[p] \in Seq(Upward)
    BY DEF RunInv, RunType
  <2>3. /\ f \in Upward /\ f = up[p][1]
        /\ \A i \in DOMAIN up[p] : i = 1 \/ (i - 1 \in DOMAIN Tail(up[p]) /\ Tail(up[p])[i - 1] = up[p][i])
    BY <2>1, <2>2, TailFacts
  <2>4. f.turn \in Turns
    BY <2>3 DEF Upward
  <2> HIDE DEF f
  <2>5. f.kind = "approval.reply" => f.turn # t
    <3> SUFFICES ASSUME f.kind = "approval.reply" PROVE gate'[f.turn] # "open"
      BY DEF Waits
    <3> QED BY <2>1, <2>4 DEF Settled, RunInv, RunType
  <2>6. Waits(t)
    BY <2>1, <2>5 DEF Waits, RunInv, RunType
  <2>7. Replied(t) => Replied(t)'
    <3> SUFFICES ASSUME NEW i \in DOMAIN up[home[t]], up[home[t]][i].kind = "approval.reply", up[home[t]][i].turn = t
                 PROVE  \E j \in DOMAIN up'[home[t]] : up'[home[t]][j] = up[home[t]][i]
      BY <2>1 DEF Replied
    <3>0. home[t] \in Projects
      BY <2>6, WaitsHere
    <3>1. CASE home[t] = p
      <4>1. i # 1
        BY <2>3, <2>5, <3>1
      <4>2. up'[p] = Tail(up[p])
        BY <2>1 DEF RunInv, RunType
      <4> QED BY <2>3, <3>1, <4>1, <4>2
    <3>2. CASE home[t] # p
      BY <2>1, <3>0, <3>2 DEF RunInv, RunType
    <3> QED BY <3>1, <3>2
  <2> QED BY <2>1, <2>6, <2>7, PromptStays
<1>2. ASSUME NEW u \in Turns, Expire(u) PROVE Answerable(t)'
  <2>1. gate' = [gate EXCEPT ![u] = "expired"] /\ UNCHANGED <<inbox, pendingApprovals, up, home, unseen, late, overlap>>
    BY <1>2 DEF Expire
  <2>2. Waits(t)
    BY <2>1 DEF Waits, RunInv, RunType
  <2>3. Replied(t) => Replied(t)'
    BY <2>1 DEF Replied
  <2> QED BY <2>1, <2>2, <2>3, PromptStays
<1> QED BY <1>1, <1>2

LEMMA PromptKept ==
    ASSUME LinkInv, RunInv, HereInv, PromptInv, Next
    PROVE  PromptInv'
<1>1. CASE SignOut \/ \E p \in Projects : Visit(p)
  BY <1>1, LeavePrompts
<1>2. CASE \E s \in Sockets : Open(s) \/ Drop(s) \/ CloseEvent(s) \/ Fire(s)
  BY <1>2, SocketPrompts
<1>3. CASE \E s \in Sockets : Receive(s)
  BY <1>3, ReceivePrompts
<1>4. CASE \E t \in Turns : Begin(t) \/ Say(t) \/ Ask(t) \/ End(t)
  BY <1>4, ProcessPrompts
<1>5. CASE \/ ResetChat
           \/ \E u \in Turns : SendChat(u) \/ Sweep(u)
           \/ \E u \in Turns, allowed \in BOOLEAN : Respond(u, allowed)
  BY <1>5, SentPrompts
<1>6. CASE (\E p \in Projects : Read(p)) \/ (\E u \in Turns : Expire(u))
  BY <1>6, ReadPrompts
<1> QED BY <1>1, <1>2, <1>3, <1>4, <1>5, <1>6 DEF Next
-----------------------------------------------------------------------------
(* Turns.                                                                  *)

LEMMA TurnHolds ==
    Init => TurnInv
  BY DEF Init, TabInit, TurnInv, CurrentIsHeard, TurnsShowTheirRun

\* An action that says nothing, and ends no run.
LEMMA TurnsStay ==
    ASSUME RunInv, CurrentIsHeard, TurnsShowTheirRun,
           UNCHANGED <<messages, currentTurnId, letters, home, activeProjectId>>,
           \A t \in Turns : (run'[t] = "over" <=> run[t] = "over") /\ (Active(t)' => Active(t)),
           inbox'[activeSocket'] = inbox[activeSocket] \/ inbox'[activeSocket'] = << >>
    PROVE  CurrentIsHeard' /\ TurnsShowTheirRun'
<1>1. TurnsShowTheirRun'
  <2>1. \A i \in DOMAIN messages : messages[i].turn \in Turns
    BY ShownTypes DEF RunInv
  <2>2. ASSUME NEW i \in DOMAIN messages PROVE ShowsItsRun(messages[i].turn, messages[i].view)'
    BY <2>1, <2>2 DEF TurnsShowTheirRun, ShowsItsRun
  <2> QED BY <2>2 DEF TurnsShowTheirRun
<1>2. ASSUME currentTurnId # Null PROVE HeardInOrder'
  <2>1. currentTurnId \in Turns
    BY <1>2 DEF RunInv, ShownType
  <2>2. HeardInOrder
    BY <1>2 DEF CurrentIsHeard
  <2>3. CASE inbox'[activeSocket'] = << >>
    BY <2>3 DEF HeardInOrder
  <2>4. CASE inbox'[activeSocket'] = inbox[activeSocket]
    BY <2>1, <2>2, <2>4 DEF HeardInOrder, FrameIsOf, LetterIsNew
  <2> QED BY <2>3, <2>4
<1>3. CurrentIsHeard'
  BY <1>2 DEF CurrentIsHeard
<1> QED BY <1>1, <1>3

\* No message is shown.
LEMMA TurnsWiped ==
    ASSUME messages' = << >>, currentTurnId' = Null
    PROVE  TurnInv'
  BY DEF TurnInv, CurrentIsHeard, TurnsShowTheirRun

LEMMA QuietTurns ==
    ASSUME LinkInv, RunInv, HereInv, TurnInv,
           \/ \E p \in Projects : Visit(p) \/ Read(p)
           \/ SignOut \/ ResetChat
           \/ \E s \in Sockets : Open(s) \/ Drop(s) \/ CloseEvent(s) \/ Fire(s)
           \/ \E t \in Turns : Expire(t) \/ Sweep(t)
           \/ \E t \in Turns, allowed \in BOOLEAN : Respond(t, allowed)
    PROVE  TurnInv'
<1> USE DEF history, linkVars, storeVars, tabVars, serveVars
<1>1. CASE SignOut \/ \E p \in Projects : Visit(p)
  <2> SUFFICES ASSUME ~overlap' PROVE TurnInv'
    BY DEF TurnInv
  <2>1. messages' = << >> /\ currentTurnId' = Null
    BY <1>1, LeaveWipes
  <2> QED BY <2>1, TurnsWiped
<1>2. CASE ResetChat
  BY <1>2, TurnsWiped DEF ResetChat, ClearChat
<1>3. ASSUME UNCHANGED <<messages, currentTurnId, letters, home, activeProjectId, overlap, hasty>>,
             \A t \in Turns : (run'[t] = "over" <=> run[t] = "over") /\ (Active(t)' => Active(t)),
             inbox'[activeSocket'] = inbox[activeSocket] \/ inbox'[activeSocket'] = << >>
      PROVE  TurnInv'
  <2> SUFFICES ASSUME ~overlap', ~hasty' PROVE CurrentIsHeard' /\ TurnsShowTheirRun'
    BY DEF TurnInv
  <2> QED BY <1>3, TurnsStay DEF TurnInv
<1>4. ASSUME NEW p \in Projects, Read(p) PROVE TurnInv'
  <2> DEFINE f == Head(up[p])
  <2>1. /\ UNCHANGED <<messages, currentTurnId, letters, home, activeProjectId, overlap, hasty, inbox, activeSocket>>
        /\ run' = run \/ (f.kind = "chat" /\ run' = [run EXCEPT ![f.turn] = "waiting"])
    BY <1>4 DEF Read
  <2>2. f.kind = "chat" => run[f.turn] = "sent"
    <3>1. up[p] \in Seq(Upward) /\ up[p] # << >>
      BY <1>4 DEF Read, RunInv, RunType
    <3>2. f = up[p][1] /\ 1 \in DOMAIN up[p]
      BY <3>1, TailFacts
    <3> HIDE DEF f
    <3> QED BY <3>2 DEF RunInv, SentOnce
  <2> HIDE DEF f
  <2>3. \A t \in Turns : run'[t] = run[t] \/ (run[t] = "sent" /\ run'[t] = "waiting")
    BY <2>1, <2>2 DEF RunInv, RunType
  <2> QED BY <1>3, <2>1, <2>3 DEF Active
<1>5. ASSUME NEW s \in Sockets, Open(s) PROVE TurnInv'
  BY <1>3, <1>5 DEF Open, Opened, Active
<1>6. ASSUME NEW s \in Sockets, Drop(s) \/ CloseEvent(s) PROVE TurnInv'
  <2>1. /\ UNCHANGED <<messages, currentTurnId, letters, home, activeProjectId, overlap, hasty, run, activeSocket>>
        /\ inbox' = [inbox EXCEPT ![s] = << >>]
    BY <1>6 DEF Drop, CloseEvent, Closed
  <2>2. inbox'[activeSocket] = inbox[activeSocket] \/ inbox'[activeSocket] = << >>
    BY <2>1 DEF RunInv, ShownType
  <2> QED BY <1>3, <2>1, <2>2 DEF Active
<1>7. ASSUME NEW s \in Sockets, Fire(s) PROVE TurnInv'
  <2> SUFFICES ASSUME ~overlap' PROVE TurnInv'
    BY DEF TurnInv
  <2>1. /\ UNCHANGED <<messages, currentTurnId, letters, home, activeProjectId, overlap, hasty, run, inbox>>
        /\ activeProjectId = of[s] => Connect(ready, of[s])
        /\ activeProjectId # of[s] => activeSocket' = activeSocket
    BY <1>7 DEF Fire, Fires
  <2>2. CASE activeProjectId = of[s]
    <3>1. Fresh \in Sockets /\ ready[Fresh] = "new" /\ activeSocket' = Fresh
      BY <2>1, <2>2, NewSocket DEF Connect
    <3>2. inbox[Fresh] = << >>
      BY <2>1, <3>1 DEF HereInv, InboxOfProject
    <3> QED BY <1>3, <2>1, <3>1, <3>2 DEF Active
  <2>3. CASE activeProjectId # of[s]
    BY <1>3, <2>1, <2>3 DEF Active
  <2> QED BY <2>2, <2>3
<1>8. ASSUME NEW t \in Turns, Expire(t) \/ Sweep(t) PROVE TurnInv'
  BY <1>3, <1>8 DEF Expire, Sweep, TakeOff, Active
<1>9. ASSUME NEW t \in Turns, NEW allowed \in BOOLEAN, Respond(t, allowed) PROVE TurnInv'
  BY <1>3, <1>9 DEF Respond, TakeOff, Active
<1> QED BY <1>1, <1>2, <1>4, <1>5, <1>6, <1>7, <1>8, <1>9

LEMMA SendChatTurns ==
    ASSUME LinkInv, RunInv, HereInv, TurnInv, NEW t \in Turns, SendChat(t)
    PROVE  TurnInv'
<1> USE NullIsNone
<1> SUFFICES ASSUME ~overlap', ~hasty' PROVE CurrentIsHeard' /\ TurnsShowTheirRun'
  BY DEF TurnInv
<1> DEFINE message == [turn |-> t, view |-> NewTurn]
<1>1. /\ run[t] = "typed" /\ CanSend /\ ~overlap /\ ~hasty
      /\ run' = [run EXCEPT ![t] = "sent"] /\ home' = [home EXCEPT ![t] = activeProjectId]
      /\ messages' = Append(messages, message) /\ currentTurnId' = t
      /\ Alive(activeProjectId) = {} /\ inbox[activeSocket] = << >>
      /\ UNCHANGED <<inbox, activeSocket, activeProjectId, letters>>
  BY DEF SendChat, ShowTurn, linkVars
<1>2. activeProjectId # Null /\ home[t] = Null
  BY <1>1, CanSendFacts DEF RunInv, RunsAtHome
<1>3. ShownOfProject /\ TurnsShowTheirRun
  BY <1>1 DEF HereInv, TurnInv
<1>4. /\ \A u \in Turns \ {t} : run'[u] = run[u] /\ home'[u] = home[u]
      /\ run'[t] = "sent" /\ home'[t] = activeProjectId
  BY <1>1 DEF RunInv, RunType
<1>5. /\ messages \in Seq(Messages) /\ message \in Messages
      /\ \A i \in DOMAIN messages : messages[i].turn \in Turns /\ messages[i].turn # t
  BY <1>2, <1>3, NewTurnIsView, ShownTypes DEF RunInv, ShownType, Messages, ShownOfProject
<1>6. message.turn = t /\ message.view.text = << >> /\ message.view.streaming
  BY DEF NewTurn
<1> HIDE DEF message
<1>7. /\ DOMAIN messages = 1 .. Len(messages) /\ Len(messages) \in Nat /\ DOMAIN messages' = 1 .. Len(messages) + 1
      /\ \A i \in 1 .. Len(messages) : messages'[i] = messages[i]
      /\ messages'[Len(messages) + 1] = message
  BY <1>1, <1>5, AppendFacts
<1>8. \A i, j \in DOMAIN messages' : messages'[i].turn = messages'[j].turn => i = j
  BY <1>3, <1>5, <1>6, <1>7 DEF TurnsShowTheirRun
<1>9. ASSUME NEW i \in DOMAIN messages' PROVE ShowsItsRun(messages[i].turn, messages[i].view)'
  <2>1. CASE i = Len(messages) + 1
    BY <1>6, <1>7, <2>1 DEF ShowsItsRun
  <2>2. CASE i # Len(messages) + 1
    <3>1. i \in DOMAIN messages /\ messages'[i] = messages[i] /\ messages[i].turn \in Turns \ {t}
      BY <1>5, <1>7, <2>2
    <3>2. ShowsItsRun(messages[i].turn, messages[i].view)
      BY <1>3, <3>1 DEF TurnsShowTheirRun
    <3> QED BY <1>1, <1>4, <3>1, <3>2 DEF ShowsItsRun
  <2> QED BY <2>1, <2>2
<1>10. TurnsShowTheirRun'
  BY <1>8, <1>9 DEF TurnsShowTheirRun
<1>11. \E i \in DOMAIN messages' : messages'[i].turn = t
  <2>1. Len(messages) + 1 \in DOMAIN messages'
    BY <1>7
  <2> QED BY <1>6, <1>7, <2>1
<1>12. \A i \in DOMAIN messages' : messages'[i].turn = t => messages'[i].view.streaming
  BY <1>5, <1>6, <1>7
<1>13. \A u \in Turns : home'[u] = activeProjectId /\ Active(u)' => u = t
  BY <1>1, <1>4 DEF Active, Alive
<1>14. HeardInOrder'
  BY <1>1 DEF HeardInOrder
<1> QED BY <1>1, <1>10, <1>11, <1>12, <1>13, <1>14 DEF CurrentIsHeard

\* A run says something, or ends: the socket of its project hears it.
LEMMA SaidTurns ==
    ASSUME LinkInv, RunInv, HereInv, CurrentIsHeard, TurnsShowTheirRun, ~overlap,
           NEW t \in Turns, run[t] \in {"waiting", "running"}, home' = home,
           NEW frames \in Seq(Frames), Broadcast(home[t], frames),
           \A u \in Turns \ {t} : run'[u] = run[u] /\ letters'[u] = letters[u],
           letters'[t] \in Seq(Letters), Len(letters'[t]) >= Len(letters[t]),
           \A i \in DOMAIN frames : frames[i].kind = "block_delta" =>
               /\ frames[i].text[1] = <<t, Len(letters[t]) + 1>> /\ Len(letters'[t]) = Len(letters[t]) + 1
               /\ \A j \in DOMAIN frames : j = i,
           \A i \in DOMAIN frames : frames[i].kind = "run_end" => frames[i].message = letters'[t] /\ run'[t] = "over",
           \A i \in DOMAIN frames : frames[i].kind = "error" => run'[t] = "over"
    PROVE  CurrentIsHeard' /\ TurnsShowTheirRun'
<1>1. /\ \A s \in Sockets : inbox'[s] = IF of[s] = home[t] /\ ready[s] = "open" THEN inbox[s] \o frames ELSE inbox[s]
      /\ UNCHANGED <<activeSocket, activeProjectId, messages, currentTurnId>>
  BY BroadcastFacts DEF RunInv
<1>2. Len(letters[t]) \in Nat /\ Len(letters'[t]) \in Nat
  BY DEF RunInv, RunType
\* A letter a frame carries is the next one of its turn.
<1>2a. ASSUME NEW k \in DOMAIN frames, frames[k].kind = "block_delta"
      PROVE  frames[k].text[1][2] = Len(letters[t]) + 1
  <2>1. frames[k].text[1] = <<t, Len(letters[t]) + 1>>
    BY <1>2a
  <2> QED BY <2>1
<1>3. ASSUME NEW i \in DOMAIN messages PROVE ShowsItsRun(messages[i].turn, messages[i].view)'
  <2>1. messages[i].turn \in Turns /\ ShowsItsRun(messages[i].turn, messages[i].view)
    BY ShownTypes DEF RunInv, TurnsShowTheirRun
  <2>2. CASE messages[i].turn = t
    <3>1. messages[i].view.streaming
      BY <2>1, <2>2 DEF ShowsItsRun
    <3>2. \A k \in 1 .. Len(letters[t]) : k \in 1 .. Len(letters'[t])
      BY <1>2
    <3> QED BY <1>1, <2>1, <2>2, <3>1, <3>2 DEF ShowsItsRun
  <2>3. CASE messages[i].turn # t
    BY <1>1, <2>1, <2>3 DEF ShowsItsRun
  <2> QED BY <2>2, <2>3
<1>4. TurnsShowTheirRun'
  BY <1>1, <1>3 DEF TurnsShowTheirRun
<1>5. ASSUME currentTurnId # Null PROVE HeardInOrder'
  <2>1. PICK c \in Turns : c = currentTurnId
    BY <1>5 DEF RunInv, ShownType
  <2>2. activeSocket \in Sockets /\ of[activeSocket] = activeProjectId
    BY <1>5 DEF HereInv, ShownOfProject, LinkInv, LinkType, ActiveIsMade
  <2>3. PICK a \in Sockets : a = activeSocket
    BY <2>2
  <2>4. /\ \A u \in Turns : home[u] = activeProjectId /\ Active(u) => u = c
        /\ HeardInOrder
    BY <1>5, <2>1 DEF CurrentIsHeard
  <2>5. inbox[a] \in Seq(Frames)
    BY DEF RunInv, ShownType
  <2>6. PICK heard \in Seq(Frames) : heard = inbox[a]
    BY <2>5
  <2>7. /\ \A i \in DOMAIN heard : FrameIsOf(heard[i], c)
        /\ \A i \in DOMAIN heard : heard[i].kind = "block_delta" => LetterIsNew(heard[i])
        /\ \A i, j \in DOMAIN heard :
               heard[i].kind = "block_delta" /\ heard[j].kind = "block_delta" /\ i < j =>
                   heard[i].text[1][2] < heard[j].text[1][2]
    BY <2>1, <2>3, <2>4, <2>6 DEF HeardInOrder
  \* What was heard before stays of the turn.
  <2>8. \A i \in DOMAIN heard : FrameIsOf(heard[i], c)' /\ (heard[i].kind = "block_delta" => LetterIsNew(heard[i])')
    <3> SUFFICES ASSUME NEW i \in DOMAIN heard
                 PROVE  FrameIsOf(heard[i], c)' /\ (heard[i].kind = "block_delta" => LetterIsNew(heard[i])')
      OBVIOUS
    <3>1. heard[i].kind = "block_delta" => LetterIsNew(heard[i])'
      BY <1>1, <2>7 DEF LetterIsNew
    <3>2. CASE c = t
      <4>1. heard[i].kind \notin {"run_end", "error"}
        BY <2>7, <3>2 DEF FrameIsOf
      <4>2. \A k \in 1 .. Len(letters[t]) : k \in 1 .. Len(letters'[t])
        BY <1>2
      <4> QED BY <2>7, <3>1, <3>2, <4>1, <4>2 DEF FrameIsOf
    <3>3. CASE c # t
      BY <2>7, <3>1, <3>3 DEF FrameIsOf
    <3> QED BY <3>2, <3>3
  <2>9. CASE inbox'[a] = heard
    BY <1>1, <2>1, <2>3, <2>7, <2>8, <2>9 DEF HeardInOrder, FrameIsOf, LetterIsNew
  <2>10. CASE inbox'[a] # heard
    <3>1. home[t] = activeProjectId /\ inbox'[a] = heard \o frames
      BY <1>1, <2>2, <2>3, <2>6, <2>10
    <3>2. c = t
      BY <2>4, <3>1 DEF Active
    <3>3. /\ DOMAIN heard = 1 .. Len(heard) /\ Len(heard) \in Nat /\ DOMAIN frames = 1 .. Len(frames) /\ Len(frames) \in Nat
          /\ \A i \in DOMAIN (heard \o frames) :
                 \/ i \in DOMAIN heard /\ (heard \o frames)[i] = heard[i]
                 \/ ~(i \in DOMAIN heard) /\ i - Len(heard) \in DOMAIN frames /\ (heard \o frames)[i] = frames[i - Len(heard)]
      <4>1. \A i \in 1 .. Len(heard) : (heard \o frames)[i] = heard[i]
        BY ConcatFacts
      <4> QED BY <4>1, ConcatFacts
    <3>4. \A i \in DOMAIN frames : FrameIsOf(frames[i], c)'
      BY <1>2, <3>2 DEF FrameIsOf
    <3>5. \A i \in DOMAIN frames : frames[i].kind = "block_delta" => LetterIsNew(frames[i])'
      <4> SUFFICES ASSUME NEW i \in DOMAIN frames, frames[i].kind = "block_delta",
                          NEW m \in DOMAIN messages, messages[m].turn = t, NEW k \in DOMAIN messages[m].view.text
                   PROVE  messages[m].view.text[k][2] < frames[i].text[1][2]
        BY <1>1, <2>1, <3>2 DEF LetterIsNew
      <4>1. messages[m].view.text[k][2] \in 1 .. Len(letters[t])
        <5>1. ShowsItsRun(messages[m].turn, messages[m].view)
          BY DEF TurnsShowTheirRun
        <5> QED BY <5>1 DEF ShowsItsRun
      <4>2. frames[i].text[1][2] = Len(letters[t]) + 1
        BY <1>2a
      <4> QED BY <1>2, <4>1, <4>2
    <3>6. ASSUME NEW i \in DOMAIN (heard \o frames), NEW j \in DOMAIN (heard \o frames), i < j,
                 (heard \o frames)[i].kind = "block_delta", (heard \o frames)[j].kind = "block_delta"
          PROVE  (heard \o frames)[i].text[1][2] < (heard \o frames)[j].text[1][2]
      <4>1. CASE i \in DOMAIN heard /\ j \in DOMAIN heard
        <5>1. (heard \o frames)[i] = heard[i] /\ (heard \o frames)[j] = heard[j]
          BY <3>3, <4>1
        <5> QED BY <2>7, <3>6, <4>1, <5>1
      <4>2. CASE i \in DOMAIN heard /\ j \notin DOMAIN heard
        <5>1. (heard \o frames)[i].text[1][2] \in 1 .. Len(letters[t])
          <6>1. (heard \o frames)[i] = heard[i] /\ FrameIsOf(heard[i], t)
            BY <2>7, <3>2, <3>3, <4>2
          <6> QED BY <3>6, <6>1 DEF FrameIsOf
        <5>2. (heard \o frames)[j].text[1][2] = Len(letters[t]) + 1
          <6>1. j - Len(heard) \in DOMAIN frames /\ (heard \o frames)[j] = frames[j - Len(heard)]
            BY <3>3, <4>2
          <6> QED BY <1>2a, <3>6, <6>1
        <5>3. (heard \o frames)[i].text[1][2] < Len(letters[t]) + 1
          BY <1>2, <5>1, BelowTheNext, Zenon
        <5> QED BY <5>2, <5>3, Zenon
      <4>3. CASE i \notin DOMAIN heard
        <5>1. j \notin DOMAIN heard /\ i \in Nat /\ j \in Nat
          BY <3>3, <3>6, <4>3
        <5>2. i - Len(heard) = j - Len(heard)
          BY <3>3, <3>6, <4>3, <5>1
        <5> QED BY <3>3, <3>6, <5>1, <5>2
      <4> QED BY <4>1, <4>2, <4>3
    <3>7. \A i \in DOMAIN (heard \o frames) :
              FrameIsOf((heard \o frames)[i], c)' /\ ((heard \o frames)[i].kind = "block_delta" => LetterIsNew((heard \o frames)[i])')
      BY <2>8, <3>3, <3>4, <3>5
    <3>8. PICK now \in Seq(Frames) : now = heard \o frames
      BY ConcatFacts
    <3>9. inbox'[activeSocket'] = now /\ currentTurnId' = c
      BY <1>1, <2>1, <2>3, <3>1, <3>8
    <3>10. \A i \in DOMAIN now : FrameIsOf(now[i], c)' /\ (now[i].kind = "block_delta" => LetterIsNew(now[i])')
      BY <3>7, <3>8
    <3>11. \A i, j \in DOMAIN now :
              now[i].kind = "block_delta" /\ now[j].kind = "block_delta" /\ i < j => now[i].text[1][2] < now[j].text[1][2]
      BY <3>6, <3>8
    <3> QED BY <3>9, <3>10, <3>11 DEF HeardInOrder, FrameIsOf, LetterIsNew
  <2> QED BY <2>9, <2>10
<1>6. CurrentIsHeard'
  <2>1. \A u \in Turns : Active(u)' => Active(u)
    BY DEF Active
  <2> QED BY <1>1, <1>5, <2>1 DEF CurrentIsHeard
<1> QED BY <1>4, <1>6

LEMMA ProcessTurns ==
    ASSUME LinkInv, RunInv, HereInv, TurnInv, NEW t \in Turns, Begin(t) \/ Say(t) \/ Ask(t) \/ End(t)
    PROVE  TurnInv'
<1> SUFFICES ASSUME ~overlap', ~hasty' PROVE CurrentIsHeard' /\ TurnsShowTheirRun'
  BY DEF TurnInv
<1> USE DEF history
<1>1. run[t] \in {"waiting", "running"} /\ home' = home /\ hasty' = hasty /\ overlap' = overlap
  <2>1. CASE Begin(t) \/ Say(t) \/ Ask(t)
    BY <2>1 DEF Begin, Say, Ask, Broadcast
  <2>2. CASE End(t)
    BY <2>2 DEF End, Broadcast
  <2> QED BY <2>1, <2>2
<1>2. CurrentIsHeard /\ TurnsShowTheirRun /\ ~overlap
  BY <1>1 DEF TurnInv
<1>3. letters[t] \in Seq(Letters) /\ Len(letters[t]) \in Nat
  BY DEF RunInv, RunType
<1>4. CASE Begin(t)
  <2>1. /\ run' = [run EXCEPT ![t] = "running"] /\ letters' = letters /\ Broadcast(home[t], <<RunStart>>)
    BY <1>4 DEF Begin
  <2>2. \A i \in DOMAIN <<RunStart>> : <<RunStart>>[i] = RunStart
    OBVIOUS
  <2>3. RunStart.kind = "run_start"
    BY DEF RunStart
  <2>4. \A u \in Turns \ {t} : run'[u] = run[u] /\ letters'[u] = letters[u]
    BY <2>1 DEF RunInv, RunType
  <2>5. PICK frames \in Seq(Frames) : frames = <<RunStart>>
    BY ProcessFrames
  <2>6. \A i \in DOMAIN frames : frames[i].kind = "run_start"
    BY <2>2, <2>3, <2>5
  <2>7. Broadcast(home[t], frames)
    BY <2>1, <2>5
  <2>8. letters'[t] \in Seq(Letters) /\ Len(letters'[t]) >= Len(letters[t])
    BY <1>3, <2>1
  <2> QED BY <1>1, <1>2, <2>4, <2>6, <2>7, <2>8, SaidTurns
<1>5. CASE Say(t)
  <2> DEFINE letter == <<t, Len(letters[t]) + 1>>
             delta == BlockDelta(t, "text", <<letter>>)
  <2>1. /\ run' = run /\ letters' = [letters EXCEPT ![t] = Append(@, letter)] /\ Broadcast(home[t], <<delta>>)
    BY <1>5 DEF Say
  <2>2. delta.kind = "block_delta" /\ delta.text[1] = letter
    BY DEF BlockDelta
  <2>3. PICK frames \in Seq(Frames) : frames = <<delta>>
    BY ProcessFrames
  <2>4. letter \in Letters
    BY ProcessFrames
  <2> HIDE DEF delta
  <2>5. DOMAIN frames = {1} /\ frames[1] = delta
    BY <2>3
  <2>6. /\ letters'[t] = Append(letters[t], letter)
        /\ \A u \in Turns \ {t} : run'[u] = run[u] /\ letters'[u] = letters[u]
    BY <2>1 DEF RunInv, RunType
  <2> HIDE DEF letter
  <2>7. letters'[t] \in Seq(Letters) /\ Len(letters'[t]) = Len(letters[t]) + 1
    BY <1>3, <2>4, <2>6, AppendFacts
  <2>8. \A i \in DOMAIN frames : /\ frames[i].kind = "block_delta" /\ frames[i].text[1] = <<t, Len(letters[t]) + 1>>
                                 /\ \A j \in DOMAIN frames : j = i
    BY <2>2, <2>5 DEF letter
  <2>9. Len(letters'[t]) >= Len(letters[t])
    BY <1>3, <2>7
  <2>10. Broadcast(home[t], frames)
    BY <2>1, <2>3
  <2> QED BY <1>1, <1>2, <2>6, <2>7, <2>8, <2>9, <2>10, SaidTurns
<1>6. CASE Ask(t)
  <2>1. run' = run /\ letters' = letters /\ Broadcast(home[t], <<ToolStart(t), Request(t)>>)
    BY <1>6 DEF Ask
  <2>2. PICK frames \in Seq(Frames) : frames = <<ToolStart(t), Request(t)>>
    BY ProcessFrames
  <2>3. \A i \in DOMAIN <<ToolStart(t), Request(t)>> : <<ToolStart(t), Request(t)>>[i] \in {ToolStart(t), Request(t)}
    OBVIOUS
  <2>4. ToolStart(t).kind = "tool_start" /\ Request(t).kind = "approval.request"
    BY DEF ToolStart, Request
  <2>5. \A i \in DOMAIN frames : frames[i].kind \in {"tool_start", "approval.request"}
    BY <2>2, <2>3, <2>4
  <2>6. Broadcast(home[t], frames)
    BY <2>1, <2>2
  <2>7. letters'[t] \in Seq(Letters) /\ Len(letters'[t]) >= Len(letters[t])
    BY <1>3, <2>1
  <2>8. \A u \in Turns \ {t} : run'[u] = run[u] /\ letters'[u] = letters[u]
    BY <2>1
  <2> QED BY <1>1, <1>2, <2>5, <2>6, <2>7, <2>8, SaidTurns
<1>7. CASE End(t)
  <2> DEFINE state == IF gate[t] = "allowed" THEN "completed" ELSE "failed"
             tools == IF gate[t] = "none" THEN << >> ELSE <<ToolEnd(t, state)>>
  <2>1. run' = [run EXCEPT ![t] = "over"] /\ letters' = letters
    BY <1>7 DEF End
  <2>2. PICK last \in {RunEnd(letters[t]), ErrorEvent} : Broadcast(home[t], Append(tools, last))
    BY <1>7 DEF End
  <2>3. last \in Frames /\ ToolEnd(t, state) \in Frames
    BY <1>3, FramesAreFrames
  <2>4. Append(tools, last) \in Seq(Frames) /\ \A i \in DOMAIN Append(tools, last) : Append(tools, last)[i] \in {ToolEnd(t, state), last}
    BY <2>3, LastFrame
  <2>5. ToolEnd(t, state).kind = "tool_end"
    BY DEF ToolEnd
  <2>6. (last.kind = "run_end" /\ last.message = letters[t]) \/ last.kind = "error"
    BY <2>2 DEF RunEnd, ErrorEvent
  <2> HIDE DEF tools, state
  <2>7. PICK frames \in Seq(Frames) : frames = Append(tools, last)
    BY <2>4
  <2>8. \A i \in DOMAIN frames : \/ frames[i].kind \in {"tool_end", "error"}
                                 \/ frames[i].kind = "run_end" /\ frames[i].message = letters[t]
    BY <2>4, <2>5, <2>6, <2>7
  <2>9. run'[t] = "over" /\ \A u \in Turns \ {t} : run'[u] = run[u] /\ letters'[u] = letters[u]
    BY <2>1 DEF RunInv, RunType
  <2>10. Broadcast(home[t], frames)
    BY <2>2, <2>7
  <2>11. /\ letters'[t] \in Seq(Letters) /\ Len(letters'[t]) >= Len(letters[t])
         /\ \A i \in DOMAIN frames : frames[i].kind = "run_end" => frames[i].message = letters'[t]
         /\ \A i \in DOMAIN frames : frames[i].kind # "block_delta"
    BY <1>3, <2>1, <2>8
  <2> QED BY <1>1, <1>2, <2>9, <2>10, <2>11, SaidTurns
<1> QED BY <1>4, <1>5, <1>6, <1>7

LEMMA ReceiveTurns ==
    ASSUME LinkInv, RunInv, HereInv, TurnInv, NEW s \in Sockets, Receive(s)
    PROVE  TurnInv'
<1> USE NullIsNone
<1> SUFFICES ASSUME ~overlap', ~hasty' PROVE CurrentIsHeard' /\ TurnsShowTheirRun'
  BY DEF TurnInv
<1>1. PICK f : f = Head(inbox[s])
  OBVIOUS
<1>2. /\ ready[s] = "open" /\ inbox[s] \in Seq(Frames) /\ inbox[s] # << >> /\ f \in Frames
      /\ inbox' = [inbox EXCEPT ![s] = Tail(@)]
      /\ UNCHANGED <<activeSocket, activeProjectId, overlap, hasty, run, home, letters>>
  BY <1>1, ReceiveFacts DEF LinkAndLate, serveVars
<1>3. CurrentIsHeard /\ TurnsShowTheirRun /\ ShownOfProject /\ s = activeSocket
  BY <1>2, Hearing DEF TurnInv, HereInv
<1>4. PICK heard \in Seq(Frames), now \in Seq(Frames) : heard = inbox[s] /\ now = Tail(heard)
  BY <1>2, TailFacts
<1>5. /\ inbox'[activeSocket'] = now /\ inbox[activeSocket] = heard /\ f = heard[1] /\ 1 \in DOMAIN heard
      /\ \A k \in DOMAIN now : now[k] = heard[k + 1] /\ k + 1 \in DOMAIN heard /\ k \in Nat /\ k + 1 > 1
  <2>1. inbox'[s] = Tail(inbox[s])
    BY <1>2 DEF RunInv, ShownType
  <2>2. /\ f = heard[1] /\ 1 \in DOMAIN heard
        /\ \A k \in DOMAIN now : now[k] = heard[k + 1] /\ k + 1 \in DOMAIN heard /\ k + 1 # 1 /\ k \in Nat
    BY <1>1, <1>2, <1>4, TailFacts
  <2> QED BY <1>2, <1>3, <1>4, <2>1, <2>2
\* What is left is still in order.
<1>6. HeardInOrder =>
          \A j, k \in DOMAIN now :
              now[j].kind = "block_delta" /\ now[k].kind = "block_delta" /\ j < k => now[j].text[1][2] < now[k].text[1][2]
  <2> SUFFICES ASSUME HeardInOrder, NEW j \in DOMAIN now, NEW k \in DOMAIN now,
                      now[j].kind = "block_delta", now[k].kind = "block_delta", j < k
               PROVE  now[j].text[1][2] < now[k].text[1][2]
    OBVIOUS
  <2>1. /\ now[j] = heard[j + 1] /\ j + 1 \in DOMAIN heard /\ now[k] = heard[k + 1] /\ k + 1 \in DOMAIN heard
        /\ j \in Nat /\ k \in Nat
    BY <1>5
  <2>2. j + 1 < k + 1
    BY <2>1
  <2> QED BY <1>5, <2>1, <2>2 DEF HeardInOrder
<1>7. CASE f.kind = "approval.request" \/ currentTurnId = Null
  <2>1. UNCHANGED <<messages, currentTurnId>>
    BY <1>1, <1>7, ReceiveFacts
  <2>2. TurnsShowTheirRun'
    BY <1>2, <1>3, <2>1 DEF TurnsShowTheirRun, ShowsItsRun
  <2>3. ASSUME currentTurnId # Null PROVE HeardInOrder'
    <3>1. HeardInOrder
      BY <1>3, <2>3 DEF CurrentIsHeard
    <3>2. \A k \in DOMAIN now : FrameIsOf(now[k], currentTurnId) /\ (now[k].kind = "block_delta" => LetterIsNew(now[k]))
      BY <1>5, <3>1 DEF HeardInOrder
    <3>3. \A j, k \in DOMAIN now :
              now[j].kind = "block_delta" /\ now[k].kind = "block_delta" /\ j < k => now[j].text[1][2] < now[k].text[1][2]
      BY <1>6, <3>1
    <3>4. \A k \in DOMAIN now : FrameIsOf(now[k], currentTurnId)' /\ (now[k].kind = "block_delta" => LetterIsNew(now[k])')
      BY <1>2, <2>1, <3>2 DEF FrameIsOf, LetterIsNew
    <3> QED BY <1>5, <3>3, <3>4 DEF HeardInOrder
  <2>4. CurrentIsHeard'
    BY <1>2, <1>3, <2>1, <2>3 DEF CurrentIsHeard, Active
  <2> QED BY <2>2, <2>4
<1>8. CASE f.kind # "approval.request" /\ currentTurnId # Null
  <2>1. PICK c \in Turns : c = currentTurnId
    BY <1>8 DEF RunInv, ShownType
  <2>2. PICK i : i = CHOOSE j \in DOMAIN messages : messages[j].turn = currentTurnId
    OBVIOUS
  <2>3. i \in DOMAIN messages /\ messages[i].turn = c /\ \A j \in DOMAIN messages : messages[j].turn = c => j = i
    BY <1>3, <1>8, <2>1, <2>2 DEF CurrentIsHeard, TurnsShowTheirRun
  <2>4. /\ messages' = [messages EXCEPT ![i].view = ApplyToTurn(@, f)]
        /\ currentTurnId' = IF f.kind \in {"run_end", "error"} THEN Null ELSE currentTurnId
    BY <1>1, <1>8, <2>2, ReceiveFacts
  <2>5. messages \in Seq(Messages)
    BY DEF RunInv, ShownType, Messages
  <2>6. /\ DOMAIN messages' = DOMAIN messages
        /\ \A j \in DOMAIN messages : messages'[j].turn = messages[j].turn
        /\ \A j \in DOMAIN messages \ {i} : messages'[j].view = messages[j].view
        /\ messages'[i].view = ApplyToTurn(messages[i].view, f)
    <3>1. /\ DOMAIN messages' = DOMAIN messages
          /\ \A j \in DOMAIN messages : messages'[j].turn = messages[j].turn
          /\ \A j \in DOMAIN messages : messages'[j].view = IF j = i THEN ApplyToTurn(messages[j].view, f) ELSE messages[j].view
      BY <1>2, <1>8, <2>4, <2>5, EventFacts
    <3> QED BY <2>3, <3>1
  <2>7. HeardInOrder /\ messages[i].view.streaming
    BY <1>3, <1>8, <2>1, <2>3 DEF CurrentIsHeard
  <2>8. FrameIsOf(f, c) /\ (f.kind = "block_delta" => LetterIsNew(f))
    BY <1>5, <2>1, <2>7 DEF HeardInOrder
  <2>9. PICK old \in Views, new \in Views : old = messages[i].view /\ new = messages'[i].view
    <3>1. messages[i].view \in Views
      BY <2>3, ShownTypes DEF RunInv
    <3> QED BY <1>2, <1>8, <2>6, <3>1, ApplyFacts
  <2>10. /\ new.text = IF f.kind = "block_delta" THEN old.text \o f.text
                       ELSE IF f.kind = "run_end" /\ f.message # << >> THEN f.message ELSE old.text
         /\ new.streaming = IF f.kind = "run_start" THEN TRUE
                            ELSE IF f.kind \in {"run_end", "error"} THEN FALSE ELSE old.streaming
         /\ new.failed = IF f.kind = "error" THEN TRUE ELSE old.failed
    <3>1. new = ApplyToTurn(old, f)
      BY <2>6, <2>9
    <3> QED BY <1>2, <1>8, <3>1, ApplyFacts
  <2>11. old.text \in Seq(Letters) /\ old.streaming /\ letters[c] \in Seq(Letters)
    BY <2>7, <2>9 DEF Views, RunInv, RunType
  <2>12. /\ \A k \in DOMAIN old.text : old.text[k][1] = c /\ old.text[k][2] \in 1 .. Len(letters[c])
         /\ \A j, k \in DOMAIN old.text : j < k => old.text[j][2] < old.text[k][2]
    BY <1>3, <2>3, <2>9 DEF TurnsShowTheirRun, ShowsItsRun
  \* The letters of the turn stay its own, in order, and before those to come.
  <2>13. /\ \A k \in DOMAIN new.text : new.text[k][1] = c /\ new.text[k][2] \in 1 .. Len(letters[c])
         /\ \A j, k \in DOMAIN new.text : j < k => new.text[j][2] < new.text[k][2]
         /\ ~new.streaming => run[c] = "over" /\ (new.failed \/ new.text = letters[c])
         /\ f.kind \notin {"run_end", "error"} =>
                /\ new.streaming
                /\ \A k \in DOMAIN now : now[k].kind = "block_delta" =>
                       \A n \in DOMAIN new.text : new.text[n][2] < now[k].text[1][2]
    <3>1. CASE f.kind = "block_delta"
      <4>1. f.text[1] \in Letters /\ f.text = <<f.text[1]>>
        BY <1>2, <3>1, FrameFacts
      <4>2. PICK letter \in Letters : letter = f.text[1]
        BY <4>1
      <4>3. /\ letter[1] = c /\ letter[2] \in 1 .. Len(letters[c])
            /\ \A k \in DOMAIN old.text : old.text[k][2] < letter[2]
        BY <2>1, <2>3, <2>8, <2>9, <3>1, <4>2 DEF FrameIsOf, LetterIsNew
      <4>4. /\ DOMAIN new.text = 1 .. Len(old.text) + 1 /\ DOMAIN old.text = 1 .. Len(old.text) /\ Len(old.text) \in Nat
            /\ \A k \in DOMAIN new.text :
                   (k \in DOMAIN old.text /\ new.text[k] = old.text[k]) \/ (k = Len(old.text) + 1 /\ new.text[k] = letter)
        <5>1. new.text = old.text \o <<letter>>
          BY <2>10, <3>1, <4>1, <4>2
        <5> QED BY <2>11, <5>1, ConcatOne
      <4>5. \A k \in DOMAIN new.text : new.text[k][1] = c /\ new.text[k][2] \in 1 .. Len(letters[c])
        BY <2>12, <4>3, <4>4
      <4>6. \A j, k \in DOMAIN new.text : j < k => new.text[j][2] < new.text[k][2]
        <5> SUFFICES ASSUME NEW j \in DOMAIN new.text, NEW k \in DOMAIN new.text, j < k
                     PROVE  new.text[j][2] < new.text[k][2]
          OBVIOUS
        <5>1. j \in DOMAIN old.text /\ new.text[j] = old.text[j]
          BY <4>4
        <5>2. CASE k \in DOMAIN old.text /\ new.text[k] = old.text[k]
          BY <2>12, <5>1, <5>2
        <5>3. CASE new.text[k] = letter
          BY <4>3, <5>1, <5>3
        <5> QED BY <4>4, <5>2, <5>3
      <4>7. \A k \in DOMAIN now : now[k].kind = "block_delta" =>
                \A n \in DOMAIN new.text : new.text[n][2] < now[k].text[1][2]
        <5> SUFFICES ASSUME NEW k \in DOMAIN now, now[k].kind = "block_delta", NEW n \in DOMAIN new.text
                     PROVE  new.text[n][2] < now[k].text[1][2]
          OBVIOUS
        <5>1. now[k] = heard[k + 1] /\ k + 1 \in DOMAIN heard /\ k + 1 > 1
          BY <1>5
        <5>2. letter[2] < now[k].text[1][2]
          BY <1>5, <2>7, <3>1, <4>2, <5>1 DEF HeardInOrder
        <5>3. \A m \in DOMAIN old.text : old.text[m][2] < now[k].text[1][2]
          BY <1>5, <2>1, <2>3, <2>7, <2>9, <5>1 DEF HeardInOrder, LetterIsNew
        <5> QED BY <4>4, <5>2, <5>3
      <4>8. new.streaming
        BY <2>10, <2>11, <3>1
      <4> QED BY <3>1, <4>5, <4>6, <4>7, <4>8
    <3>2. CASE f.kind = "run_end"
      <4>1. f.message = letters[c] /\ run[c] = "over"
        BY <2>8, <3>2 DEF FrameIsOf
      <4>2. DOMAIN letters[c] = 1 .. Len(letters[c]) /\ Len(letters[c]) \in Nat /\ \A n \in DOMAIN letters[c] : letters[c][n] = <<c, n>>
        BY <2>11 DEF RunInv, RunsAtHome
      <4>3. new.text = letters[c]
        <5>1. CASE f.message # << >>
          BY <2>10, <3>2, <4>1, <5>1
        <5>2. CASE f.message = << >>
          <6>1. new.text = old.text /\ letters[c] = << >>
            BY <2>10, <3>2, <4>1, <5>2
          <6>2. DOMAIN old.text = {}
            BY <2>12, <6>1
          <6>3. old.text = << >>
            BY <2>11, <6>2, EmptySequence
          <6> QED BY <6>1, <6>3
        <5> QED BY <5>1, <5>2
      <4>4. \A k \in DOMAIN new.text : new.text[k][1] = c /\ new.text[k][2] = k /\ k \in 1 .. Len(letters[c])
        BY <4>2, <4>3
      <4>5. /\ \A k \in DOMAIN new.text : new.text[k][1] = c /\ new.text[k][2] \in 1 .. Len(letters[c])
            /\ \A j, k \in DOMAIN new.text : j < k => new.text[j][2] < new.text[k][2]
        BY <4>4
      <4> QED BY <3>2, <4>1, <4>3, <4>5
    <3>3. CASE f.kind = "error"
      <4>1. new.text = old.text /\ new.failed /\ run[c] = "over"
        BY <2>8, <2>10, <3>3 DEF FrameIsOf
      <4> QED BY <2>12, <3>3, <4>1
    <3>4. CASE f.kind \notin {"block_delta", "run_end", "error"}
      <4>1. new.text = old.text /\ new.streaming
        BY <2>10, <2>11, <3>4
      <4>2. \A k \in DOMAIN now : now[k].kind = "block_delta" =>
                \A n \in DOMAIN old.text : old.text[n][2] < now[k].text[1][2]
        BY <1>5, <2>1, <2>3, <2>7, <2>9 DEF HeardInOrder, LetterIsNew
      <4> QED BY <2>12, <3>4, <4>1, <4>2
    <3> QED BY <3>1, <3>2, <3>3, <3>4
  <2>14. TurnsShowTheirRun'
    <3> SUFFICES ASSUME NEW j \in DOMAIN messages PROVE ShowsItsRun(messages[j].turn, messages[j].view)'
      BY <1>3, <2>6 DEF TurnsShowTheirRun
    <3>1. CASE j = i
      <4>1. messages'[i].turn = c /\ messages'[i].view = new
        BY <2>3, <2>6, <2>9
      <4>2. run'[c] = run[c] /\ letters'[c] = letters[c]
        BY <1>2
      <4>3. messages'[j].turn = c /\ messages'[j].view = new
        BY <3>1, <4>1
      <4>4. /\ \A k \in DOMAIN messages'[j].view.text :
                   /\ messages'[j].view.text[k][1] = c
                   /\ messages'[j].view.text[k][2] \in 1 .. Len(letters'[c])
            /\ \A k, n \in DOMAIN messages'[j].view.text :
                   k < n => messages'[j].view.text[k][2] < messages'[j].view.text[n][2]
        BY <2>13, <4>2, <4>3
      <4>5. ~messages'[j].view.streaming =>
                run'[c] = "over" /\ (messages'[j].view.failed \/ messages'[j].view.text = letters'[c])
        BY <2>13, <4>2, <4>3
      <4> QED BY <4>3, <4>4, <4>5 DEF ShowsItsRun
    <3>2. CASE j # i
      <4>1. messages'[j].turn = messages[j].turn /\ messages'[j].view = messages[j].view
        BY <2>6, <3>2
      <4>2. ShowsItsRun(messages[j].turn, messages[j].view)
        BY <1>3 DEF TurnsShowTheirRun
      <4>3. run' = run /\ letters' = letters
        BY <1>2
      <4> QED BY <4>1, <4>2, <4>3 DEF ShowsItsRun
    <3> QED BY <3>1, <3>2
  <2>15. CurrentIsHeard'
    <3> SUFFICES ASSUME currentTurnId' # Null PROVE CurrentIsHeard'
      BY DEF CurrentIsHeard
    <3>1. f.kind \notin {"run_end", "error"} /\ currentTurnId' = c
      BY <2>1, <2>4
    <3>2. \A j \in DOMAIN messages' : messages'[j].turn = c => j = i /\ messages'[j].view = new
      BY <2>3, <2>6, <2>9
    <3>3. \A k \in DOMAIN now : FrameIsOf(now[k], c)' /\ (now[k].kind = "block_delta" => LetterIsNew(now[k])')
      <4> SUFFICES ASSUME NEW k \in DOMAIN now
                   PROVE  FrameIsOf(now[k], c)' /\ (now[k].kind = "block_delta" => LetterIsNew(now[k])')
        OBVIOUS
      <4>1. FrameIsOf(now[k], c)
        BY <1>5, <2>1, <2>7 DEF HeardInOrder
      <4>2. now[k].kind = "block_delta" => LetterIsNew(now[k])'
        BY <2>13, <3>1, <3>2 DEF LetterIsNew
      <4> QED BY <1>2, <4>1, <4>2 DEF FrameIsOf
    <3>4. \A j, k \in DOMAIN now :
              now[j].kind = "block_delta" /\ now[k].kind = "block_delta" /\ j < k => now[j].text[1][2] < now[k].text[1][2]
      BY <1>6, <2>7
    <3>5. HeardInOrder'
      BY <1>5, <3>1, <3>3, <3>4 DEF HeardInOrder, FrameIsOf, LetterIsNew
    <3>6. \A t \in Turns : home'[t] = activeProjectId' /\ Active(t)' => t = c
      BY <1>2, <1>3, <1>8, <2>1 DEF CurrentIsHeard, Active
    <3>7. \E j \in DOMAIN messages' : messages'[j].turn = c
      BY <2>3, <2>6
    <3> QED BY <2>13, <3>1, <3>2, <3>5, <3>6, <3>7 DEF CurrentIsHeard
  <2> QED BY <2>14, <2>15
<1> QED BY <1>7, <1>8

LEMMA TurnKept ==
    ASSUME LinkInv, RunInv, HereInv, TurnInv, Next
    PROVE  TurnInv'
<1>1. CASE \/ \E p \in Projects : Visit(p) \/ Read(p)
           \/ SignOut \/ ResetChat
           \/ \E s \in Sockets : Open(s) \/ Drop(s) \/ CloseEvent(s) \/ Fire(s)
           \/ \E t \in Turns : Expire(t) \/ Sweep(t)
           \/ \E t \in Turns, allowed \in BOOLEAN : Respond(t, allowed)
  BY <1>1, QuietTurns
<1>2. CASE \E s \in Sockets : Receive(s)
  BY <1>2, ReceiveTurns
<1>3. CASE \E t \in Turns : SendChat(t)
  BY <1>3, SendChatTurns
<1>4. CASE \E t \in Turns : Begin(t) \/ Say(t) \/ Ask(t) \/ End(t)
  BY <1>4, ProcessTurns
<1> QED BY <1>1, <1>2, <1>3, <1>4 DEF Next

-----------------------------------------------------------------------------
(* The invariant and the theorems.                                         *)

LEMMA AlwaysInvariant ==
    Spec => []IInv
<1>1. Init => IInv
  BY LinkHolds, RunHolds, HereHolds, PromptHolds, TurnHolds DEF IInv
<1>2. IInv /\ [Next]_vars => IInv'
  <2> SUFFICES ASSUME IInv, [Next]_vars PROVE IInv'
    OBVIOUS
  <2>1. CASE Next
    BY <2>1, LinkKept, RunKept, HereKept, PromptKept, TurnKept DEF IInv
  <2>2. CASE UNCHANGED vars
    <3> USE <2>2 DEF vars, tabVars, storeVars, linkVars, serveVars, history
    <3>1. LinkInv'
      BY LinkStays DEF IInv
    <3>2. RunInv'
      <4>1. ShownType' /\ RunType'
        BY DEF IInv, RunInv, ShownType, RunType
      <4>2. RunsAtHome' /\ SentOnce'
        BY DEF IInv, RunInv, RunsAtHome, SentOnce
      <4> QED BY <4>1, <4>2 DEF RunInv
    <3>3. HereInv'
      BY HereStays DEF IInv
    <3>4. PromptInv'
      BY DEF IInv, PromptInv, Waits, Answerable, Requested, Replied, Request
    <3>5. TurnInv'
      BY TurnsStay DEF IInv, TurnInv, Active
    <3> QED BY <3>1, <3>2, <3>3, <3>4, <3>5 DEF IInv
  <2> QED BY <2>1, <2>2
<1> QED BY <1>1, <1>2, PTL DEF Spec

\* Whatever sockets dropped and pages changed, what is on the screen is of the
\* open project, unless it was entered with an old socket of it left
\* (playground.ts, ensureSocketFor, resetPlayground).
THEOREM ScreenOfTheOpenProject == Spec => []NothingCrosses
<1>1. IInv => NothingCrosses
  BY DEF IInv, HereInv, ShownOfProject, NothingCrosses
<1> QED BY <1>1, AlwaysInvariant, PTL

\* A turn shows the letters of its own run, in order, and all of them in the end,
\* as long as the user waits for one run before the next message (playground.ts,
\* currentTurnId and applyEvent).
THEOREM TurnsShowTheirOwnRun == Spec => []OneAnswerPerTurn
<1>1. IInv => OneAnswerPerTurn
  <2> SUFFICES ASSUME IInv, ~overlap, ~hasty, NEW i \in DOMAIN messages PROVE ShowsItsRun(messages[i].turn, messages[i].view)
    BY DEF OneAnswerPerTurn, ShowsItsRun
  <2> QED BY DEF IInv, TurnInv, TurnsShowTheirRun
<1> QED BY <1>1, AlwaysInvariant, PTL

\* While a call waits for approval, its prompt goes only for an answer: it is on the
\* screen, or its request or its reply is on the way, unless the tab's own clock has
\* swept it or its socket or page has gone (playground.ts, addApproval,
\* respondToApproval, reset and the sweep).
THEOREM WaitingCallsCanBeAnswered == Spec => []NoPromptSwallowed
<1>1. IInv => NoPromptSwallowed
  BY DEF IInv, PromptInv, Waits, Answerable, Requested, Replied, NoPromptSwallowed
<1> QED BY <1>1, AlwaysInvariant, PTL

\* A tab in a project has a socket or a timer that will make one, a tab in none
\* has no socket, and the status it shows is the socket's (playground.ts,
\* connectSocket, its close handler, resetPlayground).
THEOREM TheLinkStaysLive == Spec => []LinkIsLive
<1>1. IInv => LinkIsLive
  <2> SUFFICES ASSUME LinkInv PROVE LinkIsLive
    BY DEF IInv
  <2>1. activeProjectId # Null => ready[activeSocket] \in {"connecting", "open"} \/ \E s \in timers : of[s] = activeProjectId
    BY DEF LinkInv, ActiveIsMade, IsLive
  <2>2. activeProjectId = Null => \A s \in Sockets : ready[s] \notin {"connecting", "open"} \/ overlap
    BY NullIsNone DEF LinkInv, ActiveIsMade, OneLink, IsLive
  <2>3. ~late /\ ~overlap => (connected <=> CanSend)
    BY DEF LinkInv, OneLink
  <2> QED BY <2>1, <2>2, <2>3 DEF LinkIsLive
<1> QED BY <1>1, AlwaysInvariant, PTL
=============================================================================
