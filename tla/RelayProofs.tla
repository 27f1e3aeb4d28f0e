---------------------------- MODULE RelayProofs ----------------------------
(***************************************************************************)
(* Proofs about ChatRelay, the two modules it composes, and the approval   *)
(* handler of the same serve process (RelayApproval), for any number of    *)
(* tabs, connections, turns, events, resets and tool calls.                *)
(*                                                                         *)
(* The session's invariant says that the turn that holds the lock is the   *)
(* only one that runs, and ties what it was asked to the history and the   *)
(* live run.  The relay's says which connection is attached, what every    *)
(* tab has still to be sent, and that a status that travels alone is true. *)
(* The handler's says that a live call holds a real socket, that a box is  *)
(* TRUE only once its event is set by a granted reply, and that a yes on   *)
(* the wire was granted.                                                   *)
(***************************************************************************)
EXTENDS ChatRelay, RelayApproval, FiniteSetTheorems, WellFoundedInduction, TLAPS

-----------------------------------------------------------------------------
(* The session.                                                            *)

Messages == [role : {"user", "assistant"}, turn : Turns, epoch : Nat]

SessionType ==
    /\ phase \in {"off", "on", "draining"}
    /\ down \in Seq(Turns \union {Reset})
    /\ messages \in Seq(Messages)
    /\ stage \in [Turns -> {"typed", "sent", "waiting", "running", "over"}]
    /\ waiting \in Seq(Turns)
    /\ holder \in Turns \union {Nobody}
    /\ input \in [Turns -> Seq(Messages)]
    /\ epoch \in Nat
    /\ cut \subseteq Turns
    /\ memory \subseteq Messages

\* The turn that runs is the one that holds the lock, and nobody holds it, or
\* waits for it, between two connections.
OneRunner ==
    /\ \A t \in Turns : stage[t] = "running" <=> holder = t
    /\ phase = "off" => holder = Nobody /\ waiting = << >>

\* A frame on its way is of a turn that was sent, each once.
DownIsSent ==
    \A i \in DOMAIN down : down[i] # Reset =>
        /\ stage[down[i]] = "sent"
        /\ \A j \in DOMAIN down : down[j] = down[i] => j = i

\* A task waits for the lock once.
WaitingIsWaiting ==
    \A i \in DOMAIN waiting :
        /\ stage[waiting[i]] = "waiting"
        /\ \A j \in DOMAIN waiting : waiting[j] = waiting[i] => j = i

\* The live run of turn t, or what is left of it after a reset.
RunOf(t) ==
    {[asked |-> t, of |-> {}], [asked |-> t, of |-> {t}], [asked |-> Nobody, of |-> {t}]}

RunIsOfOne ==
    \/ run = Nobody
    \/ \E t \in Turns : run \in RunOf(t) /\ (holder # Nobody => holder = t)

\* The running turn was asked the question the history ends with; if a reset has
\* fallen since, the history is empty and the turn was in its midst.
InputIsHistory ==
    /\ \A t \in Turns : input[t] # << >> <=> holder = t
    /\ \A t \in Turns : holder = t =>
          /\ Last(input[t]) = User(t, AskedIn(t))
          /\ AskedIn(t) <= epoch
          /\ IF AskedIn(t) = epoch THEN messages = input[t] ELSE messages = << >> /\ t \in cut

\* The history is of this epoch, but for the answer of a turn that was cut.
HistoryOfEpoch ==
    \A i \in DOMAIN messages :
        \/ messages[i].epoch = epoch
        \/ i = 1 /\ messages[i].role = "assistant" /\ messages[i].turn \in cut

AnswersFollow ==
    \A i \in DOMAIN messages : messages[i].role = "assistant" =>
        IF i = 1 THEN messages[i].epoch < epoch
        ELSE messages[i - 1] = User(messages[i].turn, messages[i].epoch)

\* While the history begins with a question, the driver's session is of this epoch.
MemoryOfEpoch ==
    messages # << >> /\ messages[1].role = "user" => \A m \in memory : m.epoch = epoch

SessionInv ==
    /\ SessionType /\ OneRunner /\ DownIsSent /\ WaitingIsWaiting /\ RunIsOfOne /\ InputIsHistory
    /\ HistoryOfEpoch /\ AnswersFollow /\ MemoryOfEpoch /\ ResetForgets

-----------------------------------------------------------------------------
(* The relay.                                                              *)

Statuses == [online : BOOLEAN, agent : Names \union {None}]
Broadcast == [status : Statuses \union {None}, frame : Nat, to : SUBSET Tabs]

HubType ==
    /\ serve \in Conns \union {None}
    /\ agent \in Names \union {None}
    /\ chats \subseteq Tabs
    /\ handler \in [Conns -> {"new", "evicting", "open", "finished"}]
    /\ out \in [Conns -> Broadcast]
    /\ up \in [Conns -> Seq(Names \union {Event})]
    /\ read \in [Conns -> Nat]
    /\ tab \in [Tabs -> {"new", "open", "closed", "gone"}]
    /\ greeting \in [Tabs -> Statuses \union {None}]
    /\ shown \in [Tabs -> Statuses \union {None}]
    /\ seen \in [Tabs -> [Conns -> Nat]]
    /\ raced \subseteq Tabs
    /\ IsFiniteSet({c \in Conns : handler[c] # "new"})

\* Connections are accepted in their order; the one that is attached is the last,
\* and without one the last has finished.
ServeIsLast ==
    /\ \A c, d \in Conns : handler[d] # "new" /\ c < d => handler[c] # "new"
    /\ serve # None => /\ handler[serve] \in {"open", "evicting"}
                       /\ \A d \in Conns : handler[d] # "new" => d <= serve
    /\ serve = None => \A c \in Conns :
          handler[c] # "new" /\ (\A d \in Conns : handler[d] # "new" => d <= c)
              => handler[c] = "finished"

\* Who broadcasts is past the close of the socket it replaced; who is open is a
\* chat, who is new is not and is sent nothing.
Broadcasts ==
    /\ \A c \in Conns : handler[c] \in {"new", "evicting"} => out[c] = Silent
    /\ \A c \in Conns : out[c].to # {} => out[c].to \subseteq {t \in Tabs : tab[t] # "new"}
    /\ \A t \in Tabs : tab[t] = "open" => t \in chats
    /\ \A t \in Tabs : tab[t] = "new" => t \notin chats /\ greeting[t] = None
    /\ \A c \in Conns : out[c].to = {} => out[c] = Silent

\* A tab has been sent every frame the hub has taken, or is about to be sent the
\* one that is missing.
FramesSent ==
    \A t \in Tabs, c \in Conns : tab[t] = "open" =>
        IF t \in out[c].to /\ out[c].status = None
        THEN out[c].frame = read[c] /\ read[c] = seen[t][c] + 1
        ELSE seen[t][c] = read[c]

Truth == Status(serve # None, agent)

\* The status x carries to tab t is true.
Carries(x, t) ==
    IF x = None THEN greeting[t] = Truth
    ELSE IF handler[x] = "evicting" THEN serve # None /\ agent = None
    ELSE out[x].status = Truth

\* To a tab that is not raced one status is on its way at most, and it is true; or
\* the one shown is.
StatusIsTrue ==
    \A t \in Tabs : tab[t] = "open" /\ t \notin raced =>
        /\ \A x, y \in StatusTo(t) : x = y
        /\ \A x \in StatusTo(t) : Carries(x, t)
        /\ StatusTo(t) = {} => shown[t] = Truth

HubInv == HubType /\ ServeIsLast /\ Broadcasts /\ FramesSent /\ StatusIsTrue

IInv == SessionInv /\ HubInv

-----------------------------------------------------------------------------
(* Lemmas about sequences and numbers.                                     *)

LEMMA AppendFacts ==
    ASSUME NEW S, NEW s \in Seq(S), NEW x \in S
    PROVE  /\ Append(s, x) \in Seq(S)
           /\ DOMAIN s = 1 .. Len(s) /\ Len(s) \in Nat
           /\ DOMAIN Append(s, x) = 1 .. Len(s) + 1
           /\ \A i \in 1 .. Len(s) : Append(s, x)[i] = s[i]
           /\ Append(s, x)[Len(s) + 1] = x
           /\ Len(Append(s, x)) = Len(s) + 1
           /\ Append(s, x) # << >>
           /\ Last(Append(s, x)) = x
  BY DEF Last

LEMMA TailFacts ==
    ASSUME NEW S, NEW s \in Seq(S), s # << >>
    PROVE  /\ Head(s) \in S /\ Tail(s) \in Seq(S) /\ Head(s) = s[1]
           /\ DOMAIN s = 1 .. Len(s) /\ Len(s) \in Nat \ {0}
           /\ DOMAIN Tail(s) = 1 .. Len(s) - 1
           /\ \A i \in DOMAIN Tail(s) : Tail(s)[i] = s[i + 1] /\ i + 1 \in DOMAIN s /\ i + 1 # 1
  OBVIOUS

LEMMA LeastNumber ==
    ASSUME NEW S, S \subseteq Nat, S # {}
    PROVE  \E x \in S : \A y \in S : ~(y < x)
<1> DEFINE R == OpToRel(<, Nat)
<1>1. IsWellFoundedOn(R, Nat)
  BY NatLessThanWellFounded
<1>2. \A x, y \in Nat : y < x => <<y, x>> \in R
  BY DEF OpToRel
<1> HIDE DEF R
<1>3. \E x \in S : \A y \in S : ~(<<y, x>> \in R)
  BY <1>1, WFMin
<1> QED BY <1>2, <1>3

LEMMA QuestionsAndAnswers ==
    ASSUME NEW t \in Turns, NEW e \in Nat
    PROVE  /\ User(t, e) \in Messages /\ User(t, e).role = "user"
           /\ User(t, e).epoch = e /\ User(t, e).turn = t
           /\ Answer(t, e) \in Messages /\ Answer(t, e).role = "assistant"
           /\ Answer(t, e).epoch = e /\ Answer(t, e).turn = t
  BY DEF User, Answer, Messages

LEMMA AskedInEpoch ==
    ASSUME SessionType, NEW t \in Turns, input[t] # << >>
    PROVE  AskedIn(t) \in Nat
<1>1. input[t] \in Seq(Messages)
  BY DEF SessionType
<1>2. Last(input[t]) \in Messages
  BY <1>1 DEF Last
<1> QED BY <1>2 DEF AskedIn, Messages

-----------------------------------------------------------------------------
(* The session: each of its steps keeps its invariant.                     *)

LEMMA SessionHolds ==
    Init => SessionInv
<1> SUFFICES ASSUME Init PROVE SessionInv
  OBVIOUS
<1> USE TurnsAssumption DEF Init, SessionInit
<1>1. SessionType
  BY DEF SessionType, Messages, Reset
<1>2. OneRunner /\ DownIsSent /\ WaitingIsWaiting /\ RunIsOfOne
  BY DEF OneRunner, DownIsSent, WaitingIsWaiting, RunIsOfOne
<1>3. InputIsHistory /\ HistoryOfEpoch /\ AnswersFollow /\ MemoryOfEpoch /\ ResetForgets
  BY DEF InputIsHistory, HistoryOfEpoch, AnswersFollow, MemoryOfEpoch, ResetForgets
<1> QED BY <1>1, <1>2, <1>3 DEF SessionInv

LEMMA ConnectedKeeps ==
    ASSUME SessionInv, Connected PROVE SessionInv'
<1> USE TurnsAssumption DEF SessionInv, Connected
<1>1. SessionType' /\ OneRunner'
  BY DEF SessionType, OneRunner
<1>2. DownIsSent' /\ WaitingIsWaiting' /\ RunIsOfOne'
  BY DEF DownIsSent, WaitingIsWaiting, RunIsOfOne, OneRunner
<1>3. InputIsHistory'
  BY DEF InputIsHistory, AskedIn, OneRunner
<1>4. HistoryOfEpoch' /\ AnswersFollow' /\ MemoryOfEpoch' /\ ResetForgets'
  BY DEF HistoryOfEpoch, AnswersFollow, MemoryOfEpoch, ResetForgets, AskedIn
<1> QED BY <1>1, <1>2, <1>3, <1>4

LEMMA LostKeeps ==
    ASSUME SessionInv, Lost PROVE SessionInv'
<1> USE TurnsAssumption DEF SessionInv, Lost
<1>1. SessionType' /\ OneRunner'
  BY DEF SessionType, OneRunner
<1>2. DownIsSent' /\ RunIsOfOne'
  BY DEF DownIsSent, RunIsOfOne
<1>3. WaitingIsWaiting'
  BY DEF WaitingIsWaiting, SessionType
<1>4. InputIsHistory' /\ HistoryOfEpoch' /\ AnswersFollow' /\ MemoryOfEpoch' /\ ResetForgets'
  BY DEF InputIsHistory, HistoryOfEpoch, AnswersFollow, MemoryOfEpoch, ResetForgets, AskedIn
<1> QED BY <1>1, <1>2, <1>3, <1>4

LEMMA ReapKeeps ==
    ASSUME SessionInv, Reap PROVE SessionInv'
<1> USE TurnsAssumption DEF SessionInv, Reap
<1>1. SessionType'
  BY DEF SessionType
<1>2. OneRunner'
  BY DEF SessionType, OneRunner, Alive, Running
<1>3. DownIsSent'
  <2> SUFFICES ASSUME NEW i \in DOMAIN down, down[i] # Reset
               PROVE  /\ stage'[down[i]] = "sent"
                      /\ \A j \in DOMAIN down : down[j] = down[i] => j = i
    BY DEF DownIsSent
  <2>1. down[i] \in Turns
    BY DEF SessionType
  <2> QED BY <2>1 DEF DownIsSent, Alive, Running
<1>4. WaitingIsWaiting' /\ RunIsOfOne'
  BY DEF WaitingIsWaiting, RunIsOfOne
<1>5. InputIsHistory' /\ ResetForgets'
  BY DEF InputIsHistory, ResetForgets
<1>6. HistoryOfEpoch' /\ AnswersFollow' /\ MemoryOfEpoch'
  BY DEF HistoryOfEpoch, AnswersFollow, MemoryOfEpoch
<1> QED BY <1>1, <1>2, <1>3, <1>4, <1>5, <1>6

LEMMA ReadChatKeeps ==
    ASSUME SessionInv, ReadChat PROVE SessionInv'
<1> DEFINE h == Head(down)
<1> USE TurnsAssumption DEF SessionInv, ReadChat
<1>1. /\ h \in Turns /\ Tail(down) \in Seq(Turns \union {Reset}) /\ h = down[1] /\ 1 \in DOMAIN down
      /\ \A i \in DOMAIN Tail(down) : Tail(down)[i] = down[i + 1] /\ i + 1 \in DOMAIN down /\ i + 1 # 1
  BY TailFacts DEF SessionType
<1>2. /\ Append(waiting, h) \in Seq(Turns) /\ DOMAIN waiting = 1 .. Len(waiting) /\ Len(waiting) \in Nat
      /\ DOMAIN Append(waiting, h) = 1 .. Len(waiting) + 1
      /\ \A i \in 1 .. Len(waiting) : Append(waiting, h)[i] = waiting[i]
      /\ Append(waiting, h)[Len(waiting) + 1] = h
  BY <1>1, AppendFacts DEF SessionType
<1>3. stage[h] = "sent" /\ \A j \in DOMAIN down : down[j] = h => j = 1
  BY <1>1 DEF DownIsSent
<1>4. down' = Tail(down) /\ waiting' = Append(waiting, h) /\ stage' = [stage EXCEPT ![h] = "waiting"]
  OBVIOUS
<1> HIDE DEF h
<1>5. SessionType'
  BY <1>1, <1>2, <1>4 DEF SessionType
<1>6. OneRunner'
  BY <1>1, <1>3, <1>4 DEF SessionType, OneRunner
<1>7. DownIsSent'
  <2> SUFFICES ASSUME NEW i \in DOMAIN Tail(down), Tail(down)[i] # Reset
               PROVE  /\ stage'[Tail(down)[i]] = "sent"
                      /\ \A j \in DOMAIN Tail(down) : Tail(down)[j] = Tail(down)[i] => j = i
    BY <1>4 DEF DownIsSent
  <2>1. /\ Tail(down)[i] = down[i + 1] /\ i + 1 \in DOMAIN down /\ i + 1 # 1
        /\ stage[down[i + 1]] = "sent"
        /\ \A j \in DOMAIN down : down[j] = down[i + 1] => j = i + 1
    BY <1>1 DEF DownIsSent
  <2>2. down[i + 1] \in Turns /\ down[i + 1] # h
    BY <1>3, <2>1 DEF SessionType
  <2>3. ASSUME NEW j \in DOMAIN Tail(down), Tail(down)[j] = Tail(down)[i]
        PROVE  j = i
    <3>1. j + 1 = i + 1
      BY <1>1, <2>1, <2>3
    <3>2. i \in Nat /\ j \in Nat
      BY <1>1
    <3> QED BY <3>1, <3>2
  <2> QED BY <1>4, <2>1, <2>2, <2>3 DEF SessionType
<1>8. WaitingIsWaiting'
  <2>1. \A i \in 1 .. Len(waiting) :
            /\ waiting[i] \in Turns /\ waiting[i] # h /\ stage[waiting[i]] = "waiting"
            /\ \A j \in 1 .. Len(waiting) : waiting[j] = waiting[i] => j = i
    <3> SUFFICES ASSUME NEW i \in DOMAIN waiting
                 PROVE  /\ waiting[i] \in Turns /\ waiting[i] # h /\ stage[waiting[i]] = "waiting"
                        /\ \A j \in DOMAIN waiting : waiting[j] = waiting[i] => j = i
      BY <1>2
    <3>1. waiting[i] \in Turns
      BY DEF SessionType
    <3>2. stage[waiting[i]] = "waiting" /\ \A j \in DOMAIN waiting : waiting[j] = waiting[i] => j = i
      BY DEF WaitingIsWaiting
    <3> QED BY <1>3, <3>1, <3>2
  <2> QED BY <1>1, <1>2, <1>4, <2>1 DEF WaitingIsWaiting, SessionType
<1>9. RunIsOfOne' /\ InputIsHistory' /\ HistoryOfEpoch' /\ AnswersFollow' /\ MemoryOfEpoch' /\ ResetForgets'
  BY DEF RunIsOfOne, InputIsHistory, HistoryOfEpoch, AnswersFollow, MemoryOfEpoch, ResetForgets, AskedIn
<1> QED BY <1>5, <1>6, <1>7, <1>8, <1>9

LEMMA ReadResetKeeps ==
    ASSUME SessionInv, ReadReset PROVE SessionInv'
<1> USE TurnsAssumption DEF SessionInv, ReadReset, Clear
<1>1. /\ Tail(down) \in Seq(Turns \union {Reset})
      /\ \A i \in DOMAIN Tail(down) : Tail(down)[i] = down[i + 1] /\ i + 1 \in DOMAIN down /\ i + 1 # 1
      /\ DOMAIN Tail(down) = 1 .. Len(down) - 1
  BY TailFacts DEF SessionType
<1>2. SessionType' /\ OneRunner'
  BY <1>1 DEF SessionType, OneRunner, Running
<1>3. DownIsSent'
  <2> SUFFICES ASSUME NEW i \in DOMAIN Tail(down), Tail(down)[i] # Reset
               PROVE  /\ stage[Tail(down)[i]] = "sent"
                      /\ \A j \in DOMAIN Tail(down) : Tail(down)[j] = Tail(down)[i] => j = i
    BY DEF DownIsSent
  <2>1. /\ stage[Tail(down)[i]] = "sent"
        /\ \A j \in DOMAIN down : down[j] = down[i + 1] => j = i + 1
    BY <1>1 DEF DownIsSent
  <2>2. ASSUME NEW j \in DOMAIN Tail(down), Tail(down)[j] = Tail(down)[i]
        PROVE  j = i
    <3>1. j + 1 = i + 1
      BY <1>1, <2>1, <2>2
    <3>2. i \in Nat /\ j \in Nat
      BY <1>1
    <3> QED BY <3>1, <3>2
  <2> QED BY <2>1, <2>2
<1>4. WaitingIsWaiting' /\ RunIsOfOne'
  BY DEF WaitingIsWaiting, RunIsOfOne
<1>5. InputIsHistory'
  <2>1. \A t \in Turns : input[t] # << >> <=> holder = t
    BY DEF InputIsHistory
  <2> SUFFICES ASSUME NEW t \in Turns, holder = t
               PROVE  /\ Last(input[t]) = User(t, AskedIn(t))
                      /\ AskedIn(t) <= epoch'
                      /\ AskedIn(t) # epoch' /\ messages' = << >> /\ t \in cut'
    BY <2>1 DEF InputIsHistory, AskedIn
  <2>2. Last(input[t]) = User(t, AskedIn(t)) /\ AskedIn(t) <= epoch /\ AskedIn(t) \in Nat
    BY AskedInEpoch, <2>1 DEF InputIsHistory
  <2>3. t \in cut'
    BY DEF OneRunner, Running
  <2> QED BY <2>2, <2>3 DEF SessionType
<1>6. HistoryOfEpoch' /\ AnswersFollow' /\ MemoryOfEpoch'
  BY DEF HistoryOfEpoch, AnswersFollow, MemoryOfEpoch
<1>7. ResetForgets'
  <2> SUFFICES ASSUME NEW t \in Turns, input[t] # << >>
               PROVE  /\ \A i \in DOMAIN input[t] :
                             \/ input[t][i].epoch = AskedIn(t)
                             \/ /\ i = 1 /\ input[t][i].role = "assistant"
                                /\ AskedIn(t) = epoch' => input[t][i].turn \in cut'
                      /\ input[t][1].role = "user" => \A m \in memory : m.epoch = AskedIn(t)
    BY DEF ResetForgets, AskedIn
  <2>1. AskedIn(t) <= epoch
    BY DEF InputIsHistory
  <2>2. AskedIn(t) # epoch'
    <3>1. AskedIn(t) \in Nat
      BY AskedInEpoch
    <3> QED BY <2>1, <3>1 DEF SessionType
  <2> QED BY <2>2 DEF ResetForgets
<1> QED BY <1>2, <1>3, <1>4, <1>5, <1>6, <1>7

LEMMA StartTurnKeeps ==
    ASSUME SessionInv, NEW t \in Turns, StartTurn(t) PROVE SessionInv'
<1> DEFINE asked == Append(messages, User(t, epoch))
<1> USE TurnsAssumption DEF SessionInv
<1>1. /\ holder = Nobody /\ waiting # << >> /\ t = Head(waiting) /\ waiting' = Tail(waiting)
      /\ holder' = t /\ stage' = [stage EXCEPT ![t] = "running"]
      /\ messages' = asked /\ run' = [asked |-> t, of |-> {}]
      /\ input' = [input EXCEPT ![t] = asked]
      /\ memory' = Session(asked) \union {User(t, epoch)}
      /\ UNCHANGED <<phase, down, epoch, cut>>
  BY DEF StartTurn, TakeLock
<1>2. /\ Tail(waiting) \in Seq(Turns) /\ t = waiting[1] /\ 1 \in DOMAIN waiting
      /\ \A i \in DOMAIN Tail(waiting) : Tail(waiting)[i] = waiting[i + 1] /\ i + 1 \in DOMAIN waiting /\ i + 1 # 1
      /\ DOMAIN Tail(waiting) = 1 .. Len(waiting) - 1
  BY <1>1, TailFacts DEF SessionType
<1>3. /\ User(t, epoch) \in Messages /\ User(t, epoch).role = "user"
      /\ User(t, epoch).epoch = epoch /\ User(t, epoch).turn = t
  BY QuestionsAndAnswers DEF SessionType
<1>4. /\ asked \in Seq(Messages)
      /\ DOMAIN messages = 1 .. Len(messages) /\ Len(messages) \in Nat
      /\ DOMAIN asked = 1 .. Len(messages) + 1 /\ Len(asked) = Len(messages) + 1
      /\ \A i \in 1 .. Len(messages) : asked[i] = messages[i]
      /\ asked[Len(messages) + 1] = User(t, epoch)
      /\ asked # << >> /\ Last(asked) = User(t, epoch)
  BY <1>3, AppendFacts DEF SessionType
<1> HIDE DEF asked
<1>5. /\ input'[t] = asked /\ AskedIn(t)' = epoch
      /\ \A u \in Turns \ {t} : input'[u] = << >>
  <2>1. input'[t] = asked /\ \A u \in Turns \ {t} : input'[u] = input[u]
    BY <1>1 DEF SessionType
  <2>2. \A u \in Turns : input[u] = << >>
    BY <1>1 DEF InputIsHistory
  <2> QED BY <1>3, <1>4, <2>1, <2>2 DEF AskedIn
<1>6. SessionType'
  <2>1. memory' \subseteq Messages
    BY <1>1, <1>3 DEF SessionType, Session
  <2> QED BY <1>1, <1>2, <1>4, <2>1 DEF SessionType
<1>7. OneRunner'
  BY <1>1 DEF OneRunner, SessionType
<1>8. stage[t] = "waiting" /\ \A j \in DOMAIN waiting : waiting[j] = t => j = 1
  BY <1>2 DEF WaitingIsWaiting
<1>9. DownIsSent'
  <2> SUFFICES ASSUME NEW i \in DOMAIN down, down[i] # Reset
               PROVE  /\ stage'[down[i]] = "sent"
                      /\ \A j \in DOMAIN down : down[j] = down[i] => j = i
    BY <1>1 DEF DownIsSent
  <2>1. down[i] \in Turns
    BY DEF SessionType
  <2> QED BY <1>1, <1>8, <2>1 DEF DownIsSent, SessionType
<1>10. WaitingIsWaiting'
  <2> SUFFICES ASSUME NEW i \in DOMAIN Tail(waiting)
               PROVE  /\ stage'[Tail(waiting)[i]] = "waiting"
                      /\ \A j \in DOMAIN Tail(waiting) : Tail(waiting)[j] = Tail(waiting)[i] => j = i
    BY <1>1 DEF WaitingIsWaiting
  <2>1. /\ stage[Tail(waiting)[i]] = "waiting" /\ Tail(waiting)[i] \in Turns /\ Tail(waiting)[i] # t
        /\ \A j \in DOMAIN waiting : waiting[j] = waiting[i + 1] => j = i + 1
    BY <1>2, <1>8 DEF WaitingIsWaiting, SessionType
  <2>2. ASSUME NEW j \in DOMAIN Tail(waiting), Tail(waiting)[j] = Tail(waiting)[i]
        PROVE  j = i
    <3>1. j + 1 = i + 1
      BY <1>2, <2>1, <2>2
    <3>2. i \in Nat /\ j \in Nat
      BY <1>2
    <3> QED BY <3>1, <3>2
  <2> QED BY <1>1, <2>1, <2>2 DEF SessionType
<1>11. RunIsOfOne'
  BY <1>1 DEF RunIsOfOne, RunOf
<1>12. InputIsHistory'
  <2>1. \A u \in Turns : input'[u] # << >> <=> holder' = u
    BY <1>1, <1>4, <1>5
  <2>2. Last(input[t])' = User(t, AskedIn(t)')
    BY <1>4, <1>5
  <2>3. AskedIn(t)' <= epoch'
    BY <1>1, <1>5 DEF SessionType
  <2>4. AskedIn(t)' = epoch' /\ messages' = input'[t]
    BY <1>1, <1>5
  <2> QED BY <1>1, <2>1, <2>2, <2>3, <2>4 DEF InputIsHistory, User
<1>13. HistoryOfEpoch'
  BY <1>1, <1>3, <1>4 DEF HistoryOfEpoch
<1>14. AnswersFollow'
  <2> SUFFICES ASSUME NEW i \in DOMAIN asked, asked[i].role = "assistant"
               PROVE  IF i = 1 THEN asked[i].epoch < epoch
                      ELSE asked[i - 1] = User(asked[i].turn, asked[i].epoch)
    BY <1>1 DEF AnswersFollow, User
  <2>1. i \in 1 .. Len(messages) /\ messages[i].role = "assistant"
    BY <1>3, <1>4
  <2>2. i # 1 => i - 1 \in 1 .. Len(messages)
    BY <1>4, <2>1
  <2> QED BY <1>4, <2>1, <2>2 DEF AnswersFollow
<1>15. asked[1].role = "user" => \A m \in Session(asked) : m.epoch = epoch
  <2> SUFFICES ASSUME asked[1].role = "user", NEW m \in Session(asked)
               PROVE  m.epoch = epoch
    OBVIOUS
  <2>1. m \in memory /\ Len(messages) # 0
    BY <1>4 DEF Session
  <2>2. messages # << >> /\ messages[1].role = "user"
    BY <1>4, <2>1
  <2> QED BY <2>1, <2>2 DEF MemoryOfEpoch
<1>16. MemoryOfEpoch'
  BY <1>1, <1>3, <1>15 DEF MemoryOfEpoch
<1>17. ResetForgets'
  <2>1. \A i \in DOMAIN asked :
            \/ asked[i].epoch = epoch
            \/ i = 1 /\ asked[i].role = "assistant" /\ asked[i].turn \in cut
    BY <1>1, <1>13 DEF HistoryOfEpoch
  <2>2. asked[1].role = "user" => \A m \in memory' : m.epoch = epoch
    BY <1>1, <1>3, <1>15
  <2> QED BY <1>1, <1>5, <2>1, <2>2 DEF ResetForgets
<1> QED BY <1>6, <1>7, <1>9, <1>10, <1>11, <1>12, <1>13, <1>14, <1>16, <1>17

\* An event of the stream is of the turn that holds the lock.
LEMMA ApplyShowsOne ==
    ASSUME SessionInv, NEW t \in Turns, stage[t] = "running", Apply(t)
    PROVE  run' \in RunOf(t)
<1>1. holder = t /\ holder # Nobody
  BY TurnsAssumption DEF SessionInv, OneRunner
<1>2. CASE run = Nobody
  BY <1>2 DEF Apply, RunOf
<1>3. CASE run # Nobody
  <2>1. run \in RunOf(t)
    BY <1>1, <1>3 DEF SessionInv, RunIsOfOne
  <2>2. run' = [run EXCEPT !.of = @ \union {t}]
    BY <1>3 DEF Apply
  <2> QED BY <2>1, <2>2 DEF RunOf
<1> QED BY <1>2, <1>3

LEMMA StreamEventKeeps ==
    ASSUME SessionInv, NEW t \in Turns, StreamEvent(t) PROVE SessionInv'
<1>1. holder = t /\ run' \in RunOf(t)
  BY ApplyShowsOne DEF SessionInv, OneRunner, StreamEvent
<1> USE DEF SessionInv, StreamEvent
<1>2. SessionType' /\ OneRunner' /\ DownIsSent' /\ WaitingIsWaiting'
  BY DEF SessionType, OneRunner, DownIsSent, WaitingIsWaiting
<1>3. RunIsOfOne'
  BY <1>1 DEF RunIsOfOne, RunOf
<1>4. InputIsHistory' /\ HistoryOfEpoch' /\ AnswersFollow' /\ MemoryOfEpoch' /\ ResetForgets'
  BY DEF InputIsHistory, HistoryOfEpoch, AnswersFollow, MemoryOfEpoch, ResetForgets, AskedIn
<1> QED BY <1>2, <1>3, <1>4

\* A turn ends: with its answer, with an error, or with neither.
LEMMA EndKeeps ==
    ASSUME SessionInv, NEW t \in Turns, stage[t] = "running", Release(t),
           run' = run \/ run' \in RunOf(t),
           messages' = messages \/ messages' = Append(messages, Answer(t, AskedIn(t))),
           UNCHANGED <<phase, down, waiting, epoch, cut, memory>>
    PROVE  SessionInv'
<1> DEFINE a == Answer(t, AskedIn(t))
<1> USE TurnsAssumption DEF SessionInv
<1>1. holder = t /\ holder # Nobody /\ input[t] # << >>
  BY DEF OneRunner, InputIsHistory
<1>2. /\ holder' = Nobody
      /\ stage' = [stage EXCEPT ![t] = "over"] /\ input' = [input EXCEPT ![t] = << >>]
  BY <1>1 DEF Release
<1>3. \A u \in Turns : input'[u] = << >>
  BY <1>1, <1>2 DEF SessionType, InputIsHistory
<1>4. /\ AskedIn(t) \in Nat /\ a \in Messages /\ a.role = "assistant"
      /\ a.epoch = AskedIn(t) /\ a.turn = t
  BY <1>1, AskedInEpoch, QuestionsAndAnswers
<1>5. /\ Append(messages, a) \in Seq(Messages)
      /\ DOMAIN messages = 1 .. Len(messages) /\ Len(messages) \in Nat
      /\ DOMAIN Append(messages, a) = 1 .. Len(messages) + 1
      /\ \A i \in 1 .. Len(messages) : Append(messages, a)[i] = messages[i]
      /\ Append(messages, a)[Len(messages) + 1] = a
  BY <1>4, AppendFacts DEF SessionType
<1>6. messages' = messages \/ messages' = Append(messages, a)
  OBVIOUS
<1> HIDE DEF a
<1>7. \/ AskedIn(t) = epoch /\ messages # << >> /\ messages[Len(messages)] = User(t, AskedIn(t))
      \/ AskedIn(t) < epoch /\ messages = << >> /\ t \in cut
  BY <1>1, <1>4 DEF InputIsHistory, Last, SessionType
<1>8. SessionType' /\ OneRunner'
  <2>1. messages' \in Seq(Messages)
    BY <1>5, <1>6 DEF SessionType
  <2>2. SessionType'
    BY <1>2, <2>1 DEF SessionType
  <2>3. \A u \in Turns : stage'[u] # "running"
    BY <1>1, <1>2 DEF SessionType, OneRunner
  <2> QED BY <1>2, <2>2, <2>3 DEF OneRunner
<1>9. DownIsSent'
  <2> SUFFICES ASSUME NEW i \in DOMAIN down, down[i] # Reset
               PROVE  /\ stage'[down[i]] = "sent"
                      /\ \A j \in DOMAIN down : down[j] = down[i] => j = i
    BY DEF DownIsSent
  <2>1. down[i] \in Turns
    BY DEF SessionType
  <2> QED BY <1>2, <2>1 DEF DownIsSent, SessionType
<1>10. WaitingIsWaiting'
  <2> SUFFICES ASSUME NEW i \in DOMAIN waiting
               PROVE  /\ stage'[waiting[i]] = "waiting"
                      /\ \A j \in DOMAIN waiting : waiting[j] = waiting[i] => j = i
    BY DEF WaitingIsWaiting
  <2>1. waiting[i] \in Turns
    BY DEF SessionType
  <2> QED BY <1>2, <2>1 DEF WaitingIsWaiting, SessionType
<1>11. RunIsOfOne'
  BY <1>1, <1>2 DEF RunIsOfOne
<1>12. InputIsHistory' /\ ResetForgets'
  BY <1>2, <1>3 DEF InputIsHistory, ResetForgets
<1>13. CASE messages' = messages
  BY <1>8, <1>9, <1>10, <1>11, <1>12, <1>13 DEF HistoryOfEpoch, AnswersFollow, MemoryOfEpoch
<1>14. CASE messages' = Append(messages, a)
  <2>1. HistoryOfEpoch'
    <3> SUFFICES ASSUME NEW i \in DOMAIN Append(messages, a)
                 PROVE  \/ Append(messages, a)[i].epoch = epoch
                        \/ /\ i = 1 /\ Append(messages, a)[i].role = "assistant"
                           /\ Append(messages, a)[i].turn \in cut
      BY <1>14 DEF HistoryOfEpoch
    <3>1. CASE i \in 1 .. Len(messages)
      BY <1>5, <3>1 DEF HistoryOfEpoch
    <3>2. CASE i = Len(messages) + 1
      BY <1>4, <1>5, <1>7, <3>2
    <3> QED BY <1>5, <3>1, <3>2
  <2>2. AnswersFollow'
    <3> SUFFICES ASSUME NEW i \in DOMAIN Append(messages, a), Append(messages, a)[i].role = "assistant"
                 PROVE  IF i = 1 THEN Append(messages, a)[i].epoch < epoch
                        ELSE Append(messages, a)[i - 1]
                                 = User(Append(messages, a)[i].turn, Append(messages, a)[i].epoch)
      BY <1>14 DEF AnswersFollow, User
    <3>1. CASE i \in 1 .. Len(messages)
      <4>1. i # 1 => i - 1 \in 1 .. Len(messages)
        BY <1>5, <3>1
      <4> QED BY <1>5, <3>1, <4>1 DEF AnswersFollow
    <3>2. CASE i = Len(messages) + 1
      <4>1. CASE messages = << >>
        BY <1>4, <1>5, <1>7, <3>2, <4>1
      <4>2. CASE messages # << >>
        <5>1. Len(messages) \in 1 .. Len(messages) /\ i # 1 /\ i - 1 = Len(messages)
          BY <1>5, <3>2, <4>2 DEF SessionType
        <5> QED BY <1>4, <1>5, <1>7, <3>2, <4>2, <5>1
      <4> QED BY <4>1, <4>2
    <3> QED BY <1>5, <3>1, <3>2
  <2>3. MemoryOfEpoch'
    <3>1. CASE messages = << >>
      BY <1>4, <1>5, <1>14, <3>1 DEF MemoryOfEpoch
    <3>2. CASE messages # << >>
      <4>1. 1 \in 1 .. Len(messages)
        BY <3>2 DEF SessionType
      <4> QED BY <1>5, <1>14, <3>2, <4>1 DEF MemoryOfEpoch
    <3> QED BY <3>1, <3>2
  <2> QED BY <1>8, <1>9, <1>10, <1>11, <1>12, <2>1, <2>2, <2>3
<1> QED BY <1>6, <1>13, <1>14

LEMMA TurnStepKeeps ==
    ASSUME SessionInv, NEW t \in Turns,
           StreamEvent(t) \/ RunEnd(t) \/ RunError(t) \/ Abort(t) \/ EventUnsent(t)
    PROVE  SessionInv'
<1>1. CASE StreamEvent(t)
  BY <1>1, StreamEventKeeps
<1>2. CASE RunEnd(t)
  BY <1>2, ApplyShowsOne, EndKeeps DEF RunEnd
<1>3. CASE RunError(t)
  BY <1>3, ApplyShowsOne, EndKeeps DEF RunError
<1>4. CASE Abort(t)
  BY <1>4, EndKeeps DEF Abort
<1>5. CASE EventUnsent(t)
  BY <1>5, ApplyShowsOne, EndKeeps DEF EventUnsent
<1> QED BY <1>1, <1>2, <1>3, <1>4, <1>5

LEMMA TypeChatKeeps ==
    ASSUME SessionInv, NEW b \in Tabs, TypeChat(b) PROVE SessionInv'
<1> DEFINE typed == {y \in Turns : stage[y] = "typed"}
           x == CHOOSE y \in Turns : stage[y] = "typed" /\ \A z \in Turns : z < y => stage[z] # "typed"
<1> USE TurnsAssumption DEF SessionInv
<1>1. x \in Turns /\ stage[x] = "typed"
  <2>1. typed \subseteq Nat /\ typed # {}
    BY DEF TypeChat
  <2>2. \E y \in typed : \A z \in typed : ~(z < y)
    BY <2>1, LeastNumber
  <2> QED BY <2>2
<1>2. \/ down' = down /\ stage' = [stage EXCEPT ![x] = "over"]
      \/ down' = Append(down, x) /\ stage' = [stage EXCEPT ![x] = "sent"]
  BY DEF TypeChat
<1>3. UNCHANGED <<phase, messages, run, waiting, holder, input, events, epoch, cut, memory>>
  BY DEF TypeChat
<1> HIDE DEF x
<1>4. /\ Append(down, x) \in Seq(Turns \union {Reset})
      /\ DOMAIN down = 1 .. Len(down) /\ Len(down) \in Nat
      /\ DOMAIN Append(down, x) = 1 .. Len(down) + 1
      /\ \A i \in 1 .. Len(down) : Append(down, x)[i] = down[i]
      /\ Append(down, x)[Len(down) + 1] = x
  BY <1>1, AppendFacts DEF SessionType
<1>5. SessionType' /\ OneRunner'
  BY <1>1, <1>2, <1>3, <1>4 DEF SessionType, OneRunner
<1>6. \A i \in DOMAIN down : down[i] # Reset => down[i] \in Turns /\ down[i] # x /\ stage[down[i]] = "sent"
  BY <1>1 DEF SessionType, DownIsSent
<1>7. DownIsSent'
  <2>1. CASE down' = down /\ stage' = [stage EXCEPT ![x] = "over"]
    BY <1>6, <2>1 DEF DownIsSent, SessionType
  <2>2. CASE down' = Append(down, x) /\ stage' = [stage EXCEPT ![x] = "sent"]
    <3> SUFFICES ASSUME NEW i \in 1 .. Len(down) + 1, down'[i] # Reset
                 PROVE  /\ stage'[down'[i]] = "sent"
                        /\ \A j \in 1 .. Len(down) + 1 : down'[j] = down'[i] => j = i
      BY <1>4, <2>2 DEF DownIsSent
    <3>1. x # Reset
      BY <1>1 DEF Reset
    <3>2. CASE i \in 1 .. Len(down)
      <4>1. down'[i] = down[i] /\ down[i] \in Turns /\ down[i] # x /\ stage[down[i]] = "sent"
        BY <1>4, <1>6, <2>2, <3>2
      <4>2. \A j \in 1 .. Len(down) : down[j] = down[i] => j = i
        BY <1>4, <3>2, <4>1 DEF DownIsSent
      <4> QED BY <1>4, <2>2, <4>1, <4>2 DEF SessionType
    <3>3. CASE i = Len(down) + 1
      <4>1. \A j \in 1 .. Len(down) : down[j] # x
        BY <1>4, <1>6, <3>1
      <4> QED BY <1>1, <1>4, <2>2, <3>3, <4>1 DEF SessionType
    <3> QED BY <1>4, <3>2, <3>3
  <2> QED BY <1>2, <2>1, <2>2
<1>8. WaitingIsWaiting'
  <2> SUFFICES ASSUME NEW i \in DOMAIN waiting
               PROVE  /\ stage'[waiting[i]] = "waiting"
                      /\ \A j \in DOMAIN waiting : waiting[j] = waiting[i] => j = i
    BY <1>3 DEF WaitingIsWaiting
  <2>1. waiting[i] \in Turns /\ stage[waiting[i]] = "waiting"
    BY DEF SessionType, WaitingIsWaiting
  <2> QED BY <1>1, <1>2, <2>1 DEF WaitingIsWaiting, SessionType
<1>9. RunIsOfOne' /\ InputIsHistory' /\ HistoryOfEpoch' /\ AnswersFollow' /\ MemoryOfEpoch' /\ ResetForgets'
  BY <1>3 DEF RunIsOfOne, InputIsHistory, HistoryOfEpoch, AnswersFollow, MemoryOfEpoch, ResetForgets, AskedIn
<1> QED BY <1>5, <1>7, <1>8, <1>9

LEMMA TypeResetKeeps ==
    ASSUME SessionInv, NEW b \in Tabs, TypeReset(b) PROVE SessionInv'
<1> USE TurnsAssumption DEF SessionInv
<1>1. down' = down \/ down' = Append(down, Reset)
  BY DEF TypeReset
<1>2. UNCHANGED <<phase, messages, run, stage, waiting, holder, input, events, epoch, cut, memory>>
  BY DEF TypeReset
<1>3. /\ Append(down, Reset) \in Seq(Turns \union {Reset})
      /\ DOMAIN down = 1 .. Len(down) /\ Len(down) \in Nat
      /\ DOMAIN Append(down, Reset) = 1 .. Len(down) + 1
      /\ \A i \in 1 .. Len(down) : Append(down, Reset)[i] = down[i]
      /\ Append(down, Reset)[Len(down) + 1] = Reset
  BY AppendFacts DEF SessionType
<1>4. SessionType' /\ OneRunner'
  BY <1>1, <1>2, <1>3 DEF SessionType, OneRunner
<1>5. DownIsSent'
  BY <1>1, <1>2, <1>3 DEF DownIsSent
<1>6. WaitingIsWaiting' /\ RunIsOfOne' /\ InputIsHistory' /\ HistoryOfEpoch' /\ AnswersFollow' /\ MemoryOfEpoch' /\ ResetForgets'
  BY <1>2 DEF WaitingIsWaiting, RunIsOfOne, InputIsHistory, HistoryOfEpoch, AnswersFollow, MemoryOfEpoch,
              ResetForgets, AskedIn
<1> QED BY <1>4, <1>5, <1>6

LEMMA SessionStutters ==
    ASSUME SessionInv, UNCHANGED sessionVars PROVE SessionInv'
  BY DEF sessionVars, SessionInv, SessionType, OneRunner, DownIsSent, WaitingIsWaiting, RunIsOfOne,
         InputIsHistory, HistoryOfEpoch, AnswersFollow, MemoryOfEpoch, ResetForgets, AskedIn

LEMMA SessionKept ==
    SessionInv /\ [Next]_vars => SessionInv'
<1> SUFFICES ASSUME SessionInv, [Next]_vars PROVE SessionInv'
  OBVIOUS
<1>1. CASE UNCHANGED vars
  BY <1>1, SessionStutters DEF vars
<1>2. CASE \E c \in Conns : Connect(c) \/ RivalConnects(c) \/ Cut(c)
  BY <1>2, ConnectedKeeps, SessionStutters DEF Connect, RivalConnects, Cut
<1>3. CASE Notice
  BY <1>3, LostKeeps DEF Notice
<1>4. CASE Hub
  BY <1>4, SessionStutters DEF Hub
<1>5. CASE \E t \in Tabs : TypeChat(t) \/ TypeReset(t)
  BY <1>5, TypeChatKeeps, TypeResetKeeps
<1>6. CASE SessionSteps
  BY <1>6, ReadChatKeeps, ReadResetKeeps, StartTurnKeeps, TurnStepKeeps, ReapKeeps DEF SessionSteps
<1> QED BY <1>1, <1>2, <1>3, <1>4, <1>5, <1>6 DEF Next

-----------------------------------------------------------------------------
(* Lemmas about broadcasts.                                                *)

LEMMA SendingFacts ==
    ASSUME NEW s \in Statuses \union {None}, NEW n \in Nat, NEW to \in SUBSET Tabs
    PROVE  /\ Sending(s, n, to) \in Broadcast /\ Silent \in Broadcast
           /\ Sending(s, n, to).to = to
           /\ to = {} => Sending(s, n, to) = Silent
           /\ to # {} => Sending(s, n, to).status = s /\ Sending(s, n, to).frame = n
  BY DEF Sending, Silent, Broadcast

LEMMA StatusFacts ==
    ASSUME NEW online \in BOOLEAN, NEW name \in Names \union {None}
    PROVE  Status(online, name) \in Statuses /\ Status(online, name) # None
  BY NoneAssumption DEF Status, Statuses

LEMMA TellingFacts ==
    ASSUME HubType, NEW s \in Statuses
    PROVE  /\ s # None
           /\ Telling(s) \in Broadcast /\ Telling(s).to = chats
           /\ chats = {} => Telling(s) = Silent
           /\ chats # {} => Telling(s).status = s
<1>1. s # None
  BY NoneAssumption DEF Statuses
<1> QED BY <1>1, SendingFacts DEF Telling, HubType

LEMMA RelayingFacts ==
    ASSUME HubType, NEW n \in Nat
    PROVE  /\ Relaying(n) \in Broadcast /\ Relaying(n).to = chats
           /\ chats = {} => Relaying(n) = Silent
           /\ chats # {} => Relaying(n).frame = n
           /\ Relaying(n).status = None
<1>1. Silent.status = None
  BY DEF Silent
<1>2. chats \in SUBSET Tabs /\ None \in Statuses \union {None}
  BY DEF HubType
<1>3. /\ Sending(None, n, chats) \in Broadcast /\ Sending(None, n, chats).to = chats
      /\ chats = {} => Sending(None, n, chats) = Silent
      /\ chats # {} => Sending(None, n, chats).status = None /\ Sending(None, n, chats).frame = n
  BY <1>2, SendingFacts
<1> QED BY <1>1, <1>3 DEF Relaying

LEMMA AtMostOne ==
    ASSUME NEW S, IsFiniteSet(S), ~(Cardinality(S) > 1), NEW x \in S, NEW y \in S
    PROVE  x = y
<1> SUFFICES ASSUME x # y PROVE FALSE
  OBVIOUS
<1>1. IsFiniteSet({x}) /\ Cardinality({x}) = 1
  BY FS_Singleton
<1>2. Cardinality({x} \union {y}) = 2
  BY <1>1, FS_AddElement
<1>3. {x} \union {y} \in SUBSET S
  OBVIOUS
<1>4. Cardinality({x} \union {y}) <= Cardinality(S) /\ Cardinality(S) \in Nat
  BY <1>3, FS_Subset, FS_CardinalityType
<1> QED BY <1>2, <1>4

\* An open tab that is not raced after a step that notes races has one status on
\* its way at most, and was not raced before, unless that status starts out alone.
LEMMA RacesNoted ==
    ASSUME HubType', Broadcasts', NoteRaces,
           NEW t \in Tabs, tab'[t] = "open", t \notin raced'
    PROVE  /\ \A x, y \in StatusTo(t)' : x = y
           /\ t \in raced => StatusTo(t) = {} /\ StatusTo(t)' # {}
<1>1. ~(Cardinality(StatusTo(t)') > 1) /\ (t \in raced => StatusTo(t) = {} /\ StatusTo(t)' # {})
  BY DEF NoteRaces
<1>2. IsFiniteSet(StatusTo(t)')
  <2> DEFINE accepted == {c \in Conns : handler'[c] # "new"}
  <2>1. IsFiniteSet(accepted \union {None})
    BY FS_AddElement DEF HubType
  <2>2. StatusTo(t)' \in SUBSET (accepted \union {None})
    BY DEF StatusTo, Broadcasts, Silent
  <2> QED BY <2>1, <2>2, FS_Subset
<1> QED BY <1>1, <1>2, AtMostOne

\* The senders of statuses to a tab, one by one.
LEMMA StatusToFacts ==
    ASSUME NEW t \in Tabs
    PROVE  /\ \A c \in Conns : c \in StatusTo(t) <=>
                  handler[c] = "evicting" \/ (out[c].status # None /\ t \in out[c].to)
           /\ None \in StatusTo(t) <=> greeting[t] # None
           /\ \A x \in StatusTo(t) : x \in Conns \union {None}
  BY HubAssumption DEF StatusTo

LEMMA StatusToFactsNext ==
    ASSUME NEW t \in Tabs
    PROVE  /\ \A c \in Conns : c \in StatusTo(t)' <=>
                  handler'[c] = "evicting" \/ (out'[c].status # None /\ t \in out'[c].to)
           /\ None \in StatusTo(t)' <=> greeting'[t] # None
           /\ \A x \in StatusTo(t)' : x \in Conns \union {None}
  BY HubAssumption DEF StatusTo

-----------------------------------------------------------------------------
(* The relay: each of its steps keeps its invariant.                       *)

LEMMA HubHolds ==
    Init => HubInv
<1> SUFFICES ASSUME Init PROVE HubInv
  OBVIOUS
<1> USE HubAssumption DEF Init, HubInit
<1>1. HubType
  <2>1. {c \in Conns : handler[c] # "new"} = {}
    OBVIOUS
  <2>2. IsFiniteSet({c \in Conns : handler[c] # "new"})
    BY <2>1, FS_EmptySet
  <2>3. Silent \in Broadcast
    BY DEF Silent, Broadcast
  <2> QED BY <2>2, <2>3 DEF HubType
<1>2. ServeIsLast
  BY DEF ServeIsLast
<1>3. Broadcasts
  BY DEF Broadcasts, Silent
<1>4. FramesSent /\ StatusIsTrue
  BY DEF FramesSent, StatusIsTrue
<1> QED BY <1>1, <1>2, <1>3, <1>4 DEF HubInv

\* A status that starts out to an open tab, and is true, is all there is to it.
LEMMA StatusStarts ==
    ASSUME HubType', Broadcasts', NoteRaces, NEW c \in Conns,
           \A t \in Tabs : tab'[t] = "open" => c \in StatusTo(t)',
           \A t \in Tabs : tab'[t] = "open" /\ t \notin raced' => Carries(c, t)'
    PROVE  StatusIsTrue'
<1> SUFFICES ASSUME NEW t \in Tabs, tab'[t] = "open", t \notin raced'
             PROVE  /\ \A x, y \in StatusTo(t)' : x = y
                    /\ \A x \in StatusTo(t)' : Carries(x, t)'
                    /\ StatusTo(t)' = {} => shown'[t] = Truth'
  BY DEF StatusIsTrue
<1>1. \A x, y \in StatusTo(t)' : x = y
  BY RacesNoted
<1>2. \A x \in StatusTo(t)' : x = c
  BY <1>1
<1> QED BY <1>1, <1>2

LEMMA AttachServeKeeps ==
    ASSUME HubInv, NEW c \in Conns, NEW name \in Names, AttachServe(c, name)
    PROVE  HubInv'
<1> USE HubAssumption DEF HubInv
<1> DEFINE hello == Telling(Status(TRUE, None))
<1>1. /\ handler[c] = "new" /\ \A d \in Conns : d < c => handler[d] # "new"
      /\ serve' = c /\ agent' = None
      /\ handler' = [handler EXCEPT ![c] = IF serve = None THEN "open" ELSE "evicting"]
      /\ out' = IF serve = None THEN [out EXCEPT ![c] = hello] ELSE out
      /\ up' = [up EXCEPT ![c] = <<name>>]
      /\ UNCHANGED <<chats, read, tab, greeting, shown, seen>>
      /\ NoteRaces
  BY DEF AttachServe
<1>2. /\ Status(TRUE, None) \in Statuses /\ Status(TRUE, None) # None
      /\ hello \in Broadcast /\ hello.to = chats
      /\ chats = {} => hello = Silent
      /\ chats # {} => hello.status = Status(TRUE, None)
  BY StatusFacts, TellingFacts
<1>3. out[c] = Silent /\ Silent.to = {} /\ Silent.status = None
  BY <1>1 DEF Broadcasts, Silent
<1> HIDE DEF hello
<1>4. raced' \subseteq Tabs
  BY <1>1 DEF NoteRaces
<1>5. HubType'
  <2> DEFINE accepted == {d \in Conns : handler[d] # "new"}
  <2>1. {d \in Conns : handler'[d] # "new"} = accepted \union {c}
    BY <1>1 DEF HubType
  <2>2. IsFiniteSet({d \in Conns : handler'[d] # "new"})
    <3>1. IsFiniteSet(accepted)
      BY DEF HubType
    <3> HIDE DEF accepted
    <3>2. IsFiniteSet(accepted \union {c})
      BY <3>1, FS_AddElement
    <3> QED BY <2>1, <3>2
  <2>3. <<name>> \in Seq(Names \union {Event})
    OBVIOUS
  <2> QED BY <1>1, <1>2, <1>4, <2>2, <2>3 DEF HubType
<1>6. ServeIsLast'
  BY <1>1 DEF ServeIsLast, HubType
<1>7. Broadcasts'
  <2>1. \A t \in chats : tab[t] # "new"
    BY DEF Broadcasts, HubType
  <2>2. /\ handler'[c] = "new" \/ handler'[c] = "evicting" => out'[c] = Silent
        /\ out'[c].to \subseteq {t \in Tabs : tab[t] # "new"}
        /\ out'[c].to = {} => out'[c] = Silent
    BY <1>1, <1>2, <1>3, <2>1 DEF HubType
  <2>3. \A d \in Conns \ {c} : out'[d] = out[d] /\ handler'[d] = handler[d]
    BY <1>1 DEF HubType
  <2> QED BY <1>1, <2>2, <2>3 DEF Broadcasts
<1>8. FramesSent'
  <2>1. \A d \in Conns \ {c} : out'[d] = out[d]
    BY <1>1 DEF HubType
  <2>2. \A t \in Tabs : ~(t \in out'[c].to /\ out'[c].status = None) /\ ~(t \in out[c].to)
    BY <1>1, <1>2, <1>3 DEF HubType
  <2> QED BY <1>1, <2>1, <2>2 DEF FramesSent
<1>9. StatusIsTrue'
  <2>1. Truth' = Status(TRUE, None)
    BY <1>1 DEF Truth, Status
  <2>2. CASE serve = None
    <3>1. handler'[c] = "open" /\ out'[c] = hello
      BY <1>1, <2>2 DEF HubType
    <3>2. \A t \in Tabs : tab'[t] = "open" => t \in hello.to /\ hello.status = Status(TRUE, None)
      BY <1>1, <1>2 DEF Broadcasts
    <3>3. \A t \in Tabs : tab'[t] = "open" => c \in StatusTo(t)'
      BY <1>2, <3>1, <3>2, StatusToFactsNext
    <3>4. \A t \in Tabs : tab'[t] = "open" => Carries(c, t)'
      BY <2>1, <3>1, <3>2 DEF Carries
    <3> QED BY <1>1, <1>5, <1>7, <3>3, <3>4, StatusStarts
  <2>3. CASE serve # None
    <3>1. handler'[c] = "evicting"
      BY <1>1, <2>3 DEF HubType
    <3>2. \A t \in Tabs : c \in StatusTo(t)'
      BY <3>1, StatusToFactsNext
    <3>3. \A t \in Tabs : Carries(c, t)'
      BY <1>1, <3>1 DEF Carries
    <3> QED BY <1>1, <1>5, <1>7, <3>2, <3>3, StatusStarts
  <2> QED BY <2>2, <2>3
<1> QED BY <1>5, <1>6, <1>7, <1>8, <1>9

LEMMA AcceptedStay ==
    ASSUME HubType, NEW c \in Conns, NEW h \in {"open", "finished"}, handler[c] # "new",
           handler' = [handler EXCEPT ![c] = h]
    PROVE  IsFiniteSet({d \in Conns : handler'[d] # "new"})
<1>1. {d \in Conns : handler'[d] # "new"} = {d \in Conns : handler[d] # "new"}
  BY DEF HubType
<1> QED BY <1>1 DEF HubType

LEMMA EvictedKeeps ==
    ASSUME HubInv, NEW c \in Conns, Evicted(c)
    PROVE  HubInv'
<1> USE HubAssumption DEF HubInv
<1> DEFINE hello == Telling(Status(TRUE, None))
<1>1. /\ handler[c] = "evicting" /\ handler' = [handler EXCEPT ![c] = "open"]
      /\ out' = [out EXCEPT ![c] = hello]
      /\ UNCHANGED <<serve, agent, chats, link, up, read, tab, greeting, shown, seen>>
      /\ NoteRaces
  BY DEF Evicted
<1>2. /\ Status(TRUE, None) \in Statuses /\ Status(TRUE, None) # None
      /\ hello \in Broadcast /\ hello.to = chats
      /\ chats = {} => hello = Silent
      /\ chats # {} => hello.status = Status(TRUE, None)
  BY StatusFacts, TellingFacts
<1>3. out[c] = Silent /\ Silent.to = {}
  BY <1>1 DEF Broadcasts, Silent
<1> HIDE DEF hello
<1>4. handler'[c] = "open" /\ out'[c] = hello /\ \A d \in Conns \ {c} : out'[d] = out[d] /\ handler'[d] = handler[d]
  BY <1>1 DEF HubType
<1>5. HubType'
  <2>1. raced' \subseteq Tabs
    BY <1>1 DEF NoteRaces
  <2>2. IsFiniteSet({d \in Conns : handler'[d] # "new"})
    BY <1>1, AcceptedStay
  <2> QED BY <1>1, <1>2, <2>1, <2>2 DEF HubType
<1>6. ServeIsLast'
  BY <1>1, <1>4 DEF ServeIsLast, HubType
<1>7. Broadcasts'
  <2>1. \A t \in chats : t \in Tabs /\ tab[t] # "new"
    BY DEF Broadcasts, HubType
  <2> QED BY <1>1, <1>2, <1>4, <2>1 DEF Broadcasts
<1>8. FramesSent'
  <2>1. \A t \in Tabs : ~(t \in out'[c].to /\ out'[c].status = None) /\ ~(t \in out[c].to)
    BY <1>2, <1>3, <1>4
  <2> QED BY <1>1, <1>4, <2>1 DEF FramesSent
<1>9. StatusIsTrue'
  <2>1. Truth' = Truth
    BY <1>1 DEF Truth
  <2>2. \A t \in Tabs : tab'[t] = "open" => t \in hello.to /\ hello.status = Status(TRUE, None)
    BY <1>1, <1>2 DEF Broadcasts
  <2>3. \A t \in Tabs : tab'[t] = "open" => c \in StatusTo(t)'
    BY <1>2, <1>4, <2>2, StatusToFactsNext
  <2>4. ASSUME NEW t \in Tabs, tab'[t] = "open", t \notin raced'
        PROVE  Carries(c, t)'
    <3>1. c \in StatusTo(t)
      BY <1>1, StatusToFacts
    <3>2. t \notin raced
      BY <1>1, <1>5, <1>7, <2>4, <3>1, RacesNoted
    <3>3. Carries(c, t)
      BY <1>1, <2>4, <3>1, <3>2 DEF StatusIsTrue
    <3>4. serve # None /\ agent = None
      BY <1>1, <3>3 DEF Carries
    <3>5. Truth = Status(TRUE, None)
      BY <3>4 DEF Truth, Status
    <3> QED BY <1>1, <1>4, <2>1, <2>2, <2>4, <3>5 DEF Carries
  <2> QED BY <1>1, <1>5, <1>7, <2>3, <2>4, StatusStarts
<1> QED BY <1>5, <1>6, <1>7, <1>8, <1>9

\* A step after which every status is where it was, and the truth what it was.
LEMMA StatusesStay ==
    ASSUME HubType', Broadcasts', StatusIsTrue, NoteRaces, Truth' = Truth,
           UNCHANGED <<serve, agent, tab, greeting, shown>>,
           \A t \in Tabs : StatusTo(t)' = StatusTo(t),
           \A d \in Conns : handler'[d] = "evicting" <=> handler[d] = "evicting",
           \A d \in Conns : out[d].status # None => out'[d].status = out[d].status,
           \A t \in Tabs, d \in Conns :
               d \in StatusTo(t) => handler[d] = "evicting" \/ out[d].status # None
    PROVE  StatusIsTrue'
<1> USE HubAssumption
<1> SUFFICES ASSUME NEW t \in Tabs, tab'[t] = "open", t \notin raced'
             PROVE  /\ \A x, y \in StatusTo(t)' : x = y
                    /\ \A x \in StatusTo(t)' : Carries(x, t)'
                    /\ StatusTo(t)' = {} => shown'[t] = Truth'
  BY DEF StatusIsTrue
<1>1. t \notin raced
  BY RacesNoted
<1>2. /\ \A x, y \in StatusTo(t) : x = y
      /\ \A x \in StatusTo(t) : Carries(x, t)
      /\ StatusTo(t) = {} => shown[t] = Truth
  BY <1>1 DEF StatusIsTrue
<1>3. \A x \in StatusTo(t) : Carries(x, t)'
  <2> SUFFICES ASSUME NEW x \in StatusTo(t), Carries(x, t) PROVE Carries(x, t)'
    BY <1>2
  <2>1. CASE x = None
    BY <2>1 DEF Carries
  <2>2. CASE x # None
    <3>1. x \in Conns
      BY <2>2, StatusToFacts
    <3> QED BY <2>2, <3>1 DEF Carries
  <2> QED BY <2>1, <2>2
<1> QED BY <1>2, <1>3

LEMMA ReceiveKeeps ==
    ASSUME HubInv, NEW c \in Conns, Receive(c)
    PROVE  HubInv'
<1> USE HubAssumption DEF HubInv
<1> DEFINE name == Head(up[c])
           hello == Telling(Status(serve # None, name))
           frame == Relaying(read[c] + 1)
<1>1. /\ handler[c] = "open" /\ out[c].to = {} /\ up[c] # << >>
      /\ up' = [up EXCEPT ![c] = Tail(@)]
      /\ UNCHANGED <<serve, chats, handler, tab, greeting, shown, seen>>
      /\ NoteRaces
  BY DEF Receive, Busy
<1>2. /\ name # Event => agent' = name /\ read' = read /\ out' = [out EXCEPT ![c] = hello]
      /\ name = Event => agent' = agent /\ read' = [read EXCEPT ![c] = @ + 1] /\ out' = [out EXCEPT ![c] = frame]
  BY DEF Receive
<1>3. name \in Names \union {Event} /\ Tail(up[c]) \in Seq(Names \union {Event})
  <2>1. up[c] \in Seq(Names \union {Event})
    BY DEF HubType
  <2> QED BY <1>1, <2>1, TailFacts
<1>4. out[c] = Silent /\ Silent.to = {} /\ Silent.status = None
  BY <1>1 DEF Broadcasts, Silent
<1>5. raced' \subseteq Tabs
  BY <1>1 DEF NoteRaces
<1>6. \A t \in chats : t \in Tabs /\ tab[t] # "new"
  BY DEF Broadcasts, HubType
<1>7. up' \in [Conns -> Seq(Names \union {Event})]
  BY <1>1, <1>3 DEF HubType
<1>8. IsFiniteSet({d \in Conns : handler'[d] # "new"})
  BY <1>1 DEF HubType
<1>9. ServeIsLast'
  BY <1>1 DEF ServeIsLast
<1>10. CASE name # Event
  <2>1. /\ Status(serve # None, name) \in Statuses /\ Status(serve # None, name) # None
        /\ hello \in Broadcast /\ hello.to = chats
        /\ chats = {} => hello = Silent
        /\ chats # {} => hello.status = Status(serve # None, name)
    <3>1. name \in Names \union {None}
      BY <1>3, <1>10
    <3>2. Status(serve # None, name) \in Statuses /\ Status(serve # None, name) # None
      BY <3>1, StatusFacts
    <3> QED BY <3>2, TellingFacts
  <2>2. name \in Names
    BY <1>3, <1>10
  <2> HIDE DEF name, hello, frame
  <2>3. out'[c] = hello /\ \A d \in Conns \ {c} : out'[d] = out[d]
    BY <1>2, <1>10 DEF HubType
  <2>4. HubType'
    <3>1. out' \in [Conns -> Broadcast]
      BY <1>2, <1>10, <2>1 DEF HubType
    <3>2. agent' \in Names \union {None}
      BY <1>2, <1>10, <2>2
    <3>3. read' \in [Conns -> Nat]
      BY <1>2, <1>10 DEF HubType
    <3> QED BY <1>1, <1>5, <1>7, <1>8, <3>1, <3>2, <3>3 DEF HubType
  <2>5. Broadcasts'
    BY <1>1, <1>6, <2>1, <2>3 DEF Broadcasts
  <2>6. FramesSent'
    <3>1. \A t \in Tabs : ~(t \in out'[c].to /\ out'[c].status = None) /\ ~(t \in out[c].to)
      BY <1>4, <2>1, <2>3
    <3> QED BY <1>1, <1>2, <1>10, <2>3, <3>1 DEF FramesSent
  <2>7. StatusIsTrue'
    <3>1. Truth' = Status(serve # None, name)
      BY <1>1, <1>2, <1>10 DEF Truth, Status
    <3>2. \A t \in Tabs : tab'[t] = "open" => t \in hello.to /\ hello.status = Status(serve # None, name)
      BY <1>1, <2>1 DEF Broadcasts
    <3>3. \A t \in Tabs : tab'[t] = "open" => c \in StatusTo(t)'
      BY <2>1, <2>3, <3>2, StatusToFactsNext
    <3>4. \A t \in Tabs : tab'[t] = "open" => Carries(c, t)'
      BY <1>1, <2>3, <3>1, <3>2 DEF Carries
    <3> QED BY <1>1, <2>4, <2>5, <3>3, <3>4, StatusStarts
  <2> QED BY <1>9, <2>4, <2>5, <2>6, <2>7
<1>11. CASE name = Event
  <2>1. /\ frame \in Broadcast /\ frame.to = chats
        /\ chats = {} => frame = Silent
        /\ chats # {} => frame.frame = read[c] + 1
        /\ frame.status = None
    <3>1. read[c] + 1 \in Nat
      BY DEF HubType
    <3> QED BY <3>1, RelayingFacts
  <2> HIDE DEF name, hello, frame
  <2>2. out'[c] = frame /\ \A d \in Conns \ {c} : out'[d] = out[d]
    BY <1>2, <1>11 DEF HubType
  <2>3. read'[c] = read[c] + 1 /\ \A d \in Conns \ {c} : read'[d] = read[d]
    BY <1>2, <1>11 DEF HubType
  <2>4. HubType'
    <3>1. /\ out \in [Conns -> Broadcast] /\ agent \in Names \union {None}
          /\ read \in [Conns -> Nat] /\ read[c] \in Nat
      BY DEF HubType
    <3>2. /\ agent' = agent /\ out' = [out EXCEPT ![c] = frame]
          /\ read' = [read EXCEPT ![c] = read[c] + 1]
      BY <1>2, <1>11
    <3>3. out' \in [Conns -> Broadcast]
      BY <2>1, <3>1, <3>2
    <3>4. read' \in [Conns -> Nat]
      BY <3>1, <3>2
    <3> QED BY <1>1, <1>5, <1>7, <1>8, <3>1, <3>2, <3>3, <3>4 DEF HubType
  <2>5. Broadcasts'
    BY <1>1, <1>6, <2>1, <2>2 DEF Broadcasts
  <2>6. FramesSent'
    <3> SUFFICES ASSUME NEW t \in Tabs, NEW d \in Conns, tab[t] = "open"
                 PROVE  IF t \in out'[d].to /\ out'[d].status = None
                        THEN out'[d].frame = read'[d] /\ read'[d] = seen[t][d] + 1
                        ELSE seen[t][d] = read'[d]
      BY <1>1 DEF FramesSent
    <3>1. CASE d # c
      BY <2>2, <2>3, <3>1 DEF FramesSent
    <3>2. CASE d = c
      <4>1. t \in chats
        BY DEF Broadcasts
      <4>2. seen[t][c] = read[c]
        BY <1>4 DEF FramesSent
      <4> QED BY <2>1, <2>2, <2>3, <3>2, <4>1, <4>2
    <3> QED BY <3>1, <3>2
  <2>7. StatusIsTrue'
    <3>1. Truth' = Truth
      BY <1>1, <1>2, <1>11 DEF Truth
    <3>2. \A d \in Conns : out[d].status # None => out'[d].status = out[d].status
      BY <1>4, <2>2
    <3>3. \A t \in Tabs : StatusTo(t)' = StatusTo(t)
      BY <1>1, <1>4, <2>1, <2>2 DEF StatusTo
    <3>4. \A t \in Tabs, d \in Conns : d \in StatusTo(t) => handler[d] = "evicting" \/ out[d].status # None
      BY StatusToFacts
    <3>5. agent' = agent
      BY <1>2, <1>11
    <3> QED BY <1>1, <2>4, <2>5, <3>1, <3>2, <3>3, <3>4, <3>5, StatusesStay
  <2> QED BY <1>9, <2>4, <2>5, <2>6, <2>7
<1> QED BY <1>10, <1>11

LEMMA DetachServeKeeps ==
    ASSUME HubInv, NEW c \in Conns, DetachServe(c)
    PROVE  HubInv'
<1> USE HubAssumption DEF HubInv
<1> DEFINE bye == Telling(Status(FALSE, None))
<1>1. /\ handler[c] = "open" /\ out[c].to = {}
      /\ handler' = [handler EXCEPT ![c] = "finished"]
      /\ up' = [up EXCEPT ![c] = << >>]
      /\ serve = c => serve' = None /\ agent' = None /\ out' = [out EXCEPT ![c] = bye]
      /\ serve # c => serve' = serve /\ agent' = agent /\ out' = out
      /\ UNCHANGED <<chats, link, read, tab, greeting, shown, seen>>
      /\ NoteRaces
  BY DEF DetachServe, FinishIf, Busy
<1>2. /\ Status(FALSE, None) \in Statuses /\ Status(FALSE, None) # None
      /\ bye \in Broadcast /\ bye.to = chats
      /\ chats = {} => bye = Silent
      /\ chats # {} => bye.status = Status(FALSE, None)
  BY StatusFacts, TellingFacts
<1>3. out[c] = Silent /\ Silent.to = {} /\ Silent.status = None
  BY <1>1 DEF Broadcasts, Silent
<1> HIDE DEF bye
<1>4. handler'[c] = "finished" /\ \A d \in Conns \ {c} : out'[d] = out[d] /\ handler'[d] = handler[d]
  BY <1>1 DEF HubType
<1>5. HubType'
  <2>1. raced' \subseteq Tabs
    BY <1>1 DEF NoteRaces
  <2>2. IsFiniteSet({d \in Conns : handler'[d] # "new"})
    BY <1>1, AcceptedStay
  <2>3. out' \in [Conns -> Broadcast]
    BY <1>1, <1>2 DEF HubType
  <2>4. serve' \in Conns \union {None} /\ agent' \in Names \union {None}
    BY <1>1 DEF HubType
  <2>5. up' \in [Conns -> Seq(Names \union {Event})]
    BY <1>1 DEF HubType
  <2> QED BY <1>1, <2>1, <2>2, <2>3, <2>4, <2>5 DEF HubType
<1>6. ServeIsLast'
  <2>1. CASE serve = c
    BY <1>1, <1>4, <2>1 DEF ServeIsLast
  <2>2. CASE serve # c
    BY <1>1, <1>4, <2>2 DEF ServeIsLast, HubType
  <2> QED BY <2>1, <2>2
<1>7. Broadcasts'
  <2>1. \A t \in chats : t \in Tabs /\ tab[t] # "new"
    BY DEF Broadcasts, HubType
  <2>2. out'[c] = bye \/ out'[c] = Silent
    BY <1>1, <1>3 DEF HubType
  <2> QED BY <1>1, <1>2, <1>3, <1>4, <2>1, <2>2 DEF Broadcasts
<1>8. FramesSent'
  <2>1. \A t \in Tabs : ~(t \in out'[c].to /\ out'[c].status = None) /\ ~(t \in out[c].to)
    BY <1>1, <1>2, <1>3 DEF HubType
  <2> QED BY <1>1, <1>4, <2>1 DEF FramesSent
<1>9. StatusIsTrue'
  <2>1. CASE serve = c
    <3>1. Truth' = Status(FALSE, None) /\ out'[c] = bye
      BY <1>1, <2>1 DEF Truth, Status, HubType
    <3>2. \A t \in Tabs : tab'[t] = "open" => t \in bye.to /\ bye.status = Status(FALSE, None)
      BY <1>1, <1>2 DEF Broadcasts
    <3>3. \A t \in Tabs : tab'[t] = "open" => c \in StatusTo(t)'
      BY <1>2, <3>1, <3>2, StatusToFactsNext
    <3>4. \A t \in Tabs : tab'[t] = "open" => Carries(c, t)'
      BY <1>4, <3>1, <3>2 DEF Carries
    <3> QED BY <1>1, <1>5, <1>7, <3>3, <3>4, StatusStarts
  <2>2. CASE serve # c
    <3>1. Truth' = Truth /\ UNCHANGED <<serve, agent, tab, greeting, shown, out>>
      BY <1>1, <2>2 DEF Truth
    <3>2. \A d \in Conns : handler'[d] = "evicting" <=> handler[d] = "evicting"
      BY <1>1, <1>4
    <3>3. \A t \in Tabs : StatusTo(t)' = StatusTo(t)
      BY <3>1, <3>2 DEF StatusTo
    <3>4. \A t \in Tabs, d \in Conns : d \in StatusTo(t) => handler[d] = "evicting" \/ out[d].status # None
      BY StatusToFacts
    <3> QED BY <1>1, <1>5, <1>7, <3>1, <3>2, <3>3, <3>4, StatusesStay
  <2> QED BY <2>1, <2>2
<1> QED BY <1>5, <1>6, <1>7, <1>8, <1>9

LEMMA WithoutFacts ==
    ASSUME HubType, NEW c \in Conns, NEW t \in Tabs
    PROVE  /\ Without(c, t) \in Broadcast
           /\ Without(c, t).to = out[c].to \ {t}
           /\ out[c].to \ {t} = {} => Without(c, t) = Silent
           /\ out[c].to \ {t} # {} => /\ Without(c, t).status = out[c].status
                                      /\ Without(c, t).frame = out[c].frame
<1>1. /\ out[c].status \in Statuses \union {None} /\ out[c].frame \in Nat
      /\ out[c].to \ {t} \in SUBSET Tabs
  BY DEF HubType, Broadcast
<1> QED BY <1>1, SendingFacts DEF Without

LEMMA SendToKeeps ==
    ASSUME HubInv, NEW c \in Conns, NEW t \in Tabs, SendTo(c, t)
    PROVE  HubInv'
<1> USE HubAssumption DEF HubInv
<1> DEFINE rest == Without(c, t)
<1>1. /\ t \in out[c].to /\ out' = [out EXCEPT ![c] = rest]
      /\ UNCHANGED <<serve, agent, chats, handler, link, up, read, tab, greeting, raced>>
  BY DEF SendTo
<1>2. /\ tab[t] = "open" /\ out[c].status # None => shown' = [shown EXCEPT ![t] = out[c].status] /\ seen' = seen
      /\ tab[t] = "open" /\ out[c].status = None => seen' = [seen EXCEPT ![t][c] = out[c].frame] /\ shown' = shown
      /\ tab[t] # "open" => shown' = shown /\ seen' = seen
  BY DEF SendTo, Deliver
<1>3. /\ rest \in Broadcast /\ rest.to = out[c].to \ {t}
      /\ rest.to = {} => rest = Silent
      /\ rest.to # {} => rest.status = out[c].status /\ rest.frame = out[c].frame
  BY WithoutFacts
<1> HIDE DEF rest
<1>4. out'[c] = rest /\ \A d \in Conns \ {c} : out'[d] = out[d]
  BY <1>1 DEF HubType
<1>5. handler[c] \notin {"new", "evicting"} /\ Silent.status = None /\ Silent.to = {}
  BY <1>1 DEF Broadcasts, Silent
<1>6. HubType'
  <2>1. out[c].status \in Statuses \union {None} /\ out[c].frame \in Nat
    BY DEF HubType, Broadcast
  <2>2. shown' \in [Tabs -> Statuses \union {None}]
    BY <1>2, <2>1 DEF HubType
  <2>3. seen' \in [Tabs -> [Conns -> Nat]]
    <3>1. seen \in [Tabs -> [Conns -> Nat]] /\ seen[t] \in [Conns -> Nat]
      BY DEF HubType
    <3>2. [seen[t] EXCEPT ![c] = out[c].frame] \in [Conns -> Nat]
      BY <2>1, <3>1
    <3>3. seen' = seen \/ seen' = [seen EXCEPT ![t] = [seen[t] EXCEPT ![c] = out[c].frame]]
      BY <1>2, <3>1
    <3> QED BY <3>1, <3>2, <3>3
  <2> QED BY <1>1, <1>3, <2>2, <2>3 DEF HubType
<1>7. ServeIsLast'
  BY <1>1 DEF ServeIsLast
<1>8. Broadcasts'
  BY <1>1, <1>3, <1>4, <1>5 DEF Broadcasts
<1>9. FramesSent'
  <2> SUFFICES ASSUME NEW u \in Tabs, NEW d \in Conns, tab[u] = "open"
               PROVE  IF u \in out'[d].to /\ out'[d].status = None
                      THEN out'[d].frame = read[d] /\ read[d] = seen'[u][d] + 1
                      ELSE seen'[u][d] = read[d]
    BY <1>1 DEF FramesSent
  <2>1. IF u \in out[d].to /\ out[d].status = None
        THEN out[d].frame = read[d] /\ read[d] = seen[u][d] + 1
        ELSE seen[u][d] = read[d]
    BY DEF FramesSent
  <2>2. CASE u = t /\ d = c
    <3>1. ~(u \in out'[d].to)
      BY <1>3, <1>4, <2>2
    <3>2. CASE out[c].status = None
      <4>1. seen'[t][c] = out[c].frame
        BY <1>2, <2>2, <3>2 DEF HubType
      <4> QED BY <1>1, <2>1, <2>2, <3>1, <3>2, <4>1
    <3>3. CASE out[c].status # None
      BY <1>1, <1>2, <2>1, <2>2, <3>1, <3>3
    <3> QED BY <3>2, <3>3
  <2>3. CASE u # t \/ d # c
    <3>1. seen'[u][d] = seen[u][d]
      BY <1>2, <2>3 DEF HubType
    <3>2. CASE d # c
      BY <1>4, <2>1, <3>1, <3>2
    <3>3. CASE d = c
      <4>1. u # t
        BY <2>3, <3>3
      <4>2. u \in out'[d].to <=> u \in out[d].to
        BY <1>3, <1>4, <3>3, <4>1
      <4>3. u \in out'[d].to => out'[d].status = out[d].status /\ out'[d].frame = out[d].frame
        BY <1>3, <1>4, <3>3
      <4> QED BY <2>1, <3>1, <4>2, <4>3
    <3> QED BY <3>2, <3>3
  <2> QED BY <2>2, <2>3
<1>10. StatusIsTrue'
  <2>1. Truth' = Truth
    BY <1>1 DEF Truth
  <2> SUFFICES ASSUME NEW u \in Tabs, tab[u] = "open", u \notin raced
               PROVE  /\ \A x, y \in StatusTo(u)' : x = y
                      /\ \A x \in StatusTo(u)' : Carries(x, u)'
                      /\ StatusTo(u)' = {} => shown'[u] = Truth
    BY <1>1, <2>1 DEF StatusIsTrue
  <2>2. /\ \A x, y \in StatusTo(u) : x = y
        /\ \A x \in StatusTo(u) : Carries(x, u)
        /\ StatusTo(u) = {} => shown[u] = Truth
    BY DEF StatusIsTrue
  <2>3. \A d \in Conns \ {c} : d \in StatusTo(u)' <=> d \in StatusTo(u)
    BY <1>1, <1>4, StatusToFacts, StatusToFactsNext
  <2>4. None \in StatusTo(u)' <=> None \in StatusTo(u)
    BY <1>1, StatusToFacts, StatusToFactsNext
  <2>5. c \in StatusTo(u)' <=> c \in StatusTo(u) /\ u # t
    <3>1. c \in StatusTo(u)' <=> rest.status # None /\ u \in rest.to
      BY <1>1, <1>4, <1>5, StatusToFactsNext
    <3>2. c \in StatusTo(u) <=> out[c].status # None /\ u \in out[c].to
      BY <1>5, StatusToFacts
    <3>3. u \in rest.to <=> u \in out[c].to /\ u # t
      BY <1>3
    <3>4. u \in rest.to => rest.status = out[c].status
      BY <1>3
    <3> QED BY <3>1, <3>2, <3>3, <3>4
  <2>6. \A x \in StatusTo(u)' : x \in StatusTo(u) /\ (x = c => u # t /\ u \in rest.to)
    <3>1. \A x \in StatusTo(u)' : x \in Conns \union {None}
      BY StatusToFactsNext
    <3>2. c \in StatusTo(u)' => u \in rest.to
      BY <1>1, <1>4, <1>5, StatusToFactsNext
    <3> QED BY <2>3, <2>4, <2>5, <3>1, <3>2
  <2>7. ASSUME NEW x \in StatusTo(u)' PROVE Carries(x, u)'
    <3>1. x \in StatusTo(u) /\ Carries(x, u) /\ x \in Conns \union {None}
      BY <2>2, <2>6, StatusToFacts
    <3>2. CASE x = None
      BY <1>1, <2>1, <3>1, <3>2 DEF Carries
    <3>3. CASE x = c
      <4>1. out'[c].status = out[c].status
        BY <1>3, <1>4, <2>6, <2>7, <3>3
      <4>2. x # None /\ handler[x] # "evicting" /\ handler'[x] # "evicting"
        BY <1>1, <1>5, <3>3
      <4> QED BY <2>1, <3>1, <3>3, <4>1, <4>2 DEF Carries
    <3>4. CASE x \in Conns \ {c}
      BY <1>1, <1>4, <2>1, <3>1, <3>4 DEF Carries
    <3> QED BY <3>1, <3>2, <3>3, <3>4
  <2>8. ASSUME StatusTo(u)' = {} PROVE shown'[u] = Truth
    <3>1. CASE StatusTo(u) = {}
      <4>1. u # t \/ out[c].status = None
        BY <1>1, <3>1, StatusToFacts
      <4>2. shown'[u] = shown[u]
        BY <1>2, <4>1 DEF HubType
      <4> QED BY <2>2, <3>1, <4>2
    <3>2. CASE StatusTo(u) # {}
      <4>1. c \in StatusTo(u) /\ u = t
        <5>1. PICK x \in StatusTo(u) : x \in Conns \union {None}
          BY <3>2, StatusToFacts
        <5> QED BY <2>3, <2>4, <2>5, <2>8, <5>1
      <4>2. out[c].status # None /\ out[c].status = Truth
        BY <1>5, <2>2, <4>1, StatusToFacts DEF Carries
      <4> QED BY <1>2, <4>1, <4>2 DEF HubType
    <3> QED BY <3>1, <3>2
  <2> QED BY <2>2, <2>6, <2>7, <2>8
<1> QED BY <1>6, <1>7, <1>8, <1>9, <1>10

LEMMA AttachChatKeeps ==
    ASSUME HubInv, NEW t \in Tabs, AttachChat(t)
    PROVE  HubInv'
<1> USE HubAssumption DEF HubInv
<1>1. /\ tab[t] = "new" /\ tab' = [tab EXCEPT ![t] = "open"]
      /\ chats' = chats \union {t}
      /\ greeting' = [greeting EXCEPT ![t] = Truth]
      /\ seen' = [seen EXCEPT ![t] = read]
      /\ UNCHANGED <<serve, agent, handler, out, link, up, read, shown>>
      /\ NoteRaces
  BY DEF AttachChat, Truth
<1>2. Truth \in Statuses /\ Truth # None /\ Truth' = Truth
  BY <1>1, StatusFacts DEF Truth, HubType
<1>3. /\ tab'[t] = "open" /\ greeting'[t] = Truth /\ seen'[t] = read
      /\ \A u \in Tabs \ {t} : tab'[u] = tab[u] /\ greeting'[u] = greeting[u] /\ seen'[u] = seen[u]
  BY <1>1 DEF HubType
<1>4. \A c \in Conns : t \notin out[c].to
  BY <1>1 DEF Broadcasts
<1> HIDE DEF Truth
<1>5. HubType'
  <2>1. raced' \subseteq Tabs
    BY <1>1 DEF NoteRaces
  <2>2. greeting' \in [Tabs -> Statuses \union {None}] /\ seen' \in [Tabs -> [Conns -> Nat]]
    BY <1>1, <1>2 DEF HubType
  <2> QED BY <1>1, <2>1, <2>2 DEF HubType
<1>6. ServeIsLast'
  BY <1>1 DEF ServeIsLast
<1>7. Broadcasts'
  BY <1>1, <1>3 DEF Broadcasts
<1>8. FramesSent'
  <2> SUFFICES ASSUME NEW u \in Tabs, NEW c \in Conns, tab'[u] = "open"
               PROVE  IF u \in out'[c].to /\ out'[c].status = None
                      THEN out'[c].frame = read'[c] /\ read'[c] = seen'[u][c] + 1
                      ELSE seen'[u][c] = read'[c]
    BY DEF FramesSent
  <2>1. CASE u = t
    BY <1>1, <1>3, <1>4, <2>1
  <2>2. CASE u # t
    <3>1. tab[u] = "open" /\ seen'[u][c] = seen[u][c]
      BY <1>3, <2>2
    <3> QED BY <1>1, <3>1 DEF FramesSent
  <2> QED BY <2>1, <2>2
<1>9. StatusIsTrue'
  <2> SUFFICES ASSUME NEW u \in Tabs, tab'[u] = "open", u \notin raced'
               PROVE  /\ \A x, y \in StatusTo(u)' : x = y
                      /\ \A x \in StatusTo(u)' : Carries(x, u)'
                      /\ StatusTo(u)' = {} => shown'[u] = Truth
    BY <1>2 DEF StatusIsTrue
  <2>1. \A x, y \in StatusTo(u)' : x = y
    BY <1>1, <1>5, <1>7, RacesNoted
  <2>2. CASE u = t
    <3>1. None \in StatusTo(u)'
      BY <1>2, <1>3, <2>2, StatusToFactsNext
    <3>2. Carries(None, u)'
      BY <1>2, <1>3, <2>2 DEF Carries
    <3> QED BY <2>1, <3>1, <3>2
  <2>3. CASE u # t
    <3>1. tab[u] = "open" /\ StatusTo(u)' = StatusTo(u)
      BY <1>1, <1>3, <2>3 DEF StatusTo
    <3>2. u \notin raced
      BY <1>1, <1>5, <1>7, <3>1, RacesNoted
    <3>3. /\ \A x \in StatusTo(u) : Carries(x, u)
          /\ StatusTo(u) = {} => shown[u] = Truth
      BY <3>1, <3>2 DEF StatusIsTrue
    <3>4. \A x \in StatusTo(u) : Carries(x, u)'
      BY <1>1, <1>2, <1>3, <2>3, <3>3 DEF Carries
    <3> QED BY <1>1, <2>1, <3>1, <3>3, <3>4
  <2> QED BY <2>2, <2>3
<1> QED BY <1>5, <1>6, <1>7, <1>8, <1>9

LEMMA GreetKeeps ==
    ASSUME HubInv, NEW t \in Tabs, Greet(t)
    PROVE  HubInv'
<1> USE HubAssumption DEF HubInv
<1>1. /\ greeting[t] # None /\ greeting' = [greeting EXCEPT ![t] = None]
      /\ tab[t] = "open" => shown' = [shown EXCEPT ![t] = greeting[t]]
      /\ tab[t] # "open" => shown' = shown
      /\ UNCHANGED <<serve, agent, chats, handler, out, link, up, read, tab, seen, raced>>
  BY DEF Greet
<1>2. greeting'[t] = None /\ \A u \in Tabs \ {t} : greeting'[u] = greeting[u] /\ shown'[u] = shown[u]
  BY <1>1 DEF HubType
<1>3. HubType'
  BY <1>1 DEF HubType
<1>4. ServeIsLast' /\ Broadcasts' /\ FramesSent'
  <2>1. ServeIsLast'
    BY <1>1 DEF ServeIsLast
  <2>2. Broadcasts'
    BY <1>1 DEF Broadcasts
  <2>3. FramesSent'
    BY <1>1 DEF FramesSent
  <2> QED BY <2>1, <2>2, <2>3
<1>5. StatusIsTrue'
  <2>1. Truth' = Truth
    BY <1>1 DEF Truth
  <2> SUFFICES ASSUME NEW u \in Tabs, tab[u] = "open", u \notin raced
               PROVE  /\ \A x, y \in StatusTo(u)' : x = y
                      /\ \A x \in StatusTo(u)' : Carries(x, u)'
                      /\ StatusTo(u)' = {} => shown'[u] = Truth
    BY <1>1, <2>1 DEF StatusIsTrue
  <2>2. /\ \A x, y \in StatusTo(u) : x = y
        /\ \A x \in StatusTo(u) : Carries(x, u)
        /\ StatusTo(u) = {} => shown[u] = Truth
    BY DEF StatusIsTrue
  <2>3. CASE u = t
    <3>1. None \in StatusTo(t)
      BY <1>1, StatusToFacts
    <3>2. \A x \in StatusTo(t) : x = None
      BY <2>2, <2>3, <3>1
    <3>3. greeting[t] = Truth
      BY <2>2, <2>3, <3>1 DEF Carries
    <3>4. \A d \in Conns : d \notin StatusTo(t)'
      <4> SUFFICES ASSUME NEW d \in Conns, d \in StatusTo(t)' PROVE FALSE
        OBVIOUS
      <4>1. d \in StatusTo(t)
        BY <1>1, StatusToFacts, StatusToFactsNext
      <4> QED BY <3>2, <4>1
    <3>5. None \notin StatusTo(t)'
      BY <1>2, StatusToFactsNext
    <3>6. StatusTo(t)' = {}
      BY <3>4, <3>5, StatusToFactsNext
    <3>7. shown'[t] = Truth
      BY <1>1, <2>3, <3>3 DEF HubType
    <3> QED BY <2>3, <3>6, <3>7
  <2>4. CASE u # t
    <3>1. StatusTo(u)' = StatusTo(u)
      BY <1>1, <1>2, <2>4 DEF StatusTo
    <3>2. \A x \in StatusTo(u) : Carries(x, u)'
      BY <1>1, <1>2, <2>1, <2>2, <2>4 DEF Carries
    <3> QED BY <1>2, <2>2, <2>4, <3>1, <3>2
  <2> QED BY <2>3, <2>4
<1> QED BY <1>3, <1>4, <1>5

\* Steps that touch neither a broadcast nor the attached connection, and after
\* which the tabs still open are as they were.
LEMMA OthersKeep ==
    ASSUME HubInv, HubType',
           UNCHANGED <<serve, agent, handler, out, read, greeting>>,
           \A t \in Tabs : tab'[t] = "new" <=> tab[t] = "new",
           \A t \in Tabs : tab'[t] = "open" => tab[t] = "open" /\ shown'[t] = shown[t] /\ seen'[t] = seen[t],
           \A t \in Tabs : tab'[t] \in {"open", "new"} => (t \in chats' <=> t \in chats),
           \A t \in Tabs : tab'[t] = "open" => (t \in raced' <=> t \in raced)
    PROVE  HubInv'
<1> USE HubAssumption DEF HubInv
<1>1. ServeIsLast'
  BY DEF ServeIsLast
<1>3. Broadcasts'
  BY DEF Broadcasts
<1>4. FramesSent'
  BY DEF FramesSent
<1>5. StatusIsTrue'
  <2> SUFFICES ASSUME NEW t \in Tabs, tab'[t] = "open", t \notin raced'
               PROVE  /\ \A x, y \in StatusTo(t)' : x = y
                      /\ \A x \in StatusTo(t)' : Carries(x, t)'
                      /\ StatusTo(t)' = {} => shown'[t] = Truth'
    BY DEF StatusIsTrue
  <2>1. Truth' = Truth /\ StatusTo(t)' = StatusTo(t)
    BY DEF Truth, StatusTo
  <2>2. \A x \in StatusTo(t) : Carries(x, t)' <=> Carries(x, t)
    BY <2>1 DEF Carries
  <2> QED BY <2>1, <2>2 DEF StatusIsTrue
<1> QED BY <1>1, <1>3, <1>4, <1>5

LEMMA CloseTabKeeps ==
    ASSUME HubInv, NEW t \in Tabs, CloseTab(t)
    PROVE  HubInv'
<1>1. HubType'
  BY DEF HubInv, HubType, CloseTab
<1>2. \A u \in Tabs \ {t} : tab'[u] = tab[u] /\ shown'[u] = shown[u] /\ seen'[u] = seen[u]
  BY DEF HubInv, HubType, CloseTab
<1>3. tab[t] = "open" /\ tab'[t] = "closed"
  BY DEF HubInv, HubType, CloseTab
<1> QED BY <1>1, <1>2, <1>3, OthersKeep DEF CloseTab

LEMMA DetachChatKeeps ==
    ASSUME HubInv, NEW t \in Tabs, DetachChat(t)
    PROVE  HubInv'
<1>1. HubType'
  BY DEF HubInv, HubType, DetachChat
<1>2. \A u \in Tabs \ {t} : tab'[u] = tab[u]
  BY DEF HubInv, HubType, DetachChat
<1>3. tab[t] = "closed" /\ tab'[t] = "gone"
  BY DEF HubInv, HubType, DetachChat
<1> QED BY <1>1, <1>2, <1>3, OthersKeep DEF DetachChat

LEMMA SendKeeps ==
    ASSUME HubInv, Send
    PROVE  HubInv'
<1>1. up' \in [Conns -> Seq(Names \union {Event})]
  <2>1. CASE up' = up
    BY <2>1 DEF HubInv, HubType
  <2>2. CASE up' = [up EXCEPT ![conn] = Append(@, Event)]
    <3>1. ASSUME conn \in Conns PROVE Append(up[conn], Event) \in Seq(Names \union {Event})
      <4>1. up[conn] \in Seq(Names \union {Event})
        BY <3>1 DEF HubInv, HubType
      <4> QED BY <4>1, AppendFacts
    <3> QED BY <2>2, <3>1 DEF HubInv, HubType
  <2> QED BY <2>1, <2>2 DEF Send
<1>2. HubType'
  BY <1>1 DEF HubInv, HubType, Send
<1> QED BY <1>2, OthersKeep DEF Send

LEMMA CutKeeps ==
    ASSUME HubInv, NEW c \in Conns, Cut(c)
    PROVE  HubInv'
<1>1. HubType'
  BY DEF HubInv, HubType, Cut
<1> QED BY <1>1, OthersKeep DEF Cut

LEMMA HubStutters ==
    ASSUME HubInv, UNCHANGED hubVars
    PROVE  HubInv'
<1>1. HubType'
  BY DEF HubInv, HubType, hubVars
<1> QED BY <1>1, OthersKeep DEF hubVars

LEMMA HubKept ==
    HubInv /\ [Next]_vars => HubInv'
<1> SUFFICES ASSUME HubInv, [Next]_vars PROVE HubInv'
  OBVIOUS
<1>1. CASE UNCHANGED vars
  BY <1>1, HubStutters DEF vars
<1>2. CASE \E c \in Conns : Connect(c) \/ RivalConnects(c) \/ Cut(c)
  <2> SUFFICES ASSUME NEW c \in Conns, Connect(c) \/ RivalConnects(c) \/ Cut(c) PROVE HubInv'
    BY <1>2
  <2>1. Agent \in Names /\ Rival \in Names
    BY AgentsAssumption
  <2> QED BY <2>1, AttachServeKeeps, CutKeeps DEF Connect, RivalConnects
<1>3. CASE Notice
  BY <1>3, HubStutters DEF Notice
<1>4. CASE Hub
  BY <1>4, EvictedKeeps, ReceiveKeeps, DetachServeKeeps, SendToKeeps, AttachChatKeeps, GreetKeeps,
     CloseTabKeeps, DetachChatKeeps DEF Hub
<1>5. CASE \E t \in Tabs : TypeChat(t) \/ TypeReset(t)
  BY <1>5, HubStutters DEF TypeChat, TypeReset
<1>6. CASE SessionSteps
  BY <1>6, SendKeeps, HubStutters DEF SessionSteps
<1> QED BY <1>1, <1>2, <1>3, <1>4, <1>5, <1>6 DEF Next

-----------------------------------------------------------------------------
(* Theorems.                                                               *)

LEMMA AlwaysInvariant ==
    Spec => []IInv
<1>1. Init => IInv
  BY SessionHolds, HubHolds DEF IInv
<1>2. IInv /\ [Next]_vars => IInv'
  BY SessionKept, HubKept DEF IInv
<1> QED BY <1>1, <1>2, PTL DEF Spec

\* The chat turns of a process take one another's place in no history and in no
\* live run, however its socket drops, whatever is reset meanwhile (serve.py,
\* chat_lock).
THEOREM TurnsNeverMix ==
    Spec => []TurnsDoNotMix
<1>1. IInv => TurnsDoNotMix
  <2> SUFFICES ASSUME IInv PROVE TurnsDoNotMix
    OBVIOUS
  <2>1. ASSUME run # Nobody
        PROVE  run.of \subseteq {run.asked} \/ (run.asked = Nobody /\ Cardinality(run.of) = 1)
    <3>1. PICK t \in Turns : run \in RunOf(t)
      BY <2>1 DEF IInv, SessionInv, RunIsOfOne
    <3>2. Cardinality({t}) = 1
      BY FS_Singleton
    <3> QED BY <3>1, <3>2 DEF RunOf
  <2>2. AnswersFollow
    BY DEF IInv, SessionInv
  <2> QED BY <2>1, <2>2 DEF TurnsDoNotMix, AnswersFollow
<1> QED BY <1>1, AlwaysInvariant, PTL

\* Neither the model nor the framework's own session is given anything of before
\* a reset, but for the answer the reset fell into (state.py, clear;
\* adapters/google/streaming.py, _ensure_session).
THEOREM ResetsForget ==
    Spec => []ResetForgets
<1>1. IInv => ResetForgets
  BY DEF IInv, SessionInv
<1> QED BY <1>1, AlwaysInvariant, PTL

\* Once no status is on its way to a tab, the last one it was shown says whether
\* an agent is attached and which, unless two were once on their way at a time
\* (relay.py, attach_serve, detach_serve).
THEOREM IndicatorStaysTrue ==
    Spec => []IndicatorIsTrue
<1>1. IInv => IndicatorIsTrue
  <2> DEFINE attached == {c \in Conns : handler[c] # "new"}
             online == \E c \in attached : handler[c] # "finished" /\ \A d \in attached : d <= c
  <2> SUFFICES ASSUME IInv, NEW t \in Tabs, tab[t] = "open", StatusTo(t) = {}, t \notin raced
               PROVE  shown[t] = Status(online, agent)
    BY DEF IndicatorIsTrue
  <2>1. online <=> serve # None
    <3>1. ServeIsLast /\ serve \in Conns \union {None}
      BY DEF IInv, HubInv, HubType
    <3>2. ASSUME serve # None PROVE online
      <4>1. /\ serve \in attached /\ handler[serve] # "finished"
            /\ \A d \in attached : d <= serve
        BY <3>1, <3>2 DEF ServeIsLast
      <4> QED BY <4>1
    <3>3. ASSUME serve = None PROVE ~online
      BY <3>1, <3>3 DEF ServeIsLast
    <3> QED BY <3>2, <3>3
  <2> HIDE DEF online
  <2>2. shown[t] = Truth
    BY DEF IInv, HubInv, StatusIsTrue
  <2>3. CASE serve # None
    <3>1. online = TRUE /\ (serve # None) = TRUE
      BY <2>1, <2>3
    <3> QED BY <2>2, <3>1 DEF Truth
  <2>4. CASE serve = None
    <3>1. online = FALSE /\ (serve # None) = FALSE
      BY <2>1, <2>4
    <3> QED BY <2>2, <3>1 DEF Truth
  <2> QED BY <2>3, <2>4
<1> QED BY <1>1, AlwaysInvariant, PTL

\* From its attachment on a tab is sent the frames of each connection one by one
\* (relay.py, _broadcast_chat).
THEOREM FramesStayInOrder ==
    Spec => FramesInOrder
<1> DEFINE InStep == \A t \in Tabs, c \in Conns :
                tab[t] = "open" /\ tab'[t] = "open" => seen'[t][c] - seen[t][c] \in {0, 1}
<1>1. ASSUME IInv, [Next]_vars PROVE [InStep]_vars
  <2> SUFFICES ASSUME Next, NEW t \in Tabs, NEW c \in Conns, tab[t] = "open", tab'[t] = "open"
               PROVE  seen'[t][c] - seen[t][c] \in {0, 1}
    BY <1>1
  <2> USE <1>1 DEF IInv, HubInv
  <2>1. seen \in [Tabs -> [Conns -> Nat]] /\ seen[t] \in [Conns -> Nat] /\ seen[t][c] \in Nat
    BY DEF HubType
  <2>2. ASSUME seen' = seen PROVE seen'[t][c] - seen[t][c] \in {0, 1}
    BY <2>1, <2>2
  <2>3. CASE \E d \in Conns, u \in Tabs : SendTo(d, u)
    <3>1. PICK d \in Conns, u \in Tabs : SendTo(d, u)
      BY <2>3
    <3>2. u \in out[d].to
      BY <3>1 DEF SendTo
    <3>3. \/ seen' = seen
          \/ tab[u] = "open" /\ out[d].status = None /\ seen' = [seen EXCEPT ![u][d] = out[d].frame]
      BY <3>1 DEF SendTo, Deliver
    <3>4. CASE seen' = seen
      BY <2>2, <3>4
    <3>5. CASE tab[u] = "open" /\ out[d].status = None /\ seen' = [seen EXCEPT ![u][d] = out[d].frame]
      <4>1. out[d].frame = seen[u][d] + 1
        BY <3>2, <3>5 DEF FramesSent
      <4>2. seen'[t][c] = IF t = u /\ c = d THEN out[d].frame ELSE seen[t][c]
        BY <2>1, <3>5
      <4> QED BY <2>1, <4>1, <4>2
    <3> QED BY <3>3, <3>4, <3>5
  <2>4. CASE \E u \in Tabs : AttachChat(u) \/ CloseTab(u)
    <3>1. PICK u \in Tabs : AttachChat(u) \/ CloseTab(u)
      BY <2>4
    <3>2. u # t
      BY <3>1 DEF AttachChat, CloseTab, HubType
    <3>3. seen'[t] = seen[t]
      BY <2>1, <3>1, <3>2 DEF AttachChat, CloseTab
    <3> QED BY <2>1, <3>3
  <2>5. CASE \E d \in Conns : Evicted(d) \/ Receive(d) \/ DetachServe(d)
    BY <2>2, <2>5 DEF Evicted, Receive, DetachServe, FinishIf
  <2>6. CASE \E u \in Tabs : Greet(u) \/ DetachChat(u)
    BY <2>2, <2>6 DEF Greet, DetachChat
  <2>7. CASE \E d \in Conns : Connect(d) \/ RivalConnects(d) \/ Cut(d)
    BY <2>2, <2>7 DEF Connect, RivalConnects, AttachServe, Cut
  <2>8. CASE Notice \/ SessionSteps \/ \E u \in Tabs : TypeChat(u) \/ TypeReset(u)
    BY <2>2, <2>8 DEF Notice, SessionSteps, TypeChat, TypeReset, Send, hubVars
  <2> QED BY <2>3, <2>4, <2>5, <2>6, <2>7, <2>8 DEF Next, Hub
<1>2. IInv /\ [Next]_vars => [InStep]_vars
  BY <1>1
<1> QED BY <1>2, AlwaysInvariant, PTL DEF Spec, FramesInOrder

-----------------------------------------------------------------------------
(* The approval handler.                                                   *)

LiveHasSocket == \A c \in Calls : pc[c] \in Live => sock[c] \in Sockets

BoxIsGranted == \A c \in Calls : box[c] => evt[c] /\ c \in granted

WireIsGranted == \A c \in Calls : <<c, TRUE>> \in wire => c \in granted

IdleIsFresh == \A c \in Calls : pc[c] = "idle" => ~evt[c]

ApprovalInv ==
    /\ TypeOK
    /\ PendingIsOwed
    /\ NoneStranded
    /\ ApprovedWasGranted
    /\ OneSender
    /\ LiveHasSocket
    /\ BoxIsGranted
    /\ WireIsGranted
    /\ IdleIsFresh

\* The initial states satisfy the strengthened invariant.
LEMMA ApprovalBegins == ApprovalInit => ApprovalInv
  BY NoSocketAssumption, LockHolders
  DEF ApprovalInit, ApprovalInv, TypeOK, PendingIsOwed, NoneStranded, ApprovedWasGranted, OneSender,
      LiveHasSocket, BoxIsGranted, WireIsGranted, IdleIsFresh, Live, Done

\* Every step of a connection keeps it.
LEMMA ConnKeeps ==
  ASSUME ApprovalInv, NEW s \in Sockets, ConnStep(s)
  PROVE  ApprovalInv'
<1> USE NoSocketAssumption, LockHolders
    DEF ApprovalInv, TypeOK, PendingIsOwed, NoneStranded, ApprovedWasGranted, OneSender,
        LiveHasSocket, BoxIsGranted, WireIsGranted, IdleIsFresh, Live
<1>1. CASE Bind(s)
  <2>1. pending = {}
    BY <1>1 DEF Bind
  <2>2. TypeOK' /\ OneSender'
    BY <1>1 DEF Bind
  <2>3. PendingIsOwed' /\ NoneStranded'
    BY <1>1, <2>1 DEF Bind
  <2>4. LiveHasSocket' /\ IdleIsFresh'
    BY <1>1 DEF Bind
  <2>5. ApprovedWasGranted' /\ BoxIsGranted' /\ WireIsGranted'
    BY <1>1 DEF Bind
  <2>6. QED
    BY <2>2, <2>3, <2>4, <2>5
<1>2. CASE Drop(s)
  BY <1>2 DEF Drop
<1>3. CASE Unbind(s)
  BY <1>3 DEF Unbind
<1>4. CASE StreamLock(s)
  BY <1>4 DEF StreamLock
<1>5. CASE StreamUnlock(s)
  <2>1. OneSender'
    BY <1>5 DEF StreamUnlock
  <2>2. TypeOK'
    BY <1>5 DEF StreamUnlock
  <2>3. QED
    BY <1>5, <2>1, <2>2 DEF StreamUnlock
<1>6. QED
  BY <1>1, <1>2, <1>3, <1>4, <1>5 DEF ConnStep

\* Every step of a call keeps it.
LEMMA CallKeeps ==
  ASSUME ApprovalInv, NEW c \in Calls, CallStep(c)
  PROVE  ApprovalInv'
<1> USE NoSocketAssumption, LockHolders
    DEF ApprovalInv, TypeOK, PendingIsOwed, NoneStranded, ApprovedWasGranted, OneSender,
        LiveHasSocket, BoxIsGranted, WireIsGranted, IdleIsFresh, Live, Done
<1>1. CASE CallOffline(c)
  BY <1>1 DEF CallOffline
<1>2. CASE CallRegister(c)
  <2>1. TypeOK'
    BY <1>2 DEF CallRegister
  <2>2. PendingIsOwed' /\ NoneStranded'
    BY <1>2 DEF CallRegister
  <2>3. OneSender' /\ LiveHasSocket' /\ IdleIsFresh'
    BY <1>2 DEF CallRegister
  <2>4. ApprovedWasGranted' /\ WireIsGranted'
    BY <1>2 DEF CallRegister
  <2>5. BoxIsGranted'
    <3>1. \A d \in Calls : box'[d] => d # c /\ box[d] /\ evt'[d] = evt[d]
      BY <1>2 DEF CallRegister
    <3>2. QED
      BY <1>2, <3>1 DEF CallRegister
  <2>6. QED
    BY <2>1, <2>2, <2>3, <2>4, <2>5
<1>3. CASE TakeSendLock(c)
  <2>1. sock[c] \in Sockets
    BY <1>3 DEF TakeSendLock
  <2>2. TypeOK'
    BY <1>3 DEF TakeSendLock
  <2>3. PendingIsOwed' /\ NoneStranded'
    BY <1>3 DEF TakeSendLock
  <2>4. OneSender'
    BY <1>3, <2>1 DEF TakeSendLock
  <2>5. LiveHasSocket' /\ IdleIsFresh'
    BY <1>3 DEF TakeSendLock
  <2>6. ApprovedWasGranted' /\ BoxIsGranted' /\ WireIsGranted'
    BY <1>3 DEF TakeSendLock
  <2>7. QED
    BY <2>2, <2>3, <2>4, <2>5, <2>6
<1>4. CASE SendOk(c)
  <2>1. TypeOK' /\ OneSender'
    BY <1>4 DEF SendOk
  <2>2. PendingIsOwed' /\ NoneStranded' /\ LiveHasSocket' /\ IdleIsFresh'
    BY <1>4 DEF SendOk
  <2>3. ApprovedWasGranted' /\ BoxIsGranted' /\ WireIsGranted'
    BY <1>4 DEF SendOk
  <2> QED BY <2>1, <2>2, <2>3
<1>5. CASE SendFail(c)
  BY <1>5 DEF SendFail
<1>6. CASE Wake(c)
  BY <1>6 DEF Wake, Verdict
<1>7. CASE Expire(c)
  BY <1>7 DEF Expire
<1>8. CASE ExpireReturn(c)
  BY <1>8 DEF ExpireReturn, Verdict
<1>9. CASE Cancel(c)
  BY <1>9 DEF Cancel
<1>10. QED
  BY <1>1, <1>2, <1>3, <1>4, <1>5, <1>6, <1>7, <1>8, <1>9 DEF CallStep

\* Every step of a reply keeps it.
LEMMA ReplyKeeps ==
  ASSUME ApprovalInv, NEW c \in Calls, NEW allowed \in BOOLEAN, ReplyStep(c, allowed)
  PROVE  ApprovalInv'
<1> USE DEF ApprovalInv, TypeOK, PendingIsOwed, NoneStranded, ApprovedWasGranted, OneSender,
        LiveHasSocket, BoxIsGranted, WireIsGranted, IdleIsFresh, Live
<1>1. CASE Reply(c, allowed)
  <2>1. TypeOK'
    BY <1>1 DEF Reply
  <2>2. WireIsGranted'
    BY <1>1 DEF Reply
  <2>3. BoxIsGranted' /\ ApprovedWasGranted'
    BY <1>1 DEF Reply
  <2>4. PendingIsOwed' /\ NoneStranded' /\ OneSender' /\ LiveHasSocket' /\ IdleIsFresh'
    BY <1>1 DEF Reply
  <2>5. QED
    BY <2>1, <2>2, <2>3, <2>4
<1>2. CASE Resolve(c, allowed)
  <2>1. TypeOK'
    BY <1>2 DEF Resolve
  <2>2. allowed => c \in granted
    BY <1>2 DEF Resolve
  <2>3. BoxIsGranted' /\ WireIsGranted' /\ ApprovedWasGranted'
    BY <1>2, <2>2 DEF Resolve
  <2>4. PendingIsOwed' /\ NoneStranded'
    BY <1>2 DEF Resolve
  <2>5. OneSender' /\ LiveHasSocket' /\ IdleIsFresh'
    BY <1>2 DEF Resolve
  <2>6. QED
    BY <2>1, <2>3, <2>4, <2>5
<1>3. QED
  BY <1>1, <1>2 DEF ReplyStep

LEMMA ApprovalKeeps == ApprovalInv /\ [ApprovalNext]_approvalVars => ApprovalInv'
<1> SUFFICES ASSUME ApprovalInv, [ApprovalNext]_approvalVars PROVE ApprovalInv'
  OBVIOUS
<1>1. CASE ApprovalNext
  BY <1>1, ConnKeeps, CallKeeps, ReplyKeeps DEF ApprovalNext
<1>2. CASE UNCHANGED approvalVars
  BY <1>2 DEF approvalVars, ApprovalInv, TypeOK, PendingIsOwed, NoneStranded, ApprovedWasGranted,
              OneSender, LiveHasSocket, BoxIsGranted, WireIsGranted, IdleIsFresh
<1>3. QED
  BY <1>1, <1>2

\* The strengthened invariant holds in every reachable state.
THEOREM ApprovalInvariance == ApprovalSpec => []ApprovalInv
  BY ApprovalBegins, ApprovalKeeps, PTL DEF ApprovalSpec

\* Every variable keeps its type.
THEOREM TypeCorrect == ApprovalSpec => []TypeOK
<1>1. ApprovalInv => TypeOK
  BY DEF ApprovalInv
<1>2. QED
  BY <1>1, ApprovalInvariance, PTL

\* _pending is exactly the set of calls still owed an answer, all of them on
\* the socket that is bound.
THEOREM RegistryExact == ApprovalSpec => []PendingIsOwed
<1>1. ApprovalInv => PendingIsOwed
  BY DEF ApprovalInv
<1>2. QED
  BY <1>1, ApprovalInvariance, PTL

\* A disconnect releases every call of the connection at once.
THEOREM DisconnectReleases == ApprovalSpec => []NoneStranded
<1>1. ApprovalInv => NoneStranded
  BY DEF ApprovalInv
<1>2. QED
  BY <1>1, ApprovalInvariance, PTL

\* No tool call is approved that nobody granted.
THEOREM NoUngrantedApproval == ApprovalSpec => []ApprovedWasGranted
<1>1. ApprovalInv => ApprovedWasGranted
  BY DEF ApprovalInv
<1>2. QED
  BY <1>1, ApprovalInvariance, PTL

\* Approval frames never interleave with another send on their connection.
THEOREM FramesDoNotInterleave == ApprovalSpec => []OneSender
<1>1. ApprovalInv => OneSender
  BY DEF ApprovalInv
<1>2. QED
  BY <1>1, ApprovalInvariance, PTL

\* Once a call's event is set nothing rewrites its answer: a second reply finds
\* no entry, and the disconnect that follows a grant finds none either.
THEOREM AnswersAreFinal == ApprovalSpec => FirstAnswerStands
<1>1. ASSUME ApprovalInv, [ApprovalNext]_approvalVars, NEW c \in Calls, evt[c]
      PROVE  evt'[c] /\ box'[c] = box[c]
  <2> USE <1>1 DEF ApprovalInv, TypeOK, PendingIsOwed, IdleIsFresh, Live
  <2>1. CASE \E s \in Sockets : ConnStep(s)
    <3>1. PICK s \in Sockets : ConnStep(s)
      BY <2>1
    <3>2. CASE Unbind(s)
      <4>1. c \notin pending
        OBVIOUS
      <4>2. QED
        BY <3>2, <4>1 DEF Unbind
    <3>3. CASE ~Unbind(s)
      BY <3>1, <3>3 DEF ConnStep, Bind, Drop, StreamLock, StreamUnlock
    <3>4. QED
      BY <3>2, <3>3
  <2>2. CASE \E d \in Calls : CallStep(d)
    BY <2>2 DEF CallStep, CallOffline, CallRegister, TakeSendLock, SendOk, SendFail, Wake,
                Expire, ExpireReturn, Cancel
  <2>3. CASE \E d \in Calls, allowed \in BOOLEAN : ReplyStep(d, allowed)
    BY <2>3 DEF ReplyStep, Reply, Resolve
  <2>4. CASE UNCHANGED approvalVars
    BY <2>4 DEF approvalVars
  <2>5. QED
    BY <2>1, <2>2, <2>3, <2>4 DEF ApprovalNext
<1>2. ApprovalInv /\ [ApprovalNext]_approvalVars => [\A c \in Calls : evt[c] => evt'[c] /\ box'[c] = box[c]]_approvalVars
  BY <1>1
<1>3. QED
  BY <1>2, ApprovalInvariance, PTL DEF ApprovalSpec, FirstAnswerStands

-----------------------------------------------------------------------------
(* The handler implements the approval gate.                               *)

\* Steps that move no call and grant nothing are stutters of the gate.
LEMMA StutterSteps ==
  ASSUME pc' = pc, granted' = granted
  PROVE  UNCHANGED Gate!vars
  BY DEF Gate!vars, GateStatus

\* A call that moves from one place to another moves alone.
LEMMA CallMoves ==
  ASSUME TypeOK, NEW c \in Calls, NEW p, pc' = [pc EXCEPT ![c] = p]
  PROVE  [d \in Calls |-> GateStatus(d)]' =
            [[d \in Calls |-> GateStatus(d)] EXCEPT ![c] = GateStatus(c)']
<1>1. \A d \in Calls : d # c => pc'[d] = pc[d]
  BY DEF TypeOK
<1>2. \A d \in Calls : d # c => GateStatus(d)' = GateStatus(d)
  BY <1>1 DEF GateStatus
<1>3. QED
  BY <1>2

\* Every step of a call is a step of the gate.
LEMMA CallRefines ==
  ASSUME ApprovalInv, NEW c \in Calls, CallStep(c)
  PROVE  [Gate!Next]_(Gate!vars)
<1> DEFINE st == [d \in Calls |-> GateStatus(d)]
<1> USE DEF ApprovalInv, TypeOK
<1>1. PICK p : pc' = [pc EXCEPT ![c] = p]
  BY DEF CallStep, CallOffline, CallRegister, TakeSendLock, SendOk, SendFail, Wake, Expire,
         ExpireReturn, Cancel
<1>2. granted' = granted
  BY DEF CallStep, CallOffline, CallRegister, TakeSendLock, SendOk, SendFail, Wake, Expire,
         ExpireReturn, Cancel
<1>3. st' = [st EXCEPT ![c] = GateStatus(c)']
  BY <1>1, CallMoves
<1>4. st[c] = GateStatus(c)
  OBVIOUS
<1>5. CASE CallOffline(c)
  <2>1. GateStatus(c) = "idle" /\ GateStatus(c)' = "denied"
    BY <1>5 DEF CallOffline, GateStatus, Live
  <2>2. Gate!Refuse(c)
    BY <1>2, <1>3, <1>4, <2>1 DEF Gate!Refuse
  <2>3. QED
    BY <2>2 DEF Gate!Next
<1>6. CASE CallRegister(c)
  <2>1. GateStatus(c) = "idle" /\ GateStatus(c)' = "open"
    BY <1>6 DEF CallRegister, GateStatus, Live
  <2>2. Gate!Ask(c)
    BY <1>2, <1>3, <1>4, <2>1 DEF Gate!Ask
  <2>3. QED
    BY <2>2 DEF Gate!Next
<1>7. CASE TakeSendLock(c) \/ SendOk(c) \/ Expire(c)
  <2>1. GateStatus(c) = "open" /\ GateStatus(c)' = "open"
    BY <1>7 DEF TakeSendLock, SendOk, Expire, GateStatus, Live
  <2>2. st' = st
    BY <1>3, <1>4, <2>1
  <2>3. QED
    BY <1>2, <2>2 DEF Gate!vars
<1>8. CASE SendFail(c) \/ Cancel(c)
  <2>1. GateStatus(c) = "open" /\ GateStatus(c)' = "denied"
    BY <1>8 DEF SendFail, Cancel, GateStatus, Live
  <2>2. Gate!Settle(c)
    BY <1>2, <1>3, <1>4, <2>1 DEF Gate!Settle
  <2>3. QED
    BY <2>2 DEF Gate!Next
<1>9. CASE Wake(c) \/ ExpireReturn(c)
  <2>1. GateStatus(c) = "open"
    BY <1>9 DEF Wake, ExpireReturn, GateStatus, Live
  <2>2. \/ GateStatus(c)' = "approved" /\ c \in granted
        \/ GateStatus(c)' = "denied"
    BY <1>9 DEF Wake, ExpireReturn, Verdict, GateStatus, Live, BoxIsGranted
  <2>3. Gate!Settle(c)
    BY <1>2, <1>3, <1>4, <2>1, <2>2 DEF Gate!Settle
  <2>4. QED
    BY <2>3 DEF Gate!Next
<1>10. QED
  BY <1>5, <1>6, <1>7, <1>8, <1>9 DEF CallStep

\* A reply grants an open question or does nothing the gate can see.
LEMMA ReplyRefines ==
  ASSUME ApprovalInv, NEW c \in Calls, NEW allowed \in BOOLEAN, ReplyStep(c, allowed)
  PROVE  [Gate!Next]_(Gate!vars)
<1>1. CASE Resolve(c, allowed)
  BY <1>1, StutterSteps DEF Resolve
<1>2. CASE Reply(c, allowed)
  <2>1. pc' = pc
    BY <1>2 DEF Reply
  <2>2. CASE ~allowed
    BY <1>2, <2>1, <2>2, StutterSteps DEF Reply
  <2>3. CASE allowed
    <3>1. GateStatus(c) = "open"
      BY <1>2 DEF Reply, GateStatus, Live
    <3>2. granted' = granted \union {c}
      BY <1>2, <2>3 DEF Reply
    <3>3. [d \in Calls |-> GateStatus(d)]' = [d \in Calls |-> GateStatus(d)]
      BY <2>1 DEF GateStatus
    <3>4. Gate!Grant(c)
      BY <3>1, <3>2, <3>3 DEF Gate!Grant
    <3>5. QED
      BY <3>4 DEF Gate!Next
  <2>4. QED
    BY <2>2, <2>3
<1>3. QED
  BY <1>1, <1>2 DEF ReplyStep

\* The relay handler implements the safety part of the approval gate.
THEOREM ImplementsGate == ApprovalSpec => GateSafety
<1>1. ApprovalInit => Gate!Init
  <2> SUFFICES ASSUME ApprovalInit PROVE Gate!Init
    OBVIOUS
  <2>1. \A c \in Calls : GateStatus(c) = "idle"
    BY DEF ApprovalInit, GateStatus, Live
  <2>2. [c \in Calls |-> GateStatus(c)] = [c \in Calls |-> "idle"]
    BY <2>1
  <2>3. QED
    BY <2>2 DEF ApprovalInit, Gate!Init
<1>2. ApprovalInv /\ [ApprovalNext]_approvalVars => [Gate!Next]_(Gate!vars)
  <2> SUFFICES ASSUME ApprovalInv, [ApprovalNext]_approvalVars PROVE [Gate!Next]_(Gate!vars)
    OBVIOUS
  <2>1. CASE \E s \in Sockets : ConnStep(s)
    <3>1. pc' = pc /\ granted' = granted
      BY <2>1 DEF ConnStep, Bind, Drop, Unbind, StreamLock, StreamUnlock
    <3>2. QED
      BY <3>1, StutterSteps
  <2>2. CASE \E c \in Calls : CallStep(c)
    BY <2>2, CallRefines
  <2>3. CASE \E c \in Calls, allowed \in BOOLEAN : ReplyStep(c, allowed)
    BY <2>3, ReplyRefines
  <2>4. CASE UNCHANGED approvalVars
    BY <2>4, StutterSteps DEF approvalVars
  <2>5. QED
    BY <2>1, <2>2, <2>3, <2>4 DEF ApprovalNext
<1>3. QED
  BY <1>1, <1>2, ApprovalInvariance, PTL DEF ApprovalSpec, GateSafety, Gate!Safety
=============================================================================
