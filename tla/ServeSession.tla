---------------------------- MODULE ServeSession ----------------------------
(***************************************************************************)
(* The chat session of a serve process (cli/serve.py, cli/state.py): one   *)
(* conversation that outlives connections, a task per inbound frame, a     *)
(* lock per connection that serialises the chat turns, resets that do not  *)
(* wait for it.  Tasks of one event loop: a step runs to the next await.   *)
(***************************************************************************)
EXTENDS Naturals, Sequences, SequencesExt, FiniteSets

CONSTANTS
    Turns,              \* chat messages, in the order they are typed
    MaxEvents,          \* bound: stream events of a turn before its last
    Nobody              \* nobody holds the lock; no run

ASSUME TurnsAssumption == Turns \subseteq Nat \ {0} /\ MaxEvents \in Nat /\ Nobody \notin Turns

VARIABLES
    phase,              \* _serve_loop: connected, draining its tasks, or between two
    down,               \* frames on their way to the process
    messages,           \* ChatState.messages
    run,                \* ChatState.current_run: what was asked, whose events it shows
    stage,              \* turn -> where its task is
    waiting,            \* tasks waiting for chat_lock, in order
    holder,             \* the task that holds chat_lock
    input,              \* running turn -> what the model was given for it
    events,             \* stream events of the running turn so far
    epoch,              \* resets so far
    cut,                \* the turns that were running at the last reset
    memory              \* questions in the session that ADK keeps for GoogleServeDriver

sessionVars == <<phase, down, messages, run, stage, waiting, holder, input, events, epoch, cut, memory>>

\* A message and the epoch in which its turn was asked.
User(t, e) == [role |-> "user", turn |-> t, epoch |-> e]
Answer(t, e) == [role |-> "assistant", turn |-> t, epoch |-> e]
Reset == 0
AskedIn(t) == Last(input[t]).epoch

Running == {t \in Turns : stage[t] = "running"}
Alive == Running \union {t \in Turns : stage[t] = "waiting"}

SessionInit ==
    /\ phase = "off" /\ down = <<>>
    /\ messages = <<>> /\ run = Nobody
    /\ stage = [t \in Turns |-> "typed"]
    /\ waiting = <<>> /\ holder = Nobody
    /\ input = [t \in Turns |-> <<>>]
    /\ events = 0 /\ epoch = 0 /\ cut = {} /\ memory = {}

-----------------------------------------------------------------------------
(* _serve_loop *)

Connected ==
    /\ phase = "off"
    /\ phase' = "on"
    /\ holder' = Nobody
    /\ UNCHANGED <<down, messages, run, stage, waiting, input, events, epoch, cut, memory>>

\* The read loop ends: what was not read is lost, tasks get a last second.
Lost ==
    /\ phase = "on"
    /\ phase' = "draining"
    /\ down' = <<>>
    /\ stage' = [t \in Turns |-> IF stage[t] = "sent" THEN "over" ELSE stage[t]]
    /\ UNCHANGED <<messages, run, waiting, holder, input, events, epoch, cut, memory>>

\* It is over, or they are: those left are cancelled and awaited.
Reap ==
    /\ phase = "draining"
    /\ phase' = "off" /\ holder' = Nobody
    /\ stage' = [t \in Turns |-> IF t \in Alive THEN "over" ELSE stage[t]]
    /\ waiting' = <<>> /\ input' = [t \in Turns |-> <<>>] /\ events' = 0
    /\ UNCHANGED <<down, messages, run, epoch, cut, memory>>

\* A chat frame becomes a task that queues for the lock.
ReadChat ==
    /\ phase = "on" /\ down # <<>> /\ Head(down) # Reset
    /\ down' = Tail(down)
    /\ stage' = [stage EXCEPT ![Head(down)] = "waiting"]
    /\ waiting' = Append(waiting, Head(down))
    /\ UNCHANGED <<phase, messages, run, holder, input, events, epoch, cut, memory>>

\* ChatState.clear
Clear == run' = Nobody /\ messages' = <<>>

ReadReset ==
    /\ phase = "on" /\ down # <<>> /\ Head(down) = Reset
    /\ down' = Tail(down)
    /\ Clear
    /\ epoch' = epoch + 1 /\ cut' = Running
    /\ UNCHANGED <<phase, stage, waiting, holder, input, events, memory>>

-----------------------------------------------------------------------------
(* _run_chat_turn *)

\* Faulty variant: nobody waits.
TakeLockFree(t) == stage[t] = "waiting" /\ waiting' = SelectSeq(waiting, LAMBDA w : w # t)

\* asyncio.Lock goes to who waited longest.
TakeLock(t) ==
    /\ holder = Nobody /\ waiting # <<>> /\ t = Head(waiting)
    /\ waiting' = Tail(waiting)

\* Faulty variant: a session once made is kept.
KeptSession(history) == memory

\* _ensure_session: what looks like a conversation's first message gets a new one.
Session(history) == IF Len(history) <= 1 THEN {} ELSE memory

\* start_turn, the history as the turn's input, and the driver's session.
StartTurn(t) ==
    /\ TakeLock(t)
    /\ holder' = t
    /\ stage' = [stage EXCEPT ![t] = "running"]
    /\ messages' = Append(messages, User(t, epoch))
    /\ run' = [asked |-> t, of |-> {}]
    /\ input' = [input EXCEPT ![t] = messages']
    /\ memory' = Session(messages') \union {User(t, epoch)}
    /\ events' = 0
    /\ UNCHANGED <<phase, down, epoch, cut>>

\* apply_event: a run that a reset took away is begun again, about nothing.
Apply(t) == run' = IF run = Nobody THEN [asked |-> Nobody, of |-> {t}] ELSE [run EXCEPT !.of = @ \union {t}]
Release(t) ==
    /\ holder' = (IF holder = t THEN Nobody ELSE holder)
    /\ stage' = [stage EXCEPT ![t] = "over"]
    /\ input' = [input EXCEPT ![t] = <<>>]
    /\ events' = 0

\* An event of the stream: text, reasoning, a tool.
StreamEvent(t) ==
    /\ stage[t] = "running" /\ events < MaxEvents
    /\ events' = events + 1
    /\ Apply(t)
    /\ UNCHANGED <<phase, down, messages, stage, waiting, holder, input, epoch, cut, memory>>

\* RunEndEvent keeps the answer.
RunEnd(t) ==
    /\ stage[t] = "running"
    /\ Apply(t)
    /\ messages' = Append(messages, Answer(t, AskedIn(t)))
    /\ Release(t)
    /\ UNCHANGED <<phase, down, waiting, epoch, cut, memory>>

\* ErrorEvent keeps none.
RunError(t) ==
    /\ stage[t] = "running"
    /\ Apply(t)
    /\ Release(t)
    /\ UNCHANGED <<phase, down, messages, waiting, epoch, cut, memory>>

\* The stream raises: _dispatch_message reports it, the lock is released.
Abort(t) ==
    /\ stage[t] = "running"
    /\ Release(t)
    /\ UNCHANGED <<phase, down, messages, run, waiting, epoch, cut, memory>>

\* The event is applied, sending it raises.
EventUnsent(t) ==
    /\ stage[t] = "running"
    /\ Apply(t)
    /\ Release(t)
    /\ UNCHANGED <<phase, down, messages, waiting, epoch, cut, memory>>

-----------------------------------------------------------------------------
(* Properties. *)

\* One turn at a time (serve.py, chat_lock): the live run never shows events of
\* two turns, and an answer follows its own question in the history, unless a
\* reset has taken the question away; then it stands first.
TurnsDoNotMix ==
    /\ run # Nobody => run.of \subseteq {run.asked} \/ (run.asked = Nobody /\ Cardinality(run.of) = 1)
    /\ \A i \in DOMAIN messages : messages[i].role = "assistant" =>
           IF i = 1 THEN messages[i].epoch < epoch
           ELSE messages[i - 1] = User(messages[i].turn, messages[i].epoch)

\* Nothing said before a reset is given to the model after it (state.py, clear),
\* but for the answer of the turn in whose midst the reset fell; and the framework's
\* own memory is reset with the conversation (adapters/google/streaming.py,
\* _ensure_session; pydantic_ai keeps less): a turn's session holds no question of
\* before the last reset, unless the history begins with such an answer.
ResetForgets ==
    \A t \in Turns : input[t] # <<>> =>
        /\ \A i \in DOMAIN input[t] :
               \/ input[t][i].epoch = AskedIn(t)
               \/ /\ i = 1 /\ input[t][i].role = "assistant"
                  /\ AskedIn(t) = epoch => input[t][i].turn \in cut
        /\ input[t][1].role = "user" => \A m \in memory : m.epoch = AskedIn(t)
=============================================================================
