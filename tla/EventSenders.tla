---------------------------- MODULE EventSenders ----------------------------
(***************************************************************************)
(* The SDK's event senders (hexgate/tracing/_senders.py): a registry with  *)
(* one AuditSender per API key, threads that configure and emit, the queue *)
(* and worker of each sender (OpenTelemetry's BatchSpanProcessor), and     *)
(* shutdown.  What an export meets is left to the composing module.        *)
(***************************************************************************)
EXTENDS Naturals, Sequences

CONSTANTS
    Threads,            \* threads of a host process that run agents
    Keys,               \* API keys they may run under
    Senders,            \* AuditSender objects that may be made
    NoSender,           \* none
    NoApiKey,           \* the key of a sender that is not made
    Events,             \* events, each emitted once
    NoEvent,            \* none
    MaxQueue            \* _max_queue_size

ASSUME SendersAssumption == NoSender \notin Senders /\ NoApiKey \notin Keys /\ NoEvent \notin Events
ASSUME QueueAssumption == MaxQueue \in Nat \ {0}

VARIABLES
    registry,           \* _senders
    key,                \* each sender's _api_key
    life,               \* unmade, open, closing (_closing), shut (its provider), ended
    queue,              \* _span_queue
    flight,             \* the batch its worker is exporting
    thread,             \* each thread: its key, its sender, its step, its event
    under,              \* the key each event was emitted under
    stop,               \* shutdown: its step and the senders it took
    exit                \* the interpreter: no, its atexit hooks (hooks), gone

senderVars == <<registry, key, life, queue, flight, thread, under, stop, exit>>

Made == {s \in Senders : life[s] # "unmade"}
Registered == {registry[k] : k \in Keys} \ {NoSender}
Fresh == [step |-> "new", key |-> NoApiKey, sender |-> NoSender, event |-> NoEvent]

SendersInit ==
    /\ registry = [k \in Keys |-> NoSender]
    /\ key = [s \in Senders |-> NoApiKey]
    /\ life = [s \in Senders |-> "unmade"]
    /\ queue = [s \in Senders |-> << >>]
    /\ flight = [s \in Senders |-> {}]
    /\ thread = [h \in Threads |-> Fresh]
    /\ under = [e \in Events |-> NoApiKey]
    /\ stop = [step |-> "none", of |-> {}]
    /\ exit = "no"

-----------------------------------------------------------------------------
(* Threads.                                                                *)

\* get_or_create_sender, up to the lookup: configure when an agent is made, and
\* again for each usage event.
LookUp(h, k) ==
    /\ exit = "no"
    /\ thread[h].step \in {"new", "idle"}
    /\ thread[h].key \in {NoApiKey, k}
    /\ thread' = [thread EXCEPT ![h] =
          IF registry[k] # NoSender
          THEN [@ EXCEPT !.step = "idle", !.key = k, !.sender = registry[k]]
          ELSE [@ EXCEPT !.step = "missed", !.key = k]]
    /\ UNCHANGED <<registry, key, life, queue, flight, under, stop, exit>>

\* The rest of it: a sender is made and registered, over another thread's if that
\* one was faster.
Make(h) ==
    /\ thread[h].step = "missed"
    /\ \E s \in Senders \ Made :
        /\ key' = [key EXCEPT ![s] = thread[h].key]
        /\ life' = [life EXCEPT ![s] = "open"]
        /\ registry' = [registry EXCEPT ![thread[h].key] = s]
        /\ thread' = [thread EXCEPT ![h].step = "idle", ![h].sender = s]
    /\ UNCHANGED <<queue, flight, under, stop, exit>>

\* emit: nothing once the sender is closing.
Emit(h, e) ==
    /\ exit = "no"
    /\ thread[h].step = "idle"
    /\ under[e] = NoApiKey
    /\ under' = [under EXCEPT ![e] = thread[h].key]
    /\ thread' = IF life[thread[h].sender] = "open"
                 THEN [thread EXCEPT ![h].step = "emitting", ![h].event = e]
                 ELSE thread
    /\ UNCHANGED <<registry, key, life, queue, flight, stop, exit>>

\* The newest spans that fit.
Newest(q) == IF Len(q) > MaxQueue THEN Tail(q) ELSE q

\* Its span reaches the queue, a full one losing its oldest, unless the processor
\* was shut in between: then it is dropped.
Enqueue(h) ==
    /\ thread[h].step = "emitting"
    /\ thread' = [thread EXCEPT ![h].step = "idle", ![h].event = NoEvent]
    /\ LET s == thread[h].sender IN
       queue' = IF life[s] \in {"open", "closing"}
                THEN [queue EXCEPT ![s] = Newest(Append(@, thread[h].event))]
                ELSE queue
    /\ UNCHANGED <<registry, key, life, flight, under, stop, exit>>

-----------------------------------------------------------------------------
(* Workers.                                                                *)

\* The worker takes what is queued, on its timer or when told to end.
TakeBatch(s) ==
    /\ life[s] \in {"open", "closing", "shut"}
    /\ queue[s] # << >> /\ flight[s] = {}
    /\ flight' = [flight EXCEPT ![s] = {queue[s][i] : i \in DOMAIN queue[s]}]
    /\ queue' = [queue EXCEPT ![s] = << >>]
    /\ UNCHANGED <<registry, key, life, thread, under, stop, exit>>

\* The export is over: acknowledged, refused, or given up within its timeout.
BatchDone(s) ==
    /\ flight[s] # {}
    /\ flight' = [flight EXCEPT ![s] = {}]
    /\ UNCHANGED <<registry, key, life, queue, thread, under, stop, exit>>

\* Told to end, the worker has nothing left to send.
WorkerEnds(s) ==
    /\ life[s] = "shut"
    /\ queue[s] = << >> /\ flight[s] = {}
    /\ life' = [life EXCEPT ![s] = "ended"]
    /\ UNCHANGED <<registry, key, queue, flight, thread, under, stop, exit>>

\* The join of the worker times out and the exporter is shut: what is left is lost.
JoinTimesOut(s) ==
    /\ life[s] = "shut"
    /\ life' = [life EXCEPT ![s] = "ended"]
    /\ queue' = [queue EXCEPT ![s] = << >>]
    /\ flight' = [flight EXCEPT ![s] = {}]
    /\ UNCHANGED <<registry, key, thread, under, stop, exit>>

-----------------------------------------------------------------------------
(* shutdown and exit.                                                      *)

\* shutdown: the senders are listed, ...
Shutdown ==
    /\ exit = "no"
    /\ stop.step = "none"
    /\ stop' = [step |-> "listed", of |-> Registered]
    /\ UNCHANGED <<registry, key, life, queue, flight, thread, under, exit>>

\* ... the registry is cleared, ...
Clear ==
    /\ exit = "no"
    /\ stop.step = "listed"
    /\ registry' = [k \in Keys |-> NoSender]
    /\ stop' = [stop EXCEPT !.step = "closing"]
    /\ UNCHANGED <<key, life, queue, flight, thread, under, exit>>

\* ... and each is closed: no more emits, ...
Close(s) ==
    /\ exit = "no"
    /\ stop.step = "closing" /\ s \in stop.of
    /\ life[s] = "open"
    /\ life' = [life EXCEPT ![s] = "closing"]
    /\ UNCHANGED <<registry, key, queue, flight, thread, under, stop, exit>>

\* Faulty variant: nothing but the registry's senders is shut at exit.
RegisteredHooks == Registered

\* The providers with an atexit hook: shutdown_on_exit is left at its default.
Hooked == Made

\* ... then its provider is shut in a thread.  At exit its own hook does it.
ShutProvider(s) ==
    /\ \/ life[s] = "closing"
       \/ exit = "hooks" /\ s \in Hooked /\ life[s] = "open"
    /\ life' = [life EXCEPT ![s] = "shut"]
    /\ UNCHANGED <<registry, key, queue, flight, thread, under, stop, exit>>

\* It may be called again.
ShutdownReturns ==
    /\ exit = "no"
    /\ stop.step = "closing"
    /\ \A s \in stop.of : life[s] = "ended"
    /\ stop' = [step |-> "none", of |-> {}]
    /\ UNCHANGED <<registry, key, life, queue, flight, thread, under, exit>>

\* The interpreter ends, with or without a shutdown, or in the middle of one: its
\* threads are done and the hooks run.
Exit ==
    /\ exit = "no"
    /\ \A h \in Threads : thread[h].step \in {"new", "idle"}
    /\ exit' = "hooks"
    /\ UNCHANGED <<registry, key, life, queue, flight, thread, under, stop>>

\* The process is gone, its workers, which are daemons, with it.
Gone ==
    /\ exit = "hooks"
    /\ \A s \in Hooked : life[s] = "ended"
    /\ \A s \in Made : life[s] \notin {"closing", "shut"}
    /\ exit' = "gone"
    /\ UNCHANGED <<registry, key, life, queue, flight, thread, under, stop>>

-----------------------------------------------------------------------------
\* When the process is gone no event is left in a queue or half sent, whatever
\* became of its sender: replaced in the registry by another thread's, made after
\* shutdown cleared it by an event that came late, or listed by a shutdown that was
\* abandoned (_senders.py, get_or_create_sender, shutdown and the atexit hook).
NothingLeftBehind == exit = "gone" => \A s \in Senders : queue[s] = << >> /\ flight[s] = {}
=============================================================================
