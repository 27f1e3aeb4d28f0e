------------------------------ MODULE Enricher ------------------------------
(***************************************************************************)
(* EnricherJob of platform/api/hexgate_api/jobs/enricher: the members of a *)
(* consumer group that move spans from one Kafka partition to ClickHouse,  *)
(* rejects to the dead-letter topic, and commit the offset last.  One      *)
(* action is the code between two awaits of _process_poll, an attempt of   *)
(* _retry_until_acked taken as a whole.                                    *)
(***************************************************************************)
EXTENDS Naturals, Sequences

CONSTANTS
    Members,            \* processes of the group
    Nobody,             \* the partition is not assigned
    Events,             \* spans that map to a valid event
    Edge,               \* those whose occurred_at is near an end of the window
    Rejected,           \* spans map_span refuses whenever it sees them
    Whole,              \* stands for the bytes of an undecodable record
    Id,                 \* (project_id, event_id) of an event
    Table,              \* which of the three inserts carries an event
    Records,            \* what the collector, or a foreign producer, may send
    MaxLog,             \* bound: records produced
    MaxChurn            \* bound: crashes, stops and rebalances

Spans == Events \union Rejected

ASSUME MembersAssumption == Nobody \notin Members
ASSUME SpansAssumption ==
    Events \intersect Rejected = {} /\ Whole \notin Spans /\ Edge \subseteq Events
ASSUME TableAssumption == Table \in [Events -> 1..3]
ASSUME RecordsAssumption ==
    Records \subseteq [form : {"keyed", "keyless", "bytes"}, spans : SUBSET Spans]
ASSUME BoundsAssumption == MaxLog \in Nat /\ MaxChurn \in Nat

VARIABLES
    log,                \* the partition of the raw topic
    committed,          \* the group's committed offset
    owner,              \* the member the partition is assigned to
    pos,                \* each consumer's position
    pc,                 \* where each run is
    batch,              \* the offsets of the records of the current poll
    events,             \* its events, deduplicated
    left,               \* its envelopes that have not been sent: dlq_messages
    stop,               \* _stop
    window,             \* where each occurred_at is in [now - 90 d, now + 5 min]
    rows,               \* ClickHouse, as merged
    dlq,                \* the dead-letter topic, repeats not counted
    churn               \* crashes, stops and rebalances so far (bound)

vars == <<log, committed, owner, pos, pc, batch, events, left, stop, window, rows, dlq, churn>>

kafka == <<log, committed, owner, pos>>
stores == <<rows, dlq>>

Units(r) == IF r.form = "bytes" THEN {Whole} ELSE r.spans
Mappable(r) == IF r.form = "keyed" THEN r.spans \intersect Events ELSE {}
Same(e, f) == e \in Events /\ f \in Events /\ Id[e] = Id[f]

TypeOK ==
    /\ log \in Seq(Records)
    /\ committed \in 0..Len(log)
    /\ owner \in Members \union {Nobody}
    /\ pos \in [Members -> 0..Len(log)]
    /\ pc \in [Members -> {"down", "polling", "resolve", "insert", "park"}]
    /\ batch \in [Members -> SUBSET (1..Len(log))]
    /\ events \in [Members -> SUBSET Events]
    /\ left \in [Members -> SUBSET ((1..Len(log)) \X (Spans \union {Whole}))]
    /\ stop \in [Members -> BOOLEAN]
    /\ window \in [Events -> {"early", "in", "late"}]
    /\ rows \subseteq Events
    /\ dlq \subseteq (1..Len(log)) \X (Spans \union {Whole})
    /\ churn \in 0..MaxChurn

Init ==
    /\ log = << >>
    /\ committed = 0
    /\ owner = Nobody
    /\ pos = [m \in Members |-> 0]
    /\ pc = [m \in Members |-> "down"]
    /\ batch = [m \in Members |-> {}]
    /\ events = [m \in Members |-> {}]
    /\ left = [m \in Members |-> {}]
    /\ stop = [m \in Members |-> FALSE]
    /\ window \in {w \in [Events -> {"early", "in"}] : \A e \in Events \ Edge : w[e] = "in"}
    /\ rows = {}
    /\ dlq = {}
    /\ churn = 0

-----------------------------------------------------------------------------
(* Around the job: producers, the clock, the consumer group, the process.  *)

\* The collector's exporter appends a record.  A retry of a send that landed
\* appends it again.
Produce(r) ==
    /\ Len(log) < MaxLog
    /\ log' = Append(log, r)
    /\ UNCHANGED <<committed, owner, pos, pc, batch, events, left, stop, window, stores, churn>>

\* Time passes for an event: too far in the future, then in the window, then
\* older than the retention.
Tick(e) ==
    /\ \/ window[e] = "early" /\ window' = [window EXCEPT ![e] = "in"]
       \/ window[e] = "in" /\ window' = [window EXCEPT ![e] = "late"]
    /\ UNCHANGED <<kafka, pc, batch, events, left, stop, stores, churn>>

\* The partition goes to m, whose position restarts at the committed offset.
AssignTo(m) ==
    /\ owner' = m
    /\ pos' = [pos EXCEPT ![m] = committed]

\* Nobody has the partition and a running member gets it.
Assign(m) ==
    /\ owner = Nobody
    /\ pc[m] # "down"
    /\ AssignTo(m)
    /\ UNCHANGED <<log, committed, pc, batch, events, left, stop, window, stores, churn>>

\* The group rebalances while members are running, whatever they are doing.
Rebalance(m) ==
    /\ churn < MaxChurn
    /\ owner # Nobody /\ pc[m] # "down"
    /\ AssignTo(m)
    /\ churn' = churn + 1
    /\ UNCHANGED <<log, committed, pc, batch, events, left, stop, window, stores>>

\* The locals of _process_poll are gone.
Forget(m) ==
    /\ batch' = [batch EXCEPT ![m] = {}]
    /\ events' = [events EXCEPT ![m] = {}]
    /\ left' = [left EXCEPT ![m] = {}]

\* The process is gone; the group notices and unassigns the partition.
Down(m) ==
    /\ pc' = [pc EXCEPT ![m] = "down"]
    /\ owner' = IF owner = m THEN Nobody ELSE owner
    /\ Forget(m)

\* The process dies, or an exception escapes run.
Crash(m) ==
    /\ churn < MaxChurn
    /\ pc[m] # "down"
    /\ Down(m)
    /\ churn' = churn + 1
    /\ UNCHANGED <<log, committed, pos, stop, window, stores>>

\* SIGTERM: request_stop.
Stop(m) ==
    /\ churn < MaxChurn
    /\ pc[m] # "down" /\ ~stop[m]
    /\ stop' = [stop EXCEPT ![m] = TRUE]
    /\ churn' = churn + 1
    /\ UNCHANGED <<kafka, pc, batch, events, left, window, stores>>

\* A process starts (restart: unless-stopped) and joins the group.
Start(m) ==
    /\ pc[m] = "down"
    /\ pc' = [pc EXCEPT ![m] = "polling"]
    /\ stop' = [stop EXCEPT ![m] = FALSE]
    /\ UNCHANGED <<kafka, batch, events, left, window, stores, churn>>

\* The loop of run sees the stop and the finally block closes the clients.
Leave(m) ==
    /\ pc[m] = "polling"
    /\ stop[m]
    /\ Down(m)
    /\ UNCHANGED <<log, committed, pos, stop, window, stores, churn>>

-----------------------------------------------------------------------------
(* _process_poll.                                                          *)

\* What map_span accepts now, and what is parked: an undecodable record as a
\* whole, every span of a keyless one, every span map_span refuses.
Accepted(o) == {e \in Mappable(log[o]) : window[e] = "in"}
Parked(o) == {o} \X (Units(log[o]) \ Accepted(o))

\* One event for each (project_id, event_id) of the poll.  The code keeps the
\* first; which one comes first is left open.
FirstCopies(S) ==
    {K \in SUBSET S : /\ \A e \in S : \E k \in K : Id[k] = Id[e]
                      /\ \A j, k \in K : Id[j] = Id[k] => j = k}

\* getmany returns some of the records after the position, and they are
\* decoded, mapped and deduplicated before the next await.
Poll(m) ==
    /\ pc[m] = "polling"
    /\ ~stop[m]
    /\ owner = m
    /\ \E n \in (pos[m] + 1)..Len(log) :
        /\ pos' = [pos EXCEPT ![m] = n]
        /\ batch' = [batch EXCEPT ![m] = (pos[m] + 1)..n]
        /\ \E K \in FirstCopies(UNION {Accepted(o) : o \in batch'[m]}) :
              events' = [events EXCEPT ![m] = K]
        /\ left' = [left EXCEPT ![m] = UNION {Parked(o) : o \in batch'[m]}]
    /\ pc' = [pc EXCEPT ![m] = "resolve"]
    /\ UNCHANGED <<log, committed, owner, stop, window, stores, churn>>

\* Faulty variant: one failure and the poll is given up.
RetryOnce(m) == pc' = [pc EXCEPT ![m] = "polling"] /\ Forget(m)

\* An attempt failed: retry, unless a stop has come in.
Retry(m) ==
    IF stop[m]
    THEN pc' = [pc EXCEPT ![m] = "polling"] /\ Forget(m)
    ELSE UNCHANGED <<pc, batch, events, left>>

\* resolve_versions: any answer will do, unknown agents get an empty version.
Resolve(m) ==
    /\ pc[m] = "resolve"
    /\ pc' = [pc EXCEPT ![m] = "insert"]
    /\ UNCHANGED <<kafka, batch, events, left, stop, window, stores, churn>>

ResolveFails(m) ==
    /\ pc[m] = "resolve"
    /\ Retry(m)
    /\ UNCHANGED <<kafka, stop, window, stores, churn>>

\* The three inserts are acked.
Insert(m) ==
    /\ pc[m] = "insert"
    /\ rows' = rows \union events[m]
    /\ pc' = [pc EXCEPT ![m] = "park"]
    /\ UNCHANGED <<kafka, batch, events, left, stop, window, dlq, churn>>

\* What has landed when one of them fails: the tables before it, and any
\* blocks of its own.
Landed(S) == {L \in SUBSET S : \A e \in L, f \in S : Table[f] < Table[e] => f \in L}

\* One of them fails.
InsertFails(m) ==
    /\ pc[m] = "insert"
    /\ \E L \in Landed(events[m]) : rows' = rows \union L
    /\ Retry(m)
    /\ UNCHANGED <<kafka, stop, window, dlq, churn>>

\* One envelope is acked by every replica.
Park(m) ==
    /\ pc[m] = "park"
    /\ \E u \in left[m] :
        /\ dlq' = dlq \union {u}
        /\ left' = [left EXCEPT ![m] = @ \ {u}]
    /\ UNCHANGED <<kafka, pc, batch, events, stop, window, rows, churn>>

\* A send fails, and may have landed all the same.
ParkFails(m) ==
    /\ pc[m] = "park"
    /\ \E u \in left[m] : dlq' \in {dlq, dlq \union {u}}
    /\ Retry(m)
    /\ UNCHANGED <<kafka, stop, window, rows, churn>>

\* Faulty variant: the broker takes the commit of a member that lost the
\* partition.
CommitUnfenced(m) ==
    /\ pc[m] = "park"
    /\ left[m] = {}
    /\ committed' = pos[m]
    /\ pc' = [pc EXCEPT ![m] = "polling"]
    /\ Forget(m)
    /\ UNCHANGED <<log, owner, pos, stop, window, stores, churn>>

\* Commit the position, unless a rebalance took the partition.
Commit(m) ==
    /\ pc[m] = "park"
    /\ left[m] = {}
    /\ committed' = IF owner = m THEN pos[m] ELSE committed
    /\ pc' = [pc EXCEPT ![m] = "polling"]
    /\ Forget(m)
    /\ UNCHANGED <<log, owner, pos, stop, window, stores, churn>>

-----------------------------------------------------------------------------
MemberStep(m) ==
    \/ Assign(m) \/ Rebalance(m) \/ Crash(m) \/ Stop(m) \/ Start(m) \/ Leave(m)
    \/ Poll(m) \/ Resolve(m) \/ ResolveFails(m) \/ Insert(m) \/ InsertFails(m)
    \/ Park(m) \/ ParkFails(m) \/ Commit(m)

Next ==
    \/ \E r \in Records : Produce(r)
    \/ \E e \in Edge : Tick(e)
    \/ \E m \in Members : MemberStep(m)

\* A supervisor restarts members, the group assigns the partition, and the
\* stores come back: an attempt that is retried for ever succeeds.
Fairness ==
    \A m \in Members :
        /\ WF_vars(Start(m)) /\ SF_vars(Assign(m)) /\ WF_vars(Leave(m))
        /\ WF_vars(Poll(m)) /\ WF_vars(Resolve(m)) /\ WF_vars(Insert(m))
        /\ WF_vars(Park(m)) /\ WF_vars(Commit(m))

Spec == Init /\ [][Next]_vars

FairSpec == Spec /\ Fairness

-----------------------------------------------------------------------------
Sink == INSTANCE EventSink WITH acked <- committed

\* Nothing is lost: every span below the committed offset is a row, or has its
\* envelope, whatever crashed, failed or moved in between (the ordering
\* contract at the head of consumer.py).
CommittedIsSettled == \A o \in 1..committed : Sink!Settled(o)

\* No record is skipped between the committed offset and the owner's position:
\* those there are belong to the poll under way, or to one given up for a stop,
\* after which the member polls no more.
NoGap ==
    \A m \in Members :
        owner = m =>
            /\ committed <= pos[m]
            /\ \/ pos[m] = committed
               \/ pc[m] \in {"resolve", "insert", "park"} /\ batch[m] = (committed + 1)..pos[m]
               \/ pc[m] = "polling" /\ stop[m]

\* Rows are only made of attributed spans: an event that never came with a
\* project key is in no tenant's table.
RowsAreAttributed == \A e \in rows : \E o \in DOMAIN log : e \in Mappable(log[o])

\* Crashes, replays, rebalances and concurrent members are invisible in what
\* the stores hold and the group acknowledges.
SinkSpec == Sink!Spec

\* Every record is acknowledged in the end (consumer.py, _retry_until_acked): the log
\* is bounded, so that is to say that nothing stays behind for ever.
EverythingSettles == <>[](committed = Len(log))
=============================================================================
