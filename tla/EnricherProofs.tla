--------------------------- MODULE EnricherProofs ---------------------------
(***************************************************************************)
(* Theorems about Enricher, for any group, any records and any bounds.     *)
(* The inductive invariant follows a poll through its stages: what it has  *)
(* taken from the log is in its hands or in the stores, and once its       *)
(* position could be committed, only in the stores.                        *)
(***************************************************************************)
EXTENDS Enricher, TLAPS

InCycle(m) == pc[m] \in {"resolve", "insert", "park"}

\* Each part of a record of the poll has its envelope, sent or not, or an event
\* of the poll stands for it.
BatchCovered ==
    \A m \in Members : InCycle(m) =>
        \A o \in batch[m] : \A u \in Units(log[o]) :
            \/ <<o, u>> \in dlq \union left[m]
            \/ u \in Mappable(log[o]) /\ \E e \in events[m] : Same(e, u)

\* Envelopes are sent after the rows are in.
RowsFirst == \A m \in Members : pc[m] = "park" => events[m] \subseteq rows

\* What a member holds comes from the log.
EventsKnown ==
    \A m \in Members : \A e \in events[m] :
        \E o \in 1..Len(log) : e \in Mappable(log[o])

LeftKnown ==
    \A m \in Members : \A x \in left[m] :
        \E o \in 1..Len(log) : \E u \in Units(log[o]) : x = <<o, u>>

OwnerRuns == \A m \in Members : owner = m => pc[m] # "down"

IInv ==
    /\ TypeOK
    /\ BatchCovered
    /\ RowsFirst
    /\ EventsKnown
    /\ LeftKnown
    /\ OwnerRuns
    /\ NoGap
    /\ CommittedIsSettled
    /\ RowsAreAttributed

-----------------------------------------------------------------------------
(* What the operators yield.                                               *)

LEMMA PartsOfRecord ==
  ASSUME NEW r \in Records
  PROVE  /\ Mappable(r) \subseteq Units(r)
         /\ Mappable(r) \subseteq Events
         /\ Units(r) \subseteq Spans \union {Whole}
  BY RecordsAssumption DEF Mappable, Units, Spans

LEMMA RecordOf ==
  ASSUME TypeOK, NEW o \in 1..Len(log)
  PROVE  log[o] \in Records
  BY DEF TypeOK

\* What a poll takes of one record: each part is an accepted event or parked.
LEMMA AcceptedOrParked ==
  ASSUME TypeOK, NEW o \in 1..Len(log)
  PROVE  /\ Accepted(o) \subseteq Mappable(log[o])
         /\ Accepted(o) \subseteq Events
         /\ Parked(o) = {<<o, u>> : u \in Units(log[o]) \ Accepted(o)}
         /\ Parked(o) \subseteq (1..Len(log)) \X (Spans \union {Whole})
<1>1. /\ log[o] \in Records
      /\ Mappable(log[o]) \subseteq Events
      /\ Units(log[o]) \subseteq Spans \union {Whole}
  BY RecordOf, PartsOfRecord
<1>2. QED
  BY <1>1 DEF Accepted, Parked

\* What a member holds is forgotten as a whole.
LEMMA ForgetClears ==
  ASSUME TypeOK, NEW m \in Members, Forget(m)
  PROVE  /\ batch' \in [Members -> SUBSET (1..Len(log))]
         /\ events' \in [Members -> SUBSET Events]
         /\ left' \in [Members -> SUBSET ((1..Len(log)) \X (Spans \union {Whole}))]
         /\ batch'[m] = {} /\ events'[m] = {} /\ left'[m] = {}
         /\ \A n \in Members \ {m} :
               batch'[n] = batch[n] /\ events'[n] = events[n] /\ left'[n] = left[n]
  BY DEF TypeOK, Forget

LEMMA InitIInv == Init => IInv
<1> SUFFICES ASSUME Init PROVE IInv
  OBVIOUS
<1>1. TypeOK
  BY BoundsAssumption DEF Init, TypeOK
<1>2. BatchCovered /\ RowsFirst /\ EventsKnown /\ LeftKnown
  BY DEF Init, BatchCovered, InCycle, RowsFirst, EventsKnown, LeftKnown
<1>3. OwnerRuns /\ NoGap /\ CommittedIsSettled /\ RowsAreAttributed
  BY MembersAssumption DEF Init, OwnerRuns, NoGap, CommittedIsSettled, RowsAreAttributed
<1>4. QED
  BY <1>1, <1>2, <1>3 DEF IInv

-----------------------------------------------------------------------------
(* Typing.                                                                 *)

LEMMA TypeStep == TypeOK /\ [Next]_vars => TypeOK'
<1> SUFFICES ASSUME TypeOK, [Next]_vars PROVE TypeOK'
  OBVIOUS
<1> USE DEF TypeOK, kafka, stores
<1>1. ASSUME NEW r \in Records, Produce(r) PROVE TypeOK'
  <2>1. log' \in Seq(Records) /\ Len(log') = Len(log) + 1
    BY <1>1 DEF Produce
  <2>2. QED
    BY <1>1, <2>1 DEF Produce
<1>2. ASSUME NEW e \in Edge, Tick(e) PROVE TypeOK'
  BY <1>2 DEF Tick
<1>3. ASSUME NEW m \in Members, Assign(m) \/ Rebalance(m) PROVE TypeOK'
  <2>1. owner' \in Members /\ pos' \in [Members -> 0..Len(log)]
    BY <1>3 DEF Assign, Rebalance, AssignTo
  <2>2. churn' \in 0..MaxChurn
    BY <1>3, BoundsAssumption DEF Assign, Rebalance
  <2>3. QED
    BY <1>3, <2>1, <2>2 DEF Assign, Rebalance
<1>4. ASSUME NEW m \in Members, Crash(m) \/ Leave(m) PROVE TypeOK'
  <2>1. Forget(m)
    BY <1>4 DEF Crash, Leave, Down
  <2>2. churn' \in 0..MaxChurn
    BY <1>4, BoundsAssumption DEF Crash, Leave
  <2>3. pc' \in [Members -> {"down", "polling", "resolve", "insert", "park"}]
        /\ owner' \in Members \union {Nobody}
    BY <1>4 DEF Crash, Leave, Down
  <2>4. QED
    BY <1>4, <2>1, <2>2, <2>3, ForgetClears DEF Crash, Leave
<1>5. ASSUME NEW m \in Members, Stop(m) \/ Start(m) PROVE TypeOK'
  <2>1. churn' \in 0..MaxChurn
    BY <1>5, BoundsAssumption DEF Stop, Start
  <2>2. stop' \in [Members -> BOOLEAN]
        /\ pc' \in [Members -> {"down", "polling", "resolve", "insert", "park"}]
    BY <1>5 DEF Stop, Start
  <2>3. QED
    BY <1>5, <2>1, <2>2 DEF Stop, Start
<1>6. ASSUME NEW m \in Members, Poll(m) PROVE TypeOK'
  <2>1. PICK n \in (pos[m] + 1)..Len(log) :
           /\ pos' = [pos EXCEPT ![m] = n]
           /\ batch' = [batch EXCEPT ![m] = (pos[m] + 1)..n]
           /\ \E K \in FirstCopies(UNION {Accepted(o) : o \in batch'[m]}) :
                 events' = [events EXCEPT ![m] = K]
           /\ left' = [left EXCEPT ![m] = UNION {Parked(o) : o \in batch'[m]}]
    BY <1>6 DEF Poll
  <2>2. n \in 0..Len(log) /\ batch'[m] \subseteq 1..Len(log)
    BY <2>1
  <2>3. PICK K \in FirstCopies(UNION {Accepted(o) : o \in batch'[m]}) :
           events' = [events EXCEPT ![m] = K]
    BY <2>1
  <2>4. K \subseteq Events
    <3>1. UNION {Accepted(o) : o \in batch'[m]} \subseteq Events
      BY <2>2, AcceptedOrParked
    <3>2. K \subseteq UNION {Accepted(o) : o \in batch'[m]}
      BY <2>3 DEF FirstCopies
    <3>3. QED
      BY <3>1, <3>2
  <2>5. UNION {Parked(o) : o \in batch'[m]} \subseteq (1..Len(log)) \X (Spans \union {Whole})
    BY <2>2, AcceptedOrParked
  <2>6. pos' \in [Members -> 0..Len(log)] /\ batch' \in [Members -> SUBSET (1..Len(log))]
    BY <2>1, <2>2
  <2>7. left' \in [Members -> SUBSET ((1..Len(log)) \X (Spans \union {Whole}))]
    BY <2>1, <2>5
  <2>8. QED
    BY <1>6, <2>3, <2>4, <2>6, <2>7 DEF Poll
<1>7. ASSUME NEW m \in Members, Resolve(m) \/ Insert(m) PROVE TypeOK'
  BY <1>7 DEF Resolve, Insert
<1>8. ASSUME NEW m \in Members, ResolveFails(m) PROVE TypeOK'
  <2>1. Forget(m) \/ UNCHANGED <<batch, events, left>>
    BY <1>8 DEF ResolveFails, Retry
  <2>2. QED
    BY <1>8, <2>1, ForgetClears DEF ResolveFails, Retry
<1>9. ASSUME NEW m \in Members, InsertFails(m) PROVE TypeOK'
  <2>1. Forget(m) \/ UNCHANGED <<batch, events, left>>
    BY <1>9 DEF InsertFails, Retry
  <2>2. rows' \subseteq Events
    BY <1>9 DEF InsertFails, Landed
  <2>3. QED
    BY <1>9, <2>1, <2>2, ForgetClears DEF InsertFails, Retry
<1>10. ASSUME NEW m \in Members, Park(m) PROVE TypeOK'
  BY <1>10 DEF Park
<1>11. ASSUME NEW m \in Members, ParkFails(m) PROVE TypeOK'
  <2>1. Forget(m) \/ UNCHANGED <<batch, events, left>>
    BY <1>11 DEF ParkFails, Retry
  <2>2. dlq' \subseteq (1..Len(log)) \X (Spans \union {Whole})
    BY <1>11 DEF ParkFails
  <2>3. QED
    BY <1>11, <2>1, <2>2, ForgetClears DEF ParkFails, Retry
<1>12. ASSUME NEW m \in Members, Commit(m) PROVE TypeOK'
  <2>1. Forget(m)
    BY <1>12 DEF Commit
  <2>2. QED
    BY <1>12, <2>1, ForgetClears DEF Commit
<1>13. CASE UNCHANGED vars
  BY <1>13 DEF vars
<1>14. QED
  BY <1>1, <1>2, <1>3, <1>4, <1>5, <1>6, <1>7, <1>8, <1>9, <1>10, <1>11, <1>12, <1>13
     DEF Next, MemberStep

\* Every reachable state of the job is well typed.
THEOREM TypeCorrect == Spec => []TypeOK
<1>1. Init => TypeOK
  BY InitIInv DEF IInv
<1>2. QED
  BY <1>1, TypeStep, PTL DEF Spec

-----------------------------------------------------------------------------
(* What one step can do.                                                   *)

\* The log only grows at its end, and the stores lose nothing.
LEMMA StoresGrow ==
  ASSUME TypeOK, [Next]_vars
  PROVE  /\ Len(log) \in Nat /\ Len(log') \in Nat /\ Len(log) <= Len(log')
         /\ \A o \in 1..Len(log) : log'[o] = log[o]
         /\ rows \subseteq rows' /\ dlq \subseteq dlq'
<1>1. CASE \E r \in Records : Produce(r)
  BY <1>1 DEF Produce, TypeOK, stores
<1>2. CASE \E e \in Edge : Tick(e)
  BY <1>2 DEF Tick, TypeOK, kafka, stores
<1>3. ASSUME NEW m \in Members, MemberStep(m)
      PROVE  UNCHANGED log /\ rows \subseteq rows' /\ dlq \subseteq dlq'
  BY <1>3
     DEF MemberStep, Assign, Rebalance, Crash, Stop, Start, Leave, Poll, Resolve,
         ResolveFails, Insert, InsertFails, Park, ParkFails, Commit, kafka, stores
<1>4. CASE UNCHANGED vars
  BY <1>4 DEF vars, TypeOK
<1>5. QED
  BY <1>1, <1>2, <1>3, <1>4 DEF Next, TypeOK

\* A member keeps its poll, handing envelopes over to the dead-letter topic,
\* ...
Keeps(n) ==
    /\ batch'[n] = batch[n] /\ events'[n] = events[n]
    /\ left'[n] \subseteq left[n] /\ left[n] \subseteq left'[n] \union dlq'
    /\ pc'[n] \in {"resolve", "insert", "park"} => InCycle(n)
    /\ pc'[n] = "park" => pc[n] = "park" \/ events[n] \subseteq rows'

\* ... or is done with it, or takes a new one.
Ends(n) ==
    /\ pc'[n] \in {"down", "polling"}
    /\ batch'[n] = {} /\ events'[n] = {} /\ left'[n] = {}

LEMMA MemberCases ==
  ASSUME TypeOK, [Next]_vars, NEW n \in Members
  PROVE  Keeps(n) \/ Ends(n) \/ Poll(n)
<1> USE DEF TypeOK, kafka, stores
<1>1. CASE \E r \in Records : Produce(r)
  BY <1>1 DEF Produce, Keeps, InCycle
<1>2. CASE \E e \in Edge : Tick(e)
  BY <1>2 DEF Tick, Keeps, InCycle
<1>3. CASE UNCHANGED vars
  BY <1>3 DEF vars, Keeps, InCycle
<1>4. ASSUME NEW m \in Members, MemberStep(m)
      PROVE  Keeps(n) \/ Ends(n) \/ Poll(n)
  <2>1. CASE Assign(m) \/ Rebalance(m) \/ Stop(m)
    BY <2>1 DEF Assign, Rebalance, Stop, Keeps, InCycle
  <2>2. CASE Start(m)
    BY <2>2 DEF Start, Keeps, InCycle
  <2>3. CASE Crash(m) \/ Leave(m) \/ Commit(m)
    <3>1. Forget(m) /\ (pc' = [pc EXCEPT ![m] = "down"] \/ pc' = [pc EXCEPT ![m] = "polling"])
      BY <2>3 DEF Crash, Leave, Commit, Down
    <3>2. CASE n = m
      BY <3>1, <3>2, ForgetClears DEF Ends
    <3>3. CASE n # m
      BY <3>1, <3>3, ForgetClears DEF Keeps, InCycle
    <3>4. QED
      BY <3>2, <3>3
  <2>4. CASE Poll(m)
    <3>1. CASE n = m
      BY <2>4, <3>1
    <3>2. CASE n # m
      <4>1. batch'[n] = batch[n] /\ events'[n] = events[n] /\ left'[n] = left[n]
            /\ pc'[n] = pc[n]
        BY <2>4, <3>2 DEF Poll
      <4>2. QED
        BY <4>1 DEF Keeps, InCycle
    <3>3. QED
      BY <3>1, <3>2
  <2>5. CASE Resolve(m) \/ Insert(m)
    BY <2>5 DEF Resolve, Insert, Keeps, InCycle
  <2>6. CASE Park(m)
    BY <2>6 DEF Park, Keeps, InCycle
  <2>7. CASE ResolveFails(m) \/ InsertFails(m) \/ ParkFails(m)
    <3>1. Retry(m)
      BY <2>7 DEF ResolveFails, InsertFails, ParkFails
    <3>2. CASE UNCHANGED <<pc, batch, events, left>>
      BY <3>2 DEF Keeps, InCycle
    <3>3. CASE pc' = [pc EXCEPT ![m] = "polling"] /\ Forget(m) /\ n = m
      BY <3>3, ForgetClears DEF Ends
    <3>4. CASE pc' = [pc EXCEPT ![m] = "polling"] /\ Forget(m) /\ n # m
      BY <3>4, ForgetClears DEF Keeps, InCycle
    <3>5. QED
      BY <3>1, <3>2, <3>3, <3>4 DEF Retry
  <2>8. QED
    BY <1>4, <2>1, <2>2, <2>3, <2>4, <2>5, <2>6, <2>7 DEF MemberStep
<1>5. QED
  BY <1>1, <1>2, <1>3, <1>4 DEF Next

\* What a poll holds when it starts.
LEMMA PollTakes ==
  ASSUME TypeOK, NEW m \in Members, Poll(m)
  PROVE  /\ pos'[m] \in (pos[m] + 1)..Len(log)
         /\ batch'[m] = (pos[m] + 1)..pos'[m]
         /\ batch'[m] \subseteq 1..Len(log)
         /\ events'[m] \subseteq UNION {Accepted(o) : o \in batch'[m]}
         /\ \A e \in UNION {Accepted(o) : o \in batch'[m]} : \E k \in events'[m] : Id[k] = Id[e]
         /\ left'[m] = UNION {Parked(o) : o \in batch'[m]}
         /\ pc'[m] = "resolve" /\ UNCHANGED <<log, committed, owner, stop>>
         /\ pc[m] = "polling" /\ ~stop[m] /\ owner = m
         /\ \A n \in Members \ {m} : pos'[n] = pos[n] /\ pc'[n] = pc[n] /\ batch'[n] = batch[n]
<1>1. PICK n \in (pos[m] + 1)..Len(log) :
         /\ pos' = [pos EXCEPT ![m] = n]
         /\ batch' = [batch EXCEPT ![m] = (pos[m] + 1)..n]
         /\ \E K \in FirstCopies(UNION {Accepted(o) : o \in batch'[m]}) :
               events' = [events EXCEPT ![m] = K]
         /\ left' = [left EXCEPT ![m] = UNION {Parked(o) : o \in batch'[m]}]
  BY DEF Poll
<1>2. batch'[m] = (pos[m] + 1)..n /\ pos'[m] = n /\ batch'[m] \subseteq 1..Len(log)
  BY <1>1 DEF TypeOK
<1>3. PICK K \in FirstCopies(UNION {Accepted(o) : o \in batch'[m]}) : events'[m] = K
  BY <1>1 DEF TypeOK
<1>4. left'[m] = UNION {Parked(o) : o \in batch'[m]}
  BY <1>1 DEF TypeOK
<1>5. /\ events'[m] \subseteq UNION {Accepted(o) : o \in batch'[m]}
      /\ \A e \in UNION {Accepted(o) : o \in batch'[m]} : \E k \in events'[m] : Id[k] = Id[e]
  BY <1>3 DEF FirstCopies
<1>6. /\ pc'[m] = "resolve" /\ UNCHANGED <<log, committed, owner, stop>>
      /\ pc[m] = "polling" /\ ~stop[m] /\ owner = m
  BY DEF Poll, TypeOK
<1>7. \A k \in Members \ {m} : pos'[k] = pos[k] /\ pc'[k] = pc[k] /\ batch'[k] = batch[k]
  BY <1>1 DEF Poll, TypeOK
<1>8. QED
  BY <1>2, <1>4, <1>5, <1>6, <1>7

-----------------------------------------------------------------------------
(* What members hold.                                                      *)

LEMMA CoveredStep == TypeOK /\ BatchCovered /\ [Next]_vars => BatchCovered'
<1> SUFFICES ASSUME TypeOK, BatchCovered, [Next]_vars, NEW n \in Members, InCycle(n)',
                    NEW o \in batch'[n], NEW u \in Units(log'[o])
             PROVE  \/ <<o, u>> \in dlq' \union left'[n]
                    \/ u \in Mappable(log'[o]) /\ \E e \in events'[n] : Same(e, u)
  BY DEF BatchCovered
<1>1. CASE Keeps(n)
  <2>1. InCycle(n) /\ o \in batch[n] /\ events'[n] = events[n]
    BY <1>1 DEF Keeps, InCycle
  <2>2. o \in 1..Len(log) /\ log'[o] = log[o]
    BY <2>1, StoresGrow DEF TypeOK
  <2>3. \/ <<o, u>> \in dlq \union left[n]
        \/ u \in Mappable(log[o]) /\ \E e \in events[n] : Same(e, u)
    BY <2>1, <2>2 DEF BatchCovered
  <2>4. dlq \union left[n] \subseteq dlq' \union left'[n]
    BY <1>1, StoresGrow DEF Keeps
  <2>5. QED
    BY <2>1, <2>2, <2>3, <2>4
<1>2. CASE Ends(n)
  BY <1>2 DEF Ends
<1>3. CASE Poll(n)
  <2>1. o \in 1..Len(log) /\ log' = log
    BY <1>3, PollTakes
  <2>2. CASE u \in Accepted(o)
    <3>1. PICK k \in events'[n] : Id[k] = Id[u]
      BY <1>3, <2>2, PollTakes
    <3>2. k \in Events /\ u \in Events /\ u \in Mappable(log[o])
      BY <1>3, <2>1, <2>2, <3>1, PollTakes, AcceptedOrParked
    <3>3. QED
      BY <2>1, <3>1, <3>2 DEF Same
  <2>3. CASE u \notin Accepted(o)
    <3>1. <<o, u>> \in Parked(o)
      BY <2>1, <2>3, AcceptedOrParked
    <3>2. QED
      BY <1>3, <3>1, PollTakes
  <2>4. QED
    BY <2>2, <2>3
<1>4. QED
  BY <1>1, <1>2, <1>3, MemberCases

LEMMA RowsFirstStep == TypeOK /\ RowsFirst /\ [Next]_vars => RowsFirst'
<1> SUFFICES ASSUME TypeOK, RowsFirst, [Next]_vars, NEW n \in Members, pc'[n] = "park"
             PROVE  events'[n] \subseteq rows'
  BY DEF RowsFirst
<1>1. CASE Keeps(n)
  BY <1>1, StoresGrow DEF Keeps, RowsFirst
<1>2. CASE Ends(n)
  BY <1>2 DEF Ends
<1>3. CASE Poll(n)
  BY <1>3, PollTakes
<1>4. QED
  BY <1>1, <1>2, <1>3, MemberCases

LEMMA EventsStep == TypeOK /\ EventsKnown /\ [Next]_vars => EventsKnown'
<1> SUFFICES ASSUME TypeOK, EventsKnown, [Next]_vars, NEW n \in Members, NEW e \in events'[n]
             PROVE  \E o \in 1..Len(log') : e \in Mappable(log'[o])
  BY DEF EventsKnown
<1>1. \E o \in 1..Len(log) : e \in Mappable(log[o])
  <2>1. CASE Keeps(n)
    BY <2>1 DEF Keeps, EventsKnown
  <2>2. CASE Ends(n)
    BY <2>2 DEF Ends
  <2>3. CASE Poll(n)
    <3>1. PICK o \in batch'[n] : e \in Accepted(o)
      BY <2>3, PollTakes
    <3>2. o \in 1..Len(log) /\ e \in Mappable(log[o])
      BY <2>3, <3>1, PollTakes, AcceptedOrParked
    <3>3. QED
      BY <3>2
  <2>4. QED
    BY <2>1, <2>2, <2>3, MemberCases
<1>2. QED
  BY <1>1, StoresGrow

LEMMA LeftStep == TypeOK /\ LeftKnown /\ [Next]_vars => LeftKnown'
<1> SUFFICES ASSUME TypeOK, LeftKnown, [Next]_vars, NEW n \in Members, NEW x \in left'[n]
             PROVE  \E o \in 1..Len(log') : \E u \in Units(log'[o]) : x = <<o, u>>
  BY DEF LeftKnown
<1>1. \E o \in 1..Len(log) : \E u \in Units(log[o]) : x = <<o, u>>
  <2>1. CASE Keeps(n)
    BY <2>1 DEF Keeps, LeftKnown
  <2>2. CASE Ends(n)
    BY <2>2 DEF Ends
  <2>3. CASE Poll(n)
    <3>1. PICK o \in batch'[n] : x \in Parked(o)
      BY <2>3, PollTakes
    <3>2. o \in 1..Len(log) /\ \E u \in Units(log[o]) : x = <<o, u>>
      BY <2>3, <3>1, PollTakes, AcceptedOrParked
    <3>3. QED
      BY <3>2
  <2>4. QED
    BY <2>1, <2>2, <2>3, MemberCases
<1>2. QED
  BY <1>1, StoresGrow

-----------------------------------------------------------------------------
(* Positions and offsets.                                                  *)

\* Only Commit moves the offset, and only to the owner's position.
LEMMA OffsetMoves ==
  ASSUME TypeOK, [Next]_vars
  PROVE  \/ committed' = committed
         \/ \E m \in Members :
               /\ Commit(m) /\ owner = m /\ committed' = pos[m]
               /\ pc[m] = "park" /\ left[m] = {}
<1>1. CASE \E m \in Members : Commit(m)
  BY <1>1 DEF Commit
<1>2. CASE \E r \in Records : Produce(r)
  BY <1>2 DEF Produce
<1>3. CASE \E e \in Edge : Tick(e)
  BY <1>3 DEF Tick, kafka
<1>4. ASSUME NEW m \in Members, MemberStep(m), ~Commit(m)
      PROVE  committed' = committed
  BY <1>4
     DEF MemberStep, Assign, Rebalance, Crash, Stop, Start, Leave, Poll, Resolve,
         ResolveFails, Insert, InsertFails, Park, ParkFails, kafka
<1>5. CASE UNCHANGED vars
  BY <1>5 DEF vars
<1>6. QED
  BY <1>1, <1>2, <1>3, <1>4, <1>5 DEF Next

LEMMA OwnerStep == TypeOK /\ OwnerRuns /\ [Next]_vars => OwnerRuns'
<1> SUFFICES ASSUME TypeOK, OwnerRuns, [Next]_vars, NEW n \in Members, owner' = n
             PROVE  pc'[n] # "down"
  BY DEF OwnerRuns
<1> USE MembersAssumption DEF OwnerRuns, TypeOK, kafka, stores
<1>1. CASE \E r \in Records : Produce(r)
  BY <1>1 DEF Produce
<1>2. CASE \E e \in Edge : Tick(e)
  BY <1>2 DEF Tick
<1>3. CASE UNCHANGED vars
  BY <1>3 DEF vars
<1>4. ASSUME NEW m \in Members, MemberStep(m) PROVE pc'[n] # "down"
  <2>1. CASE Assign(m) \/ Rebalance(m)
    BY <2>1 DEF Assign, Rebalance, AssignTo
  <2>2. CASE Crash(m) \/ Leave(m)
    BY <2>2 DEF Crash, Leave, Down
  <2>3. CASE Stop(m) \/ Start(m) \/ Poll(m) \/ Resolve(m) \/ Insert(m) \/ Park(m) \/ Commit(m)
    BY <2>3 DEF Stop, Start, Poll, Resolve, Insert, Park, Commit
  <2>4. CASE ResolveFails(m) \/ InsertFails(m) \/ ParkFails(m)
    BY <2>4 DEF ResolveFails, InsertFails, ParkFails, Retry
  <2>5. QED
    BY <1>4, <2>1, <2>2, <2>3, <2>4 DEF MemberStep
<1>5. QED
  BY <1>1, <1>2, <1>3, <1>4 DEF Next

LEMMA NoGapStep == TypeOK /\ OwnerRuns /\ NoGap /\ [Next]_vars => NoGap'
<1> SUFFICES ASSUME TypeOK, OwnerRuns, NoGap, [Next]_vars,
                    NEW n \in Members, owner' = n
             PROVE  /\ committed' <= pos'[n]
                    /\ \/ pos'[n] = committed'
                       \/ /\ pc'[n] \in {"resolve", "insert", "park"}
                          /\ batch'[n] = (committed' + 1)..pos'[n]
                       \/ pc'[n] = "polling" /\ stop'[n]
  BY DEF NoGap
<1> USE MembersAssumption DEF TypeOK, kafka, stores
<1>1. CASE \E r \in Records : Produce(r)
  BY <1>1 DEF Produce, NoGap
<1>2. CASE \E e \in Edge : Tick(e)
  BY <1>2 DEF Tick, NoGap
<1>3. CASE UNCHANGED vars
  BY <1>3 DEF vars, NoGap
<1>4. ASSUME NEW m \in Members, MemberStep(m)
      PROVE  /\ committed' <= pos'[n]
             /\ \/ pos'[n] = committed'
                \/ /\ pc'[n] \in {"resolve", "insert", "park"}
                   /\ batch'[n] = (committed' + 1)..pos'[n]
                \/ pc'[n] = "polling" /\ stop'[n]
  <2>1. CASE Assign(m) \/ Rebalance(m)
    BY <2>1 DEF Assign, Rebalance, AssignTo
  <2>2. CASE Stop(m)
    BY <2>2 DEF Stop, NoGap
  <2>3. CASE Start(m)
    BY <2>3 DEF Start, NoGap, OwnerRuns
  <2>4. CASE Crash(m) \/ Leave(m)
    <3>1. Forget(m) /\ n # m /\ owner = n /\ pc'[n] = pc[n]
          /\ UNCHANGED <<committed, pos, stop>>
      BY <2>4 DEF Crash, Leave, Down
    <3>2. batch'[n] = batch[n]
      BY <3>1, ForgetClears
    <3>3. QED
      BY <3>1, <3>2 DEF NoGap
  <2>5. CASE Poll(m)
    <3>1. n = m /\ pc[m] = "polling" /\ ~stop[m] /\ owner = m /\ committed' = committed
      BY <2>5, PollTakes
    <3>2. pos[m] = committed
      BY <3>1 DEF NoGap
    <3>3. QED
      BY <2>5, <3>1, <3>2, PollTakes
  <2>6. CASE Resolve(m) \/ Insert(m) \/ Park(m)
    BY <2>6 DEF Resolve, Insert, Park, NoGap
  <2>7. CASE ResolveFails(m) \/ InsertFails(m) \/ ParkFails(m)
    <3>1. Retry(m) /\ UNCHANGED <<committed, owner, pos, stop>>
          /\ pc[m] \in {"resolve", "insert", "park"}
      BY <2>7 DEF ResolveFails, InsertFails, ParkFails
    <3>2. CASE UNCHANGED <<pc, batch, events, left>>
      BY <3>1, <3>2 DEF NoGap
    <3>3. CASE stop[m] /\ pc' = [pc EXCEPT ![m] = "polling"] /\ Forget(m)
      <4>1. CASE n = m
        BY <3>1, <3>3, <4>1 DEF NoGap
      <4>2. CASE n # m
        <5>1. batch'[n] = batch[n] /\ pc'[n] = pc[n]
          BY <3>3, <4>2, ForgetClears
        <5>2. QED
          BY <3>1, <5>1 DEF NoGap
      <4>3. QED
        BY <4>1, <4>2
    <3>4. QED
      BY <3>1, <3>2, <3>3 DEF Retry
  <2>8. CASE Commit(m)
    <3>1. CASE n = m
      <4>1. owner = m /\ pos' = pos
        BY <2>8, <3>1 DEF Commit
      <4>2. committed' = pos[m]
        BY <2>8, <4>1 DEF Commit
      <4>3. QED
        BY <3>1, <4>1, <4>2
    <3>2. CASE n # m
      <4>1. owner = n /\ committed' = committed /\ pc'[n] = pc[n]
            /\ Forget(m) /\ UNCHANGED <<pos, stop>>
        BY <2>8, <3>2 DEF Commit
      <4>2. batch'[n] = batch[n]
        BY <3>2, <4>1, ForgetClears
      <4>3. QED
        BY <4>1, <4>2 DEF NoGap
    <3>3. QED
      BY <3>1, <3>2
  <2>9. QED
    BY <1>4, <2>1, <2>2, <2>3, <2>4, <2>5, <2>6, <2>7, <2>8 DEF MemberStep
<1>5. QED
  BY <1>1, <1>2, <1>3, <1>4 DEF Next

-----------------------------------------------------------------------------
(* Settlement.                                                             *)

\* What is settled stays settled.
LEMMA SettledStays ==
  ASSUME TypeOK, [Next]_vars, NEW o \in 1..Len(log), Sink!Settled(o)
  PROVE  Sink!Settled(o)'
  BY StoresGrow DEF Sink!Settled

\* A member with no envelope left has settled its poll.
LEMMA PollSettled ==
  ASSUME IInv, NEW m \in Members, pc[m] = "park", left[m] = {}, NEW o \in batch[m]
  PROVE  Sink!Settled(o)
<1> SUFFICES ASSUME NEW u \in Units(log[o])
             PROVE  \/ <<o, u>> \in dlq
                    \/ u \in Mappable(log[o]) /\ \E e \in rows : Same(e, u)
  BY DEF Sink!Settled
<1>1. \/ <<o, u>> \in dlq \union left[m]
      \/ u \in Mappable(log[o]) /\ \E e \in events[m] : Same(e, u)
  BY DEF IInv, BatchCovered, InCycle
<1>2. events[m] \subseteq rows
  BY DEF IInv, RowsFirst
<1>3. QED
  BY <1>1, <1>2

\* What the offset moves over is settled.
LEMMA CommitSettled ==
  ASSUME IInv, [Next]_vars, committed' # committed
  PROVE  /\ committed' \in (committed + 1)..Len(log)
         /\ \A o \in 1..committed' : Sink!Settled(o)
<1>1. PICK m \in Members :
         /\ Commit(m) /\ owner = m /\ committed' = pos[m]
         /\ pc[m] = "park" /\ left[m] = {}
  BY OffsetMoves DEF IInv
<1>2. batch[m] = (committed + 1)..pos[m]
  BY <1>1 DEF IInv, NoGap
<1>3. pos[m] \in (committed + 1)..Len(log)
  BY <1>1 DEF IInv, NoGap, TypeOK
<1>4. ASSUME NEW o \in 1..committed' PROVE Sink!Settled(o)
  <2>1. CASE o \in 1..committed
    BY <2>1 DEF IInv, CommittedIsSettled
  <2>2. CASE o \in batch[m]
    BY <1>1, <2>2, PollSettled
  <2>3. o \in 1..committed \/ o \in batch[m]
    BY <1>1, <1>2, <1>3 DEF IInv, TypeOK
  <2>4. QED
    BY <2>1, <2>2, <2>3
<1>5. QED
  BY <1>1, <1>3, <1>4

LEMMA SettledStep == IInv /\ [Next]_vars => CommittedIsSettled'
<1> SUFFICES ASSUME IInv, [Next]_vars, NEW o \in 1..committed'
             PROVE  Sink!Settled(o)'
  BY DEF CommittedIsSettled
<1>1. Sink!Settled(o)
  BY CommitSettled DEF IInv, CommittedIsSettled
<1>2. o \in 1..Len(log)
  BY CommitSettled DEF IInv, TypeOK
<1>3. QED
  BY <1>1, <1>2, SettledStays DEF IInv

\* A new row is an event of some member's poll.
LEMMA RowsCome ==
  ASSUME TypeOK, [Next]_vars, NEW e \in rows' \ rows
  PROVE  \E m \in Members : e \in events[m]
<1>1. CASE \E m \in Members : Insert(m) \/ InsertFails(m)
  BY <1>1 DEF Insert, InsertFails, Landed
<1>2. CASE \E r \in Records : Produce(r)
  BY <1>2 DEF Produce, stores
<1>3. CASE \E x \in Edge : Tick(x)
  BY <1>3 DEF Tick, stores
<1>4. ASSUME NEW m \in Members, MemberStep(m), ~Insert(m), ~InsertFails(m)
      PROVE  rows' = rows
  BY <1>4
     DEF MemberStep, Assign, Rebalance, Crash, Stop, Start, Leave, Poll, Resolve,
         ResolveFails, Park, ParkFails, Commit, stores
<1>5. CASE UNCHANGED vars
  BY <1>5 DEF vars
<1>6. QED
  BY <1>1, <1>2, <1>3, <1>4, <1>5 DEF Next

LEMMA AttributedStep == IInv /\ [Next]_vars => RowsAreAttributed'
<1> SUFFICES ASSUME IInv, [Next]_vars, NEW e \in rows'
             PROVE  \E o \in DOMAIN log' : e \in Mappable(log'[o])
  BY DEF RowsAreAttributed
<1>1. DOMAIN log = 1..Len(log) /\ DOMAIN log' = 1..Len(log')
  BY TypeStep DEF IInv, TypeOK
<1>2. \E o \in 1..Len(log) : e \in Mappable(log[o])
  BY <1>1, RowsCome DEF IInv, RowsAreAttributed, EventsKnown
<1>3. QED
  BY <1>1, <1>2, StoresGrow DEF IInv

LEMMA Inductive == IInv /\ [Next]_vars => IInv'
<1> SUFFICES ASSUME IInv, [Next]_vars PROVE IInv'
  OBVIOUS
<1>1. TypeOK' /\ BatchCovered' /\ RowsFirst' /\ EventsKnown' /\ LeftKnown'
  BY TypeStep, CoveredStep, RowsFirstStep, EventsStep, LeftStep DEF IInv
<1>2. OwnerRuns' /\ NoGap'
  BY OwnerStep, NoGapStep DEF IInv
<1>3. CommittedIsSettled' /\ RowsAreAttributed'
  BY SettledStep, AttributedStep
<1>4. QED
  BY <1>1, <1>2, <1>3 DEF IInv

LEMMA Always == Spec => []IInv
  BY InitIInv, Inductive, PTL DEF Spec

-----------------------------------------------------------------------------
\* Every span below the committed offset is a row or has its envelope.
THEOREM NothingLost == Spec => []CommittedIsSettled
<1>1. IInv => CommittedIsSettled
  BY DEF IInv
<1>2. QED
  BY <1>1, Always, PTL

\* No record is skipped between the committed offset and the owner's position.
THEOREM NoRecordSkipped == Spec => []NoGap
<1>1. IInv => NoGap
  BY DEF IInv
<1>2. QED
  BY <1>1, Always, PTL

\* A row is always made of a span that came with a project key.
THEOREM Attribution == Spec => []RowsAreAttributed
<1>1. IInv => RowsAreAttributed
  BY DEF IInv
<1>2. QED
  BY <1>1, Always, PTL

-----------------------------------------------------------------------------
(* The abstract sink.                                                      *)

\* The dead-letter topic gains one envelope at a time, of a part of the log.
LEMMA EnvelopesCome ==
  ASSUME IInv, NEW m \in Members, Park(m) \/ ParkFails(m)
  PROVE  \/ dlq' = dlq
         \/ \E o \in 1..Len(log) : \E u \in Units(log[o]) : dlq' = dlq \union {<<o, u>>}
<1>1. PICK x \in left[m] : dlq' \in {dlq, dlq \union {x}}
  BY DEF Park, ParkFails
<1>2. PICK o \in 1..Len(log) : \E u \in Units(log[o]) : x = <<o, u>>
  BY DEF IInv, LeftKnown
<1>3. QED
  BY <1>1, <1>2

LEMMA SinkStep == IInv /\ [Next]_vars => [Sink!Next]_(Sink!vars)
<1> SUFFICES ASSUME IInv, [Next]_vars PROVE Sink!Next \/ UNCHANGED Sink!vars
  OBVIOUS
<1>1. DOMAIN log = 1..Len(log)
  BY DEF IInv, TypeOK
<1>2. CASE \E r \in Records : Produce(r)
  BY <1>2 DEF Produce, stores, Sink!Next, Sink!Produce
<1>3. CASE \E e \in Edge : Tick(e)
  BY <1>3 DEF Tick, kafka, stores, Sink!vars
<1>4. CASE UNCHANGED vars
  BY <1>4 DEF vars, Sink!vars
<1>5. ASSUME NEW m \in Members, MemberStep(m)
      PROVE  Sink!Next \/ UNCHANGED Sink!vars
  <2>1. CASE Assign(m) \/ Rebalance(m) \/ Crash(m) \/ Stop(m) \/ Start(m) \/ Leave(m)
             \/ Poll(m) \/ Resolve(m) \/ ResolveFails(m)
    BY <2>1
       DEF Assign, Rebalance, Crash, Stop, Start, Leave, Poll, Resolve, ResolveFails,
           kafka, stores, Sink!vars
  <2>2. CASE Insert(m) \/ InsertFails(m)
    <3>1. UNCHANGED <<log, committed, dlq>>
      BY <2>2 DEF Insert, InsertFails, kafka
    <3>2. rows \subseteq rows'
      BY StoresGrow DEF IInv
    <3>3. \A e \in rows' \ rows : \E o \in DOMAIN log : e \in Mappable(log[o])
      BY <1>1, RowsCome DEF IInv, EventsKnown
    <3>4. QED
      BY <3>1, <3>2, <3>3 DEF Sink!Next, Sink!Record
  <2>3. CASE Park(m) \/ ParkFails(m)
    <3>1. UNCHANGED <<log, committed, rows>>
      BY <2>3 DEF Park, ParkFails, kafka
    <3>2. QED
      BY <1>1, <2>3, <3>1, EnvelopesCome DEF Sink!Next, Sink!Park, Sink!vars
  <2>4. CASE Commit(m)
    <3>1. UNCHANGED <<log, rows, dlq>>
      BY <2>4 DEF Commit, stores
    <3>2. CASE committed' = committed
      BY <3>1, <3>2 DEF Sink!vars
    <3>3. CASE committed' # committed
      BY <3>1, <3>3, CommitSettled DEF Sink!Next, Sink!Acknowledge
    <3>4. QED
      BY <3>2, <3>3
  <2>5. QED
    BY <1>5, <2>1, <2>2, <2>3, <2>4 DEF MemberStep
<1>6. QED
  BY <1>2, <1>3, <1>4, <1>5 DEF Next

\* The group of enrichers implements the abstract sink.
THEOREM ImplementsSink == Spec => SinkSpec
<1>1. Init => Sink!Init
  BY DEF Init, Sink!Init
<1>2. QED
  BY <1>1, SinkStep, Always, PTL DEF Spec, SinkSpec, Sink!Spec
=============================================================================
