-------------------------- MODULE AgentRunsProofs --------------------------
(***************************************************************************)
(* Proofs about AgentRuns, for any number of runs, bans, operators and     *)
(* contexts, and any policies and guards.                                  *)
(***************************************************************************)
EXTENDS AgentRuns, FiniteSetTheorems, TLAPS

-----------------------------------------------------------------------------
(* The ban feed.  The invariant says what a response and a set in hand tell  *)
(* of a run, in terms of the moments its check has seen.                     *)

\* The ids for which the table has a row.
Given == {b \in Bans : table[b] # Free}

\* Some of the rows names the run.
Names(ids, r) == \E b \in ids : table[b].target \in TargetsOf(r)

\* The ids decide as the table did at a moment of the run's check.
Noted(ids, r) == IF Names(ids, r) THEN TRUE \in seen[r] ELSE FALSE \in seen[r]

Paired == etag.sent => etag.of = cached
GivenOnly == cached \subseteq Given /\ \A r \in Runs : fetch[r].set \subseteq Given /\ fetch[r].answer.body \subseteq Given
UnderWay == \A r \in Runs : phase[r] = "checking" <=> fetch[r].step # "idle"
NowNoted == \A r \in Runs : phase[r] = "checking" => Noted(Active, r)
AnswersNoted ==
    \A r \in Runs : fetch[r].step = "answered" =>
        Noted(IF fetch[r].answer = NotModified THEN cached ELSE fetch[r].answer.body, r)
SetsNoted ==
    \A r \in Runs : fetch[r].step = "done" /\ ~fetch[r].failed => Noted(fetch[r].set, r)

RunTypes ==
    /\ phase \in [Runs -> Phases]
    /\ seen \in [Runs -> SUBSET BOOLEAN]

FeedInv ==
    /\ BanTypeOK /\ RunTypes
    /\ Paired /\ GivenOnly /\ UnderWay
    /\ NowNoted /\ AnswersNoted /\ SetsNoted

\* A fetch that moves on keeps its type, and the others stay where they are.
LEMMA FetchAdvances ==
  ASSUME BanTypeOK, NEW r \in Runs, NEW s \in FetchSteps, fetch' = [fetch EXCEPT ![r].step = s]
  PROVE  /\ fetch' \in [Runs -> Fetches]
         /\ fetch'[r].step = s /\ fetch'[r].answer = fetch[r].answer
         /\ fetch'[r].set = fetch[r].set /\ fetch'[r].failed = fetch[r].failed
         /\ \A q \in Runs \ {r} : fetch'[q] = fetch[q]
<1>1. fetch \in [Runs -> Fetches]
  BY DEF BanTypeOK
<1>2. QED
  BY <1>1 DEF Fetches

LEMMA FetchMoves ==
  ASSUME BanTypeOK, NEW r \in Runs, NEW f \in Fetches, fetch' = [fetch EXCEPT ![r] = f]
  PROVE  /\ fetch' \in [Runs -> Fetches]
         /\ fetch'[r] = f
         /\ \A q \in Runs \ {r} : fetch'[q] = fetch[q]
  BY DEF BanTypeOK, Fetches

LEMMA FeedInit == Init => FeedInv
<1> SUFFICES ASSUME Init PROVE FeedInv
  OBVIOUS
<1> USE DEF Init, BanInit
<1>1. BanTypeOK
  BY NoneIsNothing DEF BanTypeOK, LockDiscipline, Rows, Fetches, Unasked, NoAnswer, FetchSteps, NoEtag
<1>2. RunTypes
  BY DEF RunTypes, Phases
<1>3. Paired /\ GivenOnly /\ UnderWay
  BY DEF Paired, GivenOnly, UnderWay, NoEtag, Unasked, NoAnswer
<1>4. NowNoted /\ AnswersNoted /\ SetsNoted
  BY DEF NowNoted, AnswersNoted, SetsNoted, Unasked
<1>5. QED
  BY <1>1, <1>2, <1>3, <1>4 DEF FeedInv

\* Rows are never taken back: what a known ban names stays what it is.
LEMMA NamesKept ==
  ASSUME NEW r \in Runs, NEW ids \in SUBSET Given,
         \A b \in Given : table'[b].target = table[b].target
  PROVE  Names(ids, r)' <=> Names(ids, r)
  BY DEF Names, TargetsOf

\* A run is banned exactly when an active row names it.
LEMMA BannedIsNamed ==
  ASSUME NEW r \in Runs
  PROVE  IsBanned(r) <=> Names(Active, r)
  BY DEF IsBanned, Names, ActiveOn

\* Note keeps what was seen and adds what holds now.
LEMMA NoteNotes ==
  ASSUME RunTypes, Note, NEW r \in Runs, phase'[r] = "checking"
  PROVE  seen[r] \subseteq seen'[r] /\ Noted(Active, r)'
<1>1. seen'[r] = seen[r] \union {IsBanned(r)'}
  BY DEF Note, RunTypes
<1>2. IsBanned(r)' <=> Names(Active, r)'
  BY DEF IsBanned, Names, ActiveOn
<1>3. IsBanned(r)' \in seen'[r]
  BY <1>1
<1>4. ASSUME Names(Active, r)' PROVE TRUE \in seen'[r]
  <2>1. IsBanned(r)' = TRUE
    BY <1>2, <1>4, Zenon DEF IsBanned
  <2>2. QED
    BY <1>3, <2>1, Zenon
<1>5. ASSUME ~Names(Active, r)' PROVE FALSE \in seen'[r]
  <2>1. IsBanned(r)' = FALSE
    BY <1>2, <1>5, Zenon DEF IsBanned
  <2>2. QED
    BY <1>3, <2>1, Zenon
<1>6. Noted(Active, r)'
  BY <1>4, <1>5 DEF Noted
<1>7. seen[r] \subseteq seen'[r]
  BY <1>1
<1>8. QED
  BY <1>6, <1>7

\* What leaves the feed and the checks alone keeps the invariant.
LEMMA FeedAside ==
  ASSUME FeedInv, UNCHANGED <<banVars, seen>>, phase' \in [Runs -> Phases],
         \A r \in Runs : phase'[r] = "checking" <=> phase[r] = "checking"
  PROVE  FeedInv'
<1> USE DEF FeedInv, banVars
<1>1. BanTypeOK'
  BY DEF BanTypeOK, LockDiscipline
<1>2. RunTypes'
  BY DEF RunTypes
<1>3. Paired' /\ GivenOnly' /\ UnderWay'
  BY DEF Paired, GivenOnly, Given, UnderWay
<1>4. \A ids, r : Noted(ids, r)' <=> Noted(ids, r)
  BY DEF Noted, Names, TargetsOf
<1>5. NowNoted' /\ AnswersNoted' /\ SetsNoted'
  BY <1>4 DEF NowNoted, AnswersNoted, SetsNoted, Active
<1>6. QED
  BY <1>1, <1>2, <1>3, <1>5

\* What operators do is noted, and takes nothing back.
LEMMA FeedOperate ==
  ASSUME FeedInv, Operate
  PROVE  FeedInv'
<1> USE DEF FeedInv
<1>1. /\ UNCHANGED <<lock, cached, etag, fetch, phase>>
      /\ Note
  BY DEF Operate, LookUp, Insert, Revoke
<1>2. /\ table' \in [Bans -> Rows]
      /\ creating' \in [Operators -> Targets \union {None}]
      /\ \A b \in Given : table'[b] # Free /\ table'[b].target = table[b].target
  <2>1. CASE \E o \in Operators, t \in Targets : LookUp(o, t)
    BY <2>1 DEF LookUp, BanTypeOK, Given
  <2>2. CASE \E o \in Operators : Insert(o)
    BY <2>2 DEF Insert, BanTypeOK, Given, Rows, Free
  <2>3. CASE \E b \in Bans : Revoke(b)
    BY <2>3 DEF Revoke, BanTypeOK, Given, Rows, Free
  <2>4. QED
    BY <2>1, <2>2, <2>3 DEF Operate
<1>3. BanTypeOK'
  BY <1>1, <1>2 DEF BanTypeOK, LockDiscipline
<1>4. RunTypes'
  BY <1>1, Zenon DEF RunTypes, Note, IsBanned
<1>5. Paired' /\ GivenOnly' /\ UnderWay'
  BY <1>1, <1>2 DEF Paired, GivenOnly, UnderWay, Given
<1>6. \A r \in Runs : phase[r] = "checking" => seen[r] \subseteq seen'[r] /\ Noted(Active, r)'
  BY <1>1, NoteNotes
<1>7. \A r \in Runs, ids \in SUBSET Given :
        phase[r] = "checking" /\ Noted(ids, r) => Noted(ids, r)'
  BY <1>2, <1>6, NamesKept DEF Noted
<1>8. NowNoted'
  BY <1>1, <1>6 DEF NowNoted
<1>9. AnswersNoted'
  BY <1>1, <1>7 DEF AnswersNoted, GivenOnly, UnderWay
<1>10. SetsNoted'
  BY <1>1, <1>7 DEF SetsNoted, GivenOnly, UnderWay
<1>11. QED
  BY <1>3, <1>4, <1>5, <1>8, <1>9, <1>10

\* A check begins: what holds now is noted.
LEMMA FeedCheck ==
  ASSUME FeedInv, NEW r \in Runs, Check(r)
  PROVE  FeedInv'
<1> USE DEF FeedInv
<1>1. /\ UNCHANGED <<table, creating, lock, cached, etag>>
      /\ fetch' = [fetch EXCEPT ![r].step = "waiting"]
      /\ phase' = [phase EXCEPT ![r] = "checking"]
      /\ fetch[r].step = "idle"
      /\ Note
  BY DEF Check, AskGate
<1>2. /\ fetch' \in [Runs -> Fetches]
      /\ fetch'[r].step = "waiting" /\ fetch'[r].answer = fetch[r].answer
      /\ fetch'[r].set = fetch[r].set
      /\ \A q \in Runs \ {r} : fetch'[q] = fetch[q]
  BY <1>1, FetchAdvances DEF FetchSteps
<1>3. BanTypeOK'
  <2>1. LockDiscipline'
    BY <1>1, <1>2 DEF BanTypeOK, LockDiscipline
  <2>2. QED
    BY <1>1, <1>2, <2>1 DEF BanTypeOK
<1>4. RunTypes'
  <2>1. phase' \in [Runs -> Phases]
    BY <1>1 DEF RunTypes, Phases
  <2>2. QED
    BY <1>1, <2>1, Zenon DEF RunTypes, Note, IsBanned
<1>5. Paired' /\ GivenOnly' /\ UnderWay'
  BY <1>1, <1>2 DEF Paired, GivenOnly, UnderWay, Given, RunTypes
<1>6. \A q \in Runs : phase'[q] = "checking" => seen[q] \subseteq seen'[q] /\ Noted(Active, q)'
  BY <1>1, NoteNotes
<1>7. \A q \in Runs : \A ids : phase'[q] = "checking" /\ Noted(ids, q) => Noted(ids, q)'
  BY <1>1, <1>6 DEF Noted, Names, TargetsOf
<1>8. NowNoted'
  BY <1>6 DEF NowNoted
<1>9. AnswersNoted'
  BY <1>1, <1>2, <1>5, <1>7 DEF AnswersNoted, UnderWay
<1>10. SetsNoted'
  BY <1>1, <1>2, <1>5, <1>7 DEF SetsNoted, UnderWay
<1>11. QED
  BY <1>3, <1>4, <1>5, <1>8, <1>9, <1>10

\* The fetch: its holder of the lock alone has a response, and a response says
\* what the table said when it was made.
LEMMA FeedPoll ==
  ASSUME FeedInv, NEW r \in Runs, Poll(r)
  PROVE  FeedInv'
<1> USE DEF FeedInv
<1>1. UNCHANGED <<table, creating, phase, seen>> /\ phase[r] = "checking"
  BY DEF Poll, runVars, Lock, ServeFeed, Install, FetchFails
<1>2. RunTypes' /\ Given' = Given /\ Active' = Active
  BY <1>1 DEF RunTypes, Given, Active
<1>3. \A q, ids : Noted(ids, q)' <=> Noted(ids, q)
  BY <1>1 DEF Noted, Names, TargetsOf
<1>4. NowNoted'
  BY <1>1, <1>2, <1>3 DEF NowNoted
<1>5. CASE Lock(r)
  <2>1. /\ lock = None /\ lock' = r /\ UNCHANGED <<cached, etag>>
        /\ fetch[r].step = "waiting"
        /\ fetch' = [fetch EXCEPT ![r].step = "asking"]
    BY <1>5 DEF Lock
  <2>2. /\ fetch' \in [Runs -> Fetches]
        /\ fetch'[r].step = "asking" /\ fetch'[r].answer = fetch[r].answer
        /\ fetch'[r].set = fetch[r].set
        /\ \A q \in Runs \ {r} : fetch'[q] = fetch[q]
    BY <2>1, FetchAdvances DEF FetchSteps
  <2>3. LockDiscipline'
    BY <2>1, <2>2, NoneIsNothing DEF BanTypeOK, LockDiscipline
  <2>4. BanTypeOK'
    BY <1>1, <2>1, <2>2, <2>3 DEF BanTypeOK
  <2>5. Paired' /\ GivenOnly' /\ UnderWay'
    BY <1>1, <1>2, <2>1, <2>2 DEF Paired, GivenOnly, UnderWay
  <2>6. AnswersNoted' /\ SetsNoted'
    BY <1>3, <2>1, <2>2 DEF AnswersNoted, SetsNoted
  <2>7. QED
    BY <1>2, <1>4, <2>4, <2>5, <2>6
<1>6. CASE ServeFeed(r)
  <2> DEFINE a == IF etag = EtagOf(Active) THEN NotModified ELSE Full(Active)
  <2> DEFINE f == Answered(a)
  <2>1. Active \subseteq Given /\ Active \subseteq Bans
    BY DEF Active, Given, Free
  <2>2. a.body \subseteq Given /\ a \in [status : {0, 200, 304}, body : SUBSET Bans]
    BY <2>1 DEF NotModified, Full
  <2>3. /\ fetch[r].step = "asking" /\ UNCHANGED <<lock, cached, etag>>
        /\ fetch' = [fetch EXCEPT ![r] = f]
    BY <1>6 DEF ServeFeed
  <2>4. f \in Fetches /\ f.step = "answered" /\ f.answer = a /\ f.set = {}
    BY <2>2 DEF Answered, Fetches, FetchSteps
  <2>5. /\ fetch' \in [Runs -> Fetches]
        /\ fetch'[r] = f
        /\ \A q \in Runs \ {r} : fetch'[q] = fetch[q]
    BY <2>3, <2>4, FetchMoves
  <2>6. LockDiscipline'
    BY <2>3, <2>4, <2>5 DEF BanTypeOK, LockDiscipline
  <2>7. BanTypeOK'
    BY <1>1, <2>3, <2>5, <2>6 DEF BanTypeOK
  <2>8. Paired' /\ GivenOnly' /\ UnderWay'
    BY <1>1, <1>2, <2>2, <2>3, <2>4, <2>5 DEF Paired, GivenOnly, UnderWay
  <2>9. Noted(Active, r)
    BY <1>1 DEF NowNoted
  <2>10. (IF a = NotModified THEN cached ELSE a.body) = Active
    BY DEF Paired, EtagOf, NotModified, Full
  <2>11. AnswersNoted'
    BY <1>3, <2>3, <2>4, <2>5, <2>9, <2>10 DEF AnswersNoted
  <2>12. SetsNoted'
    BY <1>3, <2>4, <2>5 DEF SetsNoted
  <2>13. QED
    BY <1>2, <1>4, <2>7, <2>8, <2>11, <2>12
<1>7. CASE Install(r)
  <2> DEFINE told == IF fetch[r].answer = NotModified THEN cached ELSE fetch[r].answer.body
  <2> DEFINE f == Fetched(told, FALSE)
  <2>1. /\ fetch[r].step = "answered" /\ lock' = None /\ cached' = told
        /\ etag' = IF fetch[r].answer = NotModified THEN etag ELSE EtagOf(told)
        /\ fetch' = [fetch EXCEPT ![r] = f]
    BY <1>7 DEF Install
  <2>2. told \subseteq Bans /\ told \subseteq Given /\ Noted(told, r)
    BY <2>1 DEF GivenOnly, Given, AnswersNoted
  <2>3. f \in Fetches
    BY <2>2 DEF Fetched, Fetches, FetchSteps, NoAnswer
  <2>4. /\ fetch' \in [Runs -> Fetches]
        /\ fetch'[r] = f
        /\ \A q \in Runs \ {r} : fetch'[q] = fetch[q]
    BY <2>1, <2>3, FetchMoves
  <2>5. \A q \in Runs \ {r} : fetch[q].step \notin {"asking", "answered"}
    BY <2>1 DEF BanTypeOK, LockDiscipline
  <2>6. f.step = "done" /\ f.set = told /\ f.answer.body = {}
    BY DEF Fetched, NoAnswer
  <2>7. LockDiscipline'
    BY <2>1, <2>4, <2>5, <2>6, NoneIsNothing DEF LockDiscipline
  <2>8. etag' \in [sent : BOOLEAN, of : SUBSET Bans]
    BY <2>1, <2>2 DEF BanTypeOK, EtagOf
  <2>9. BanTypeOK'
    BY <1>1, <2>1, <2>2, <2>4, <2>7, <2>8 DEF BanTypeOK
  <2>10. Paired' /\ GivenOnly' /\ UnderWay'
    BY <1>1, <1>2, <2>1, <2>2, <2>4, <2>6 DEF Paired, GivenOnly, UnderWay, EtagOf
  <2>11. AnswersNoted' /\ SetsNoted'
    BY <1>3, <2>2, <2>4, <2>5, <2>6 DEF AnswersNoted, SetsNoted
  <2>12. QED
    BY <1>2, <1>4, <2>9, <2>10, <2>11
<1>8. CASE FetchFails(r)
  <2> DEFINE f == Fetched(cached, TRUE)
  <2>1. /\ fetch[r].step \in {"asking", "answered"} /\ lock' = None
        /\ UNCHANGED <<cached, etag>>
        /\ fetch' = [fetch EXCEPT ![r] = f]
    BY <1>8 DEF FetchFails
  <2>2. f \in Fetches
    BY DEF Fetched, Fetches, FetchSteps, NoAnswer, BanTypeOK
  <2>3. /\ fetch' \in [Runs -> Fetches]
        /\ fetch'[r] = f
        /\ \A q \in Runs \ {r} : fetch'[q] = fetch[q]
    BY <2>1, <2>2, FetchMoves
  <2>4. \A q \in Runs \ {r} : fetch[q].step \notin {"asking", "answered"}
    BY <2>1 DEF BanTypeOK, LockDiscipline
  <2>5. f.step = "done" /\ f.failed /\ f.set = cached /\ f.answer.body = {}
    BY DEF Fetched, NoAnswer
  <2>6. LockDiscipline'
    BY <2>1, <2>3, <2>4, <2>5, NoneIsNothing DEF LockDiscipline
  <2>7. BanTypeOK'
    BY <1>1, <2>1, <2>3, <2>6 DEF BanTypeOK
  <2>8. Paired' /\ GivenOnly' /\ UnderWay'
    BY <1>1, <1>2, <2>1, <2>3, <2>5 DEF Paired, GivenOnly, UnderWay
  <2>9. AnswersNoted' /\ SetsNoted'
    BY <1>3, <2>1, <2>3, <2>5 DEF AnswersNoted, SetsNoted
  <2>10. QED
    BY <1>2, <1>4, <2>7, <2>8, <2>9
<1>9. QED
  BY <1>5, <1>6, <1>7, <1>8 DEF Poll

\* The check is over, and so is its use of what it saw.
LEMMA FeedDecide ==
  ASSUME FeedInv, NEW r \in Runs, Decide(r)
  PROVE  FeedInv'
<1> USE DEF FeedInv
<1>1. /\ phase[r] = "checking" /\ fetch[r].step = "done"
      /\ UNCHANGED <<table, creating, lock, cached, etag>>
      /\ fetch' = [fetch EXCEPT ![r] = Unasked]
      /\ phase' = [phase EXCEPT ![r] = IF Hits(r, TargetsOf(r)) # {} THEN "banned" ELSE "admitted"]
      /\ seen' = [seen EXCEPT ![r] = {}]
  BY DEF Decide, Outcome, Forget
<1>2. Unasked \in Fetches /\ Unasked.step = "idle" /\ Unasked.set = {} /\ Unasked.answer.body = {}
  BY DEF Unasked, Fetches, FetchSteps, NoAnswer
<1>3. /\ fetch' \in [Runs -> Fetches]
      /\ fetch'[r] = Unasked
      /\ \A q \in Runs \ {r} : fetch'[q] = fetch[q]
  BY <1>1, <1>2, FetchMoves
<1>4. /\ RunTypes'
      /\ phase'[r] # "checking"
      /\ \A q \in Runs \ {r} : phase'[q] = phase[q] /\ seen'[q] = seen[q]
  BY <1>1 DEF RunTypes, Phases
<1>5. LockDiscipline'
  BY <1>1, <1>2, <1>3 DEF BanTypeOK, LockDiscipline
<1>6. BanTypeOK'
  BY <1>1, <1>3, <1>5 DEF BanTypeOK
<1>7. Paired' /\ GivenOnly' /\ UnderWay'
  BY <1>1, <1>2, <1>3, <1>4 DEF Paired, GivenOnly, Given, UnderWay
<1>8. \A q \in Runs \ {r} : \A ids : Noted(ids, q)' <=> Noted(ids, q)
  BY <1>1, <1>4 DEF Noted, Names, TargetsOf
<1>9. NowNoted' /\ AnswersNoted' /\ SetsNoted'
  BY <1>1, <1>2, <1>3, <1>4, <1>8 DEF NowNoted, AnswersNoted, SetsNoted, Active
<1>10. QED
  BY <1>4, <1>6, <1>7, <1>9

\* Every other step of a run leaves the feed alone.
LEMMA FeedElse ==
  ASSUME FeedInv, NEW r \in Runs,
         Refresh(r) \/ RefreshFailsSoft(r) \/ Enter(r) \/ Work(r) \/ Leave(r)
  PROVE  /\ UNCHANGED <<banVars, seen>> /\ phase' \in [Runs -> Phases]
         /\ \A q \in Runs : phase'[q] = "checking" <=> phase[q] = "checking"
<1>1. phase \in [Runs -> Phases]
  BY DEF FeedInv, RunTypes
<1>2. CASE Refresh(r) \/ RefreshFailsSoft(r)
  BY <1>1, <1>2 DEF Refresh, RefreshFailsSoft, Phases, banVars
<1>3. CASE Enter(r)
  BY <1>1, <1>3 DEF Enter, Phases
<1>4. CASE Work(r)
  BY <1>1, <1>4 DEF Work, runVars
<1>5. CASE Leave(r)
  BY <1>1, <1>5 DEF Leave, Phases
<1>6. QED
  BY <1>2, <1>3, <1>4, <1>5

\* No step breaks the invariant, and only Decide ends a check.
LEMMA FeedNext ==
  ASSUME FeedInv, [Next]_vars
  PROVE  /\ FeedInv'
         /\ \A r \in Runs : phase[r] = "checking" /\ phase'[r] # "checking" => Decide(r)
<1>1. CASE Operate
  BY <1>1, FeedOperate DEF Operate
<1>2. ASSUME NEW r \in Runs, Check(r)
      PROVE  FeedInv' /\ \A q \in Runs : phase[q] = "checking" => phase'[q] = "checking"
  BY <1>2, FeedCheck DEF Check, FeedInv, RunTypes
<1>3. ASSUME NEW r \in Runs, Poll(r)
      PROVE  FeedInv' /\ \A q \in Runs : phase[q] = "checking" => phase'[q] = "checking"
  BY <1>3, FeedPoll DEF Poll, runVars
<1>4. ASSUME NEW r \in Runs, Decide(r)
      PROVE  /\ FeedInv'
             /\ \A q \in Runs \ {r} : phase[q] = "checking" => phase'[q] = "checking"
  <2>1. phase \in [Runs -> Phases]
    BY DEF FeedInv, RunTypes
  <2>2. QED
    BY <1>4, <2>1, FeedDecide DEF Decide, Outcome
<1>5. ASSUME NEW r \in Runs,
             Refresh(r) \/ RefreshFailsSoft(r) \/ Enter(r) \/ Work(r) \/ Leave(r)
      PROVE  FeedInv' /\ \A q \in Runs : phase[q] = "checking" => phase'[q] = "checking"
  BY <1>5, FeedElse, FeedAside
<1>6. CASE AllGone \/ UNCHANGED vars
  <2>1. UNCHANGED <<banVars, phase, seen>>
    BY <1>6 DEF AllGone, vars, runVars
  <2>2. FeedInv'
    BY <2>1, FeedAside DEF FeedInv, RunTypes
  <2>3. QED
    BY <2>1, <2>2
<1>7. QED
  BY <1>1, <1>2, <1>3, <1>4, <1>5, <1>6 DEF Next, RunStep

\* A check whose fetch succeeded decides as one of the moments it has seen.
LEMMA DecidesAsSeen ==
  ASSUME FeedInv, NEW r \in Runs, Decide(r), ~fetch[r].failed
  PROVE  (phase'[r] = "banned") \in seen[r]
<1>1. /\ fetch[r].step = "done"
      /\ phase' = [phase EXCEPT ![r] = IF Hits(r, TargetsOf(r)) # {} THEN "banned" ELSE "admitted"]
      /\ phase \in [Runs -> Phases]
  BY DEF Decide, Outcome, FeedInv, RunTypes
<1>2. phase'[r] = "banned" <=> Names(fetch[r].set, r)
  BY <1>1 DEF Hits, Names
<1>3. Noted(fetch[r].set, r)
  BY <1>1 DEF FeedInv, SetsNoted
<1>4. CASE Names(fetch[r].set, r)
  <2>1. (phase'[r] = "banned") = TRUE
    BY <1>2, <1>4, Zenon
  <2>2. TRUE \in seen[r]
    BY <1>3, <1>4 DEF Noted
  <2>3. QED
    BY <2>1, <2>2, Zenon
<1>5. CASE ~Names(fetch[r].set, r)
  <2>1. (phase'[r] = "banned") = FALSE
    BY <1>2, <1>5, Zenon
  <2>2. FALSE \in seen[r]
    BY <1>3, <1>5 DEF Noted
  <2>3. QED
    BY <2>1, <2>2, Zenon
<1>6. QED
  BY <1>4, <1>5

\* However many runs share the source, its ETag and its lock, a check whose fetch
\* succeeded decides as the table stood at one moment of it (bans.py, fetch).
THEOREM ChecksAreAtomic == Spec => CheckIsAtomic
<1>1. Init => FeedInv
  BY FeedInit
<1>2. FeedInv /\ [Next]_vars => FeedInv'
  BY FeedNext
<1>3. ASSUME FeedInv, [Next]_vars
      PROVE  [\A r \in Runs :
                 phase[r] = "checking" /\ phase'[r] # "checking" /\ ~fetch[r].failed
                     => (phase'[r] = "banned") \in seen[r]]_vars
  BY <1>3, FeedNext, DecidesAsSeen
<1>4. QED
  BY <1>1, <1>2, <1>3, PTL DEF Spec, CheckIsAtomic

-----------------------------------------------------------------------------
(* The scopes.  What an object's stack holds was found by the run that looks *)
(* or by one it met, and the stack is as deep as there are runs inside.      *)

Found(r) == {Ambient[q] : q \in {r} \union met[r]}
Holders(c) == {r \in Runs : phase[r] = "inside" /\ ContextOf[r] = c}

ScopeTypes ==
    /\ phase \in [Runs -> Phases]
    /\ current \in [Runs -> Contexts \union {NoContext}]
    /\ saved \in [Contexts -> Seq(Contexts \union {NoContext})]
    /\ met \in [Runs -> SUBSET Runs]
Untouched == \A r \in Runs : phase[r] \notin {"inside", "left"} => current[r] = Ambient[r]
StacksFound ==
    \A r \in Runs : phase[r] = "inside" =>
        \A i \in DOMAIN saved[ContextOf[r]] : saved[ContextOf[r]][i] \in Found(r)
StacksDeep ==
    \A c \in Contexts : IsFiniteSet(Holders(c)) /\ Len(saved[c]) = Cardinality(Holders(c))
Restored == \A r \in Runs : phase[r] = "left" => current[r] \in Found(r)

ScopeInv == ScopeTypes /\ Untouched /\ StacksFound /\ StacksDeep /\ Restored

LEMMA ScopeInit == Init => ScopeInv
<1> SUFFICES ASSUME Init PROVE ScopeInv
  OBVIOUS
<1> USE DEF Init
<1>1. ScopeTypes
  BY ContextsAssumption DEF ScopeTypes, Phases
<1>2. Untouched /\ StacksFound /\ Restored
  BY DEF Untouched, StacksFound, Restored
<1>3. StacksDeep
  <2>1. \A c \in Contexts : Holders(c) = {} /\ Len(saved[c]) = 0
    BY DEF Holders
  <2>2. QED
    BY <2>1, FS_EmptySet DEF StacksDeep
<1>4. QED
  BY <1>1, <1>2, <1>3 DEF ScopeInv

\* Steps outside the scopes keep the invariant.
LEMMA ScopeAside ==
  ASSUME ScopeInv, UNCHANGED <<current, saved, met>>, phase' \in [Runs -> Phases],
         \A r \in Runs : /\ phase'[r] = "inside" <=> phase[r] = "inside"
                         /\ phase'[r] = "left" <=> phase[r] = "left"
  PROVE  ScopeInv'
<1> USE DEF ScopeInv
<1>1. ScopeTypes'
  BY DEF ScopeTypes
<1>2. \A c : Holders(c)' = Holders(c)
  BY DEF Holders
<1>3. \A r : Found(r)' = Found(r)
  BY DEF Found
<1>4. Untouched' /\ StacksFound' /\ StacksDeep' /\ Restored'
  BY <1>2, <1>3 DEF Untouched, StacksFound, StacksDeep, Restored
<1>5. QED
  BY <1>1, <1>4

LEMMA ScopeEnter ==
  ASSUME ScopeInv, NEW r \in Runs, Enter(r)
  PROVE  ScopeInv'
<1> USE DEF ScopeInv
<1> DEFINE c == ContextOf[r]
<1> DEFINE others == Holders(c)
<1>1. /\ phase[r] = "admitted" /\ r \notin others
      /\ c \in Contexts /\ \A q \in Runs : ContextOf[q] \in Contexts
      /\ current[r] = Ambient[r]
  BY ContextsAssumption DEF Enter, Holders, Untouched
<1>2. /\ saved' = [saved EXCEPT ![c] = Append(@, current[r])]
      /\ current' = [current EXCEPT ![r] = c]
      /\ phase' = [phase EXCEPT ![r] = "inside"]
      /\ met' = [q \in Runs |->
                    CASE q = r -> others \union UNION {met[o] : o \in others}
                      [] q \in others -> met[q] \union {r}
                      [] OTHER -> met[q]]
  BY DEF Enter, Holders
<1>3. /\ met'[r] = others \union UNION {met[o] : o \in others}
      /\ \A q \in others : met'[q] = met[q] \union {r}
      /\ \A q \in Runs : q # r /\ q \notin others => met'[q] = met[q]
  BY <1>1, <1>2 DEF Holders
<1>4. ScopeTypes'
  <2>1. met' \in [Runs -> SUBSET Runs]
    <3>1. \A q \in Runs : met'[q] \subseteq Runs
      BY <1>3 DEF ScopeTypes, Holders
    <3>2. QED
      BY <1>2, <3>1
  <2>2. QED
    BY <1>1, <1>2, <2>1 DEF ScopeTypes, Phases
<1>5. /\ saved'[c] = Append(saved[c], Ambient[r])
      /\ \A d \in Contexts \ {c} : saved'[d] = saved[d]
      /\ saved[c] \in Seq(Contexts \union {NoContext})
  BY <1>1, <1>2 DEF ScopeTypes
<1>6. /\ phase'[r] = "inside" /\ current'[r] = c
      /\ \A q \in Runs \ {r} : phase'[q] = phase[q] /\ current'[q] = current[q]
  BY <1>2 DEF ScopeTypes
<1>7. /\ Ambient[r] \in Found(r)'
      /\ \A q \in others : Found(q) \subseteq Found(r)' /\ Found(q) \subseteq Found(q)' /\ Ambient[r] \in Found(q)'
      /\ \A q \in Runs : q # r /\ q \notin others => Found(q)' = Found(q)
  BY <1>3 DEF Found
<1>8. Untouched'
  BY <1>6 DEF Untouched
<1>9. Restored'
  BY <1>6, <1>7 DEF Restored, Holders
<1>10. Holders(c)' = others \union {r} /\ \A d \in Contexts \ {c} : Holders(d)' = Holders(d)
  BY <1>1, <1>6 DEF Holders
<1>11. StacksDeep'
  <2>1. IsFiniteSet(others \union {r}) /\ Cardinality(others \union {r}) = Cardinality(others) + 1
    BY <1>1, FS_AddElement DEF StacksDeep
  <2>2. Len(saved'[c]) = Len(saved[c]) + 1
    BY <1>1, <1>5
  <2>3. IsFiniteSet(Holders(c)') /\ Len(saved'[c]) = Cardinality(Holders(c)')
    BY <1>1, <1>10, <2>1, <2>2 DEF StacksDeep
  <2>4. \A d \in Contexts \ {c} : IsFiniteSet(Holders(d)') /\ Len(saved'[d]) = Cardinality(Holders(d)')
    BY <1>5, <1>10 DEF StacksDeep
  <2>5. QED
    BY <2>3, <2>4 DEF StacksDeep
<1>12. StacksFound'
  <2>1. \A q \in others : \A i \in DOMAIN saved[c] : saved[c][i] \in Found(q)
    BY DEF StacksFound, Holders
  <2>2. \A i \in DOMAIN saved[c] : saved[c][i] \in Found(r)'
    <3>1. CASE others = {}
      <4>1. Len(saved[c]) = 0
        BY <1>1, <3>1, FS_EmptySet DEF StacksDeep
      <4>2. QED
        BY <1>5, <4>1
    <3>2. CASE others # {}
      BY <1>7, <2>1, <3>2
    <3>3. QED
      BY <3>1, <3>2
  <2>3. \A i \in DOMAIN saved'[c] :
          \/ i \in DOMAIN saved[c] /\ saved'[c][i] = saved[c][i]
          \/ saved'[c][i] = Ambient[r]
    BY <1>5
  <2>4. \A i \in DOMAIN saved'[c] : saved'[c][i] \in Found(r)'
    BY <1>7, <2>2, <2>3
  <2>5. \A q \in others : \A i \in DOMAIN saved'[c] : saved'[c][i] \in Found(q)'
    BY <1>7, <2>1, <2>3
  <2>6. ASSUME NEW q \in Runs, phase'[q] = "inside", q # r, q \notin others
        PROVE  \A i \in DOMAIN saved'[ContextOf[q]] : saved'[ContextOf[q]][i] \in Found(q)'
    <3>1. phase[q] = "inside" /\ ContextOf[q] # c
      BY <1>6, <2>6 DEF Holders
    <3>2. saved'[ContextOf[q]] = saved[ContextOf[q]]
      BY <1>1, <1>5, <3>1
    <3>3. QED
      BY <1>7, <2>6, <3>1, <3>2 DEF StacksFound
  <2>7. QED
    BY <2>4, <2>5, <2>6 DEF StacksFound, Holders
<1>13. QED
  BY <1>4, <1>8, <1>9, <1>11, <1>12

LEMMA ScopeLeave ==
  ASSUME ScopeInv, NEW r \in Runs, Leave(r)
  PROVE  ScopeInv'
<1> USE DEF ScopeInv
<1> DEFINE c == ContextOf[r]
<1>1. /\ phase[r] = "inside" /\ r \in Holders(c)
      /\ c \in Contexts /\ \A q \in Runs : ContextOf[q] \in Contexts
  BY ContextsAssumption DEF Leave, Holders
<1>2. /\ current' = [current EXCEPT ![r] = Last(saved[c])]
      /\ saved' = [saved EXCEPT ![c] = Front(@)]
      /\ phase' = [phase EXCEPT ![r] = "left"]
      /\ met' = met
  BY DEF Leave
<1>3. /\ IsFiniteSet(Holders(c)) /\ Len(saved[c]) = Cardinality(Holders(c))
      /\ saved[c] \in Seq(Contexts \union {NoContext})
  BY <1>1 DEF StacksDeep, ScopeTypes
<1>4. Len(saved[c]) > 0
  <2>1. Cardinality(Holders(c)) # 0
    BY <1>1, <1>3, FS_EmptySet
  <2>2. QED
    BY <1>3, <2>1
<1>5. /\ Last(saved[c]) = saved[c][Len(saved[c])] /\ Len(saved[c]) \in DOMAIN saved[c]
      /\ Front(saved[c]) \in Seq(Contexts \union {NoContext})
      /\ Len(Front(saved[c])) = Len(saved[c]) - 1
      /\ \A i \in DOMAIN Front(saved[c]) : i \in DOMAIN saved[c] /\ Front(saved[c])[i] = saved[c][i]
  BY <1>3, <1>4 DEF Last, Front
<1>6. Last(saved[c]) \in Found(r)
  BY <1>1, <1>5 DEF StacksFound
<1>7. \A q : Found(q)' = Found(q)
  BY <1>2 DEF Found
<1>8. /\ phase'[r] = "left" /\ current'[r] = Last(saved[c])
      /\ saved'[c] = Front(saved[c])
      /\ \A d \in Contexts \ {c} : saved'[d] = saved[d]
      /\ \A q \in Runs \ {r} : phase'[q] = phase[q] /\ current'[q] = current[q]
  BY <1>1, <1>2 DEF ScopeTypes
<1>9. ScopeTypes'
  <2>1. Last(saved[c]) \in Contexts \union {NoContext}
    BY <1>3, <1>5
  <2>2. QED
    BY <1>1, <1>2, <1>5, <2>1 DEF ScopeTypes, Phases
<1>10. Untouched'
  BY <1>8 DEF Untouched
<1>11. Restored'
  BY <1>6, <1>7, <1>8 DEF Restored
<1>12. Holders(c)' = Holders(c) \ {r} /\ \A d \in Contexts \ {c} : Holders(d)' = Holders(d)
  BY <1>1, <1>8 DEF Holders
<1>13. StacksDeep'
  <2>1. IsFiniteSet(Holders(c) \ {r}) /\ Cardinality(Holders(c) \ {r}) = Cardinality(Holders(c)) - 1
    BY <1>1, <1>3, FS_RemoveElement
  <2>2. IsFiniteSet(Holders(c)') /\ Len(saved'[c]) = Cardinality(Holders(c)')
    BY <1>3, <1>5, <1>8, <1>12, <2>1
  <2>3. \A d \in Contexts \ {c} : IsFiniteSet(Holders(d)') /\ Len(saved'[d]) = Cardinality(Holders(d)')
    BY <1>8, <1>12 DEF StacksDeep
  <2>4. QED
    BY <2>2, <2>3 DEF StacksDeep
<1>14. StacksFound'
  <2> SUFFICES ASSUME NEW q \in Runs, phase'[q] = "inside",
                      NEW i \in DOMAIN saved'[ContextOf[q]]
               PROVE  saved'[ContextOf[q]][i] \in Found(q)'
    BY DEF StacksFound
  <2>1. phase[q] = "inside"
    BY <1>8
  <2>2. i \in DOMAIN saved[ContextOf[q]] /\ saved'[ContextOf[q]][i] = saved[ContextOf[q]][i]
    BY <1>1, <1>5, <1>8
  <2>3. QED
    BY <1>7, <2>1, <2>2 DEF StacksFound
<1>15. QED
  BY <1>9, <1>10, <1>11, <1>13, <1>14

LEMMA ScopeNext == ScopeInv /\ [Next]_vars => ScopeInv'
<1> SUFFICES ASSUME ScopeInv, [Next]_vars PROVE ScopeInv'
  OBVIOUS
<1>1. phase \in [Runs -> Phases]
  BY DEF ScopeInv, ScopeTypes
<1>2. CASE Operate \/ AllGone \/ UNCHANGED vars
  BY <1>1, <1>2, ScopeAside DEF Operate, AllGone, vars, runVars
<1>3. ASSUME NEW r \in Runs, Refresh(r) \/ RefreshFailsSoft(r) \/ Check(r) \/ Decide(r)
      PROVE  ScopeInv'
  <2>1. /\ UNCHANGED <<current, saved, met>>
        /\ phase[r] \in {"start", "gate", "checking"}
        /\ \E p \in Phases \ {"inside", "left"} : phase' = [phase EXCEPT ![r] = p]
    BY <1>3 DEF Refresh, RefreshFailsSoft, Check, Decide, Outcome, Phases
  <2>2. /\ phase' \in [Runs -> Phases]
        /\ \A q \in Runs : /\ phase'[q] = "inside" <=> phase[q] = "inside"
                           /\ phase'[q] = "left" <=> phase[q] = "left"
    BY <1>1, <2>1
  <2>3. QED
    BY <2>1, <2>2, ScopeAside
<1>4. ASSUME NEW r \in Runs, Poll(r) \/ Work(r)
      PROVE  ScopeInv'
  BY <1>1, <1>4, ScopeAside DEF Poll, Work, runVars
<1>5. QED
  BY <1>2, <1>3, <1>4, ScopeEnter, ScopeLeave DEF Next, RunStep

\* A run leaves its task with the context it found there, or one found by a run
\* that shared its HexgateContext object meanwhile (context.py, __aexit__).
THEOREM ScopesAreRestored == Spec => []ScopesRestore
<1>1. ScopeInv => ScopesRestore
  BY DEF ScopeInv, Restored, Found, ScopesRestore
<1>2. QED
  BY <1>1, ScopeInit, ScopeNext, PTL DEF Spec

-----------------------------------------------------------------------------
(* The guarded calls.  The invariant follows one call of caller r: what it   *)
(* has recorded, asked for, reported and run at each of its steps.           *)

Before == {"idle", "pre", "askPre", "decide"}
Decided == {"askPolicy", "invoke", "post", "askPost", "returned"}

RanInv(r) ==
    /\ call[r].step \in Before \union {"askPolicy", "invoke"} => ran[r] = NoArgs
    /\ call[r].step \in {"post", "askPost", "returned"} => ran[r] # NoArgs
    /\ ran[r] # NoArgs => ran[r] = call[r].args

\* The decision is the one policy record, and was of these arguments.
DecidedBy(r, i) ==
    /\ PolicyRecords(r) = {i}
    /\ trail[r][i].args = call[r].args
    /\ trail[r][i].outcome # "deny"
    /\ \E v \in inForce[r], n \in ToSet(RoleSet(ContextOf[r])) :
           Policy[v][n][call[r].args] = trail[r][i].outcome

NothingDenied(r) == \A i \in DOMAIN trail[r] : trail[r][i].by # "post" => trail[r][i].outcome # "deny"

TrailInv(r) ==
    /\ call[r].step \in Before => PolicyRecords(r) = {}
    /\ call[r].step \in Decided \/ ran[r] # NoArgs => \E i \in DOMAIN trail[r] : DecidedBy(r, i)
    /\ call[r].step # "refused" \/ ran[r] # NoArgs => NothingDenied(r)

LastInv(r) ==
    /\ call[r].step = "askPolicy" =>
           trail[r] # <<>> /\ Last(trail[r]).outcome = "approval" /\ Last(trail[r]).by = "policy"
    /\ call[r].step = "refused" =>
           /\ trail[r] # <<>> /\ Last(trail[r]).outcome # "allow"
           /\ Last(trail[r]).by = "post" <=> ran[r] # NoArgs

\* Only the gate that is being asked is not yet granted.
GateInv(r) ==
    /\ call[r].step = "askPolicy" => granted[r] + 1 >= Cardinality(GatesBefore(r))
    /\ call[r].step \notin {"askPolicy", "refused", "raised"} \/ ran[r] # NoArgs =>
           granted[r] >= Cardinality(GatesBefore(r))

Reported(r) == reports[r].effective + reports[r].blocked + reports[r].halted

ReportInv(r) ==
    /\ call[r].step \notin Over => Reported(r) = 0
    /\ call[r].step \in {"returned", "refused"} => Reported(r) = IF call[r].mods THEN 1 ELSE 0
    /\ reports[r].effective > 0 => ran[r] = call[r].args
    /\ reports[r].blocked > 0 => ran[r] = NoArgs

\* While decide goes through the roles, one of them gated the call if the flag
\* says so, under a version that was in force.
RolesInv(r) ==
    /\ call[r].step \in {"idle", "pre", "askPre"} => ~call[r].gated
    /\ call[r].step = "decide" =>
        /\ call[r].roles = RoleSet(ContextOf[r])
        /\ call[r].at \in DOMAIN call[r].roles
        /\ enforced \in inForce[r]
        /\ call[r].gated => \E v \in inForce[r], n \in ToSet(RoleSet(ContextOf[r])) :
                                Policy[v][n][call[r].args] = "approval"

WhereInv ==
    /\ phase \in [Runs -> Phases] /\ current \in [Runs -> Contexts \union {NoContext}]
    /\ \A r \in Runs : phase[r] = "inside" => current[r] = ContextOf[r]

CallInv(r) ==
    RanInv(r) /\ TrailInv(r) /\ LastInv(r) /\ GateInv(r) /\ ReportInv(r) /\ RolesInv(r)

\* A step of one caller leaves what the others did alone.
OthersKept(r) ==
    \A q \in Callers \ {r} :
        /\ call'[q] = call[q] /\ trail'[q] = trail[q] /\ granted'[q] = granted[q]
        /\ ran'[q] = ran[q] /\ reports'[q] = reports[q] /\ inForce'[q] = inForce[q]

\* What moving on, recording, granting and reporting do.
LEMMA Moves ==
  ASSUME CallTypeOK, NEW r \in Callers, NEW s \in Steps, Goto(r, s) \/ Advance(r, s)
  PROVE  /\ call' \in [Callers -> Calls]
         /\ call'[r].step = s /\ call'[r].args = call[r].args /\ call'[r].mods = call[r].mods
         /\ call'[r].gated = call[r].gated
         /\ \A q \in Callers \ {r} : call'[q] = call[q]
<1>1. call \in [Callers -> Calls]
  BY DEF CallTypeOK
<1>2. CASE Goto(r, s)
  <2>1. call' = [call EXCEPT ![r].step = s, ![r].at = 1]
    BY <1>2 DEF Goto
  <2>2. call' \in [Callers -> Calls]
    BY <1>1, <2>1 DEF Calls
  <2>3. QED
    BY <1>1, <2>1, <2>2 DEF Calls
<1>3. CASE Advance(r, s)
  <2>1. call' = [call EXCEPT ![r].step = s, ![r].at = @ + 1]
    BY <1>3 DEF Advance
  <2>2. call' \in [Callers -> Calls]
    BY <1>1, <2>1 DEF Calls
  <2>3. QED
    BY <1>1, <2>1, <2>2 DEF Calls
<1>4. QED
  BY <1>2, <1>3

LEMMA Recording ==
  ASSUME CallTypeOK, NEW r \in Callers,
         NEW by \in {"pre", "policy", "post"}, NEW outcome \in Outcomes, Record(r, by, outcome)
  PROVE  /\ trail' \in [Callers -> Seq(Records)]
         /\ \A q \in Callers \ {r} : trail'[q] = trail[q]
         /\ trail'[r] # <<>> /\ Last(trail'[r]) = [by |-> by, outcome |-> outcome, args |-> call[r].args]
         /\ LET n == Len(trail[r]) + 1 IN
                /\ n \notin DOMAIN trail[r] /\ DOMAIN trail'[r] = DOMAIN trail[r] \union {n}
                /\ \A i \in DOMAIN trail[r] : trail'[r][i] = trail[r][i]
                /\ trail'[r][n] = [by |-> by, outcome |-> outcome, args |-> call[r].args]
                /\ PolicyRecords(r)' = IF by = "policy" THEN PolicyRecords(r) \union {n} ELSE PolicyRecords(r)
                /\ GatesBefore(r)' = IF by # "post" /\ outcome = "approval"
                                     THEN GatesBefore(r) \union {n} ELSE GatesBefore(r)
<1> DEFINE rec == [by |-> by, outcome |-> outcome, args |-> call[r].args]
<1> DEFINE n == Len(trail[r]) + 1
<1>1. trail \in [Callers -> Seq(Records)] /\ call[r].args \in Args
  BY DEF CallTypeOK, Calls
<1>2. rec \in Records
  BY <1>1 DEF Records
<1>3. trail' = [trail EXCEPT ![r] = Append(trail[r], rec)]
  BY DEF Record
<1>4. /\ trail' \in [Callers -> Seq(Records)]
      /\ \A q \in Callers \ {r} : trail'[q] = trail[q]
      /\ trail'[r] = Append(trail[r], rec)
  BY <1>1, <1>2, <1>3
<1>5. /\ n \notin DOMAIN trail[r] /\ DOMAIN trail'[r] = DOMAIN trail[r] \union {n}
      /\ \A i \in DOMAIN trail[r] : trail'[r][i] = trail[r][i]
      /\ trail'[r][n] = rec
      /\ trail'[r] # <<>> /\ Len(trail'[r]) = n
  BY <1>1, <1>2, <1>4
<1>6. Last(trail'[r]) = rec
  BY <1>5 DEF Last
<1>7. PolicyRecords(r)' = IF by = "policy" THEN PolicyRecords(r) \union {n} ELSE PolicyRecords(r)
  BY <1>5 DEF PolicyRecords
<1>8. GatesBefore(r)' = IF by # "post" /\ outcome = "approval"
                       THEN GatesBefore(r) \union {n} ELSE GatesBefore(r)
  BY <1>5 DEF GatesBefore
<1>9. QED
  BY <1>4, <1>5, <1>6, <1>7, <1>8

LEMMA GatesFinite ==
  ASSUME CallTypeOK, NEW r \in Callers
  PROVE  /\ IsFiniteSet(GatesBefore(r)) /\ Cardinality(GatesBefore(r)) \in Nat
         /\ \A n : n \notin DOMAIN trail[r] =>
                Cardinality(GatesBefore(r) \union {n}) = Cardinality(GatesBefore(r)) + 1
<1>1. trail[r] \in Seq(Records)
  BY DEF CallTypeOK
<1>2. DOMAIN trail[r] = 1..Len(trail[r]) /\ Len(trail[r]) \in Nat
  BY <1>1
<1>3. IsFiniteSet(1..Len(trail[r]))
  BY <1>2, FS_Interval
<1>4. GatesBefore(r) \subseteq 1..Len(trail[r])
  BY <1>2 DEF GatesBefore
<1>5. IsFiniteSet(GatesBefore(r))
  BY <1>3, <1>4, FS_Subset
<1>6. QED
  BY <1>2, <1>4, <1>5, FS_AddElement, FS_CardinalityType

LEMMA Granting ==
  ASSUME CallTypeOK, NEW r \in Callers, Grant(r)
  PROVE  /\ granted' \in [Callers -> Nat] /\ granted'[r] = granted[r] + 1
         /\ \A q \in Callers \ {r} : granted'[q] = granted[q]
  BY DEF CallTypeOK, Grant

LEMMA Reporting ==
  ASSUME CallTypeOK, NEW r \in Callers, NEW kind \in {"effective", "blocked", "halted"}, Report(r, kind)
  PROVE  /\ reports' \in [Callers -> Reports]
         /\ \A q \in Callers \ {r} : reports'[q] = reports[q]
         /\ Reported(r)' = IF call[r].mods THEN Reported(r) + 1 ELSE Reported(r)
         /\ kind # "effective" => reports'[r].effective = reports[r].effective
         /\ kind # "blocked" => reports'[r].blocked = reports[r].blocked
<1>1. reports \in [Callers -> Reports]
  BY DEF CallTypeOK
<1>2. CASE call[r].mods
  <2> DEFINE old == reports[r]
  <2>1. /\ old \in Reports
        /\ reports' = [reports EXCEPT ![r] = [old EXCEPT ![kind] = old[kind] + 1]]
        /\ [old EXCEPT ![kind] = old[kind] + 1] \in Reports
    BY <1>1, <1>2 DEF Report, Reports
  <2>2. /\ reports' \in [Callers -> Reports]
        /\ reports'[r] = [old EXCEPT ![kind] = old[kind] + 1]
        /\ \A q \in Callers \ {r} : reports'[q] = reports[q]
    BY <1>1, <2>1
  <2>3. CASE kind = "effective"
    <3>1. reports'[r] = [effective |-> old.effective + 1, blocked |-> old.blocked, halted |-> old.halted]
      BY <2>1, <2>2, <2>3 DEF Reports
    <3>2. QED
      BY <1>2, <2>1, <2>2, <2>3, <3>1 DEF Reported, Reports
  <2>4. CASE kind = "blocked"
    <3>1. reports'[r] = [effective |-> old.effective, blocked |-> old.blocked + 1, halted |-> old.halted]
      BY <2>1, <2>2, <2>4 DEF Reports
    <3>2. QED
      BY <1>2, <2>1, <2>2, <2>4, <3>1 DEF Reported, Reports
  <2>5. CASE kind = "halted"
    <3>1. reports'[r] = [effective |-> old.effective, blocked |-> old.blocked, halted |-> old.halted + 1]
      BY <2>1, <2>2, <2>5 DEF Reports
    <3>2. QED
      BY <1>2, <2>1, <2>2, <2>5, <3>1 DEF Reported, Reports
  <2>6. QED
    BY <2>3, <2>4, <2>5
<1>3. CASE ~call[r].mods
  BY <1>1, <1>3 DEF Report, Reported
<1>4. QED
  BY <1>2, <1>3

\* The step moves on or raises, and says nothing.
LEMMA Quiet ==
  ASSUME CallTypeOK, NEW r \in Callers, CallInv(r),
         call' \in [Callers -> Calls], call'[r].args = call[r].args, call'[r].mods = call[r].mods,
         call'[r].gated = call[r].gated,
         UNCHANGED <<trail, granted, ran, reports, inForce>>,
         \/ call[r].step \in {"idle", "pre"} /\ call'[r].step \in {"pre", "askPre"}
         \/ call[r].step = "post" /\ call'[r].step \in {"post", "askPost"}
         \/ call[r].step \notin Over /\ call'[r].step = "raised"
  PROVE  CallInv(r)'
<1> USE DEF CallInv
<1>1. PolicyRecords(r)' = PolicyRecords(r) /\ GatesBefore(r)' = GatesBefore(r) /\ Reported(r)' = Reported(r)
  BY DEF PolicyRecords, GatesBefore, Reported
<1>2. NothingDenied(r)' <=> NothingDenied(r)
  BY DEF NothingDenied
<1>3. \A i : DecidedBy(r, i)' <=> DecidedBy(r, i)
  BY <1>1 DEF DecidedBy
<1>4. RanInv(r)'
  BY DEF RanInv, Before
<1>5. TrailInv(r)'
  <2>1. (\E i \in DOMAIN trail[r] : DecidedBy(r, i)) => \E i \in DOMAIN trail'[r] : DecidedBy(r, i)'
    BY <1>3
  <2>2. CASE call'[r].step \in {"pre", "askPre"}
    BY <1>1, <1>2, <2>1, <2>2 DEF TrailInv, RanInv, Before, Decided
  <2>3. CASE call'[r].step \in {"post", "askPost"}
    BY <1>1, <1>2, <2>1, <2>3 DEF TrailInv, Before, Decided
  <2>4. CASE call'[r].step = "raised"
    BY <1>1, <1>2, <2>1, <2>4 DEF TrailInv, Before, Decided, Over
  <2>5. QED
    BY <2>2, <2>3, <2>4
<1>6. LastInv(r)'
  BY DEF LastInv
<1>7. GateInv(r)'
  BY <1>1 DEF GateInv
<1>8. ReportInv(r)'
  BY <1>1 DEF ReportInv, Reported, Over, CallTypeOK, Reports
<1>9. RolesInv(r)'
  BY DEF RolesInv, Over
<1>10. QED
  BY <1>4, <1>5, <1>6, <1>7, <1>8, <1>9

\* A guard or the policy refuses: with its record, reported, and nothing more.
LEMMA Refusal ==
  ASSUME CallTypeOK, NEW r \in Callers, CallInv(r),
         NEW by \in {"pre", "policy", "post"}, NEW outcome \in {"approval", "deny"},
         NEW kind \in {"blocked", "halted"},
         Record(r, by, outcome), Report(r, kind), Goto(r, "refused"),
         UNCHANGED <<granted, ran, inForce>>,
         IF by = "post" THEN call[r].step \in {"post", "askPost"} /\ kind = "halted"
         ELSE call[r].step \in Before
  PROVE  CallInv(r)'
<1> USE DEF CallInv
<1>1. /\ call'[r].step = "refused" /\ call'[r].args = call[r].args /\ call'[r].mods = call[r].mods
  BY Moves DEF Steps
<1> DEFINE n == Len(trail[r]) + 1
<1>2. /\ trail'[r] # <<>> /\ Last(trail'[r]) = [by |-> by, outcome |-> outcome, args |-> call[r].args]
      /\ n \notin DOMAIN trail[r] /\ DOMAIN trail'[r] = DOMAIN trail[r] \union {n}
      /\ \A i \in DOMAIN trail[r] : trail'[r][i] = trail[r][i]
      /\ trail'[r][n] = [by |-> by, outcome |-> outcome, args |-> call[r].args]
      /\ PolicyRecords(r)' = IF by = "policy" THEN PolicyRecords(r) \union {n} ELSE PolicyRecords(r)
      /\ by = "post" => GatesBefore(r)' = GatesBefore(r)
  BY Recording DEF Outcomes
<1>3. /\ Reported(r)' = IF call[r].mods THEN Reported(r) + 1 ELSE Reported(r)
      /\ reports'[r].effective = reports[r].effective
      /\ kind # "blocked" => reports'[r].blocked = reports[r].blocked
  BY Reporting
<1>4. ran[r] # NoArgs <=> by = "post"
  BY DEF RanInv, Before
<1>5. RanInv(r)'
  BY <1>1 DEF RanInv, Before
<1>6. TrailInv(r)'
  <2>1. ASSUME by = "post" PROVE \E i \in DOMAIN trail'[r] : DecidedBy(r, i)'
    <3>1. PICK i \in DOMAIN trail[r] : DecidedBy(r, i)
      BY <1>4, <2>1 DEF TrailInv
    <3>2. DecidedBy(r, i)'
      BY <1>1, <1>2, <2>1, <3>1 DEF DecidedBy
    <3>3. QED
      BY <1>2, <3>1, <3>2
  <2>2. ASSUME by = "post" PROVE NothingDenied(r)'
    BY <1>2, <1>4, <2>2 DEF TrailInv, NothingDenied
  <2>3. QED
    BY <1>1, <1>4, <2>1, <2>2 DEF TrailInv, Before, Decided
<1>7. LastInv(r)'
  BY <1>1, <1>2, <1>4 DEF LastInv
<1>8. GateInv(r)'
  BY <1>1, <1>2, <1>4 DEF GateInv
<1>9. ReportInv(r)'
  <2>1. Reported(r) = 0 /\ reports[r].effective = 0 /\ reports[r].blocked = 0
    BY DEF ReportInv, Reported, Over, Before, CallTypeOK, Reports
  <2>2. QED
    BY <1>1, <1>3, <1>4, <2>1 DEF ReportInv, Over
<1>10. RolesInv(r)'
  BY <1>1 DEF RolesInv
<1>11. QED
  BY <1>5, <1>6, <1>7, <1>8, <1>9, <1>10

\* The handler agrees to what a guard asked.
LEMMA GuardApproved ==
  ASSUME CallTypeOK, NEW r \in Callers, CallInv(r), NEW by \in {"pre", "post"},
         Record(r, by, "approval"), Grant(r), Advance(r, by),
         UNCHANGED <<ran, reports, inForce>>,
         call[r].step = IF by = "pre" THEN "askPre" ELSE "askPost"
  PROVE  CallInv(r)'
<1> USE DEF CallInv
<1>1. /\ call'[r].step = by /\ call'[r].args = call[r].args /\ call'[r].mods = call[r].mods
      /\ call'[r].gated = call[r].gated
  BY Moves DEF Steps
<1> DEFINE n == Len(trail[r]) + 1
<1>2. /\ n \notin DOMAIN trail[r] /\ DOMAIN trail'[r] = DOMAIN trail[r] \union {n}
      /\ \A i \in DOMAIN trail[r] : trail'[r][i] = trail[r][i]
      /\ trail'[r][n] = [by |-> by, outcome |-> "approval", args |-> call[r].args]
      /\ PolicyRecords(r)' = PolicyRecords(r)
      /\ GatesBefore(r)' = IF by # "post" THEN GatesBefore(r) \union {n} ELSE GatesBefore(r)
  BY Recording DEF Outcomes
<1>3. granted'[r] = granted[r] + 1
  BY Granting
<1>4. RanInv(r)'
  BY <1>1 DEF RanInv, Before
<1>5. TrailInv(r)'
  <2>1. NothingDenied(r)'
    BY <1>2 DEF TrailInv, NothingDenied
  <2>2. ASSUME by = "post" PROVE \E i \in DOMAIN trail'[r] : DecidedBy(r, i)'
    <3>1. PICK i \in DOMAIN trail[r] : DecidedBy(r, i)
      BY <2>2 DEF TrailInv, Decided
    <3>2. DecidedBy(r, i)'
      BY <1>1, <1>2, <3>1 DEF DecidedBy
    <3>3. QED
      BY <1>2, <3>1, <3>2
  <2>3. by = "pre" => ran[r] = NoArgs
    BY DEF RanInv, Before
  <2>4. QED
    BY <1>1, <1>2, <2>1, <2>2, <2>3 DEF TrailInv, Before, Decided
<1>6. LastInv(r)'
  BY <1>1 DEF LastInv
<1>7. GateInv(r)'
  <2>1. /\ Cardinality(GatesBefore(r)) \in Nat
        /\ Cardinality(GatesBefore(r) \union {n}) = Cardinality(GatesBefore(r)) + 1
    BY <1>2, GatesFinite
  <2>2. granted[r] \in Nat /\ granted[r] >= Cardinality(GatesBefore(r))
    BY DEF GateInv, CallTypeOK
  <2>3. GatesBefore(r)' = GatesBefore(r) \union {n} \/ GatesBefore(r)' = GatesBefore(r)
    BY <1>2
  <2>4. granted'[r] >= Cardinality(GatesBefore(r)')
    <3>1. CASE GatesBefore(r)' = GatesBefore(r) \union {n}
      <4>1. Cardinality(GatesBefore(r)') = Cardinality(GatesBefore(r)) + 1
        BY <2>1, <3>1
      <4>2. QED
        BY <1>3, <2>1, <2>2, <4>1
    <3>2. CASE GatesBefore(r)' = GatesBefore(r)
      <4>1. Cardinality(GatesBefore(r)') = Cardinality(GatesBefore(r))
        BY <3>2
      <4>2. QED
        BY <1>3, <2>1, <2>2, <4>1
    <3>3. QED
      BY <2>3, <3>1, <3>2
  <2>5. QED
    BY <1>1, <2>4 DEF GateInv
<1>8. ReportInv(r)'
  BY <1>1 DEF ReportInv, Reported, Over
<1>9. RolesInv(r)'
  BY <1>1 DEF RolesInv
<1>10. QED
  BY <1>4, <1>5, <1>6, <1>7, <1>8, <1>9

LEMMA Rewritten ==
  ASSUME CallTypeOK, NEW r \in Callers, CallInv(r), call[r].step = "pre",
         call'[r].step = "pre", call'[r].gated = call[r].gated,
         UNCHANGED <<trail, granted, ran, reports, inForce>>
  PROVE  CallInv(r)'
<1> USE DEF CallInv
<1>1. PolicyRecords(r)' = PolicyRecords(r) /\ GatesBefore(r)' = GatesBefore(r) /\ Reported(r)' = Reported(r)
  BY DEF PolicyRecords, GatesBefore, Reported
<1>2. ran[r] = NoArgs /\ ran'[r] = NoArgs
  BY DEF RanInv, Before
<1>3. RanInv(r)' /\ LastInv(r)' /\ RolesInv(r)'
  BY <1>2 DEF RanInv, LastInv, RolesInv
<1>4. TrailInv(r)'
  BY <1>1, <1>2 DEF TrailInv, NothingDenied, Before, Decided
<1>5. GateInv(r)'
  BY <1>1 DEF GateInv
<1>6. ReportInv(r)'
  BY <1>1, <1>2 DEF ReportInv, Reported, Over, CallTypeOK, Reports
<1>7. QED
  BY <1>3, <1>4, <1>5, <1>6

\* The loop over the roles begins, or goes on to the next of them.
LEMMA Deciding ==
  ASSUME CallTypeOK, NEW r \in Callers, CallInv(r), call[r].step \in {"pre", "decide"},
         call'[r].step = "decide", call'[r].args = call[r].args,
         UNCHANGED <<trail, granted, ran, reports>>,
         RolesInv(r)'
  PROVE  CallInv(r)'
<1> USE DEF CallInv
<1>1. PolicyRecords(r)' = PolicyRecords(r) /\ GatesBefore(r)' = GatesBefore(r) /\ Reported(r)' = Reported(r)
  BY DEF PolicyRecords, GatesBefore, Reported
<1>2. ran[r] = NoArgs /\ ran'[r] = NoArgs
  BY DEF RanInv, Before
<1>3. RanInv(r)' /\ LastInv(r)'
  BY <1>2 DEF RanInv, LastInv
<1>4. TrailInv(r)'
  BY <1>1, <1>2 DEF TrailInv, NothingDenied, Before, Decided
<1>5. GateInv(r)'
  BY <1>1 DEF GateInv
<1>6. ReportInv(r)'
  BY <1>1, <1>2 DEF ReportInv, Reported, Over, CallTypeOK, Reports
<1>7. QED
  BY <1>3, <1>4, <1>5, <1>6

\* What the policy recorded was said by a role of the run under a version in force.
LEMMA Granted ==
  ASSUME CallTypeOK, NEW r \in Callers, CallInv(r), call[r].step = "decide",
         NEW outcome \in {"allow", "approval"},
         Record(r, "policy", outcome), call'[r].args = call[r].args,
         call'[r].step = IF outcome = "allow" THEN "invoke" ELSE "askPolicy",
         UNCHANGED <<granted, ran, reports, inForce>>,
         \E v \in inForce[r], m \in ToSet(RoleSet(ContextOf[r])) : Policy[v][m][call[r].args] = outcome
  PROVE  CallInv(r)'
<1> USE DEF CallInv
<1>0. PICK n : n = Len(trail[r]) + 1
  OBVIOUS
<1>1. /\ trail'[r] # <<>> /\ Last(trail'[r]) = [by |-> "policy", outcome |-> outcome, args |-> call[r].args]
      /\ n \notin DOMAIN trail[r] /\ DOMAIN trail'[r] = DOMAIN trail[r] \union {n}
      /\ \A i \in DOMAIN trail[r] : trail'[r][i] = trail[r][i]
      /\ trail'[r][n] = [by |-> "policy", outcome |-> outcome, args |-> call[r].args]
      /\ PolicyRecords(r)' = PolicyRecords(r) \union {n}
      /\ GatesBefore(r)' = IF outcome = "approval" THEN GatesBefore(r) \union {n} ELSE GatesBefore(r)
  BY <1>0, Recording DEF Outcomes
<1>2. ran[r] = NoArgs /\ ran'[r] = NoArgs /\ PolicyRecords(r) = {}
  BY DEF RanInv, TrailInv, Before
<1>3. RanInv(r)'
  BY <1>2 DEF RanInv
<1>4. TrailInv(r)'
  <2>1. DecidedBy(r, n)'
    BY <1>1, <1>2 DEF DecidedBy
  <2>2. NothingDenied(r)'
    BY <1>1 DEF TrailInv, NothingDenied
  <2>3. \E i \in DOMAIN trail'[r] : DecidedBy(r, i)'
    BY <1>1, <2>1
  <2>4. QED
    BY <2>2, <2>3 DEF TrailInv, Before
<1>5. LastInv(r)'
  BY <1>1 DEF LastInv
<1>6. GateInv(r)'
  <2>1. /\ Cardinality(GatesBefore(r)) \in Nat
        /\ Cardinality(GatesBefore(r) \union {n}) = Cardinality(GatesBefore(r)) + 1
    BY <1>1, GatesFinite
  <2>2. granted[r] \in Nat /\ granted[r] >= Cardinality(GatesBefore(r))
    BY DEF GateInv, CallTypeOK
  <2>3. CASE outcome = "allow"
    <3>1. Cardinality(GatesBefore(r)') = Cardinality(GatesBefore(r))
      BY <1>1, <2>3
    <3>2. QED
      BY <2>2, <2>3, <3>1 DEF GateInv
  <2>4. CASE outcome = "approval"
    <3>1. Cardinality(GatesBefore(r)') = Cardinality(GatesBefore(r)) + 1
      BY <1>1, <2>1, <2>4
    <3>2. QED
      BY <1>2, <2>1, <2>2, <2>4, <3>1 DEF GateInv
  <2>5. QED
    BY <2>3, <2>4
<1>7. ReportInv(r)'
  BY <1>2 DEF ReportInv, Reported, Over, CallTypeOK, Reports
<1>8. RolesInv(r)'
  BY DEF RolesInv
<1>9. QED
  BY <1>3, <1>4, <1>5, <1>6, <1>7, <1>8

LEMMA PolicyAnswered ==
  ASSUME CallTypeOK, NEW r \in Callers, CallInv(r), PolicyApproved(r) \/ PolicyRejected(r)
  PROVE  CallInv(r)'
<1> USE DEF CallInv
<1>1. /\ call[r].step = "askPolicy" /\ UNCHANGED <<trail, ran, inForce>>
      /\ ran[r] = NoArgs /\ ran'[r] = NoArgs
  BY DEF PolicyApproved, PolicyRejected, RanInv
<1>2. PolicyRecords(r)' = PolicyRecords(r) /\ GatesBefore(r)' = GatesBefore(r)
  BY <1>1 DEF PolicyRecords, GatesBefore
<1>3. Reported(r) = 0 /\ reports[r].effective = 0 /\ reports[r].blocked = 0
  BY <1>1 DEF ReportInv, Reported, Over, CallTypeOK, Reports
<1>4. CASE PolicyApproved(r)
  <2>1. /\ call'[r].step = "invoke" /\ call'[r].args = call[r].args /\ UNCHANGED reports
        /\ granted'[r] = granted[r] + 1
    BY <1>4, Moves, Granting DEF PolicyApproved, Steps
  <2>2. TrailInv(r)'
    <3>1. PICK i \in DOMAIN trail[r] : DecidedBy(r, i)
      BY <1>1 DEF TrailInv, Decided
    <3>2. DecidedBy(r, i)'
      BY <1>1, <1>2, <2>1, <3>1 DEF DecidedBy
    <3>3. NothingDenied(r)'
      BY <1>1 DEF TrailInv, NothingDenied
    <3>4. \E j \in DOMAIN trail'[r] : DecidedBy(r, j)'
      BY <1>1, <3>2
    <3>5. QED
      BY <2>1, <3>3, <3>4 DEF TrailInv, Before
  <2>3. GateInv(r)'
    BY <1>1, <1>2, <2>1 DEF GateInv
  <2>4. ReportInv(r)'
    BY <1>3, <2>1 DEF ReportInv, Reported, Over
  <2>5. RanInv(r)' /\ LastInv(r)' /\ RolesInv(r)'
    BY <1>1, <2>1 DEF RanInv, LastInv, RolesInv
  <2>6. QED
    BY <2>2, <2>3, <2>4, <2>5
<1>5. CASE PolicyRejected(r)
  <2>1. /\ call'[r].step = "refused" /\ call'[r].args = call[r].args /\ call'[r].mods = call[r].mods
        /\ Reported(r)' = IF call[r].mods THEN Reported(r) + 1 ELSE Reported(r)
        /\ reports'[r].effective = reports[r].effective
    BY <1>5, Moves, Reporting DEF PolicyRejected, Steps
  <2>2. TrailInv(r)'
    BY <1>1, <2>1 DEF TrailInv, Before, Decided
  <2>3. GateInv(r)'
    BY <1>1, <2>1 DEF GateInv
  <2>4. ReportInv(r)'
    BY <1>1, <1>3, <2>1 DEF ReportInv, Over
  <2>5. LastInv(r)'
    BY <1>1, <2>1 DEF LastInv
  <2>6. RanInv(r)' /\ RolesInv(r)'
    BY <1>1, <2>1 DEF RanInv, RolesInv, Before
  <2>7. QED
    BY <2>2, <2>3, <2>4, <2>5, <2>6
<1>6. QED
  BY <1>4, <1>5

\* The tool runs, whether its end is seen or not.
LEMMA Invoked ==
  ASSUME CallTypeOK, NEW r \in Callers, CallInv(r), call[r].step = "invoke",
         call'[r].step \in {"post", "raised"}, call'[r].args = call[r].args,
         ran'[r] = call[r].args,
         UNCHANGED <<trail, granted, reports, inForce>>
  PROVE  CallInv(r)'
<1> USE DEF CallInv
<1>1. call[r].args \in Args /\ call[r].args # NoArgs
  BY NoArgsAssumption DEF CallTypeOK, Calls
<1>2. PolicyRecords(r)' = PolicyRecords(r) /\ GatesBefore(r)' = GatesBefore(r)
  BY DEF PolicyRecords, GatesBefore
<1>3. RanInv(r)' /\ LastInv(r)' /\ RolesInv(r)'
  BY <1>1 DEF RanInv, LastInv, RolesInv, Before
<1>4. TrailInv(r)'
  <2>1. PICK i \in DOMAIN trail[r] : DecidedBy(r, i)
    BY DEF TrailInv, Decided
  <2>2. DecidedBy(r, i)'
    BY <1>2, <2>1 DEF DecidedBy
  <2>3. NothingDenied(r)'
    BY DEF TrailInv, NothingDenied
  <2>4. \E j \in DOMAIN trail'[r] : DecidedBy(r, j)'
    BY <2>2
  <2>5. QED
    BY <2>3, <2>4 DEF TrailInv, Before
<1>5. GateInv(r)'
  BY <1>2 DEF GateInv
<1>6. ReportInv(r)'
  <2>1. Reported(r) = 0 /\ reports[r].effective = 0 /\ reports[r].blocked = 0
    BY DEF ReportInv, Reported, Over, CallTypeOK, Reports
  <2>2. QED
    BY <2>1 DEF ReportInv, Reported, Over
<1>7. QED
  BY <1>3, <1>4, <1>5, <1>6

LEMMA Finished ==
  ASSUME CallTypeOK, NEW r \in Callers, CallInv(r), Finish(r)
  PROVE  CallInv(r)'
<1> USE DEF CallInv
<1>1. /\ call[r].step = "post" /\ UNCHANGED <<trail, granted, ran, inForce>>
      /\ ran[r] = call[r].args /\ ran[r] # NoArgs
  BY DEF Finish, RanInv
<1>2. /\ call'[r].step \in {"returned", "raised"} /\ call'[r].args = call[r].args
      /\ call'[r].mods = call[r].mods
  BY Moves DEF Finish, Steps
<1>3. /\ Reported(r)' = IF call[r].mods THEN Reported(r) + 1 ELSE Reported(r)
      /\ reports'[r].blocked = reports[r].blocked
  BY Reporting DEF Finish
<1>4. PolicyRecords(r)' = PolicyRecords(r) /\ GatesBefore(r)' = GatesBefore(r)
  BY <1>1 DEF PolicyRecords, GatesBefore
<1>5. RanInv(r)' /\ LastInv(r)' /\ RolesInv(r)'
  BY <1>1, <1>2 DEF RanInv, LastInv, RolesInv, Before
<1>6. TrailInv(r)'
  <2>1. PICK i \in DOMAIN trail[r] : DecidedBy(r, i)
    BY <1>1 DEF TrailInv
  <2>2. DecidedBy(r, i)'
    BY <1>1, <1>2, <1>4, <2>1 DEF DecidedBy
  <2>3. NothingDenied(r)'
    BY <1>1 DEF TrailInv, NothingDenied
  <2>4. \E j \in DOMAIN trail'[r] : DecidedBy(r, j)'
    BY <1>1, <2>2
  <2>5. QED
    BY <1>2, <2>3, <2>4 DEF TrailInv, Before
<1>7. GateInv(r)'
  BY <1>1, <1>2, <1>4 DEF GateInv
<1>8. ReportInv(r)'
  <2>1. Reported(r) = 0 /\ reports[r].blocked = 0
    BY <1>1 DEF ReportInv, Reported, Over, CallTypeOK, Reports
  <2>2. QED
    BY <1>1, <1>2, <1>3, <2>1 DEF ReportInv, Over
<1>9. QED
  BY <1>5, <1>6, <1>7, <1>8

\* Steps of other callers and swaps of the policy keep the invariant of a call.
LEMMA CallAside ==
  ASSUME NEW q \in Callers, CallInv(q),
         call'[q] = call[q], trail'[q] = trail[q], granted'[q] = granted[q],
         ran'[q] = ran[q], reports'[q] = reports[q], inForce[q] \subseteq inForce'[q],
         call[q].step = "decide" => enforced' \in inForce'[q]
  PROVE  CallInv(q)'
<1> USE DEF CallInv
<1>1. PolicyRecords(q)' = PolicyRecords(q) /\ GatesBefore(q)' = GatesBefore(q) /\ Reported(q)' = Reported(q)
  BY DEF PolicyRecords, GatesBefore, Reported
<1>2. NothingDenied(q)' <=> NothingDenied(q)
  BY DEF NothingDenied
<1>3. \A i : DecidedBy(q, i) => DecidedBy(q, i)'
  BY <1>1 DEF DecidedBy
<1>4. RanInv(q)' /\ LastInv(q)' /\ GateInv(q)'
  BY <1>1 DEF RanInv, LastInv, GateInv
<1>5. TrailInv(q)'
  <2>1. (\E i \in DOMAIN trail[q] : DecidedBy(q, i)) => \E i \in DOMAIN trail'[q] : DecidedBy(q, i)'
    BY <1>3
  <2>2. QED
    BY <1>1, <1>2, <2>1 DEF TrailInv
<1>6. ReportInv(q)'
  BY <1>1 DEF ReportInv
<1>7. RolesInv(q)'
  BY DEF RolesInv
<1>8. QED
  BY <1>4, <1>5, <1>6, <1>7

\* What a step of a call establishes for the caller and keeps for the others.
Kept(r) == CallTypeOK' /\ CallInv(r)' /\ OthersKept(r) /\ UNCHANGED <<enforced, handler>>

LEMMA PreKept ==
  ASSUME CallTypeOK, NEW r \in Callers, CallInv(r),
         \/ CallTool(r) \/ PrePasses(r) \/ PreRewrites(r) \/ PreDenies(r) \/ PreGates(r)
         \/ PreApproved(r) \/ PreRejected(r)
  PROVE  Kept(r)
<1> USE DEF Kept
<1>1. CASE CallTool(r) \/ PrePasses(r)
  <2>1. /\ Goto(r, "pre") \/ Advance(r, "pre")
        /\ call[r].step \in {"idle", "pre"}
        /\ UNCHANGED <<enforced, handler, trail, granted, ran, reports, inForce>>
    BY <1>1 DEF CallTool, PrePasses, InPre
  <2>2. /\ call' \in [Callers -> Calls]
        /\ call'[r].step = "pre" /\ call'[r].args = call[r].args /\ call'[r].mods = call[r].mods
        /\ call'[r].gated = call[r].gated
        /\ \A q \in Callers \ {r} : call'[q] = call[q]
    BY <2>1, Moves DEF Steps
  <2>3. QED
    BY <2>1, <2>2, Quiet DEF CallTypeOK, OthersKept
<1>2. CASE PreRewrites(r)
  <2>1. call \in [Callers -> Calls]
    BY DEF CallTypeOK
  <2>2. PICK a \in Args : call' = [call EXCEPT ![r].args = a, ![r].mods = TRUE, ![r].at = @ + 1]
    BY <1>2 DEF PreRewrites
  <2>3. call' \in [Callers -> Calls]
    BY <2>1, <2>2 DEF Calls
  <2>4. /\ call[r].step = "pre" /\ call'[r].step = "pre" /\ call'[r].gated = call[r].gated
        /\ \A q \in Callers \ {r} : call'[q] = call[q]
    <3>1. call[r].step = "pre"
      BY <1>2 DEF PreRewrites, InPre
    <3>2. \A q \in Callers \ {r} : call'[q] = call[q]
      BY <2>1, <2>2
    <3>3. call'[r].step = call[r].step
      BY <2>1, <2>2 DEF Calls
    <3>4. call'[r].gated = call[r].gated
      BY <2>1, <2>2 DEF Calls
    <3>5. QED
      BY <3>1, <3>2, <3>3, <3>4
  <2>5. UNCHANGED <<enforced, handler, trail, granted, ran, reports, inForce>>
    BY <1>2 DEF PreRewrites
  <2>6. QED
    BY <2>3, <2>4, <2>5, Rewritten DEF CallTypeOK, OthersKept
<1>3. CASE PreGates(r) /\ handler
  <2>1. /\ call' = [call EXCEPT ![r].step = "askPre"]
        /\ call[r].step = "pre"
        /\ UNCHANGED <<enforced, handler, trail, granted, ran, reports, inForce>>
    BY <1>3 DEF PreGates, InPre
  <2>2. call \in [Callers -> Calls]
    BY DEF CallTypeOK
  <2>3. /\ call' \in [Callers -> Calls]
        /\ call'[r].step = "askPre" /\ call'[r].args = call[r].args /\ call'[r].mods = call[r].mods
        /\ call'[r].gated = call[r].gated
        /\ \A q \in Callers \ {r} : call'[q] = call[q]
    BY <2>1, <2>2 DEF Calls, Steps
  <2>4. QED
    BY <2>1, <2>3, Quiet DEF CallTypeOK, OthersKept
<1>4. CASE PreDenies(r) \/ (PreGates(r) /\ ~handler) \/ PreRejected(r)
  <2>1. /\ call[r].step \in Before
        /\ \E outcome \in {"approval", "deny"} : Record(r, "pre", outcome)
        /\ Report(r, "halted") /\ Goto(r, "refused")
        /\ UNCHANGED <<enforced, handler, granted, ran, inForce>>
    BY <1>4 DEF PreDenies, PreGates, PreRejected, InPre, Before
  <2>2. PICK outcome \in {"approval", "deny"} : Record(r, "pre", outcome)
    BY <2>1
  <2>3. CallInv(r)'
    BY <2>1, <2>2, Refusal
  <2>4. trail' \in [Callers -> Seq(Records)] /\ \A q \in Callers \ {r} : trail'[q] = trail[q]
    BY <2>2, Recording DEF Outcomes
  <2>5. reports' \in [Callers -> Reports] /\ \A q \in Callers \ {r} : reports'[q] = reports[q]
    BY <2>1, Reporting
  <2>6. call' \in [Callers -> Calls] /\ \A q \in Callers \ {r} : call'[q] = call[q]
    BY <2>1, Moves DEF Steps
  <2>7. QED
    BY <2>1, <2>3, <2>4, <2>5, <2>6 DEF CallTypeOK, OthersKept
<1>5. CASE PreApproved(r)
  <2>1. /\ call[r].step = "askPre"
        /\ Record(r, "pre", "approval") /\ Grant(r) /\ Advance(r, "pre")
        /\ UNCHANGED <<enforced, handler, ran, reports, inForce>>
    BY <1>5 DEF PreApproved
  <2>2. CallInv(r)'
    BY <2>1, GuardApproved
  <2>3. trail' \in [Callers -> Seq(Records)] /\ \A q \in Callers \ {r} : trail'[q] = trail[q]
    BY <2>1, Recording DEF Outcomes
  <2>4. granted' \in [Callers -> Nat] /\ \A q \in Callers \ {r} : granted'[q] = granted[q]
    BY <2>1, Granting
  <2>5. call' \in [Callers -> Calls] /\ \A q \in Callers \ {r} : call'[q] = call[q]
    BY <2>1, Moves DEF Steps
  <2>6. QED
    BY <2>1, <2>2, <2>3, <2>4, <2>5 DEF CallTypeOK, OthersKept
<1>6. QED
  BY <1>1, <1>2, <1>3, <1>4, <1>5

LEMMA PostKept ==
  ASSUME CallTypeOK, NEW r \in Callers, CallInv(r),
         \/ Raises(r) \/ PostPasses(r) \/ PostDenies(r) \/ PostGates(r)
         \/ PostApproved(r) \/ PostRejected(r) \/ Finish(r)
  PROVE  Kept(r)
<1> USE DEF Kept
<1>1. CASE Raises(r)
  <2>1. /\ Goto(r, "raised") /\ call[r].step \notin Over
        /\ UNCHANGED <<enforced, handler, trail, granted, ran, reports, inForce>>
    BY <1>1 DEF Raises, InPre, InPost, Over
  <2>2. /\ call' \in [Callers -> Calls]
        /\ call'[r].step = "raised" /\ call'[r].args = call[r].args /\ call'[r].mods = call[r].mods
        /\ call'[r].gated = call[r].gated
        /\ \A q \in Callers \ {r} : call'[q] = call[q]
    BY <2>1, Moves DEF Steps
  <2>3. QED
    BY <2>1, <2>2, Quiet DEF CallTypeOK, OthersKept
<1>2. CASE PostPasses(r)
  <2>1. /\ Advance(r, "post") /\ call[r].step = "post"
        /\ UNCHANGED <<enforced, handler, trail, granted, ran, reports, inForce>>
    BY <1>2 DEF PostPasses, InPost
  <2>2. /\ call' \in [Callers -> Calls]
        /\ call'[r].step = "post" /\ call'[r].args = call[r].args /\ call'[r].mods = call[r].mods
        /\ call'[r].gated = call[r].gated
        /\ \A q \in Callers \ {r} : call'[q] = call[q]
    BY <2>1, Moves DEF Steps
  <2>3. QED
    BY <2>1, <2>2, Quiet DEF CallTypeOK, OthersKept
<1>3. CASE PostGates(r) /\ handler
  <2>1. /\ call' = [call EXCEPT ![r].step = "askPost"]
        /\ call[r].step = "post"
        /\ UNCHANGED <<enforced, handler, trail, granted, ran, reports, inForce>>
    BY <1>3 DEF PostGates, InPost
  <2>2. call \in [Callers -> Calls]
    BY DEF CallTypeOK
  <2>3. /\ call' \in [Callers -> Calls]
        /\ call'[r].step = "askPost" /\ call'[r].args = call[r].args /\ call'[r].mods = call[r].mods
        /\ call'[r].gated = call[r].gated
        /\ \A q \in Callers \ {r} : call'[q] = call[q]
    BY <2>1, <2>2 DEF Calls, Steps
  <2>4. QED
    BY <2>1, <2>3, Quiet DEF CallTypeOK, OthersKept
<1>4. CASE PostDenies(r) \/ (PostGates(r) /\ ~handler) \/ PostRejected(r)
  <2>1. /\ call[r].step \in {"post", "askPost"}
        /\ \E outcome \in {"approval", "deny"} : Record(r, "post", outcome)
        /\ Report(r, "halted") /\ Goto(r, "refused")
        /\ UNCHANGED <<enforced, handler, granted, ran, inForce>>
    BY <1>4 DEF PostDenies, PostGates, PostRejected, InPost
  <2>2. PICK outcome \in {"approval", "deny"} : Record(r, "post", outcome)
    BY <2>1
  <2>3. CallInv(r)'
    BY <2>1, <2>2, Refusal
  <2>4. trail' \in [Callers -> Seq(Records)] /\ \A q \in Callers \ {r} : trail'[q] = trail[q]
    BY <2>2, Recording DEF Outcomes
  <2>5. reports' \in [Callers -> Reports] /\ \A q \in Callers \ {r} : reports'[q] = reports[q]
    BY <2>1, Reporting
  <2>6. call' \in [Callers -> Calls] /\ \A q \in Callers \ {r} : call'[q] = call[q]
    BY <2>1, Moves DEF Steps
  <2>7. QED
    BY <2>1, <2>3, <2>4, <2>5, <2>6 DEF CallTypeOK, OthersKept
<1>5. CASE PostApproved(r)
  <2>1. /\ call[r].step = "askPost"
        /\ Record(r, "post", "approval") /\ Grant(r) /\ Advance(r, "post")
        /\ UNCHANGED <<enforced, handler, ran, reports, inForce>>
    BY <1>5 DEF PostApproved
  <2>2. CallInv(r)'
    BY <2>1, GuardApproved
  <2>3. trail' \in [Callers -> Seq(Records)] /\ \A q \in Callers \ {r} : trail'[q] = trail[q]
    BY <2>1, Recording DEF Outcomes
  <2>4. granted' \in [Callers -> Nat] /\ \A q \in Callers \ {r} : granted'[q] = granted[q]
    BY <2>1, Granting
  <2>5. call' \in [Callers -> Calls] /\ \A q \in Callers \ {r} : call'[q] = call[q]
    BY <2>1, Moves DEF Steps
  <2>6. QED
    BY <2>1, <2>2, <2>3, <2>4, <2>5 DEF CallTypeOK, OthersKept
<1>6. CASE Finish(r)
  <2>1. /\ Report(r, "effective") /\ \E s \in {"returned", "raised"} : Goto(r, s)
        /\ UNCHANGED <<enforced, handler, trail, granted, ran, inForce>>
    BY <1>6 DEF Finish
  <2>2. call' \in [Callers -> Calls] /\ \A q \in Callers \ {r} : call'[q] = call[q]
    BY <2>1, Moves DEF Steps
  <2>3. reports' \in [Callers -> Reports] /\ \A q \in Callers \ {r} : reports'[q] = reports[q]
    BY <2>1, Reporting
  <2>4. QED
    BY <1>6, <2>1, <2>2, <2>3, Finished DEF CallTypeOK, OthersKept
<1>7. QED
  BY <1>1, <1>2, <1>3, <1>4, <1>5, <1>6

\* The verdict of the role decide is at: of the run's own roles, by the policy in force.
LEMMA VerdictInForce ==
  ASSUME CallTypeOK, NEW r \in Callers, CallInv(r), call[r].step = "decide"
  PROVE  /\ call[r].roles[call[r].at] \in ToSet(RoleSet(ContextOf[r]))
         /\ \E v \in inForce[r], m \in ToSet(RoleSet(ContextOf[r])) :
                Policy[v][m][call[r].args] = Verdict(r)
<1>1. /\ call[r].roles = RoleSet(ContextOf[r]) /\ call[r].at \in DOMAIN call[r].roles
      /\ enforced \in inForce[r]
  BY DEF CallInv, RolesInv
<1>2. call[r].roles[call[r].at] \in ToSet(RoleSet(ContextOf[r]))
  BY <1>1 DEF ToSet
<1>3. QED
  BY <1>1, <1>2 DEF Verdict

LEMMA DecideToolKept ==
  ASSUME CallTypeOK, WhereInv, NEW r \in Callers, CallInv(r), phase[r] = "inside", DecideTool(r)
  PROVE  CallTypeOK' /\ CallInv(r)' /\ OthersKept(r) /\ UNCHANGED <<enforced, handler>>
<1>1. current[r] = ContextOf[r] /\ ContextOf[r] \in Contexts
  BY ContextsAssumption DEF WhereInv
<1> DEFINE roles == RoleSet(ContextOf[r])
<1>2. roles \in Seq(Roles) /\ roles # <<>>
  BY <1>1, RolesAssumption
<1> HIDE DEF roles
<1>3. /\ call[r].step = "pre"
      /\ call' = [call EXCEPT ![r].step = "decide", ![r].at = 1, ![r].roles = roles]
      /\ inForce' = [inForce EXCEPT ![r] = {enforced}]
      /\ UNCHANGED <<enforced, handler, trail, granted, ran, reports>>
  BY <1>1 DEF DecideTool, StartDecide, roles
<1>4. call \in [Callers -> Calls] /\ inForce \in [Callers -> SUBSET Versions] /\ enforced \in Versions
  BY DEF CallTypeOK
<1>5. call' \in [Callers -> Calls]
  <2> DEFINE c == [call[r] EXCEPT !.step = "decide", !.at = 1, !.roles = roles]
  <2>1. c \in Calls
    BY <1>2, <1>4 DEF Calls, Steps
  <2>2. call' = [call EXCEPT ![r] = c]
    BY <1>3, <1>4 DEF Calls
  <2>3. QED
    BY <1>4, <2>1, <2>2
<1>6. /\ call'[r].step = "decide" /\ call'[r].at = 1 /\ call'[r].roles = roles
  BY <1>3, <1>4 DEF Calls
<1>7. /\ call'[r].args = call[r].args /\ call'[r].gated = call[r].gated
  BY <1>3, <1>4 DEF Calls
<1>8. inForce' \in [Callers -> SUBSET Versions] /\ inForce'[r] = {enforced}
  BY <1>3, <1>4
<1>9. OthersKept(r)
  BY <1>3, <1>4 DEF OthersKept
<1>10. RolesInv(r)'
  <2>1. ~call'[r].gated
    BY <1>3, <1>7 DEF CallInv, RolesInv
  <2>2. 1 \in DOMAIN roles
    BY <1>2
  <2>3. enforced' \in inForce'[r]
    BY <1>3, <1>8
  <2>4. QED
    BY <1>6, <2>1, <2>2, <2>3 DEF RolesInv, roles
<1>11. CallInv(r)'
  BY <1>3, <1>6, <1>7, <1>10, Deciding
<1>12. QED
  BY <1>3, <1>5, <1>8, <1>9, <1>11 DEF CallTypeOK

LEMMA NextRole ==
  ASSUME NEW c \in Calls, NEW gates \in BOOLEAN
  PROVE  [c EXCEPT !.at = @ + 1, !.gated = gates] \in Calls
<1>1. PICK n \in Nat : n = c.at + 1
  BY DEF Calls
<1>2. [c EXCEPT !.at = n, !.gated = gates] \in Calls
  BY DEF Calls
<1>3. QED
  BY <1>1, <1>2

LEMMA PolicyKept ==
  ASSUME CallTypeOK, NEW r \in Callers, CallInv(r), PolicyStep(r)
  PROVE  Kept(r)
<1> USE DEF Kept
<1>1. CASE RoleGrants(r)
  <2>1. /\ call[r].step = "decide" /\ Verdict(r) = "allow"
        /\ Record(r, "policy", "allow") /\ Goto(r, "invoke")
        /\ UNCHANGED <<enforced, handler, granted, ran, reports, inForce>>
    BY <1>1 DEF RoleGrants
  <2>2. /\ call' \in [Callers -> Calls]
        /\ call'[r].step = "invoke" /\ call'[r].args = call[r].args
        /\ \A q \in Callers \ {r} : call'[q] = call[q]
    BY <2>1, Moves DEF Steps
  <2>3. trail' \in [Callers -> Seq(Records)] /\ \A q \in Callers \ {r} : trail'[q] = trail[q]
    BY <2>1, Recording DEF Outcomes
  <2>4. \E v \in inForce[r], m \in ToSet(RoleSet(ContextOf[r])) : Policy[v][m][call[r].args] = "allow"
    BY <2>1, VerdictInForce
  <2>5. CallInv(r)'
    BY <2>1, <2>2, <2>4, Granted
  <2>6. QED
    BY <2>1, <2>2, <2>3, <2>5 DEF CallTypeOK, OthersKept
<1>2. CASE RoleDoesNot(r)
  <2> DEFINE gates == call[r].gated \/ Verdict(r) = "approval"
  <2>1. /\ call[r].step = "decide" /\ call[r].at # Len(call[r].roles)
        /\ call' = [call EXCEPT ![r].at = @ + 1, ![r].gated = gates]
        /\ UNCHANGED <<enforced, handler, trail, granted, ran, reports, inForce>>
    BY <1>2 DEF RoleDoesNot, LastRole
  <2>2. call \in [Callers -> Calls] /\ gates \in BOOLEAN
    BY DEF CallTypeOK
  <2>3. /\ gates => \E v \in inForce[r], m \in ToSet(RoleSet(ContextOf[r])) :
                        Policy[v][m][call[r].args] = "approval"
    BY <2>1, VerdictInForce DEF CallInv, RolesInv
  <2> HIDE DEF gates
  <2>4. call' \in [Callers -> Calls]
    <3>1. PICK g \in BOOLEAN : g = gates
      BY <2>2
    <3> DEFINE c == [call[r] EXCEPT !.at = @ + 1, !.gated = g]
    <3>2. c \in Calls
      BY <2>2, NextRole
    <3>3. call' = [call EXCEPT ![r] = c]
      BY <2>1, <2>2, <3>1 DEF Calls
    <3>4. QED
      BY <2>2, <3>2, <3>3
  <2>5. /\ call'[r].step = "decide" /\ call'[r].at = call[r].at + 1
        /\ call'[r].args = call[r].args /\ call'[r].roles = call[r].roles
    BY <2>1, <2>2 DEF Calls
  <2>6. call'[r].gated = gates
    BY <2>1, <2>2 DEF Calls
  <2>7. OthersKept(r)
    BY <2>1, <2>2 DEF OthersKept
  <2>8. RolesInv(r)'
    <3>1. /\ call[r].roles = RoleSet(ContextOf[r]) /\ call[r].at \in DOMAIN call[r].roles
          /\ enforced \in inForce[r] /\ call[r].roles \in Seq(Roles)
      BY <2>1, <2>2 DEF CallInv, RolesInv, Calls
    <3>2. call[r].at + 1 \in DOMAIN call[r].roles
      BY <2>1, <3>1
    <3>3. QED
      BY <2>1, <2>3, <2>5, <2>6, <3>1, <3>2 DEF RolesInv
  <2>9. CallInv(r)'
    BY <2>1, <2>5, <2>8, Deciding
  <2>10. QED
    BY <2>1, <2>4, <2>7, <2>9 DEF CallTypeOK
<1>3. CASE NoRoleGrants(r)
  <2> DEFINE gates == call[r].gated \/ Verdict(r) = "approval"
  <2>1. /\ call[r].step = "decide"
        /\ Record(r, "policy", IF gates THEN "approval" ELSE "deny")
        /\ IF gates /\ handler
           THEN Goto(r, "askPolicy") /\ UNCHANGED reports
           ELSE Goto(r, "refused") /\ Report(r, "blocked")
        /\ UNCHANGED <<enforced, handler, granted, ran, inForce>>
    BY <1>3 DEF NoRoleGrants
  <2>2. gates => \E v \in inForce[r], m \in ToSet(RoleSet(ContextOf[r])) :
                     Policy[v][m][call[r].args] = "approval"
    BY <2>1, VerdictInForce DEF CallInv, RolesInv
  <2> HIDE DEF gates
  <2>3. CASE gates /\ handler
    <3>1. Record(r, "policy", "approval") /\ Goto(r, "askPolicy") /\ UNCHANGED reports
      BY <2>1, <2>3
    <3>2. /\ call' \in [Callers -> Calls]
          /\ call'[r].step = "askPolicy" /\ call'[r].args = call[r].args
          /\ \A q \in Callers \ {r} : call'[q] = call[q]
      BY <3>1, Moves DEF Steps
    <3>3. trail' \in [Callers -> Seq(Records)] /\ \A q \in Callers \ {r} : trail'[q] = trail[q]
      BY <3>1, Recording DEF Outcomes
    <3>4. CallInv(r)'
      BY <2>1, <2>2, <2>3, <3>1, <3>2, Granted
    <3>5. QED
      BY <2>1, <3>1, <3>2, <3>3, <3>4 DEF CallTypeOK, OthersKept
  <2>4. CASE ~(gates /\ handler)
    <3>1. PICK outcome \in {"approval", "deny"} : Record(r, "policy", outcome)
      BY <2>1
    <3>2. Goto(r, "refused") /\ Report(r, "blocked")
      BY <2>1, <2>4
    <3>3. CallInv(r)'
      BY <2>1, <3>1, <3>2, Refusal DEF Before
    <3>4. trail' \in [Callers -> Seq(Records)] /\ \A q \in Callers \ {r} : trail'[q] = trail[q]
      BY <3>1, Recording DEF Outcomes
    <3>5. reports' \in [Callers -> Reports] /\ \A q \in Callers \ {r} : reports'[q] = reports[q]
      BY <3>2, Reporting
    <3>6. call' \in [Callers -> Calls] /\ \A q \in Callers \ {r} : call'[q] = call[q]
      BY <3>2, Moves DEF Steps
    <3>7. QED
      BY <2>1, <3>3, <3>4, <3>5, <3>6 DEF CallTypeOK, OthersKept
  <2>5. QED
    BY <2>3, <2>4
<1>4. CASE PolicyApproved(r)
  <2>1. Grant(r) /\ Goto(r, "invoke") /\ UNCHANGED <<enforced, handler, trail, ran, reports, inForce>>
    BY <1>4 DEF PolicyApproved
  <2>2. granted' \in [Callers -> Nat] /\ \A q \in Callers \ {r} : granted'[q] = granted[q]
    BY <2>1, Granting
  <2>3. call' \in [Callers -> Calls] /\ \A q \in Callers \ {r} : call'[q] = call[q]
    BY <2>1, Moves DEF Steps
  <2>4. QED
    BY <1>4, <2>1, <2>2, <2>3, PolicyAnswered DEF CallTypeOK, OthersKept
<1>5. CASE PolicyRejected(r)
  <2>1. Report(r, "blocked") /\ Goto(r, "refused") /\ UNCHANGED <<enforced, handler, trail, granted, ran, inForce>>
    BY <1>5 DEF PolicyRejected
  <2>2. reports' \in [Callers -> Reports] /\ \A q \in Callers \ {r} : reports'[q] = reports[q]
    BY <2>1, Reporting
  <2>3. call' \in [Callers -> Calls] /\ \A q \in Callers \ {r} : call'[q] = call[q]
    BY <2>1, Moves DEF Steps
  <2>4. QED
    BY <1>5, <2>1, <2>2, <2>3, PolicyAnswered DEF CallTypeOK, OthersKept
<1>6. QED
  BY <1>1, <1>2, <1>3, <1>4, <1>5 DEF PolicyStep

LEMMA ToolKept ==
  ASSUME CallTypeOK, NEW r \in Callers, CallInv(r), Invoke(r) \/ CancelTool(r)
  PROVE  Kept(r)
<1> USE DEF Kept
<1>1. /\ call[r].step = "invoke" /\ ran' = [ran EXCEPT ![r] = call[r].args]
      /\ UNCHANGED <<enforced, handler, trail, granted, reports, inForce>>
  BY DEF Invoke, CancelTool
<1>2. call \in [Callers -> Calls] /\ ran \in [Callers -> Args \union {NoArgs}]
  BY DEF CallTypeOK
<1>3. /\ ran' \in [Callers -> Args \union {NoArgs}] /\ ran'[r] = call[r].args
      /\ \A q \in Callers \ {r} : ran'[q] = ran[q]
  BY <1>1, <1>2 DEF Calls
<1>4. /\ call' \in [Callers -> Calls] /\ call'[r].step \in {"post", "raised"}
      /\ call'[r].args = call[r].args
      /\ \A q \in Callers \ {r} : call'[q] = call[q]
  <2>1. CASE Invoke(r)
    <3>1. PICK ok \in BOOLEAN : call' = [call EXCEPT ![r].step = "post", ![r].at = 1, ![r].ok = ok]
      BY <2>1 DEF Invoke
    <3>2. call' \in [Callers -> Calls]
      <4> DEFINE c == [call[r] EXCEPT !.step = "post", !.at = 1, !.ok = ok]
      <4>1. c \in Calls
        BY <1>2 DEF Calls, Steps
      <4>2. call' = [call EXCEPT ![r] = c]
        BY <1>2, <3>1 DEF Calls
      <4>3. QED
        BY <1>2, <4>1, <4>2
    <3>3. call'[r].step = "post" /\ call'[r].args = call[r].args
      BY <1>2, <3>1 DEF Calls
    <3>4. \A q \in Callers \ {r} : call'[q] = call[q]
      BY <1>2, <3>1
    <3>5. QED
      BY <3>2, <3>3, <3>4
  <2>2. CASE CancelTool(r)
    BY <2>2, Moves DEF CancelTool, Steps
  <2>3. QED
    BY <2>1, <2>2
<1>5. CallInv(r)'
  BY <1>1, <1>3, <1>4, Invoked
<1>6. QED
  BY <1>1, <1>3, <1>4, <1>5 DEF CallTypeOK, OthersKept

-----------------------------------------------------------------------------
(* All calls together. *)

CallsInv == CallTypeOK /\ WhereInv /\ \A r \in Callers : CallInv(r)

LEMMA CallsInit == Init => CallsInv
<1> SUFFICES ASSUME Init PROVE CallsInv
  OBVIOUS
<1> USE DEF Init, CallInit
<1> DEFINE fresh == [step : {"idle"}, at : {1}, args : Args, roles : {<<>>},
                    gated : {FALSE}, mods : {FALSE}, ok : {TRUE}]
<1>1. call \in [Callers -> Calls]
  <2>1. fresh \subseteq Calls
    <3> DEFINE idle == {"idle"}  one == {1}  none == {<<>>}  no == {FALSE}  yes == {TRUE}
    <3>1. idle \subseteq Steps /\ one \subseteq Nat
      BY DEF Steps
    <3>2. none \subseteq Seq(Roles)
      OBVIOUS
    <3>3. no \subseteq BOOLEAN /\ yes \subseteq BOOLEAN
      BY Zenon
    <3> HIDE DEF idle, one, none, no, yes
    <3>4. fresh = [step : idle, at : one, args : Args, roles : none, gated : no, mods : no, ok : yes]
      BY DEF idle, one, none, no, yes
    <3> HIDE DEF fresh
    <3>5. QED
      BY <3>1, <3>2, <3>3, <3>4 DEF Calls
  <2>2. call \in [Callers -> fresh]
    OBVIOUS
  <2>3. QED
    BY <2>1, <2>2
<1>2. CallTypeOK
  BY <1>1 DEF CallTypeOK, Reports
<1>3. WhereInv
  BY ContextsAssumption DEF WhereInv, Phases
<1>4. ASSUME NEW r \in Callers PROVE CallInv(r)
  <2>1. /\ call[r].step = "idle" /\ ~call[r].gated
        /\ trail[r] = <<>> /\ granted[r] = 0 /\ ran[r] = NoArgs
        /\ reports[r] = [effective |-> 0, blocked |-> 0, halted |-> 0]
    BY <1>4
  <2>2. PolicyRecords(r) = {} /\ GatesBefore(r) = {} /\ Reported(r) = 0
    BY <2>1 DEF PolicyRecords, GatesBefore, Reported
  <2>3. RanInv(r) /\ LastInv(r) /\ RolesInv(r)
    BY <2>1 DEF RanInv, LastInv, RolesInv
  <2>4. TrailInv(r)
    BY <2>1, <2>2 DEF TrailInv, Decided, NothingDenied
  <2>5. GateInv(r)
    BY <2>1, <2>2, FS_EmptySet DEF GateInv
  <2>6. ReportInv(r)
    BY <2>1, <2>2 DEF ReportInv
  <2>7. QED
    BY <2>3, <2>4, <2>5, <2>6 DEF CallInv
<1>5. QED
  BY <1>2, <1>3, <1>4 DEF CallsInv

\* Steps that leave the calls alone.
LEMMA CallsAside ==
  ASSUME CallsInv, UNCHANGED callVars
  PROVE  CallTypeOK' /\ \A r \in Callers : CallInv(r)'
<1>1. CallTypeOK'
  BY DEF CallsInv, CallTypeOK, callVars
<1>2. ASSUME NEW r \in Callers PROVE CallInv(r)'
  BY CallAside DEF CallsInv, CallInv, RolesInv, callVars
<1>3. QED
  BY <1>1, <1>2

LEMMA CallsWork ==
  ASSUME CallsInv, NEW r \in Runs, Work(r)
  PROVE  CallsInv'
<1>1. r \in Callers /\ phase[r] = "inside" /\ CallTypeOK /\ CallInv(r) /\ WhereInv
  BY DEF Work, CallsInv
<1>2. CallTypeOK' /\ CallInv(r)' /\ OthersKept(r) /\ UNCHANGED <<enforced, handler>>
  <2>1. CASE DecideTool(r)
    BY <1>1, <2>1, DecideToolKept
  <2>2. CASE CallStep(r)
    BY <1>1, <2>2, PreKept, PostKept, PolicyKept, ToolKept DEF CallStep, GuardStep, Kept
  <2>3. QED
    BY <2>1, <2>2 DEF Work
<1>3. ASSUME NEW q \in Callers \ {r} PROVE CallInv(q)'
  <2>1. CallInv(q)
    BY DEF CallsInv
  <2>2. call[q].step = "decide" => enforced \in inForce[q]
    BY <2>1 DEF CallInv, RolesInv
  <2>3. QED
    BY <1>2, <2>1, <2>2, CallAside DEF OthersKept
<1>4. WhereInv'
  BY <1>1 DEF Work, WhereInv, runVars
<1>5. QED
  BY <1>2, <1>3, <1>4 DEF CallsInv

LEMMA CallsRefresh ==
  ASSUME CallsInv, NEW r \in Runs, Refresh(r)
  PROVE  CallsInv'
<1>1. PICK v \in Versions : Swap(v)
  BY DEF Refresh
<1>2. inForce \in [Callers -> SUBSET Versions]
  BY DEF CallsInv, CallTypeOK
<1>3. CallTypeOK'
  <2>1. inForce' \in [Callers -> SUBSET Versions]
    BY <1>1, <1>2 DEF Swap
  <2>2. QED
    BY <1>1, <2>1 DEF CallsInv, CallTypeOK, Swap
<1>4. ASSUME NEW q \in Callers PROVE CallInv(q)'
  <2>1. /\ inForce[q] \subseteq inForce'[q]
        /\ call[q].step = "decide" => enforced' \in inForce'[q]
    BY <1>1, <1>2 DEF Swap
  <2>2. QED
    BY <1>1, <2>1, CallAside DEF CallsInv, Swap
<1>5. WhereInv'
  BY DEF CallsInv, WhereInv, Refresh, Phases
<1>6. QED
  BY <1>3, <1>4, <1>5 DEF CallsInv

LEMMA CallsNext == CallsInv /\ ScopeInv' /\ [Next]_vars => CallsInv'
<1> SUFFICES ASSUME CallsInv, ScopeInv', [Next]_vars PROVE CallsInv'
  OBVIOUS
<1>1. phase \in [Runs -> Phases] /\ current \in [Runs -> Contexts \union {NoContext}]
  BY DEF CallsInv, WhereInv
<1>2. CASE Operate \/ AllGone \/ UNCHANGED vars
  <2>1. UNCHANGED callVars /\ UNCHANGED <<phase, current>>
    BY <1>2 DEF Operate, AllGone, vars, runVars
  <2>2. WhereInv'
    BY <2>1 DEF CallsInv, WhereInv
  <2>3. QED
    BY <2>1, <2>2, CallsAside DEF CallsInv
<1>3. ASSUME NEW r \in Runs,
             RefreshFailsSoft(r) \/ Check(r) \/ Poll(r) \/ Decide(r) \/ Leave(r)
      PROVE  CallsInv'
  <2>1. UNCHANGED callVars
    BY <1>3 DEF RefreshFailsSoft, Check, Poll, Decide, Outcome, Leave
  <2>2. WhereInv'
    <3>1. CASE Leave(r)
      <4>1. /\ phase' \in [Runs -> Phases] /\ current' \in [Runs -> Contexts \union {NoContext}]
            /\ phase'[r] = "left"
            /\ \A q \in Runs \ {r} : phase'[q] = phase[q] /\ current'[q] = current[q]
        BY <1>1, <3>1 DEF Leave, ScopeInv, ScopeTypes
      <4>2. QED
        BY <4>1 DEF CallsInv, WhereInv
    <3>2. CASE ~Leave(r)
      BY <1>1, <1>3, <3>2 DEF RefreshFailsSoft, Check, Poll, Decide, Outcome, CallsInv, WhereInv, Phases, runVars
    <3>3. QED
      BY <3>1, <3>2
  <2>3. QED
    BY <2>1, <2>2, CallsAside DEF CallsInv
<1>4. ASSUME NEW r \in Runs, Enter(r)
      PROVE  CallsInv'
  <2>1. UNCHANGED callVars
    BY <1>4 DEF Enter
  <2>2. WhereInv'
    BY <1>1, <1>4, ContextsAssumption DEF Enter, CallsInv, WhereInv, Phases
  <2>3. QED
    BY <2>1, <2>2, CallsAside DEF CallsInv
<1>5. QED
  BY <1>2, <1>3, <1>4, CallsWork, CallsRefresh DEF Next, RunStep


\* Both invariants hold throughout.
LEMMA CallsHold == Spec => []CallsInv
<1>1. Init => ScopeInv /\ CallsInv
  BY ScopeInit, CallsInit
<1>2. ScopeInv /\ CallsInv /\ [Next]_vars => ScopeInv' /\ CallsInv'
  BY ScopeNext, CallsNext
<1>3. QED
  BY <1>1, <1>2, PTL DEF Spec

\* The tool runs only on the arguments that one decision was about, and for its
\* caller's own roles, under a version of the policy in force during decide
\* (runner.py, enforcer.py).
THEOREM CallsExecuteAsDecided == Spec => []ExecutedAsDecided
<1>1. CallsInv => ExecutedAsDecided
  <2> SUFFICES ASSUME CallsInv, NEW r \in Callers, ran[r] # NoArgs
               PROVE  \E i \in PolicyRecords(r) :
                          /\ trail[r][i].args = ran[r]
                          /\ trail[r][i].outcome # "deny"
                          /\ \E v \in inForce[r], n \in ToSet(RoleSet(ContextOf[r])) :
                                 Policy[v][n][ran[r]] = trail[r][i].outcome
    BY DEF ExecutedAsDecided
  <2>1. PICK i \in DOMAIN trail[r] : DecidedBy(r, i)
    BY DEF CallsInv, CallInv, TrailInv
  <2>2. i \in PolicyRecords(r) /\ ran[r] = call[r].args
    BY <2>1 DEF DecidedBy, CallsInv, CallInv, RanInv
  <2>3. QED
    BY <2>1, <2>2 DEF DecidedBy
<1>2. QED
  BY <1>1, CallsHold, PTL

\* Approval given to one gate never opens another, and nothing that denied is
\* passed over (runner.py).
THEOREM CallsPassEveryGate == Spec => []GatesAreSeparate
<1>1. CallsInv => GatesAreSeparate
  BY DEF CallsInv, CallInv, GateInv, TrailInv, NothingDenied, GatesAreSeparate
<1>2. QED
  BY <1>1, CallsHold, PTL

\* The audit trail tells what happened (enforcer.py, record).
THEOREM CallsLeaveTrueTrails == Spec => []TrailIsTrue
<1>1. CallsInv => TrailIsTrue
  <2> SUFFICES ASSUME CallsInv, NEW r \in Callers
               PROVE  /\ ran[r] # NoArgs => Cardinality(PolicyRecords(r)) = 1
                      /\ call[r].step = "refused" =>
                             /\ trail[r] # <<>> /\ Last(trail[r]).outcome # "allow"
                             /\ (Last(trail[r]).by = "post") = (ran[r] # NoArgs)
    BY DEF TrailIsTrue
  <2>1. ASSUME ran[r] # NoArgs PROVE Cardinality(PolicyRecords(r)) = 1
    <3>1. PICK i \in DOMAIN trail[r] : PolicyRecords(r) = {i}
      BY <2>1 DEF CallsInv, CallInv, TrailInv, DecidedBy
    <3>2. QED
      BY <3>1, FS_Singleton
  <2>2. QED
    BY <2>1 DEF CallsInv, CallInv, LastInv
<1>2. QED
  BY <1>1, CallsHold, PTL

\* A rewrite is reported once, and as what became of it (runner.py, _notify).
THEOREM CallsReportRewrites == Spec => []RewritesReported
<1>1. CallsInv => RewritesReported
  BY DEF CallsInv, CallInv, ReportInv, Reported, RewritesReported
<1>2. QED
  BY <1>1, CallsHold, PTL

\* The variables keep their types, and only the holder of the source's lock is
\* between request and update (bans.py).
THEOREM RunsAreTyped == Spec => []TypeOK
<1>1. Init => FeedInv /\ ScopeInv /\ CallsInv
  BY FeedInit, ScopeInit, CallsInit
<1>2. FeedInv /\ ScopeInv /\ CallsInv /\ [Next]_vars => FeedInv' /\ ScopeInv' /\ CallsInv'
  BY FeedNext, ScopeNext, CallsNext
<1>3. FeedInv /\ ScopeInv /\ CallsInv => TypeOK
  BY DEF FeedInv, RunTypes, ScopeInv, ScopeTypes, CallsInv, TypeOK
<1>4. QED
  BY <1>1, <1>2, <1>3, PTL DEF Spec
=============================================================================
