------------------------------ MODULE BanFeed ------------------------------
(***************************************************************************)
(* Bans: the platform's table with its check-then-insert                   *)
(* (features/bans/service.py), the conditional feed (features/bans/        *)
(* router.py), and the SDK's shared source with its lock, ETag and         *)
(* last-good set (hexgate/security/bans.py).                               *)
(***************************************************************************)
EXTENDS Naturals, FiniteSets

CONSTANTS
    Runs,               \* runs that ask the gate, each once
    Bans,               \* ids the table can give to new bans
    Targets,            \* agents and users a ban can name
    Operators,          \* admins creating bans
    None                \* no id, no holder, no target

ASSUME NoneIsNothing == None \notin Runs \union Bans \union Targets

VARIABLES
    table,              \* ban id -> its row
    creating,           \* operator -> target it found no active ban for
    lock,               \* holder of PlatformBanSource._lock
    cached,             \* _cached, as the ids of its entries
    etag,               \* _etag: the hash of the body is named by its ids
    fetch               \* run -> where its fetch is and what it received

banVars == <<table, creating, lock, cached, etag, fetch>>

Free == [state |-> "free", target |-> None]
Rows == {Free} \union [state : {"active", "revoked"}, target : Targets]
FetchSteps == {"idle", "waiting", "asking", "answered", "done"}
NotModified == [status |-> 304, body |-> {}]
NoAnswer == [status |-> 0, body |-> {}]
Full(ids) == [status |-> 200, body |-> ids]
NoEtag == [sent |-> FALSE, of |-> {}]
EtagOf(ids) == [sent |-> TRUE, of |-> ids]

\* A fetch with its response, and a check that has its set.
Answered(answer) == [step |-> "answered", answer |-> answer, set |-> {}, failed |-> FALSE]
Fetched(set, failed) == [step |-> "done", answer |-> NoAnswer, set |-> set, failed |-> failed]
Unasked == [step |-> "idle", answer |-> NoAnswer, set |-> {}, failed |-> FALSE]

Fetches == [step : FetchSteps, answer : [status : {0, 200, 304}, body : SUBSET Bans],
            set : SUBSET Bans, failed : BOOLEAN]
LockDiscipline == \A r \in Runs : fetch[r].step \in {"asking", "answered"} <=> lock = r

\* Types, and only the holder of the lock is between request and update.
BanTypeOK ==
    /\ table \in [Bans -> Rows]
    /\ creating \in [Operators -> Targets \union {None}]
    /\ lock \in Runs \union {None}
    /\ cached \subseteq Bans
    /\ etag \in [sent : BOOLEAN, of : SUBSET Bans]
    /\ fetch \in [Runs -> Fetches]
    /\ LockDiscipline

\* EMPTY_BAN_SET until the first fetch that succeeds.
BanInit ==
    /\ table = [b \in Bans |-> Free]
    /\ creating = [o \in Operators |-> None]
    /\ lock = None
    /\ cached = {}
    /\ etag = NoEtag
    /\ fetch = [r \in Runs |-> Unasked]

Active == {b \in Bans : table[b].state = "active"}
ActiveOn(t) == {b \in Active : table[b].target = t}

-----------------------------------------------------------------------------
(* The platform. *)

\* create_ban looks for an active ban of the target; with one it is a 409.
LookUp(o, t) ==
    /\ creating[o] = None
    /\ ActiveOn(t) = {}
    /\ creating' = [creating EXCEPT ![o] = t]
    /\ UNCHANGED <<table, lock, cached, etag, fetch>>

\* ... and inserts in a statement of its own.
Insert(o) ==
    /\ creating[o] # None
    /\ \E b \in Bans :
           /\ table[b] = Free
           /\ table' = [table EXCEPT ![b] = [state |-> "active", target |-> creating[o]]]
    /\ creating' = [creating EXCEPT ![o] = None]
    /\ UNCHANGED <<lock, cached, etag, fetch>>

\* A soft delete of one row, whatever other row bans the same target.
Revoke(b) ==
    /\ table[b].state = "active"
    /\ table' = [table EXCEPT ![b].state = "revoked"]
    /\ UNCHANGED <<creating, lock, cached, etag, fetch>>

-----------------------------------------------------------------------------
(* PlatformBanSource.fetch. *)

\* check_async hands the fetch to a worker thread, which waits for the lock.
AskGate(r) ==
    /\ fetch[r].step = "idle"
    /\ fetch' = [fetch EXCEPT ![r].step = "waiting"]
    /\ UNCHANGED <<table, creating, lock, cached, etag>>

Lock(r) ==
    /\ fetch[r].step = "waiting"
    /\ lock = None
    /\ lock' = r
    /\ fetch' = [fetch EXCEPT ![r].step = "asking"]
    /\ UNCHANGED <<table, creating, cached, etag>>

\* The feed compares If-None-Match with the hash of the rows active now.
ServeFeed(r) ==
    /\ fetch[r].step = "asking"
    /\ fetch' = [fetch EXCEPT ![r] = Answered(IF etag = EtagOf(Active) THEN NotModified ELSE Full(Active))]
    /\ UNCHANGED <<table, creating, lock, cached, etag>>

\* Faulty variant: the validator of the response is kept, its body is not.
InstallEtagOnly(r) ==
    /\ fetch[r].step = "answered"
    /\ LET a == fetch[r].answer IN
           /\ cached' = IF cached = {} /\ a # NotModified THEN a.body ELSE cached
           /\ etag' = IF a = NotModified THEN etag ELSE EtagOf(a.body)
           /\ fetch' = [fetch EXCEPT ![r] = Fetched(cached', FALSE)]
    /\ lock' = None
    /\ UNCHANGED <<table, creating>>

\* 304 keeps the set; a body replaces set and ETag together.
Install(r) ==
    /\ fetch[r].step = "answered"
    /\ LET a == fetch[r].answer IN
           /\ cached' = IF a = NotModified THEN cached ELSE a.body
           /\ etag' = IF a = NotModified THEN etag ELSE EtagOf(a.body)
           /\ fetch' = [fetch EXCEPT ![r] = Fetched(cached', FALSE)]
    /\ lock' = None
    /\ UNCHANGED <<table, creating>>

\* No answer, an error status or a body that is no ban list: last-good.
FetchFails(r) ==
    /\ fetch[r].step \in {"asking", "answered"}
    /\ fetch' = [fetch EXCEPT ![r] = Fetched(cached, TRUE)]
    /\ lock' = None
    /\ UNCHANGED <<table, creating, cached, etag>>

\* BanGate._decide: the agent's own ban, then the caller's.
Hits(r, targets) == {b \in fetch[r].set : table[b].target \in targets}
Forget(r) ==
    /\ fetch' = [fetch EXCEPT ![r] = Unasked]
    /\ UNCHANGED <<table, creating, lock, cached, etag>>
=============================================================================
