----------------------------- MODULE AgentRuns -----------------------------
(***************************************************************************)
(* Runs of one agent in a host process, as every adapter drives them       *)
(* (adapters/openai/runner.py, adapters/_common.py): refresh the shared    *)
(* binding, ask the ban gate, enter the caller's HexgateContext, call      *)
(* tools through the guarded call, leave.  BanFeed and GuardedCall are the *)
(* components; what ties them is here.                                     *)
(***************************************************************************)
EXTENDS BanFeed, GuardedCall, SequencesExt

CONSTANTS
    Contexts,           \* HexgateContext objects the host holds
    ContextOf,          \* run -> the object passed as hexgate_context
    Ambient,            \* run -> the context its task was in already
    NoContext,          \* no context is active
    UserOf,             \* context -> its user_id
    UserRoles,          \* context -> its user_roles
    Agent,              \* the agent's name
    MaxRoles            \* MAX_EVALUATED_ROLES

ASSUME ContextsAssumption ==
    /\ ContextOf \in [Runs -> Contexts]
    /\ Ambient \in [Runs -> Contexts \union {NoContext}]
    /\ UserOf \in [Contexts -> Targets]
    /\ UserRoles \in [Contexts -> Seq(Roles)]
    /\ Agent \in Targets /\ Callers \subseteq Runs /\ "default" \in Roles

VARIABLES
    phase,              \* where each run is
    current,            \* _CURRENT_CONTEXT in each run's task
    saved,              \* _saved: each object's stack of shadowed values
    met,                \* run -> runs its scope overlapped on its object, or theirs
    seen                \* run -> whether it was banned, over its ban check

runVars == <<phase, current, saved, met, seen>>
vars == <<banVars, callVars, runVars>>

Phases == {"start", "gate", "checking", "admitted", "inside", "left", "banned"}

TypeOK ==
    /\ BanTypeOK
    /\ CallTypeOK
    /\ phase \in [Runs -> Phases]
    /\ current \in [Runs -> Contexts \union {NoContext}]
    /\ saved \in [Contexts -> Seq(Contexts \union {NoContext})]
    /\ met \in [Runs -> SUBSET Runs]
    /\ seen \in [Runs -> SUBSET BOOLEAN]

Init ==
    /\ BanInit
    /\ CallInit
    /\ phase = [r \in Runs |-> "start"]
    /\ current = Ambient
    /\ saved = [c \in Contexts |-> <<>>]
    /\ met = [r \in Runs |-> {}]
    /\ seen = [r \in Runs |-> {}]

-----------------------------------------------------------------------------
(* The platform. *)

TargetsOf(r) == {Agent, UserOf[ContextOf[r]]}
IsBanned(r) == \E t \in TargetsOf(r) : ActiveOn(t) # {}

\* What the table says of a run is noted as long as its check is under way.
Note ==
    seen' = [r \in Runs |-> IF phase'[r] = "checking" THEN seen[r] \union {IsBanned(r)'} ELSE seen[r]]

\* The operators' work matters while some run has its ban check ahead of it.
Operate ==
    /\ \/ \E o \in Operators : (\E t \in Targets : LookUp(o, t)) \/ Insert(o)
       \/ \E b \in Bans : Revoke(b)
    /\ \E r \in Runs : phase[r] \in {"start", "gate", "checking"}
    /\ UNCHANGED <<callVars, phase, current, saved, met>>
    /\ Note

-----------------------------------------------------------------------------
(* The run boundary. *)

\* PolicyBinding.refresh swaps in what it fetched: any version, since fetches
\* overtake each other and the platform publishes when it likes.
Refresh(r) ==
    /\ phase[r] = "start"
    /\ \E v \in Versions : Swap(v)
    /\ phase' = [phase EXCEPT ![r] = "gate"]
    /\ UNCHANGED <<banVars, current, saved, met, seen>>

\* A fetch that fails keeps the policy in force.
RefreshFailsSoft(r) ==
    /\ phase[r] = "start"
    /\ phase' = [phase EXCEPT ![r] = "gate"]
    /\ UNCHANGED <<banVars, callVars, current, saved, met, seen>>

\* BanGate.check_async.
Check(r) ==
    /\ phase[r] = "gate"
    /\ AskGate(r)
    /\ phase' = [phase EXCEPT ![r] = "checking"]
    /\ UNCHANGED <<callVars, current, saved, met>>
    /\ Note

Poll(r) ==
    /\ phase[r] = "checking"
    /\ Lock(r) \/ ServeFeed(r) \/ Install(r) \/ FetchFails(r)
    /\ UNCHANGED <<callVars, runVars>>

\* The check is over: what it read is of no more use.
Outcome(r, targets) ==
    /\ phase[r] = "checking" /\ fetch[r].step = "done"
    /\ phase' = [phase EXCEPT ![r] = IF Hits(r, targets) # {} THEN "banned" ELSE "admitted"]
    /\ Forget(r)
    /\ seen' = [seen EXCEPT ![r] = {}]
    /\ UNCHANGED <<callVars, current, saved, met>>

\* A hit raises AgentBannedError before anything of the run has begun.
Decide(r) == Outcome(r, TargetsOf(r))

\* HexgateContext.__aenter__ and run_scope.
Enter(r) ==
    LET c == ContextOf[r]
        others == {q \in Runs : phase[q] = "inside" /\ ContextOf[q] = c} IN
    /\ phase[r] = "admitted"
    /\ saved' = [saved EXCEPT ![c] = Append(@, current[r])]
    /\ current' = [current EXCEPT ![r] = c]
    /\ phase' = [phase EXCEPT ![r] = "inside"]
    /\ met' = [q \in Runs |->
                  CASE q = r -> others \union UNION {met[o] : o \in others}
                    [] q \in others -> met[q] \union {r}
                    [] OTHER -> met[q]]
    /\ UNCHANGED <<banVars, callVars, seen>>

\* Faulty variant: leaving clears the variable.
LeaveCleared(r) ==
    LET c == ContextOf[r] IN
    /\ phase[r] = "inside" /\ (r \in Callers => call[r].step \in Over)
    /\ current' = [current EXCEPT ![r] = NoContext]
    /\ saved' = [saved EXCEPT ![c] = Front(@)]
    /\ phase' = [phase EXCEPT ![r] = "left"]
    /\ UNCHANGED <<banVars, callVars, met, seen>>

\* __aexit__ restores the top of the object's stack, whoever pushed it.
Leave(r) ==
    LET c == ContextOf[r] IN
    /\ phase[r] = "inside" /\ (r \in Callers => call[r].step \in Over)
    /\ current' = [current EXCEPT ![r] = Last(saved[c])]
    /\ saved' = [saved EXCEPT ![c] = Front(@)]
    /\ phase' = [phase EXCEPT ![r] = "left"]
    /\ UNCHANGED <<banVars, callVars, met, seen>>

-----------------------------------------------------------------------------
(* Inside the run. *)

\* distinct_roles: by name, in order.
Distinct(names) ==
    FoldLeft(LAMBDA kept, n : IF n \in Range(kept) THEN kept ELSE Append(kept, n), <<>>, names)

\* resolve_role_set: capped, and the default policy for a caller without roles.
RoleSet(c) ==
    LET names == IF c = NoContext THEN <<>> ELSE Distinct(UserRoles[c]) IN
    IF names = <<>> THEN <<"default">>
    ELSE SubSeq(names, 1, IF Len(names) > MaxRoles THEN MaxRoles ELSE Len(names))

ASSUME RolesAssumption == \A c \in Contexts : RoleSet(c) \in Seq(Roles) \ {<<>>}

\* Faulty variant: the roles of the context the task was in before the run.
DecideToolAmbient(r) == StartDecide(r, RoleSet(Ambient[r]))

DecideTool(r) == StartDecide(r, RoleSet(current[r]))

Work(r) ==
    /\ phase[r] = "inside" /\ r \in Callers
    /\ DecideTool(r) \/ CallStep(r)
    /\ UNCHANGED <<banVars, runVars>>

RunStep(r) ==
    \/ Refresh(r) \/ RefreshFailsSoft(r)
    \/ Check(r) \/ Poll(r) \/ Decide(r)
    \/ Enter(r) \/ Work(r) \/ Leave(r)

Gone(r) == phase[r] \in {"left", "banned"}
AllGone == (\A r \in Runs : Gone(r)) /\ UNCHANGED vars

Next == Operate \/ (\E r \in Runs : RunStep(r)) \/ AllGone
Spec == Init /\ [][Next]_vars

-----------------------------------------------------------------------------
(* Properties. *)

\* A ban check whose fetch succeeded (bans.py, fetch) decides as the table of
\* bans stood at one moment between its beginning and its end, however many
\* other runs share the source, its ETag and its lock, and however bans are
\* created and revoked meanwhile.
CheckIsAtomic ==
    [][\A r \in Runs :
           phase[r] = "checking" /\ phase'[r] # "checking" /\ ~fetch[r].failed
               => (phase'[r] = "banned") \in seen[r]]_vars

PolicyRecords(r) == {i \in DOMAIN trail[r] : trail[r][i].by = "policy"}

\* The tool runs only on the very arguments, and for the very caller, that one
\* decision was about (runner.py: "decide always authorizes the exact args that
\* will execute"): a role of the run's own context granted them under a version
\* in force during decide, or gated them and the handler agreed.
ExecutedAsDecided ==
    \A r \in Callers : ran[r] # NoArgs =>
        \E i \in PolicyRecords(r) :
            /\ trail[r][i].args = ran[r]
            /\ trail[r][i].outcome # "deny"
            /\ \E v \in inForce[r], n \in ToSet(RoleSet(ContextOf[r])) :
                   Policy[v][n][ran[r]] = trail[r][i].outcome

GatesBefore(r) ==
    {i \in DOMAIN trail[r] : trail[r][i].by # "post" /\ trail[r][i].outcome = "approval"}

\* Every gate is passed on its own (runner.py: independent gates): when the tool
\* has run, no guard and no policy before it refused, and the handler said yes
\* once for each of those that asked.
GatesAreSeparate ==
    \A r \in Callers : ran[r] # NoArgs =>
        /\ granted[r] >= Cardinality(GatesBefore(r))
        /\ \A i \in DOMAIN trail[r] : trail[r][i].by # "post" => trail[r][i].outcome # "deny"

\* What the audit trail tells is what happened (enforcer.py, record): a tool that
\* ran has its policy record, a refusal ends the trail with what refused it, and
\* a result withheld after the tool ran is an extra record beside the grant.
TrailIsTrue ==
    \A r \in Callers :
        /\ ran[r] # NoArgs => Cardinality(PolicyRecords(r)) = 1
        /\ call[r].step = "refused" =>
               /\ trail[r] # <<>> /\ Last(trail[r]).outcome # "allow"
               /\ (Last(trail[r]).by = "post") = (ran[r] # NoArgs)

\* A rewrite is reported once when the call ends with a value (guards/types.py,
\* GuardEvent): as effective only if the tool ran on it, as blocked only if the
\* tool never ran.
RewritesReported ==
    \A r \in Callers :
        LET n == reports[r].effective + reports[r].blocked + reports[r].halted IN
        /\ call[r].step \in {"returned", "refused"} => n = IF call[r].mods THEN 1 ELSE 0
        /\ reports[r].effective > 0 => ran[r] = call[r].args
        /\ reports[r].blocked > 0 => ran[r] = NoArgs

\* A run leaves its task with the context it found (context.py, __aexit__),
\* except that of runs sharing one HexgateContext object it may get the context
\* found by another that overlapped it, or overlapped one that did, and so on.
ScopesRestore ==
    \A r \in Runs : phase[r] = "left" =>
        current[r] \in {Ambient[q] : q \in {r} \union met[r]}
=============================================================================
