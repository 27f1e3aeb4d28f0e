---------------------------- MODULE GuardedCall ----------------------------
(***************************************************************************)
(* One guarded tool call per caller: before-guards, decide, approval, the  *)
(* tool, after-guards (hexgate/guards/runner.py, hexgate/security/         *)
(* enforcer.py).  The policy is read anew for every role of a decision,    *)
(* and other runs swap it meanwhile.                                       *)
(***************************************************************************)
EXTENDS Naturals, Sequences

CONSTANTS
    Callers,            \* runs that call the tool
    Args,               \* arguments the tool can be called with
    Roles,              \* roles a policy names, "default" among them
    Versions,           \* versions of the agent's policy
    Policy,             \* version -> role -> arguments -> outcome
    Pre,                \* before-guards that apply: their observe flags
    Post,               \* after-guards that apply: their observe flags
    NoArgs              \* the tool has not run

ASSUME GuardsAssumption == Pre \in Seq(BOOLEAN) /\ Post \in Seq(BOOLEAN)
ASSUME NoArgsAssumption == NoArgs \notin Args

Outcomes == {"allow", "approval", "deny"}
ASSUME PolicyAssumption == Policy \in [Versions -> [Roles -> [Args -> Outcomes]]]

VARIABLES
    enforced,           \* enforcer.policy
    handler,            \* whether an approval handler is configured
    call,               \* caller -> the call's locals
    trail,              \* caller -> records emitted for audit, in order
    granted,            \* caller -> how many approvals the handler granted
    ran,                \* caller -> the arguments the tool was invoked with
    reports,            \* caller -> reports of its rewrites to the observer
    inForce             \* caller -> versions in force since decide began

callVars == <<enforced, handler, call, trail, granted, ran, reports, inForce>>

Steps == {"idle", "pre", "askPre", "decide", "askPolicy", "invoke", "post",
          "askPost", "returned", "refused", "raised"}
Over == {"returned", "refused", "raised"}

\* A record names who decided, the outcome and the arguments decided on.
Records == [by : {"pre", "policy", "post"}, outcome : Outcomes, args : Args]

Calls == [step : Steps, at : Nat, args : Args, roles : Seq(Roles),
          gated : BOOLEAN, mods : BOOLEAN, ok : BOOLEAN]
Reports == [effective : Nat, blocked : Nat, halted : Nat]

CallTypeOK ==
    /\ enforced \in Versions
    /\ handler \in BOOLEAN
    /\ call \in [Callers -> Calls]
    /\ trail \in [Callers -> Seq(Records)]
    /\ granted \in [Callers -> Nat]
    /\ ran \in [Callers -> Args \union {NoArgs}]
    /\ reports \in [Callers -> Reports]
    /\ inForce \in [Callers -> SUBSET Versions]

CallInit ==
    /\ enforced \in Versions
    /\ handler \in BOOLEAN
    /\ call \in [Callers -> [step : {"idle"}, at : {1}, args : Args, roles : {<<>>},
                             gated : {FALSE}, mods : {FALSE}, ok : {TRUE}]]
    /\ trail = [r \in Callers |-> <<>>]
    /\ granted = [r \in Callers |-> 0]
    /\ ran = [r \in Callers |-> NoArgs]
    /\ reports = [r \in Callers |-> [effective |-> 0, blocked |-> 0, halted |-> 0]]
    /\ inForce = [r \in Callers |-> {}]

-----------------------------------------------------------------------------
(* Helpers. *)

Record(r, by, outcome) ==
    trail' = [trail EXCEPT ![r] = Append(@, [by |-> by, outcome |-> outcome, args |-> call[r].args])]

\* _notify with the list of modifications, made only when there are any.
Report(r, kind) ==
    reports' = IF call[r].mods THEN [reports EXCEPT ![r][kind] = @ + 1] ELSE reports

Goto(r, step) == call' = [call EXCEPT ![r].step = step, ![r].at = 1]
Advance(r, step) == call' = [call EXCEPT ![r].step = step, ![r].at = @ + 1]

\* The handler's answer, when there is a handler.
Grant(r) == granted' = [granted EXCEPT ![r] = @ + 1]

-----------------------------------------------------------------------------
(* Before-guards. *)

CallTool(r) ==
    /\ call[r].step = "idle"
    /\ Goto(r, "pre")
    /\ UNCHANGED <<enforced, handler, trail, granted, ran, reports, inForce>>

InPre(r) == call[r].step = "pre" /\ call[r].at <= Len(Pre)

\* An observing guard returns or raises what it likes; others may agree.
PrePasses(r) ==
    /\ InPre(r)
    /\ Advance(r, "pre")
    /\ UNCHANGED <<enforced, handler, trail, granted, ran, reports, inForce>>

PreRewrites(r) ==
    /\ InPre(r) /\ ~Pre[call[r].at]
    /\ \E a \in Args :
           call' = [call EXCEPT ![r].args = a, ![r].mods = TRUE, ![r].at = @ + 1]
    /\ UNCHANGED <<enforced, handler, trail, granted, ran, reports, inForce>>

\* Halt(DENY), or the guard raised: recorded, reported, refused.
PreDenies(r) ==
    /\ InPre(r) /\ ~Pre[call[r].at]
    /\ Record(r, "pre", "deny")
    /\ Report(r, "halted")
    /\ Goto(r, "refused")
    /\ UNCHANGED <<enforced, handler, granted, ran, inForce>>

\* Halt(NEEDS_APPROVAL): without a handler it is refused at once.
PreGates(r) ==
    /\ InPre(r) /\ ~Pre[call[r].at]
    /\ IF handler
       THEN /\ call' = [call EXCEPT ![r].step = "askPre"]
            /\ UNCHANGED <<trail, reports>>
       ELSE /\ Record(r, "pre", "approval")
            /\ Report(r, "halted")
            /\ Goto(r, "refused")
    /\ UNCHANGED <<enforced, handler, granted, ran, inForce>>

PreApproved(r) ==
    /\ call[r].step = "askPre"
    /\ Record(r, "pre", "approval")
    /\ Grant(r)
    /\ Advance(r, "pre")
    /\ UNCHANGED <<enforced, handler, ran, reports, inForce>>

PreRejected(r) ==
    /\ call[r].step = "askPre"
    /\ Record(r, "pre", "approval")
    /\ Report(r, "halted")
    /\ Goto(r, "refused")
    /\ UNCHANGED <<enforced, handler, granted, ran, inForce>>

InPost(r) == call[r].step = "post" /\ call[r].at <= Len(Post)

\* The task is cancelled at an await, the approval handler raises, or a guard
\* returns what it must not: the exception leaves with no record, no report.
Raises(r) ==
    /\ \/ InPre(r) \/ InPost(r)
       \/ call[r].step \in {"askPre", "askPolicy", "askPost"}
    /\ Goto(r, "raised")
    /\ UNCHANGED <<enforced, handler, trail, granted, ran, reports, inForce>>

-----------------------------------------------------------------------------
(* PolicyEnforcer.decide. *)

\* The roles of the active context are read once, the policy in every step.
StartDecide(r, roles) ==
    /\ call[r].step = "pre" /\ call[r].at > Len(Pre)
    /\ call' = [call EXCEPT ![r].step = "decide", ![r].at = 1, ![r].roles = roles]
    /\ inForce' = [inForce EXCEPT ![r] = {enforced}]
    /\ UNCHANGED <<enforced, handler, trail, granted, ran, reports>>

Verdict(r) == Policy[enforced][call[r].roles[call[r].at]][call[r].args]
LastRole(r) == call[r].at = Len(call[r].roles)

\* One role that grants ends the loop, whatever the roles before it said.
RoleGrants(r) ==
    /\ call[r].step = "decide"
    /\ Verdict(r) = "allow"
    /\ Record(r, "policy", "allow")
    /\ Goto(r, "invoke")
    /\ UNCHANGED <<enforced, handler, granted, ran, reports, inForce>>

RoleDoesNot(r) ==
    /\ call[r].step = "decide"
    /\ Verdict(r) # "allow" /\ ~LastRole(r)
    /\ call' = [call EXCEPT ![r].at = @ + 1, ![r].gated = @ \/ Verdict(r) = "approval"]
    /\ UNCHANGED <<enforced, handler, trail, granted, ran, reports, inForce>>

\* Faulty variant: approval granted to a guard also satisfies the policy.
NoRoleGrantsMerged(r) ==
    /\ call[r].step = "decide"
    /\ Verdict(r) # "allow" /\ LastRole(r)
    /\ LET gated == call[r].gated \/ Verdict(r) = "approval" IN
           /\ Record(r, "policy", IF gated THEN "approval" ELSE "deny")
           /\ IF gated /\ granted[r] > 0
              THEN Goto(r, "invoke") /\ UNCHANGED reports
              ELSE IF gated /\ handler
              THEN Goto(r, "askPolicy") /\ UNCHANGED reports
              ELSE Goto(r, "refused") /\ Report(r, "blocked")
    /\ UNCHANGED <<enforced, handler, granted, ran, inForce>>

\* The last role: gated by some role, or denied by all.
NoRoleGrants(r) ==
    /\ call[r].step = "decide"
    /\ Verdict(r) # "allow" /\ LastRole(r)
    /\ LET gated == call[r].gated \/ Verdict(r) = "approval" IN
           /\ Record(r, "policy", IF gated THEN "approval" ELSE "deny")
           /\ IF gated /\ handler
              THEN Goto(r, "askPolicy") /\ UNCHANGED reports
              ELSE Goto(r, "refused") /\ Report(r, "blocked")
    /\ UNCHANGED <<enforced, handler, granted, ran, inForce>>

PolicyApproved(r) ==
    /\ call[r].step = "askPolicy"
    /\ Grant(r)
    /\ Goto(r, "invoke")
    /\ UNCHANGED <<enforced, handler, trail, ran, reports, inForce>>

PolicyRejected(r) ==
    /\ call[r].step = "askPolicy"
    /\ Report(r, "blocked")
    /\ Goto(r, "refused")
    /\ UNCHANGED <<enforced, handler, trail, granted, ran, inForce>>

-----------------------------------------------------------------------------
(* The tool and the after-guards. *)

\* The tool returns or raises; its after-guards run in both cases.
Invoke(r) ==
    /\ call[r].step = "invoke"
    /\ ran' = [ran EXCEPT ![r] = call[r].args]
    /\ \E ok \in BOOLEAN :
           call' = [call EXCEPT ![r].step = "post", ![r].at = 1, ![r].ok = ok]
    /\ UNCHANGED <<enforced, handler, trail, granted, reports, inForce>>

\* Cancelled while the tool runs: the after-guards do not see it.
CancelTool(r) ==
    /\ call[r].step = "invoke"
    /\ ran' = [ran EXCEPT ![r] = call[r].args]
    /\ Goto(r, "raised")
    /\ UNCHANGED <<enforced, handler, trail, granted, reports, inForce>>

PostPasses(r) ==
    /\ InPost(r)
    /\ Advance(r, "post")
    /\ UNCHANGED <<enforced, handler, trail, granted, ran, reports, inForce>>

\* Faulty variant: a result withheld by an after-guard leaves no record.
PostDeniesSilently(r) ==
    /\ InPost(r) /\ ~Post[call[r].at]
    /\ Report(r, "halted")
    /\ Goto(r, "refused")
    /\ UNCHANGED <<enforced, handler, trail, granted, ran, inForce>>

PostDenies(r) ==
    /\ InPost(r) /\ ~Post[call[r].at]
    /\ Record(r, "post", "deny")
    /\ Report(r, "halted")
    /\ Goto(r, "refused")
    /\ UNCHANGED <<enforced, handler, granted, ran, inForce>>

PostGates(r) ==
    /\ InPost(r) /\ ~Post[call[r].at]
    /\ IF handler
       THEN /\ call' = [call EXCEPT ![r].step = "askPost"]
            /\ UNCHANGED <<trail, reports>>
       ELSE /\ Record(r, "post", "approval")
            /\ Report(r, "halted")
            /\ Goto(r, "refused")
    /\ UNCHANGED <<enforced, handler, granted, ran, inForce>>

PostApproved(r) ==
    /\ call[r].step = "askPost"
    /\ Record(r, "post", "approval")
    /\ Grant(r)
    /\ Advance(r, "post")
    /\ UNCHANGED <<enforced, handler, ran, reports, inForce>>

PostRejected(r) ==
    /\ call[r].step = "askPost"
    /\ Record(r, "post", "approval")
    /\ Report(r, "halted")
    /\ Goto(r, "refused")
    /\ UNCHANGED <<enforced, handler, granted, ran, inForce>>

\* The result is returned, or the tool's own exception propagates.
Finish(r) ==
    /\ call[r].step = "post" /\ call[r].at > Len(Post)
    /\ Report(r, "effective")
    /\ Goto(r, IF call[r].ok THEN "returned" ELSE "raised")
    /\ UNCHANGED <<enforced, handler, trail, granted, ran, inForce>>

GuardStep(r) ==
    \/ PrePasses(r) \/ PreRewrites(r) \/ PreDenies(r) \/ PreGates(r)
    \/ PreApproved(r) \/ PreRejected(r) \/ Raises(r)
    \/ PostPasses(r) \/ PostDenies(r) \/ PostGates(r)
    \/ PostApproved(r) \/ PostRejected(r)
PolicyStep(r) ==
    \/ RoleGrants(r) \/ RoleDoesNot(r) \/ NoRoleGrants(r)
    \/ PolicyApproved(r) \/ PolicyRejected(r)
CallStep(r) ==
    CallTool(r) \/ GuardStep(r) \/ PolicyStep(r) \/ Invoke(r) \/ CancelTool(r) \/ Finish(r)

\* A run's refresh puts another version in, between any two steps of a decision.
Swap(v) ==
    /\ enforced' = v
    /\ inForce' = [r \in Callers |->
                       IF call[r].step = "decide" THEN inForce[r] \union {v} ELSE inForce[r]]
    /\ UNCHANGED <<handler, call, trail, granted, ran, reports>>
=============================================================================
