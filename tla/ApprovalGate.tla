---------------------------- MODULE ApprovalGate ----------------------------
(***************************************************************************)
(* What an approval channel promises the guarded tool call that awaits it  *)
(* (hexgate/agents/approvals.py, hexgate/cli/serve.py): a call that needs  *)
(* approval runs only if a person granted that very call, and every call   *)
(* that asks gets an answer.  How the question travels is not part of it.  *)
(***************************************************************************)
CONSTANT Calls          \* tool calls the policy answered with needs_approval

VARIABLES
    status,             \* where each call stands
    granted             \* the calls some person has said yes to

vars == <<status, granted>>

Status == {"idle", "open", "approved", "denied"}

TypeOK ==
    /\ status \in [Calls -> Status]
    /\ granted \subseteq Calls

Init ==
    /\ status = [c \in Calls |-> "idle"]
    /\ granted = {}

\* The call asks and starts waiting.
Ask(c) ==
    /\ status[c] = "idle"
    /\ status' = [status EXCEPT ![c] = "open"]
    /\ UNCHANGED granted

\* Nobody can be asked: denied at once.
Refuse(c) ==
    /\ status[c] = "idle"
    /\ status' = [status EXCEPT ![c] = "denied"]
    /\ UNCHANGED granted

\* A person says yes to a question that is open.
Grant(c) ==
    /\ status[c] = "open"
    /\ granted' = granted \union {c}
    /\ UNCHANGED status

\* The waiting call gets its answer; yes needs a grant, no is always allowed.
Settle(c) ==
    /\ status[c] = "open"
    /\ \/ /\ c \in granted
          /\ status' = [status EXCEPT ![c] = "approved"]
       \/ status' = [status EXCEPT ![c] = "denied"]
    /\ UNCHANGED granted

Next == \E c \in Calls : Ask(c) \/ Refuse(c) \/ Grant(c) \/ Settle(c)

Safety == Init /\ [][Next]_vars

Spec == Safety /\ \A c \in Calls : WF_vars(Settle(c))
=============================================================================
