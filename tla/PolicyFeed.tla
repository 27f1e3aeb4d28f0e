----------------------------- MODULE PolicyFeed -----------------------------
(***************************************************************************)
(* What a policy binding promises the runs that share it                   *)
(* (hexgate/security/binding.py): the policy it enforces is one the        *)
(* platform served and the SDK accepts, fetched whole by some refresh.     *)
(* There is no cache, ETag or lock here: those must not be observable.     *)
(***************************************************************************)
CONSTANTS
    Runs,               \* concurrent refreshes of one binding
    Rows,               \* what the platform may serve for the agent
    Engine(_),          \* the engine a row yields
    Accepts(_, _),      \* whether the SDK takes a row, given the strict flag
    NoEngine            \* nothing fetched

VARIABLES
    strict,             \* HEXGATE_BUNDLE_REQUIRE_SIGNATURE
    row,                \* what the platform serves now
    enforced,           \* the engine of the enforcer
    hand                \* the engine each refresh has fetched and not yet swapped in

vars == <<strict, row, enforced, hand>>

Init ==
    /\ strict \in BOOLEAN
    /\ row \in {v \in Rows : Accepts(strict, v)}
    /\ enforced = Engine(row)
    /\ hand = [r \in Runs |-> NoEngine]

Publish ==
    /\ row' \in Rows
    /\ UNCHANGED <<strict, enforced, hand>>

\* A refresh reads what is served at that moment.
Read(r) ==
    /\ hand[r] = NoEngine
    /\ Accepts(strict, row)
    /\ hand' = [hand EXCEPT ![r] = Engine(row)]
    /\ UNCHANGED <<strict, row, enforced>>

\* It takes effect for every tool of the agent.
Swap(r) ==
    /\ hand[r] # NoEngine
    /\ enforced' = hand[r]
    /\ hand' = [hand EXCEPT ![r] = NoEngine]
    /\ UNCHANGED <<strict, row>>

Next == Publish \/ \E r \in Runs : Read(r) \/ Swap(r)

Spec == Init /\ [][Next]_vars
=============================================================================
