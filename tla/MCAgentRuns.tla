---------------------------- MODULE MCAgentRuns ----------------------------
(* AgentRuns as the TLC configuration instantiates it: three runs share one  *)
(* HexgateContext object from tasks with different contexts of their own,    *)
(* the first calls a tool, the others only refresh and are checked.          *)
EXTENDS AgentRuns

CONSTANTS r1, r2, r3, b1, b2, o1, o2, mine, other, third, plain, risky, bot, alice

\* The second and the third run are alike, each with the context it comes from.
Swapped == (r2 :> r3) @@ (r3 :> r2) @@ (other :> third) @@ (third :> other)
Symmetry == Permutations({b1, b2}) \union Permutations({o1, o2}) \union {Swapped}

MCContextOf == [r \in Runs |-> mine]
MCAmbient == (r1 :> NoContext) @@ (r2 :> other) @@ (r3 :> third)
MCUserOf == [c \in Contexts |-> alice]
MCUserRoles == (mine :> <<"reader", "reader", "editor", "admin">>) @@ (other :> <<>>) @@ (third :> <<>>)

\* A call reads nothing of the ban feed or of the other runs but the policy they
\* swap in, and they read nothing of it.  So nothing else moves during a call.
CallsUndisturbed ==
    (\E r \in Callers : call[r].step \notin Over \union {"idle"}) => UNCHANGED <<banVars, saved>>

\* And a behaviour is large on one side only: with bans in the table runs are
\* checked and nothing more.
OneSide ==
    \/ /\ \A b \in Bans : table[b] = Free
       /\ \A o \in Operators : creating[o] = None
    \/ /\ \A r \in Runs : phase[r] \notin {"inside", "left"}
       /\ handler /\ \A r \in Callers : call[r].args = plain

\* What can still matter: the feed until the last check, a call until its run
\* has left.  Every property was evaluated in the states before.
Live ==
    <<IF \E r \in Runs : phase[r] \in {"start", "gate", "checking"} THEN banVars ELSE <<>>,
      IF \E r \in Callers : ~Gone(r) THEN callVars ELSE <<enforced>>, runVars>>

\* Version 1 grants the editor the plain call and gates the risky one; version
\* 2 takes both from the editor, gates the reader's plain call, grants it the
\* risky one, and grants a caller without roles the plain one.
MCPolicy ==
    <<[n \in {"default", "reader", "editor", "admin"} |->
          CASE n = "editor" -> (plain :> "allow") @@ (risky :> "approval")
            [] n = "admin" -> (plain :> "allow") @@ (risky :> "allow")
            [] OTHER -> (plain :> "deny") @@ (risky :> "deny")],
      [n \in {"default", "reader", "editor", "admin"} |->
          CASE n = "default" -> (plain :> "allow") @@ (risky :> "deny")
            [] n = "reader" -> (plain :> "approval") @@ (risky :> "allow")
            [] n = "admin" -> (plain :> "allow") @@ (risky :> "allow")
            [] OTHER -> (plain :> "deny") @@ (risky :> "deny")]>>

MCPre == <<FALSE, TRUE>>
MCPost == <<FALSE>>
=============================================================================
