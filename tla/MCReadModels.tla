----------------------------- MODULE MCReadModels -----------------------------
(***************************************************************************)
(* The reads of the dashboard on a small instance: calls of two users, two *)
(* roles, allowed or denied.                                               *)
(***************************************************************************)
EXTENDS ReadModels

CONSTANTS writer, clerk, ann, bob, shell, mail, r1, r2

MCSamples ==
    {[agent |-> writer, tool |-> shell, user |-> ann, roles |-> {r1, r2}, outcome |-> "deny"],
     [agent |-> writer, tool |-> mail, user |-> ann, roles |-> {}, outcome |-> "allow"],
     [agent |-> clerk, tool |-> mail, user |-> bob, roles |-> {r2}, outcome |-> "deny"]}
=============================================================================
