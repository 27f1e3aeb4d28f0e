----------------------------- MODULE MCWorkspace -----------------------------
(***************************************************************************)
(* Accounts and one tab on a small instance: ann has an organisation and   *)
(* has invited bob to own it; the tab is used by either of them, and       *)
(* somebody else acts beside it.                                           *)
(***************************************************************************)
EXTENDS Workspace

CONSTANTS ann, bob

MCInit == TenancyInit(ann, bob, "owner") /\ WorkspaceInit
MCSpec == MCInit /\ [][Next]_vars /\ Fairness
=============================================================================
