----------------------------- MODULE MCSandbox ------------------------------
(***************************************************************************)
(* Sandbox with two commands on every executor, and each kind of timeout.  *)
(***************************************************************************)
EXTENDS Sandbox
=============================================================================
