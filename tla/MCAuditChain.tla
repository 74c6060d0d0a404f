---------------------------- MODULE MCAuditChain ----------------------------
(***************************************************************************)
(* AuditChain with two writers, the API server and an operator's command,  *)
(* three time stamps and a clock that may be set back once.                 *)
(***************************************************************************)
EXTENDS AuditChain, TLC

\* Writers are only compared for equality.
Symmetry == Permutations(Writers)
=============================================================================
