---------------------------- MODULE MCApprovals -----------------------------
(***************************************************************************)
(* Approvals on small sets: the API process and, in the concurrent run, an *)
(* operator's command; two reviewers who may change their minds; replays   *)
(* that overlap decisions, each other, crashes and the expiry.             *)
(***************************************************************************)
EXTENDS Approvals
=============================================================================
