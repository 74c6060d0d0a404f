----------------------------- MODULE ActionGate ------------------------------
(***************************************************************************)
(* What ConstrailKernel.process promises, whatever it decides by.  For     *)
(* each request it does one thing at most, runs the tool or opens an       *)
(* approval, and then gives one answer, which reports what was done and    *)
(* is logged in the same step.  Nothing is done, answered or logged        *)
(* afterwards.  A request is left without an answer, and an answer         *)
(* without a record, only when something failed.                           *)
(***************************************************************************)
EXTENDS Sequences

CONSTANTS Requests, Decisions

VARIABLES
    effect,     \* effect[r]: what was done for request r
    answer,     \* answer[r]: the decision given for r, or that it was "lost"
    log,        \* the requests and the decisions recorded, oldest first
    failed      \* something has failed

vars == <<effect, answer, log, failed>>

Init ==
    /\ effect = [r \in Requests |-> "none"]
    /\ answer = [r \in Requests |-> "none"]
    /\ log = <<>>
    /\ failed = FALSE

Open(r) == answer[r] = "none" /\ effect[r] = "none"

\* The decisions that report what was done: what was allowed may still not have run,
\* for want of an adapter or a sandbox.
Reports(done) ==
    CASE done = "ran"  -> {"allow", "sandbox"}
      [] done = "held" -> {"approval_required"}
      [] done = "none" -> Decisions \ {"approval_required"}

\* The capability manager refuses: an answer without a record.
Refuse(r) ==
    /\ Open(r)
    /\ answer' = [answer EXCEPT ![r] = "deny"]
    /\ UNCHANGED <<effect, log, failed>>

\* The tool is run, or an approval opened.
Act(r, done) ==
    /\ Open(r)
    /\ effect' = [effect EXCEPT ![r] = done]
    /\ UNCHANGED <<answer, log, failed>>

Answer(r, decision) ==
    /\ answer[r] = "none"
    /\ decision \in Reports(effect[r])
    /\ answer' = [answer EXCEPT ![r] = decision]
    /\ log' = Append(log, [id |-> r, decision |-> decision])
    /\ UNCHANGED <<effect, failed>>

\* The record cannot be written; the answer is given all the same.
AnswerUnrecorded(r, decision) ==
    /\ answer[r] = "none"
    /\ decision \in Reports(effect[r])
    /\ answer' = [answer EXCEPT ![r] = decision]
    /\ failed' = TRUE
    /\ UNCHANGED <<effect, log>>

\* An error or a crash, which some of the requests in hand do not survive.
Fail(lost) ==
    /\ \A r \in lost : answer[r] = "none"
    /\ answer' = [r \in Requests |-> IF r \in lost THEN "lost" ELSE answer[r]]
    /\ failed' = TRUE
    /\ UNCHANGED <<effect, log>>

Next ==
    \/ \E r \in Requests :
          \/ Refuse(r)
          \/ \E done \in {"ran", "held"} : Act(r, done)
          \/ \E decision \in Decisions : Answer(r, decision) \/ AnswerUnrecorded(r, decision)
    \/ \E lost \in SUBSET Requests : Fail(lost)

Spec == Init /\ [][Next]_vars
==============================================================================
