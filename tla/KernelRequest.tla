--------------------------- MODULE KernelRequest ----------------------------
(***************************************************************************)
(* One call of POST /v1/action: ConstrailKernel.process (kernel_v2.py)     *)
(* with RiskEngine.assess, PolicyEngine.evaluate and ToolBroker.execute.   *)
(*                                                                         *)
(* Requests are coroutines of one server process.  They interleave where   *)
(* process awaits, at the policy engine and at the tool; the commits       *)
(* between two awaits are steps of their own because the process may die   *)
(* between them.  What the capability manager, OPA and the rate limits     *)
(* answer is left open; the audit table is what the risk engine reads.     *)
(***************************************************************************)
EXTENDS Naturals, Sequences, FiniteSets

CONSTANTS
    Requests,      \* request ids
    Agents,        \* agent ids
    Calls,         \* the calls agents make
    Configs,       \* the settings the server may be started with
    Lookback,      \* settings.exfiltration_lookback_limit
    MaxFaults      \* bound on database errors and crashes

-----------------------------------------------------------------------------
(* Calls, settings and decisions                                           *)

Tools == {"read_file", "list_directory", "write_file", "delete_file", "http_request",
          "exec", "shell", "unknown"}

Levels == {"low", "medium", "high", "critical"}

Decisions == {"allow", "deny", "approval_required", "sandbox", "quarantine"}

\* target: the scheme of a URL, or whether a path is absolute and not under /tmp;
\* tenant: the agent has one; risk: the level before the score of chained requests.
Call == [agent : Agents, tool : Tools, target : {"plain", "http", "https", "outside"},
         tenant : BOOLEAN, risk : Levels]

\* posture: enforce_sandbox_posture does not raise.
Config == [opa          : BOOLEAN,
           availability : {"strict", "degraded"},
           enforcement  : {"quarantine", "approval_required", "sandbox"},
           autoApprove  : BOOLEAN,
           sandboxType  : {"none", "dev"},
           posture      : BOOLEAN]

ASSUME KernelAssumption ==
    /\ Calls \subseteq Call
    /\ Configs \subseteq Config
    /\ Lookback \in Nat

VARIABLES
    config,        \* settings
    call,          \* call[r]: what request r asks for
    req,           \* req[r]: where request r is, with what process has computed
    audit,         \* the requests and decisions in audit_records, oldest first
    approvals,     \* the requests an approval was opened for
    response,      \* response[r]: the decision returned, or "none"
    ran,           \* history: ran[r], how often a tool was run for r
    before,        \* history: before[r], the requests answered when r came in
    faults         \* database errors and crashes so far

vars == <<config, call, req, audit, approvals, response, ran, before, faults>>

-----------------------------------------------------------------------------
(* State                                                                   *)

New == [pc |-> "new", level |-> "low", policy |-> "deny", final |-> "deny",
        limited |-> FALSE, outage |-> FALSE, blind |-> FALSE]

Progress == [pc      : {"new", "policy", "approval", "execute", "audit", "done", "lost",
                         "refused"},
             level   : Levels,       \* of the risk assessment
             policy  : Decisions,    \* policy_evaluation.decision
             final   : Decisions,    \* final_decision
             limited : BOOLEAN,      \* what _rate_limit_exceeded returned
             outage  : BOOLEAN,      \* history: the OPA call failed
             blind   : BOOLEAN]      \* history: the audit history could not be read

TypeOK ==
    /\ config \in Config
    /\ call \in [Requests -> Call]
    /\ req \in [Requests -> Progress]
    /\ audit \in Seq([id : Requests, decision : Decisions])
    /\ approvals \subseteq Requests
    /\ response \in [Requests -> Decisions \union {"none"}]
    /\ ran \in [Requests -> Nat]
    /\ before \in [Requests -> SUBSET Requests]
    /\ faults \in Nat

Init ==
    /\ config \in Configs
    /\ call \in [Requests -> Calls]
    /\ req = [r \in Requests |-> New]
    /\ audit = <<>>
    /\ approvals = {}
    /\ response = [r \in Requests |-> "none"]
    /\ ran = [r \in Requests |-> 0]
    /\ before = [r \in Requests |-> {}]
    /\ faults = 0

Answered == {r \in Requests : response[r] # "none"}

-----------------------------------------------------------------------------
(* The risk engine                                                         *)

Reads == {"read_file", "list_directory"}

RowsOf(a) == {i \in 1..Len(audit) : call[audit[i].id].agent = a}

\* ORDER BY start_time DESC LIMIT: a record is stamped as it is inserted.
Latest(rows) == {i \in rows : Cardinality({j \in rows : j > i}) < Lookback}

\* Bug: the limit is applied before the filter on the agent.
RecentOfAll(a) == RowsOf(a) \intersect Latest(1..Len(audit))

\* _recent_agent_tools: the rows themselves, whatever was decided on them.
Recent(a) == Latest(RowsOf(a))

Chained(r) ==
    /\ call[r].tool = "http_request"
    /\ \E i \in Recent(call[r].agent) : call[audit[i].id].tool \in Reads

\* 0.35 more of score: where it can take each level, with the default thresholds.
Raised(level) ==
    CASE level = "low" -> {"medium"}
      [] level = "medium" -> {"medium", "high", "critical"}
      [] OTHER -> {"critical"}

Assess(r) == IF Chained(r) THEN Raised(call[r].risk) ELSE {call[r].risk}

-----------------------------------------------------------------------------
(* The policy engine and the decision                                      *)

\* _evaluate_simple
Simple(c, level) ==
    IF ~c.tenant \/ level = "critical" THEN "deny"
    ELSE IF c.tool = "delete_file"
    THEN IF c.target = "outside" THEN "deny" ELSE "approval_required"
    ELSE IF c.tool \in {"exec", "shell", "write_file"} THEN "approval_required"
    ELSE IF c.tool = "http_request"
    THEN IF c.target = "http" THEN "sandbox"
         ELSE IF c.target = "https" THEN "allow" ELSE "approval_required"
    ELSE IF level = "high" THEN "sandbox" ELSE "allow"

\* evaluate, when the call of OPA raised.
Unavailable(c, level) ==
    IF config.availability = "strict" THEN "deny"
    ELSE IF c.tool \in {"exec", "delete_file", "http_request"} THEN "sandbox"
    ELSE Simple(c, level)

Guarded == {"http_request", "write_file", "delete_file", "exec"}

\* Bug: critical risk is not looked at.
DetermineUnlessGuarded(c, policy, level) ==
    IF policy = "sandbox" /\ config.sandboxType = "none" THEN "approval_required"
    ELSE IF c.tool \in Guarded THEN "approval_required"
    ELSE policy

\* _determine_final_decision
Determine(c, policy, level) ==
    IF \/ policy = "allow" /\ level = "critical"
       \/ policy = "sandbox" /\ config.sandboxType = "none"
       \/ c.tool \in Guarded
    THEN "approval_required"
    ELSE policy

\* Bug: the key of what record_and_check returns, where a decision is due.
EnforcedBlocked == IF config.enforcement = "quarantine" THEN "blocked" ELSE config.enforcement

\* What a request over its quota comes to, whatever was decided.
Enforced == config.enforcement

AutoApproved(determined, level) ==
    determined = "approval_required" /\ config.autoApprove /\ level = "low"

Final(determined, level, limited) ==
    IF limited THEN Enforced
    ELSE IF AutoApproved(determined, level) THEN "allow"
    ELSE determined

\* Where process goes from there.
Continue(final) ==
    CASE final = "approval_required" -> "approval"
      [] final \in {"allow", "sandbox"} -> "execute"
      [] OTHER -> "audit"

-----------------------------------------------------------------------------
(* process                                                                 *)

\* The capability manager refuses; nothing is recorded.
Refuse(r) ==
    /\ req[r].pc = "new"
    /\ req' = [req EXCEPT ![r].pc = "refused"]
    /\ response' = [response EXCEPT ![r] = "deny"]
    /\ before' = [before EXCEPT ![r] = Answered]
    /\ UNCHANGED <<config, call, audit, approvals, ran, faults>>

\* The capability manager allows the call and its risk is assessed.
Submit(r) ==
    /\ req[r].pc = "new"
    /\ \E level \in Assess(r) :
          req' = [req EXCEPT ![r].pc = "policy", ![r].level = level]
    /\ before' = [before EXCEPT ![r] = Answered]
    /\ UNCHANGED <<config, call, audit, approvals, response, ran, faults>>

\* _recent_agent_tools swallows a database error and returns no history.
SubmitBlind(r) ==
    /\ req[r].pc = "new"
    /\ faults < MaxFaults
    /\ faults' = faults + 1
    /\ req' = [req EXCEPT ![r].pc = "policy", ![r].level = call[r].risk, ![r].blind = TRUE]
    /\ before' = [before EXCEPT ![r] = Answered]
    /\ UNCHANGED <<config, call, audit, approvals, response, ran>>

Decide(r, policy, outage) ==
    \E limited \in BOOLEAN :
        LET final == Final(Determine(call[r], policy, req[r].level), req[r].level, limited)
        IN  req' = [req EXCEPT ![r] = [@ EXCEPT !.pc = Continue(final), !.policy = policy,
                                                !.final = final, !.limited = limited,
                                                !.outage = outage]]

\* The policy engine answers, the decision is taken and the quota is checked.
EvaluateOPA(r) ==
    /\ req[r].pc = "policy"
    /\ config.opa
    /\ \E answer \in Decisions : Decide(r, answer, FALSE)
    /\ UNCHANGED <<config, call, audit, approvals, response, ran, before, faults>>

EvaluateOutage(r) ==
    /\ req[r].pc = "policy"
    /\ config.opa
    /\ Decide(r, Unavailable(call[r], req[r].level), TRUE)
    /\ UNCHANGED <<config, call, audit, approvals, response, ran, before, faults>>

EvaluateLocal(r) ==
    /\ req[r].pc = "policy"
    /\ ~config.opa
    /\ Decide(r, Simple(call[r], req[r].level), FALSE)
    /\ UNCHANGED <<config, call, audit, approvals, response, ran, before, faults>>

\* Bug: having opened the approval, process goes on to the tool.
OpenApprovalAndRun(r) ==
    /\ req[r].pc = "approval"
    /\ approvals' = approvals \union {r}
    /\ req' = [req EXCEPT ![r].pc = "execute"]
    /\ UNCHANGED <<config, call, audit, response, ran, before, faults>>

\* ApprovalService.create_request: see Approvals.
OpenApproval(r) ==
    /\ req[r].pc = "approval"
    /\ approvals' = approvals \union {r}
    /\ req' = [req EXCEPT ![r].pc = "audit"]
    /\ UNCHANGED <<config, call, audit, response, ran, before, faults>>

\* The broker has an adapter for the tool, and the exec adapter a sandbox.
Runnable(tool) ==
    /\ tool \notin {"shell", "unknown"}
    /\ tool = "exec" => config.sandboxType # "none"

\* ToolBroker.execute; a tool that fails, or is not run, yields a result as well.
Execute(r) ==
    /\ req[r].pc = "execute"
    /\ ran' = IF Runnable(call[r].tool) /\ (req[r].final = "sandbox" => config.posture)
              THEN [ran EXCEPT ![r] = @ + 1] ELSE ran
    /\ req' = [req EXCEPT ![r].pc = "audit"]
    /\ UNCHANGED <<config, call, audit, approvals, response, before, faults>>

\* Bug: the decision recorded is that of the policy.
AuditPolicy(r) ==
    /\ req[r].pc = "audit"
    /\ audit' = Append(audit, [id |-> r, decision |-> req[r].policy])
    /\ req' = [req EXCEPT ![r].pc = "done"]
    /\ response' = [response EXCEPT ![r] = req[r].final]
    /\ UNCHANGED <<config, call, approvals, ran, before, faults>>

\* _log_audit, and the response.
Audit(r) ==
    /\ req[r].pc = "audit"
    /\ audit' = Append(audit, [id |-> r, decision |-> req[r].final])
    /\ req' = [req EXCEPT ![r].pc = "done"]
    /\ response' = [response EXCEPT ![r] = req[r].final]
    /\ UNCHANGED <<config, call, approvals, ran, before, faults>>

\* _log_audit swallows the error of the database, and the response is the same.
AuditFails(r) ==
    /\ req[r].pc = "audit"
    /\ faults < MaxFaults
    /\ faults' = faults + 1
    /\ req' = [req EXCEPT ![r].pc = "done"]
    /\ response' = [response EXCEPT ![r] = req[r].final]
    /\ UNCHANGED <<config, call, audit, approvals, ran, before>>

\* A database error in record_and_check or create_request ends the request; the
\* approval may have been committed by then.
Raises(r) ==
    /\ req[r].pc \in {"policy", "approval"} \/ (req[r].pc = "audit" /\ r \in approvals)
    /\ faults < MaxFaults
    /\ faults' = faults + 1
    /\ req' = [req EXCEPT ![r].pc = "lost"]
    /\ UNCHANGED <<config, call, audit, approvals, response, ran, before>>

InFlight == {r \in Requests : req[r].pc \notin {"new", "refused", "done", "lost"}}

\* The server dies with every request in it.
Crash ==
    /\ InFlight # {}
    /\ faults < MaxFaults
    /\ faults' = faults + 1
    /\ req' = [r \in Requests |-> IF r \in InFlight THEN [req[r] EXCEPT !.pc = "lost"]
                                  ELSE req[r]]
    /\ UNCHANGED <<config, call, audit, approvals, response, ran, before>>

Next ==
    \/ \E r \in Requests :
          \/ Refuse(r)
          \/ Submit(r)
          \/ SubmitBlind(r)
          \/ EvaluateOPA(r)
          \/ EvaluateOutage(r)
          \/ EvaluateLocal(r)
          \/ OpenApproval(r)
          \/ Execute(r)
          \/ Audit(r)
          \/ AuditFails(r)
          \/ Raises(r)
    \/ Crash

Spec == Init /\ [][Next]_vars

-----------------------------------------------------------------------------
(* Properties                                                              *)

Audited == {audit[i].id : i \in 1..Len(audit)}

\* The policy lets the call pass: the tool is not guarded, critical risk needs more than
\* an allow, and a sandbox needs one to be configured.
PolicyClears(c, policy, level) ==
    /\ c.tool \notin Guarded
    /\ policy \in {"allow", "sandbox"}
    /\ policy = "allow" => level # "critical"
    /\ policy = "sandbox" => config.sandboxType # "none"

\* The automatic approval does: the risk is low, and somebody would have been asked.
\* For a guarded tool that is so whatever the policy said, a denial included.
RiskClears(c, policy, level) ==
    /\ config.autoApprove
    /\ level = "low"
    /\ \/ c.tool \in Guarded
       \/ policy = "approval_required"
       \/ policy = "sandbox" /\ config.sandboxType = "none"

\* A tool runs at most once for a request, never for one an approval was opened for,
\* and only where it was let pass: over the quota by the mode that sandboxes, else by
\* the policy or by the automatic approval.  When OPA cannot be asked in strict mode,
\* which denies, two ways are left: over the quota, and a guarded tool at low risk.
\* What is sandboxed runs only in an acceptable sandbox.
RunsOnlyIfCleared ==
    \A r \in Requests : ran[r] > 0 =>
        /\ ran[r] = 1 /\ r \notin approvals
        /\ IF req[r].limited THEN config.enforcement = "sandbox"
           ELSE \/ PolicyClears(call[r], req[r].policy, req[r].level)
                \/ RiskClears(call[r], req[r].policy, req[r].level)
        /\ req[r].outage /\ config.availability = "strict" =>
              req[r].limited \/ (call[r].tool \in Guarded /\ config.autoApprove
                                 /\ req[r].level = "low")
        /\ req[r].final = "sandbox" => config.posture

\* The record of a request says what was returned to the agent and what was done, and
\* there is one for each request that got past the capability check; each that is
\* missing is due to a database error or a crash.
AuditTellsTruth ==
    /\ \A i \in 1..Len(audit) :
          LET r == audit[i].id IN
          /\ audit[i].decision = response[r]
          /\ r \in approvals <=> audit[i].decision = "approval_required"
          /\ ran[r] > 0 => audit[i].decision \in {"allow", "sandbox"}
          /\ \A j \in 1..Len(audit) : audit[j].id = r => j = i
    /\ faults = 0 =>
          \A r \in Requests :
              /\ (ran[r] > 0 \/ r \in approvals) => r \in Audited \/ req[r].pc = "audit"
              /\ r \in Answered => r \in Audited \/ req[r].pc = "refused"

\* An agent that was given what it read, and then calls out, is seen to do so however
\* its requests and those of others overlap: the read is in the history, unless its
\* record was lost, the history could not be read, or more than Lookback requests of
\* the agent were answered.
ChainSeen ==
    \A r \in Requests :
        LET mine == {q \in before[r] : call[q].agent = call[r].agent}
        IN  (/\ call[r].tool = "http_request"
             /\ req[r].pc \in {"policy", "approval", "execute", "audit"}
             /\ ~req[r].blind
             /\ \E q \in mine \intersect Audited : call[q].tool \in Reads
             /\ Cardinality(mine) <= Lookback)
            => req[r].level \in Raised(call[r].risk)

\* What the documentation says of a denied request: it is not forwarded to the tool.
DeniedNeverRuns ==
    \A r \in Requests : req[r].policy = "deny" => ran[r] = 0

-----------------------------------------------------------------------------
(* The abstract gate                                                       *)

Effect(r) == IF ran[r] > 0 THEN "ran" ELSE IF r \in approvals THEN "held" ELSE "none"

Given(r) == IF req[r].pc = "lost" THEN "lost" ELSE response[r]

Pipeline == INSTANCE ActionGate
            WITH effect <- [r \in Requests |-> Effect(r)],
                 answer <- [r \in Requests |-> Given(r)],
                 log <- audit, failed <- faults > 0

\* However requests interleave and whatever fails, process does one thing for a request,
\* then answers and records what it did, and touches the request no more.
ImplementsGate == Pipeline!Spec
=============================================================================
