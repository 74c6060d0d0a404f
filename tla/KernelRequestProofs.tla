------------------------ MODULE KernelRequestProofs -------------------------
(***************************************************************************)
(* Proofs about KernelRequest: whatever the requests, the settings, the    *)
(* answers of OPA and the faults, a tool runs only past its gates and the  *)
(* audit records tell what happened.                                       *)
(***************************************************************************)
EXTENDS KernelRequest, SequenceTheorems, FiniteSetTheorems, TLAPS

-----------------------------------------------------------------------------
(* The inductive invariant                                                 *)

\* What a request had to pass before its tool may run.
Gate(r) ==
    IF req[r].limited THEN config.enforcement = "sandbox"
    ELSE \/ PolicyClears(call[r], req[r].policy, req[r].level)
         \/ RiskClears(call[r], req[r].policy, req[r].level)

\* Where a request is says what has been done for it.
RequestOK(r) ==
    /\ req[r].pc \in {"new", "refused", "policy", "approval", "execute"} =>
          ran[r] = 0 /\ r \notin approvals
    /\ req[r].pc = "approval" => req[r].final = "approval_required"
    /\ req[r].pc = "execute" => req[r].final \in {"allow", "sandbox"} /\ Gate(r)
    /\ req[r].pc \in {"audit", "done"} =>
          (r \in approvals <=> req[r].final = "approval_required")
    /\ req[r].pc = "done" => response[r] = req[r].final
    /\ req[r].pc = "refused" => response[r] = "deny"
    /\ req[r].pc \notin {"done", "refused"} => response[r] = "none"
    /\ req[r].pc = "lost" => faults > 0
    /\ (req[r].pc = "done" /\ faults = 0) => \E i \in 1..Len(audit) : audit[i].id = r

RunOK(r) ==
    /\ ran[r] \in {0, 1}
    /\ ran[r] = 1 => /\ r \notin approvals
                     /\ req[r].final \in {"allow", "sandbox"}
                     /\ req[r].final = "sandbox" => config.posture
                     /\ Gate(r)

\* OPA's failure in strict mode is a denial.
OutageOK(r) ==
    (config.availability = "strict" /\ req[r].outage) => req[r].policy = "deny"

\* A record is that of a request that is over, and the only one.
AuditOK ==
    /\ \A i \in 1..Len(audit) :
          LET r == audit[i].id IN req[r].pc = "done" /\ audit[i].decision = req[r].final
    /\ \A i, j \in 1..Len(audit) : audit[i].id = audit[j].id => i = j

IInv ==
    /\ TypeOK
    /\ \A r \in Requests : RequestOK(r) /\ RunOK(r) /\ OutageOK(r)
    /\ AuditOK

-----------------------------------------------------------------------------
(* Decisions                                                               *)

LEMMA RiskLevels ==
    ASSUME TypeOK, NEW r \in Requests, NEW level \in Assess(r)
    PROVE  level \in Levels
BY DEF TypeOK, Call, Assess, Raised, Levels

LEMMA SimpleDecides ==
    ASSUME TypeOK, NEW r \in Requests
    PROVE  Simple(call[r], req[r].level) \in Decisions
BY DEF Simple, Decisions

\* An outage in strict mode is a denial; any other yields a decision.
LEMMA OutageDecides ==
    ASSUME TypeOK, NEW r \in Requests
    PROVE  /\ Unavailable(call[r], req[r].level) \in Decisions
           /\ config.availability = "strict" => Unavailable(call[r], req[r].level) = "deny"
BY SimpleDecides DEF Unavailable, Decisions

\* A decision is written to the request, past the gates if it leads to the tool.
Decided(r, policy, outage, limited, final) ==
    /\ req' = [req EXCEPT ![r] =
                  [@ EXCEPT !.pc = Continue(final), !.policy = policy, !.final = final,
                            !.limited = limited, !.outage = outage]]
    /\ final \in {"allow", "sandbox"} =>
          IF limited THEN config.enforcement = "sandbox"
          ELSE \/ PolicyClears(call[r], policy, req[r].level)
               \/ RiskClears(call[r], policy, req[r].level)

\* What is decided, from any answer of the policy engine, leads on as it should; past
\* the gates only, if it leads to the tool.
LEMMA DecideSteps ==
    ASSUME TypeOK, NEW r \in Requests, req[r].pc = "policy",
           NEW policy \in Decisions, NEW outage \in BOOLEAN, Decide(r, policy, outage)
    PROVE  \E limited \in BOOLEAN, final \in Decisions :
              Decided(r, policy, outage, limited, final)
<1> DEFINE determined == Determine(call[r], policy, req[r].level)
           final(limited) == Final(determined, req[r].level, limited)
<1>1. determined \in Decisions
  BY DEF Determine, Decisions
<1>2. determined \in {"allow", "sandbox"} => PolicyClears(call[r], policy, req[r].level)
  BY DEF Determine, PolicyClears
<1>b. AutoApproved(determined, req[r].level) => RiskClears(call[r], policy, req[r].level)
  BY DEF Determine, AutoApproved, RiskClears
<1>3. config.enforcement \in {"quarantine", "approval_required", "sandbox"}
  BY DEF TypeOK, Config
<1>4. PICK limited \in BOOLEAN :
         req' = [req EXCEPT ![r] = [@ EXCEPT !.pc = Continue(final(limited)), !.policy = policy,
                                             !.final = final(limited), !.limited = limited,
                                             !.outage = outage]]
  BY DEF Decide
<1> HIDE DEF determined
<1>5. final(limited) \in Decisions
  BY <1>1, <1>3 DEF Final, Enforced, Decisions
<1>6. final(limited) \in {"allow", "sandbox"} =>
         IF limited THEN config.enforcement = "sandbox"
         ELSE determined \in {"allow", "sandbox"} \/ AutoApproved(determined, req[r].level)
  BY <1>3 DEF Final, Enforced
<1> HIDE DEF final
<1>7. final(limited) \in {"allow", "sandbox"} =>
         IF limited THEN config.enforcement = "sandbox"
         ELSE \/ PolicyClears(call[r], policy, req[r].level)
              \/ RiskClears(call[r], policy, req[r].level)
  BY <1>2, <1>b, <1>6
<1> QED
  BY <1>4, <1>5, <1>7 DEF Decided, final

-----------------------------------------------------------------------------
(* Steps                                                                   *)

LEMMA Typed ==
    ASSUME IInv
    PROVE  /\ \A r \in Requests : req[r] \in Progress /\ call[r] \in Call /\ ran[r] \in Nat
           /\ audit \in Seq([id : Requests, decision : Decisions]) /\ Len(audit) \in Nat
           /\ \A i \in 1..Len(audit) : audit[i] \in [id : Requests, decision : Decisions]
           /\ faults \in Nat
BY LenProperties, ElementOfSeq DEF IInv, TypeOK

\* A step of one request that is not over, and that records nothing, has only to be
\* right about that request.
LEMMA OwnStep ==
    ASSUME IInv, NEW r \in Requests, NEW p \in Progress,
           req[r].pc # "done", req' = [req EXCEPT ![r] = p],
           UNCHANGED <<config, call, audit>>,
           before' \in [Requests -> SUBSET Requests],
           response' \in [Requests -> Decisions \union {"none"}],
           ran' \in [Requests -> Nat],
           approvals' \subseteq Requests,
           faults' \in Nat, faults <= faults',
           \A q \in Requests \ {r} : /\ response'[q] = response[q] /\ ran'[q] = ran[q]
                                     /\ q \in approvals' <=> q \in approvals,
           RequestOK(r)', RunOK(r)', OutageOK(r)'
    PROVE  IInv'
<1>0. \A q \in Requests \ {r} : req'[q] = req[q]
  BY DEF IInv, TypeOK
<1>1. TypeOK'
  BY DEF IInv, TypeOK
<1>2. ASSUME NEW q \in Requests PROVE (RequestOK(q) /\ RunOK(q) /\ OutageOK(q))'
  <2>1. CASE q = r
    BY <2>1
  <2>2. CASE q # r
    <3>1. /\ req'[q] = req[q] /\ response'[q] = response[q] /\ ran'[q] = ran[q]
          /\ q \in approvals' <=> q \in approvals
          /\ audit' = audit /\ call' = call /\ config' = config
          /\ faults' = 0 => faults = 0
          /\ faults > 0 => faults' > 0
      BY <1>0, <2>2, Typed
    <3>2. RequestOK(q) /\ RunOK(q) /\ OutageOK(q)
      BY DEF IInv
    <3>3. Gate(q)' <=> Gate(q)
      BY <3>1 DEF Gate, PolicyClears, RiskClears
    <3>4. RequestOK(q)'
      BY <3>1, <3>2, <3>3 DEF RequestOK
    <3> QED
      BY <3>1, <3>2, <3>3, <3>4 DEF RunOK, OutageOK
  <2> QED
    BY <2>1, <2>2
<1>3. AuditOK'
  BY <1>0, Typed DEF IInv, AuditOK
<1> QED
  BY <1>1, <1>2, <1>3 DEF IInv

LEMMA RefuseStep ==
    ASSUME IInv, NEW r \in Requests, Refuse(r)
    PROVE  IInv'
<1> DEFINE p == [req[r] EXCEPT !.pc = "refused"]
<1>1. /\ p \in Progress /\ p.pc = "refused" /\ p.policy = req[r].policy
      /\ p.final = req[r].final /\ p.outage = req[r].outage /\ req' = [req EXCEPT ![r] = p]
  BY Typed DEF Refuse, Progress
<1> HIDE DEF p
<1>2. req'[r] = p /\ req[r].pc = "new" /\ RequestOK(r) /\ RunOK(r) /\ OutageOK(r)
  BY <1>1 DEF Refuse, IInv, TypeOK
<1>3. response' = [response EXCEPT ![r] = "deny"] /\ response'[r] = "deny"
  BY DEF Refuse, IInv, TypeOK
<1>4. RequestOK(r)' /\ RunOK(r)' /\ OutageOK(r)'
  BY <1>1, <1>2, <1>3 DEF Refuse, RequestOK, RunOK, OutageOK
<1>5. response' \in [Requests -> Decisions \union {"none"}]
      /\ before' \in [Requests -> SUBSET Requests]
  BY <1>3 DEF Refuse, IInv, TypeOK, Decisions, Answered
<1>6. /\ UNCHANGED <<config, call, audit, approvals, ran, faults>>
      /\ req[r].pc # "done" /\ faults <= faults
  BY <1>2, Typed DEF Refuse
<1>7. \A q \in Requests \ {r} : response'[q] = response[q]
  BY <1>3 DEF IInv, TypeOK
<1>8. approvals' \subseteq Requests /\ ran' \in [Requests -> Nat] /\ faults' \in Nat
  BY <1>6 DEF IInv, TypeOK
<1> QED
  BY <1>1, <1>4, <1>5, <1>6, <1>7, <1>8, OwnStep

\* Submit and SubmitBlind differ in the level, and in a fault.
LEMMA SubmitStep ==
    ASSUME IInv, NEW r \in Requests, Submit(r) \/ SubmitBlind(r)
    PROVE  IInv'
<1>0. call[r].risk \in Levels
  BY Typed DEF Call
<1>1. PICK level \in Levels, blind \in BOOLEAN :
         req' = [req EXCEPT ![r] = [@ EXCEPT !.pc = "policy", !.level = level,
                                             !.blind = blind]]
  <2>1. CASE Submit(r)
    <3>1. PICK level \in Assess(r) :
             req' = [req EXCEPT ![r].pc = "policy", ![r].level = level]
      BY <2>1 DEF Submit
    <3>2. level \in Levels
      BY RiskLevels DEF IInv
    <3>3. req[r] \in Progress
      BY Typed
    <3>4. [req[r] EXCEPT !.pc = "policy", !.level = level]
             = [req[r] EXCEPT !.pc = "policy", !.level = level, !.blind = req[r].blind]
      BY <3>3 DEF Progress
    <3>5. req[r].blind \in BOOLEAN
      BY <3>3 DEF Progress
    <3>6. req' = [req EXCEPT ![r] = [req[r] EXCEPT !.pc = "policy", !.level = level]]
      BY <3>1
    <3> QED
      BY <3>2, <3>4, <3>5, <3>6
  <2>2. CASE SubmitBlind(r)
    BY <2>2, <1>0 DEF SubmitBlind
  <2> QED
    BY <2>1, <2>2
<1> DEFINE p == [req[r] EXCEPT !.pc = "policy", !.level = level, !.blind = blind]
<1>2. /\ p \in Progress /\ p.pc = "policy" /\ p.policy = req[r].policy
      /\ p.final = req[r].final /\ p.outage = req[r].outage /\ req' = [req EXCEPT ![r] = p]
  BY <1>1, Typed DEF Progress
<1> HIDE DEF p
<1>3. req'[r] = p /\ req[r].pc = "new" /\ RequestOK(r) /\ RunOK(r) /\ OutageOK(r)
  BY <1>2 DEF Submit, SubmitBlind, IInv, TypeOK
<1>4. UNCHANGED <<config, call, audit, approvals, response, ran>>
      /\ faults' \in Nat /\ faults <= faults'
  BY Typed DEF Submit, SubmitBlind
<1>a. before' = [before EXCEPT ![r] = Answered]
  BY DEF Submit, SubmitBlind
<1>b. before' \in [Requests -> SUBSET Requests]
  BY <1>a DEF IInv, TypeOK, Answered
<1>5. RequestOK(r)' /\ RunOK(r)' /\ OutageOK(r)'
  BY <1>2, <1>3, <1>4 DEF RequestOK, RunOK, OutageOK
<1>6. /\ approvals' \subseteq Requests /\ ran' \in [Requests -> Nat]
      /\ response' \in [Requests -> Decisions \union {"none"}]
      /\ req[r].pc # "done"
  BY <1>3, <1>4 DEF IInv, TypeOK
<1> QED
  BY <1>2, <1>4, <1>b, <1>5, <1>6, OwnStep

LEMMA EvaluateStep ==
    ASSUME IInv, NEW r \in Requests,
           EvaluateOPA(r) \/ EvaluateOutage(r) \/ EvaluateLocal(r)
    PROVE  IInv'
<1>1. /\ req[r].pc = "policy" /\ RequestOK(r) /\ RunOK(r)
      /\ UNCHANGED <<config, call, audit, approvals, response, ran, before, faults>>
  BY DEF EvaluateOPA, EvaluateOutage, EvaluateLocal, IInv
<1>2. PICK policy \in Decisions, outage \in BOOLEAN :
         /\ Decide(r, policy, outage)
         /\ (config.availability = "strict" /\ outage) => policy = "deny"
  <2>1. CASE EvaluateOPA(r)
    BY <2>1 DEF EvaluateOPA
  <2>2. CASE EvaluateOutage(r)
    BY <2>2, OutageDecides DEF EvaluateOutage, IInv
  <2>3. CASE EvaluateLocal(r)
    BY <2>3, SimpleDecides DEF EvaluateLocal, IInv
  <2> QED
    BY <2>1, <2>2, <2>3
<1>3. PICK limited \in BOOLEAN, final \in Decisions :
         Decided(r, policy, outage, limited, final)
  <2>1. TypeOK
    BY DEF IInv
  <2> QED
    BY <2>1, <1>1, <1>2, DecideSteps
<1>a. req[r] \in Progress
  BY Typed
<1> DEFINE p == [req[r] EXCEPT !.pc = Continue(final), !.policy = policy, !.final = final,
                               !.limited = limited, !.outage = outage]
<1>4. /\ Continue(final) \in {"approval", "execute", "audit"}
      /\ Continue(final) = "approval" <=> final = "approval_required"
      /\ Continue(final) = "execute" <=> final \in {"allow", "sandbox"}
  BY DEF Continue, Decisions
<1>5. /\ p \in Progress /\ p.pc = Continue(final) /\ p.policy = policy /\ p.final = final
      /\ p.limited = limited /\ p.outage = outage /\ p.level = req[r].level
      /\ req' = [req EXCEPT ![r] = p]
  <2> DEFINE c == Continue(final)
  <2>1. c \in {"approval", "execute", "audit"}
    BY <1>4
  <2> HIDE DEF c
  <2>2. p = [req[r] EXCEPT !.pc = c, !.policy = policy, !.final = final,
                           !.limited = limited, !.outage = outage]
    BY DEF c
  <2> HIDE DEF p
  <2>3. p \in Progress /\ p.pc = c /\ p.policy = policy /\ p.final = final
        /\ p.limited = limited /\ p.outage = outage /\ p.level = req[r].level
    BY <1>a, <2>1, <2>2 DEF Progress
  <2> QED
    BY <1>3, <2>3 DEF c, p, Decided
<1> HIDE DEF p
<1>6. req'[r] = p
  BY <1>5 DEF IInv, TypeOK
<1>7. final \in {"allow", "sandbox"} => Gate(r)'
  BY <1>1, <1>3, <1>5, <1>6 DEF Gate, PolicyClears, RiskClears, Decided
<1>8. RequestOK(r)'
  BY <1>1, <1>4, <1>5, <1>6, <1>7 DEF RequestOK
<1>9. RunOK(r)' /\ OutageOK(r)'
  BY <1>1, <1>2, <1>5, <1>6 DEF RequestOK, RunOK, OutageOK
<1>10. /\ approvals' \subseteq Requests /\ ran' \in [Requests -> Nat]
       /\ response' \in [Requests -> Decisions \union {"none"}]
       /\ before' \in [Requests -> SUBSET Requests]
       /\ faults' \in Nat /\ faults <= faults' /\ req[r].pc # "done"
  BY <1>1 DEF IInv, TypeOK
<1> QED
  BY <1>1, <1>5, <1>8, <1>9, <1>10, OwnStep

LEMMA OpenApprovalStep ==
    ASSUME IInv, NEW r \in Requests, OpenApproval(r)
    PROVE  IInv'
<1> DEFINE p == [req[r] EXCEPT !.pc = "audit"]
<1>1. /\ p \in Progress /\ p.pc = "audit" /\ p.policy = req[r].policy
      /\ p.final = req[r].final /\ p.outage = req[r].outage /\ req' = [req EXCEPT ![r] = p]
  BY Typed DEF OpenApproval, Progress
<1> HIDE DEF p
<1>2. /\ req'[r] = p /\ req[r].pc = "approval" /\ RequestOK(r) /\ RunOK(r) /\ OutageOK(r)
      /\ UNCHANGED <<config, call, audit, response, ran, before, faults>>
      /\ approvals' = approvals \union {r}
  BY <1>1 DEF OpenApproval, IInv, TypeOK
<1>3. RequestOK(r)' /\ RunOK(r)' /\ OutageOK(r)'
  BY <1>1, <1>2 DEF RequestOK, RunOK, OutageOK
<1>4. /\ approvals' \subseteq Requests /\ ran' \in [Requests -> Nat]
      /\ response' \in [Requests -> Decisions \union {"none"}]
      /\ before' \in [Requests -> SUBSET Requests]
      /\ faults' \in Nat /\ faults <= faults' /\ req[r].pc # "done"
  BY <1>2 DEF IInv, TypeOK
<1> QED
  BY <1>1, <1>2, <1>3, <1>4, OwnStep

LEMMA ExecuteStep ==
    ASSUME IInv, NEW r \in Requests, Execute(r)
    PROVE  IInv'
<1> DEFINE p == [req[r] EXCEPT !.pc = "audit"]
<1>1. /\ p \in Progress /\ p.pc = "audit" /\ p.policy = req[r].policy
      /\ p.final = req[r].final /\ p.outage = req[r].outage /\ p.level = req[r].level
      /\ p.limited = req[r].limited /\ req' = [req EXCEPT ![r] = p]
  BY Typed DEF Execute, Progress
<1> HIDE DEF p
<1>2. /\ req'[r] = p /\ req[r].pc = "execute" /\ RequestOK(r) /\ RunOK(r) /\ OutageOK(r)
      /\ UNCHANGED <<config, call, audit, approvals, response, before, faults>>
  BY <1>1 DEF Execute, IInv, TypeOK
<1>3. /\ ran' \in [Requests -> Nat] /\ \A q \in Requests \ {r} : ran'[q] = ran[q]
      /\ ran'[r] \in {0, 1}
      /\ ran'[r] = 1 => (req[r].final = "sandbox" => config.posture)
  BY <1>2 DEF Execute, RequestOK, IInv, TypeOK
<1>4. Gate(r)' /\ req[r].final \in {"allow", "sandbox"}
  BY <1>1, <1>2 DEF RequestOK, Gate, PolicyClears, RiskClears
<1>5. RequestOK(r)' /\ RunOK(r)' /\ OutageOK(r)'
  BY <1>1, <1>2, <1>3, <1>4 DEF RequestOK, RunOK, OutageOK
<1>6. /\ approvals' \subseteq Requests
      /\ response' \in [Requests -> Decisions \union {"none"}]
      /\ before' \in [Requests -> SUBSET Requests]
      /\ faults' \in Nat /\ faults <= faults' /\ req[r].pc # "done"
  BY <1>2 DEF IInv, TypeOK
<1> QED
  BY <1>1, <1>2, <1>3, <1>5, <1>6, OwnStep

\* The record is appended when the request ends, so that it is the only one.
LEMMA AuditStep ==
    ASSUME IInv, NEW r \in Requests, Audit(r)
    PROVE  IInv'
<1> DEFINE p == [req[r] EXCEPT !.pc = "done"]
           x == [id |-> r, decision |-> req[r].final]
<1>1. /\ p \in Progress /\ p.pc = "done" /\ p.policy = req[r].policy
      /\ p.final = req[r].final /\ p.outage = req[r].outage /\ p.level = req[r].level
      /\ p.limited = req[r].limited /\ req' = [req EXCEPT ![r] = p]
  BY Typed DEF Audit, Progress
<1>2. x \in [id : Requests, decision : Decisions] /\ x.id = r /\ x.decision = req[r].final
      /\ audit' = Append(audit, x) /\ req[r].final \in Decisions
  BY Typed DEF Audit, Progress
<1> HIDE DEF p, x
<1>3. /\ audit' \in Seq([id : Requests, decision : Decisions])
      /\ Len(audit') = Len(audit) + 1
      /\ \A i \in 1..Len(audit) : audit'[i] = audit[i]
      /\ audit'[Len(audit) + 1] = x
  BY <1>2, Typed, AppendProperties
<1>4. /\ req'[r] = p /\ req[r].pc = "audit" /\ RequestOK(r) /\ RunOK(r) /\ OutageOK(r)
      /\ UNCHANGED <<config, call, approvals, ran, before, faults>>
      /\ \A q \in Requests \ {r} : req'[q] = req[q]
  BY <1>1 DEF Audit, IInv, TypeOK
<1>5. /\ response' \in [Requests -> Decisions \union {"none"}]
      /\ response'[r] = req[r].final
      /\ \A q \in Requests \ {r} : response'[q] = response[q]
  BY <1>2 DEF Audit, IInv, TypeOK
<1>6. TypeOK'
  BY <1>1, <1>3, <1>4, <1>5 DEF IInv, TypeOK
<1>7. \E i \in 1..Len(audit') : audit'[i].id = r
  BY <1>2, <1>3, Typed
<1>8. RequestOK(r)' /\ RunOK(r)' /\ OutageOK(r)'
  <2>1. Gate(r)' <=> Gate(r)
    BY <1>1, <1>4 DEF Gate, PolicyClears, RiskClears
  <2>2. RequestOK(r)'
    BY <1>1, <1>4, <1>5, <1>7 DEF RequestOK
  <2> QED
    BY <1>1, <1>4, <2>1, <2>2 DEF RunOK, OutageOK
<1>9. ASSUME NEW q \in Requests \ {r} PROVE (RequestOK(q) /\ RunOK(q) /\ OutageOK(q))'
  <2>1. Gate(q)' <=> Gate(q)
    BY <1>4 DEF Gate, PolicyClears, RiskClears
  <2>2. RequestOK(q) /\ RunOK(q) /\ OutageOK(q)
    BY DEF IInv
  <2>3. (\E i \in 1..Len(audit) : audit[i].id = q) => \E i \in 1..Len(audit') : audit'[i].id = q
    BY <1>3, Typed
  <2>4. RequestOK(q)'
    BY <1>4, <1>5, <2>1, <2>2, <2>3 DEF RequestOK
  <2> QED
    BY <1>4, <2>1, <2>2, <2>4 DEF RunOK, OutageOK
<1>10. AuditOK'
  <2>1. \A i \in 1..Len(audit) : audit[i].id \in Requests /\ audit[i].id # r
                                 /\ req[audit[i].id].pc = "done"
                                 /\ audit[i].decision = req[audit[i].id].final
    BY <1>4, Typed DEF IInv, AuditOK
  <2>2. \A i, j \in 1..Len(audit) : audit[i].id = audit[j].id => i = j
    BY DEF IInv, AuditOK
  <2>3. \A i \in 1..Len(audit') : i \in 1..Len(audit) \/ i = Len(audit) + 1
    BY <1>3, Typed
  <2>4. ASSUME NEW i \in 1..Len(audit')
        PROVE  req'[audit'[i].id].pc = "done" /\ audit'[i].decision = req'[audit'[i].id].final
    BY <1>1, <1>2, <1>3, <1>4, <2>1, <2>3
  <2>5. ASSUME NEW i \in 1..Len(audit'), NEW j \in 1..Len(audit'), audit'[i].id = audit'[j].id
        PROVE  i = j
    BY <1>2, <1>3, <2>1, <2>2, <2>3, <2>5
  <2> QED
    BY <2>4, <2>5 DEF AuditOK
<1> QED
  BY <1>6, <1>8, <1>9, <1>10 DEF IInv

LEMMA AuditFailsStep ==
    ASSUME IInv, NEW r \in Requests, AuditFails(r)
    PROVE  IInv'
<1> DEFINE p == [req[r] EXCEPT !.pc = "done"]
<1>1. /\ p \in Progress /\ p.pc = "done" /\ p.policy = req[r].policy
      /\ p.final = req[r].final /\ p.outage = req[r].outage /\ p.level = req[r].level
      /\ p.limited = req[r].limited /\ req' = [req EXCEPT ![r] = p]
      /\ req[r].final \in Decisions
  BY Typed DEF AuditFails, Progress
<1> HIDE DEF p
<1>2. /\ req'[r] = p /\ req[r].pc = "audit" /\ RequestOK(r) /\ RunOK(r) /\ OutageOK(r)
      /\ UNCHANGED <<config, call, audit, approvals, ran, before>>
  BY <1>1 DEF AuditFails, IInv, TypeOK
<1>3. faults' = faults + 1 /\ faults' \in Nat /\ faults <= faults' /\ faults' # 0
  BY Typed DEF AuditFails
<1>4. /\ response' \in [Requests -> Decisions \union {"none"}]
      /\ response'[r] = req[r].final
      /\ \A q \in Requests \ {r} : response'[q] = response[q]
  BY <1>1 DEF AuditFails, IInv, TypeOK
<1>5. Gate(r)' <=> Gate(r)
  BY <1>1, <1>2 DEF Gate, PolicyClears, RiskClears
<1>6. RequestOK(r)'
  BY <1>1, <1>2, <1>3, <1>4, <1>5 DEF RequestOK
<1>7. RunOK(r)' /\ OutageOK(r)'
  BY <1>1, <1>2, <1>5 DEF RunOK, OutageOK
<1>8. /\ approvals' \subseteq Requests /\ before' \in [Requests -> SUBSET Requests]
      /\ ran' \in [Requests -> Nat] /\ req[r].pc # "done"
  BY <1>2 DEF IInv, TypeOK
<1> QED
  BY <1>1, <1>2, <1>3, <1>4, <1>6, <1>7, <1>8, OwnStep

\* A request that is lost keeps what was done for it.
LEMMA LostOK ==
    ASSUME IInv, NEW r \in Requests, req[r].pc \in {"policy", "approval", "execute", "audit"},
           req'[r] = [req[r] EXCEPT !.pc = "lost"],
           UNCHANGED <<config, call, audit, approvals, response, ran>>,
           faults' = faults + 1
    PROVE  req'[r] \in Progress /\ RequestOK(r)' /\ RunOK(r)' /\ OutageOK(r)'
<1> DEFINE p == [req[r] EXCEPT !.pc = "lost"]
<1>1. /\ p \in Progress /\ p.pc = "lost" /\ p.policy = req[r].policy
      /\ p.final = req[r].final /\ p.outage = req[r].outage /\ p.level = req[r].level
      /\ p.limited = req[r].limited /\ req'[r] = p
  BY Typed DEF Progress
<1> HIDE DEF p
<1>2. RequestOK(r) /\ RunOK(r) /\ OutageOK(r) /\ faults' > 0
  BY Typed DEF IInv
<1>3. Gate(r)' <=> Gate(r)
  BY <1>1 DEF Gate, PolicyClears, RiskClears
<1>4. RequestOK(r)'
  BY <1>1, <1>2, <1>3 DEF RequestOK
<1> QED
  BY <1>1, <1>2, <1>3, <1>4 DEF RunOK, OutageOK

LEMMA RaisesStep ==
    ASSUME IInv, NEW r \in Requests, Raises(r)
    PROVE  IInv'
<1> DEFINE p == [req[r] EXCEPT !.pc = "lost"]
<1>1. /\ req[r].pc \in {"policy", "approval", "audit"} /\ faults' = faults + 1
      /\ req' = [req EXCEPT ![r] = p] /\ req'[r] = p
      /\ UNCHANGED <<config, call, audit, approvals, response, ran, before>>
  BY DEF Raises, IInv, TypeOK
<1>2. p \in Progress /\ RequestOK(r)' /\ RunOK(r)' /\ OutageOK(r)'
  BY <1>1, LostOK
<1> HIDE DEF p
<1>3. /\ approvals' \subseteq Requests /\ before' \in [Requests -> SUBSET Requests]
      /\ ran' \in [Requests -> Nat] /\ req[r].pc # "done"
      /\ response' \in [Requests -> Decisions \union {"none"}]
  BY <1>1 DEF IInv, TypeOK
<1>4. faults' \in Nat /\ faults <= faults'
  BY <1>1, Typed
<1> QED
  BY <1>1, <1>2, <1>3, <1>4, OwnStep

LEMMA CrashStep ==
    ASSUME IInv, Crash
    PROVE  IInv'
<1>1. /\ UNCHANGED <<config, call, audit, approvals, response, ran, before>>
      /\ faults' = faults + 1 /\ faults' \in Nat
      /\ req' = [r \in Requests |-> IF r \in InFlight THEN [req[r] EXCEPT !.pc = "lost"]
                                    ELSE req[r]]
  BY Typed DEF Crash
<1>2. ASSUME NEW r \in Requests
      PROVE  req'[r] \in Progress /\ (RequestOK(r) /\ RunOK(r) /\ OutageOK(r))'
  <2>1. CASE r \in InFlight
    <3>1. req[r].pc \in {"policy", "approval", "execute", "audit"}
      BY <2>1, Typed DEF InFlight, Progress
    <3>2. req'[r] = [req[r] EXCEPT !.pc = "lost"]
      BY <1>1, <2>1
    <3> QED
      BY <1>1, <3>1, <3>2, LostOK
  <2>2. CASE r \notin InFlight
    <3>1. req'[r] = req[r] /\ req[r] \in Progress
      BY <1>1, <2>2, Typed
    <3>2. RequestOK(r) /\ RunOK(r) /\ OutageOK(r)
          /\ faults \in Nat /\ faults' > 0 /\ faults' # 0
      BY <1>1, Typed DEF IInv
    <3>3. Gate(r)' <=> Gate(r)
      BY <1>1, <3>1 DEF Gate, PolicyClears, RiskClears
    <3>a. UNCHANGED <<config, call, audit, approvals, response, ran>>
      BY <1>1
    <3>4. RequestOK(r)'
      BY <3>a, <3>1, <3>2, <3>3, SMTT(30) DEF RequestOK
    <3> QED
      BY <3>a, <3>1, <3>2, <3>3, <3>4 DEF RunOK, OutageOK
  <2> QED
    BY <2>1, <2>2
<1>3. req' \in [Requests -> Progress]
  BY <1>1, <1>2
<1>4. TypeOK'
  BY <1>1, <1>3 DEF IInv, TypeOK
<1>5. AuditOK'
  <2>1. \A i \in 1..Len(audit) : audit[i].id \in Requests /\ req[audit[i].id].pc = "done"
    BY Typed DEF IInv, AuditOK
  <2>2. \A i \in 1..Len(audit) : req'[audit[i].id] = req[audit[i].id]
    BY <1>1, <2>1 DEF InFlight
  <2>3. AuditOK /\ audit' = audit
    BY <1>1 DEF IInv
  <2> QED
    BY <2>2, <2>3 DEF AuditOK
<1> QED
  BY <1>2, <1>4, <1>5 DEF IInv

-----------------------------------------------------------------------------
(* The invariant holds                                                     *)

LEMMA InitIInv == Init => IInv
<1> SUFFICES ASSUME Init PROVE IInv
  OBVIOUS
<1>1. Len(audit) = 0 /\ audit \in Seq([id : Requests, decision : Decisions])
  BY EmptySeq DEF Init
<1>2. New \in Progress /\ New.pc = "new" /\ New.outage = FALSE
  BY DEF New, Progress, Levels, Decisions
<1>3. TypeOK
  BY <1>1, <1>2, KernelAssumption DEF Init, TypeOK
<1>4. \A r \in Requests : RequestOK(r) /\ RunOK(r) /\ OutageOK(r)
  BY <1>2 DEF Init, RequestOK, RunOK, OutageOK
<1>5. AuditOK
  BY <1>1 DEF AuditOK
<1> QED
  BY <1>3, <1>4, <1>5 DEF IInv

LEMMA NextIInv == IInv /\ [Next]_vars => IInv'
<1> SUFFICES ASSUME IInv, [Next]_vars PROVE IInv'
  OBVIOUS
<1>1. CASE UNCHANGED vars
  BY <1>1 DEF vars, IInv, TypeOK, RequestOK, RunOK, OutageOK, AuditOK, Gate, PolicyClears,
         RiskClears
<1>2. ASSUME NEW r \in Requests,
             \/ Refuse(r) \/ Submit(r) \/ SubmitBlind(r)
             \/ EvaluateOPA(r) \/ EvaluateOutage(r) \/ EvaluateLocal(r)
             \/ OpenApproval(r) \/ Execute(r)
             \/ Audit(r) \/ AuditFails(r) \/ Raises(r)
      PROVE  IInv'
  BY <1>2, RefuseStep, SubmitStep, EvaluateStep, OpenApprovalStep, ExecuteStep,
     AuditStep, AuditFailsStep, RaisesStep
<1>3. CASE Crash
  BY <1>3, CrashStep
<1> QED
  BY <1>1, <1>2, <1>3 DEF Next

LEMMA Inductive == Spec => []IInv
BY InitIInv, NextIInv, PTL DEF Spec

-----------------------------------------------------------------------------
(* What an agent did before                                                *)

\* At most the requests there were are answered, and the requests answered before one
\* came in are over.
Heard ==
    /\ IsFiniteSet(Answered)
    /\ \A r \in Requests : \A q \in before[r] : req[q].pc \in {"done", "refused"}

\* The requests of r's agent that were answered before it came in.
Mine(r) == {q \in before[r] : call[q].agent = call[r].agent}

Started == {"policy", "approval", "execute", "audit"}

LEMMA AnsweredAreOver ==
    ASSUME IInv, NEW r \in Requests
    PROVE  r \in Answered <=> req[r].pc \in {"done", "refused"}
<1>1. RequestOK(r) /\ req[r].final \in Decisions
  BY Typed DEF IInv, Progress
<1> QED
  BY <1>1 DEF RequestOK, Answered, Decisions

\* A request's step is its own, and once it is admitted no step changes what its risk
\* was assessed from.
OwnHistory(r) ==
    /\ req[r].pc \notin {"done", "refused", "lost"}
    /\ \A s \in Requests \ {r} :
          req'[s] = req[s] /\ before'[s] = before[s] /\ response'[s] = response[s]
    /\ call' = call
    /\ \/ audit' = audit
       \/ /\ req[r].pc = "audit"
          /\ \E d \in Decisions : audit' = Append(audit, [id |-> r, decision |-> d])
    /\ \/ before'[r] = before[r]
       \/ before'[r] = Answered
    /\ req'[r].pc \in Started =>
          \/ Submit(r)
          \/ req'[r].blind
          \/ /\ req[r].pc \in Started
             /\ req'[r].level = req[r].level
             /\ req'[r].blind = req[r].blind
             /\ before'[r] = before[r]

LEMMA RequestSteps ==
    ASSUME IInv, NEW r \in Requests,
           \/ Refuse(r) \/ Submit(r) \/ SubmitBlind(r)
           \/ EvaluateOPA(r) \/ EvaluateOutage(r) \/ EvaluateLocal(r)
           \/ OpenApproval(r) \/ Execute(r)
           \/ Audit(r) \/ AuditFails(r) \/ Raises(r)
    PROVE  OwnHistory(r)
<1>0. /\ req[r] \in Progress /\ req \in [Requests -> Progress]
      /\ before \in [Requests -> SUBSET Requests]
      /\ response \in [Requests -> Decisions \union {"none"}]
  BY Typed DEF IInv, TypeOK
<1>1. CASE Refuse(r)
  BY <1>0, <1>1 DEF Refuse, OwnHistory, Started, Progress
<1>2. CASE Submit(r)
  BY <1>0, <1>2 DEF Submit, OwnHistory, Started
<1>3. CASE SubmitBlind(r)
  BY <1>0, <1>3 DEF SubmitBlind, OwnHistory, Started, Progress
<1>4. CASE EvaluateOPA(r) \/ EvaluateOutage(r) \/ EvaluateLocal(r)
  <2>1. /\ req[r].pc = "policy"
        /\ UNCHANGED <<config, call, audit, approvals, response, ran, before, faults>>
        /\ \E policy \in Decisions, outage \in BOOLEAN : Decide(r, policy, outage)
    BY <1>4, SimpleDecides, OutageDecides DEF EvaluateOPA, EvaluateOutage, EvaluateLocal, IInv
  <2>2. PICK policy \in Decisions, outage \in BOOLEAN,
             limited \in BOOLEAN, final \in Decisions :
           Decided(r, policy, outage, limited, final)
    BY <2>1, DecideSteps DEF IInv
  <2> DEFINE pc == Continue(final)
  <2>3. req' = [req EXCEPT ![r] =
                  [req[r] EXCEPT !.pc = pc, !.policy = policy, !.final = final,
                                 !.limited = limited, !.outage = outage]]
    BY <2>2 DEF Decided
  <2> HIDE DEF pc
  <2>4. /\ req'[r].level = req[r].level /\ req'[r].blind = req[r].blind
        /\ \A s \in Requests \ {r} : req'[s] = req[s]
    BY <1>0, <2>3 DEF Progress
  <2> QED
    BY <1>0, <2>1, <2>4 DEF OwnHistory, Started
<1>5. CASE OpenApproval(r)
  BY <1>0, <1>5 DEF OpenApproval, OwnHistory, Started, Progress
<1>6. CASE Execute(r)
  BY <1>0, <1>6 DEF Execute, OwnHistory, Started, Progress
<1>7. CASE Audit(r)
  BY <1>0, <1>7 DEF Audit, OwnHistory, Started, Progress
<1>8. CASE AuditFails(r)
  BY <1>0, <1>8 DEF AuditFails, OwnHistory, Started, Progress
<1>9. CASE Raises(r)
  BY <1>0, <1>9 DEF Raises, OwnHistory, Started, Progress
<1> QED
  BY <1>1, <1>2, <1>3, <1>4, <1>5, <1>6, <1>7, <1>8, <1>9

\* A crash only ends requests.
LEMMA CrashEnds ==
    ASSUME IInv, Crash
    PROVE  /\ UNCHANGED <<call, audit, response, before>>
           /\ \A r \in Requests :
                 /\ req[r].pc \in {"done", "refused", "lost"} => req'[r] = req[r]
                 /\ req'[r].pc \in Started => req'[r] = req[r]
<1>1. \A r \in Requests : req[r] \in Progress
  BY Typed
<1> QED
  BY <1>1 DEF Crash, InFlight, Started, Progress

LEMMA InitHeard == Init => Heard /\ ChainSeen
<1> SUFFICES ASSUME Init PROVE Heard /\ ChainSeen
  OBVIOUS
<1>1. Answered = {}
  BY DEF Init, Answered
<1>2. \A r \in Requests : before[r] = {}
  BY DEF Init
<1> QED
  BY <1>1, <1>2, FS_EmptySet DEF Heard, ChainSeen

LEMMA NextHeard == IInv /\ Heard /\ [Next]_vars => Heard'
<1> SUFFICES ASSUME IInv, Heard, [Next]_vars PROVE Heard'
  OBVIOUS
<1>1. ASSUME NEW r \in Requests, OwnHistory(r) PROVE Heard'
  <2>1. Answered' \subseteq Answered \union {r}
    BY <1>1 DEF OwnHistory, Answered
  <2>2. IsFiniteSet(Answered')
    <3>1. IsFiniteSet(Answered \union {r})
      BY FS_AddElement DEF Heard
    <3> QED
      BY <2>1, <3>1, FS_Subset
  <2>3. ASSUME NEW s \in Requests, NEW q \in before'[s] PROVE req'[q].pc \in {"done", "refused"}
    <3>1. q \in Requests /\ req[q].pc \in {"done", "refused"}
      BY <1>1, <2>3, AnsweredAreOver DEF OwnHistory, Heard, IInv, TypeOK, Answered
    <3> QED
      BY <1>1, <3>1 DEF OwnHistory
  <2> QED
    BY <2>2, <2>3 DEF Heard
<1>2. CASE Crash
  <2>1. Answered' = Answered
    BY <1>2, CrashEnds DEF Answered
  <2> QED
    BY <1>2, <2>1, CrashEnds DEF Heard, IInv, TypeOK
<1>3. CASE UNCHANGED vars
  BY <1>3 DEF vars, Heard, Answered
<1> QED
  BY <1>1, <1>2, <1>3, RequestSteps DEF Next

\* A record of an agent that has at most Lookback answers is among those that are read:
\* the later records of the agent are of its other answers.
LEMMA InHistory ==
    ASSUME IInv, Heard, NEW a \in Agents, NEW i \in RowsOf(a),
           Cardinality({q \in Answered : call[q].agent = a}) <= Lookback
    PROVE  i \in Recent(a)
<1> DEFINE given == {q \in Answered : call[q].agent = a}
           later == {j \in RowsOf(a) : j > i}
           others == given \ {audit[i].id}
<1>1. \A j \in RowsOf(a) : audit[j].id \in given
  BY Typed, AnsweredAreOver DEF RowsOf, IInv, AuditOK
<1>2. IsFiniteSet(given) /\ audit[i].id \in given
  BY <1>1, FS_Subset DEF Heard
<1>3. IsFiniteSet(others) /\ Cardinality(others) = Cardinality(given) - 1
  BY <1>2, FS_RemoveElement
<1> DEFINE f == [j \in later |-> audit[j].id]
<1>4. f \in Injection(later, others)
  <2>1. \A j \in later : j # i /\ j \in 1..Len(audit) /\ i \in 1..Len(audit)
    BY Typed DEF RowsOf
  <2>2. \A j, k \in 1..Len(audit) : audit[j].id = audit[k].id => j = k
    BY DEF IInv, AuditOK
  <2>3. f \in [later -> others]
    BY <1>1, <2>1, <2>2
  <2> QED
    BY <2>1, <2>2, <2>3 DEF Injection, IsInjective
<1> HIDE DEF f, later, others
<1>5. IsFiniteSet(later) /\ Cardinality(later) <= Cardinality(others)
  BY <1>3, <1>4, FS_Injection
<1>6. /\ Cardinality(later) \in Nat /\ Cardinality(given) \in Nat
      /\ Cardinality(others) \in Nat
  BY <1>2, <1>3, <1>5, FS_CardinalityType
<1>7. Cardinality(later) < Lookback
  BY <1>3, <1>5, <1>6, KernelAssumption
<1> QED
  BY <1>7 DEF later, Recent, Latest

\* So a call after a read is raised when it is admitted.
LEMMA SubmitSees ==
    ASSUME IInv, Heard, NEW r \in Requests, Submit(r),
           call[r].tool = "http_request",
           Cardinality(Mine(r)') <= Lookback,
           NEW q \in Mine(r)' \intersect Audited', call[q].tool \in Reads
    PROVE  req'[r].level \in Raised(call[r].risk)
<1>1. /\ UNCHANGED <<call, audit>> /\ before'[r] = Answered
      /\ \E level \in Assess(r) : req'[r].level = level
  <2>1. req[r] \in Progress
    BY Typed
  <2> QED
    BY <2>1 DEF Submit, IInv, TypeOK, Progress
<1> DEFINE a == call[r].agent
<1>2. a \in Agents
  BY Typed DEF Call
<1>3. Cardinality({s \in Answered : call[s].agent = a}) <= Lookback /\ call[q].agent = a
  BY <1>1 DEF Mine
<1>4. PICK i \in 1..Len(audit) : audit[i].id = q
  BY <1>1 DEF Audited
<1>5. i \in RowsOf(a)
  BY <1>3, <1>4 DEF RowsOf
<1>6. i \in Recent(a)
  BY <1>2, <1>3, <1>5, InHistory
<1>7. Chained(r)
  BY <1>4, <1>6 DEF Chained
<1> QED
  BY <1>1, <1>7 DEF Assess

\* What was answered before a request came in is not recorded later.
LEMMA NextChainSeen == IInv /\ Heard /\ ChainSeen /\ [Next]_vars => ChainSeen'
<1> SUFFICES ASSUME IInv, Heard, ChainSeen, [Next]_vars,
                    NEW r \in Requests,
                    (call[r].tool = "http_request")',
                    req'[r].pc \in Started, ~req'[r].blind,
                    NEW q \in Mine(r)' \intersect Audited', (call[q].tool \in Reads)',
                    Cardinality(Mine(r)') <= Lookback
             PROVE  (req[r].level \in Raised(call[r].risk))'
  BY DEF ChainSeen, Mine, Started
<1>a. call[r].tool = "http_request" =>
         \/ req[r].pc \notin Started
         \/ req[r].blind
         \/ \A p \in Mine(r) \intersect Audited : call[p].tool \notin Reads
         \/ ~(Cardinality(Mine(r)) <= Lookback)
         \/ req[r].level \in Raised(call[r].risk)
  BY DEF ChainSeen, Mine, Started
<1>1. ASSUME NEW s \in Requests, OwnHistory(s),
             req[r].pc \in Started,
             req'[r].level = req[r].level, req'[r].blind = req[r].blind,
             before'[r] = before[r]
      PROVE  (req[r].level \in Raised(call[r].risk))'
  <2>1. call' = call /\ Mine(r)' = Mine(r)
    BY <1>1 DEF OwnHistory, Mine
  <2>2. q \in Requests /\ req[q].pc \in {"done", "refused"}
    BY <2>1 DEF Mine, Heard, IInv, TypeOK
  <2>3. q \in Audited
    <3>1. CASE audit' = audit
      BY <3>1 DEF Audited
    <3>2. CASE req[s].pc = "audit" /\ \E d \in Decisions :
                 audit' = Append(audit, [id |-> s, decision |-> d])
      <4>1. PICK d \in Decisions : audit' = Append(audit, [id |-> s, decision |-> d])
        BY <3>2
      <4> DEFINE x == [id |-> s, decision |-> d]
      <4>2. x \in [id : Requests, decision : Decisions] /\ x.id = s
        OBVIOUS
      <4> HIDE DEF x
      <4>3. /\ Len(audit') = Len(audit) + 1
            /\ \A i \in 1..Len(audit) : audit'[i] = audit[i]
            /\ audit'[Len(audit) + 1] = x
        BY <4>1, <4>2, Typed, AppendProperties DEF x
      <4>4. PICK i \in 1..Len(audit') : audit'[i].id = q
        BY DEF Audited
      <4>5. q # s
        BY <2>2, <3>2
      <4>6. i \in 1..Len(audit)
        BY <4>2, <4>3, <4>4, <4>5, Typed
      <4> QED
        BY <4>3, <4>4, <4>6 DEF Audited
    <3> QED
      BY <1>1, <3>1, <3>2 DEF OwnHistory
  <2> QED
    BY <1>a, <1>1, <2>1, <2>3
<1>2. ASSUME NEW s \in Requests, OwnHistory(s) PROVE (req[r].level \in Raised(call[r].risk))'
  <2>1. call' = call
    BY <1>2 DEF OwnHistory
  <2>2. CASE s = r /\ Submit(r)
    BY <2>1, <2>2, SubmitSees
  <2>3. CASE ~(s = r /\ Submit(r))
    <3>1. /\ req[r].pc \in Started /\ req'[r].level = req[r].level
          /\ req'[r].blind = req[r].blind /\ before'[r] = before[r]
      BY <1>2, <2>3 DEF OwnHistory
    <3> QED
      BY <1>1, <1>2, <3>1
  <2> QED
    BY <2>2, <2>3
<1>3. CASE Crash
  BY <1>a, <1>3, CrashEnds DEF Mine, Audited
<1>4. CASE UNCHANGED vars
  BY <1>a, <1>4 DEF vars, Mine, Audited
<1> QED
  BY <1>2, <1>3, <1>4, RequestSteps DEF Next

-----------------------------------------------------------------------------
(* Theorems                                                                *)

\* Every request, record and approval has its shape.
THEOREM TypeCorrect == Spec => []TypeOK
<1>1. IInv => TypeOK
  BY DEF IInv
<1> QED
  BY <1>1, Inductive, PTL

\* Whatever OPA answers, whatever fails and however requests overlap, process runs a
\* tool at most once for a request, and only where the policy, the automatic approval of
\* low risk or the mode of the quota let it pass; in strict mode without OPA, only by
\* the quota's, or by the automatic approval of a guarded tool.
THEOREM ToolsRunOnlyIfCleared == Spec => []RunsOnlyIfCleared
<1>1. IInv => RunsOnlyIfCleared
  BY DEF IInv, TypeOK, Config, RunOK, Gate, PolicyClears, RiskClears, OutageOK,
         RunsOnlyIfCleared
<1> QED
  BY <1>1, Inductive, PTL

\* _log_audit comes last: a record agrees with the response, the approval and the run,
\* and without a fault none is missing.
THEOREM AuditRecordsTellTruth == Spec => []AuditTellsTruth
<1>1. ASSUME IInv PROVE AuditTellsTruth
  <2>1. ASSUME NEW i \in 1..Len(audit)
        PROVE  LET r == audit[i].id IN
               /\ audit[i].decision = response[r]
               /\ r \in approvals <=> audit[i].decision = "approval_required"
               /\ ran[r] > 0 => audit[i].decision \in {"allow", "sandbox"}
               /\ \A j \in 1..Len(audit) : audit[j].id = r => j = i
    <3> DEFINE r == audit[i].id
    <3>1. r \in Requests /\ req[r].pc = "done" /\ audit[i].decision = req[r].final
      BY <1>1, Typed DEF IInv, AuditOK
    <3>2. RequestOK(r) /\ RunOK(r)
      BY <1>1, <3>1 DEF IInv
    <3>3. \A j \in 1..Len(audit) : audit[j].id = r => j = i
      BY <1>1 DEF IInv, AuditOK
    <3> QED
      BY <3>1, <3>2, <3>3 DEF RequestOK, RunOK
  <2>2. ASSUME faults = 0, NEW r \in Requests
        PROVE  /\ (ran[r] > 0 \/ r \in approvals) => r \in Audited \/ req[r].pc = "audit"
               /\ r \in Answered => r \in Audited \/ req[r].pc = "refused"
    <3>1. RequestOK(r) /\ RunOK(r) /\ req[r].pc \in
             {"new", "policy", "approval", "execute", "audit", "done", "lost", "refused"}
      BY <1>1, Typed DEF IInv, Progress
    <3>2. req[r].pc = "done" => r \in Audited
      BY <2>2, <3>1 DEF RequestOK, Audited
    <3>3. req[r].pc # "lost"
      BY <2>2, <3>1 DEF RequestOK
    <3> QED
      BY <3>1, <3>2, <3>3 DEF RequestOK, Answered
  <2> QED
    BY <2>1, <2>2 DEF AuditTellsTruth
<1> QED
  BY <1>1, Inductive, PTL

\* _recent_agent_tools counts the agent's own records: what an agent was given before a
\* call is among the latest Lookback of them, however its requests and those of others
\* overlap, and the call is raised.
THEOREM ReadsAreSeen == Spec => []ChainSeen
<1>1. Init => Heard /\ ChainSeen
  BY FS_EmptySet, InitHeard
<1>2. IInv /\ Heard /\ ChainSeen /\ [Next]_vars => Heard' /\ ChainSeen'
  BY NextHeard, NextChainSeen
<1> QED
  BY <1>1, <1>2, Inductive, PTL DEF Spec

-----------------------------------------------------------------------------
(* The abstract gate                                                       *)

\* A step that does nothing for a request, answers none and loses none is no step of
\* the gate.
LEMMA GateStutters ==
    ASSUME UNCHANGED <<audit, approvals, response, ran, faults>>,
           \A r \in Requests : req'[r].pc = "lost" <=> req[r].pc = "lost"
    PROVE  UNCHANGED Pipeline!vars
<1>1. \A r \in Requests : Effect(r)' = Effect(r) /\ Given(r)' = Given(r)
  BY DEF Effect, Given
<1> QED
  BY <1>1 DEF Pipeline!vars

\* What a request may still do, and what its answer will report.
LEMMA GateOpen ==
    ASSUME IInv, NEW r \in Requests
    PROVE  /\ req[r].pc \in {"new", "policy", "approval", "execute"} =>
                 Effect(r) = "none" /\ Given(r) = "none" /\ ran[r] = 0
           /\ req[r].pc = "audit" =>
                 /\ Given(r) = "none"
                 /\ req[r].final \in Decisions /\ req[r].final \in Pipeline!Reports(Effect(r))
<1>1. RequestOK(r) /\ RunOK(r) /\ req[r].final \in Decisions
  BY Typed DEF IInv, Progress
<1>2. Effect(r) \in {"ran", "held", "none"}
  BY DEF Effect
<1>3. req[r].pc = "audit" =>
         /\ Effect(r) = "ran" => req[r].final \in {"allow", "sandbox"}
         /\ Effect(r) = "held" => req[r].final = "approval_required"
         /\ Effect(r) = "none" => req[r].final # "approval_required"
  BY <1>1 DEF RequestOK, RunOK, Effect
<1> QED
  BY <1>1, <1>2, <1>3 DEF RequestOK, Effect, Given, Pipeline!Reports

LEMMA RefusePasses ==
    ASSUME IInv, NEW r \in Requests, Refuse(r)
    PROVE  Pipeline!Refuse(r)
<1>1. req[r].pc = "new" /\ Effect(r) = "none" /\ Given(r) = "none"
  BY GateOpen DEF Refuse
<1>2. /\ Given(r)' = "deny"
      /\ \A q \in Requests \ {r} : Given(q)' = Given(q)
      /\ \A q \in Requests : Effect(q)' = Effect(q)
  BY <1>1 DEF Refuse, Given, Effect, IInv, TypeOK, Progress
<1> QED
  BY <1>1, <1>2 DEF Refuse, Pipeline!Refuse, Pipeline!Open

\* Whether the history could be read or not, a request that comes in is not yet seen.
LEMMA SubmitPasses ==
    ASSUME IInv, NEW r \in Requests, Submit(r) \/ SubmitBlind(r)
    PROVE  UNCHANGED Pipeline!vars \/ Pipeline!Fail({})
<1>1. /\ \A q \in Requests : req'[q].pc = "lost" <=> req[q].pc = "lost"
      /\ UNCHANGED <<audit, approvals, response, ran>>
  <2>1. CASE Submit(r)
    <3>1. PICK level \in Assess(r) :
             req' = [req EXCEPT ![r].pc = "policy", ![r].level = level]
      BY <2>1 DEF Submit
    <3> QED
      BY <2>1, <3>1, Typed DEF Submit, Progress, IInv, TypeOK
  <2>2. CASE SubmitBlind(r)
    BY <2>2, Typed DEF SubmitBlind, Progress, IInv, TypeOK
  <2> QED
    BY <2>1, <2>2
<1>2. \A q \in Requests : Effect(q)' = Effect(q) /\ Given(q)' = Given(q)
  BY <1>1 DEF Effect, Given
<1>3. CASE Submit(r)
  BY <1>1, <1>3, GateStutters DEF Submit
<1>4. CASE SubmitBlind(r)
  <2>1. faults' > 0
    BY <1>4, Typed DEF SubmitBlind
  <2> QED
    BY <1>1, <1>2, <2>1 DEF Pipeline!Fail
<1> QED
  BY <1>3, <1>4

LEMMA EvaluatePasses ==
    ASSUME IInv, NEW r \in Requests, EvaluateOPA(r) \/ EvaluateOutage(r) \/ EvaluateLocal(r)
    PROVE  UNCHANGED Pipeline!vars
<1>1. /\ req[r].pc = "policy"
      /\ UNCHANGED <<config, call, audit, approvals, response, ran, before, faults>>
      /\ \E policy \in Decisions, outage \in BOOLEAN : Decide(r, policy, outage)
  BY SimpleDecides, OutageDecides DEF EvaluateOPA, EvaluateOutage, EvaluateLocal, IInv
<1>2. PICK policy \in Decisions, outage \in BOOLEAN,
           limited \in BOOLEAN, final \in Decisions :
         Decided(r, policy, outage, limited, final)
  BY <1>1, DecideSteps DEF IInv
<1>3. Continue(final) # "lost"
  BY DEF Continue
<1>4. req'[r].pc = Continue(final) /\ \A q \in Requests \ {r} : req'[q] = req[q]
  BY <1>2, Typed DEF Decided, IInv, TypeOK, Progress
<1> QED
  BY <1>1, <1>3, <1>4, GateStutters

LEMMA OpenApprovalPasses ==
    ASSUME IInv, NEW r \in Requests, OpenApproval(r)
    PROVE  Pipeline!Act(r, "held")
<1>1. req[r].pc = "approval" /\ Effect(r) = "none" /\ Given(r) = "none" /\ ran[r] = 0
  BY GateOpen DEF OpenApproval
<1>2. /\ Effect(r)' = "held"
      /\ \A q \in Requests \ {r} : Effect(q)' = Effect(q)
      /\ \A q \in Requests : Given(q)' = Given(q)
  BY <1>1, Typed DEF OpenApproval, Given, Effect, IInv, TypeOK, Progress
<1> QED
  BY <1>1, <1>2 DEF OpenApproval, Pipeline!Act, Pipeline!Open

LEMMA ExecutePasses ==
    ASSUME IInv, NEW r \in Requests, Execute(r)
    PROVE  UNCHANGED Pipeline!vars \/ Pipeline!Act(r, "ran")
<1>1. req[r].pc = "execute" /\ Effect(r) = "none" /\ Given(r) = "none" /\ ran[r] = 0
  BY GateOpen DEF Execute
<1>2. \A q \in Requests : req'[q].pc = "lost" <=> req[q].pc = "lost"
  BY <1>1, Typed DEF Execute, IInv, TypeOK, Progress
<1>3. CASE ran' = ran
  BY <1>2, <1>3, GateStutters DEF Execute
<1>4. CASE ran' = [ran EXCEPT ![r] = @ + 1]
  <2>1. /\ Effect(r)' = "ran"
        /\ \A q \in Requests \ {r} : Effect(q)' = Effect(q)
        /\ \A q \in Requests : Given(q)' = Given(q)
    BY <1>1, <1>2, <1>4 DEF Execute, Given, Effect, IInv, TypeOK
  <2> QED
    BY <1>1, <2>1 DEF Execute, Pipeline!Act, Pipeline!Open
<1> QED
  BY <1>3, <1>4 DEF Execute

LEMMA AuditPasses ==
    ASSUME IInv, NEW r \in Requests, Audit(r) \/ AuditFails(r)
    PROVE  \E decision \in Decisions : \/ Pipeline!Answer(r, decision)
                                       \/ Pipeline!AnswerUnrecorded(r, decision)
<1> DEFINE decision == req[r].final
<1>1. /\ Given(r) = "none" /\ decision \in Decisions
      /\ decision \in Pipeline!Reports(Effect(r))
  BY GateOpen DEF Audit, AuditFails
<1>2. /\ Given(r)' = decision
      /\ \A q \in Requests \ {r} : Given(q)' = Given(q)
      /\ \A q \in Requests : Effect(q)' = Effect(q)
  BY Typed DEF Audit, AuditFails, Given, Effect, IInv, TypeOK, Progress
<1>3. CASE Audit(r)
  BY <1>1, <1>2, <1>3 DEF Audit, Pipeline!Answer
<1>4. CASE AuditFails(r)
  <2>1. faults' > 0
    BY <1>4, Typed DEF AuditFails
  <2> QED
    BY <1>1, <1>2, <1>4, <2>1 DEF AuditFails, Pipeline!AnswerUnrecorded
<1> QED
  BY <1>3, <1>4

\* An error, or the end of the process, loses requests that have no answer.
LEMMA FailurePasses ==
    ASSUME IInv, Crash \/ \E r \in Requests : Raises(r)
    PROVE  \E lost \in SUBSET Requests : Pipeline!Fail(lost)
<1> DEFINE lost == {q \in Requests : req[q].pc # "lost" /\ req'[q].pc = "lost"}
<1>1. /\ UNCHANGED <<audit, approvals, response, ran>> /\ faults' > 0
      /\ \A q \in Requests :
            \/ req'[q] = req[q]
            \/ req[q].pc \in {"policy", "approval", "execute", "audit"} /\ req'[q].pc = "lost"
  <2>1. CASE Crash
    BY <2>1, Typed DEF Crash, InFlight, Progress
  <2>2. CASE \E r \in Requests : Raises(r)
    BY <2>2, Typed DEF Raises, Progress, IInv, TypeOK
  <2> QED
    BY <2>1, <2>2
<1>2. \A q \in lost : Given(q) = "none"
  BY <1>1, GateOpen
<1>3. \A q \in Requests : /\ Effect(q)' = Effect(q)
                          /\ Given(q)' = IF q \in lost THEN "lost" ELSE Given(q)
  BY <1>1 DEF Effect, Given
<1>4. Pipeline!Fail(lost)
  BY <1>1, <1>2, <1>3 DEF Pipeline!Fail
<1> QED
  BY <1>4

\* However requests interleave, whatever OPA answers and whatever fails, process is an
\* ActionGate: it does one thing for a request, then answers and records what it did.
THEOREM PipelineIsAGate == Spec => ImplementsGate
<1>1. Init => Pipeline!Init
  <2> SUFFICES ASSUME Init PROVE Pipeline!Init
    OBVIOUS
  <2>1. \A r \in Requests : Effect(r) = "none" /\ Given(r) = "none"
    BY DEF Init, New, Effect, Given
  <2> QED
    BY <2>1 DEF Init, Pipeline!Init
<1>2. IInv /\ [Next]_vars => [Pipeline!Next]_Pipeline!vars
  <2> SUFFICES ASSUME IInv, [Next]_vars PROVE [Pipeline!Next]_Pipeline!vars
    OBVIOUS
  <2>1. ASSUME NEW r \in Requests, Refuse(r) PROVE Pipeline!Next
    BY <2>1, RefusePasses DEF Pipeline!Next
  <2>2. ASSUME NEW r \in Requests, Submit(r) \/ SubmitBlind(r)
        PROVE  UNCHANGED Pipeline!vars \/ Pipeline!Next
    BY <2>2, SubmitPasses DEF Pipeline!Next
  <2>3. ASSUME NEW r \in Requests, EvaluateOPA(r) \/ EvaluateOutage(r) \/ EvaluateLocal(r)
        PROVE  UNCHANGED Pipeline!vars
    BY <2>3, EvaluatePasses
  <2>4. ASSUME NEW r \in Requests, OpenApproval(r) \/ Execute(r)
        PROVE  UNCHANGED Pipeline!vars \/ Pipeline!Next
    BY <2>4, OpenApprovalPasses, ExecutePasses DEF Pipeline!Next
  <2>5. ASSUME NEW r \in Requests, Audit(r) \/ AuditFails(r) PROVE Pipeline!Next
    BY <2>5, AuditPasses DEF Pipeline!Next
  <2>6. ASSUME Crash \/ \E r \in Requests : Raises(r) PROVE Pipeline!Next
    BY <2>6, FailurePasses DEF Pipeline!Next
  <2>7. CASE UNCHANGED vars
    BY <2>7, GateStutters DEF vars
  <2> QED
    BY <2>1, <2>2, <2>3, <2>4, <2>5, <2>6, <2>7 DEF Next
<1> QED
  BY <1>1, <1>2, Inductive, PTL DEF Spec, ImplementsGate, Pipeline!Spec
=============================================================================
