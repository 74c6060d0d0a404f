----------------------------- MODULE Approvals ------------------------------
(***************************************************************************)
(* The approval workflow: ApprovalService.create_request and .decide       *)
(* (approval.py), the approval_requests and approval_webhook_outbox tables *)
(* (database.py), and ConstrailKernel.replay_approved (kernel_v2.py).      *)
(*                                                                         *)
(* A decider is an operating-system process that runs create_request or    *)
(* decide: the API server, whose handlers do not await inside either       *)
(* method, and each `constrail approval-approve/-deny` command.  Processes *)
(* share only the database, so they interleave at every session's commit   *)
(* and query.  A replayer is one call of replay_approved: an API handler,  *)
(* which awaits the policy engine and the tool, or an `approval-replay`    *)
(* command.                                                                *)
(***************************************************************************)
EXTENDS Naturals, Sequences

CONSTANTS
    Approvals,     \* approval ids that may come to exist
    Approvers,     \* the approver_id values a decision carries
    Deciders,      \* processes running ApprovalService
    Server,        \* the decider that also runs the kernel: the API process
    Replayers,     \* concurrent calls of replay_approved
    Lifetime,      \* settings.approval_expire_minutes; 0: never expires
    NULL,          \* a NULL column
    MaxTime,       \* bound on the clock
    MaxDecisions,  \* bound on the decisions started per approval
    MaxReplays,    \* bound on the executions after which none is started
    MaxFaults      \* bound on crashes and failed audit writes

ASSUME ApprovalsAssumption ==
    /\ Server \in Deciders
    /\ Lifetime \in Nat
    /\ NULL \notin Approvals
    /\ NULL \notin Approvers
    /\ NULL \notin Nat
    /\ NULL \notin [id : Approvals, approver : Approvers \union {NULL}]

VARIABLES
    row,       \* row[a]: the columns of a's approval_requests row
    outbox,    \* outbox[a]: the events enqueued for a, oldest first
    audit,     \* the replay records written to audit_records
    dec,       \* dec[p]: where decider p is, with what its session loaded
    run,       \* run[r]: where replay r is, with what it read of the row
    clock,     \* datetime.utcnow()
    faults,    \* crashes and failed audit writes so far
    decided,   \* history: decided[a], the decisions committed on a
    executed   \* history: the executions of approved requests

vars == <<row, outbox, audit, dec, run, clock, faults, decided, executed>>

-----------------------------------------------------------------------------
(* State                                                                   *)

Verdicts == {"approved", "denied"}

\* _status_for: approved = None, True, False; "absent" where there is no row.
Statuses == {"absent", "pending"} \union Verdicts

Row == [status   : Statuses,
        approver : Approvers \union {NULL},
        expires  : Nat \union {NULL}]

NoRow == [status |-> "absent", approver |-> NULL, expires |-> NULL]

\* What the session of a decider holds: seen is the row as it last loaded it.
Session == [pc       : {"idle", "read", "committed", "refreshed"},
            id       : Approvals \union {NULL},
            verdict  : {"created"} \union Verdicts,
            approver : Approvers \union {NULL},
            seen     : Row]

Idle == [pc |-> "idle", id |-> NULL, verdict |-> "created",
         approver |-> NULL, seen |-> NoRow]

\* rank is history: how many decisions were committed when the row was read.
Replay == [pc       : {"idle", "checked", "executed"},
           id       : Approvals \union {NULL},
           approver : Approvers \union {NULL},
           rank     : Nat,
           at       : Nat]

Resting == [pc |-> "idle", id |-> NULL, approver |-> NULL, rank |-> 0, at |-> 0]

Event    == [event : {"created"} \union Verdicts, status : Statuses,
             approver : Approvers \union {NULL}]
Decision == [verdict : Verdicts, approver : Approvers]
Effect   == [id : Approvals, approver : Approvers \union {NULL}, rank : Nat, at : Nat]
Record   == [id : Approvals, approver : Approvers \union {NULL}]

TypeOK ==
    /\ row \in [Approvals -> Row]
    /\ outbox \in [Approvals -> Seq(Event)]
    /\ audit \in Seq(Record)
    /\ dec \in [Deciders -> Session]
    /\ run \in [Replayers -> Replay]
    /\ clock \in Nat
    /\ faults \in Nat
    /\ decided \in [Approvals -> Seq(Decision)]
    /\ executed \in Seq(Effect)

Init ==
    /\ row = [a \in Approvals |-> NoRow]
    /\ outbox = [a \in Approvals |-> <<>>]
    /\ audit = <<>>
    /\ dec = [p \in Deciders |-> Idle]
    /\ run = [r \in Replayers |-> Resting]
    /\ clock = 0
    /\ faults = 0
    /\ decided = [a \in Approvals |-> <<>>]
    /\ executed = <<>>

-----------------------------------------------------------------------------
(* Creating a request and deciding on it                                   *)

\* Plausible bugs, which the runs must notice: the sign of the timedelta; a
\* decide that keeps the first reviewer; one that keeps the first verdict.
ExpiresAtNegated == IF Lifetime > 0 THEN clock - 2 * Lifetime ELSE NULL

FlushedFirstReviewer(stored, s) ==
    [stored EXCEPT !.status   = s.verdict,
                   !.approver = IF @ = NULL THEN s.approver ELSE @]

FlushedFirstVerdict(stored, s) ==
    [stored EXCEPT !.status   = IF @ = "pending" THEN s.verdict ELSE @,
                   !.approver = s.approver]

ExpiresAt == IF Lifetime > 0 THEN clock + Lifetime ELSE NULL

\* The UPDATE a session flushes names the columns whose new value differs from
\* the value that session loaded, and no others.
Flushed(stored, s) ==
    [stored EXCEPT !.status   = IF s.verdict = s.seen.status THEN @ ELSE s.verdict,
                   !.approver = IF s.approver = s.seen.approver THEN @ ELSE s.approver]

\* create_request, up to the commit of the new row.  The kernel makes a request
\* id of its own for every call, so an existing row is never found.
CreateCommit(a) ==
    /\ dec[Server].pc = "idle"
    /\ row[a].status = "absent"
    /\ row' = [row EXCEPT ![a] = [status |-> "pending", approver |-> NULL,
                                  expires |-> ExpiresAt]]
    /\ dec' = [dec EXCEPT ![Server] =
                 [Idle EXCEPT !.pc = "committed", !.id = a, !.seen = row'[a]]]
    /\ UNCHANGED <<outbox, audit, run, clock, faults, decided, executed>>

\* decide, up to the assignments: the row is loaded.  Neither an earlier
\* decision nor the expiry is looked at.
DecideRead(p, a, verdict, approver) ==
    /\ dec[p].pc = "idle"
    /\ row[a].status # "absent"
    /\ Len(decided[a]) < MaxDecisions
    /\ dec' = [dec EXCEPT ![p] = [pc |-> "read", id |-> a, verdict |-> verdict,
                                  approver |-> approver, seen |-> row[a]]]
    /\ UNCHANGED <<row, outbox, audit, run, clock, faults, decided, executed>>

\* db.commit()
DecideCommit(p) ==
    LET s == dec[p] IN
    /\ s.pc = "read"
    /\ row' = [row EXCEPT ![s.id] = Flushed(@, s)]
    /\ decided' = [decided EXCEPT ![s.id] =
                     Append(@, [verdict |-> s.verdict, approver |-> s.approver])]
    /\ dec' = [dec EXCEPT ![p].pc = "committed"]
    /\ UNCHANGED <<outbox, audit, run, clock, faults, executed>>

\* A bug: the payload is built from the row as it was before the commit.
RefreshSkipped(p) ==
    /\ dec[p].pc = "committed"
    /\ dec' = [dec EXCEPT ![p].pc = "refreshed"]
    /\ UNCHANGED <<row, outbox, audit, run, clock, faults, decided, executed>>

\* db.refresh(approval), in both methods: the payload is built from this load.
Refresh(p) ==
    /\ dec[p].pc = "committed"
    /\ dec' = [dec EXCEPT ![p].pc = "refreshed", ![p].seen = row[dec[p].id]]
    /\ UNCHANGED <<row, outbox, audit, run, clock, faults, decided, executed>>

\* _build_event_payload and _enqueue_webhook, in a session and commit of their
\* own.  The delivery that follows is the subject of WebhookDelivery.
Enqueue(p) ==
    LET s == dec[p] IN
    /\ s.pc = "refreshed"
    /\ outbox' = [outbox EXCEPT ![s.id] =
                    Append(@, [event |-> s.verdict, status |-> s.seen.status,
                               approver |-> s.seen.approver])]
    /\ dec' = [dec EXCEPT ![p] = Idle]
    /\ UNCHANGED <<row, audit, run, clock, faults, decided, executed>>

\* The process dies between two commits; what was committed stays.
DeciderCrash(p) ==
    /\ dec[p].pc # "idle"
    /\ faults < MaxFaults
    /\ faults' = faults + 1
    /\ dec' = [dec EXCEPT ![p] = Idle]
    /\ UNCHANGED <<row, outbox, audit, run, clock, decided, executed>>

-----------------------------------------------------------------------------
(* Replaying an approved request                                           *)

\* A bug: refusing only what was denied.
ReplayableUnlessDenied(r) ==
    /\ r.status \notin {"absent", "denied"}
    /\ ~(r.expires # NULL /\ r.expires <= clock)

\* replay_approved raises ValueError unless this holds.
Replayable(r) ==
    /\ r.status = "approved"
    /\ ~(r.expires # NULL /\ r.expires <= clock)

\* The query and the checks.  What follows uses this copy of the row.
ReplayCheck(r, a) ==
    /\ run[r].pc = "idle"
    /\ Len(executed) < MaxReplays
    /\ Replayable(row[a])
    /\ run' = [run EXCEPT ![r] = [pc |-> "checked", id |-> a,
                                  approver |-> row[a].approver,
                                  rank |-> Len(decided[a]), at |-> clock]]
    /\ UNCHANGED <<row, outbox, audit, dec, clock, faults, decided, executed>>

\* After the await of policy_engine.evaluate, whose answer is not used: the
\* tool runs under a forced decision.  The approval is not consumed.
ReplayExecute(r) ==
    /\ run[r].pc = "checked"
    /\ executed' = Append(executed, [id |-> run[r].id, approver |-> run[r].approver,
                                     rank |-> run[r].rank, at |-> run[r].at])
    /\ run' = [run EXCEPT ![r].pc = "executed"]
    /\ UNCHANGED <<row, outbox, audit, dec, clock, faults, decided>>

\* A bug: no record of the execution.
ReplayUnaudited(r) ==
    /\ run[r].pc = "executed"
    /\ run' = [run EXCEPT ![r] = Resting]
    /\ UNCHANGED <<row, outbox, audit, dec, clock, faults, decided, executed>>

\* After the await of the tool: _log_audit commits a record naming the approver.
ReplayAudit(r) ==
    /\ run[r].pc = "executed"
    /\ audit' = Append(audit, [id |-> run[r].id, approver |-> run[r].approver])
    /\ run' = [run EXCEPT ![r] = Resting]
    /\ UNCHANGED <<row, outbox, dec, clock, faults, decided, executed>>

\* _log_audit catches every database error, logs it and returns.
ReplayAuditFails(r) ==
    /\ run[r].pc = "executed"
    /\ faults < MaxFaults
    /\ faults' = faults + 1
    /\ run' = [run EXCEPT ![r] = Resting]
    /\ UNCHANGED <<row, outbox, audit, dec, clock, decided, executed>>

\* The process dies at one of the awaits, or record_execution raises.
ReplayCrash(r) ==
    /\ run[r].pc # "idle"
    /\ faults < MaxFaults
    /\ faults' = faults + 1
    /\ run' = [run EXCEPT ![r] = Resting]
    /\ UNCHANGED <<row, outbox, audit, dec, clock, decided, executed>>

Tick ==
    /\ clock < MaxTime
    /\ clock' = clock + 1
    /\ UNCHANGED <<row, outbox, audit, dec, run, faults, decided, executed>>

Next ==
    \/ \E a \in Approvals : CreateCommit(a)
    \/ \E p \in Deciders :
          \/ \E a \in Approvals, v \in Verdicts, u \in Approvers : DecideRead(p, a, v, u)
          \/ DecideCommit(p)
          \/ Refresh(p)
          \/ Enqueue(p)
          \/ DeciderCrash(p)
    \/ \E r \in Replayers :
          \/ \E a \in Approvals : ReplayCheck(r, a)
          \/ ReplayExecute(r)
          \/ ReplayAudit(r)
          \/ ReplayAuditFails(r)
          \/ ReplayCrash(r)
    \/ Tick

Spec == Init /\ [][Next]_vars

-----------------------------------------------------------------------------
(* Properties                                                              *)

Last(s) == s[Len(s)]

Unexpired(x) == row[x.id].expires = NULL \/ x.at < row[x.id].expires

\* Nothing runs on an approval that nobody approved, nor on one that had expired
\* when it was looked at: every execution by replay_approved follows a committed
\* approving decision on its own request.
ExecutedOnlyIfApproved ==
    \A n \in 1..Len(executed) :
        LET x == executed[n] IN
        /\ \E i \in 1..x.rank :
              i <= Len(decided[x.id]) /\ decided[x.id][i].verdict = "approved"
        /\ Unexpired(x)

\* A reversal holds: what replay_approved runs was approved by the latest decision
\* committed when it looked, and it runs in the name of that decision's reviewer.
ExecutedUnderLatestDecision ==
    \A n \in 1..Len(executed) :
        LET x == executed[n] IN
        /\ x.rank \in 1..Len(decided[x.id])
        /\ decided[x.id][x.rank] = [verdict |-> "approved", approver |-> x.approver]

\* decide's promise: the row carries the verdict and the reviewer of the decision
\* committed last, both from the same one.
LastDecisionInForce ==
    \A a \in Approvals :
        IF decided[a] = <<>>
        THEN row[a].status \in {"absent", "pending"} /\ row[a].approver = NULL
        ELSE /\ row[a].status = Last(decided[a]).verdict
             /\ row[a].approver = Last(decided[a]).approver

Announcing(a) == {p \in Deciders : dec[p].id = a /\ dec[p].pc \in {"committed", "refreshed"}}

Announcement(d) == [event |-> d.verdict, status |-> d.verdict, approver |-> d.approver]

\* The events an undisturbed service owes for a.
Owed(a) ==
    IF row[a].status = "absent" THEN <<>>
    ELSE <<[event |-> "created", status |-> "pending", approver |-> NULL]>>
         \o [i \in 1..Len(decided[a]) |-> Announcement(decided[a][i])]

\* The outbox tells each decision once, in the order they were made, with the
\* verdict and reviewer it had; only a process that died between its commit and
\* the enqueue leaves one out.
AnnouncedInOrder ==
    \A a \in Approvals :
        /\ Len(Owed(a)) <= Len(outbox[a]) + faults + (IF Announcing(a) = {} THEN 0 ELSE 1)
        /\ \A i \in 1..Len(outbox[a]) :
              \E j \in i..Len(Owed(a)) : outbox[a][i] = Owed(a)[j]
        /\ (faults = 0 /\ Announcing(a) = {}) => outbox[a] = Owed(a)

\* An execution leaves exactly one audit record, naming the approval and the
\* approver it ran under; each one missing is due to a crash or a failed write.
ExecutionsAccounted ==
    LET unrecorded == {r \in Replayers : run[r].pc = "executed"} IN
    /\ \A n \in 1..Len(audit) :
          \E m \in 1..Len(executed) :
              executed[m].id = audit[n].id /\ executed[m].approver = audit[n].approver
    /\ Len(audit) <= Len(executed)
    /\ (faults = 0 /\ unrecorded = {}) => Len(audit) = Len(executed)
    /\ Len(executed) > Len(audit) + faults => unrecorded # {}

-----------------------------------------------------------------------------
(* With one decider the service implements the atomic register.            *)

ruling == [a \in Approvals |-> [status |-> row[a].status, approver |-> row[a].approver]]

permits == [r \in Replayers |->
              IF run[r].pc = "checked"
              THEN [id |-> run[r].id, approver |-> run[r].approver]
              ELSE NULL]

effects == [n \in 1..Len(executed) |->
              [id |-> executed[n].id, approver |-> executed[n].approver]]

Register ==
    INSTANCE ApprovalRegister
    WITH ruling <- ruling, decided <- decided, permits <- permits, effects <- effects

\* Every step of the service is one step of ApprovalRegister, or none: a decision
\* writes verdict and reviewer together, and an effect spends one permit.
ImplementsRegister == Register!Spec
=============================================================================
