-------------------------- MODULE WebhookDelivery ---------------------------
(***************************************************************************)
(* Telling the outside about approvals: ApprovalService._enqueue_webhook,  *)
(* ._emit_webhook, ._record_webhook_delivery, .retry_webhook and           *)
(* .drain_outbox (approval.py), with approval_webhook_url configured.      *)
(*                                                                         *)
(* Every event of an approval goes out twice over: it is stored in the     *)
(* outbox, which a drainer empties later, and it is sent at once.  The     *)
(* first path keeps its state in the outbox row, the second in the         *)
(* webhook_delivery_* columns of the approval.  Emitters (the API server,  *)
(* `approval-approve`, `approval-retry-webhook`) and drainers              *)
(* (`approval-worker-serve`, `approval-drain-outbox`) are processes; they  *)
(* interleave at every query, commit and HTTP request.                     *)
(***************************************************************************)
EXTENDS Naturals, Sequences, FiniteSets

CONSTANTS
    Approvals,     \* approval ids
    Emitters,      \* processes that announce events
    Drainers,      \* processes that only drain the outbox
    MaxAttempts,   \* settings.approval_webhook_max_attempts
    AutoDrains,    \* the values approval_outbox_auto_drain may be set to
    Limit,         \* the limit given to drain_outbox
    Rejected,      \* events, by number, that the receiver never accepts
    MaxEvents,     \* bound on the events announced
    MaxOutages,    \* bound on the outages of the receiver
    MaxFaults      \* bound on crashes and database errors

ASSUME WebhookAssumption ==
    /\ Limit \in Nat \ {0}
    /\ MaxAttempts \in Nat
    /\ AutoDrains \subseteq BOOLEAN
    /\ Emitters \intersect Drainers = {}

VARIABLES
    autoDrain, \* settings.approval_outbox_auto_drain
    outbox,    \* the rows of approval_webhook_outbox, oldest first
    hook,      \* hook[a]: webhook_delivery_status and _attempts of approval a
    proc,      \* proc[p]: where process p is, with what it has read
    up,        \* the receiver answers within the timeout
    outages,   \* outages so far
    faults,    \* crashes and database errors so far
    accepted,  \* history: events, by number, the receiver has taken
    direct     \* history: direct[a], the requests made for a when emitting

vars == <<autoDrain, outbox, hook, proc, up, outages, faults, accepted, direct>>

-----------------------------------------------------------------------------
Procs == Emitters \union Drainers

Statuses == {"pending", "failed", "delivered", "exhausted"}

Hook == [status : Statuses, attempts : Nat]
Row  == [about : Approvals, retry : BOOLEAN, status : Statuses]

\* event: the row being announced or delivered; attempts: as _emit_webhook read
\* them; answer: how the request ended; seen: what the session that will record
\* it has loaded; batch: the rows still to deliver.
Process == [pc       : {"idle", "enqueued", "checked", "answered", "recording", "emitted",
                        "draining", "loaded", "posted"},
            event    : Nat,
            attempts : Nat,
            answer   : BOOLEAN,
            seen     : Hook,
            batch    : SUBSET Nat]

Fresh == [status |-> "pending", attempts |-> 0]

Idle == [pc |-> "idle", event |-> 0, attempts |-> 0, answer |-> FALSE,
         seen |-> Fresh, batch |-> {}]

TypeOK ==
    /\ autoDrain \in BOOLEAN
    /\ outbox \in Seq(Row)
    /\ hook \in [Approvals -> Hook]
    /\ proc \in [Procs -> Process]
    /\ up \in BOOLEAN
    /\ outages \in Nat
    /\ faults \in Nat
    /\ accepted \subseteq 1..Len(outbox)
    /\ direct \in [Approvals -> Nat]

Init ==
    /\ autoDrain \in AutoDrains
    /\ outbox = <<>>
    /\ hook = [a \in Approvals |-> Fresh]
    /\ proc = [p \in Procs |-> Idle]
    /\ up = TRUE
    /\ outages = 0
    /\ faults = 0
    /\ accepted = {}
    /\ direct = [a \in Approvals |-> 0]

-----------------------------------------------------------------------------
(* The receiver                                                            *)

\* How urlopen may end for event i.  Without an answer in time it raises, though
\* the receiver may have taken the event.
Outcome(i, answer, taken) ==
    IF up THEN answer = (i \notin Rejected) /\ taken = answer
    ELSE ~answer /\ (taken => i \notin Rejected)

Take(i, taken) == accepted' = IF taken THEN accepted \union {i} ELSE accepted

OutageBegins ==
    /\ up
    /\ outages < MaxOutages
    /\ up' = FALSE
    /\ outages' = outages + 1
    /\ UNCHANGED <<autoDrain, outbox, hook, proc, faults, accepted, direct>>

OutageEnds ==
    /\ ~up
    /\ up' = TRUE
    /\ UNCHANGED <<autoDrain, outbox, hook, proc, outages, faults, accepted, direct>>

-----------------------------------------------------------------------------
(* Announcing an event: _enqueue_webhook, then _emit_webhook               *)

\* _enqueue_webhook commits the row.  retry_webhook does the same as the others,
\* with allow_exhausted.
Announce(p, a, retry) ==
    /\ proc[p].pc = "idle"
    /\ Len(outbox) < MaxEvents
    /\ outbox' = Append(outbox, [about |-> a, retry |-> retry, status |-> "pending"])
    /\ proc' = [proc EXCEPT ![p] = [Idle EXCEPT !.pc = "enqueued", !.event = Len(outbox) + 1]]
    /\ UNCHANGED <<autoDrain, hook, up, outages, faults, accepted, direct>>

\* get_request: the attempts made are read.
EmitCheck(p) ==
    /\ proc[p].pc = "enqueued"
    /\ proc' = [proc EXCEPT ![p].pc = "checked",
                            ![p].attempts = hook[outbox[proc[p].event].about].attempts]
    /\ UNCHANGED <<autoDrain, outbox, hook, up, outages, faults, accepted, direct>>

\* Bug: one attempt more than the maximum.
SpentLate(p) == proc[p].attempts > MaxAttempts /\ ~outbox[proc[p].event].retry

\* attempts >= approval_webhook_max_attempts and not allow_exhausted
Spent(p) == proc[p].attempts >= MaxAttempts /\ ~outbox[proc[p].event].retry

\* Bug: the caller returns as well, and does not drain.
EmitExhaustedReturns(p) ==
    /\ proc[p].pc = "checked"
    /\ Spent(p)
    /\ hook' = [hook EXCEPT ![outbox[proc[p].event].about].status = "exhausted"]
    /\ proc' = [proc EXCEPT ![p] = Idle]
    /\ UNCHANGED <<autoDrain, outbox, up, outages, faults, accepted, direct>>

EmitExhausted(p) ==
    /\ proc[p].pc = "checked"
    /\ Spent(p)
    /\ hook' = [hook EXCEPT ![outbox[proc[p].event].about].status = "exhausted"]
    /\ proc' = [proc EXCEPT ![p].pc = "emitted"]
    /\ UNCHANGED <<autoDrain, outbox, up, outages, faults, accepted, direct>>

EmitSend(p) ==
    LET i == proc[p].event IN
    /\ proc[p].pc = "checked"
    /\ ~Spent(p)
    /\ direct' = [direct EXCEPT ![outbox[i].about] = @ + 1]
    /\ \E answer, taken \in BOOLEAN :
          /\ Outcome(i, answer, taken)
          /\ Take(i, taken)
          /\ proc' = [proc EXCEPT ![p].pc = "answered", ![p].answer = answer]
    /\ UNCHANGED <<autoDrain, outbox, hook, up, outages, faults>>

\* Recording a success raises inside the try, and a failure is recorded instead.
RecordRaises(p) ==
    /\ proc[p].pc = "answered"
    /\ proc[p].answer
    /\ faults < MaxFaults
    /\ faults' = faults + 1
    /\ proc' = [proc EXCEPT ![p].answer = FALSE]
    /\ UNCHANGED <<autoDrain, outbox, hook, up, outages, accepted, direct>>

\* Bugs: a status nobody lists; an answer that is not looked at.
StatusAfterUnlisted(p) == IF proc[p].answer THEN "delivered" ELSE "error"

StatusAfterUnasked(p) ==
    IF outbox[proc[p].event].retry \/ proc[p].attempts + 1 < MaxAttempts
    THEN "delivered"
    ELSE "exhausted"

\* The status is chosen from the attempts EmitCheck read.
StatusAfter(p) ==
    IF proc[p].answer THEN "delivered"
    ELSE IF outbox[proc[p].event].retry \/ proc[p].attempts + 1 < MaxAttempts
    THEN "failed"
    ELSE "exhausted"

\* What a session flushes of a column: nothing where the value it loaded is kept.
Flushed(stored, seen, new) == IF new = seen THEN stored ELSE new

\* _record_webhook_delivery loads the approval.
RecordLoad(p) ==
    /\ proc[p].pc = "answered"
    /\ proc' = [proc EXCEPT ![p].pc = "recording",
                            ![p].seen = hook[outbox[proc[p].event].about]]
    /\ UNCHANGED <<autoDrain, outbox, hook, up, outages, faults, accepted, direct>>

\* ... and commits.
RecordCommit(p) ==
    /\ proc[p].pc = "recording"
    /\ hook' = [hook EXCEPT ![outbox[proc[p].event].about] =
                  [status   |-> Flushed(@.status, proc[p].seen.status, StatusAfter(p)),
                   attempts |-> proc[p].seen.attempts + 1]]
    /\ proc' = [proc EXCEPT ![p].pc = "emitted"]
    /\ UNCHANGED <<autoDrain, outbox, up, outages, faults, accepted, direct>>

\* Without approval_outbox_auto_drain the call is over.
EmitReturns(p) ==
    /\ proc[p].pc = "emitted"
    /\ ~autoDrain
    /\ proc' = [proc EXCEPT ![p] = Idle]
    /\ UNCHANGED <<autoDrain, outbox, hook, up, outages, faults, accepted, direct>>

-----------------------------------------------------------------------------
(* drain_outbox and _deliver_outbox_item                                   *)

\* Bugs: rows that failed once are given up; delivered rows are still listed.
DuePending == {i \in 1..Len(outbox) : outbox[i].status = "pending"}
DueAll == 1..Len(outbox)

\* delivery_status in (pending, failed)
Due == {i \in 1..Len(outbox) : outbox[i].status \in {"pending", "failed"}}

\* The oldest of them, up to the limit.
Batch == {i \in Due : Cardinality({j \in Due : j < i}) < Limit}

\* The list of rows is taken once.  A drain that finds none returns.
Drain(p) ==
    /\ \/ p \in Drainers /\ proc[p].pc = "idle" /\ Batch # {}
       \/ autoDrain /\ proc[p].pc = "emitted"
    /\ proc' = [proc EXCEPT ![p] =
                  IF Batch = {} THEN Idle
                  ELSE [Idle EXCEPT !.pc = "draining", !.batch = Batch]]
    /\ UNCHANGED <<autoDrain, outbox, hook, up, outages, faults, accepted, direct>>

\* The oldest is next; it is loaded again, whatever its status is by now.
DeliverLoad(p) ==
    /\ proc[p].pc = "draining"
    /\ \E i \in proc[p].batch :
          /\ \A j \in proc[p].batch : i <= j
          /\ proc' = [proc EXCEPT ![p].pc = "loaded", ![p].event = i,
                                  ![p].seen = [Fresh EXCEPT !.status = outbox[i].status]]
    /\ UNCHANGED <<autoDrain, outbox, hook, up, outages, faults, accepted, direct>>

DeliverSend(p) ==
    LET i == proc[p].event IN
    /\ proc[p].pc = "loaded"
    /\ \E answer, taken \in BOOLEAN :
          /\ Outcome(i, answer, taken)
          /\ Take(i, taken)
          /\ proc' = [proc EXCEPT ![p].pc = "posted", ![p].answer = answer]
    /\ UNCHANGED <<autoDrain, outbox, hook, up, outages, faults, direct>>

DeliverCommit(p) ==
    LET status == IF proc[p].answer THEN "delivered" ELSE "failed"
        rest   == proc[p].batch \ {proc[p].event}
    IN
    /\ proc[p].pc = "posted"
    /\ outbox' = [outbox EXCEPT ![proc[p].event].status = Flushed(@, proc[p].seen.status, status)]
    /\ proc' = [proc EXCEPT ![p] = IF rest = {} THEN Idle
                                   ELSE [Idle EXCEPT !.pc = "draining", !.batch = rest]]
    /\ UNCHANGED <<autoDrain, hook, up, outages, faults, accepted, direct>>

\* The process dies, or the database refuses and the call raises.
Crash(p) ==
    /\ proc[p].pc # "idle"
    /\ faults < MaxFaults
    /\ faults' = faults + 1
    /\ proc' = [proc EXCEPT ![p] = Idle]
    /\ UNCHANGED <<autoDrain, outbox, hook, up, outages, accepted, direct>>

-----------------------------------------------------------------------------
Emit(p) ==
    \/ EmitCheck(p)
    \/ EmitExhausted(p)
    \/ EmitSend(p)
    \/ RecordLoad(p)
    \/ RecordCommit(p)
    \/ EmitReturns(p)

Deliver(p) ==
    \/ Drain(p)
    \/ DeliverLoad(p)
    \/ DeliverSend(p)
    \/ DeliverCommit(p)

Next ==
    \/ \E p \in Emitters, a \in Approvals, retry \in BOOLEAN : Announce(p, a, retry)
    \/ \E p \in Emitters : Emit(p) \/ RecordRaises(p)
    \/ \E p \in Procs : Deliver(p) \/ Crash(p)
    \/ OutageBegins
    \/ OutageEnds

Spec == Init /\ [][Next]_vars

\* approval-worker-serve loops for ever, sleeping between its drains, and is started
\* again when it dies.
FairSpec == Spec /\ \A p \in Drainers : WF_vars(Deliver(p))

-----------------------------------------------------------------------------
(* Properties                                                              *)

RetriesOf(a) == Cardinality({i \in 1..Len(outbox) : outbox[i].about = a /\ outbox[i].retry})

\* Nobody is told that an event arrived which did not: a delivered row was taken by
\* the receiver, and an approval shown as delivered had an event of its own taken.
DeliveredWasAccepted ==
    /\ \A i \in 1..Len(outbox) : outbox[i].status = "delivered" => i \in accepted
    /\ \A a \in Approvals :
          hook[a].status = "delivered" => \E i \in accepted : outbox[i].about = a

\* With one drainer (no auto-drain), a row once delivered stays so, and is never posted again.
DeliveredIsFinal ==
    [][~autoDrain =>
          /\ \A i \in 1..Len(outbox) :
                outbox[i].status = "delivered" => outbox'[i].status = "delivered"
          /\ \A p \in Procs :
                DeliverSend(p) => outbox[proc[p].event].status # "delivered"]_vars

\* With one emitter, the attempts made for an approval stop at the maximum but for
\* those an operator asks for, and are counted unless a process dies; and an approval
\* is shown as exhausted only after as many as are allowed.
AttemptsBounded ==
    \A a \in Approvals :
        /\ hook[a].attempts <= MaxAttempts + RetriesOf(a)
        /\ hook[a].attempts <= direct[a]
        /\ direct[a] <= hook[a].attempts + faults
             + (IF \E p \in Emitters : /\ proc[p].pc \in {"answered", "recording"}
                                       /\ outbox[proc[p].event].about = a
                THEN 1 ELSE 0)
        /\ hook[a].status = "exhausted" => hook[a].attempts >= MaxAttempts

\* With auto-drain, and no outage or crash, the outbox holds nothing that could be
\* delivered once the emitter has returned.
DrainedAtRest ==
    (autoDrain /\ outages = 0 /\ faults = 0 /\ \A p \in Procs : proc[p].pc = "idle") =>
        \A i \in 1..Len(outbox) : i \in Rejected \/ outbox[i].status = "delivered"

\* Once the receiver stays up, every row it would take is delivered for good, though
\* rows it rejects are retried for ever before them: there are fewer than Limit.
EventuallyDelivered ==
    \A i \in 1..MaxEvents \ Rejected :
        <>[]up => [](i <= Len(outbox) => <>[](i <= Len(outbox) /\ outbox[i].status = "delivered"))
=============================================================================
