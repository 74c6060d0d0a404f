----------------------- MODULE WebhookDeliveryProofs ------------------------
(***************************************************************************)
(* Theorems about WebhookDelivery, for any numbers of approvals, events,   *)
(* outages and faults.  That deliveries are real holds for any processes;  *)
(* that attempts are bounded, for one emitter; that what is delivered      *)
(* stays so, for one drainer.                                              *)
(***************************************************************************)
EXTENDS WebhookDelivery, FiniteSetTheorems, TLAPS

-----------------------------------------------------------------------------
(* The invariant for any processes                                         *)

\* A process works on rows that exist, and remembers an answer the receiver gave.
Work(x, n, taken) ==
    /\ x.pc \in {"enqueued", "checked", "answered", "recording", "loaded", "posted"}
          => x.event \in 1..n
    /\ x.batch \subseteq 1..n
    /\ x.pc \in {"answered", "recording", "posted"} /\ x.answer => x.event \in taken

IInv ==
    /\ TypeOK
    /\ \A p \in Procs : Work(proc[p], Len(outbox), accepted)
    /\ DeliveredWasAccepted

\* A process goes on; rows are appended or change their status, events are taken.
LEMMA Step ==
    ASSUME IInv, NEW p \in Procs, NEW x \in Process, proc' = [proc EXCEPT ![p] = x],
           UNCHANGED <<autoDrain, up, outages>>, faults' \in Nat,
           outbox' \in Seq(Row), Len(outbox) <= Len(outbox'),
           hook' \in [Approvals -> Hook], direct' \in [Approvals -> Nat],
           accepted \subseteq accepted', accepted' \subseteq 1..Len(outbox'),
           Work(x, Len(outbox'), accepted'), DeliveredWasAccepted'
    PROVE  IInv'
<1>1. TypeOK'
  BY DEF IInv, TypeOK
<1>2. Len(outbox) \in Nat /\ Len(outbox') \in Nat /\ 1..Len(outbox) \subseteq 1..Len(outbox')
  BY DEF IInv, TypeOK
<1>3. ASSUME NEW q \in Procs PROVE Work(proc'[q], Len(outbox'), accepted')
  <2>1. CASE q = p
    BY <2>1 DEF IInv, TypeOK
  <2>2. CASE q # p
    <3>1. proc'[q] = proc[q] /\ Work(proc[q], Len(outbox), accepted)
      BY <2>2 DEF IInv, TypeOK
    <3> QED
      BY <1>2, <3>1 DEF Work
  <2> QED
    BY <2>1, <2>2
<1> QED
  BY <1>1, <1>3 DEF IInv

\* A step that shows in no row and no approval.
LEMMA OwnStep ==
    ASSUME IInv, NEW p \in Procs, NEW x \in Process, proc' = [proc EXCEPT ![p] = x],
           UNCHANGED <<autoDrain, outbox, hook, up, outages, accepted, direct>>,
           faults' \in Nat, Work(x, Len(outbox), accepted)
    PROVE  IInv'
<1>1. DeliveredWasAccepted'
  BY DEF IInv, DeliveredWasAccepted
<1>2. /\ outbox \in Seq(Row) /\ hook \in [Approvals -> Hook] /\ direct \in [Approvals -> Nat]
      /\ accepted \subseteq 1..Len(outbox) /\ Len(outbox) <= Len(outbox)
  BY DEF IInv, TypeOK
<1> QED
  BY <1>1, <1>2, Step

LEMMA IdleIs == Idle \in Process /\ Idle.pc = "idle" /\ Idle.batch = {}
BY DEF Idle, Process, Hook, Fresh, Statuses

LEMMA Rests ==
    ASSUME NEW n \in Nat, NEW taken
    PROVE  Idle \in Process /\ Idle.pc = "idle" /\ Work(Idle, n, taken)
BY IdleIs DEF Work

LEMMA RowIs ==
    ASSUME TypeOK, NEW i \in 1..Len(outbox)
    PROVE  /\ outbox[i] \in Row /\ i \in Nat
           /\ outbox[i].about \in Approvals /\ outbox[i].status \in Statuses
           /\ hook[outbox[i].about] \in Hook /\ hook[outbox[i].about].attempts \in Nat
<1>1. outbox[i] \in Row
  BY DEF TypeOK
<1> QED
  BY <1>1 DEF TypeOK, Row, Hook

LEMMA InitIInv == Init => IInv
<1> SUFFICES ASSUME Init PROVE IInv
  OBVIOUS
<1>1. Len(outbox) = 0
  BY DEF Init
<1>2. TypeOK
  BY <1>1, Rests, WebhookAssumption DEF Init, TypeOK, Hook, Fresh, Statuses
<1>3. \A p \in Procs : Work(proc[p], Len(outbox), accepted)
  BY <1>1, Rests DEF Init
<1>4. DeliveredWasAccepted
  BY <1>1 DEF Init, DeliveredWasAccepted, Fresh
<1> QED
  BY <1>2, <1>3, <1>4 DEF IInv

\* The receiver alone.
LEMMA OutageStep == IInv /\ (OutageBegins \/ OutageEnds) => IInv'
<1> SUFFICES ASSUME IInv, OutageBegins \/ OutageEnds PROVE IInv'
  OBVIOUS
<1>1. /\ up' \in BOOLEAN /\ outages' \in Nat
      /\ UNCHANGED <<autoDrain, outbox, hook, proc, faults, accepted, direct>>
  <2>1. CASE OutageBegins
    <3>1. up' = FALSE /\ outages' = outages + 1 /\ outages \in Nat
          /\ UNCHANGED <<autoDrain, outbox, hook, proc, faults, accepted, direct>>
      BY <2>1 DEF IInv, TypeOK, OutageBegins
    <3>2. up' \in BOOLEAN
      BY <3>1, Zenon
    <3>3. outages' \in Nat
      BY <3>1
    <3> QED
      BY <3>1, <3>2, <3>3, Zenon
  <2>2. CASE OutageEnds
    BY <2>2 DEF IInv, TypeOK, OutageEnds
  <2> QED
    BY <2>1, <2>2
<1>2. TypeOK'
  BY <1>1 DEF IInv, TypeOK
<1>3. DeliveredWasAccepted' /\ \A p \in Procs : Work(proc'[p], Len(outbox'), accepted')
  BY <1>1 DEF IInv, DeliveredWasAccepted
<1> QED
  BY <1>1, <1>2, <1>3 DEF IInv

LEMMA AnnounceStep ==
    ASSUME IInv, NEW p \in Emitters, NEW a \in Approvals, NEW retry \in BOOLEAN,
           Announce(p, a, retry)
    PROVE  IInv'
<1> DEFINE row == [about |-> a, retry |-> retry, status |-> "pending"]
           n == Len(outbox)
           x == [Idle EXCEPT !.pc = "enqueued", !.event = n + 1]
<1>1. /\ outbox' = Append(outbox, row) /\ proc' = [proc EXCEPT ![p] = x]
      /\ UNCHANGED <<autoDrain, hook, up, outages, faults, accepted, direct>>
  BY DEF Announce
<1>2. /\ p \in Procs /\ outbox \in Seq(Row) /\ row \in Row /\ n \in Nat
      /\ accepted \subseteq 1..n
  BY DEF IInv, TypeOK, Procs, Row, Statuses
<1>3. /\ outbox' \in Seq(Row) /\ Len(outbox') = n + 1 /\ outbox'[n + 1] = row
      /\ \A i \in 1..n : outbox'[i] = outbox[i]
  BY <1>1, <1>2
<1>4. x \in Process /\ Work(x, n + 1, accepted)
  <2>1. n + 1 \in 1..(n + 1)
    BY <1>2
  <2>2. x \in Process /\ x.pc = "enqueued" /\ x.event = n + 1 /\ x.batch = {}
    <3>1. n + 1 \in Nat
      BY <1>2
    <3> HIDE DEF n
    <3> QED
      BY <3>1, IdleIs DEF Process
  <2> HIDE DEF n, x
  <2> QED
    BY <2>1, <2>2 DEF Work
<1>5. DeliveredWasAccepted'
  <2>1. \A i \in 1..Len(outbox') : i \in 1..n \/ outbox'[i].status = "pending"
    BY <1>2, <1>3
  <2> QED
    BY <1>1, <1>2, <1>3, <2>1 DEF IInv, DeliveredWasAccepted
<1> HIDE DEF x, row
<1>6. /\ faults' \in Nat /\ hook' \in [Approvals -> Hook] /\ direct' \in [Approvals -> Nat]
      /\ Len(outbox) <= Len(outbox') /\ accepted' \subseteq 1..Len(outbox')
      /\ Work(x, Len(outbox'), accepted') /\ accepted \subseteq accepted'
  BY <1>1, <1>2, <1>3, <1>4 DEF IInv, TypeOK
<1> QED
  BY <1>1, <1>2, <1>3, <1>4, <1>5, <1>6, Step

\* What happens between the requests and the commits.
LEMMA QuietStep ==
    ASSUME IInv, NEW p \in Procs,
           \/ EmitCheck(p) \/ RecordRaises(p) \/ RecordLoad(p) \/ EmitReturns(p)
           \/ Drain(p) \/ DeliverLoad(p) \/ Crash(p)
    PROVE  IInv'
<1>1. /\ proc[p] \in Process /\ Work(proc[p], Len(outbox), accepted) /\ Len(outbox) \in Nat
      /\ outbox \in Seq(Row) /\ hook \in [Approvals -> Hook] /\ faults \in Nat
  BY DEF IInv, TypeOK
<1>2. CASE EmitCheck(p)
  <2> DEFINE x == [proc[p] EXCEPT !.pc = "checked",
                                  !.attempts = hook[outbox[proc[p].event].about].attempts]
  <2>1. /\ proc[p].pc = "enqueued" /\ proc' = [proc EXCEPT ![p] = x]
        /\ UNCHANGED <<autoDrain, outbox, hook, up, outages, faults, accepted, direct>>
    BY <1>2 DEF EmitCheck
  <2>2. hook[outbox[proc[p].event].about].attempts \in Nat
    BY <1>1, <2>1, RowIs DEF Work, IInv
  <2>3. x \in Process /\ Work(x, Len(outbox), accepted)
    BY <1>1, <2>1, <2>2 DEF Process, Work
  <2> QED
    BY <1>1, <2>1, <2>3, OwnStep
<1>3. CASE RecordRaises(p)
  <2> DEFINE x == [proc[p] EXCEPT !.answer = FALSE]
  <2>1. /\ proc[p].pc = "answered" /\ proc' = [proc EXCEPT ![p] = x] /\ faults' = faults + 1
        /\ UNCHANGED <<autoDrain, outbox, hook, up, outages, accepted, direct>>
    BY <1>3 DEF RecordRaises
  <2>2. x \in Process /\ Work(x, Len(outbox), accepted)
    BY <1>1, <2>1 DEF Process, Work
  <2>3. faults' \in Nat
    BY <1>1, <2>1
  <2> QED
    BY <1>1, <2>1, <2>2, <2>3, OwnStep
<1>4. CASE RecordLoad(p)
  <2> DEFINE x == [proc[p] EXCEPT !.pc = "recording",
                                  !.seen = hook[outbox[proc[p].event].about]]
  <2>1. /\ proc[p].pc = "answered" /\ proc' = [proc EXCEPT ![p] = x]
        /\ UNCHANGED <<autoDrain, outbox, hook, up, outages, faults, accepted, direct>>
    BY <1>4 DEF RecordLoad
  <2>2. hook[outbox[proc[p].event].about] \in Hook
    BY <1>1, <2>1, RowIs DEF Work, IInv
  <2>3. x \in Process /\ Work(x, Len(outbox), accepted)
    BY <1>1, <2>1, <2>2 DEF Process, Work
  <2> QED
    BY <1>1, <2>1, <2>3, OwnStep
<1>5. CASE EmitReturns(p)
  BY <1>1, <1>5, Rests, OwnStep DEF EmitReturns
<1>6. CASE Drain(p)
  <2> DEFINE y == [Idle EXCEPT !.pc = "draining", !.batch = Batch]
             x == IF Batch = {} THEN Idle ELSE y
  <2>1. /\ proc' = [proc EXCEPT ![p] = x]
        /\ UNCHANGED <<autoDrain, outbox, hook, up, outages, faults, accepted, direct>>
    BY <1>6 DEF Drain
  <2>2. Batch \subseteq 1..Len(outbox)
    BY DEF Batch, Due
  <2>3. y \in Process /\ Work(y, Len(outbox), accepted)
    <3>1. Idle \in Process /\ Batch \subseteq Nat
      BY <1>1, <2>2, Rests
    <3> QED
      BY <1>1, <2>2, <3>1 DEF Process, Work
  <2>4. x \in Process /\ Work(x, Len(outbox), accepted)
    BY <1>1, <2>3, Rests
  <2> QED
    BY <1>1, <2>1, <2>4, OwnStep
<1>7. CASE DeliverLoad(p)
  <2>1. PICK i \in proc[p].batch :
           proc' = [proc EXCEPT ![p] = [proc[p] EXCEPT !.pc = "loaded", !.event = i,
                                           !.seen = [Fresh EXCEPT !.status = outbox[i].status]]]
    BY <1>7 DEF DeliverLoad
  <2> DEFINE s == [Fresh EXCEPT !.status = outbox[i].status]
             x == [proc[p] EXCEPT !.pc = "loaded", !.event = i, !.seen = s]
  <2>2. UNCHANGED <<autoDrain, outbox, hook, up, outages, faults, accepted, direct>>
    BY <1>7 DEF DeliverLoad
  <2>3. i \in 1..Len(outbox)
    BY <1>1, <2>1 DEF Work
  <2>4. s \in Hook
    <3>1. outbox[i].status \in Statuses
      BY <2>3, RowIs DEF IInv
    <3> QED
      BY <3>1 DEF Hook, Fresh
  <2>5. x \in Process /\ Work(x, Len(outbox), accepted)
    <3> HIDE DEF s
    <3> QED
      BY <1>1, <2>3, <2>4 DEF Process, Work
  <2> QED
    BY <1>1, <2>1, <2>2, <2>5, OwnStep
<1>8. CASE Crash(p)
  <2>1. /\ proc' = [proc EXCEPT ![p] = Idle] /\ faults' \in Nat
        /\ UNCHANGED <<autoDrain, outbox, hook, up, outages, accepted, direct>>
    BY <1>1, <1>8 DEF Crash
  <2> QED
    BY <1>1, <2>1, Rests, OwnStep
<1> QED
  BY <1>2, <1>3, <1>4, <1>5, <1>6, <1>7, <1>8

LEMMA EmitExhaustedStep == ASSUME IInv, NEW p \in Procs, EmitExhausted(p) PROVE IInv'
<1> DEFINE x == [proc[p] EXCEPT !.pc = "emitted"]
           i == proc[p].event
           h == [hook[outbox[i].about] EXCEPT !.status = "exhausted"]
<1>1. /\ proc[p] \in Process /\ Work(proc[p], Len(outbox), accepted) /\ Len(outbox) \in Nat
      /\ outbox \in Seq(Row) /\ hook \in [Approvals -> Hook]
  BY DEF IInv, TypeOK
<1>2. /\ proc[p].pc = "checked" /\ proc' = [proc EXCEPT ![p] = x]
      /\ hook' = [hook EXCEPT ![outbox[i].about] = h]
      /\ UNCHANGED <<autoDrain, outbox, up, outages, faults, accepted, direct>>
  BY DEF EmitExhausted
<1>3. outbox[i].about \in Approvals /\ hook[outbox[i].about] \in Hook
  BY <1>1, <1>2, RowIs DEF Work, IInv
<1>4. h \in Hook /\ h.status = "exhausted"
  BY <1>3 DEF Hook, Statuses
<1>5. x \in Process /\ Work(x, Len(outbox'), accepted')
  BY <1>1, <1>2 DEF Process, Work
<1> HIDE DEF x, h, i
<1>6. hook' \in [Approvals -> Hook]
  BY <1>1, <1>2, <1>3, <1>4
<1>7. DeliveredWasAccepted'
  BY <1>1, <1>2, <1>3, <1>4 DEF IInv, DeliveredWasAccepted
<1>8. /\ outbox' \in Seq(Row) /\ Len(outbox) <= Len(outbox') /\ faults' \in Nat
      /\ direct' \in [Approvals -> Nat] /\ accepted \subseteq accepted'
      /\ accepted' \subseteq 1..Len(outbox')
  BY <1>1, <1>2 DEF IInv, TypeOK
<1> QED
  BY <1>2, <1>5, <1>6, <1>7, <1>8, Step

\* Either path sends: the receiver has what it answers for.
LEMMA SendStep ==
    ASSUME IInv, NEW p \in Procs, EmitSend(p) \/ DeliverSend(p)
    PROVE  IInv'
<1> DEFINE i == proc[p].event
<1>1. /\ proc[p] \in Process /\ Work(proc[p], Len(outbox), accepted) /\ Len(outbox) \in Nat
      /\ outbox \in Seq(Row) /\ hook \in [Approvals -> Hook] /\ direct \in [Approvals -> Nat]
      /\ accepted \subseteq 1..Len(outbox) /\ faults \in Nat
  BY DEF IInv, TypeOK
<1>2. /\ proc[p].pc \in {"checked", "loaded"}
      /\ UNCHANGED <<autoDrain, outbox, hook, up, outages, faults>>
      /\ direct' = direct \/ direct' = [direct EXCEPT ![outbox[i].about] = @ + 1]
      /\ \E answer, taken \in BOOLEAN, pc \in {"answered", "posted"} :
            /\ Outcome(i, answer, taken)
            /\ Take(i, taken)
            /\ proc' = [proc EXCEPT ![p].pc = pc, ![p].answer = answer]
  <2>1. CASE EmitSend(p)
    BY <2>1 DEF EmitSend
  <2>2. CASE DeliverSend(p)
    BY <2>2 DEF DeliverSend
  <2> QED
    BY <2>1, <2>2
<1>3. PICK answer \in BOOLEAN, taken \in BOOLEAN, pc \in {"answered", "posted"} :
            /\ Outcome(i, answer, taken)
            /\ Take(i, taken)
            /\ proc' = [proc EXCEPT ![p] = [proc[p] EXCEPT !.pc = pc, !.answer = answer]]
  BY <1>2
<1> DEFINE x == [proc[p] EXCEPT !.pc = pc, !.answer = answer]
<1>4. i \in 1..Len(outbox) /\ outbox[i].about \in Approvals
  BY <1>1, <1>2, RowIs DEF Work, IInv
<1>5. direct' \in [Approvals -> Nat]
  BY <1>1, <1>2, <1>4
<1>6. /\ accepted \subseteq accepted' /\ accepted' \subseteq 1..Len(outbox')
      /\ answer => i \in accepted'
  BY <1>1, <1>2, <1>3, <1>4 DEF Take, Outcome
<1>7. x \in Process /\ x.pc = pc /\ x.event = i /\ x.batch = proc[p].batch /\ x.answer = answer
  BY <1>1 DEF Process
<1>8. proc' = [proc EXCEPT ![p] = x]
  BY <1>3
<1> HIDE DEF x
<1>9. Work(x, Len(outbox'), accepted')
  BY <1>1, <1>2, <1>4, <1>6, <1>7 DEF Work
<1>10. DeliveredWasAccepted'
  BY <1>2, <1>6 DEF IInv, DeliveredWasAccepted
<1>11. /\ outbox' \in Seq(Row) /\ Len(outbox) <= Len(outbox') /\ faults' \in Nat
       /\ hook' \in [Approvals -> Hook]
  BY <1>1, <1>2
<1> QED
  BY <1>2, <1>5, <1>6, <1>7, <1>8, <1>9, <1>10, <1>11, Step

LEMMA StatusIs ==
    ASSUME NEW p
    PROVE  StatusAfter(p) \in Statuses /\ (StatusAfter(p) = "delivered" => proc[p].answer)
BY DEF StatusAfter, Statuses

LEMMA FlushedIs ==
    ASSUME NEW S, NEW old \in S, NEW seen, NEW new \in S
    PROVE  Flushed(old, seen, new) \in S /\ Flushed(old, seen, new) \in {old, new}
BY DEF Flushed

LEMMA RecordCommitStep == ASSUME IInv, NEW p \in Procs, RecordCommit(p) PROVE IInv'
<1> DEFINE i == proc[p].event
           a == outbox[i].about
           x == [proc[p] EXCEPT !.pc = "emitted"]
           st == Flushed(hook[a].status, proc[p].seen.status, StatusAfter(p))
           h == [status |-> st, attempts |-> proc[p].seen.attempts + 1]
<1>1. /\ proc[p] \in Process /\ Work(proc[p], Len(outbox), accepted) /\ Len(outbox) \in Nat
      /\ outbox \in Seq(Row) /\ hook \in [Approvals -> Hook]
  BY DEF IInv, TypeOK
<1>2. /\ proc[p].pc = "recording" /\ proc' = [proc EXCEPT ![p] = x]
      /\ hook' = [hook EXCEPT ![a] = h]
      /\ UNCHANGED <<autoDrain, outbox, up, outages, faults, accepted, direct>>
  BY DEF RecordCommit
<1>3. i \in 1..Len(outbox) /\ a \in Approvals /\ hook[a] \in Hook /\ hook[a].status \in Statuses
  BY <1>1, <1>2, RowIs DEF Work, IInv, Hook
<1>4. st \in Statuses /\ (st = "delivered" => hook[a].status = "delivered" \/ proc[p].answer)
  BY <1>3, StatusIs, FlushedIs
<1>5. x \in Process /\ Work(x, Len(outbox'), accepted')
  BY <1>1, <1>2 DEF Process, Work
<1>6. h \in Hook /\ h.status = st
  <2> HIDE DEF st
  <2> QED
    BY <1>1, <1>4 DEF Hook, Process
<1>7. proc[p].answer => i \in accepted
  BY <1>1, <1>2 DEF Work
<1> HIDE DEF x, h, st
<1>8. hook' \in [Approvals -> Hook]
  BY <1>1, <1>2, <1>3, <1>6
<1>9. DeliveredWasAccepted'
  <2>1. ASSUME NEW b \in Approvals, hook'[b].status = "delivered"
        PROVE  \E j \in accepted : outbox[j].about = b
    <3>1. CASE b # a
      BY <1>1, <1>2, <2>1, <3>1 DEF IInv, DeliveredWasAccepted
    <3>2. CASE b = a
      BY <1>1, <1>2, <1>3, <1>4, <1>6, <1>7, <2>1, <3>2 DEF IInv, DeliveredWasAccepted
    <3> QED
      BY <3>1, <3>2
  <2> QED
    BY <1>2, <2>1 DEF IInv, DeliveredWasAccepted
<1>10. /\ outbox' \in Seq(Row) /\ Len(outbox) <= Len(outbox') /\ faults' \in Nat
       /\ direct' \in [Approvals -> Nat] /\ accepted \subseteq accepted'
       /\ accepted' \subseteq 1..Len(outbox')
  BY <1>1, <1>2 DEF IInv, TypeOK
<1> QED
  BY <1>2, <1>5, <1>8, <1>9, <1>10, Step

LEMMA DeliverCommitStep == ASSUME IInv, NEW p \in Procs, DeliverCommit(p) PROVE IInv'
<1> DEFINE i == proc[p].event
           new == IF proc[p].answer THEN "delivered" ELSE "failed"
           st == Flushed(outbox[i].status, proc[p].seen.status, new)
           row == [outbox[i] EXCEPT !.status = st]
           rest == proc[p].batch \ {i}
           y == [Idle EXCEPT !.pc = "draining", !.batch = rest]
           x == IF rest = {} THEN Idle ELSE y
<1>1. /\ proc[p] \in Process /\ Work(proc[p], Len(outbox), accepted) /\ Len(outbox) \in Nat
      /\ outbox \in Seq(Row) /\ hook \in [Approvals -> Hook]
  BY DEF IInv, TypeOK
<1>2. /\ proc[p].pc = "posted" /\ proc' = [proc EXCEPT ![p] = x]
      /\ outbox' = [outbox EXCEPT ![i] = row]
      /\ UNCHANGED <<autoDrain, hook, up, outages, faults, accepted, direct>>
  BY DEF DeliverCommit
<1>3. i \in 1..Len(outbox) /\ outbox[i] \in Row /\ outbox[i].status \in Statuses
  BY <1>1, <1>2, RowIs DEF Work, IInv
<1>4. st \in Statuses /\ (st = "delivered" => outbox[i].status = "delivered" \/ proc[p].answer)
  <2>1. new \in Statuses /\ (new = "delivered" => proc[p].answer)
    BY DEF Statuses
  <2> HIDE DEF new
  <2> QED
    BY <1>3, <2>1, FlushedIs
<1>5. rest \subseteq 1..Len(outbox)
  BY <1>1 DEF Work
<1>6. x \in Process /\ Work(x, Len(outbox'), accepted')
  <2> HIDE DEF rest
  <2>1. rest \subseteq Nat /\ Len(outbox') = Len(outbox) /\ accepted' = accepted
    BY <1>1, <1>2, <1>5
  <2>2. y \in Process /\ y.pc = "draining" /\ y.batch = rest
    BY <2>1, IdleIs DEF Process
  <2>3. Work(y, Len(outbox'), accepted')
    BY <1>5, <2>1, <2>2 DEF Work
  <2>4. Idle \in Process /\ Work(Idle, Len(outbox'), accepted')
    BY <1>1, <2>1, Rests
  <2> QED
    BY <2>2, <2>3, <2>4
<1>7. proc[p].answer => i \in accepted
  BY <1>1, <1>2 DEF Work
<1>8. row \in Row /\ row.status = st /\ row.about = outbox[i].about
  <2> HIDE DEF st
  <2> QED
    BY <1>3, <1>4 DEF Row
<1> HIDE DEF x, row, st
<1>9. /\ outbox' \in Seq(Row) /\ Len(outbox') = Len(outbox)
      /\ \A j \in 1..Len(outbox) : outbox'[j] = IF j = i THEN row ELSE outbox[j]
  BY <1>1, <1>2, <1>3, <1>8
<1>10. DeliveredWasAccepted'
  <2>1. \A j \in 1..Len(outbox) : outbox'[j].about = outbox[j].about
    BY <1>8, <1>9
  <2>2. \A j \in 1..Len(outbox') : outbox'[j].status = "delivered" => j \in accepted'
    BY <1>2, <1>4, <1>7, <1>8, <1>9 DEF IInv, DeliveredWasAccepted
  <2>3. accepted \subseteq 1..Len(outbox)
    BY DEF IInv, TypeOK
  <2> QED
    BY <1>2, <2>1, <2>2, <2>3 DEF IInv, DeliveredWasAccepted
<1>11. /\ Len(outbox) <= Len(outbox') /\ faults' \in Nat /\ hook' \in [Approvals -> Hook]
       /\ direct' \in [Approvals -> Nat] /\ accepted \subseteq accepted'
       /\ accepted' \subseteq 1..Len(outbox')
  BY <1>1, <1>2, <1>9 DEF IInv, TypeOK
<1> QED
  BY <1>2, <1>6, <1>9, <1>10, <1>11, Step

LEMMA NextIInv == IInv /\ [Next]_vars => IInv'
<1> SUFFICES ASSUME IInv, [Next]_vars PROVE IInv'
  OBVIOUS
<1>1. CASE \E p \in Emitters, a \in Approvals, retry \in BOOLEAN : Announce(p, a, retry)
  BY <1>1, AnnounceStep
<1>2. CASE \E p \in Emitters : Emit(p) \/ RecordRaises(p)
  BY <1>2, QuietStep, EmitExhaustedStep, SendStep, RecordCommitStep DEF Emit, Procs
<1>3. CASE \E p \in Procs : Deliver(p) \/ Crash(p)
  BY <1>3, QuietStep, SendStep, DeliverCommitStep DEF Deliver
<1>4. CASE OutageBegins \/ OutageEnds
  BY <1>4, OutageStep
<1>5. CASE UNCHANGED vars
  BY <1>5 DEF vars, IInv, TypeOK, DeliveredWasAccepted
<1> QED
  BY <1>1, <1>2, <1>3, <1>4, <1>5 DEF Next

THEOREM Invariance == Spec => []IInv
BY InitIInv, NextIInv, PTL DEF Spec

\* Rows, counters and what processes remember keep their types, and only events that were
\* announced are ever taken by the receiver.
THEOREM TypeCorrect == Spec => []TypeOK
<1>1. IInv => TypeOK
  BY DEF IInv
<1> QED
  BY <1>1, Invariance, PTL

\* A delivered row was taken by the receiver, and an approval shown as delivered had an event
\* of its own taken: for any numbers of emitters and drainers, through outages, late answers
\* and crashes.
THEOREM DeliveriesWereAccepted == Spec => []DeliveredWasAccepted
<1>1. IInv => DeliveredWasAccepted
  BY DEF IInv
<1> QED
  BY <1>1, Invariance, PTL

-----------------------------------------------------------------------------
(* One drainer: what is delivered stays so                                 *)

Delivering == {"draining", "loaded", "posted"}

\* Nobody else delivers, and the rows the drainer still has before it are not delivered.
DrainInv(d) ==
    ~autoDrain =>
        \A p \in Procs :
            /\ proc[p].pc \in Delivering =>
                  /\ p = d
                  /\ \A i \in proc[p].batch : outbox[i].status # "delivered"
            /\ proc[p].pc \in {"loaded", "posted"} => proc[p].event \in proc[p].batch

Final ==
    ~autoDrain =>
        /\ \A i \in 1..Len(outbox) :
              outbox[i].status = "delivered" => outbox'[i].status = "delivered"
        /\ \A p \in Procs : DeliverSend(p) => outbox[proc[p].event].status # "delivered"

\* A row keeps its status, but the one being committed.
LEMMA RowsStep ==
    ASSUME IInv, [Next]_vars, ~autoDrain
    PROVE  /\ autoDrain' = autoDrain
           /\ \/ \A i \in 1..Len(outbox) : outbox'[i] = outbox[i]
              \/ \E p \in Procs : DeliverCommit(p)
<1>1. CASE \E p \in Emitters, a \in Approvals, retry \in BOOLEAN : Announce(p, a, retry)
  <2>1. PICK p \in Emitters, a \in Approvals, retry \in BOOLEAN : Announce(p, a, retry)
    BY <1>1
  <2> DEFINE row == [about |-> a, retry |-> retry, status |-> "pending"]
  <2>2. outbox' = Append(outbox, row) /\ autoDrain' = autoDrain /\ outbox \in Seq(Row)
    BY <2>1 DEF Announce, IInv, TypeOK
  <2>3. row \in Row
    BY DEF Row, Statuses
  <2> HIDE DEF row
  <2> QED
    BY <2>2, <2>3
<1>2. CASE \E p \in Emitters : Emit(p) \/ RecordRaises(p)
  BY <1>2 DEF Emit, RecordRaises, EmitCheck, EmitExhausted, EmitSend, RecordLoad, RecordCommit,
              EmitReturns
<1>3. CASE \E p \in Procs : Deliver(p) \/ Crash(p)
  BY <1>3 DEF Deliver, Drain, DeliverLoad, DeliverSend, DeliverCommit, Crash
<1>4. CASE OutageBegins \/ OutageEnds \/ UNCHANGED vars
  BY <1>4 DEF OutageBegins, OutageEnds, vars
<1> QED
  BY <1>1, <1>2, <1>3, <1>4 DEF Next

\* A process that does not deliver, or has nothing delivered before it.
Clear(p, d, x, rows) ==
    /\ x.pc \in Delivering => p = d /\ \A i \in x.batch : rows[i].status # "delivered"
    /\ x.pc \in {"loaded", "posted"} => x.event \in x.batch

\* What a process does keeps what it has before it undelivered.
LEMMA OwnClear ==
    ASSUME IInv, NEW d, Drainers = {d}, DrainInv(d), ~autoDrain, NEW p \in Procs,
           \/ p \in Emitters /\ Emit(p)
           \/ p \in Emitters /\ RecordRaises(p)
           \/ Deliver(p)
           \/ Crash(p)
    PROVE  /\ Clear(p, d, proc'[p], outbox')
           /\ \A q \in Procs \ {p} : proc'[q] = proc[q]
<1>1. /\ proc[p] \in Process /\ Work(proc[p], Len(outbox), accepted) /\ Len(outbox) \in Nat
      /\ proc \in [Procs -> Process] /\ outbox \in Seq(Row)
  BY DEF IInv, TypeOK
<1>2. Clear(p, d, proc[p], outbox)
  BY DEF DrainInv, Clear
<1>3. CASE EmitCheck(p) \/ EmitExhausted(p) \/ EmitSend(p) \/ RecordLoad(p) \/ RecordCommit(p)
           \/ RecordRaises(p)
  <2>1. /\ proc'[p].pc \in {"checked", "emitted", "answered", "recording"}
        /\ \A q \in Procs \ {p} : proc'[q] = proc[q]
    BY <1>1, <1>3 DEF EmitCheck, EmitExhausted, EmitSend, RecordLoad, RecordCommit, RecordRaises,
                      Process
  <2> QED
    BY <2>1 DEF Clear, Delivering
<1>4. CASE EmitReturns(p) \/ Crash(p)
  <2>1. proc' = [proc EXCEPT ![p] = Idle]
    BY <1>4 DEF EmitReturns, Crash
  <2> QED
    BY <1>1, <2>1, IdleIs DEF Clear, Delivering
<1>5. CASE Drain(p)
  <2>1. /\ p = d /\ outbox' = outbox
        /\ proc' = [proc EXCEPT ![p] = IF Batch = {} THEN Idle
                                       ELSE [Idle EXCEPT !.pc = "draining", !.batch = Batch]]
    BY <1>5 DEF Drain
  <2>2. \A i \in Batch : outbox[i].status # "delivered"
    BY DEF Batch, Due
  <2>3. CASE Batch = {}
    BY <1>1, <2>1, <2>3, IdleIs DEF Clear, Delivering
  <2>4. CASE Batch # {}
    <3>1. /\ proc'[p].pc = "draining" /\ proc'[p].batch = Batch
          /\ \A q \in Procs \ {p} : proc'[q] = proc[q]
      BY <1>1, <2>1, <2>4, IdleIs DEF Process
    <3> QED
      BY <2>1, <2>2, <3>1 DEF Clear
  <2> QED
    BY <2>3, <2>4
<1>6. CASE DeliverLoad(p)
  <2>1. PICK i \in proc[p].batch :
           /\ proc[p].pc = "draining" /\ outbox' = outbox
           /\ proc' = [proc EXCEPT ![p].pc = "loaded", ![p].event = i,
                                   ![p].seen = [Fresh EXCEPT !.status = outbox[i].status]]
    BY <1>6 DEF DeliverLoad
  <2>2. /\ proc'[p].pc = "loaded" /\ proc'[p].batch = proc[p].batch /\ proc'[p].event = i
        /\ \A q \in Procs \ {p} : proc'[q] = proc[q]
    BY <1>1, <2>1 DEF Process
  <2> QED
    BY <1>2, <2>1, <2>2 DEF Clear, Delivering
<1>7. CASE DeliverSend(p)
  <2>1. /\ proc[p].pc = "loaded" /\ outbox' = outbox
        /\ \E answer \in BOOLEAN :
              proc' = [proc EXCEPT ![p].pc = "posted", ![p].answer = answer]
    BY <1>7 DEF DeliverSend
  <2>2. /\ proc'[p].pc = "posted" /\ proc'[p].batch = proc[p].batch
        /\ proc'[p].event = proc[p].event
        /\ \A q \in Procs \ {p} : proc'[q] = proc[q]
    BY <1>1, <2>1 DEF Process
  <2> QED
    BY <1>2, <2>1, <2>2 DEF Clear, Delivering
<1>8. CASE DeliverCommit(p)
  <2> DEFINE rest == proc[p].batch \ {proc[p].event}
  <2>1. /\ proc[p].pc = "posted"
        /\ proc' = [proc EXCEPT ![p] = IF rest = {} THEN Idle
                                       ELSE [Idle EXCEPT !.pc = "draining", !.batch = rest]]
        /\ \A i \in 1..Len(outbox) : i # proc[p].event => outbox'[i] = outbox[i]
    BY <1>1, <1>8 DEF DeliverCommit
  <2>2. p = d /\ \A i \in rest : outbox'[i].status # "delivered"
    BY <1>1, <1>2, <2>1 DEF Clear, Delivering, Work
  <2> HIDE DEF rest
  <2>3. CASE rest = {}
    BY <1>1, <2>1, <2>3, IdleIs DEF Clear, Delivering
  <2>4. CASE rest # {}
    <3>1. /\ proc'[p].pc = "draining" /\ proc'[p].batch = rest
          /\ \A q \in Procs \ {p} : proc'[q] = proc[q]
      BY <1>1, <2>1, <2>4, IdleIs DEF Process
    <3> QED
      BY <2>2, <3>1 DEF Clear
  <2> QED
    BY <2>3, <2>4
<1> QED
  BY <1>3, <1>4, <1>5, <1>6, <1>7, <1>8 DEF Emit, Deliver

LEMMA DrainStep ==
    ASSUME IInv, [Next]_vars, NEW d, Drainers = {d}, DrainInv(d)
    PROVE  DrainInv(d)' /\ Final
<1>1. CASE autoDrain
  <2>1. autoDrain' = autoDrain
    BY DEF Next, vars, Announce, Emit, RecordRaises, EmitCheck, EmitExhausted, EmitSend,
           RecordLoad, RecordCommit, EmitReturns, Deliver, Drain, DeliverLoad, DeliverSend,
           DeliverCommit, Crash, OutageBegins, OutageEnds
  <2> QED
    BY <1>1, <2>1 DEF DrainInv, Final
<1>2. CASE ~autoDrain
  <2>1. /\ Len(outbox) \in Nat /\ outbox \in Seq(Row)
        /\ \A p \in Procs : Work(proc[p], Len(outbox), accepted) /\ Clear(p, d, proc[p], outbox)
    BY <1>2 DEF IInv, TypeOK, DrainInv, Clear
  <2>2. \A i \in 1..Len(outbox) :
           outbox[i].status = "delivered" => outbox'[i].status = "delivered"
    <3>1. ASSUME NEW p \in Procs, DeliverCommit(p)
          PROVE  \A i \in 1..Len(outbox) :
                    outbox[i].status = "delivered" => outbox'[i].status = "delivered"
      <4>1. /\ proc[p].pc = "posted"
            /\ \A i \in 1..Len(outbox) : i # proc[p].event => outbox'[i] = outbox[i]
        BY <2>1, <3>1 DEF DeliverCommit
      <4>2. outbox[proc[p].event].status # "delivered"
        BY <2>1, <4>1 DEF Clear, Delivering
      <4> QED
        BY <4>1, <4>2
    <3> QED
      BY <1>2, <3>1, RowsStep
  <2>3. \A p \in Procs : DeliverSend(p) => outbox[proc[p].event].status # "delivered"
    <3>1. \A p \in Procs : DeliverSend(p) => proc[p].pc = "loaded"
      BY DEF DeliverSend
    <3> QED
      BY <2>1, <3>1 DEF Clear, Delivering
  <2>4. autoDrain' = autoDrain
    BY <1>2, RowsStep
  <2>5. ASSUME NEW p \in Procs PROVE Clear(p, d, proc'[p], outbox')
    <3>1. CASE \E q \in Procs : /\ \A r \in Procs \ {q} : proc'[r] = proc[r]
                                /\ Clear(q, d, proc'[q], outbox')
      <4>1. PICK q \in Procs : /\ \A r \in Procs \ {q} : proc'[r] = proc[r]
                               /\ Clear(q, d, proc'[q], outbox')
        BY <3>1
      <4>2. CASE p = q
        BY <4>1, <4>2
      <4>3. CASE p # q
        <5>1. proc'[p] = proc[p]
          BY <4>1, <4>3
        <5>2. CASE proc[p].pc \notin Delivering
          BY <2>1, <5>1, <5>2 DEF Clear, Delivering
        <5>3. CASE proc[p].pc \in Delivering
          \* Then it is the drainer, and nobody else commits a row.
          <6>1. p = d /\ \A r \in Procs : DeliverCommit(r) => r = d
            BY <2>1, <5>3 DEF Clear, Delivering, DeliverCommit
          <6>2. \A r \in Procs : DeliverCommit(r) => proc'[r] # proc[r]
            <7> SUFFICES ASSUME NEW r \in Procs, DeliverCommit(r) PROVE proc'[r] # proc[r]
              OBVIOUS
            <7>1. proc[r].pc = "posted" /\ proc'[r].pc \in {"idle", "draining"}
              BY IdleIs DEF DeliverCommit, IInv, TypeOK, Process
            <7> QED
              BY <7>1
          <6>3. \A i \in 1..Len(outbox) : outbox'[i] = outbox[i]
            BY <1>2, <5>1, <6>1, <6>2, RowsStep
          <6> QED
            BY <2>1, <5>1, <6>3 DEF Clear, Work
        <5> QED
          BY <5>2, <5>3
      <4> QED
        BY <4>2, <4>3
    <3>2. CASE \E q \in Emitters, a \in Approvals, retry \in BOOLEAN : Announce(q, a, retry)
      <4>1. PICK q \in Emitters, a \in Approvals, retry \in BOOLEAN : Announce(q, a, retry)
        BY <3>2
      <4>2. /\ q \in Procs /\ proc'[q].pc = "enqueued"
            /\ \A r \in Procs \ {q} : proc'[r] = proc[r]
        BY <4>1, IdleIs DEF Announce, Procs, IInv, TypeOK, Process
      <4> QED
        BY <3>1, <4>2 DEF Clear, Delivering
    <3>3. CASE \E q \in Emitters : Emit(q) \/ RecordRaises(q)
      BY <1>2, <3>1, <3>3, OwnClear DEF Procs
    <3>4. CASE \E q \in Procs : Deliver(q) \/ Crash(q)
      BY <1>2, <3>1, <3>4, OwnClear
    <3>5. CASE OutageBegins \/ OutageEnds \/ UNCHANGED vars
      <4>1. UNCHANGED <<proc, outbox>>
        BY <3>5 DEF OutageBegins, OutageEnds, vars
      <4> QED
        BY <2>1, <4>1
    <3> QED
      BY <3>2, <3>3, <3>4, <3>5 DEF Next
  <2> QED
    BY <1>2, <2>2, <2>3, <2>4, <2>5 DEF DrainInv, Final, Clear
<1> QED
  BY <1>1, <1>2

\* With one drainer and no auto-drain, a row once delivered stays so and is never posted again,
\* whatever emitters, outages and crashes do meanwhile.
THEOREM OneDrainerIsFinal ==
    ASSUME NEW d, Drainers = {d}
    PROVE  Spec => DeliveredIsFinal
<1>1. Init => DrainInv(d)
  BY IdleIs DEF Init, DrainInv, Delivering
<1>2. IInv /\ DrainInv(d) /\ [Next]_vars => DrainInv(d)' /\ Final
  BY DrainStep
<1>3. Final => (~autoDrain =>
          /\ \A i \in 1..Len(outbox) :
                outbox[i].status = "delivered" => outbox'[i].status = "delivered"
          /\ \A p \in Procs :
                DeliverSend(p) => outbox[proc[p].event].status # "delivered")
  BY DEF Final
<1> QED
  BY <1>1, <1>2, <1>3, Invariance, PTL DEF Spec, DeliveredIsFinal

-----------------------------------------------------------------------------
(* One emitter: attempts are bounded and counted                           *)

Asked(rows, a, n) == {i \in 1..n : rows[i].about = a /\ rows[i].retry}

LEMMA AskedIs ==
    ASSUME NEW rows, NEW a, NEW n \in Nat
    PROVE  IsFiniteSet(Asked(rows, a, n)) /\ Cardinality(Asked(rows, a, n)) \in Nat
<1>1. IsFiniteSet(1..n) /\ Asked(rows, a, n) \in SUBSET (1..n)
  BY FS_Interval DEF Asked
<1> QED
  BY <1>1, FS_Subset, FS_CardinalityType

\* The row after the first n is counted when it is a retry of this approval.
LEMMA AskedNext ==
    ASSUME NEW rows, NEW a, NEW n \in Nat
    PROVE  /\ Cardinality(Asked(rows, a, n)) <= Cardinality(Asked(rows, a, n + 1))
           /\ rows[n + 1].about = a /\ rows[n + 1].retry =>
                 Cardinality(Asked(rows, a, n + 1)) = Cardinality(Asked(rows, a, n)) + 1
<1>1. IsFiniteSet(Asked(rows, a, n)) /\ IsFiniteSet(Asked(rows, a, n + 1))
  BY AskedIs
<1>2. Asked(rows, a, n) \in SUBSET Asked(rows, a, n + 1)
  BY DEF Asked
<1>3. ASSUME rows[n + 1].about = a, rows[n + 1].retry
      PROVE  /\ Asked(rows, a, n + 1) = Asked(rows, a, n) \union {n + 1}
             /\ n + 1 \notin Asked(rows, a, n)
  BY <1>3 DEF Asked
<1> QED
  BY <1>1, <1>2, <1>3, FS_Subset, FS_AddElement

LEMMA AskedSame ==
    ASSUME NEW rows, NEW other, NEW a, NEW n \in Nat,
           \A i \in 1..n : rows[i].about = other[i].about /\ rows[i].retry = other[i].retry
    PROVE  Asked(rows, a, n) = Asked(other, a, n)
BY DEF Asked

Announcing == {"enqueued", "checked", "answered", "recording"}

\* The rows whose direct sending is over: all but the one being announced.
Settled(e) == IF proc[e].pc \in Announcing THEN Len(outbox) - 1 ELSE Len(outbox)

\* A request made for a and not recorded yet.
Pending(e, a) ==
    IF proc[e].pc \in {"answered", "recording"} /\ outbox[proc[e].event].about = a
    THEN 1 ELSE 0

\* The emitter works on the youngest row, and what it has read of the approval is current.
Current(e) ==
    LET x == proc[e]
        h == hook[outbox[x.event].about]
    IN  /\ x.pc \in Announcing => x.event = Len(outbox)
        /\ x.pc \in {"checked", "answered", "recording"} => x.attempts = h.attempts
        /\ x.pc \in {"answered", "recording"} => ~Spent(e)
        /\ x.pc = "recording" => x.seen = h

Counted(e, a) ==
    /\ hook[a].attempts <= MaxAttempts + Cardinality(Asked(outbox, a, Settled(e)))
    /\ hook[a].attempts + Pending(e, a) <= direct[a]
    /\ direct[a] <= hook[a].attempts + faults + Pending(e, a)
    /\ hook[a].status = "exhausted" => hook[a].attempts >= MaxAttempts

EmitInv(e) == Current(e) /\ \A a \in Approvals : Counted(e, a)

LEMMA Types ==
    ASSUME IInv, NEW e \in Procs
    PROVE  /\ outbox \in Seq(Row) /\ Len(outbox) \in Nat /\ faults \in Nat
           /\ hook \in [Approvals -> Hook] /\ direct \in [Approvals -> Nat]
           /\ proc \in [Procs -> Process] /\ proc[e] \in Process
           /\ \A a \in Approvals : hook[a].attempts \in Nat /\ direct[a] \in Nat
           /\ proc[e].pc \in Announcing => proc[e].event \in 1..Len(outbox) /\ Len(outbox) # 0
           /\ Settled(e) \in Nat /\ Settled(e) <= Len(outbox)
           /\ MaxAttempts \in Nat
           /\ \A a \in Approvals : Pending(e, a) \in {0, 1}
<1>1. /\ outbox \in Seq(Row) /\ Len(outbox) \in Nat /\ faults \in Nat
      /\ hook \in [Approvals -> Hook] /\ direct \in [Approvals -> Nat]
      /\ proc \in [Procs -> Process] /\ proc[e] \in Process
      /\ Work(proc[e], Len(outbox), accepted)
  BY DEF IInv, TypeOK
<1>2. proc[e].pc \in Announcing => proc[e].event \in 1..Len(outbox) /\ Len(outbox) # 0
  BY <1>1 DEF Work, Announcing
<1>3. \A a \in Approvals : hook[a].attempts \in Nat /\ direct[a] \in Nat
  BY <1>1 DEF Hook
<1>4. Settled(e) \in Nat /\ Settled(e) <= Len(outbox)
  BY <1>1, <1>2 DEF Settled
<1> QED
  BY <1>1, <1>2, <1>3, <1>4, WebhookAssumption DEF Pending

\* The rows that were there are still there, about what they were.
SameRows ==
    /\ Len(outbox') >= Len(outbox)
    /\ \A i \in 1..Len(outbox) :
          outbox'[i].about = outbox[i].about /\ outbox'[i].retry = outbox[i].retry

\* The rows settled only grow, and with them the retries counted.
LEMMA AskedGrows ==
    ASSUME IInv, IInv', NEW e \in Procs, NEW a \in Approvals, SameRows,
           Settled(e) <= Settled(e)', Settled(e)' <= Settled(e) + 1
    PROVE  /\ Cardinality(Asked(outbox, a, Settled(e))) \in Nat
           /\ Cardinality(Asked(outbox', a, Settled(e)')) \in Nat
           /\ Cardinality(Asked(outbox, a, Settled(e)))
                 <= Cardinality(Asked(outbox', a, Settled(e)'))
<1> DEFINE n == Settled(e)
           m == Settled(e)'
           s == outbox'
<1>1. n \in Nat /\ m \in Int
  BY Types DEF Settled, IInv, TypeOK
<1>2. n <= Len(outbox) /\ Len(outbox) \in Nat
  BY Types
<1>3. Asked(outbox, a, n) = Asked(s, a, n)
  BY <1>1, <1>2, AskedSame DEF SameRows
<1>4. m = n \/ m = n + 1
  BY <1>1
<1> HIDE DEF n, m, s
<1>5. Cardinality(Asked(s, a, n)) \in Nat /\ Cardinality(Asked(s, a, m)) \in Nat
  BY <1>1, <1>4, AskedIs
<1>6. Cardinality(Asked(s, a, n)) <= Cardinality(Asked(s, a, m))
  BY <1>1, <1>4, <1>5, AskedNext
<1> QED
  BY <1>3, <1>5, <1>6 DEF n, m, s

\* A step that sends nothing for a directly, nor records it.
LEMMA CountedStill ==
    ASSUME IInv, IInv', NEW e \in Procs, NEW a \in Approvals, Counted(e, a), SameRows,
           Settled(e) <= Settled(e)', Settled(e)' <= Settled(e) + 1,
           direct'[a] = direct[a], hook'[a].attempts = hook[a].attempts,
           hook'[a].status = "exhausted" =>
              hook[a].status = "exhausted" \/ hook[a].attempts >= MaxAttempts,
           Pending(e, a) + faults <= Pending(e, a)' + faults',
           Pending(e, a)' <= Pending(e, a)
    PROVE  Counted(e, a)'
<1> DEFINE c == Cardinality(Asked(outbox, a, Settled(e)))
           k == Cardinality(Asked(outbox', a, Settled(e)'))
<1>1. c \in Nat /\ k \in Nat /\ c <= k
  BY AskedGrows
<1>2. /\ hook[a].attempts <= MaxAttempts + c /\ hook[a].attempts + Pending(e, a) <= direct[a]
      /\ direct[a] <= hook[a].attempts + faults + Pending(e, a)
      /\ hook[a].status = "exhausted" => hook[a].attempts >= MaxAttempts
  BY DEF Counted
<1>3. /\ Pending(e, a) \in Nat /\ Pending(e, a)' \in Nat /\ faults \in Nat /\ faults' \in Nat
      /\ MaxAttempts \in Nat /\ hook[a].attempts \in Nat /\ direct[a] \in Nat
  BY Types DEF IInv, TypeOK, Pending
<1> HIDE DEF c, k
<1>4. /\ hook'[a].attempts <= MaxAttempts + k
      /\ hook'[a].attempts + Pending(e, a)' <= direct'[a]
      /\ direct'[a] <= hook'[a].attempts + faults' + Pending(e, a)'
      /\ hook'[a].status = "exhausted" => hook'[a].attempts >= MaxAttempts
  BY <1>1, <1>2, <1>3
<1> QED
  BY <1>4 DEF Counted, k

\* Every row that was there is about what it was about.
LEMMA RowsStay == IInv /\ [Next]_vars => SameRows
<1> SUFFICES ASSUME IInv, [Next]_vars PROVE SameRows
  OBVIOUS
<1>1. outbox \in Seq(Row) /\ Len(outbox) \in Nat
  BY DEF IInv, TypeOK
<1>2. CASE \E p \in Emitters, a \in Approvals, retry \in BOOLEAN : Announce(p, a, retry)
  <2>1. PICK p \in Emitters, a \in Approvals, retry \in BOOLEAN : Announce(p, a, retry)
    BY <1>2
  <2> DEFINE row == [about |-> a, retry |-> retry, status |-> "pending"]
  <2>2. outbox' = Append(outbox, row) /\ row \in Row
    BY <2>1 DEF Announce, Row, Statuses
  <2> HIDE DEF row
  <2> QED
    BY <1>1, <2>2 DEF SameRows
<1>3. CASE \E p \in Procs : DeliverCommit(p)
  <2>1. PICK p \in Procs : DeliverCommit(p)
    BY <1>3
  <2>2. PICK st :
           outbox' = [outbox EXCEPT ![proc[p].event] = [outbox[proc[p].event] EXCEPT !.status = st]]
    BY <2>1 DEF DeliverCommit
  <2>3. proc[p].event \in 1..Len(outbox)
    BY <2>1 DEF DeliverCommit, IInv, Work
  <2>4. outbox[proc[p].event] \in Row
    BY <1>1, <2>3
  <2> QED
    BY <1>1, <2>2, <2>3, <2>4 DEF SameRows, Row
<1>4. CASE UNCHANGED outbox
  BY <1>1, <1>4 DEF SameRows
<1> QED
  BY <1>2, <1>3, <1>4 DEF Next, vars, Emit, RecordRaises, EmitCheck, EmitExhausted, EmitSend,
     RecordLoad, RecordCommit, EmitReturns, Deliver, Drain, DeliverLoad, DeliverSend, Crash,
     OutageBegins, OutageEnds

\* A step that leaves the announcement where it is, or is taken between announcements.
LEMMA AsideStep ==
    ASSUME IInv, IInv', SameRows, NEW e \in Procs, EmitInv(e),
           Len(outbox') = Len(outbox), UNCHANGED <<hook, direct>>, faults' >= faults,
           \/ proc'[e] = proc[e]
           \/ proc[e].pc \notin Announcing /\ proc'[e].pc \notin Announcing
    PROVE  EmitInv(e)'
<1>1. CASE proc'[e] = proc[e]
  <2>1. Settled(e)' = Settled(e)
    BY <1>1 DEF Settled
  <2>2. /\ proc[e].pc \in Announcing =>
              /\ outbox'[proc[e].event].about = outbox[proc[e].event].about
              /\ outbox'[proc[e].event].retry = outbox[proc[e].event].retry
    BY Types DEF SameRows
  <2>3. \A a \in Approvals : Pending(e, a)' = Pending(e, a)
    BY <1>1, <2>2 DEF Pending, Announcing
  <2>4. Spent(e)' = Spent(e) \/ proc[e].pc \notin Announcing
    BY <1>1, <2>2 DEF Spent
  <2>5. Current(e)'
    BY <1>1, <2>2, <2>4 DEF EmitInv, Current, Announcing
  <2>6. faults \in Nat /\ faults' \in Nat
    BY DEF IInv, TypeOK
  <2>7. Settled(e) \in Nat /\ \A a \in Approvals : Pending(e, a) \in {0, 1}
    BY Types
  <2>8. \A a \in Approvals : Counted(e, a)'
    BY <2>1, <2>3, <2>6, <2>7, CountedStill DEF EmitInv
  <2> QED
    BY <2>5, <2>8 DEF EmitInv
<1>2. CASE proc[e].pc \notin Announcing /\ proc'[e].pc \notin Announcing
  <2>1. Settled(e)' = Settled(e)
    BY <1>2 DEF Settled
  <2>2. \A a \in Approvals : Pending(e, a)' = 0 /\ Pending(e, a) = 0
    BY <1>2 DEF Pending, Announcing
  <2>3. Current(e)'
    BY <1>2 DEF Current, Announcing
  <2>4. faults \in Nat /\ faults' \in Nat /\ Settled(e) \in Nat
    BY Types DEF IInv, TypeOK
  <2>5. \A a \in Approvals : Counted(e, a)'
    BY <2>1, <2>2, <2>4, CountedStill DEF EmitInv
  <2> QED
    BY <2>3, <2>5 DEF EmitInv
<1> QED
  BY <1>1, <1>2

\* The emitter announces, reads, or dies.
LEMMA BetweenStep ==
    ASSUME IInv, IInv', SameRows, NEW e \in Emitters, EmitInv(e),
           \/ \E a \in Approvals, retry \in BOOLEAN : Announce(e, a, retry)
           \/ EmitCheck(e) \/ RecordRaises(e) \/ RecordLoad(e) \/ Crash(e)
    PROVE  EmitInv(e)'
<1>0. e \in Procs
  BY DEF Procs
<1>1. /\ proc \in [Procs -> Process] /\ proc[e] \in Process /\ faults \in Nat /\ faults' \in Nat
      /\ outbox \in Seq(Row) /\ Len(outbox) \in Nat /\ Settled(e) \in Nat
      /\ \A a \in Approvals : Pending(e, a) \in {0, 1}
      /\ proc[e].pc \in Announcing => Len(outbox) # 0 /\ proc[e].event \in 1..Len(outbox)
  BY <1>0, Types DEF IInv, TypeOK
<1>2. CASE \E a \in Approvals, retry \in BOOLEAN : Announce(e, a, retry)
  <2>1. PICK a \in Approvals, retry \in BOOLEAN : Announce(e, a, retry)
    BY <1>2
  <2>2. /\ proc[e].pc = "idle" /\ proc'[e].pc = "enqueued" /\ proc'[e].event = Len(outbox) + 1
        /\ Len(outbox') = Len(outbox) + 1
        /\ UNCHANGED <<hook, faults, direct>>
    BY <1>0, <1>1, <2>1, IdleIs DEF Announce, Process
  <2>3. Settled(e)' = Settled(e)
    BY <1>1, <2>2 DEF Settled, Announcing
  <2>4. \A b \in Approvals : Pending(e, b)' = 0 /\ Pending(e, b) = 0
    BY <2>2 DEF Pending
  <2>5. Current(e)'
    BY <2>2 DEF Current
  <2>6. \A b \in Approvals : Counted(e, b)'
    BY <1>0, <1>1, <2>2, <2>3, <2>4, CountedStill DEF EmitInv
  <2> QED
    BY <2>5, <2>6 DEF EmitInv
<1>3. CASE EmitCheck(e)
  <2>1. /\ proc[e].pc = "enqueued" /\ proc'[e].pc = "checked" /\ proc'[e].event = proc[e].event
        /\ proc'[e].attempts = hook[outbox[proc[e].event].about].attempts
        /\ UNCHANGED <<outbox, hook, faults, direct>>
    BY <1>0, <1>1, <1>3 DEF EmitCheck, Process
  <2>2. Settled(e)' = Settled(e) /\ \A b \in Approvals : Pending(e, b)' = 0 /\ Pending(e, b) = 0
    BY <2>1 DEF Settled, Pending, Announcing
  <2>3. Current(e)'
    BY <2>1 DEF EmitInv, Current, Announcing
  <2>4. \A a \in Approvals : Counted(e, a)'
    BY <1>0, <1>1, <2>1, <2>2, CountedStill DEF EmitInv
  <2> QED
    BY <2>3, <2>4 DEF EmitInv
<1>4. CASE RecordRaises(e) \/ RecordLoad(e)
  <2>1. /\ proc[e].pc = "answered" /\ proc'[e].pc \in {"answered", "recording"}
        /\ proc'[e].event = proc[e].event /\ proc'[e].attempts = proc[e].attempts
        /\ proc'[e].pc = "recording" => proc'[e].seen = hook[outbox[proc[e].event].about]
        /\ UNCHANGED <<outbox, hook, direct>> /\ faults' >= faults
    <3>1. CASE RecordRaises(e)
      <4>1. /\ proc[e].pc = "answered" /\ faults' = faults + 1
            /\ proc' = [proc EXCEPT ![e] = [proc[e] EXCEPT !.answer = FALSE]]
            /\ UNCHANGED <<outbox, hook, direct>>
        BY <3>1 DEF RecordRaises
      <4> QED
        BY <1>0, <1>1, <4>1 DEF Process
    <3>2. CASE RecordLoad(e)
      BY <1>0, <1>1, <3>2 DEF RecordLoad, Process
    <3> QED
      BY <1>4, <3>1, <3>2
  <2>2. Settled(e)' = Settled(e) /\ \A b \in Approvals : Pending(e, b)' = Pending(e, b)
    BY <2>1 DEF Settled, Pending, Announcing
  <2>3. Current(e)'
    BY <2>1 DEF EmitInv, Current, Announcing, Spent
  <2>4. \A a \in Approvals : Counted(e, a)'
    BY <1>0, <1>1, <2>1, <2>2, CountedStill DEF EmitInv
  <2> QED
    BY <2>3, <2>4 DEF EmitInv
<1>5. CASE Crash(e)
  <2>1. /\ proc'[e].pc = "idle" /\ faults' = faults + 1
        /\ UNCHANGED <<outbox, hook, direct>>
    BY <1>0, <1>1, <1>5, IdleIs DEF Crash
  <2>2. Settled(e)' = Len(outbox) /\ \A b \in Approvals : Pending(e, b)' = 0
    BY <2>1 DEF Settled, Pending, Announcing
  <2>3. Settled(e) <= Settled(e)' /\ Settled(e)' <= Settled(e) + 1
    BY <1>1, <2>2 DEF Settled
  <2>4. Current(e)'
    BY <2>1 DEF Current, Announcing
  <2>5. \A a \in Approvals : Counted(e, a)'
    BY <1>0, <1>1, <2>1, <2>2, <2>3, CountedStill DEF EmitInv
  <2> QED
    BY <2>4, <2>5 DEF EmitInv
<1> QED
  BY <1>2, <1>3, <1>4, <1>5

\* The emitter finds the attempts spent, or sends.
LEMMA DirectStep ==
    ASSUME IInv, IInv', NEW e \in Emitters, EmitInv(e), EmitExhausted(e) \/ EmitSend(e)
    PROVE  EmitInv(e)'
<1>0. e \in Procs
  BY DEF Procs
<1>b. PICK b : b = outbox[proc[e].event].about
  OBVIOUS
<1>1. /\ proc \in [Procs -> Process] /\ proc[e] \in Process /\ faults \in Nat
      /\ outbox \in Seq(Row) /\ Len(outbox) \in Nat /\ Settled(e) \in Nat
      /\ hook \in [Approvals -> Hook] /\ direct \in [Approvals -> Nat] /\ MaxAttempts \in Nat
      /\ \A a \in Approvals : hook[a].attempts \in Nat /\ direct[a] \in Nat
  BY <1>0, Types
<1>2. proc[e].pc = "checked" /\ outbox' = outbox /\ faults' = faults
  BY DEF EmitExhausted, EmitSend
<1>3. /\ proc[e].event = Len(outbox) /\ proc[e].attempts = hook[b].attempts
      /\ b \in Approvals /\ hook[b] \in Hook /\ Len(outbox) \in 1..Len(outbox)
  BY <1>0, <1>b, <1>2, Types, RowIs DEF EmitInv, Current, Announcing, IInv
<1>4. CASE EmitExhausted(e)
  <2>1. /\ proc'[e].pc = "emitted" /\ direct' = direct
        /\ hook' = [hook EXCEPT ![b] = [hook[b] EXCEPT !.status = "exhausted"]]
        /\ Spent(e)
    BY <1>0, <1>b, <1>1, <1>4 DEF EmitExhausted, Process
  <2>2. hook[b].attempts >= MaxAttempts
    BY <1>3, <2>1 DEF Spent
  <2>3. /\ \A a \in Approvals : hook'[a].attempts = hook[a].attempts
        /\ \A a \in Approvals : hook'[a].status = "exhausted" =>
              hook[a].status = "exhausted" \/ a = b
    BY <1>1, <1>3, <2>1 DEF Hook
  <2>4. Current(e)'
    BY <2>1 DEF Current, Announcing
  <2>5. \A a \in Approvals : Pending(e, a)' = 0 /\ Pending(e, a) = 0
    BY <1>2, <2>1 DEF Pending
  <2>6. Settled(e)' = Settled(e) + 1
    BY <1>1, <1>2, <2>1 DEF Settled, Announcing
  <2>8. \A a \in Approvals : Counted(e, a)'
    <3> SUFFICES ASSUME NEW a \in Approvals PROVE Counted(e, a)'
      OBVIOUS
    <3>1. SameRows
      BY <1>1, <1>2 DEF SameRows
    <3>2. /\ hook'[a].attempts = hook[a].attempts /\ direct'[a] = direct[a]
          /\ hook'[a].status = "exhausted" =>
                hook[a].status = "exhausted" \/ hook[a].attempts >= MaxAttempts
      BY <2>1, <2>2, <2>3
    <3>3. Pending(e, a) + faults <= Pending(e, a)' + faults' /\ Pending(e, a)' <= Pending(e, a)
      BY <1>1, <1>2, <2>5
    <3>4. Settled(e) <= Settled(e)' /\ Settled(e)' <= Settled(e) + 1
      BY <1>1, <2>6
    <3>5. Counted(e, a)
      BY DEF EmitInv
    <3> QED
      BY <1>0, <3>1, <3>2, <3>3, <3>4, <3>5, CountedStill
  <2> QED
    BY <2>4, <2>8 DEF EmitInv
<1>5. CASE EmitSend(e)
  <2>1. /\ proc'[e].pc = "answered" /\ proc'[e].event = proc[e].event
        /\ proc'[e].attempts = proc[e].attempts
        /\ direct' = [direct EXCEPT ![b] = direct[b] + 1] /\ hook' = hook /\ ~Spent(e)
    <3>1. PICK answer \in BOOLEAN :
             proc' = [proc EXCEPT ![e] = [proc[e] EXCEPT !.pc = "answered", !.answer = answer]]
      BY <1>5 DEF EmitSend
    <3>2. direct' = [direct EXCEPT ![b] = direct[b] + 1] /\ hook' = hook /\ ~Spent(e)
      BY <1>b, <1>5 DEF EmitSend
    <3> QED
      BY <1>0, <1>1, <3>1, <3>2 DEF Process
  <2>2. Current(e)'
    BY <1>b, <1>2, <1>3, <2>1 DEF EmitInv, Current, Announcing, Spent
  <2>3. Settled(e)' = Settled(e)
    BY <1>2, <2>1 DEF Settled, Announcing
  <2>4. \A a \in Approvals : Pending(e, a) = 0 /\ Pending(e, a)' = IF a = b THEN 1 ELSE 0
    BY <1>b, <1>2, <2>1 DEF Pending
  <2>5. \A a \in Approvals : direct'[a] = IF a = b THEN direct[a] + 1 ELSE direct[a]
    BY <1>1, <1>3, <2>1
  <2>6. ASSUME NEW a \in Approvals PROVE Counted(e, a)'
    <3> DEFINE c == Cardinality(Asked(outbox, a, Settled(e)))
    <3>1. Cardinality(Asked(outbox', a, Settled(e)')) = c
      BY <1>2, <2>3
    <3>2. c \in Nat
      BY <1>1, AskedIs
    <3> HIDE DEF c
    <3>3. /\ hook[a].attempts <= MaxAttempts + c
          /\ hook[a].attempts + Pending(e, a) <= direct[a]
          /\ direct[a] <= hook[a].attempts + faults + Pending(e, a)
          /\ hook[a].status = "exhausted" => hook[a].attempts >= MaxAttempts
      BY DEF EmitInv, Counted, c
    <3>4. /\ hook[a].attempts + Pending(e, a)' <= direct'[a]
          /\ direct'[a] <= hook[a].attempts + faults + Pending(e, a)'
      <4>1. CASE a = b
        BY <1>1, <2>4, <2>5, <3>3, <4>1
      <4>2. CASE a # b
        BY <1>1, <2>4, <2>5, <3>3, <4>2
      <4> QED
        BY <4>1, <4>2
    <3> QED
      BY <1>2, <2>1, <3>1, <3>3, <3>4 DEF Counted
  <2> QED
    BY <2>2, <2>6 DEF EmitInv
<1> QED
  BY <1>4, <1>5

\* The emitter records the request it made.
LEMMA RecordStep ==
    ASSUME IInv, IInv', NEW e \in Emitters, EmitInv(e), RecordCommit(e)
    PROVE  EmitInv(e)'
<1>0. e \in Procs
  BY DEF Procs
<1>b. PICK b : b = outbox[proc[e].event].about
  OBVIOUS
<1>1. /\ proc \in [Procs -> Process] /\ proc[e] \in Process /\ faults \in Nat
      /\ outbox \in Seq(Row) /\ Len(outbox) \in Nat /\ Settled(e) \in Nat
      /\ hook \in [Approvals -> Hook] /\ direct \in [Approvals -> Nat] /\ MaxAttempts \in Nat
      /\ \A a \in Approvals : hook[a].attempts \in Nat /\ direct[a] \in Nat
  BY <1>0, Types
<1>2. /\ proc[e].pc = "recording" /\ outbox' = outbox /\ faults' = faults /\ direct' = direct
      /\ proc'[e].pc = "emitted"
  BY <1>0, <1>1 DEF RecordCommit, Process
<1>3. /\ proc[e].event = Len(outbox) /\ proc[e].attempts = hook[b].attempts
      /\ proc[e].seen = hook[b] /\ ~Spent(e)
      /\ b \in Approvals /\ hook[b] \in Hook /\ Len(outbox) \in 1..Len(outbox)
  BY <1>0, <1>b, <1>2, Types, RowIs DEF EmitInv, Current, Announcing, IInv
<1>4. /\ hook'[b] = [status |-> StatusAfter(e), attempts |-> hook[b].attempts + 1]
      /\ \A a \in Approvals \ {b} : hook'[a] = hook[a]
  <2>1. Flushed(hook[b].status, proc[e].seen.status, StatusAfter(e)) = StatusAfter(e)
    BY <1>3 DEF Flushed
  <2>2. hook' = [hook EXCEPT ![b] =
                   [status   |-> Flushed(hook[b].status, proc[e].seen.status, StatusAfter(e)),
                    attempts |-> proc[e].seen.attempts + 1]]
    BY <1>b DEF RecordCommit
  <2> QED
    BY <1>1, <1>3, <2>1, <2>2
<1>5. StatusAfter(e) = "exhausted" => hook[b].attempts + 1 >= MaxAttempts
  BY <1>1, <1>3 DEF StatusAfter
<1>6. Settled(e)' = Settled(e) + 1 /\ Settled(e) + 1 = Len(outbox)
  BY <1>1, <1>2 DEF Settled, Announcing
<1>7. SameRows
  BY <1>1, <1>2 DEF SameRows
<1>8. /\ Pending(e, b) = 1 /\ Pending(e, b)' = 0
      /\ \A a \in Approvals \ {b} : Pending(e, a) = 0 /\ Pending(e, a)' = 0
  BY <1>b, <1>2 DEF Pending
<1>9. Current(e)'
  BY <1>2 DEF Current, Announcing
<1>10. \A a \in Approvals \ {b} : Counted(e, a)'
  <2> SUFFICES ASSUME NEW a \in Approvals \ {b} PROVE Counted(e, a)'
    OBVIOUS
  <2>1. hook'[a] = hook[a] /\ direct'[a] = direct[a]
    BY <1>2, <1>4
  <2>2. Pending(e, a) + faults <= Pending(e, a)' + faults' /\ Pending(e, a)' <= Pending(e, a)
    BY <1>1, <1>2, <1>8
  <2>3. Settled(e) <= Settled(e)' /\ Settled(e)' <= Settled(e) + 1
    BY <1>1, <1>6
  <2>4. a \in Approvals /\ Counted(e, a)
    BY DEF EmitInv
  <2> QED
    BY <1>0, <1>7, <2>1, <2>2, <2>3, <2>4, CountedStill
<1>11. Counted(e, b)'
  <2> DEFINE c == Cardinality(Asked(outbox, b, Settled(e)))
             k == Cardinality(Asked(outbox', b, Settled(e)'))
  <2>1. c \in Nat /\ k \in Nat /\ c <= k
    BY <1>0, <1>1, <1>3, <1>6, <1>7, AskedGrows
  <2>2. outbox[proc[e].event].retry => k = c + 1
    BY <1>b, <1>1, <1>2, <1>3, <1>6, AskedNext
  <2>3. /\ hook[b].attempts < MaxAttempts \/ outbox[proc[e].event].retry
        /\ hook[b].attempts <= MaxAttempts + c
        /\ hook[b].attempts + 1 <= direct[b] /\ direct[b] <= hook[b].attempts + faults + 1
    BY <1>1, <1>3, <1>8 DEF Spent, EmitInv, Counted
  <2>4. hook'[b].attempts = hook[b].attempts + 1 /\ hook'[b].status = StatusAfter(e)
    BY <1>4
  <2> HIDE DEF c, k
  <2>5. hook'[b].attempts <= MaxAttempts + k
    BY <1>1, <1>3, <2>1, <2>2, <2>3, <2>4
  <2>6. /\ hook'[b].attempts + Pending(e, b)' <= direct'[b]
        /\ direct'[b] <= hook'[b].attempts + faults' + Pending(e, b)'
    BY <1>1, <1>2, <1>3, <1>8, <2>3, <2>4
  <2>7. hook'[b].status = "exhausted" => hook'[b].attempts >= MaxAttempts
    BY <1>5, <2>4
  <2> QED
    BY <2>5, <2>6, <2>7 DEF Counted, k
<1> QED
  BY <1>9, <1>10, <1>11 DEF EmitInv

\* Delivering from the outbox changes neither its length nor what is kept of direct sends.
LEMMA DeliverKeeps ==
    ASSUME IInv, IInv', SameRows, NEW p \in Procs, Deliver(p)
    PROVE  Len(outbox') = Len(outbox) /\ UNCHANGED <<hook, direct, faults>>
<1>1. CASE DeliverCommit(p)
  <2>1. /\ DOMAIN outbox' = DOMAIN outbox /\ UNCHANGED <<hook, direct, faults>>
        /\ outbox \in Seq(Row) /\ outbox' \in Seq(Row) /\ Len(outbox') >= Len(outbox)
    BY <1>1 DEF DeliverCommit, IInv, TypeOK, SameRows
  <2>2. 1..Len(outbox') = 1..Len(outbox) /\ Len(outbox) \in Nat /\ Len(outbox') \in Nat
    BY <2>1
  <2> QED
    BY <2>1, <2>2
<1>2. CASE ~DeliverCommit(p)
  BY <1>2 DEF Deliver, Drain, DeliverLoad, DeliverSend
<1> QED
  BY <1>1, <1>2

LEMMA EmitStep ==
    ASSUME IInv, [Next]_vars, NEW e, Emitters = {e}, EmitInv(e)
    PROVE  EmitInv(e)'
<1>1. IInv' /\ SameRows /\ e \in Procs
  BY NextIInv, RowsStay DEF Procs
<1>2. proc \in [Procs -> Process] /\ faults \in Nat /\ faults' \in Nat
  BY <1>1 DEF IInv, TypeOK
<1>3. CASE \E p \in Emitters, a \in Approvals, retry \in BOOLEAN : Announce(p, a, retry)
  BY <1>1, <1>3, BetweenStep
<1>4. CASE EmitCheck(e) \/ RecordRaises(e) \/ RecordLoad(e)
  BY <1>1, <1>4, BetweenStep
<1>5. CASE EmitExhausted(e) \/ EmitSend(e)
  BY <1>1, <1>5, DirectStep
<1>6. CASE RecordCommit(e)
  BY <1>1, <1>6, RecordStep
<1>7. CASE EmitReturns(e) \/ Deliver(e)
  <2>1. Len(outbox') = Len(outbox) /\ UNCHANGED <<hook, direct, faults>>
    BY <1>1, <1>7, DeliverKeeps DEF EmitReturns
  <2>2. proc[e].pc \in {"idle", "emitted", "draining", "loaded", "posted"}
    BY <1>7 DEF EmitReturns, Deliver, Drain, DeliverLoad, DeliverSend, DeliverCommit
  <2>3. proc'[e].pc \in {"idle", "draining", "loaded", "posted"}
    <3>1. CASE EmitReturns(e)
      BY <1>1, <1>2, <3>1, IdleIs DEF EmitReturns
    <3>2. CASE Drain(e)
      BY <1>1, <1>2, <3>2, IdleIs DEF Drain, Process
    <3>3. CASE DeliverLoad(e)
      BY <1>1, <1>2, <3>3 DEF DeliverLoad, Process
    <3>4. CASE DeliverSend(e)
      BY <1>1, <1>2, <3>4 DEF DeliverSend, Process
    <3>5. CASE DeliverCommit(e)
      BY <1>1, <1>2, <3>5, IdleIs DEF DeliverCommit, Process
    <3> QED
      BY <1>7, <3>1, <3>2, <3>3, <3>4, <3>5 DEF Deliver
  <2> QED
    BY <1>1, <1>2, <2>1, <2>2, <2>3, AsideStep DEF Announcing
<1>8. CASE Crash(e)
  BY <1>1, <1>8, BetweenStep
<1>9. CASE \E p \in Procs \ {e} : Deliver(p) \/ Crash(p)
  <2>1. PICK p \in Procs \ {e} : Deliver(p) \/ Crash(p)
    BY <1>9
  <2>2. Len(outbox') = Len(outbox) /\ UNCHANGED <<hook, direct>> /\ faults' >= faults
    BY <1>1, <1>2, <2>1, DeliverKeeps DEF Crash
  <2>3. proc'[e] = proc[e]
    BY <1>1, <1>2, <2>1 DEF Deliver, Drain, DeliverLoad, DeliverSend, DeliverCommit, Crash
  <2> QED
    BY <1>1, <2>2, <2>3, AsideStep
<1>10. CASE OutageBegins \/ OutageEnds \/ UNCHANGED vars
  <2>1. UNCHANGED <<outbox, hook, direct, faults, proc>>
    BY <1>10 DEF OutageBegins, OutageEnds, vars
  <2> QED
    BY <1>1, <1>2, <2>1, AsideStep
<1> QED
  BY <1>3, <1>4, <1>5, <1>6, <1>7, <1>8, <1>9, <1>10 DEF Next, Emit

LEMMA InitEmitInv == ASSUME NEW e, Emitters = {e}, Init PROVE EmitInv(e)
<1>1. /\ proc[e].pc = "idle" /\ Len(outbox) = 0 /\ faults = 0
      /\ \A a \in Approvals : hook[a].attempts = 0 /\ hook[a].status = "pending" /\ direct[a] = 0
  BY IdleIs DEF Init, Procs, Fresh
<1>2. \A a \in Approvals : Cardinality(Asked(outbox, a, Settled(e))) \in Nat
  <2>1. Settled(e) \in Nat
    BY <1>1 DEF Settled, Announcing
  <2> QED
    BY <2>1, AskedIs
<1>3. \A a \in Approvals : Pending(e, a) = 0
  BY <1>1 DEF Pending
<1> QED
  BY <1>1, <1>2, <1>3, WebhookAssumption DEF EmitInv, Current, Counted, Announcing

\* With one emitter, the attempts for an approval stop at the maximum but for those an operator
\* asks for, are counted unless a process dies, and an approval shown as exhausted had as many
\* as are allowed; whatever drainers, outages and crashes do meanwhile.
THEOREM OneEmitterIsBounded ==
    ASSUME NEW e, Emitters = {e}
    PROVE  Spec => []AttemptsBounded
<1>1. Init => EmitInv(e)
  BY InitEmitInv
<1>2. IInv /\ EmitInv(e) /\ [Next]_vars => EmitInv(e)'
  BY EmitStep
<1>3. IInv /\ EmitInv(e) => AttemptsBounded
  <2> SUFFICES ASSUME IInv, EmitInv(e), NEW a \in Approvals
               PROVE  /\ hook[a].attempts <= MaxAttempts + RetriesOf(a)
                      /\ hook[a].attempts <= direct[a]
                      /\ direct[a] <= hook[a].attempts + faults
                           + (IF \E p \in Emitters : /\ proc[p].pc \in {"answered", "recording"}
                                                     /\ outbox[proc[p].event].about = a
                              THEN 1 ELSE 0)
                      /\ hook[a].status = "exhausted" => hook[a].attempts >= MaxAttempts
    BY DEF AttemptsBounded
  <2>1. /\ Len(outbox) \in Nat /\ Settled(e) \in Nat /\ MaxAttempts \in Nat
        /\ hook[a].attempts \in Nat /\ direct[a] \in Nat /\ Pending(e, a) \in {0, 1}
        /\ faults \in Nat /\ Settled(e) <= Len(outbox)
    BY Types DEF Procs
  <2>2. /\ Asked(outbox, a, Settled(e)) \in SUBSET Asked(outbox, a, Len(outbox))
        /\ RetriesOf(a) = Cardinality(Asked(outbox, a, Len(outbox)))
    BY <2>1 DEF Asked, RetriesOf
  <2>3. /\ Cardinality(Asked(outbox, a, Settled(e))) \in Nat
        /\ RetriesOf(a) \in Nat
        /\ Cardinality(Asked(outbox, a, Settled(e))) <= RetriesOf(a)
    BY <2>1, <2>2, AskedIs, FS_Subset
  <2>4. (IF \E p \in Emitters : /\ proc[p].pc \in {"answered", "recording"}
                                /\ outbox[proc[p].event].about = a
         THEN 1 ELSE 0) = Pending(e, a)
    BY DEF Pending
  <2>5. /\ hook[a].attempts <= MaxAttempts + Cardinality(Asked(outbox, a, Settled(e)))
        /\ hook[a].attempts + Pending(e, a) <= direct[a]
        /\ direct[a] <= hook[a].attempts + faults + Pending(e, a)
        /\ hook[a].status = "exhausted" => hook[a].attempts >= MaxAttempts
    BY DEF EmitInv, Counted
  <2> QED
    BY <2>1, <2>3, <2>4, <2>5
<1> QED
  BY <1>1, <1>2, <1>3, Invariance, PTL DEF Spec

-----------------------------------------------------------------------------
(* Auto-drain: the outbox is empty at rest                                 *)

\* With auto-drain, and nothing has failed.
Calm == autoDrain /\ outages = 0 /\ faults = 0

\* Who will still see to row i: an emitter that has not drained yet, or one with the row
\* before it.
Tends(x, i) ==
    \/ x.pc \in Announcing \union {"emitted"}
    \/ x.pc \in Delivering /\ i \in x.batch

\* A row the receiver would take is loaded as it is, or before it is delivered, and taken.
Careful(x, rows) ==
    /\ x.pc \in {"loaded", "posted"} => x.event \in x.batch
    /\ (x.pc \in {"loaded", "posted"} /\ x.event \notin Rejected /\ x.seen.status = "delivered")
          => rows[x.event].status = "delivered"
    /\ x.pc = "posted" /\ x.event \notin Rejected => x.answer

Undelivered(rows, n) == {i \in 1..n : i \notin Rejected /\ rows[i].status # "delivered"}

Attended ==
    /\ up
    /\ \A i \in 1..Len(outbox) : outbox[i].status # "exhausted"
    /\ \A p \in Procs : Careful(proc[p], outbox)
    /\ \A i \in Undelivered(outbox, Len(outbox)) : \E p \in Emitters : Tends(proc[p], i)

\* The drain of an emitter is not cut short by its limit.
Roomy == (\E p \in Emitters : proc[p].pc = "emitted") => Due \subseteq Batch

\* What one process does while all is calm.
Attends(p) ==
    /\ up' = up
    /\ \A q \in Procs \ {p} : proc'[q] = proc[q]
    /\ Len(outbox) <= Len(outbox') /\ Len(outbox') \in Nat
    /\ p \notin Emitters \/ proc[p].pc # "idle" => Len(outbox') = Len(outbox)
    /\ \A i \in 1..Len(outbox) : i \notin Rejected /\ outbox[i].status = "delivered" =>
                                    outbox'[i].status = "delivered"
    /\ \A i \in 1..Len(outbox') : outbox'[i].status # "exhausted"
    /\ Careful(proc'[p], outbox')
    /\ p \in Emitters =>
          \A i \in Undelivered(outbox', Len(outbox')) :
             i > Len(outbox) \/ Tends(proc[p], i) => Tends(proc'[p], i)
    /\ p \in Emitters /\ proc'[p].pc \in Announcing \union {"emitted"} =>
          \/ proc[p].pc \in Announcing /\ Len(outbox') = Len(outbox)
          \/ proc[p].pc = "idle" /\ Len(outbox') = Len(outbox) + 1

LEMMA AnnounceAttends ==
    ASSUME IInv, Attended, NEW p \in Emitters, NEW a \in Approvals, NEW retry \in BOOLEAN,
           Announce(p, a, retry)
    PROVE  Attends(p)
<1> DEFINE row == [about |-> a, retry |-> retry, status |-> "pending"]
           x == [Idle EXCEPT !.pc = "enqueued", !.event = Len(outbox) + 1]
<1>1. /\ outbox' = Append(outbox, row) /\ row \in Row /\ row.status = "pending"
      /\ proc' = [proc EXCEPT ![p] = x] /\ proc[p].pc = "idle" /\ up' = up
  BY DEF Announce, Row, Statuses
<1>2. x.pc = "enqueued"
  BY DEF Idle
<1>3. outbox \in Seq(Row) /\ Len(outbox) \in Nat /\ proc \in [Procs -> Process] /\ p \in Procs
  BY DEF IInv, TypeOK, Procs
<1> HIDE DEF row, x
<1>4. /\ Len(outbox') = Len(outbox) + 1
      /\ \A i \in 1..Len(outbox) : outbox'[i] = outbox[i]
      /\ outbox'[Len(outbox) + 1] = row
  BY <1>1, <1>3
<1>5. proc'[p] = x /\ \A q \in Procs \ {p} : proc'[q] = proc[q]
  BY <1>1, <1>3
<1>6. \A i \in 1..Len(outbox') : outbox'[i].status # "exhausted"
  BY <1>1, <1>3, <1>4 DEF Attended
<1> QED
  BY <1>1, <1>2, <1>3, <1>4, <1>5, <1>6 DEF Attends, Careful, Tends, Announcing, Delivering

\* The steps of an announcement, up to the drain.
LEMMA EmitAttends ==
    ASSUME IInv, Attended, Calm, NEW p \in Emitters,
           EmitCheck(p) \/ EmitExhausted(p) \/ EmitSend(p) \/ RecordLoad(p) \/ RecordCommit(p)
    PROVE  Attends(p)
<1>1. outbox \in Seq(Row) /\ Len(outbox) \in Nat /\ proc \in [Procs -> Process] /\ p \in Procs
      /\ proc[p] \in Process
  BY DEF IInv, TypeOK, Procs
<1>2. /\ proc[p].pc \in Announcing /\ proc'[p].pc \in {"checked", "answered", "recording", "emitted"}
      /\ \A q \in Procs \ {p} : proc'[q] = proc[q]
      /\ UNCHANGED <<outbox, up>>
  BY <1>1 DEF EmitCheck, EmitExhausted, EmitSend, RecordLoad, RecordCommit, Process, Announcing
<1> QED
  BY <1>1, <1>2 DEF Attends, Attended, Careful, Tends, Announcing, Delivering

\* An emitter drains all that is due.
LEMMA DrainAttends ==
    ASSUME IInv, Attended, Roomy, NEW p \in Procs, Drain(p)
    PROVE  Attends(p)
<1>1. outbox \in Seq(Row) /\ Len(outbox) \in Nat /\ proc \in [Procs -> Process]
  BY DEF IInv, TypeOK
<1>2. /\ UNCHANGED <<outbox, up>>
      /\ proc' = [proc EXCEPT ![p] = IF Batch = {} THEN Idle
                                     ELSE [Idle EXCEPT !.pc = "draining", !.batch = Batch]]
      /\ p \in Emitters => proc[p].pc = "emitted"
  BY WebhookAssumption DEF Drain
<1>3. p \in Emitters => Undelivered(outbox, Len(outbox)) \subseteq Batch
  <2>1. \A i \in 1..Len(outbox) : outbox[i].status \in Statuses
    BY RowIs DEF IInv
  <2>2. Undelivered(outbox, Len(outbox)) \subseteq Due
    BY <2>1 DEF Undelivered, Due, Attended, Statuses
  <2> QED
    BY <1>2, <2>2 DEF Roomy
<1>4. \A q \in Procs \ {p} : proc'[q] = proc[q]
  BY <1>1, <1>2
<1>5. \/ proc'[p].pc = "idle" /\ Batch = {}
      \/ proc'[p].pc = "draining" /\ proc'[p].batch = Batch
  BY <1>1, <1>2, IdleIs DEF Process
<1>6. Careful(proc'[p], outbox')
  BY <1>5 DEF Careful
<1>7. /\ p \in Emitters =>
            \A i \in Undelivered(outbox', Len(outbox')) : Tends(proc'[p], i)
      /\ proc'[p].pc \notin Announcing \union {"emitted"}
  BY <1>2, <1>3, <1>5 DEF Tends, Delivering, Announcing
<1> QED
  BY <1>1, <1>2, <1>4, <1>6, <1>7 DEF Attends, Attended

\* A process goes on delivering, and no row changes.
LEMMA StillAttends ==
    ASSUME Attended, NEW p \in Procs, Len(outbox) \in Nat, UNCHANGED <<outbox, up>>,
           proc[p].pc \in Delivering, proc'[p].pc \in Delivering,
           proc'[p].batch = proc[p].batch,
           \A q \in Procs \ {p} : proc'[q] = proc[q], Careful(proc'[p], outbox')
    PROVE  Attends(p)
<1>1. \A i : Tends(proc[p], i) => Tends(proc'[p], i)
  BY DEF Tends, Delivering, Announcing
<1>2. proc'[p].pc \notin Announcing \union {"emitted"}
  BY DEF Delivering, Announcing
<1>3. \A i \in Undelivered(outbox', Len(outbox')) : ~(i > Len(outbox))
  BY DEF Undelivered
<1> QED
  BY <1>1, <1>2, <1>3 DEF Attends, Attended

LEMMA DeliverAttends ==
    ASSUME IInv, Attended, NEW p \in Procs, DeliverLoad(p) \/ DeliverSend(p)
    PROVE  Attends(p)
<1>0. UNCHANGED <<outbox, up>>
  BY DEF DeliverLoad, DeliverSend
<1>1. /\ outbox \in Seq(Row) /\ Len(outbox) \in Nat /\ proc \in [Procs -> Process]
      /\ proc[p] \in Process /\ Careful(proc[p], outbox)
  BY DEF IInv, TypeOK, Attended
<1>2. CASE DeliverLoad(p)
  <2>1. PICK i \in proc[p].batch :
           /\ proc[p].pc = "draining"
           /\ proc' = [proc EXCEPT ![p].pc = "loaded", ![p].event = i,
                                   ![p].seen = [Fresh EXCEPT !.status = outbox[i].status]]
    BY <1>2 DEF DeliverLoad
  <2>2. /\ proc'[p].pc = "loaded" /\ proc'[p].batch = proc[p].batch /\ proc'[p].event = i
        /\ proc'[p].seen.status = outbox[i].status
        /\ \A q \in Procs \ {p} : proc'[q] = proc[q]
    BY <1>1, <2>1 DEF Process, Fresh
  <2>3. Careful(proc'[p], outbox')
    BY <1>0, <1>1, <2>1, <2>2 DEF Careful
  <2> QED
    BY <1>0, <1>1, <2>1, <2>2, <2>3, StillAttends DEF Delivering
<1>3. CASE DeliverSend(p)
  <2>1. PICK answer \in BOOLEAN :
           /\ proc[p].pc = "loaded"
           /\ answer = (proc[p].event \notin Rejected)
           /\ proc' = [proc EXCEPT ![p].pc = "posted", ![p].answer = answer]
    BY <1>3 DEF DeliverSend, Outcome, Attended
  <2>2. /\ proc'[p].pc = "posted" /\ proc'[p].batch = proc[p].batch
        /\ proc'[p].event = proc[p].event /\ proc'[p].seen = proc[p].seen
        /\ proc'[p].answer = answer
        /\ \A q \in Procs \ {p} : proc'[q] = proc[q]
    BY <1>1, <2>1 DEF Process
  <2>3. Careful(proc'[p], outbox')
    BY <1>0, <1>1, <2>1, <2>2 DEF Careful
  <2> QED
    BY <1>0, <1>1, <2>1, <2>2, <2>3, StillAttends DEF Delivering
<1> QED
  BY <1>2, <1>3

\* A row the receiver took is delivered by the commit, and put aside.
LEMMA CommitAttends ==
    ASSUME IInv, Attended, NEW p \in Procs, DeliverCommit(p)
    PROVE  Attends(p)
<1> DEFINE i == proc[p].event
           new == IF proc[p].answer THEN "delivered" ELSE "failed"
           st == Flushed(outbox[i].status, proc[p].seen.status, new)
           row == [outbox[i] EXCEPT !.status = st]
           rest == proc[p].batch \ {i}
           y == [Idle EXCEPT !.pc = "draining", !.batch = rest]
           x == IF rest = {} THEN Idle ELSE y
<1>1. /\ proc[p] \in Process /\ Len(outbox) \in Nat /\ outbox \in Seq(Row)
      /\ proc \in [Procs -> Process] /\ Work(proc[p], Len(outbox), accepted)
      /\ Careful(proc[p], outbox)
  BY DEF IInv, TypeOK, Attended
<1>2. /\ proc[p].pc = "posted" /\ proc' = [proc EXCEPT ![p] = x]
      /\ outbox' = [outbox EXCEPT ![i] = row] /\ up' = up
  BY DEF DeliverCommit
<1>3. i \in 1..Len(outbox) /\ outbox[i] \in Row
  BY <1>1, <1>2 DEF Work
<1>4. st # "exhausted" /\ (i \notin Rejected => st = "delivered")
  <2>1. outbox[i].status # "exhausted"
    BY <1>3 DEF Attended
  <2>2. /\ i \notin Rejected => proc[p].answer
        /\ i \notin Rejected /\ proc[p].seen.status = "delivered" => outbox[i].status = "delivered"
    BY <1>1, <1>2 DEF Careful
  <2> QED
    BY <2>1, <2>2 DEF Flushed
<1>5. row \in [about : Approvals, retry : BOOLEAN, status : {st}] /\ row.status = st
  <2> HIDE DEF st
  <2> QED
    BY <1>3 DEF Row
<1>6. x.pc \in {"idle", "draining"} /\ (rest # {} => x.pc = "draining" /\ x.batch = rest)
  <2> HIDE DEF rest
  <2> QED
    BY IdleIs DEF Idle
<1> HIDE DEF x, row, st, new
<1>7. /\ Len(outbox') = Len(outbox)
      /\ \A j \in 1..Len(outbox) : outbox'[j] = IF j = i THEN row ELSE outbox[j]
      /\ proc'[p] = x /\ \A q \in Procs \ {p} : proc'[q] = proc[q]
  BY <1>1, <1>2, <1>3
<1>8. /\ \A j \in 1..Len(outbox) : outbox'[j].status # "exhausted"
      /\ \A j \in 1..Len(outbox) : j \notin Rejected /\ outbox[j].status = "delivered" =>
                                      outbox'[j].status = "delivered"
  BY <1>4, <1>5, <1>7 DEF Attended
<1>9. \A j \in Undelivered(outbox', Len(outbox')) : Tends(proc[p], j) => Tends(proc'[p], j)
  <2> SUFFICES ASSUME NEW j \in Undelivered(outbox', Len(outbox')), Tends(proc[p], j)
               PROVE  Tends(proc'[p], j)
    OBVIOUS
  <2>1. j # i
    BY <1>3, <1>4, <1>5, <1>7 DEF Undelivered
  <2>2. j \in rest
    BY <1>2, <2>1 DEF Tends, Announcing, Delivering
  <2> QED
    BY <1>6, <1>7, <2>2 DEF Tends, Delivering
<1>10. Careful(proc'[p], outbox')
  BY <1>6, <1>7 DEF Careful
<1>11. /\ proc'[p].pc \notin Announcing \union {"emitted"}
       /\ \A j \in Undelivered(outbox', Len(outbox')) : ~(j > Len(outbox))
  BY <1>1, <1>6, <1>7 DEF Announcing, Undelivered
<1>12. Len(outbox) <= Len(outbox') /\ Len(outbox') \in Nat
  BY <1>1, <1>7
<1> HIDE DEF i
<1> QED
  BY <1>2, <1>7, <1>8, <1>9, <1>10, <1>11, <1>12 DEF Attends

\* While all is calm and drains are roomy, a step is that of one process that attends.
LEMMA CalmSteps ==
    ASSUME IInv, Calm => Attended, Calm => Roomy, [Next]_vars, Calm'
    PROVE  /\ Calm
           /\ (\E p \in Procs : Attends(p)) \/ UNCHANGED vars
<1>1. faults \in Nat /\ outages \in Nat
  BY DEF IInv, TypeOK
<1>a. /\ autoDrain' = autoDrain
      /\ outages' = outages \/ outages' = outages + 1
      /\ faults' = faults \/ faults' = faults + 1
  BY DEF Next, vars, Announce, Emit, RecordRaises, EmitCheck, EmitExhausted, EmitSend,
         RecordLoad, RecordCommit, EmitReturns, Deliver, Drain, DeliverLoad, DeliverSend,
         DeliverCommit, Crash, OutageBegins, OutageEnds
<1>2. autoDrain' = autoDrain /\ outages <= outages' /\ faults <= faults'
  BY <1>1, <1>a
<1>3. Calm
  BY <1>1, <1>2 DEF Calm
<1>4. faults' # faults + 1 /\ outages' # outages + 1
  BY <1>3 DEF Calm
<1>5. CASE \E p \in Emitters, a \in Approvals, retry \in BOOLEAN : Announce(p, a, retry)
  BY <1>3, <1>5, AnnounceAttends DEF Procs
<1>6. CASE \E p \in Emitters : Emit(p) \/ RecordRaises(p)
  BY <1>3, <1>4, <1>6, EmitAttends DEF Emit, RecordRaises, EmitReturns, Procs, Calm
<1>7. CASE \E p \in Procs : Deliver(p) \/ Crash(p)
  BY <1>3, <1>4, <1>7, DrainAttends, DeliverAttends, CommitAttends DEF Deliver, Crash
<1>8. ~OutageBegins /\ ~OutageEnds
  BY <1>3, <1>4 DEF OutageBegins, OutageEnds, Attended
<1> QED
  BY <1>3, <1>5, <1>6, <1>7, <1>8 DEF Next

\* So no row is left unattended.
LEMMA NextAttended ==
    IInv /\ (Calm => Attended) /\ (Calm => Roomy) /\ [Next]_vars => (Calm => Attended)'
<1> SUFFICES ASSUME IInv, Calm => Attended, Calm => Roomy, [Next]_vars, Calm' PROVE Attended'
  OBVIOUS
<1>1. Attended /\ Len(outbox) \in Nat /\ \A p \in Procs : Work(proc[p], Len(outbox), accepted)
  BY CalmSteps DEF IInv, TypeOK
<1>2. ASSUME NEW p \in Procs, Attends(p) PROVE Attended'
  <2>1. ASSUME NEW q \in Procs PROVE Careful(proc'[q], outbox')
    <3>1. CASE q = p
      BY <1>2, <3>1 DEF Attends
    <3>2. CASE q # p
      BY <1>1, <1>2, <3>2 DEF Attends, Attended, Careful, Work
    <3> QED
      BY <3>1, <3>2
  <2>2. ASSUME NEW i \in Undelivered(outbox', Len(outbox'))
        PROVE  \E q \in Emitters : Tends(proc'[q], i)
    <3>1. CASE i > Len(outbox)
      <4>1. Len(outbox') # Len(outbox) /\ p \in Emitters
        BY <1>2, <3>1 DEF Attends, Undelivered
      <4> QED
        BY <1>2, <3>1, <4>1 DEF Attends
    <3>2. CASE ~(i > Len(outbox))
      <4>1. i \in Undelivered(outbox, Len(outbox))
        BY <1>1, <1>2, <3>2 DEF Attends, Undelivered
      <4>2. PICK q \in Emitters : Tends(proc[q], i)
        BY <1>1, <4>1 DEF Attended
      <4>3. q \in Procs
        BY DEF Procs
      <4> QED
        BY <1>2, <4>2, <4>3 DEF Attends
    <3> QED
      BY <3>1, <3>2
  <2> QED
    BY <1>1, <1>2, <2>1, <2>2 DEF Attends, Attended
<1>3. CASE UNCHANGED vars
  BY <1>1, <1>3 DEF vars, Attended
<1> QED
  BY <1>2, <1>3, CalmSteps

LEMMA InitAttended == Init => Attended
<1> SUFFICES ASSUME Init PROVE Attended
  OBVIOUS
<1>1. Len(outbox) = 0 /\ up /\ \A p \in Procs : proc[p].pc = "idle"
  BY IdleIs DEF Init
<1> QED
  BY <1>1 DEF Attended, Careful, Undelivered

LEMMA AttendedDrains ==
    ASSUME Calm => Attended
    PROVE  DrainedAtRest
<1>1. \A p \in Emitters : p \in Procs
  BY DEF Procs
<1> QED
  BY <1>1 DEF Calm, Attended, Undelivered, Tends, Announcing, Delivering, DrainedAtRest

\* Any number of emitters and drainers: while no more is due than a drain takes, nothing the
\* receiver would take is left in the outbox once all have returned, whichever of them takes
\* which rows and however their drains overlap.
THEOREM DrainsWithinLimit ==
    Spec /\ [](IsFiniteSet(Due) /\ Cardinality(Due) <= Limit) => []DrainedAtRest
<1>1. ASSUME IsFiniteSet(Due), Cardinality(Due) <= Limit PROVE Roomy
  <2>1. ASSUME NEW i \in Due PROVE Cardinality({j \in Due : j < i}) < Limit
    <3> DEFINE older == {j \in Due : j < i}
    <3>1. i \in Nat /\ older \in SUBSET (Due \ {i})
      BY DEF Due
    <3>2. /\ IsFiniteSet(Due \ {i}) /\ Cardinality(Due \ {i}) = Cardinality(Due) - 1
          /\ Cardinality(Due) \in Nat
      BY <1>1, FS_RemoveElement, FS_CardinalityType
    <3>3. Cardinality(older) <= Cardinality(Due) - 1 /\ Cardinality(older) \in Nat
      BY <3>1, <3>2, FS_Subset, FS_CardinalityType
    <3> HIDE DEF older
    <3>4. Cardinality(older) < Limit
      BY <1>1, <3>2, <3>3, WebhookAssumption
    <3> QED
      BY <3>4 DEF older
  <2> QED
    BY <2>1 DEF Roomy, Batch
<1>2. Init => (Calm => Attended)
  BY InitAttended
<1>3. IInv /\ (Calm => Attended) /\ Roomy /\ [Next]_vars => (Calm => Attended)'
  BY NextAttended
<1>4. (Calm => Attended) => DrainedAtRest
  BY AttendedDrains
<1> QED
  BY <1>1, <1>2, <1>3, <1>4, Invariance, PTL DEF Spec

\* While an emitter announces, the rows before are settled.
BeforeSettled(e) ==
    Calm /\ proc[e].pc \in Announcing \union {"emitted"} =>
        \A i \in 1..(Len(outbox) - 1) : i \in Rejected \/ outbox[i].status = "delivered"

LEMMA NextBeforeSettled ==
    ASSUME NEW e, Emitters = {e}, IInv, Calm => Attended, Calm => Roomy, BeforeSettled(e),
           [Next]_vars
    PROVE  BeforeSettled(e)'
<1> SUFFICES ASSUME Calm', proc'[e].pc \in Announcing \union {"emitted"},
                    NEW i \in 1..(Len(outbox') - 1), i \notin Rejected
             PROVE  outbox'[i].status = "delivered"
  BY DEF BeforeSettled
<1>1. Calm /\ Attended /\ Len(outbox) \in Nat /\ e \in Procs /\ Emitters \subseteq Procs
  BY CalmSteps DEF IInv, TypeOK, Procs
<1>2. ASSUME NEW p \in Procs, Attends(p) PROVE outbox'[i].status = "delivered"
  <2>1. CASE p = e /\ proc[e].pc = "idle" /\ Len(outbox') = Len(outbox) + 1
    <3>1. i \in 1..Len(outbox) /\ ~Tends(proc[e], i)
      BY <1>1, <2>1 DEF Tends, Announcing, Delivering
    <3>2. outbox[i].status = "delivered"
      BY <1>1, <3>1 DEF Attended, Undelivered
    <3> QED
      BY <1>2, <3>1, <3>2 DEF Attends
  <2>2. CASE ~(p = e /\ proc[e].pc = "idle" /\ Len(outbox') = Len(outbox) + 1)
    <3>1. proc[e].pc \in Announcing \union {"emitted"} /\ Len(outbox') = Len(outbox)
      BY <1>1, <1>2, <2>2 DEF Attends
    <3>2. i \in 1..(Len(outbox) - 1) /\ i \in 1..Len(outbox)
      BY <1>1, <3>1
    <3> QED
      BY <1>1, <1>2, <3>1, <3>2 DEF Attends, BeforeSettled
  <2> QED
    BY <2>1, <2>2
<1>3. CASE UNCHANGED vars
  BY <1>1, <1>3 DEF vars, BeforeSettled
<1> QED
  BY <1>2, <1>3, CalmSteps

\* With one emitter, and fewer events than the limit that the receiver rejects, a drain always
\* comes to the new event: nothing the receiver would take is left once all have returned,
\* whatever drainers do beside it.
THEOREM OneEmitterDrains ==
    ASSUME NEW e, Emitters = {e}, IsFiniteSet(Rejected), Cardinality(Rejected) < Limit
    PROVE  Spec => []DrainedAtRest
<1>1. ASSUME IInv, BeforeSettled(e), Calm PROVE Roomy
  <2> SUFFICES ASSUME proc[e].pc = "emitted", NEW i \in Due
               PROVE  Cardinality({j \in Due : j < i}) < Limit
    BY DEF Roomy, Batch
  <2> DEFINE older == {j \in Due : j < i}
  <2>1. Len(outbox) \in Nat
    BY <1>1 DEF IInv, TypeOK
  <2>2. older \in SUBSET Rejected
    BY <1>1, <2>1 DEF BeforeSettled, Due
  <2>3. Cardinality(older) <= Cardinality(Rejected)
    BY <2>2, FS_Subset
  <2>4. Cardinality(older) \in Nat /\ Cardinality(Rejected) \in Nat
    BY <2>2, FS_Subset, FS_CardinalityType
  <2> HIDE DEF older
  <2>5. Cardinality(older) < Limit
    BY <2>3, <2>4, WebhookAssumption
  <2> QED
    BY <2>5 DEF older
<1>2. Init => (Calm => Attended) /\ BeforeSettled(e)
  <2>1. Init => proc[e].pc = "idle"
    BY IdleIs DEF Init, Procs
  <2> QED
    BY <2>1, InitAttended DEF BeforeSettled, Announcing
<1>3. IInv /\ (Calm => Attended) /\ BeforeSettled(e) /\ [Next]_vars
         => (Calm => Attended)' /\ BeforeSettled(e)'
  BY <1>1, NextAttended, NextBeforeSettled
<1>4. (Calm => Attended) => DrainedAtRest
  BY AttendedDrains
<1> QED
  BY <1>2, <1>3, <1>4, Invariance, PTL DEF Spec
=============================================================================
