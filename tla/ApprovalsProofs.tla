-------------------------- MODULE ApprovalsProofs ---------------------------
(***************************************************************************)
(* Theorems about Approvals, for every value of its constants.             *)
(*                                                                         *)
(* First, with any number of deciders: the types, the fact that no request *)
(* is executed without a committed approval, and the accounting of what    *)
(* was executed.  Then, for one decider: the latest decision is in force,  *)
(* executions run under it, every decision is announced in order, and      *)
(* every step implements ApprovalRegister.                                 *)
(***************************************************************************)
EXTENDS Approvals, FiniteSets, FiniteSetTheorems, SequenceTheorems, TLAPS

-----------------------------------------------------------------------------
(* Any number of deciders                                                  *)

\* What a session in progress works on exists.
SessionsOK ==
    \A p \in Deciders :
        dec[p].pc # "idle" =>
            /\ dec[p].id \in Approvals
            /\ row[dec[p].id].status # "absent"
            /\ dec[p].pc = "read" =>
                 dec[p].verdict \in Verdicts /\ dec[p].approver \in Approvers

Approved(a, n) == \E i \in 1..n : i <= Len(decided[a]) /\ decided[a][i].verdict = "approved"

\* A row is decided only by decisions, and approved only by an approving one.
RowsOK ==
    \A a \in Approvals :
        /\ row[a].status = "absent" => decided[a] = <<>>
        /\ row[a].status = "approved" => Approved(a, Len(decided[a]))

\* A replay in progress was let through by an approval that was not expired.
Justified(x) == /\ x.id \in Approvals
                /\ row[x.id].status # "absent"
                /\ Approved(x.id, x.rank)
                /\ Unexpired(x)

ReplaysOK == \A r \in Replayers : run[r].pc # "idle" => Justified(run[r])

ExecutedOK == \A n \in 1..Len(executed) : Justified(executed[n])

IInv == TypeOK /\ SessionsOK /\ RowsOK /\ ReplaysOK /\ ExecutedOK

-----------------------------------------------------------------------------

LEMMA FlushedRow ==
    ASSUME NEW stored \in Row, NEW s \in Session, s.verdict \in Verdicts
    PROVE  /\ Flushed(stored, s) \in Row
           /\ Flushed(stored, s).expires = stored.expires
           /\ Flushed(stored, s).status \in {stored.status, s.verdict}
BY DEF Flushed, Row, Session, Statuses, Verdicts

LEMMA FunctionIsSeq ==
    ASSUME NEW S, NEW n \in Nat, NEW f \in [1..n -> S]
    PROVE  f \in Seq(S) /\ Len(f) = n
OBVIOUS

LEMMA ExpiresAtType == TypeOK => ExpiresAt \in Nat \union {NULL}
BY ApprovalsAssumption DEF TypeOK, ExpiresAt

LEMMA InitIInv == Init => IInv
<1> SUFFICES ASSUME Init PROVE IInv
  OBVIOUS
<1>1. NoRow \in Row
  BY DEF NoRow, Row, Statuses
<1>2. Idle \in Session
  BY <1>1 DEF Idle, Session
<1>3. Resting \in Replay
  BY DEF Resting, Replay
<1>4. TypeOK
  BY <1>1, <1>2, <1>3 DEF Init, TypeOK
<1>5. SessionsOK
  BY DEF Init, SessionsOK, Idle
<1>6. RowsOK
  BY DEF Init, RowsOK, NoRow
<1>7. ReplaysOK
  BY DEF Init, ReplaysOK, Resting
<1>8. ExecutedOK
  BY DEF Init, ExecutedOK
<1> QED
  BY <1>4, <1>5, <1>6, <1>7, <1>8 DEF IInv

LEMMA NextTypeOK ==
    ASSUME TypeOK, SessionsOK, ReplaysOK, [Next]_vars
    PROVE  TypeOK'
<1> USE DEF TypeOK
<1>1. Idle \in Session
  BY DEF Idle, Session, NoRow, Row, Statuses
<1>2. Resting \in Replay
  BY DEF Resting, Replay
<1>3. CASE UNCHANGED vars
  BY <1>3 DEF vars
<1>4. ASSUME NEW a \in Approvals, CreateCommit(a) PROVE TypeOK'
  <2>1. [status |-> "pending", approver |-> NULL, expires |-> ExpiresAt] \in Row
    BY ExpiresAtType DEF Row, Statuses
  <2>2. row' \in [Approvals -> Row] /\ row'[a] \in Row
    BY <1>4, <2>1 DEF CreateCommit
  <2>3. [Idle EXCEPT !.pc = "committed", !.id = a, !.seen = row'[a]] \in Session
    BY <2>2 DEF Idle, Session
  <2>4. dec' \in [Deciders -> Session]
    BY <1>4, <2>3, ApprovalsAssumption DEF CreateCommit
  <2> QED
    BY <1>4, <2>2, <2>4 DEF CreateCommit
<1>5. ASSUME NEW p \in Deciders, NEW a \in Approvals, NEW v \in Verdicts,
             NEW u \in Approvers, DecideRead(p, a, v, u)
      PROVE  TypeOK'
  <2>1. [pc |-> "read", id |-> a, verdict |-> v, approver |-> u, seen |-> row[a]] \in Session
    BY DEF Session
  <2> QED
    BY <1>5, <2>1 DEF DecideRead
<1>6. ASSUME NEW p \in Deciders, DecideCommit(p) PROVE TypeOK'
  <2>1. /\ dec[p] \in Session
        /\ dec[p].id \in Approvals
        /\ dec[p].verdict \in Verdicts
        /\ dec[p].approver \in Approvers
    BY <1>6 DEF DecideCommit, SessionsOK
  <2>2. row' \in [Approvals -> Row]
    BY <1>6, <2>1, FlushedRow DEF DecideCommit
  <2>3. [verdict |-> dec[p].verdict, approver |-> dec[p].approver] \in Decision
    BY <2>1 DEF Decision
  <2>4. decided' \in [Approvals -> Seq(Decision)]
    BY <1>6, <2>1, <2>3 DEF DecideCommit
  <2>5. [dec[p] EXCEPT !.pc = "committed"] \in Session
    BY <2>1 DEF Session
  <2>6. dec' \in [Deciders -> Session]
    BY <1>6, <2>5 DEF DecideCommit
  <2> QED
    BY <1>6, <2>2, <2>4, <2>6 DEF DecideCommit
<1>7. ASSUME NEW p \in Deciders, Refresh(p) PROVE TypeOK'
  <2>1. dec[p] \in Session /\ dec[p].id \in Approvals
    BY <1>7 DEF Refresh, SessionsOK
  <2>2. [dec[p] EXCEPT !.pc = "refreshed", !.seen = row[dec[p].id]] \in Session
    BY <2>1 DEF Session
  <2>3. dec' = [dec EXCEPT ![p] = [dec[p] EXCEPT !.pc = "refreshed", !.seen = row[dec[p].id]]]
    BY <1>7 DEF Refresh
  <2> QED
    BY <1>7, <2>2, <2>3 DEF Refresh
<1>8. ASSUME NEW p \in Deciders, Enqueue(p) PROVE TypeOK'
  <2>1. dec[p] \in Session /\ dec[p].id \in Approvals
    BY <1>8 DEF Enqueue, SessionsOK
  <2>2. [event |-> dec[p].verdict, status |-> dec[p].seen.status,
         approver |-> dec[p].seen.approver] \in Event
    BY <2>1 DEF Session, Row, Event
  <2> QED
    BY <1>1, <1>8, <2>1, <2>2 DEF Enqueue
<1>9. ASSUME NEW p \in Deciders, DeciderCrash(p) PROVE TypeOK'
  BY <1>1, <1>9 DEF DeciderCrash
<1>10. ASSUME NEW r \in Replayers, NEW a \in Approvals, ReplayCheck(r, a) PROVE TypeOK'
  <2>1. [pc |-> "checked", id |-> a, approver |-> row[a].approver,
         rank |-> Len(decided[a]), at |-> clock] \in Replay
    BY DEF Replay, Row
  <2> QED
    BY <1>10, <2>1 DEF ReplayCheck
<1>11. ASSUME NEW r \in Replayers, ReplayExecute(r) PROVE TypeOK'
  <2>1. run[r] \in Replay /\ run[r].id \in Approvals
    BY <1>11 DEF ReplayExecute, ReplaysOK, Justified
  <2>2. [id |-> run[r].id, approver |-> run[r].approver,
         rank |-> run[r].rank, at |-> run[r].at] \in Effect
    BY <2>1 DEF Replay, Effect
  <2>3. [run[r] EXCEPT !.pc = "executed"] \in Replay
    BY <2>1 DEF Replay
  <2> QED
    BY <1>11, <2>2, <2>3 DEF ReplayExecute
<1>12. ASSUME NEW r \in Replayers, ReplayAudit(r) PROVE TypeOK'
  <2>1. run[r] \in Replay /\ run[r].id \in Approvals
    BY <1>12 DEF ReplayAudit, ReplaysOK, Justified
  <2>2. [id |-> run[r].id, approver |-> run[r].approver] \in Record
    BY <2>1 DEF Replay, Record
  <2> QED
    BY <1>2, <1>12, <2>2 DEF ReplayAudit
<1>13. ASSUME NEW r \in Replayers, ReplayAuditFails(r) PROVE TypeOK'
  BY <1>2, <1>13 DEF ReplayAuditFails
<1>14. ASSUME NEW r \in Replayers, ReplayCrash(r) PROVE TypeOK'
  BY <1>2, <1>14 DEF ReplayCrash
<1>15. CASE Tick
  BY <1>15 DEF Tick
<1> QED
  BY <1>3, <1>4, <1>5, <1>6, <1>7, <1>8, <1>9, <1>10, <1>11, <1>12, <1>13,
     <1>14, <1>15 DEF Next

\* Rows are never removed, an expiry is never moved, decisions are never withdrawn.
LEMMA RowsSteady ==
    ASSUME TypeOK, SessionsOK, RowsOK, [Next]_vars, NEW a \in Approvals
    PROVE  /\ row[a].status # "absent" =>
                row'[a].status # "absent" /\ row'[a].expires = row[a].expires
           /\ \A n \in Nat : Approved(a, n) => Approved(a, n)'
<1> USE DEF TypeOK
<1>1. CASE UNCHANGED vars
  BY <1>1 DEF vars, Approved
<1>2. ASSUME NEW b \in Approvals, CreateCommit(b)
      PROVE  /\ row[a].status # "absent" =>
                  row'[a].status # "absent" /\ row'[a].expires = row[a].expires
             /\ \A n \in Nat : Approved(a, n) => Approved(a, n)'
  BY <1>2 DEF CreateCommit, Approved
<1>3. ASSUME NEW p \in Deciders, DecideCommit(p)
      PROVE  /\ row[a].status # "absent" =>
                  row'[a].status # "absent" /\ row'[a].expires = row[a].expires
             /\ \A n \in Nat : Approved(a, n) => Approved(a, n)'
  <2>1. dec[p] \in Session /\ dec[p].id \in Approvals /\ dec[p].verdict \in Verdicts
    BY <1>3 DEF DecideCommit, SessionsOK
  <2>2. row' = [row EXCEPT ![dec[p].id] = Flushed(row[dec[p].id], dec[p])]
    BY <1>3 DEF DecideCommit
  <2>3. row[a].status # "absent" =>
          row'[a].status # "absent" /\ row'[a].expires = row[a].expires
    BY <2>1, <2>2, FlushedRow DEF Verdicts
  <2>4. [verdict |-> dec[p].verdict, approver |-> dec[p].approver] \in Decision
    BY <1>3, <2>1 DEF DecideCommit, SessionsOK, Decision
  <2>5. /\ Len(decided[a]) \in Nat
        /\ Len(decided'[a]) \in Nat
        /\ Len(decided[a]) <= Len(decided'[a])
        /\ \A i \in 1..Len(decided[a]) : decided'[a][i] = decided[a][i]
    BY <1>3, <2>1, <2>4, AppendProperties, LenProperties DEF DecideCommit
  <2>6. ASSUME NEW n \in Nat, Approved(a, n) PROVE Approved(a, n)'
    <3>1. PICK i \in 1..n : i <= Len(decided[a]) /\ decided[a][i].verdict = "approved"
      BY <2>6 DEF Approved
    <3>2. i <= Len(decided'[a]) /\ decided'[a][i].verdict = "approved"
      BY <2>5, <3>1
    <3> QED
      BY <3>2 DEF Approved
  <2> QED
    BY <2>3, <2>6
<1>4. CASE UNCHANGED <<row, decided>>
  BY <1>4 DEF Approved
<1>5. \/ UNCHANGED vars
      \/ \E b \in Approvals : CreateCommit(b)
      \/ \E p \in Deciders : DecideCommit(p)
      \/ UNCHANGED <<row, decided>>
  BY DEF Next, DecideRead, Refresh, Enqueue, DeciderCrash, ReplayCheck, ReplayExecute,
         ReplayAudit, ReplayAuditFails, ReplayCrash, Tick
<1> QED
  BY <1>1, <1>2, <1>3, <1>4, <1>5

LEMMA JustifiedStays ==
    ASSUME TypeOK, SessionsOK, RowsOK, [Next]_vars,
           NEW x, x.rank \in Nat, Justified(x)
    PROVE  /\ x.id \in Approvals
           /\ row'[x.id].status # "absent"
           /\ Approved(x.id, x.rank)'
           /\ row'[x.id].expires = NULL \/ x.at < row'[x.id].expires
BY RowsSteady DEF Justified, Unexpired

LEMMA NextSessionsOK ==
    ASSUME IInv, [Next]_vars
    PROVE  SessionsOK'
<1> USE DEF IInv, TypeOK
<1> SUFFICES ASSUME NEW p \in Deciders, dec'[p].pc # "idle"
             PROVE  /\ dec'[p].id \in Approvals
                    /\ row'[dec'[p].id].status # "absent"
                    /\ dec'[p].pc = "read" =>
                         dec'[p].verdict \in Verdicts /\ dec'[p].approver \in Approvers
  BY DEF SessionsOK
<1>1. CASE dec'[p] = dec[p]
  BY <1>1, RowsSteady DEF SessionsOK
<1>2. ASSUME NEW a \in Approvals, CreateCommit(a), p = Server
      PROVE  /\ dec'[p].id \in Approvals
             /\ row'[dec'[p].id].status # "absent"
             /\ dec'[p].pc = "committed"
  <2>1. dec'[p] = [Idle EXCEPT !.pc = "committed", !.id = a, !.seen = row'[a]]
    BY <1>2 DEF CreateCommit
  <2>2. row'[a].status = "pending"
    BY <1>2 DEF CreateCommit
  <2> QED
    BY <2>1, <2>2 DEF Idle
<1>3. ASSUME NEW a \in Approvals, NEW v \in Verdicts, NEW u \in Approvers,
             DecideRead(p, a, v, u)
      PROVE  /\ dec'[p].id \in Approvals
             /\ row'[dec'[p].id].status # "absent"
             /\ dec'[p].verdict \in Verdicts
             /\ dec'[p].approver \in Approvers
  BY <1>3 DEF DecideRead
<1>4. CASE DecideCommit(p) \/ Refresh(p)
  <2>1. dec'[p].id = dec[p].id /\ dec'[p].pc # "read" /\ dec[p].pc # "idle"
    BY <1>4 DEF DecideCommit, Refresh, Session
  <2> QED
    BY <2>1, RowsSteady DEF SessionsOK
<1>5. CASE Enqueue(p) \/ DeciderCrash(p)
  BY <1>5 DEF Enqueue, DeciderCrash, Idle
<1>6. \/ dec'[p] = dec[p]
      \/ p = Server /\ \E a \in Approvals : CreateCommit(a)
      \/ \E a \in Approvals, v \in Verdicts, u \in Approvers : DecideRead(p, a, v, u)
      \/ DecideCommit(p) \/ Refresh(p)
      \/ Enqueue(p) \/ DeciderCrash(p)
  <2>1. CASE UNCHANGED dec
    BY <2>1
  <2>2. ASSUME NEW a \in Approvals, CreateCommit(a), p # Server
        PROVE  dec'[p] = dec[p]
    BY <2>2 DEF CreateCommit
  <2>3. ASSUME NEW q \in Deciders, q # p,
               \/ \E a \in Approvals, v \in Verdicts, u \in Approvers : DecideRead(q, a, v, u)
               \/ DecideCommit(q) \/ Refresh(q) \/ Enqueue(q) \/ DeciderCrash(q)
        PROVE  dec'[p] = dec[p]
    BY <2>3 DEF DecideRead, DecideCommit, Refresh, Enqueue, DeciderCrash
  <2>4. \/ UNCHANGED dec
        \/ \E a \in Approvals : CreateCommit(a)
        \/ \E q \in Deciders :
              \/ \E a \in Approvals, v \in Verdicts, u \in Approvers : DecideRead(q, a, v, u)
              \/ DecideCommit(q) \/ Refresh(q) \/ Enqueue(q) \/ DeciderCrash(q)
    BY DEF Next, vars, ReplayCheck, ReplayExecute, ReplayAudit, ReplayAuditFails,
           ReplayCrash, Tick
  <2> QED
    BY <2>1, <2>2, <2>3, <2>4
<1> QED
  BY <1>1, <1>2, <1>3, <1>4, <1>5, <1>6

LEMMA NextRowsOK ==
    ASSUME IInv, [Next]_vars
    PROVE  RowsOK'
<1> USE DEF IInv, TypeOK
<1>1. CASE UNCHANGED <<row, decided>>
  BY <1>1 DEF RowsOK, Approved
<1>2. ASSUME NEW b \in Approvals, CreateCommit(b)
      PROVE  RowsOK'
  BY <1>2 DEF CreateCommit, RowsOK, Approved
<1>3. ASSUME NEW p \in Deciders, DecideCommit(p)
      PROVE  RowsOK'
  <2>1. dec[p] \in Session /\ dec[p].id \in Approvals /\ dec[p].verdict \in Verdicts
          /\ row[dec[p].id].status # "absent"
    BY <1>3 DEF DecideCommit, SessionsOK
  <2> DEFINE a == dec[p].id
             d == [verdict |-> dec[p].verdict, approver |-> dec[p].approver]
  <2>2. \A b \in Approvals \ {a} : row'[b] = row[b] /\ decided'[b] = decided[b]
    BY <1>3, <2>1 DEF DecideCommit
  <2>3. row'[a] = Flushed(row[a], dec[p]) /\ decided'[a] = Append(decided[a], d)
    BY <1>3, <2>1 DEF DecideCommit
  <2>4. row'[a].status \in {row[a].status, dec[p].verdict}
    BY <2>1, <2>3, FlushedRow
  <2>5. row'[a].status # "absent"
    BY <2>1, <2>4 DEF Verdicts
  <2>6. d \in Decision /\ a \in Approvals
    BY <1>3, <2>1 DEF DecideCommit, SessionsOK, Decision
  <2> HIDE DEF a
  <2>7. /\ Len(decided'[a]) = Len(decided[a]) + 1 /\ Len(decided[a]) \in Nat
        /\ decided'[a][Len(decided[a]) + 1] = d
        /\ \A i \in 1..Len(decided[a]) : decided'[a][i] = decided[a][i]
    BY <2>3, <2>6, AppendProperties, LenProperties
  <2>8. ASSUME row'[a].status = "approved"
        PROVE  \E i \in 1..Len(decided'[a]) :
                  i <= Len(decided'[a]) /\ decided'[a][i].verdict = "approved"
    <3>1. CASE dec[p].verdict = "approved"
      <4>1. d.verdict = "approved"
        BY <3>1
      <4>2. decided'[a][Len(decided[a]) + 1].verdict = "approved"
        BY <2>7, <4>1
      <4>3. Len(decided[a]) + 1 \in 1..Len(decided'[a])
              /\ Len(decided[a]) + 1 <= Len(decided'[a])
        BY <2>7
      <4> QED
        BY <4>2, <4>3
    <3>2. CASE row[a].status = "approved"
      <4>1. PICK i \in 1..Len(decided[a]) : decided[a][i].verdict = "approved"
        BY <2>6, <3>2 DEF RowsOK, Approved
      <4>2. decided'[a][i].verdict = "approved"
        BY <2>7, <4>1
      <4>3. i \in 1..Len(decided'[a]) /\ i <= Len(decided'[a])
        BY <2>7
      <4> QED
        BY <4>2, <4>3
    <3> QED
      BY <2>4, <2>8, <3>1, <3>2
  <2> HIDE DEF d
  <2>9. \A b \in Approvals :
           /\ row'[b].status = "absent" => decided'[b] = <<>>
           /\ row'[b].status = "approved" =>
                \E i \in 1..Len(decided'[b]) :
                   i <= Len(decided'[b]) /\ decided'[b][i].verdict = "approved"
    <3> SUFFICES ASSUME NEW b \in Approvals
                 PROVE  /\ row'[b].status = "absent" => decided'[b] = <<>>
                        /\ row'[b].status = "approved" =>
                             \E i \in 1..Len(decided'[b]) :
                                i <= Len(decided'[b]) /\ decided'[b][i].verdict = "approved"
      OBVIOUS
    <3>1. CASE b = a
      BY <2>5, <2>8, <3>1
    <3>2. CASE b # a
      BY <2>2, <3>2 DEF RowsOK, Approved
    <3> QED
      BY <3>1, <3>2
  <2> QED
    BY <2>9 DEF RowsOK, Approved
<1>4. \/ \E b \in Approvals : CreateCommit(b)
      \/ \E p \in Deciders : DecideCommit(p)
      \/ UNCHANGED <<row, decided>>
  BY DEF Next, vars, DecideRead, Refresh, Enqueue, DeciderCrash, ReplayCheck, ReplayExecute,
         ReplayAudit, ReplayAuditFails, ReplayCrash, Tick
<1> QED
  BY <1>1, <1>2, <1>3, <1>4

LEMMA NextReplaysOK ==
    ASSUME IInv, [Next]_vars
    PROVE  ReplaysOK'
<1> USE DEF IInv, TypeOK
<1> SUFFICES ASSUME NEW r \in Replayers, run'[r].pc # "idle"
             PROVE  Justified(run[r])'
  BY DEF ReplaysOK
<1>0. run[r].rank \in Nat
  BY DEF Replay
<1>1. CASE run'[r] = run[r]
  <2>1. Justified(run[r])
    BY <1>1 DEF ReplaysOK
  <2> QED
    BY <1>0, <1>1, <2>1, JustifiedStays DEF Justified, Unexpired, Approved
<1>2. ASSUME NEW a \in Approvals, ReplayCheck(r, a)
      PROVE  Justified(run[r])'
  <2>1. run'[r] = [pc |-> "checked", id |-> a, approver |-> row[a].approver,
                   rank |-> Len(decided[a]), at |-> clock]
    BY <1>2 DEF ReplayCheck
  <2>2. row' = row /\ decided' = decided
    BY <1>2 DEF ReplayCheck
  <2>3. row[a].status = "approved" /\ Approved(a, Len(decided[a]))
    BY <1>2 DEF ReplayCheck, Replayable, RowsOK
  <2>4. row[a].expires = NULL \/ clock < row[a].expires
    BY <1>2 DEF ReplayCheck, Replayable, Row
  <2> QED
    BY <2>1, <2>2, <2>3, <2>4 DEF Justified, Unexpired, Approved
<1>3. CASE ReplayExecute(r)
  <2>1. run'[r].id = run[r].id /\ run'[r].rank = run[r].rank /\ run'[r].at = run[r].at
    BY <1>3 DEF ReplayExecute
  <2>2. Justified(run[r])
    BY <1>3 DEF ReplayExecute, ReplaysOK
  <2>3. row' = row /\ decided' = decided
    BY <1>3 DEF ReplayExecute
  <2> QED
    BY <2>1, <2>2, <2>3 DEF Justified, Unexpired, Approved
<1>4. CASE ReplayAudit(r) \/ ReplayAuditFails(r) \/ ReplayCrash(r)
  BY <1>4 DEF ReplayAudit, ReplayAuditFails, ReplayCrash, Resting
<1>5. \/ run'[r] = run[r]
      \/ \E a \in Approvals : ReplayCheck(r, a)
      \/ ReplayExecute(r)
      \/ ReplayAudit(r) \/ ReplayAuditFails(r) \/ ReplayCrash(r)
  BY DEF Next, vars, CreateCommit, DecideRead, DecideCommit, Refresh, Enqueue, DeciderCrash,
         ReplayCheck, ReplayExecute, ReplayAudit, ReplayAuditFails, ReplayCrash, Tick
<1> QED
  BY <1>1, <1>2, <1>3, <1>4, <1>5

LEMMA NextExecutedOK ==
    ASSUME IInv, [Next]_vars
    PROVE  ExecutedOK'
<1> USE DEF IInv, TypeOK
<1>1. \A n \in 1..Len(executed) : Justified(executed[n]) /\ executed[n].rank \in Nat
  <2>1. \A n \in 1..Len(executed) : executed[n] \in Effect
    OBVIOUS
  <2> QED
    BY <2>1 DEF ExecutedOK, Effect
<1>2. CASE UNCHANGED executed
  <2> SUFFICES ASSUME NEW n \in 1..Len(executed) PROVE Justified(executed[n])'
    BY <1>2 DEF ExecutedOK
  <2> QED
    BY <1>1, <1>2, JustifiedStays DEF Justified, Unexpired, Approved
<1>3. ASSUME NEW r \in Replayers, ReplayExecute(r)
      PROVE  ExecutedOK'
  <2> DEFINE x == [id |-> run[r].id, approver |-> run[r].approver,
                   rank |-> run[r].rank, at |-> run[r].at]
  <2>1. executed' = Append(executed, x) /\ row' = row /\ decided' = decided
    BY <1>3 DEF ReplayExecute
  <2>2. Justified(run[r])
    BY <1>3 DEF ReplayExecute, ReplaysOK
  <2>3. Justified(x)
    BY <2>2 DEF Justified, Unexpired, Approved
  <2>4. /\ Len(executed') = Len(executed) + 1 /\ Len(executed) \in Nat
        /\ executed'[Len(executed) + 1] = x
        /\ \A n \in 1..Len(executed) : executed'[n] = executed[n]
    BY <2>1
  <2> HIDE DEF x
  <2>5. \A n \in 1..Len(executed') : Justified(executed'[n])
    BY <1>1, <2>3, <2>4
  <2> QED
    BY <2>1, <2>5 DEF ExecutedOK, Justified, Unexpired, Approved
<1>4. UNCHANGED executed \/ \E r \in Replayers : ReplayExecute(r)
  BY DEF Next, vars, CreateCommit, DecideRead, DecideCommit, Refresh, Enqueue, DeciderCrash,
         ReplayCheck, ReplayAudit, ReplayAuditFails, ReplayCrash, Tick
<1> QED
  BY <1>2, <1>3, <1>4

-----------------------------------------------------------------------------

THEOREM Invariance == Spec => []IInv
<1>1. IInv /\ [Next]_vars => IInv'
  BY NextTypeOK, NextSessionsOK, NextRowsOK, NextReplaysOK, NextExecutedOK DEF IInv
<1> QED
  BY InitIInv, <1>1, PTL DEF Spec

\* Every column, session and history keeps its type.
THEOREM TypeCorrect == Spec => []TypeOK
<1>1. IInv => TypeOK
  BY DEF IInv
<1> QED
  BY <1>1, Invariance, PTL

\* Whatever processes decide, and however they interleave with replays, crashes and
\* the clock: what was executed had been approved, and had not expired.
THEOREM NothingRunsUnapproved == Spec => []ExecutedOnlyIfApproved
<1>1. IInv => ExecutedOnlyIfApproved
  BY DEF IInv, ExecutedOK, ExecutedOnlyIfApproved, Justified, Approved
<1> QED
  BY <1>1, Invariance, PTL

-----------------------------------------------------------------------------
(* Accounting: an execution is recorded, about to be, or lost to a fault   *)

Unrecorded == {r \in Replayers : run[r].pc = "executed"}

\* Some execution is the one a record x, or a replay in progress, is about.
Ran(x) == \E m \in 1..Len(executed) :
             executed[m].id = x.id /\ executed[m].approver = x.approver

Balanced ==
    /\ IsFiniteSet(Unrecorded)
    /\ Len(audit) + Cardinality(Unrecorded) <= Len(executed)
    /\ Len(executed) <= Len(audit) + Cardinality(Unrecorded) + faults

Accounts ==
    /\ \A n \in 1..Len(audit) : Ran(audit[n])
    /\ \A r \in Unrecorded : Ran(run[r])
    /\ Balanced

LEMMA InitAccounts == Init => Accounts
<1> SUFFICES ASSUME Init PROVE Accounts
  OBVIOUS
<1>1. Unrecorded = {}
  BY DEF Init, Unrecorded, Resting
<1>2. Len(audit) = 0 /\ Len(executed) = 0 /\ faults = 0
  BY DEF Init
<1> QED
  BY <1>1, <1>2, FS_EmptySet DEF Accounts, Balanced

\* What a step may do to the books.
LEMMA Bookkeeping ==
    ASSUME IInv, [Next]_vars
    PROVE  \/ UNCHANGED <<audit, executed, faults, Unrecorded>>
              /\ \A r \in Unrecorded : run'[r] = run[r]
           \/ \E r \in Replayers : ReplayExecute(r)
           \/ \E r \in Replayers : ReplayAudit(r)
           \/ \E r \in Replayers : ReplayAuditFails(r) \/ ReplayCrash(r)
           \/ \E p \in Deciders : DeciderCrash(p)
<1> USE DEF IInv, TypeOK
<1>1. CASE UNCHANGED <<audit, executed, faults, run>>
  BY <1>1 DEF Unrecorded
<1>2. ASSUME NEW r \in Replayers, NEW a \in Approvals, ReplayCheck(r, a)
      PROVE  /\ UNCHANGED <<audit, executed, faults, Unrecorded>>
             /\ \A q \in Unrecorded : run'[q] = run[q]
  BY <1>2 DEF ReplayCheck, Unrecorded
<1> QED
  BY <1>1, <1>2 DEF Next, vars, CreateCommit, DecideRead, DecideCommit, Refresh, Enqueue, Tick

\* A replay that goes to rest takes itself off the unrecorded ones.
LEMMA RestRecorded ==
    ASSUME TypeOK, IsFiniteSet(Unrecorded), NEW r \in Replayers,
           run' = [run EXCEPT ![r] = Resting]
    PROVE  /\ IsFiniteSet(Unrecorded')
           /\ Cardinality(Unrecorded) \in Nat
           /\ Cardinality(Unrecorded') =
                Cardinality(Unrecorded) - (IF run[r].pc = "executed" THEN 1 ELSE 0)
           /\ Unrecorded' \subseteq Unrecorded
           /\ \A q \in Unrecorded' : run'[q] = run[q]
<1>1. Unrecorded' = Unrecorded \ {r} /\ (r \in Unrecorded <=> run[r].pc = "executed")
  BY DEF Unrecorded, TypeOK, Resting
<1>2. \A q \in Unrecorded' : run'[q] = run[q]
  BY <1>1 DEF Unrecorded, TypeOK
<1> QED
  BY <1>1, <1>2, FS_RemoveElement, FS_CardinalityType

LEMMA NextAccounts ==
    ASSUME IInv, Accounts, [Next]_vars
    PROVE  Accounts'
<1>0. /\ Len(audit) \in Nat /\ Len(executed) \in Nat /\ faults \in Nat
      /\ audit \in Seq(Record) /\ executed \in Seq(Effect)
      /\ IsFiniteSet(Unrecorded) /\ Cardinality(Unrecorded) \in Nat
  BY FS_CardinalityType DEF IInv, TypeOK, Accounts, Balanced
<1>1. CASE UNCHANGED <<audit, executed, faults, Unrecorded>>
           /\ \A r \in Unrecorded : run'[r] = run[r]
  BY <1>1 DEF Accounts, Balanced, Ran
<1>2. ASSUME NEW r \in Replayers, ReplayExecute(r)
      PROVE  Accounts'
  <2> DEFINE x == [id |-> run[r].id, approver |-> run[r].approver,
                   rank |-> run[r].rank, at |-> run[r].at]
  <2>1. run[r] \in Replay /\ run[r].id \in Approvals /\ run \in [Replayers -> Replay]
    BY <1>2 DEF IInv, TypeOK, ReplayExecute, ReplaysOK, Justified
  <2>2. x \in Effect
    BY <2>1 DEF Replay, Effect
  <2>3. executed' = Append(executed, x) /\ UNCHANGED <<audit, faults>>
    BY <1>2 DEF ReplayExecute
  <2>4. x.id = run[r].id /\ x.approver = run[r].approver
    OBVIOUS
  <2> HIDE DEF x
  <2>5. /\ Len(executed') = Len(executed) + 1
        /\ executed'[Len(executed) + 1] = x
        /\ \A n \in 1..Len(executed) : executed'[n] = executed[n]
    BY <1>0, <2>2, <2>3, AppendProperties, LenProperties
  <2>6. /\ run'[r].id = run[r].id /\ run'[r].approver = run[r].approver
        /\ run'[r].pc = "executed" /\ run[r].pc = "checked"
        /\ \A q \in Replayers \ {r} : run'[q] = run[q]
    BY <1>2, <2>1 DEF ReplayExecute, Replay
  <2>7. Unrecorded' = Unrecorded \union {r} /\ r \notin Unrecorded
    BY <2>6 DEF Unrecorded
  <2>8. /\ IsFiniteSet(Unrecorded')
        /\ Cardinality(Unrecorded') = Cardinality(Unrecorded) + 1
    BY <1>0, <2>7, FS_AddElement
  <2>9. Balanced'
    BY <1>0, <2>3, <2>5, <2>8 DEF Accounts, Balanced
  <2>10. ASSUME NEW y, Ran(y)
         PROVE  \E m \in 1..Len(executed') :
                   executed'[m].id = y.id /\ executed'[m].approver = y.approver
    BY <1>0, <2>5, <2>10 DEF Ran
  <2>11. \A n \in 1..Len(audit') : Ran(audit[n])'
    BY <2>3, <2>10 DEF Accounts, Ran
  <2>12. ASSUME NEW q \in Unrecorded' PROVE Ran(run[q])'
    <3>1. CASE q = r
      <4>1. Len(executed) + 1 \in 1..Len(executed')
        BY <1>0, <2>5
      <4> QED
        BY <2>4, <2>5, <2>6, <3>1, <4>1 DEF Ran
    <3>2. CASE q # r
      <4>1. Ran(run[q]) /\ run'[q] = run[q]
        BY <2>6, <2>7, <3>2 DEF Accounts, Unrecorded
      <4> QED
        BY <2>10, <4>1 DEF Ran
    <3> QED
      BY <3>1, <3>2
  <2> QED
    BY <2>9, <2>11, <2>12 DEF Accounts
<1>3. ASSUME NEW r \in Replayers, ReplayAudit(r)
      PROVE  Accounts'
  <2> DEFINE e == [id |-> run[r].id, approver |-> run[r].approver]
  <2>1. run[r] \in Replay /\ run[r].id \in Approvals /\ r \in Unrecorded
    BY <1>3 DEF IInv, TypeOK, ReplayAudit, ReplaysOK, Justified, Unrecorded
  <2>2. e \in Record /\ Ran(e)
    BY <2>1 DEF Replay, Record, Accounts, Ran
  <2>3. audit' = Append(audit, e) /\ UNCHANGED <<executed, faults>>
          /\ run' = [run EXCEPT ![r] = Resting] /\ run[r].pc = "executed"
    BY <1>3 DEF ReplayAudit
  <2> HIDE DEF e
  <2>4. /\ Len(audit') = Len(audit) + 1
        /\ audit'[Len(audit) + 1] = e
        /\ \A n \in 1..Len(audit) : audit'[n] = audit[n]
    BY <1>0, <2>2, <2>3, AppendProperties, LenProperties
  <2>5. /\ IsFiniteSet(Unrecorded')
        /\ Cardinality(Unrecorded') = Cardinality(Unrecorded) - 1
        /\ Unrecorded' \subseteq Unrecorded
        /\ \A q \in Unrecorded' : run'[q] = run[q]
    BY <1>0, <2>3, RestRecorded DEF IInv
  <2>6. Balanced'
    BY <1>0, <2>3, <2>4, <2>5 DEF Accounts, Balanced
  <2>7. \A n \in 1..Len(audit') : Ran(audit'[n])
    BY <1>0, <2>2, <2>4 DEF Accounts
  <2>8. \A q \in Unrecorded' : Ran(run'[q])
    BY <2>5 DEF Accounts
  <2> QED
    BY <2>3, <2>6, <2>7, <2>8 DEF Accounts, Ran
<1>4. ASSUME NEW r \in Replayers, ReplayAuditFails(r) \/ ReplayCrash(r)
      PROVE  Accounts'
  <2>1. /\ UNCHANGED <<audit, executed>> /\ faults' = faults + 1
        /\ run' = [run EXCEPT ![r] = Resting]
    BY <1>4 DEF ReplayAuditFails, ReplayCrash
  <2>2. /\ IsFiniteSet(Unrecorded')
        /\ \/ Cardinality(Unrecorded') = Cardinality(Unrecorded)
           \/ Cardinality(Unrecorded') = Cardinality(Unrecorded) - 1
        /\ Unrecorded' \subseteq Unrecorded
        /\ \A q \in Unrecorded' : run'[q] = run[q]
    <3>1. /\ IsFiniteSet(Unrecorded')
          /\ Cardinality(Unrecorded') =
               Cardinality(Unrecorded) - (IF run[r].pc = "executed" THEN 1 ELSE 0)
          /\ Unrecorded' \subseteq Unrecorded
          /\ \A q \in Unrecorded' : run'[q] = run[q]
      BY <1>0, <2>1, RestRecorded DEF IInv
    <3>2. \/ Cardinality(Unrecorded') = Cardinality(Unrecorded)
          \/ Cardinality(Unrecorded') = Cardinality(Unrecorded) - 1
      BY <1>0, <3>1
    <3> QED
      BY <3>1, <3>2
  <2>3. Balanced'
    BY <1>0, <2>1, <2>2 DEF Accounts, Balanced
  <2> QED
    BY <2>1, <2>2, <2>3 DEF Accounts, Ran
<1>5. ASSUME NEW p \in Deciders, DeciderCrash(p)
      PROVE  Accounts'
  <2>1. UNCHANGED <<audit, executed, run>> /\ faults' = faults + 1
    BY <1>5 DEF DeciderCrash
  <2>2. Unrecorded' = Unrecorded
    BY <2>1 DEF Unrecorded
  <2> QED
    BY <1>0, <2>1, <2>2 DEF Accounts, Balanced, Ran
<1> QED
  BY <1>1, <1>2, <1>3, <1>4, <1>5, Bookkeeping

\* However replays overlap, and whatever fails: every audit record is of an
\* execution, and an execution without one is in progress or was lost to a fault.
THEOREM NothingRunsUnaccounted == Spec => []ExecutionsAccounted
<1>1. IInv /\ Accounts /\ [Next]_vars => Accounts'
  BY NextAccounts
<1>2. IInv /\ Accounts => ExecutionsAccounted
  <2> SUFFICES ASSUME IInv, Accounts PROVE ExecutionsAccounted
    OBVIOUS
  <2>1. /\ Len(audit) \in Nat /\ Len(executed) \in Nat /\ faults \in Nat
        /\ Cardinality(Unrecorded) \in Nat
        /\ Unrecorded = {} => Cardinality(Unrecorded) = 0
    BY FS_CardinalityType, FS_EmptySet DEF IInv, TypeOK, Accounts, Balanced
  <2>2. Len(audit) <= Len(executed)
    BY <2>1 DEF Accounts, Balanced
  <2>3. faults = 0 /\ Unrecorded = {} => Len(audit) = Len(executed)
    BY <2>1 DEF Accounts, Balanced
  <2>4. Len(executed) > Len(audit) + faults => Unrecorded # {}
    BY <2>1 DEF Accounts, Balanced
  <2> QED
    BY <2>2, <2>3, <2>4 DEF ExecutionsAccounted, Accounts, Ran, Unrecorded
<1> QED
  BY InitAccounts, Invariance, <1>1, <1>2, PTL DEF Spec

-----------------------------------------------------------------------------
(* One decider: only the API process decides                               *)

SoleDecider == Deciders = {Server}

\* A lone session's copy of the row is current when it writes.
Current == \A p \in Deciders : dec[p].pc = "read" => dec[p].seen = row[dec[p].id]

UnderLatest(x) ==
    /\ x.rank \in 1..Len(decided[x.id])
    /\ decided[x.id][x.rank] = [verdict |-> "approved", approver |-> x.approver]

ReplaysLatest == \A r \in Replayers : run[r].pc # "idle" => UnderLatest(run[r])

ExecutedLatest == \A n \in 1..Len(executed) : UnderLatest(executed[n])

SoleInv == Current /\ LastDecisionInForce /\ ReplaysLatest /\ ExecutedLatest

\* The write of a current copy stores the decision whole.
LEMMA FlushedWhole ==
    ASSUME NEW stored \in Row, NEW s \in Session, s.seen = stored
    PROVE  /\ Flushed(stored, s).status = s.verdict
           /\ Flushed(stored, s).approver = s.approver
BY DEF Flushed, Row, Session

LEMMA InitSoleInv == Init => SoleInv
BY DEF Init, SoleInv, Current, Idle, LastDecisionInForce, NoRow, ReplaysLatest, Resting,
       ExecutedLatest

\* What DecideCommit does to the row and the history, with one decider.
LEMMA SoleDecision ==
    ASSUME IInv, SoleInv, NEW p \in Deciders, DecideCommit(p)
    PROVE  /\ dec[p].id \in Approvals
           /\ dec[p].verdict \in Verdicts /\ dec[p].approver \in Approvers
           /\ row[dec[p].id].status # "absent"
           /\ row'[dec[p].id].status = dec[p].verdict
           /\ row'[dec[p].id].approver = dec[p].approver
           /\ decided'[dec[p].id] = Append(decided[dec[p].id],
                 [verdict |-> dec[p].verdict, approver |-> dec[p].approver])
           /\ \A b \in Approvals \ {dec[p].id} :
                 row'[b] = row[b] /\ decided'[b] = decided[b]
<1> USE DEF IInv, TypeOK
<1>1. /\ dec[p] \in Session /\ dec[p].id \in Approvals
      /\ dec[p].verdict \in Verdicts /\ dec[p].approver \in Approvers
      /\ row[dec[p].id].status # "absent"
  BY DEF DecideCommit, SessionsOK
<1>2. dec[p].seen = row[dec[p].id]
  BY DEF DecideCommit, SoleInv, Current
<1>3. row' = [row EXCEPT ![dec[p].id] = Flushed(row[dec[p].id], dec[p])]
  BY DEF DecideCommit
<1>4. /\ row'[dec[p].id].status = dec[p].verdict
      /\ row'[dec[p].id].approver = dec[p].approver
  BY <1>1, <1>2, <1>3, FlushedWhole
<1>5. decided' = [decided EXCEPT ![dec[p].id] =
                    Append(decided[dec[p].id],
                           [verdict |-> dec[p].verdict, approver |-> dec[p].approver])]
  BY DEF DecideCommit
<1> QED
  BY <1>1, <1>3, <1>4, <1>5

\* A decision that was in a history stays at its place.
LEMMA HistorySteady ==
    ASSUME IInv, [Next]_vars, NEW a \in Approvals
    PROVE  \A i \in 1..Len(decided[a]) :
              i \in 1..Len(decided'[a]) /\ decided'[a][i] = decided[a][i]
<1> USE DEF IInv, TypeOK
<1>1. CASE UNCHANGED decided
  BY <1>1
<1>2. ASSUME NEW p \in Deciders, DecideCommit(p)
      PROVE  \A i \in 1..Len(decided[a]) :
                i \in 1..Len(decided'[a]) /\ decided'[a][i] = decided[a][i]
  <2>1. [verdict |-> dec[p].verdict, approver |-> dec[p].approver] \in Decision
    BY <1>2 DEF DecideCommit, SessionsOK, Decision
  <2>2. \/ decided'[a] = decided[a]
        \/ decided'[a] = Append(decided[a],
                           [verdict |-> dec[p].verdict, approver |-> dec[p].approver])
    BY <1>2 DEF DecideCommit
  <2>3. decided[a] \in Seq(Decision)
    OBVIOUS
  <2>4. CASE decided'[a] = decided[a]
    BY <2>3, <2>4
  <2>5. CASE decided'[a] = Append(decided[a],
                             [verdict |-> dec[p].verdict, approver |-> dec[p].approver])
    <3>1. /\ Len(decided[a]) \in Nat
          /\ Len(decided'[a]) = Len(decided[a]) + 1
          /\ \A i \in 1..Len(decided[a]) : decided'[a][i] = decided[a][i]
      BY <2>1, <2>3, <2>5, AppendProperties, LenProperties
    <3> QED
      BY <3>1
  <2> QED
    BY <2>2, <2>4, <2>5
<1>3. UNCHANGED decided \/ \E p \in Deciders : DecideCommit(p)
  BY DEF Next, vars, CreateCommit, DecideRead, Refresh, Enqueue, DeciderCrash, ReplayCheck,
         ReplayExecute, ReplayAudit, ReplayAuditFails, ReplayCrash, Tick
<1> QED
  BY <1>1, <1>2, <1>3

LEMMA UnderLatestStays ==
    ASSUME IInv, [Next]_vars, NEW x, x.id \in Approvals, UnderLatest(x)
    PROVE  /\ x.rank \in 1..Len(decided'[x.id])
           /\ decided'[x.id][x.rank] = [verdict |-> "approved", approver |-> x.approver]
BY HistorySteady DEF UnderLatest

LEMMA NextCurrent ==
    ASSUME SoleDecider, IInv, SoleInv, [Next]_vars
    PROVE  Current'
<1> USE DEF IInv, TypeOK, SoleDecider
<1> SUFFICES ASSUME dec'[Server].pc = "read"
             PROVE  dec'[Server].seen = row'[dec'[Server].id]
  BY DEF Current
<1>1. CASE UNCHANGED <<dec, row>>
  BY <1>1 DEF SoleInv, Current
<1>2. ASSUME NEW a \in Approvals, NEW v \in Verdicts, NEW u \in Approvers,
             DecideRead(Server, a, v, u)
      PROVE  dec'[Server].seen = row'[dec'[Server].id]
  BY <1>2 DEF DecideRead
<1>3. ASSUME \/ \E a \in Approvals : CreateCommit(a)
             \/ DecideCommit(Server) \/ Refresh(Server)
             \/ Enqueue(Server) \/ DeciderCrash(Server)
      PROVE  dec'[Server].pc # "read"
  <2>1. dec[Server] \in Session
    BY ApprovalsAssumption
  <2>2. CASE \E a \in Approvals : CreateCommit(a)
    BY <2>1, <2>2, ApprovalsAssumption DEF CreateCommit, Idle
  <2>3. CASE DecideCommit(Server) \/ Refresh(Server)
    BY <2>1, <2>3 DEF DecideCommit, Refresh, Session
  <2>4. CASE Enqueue(Server) \/ DeciderCrash(Server)
    BY <2>4 DEF Enqueue, DeciderCrash, Idle
  <2> QED
    BY <1>3, <2>2, <2>3, <2>4
<1>4. \/ UNCHANGED <<dec, row>>
      \/ \E a \in Approvals : CreateCommit(a)
      \/ \E a \in Approvals, v \in Verdicts, u \in Approvers : DecideRead(Server, a, v, u)
      \/ DecideCommit(Server) \/ Refresh(Server) \/ Enqueue(Server) \/ DeciderCrash(Server)
  BY DEF Next, vars, ReplayCheck, ReplayExecute, ReplayAudit, ReplayAuditFails,
         ReplayCrash, Tick
<1> QED
  BY <1>1, <1>2, <1>3, <1>4

LEMMA NextLastDecisionInForce ==
    ASSUME IInv, SoleInv, [Next]_vars
    PROVE  LastDecisionInForce'
<1> USE DEF IInv, TypeOK
<1>1. CASE UNCHANGED <<row, decided>>
  BY <1>1 DEF SoleInv, LastDecisionInForce, Last
<1>2. ASSUME NEW b \in Approvals, CreateCommit(b)
      PROVE  LastDecisionInForce'
  BY <1>2 DEF CreateCommit, SoleInv, LastDecisionInForce, Last, RowsOK
<1>3. ASSUME NEW p \in Deciders, DecideCommit(p)
      PROVE  LastDecisionInForce'
  <2> DEFINE d == [verdict |-> dec[p].verdict, approver |-> dec[p].approver]
  <2> SUFFICES ASSUME NEW a \in Approvals
               PROVE  IF decided'[a] = <<>>
                      THEN row'[a].status \in {"absent", "pending"} /\ row'[a].approver = NULL
                      ELSE /\ row'[a].status = decided'[a][Len(decided'[a])].verdict
                           /\ row'[a].approver = decided'[a][Len(decided'[a])].approver
    BY DEF LastDecisionInForce, Last
  <2>1. CASE a # dec[p].id
    <3>1. row'[a] = row[a] /\ decided'[a] = decided[a]
      BY <1>3, <2>1, SoleDecision
    <3> QED
      BY <3>1 DEF SoleInv, LastDecisionInForce, Last
  <2>2. CASE a = dec[p].id
    <3>1. decided[a] \in Seq(Decision) /\ d \in Decision /\ decided'[a] = Append(decided[a], d)
      BY <1>3, <2>2, SoleDecision DEF Decision
    <3> HIDE DEF d
    <3>2. /\ Len(decided[a]) \in Nat
          /\ Len(decided'[a]) = Len(decided[a]) + 1
          /\ decided'[a][Len(decided[a]) + 1] = d
      BY <3>1, AppendProperties, LenProperties
    <3>3. row'[a].status = d.verdict /\ row'[a].approver = d.approver
      BY <1>3, <2>2, SoleDecision DEF d
    <3>4. decided'[a] # <<>>
      BY <3>2
    <3> QED
      BY <3>2, <3>3, <3>4
  <2> QED
    BY <2>1, <2>2
<1>4. \/ \E b \in Approvals : CreateCommit(b)
      \/ \E p \in Deciders : DecideCommit(p)
      \/ UNCHANGED <<row, decided>>
  BY DEF Next, vars, DecideRead, Refresh, Enqueue, DeciderCrash, ReplayCheck, ReplayExecute,
         ReplayAudit, ReplayAuditFails, ReplayCrash, Tick
<1> QED
  BY <1>1, <1>2, <1>3, <1>4

LEMMA NextReplaysLatest ==
    ASSUME IInv, SoleInv, [Next]_vars
    PROVE  ReplaysLatest'
<1> USE DEF IInv, TypeOK
<1> SUFFICES ASSUME NEW r \in Replayers, run'[r].pc # "idle"
             PROVE  UnderLatest(run[r])'
  BY DEF ReplaysLatest
<1>1. ASSUME run[r].pc # "idle", run'[r].id = run[r].id,
             run'[r].rank = run[r].rank, run'[r].approver = run[r].approver
      PROVE  UnderLatest(run[r])'
  <2>1. run[r].id \in Approvals /\ UnderLatest(run[r])
    BY <1>1 DEF ReplaysOK, Justified, SoleInv, ReplaysLatest
  <2>2. /\ run[r].rank \in 1..Len(decided'[run[r].id])
        /\ decided'[run[r].id][run[r].rank] =
             [verdict |-> "approved", approver |-> run[r].approver]
    BY <2>1, UnderLatestStays
  <2> QED
    BY <1>1, <2>2 DEF UnderLatest
<1>2. ASSUME NEW a \in Approvals, ReplayCheck(r, a)
      PROVE  UnderLatest(run[r])'
  <2>1. run'[r].id = a /\ run'[r].rank = Len(decided[a])
          /\ run'[r].approver = row[a].approver
    BY <1>2 DEF ReplayCheck
  <2>2. decided' = decided /\ row[a].status = "approved"
    BY <1>2 DEF ReplayCheck, Replayable
  <2>3. decided[a] # <<>> /\ decided[a] \in Seq(Decision)
    BY <2>2 DEF SoleInv, LastDecisionInForce
  <2>4. Len(decided[a]) \in 1..Len(decided[a]) /\ decided[a][Len(decided[a])] \in Decision
    BY <2>3
  <2>5. /\ decided[a][Len(decided[a])].verdict = "approved"
        /\ decided[a][Len(decided[a])].approver = row[a].approver
    BY <2>2, <2>3 DEF SoleInv, LastDecisionInForce, Last
  <2>6. decided[a][Len(decided[a])] = [verdict |-> "approved", approver |-> row[a].approver]
    BY <2>4, <2>5 DEF Decision
  <2> QED
    BY <2>1, <2>2, <2>4, <2>6 DEF UnderLatest
<1>3. \/ run[r].pc # "idle" /\ run'[r].id = run[r].id
           /\ run'[r].rank = run[r].rank /\ run'[r].approver = run[r].approver
      \/ \E a \in Approvals : ReplayCheck(r, a)
  <2>1. CASE run'[r] = run[r]
    BY <2>1
  <2>2. CASE ReplayExecute(r)
    BY <2>2 DEF ReplayExecute
  <2>3. ReplayAudit(r) \/ ReplayAuditFails(r) \/ ReplayCrash(r) => FALSE
    BY DEF ReplayAudit, ReplayAuditFails, ReplayCrash, Resting
  <2>4. \/ run'[r] = run[r]
        \/ \E a \in Approvals : ReplayCheck(r, a)
        \/ ReplayExecute(r)
        \/ ReplayAudit(r) \/ ReplayAuditFails(r) \/ ReplayCrash(r)
    BY DEF Next, vars, CreateCommit, DecideRead, DecideCommit, Refresh, Enqueue, DeciderCrash,
           ReplayCheck, ReplayExecute, ReplayAudit, ReplayAuditFails, ReplayCrash, Tick
  <2> QED
    BY <2>1, <2>2, <2>3, <2>4
<1> QED
  BY <1>1, <1>2, <1>3

LEMMA NextExecutedLatest ==
    ASSUME IInv, SoleInv, [Next]_vars
    PROVE  ExecutedLatest'
<1> USE DEF IInv, TypeOK
<1>1. \A n \in 1..Len(executed) :
         executed[n].id \in Approvals /\ UnderLatest(executed[n])
  BY DEF ExecutedOK, Justified, SoleInv, ExecutedLatest
<1>2. ASSUME NEW n \in 1..Len(executed)
      PROVE  /\ executed[n].rank \in 1..Len(decided'[executed[n].id])
             /\ decided'[executed[n].id][executed[n].rank] =
                  [verdict |-> "approved", approver |-> executed[n].approver]
  BY <1>1, UnderLatestStays
<1>3. CASE UNCHANGED executed
  BY <1>2, <1>3 DEF ExecutedLatest, UnderLatest
<1>4. ASSUME NEW r \in Replayers, ReplayExecute(r)
      PROVE  ExecutedLatest'
  <2> DEFINE x == [id |-> run[r].id, approver |-> run[r].approver,
                   rank |-> run[r].rank, at |-> run[r].at]
  <2>1. run[r] \in Replay /\ run[r].id \in Approvals /\ UnderLatest(run[r])
    BY <1>4 DEF ReplayExecute, ReplaysOK, Justified, SoleInv, ReplaysLatest
  <2>2. x \in Effect
    BY <2>1 DEF Replay, Effect
  <2>3. executed \in Seq(Effect) /\ executed' = Append(executed, x) /\ decided' = decided
    BY <1>4 DEF ReplayExecute
  <2>4. /\ Len(executed') = Len(executed) + 1 /\ Len(executed) \in Nat
        /\ executed'[Len(executed) + 1] = x
        /\ \A n \in 1..Len(executed) : executed'[n] = executed[n]
    BY <2>2, <2>3, AppendProperties, LenProperties
  <2>5. UnderLatest(x)
    BY <2>1 DEF UnderLatest
  <2> HIDE DEF x
  <2>6. ASSUME NEW n \in 1..Len(executed') PROVE UnderLatest(executed'[n])
    <3>1. CASE n \in 1..Len(executed)
      <4>1. executed'[n] = executed[n]
        BY <2>4, <3>1
      <4> QED
        BY <1>1, <3>1, <4>1
    <3>2. CASE n = Len(executed) + 1
      BY <2>4, <2>5, <3>2
    <3> QED
      BY <2>4, <3>1, <3>2
  <2> QED
    BY <2>3, <2>6 DEF ExecutedLatest, UnderLatest
<1>5. UNCHANGED executed \/ \E r \in Replayers : ReplayExecute(r)
  BY DEF Next, vars, CreateCommit, DecideRead, DecideCommit, Refresh, Enqueue, DeciderCrash,
         ReplayCheck, ReplayAudit, ReplayAuditFails, ReplayCrash, Tick
<1> QED
  BY <1>3, <1>4, <1>5

THEOREM SoleInvariance == SoleDecider => (Spec => [](IInv /\ SoleInv))
<1> SUFFICES ASSUME SoleDecider PROVE Spec => [](IInv /\ SoleInv)
  OBVIOUS
<1>1. IInv /\ SoleInv /\ [Next]_vars => SoleInv'
  BY NextCurrent, NextLastDecisionInForce, NextReplaysLatest, NextExecutedLatest DEF SoleInv
<1> QED
  BY InitSoleInv, Invariance, <1>1, PTL DEF Spec

\* While one process decides, the row carries the latest decision whole.
THEOREM SoleDeciderDecides == SoleDecider => (Spec => []LastDecisionInForce)
<1> SUFFICES ASSUME SoleDecider PROVE Spec => []LastDecisionInForce
  OBVIOUS
<1>1. IInv /\ SoleInv => LastDecisionInForce
  BY DEF SoleInv
<1> QED
  BY <1>1, SoleInvariance, PTL

\* While one process decides, every execution was approved by the decision that was
\* the latest when the replay looked, and names its reviewer.
THEOREM SoleDeciderAttributes == SoleDecider => (Spec => []ExecutedUnderLatestDecision)
<1> SUFFICES ASSUME SoleDecider PROVE Spec => []ExecutedUnderLatestDecision
  OBVIOUS
<1>1. IInv /\ SoleInv => ExecutedUnderLatestDecision
  BY DEF SoleInv, ExecutedLatest, UnderLatest, ExecutedUnderLatestDecision
<1> QED
  BY <1>1, SoleInvariance, PTL

-----------------------------------------------------------------------------
(* One decider announces every decision once, in order                     *)

\* The j-th event owed for a, and how many there are.
Due(a, j) == IF j = 1 THEN [event |-> "created", status |-> "pending", approver |-> NULL]
             ELSE Announcement(decided[a][j - 1])

DueLen(a) == IF row[a].status = "absent" THEN 0 ELSE Len(decided[a]) + 1

\* The server has committed the last event due for a, and not enqueued it.
Pending(a) == dec[Server].id = a /\ dec[Server].pc \in {"committed", "refreshed"}

Behind(a) == IF Pending(a) THEN 1 ELSE 0

\* What the server has in hand is the last event due for its request.
InHand ==
    LET s == dec[Server] IN
    /\ s.pc = "committed" => s.verdict = Due(s.id, DueLen(s.id)).event
    /\ s.pc = "refreshed" =>
         [event |-> s.verdict, status |-> s.seen.status, approver |-> s.seen.approver]
           = Due(s.id, DueLen(s.id))

\* The outbox is as long as what is due, less the one in hand and those lost;
\* nothing else is in it, and with no fault each event is at its place.
Told(a) ==
    /\ Len(outbox[a]) + Behind(a) <= DueLen(a)
    /\ DueLen(a) <= Len(outbox[a]) + Behind(a) + faults
    /\ \A i \in 1..Len(outbox[a]) : \E j \in i..DueLen(a) : outbox[a][i] = Due(a, j)
    /\ faults = 0 => \A i \in 1..Len(outbox[a]) : outbox[a][i] = Due(a, i)

Announces == InHand /\ \A a \in Approvals : Told(a)

LEMMA InitAnnounces == Init => Announces
<1> SUFFICES ASSUME Init PROVE Announces
  OBVIOUS
<1>1. dec[Server] = Idle
  BY ApprovalsAssumption DEF Init
<1>2. InHand
  BY <1>1 DEF InHand, Idle
<1>3. ASSUME NEW a \in Approvals PROVE Told(a)
  <2>1. row[a].status = "absent" /\ outbox[a] = <<>> /\ faults = 0
    BY DEF Init, NoRow
  <2>2. ~Pending(a)
    BY <1>1 DEF Pending, Idle
  <2> QED
    BY <2>1, <2>2 DEF Told, Behind, DueLen
<1> QED
  BY <1>2, <1>3 DEF Announces

LEMMA DueLenType == ASSUME TypeOK, NEW a \in Approvals PROVE DueLen(a) \in Nat
BY DEF TypeOK, DueLen

\* Owed is the sequence of what is due.
LEMMA OwedIsDue ==
    ASSUME TypeOK, NEW a \in Approvals
    PROVE  /\ Owed(a) \in Seq(Event)
           /\ Len(Owed(a)) = DueLen(a)
           /\ \A j \in 1..DueLen(a) : Owed(a)[j] = Due(a, j)
<1> DEFINE first == [event |-> "created", status |-> "pending", approver |-> NULL]
           rest == [i \in 1..Len(decided[a]) |-> Announcement(decided[a][i])]
<1>1. decided[a] \in Seq(Decision) /\ Len(decided[a]) \in Nat
  BY DEF TypeOK
<1>2. first \in Event
  BY DEF Event, Statuses
<1>3. rest \in [1..Len(decided[a]) -> Event]
  <2> SUFFICES ASSUME NEW i \in 1..Len(decided[a])
               PROVE  Announcement(decided[a][i]) \in Event
    OBVIOUS
  <2>1. decided[a][i] \in Decision
    BY <1>1
  <2> QED
    BY <2>1 DEF Decision, Announcement, Event, Statuses
<1>4. rest \in Seq(Event) /\ Len(rest) = Len(decided[a])
  BY <1>1, <1>3, FunctionIsSeq
<1>5. \A i \in 1..Len(decided[a]) : rest[i] = Announcement(decided[a][i])
  OBVIOUS
<1>6. CASE row[a].status = "absent"
  BY <1>6 DEF Owed, DueLen
<1>7. CASE row[a].status # "absent"
  <2>1. Owed(a) = <<first>> \o rest
    BY <1>7 DEF Owed
  <2>2. \A j \in 1..Len(decided[a]) + 1 :
           Due(a, j) = IF j = 1 THEN first ELSE rest[j - 1]
    BY <1>1, <1>5 DEF Due
  <2> HIDE DEF first, rest
  <2>3. /\ Owed(a) \in Seq(Event)
        /\ Len(Owed(a)) = Len(decided[a]) + 1
        /\ \A j \in 1..Len(decided[a]) + 1 :
              Owed(a)[j] = IF j = 1 THEN first ELSE rest[j - 1]
    BY <1>1, <1>2, <1>4, <2>1
  <2> QED
    BY <1>7, <2>2, <2>3 DEF DueLen
<1> QED
  BY <1>6, <1>7

\* With nothing decided, crashed or enqueued, what is due and told stays.
LEMMA ToldStays ==
    ASSUME NEW a \in Approvals, Told(a),
           row'[a].status = row[a].status, decided'[a] = decided[a],
           outbox'[a] = outbox[a], faults' = faults, Pending(a)' <=> Pending(a)
    PROVE  Told(a)'
<1>1. Behind(a)' = Behind(a) /\ DueLen(a)' = DueLen(a)
  BY DEF Behind, DueLen
<1>2. \A j : Due(a, j)' = Due(a, j)
  BY DEF Due
<1> QED
  BY <1>1, <1>2 DEF Told

\* The commit of a decision, or of a new request, makes one more event due.
LEMMA CommitTold ==
    ASSUME IInv, Announces, NEW a \in Approvals, dec[Server].pc \in {"idle", "read"},
           dec'[Server].id = a, dec'[Server].pc = "committed",
           UNCHANGED <<outbox, faults>>, DueLen(a)' = DueLen(a) + 1,
           \A j \in 1..DueLen(a) : Due(a, j)' = Due(a, j),
           \A b \in Approvals \ {a} : row'[b] = row[b] /\ decided'[b] = decided[b]
    PROVE  \A b \in Approvals : Told(b)'
<1>1. /\ \A b \in Approvals : ~Pending(b)
      /\ Pending(a)'
      /\ \A b \in Approvals \ {a} : ~Pending(b)'
  BY DEF Pending
<1>2. ASSUME NEW b \in Approvals, b # a PROVE Told(b)'
  BY <1>1, <1>2, ToldStays DEF Announces
<1>3. Told(a)'
  <2>1. Behind(a) = 0 /\ Behind(a)' = 1
    BY <1>1 DEF Behind
  <2>2. DueLen(a) \in Nat /\ Len(outbox[a]) \in Nat /\ faults \in Nat
    BY DueLenType DEF IInv, TypeOK
  <2>3. Told(a)
    BY DEF Announces
  <2>4. ASSUME NEW i \in 1..Len(outbox[a])
        PROVE  \E j \in i..DueLen(a)' : outbox[a][i] = Due(a, j)'
    <3>1. PICK j \in i..DueLen(a) : outbox[a][i] = Due(a, j)
      BY <2>3 DEF Told
    <3>2. j \in 1..DueLen(a) /\ j \in i..(DueLen(a) + 1)
      BY <2>2
    <3> QED
      BY <3>1, <3>2
  <2>5. Len(outbox[a]) <= DueLen(a)
    BY <2>1, <2>2, <2>3 DEF Told
  <2>6. ASSUME faults = 0, NEW i \in 1..Len(outbox[a])
        PROVE  outbox[a][i] = Due(a, i)'
    <3>1. outbox[a][i] = Due(a, i)
      BY <2>3, <2>6 DEF Told
    <3>2. i \in 1..DueLen(a)
      BY <2>2, <2>5
    <3> QED
      BY <3>1, <3>2
  <2>7. /\ Len(outbox[a]) + Behind(a)' <= DueLen(a)'
        /\ DueLen(a)' <= Len(outbox[a]) + Behind(a)' + faults
    BY <2>1, <2>2, <2>3 DEF Told
  <2> QED
    BY <2>4, <2>6, <2>7 DEF Told
<1> QED
  BY <1>2, <1>3

LEMMA NextAnnounces ==
    ASSUME SoleDecider, IInv, SoleInv, Announces, [Next]_vars
    PROVE  Announces'
<1>0. /\ dec \in [Deciders -> Session] /\ dec[Server] \in Session /\ Server \in Deciders
      /\ row \in [Approvals -> Row] /\ outbox \in [Approvals -> Seq(Event)]
      /\ decided \in [Approvals -> Seq(Decision)] /\ faults \in Nat
  BY ApprovalsAssumption DEF IInv, TypeOK
<1>1. CASE UNCHANGED <<row, outbox, dec, decided, faults>>
  <2>1. InHand'
    BY <1>1 DEF Announces, InHand, Due, DueLen
  <2> QED
    BY <1>1, <2>1, ToldStays DEF Announces, Pending
<1>2. ASSUME NEW a \in Approvals, CreateCommit(a)
      PROVE  Announces'
  <2>1. /\ row'[a].status = "pending" /\ row[a].status = "absent"
        /\ \A b \in Approvals \ {a} : row'[b] = row[b]
        /\ UNCHANGED <<outbox, decided, faults>>
        /\ dec[Server].pc = "idle"
    BY <1>0, <1>2 DEF CreateCommit
  <2>2. /\ dec'[Server].id = a /\ dec'[Server].pc = "committed"
        /\ dec'[Server].verdict = "created"
    BY <1>0, <1>2 DEF CreateCommit, Idle
  <2>3. decided[a] = <<>>
    BY <2>1 DEF IInv, RowsOK
  <2>4. DueLen(a) = 0 /\ DueLen(a)' = 1
    BY <2>1, <2>3 DEF DueLen
  <2>5. \A b \in Approvals : Told(b)'
    BY <2>1, <2>2, <2>4, CommitTold
  <2>6. InHand'
    BY <2>2, <2>4 DEF InHand, Due
  <2> QED
    BY <2>5, <2>6 DEF Announces
<1>3. ASSUME NEW a \in Approvals, NEW v \in Verdicts, NEW u \in Approvers,
             DecideRead(Server, a, v, u)
      PROVE  Announces'
  <2>1. /\ dec[Server].pc = "idle" /\ dec'[Server].pc = "read"
        /\ UNCHANGED <<row, outbox, decided, faults>>
    BY <1>0, <1>3 DEF DecideRead
  <2>2. \A b \in Approvals : ~Pending(b) /\ ~Pending(b)'
    BY <2>1 DEF Pending
  <2>3. InHand'
    BY <2>1 DEF InHand
  <2> QED
    BY <2>1, <2>2, <2>3, ToldStays DEF Announces
<1>4. CASE DecideCommit(Server)
  <2> DEFINE a == dec[Server].id
             d == [verdict |-> dec[Server].verdict, approver |-> dec[Server].approver]
  <2>1. /\ a \in Approvals /\ d \in Decision
        /\ row[a].status # "absent" /\ row'[a].status \in Verdicts
        /\ decided'[a] = Append(decided[a], d)
        /\ \A b \in Approvals \ {a} : row'[b] = row[b] /\ decided'[b] = decided[b]
    BY <1>0, <1>4, SoleDecision DEF Decision
  <2>2. /\ dec[Server].pc = "read" /\ dec'[Server].pc = "committed"
        /\ dec'[Server].id = a /\ dec'[Server].verdict = d.verdict
        /\ UNCHANGED <<outbox, faults>>
    BY <1>0, <1>4 DEF DecideCommit, Session
  <2> HIDE DEF a, d
  <2>3. /\ Len(decided[a]) \in Nat
        /\ Len(decided'[a]) = Len(decided[a]) + 1
        /\ decided'[a][Len(decided[a]) + 1] = d
        /\ \A i \in 1..Len(decided[a]) : decided'[a][i] = decided[a][i]
    BY <1>0, <2>1, AppendProperties, LenProperties
  <2>4. /\ DueLen(a) = Len(decided[a]) + 1
        /\ (IF row'[a].status = "absent" THEN 0 ELSE Len(decided'[a]) + 1) = DueLen(a) + 1
    BY <2>1, <2>3 DEF DueLen, Verdicts
  <2>5. \A j \in 1..DueLen(a) :
           (IF j = 1 THEN [event |-> "created", status |-> "pending", approver |-> NULL]
            ELSE Announcement(decided'[a][j - 1])) = Due(a, j)
    BY <2>3, <2>4 DEF Due
  <2>6. PICK b \in Approvals : b = a
    BY <2>1
  <2>7. DueLen(b)' = DueLen(b) + 1 /\ \A j \in 1..DueLen(b) : Due(b, j)' = Due(b, j)
    BY <2>4, <2>5, <2>6 DEF DueLen, Due
  <2>8. \A c \in Approvals : Told(c)'
    BY <2>1, <2>2, <2>6, <2>7, CommitTold
  <2>9. Due(b, DueLen(b))'.event = d.verdict
    <3>1. DueLen(b)' = Len(decided[a]) + 2 /\ Len(decided[a]) + 2 # 1
            /\ Len(decided[a]) + 2 - 1 = Len(decided[a]) + 1
      BY <2>3, <2>4, <2>6, <2>7
    <3>2. Due(b, DueLen(b))' = Announcement(d)
      BY <2>3, <2>6, <3>1 DEF Due
    <3> QED
      BY <3>2 DEF Announcement
  <2>10. InHand'
    BY <2>2, <2>6, <2>9 DEF InHand
  <2> QED
    BY <2>8, <2>10 DEF Announces
<1>5. CASE Refresh(Server)
  <2>1. /\ dec[Server].pc = "committed" /\ dec'[Server].pc = "refreshed"
        /\ dec'[Server].id = dec[Server].id
        /\ dec'[Server].verdict = dec[Server].verdict
        /\ dec'[Server].seen = row[dec[Server].id]
        /\ UNCHANGED <<row, outbox, decided, faults>>
    BY <1>0, <1>5 DEF Refresh, Session
  <2>2. \A b \in Approvals : Pending(b)' <=> Pending(b)
    BY <2>1 DEF Pending
  <2>3. \A b \in Approvals : Told(b)'
    BY <2>1, <2>2, ToldStays DEF Announces
  <2>4. dec[Server].id \in Approvals /\ row[dec[Server].id].status # "absent"
    BY <1>0, <2>1 DEF IInv, SessionsOK
  <2>5. PICK a \in Approvals : a = dec[Server].id
    BY <2>4
  <2>6. /\ DueLen(a) = Len(decided[a]) + 1 /\ Len(decided[a]) \in Nat
        /\ dec[Server].verdict = Due(a, DueLen(a)).event
    BY <1>0, <2>1, <2>4, <2>5 DEF DueLen, Announces, InHand
  <2>7. /\ Due(a, DueLen(a)).status = row[a].status
        /\ Due(a, DueLen(a)).approver = row[a].approver
    <3>1. CASE decided[a] = <<>>
      BY <2>4, <2>5, <2>6, <3>1 DEF SoleInv, LastDecisionInForce, Due
    <3>2. CASE decided[a] # <<>>
      <4>1. Len(decided[a]) + 1 # 1 /\ Len(decided[a]) + 1 - 1 = Len(decided[a])
        BY <1>0, <2>6, <3>2
      <4>2. Due(a, DueLen(a)) = Announcement(decided[a][Len(decided[a])])
        BY <2>6, <4>1 DEF Due
      <4> QED
        BY <3>2, <4>2 DEF SoleInv, LastDecisionInForce, Last, Announcement
    <3> QED
      BY <3>1, <3>2
  <2>8. Due(a, DueLen(a)) = [event |-> Due(a, DueLen(a)).event,
                             status |-> Due(a, DueLen(a)).status,
                             approver |-> Due(a, DueLen(a)).approver]
    BY DEF Due, Announcement
  <2>9. InHand'
    BY <2>1, <2>5, <2>6, <2>7, <2>8 DEF InHand, Due, DueLen
  <2> QED
    BY <2>3, <2>9 DEF Announces
<1>6. CASE Enqueue(Server)
  <2>1. /\ dec[Server].pc = "refreshed" /\ dec'[Server] = Idle
        /\ UNCHANGED <<row, decided, faults>>
    BY <1>0, <1>6 DEF Enqueue
  <2>2. dec[Server].id \in Approvals
    BY <1>0, <2>1 DEF IInv, SessionsOK
  <2>3. PICK a \in Approvals : a = dec[Server].id
    BY <2>2
  <2> DEFINE e == [event |-> dec[Server].verdict, status |-> dec[Server].seen.status,
                   approver |-> dec[Server].seen.approver]
  <2>4. e = Due(a, DueLen(a)) /\ e \in Event
    BY <1>0, <2>1, <2>3 DEF Announces, InHand, Session, Row, Event
  <2>5. /\ outbox'[a] = Append(outbox[a], e)
        /\ \A b \in Approvals \ {a} : outbox'[b] = outbox[b]
    BY <1>0, <1>6, <2>3 DEF Enqueue
  <2> HIDE DEF e
  <2>6. /\ Len(outbox[a]) \in Nat
        /\ Len(outbox'[a]) = Len(outbox[a]) + 1
        /\ outbox'[a][Len(outbox[a]) + 1] = e
        /\ \A i \in 1..Len(outbox[a]) : outbox'[a][i] = outbox[a][i]
    BY <1>0, <2>4, <2>5, AppendProperties, LenProperties
  <2>7. /\ Pending(a) /\ \A b \in Approvals \ {a} : ~Pending(b)
        /\ \A b \in Approvals : ~Pending(b)'
    BY <2>1, <2>3 DEF Pending, Idle
  <2>8. \A b \in Approvals \ {a} : Told(b)'
    BY <2>1, <2>5, <2>7, ToldStays DEF Announces
  <2>9. Told(a)'
    <3>1. Behind(a) = 1 /\ Behind(a)' = 0
      BY <2>7 DEF Behind
    <3>2. DueLen(a) \in Nat
      BY DueLenType DEF IInv
    <3>3. DueLen(a)' = DueLen(a) /\ \A j : Due(a, j)' = Due(a, j)
      BY <2>1 DEF DueLen, Due
    <3>4. /\ Len(outbox[a]) + 1 <= DueLen(a)
          /\ DueLen(a) <= Len(outbox[a]) + 1 + faults
          /\ \A i \in 1..Len(outbox[a]) : \E j \in i..DueLen(a) : outbox[a][i] = Due(a, j)
          /\ faults = 0 => \A i \in 1..Len(outbox[a]) : outbox[a][i] = Due(a, i)
      BY <3>1 DEF Announces, Told
    <3>5. ASSUME NEW i \in 1..Len(outbox[a]) + 1
          PROVE  \E j \in i..DueLen(a) : outbox'[a][i] = Due(a, j)
      <4>1. CASE i \in 1..Len(outbox[a])
        BY <2>6, <3>4, <4>1
      <4>2. CASE i = Len(outbox[a]) + 1
        <5>1. DueLen(a) \in i..DueLen(a)
          BY <2>6, <3>2, <3>4, <4>2
        <5> QED
          BY <2>4, <2>6, <4>2, <5>1
      <4> QED
        BY <2>6, <4>1, <4>2
    <3>6. ASSUME faults = 0, NEW i \in 1..Len(outbox[a]) + 1
          PROVE  outbox'[a][i] = Due(a, i)
      <4>1. CASE i \in 1..Len(outbox[a])
        BY <2>6, <3>4, <3>6, <4>1
      <4>2. CASE i = Len(outbox[a]) + 1
        <5>1. DueLen(a) = i
          BY <2>6, <3>2, <3>4, <3>6, <4>2
        <5> QED
          BY <2>4, <2>6, <4>2, <5>1
      <4> QED
        BY <2>6, <4>1, <4>2
    <3>7. /\ Len(outbox'[a]) + Behind(a)' <= DueLen(a)'
          /\ DueLen(a)' <= Len(outbox'[a]) + Behind(a)' + faults'
      BY <1>0, <2>1, <2>6, <3>1, <3>2, <3>3, <3>4
    <3> QED
      BY <2>1, <2>6, <3>3, <3>5, <3>6, <3>7 DEF Told
  <2>10. InHand'
    BY <2>1 DEF InHand, Idle
  <2> QED
    BY <2>8, <2>9, <2>10 DEF Announces
<1>7. CASE DeciderCrash(Server)
  <2>1. /\ dec'[Server] = Idle /\ faults' = faults + 1
        /\ UNCHANGED <<row, outbox, decided>>
    BY <1>0, <1>7 DEF DeciderCrash
  <2>2. InHand'
    BY <2>1 DEF InHand, Idle
  <2>3. ASSUME NEW a \in Approvals PROVE Told(a)'
    <3>1. Behind(a)' = 0 /\ Behind(a) \in {0, 1}
      BY <2>1 DEF Behind, Pending, Idle
    <3>2. DueLen(a) \in Nat /\ Len(outbox[a]) \in Nat
      BY <1>0, DueLenType DEF IInv
    <3>3. DueLen(a)' = DueLen(a) /\ \A j : Due(a, j)' = Due(a, j)
      BY <2>1 DEF DueLen, Due
    <3>4. Told(a)
      BY DEF Announces
    <3>5. /\ Len(outbox[a]) + Behind(a)' <= DueLen(a)
          /\ DueLen(a) <= Len(outbox[a]) + Behind(a)' + (faults + 1)
      BY <1>0, <3>1, <3>2, <3>4 DEF Told
    <3>6. faults' # 0
      BY <1>0, <2>1
    <3> QED
      BY <2>1, <3>3, <3>4, <3>5, <3>6 DEF Told
  <2> QED
    BY <2>2, <2>3 DEF Announces
<1>8. ASSUME NEW r \in Replayers, ReplayAuditFails(r) \/ ReplayCrash(r)
      PROVE  Announces'
  <2>1. faults' = faults + 1 /\ UNCHANGED <<row, outbox, decided, dec>>
    BY <1>8 DEF ReplayAuditFails, ReplayCrash
  <2>2. InHand'
    BY <2>1 DEF Announces, InHand, Due, DueLen
  <2>3. ASSUME NEW a \in Approvals PROVE Told(a)'
    <3>1. Behind(a)' = Behind(a) /\ Behind(a) \in {0, 1}
      BY <2>1 DEF Behind, Pending
    <3>2. DueLen(a) \in Nat /\ Len(outbox[a]) \in Nat
      BY <1>0, DueLenType DEF IInv
    <3>3. DueLen(a)' = DueLen(a) /\ \A j : Due(a, j)' = Due(a, j)
      BY <2>1 DEF DueLen, Due
    <3>4. Told(a)
      BY DEF Announces
    <3>5. DueLen(a) <= Len(outbox[a]) + Behind(a) + (faults + 1)
      BY <1>0, <3>1, <3>2, <3>4 DEF Told
    <3>6. faults' # 0
      BY <1>0, <2>1
    <3> QED
      BY <2>1, <3>1, <3>3, <3>4, <3>5, <3>6 DEF Told
  <2> QED
    BY <2>2, <2>3 DEF Announces
<1>9. \/ UNCHANGED <<row, outbox, dec, decided, faults>>
      \/ \E a \in Approvals : CreateCommit(a)
      \/ \E a \in Approvals, v \in Verdicts, u \in Approvers : DecideRead(Server, a, v, u)
      \/ DecideCommit(Server) \/ Refresh(Server) \/ Enqueue(Server) \/ DeciderCrash(Server)
      \/ \E r \in Replayers : ReplayAuditFails(r) \/ ReplayCrash(r)
  BY DEF Next, vars, SoleDecider, ReplayCheck, ReplayExecute, ReplayAudit, Tick
<1> QED
  BY <1>1, <1>2, <1>3, <1>4, <1>5, <1>6, <1>7, <1>8, <1>9

\* While one process decides, the outbox announces each decision once and in order,
\* and only a crash between the commit and the enqueue leaves one out.
THEOREM SoleDeciderAnnounces == SoleDecider => (Spec => []AnnouncedInOrder)
<1> SUFFICES ASSUME SoleDecider PROVE Spec => []AnnouncedInOrder
  OBVIOUS
<1>1. IInv /\ SoleInv /\ Announces /\ [Next]_vars => Announces'
  BY NextAnnounces
<1>2. IInv /\ Announces => AnnouncedInOrder
  <2> SUFFICES ASSUME IInv, Announces, NEW a \in Approvals
               PROVE  /\ Len(Owed(a)) <= Len(outbox[a]) + faults
                                           + (IF Announcing(a) = {} THEN 0 ELSE 1)
                      /\ \A i \in 1..Len(outbox[a]) :
                            \E j \in i..Len(Owed(a)) : outbox[a][i] = Owed(a)[j]
                      /\ (faults = 0 /\ Announcing(a) = {}) => outbox[a] = Owed(a)
    BY DEF AnnouncedInOrder
  <2>1. /\ outbox[a] \in Seq(Event) /\ Len(outbox[a]) \in Nat /\ faults \in Nat
        /\ DueLen(a) \in Nat /\ Behind(a) \in {0, 1}
    BY DueLenType DEF IInv, TypeOK, Behind
  <2>2. Behind(a) = (IF Announcing(a) = {} THEN 0 ELSE 1)
    BY ApprovalsAssumption DEF Behind, Pending, Announcing, SoleDecider
  <2>3. /\ Owed(a) \in Seq(Event) /\ Len(Owed(a)) = DueLen(a)
        /\ \A j \in 1..DueLen(a) : Owed(a)[j] = Due(a, j)
    BY OwedIsDue DEF IInv
  <2>4. Told(a)
    BY DEF Announces
  <2>5. Len(Owed(a)) <= Len(outbox[a]) + faults + (IF Announcing(a) = {} THEN 0 ELSE 1)
    <3>1. DueLen(a) <= Len(outbox[a]) + faults + Behind(a)
      BY <2>1, <2>4 DEF Told
    <3> QED
      BY <2>2, <2>3, <3>1
  <2>6. ASSUME NEW i \in 1..Len(outbox[a])
        PROVE  \E j \in i..Len(Owed(a)) : outbox[a][i] = Owed(a)[j]
    <3>1. PICK j \in i..DueLen(a) : outbox[a][i] = Due(a, j)
      BY <2>4 DEF Told
    <3>2. j \in 1..DueLen(a)
      BY <2>1
    <3> QED
      BY <2>3, <3>1, <3>2
  <2>7. ASSUME faults = 0, Announcing(a) = {} PROVE outbox[a] = Owed(a)
    <3>1. Len(outbox[a]) = DueLen(a)
      BY <2>1, <2>2, <2>4, <2>7 DEF Told
    <3>2. \A i \in 1..Len(outbox[a]) : outbox[a][i] = Owed(a)[i]
      BY <2>3, <2>4, <2>7, <3>1 DEF Told
    <3> QED
      BY <2>1, <2>3, <3>1, <3>2
  <2> QED
    BY <2>5, <2>6, <2>7
<1> QED
  BY InitAnnounces, SoleInvariance, <1>1, <1>2, PTL DEF Spec

-----------------------------------------------------------------------------
(* One decider implements the register                                     *)

LEMMA InitRegister == Init => Register!Init
BY DEF Init, Register!Init, ruling, permits, effects, NoRow, Resting

LEMMA PermitNotNull ==
    ASSUME TypeOK, ReplaysOK, NEW r \in Replayers, run[r].pc = "checked"
    PROVE  permits[r] = [id |-> run[r].id, approver |-> run[r].approver]
           /\ permits[r] # NULL
<1>1. run[r] \in Replay /\ run[r].id \in Approvals
  BY DEF TypeOK, ReplaysOK, Justified
<1>2. [id |-> run[r].id, approver |-> run[r].approver]
        \in [id : Approvals, approver : Approvers \union {NULL}]
  BY <1>1 DEF Replay
<1>3. permits[r] = [id |-> run[r].id, approver |-> run[r].approver]
  BY DEF permits
<1> QED
  BY <1>2, <1>3, ApprovalsAssumption

\* A replay that stops being "checked" without an effect drops its permit, or had none.
LEMMA RestDrops ==
    ASSUME TypeOK, ReplaysOK, NEW r \in Replayers,
           run' = [run EXCEPT ![r] = Resting], UNCHANGED <<ruling, decided, effects>>
    PROVE  [Register!Next]_<<ruling, decided, permits, effects>>
<1>1. permits' = [permits EXCEPT ![r] = NULL]
  BY DEF permits, Resting, TypeOK
<1>2. CASE run[r].pc = "checked"
  BY <1>1, <1>2, PermitNotNull DEF Register!Next, Register!Drop
<1>3. CASE run[r].pc # "checked"
  <2>1. permits[r] = NULL
    BY <1>3 DEF permits
  <2>2. permits' = permits
    BY <1>1, <2>1 DEF permits
  <2> QED
    BY <2>2
<1> QED
  BY <1>2, <1>3

LEMMA NextRegister ==
    ASSUME IInv, SoleInv, [Next]_vars
    PROVE  [Register!Next]_<<ruling, decided, permits, effects>>
<1> USE DEF IInv, TypeOK
<1>1. CASE UNCHANGED <<row, run, decided, executed>>
  BY <1>1 DEF ruling, permits, effects
<1>2. ASSUME NEW a \in Approvals, CreateCommit(a)
      PROVE  Register!Open(a)
  <2>1. ruling[a].status = "absent"
    BY <1>2 DEF CreateCommit, ruling
  <2>2. ruling' = [ruling EXCEPT ![a] = [status |-> "pending", approver |-> NULL]]
    BY <1>2 DEF CreateCommit, ruling
  <2>3. UNCHANGED <<decided, permits, effects>>
    BY <1>2 DEF CreateCommit, permits, effects
  <2> QED
    BY <2>1, <2>2, <2>3 DEF Register!Open
<1>3. ASSUME NEW p \in Deciders, DecideCommit(p)
      PROVE  Register!Rule(dec[p].id, dec[p].verdict, dec[p].approver)
  <2>1. ruling[dec[p].id].status # "absent"
    BY <1>3, SoleDecision DEF ruling
  <2>2. ruling' = [ruling EXCEPT ![dec[p].id] =
                     [status |-> dec[p].verdict, approver |-> dec[p].approver]]
    BY <1>3, SoleDecision DEF ruling
  <2>3. decided' = [decided EXCEPT ![dec[p].id] =
                      Append(@, [verdict |-> dec[p].verdict, approver |-> dec[p].approver])]
    BY <1>3 DEF DecideCommit
  <2>4. UNCHANGED <<permits, effects>>
    BY <1>3 DEF DecideCommit, permits, effects
  <2> QED
    BY <2>1, <2>2, <2>3, <2>4 DEF Register!Rule
<1>4. ASSUME NEW r \in Replayers, NEW a \in Approvals, ReplayCheck(r, a)
      PROVE  Register!Permit(r, a)
  <2>1. permits[r] = NULL /\ ruling[a].status = "approved"
    BY <1>4 DEF ReplayCheck, Replayable, permits, ruling
  <2>2. permits' = [permits EXCEPT ![r] = [id |-> a, approver |-> ruling[a].approver]]
    BY <1>4 DEF ReplayCheck, permits, ruling
  <2>3. UNCHANGED <<ruling, decided, effects>>
    BY <1>4 DEF ReplayCheck, ruling, effects
  <2> QED
    BY <2>1, <2>2, <2>3 DEF Register!Permit
<1>5. ASSUME NEW r \in Replayers, ReplayExecute(r)
      PROVE  Register!Act(r)
  <2> DEFINE x == [id |-> run[r].id, approver |-> run[r].approver,
                   rank |-> run[r].rank, at |-> run[r].at]
             e == [id |-> run[r].id, approver |-> run[r].approver]
  <2>1. run[r] \in Replay /\ run[r].id \in Approvals /\ run[r].pc = "checked"
    BY <1>5 DEF ReplayExecute, ReplaysOK, Justified
  <2>2. permits[r] = e /\ permits[r] # NULL
    BY <2>1, PermitNotNull
  <2>3. permits' = [permits EXCEPT ![r] = NULL]
    <3>1. run' = [run EXCEPT ![r] = [run[r] EXCEPT !.pc = "executed"]]
      BY <1>5 DEF ReplayExecute
    <3>2. run'[r].pc = "executed" /\ \A q \in Replayers \ {r} : run'[q] = run[q]
      BY <2>1, <3>1 DEF Replay
    <3> QED
      BY <3>2 DEF permits
  <2>4. UNCHANGED <<ruling, decided>>
    BY <1>5 DEF ReplayExecute, ruling
  <2>5. effects' = Append(effects, e)
    <3>1. x \in Effect /\ executed \in Seq(Effect) /\ executed' = Append(executed, x)
      BY <1>5, <2>1 DEF ReplayExecute, Replay, Effect
    <3>2. /\ Len(executed') = Len(executed) + 1 /\ Len(executed) \in Nat
          /\ executed'[Len(executed) + 1] = x
          /\ \A n \in 1..Len(executed) : executed'[n] = executed[n]
      BY <3>1, AppendProperties, LenProperties
    <3>3. /\ effects \in Seq(Record) /\ Len(effects) = Len(executed)
          /\ effects' \in Seq(Record) /\ Len(effects') = Len(executed) + 1
      <4>1. /\ \A n \in 1..Len(executed) : executed[n] \in Effect
            /\ \A n \in 1..Len(executed') : executed'[n] \in Effect
        BY <3>1, AppendProperties, LenProperties
      <4>2. effects \in [1..Len(executed) -> Record]
        BY <4>1 DEF effects, Record, Effect
      <4>3. effects' \in [1..Len(executed') -> Record]
        BY <4>1 DEF effects, Record, Effect
      <4>4. effects \in Seq(Record) /\ Len(effects) = Len(executed)
        BY <3>2, <4>2, FunctionIsSeq
      <4>5. effects' \in Seq(Record) /\ Len(effects') = Len(executed')
        <5>1. Len(executed') \in Nat
          BY <3>2
        <5> HIDE DEF TypeOK, IInv
        <5> QED
          BY <4>3, <5>1, FunctionIsSeq
      <4> QED
        BY <3>2, <4>4, <4>5
    <3>4. \A n \in 1..Len(executed) : effects'[n] = effects[n]
      BY <3>2 DEF effects
    <3>5. effects'[Len(executed) + 1] = e
      BY <3>2 DEF effects
    <3> QED
      BY <3>2, <3>3, <3>4, <3>5
  <2> QED
    BY <2>2, <2>3, <2>4, <2>5 DEF Register!Act
<1>6. ASSUME NEW r \in Replayers,
             ReplayAudit(r) \/ ReplayAuditFails(r) \/ ReplayCrash(r)
      PROVE  [Register!Next]_<<ruling, decided, permits, effects>>
  <2>1. run' = [run EXCEPT ![r] = Resting] /\ UNCHANGED <<ruling, decided, effects>>
    BY <1>6 DEF ReplayAudit, ReplayAuditFails, ReplayCrash, ruling, effects
  <2> QED
    BY <2>1, RestDrops
<1>7. \/ UNCHANGED <<row, run, decided, executed>>
      \/ \E a \in Approvals : CreateCommit(a)
      \/ \E p \in Deciders : DecideCommit(p)
      \/ \E r \in Replayers, a \in Approvals : ReplayCheck(r, a)
      \/ \E r \in Replayers : ReplayExecute(r)
      \/ \E r \in Replayers : ReplayAudit(r) \/ ReplayAuditFails(r) \/ ReplayCrash(r)
  BY DEF Next, vars, DecideRead, Refresh, Enqueue, DeciderCrash, Tick
<1>8. \A p \in Deciders : DecideCommit(p) =>
         dec[p].id \in Approvals /\ dec[p].verdict \in Verdicts /\ dec[p].approver \in Approvers
  BY SoleDecision
<1> QED
  BY <1>1, <1>2, <1>3, <1>4, <1>5, <1>6, <1>7, <1>8 DEF Register!Next, Verdicts

\* While one process decides, the service is an implementation of the atomic register.
THEOREM SoleDeciderImplements == SoleDecider => (Spec => ImplementsRegister)
<1> SUFFICES ASSUME SoleDecider PROVE Spec => ImplementsRegister
  OBVIOUS
<1>1. IInv /\ SoleInv /\ [Next]_vars => [Register!Next]_<<ruling, decided, permits, effects>>
  BY NextRegister
<1> QED
  BY InitRegister, SoleInvariance, <1>1, PTL
     DEF Spec, ImplementsRegister, Register!Spec, Register!abstractVars
=============================================================================
