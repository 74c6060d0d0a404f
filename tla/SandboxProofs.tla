--------------------------- MODULE SandboxProofs ----------------------------
(***************************************************************************)
(* Theorems about Sandbox, for any commands, timeouts and faults: what a   *)
(* result says is so, and what it leaves behind was given up.              *)
(***************************************************************************)
EXTENDS Sandbox, TLAPS

-----------------------------------------------------------------------------
(* The inductive invariant                                                 *)

\* What a command has started, and left.
ProcessOK(c) ==
    /\ pc[c] = "new" => process[c] = "none"
    /\ process[c] = "none" => child[c] = "none"
    /\ pc[c] = "waiting" => process[c] \in {"running", "exited", "failed"}
    /\ executor = "docker" => /\ child[c] # "holding"
                              /\ process[c] \in {"exited", "failed"} => child[c] = "none"

\* What has been said of it.
ReportOK(c) ==
    /\ pc[c] \in {"new", "waiting", "killed"} => result[c].status = "none" /\ ~result[c].id
    /\ pc[c] # "done" => record[c] = "none"
    /\ result[c].status = "success" => process[c] = "exited" /\ child[c] # "holding"
    /\ record[c] = "completed" => result[c].status = "success"
    /\ record[c] = "failed" => result[c].status \in {"error", "timeout"}
    /\ result[c].id => result[c].status \in {"success", "error", "timeout"}
    /\ (pc[c] = "done" /\ call[c].replay /\ result[c].id) => record[c] # "none"
    /\ result[c].status # "none" =>
          /\ process[c] = "running" => call[c].timeout = BAD
          /\ (executor = "docker" /\ child[c] # "none")
                => call[c].timeout = BAD \/ result[c].status = "timeout"

IInv == TypeOK /\ \A c \in Commands : ProcessOK(c) /\ ReportOK(c)

-----------------------------------------------------------------------------
(* Steps                                                                   *)

LEMMA InitIInv == Init => IInv
BY DEF Init, IInv, TypeOK, Result, ProcessOK, ReportOK

\* Only a parameter that is no number makes a timeout that is none.
LEMMA EffectiveIs ==
    ASSUME IInv, NEW c \in Commands
    PROVE  Effective(call[c].timeout) = BAD => call[c].timeout = BAD
BY SandboxAssumption DEF IInv, TypeOK, Effective

\* The invariant of a command is about that command alone.
LEMMA OwnStep ==
    ASSUME IInv, NEW c \in Commands, TypeOK', UNCHANGED <<executor, call>>,
           \A d \in Commands \ {c} :
              /\ pc'[d] = pc[d] /\ process'[d] = process[d] /\ child'[d] = child[d]
              /\ result'[d] = result[d] /\ record'[d] = record[d],
           ProcessOK(c)', ReportOK(c)'
    PROVE  IInv'
<1>1. ASSUME NEW d \in Commands \ {c} PROVE ProcessOK(d)' /\ ReportOK(d)'
  <2>1. ProcessOK(d) /\ ReportOK(d)
    BY DEF IInv
  <2> QED
    BY <2>1 DEF ProcessOK, ReportOK
<1> QED
  BY <1>1 DEF IInv

LEMMA OutsideStep ==
    ASSUME IInv, NEW c \in Commands, Fork(c) \/ Exit(c) \/ ChildExits(c)
    PROVE  IInv'
<1>1. /\ ProcessOK(c) /\ ReportOK(c)
      /\ UNCHANGED <<executor, call, pc, result, record, faults>>
  BY DEF IInv, Fork, Exit, ChildExits
<1>2. CASE Fork(c)
  <2>1. PICK kind \in IF executor = "docker" THEN {"detached"} ELSE {"holding", "detached"} :
           child' = [child EXCEPT ![c] = kind]
    BY <1>2 DEF Fork
  <2>2. TypeOK' /\ child'[c] = kind /\ UNCHANGED process /\ process[c] = "running"
    BY <1>1, <1>2, <2>1 DEF Fork, IInv, TypeOK
  <2>3. ProcessOK(c)' /\ ReportOK(c)'
    BY <1>1, <2>2 DEF ProcessOK, ReportOK
  <2> QED
    BY <1>1, <2>1, <2>2, <2>3, OwnStep DEF IInv, TypeOK
<1>3. CASE Exit(c)
  <2>1. PICK end \in {"exited", "failed"} : process' = [process EXCEPT ![c] = end]
    BY <1>3 DEF Exit
  <2>2. TypeOK' /\ process'[c] = end /\ UNCHANGED child /\ process[c] = "running"
        /\ (executor = "docker" => child[c] = "none")
    BY <1>1, <1>3, <2>1 DEF Exit, IInv, TypeOK
  <2>3. ProcessOK(c)' /\ ReportOK(c)'
    BY <1>1, <2>2 DEF ProcessOK, ReportOK
  <2> QED
    BY <1>1, <2>1, <2>2, <2>3, OwnStep DEF IInv, TypeOK
<1>4. CASE ChildExits(c)
  <2>1. child' = [child EXCEPT ![c] = "none"] /\ UNCHANGED process
    BY <1>4 DEF ChildExits
  <2>2. TypeOK' /\ child'[c] = "none"
    BY <1>1, <2>1 DEF IInv, TypeOK
  <2>3. ProcessOK(c)' /\ ReportOK(c)'
    BY <1>1, <2>1, <2>2 DEF ProcessOK, ReportOK
  <2> QED
    BY <1>1, <2>1, <2>2, <2>3, OwnStep DEF IInv, TypeOK
<1> QED
  BY <1>2, <1>3, <1>4

\* A step in which execute returns.
LEMMA ReturnStep ==
    ASSUME IInv, NEW c \in Commands, NEW status \in {"success", "error", "timeout", "blocked"},
           NEW id \in BOOLEAN, Return(c, status, id),
           pc[c] \in {"new", "waiting", "killed"},
           UNCHANGED <<executor, call, child, record, faults>>,
           process' \in [Commands -> {"none", "running", "killed", "exited", "failed"}],
           \A d \in Commands \ {c} : process'[d] = process[d],
           ProcessOK(c)',
           status = "success" => process'[c] = "exited" /\ child[c] # "holding",
           id => status \in {"success", "error", "timeout"},
           process'[c] = "running" => call[c].timeout = BAD,
           (executor = "docker" /\ child[c] # "none")
              => call[c].timeout = BAD \/ status = "timeout"
    PROVE  IInv'
<1> DEFINE r == [status |-> status, id |-> id]
<1>1. /\ pc' = [pc EXCEPT ![c] = "returned"] /\ result' = [result EXCEPT ![c] = r]
      /\ r \in Result /\ r.status = status /\ r.id = id
  BY DEF Return, Result
<1> HIDE DEF r
<1>2. TypeOK' /\ pc'[c] = "returned" /\ result'[c] = r
  BY <1>1 DEF IInv, TypeOK
<1>3. record[c] = "none"
  BY DEF IInv, ReportOK
<1>4. ReportOK(c)'
  BY <1>1, <1>2, <1>3 DEF ReportOK
<1> QED
  BY <1>1, <1>2, <1>4, OwnStep DEF IInv, TypeOK

LEMMA StartStep ==
    ASSUME IInv, NEW c \in Commands,
           Blocked(c) \/ SpawnFails(c) \/ Spawn(c) \/ SpawnBadTimeout(c)
    PROVE  IInv'
<1>1. /\ pc[c] = "new" /\ ProcessOK(c) /\ ReportOK(c)
      /\ process[c] = "none" /\ child[c] = "none"
      /\ UNCHANGED <<executor, call, child, record, faults>>
  BY DEF IInv, ProcessOK, Blocked, SpawnFails, Spawn, SpawnBadTimeout
<1>2. ASSUME UNCHANGED process, NEW status \in {"error", "blocked"}, Return(c, status, FALSE)
      PROVE  IInv'
  <2>1. ProcessOK(c)'
    BY <1>1, <1>2 DEF ProcessOK, Return, IInv, TypeOK
  <2>2. process' \in [Commands -> {"none", "running", "killed", "exited", "failed"}]
    BY <1>2 DEF IInv, TypeOK
  <2> QED
    BY <1>1, <1>2, <2>1, <2>2, ReturnStep
<1>3. CASE Blocked(c)
  BY <1>2, <1>3 DEF Blocked
<1>4. CASE SpawnFails(c)
  BY <1>2, <1>4 DEF SpawnFails
<1>5. CASE Spawn(c)
  <2>1. /\ process' = [process EXCEPT ![c] = "running"] /\ pc' = [pc EXCEPT ![c] = "waiting"]
        /\ UNCHANGED result
    BY <1>5 DEF Spawn
  <2>2. TypeOK' /\ process'[c] = "running" /\ pc'[c] = "waiting"
    BY <1>1, <2>1 DEF IInv, TypeOK
  <2>3. ProcessOK(c)' /\ ReportOK(c)'
    BY <1>1, <2>1, <2>2 DEF ProcessOK, ReportOK
  <2> QED
    BY <1>1, <2>1, <2>2, <2>3, OwnStep DEF IInv, TypeOK
<1>6. CASE SpawnBadTimeout(c)
  <2>1. /\ process' = [process EXCEPT ![c] = "running"] /\ Return(c, "error", FALSE)
        /\ call[c].timeout = BAD
    BY <1>6, EffectiveIs DEF SpawnBadTimeout
  <2>2. /\ process' \in [Commands -> {"none", "running", "killed", "exited", "failed"}]
        /\ process'[c] = "running" /\ \A d \in Commands \ {c} : process'[d] = process[d]
    BY <2>1 DEF IInv, TypeOK
  <2>3. ProcessOK(c)'
    BY <1>1, <2>1, <2>2 DEF ProcessOK, Return, IInv, TypeOK
  <2> QED
    BY <1>1, <2>1, <2>2, <2>3, ReturnStep
<1> QED
  BY <1>3, <1>4, <1>5, <1>6

LEMMA EndStep ==
    ASSUME IInv, NEW c \in Commands, Complete(c) \/ Timeout(c) \/ TimeoutTooLate(c) \/ Reap(c)
    PROVE  IInv'
<1>1. /\ pc[c] \in {"waiting", "killed"} /\ ProcessOK(c) /\ ReportOK(c)
      /\ UNCHANGED <<executor, call, child, record, faults>>
  BY DEF IInv, Complete, Timeout, TimeoutTooLate, Reap
<1>2. ASSUME UNCHANGED process, NEW status \in {"success", "error", "timeout"},
             NEW id \in BOOLEAN, Return(c, status, id), Ended(c),
             status = "success" => process[c] = "exited" /\ child[c] # "holding",
             (executor = "docker" /\ child[c] # "none") => status = "timeout"
      PROVE  IInv'
  <2>1. ProcessOK(c)'
    BY <1>1, <1>2 DEF ProcessOK, Return, IInv, TypeOK
  <2>2. process' \in [Commands -> {"none", "running", "killed", "exited", "failed"}]
        /\ process'[c] # "running"
    BY <1>2 DEF IInv, TypeOK, Ended
  <2> QED
    BY <1>1, <1>2, <2>1, <2>2, ReturnStep
<1>3. ASSUME pc[c] = "waiting", PipesClosed(c)
      PROVE  /\ Ended(c) /\ child[c] # "holding"
             /\ executor = "docker" => child[c] = "none"
  BY <1>1, <1>3 DEF PipesClosed, Ended, ProcessOK
<1>4. CASE Complete(c)
  BY <1>2, <1>3, <1>4 DEF Complete, Status
<1>5. CASE Timeout(c)
  <2>1. /\ process' = [process EXCEPT ![c] = IF @ = "running" THEN "killed" ELSE @]
        /\ pc' = [pc EXCEPT ![c] = "killed"] /\ pc[c] = "waiting"
        /\ UNCHANGED result
    BY <1>5 DEF Timeout
  <2>2. /\ TypeOK' /\ pc'[c] = "killed" /\ process'[c] # "none"
        /\ process'[c] \in {"exited", "failed"} => process'[c] = process[c]
    BY <1>1, <2>1 DEF IInv, TypeOK, ProcessOK
  <2>3. ProcessOK(c)' /\ ReportOK(c)'
    BY <1>1, <2>1, <2>2 DEF ProcessOK, ReportOK
  <2> QED
    BY <1>1, <2>1, <2>2, <2>3, OwnStep DEF IInv, TypeOK
<1>6. CASE TimeoutTooLate(c)
  BY <1>2, <1>3, <1>6 DEF TimeoutTooLate
<1>7. CASE Reap(c)
  BY <1>2, <1>7 DEF Reap
<1> QED
  BY <1>4, <1>5, <1>6, <1>7

LEMMA AnswerStep ==
    ASSUME IInv, NEW c \in Commands, Answer(c) \/ RecordFails(c)
    PROVE  IInv'
<1>1. /\ pc[c] = "returned" /\ ProcessOK(c) /\ ReportOK(c) /\ faults \in Nat
      /\ UNCHANGED <<executor, call, process, child, result>>
  BY DEF IInv, TypeOK, Answer, RecordFails
<1>2. CASE Answer(c)
  <2>1. /\ record' = IF call[c].replay /\ result[c].id
                     THEN [record EXCEPT ![c] = Recorded(c)] ELSE record
        /\ pc' = [pc EXCEPT ![c] = "done"] /\ UNCHANGED faults
    BY <1>2 DEF Answer
  <2>2. /\ Recorded(c) \in {"completed", "failed"}
        /\ Recorded(c) = "completed" <=> result[c].status = "success"
        /\ pc'[c] = "done"
    BY <2>1 DEF Recorded, IInv, TypeOK
  <2>3. TypeOK'
    BY <1>1, <2>1, <2>2 DEF IInv, TypeOK
  <2>4. record'[c] = IF call[c].replay /\ result[c].id THEN Recorded(c) ELSE "none"
    BY <1>1, <2>1 DEF IInv, TypeOK, ReportOK
  <2>5. ProcessOK(c)' /\ ReportOK(c)'
    BY <1>1, <2>2, <2>4 DEF ProcessOK, ReportOK
  <2> QED
    BY <1>1, <2>1, <2>3, <2>5, OwnStep DEF IInv, TypeOK
<1>3. CASE RecordFails(c)
  <2>1. pc' = [pc EXCEPT ![c] = "lost"] /\ faults' = faults + 1 /\ UNCHANGED record
    BY <1>3 DEF RecordFails
  <2>2. TypeOK' /\ pc'[c] = "lost"
    BY <1>1, <2>1 DEF IInv, TypeOK
  <2>3. ProcessOK(c)' /\ ReportOK(c)'
    BY <1>1, <2>1, <2>2 DEF ProcessOK, ReportOK
  <2> QED
    BY <1>1, <2>1, <2>2, <2>3, OwnStep DEF IInv, TypeOK
<1> QED
  BY <1>2, <1>3

LEMMA NextIInv == IInv /\ [Next]_vars => IInv'
<1> SUFFICES ASSUME IInv, [Next]_vars PROVE IInv'
  OBVIOUS
<1>1. CASE UNCHANGED vars
  BY <1>1 DEF vars, IInv, TypeOK, ProcessOK, ReportOK
<1>2. CASE ServerDies
  <2>1. /\ UNCHANGED <<executor, call, process, child, result, record>>
        /\ faults' = faults + 1
        /\ pc' = [c \in Commands |->
                     IF pc[c] \in {"waiting", "killed", "returned"} THEN "lost" ELSE pc[c]]
    BY <1>2 DEF ServerDies
  <2>2. TypeOK'
    BY <2>1 DEF IInv, TypeOK
  <2>3. ASSUME NEW c \in Commands PROVE ProcessOK(c)' /\ ReportOK(c)'
    <3>1. ProcessOK(c) /\ ReportOK(c) /\ (pc'[c] = pc[c] \/ (pc'[c] = "lost" /\ pc[c] # "done"))
      BY <2>1 DEF IInv
    <3> QED
      BY <2>1, <3>1 DEF ProcessOK, ReportOK
  <2> QED
    BY <2>2, <2>3 DEF IInv
<1> QED
  BY <1>1, <1>2, OutsideStep, StartStep, EndStep, AnswerStep DEF Next, Proceed

LEMMA Inductive == Spec => []IInv
BY InitIInv, NextIInv, PTL DEF Spec

-----------------------------------------------------------------------------
(* Theorems                                                                *)

\* Results and records have their shape.
THEOREM TypeCorrect == Spec => []TypeOK
<1>1. IInv => TypeOK
  BY DEF IInv
<1> QED
  BY <1>1, Inductive, PTL

\* However the processes end, or do not, what execute reports and replay_approved
\* records is what happened.
THEOREM ResultsAreTrue == Spec => []ResultIsTrue
<1>1. IInv => ResultIsTrue
  BY DEF IInv, ReportOK, ResultIsTrue
<1> QED
  BY <1>1, Inductive, PTL

\* Only a process whose timeout was no number outlives its result; of a container, only
\* one that was given up at its timeout as well.
THEOREM NothingIsLeftRunning == Spec => []NothingLeftRunning
<1>1. IInv => NothingLeftRunning
  BY DEF IInv, ReportOK, NothingLeftRunning
<1> QED
  BY <1>1, Inductive, PTL
=============================================================================
