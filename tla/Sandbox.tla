------------------------------ MODULE Sandbox -------------------------------
(***************************************************************************)
(* A command run by the exec tool: ExecAdapter.execute (adapters/exec.py), *)
(* the dev and docker executors (sandbox.py), and the record of a replayed *)
(* one (kernel_v2.py, sandbox_records.py).                                 *)
(*                                                                         *)
(* Commands are coroutines of one server.  Each starts a process, the      *)
(* shell or the docker client, and waits until it has ended and its pipes  *)
(* are closed, or until the timeout.  The processes belong to the world    *)
(* outside: they fork, exit or run on as they like.  No time is modelled:  *)
(* a timer that is armed may fire at any moment.                           *)
(***************************************************************************)
EXTENDS Naturals

CONSTANTS
    Commands,
    Timeouts,      \* values of the timeout parameter
    Default,       \* settings.sandbox_timeout_seconds
    NULL,          \* no timeout parameter
    BAD,           \* one that is no number
    MaxFaults      \* bound on database errors and deaths of the server

ASSUME SandboxAssumption ==
    /\ Timeouts \subseteq Nat \union {NULL, BAD}
    /\ Default \in Nat \ {0}
    /\ NULL \notin Nat \union {BAD}
    /\ BAD \notin Nat

VARIABLES
    executor,      \* what get_sandbox_executor gave the broker
    call,          \* call[c]: the timeout asked for; whether replay_approved runs it
    pc,            \* pc[c]: where the coroutine of c is
    process,       \* process[c]: the shell or docker client of c
    child,         \* child[c]: a background process of the shell, or the container
    result,        \* result[c]: the ToolResult: its status, and whether it has a sandbox id
    record,        \* record[c]: the status of c in sandbox_executions
    faults         \* database errors and deaths of the server so far

vars == <<executor, call, pc, process, child, result, record, faults>>

-----------------------------------------------------------------------------
Result == [status : {"none", "success", "error", "timeout", "blocked"}, id : BOOLEAN]

TypeOK ==
    /\ executor \in {"none", "dev", "docker"}
    /\ call \in [Commands -> [timeout : Timeouts, replay : BOOLEAN]]
    /\ pc \in [Commands -> {"new", "waiting", "killed", "returned", "done", "lost"}]
    /\ process \in [Commands -> {"none", "running", "killed", "exited", "failed"}]
    /\ child \in [Commands -> {"none", "holding", "detached"}]
    /\ result \in [Commands -> Result]
    /\ record \in [Commands -> {"none", "completed", "failed"}]
    /\ faults \in Nat

Init ==
    /\ executor \in {"none", "dev", "docker"}
    /\ call \in [Commands -> [timeout : Timeouts, replay : BOOLEAN]]
    /\ pc = [c \in Commands |-> "new"]
    /\ process = [c \in Commands |-> "none"]
    /\ child = [c \in Commands |-> "none"]
    /\ result = [c \in Commands |-> [status |-> "none", id |-> FALSE]]
    /\ record = [c \in Commands |-> "none"]
    /\ faults = 0

Ended(c) == process[c] \in {"killed", "exited", "failed"}

\* The read ends of the pipes see the end of file.
PipesClosed(c) == Ended(c) /\ child[c] # "holding"

-----------------------------------------------------------------------------
(* The processes                                                           *)

\* The shell starts a process in the background, which keeps the pipes open unless it
\* is redirected; the docker client starts the container.
Fork(c) ==
    /\ process[c] = "running" /\ child[c] = "none"
    /\ \E kind \in IF executor = "docker" THEN {"detached"} ELSE {"holding", "detached"} :
          child' = [child EXCEPT ![c] = kind]
    /\ UNCHANGED <<executor, call, pc, process, result, record, faults>>

\* The docker client ends after its container.
Exit(c) ==
    /\ process[c] = "running"
    /\ executor = "docker" => child[c] = "none"
    /\ \E end \in {"exited", "failed"} : process' = [process EXCEPT ![c] = end]
    /\ UNCHANGED <<executor, call, pc, child, result, record, faults>>

ChildExits(c) ==
    /\ child[c] # "none"
    /\ child' = [child EXCEPT ![c] = "none"]
    /\ UNCHANGED <<executor, call, pc, process, result, record, faults>>

-----------------------------------------------------------------------------
(* execute                                                                 *)

Return(c, status, id) ==
    /\ pc' = [pc EXCEPT ![c] = "returned"]
    /\ result' = [result EXCEPT ![c] = [status |-> status, id |-> id]]

\* No executor is configured.
Blocked(c) ==
    /\ pc[c] = "new" /\ executor = "none"
    /\ Return(c, "blocked", FALSE)
    /\ UNCHANGED <<executor, call, process, child, record, faults>>

\* No command, a directory that is missing, no docker client: the exception leaves
\* execute before its try, and the adapter reports it.
SpawnFails(c) ==
    /\ pc[c] = "new" /\ executor # "none"
    /\ Return(c, "error", FALSE)
    /\ UNCHANGED <<executor, call, process, child, record, faults>>

\* Bug: the parameter is passed on as it is; without one there is no timer.
EffectiveGiven(timeout) == timeout

\* timeout or settings.sandbox_timeout_seconds
Effective(timeout) == IF timeout \in {NULL, 0} THEN Default ELSE timeout

Spawn(c) ==
    /\ pc[c] = "new" /\ executor # "none"
    /\ Effective(call[c].timeout) # BAD
    /\ process' = [process EXCEPT ![c] = "running"]
    /\ pc' = [pc EXCEPT ![c] = "waiting"]
    /\ UNCHANGED <<executor, call, child, result, record, faults>>

\* wait_for raises on such a timeout, and nobody waits for the process.
SpawnBadTimeout(c) ==
    /\ pc[c] = "new" /\ executor # "none"
    /\ Effective(call[c].timeout) = BAD
    /\ process' = [process EXCEPT ![c] = "running"]
    /\ Return(c, "error", FALSE)
    /\ UNCHANGED <<executor, call, child, record, faults>>

\* Bug: the exit code is not looked at.
StatusIgnoringCode(c) == "success"

Status(c) == IF process[c] = "exited" THEN "success" ELSE "error"

\* communicate returns.
Complete(c) ==
    /\ pc[c] = "waiting"
    /\ PipesClosed(c)
    /\ Return(c, Status(c), TRUE)
    /\ UNCHANGED <<executor, call, process, child, record, faults>>

\* Bug: the process is left alone.
TimeoutLeaving(c) ==
    /\ pc[c] = "waiting"
    /\ Effective(call[c].timeout) \in Nat
    /\ Return(c, "timeout", TRUE)
    /\ UNCHANGED <<executor, call, process, child, record, faults>>

\* The timer fires first and the process is killed, if it has not ended; what it started
\* is not.
Timeout(c) ==
    /\ pc[c] = "waiting"
    /\ Effective(call[c].timeout) \in Nat
    /\ process' = [process EXCEPT ![c] = IF @ = "running" THEN "killed" ELSE @]
    /\ pc' = [pc EXCEPT ![c] = "killed"]
    /\ UNCHANGED <<executor, call, child, result, record, faults>>

\* The timer fires when all has ended, and kill raises ProcessLookupError.
TimeoutTooLate(c) ==
    /\ pc[c] = "waiting"
    /\ Effective(call[c].timeout) \in Nat
    /\ PipesClosed(c)
    /\ Return(c, "error", FALSE)
    /\ UNCHANGED <<executor, call, process, child, record, faults>>

\* wait returns.
Reap(c) ==
    /\ pc[c] = "killed"
    /\ Ended(c)
    /\ Return(c, "timeout", TRUE)
    /\ UNCHANGED <<executor, call, process, child, record, faults>>

\* Bug: the status of the result, which is not one of a record.
RecordedStatus(c) == result[c].status

Recorded(c) == IF result[c].status = "success" THEN "completed" ELSE "failed"

\* replay_approved records a result with a sandbox id, and the request is answered.
Answer(c) ==
    /\ pc[c] = "returned"
    /\ record' = IF call[c].replay /\ result[c].id
                 THEN [record EXCEPT ![c] = Recorded(c)] ELSE record
    /\ pc' = [pc EXCEPT ![c] = "done"]
    /\ UNCHANGED <<executor, call, process, child, result, faults>>

\* record_execution raises, and so does the request.
RecordFails(c) ==
    /\ pc[c] = "returned"
    /\ call[c].replay /\ result[c].id
    /\ faults < MaxFaults
    /\ faults' = faults + 1
    /\ pc' = [pc EXCEPT ![c] = "lost"]
    /\ UNCHANGED <<executor, call, process, child, result, record>>

\* The coroutines are lost; the processes are not.
ServerDies ==
    /\ \E c \in Commands : pc[c] \in {"waiting", "killed", "returned"}
    /\ faults < MaxFaults
    /\ faults' = faults + 1
    /\ pc' = [c \in Commands |->
                IF pc[c] \in {"waiting", "killed", "returned"} THEN "lost" ELSE pc[c]]
    /\ UNCHANGED <<executor, call, process, child, result, record>>

Proceed(c) ==
    \/ Complete(c)
    \/ Timeout(c)
    \/ TimeoutTooLate(c)
    \/ Reap(c)
    \/ Answer(c)

Next ==
    \/ \E c \in Commands :
          \/ Fork(c) \/ Exit(c) \/ ChildExits(c)
          \/ Blocked(c) \/ SpawnFails(c) \/ Spawn(c) \/ SpawnBadTimeout(c)
          \/ Proceed(c)
          \/ RecordFails(c)
    \/ ServerDies

Spec == Init /\ [][Next]_vars

\* The event loop runs what is ready, a timer fires in the end, and SIGKILL kills.  The
\* command itself may run for ever.
FairSpec == Spec /\ \A c \in Commands : WF_vars(Proceed(c))

-----------------------------------------------------------------------------
(* Properties                                                              *)

\* A command is reported, and recorded, as a success only if its process has ended with
\* code 0 and nothing it started still holds the pipes; every run that got a sandbox id
\* and was answered has its record.
ResultIsTrue ==
    \A c \in Commands :
        /\ result[c].status = "success" => process[c] = "exited" /\ child[c] # "holding"
        /\ record[c] = "completed" => result[c].status = "success"
        /\ record[c] = "failed" => result[c].status \in {"error", "timeout"}
        /\ (pc[c] = "done" /\ call[c].replay /\ result[c].id) => record[c] # "none"

\* When a command has a result its process has ended, but for one whose timeout was no
\* number; and a container that runs on was given up at its timeout.
NothingLeftRunning ==
    \A c \in Commands : result[c].status # "none" =>
        /\ process[c] = "running" => call[c].timeout = BAD
        /\ (executor = "docker" /\ child[c] # "none")
              => call[c].timeout = BAD \/ result[c].status = "timeout"

\* Every command that is started is answered, however long it runs and whoever holds its
\* pipes, unless the server dies or the database fails.
EveryCommandAnswered ==
    \A c \in Commands : (pc[c] # "new") ~> (pc[c] \in {"done", "lost"})
=============================================================================
