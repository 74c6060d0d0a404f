---------------------------- MODULE AuditChain ------------------------------
(***************************************************************************)
(* The hash chain of audit_records: ConstrailKernel._log_audit             *)
(* (kernel_v2.py), AuditVerifier.verify (audit_verify.py) and              *)
(* create_audit_checkpoint (audit_checkpoint.py).                          *)
(*                                                                         *)
(* A writer is a process that runs a kernel: the API server, in which      *)
(* _log_audit does not await, and each `approval-replay` command.  Writers *)
(* share only the table.  chain_hash is taken to be injective: a row's     *)
(* hash is named by its place in the order of commits, 0 stands for None,  *)
(* and the verifier's recomputation succeeds exactly when the previous     *)
(* hash it carries is the one the row was hashed with.                     *)
(***************************************************************************)
EXTENDS Naturals, Sequences, FiniteSets

CONSTANTS
    Writers,          \* processes that write audit records
    MaxTime,          \* bound on the clock
    MaxSetBacks,      \* bound on the times the clock is set back
    MaxCheckpoints    \* bound on the checkpoints taken

ASSUME AuditChainAssumption == MaxSetBacks \in Nat

VARIABLES
    rows,         \* rows[i]: start_time and chain_prev_hash of the i-th row committed
    wr,           \* wr[w]: where writer w is, its time stamp and the hash it read
    clock,        \* datetime.utcnow(), which never gives the same value twice
    checkpoints,  \* the checkpoints taken
    overlaps,     \* history: writes another commit fell into
    setBacks      \* history: times the clock was set back

vars == <<rows, wr, clock, checkpoints, overlaps, setBacks>>

-----------------------------------------------------------------------------
Row == [at : Nat, prev : Nat]

Idle == [pc |-> "idle", at |-> 0, prev |-> 0, since |-> 0]

\* since is history: the number of rows when the record was stamped.
Write == [pc : {"idle", "stamped", "read"}, at : Nat, prev : Nat, since : Nat]

Checkpoint == [records : Nat, last : Nat]

TypeOK ==
    /\ rows \in Seq(Row)
    /\ wr \in [Writers -> Write]
    /\ clock \in Nat
    /\ checkpoints \subseteq Checkpoint
    /\ overlaps \in Nat
    /\ setBacks \in Nat

Init ==
    /\ rows = <<>>
    /\ wr = [w \in Writers |-> Idle]
    /\ clock = 0
    /\ checkpoints = {}
    /\ overlaps = 0
    /\ setBacks = 0

-----------------------------------------------------------------------------
(* ORDER BY start_time.  Rows of one start_time come as they were stored.  *)

Earlier(i, j) ==
    \/ rows[i].at < rows[j].at
    \/ rows[i].at = rows[j].at /\ i < j

\* Bug, which the runs must notice: the list is in descending order.
FirstInOrder(i) ==
    IF rows = <<>> THEN i = 0
    ELSE i \in 1..Len(rows) /\ \A j \in 1..Len(rows) : j = i \/ Earlier(i, j)

\* rows[-1] of that order; 0 where there is no row.
IsLast(i) ==
    IF rows = <<>> THEN i = 0
    ELSE i \in 1..Len(rows) /\ \A j \in 1..Len(rows) : j = i \/ Earlier(j, i)

\* What verify carries as previous_hash when it comes to row i.
Previous(i) == {j \in 1..Len(rows) :
                  /\ Earlier(j, i)
                  /\ \A k \in 1..Len(rows) : Earlier(k, i) => k = j \/ Earlier(k, j)}

\* Bug: each row is hashed with the previous hash it stores itself.
VerifiesEachAlone == \A i \in 1..Len(rows) : rows[i].prev \in 0..Len(rows)

\* verify returns ok: every row in the order names the row before it.
Verifies ==
    \A i \in 1..Len(rows) :
        IF \E j \in 1..Len(rows) : Earlier(j, i)
        THEN rows[i].prev \in Previous(i)
        ELSE rows[i].prev = 0

-----------------------------------------------------------------------------
(* _log_audit                                                              *)

\* Bug: the record carries the local time of a zone behind UTC.
StampLocalTime(w) ==
    /\ wr[w].pc = "idle"
    /\ clock < MaxTime
    /\ wr' = [wr EXCEPT ![w] = [pc |-> "stamped", at |-> clock - 1, prev |-> 0,
                                since |-> Len(rows)]]
    /\ clock' = clock + 1
    /\ UNCHANGED <<rows, checkpoints, overlaps, setBacks>>

\* The record is built, with start_time=datetime.utcnow().
Stamp(w) ==
    /\ wr[w].pc = "idle"
    /\ clock < MaxTime
    /\ wr' = [wr EXCEPT ![w] = [pc |-> "stamped", at |-> clock, prev |-> 0,
                                since |-> Len(rows)]]
    /\ clock' = clock + 1
    /\ UNCHANGED <<rows, checkpoints, overlaps, setBacks>>

\* The query for the last hash, from which chain_hash is computed.
ReadLast(w) ==
    /\ wr[w].pc = "stamped"
    /\ \E i \in 0..Len(rows) :
          /\ IsLast(i)
          /\ wr' = [wr EXCEPT ![w].pc = "read", ![w].prev = i]
    /\ UNCHANGED <<rows, clock, checkpoints, overlaps, setBacks>>

\* db.add(audit_record); db.commit()
Insert(w) ==
    /\ wr[w].pc = "read"
    /\ rows' = Append(rows, [at |-> wr[w].at, prev |-> wr[w].prev])
    /\ overlaps' = IF Len(rows) = wr[w].since THEN overlaps ELSE overlaps + 1
    /\ wr' = [wr EXCEPT ![w] = Idle]
    /\ UNCHANGED <<clock, checkpoints, setBacks>>

\* The database refuses, which _log_audit logs and swallows, or the process dies.
LogFails(w) ==
    /\ wr[w].pc # "idle"
    /\ wr' = [wr EXCEPT ![w] = Idle]
    /\ UNCHANGED <<rows, clock, checkpoints, overlaps, setBacks>>

-----------------------------------------------------------------------------
\* Bug: one record too many is claimed.
TakeCheckpointPlusOne ==
    /\ Cardinality(checkpoints) < MaxCheckpoints
    /\ \E i \in 0..Len(rows) :
          /\ IsLast(i)
          /\ checkpoints' = checkpoints \union {[records |-> Len(rows) + 1, last |-> i]}
    /\ UNCHANGED <<rows, wr, clock, overlaps, setBacks>>

\* create_audit_checkpoint: how many rows there are, and the hash of the last.
TakeCheckpoint ==
    /\ Cardinality(checkpoints) < MaxCheckpoints
    /\ \E i \in 0..Len(rows) :
          /\ IsLast(i)
          /\ checkpoints' = checkpoints \union {[records |-> Len(rows), last |-> i]}
    /\ UNCHANGED <<rows, wr, clock, overlaps, setBacks>>

\* The wall clock of the host is stepped.
ClockSetBack ==
    /\ setBacks < MaxSetBacks
    /\ \E t \in 0..clock : t < clock /\ clock' = t
    /\ setBacks' = setBacks + 1
    /\ UNCHANGED <<rows, wr, checkpoints, overlaps>>

Next ==
    \/ \E w \in Writers : Stamp(w) \/ ReadLast(w) \/ Insert(w) \/ LogFails(w)
    \/ TakeCheckpoint
    \/ ClockSetBack

Spec == Init /\ [][Next]_vars

-----------------------------------------------------------------------------
(* Properties                                                              *)

\* No write fell into another, and time went forward.
Calm == overlaps = 0 /\ setBacks = 0

\* While writes do not overlap and the clock is not set back, failed writes and
\* crashes included, verify finds the chain whole.
ChainVerifies == Calm => Verifies

\* What tests/test_audit_chain.py asserts of two records, whoever wrote them: the later
\* names the earlier as its predecessor, so that no two rows name the same one.
ChainNeverForks ==
    \A i, j \in 1..Len(rows) : rows[i].prev = rows[j].prev => i = j

Place(i) == Cardinality({j \in 1..Len(rows) : j = i \/ Earlier(j, i)})

\* A checkpoint stays true: the row it names is still the n-th of the order.
CheckpointsHold ==
    Calm => \A c \in checkpoints :
                /\ c.records <= Len(rows)
                /\ c.last = 0 <=> c.records = 0
                /\ c.last # 0 => c.last \in 1..Len(rows) /\ Place(c.last) = c.records

\* Whatever happens, a row's previous hash is that of a row committed before it.
LinksResolve == \A i \in 1..Len(rows) : rows[i].prev < i

\* verify is not fooled: a table it accepts has no two rows with one predecessor, and
\* its time order is the order in which the rows were committed.
AcceptedMeansLinear ==
    Verifies =>
        \A i, j \in 1..Len(rows) :
            /\ rows[i].prev = rows[j].prev => i = j
            /\ i < j => Earlier(i, j)
=============================================================================
