-------------------------- MODULE AuditChainProofs --------------------------
(***************************************************************************)
(* Theorems about AuditChain, for every set of writers: the links always   *)
(* resolve, the verifier accepts only a linear history, and while writes   *)
(* do not overlap and time goes forward the chain verifies and every       *)
(* checkpoint stays true.                                                  *)
(***************************************************************************)
EXTENDS AuditChain, FiniteSetTheorems, SequenceTheorems, WellFoundedInduction, TLAPS

-----------------------------------------------------------------------------
(* The inductive invariant                                                 *)

\* What a writer remembers of the table was true of it.
WritersOK ==
    \A w \in Writers :
        wr[w].pc # "idle" =>
            /\ wr[w].since <= Len(rows)
            /\ wr[w].pc = "read" => wr[w].prev <= Len(rows)

\* The stored order is the order of time, and each row names the one before it.
RowsInOrder ==
    /\ \A i \in 1..Len(rows) : rows[i].at < clock /\ rows[i].prev = i - 1
    /\ \A i, j \in 1..Len(rows) : i < j => rows[i].at < rows[j].at

\* A write no other has fallen into follows the whole table.
WritersInOrder ==
    \A w \in Writers :
        wr[w].pc # "idle" =>
            /\ wr[w].at < clock
            /\ wr[w].since = Len(rows) =>
                  /\ \A i \in 1..Len(rows) : rows[i].at < wr[w].at
                  /\ wr[w].pc = "read" => wr[w].prev = Len(rows)

CheckpointsInOrder == \A c \in checkpoints : c.last = c.records /\ c.records <= Len(rows)

InOrder == Calm => RowsInOrder /\ WritersInOrder /\ CheckpointsInOrder

IInv == TypeOK /\ LinksResolve /\ WritersOK /\ InOrder

-----------------------------------------------------------------------------
(* The order of time                                                       *)

LEMMA RowsTyped ==
    ASSUME TypeOK
    PROVE  /\ rows \in Seq(Row) /\ Len(rows) \in Nat
           /\ \A k \in 1..Len(rows) : rows[k] \in Row /\ rows[k].at \in Nat
<1>1. rows \in Seq(Row)
  BY DEF TypeOK
<1>2. \A k \in 1..Len(rows) : rows[k] \in Row
  BY <1>1, ElementOfSeq
<1> QED
  BY <1>1, <1>2, LenProperties DEF Row

\* In a table whose stored order is the order of time, the last row of the query is
\* the last row stored.
LEMMA LastIsStoredLast ==
    ASSUME TypeOK, RowsInOrder, NEW i \in 0..Len(rows), IsLast(i)
    PROVE  i = Len(rows)
<1>1. rows \in Seq(Row) /\ Len(rows) \in Nat
  BY RowsTyped
<1>2. CASE rows = <<>>
  BY <1>2, <1>1 DEF IsLast
<1>3. CASE rows # <<>>
  <2>1. Len(rows) # 0
    BY <1>1, <1>3, EmptySeq
  <2>2. i \in 1..Len(rows) /\ Len(rows) \in 1..Len(rows)
    BY <1>1, <1>3, <2>1 DEF IsLast
  <2>3. rows[i].at \in Nat /\ rows[Len(rows)].at \in Nat
    BY <2>2, RowsTyped
  <2>4. Len(rows) = i \/ Earlier(Len(rows), i)
    BY <1>3, <2>2 DEF IsLast
  <2> QED
    BY <1>1, <2>2, <2>3, <2>4 DEF Earlier, RowsInOrder
<1> QED
  BY <1>2, <1>3

\* There Earlier is the order of the positions.
LEMMA EarlierIsBefore ==
    ASSUME TypeOK, RowsInOrder, NEW i \in 1..Len(rows), NEW j \in 1..Len(rows)
    PROVE  Earlier(i, j) <=> i < j
<1>1. Len(rows) \in Nat /\ rows[i].at \in Nat /\ rows[j].at \in Nat
  BY RowsTyped
<1> QED
  BY <1>1 DEF Earlier, RowsInOrder

-----------------------------------------------------------------------------
(* The invariant holds                                                     *)

LEMMA InitIInv == Init => IInv
BY EmptySeq DEF Init, IInv, TypeOK, Idle, Write, LinksResolve, WritersOK, InOrder,
                RowsInOrder, WritersInOrder, CheckpointsInOrder

LEMMA NextIInv == IInv /\ [Next]_vars => IInv'
<1> SUFFICES ASSUME IInv, [Next]_vars PROVE IInv'
  OBVIOUS
<1> USE DEF IInv
<1>0. /\ rows \in Seq(Row) /\ Len(rows) \in Nat
      /\ \A i \in 1..Len(rows) : rows[i] \in Row
      /\ \A w \in Writers : wr[w] \in Write
      /\ clock \in Nat /\ overlaps \in Nat /\ setBacks \in Nat
  BY LenProperties, ElementOfSeq DEF TypeOK
<1>1. CASE UNCHANGED vars
  BY <1>1 DEF vars, TypeOK, LinksResolve, WritersOK, InOrder, Calm, RowsInOrder,
              WritersInOrder, CheckpointsInOrder
<1>2. ASSUME NEW w \in Writers, Stamp(w)
      PROVE  IInv'
  <2> DEFINE s == [pc |-> "stamped", at |-> clock, prev |-> 0, since |-> Len(rows)]
  <2>1. s \in Write /\ s.pc = "stamped" /\ s.at = clock /\ s.since = Len(rows)
    BY <1>0 DEF Write
  <2>2. wr' = [wr EXCEPT ![w] = s]
    BY <1>2 DEF Stamp
  <2> HIDE DEF s
  <2>3. TypeOK' /\ LinksResolve'
    BY <1>0, <1>2, <2>1, <2>2 DEF Stamp, TypeOK, LinksResolve
  <2>4. WritersOK'
    BY <1>0, <1>2, <2>1, <2>2 DEF Stamp, TypeOK, WritersOK
  <2>5. ASSUME Calm' PROVE (RowsInOrder /\ WritersInOrder /\ CheckpointsInOrder)'
    <3>1. Calm
      BY <1>2, <2>5 DEF Stamp, Calm
    <3>2. RowsInOrder'
      BY <1>0, <1>2, <3>1 DEF Stamp, InOrder, RowsInOrder, Row
    <3>3. WritersInOrder'
      BY <1>0, <1>2, <2>1, <2>2, <3>1
         DEF Stamp, TypeOK, InOrder, RowsInOrder, WritersInOrder, Write
    <3> QED
      BY <1>2, <3>1, <3>2, <3>3 DEF Stamp, InOrder, CheckpointsInOrder
  <2> QED
    BY <2>3, <2>4, <2>5 DEF InOrder
<1>3. ASSUME NEW w \in Writers, ReadLast(w)
      PROVE  IInv'
  <2>1. PICK i \in 0..Len(rows) :
           IsLast(i) /\ wr' = [wr EXCEPT ![w].pc = "read", ![w].prev = i]
    BY <1>3 DEF ReadLast
  <2>a. i \in Nat /\ wr[w] \in Write
    BY <1>0
  <2> DEFINE s == [wr[w] EXCEPT !.pc = "read", !.prev = i]
  <2>2. /\ s \in Write /\ s.pc = "read" /\ s.prev = i
        /\ s.at = wr[w].at /\ s.since = wr[w].since
    BY <2>a DEF Write
  <2>3. wr' = [wr EXCEPT ![w] = s]
    BY <2>1
  <2> HIDE DEF s
  <2>4. TypeOK' /\ LinksResolve'
    BY <1>0, <1>3, <2>2, <2>3 DEF ReadLast, TypeOK, LinksResolve
  <2>5. WritersOK'
    BY <1>0, <1>3, <2>1, <2>2, <2>3 DEF ReadLast, TypeOK, WritersOK
  <2>6. ASSUME Calm' PROVE (RowsInOrder /\ WritersInOrder /\ CheckpointsInOrder)'
    <3>1. Calm
      BY <1>3, <2>6 DEF ReadLast, Calm
    <3>2. i = Len(rows)
      BY <2>1, <3>1, LastIsStoredLast DEF InOrder
    <3>3. WritersInOrder'
      BY <1>0, <1>3, <2>2, <2>3, <3>1, <3>2
         DEF ReadLast, TypeOK, InOrder, WritersInOrder
    <3> QED
      BY <1>3, <3>1, <3>3 DEF ReadLast, InOrder, RowsInOrder, CheckpointsInOrder
  <2> QED
    BY <2>4, <2>5, <2>6 DEF InOrder
<1>4. ASSUME NEW w \in Writers, Insert(w)
      PROVE  IInv'
  <2> DEFINE x == [at |-> wr[w].at, prev |-> wr[w].prev]
  <2>1. x \in Row /\ x.at = wr[w].at /\ x.prev = wr[w].prev
    BY <1>0 DEF Row, Write
  <2>2. rows' = Append(rows, x) /\ wr[w].pc = "read" /\ wr' = [wr EXCEPT ![w] = Idle]
    BY <1>4 DEF Insert
  <2> HIDE DEF x
  <2>3. /\ rows' \in Seq(Row) /\ Len(rows') = Len(rows) + 1
        /\ \A i \in 1..Len(rows) : rows'[i] = rows[i]
        /\ rows'[Len(rows) + 1] = x
    BY <1>0, <2>1, <2>2, AppendProperties
  <2>4. Idle \in Write /\ Idle.pc = "idle"
    BY DEF Idle, Write
  <2>5. TypeOK'
    BY <1>0, <1>4, <2>2, <2>3, <2>4 DEF Insert, TypeOK
  <2>6. LinksResolve'
    <3> SUFFICES ASSUME NEW i \in 1..Len(rows') PROVE rows'[i].prev < i
      BY DEF LinksResolve
    <3>1. CASE i \in 1..Len(rows)
      BY <3>1, <2>3 DEF LinksResolve
    <3>2. CASE i = Len(rows) + 1
      BY <3>2, <1>0, <2>1, <2>2, <2>3 DEF WritersOK, Write
    <3> QED
      BY <1>0, <2>3, <3>1, <3>2
  <2>7. WritersOK'
    BY <1>0, <2>2, <2>3, <2>4 DEF TypeOK, WritersOK, Write
  <2>8. ASSUME Calm' PROVE (RowsInOrder /\ WritersInOrder /\ CheckpointsInOrder)'
    <3>1. Calm /\ Len(rows) = wr[w].since
      BY <1>0, <1>4, <2>8 DEF Insert, Calm
    <3>2. /\ x.prev = Len(rows) /\ x.at < clock
          /\ \A i \in 1..Len(rows) : rows[i].at < x.at
      BY <2>1, <2>2, <3>1 DEF InOrder, WritersInOrder
    <3>3. ASSUME NEW i \in 1..Len(rows')
          PROVE  rows'[i].at < clock' /\ rows'[i].prev = i - 1
      <4>1. CASE i \in 1..Len(rows)
        BY <4>1, <1>4, <2>3, <3>1 DEF Insert, InOrder, RowsInOrder
      <4>2. CASE i = Len(rows) + 1
        BY <4>2, <1>0, <1>4, <2>3, <3>2 DEF Insert
      <4> QED
        BY <1>0, <2>3, <4>1, <4>2
    <3>4. ASSUME NEW i \in 1..Len(rows'), NEW j \in 1..Len(rows'), i < j
          PROVE  rows'[i].at < rows'[j].at
      <4>1. i \in 1..Len(rows)
        BY <1>0, <2>3, <3>4
      <4>2. CASE j \in 1..Len(rows)
        BY <4>1, <4>2, <2>3, <3>1, <3>4 DEF InOrder, RowsInOrder
      <4>3. CASE j = Len(rows) + 1
        BY <4>1, <4>3, <2>3, <3>2
      <4> QED
        BY <1>0, <2>3, <4>2, <4>3
    <3>5. WritersInOrder'
      BY <1>0, <1>4, <2>2, <2>3, <2>4, <3>1
         DEF Insert, TypeOK, InOrder, WritersOK, WritersInOrder, Write
    <3>6. CheckpointsInOrder'
      BY <1>0, <1>4, <2>3, <3>1 DEF Insert, TypeOK, Checkpoint, InOrder, CheckpointsInOrder
    <3> QED
      BY <3>3, <3>4, <3>5, <3>6 DEF RowsInOrder
  <2> QED
    BY <2>5, <2>6, <2>7, <2>8 DEF InOrder
<1>5. ASSUME NEW w \in Writers, LogFails(w)
      PROVE  IInv'
  <2>1. Idle \in Write /\ Idle.pc = "idle"
    BY DEF Idle, Write
  <2>2. wr' = [wr EXCEPT ![w] = Idle]
    BY <1>5 DEF LogFails
  <2>3. TypeOK' /\ LinksResolve'
    BY <1>5, <2>1, <2>2 DEF LogFails, TypeOK, LinksResolve
  <2>4. WritersOK' /\ (WritersInOrder => WritersInOrder')
    BY <1>5, <2>1, <2>2 DEF LogFails, TypeOK, WritersOK, WritersInOrder
  <2> QED
    BY <1>5, <2>3, <2>4 DEF LogFails, InOrder, Calm, RowsInOrder, CheckpointsInOrder
<1>6. CASE TakeCheckpoint
  <2>1. PICK i \in 0..Len(rows) :
           /\ IsLast(i)
           /\ checkpoints' = checkpoints \union {[records |-> Len(rows), last |-> i]}
    BY <1>6 DEF TakeCheckpoint
  <2> DEFINE c == [records |-> Len(rows), last |-> i]
  <2>2. c \in Checkpoint /\ c.records = Len(rows) /\ c.last = i
    BY <1>0 DEF Checkpoint
  <2>3. checkpoints' = checkpoints \union {c}
    BY <2>1
  <2> HIDE DEF c
  <2>4. TypeOK' /\ LinksResolve' /\ WritersOK'
    BY <1>6, <2>2, <2>3 DEF TakeCheckpoint, TypeOK, LinksResolve, WritersOK
  <2>5. ASSUME Calm' PROVE (RowsInOrder /\ WritersInOrder /\ CheckpointsInOrder)'
    <3>1. Calm
      BY <1>6, <2>5 DEF TakeCheckpoint, Calm
    <3>2. i = Len(rows)
      BY <2>1, <3>1, LastIsStoredLast DEF InOrder
    <3>3. CheckpointsInOrder'
      BY <1>0, <1>6, <2>2, <2>3, <3>1, <3>2 DEF TakeCheckpoint, InOrder, CheckpointsInOrder
    <3> QED
      BY <1>6, <3>1, <3>3 DEF TakeCheckpoint, InOrder, RowsInOrder, WritersInOrder
  <2> QED
    BY <2>4, <2>5 DEF InOrder
<1>7. CASE ClockSetBack
  <2>1. clock' \in Nat /\ setBacks' = setBacks + 1 /\ ~Calm'
    BY <1>0, <1>7 DEF ClockSetBack, Calm
  <2> QED
    BY <1>0, <1>7, <2>1 DEF ClockSetBack, TypeOK, LinksResolve, WritersOK, InOrder
<1> QED
  BY <1>1, <1>2, <1>3, <1>4, <1>5, <1>6, <1>7 DEF Next

\* Everything the other theorems rest on holds in every reachable state.
THEOREM Invariance == Spec => []IInv
BY InitIInv, NextIInv, PTL DEF Spec

-----------------------------------------------------------------------------
(* The theorems                                                            *)

\* Type correctness, for every set of writers and every bound.
THEOREM TypeCorrect == Spec => []TypeOK
<1>1. IInv => TypeOK
  BY DEF IInv
<1> QED
  BY <1>1, Invariance, PTL

\* A row's previous hash is always that of a row _log_audit committed before it,
\* whatever writers overlap, clocks do and writes fail.
THEOREM LinksAlwaysResolve == Spec => []LinksResolve
<1>1. IInv => LinksResolve
  BY DEF IInv
<1> QED
  BY <1>1, Invariance, PTL

\* While writes do not overlap and the clock is not set back, AuditVerifier.verify
\* finds the chain whole after any number of failed writes and crashes.
THEOREM CalmChainVerifies == Spec => []ChainVerifies
<1>1. IInv => ChainVerifies
  <2> SUFFICES ASSUME IInv, Calm, NEW i \in 1..Len(rows)
               PROVE  IF \E j \in 1..Len(rows) : Earlier(j, i)
                      THEN rows[i].prev \in Previous(i)
                      ELSE rows[i].prev = 0
    BY DEF ChainVerifies, Verifies
  <2>1. TypeOK /\ RowsInOrder
    BY DEF IInv, InOrder
  <2>2. Len(rows) \in Nat /\ rows[i].prev = i - 1
    BY <2>1, LenProperties DEF TypeOK, RowsInOrder
  <2>3. \A j, k \in 1..Len(rows) : Earlier(j, k) <=> j < k
    BY <2>1, EarlierIsBefore
  <2>4. CASE i = 1
    BY <2>2, <2>3, <2>4
  <2>5. CASE i # 1
    <3>1. i - 1 \in 1..Len(rows) /\ Earlier(i - 1, i)
      BY <2>2, <2>3, <2>5
    <3>2. \A k \in 1..Len(rows) : Earlier(k, i) => k = i - 1 \/ Earlier(k, i - 1)
      BY <2>2, <2>3, <3>1
    <3> QED
      BY <2>2, <3>1, <3>2 DEF Previous
  <2> QED
    BY <2>4, <2>5
<1> QED
  BY <1>1, Invariance, PTL

\* Under the same conditions a checkpoint names, for ever, the row that ends the
\* number of records it claims.
THEOREM CheckpointsStayTrue == Spec => []CheckpointsHold
<1>1. IInv => CheckpointsHold
  <2> SUFFICES ASSUME IInv, Calm, NEW c \in checkpoints
               PROVE  /\ c.records <= Len(rows)
                      /\ c.last = 0 <=> c.records = 0
                      /\ c.last # 0 => c.last \in 1..Len(rows) /\ Place(c.last) = c.records
    BY DEF CheckpointsHold
  <2>1. /\ TypeOK /\ RowsInOrder /\ Len(rows) \in Nat
        /\ c.records \in Nat /\ c.last = c.records /\ c.records <= Len(rows)
    BY LenProperties DEF IInv, InOrder, CheckpointsInOrder, TypeOK, Checkpoint
  <2>2. ASSUME c.last # 0
        PROVE  c.last \in 1..Len(rows) /\ Place(c.last) = c.records
    <3>1. c.last \in 1..Len(rows)
      BY <2>1, <2>2
    <3>2. \A j \in 1..Len(rows) : Earlier(j, c.last) <=> j < c.last
      BY <2>1, <3>1, EarlierIsBefore
    <3>3. {j \in 1..Len(rows) : j = c.last \/ Earlier(j, c.last)} = 1..c.records
      BY <2>1, <3>1, <3>2
    <3>4. Cardinality(1..c.records) = c.records
      BY <2>1, <3>1, FS_Interval
    <3> QED
      BY <3>1, <3>3, <3>4 DEF Place
  <2> QED
    BY <2>1, <2>2
<1> QED
  BY <1>1, Invariance, PTL

-----------------------------------------------------------------------------
(* What the verifier accepts                                               *)

\* A non-empty set of natural numbers has a least member.
LEMMA LeastMember ==
    ASSUME NEW T \in SUBSET Nat, T # {}
    PROVE  \E x \in T : \A y \in T : x <= y
<1>1. PICK x \in T : \A y \in T : ~(<<y, x>> \in OpToRel(<, Nat))
  BY NatLessThanWellFounded, WFMin
<1>2. \A y \in T : ~(y < x)
  BY <1>1 DEF OpToRel
<1> QED
  BY <1>2

\* In a table that verifies and whose links point back, a row that is later in the
\* order of time was committed later.
LEMMA AcceptedInOrder ==
    ASSUME TypeOK, LinksResolve, Verifies,
           NEW i \in 1..Len(rows), NEW j \in 1..Len(rows), Earlier(j, i)
    PROVE  j < i
<1> SUFFICES ASSUME ~(j < i) PROVE FALSE
  OBVIOUS
<1>0. rows \in Seq(Row) /\ Len(rows) \in Nat /\ \A k \in 1..Len(rows) : rows[k].at \in Nat
  BY RowsTyped
<1> DEFINE After == {k \in 1..Len(rows) : Earlier(j, k) /\ ~(j < k)}
<1>1. After \in SUBSET Nat /\ After # {}
  BY <1>0
<1>2. PICK k \in After : \A m \in After : k <= m
  BY <1>1, LeastMember
<1>3. rows[k].prev \in Previous(k)
  BY <1>2 DEF Verifies
<1> DEFINE p == rows[k].prev
<1>4. /\ p \in 1..Len(rows) /\ Earlier(p, k) /\ p < k
      /\ j = p \/ Earlier(j, p)
  BY <1>2, <1>3 DEF Previous, LinksResolve
<1>5. p \in After
  BY <1>0, <1>2, <1>4 DEF Earlier
<1> QED
  BY <1>0, <1>2, <1>4, <1>5

\* A table AuditVerifier.verify accepts is a single line of rows, in the order in
\* which they were committed, whoever wrote it and whatever the clock did.
THEOREM AcceptedIsLinear == Spec => []AcceptedMeansLinear
<1>1. IInv => AcceptedMeansLinear
  <2> SUFFICES ASSUME IInv, Verifies, NEW i \in 1..Len(rows), NEW j \in 1..Len(rows)
               PROVE  /\ rows[i].prev = rows[j].prev => i = j
                      /\ i < j => Earlier(i, j)
    BY DEF AcceptedMeansLinear
  <2>1. TypeOK /\ LinksResolve
    BY DEF IInv
  <2>2. rows \in Seq(Row) /\ Len(rows) \in Nat /\ \A k \in 1..Len(rows) : rows[k] \in Row
    BY <2>1, RowsTyped
  <2>3. \A k, m \in 1..Len(rows) : k < m <=> Earlier(k, m)
    <3> SUFFICES ASSUME NEW k \in 1..Len(rows), NEW m \in 1..Len(rows)
                 PROVE  k < m <=> Earlier(k, m)
      OBVIOUS
    <3>1. k = m \/ Earlier(k, m) \/ Earlier(m, k)
      <4>1. rows[k].at \in Nat /\ rows[m].at \in Nat
        BY <2>2 DEF Row
      <4>2. k \in Int /\ m \in Int
        OBVIOUS
      <4>3. \/ rows[k].at < rows[m].at \/ rows[m].at < rows[k].at
            \/ rows[k].at = rows[m].at /\ (k = m \/ k < m \/ m < k)
        BY <4>1, <4>2
      <4> QED
        BY <4>3 DEF Earlier
    <3>2. (Earlier(k, m) => k < m) /\ (Earlier(m, k) => m < k)
      BY <2>1, AcceptedInOrder
    <3> QED
      BY <2>2, <3>1, <3>2
  <2>4. ASSUME NEW k \in 1..Len(rows), NEW m \in 1..Len(rows), k < m,
               rows[k].prev = rows[m].prev
        PROVE  FALSE
    <3>1. rows[m].prev \in Previous(m)
      BY <2>3, <2>4 DEF Verifies
    <3>2. /\ rows[m].prev \in 1..Len(rows) /\ rows[m].prev < k
          /\ k = rows[m].prev \/ Earlier(k, rows[m].prev)
      BY <2>1, <2>3, <2>4, <3>1 DEF Previous, LinksResolve
    <3> QED
      BY <2>2, <2>3, <3>2
  <2> QED
    BY <2>2, <2>3, <2>4
<1> QED
  BY <1>1, Invariance, PTL
=============================================================================
