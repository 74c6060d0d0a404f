-------------------------- MODULE RateLimitProofs ---------------------------
(***************************************************************************)
(* Theorems about RateLimit, for every number of workers, every assignment *)
(* of thresholds and every window: pruning never takes a row that is still *)
(* counted, so bursts are bounded, and refusals are earned.                *)
(***************************************************************************)
EXTENDS RateLimit, FiniteSetTheorems, TLAPS

-----------------------------------------------------------------------------
(* The inductive invariant                                                 *)

\* A call in progress was stamped at most MaxStall ago; once its row is committed
\* the row is in the history.
CallsOK ==
    \A w \in Workers :
        op[w].pc # "idle" =>
            /\ op[w].row.at <= clock
            /\ clock <= op[w].row.at + MaxStall
            /\ op[w].pc = "recorded" => op[w].row \in issued

HistoryOK ==
    /\ IsFiniteSet(issued)
    /\ events \subseteq issued
    /\ admitted \subseteq issued
    /\ \A x \in issued : x.at <= clock

\* What pruning took was older than PruneAge.
PrunedOK == \A x \in issued \ events : x.at + PruneAge < clock

IInv == TypeOK /\ CallsOK /\ HistoryOK /\ PrunedOK

LEMMA InitIInv == Init => IInv
BY FS_EmptySet DEF Init, IInv, TypeOK, Calls, CallsOK, HistoryOK, PrunedOK

LEMMA NextIInv == IInv /\ [Next]_vars => IInv'
<1> SUFFICES ASSUME IInv, [Next]_vars PROVE IInv'
  OBVIOUS
<1> USE DEF IInv
<1>1. CASE UNCHANGED vars
  BY <1>1 DEF vars, TypeOK, CallsOK, HistoryOK, PrunedOK
<1>2. ASSUME NEW w \in Workers, NEW a \in Agents, NEW t \in Tenants, NEW k \in Tools,
             Stamp(w, a, t, k)
      PROVE  IInv'
  <2> DEFINE r == [id |-> 0, agent |-> a, tenant |-> t, tool |-> k, at |-> clock]
             c == [pc |-> "stamped", row |-> r]
  <2>1. r \in Row /\ c \in Calls /\ c.pc = "stamped" /\ c.row.at = clock
    BY DEF TypeOK, Row, Calls
  <2>2. op' = [op EXCEPT ![w] = c]
    BY <1>2 DEF Stamp
  <2> HIDE DEF r, c
  <2>3. TypeOK'
    BY <1>2, <2>1, <2>2 DEF Stamp, TypeOK
  <2>4. CallsOK'
    BY <1>2, <2>1, <2>2, RateLimitAssumption DEF Stamp, TypeOK, CallsOK
  <2> QED
    BY <1>2, <2>3, <2>4 DEF Stamp, HistoryOK, PrunedOK
<1>3. ASSUME NEW w \in Workers, Record(w)
      PROVE  IInv'
  <2> DEFINE r == [op[w].row EXCEPT !.id = nextId]
             c == [pc |-> "recorded", row |-> r]
  <2>1. op[w] \in Calls /\ op[w].pc = "stamped" /\ op[w].row \in Row
    BY <1>3 DEF Record, TypeOK, Calls
  <2>2. /\ r \in Row /\ c \in Calls /\ r.at = op[w].row.at
        /\ c.pc = "recorded" /\ c.row = r
    BY <2>1 DEF TypeOK, Row, Calls
  <2>3. /\ op' = [op EXCEPT ![w] = c]
        /\ events' = events \union {r}
        /\ issued' = issued \union {r}
        /\ nextId' = nextId + 1
        /\ UNCHANGED <<clock, admitted, refused>>
    BY <1>3 DEF Record
  <2> HIDE DEF r, c
  <2>4. r.at <= clock /\ clock <= r.at + MaxStall
    BY <2>1, <2>2 DEF CallsOK
  <2>5. TypeOK'
    BY <2>2, <2>3 DEF TypeOK
  <2>6. CallsOK'
    BY <2>2, <2>3, <2>4 DEF TypeOK, CallsOK
  <2>7. HistoryOK'
    BY <2>3, <2>4, FS_AddElement DEF HistoryOK
  <2>8. PrunedOK'
    BY <2>3 DEF PrunedOK
  <2> QED
    BY <2>5, <2>6, <2>7, <2>8
<1>4. ASSUME NEW w \in Workers, Check(w)
      PROVE  IInv'
  <2>1. op[w] \in Calls /\ op[w].row \in Row /\ op[w].row \in issued
    BY <1>4 DEF Check, TypeOK, Calls, CallsOK
  <2>2. [pc |-> "idle"] \in Calls
    BY DEF Calls
  <2>3. TypeOK'
    <3>1. admitted' \subseteq Row
      BY <1>4, <2>1 DEF Check, TypeOK
    <3>2. \A x \in refused' : x.row \in Row /\ x.counted \in Nat
      BY <1>4, <2>1 DEF Check, TypeOK
    <3> QED
      BY <1>4, <2>2, <3>1, <3>2 DEF Check, TypeOK
  <2>4. CallsOK'
    BY <1>4, <2>1 DEF Check, TypeOK, CallsOK
  <2>5. HistoryOK'
    BY <1>4, <2>1 DEF Check, HistoryOK
  <2> QED
    BY <1>4, <2>3, <2>4, <2>5 DEF Check, PrunedOK
<1>5. ASSUME NEW w \in Workers, Crash(w)
      PROVE  IInv'
  <2>1. [pc |-> "idle"] \in Calls
    BY DEF Calls
  <2>2. TypeOK' /\ CallsOK'
    BY <1>5, <2>1 DEF Crash, TypeOK, CallsOK
  <2> QED
    BY <1>5, <2>2 DEF Crash, HistoryOK, PrunedOK
<1>6. ASSUME NEW now \in 0..clock, Prune(now)
      PROVE  IInv'
  <2>1. PrunedOK'
    <3> SUFFICES ASSUME NEW x \in issued, x \notin events' PROVE x.at + PruneAge < clock
      BY <1>6 DEF Prune, PrunedOK
    <3>1. x.at \in Nat /\ now <= clock
      BY <1>6 DEF TypeOK, Row
    <3>2. CASE x \in events
      <4>1. ~(x.at + PruneAge >= now)
        BY <1>6, <3>2 DEF Prune
      <4> QED
        BY <3>1, <4>1, RateLimitAssumption DEF TypeOK
    <3>3. CASE x \notin events
      BY <3>3 DEF PrunedOK
    <3> QED
      BY <3>2, <3>3
  <2> QED
    BY <1>6, <2>1 DEF Prune, TypeOK, CallsOK, HistoryOK
<1>7. CASE Tick
  <2>1. TypeOK'
    BY <1>7 DEF Tick, TypeOK
  <2>2. CallsOK'
    <3> SUFFICES ASSUME NEW w \in Workers, op[w].pc # "idle"
                 PROVE  /\ op[w].row.at <= clock + 1
                        /\ clock + 1 <= op[w].row.at + MaxStall
                        /\ op[w].pc = "recorded" => op[w].row \in issued
      BY <1>7 DEF Tick, CallsOK
    <3>1. op[w].row.at \in Nat
      BY DEF TypeOK, Calls, Row
    <3> QED
      BY <1>7, <3>1, RateLimitAssumption DEF Tick, TypeOK, CallsOK
  <2>3. \A x \in issued : x.at \in Nat
    BY DEF TypeOK, Row
  <2> QED
    BY <1>7, <2>1, <2>2, <2>3, RateLimitAssumption DEF Tick, TypeOK, HistoryOK, PrunedOK
<1> QED
  BY <1>1, <1>2, <1>3, <1>4, <1>5, <1>6, <1>7 DEF Next

THEOREM Invariance == Spec => []IInv
BY InitIInv, NextIInv, PTL DEF Spec

\* The table, the calls and the histories keep their types.
THEOREM TypeCorrect == Spec => []TypeOK
<1>1. IInv => TypeOK
  BY DEF IInv
<1> QED
  BY <1>1, Invariance, PTL

-----------------------------------------------------------------------------
(* Pruning                                                                 *)

LEMMA PrunedIsPast == IInv => PruneKeepsWindow
<1> SUFFICES ASSUME IInv, NEW x \in issued \ events
             PROVE  /\ x.at + Window < clock
                    /\ \A w \in Workers : op[w].pc # "idle" => x.at + Window < op[w].row.at
  BY DEF PruneKeepsWindow
<1>1. x.at \in Nat /\ clock \in Nat /\ x.at + PruneAge < clock
  BY DEF IInv, TypeOK, Row, PrunedOK
<1>2. \A w \in Workers : op[w].pc # "idle" =>
         op[w].row.at \in Nat /\ clock <= op[w].row.at + MaxStall
  BY DEF IInv, TypeOK, Calls, Row, CallsOK
<1> QED
  BY <1>1, <1>2, RateLimitAssumption, PruneAssumption

\* No prune command, run with a sufficient age, takes a row a check still needs.
THEOREM PruningIsSafe == Spec => []PruneKeepsWindow
BY Invariance, PrunedIsPast, PTL

-----------------------------------------------------------------------------
(* Bursts                                                                  *)

LEMMA ThresholdType ==
    ASSUME NEW r \in Row
    PROVE  EffectiveThreshold(r) \in Nat
BY RateLimitAssumption DEF EffectiveThreshold, HasTenantLimit, HasToolLimit, Row

\* One budget, one threshold.
LEMMA SameThreshold ==
    ASSUME NEW x, NEW y, SameBudget(x, y)
    PROVE  EffectiveThreshold(x) = EffectiveThreshold(y)
BY DEF SameBudget, EffectiveThreshold, HasTenantLimit, HasToolLimit

\* When a call is admitted, every admitted call that shares a window and a budget
\* with it is among the rows that were counted for it.
LEMMA BurstIsCounted ==
    ASSUME IInv, NEW w \in Workers, op[w].pc = "recorded",
           NEW y, y = op[w].row \/ y \in admitted,
           SameBudget(op[w].row, y), op[w].row.at <= y.at,
           NEW x, x = op[w].row \/ x \in admitted,
           SameBudget(x, y), y.at <= x.at + Window
    PROVE  x \in Counted(op[w].row)
<1> DEFINE r == op[w].row
<1>1. r \in issued /\ r \in Row /\ clock <= r.at + MaxStall
  BY DEF IInv, TypeOK, Calls, CallsOK
<1>2. x \in issued /\ x \in Row /\ y \in Row
  BY <1>1 DEF IInv, HistoryOK, TypeOK
<1>3. x.agent = r.agent /\ (HasToolLimit(r) => x.tool = r.tool)
  BY DEF SameBudget
<1>4. x.at \in Nat /\ y.at \in Nat /\ r.at \in Nat /\ clock \in Nat
  BY <1>1, <1>2 DEF Row, IInv, TypeOK
<1>5. x.at + Window >= r.at
  BY <1>4, RateLimitAssumption
<1>6. x \in events
  <2>1. ~(x.at + PruneAge < clock)
    BY <1>1, <1>4, <1>5, RateLimitAssumption, PruneAssumption
  <2> QED
    BY <1>2, <2>1 DEF IInv, PrunedOK
<1> QED
  BY <1>3, <1>5, <1>6 DEF Counted

LEMMA NextBurstBounded == IInv /\ BurstBounded /\ [Next]_vars => BurstBounded'
<1> SUFFICES ASSUME IInv, BurstBounded, [Next]_vars PROVE BurstBounded'
  OBVIOUS
<1>1. CASE UNCHANGED admitted
  BY <1>1 DEF BurstBounded, Burst
<1>2. ASSUME NEW w \in Workers, Check(w), ~Blocked(op[w].row)
      PROVE  BurstBounded'
  <2> DEFINE r == op[w].row
             B(y) == {x \in admitted \union {r} :
                        SameBudget(x, y) /\ x.at <= y.at /\ y.at <= x.at + Window}
  <2>1. admitted' = admitted \union {r} /\ op[w].pc = "recorded"
    BY <1>2 DEF Check
  <2>2. r \in Row /\ admitted \subseteq Row
    BY <2>1 DEF IInv, TypeOK, Calls
  <2>3. SameBudget(r, r)
    BY DEF SameBudget
  <2> SUFFICES ASSUME NEW y \in admitted \union {r}
               PROVE  Cardinality(B(y)) <= EffectiveThreshold(y)
    BY <2>1 DEF BurstBounded, Burst
  <2>4. CASE r \in B(y)
    <3>1. SameBudget(r, y) /\ r.at <= y.at
      BY <2>4
    <3>2. B(y) \subseteq Counted(r)
      BY <2>1, <3>1, BurstIsCounted
    <3>3. IsFiniteSet(Counted(r))
      <4>1. Counted(r) \subseteq issued /\ IsFiniteSet(issued)
        BY DEF Counted, IInv, HistoryOK
      <4> QED
        BY <4>1, FS_Subset
    <3>4. /\ Cardinality(B(y)) <= Cardinality(Counted(r))
          /\ Cardinality(B(y)) \in Nat /\ Cardinality(Counted(r)) \in Nat
      BY <3>2, <3>3, FS_Subset, FS_CardinalityType
    <3>5. Cardinality(Counted(r)) <= EffectiveThreshold(r)
      BY <1>2, <2>2, <3>4, ThresholdType DEF Blocked
    <3>6. EffectiveThreshold(r) = EffectiveThreshold(y) /\ EffectiveThreshold(r) \in Nat
      BY <2>2, <3>1, SameThreshold, ThresholdType
    <3> HIDE DEF B, r
    <3> QED
      BY <3>4, <3>5, <3>6
  <2>5. CASE r \notin B(y)
    <3>1. y \in admitted
      BY <2>2, <2>3, <2>5, RateLimitAssumption DEF Row
    <3>2. B(y) = Burst(y)
      BY <2>5 DEF Burst
    <3> QED
      BY <3>1, <3>2 DEF BurstBounded
  <2> QED
    BY <2>4, <2>5
<1>3. UNCHANGED admitted \/ \E w \in Workers : Check(w) /\ ~Blocked(op[w].row)
  BY DEF Next, vars, Stamp, Record, Check, Crash, Prune, Tick
<1> QED
  BY <1>1, <1>2, <1>3

\* For every number of workers and every assignment of thresholds, no window holds
\* more admitted calls on a budget than its threshold.
THEOREM BurstsAreBounded == Spec => []BurstBounded
<1>1. Init => BurstBounded
  BY DEF Init, BurstBounded
<1> QED
  BY <1>1, Invariance, NextBurstBounded, PTL DEF Spec

-----------------------------------------------------------------------------
(* Refusals                                                                *)

\* The calls made on r's budget between the start of its window and time t.
Made(set, r, t) == {y \in set : /\ y.agent = r.agent
                                /\ r.at <= y.at + Window
                                /\ y.at <= t
                                /\ HasToolLimit(r) => y.tool = r.tool}

LEMMA MadeGrows ==
    ASSUME NEW S, NEW T, IsFiniteSet(T), S \subseteq T, NEW r, NEW t
    PROVE  /\ Cardinality(Made(S, r, t)) <= Cardinality(Made(T, r, t))
           /\ Cardinality(Made(S, r, t)) \in Nat /\ Cardinality(Made(T, r, t)) \in Nat
<1>1. Made(S, r, t) \subseteq Made(T, r, t) /\ Made(T, r, t) \subseteq T
  BY DEF Made
<1>2. IsFiniteSet(Made(T, r, t))
  BY <1>1, FS_Subset
<1> QED
  BY <1>1, <1>2, FS_Subset, FS_CardinalityType

LEMMA NextRefusedOnlyInBurst ==
    ASSUME IInv, RefusedOnlyInBurst, [Next]_vars
    PROVE  RefusedOnlyInBurst'
<1>1. \A x \in refused : Cardinality(Made(issued, x.row, x.counted)) > EffectiveThreshold(x.row)
  BY DEF RefusedOnlyInBurst, Made
<1> SUFFICES ASSUME NEW x \in refused'
             PROVE  Cardinality(Made(issued', x.row, x.counted)) > EffectiveThreshold(x.row)
  BY DEF RefusedOnlyInBurst, Made
<1>2. IInv'
  BY NextIInv
<1>3. issued \subseteq issued' /\ IsFiniteSet(issued')
  BY <1>2 DEF IInv, HistoryOK, Next, vars, Stamp, Record, Check, Crash, Prune, Tick
<1>4. CASE x \in refused
  <2>1. EffectiveThreshold(x.row) \in Nat
    BY <1>4, ThresholdType DEF IInv, TypeOK
  <2> QED
    BY <1>1, <1>3, <1>4, <2>1, MadeGrows
<1>5. ASSUME NEW w \in Workers, Check(w), Blocked(op[w].row),
             x = [row |-> op[w].row, counted |-> clock]
      PROVE  Cardinality(Made(issued', x.row, x.counted)) > EffectiveThreshold(x.row)
  <2>1. x.row = op[w].row /\ x.counted = clock /\ issued' = issued
    BY <1>5 DEF Check
  <2>2. x.row \in Row /\ EffectiveThreshold(x.row) \in Nat
    BY <1>5, <2>1, ThresholdType DEF Check, IInv, TypeOK, Calls
  <2>3. Counted(x.row) \subseteq Made(issued, x.row, clock)
    BY <2>2 DEF Counted, Made, IInv, HistoryOK, TypeOK, Row
  <2>4. IsFiniteSet(Made(issued, x.row, clock))
    <3>1. Made(issued, x.row, clock) \subseteq issued
      BY DEF Made
    <3> QED
      BY <3>1, FS_Subset DEF IInv, HistoryOK
  <2>5. /\ Cardinality(Counted(x.row)) <= Cardinality(Made(issued, x.row, clock))
        /\ Cardinality(Counted(x.row)) \in Nat
        /\ Cardinality(Made(issued, x.row, clock)) \in Nat
    BY <2>3, <2>4, FS_Subset, FS_CardinalityType
  <2> QED
    BY <1>5, <2>1, <2>2, <2>5 DEF Blocked
<1>6. \/ x \in refused
      \/ \E w \in Workers : /\ Check(w) /\ Blocked(op[w].row)
                            /\ x = [row |-> op[w].row, counted |-> clock]
  BY DEF Next, vars, Stamp, Record, Check, Crash, Prune, Tick
<1> QED
  BY <1>4, <1>5, <1>6

\* Nobody is refused for what another agent did, or for what left the window.
THEOREM RefusalsAreEarned == Spec => []RefusedOnlyInBurst
<1>1. Init => RefusedOnlyInBurst
  BY DEF Init, RefusedOnlyInBurst
<1>2. IInv /\ RefusedOnlyInBurst /\ [Next]_vars => RefusedOnlyInBurst'
  BY NextRefusedOnlyInBurst
<1> QED
  BY <1>1, <1>2, Invariance, PTL DEF Spec
=============================================================================
