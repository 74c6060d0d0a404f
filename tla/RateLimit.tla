----------------------------- MODULE RateLimit ------------------------------
(***************************************************************************)
(* RateLimitService (rate_limits.py) over the quota_events table.          *)
(*                                                                         *)
(* A worker is a server process that runs record_and_check for a request:  *)
(* it takes the time, commits an event of its own, then counts.  Workers   *)
(* and the `quota-prune` command share only the table, so they interleave  *)
(* between the commit and the count.  Times are whole ticks.               *)
(***************************************************************************)
EXTENDS Naturals, FiniteSets

CONSTANTS
    Workers,       \* server processes
    Agents, Tenants, Tools,
    TenantLimit,   \* settings.rate_limit_tenant_thresholds: a limit or NULL
    ToolLimit,     \* settings.rate_limit_tool_thresholds: a limit or NULL
    DefaultLimit,  \* settings.anomaly_burst_threshold
    Window,        \* settings.rate_limit_window_seconds
    PruneAge,      \* --older-than-seconds of quota-prune
    MaxStall,      \* a worker's database calls last at most this long
    NULL,          \* no override
    MaxTime,       \* bound on the clock
    MaxEvents      \* bound on the requests made

ASSUME RateLimitAssumption ==
    /\ NULL \notin Nat
    /\ TenantLimit \in [Tenants -> Nat \union {NULL}]
    /\ ToolLimit \in [Tools -> Nat \union {NULL}]
    /\ DefaultLimit \in Nat
    /\ Window \in Nat
    /\ PruneAge \in Nat
    /\ MaxStall \in Nat

\* The prune command is run with an age no check that is still going on looks at.
ASSUME PruneAssumption == PruneAge >= Window + MaxStall

VARIABLES
    events,    \* the rows of quota_events
    nextId,    \* the autoincrement key of the next row
    op,        \* op[w]: the call worker w is in, with the row it stands for
    clock,     \* datetime.utcnow()
    issued,    \* history: every row committed
    admitted,  \* history: the rows whose call returned blocked = False
    refused    \* history: the rows whose call returned blocked = True, and when

vars == <<events, nextId, op, clock, issued, admitted, refused>>

-----------------------------------------------------------------------------
Row == [id : Nat, agent : Agents, tenant : Tenants, tool : Tools, at : Nat]

Calls == [pc : {"idle"}] \union [pc : {"stamped", "recorded"}, row : Row]

TypeOK ==
    /\ events \subseteq Row
    /\ nextId \in Nat
    /\ op \in [Workers -> Calls]
    /\ clock \in Nat
    /\ issued \subseteq Row
    /\ admitted \subseteq Row
    /\ \A x \in refused : x.row \in Row /\ x.counted \in Nat

Init ==
    /\ events = {}
    /\ nextId = 0
    /\ op = [w \in Workers |-> [pc |-> "idle"]]
    /\ clock = 0
    /\ issued = {}
    /\ admitted = {}
    /\ refused = {}

-----------------------------------------------------------------------------
(* The threshold that applies to a row, and what is counted against it     *)

HasTenantLimit(r) == TenantLimit[r.tenant] # NULL
HasToolLimit(r)   == ~HasTenantLimit(r) /\ ToolLimit[r.tool] # NULL

EffectiveThreshold(r) ==
    IF HasTenantLimit(r) THEN TenantLimit[r.tenant]
    ELSE IF HasToolLimit(r) THEN ToolLimit[r.tool]
    ELSE DefaultLimit

\* Bugs: the window is not applied; the row just committed is not counted.
CountedEver(r) ==
    {x \in events : x.agent = r.agent /\ (HasToolLimit(r) => x.tool = r.tool)}

CountedOthers(r) ==
    {x \in events : /\ x.id # r.id
                    /\ x.agent = r.agent
                    /\ x.at + Window >= r.at
                    /\ HasToolLimit(r) => x.tool = r.tool}

\* scoped_count, or tool_count where a tool threshold applies: the agent's rows
\* with created_at >= window_start, whatever comes after r.at included.
Counted(r) ==
    {x \in events : /\ x.agent = r.agent
                    /\ x.at + Window >= r.at
                    /\ HasToolLimit(r) => x.tool = r.tool}

Blocked(r) == Cardinality(Counted(r)) > EffectiveThreshold(r)

-----------------------------------------------------------------------------
(* record_and_check                                                        *)

\* Bug: the row carries the start of its window.
StampWindowStart(w, a, t, k) ==
    /\ op[w].pc = "idle"
    /\ nextId < MaxEvents
    /\ op' = [op EXCEPT ![w] =
                [pc |-> "stamped",
                 row |-> [id |-> 0, agent |-> a, tenant |-> t, tool |-> k,
                          at |-> clock - Window]]]
    /\ UNCHANGED <<events, nextId, clock, issued, admitted, refused>>

\* now = datetime.utcnow().  The key of the row is given by the commit.
Stamp(w, a, t, k) ==
    /\ op[w].pc = "idle"
    /\ nextId + Cardinality({v \in Workers : op[v].pc = "stamped"}) < MaxEvents
    /\ op' = [op EXCEPT ![w] =
                [pc |-> "stamped",
                 row |-> [id |-> 0, agent |-> a, tenant |-> t, tool |-> k, at |-> clock]]]
    /\ UNCHANGED <<events, nextId, clock, issued, admitted, refused>>

\* db.add(row); db.commit()
Record(w) ==
    LET r == [op[w].row EXCEPT !.id = nextId] IN
    /\ op[w].pc = "stamped"
    /\ events' = events \union {r}
    /\ issued' = issued \union {r}
    /\ nextId' = nextId + 1
    /\ op' = [op EXCEPT ![w] = [pc |-> "recorded", row |-> r]]
    /\ UNCHANGED <<clock, admitted, refused>>

\* The counts and the comparison; the kernel acts on the answer.
Check(w) ==
    LET r == op[w].row IN
    /\ op[w].pc = "recorded"
    /\ IF Blocked(r)
       THEN /\ refused' = refused \union {[row |-> r, counted |-> clock]}
            /\ UNCHANGED admitted
       ELSE /\ admitted' = admitted \union {r}
            /\ UNCHANGED refused
    /\ op' = [op EXCEPT ![w] = [pc |-> "idle"]]
    /\ UNCHANGED <<events, nextId, clock, issued>>

\* The worker dies before it has answered; a committed row stays.
Crash(w) ==
    /\ op[w].pc # "idle"
    /\ op' = [op EXCEPT ![w] = [pc |-> "idle"]]
    /\ UNCHANGED <<events, nextId, clock, issued, admitted, refused>>

\* Bug: every row older than the moment of the command goes.
PruneAll(now) ==
    /\ events' = {x \in events : x.at >= now}
    /\ UNCHANGED <<nextId, op, clock, issued, admitted, refused>>

\* prune_events, whose cutoff was computed at some moment now, at or before the
\* deletion.
Prune(now) ==
    /\ events' = {x \in events : x.at + PruneAge >= now}
    /\ UNCHANGED <<nextId, op, clock, issued, admitted, refused>>

\* A call that has lasted MaxStall ends before time goes on.
Tick ==
    /\ clock < MaxTime
    /\ \A w \in Workers : op[w].pc # "idle" => clock < op[w].row.at + MaxStall
    /\ clock' = clock + 1
    /\ UNCHANGED <<events, nextId, op, issued, admitted, refused>>

Next ==
    \/ \E w \in Workers :
          \/ \E a \in Agents, t \in Tenants, k \in Tools : Stamp(w, a, t, k)
          \/ Record(w)
          \/ Check(w)
          \/ Crash(w)
    \/ \E now \in 0..clock : Prune(now)
    \/ Tick

Spec == Init /\ [][Next]_vars

-----------------------------------------------------------------------------
(* Properties                                                              *)

\* Rows drawn on one budget: the same agent, limited by the same tenant override,
\* by the same tool's, or by the default.
SameBudget(x, y) ==
    /\ x.agent = y.agent
    /\ HasTenantLimit(x) <=> HasTenantLimit(y)
    /\ HasToolLimit(x) <=> HasToolLimit(y)
    /\ HasTenantLimit(x) => x.tenant = y.tenant
    /\ HasToolLimit(x) => x.tool = y.tool

\* The admitted calls on y's budget that were stamped in the window ending at y.
Burst(y) == {x \in admitted : SameBudget(x, y) /\ x.at <= y.at /\ y.at <= x.at + Window}

\* However workers, stalls, crashes and pruning interleave, no window ever holds
\* more admitted calls on a budget than its threshold.
BurstBounded ==
    \A y \in admitted : Cardinality(Burst(y)) <= EffectiveThreshold(y)

\* A call is refused only if its own agent really made more calls than the
\* threshold between the start of the call's window and the count.
RefusedOnlyInBurst ==
    \A x \in refused :
        LET r == x.row IN
        Cardinality({y \in issued : /\ y.agent = r.agent
                                    /\ r.at <= y.at + Window
                                    /\ y.at <= x.counted
                                    /\ HasToolLimit(r) => y.tool = r.tool})
            > EffectiveThreshold(r)

\* Pruning takes no row that a call in progress, or any later one, still counts.
PruneKeepsWindow ==
    \A x \in issued \ events :
        /\ x.at + Window < clock
        /\ \A w \in Workers : op[w].pc # "idle" => x.at + Window < op[w].row.at
=============================================================================
