# Constrail: models, checks and proofs

Constrail decides what an AI agent may do: an action is checked against a capability
manifest, a risk assessment, a policy and a quota; it is run, refused or held for a human
reviewer, and every decision is recorded in a hash-chained table. This directory holds TLA+
models of that program, the TLC configurations that check them on small instances, and proofs,
checked by TLAPS, of the properties that matter most for instances of every size.

Paths below are relative to `src/constrail/` in the repository. `PROJECT.json` lists the runs,
the mutants that show each property can fail, the source lines each definition stands for, the
hazards, and the theorems.

## 1. What there is: the inventory

Who runs: the **API server** is one process (FastAPI on one event loop). `kernel_v2.process` and
`replay_approved` are coroutines that give way only where they `await`: at the policy engine and at
the tool. Everything else in them, database calls included, is synchronous. Beside it run
**command-line processes** (`cli.py`): `approval-approve`, `approval-deny`, `approval-replay`,
`approval-retry-webhook`, `quota-prune`, `audit-checkpoint`, the `capability-*` and `auth-*`
commands, and the long-running `approval-worker-serve`. They share only the database. Every service
method opens a session of its own, with no lock, no version column and no unique constraint to stop
two processes from interleaving at any query or commit. Where several server processes run, they
interleave the same way.

| component | state it keeps | operations that change it | hard behaviour | what makes it correct |
|---|---|---|---|---|
| Approval service (`approval.py`) | `approval_requests`: status, approver, expiry | `create_request`, `decide` | decisions by two processes; SQLAlchemy flushes only changed columns; a crash between the commit and the event | the row carries the last decision whole; each decision is announced once, in order |
| Replay (`kernel_v2.replay_approved`) | nothing of its own; runs a tool, writes `audit_records` | one coroutine: check, await, run, await, record | the row is used after two awaits; expiry; overlapping replays; a failed record | nothing runs that was not approved, unexpired, at the check; every effect is recorded |
| Webhooks and outbox (`approval.py`) | `approval_webhook_outbox`, `webhook_delivery_*` columns | `_emit_webhook`, `_record_webhook_delivery`, `retry_webhook`, `drain_outbox` | outages, answers that arrive too late, crashes between send and commit, two drainers | statuses tell the truth, attempts are bounded and counted, every acceptable event arrives |
| Kernel pipeline (`kernel_v2.process`) | per request: level, policy answer, quota answer, final decision | one coroutine | requests interleave at the awaits; OPA fails; record writes fail | a tool runs only where the policy, the automatic approval or the quota's mode let it pass; the record tells what was returned and done |
| Audit log, verifier, checkpoints | `audit_records` with `chain_prev_hash`, `chain_hash`; checkpoint files | `_log_audit`, `create_audit_checkpoint` | read-then-insert by two processes; wall clock as order | an undisturbed chain verifies; what verifies is linear; checkpoints stay true |
| Rate limits (`rate_limits.py`) | `quota_events` | `record_and_check`, `prune_events` | commit first, count later, others in between; pruning | never more admitted than the threshold; refusals are earned |
| Risk engine (`risk/risk_engine.py`) | none; reads `audit_records` | `assess` | what it reads is written at the *end* of other requests | a read followed by a call out is noticed |
| Policy engine (`policy/policy_engine.py`) | none | `evaluate` | OPA slow or down; availability mode | denies in strict mode (what becomes of that denial is the pipeline's) |
| Tool broker, adapters, sandbox (`sandbox.py`, `adapters/exec.py`) | `sandbox_executions`; the processes it starts | `execute` in the dev and docker executors, `record_execution` | a timer against a process that ends, children that keep the pipes open, a timeout that is no number | a sandboxed decision runs only in an acceptable sandbox; what is reported as a success is one; no process waited for runs on unless it was given up (what a command of the dev executor leaves in the background is not waited for); every command is answered |
| Capability manager (`capability/manager.py`) | manifests loaded from files | load, `reload` | files edited during a load; directory order; fallback search; keys joined without escaping | no grants of another tenant where keys are told apart; after a reload the disk is what counts |
| Capability store (`capability_store.py`) | `capability_manifests` rows | create, next version, activate, deactivate, update tools | two administrators at once; writes of rows loaded earlier; a bulk UPDATE some time before its commit | one manifest active per scope until one is added beside it; every command does what it says |
| Authentication (`auth.py`) | `revoked_tokens`, `signing_keys`; the secrets in each process's settings | mint, revoke, `rotate_secret`, the first use of an empty registry | settings are per process, and a rollout restarts servers one by one; a token id has one-second resolution | a revoked token is refused everywhere and no other is; a rollout locks nobody out; one key is active |
| HTTP API, command line | none | call the above | | |
| Tables, settings, metrics, migrations | columns, settings | | | |

How they interact: `process` calls the capability manager, the risk engine (which reads the
audit table that `process` itself writes), the policy engine, the rate limits, then the approval
service *or* the broker, then `_log_audit`. A decision by a reviewer goes through the approval
service, which writes an outbox row and then tries one delivery at once; the worker drains the
outbox later. A replay reads what a decision wrote, and writes the same chain as `process`.

## 2. Which module models what

| module | models | theorems in |
|---|---|---|
| `Approvals` | `create_request`, `decide`, outbox rows, `replay_approved` | `ApprovalsProofs` |
| `ApprovalRegister` | abstract: what an approval promises, one atomic step per ruling and effect | |
| `RateLimit` | `record_and_check`, `prune_events` | `RateLimitProofs` |
| `AuditChain` | `_log_audit`, `AuditVerifier.verify`, `create_audit_checkpoint` | `AuditChainProofs` |
| `WebhookDelivery` | both delivery paths, the worker, the receiver | `WebhookDeliveryProofs` |
| `KernelRequest` | `process`, with the risk engine, policy engine and broker | `KernelRequestProofs` |
| `ActionGate` | abstract: what `process` promises, whatever it decides by | |
| `Capabilities` | whom a manifest is for, which the next two extend | |
| `CapabilityLookup` | `CapabilityManager`: load, reload, search | `CapabilityProofs` |
| `CapabilityStore` | `CapabilityStore` and the `capability-*` commands | `CapabilityProofs` |
| `ManifestRegister` | abstract: which manifests are in force, one atomic step per command | |
| `AuthTokens` | `AuthService`, the `auth-*` commands, the rollout of a secret | `AuthTokensProofs` |
| `Sandbox` | `ExecAdapter`, both executors, the record of a replayed command | `SandboxProofs` |

`MC<module>` gives each module the sets and symmetries its `.cfg` files use.

**Approvals.** One action per stretch between two database calls. A decider's *session* holds the
row as it loaded it; `Flushed` is the UPDATE SQLAlchemy makes of it: only columns whose new value
differs from the loaded one. `CreateCommit`, `Refresh`, `Enqueue` are `create_request`; `DecideRead`,
`DecideCommit`, `Refresh`, `Enqueue` are `decide`. A replay is `ReplayCheck` (up to the first await),
`ReplayExecute`, `ReplayAudit`; `ReplayAuditFails` is the error `_log_audit` swallows;
`DeciderCrash` and `ReplayCrash` a process that dies, or `record_execution` raising.
`decided` and `executed` are history variables. `decide` looks neither at an earlier decision
nor at the expiry, and neither does the model. The refinement maps a row to its ruling, a checked
replay to a permit, and `executed` to the effects: `ImplementsRegister` says an effect is always
covered by a ruling that was in force when the permit was taken, in the name of its reviewer.

**RateLimit.** `Stamp` (the time is taken), `Record` (the event is committed), `Check` (the counts
and the answer), by any number of workers; `Prune`, `Crash`. A tenant override wins over a tool
override, and both over the default; only the tool override counts tool by tool.

**AuditChain.** `Stamp`, `ReadLast`, `Insert` or `LogFails` by any number of writers. Rows are kept
in the order of commits; the program sorts by `start_time`, so `Earlier` is that order. A hash is
named by the place of its row, which takes SHA-256 to be injective: recomputing succeeds exactly
when the previous hash carried is the one the row was hashed with. Tampering with rows is out of
scope; what is modelled is the log under its own writers. `ClockSetBack` steps the wall clock.

**WebhookDelivery.** `Announce` commits the outbox row; `EmitCheck` to `RecordCommit` is the direct
send; `Drain` to `DeliverCommit` the outbox, run by a worker or, with auto-drain, by the emitter.
The receiver may be down, during which a request raises *although it may have been taken*, and
never accepts the events in `Rejected`. A database error while a success is recorded is caught by
the same `except` as a failed send (`RecordRaises`). The outbox's own `attempt_count` decides
nothing and is left out. A batch is a set of rows, taken once, as the list `drain_outbox` queries, and
delivered oldest first. `approval_webhook_url` is taken to be configured.

**KernelRequest.** A request goes `new -> policy -> (approval | execute) -> audit -> done`, or from
`new` to `refused` when the capability manager says no: `process` then returns before anything is
recorded. What the capability manager, OPA and the quota answer is left open, so that the model
holds for all of their answers. The weights of the risk score are an input (`call.risk` is the level
before chaining); `Raised` is what the chain's 0.35 can make of a level under the default thresholds,
with `exfiltration_read_then_network_enabled` on. A `sandbox` decision for a tool other than
`exec` runs the adapter directly after the posture check, as the broker does.
`RunsOnlyIfCleared` names what lets a tool run: the policy (`PolicyClears`), the automatic approval of
low risk (`RiskClears`), or the mode `sandbox` of an exceeded quota. It does not say that a denial is
final, which the code does not make it: `_determine_final_decision` turns any answer on a guarded tool,
a denial by OPA or in its absence included, into `approval_required`, which is approved automatically
at low risk if that is switched on. docs/project.md:28 ("Fail closed when possible") is to be read with
these two exceptions, which the property spells out for an outage in strict mode.
`before[r]` and `blind` are history.
The abstract gate sees of a request what was done for it (`Effect`), the answer it was given or that
it was lost (`Given`), and the records: one effect at most, then one answer, which reports that effect
and is recorded in the same step. `ImplementsGate` says so of steps, where the invariants speak of
states: nothing that was done, answered or recorded is ever changed, added to or taken back.

**CapabilityLookup.** `List` is `os.listdir`; `LoadFile` opens one of the files listed, in any
order; `Edit` is an operator writing, replacing, removing or half-writing a file at any moment.
`Find` tries the keys of the exact scope, the tenant and the agent alone, and then scans in insertion
order. A name is a sequence, and `Key` joins the names with `::` as `_manifest_key` does, writing `_` for
a missing one and escaping nothing: agent `eu::bot` in namespace `eu` of tenant `acme` and agent
`bot` in namespace `eu` of tenant `acme::eu` share a key, and so do tenant `_` and no tenant. The run has
both pairs. `TenantKept` is therefore claimed only of callers with `Told`, to whom no manifest of
another scope has a key that is tried; without that condition TLC finds it violated.
A set of calls stands for the allowances of a manifest, whose constraints look at one call at a
time. `require_approval`, `max_calls_per_minute` and `expires_at` are parsed by the code and never
used, so they are not in the model. The code's `reload` has no caller in the program itself. The
specification is `LookupSpec`, its parts `LookupInit`, `LookupNext`, `lookupVars` and `LookupTypeOK`,
so that one proof module can extend both this one and CapabilityStore.

**CapabilityStore.** The database is Postgres, as docs/production-deployment.md has it, at its default
isolation. A command reads (`CreateList`, `Load`); an activation sends its bulk UPDATE
(`UpdateSiblings`), which finds the rows committed by then (`upTo`); and the command commits, or is
rolled back (`Abort`). `Written` is what a commit makes visible: the rows the UPDATE found, and
the flush of the row itself, which writes the columns that differ from the copy loaded before
(`Flushed`). Row locks only put commits in an order, and SQLite, where sessions write one at a time,
has fewer behaviours. `create_next_version` copies the row *as loaded*. `loose` is history: the scopes
in which a manifest was added active beside an active one, which `capability-create` does whenever it
is told to activate and `capability-bump` does from a row that is not the active one, or was added
active between the UPDATE of an activation and its commit, which does not find it. `SingleActive` says
that nothing else leaves two active manifests, and that an activation that misses none ends it.
The register is seen through the rows: a manifest is in force where it is active.

**AuthTokens.** A process copies the settings of the deployment (`env`) when it starts, and keeps
them. A command is a process that ends; `auth-rotate-secret` changes only its own settings, and
prints the secret (`printed`), which an operator sets with `Deploy` before the servers are restarted
(`Stop`, `Launch`). A lifetime is any integer: with a negative `--expires-minutes` (cli.py:93,
auth.py:116) a token has expired when it is minted. `EnsureQuery` and `EnsureCommit` are
`_ensure_key_registry`, `RotateQuery` and `RotateCommit` are `rotate_secret`; a primary key refuses
a row that is there already. Signatures are named by the secret that made them. `Accepts` is
`authenticate_bearer_token`. `Deploy` assumes that an operator finishes one rollout before the next,
and deploys only what was printed.

**Sandbox.** The shell or docker client (`process`) and what it starts (`child`: a container, or a
background process that holds the pipes or not) belong to the environment: `Fork`, `Exit`,
`ChildExits`. `Complete` is `communicate` returning, once the process has ended and the pipes are
closed; `Timeout`, `TimeoutTooLate` and `Reap` are the branch for a timeout, where `kill` may find
the process gone. A timeout that is no number raises in `wait_for` when the process runs already
(`SpawnBadTimeout`). A timer has no length: once armed it may fire at any moment.

## 3. What the runs check

`MC<module>`, in the order of the table. Every run explores its whole state space.

| run | states | question and answer |
|---|---|---|
| `approvals_server` | 74 k | With the server as the only decider, through reversals, expiry, overlapping replays and a fault: nothing unapproved runs, effects carry the decision in force, events come in order, effects are recorded, and the abstract register is implemented. Holds. |
| `approvals_concurrent` | violation | Does `LastDecisionInForce` survive a second decider? No: bob's denial can be stored under alice's name (section 5). |
| `rate_limit` | 532 k | Is a threshold ever exceeded, a call refused without cause, or a row pruned that still counts? No. |
| `audit_writers` | 176 k | With two writers, a failed write and a clock set back: the chain verifies while nothing overlaps, and what verifies is linear. Holds. |
| `audit_overlap` | violation | Do two rows ever name one predecessor? Yes, of two writers that both read the last hash before either inserts. |
| `webhook_worker` | 388 k | One emitter and one worker, or an emitter that drains for itself; an outage, a fault, an event never accepted: statuses are true, attempts bounded, delivered is final, and acceptable events arrive. Holds. |
| `kernel_requests` | 676 k | Requests under six settings, strict mode with automatic approval among them: a tool runs at most once and only where something let it pass, the record tells what was returned and done, a read followed by a call out is noticed, and the abstract gate is implemented. Holds. |
| `kernel_denied` | violation | Is a denied request never run? Over quota, `rate_limit_enforcement_mode=sandbox` runs it. |
| `capability_lookup` | 117 k | Two kernels loading while operators edit, with scopes that share a key: no other tenant's manifest for a caller whose keys are told apart, the disk counts after a reload, and two kernels agree on callers a file names. Holds. |
| `capability_store` | 104 k | Two administrators whose commands overlap, also between an UPDATE and its commit: a scope keeps one active manifest until one is added beside it, and every commit on what is not outdated is the register's step. Holds. |
| `auth_tokens` | 3,121 k | Two servers restarted with a rotated secret, two terminals: revocation is exact, nobody is locked out, one key is active unless rotations overlap. Holds. |
| `sandbox` | 409 k | Two commands with any timeout in either executor, a database error or the death of the server: results and records are true, nothing runs on unnoticed, every command is answered. Holds. |

Each property of a passing run has a mutant in `PROJECT.json`: a plausible bug written beside the
definition it replaces, under which TLC finds the property violated with the same configuration.

### Bounds, and why they are enough

* `MaxDecisions`, `MaxReplays`, `MaxTime`, `MaxFaults` (Approvals): two decisions make a reversal, two
  replayers an overlap, one tick the expiry and a second the time after it. One fault shows each
  effect of losing a step; the accounting properties count faults. The proofs need no bound.
* `MaxEvents = 3`, thresholds 1 and 2, `Window = 1` (RateLimit): three events exceed the larger
  threshold, and time 3 leaves the window. `PruneAge = Window + MaxStall` is the least age
  `PruneAssumption` allows; with a smaller one `quota-prune` empties windows that are still open.
* `MaxTime` time stamps, `MaxSetBacks = 1`, `MaxCheckpoints = 2` (AuditChain): two rows can fork, a
  third can hang on either; one step back already puts a row before its predecessor.
* `MaxAttempts = 2`, `MaxEvents = 3`, `Limit = 2` (WebhookDelivery): the maximum is passed by one, and
  the rejected event stays at the head of every batch, with one place left for the others.
* `Lookback = 1` (KernelRequest): with three requests there is one more than the history holds. The
  constraint `Bounded` of `kernel_requests` keeps three requests to the setting without OPA and to
  the calls a chain is made of, where the history is what is asked about; under the other settings two
  requests of any kind run, and the history of two already shows a read before a call.
* `MaxEdits = 2` on two files (CapabilityLookup): two manifests of any scopes, or one and its
  replacement or removal, at any moment of a load.
* `MaxRows = 3`, `MaxCommands = 4` (CapabilityStore): two manifests of one scope and a third made from
  either, and enough commands for a row to be outdated by an activation, an update or a bump. Scopes
  have a tenant or none, which is where a comparison with SQL's NULL could go wrong.
* `MaxTime = 2`, `MaxCommands = 4` (AuthTokens): time passes the last second of a token; four commands
  are two tokens and two rotations, or a token, its revocation twice, and a rotation. Lifetimes are the
  default, of one tick, and -1.
* Two commands, `Timeouts` none, not a number, 0 and 2 (Sandbox): each branch of `Effective`, and one
  command that runs while the other is answered or its record fails.

`CHECK_DEADLOCK FALSE`: with every counter at its bound, each of these systems rests.

### Fairness

Two runs need any. `webhook_worker` has `WF_vars(Deliver(p))` for the workers: `approval-worker-serve`
drains, sleeps and loops for ever, and is run as a service that is started again. Emitters,
the receiver's recovery and operators have none: `EventuallyDelivered` assumes `<>[]up`. It also
needs fewer rejected rows than `Limit`: `drain_outbox` takes the oldest first and gives nothing
up, so `Limit` rows the receiver never accepts keep every younger one out for ever.

`sandbox` has `WF_vars(Proceed(c))`: the event loop runs a coroutine that is ready, an armed timer fires
in the end, and a process that was killed ends. The command itself has none: it may run for ever, and
so may what it started, and `EveryCommandAnswered` still holds, by the timer.

## 4. What is proved

All theorems hold for every value of the constants, under the named assumptions in each module.

**ApprovalsProofs.** None of the properties is inductive. `IInv` adds to `TypeOK` that what a
session works on exists (`SessionsOK`), that a row is decided only by decisions and approved only by
an approving one (`RowsOK`), that a replay under way looked at such a row (`ReplaysOK`) and that
every execution did (`ExecutedOK`). From `Invariance` follow `TypeCorrect` and
`NothingRunsUnapproved`, *for any number of deciders*: whatever is lost in concurrent decisions,
nobody runs what nobody approved. `NothingRunsUnaccounted` needs a count besides (`Balanced`):
executions are the audit records, the replays about to write theirs, and at most one lost per fault.
The stronger facts need the hypothesis `SoleDecider == Deciders = {Server}`: `SoleInv` says that a
session's copy of the row is current, so `Flushed` writes verdict and reviewer together
(`FlushedWhole`). From it: `SoleDeciderDecides`, `SoleDeciderAttributes`, and the refinement
`SoleDeciderImplements`. `SoleDeciderAnnounces` adds `Announces`: what the server has in hand is the
last event due (`InHand`), and the outbox is as long as what is due, less that one and those lost
(`Told`). The run `approvals_concurrent` shows that the hypothesis cannot be dropped.

**RateLimitProofs.** `IInv` says that a call in progress was stamped at most `MaxStall` ago (`CallsOK`), that
every row stored or admitted was issued (`HistoryOK`), and that what pruning took is older than
`PruneAge` (`PrunedOK`). The key step for `BurstsAreBounded`: when a call of a burst is admitted, the
admitted calls of the burst are still in the table and in its window (`BurstIsCounted`), so its
count includes them all, those stamped after it too.
`PruneAssumption` is used exactly in `PrunedIsPast`. `RefusalsAreEarned` bounds what a count sees by what
was issued.

**AuditChainProofs.** `IInv` says that what a writer remembers of the table was true of it
(`WritersOK`), and that under `Calm` the stored order is the order of time, each row names the one
before it, and a write nobody has fallen into follows the whole table (`InOrder`). From it
`CalmChainVerifies`, `CheckpointsStayTrue` and, without `Calm`, `LinksAlwaysResolve`. `AcceptedIsLinear`
needs only that links point backwards: a verified order that differed from the commit
order would have a least place at which a row names a later one.

**WebhookDeliveryProofs.** For any processes, `IInv` says that a process works on rows that exist and
remembers only answers the receiver gave (`Work`); with it `DeliveredWasAccepted` is inductive
(`DeliveriesWereAccepted`). Two other properties are false with a second process of the kind,
so each has its hypothesis. `OneDrainerIsFinal`, for `Drainers = {d}`: the rows the drainer still has
before it are not delivered (`DrainInv`), since nobody else commits a row. `OneEmitterIsBounded`, for
`Emitters = {e}`: what the emitter read of an approval is current (`Current`), so that `Flushed`
writes the status chosen and the count read is the count stored; and a retry raises the bound only
once its direct send is over (`Counted`, over the rows `Settled`), since the youngest row may be a
retry that is still to be sent.

`DrainedAtRest` has two theorems, for two reasons a drain cannot leave the new row behind.
`DrainsWithinLimit` is for any emitters and drainers, *as long as no more rows are due than a batch
takes* (an assumption about the behaviour, `[](... Cardinality(Due) <= Limit)`). `OneEmitterDrains` is
the case of the run: with one emitter it need only be assumed that fewer events are rejected than a
batch takes, since the rows due before a drain are then the rejected ones and the new one
(`BeforeSettled`). Both rest on `Attended`: on a `Calm` behaviour (auto-drain, no outage, no fault) a
row that is not delivered is rejected, or an emitter `Tends` it: one that is still to drain, or that
has it in its batch and will find the receiver up.

**KernelRequestProofs.** `IInv` says at each place of a request what has been done for it (`RequestOK`),
through which gate it came (`Gate`, carried from the decision to the tool), and that each record is
that of a request that is over, the only one of it (`AuditOK`). From it follow `ToolsRunOnlyIfCleared`,
`AuditRecordsTellTruth` and the refinement `PipelineIsAGate`, for any requests, calls and settings and
any answers of OPA. The refinement needs no more than `IInv`, which at each place of a request says
what is still open to it and what its answer will report (`GateOpen`); a step of `process` is a step of
the gate, or none when the gate sees nothing of it (admission, evaluation, a tool that is not run).
`OutageOK`, that an outage in strict mode is a denial, gives the clause of `ToolsRunOnlyIfCleared` that
names the two ways left to it: the quota's mode, and the automatic approval of a guarded tool.

`ReadsAreSeen` needs what a request saw when it read the history. The requests answered before it
came in are over (`Heard`), so that one that has a record now had it then. If the agent has no more
than `Lookback` of them, the last `Lookback` rows of the agent are all of its rows (`InHistory`), and
the read is among them (`SubmitSees`). The rows are filtered by their places (`RowsOf`, `Latest`,
`Recent`), with no recursion.

**CapabilityProofs**, of the store. `OneManifestActive` is for any number of administrators and
however stale their rows: the bulk UPDATE deactivates by what is stored when it is sent, a row added
active since then makes the scope loose, and a flush of `active` writes only what the command itself
changes. `CurrentCommitsImplement` shows every commit, made while all loaded rows are current and no
UPDATE has missed a row (`Current`), to be the step of `ManifestRegister` that was commanded, for
any number of administrators; with one administrator rows are always current, hence the refinement
`StoreImplementsRegister`, which no run repeats.

Of the lookup. `LookupInv` says that a dictionary has one entry to a key and one to a place in the
order of insertion (`Ordered`), and that a load nobody edits beside has entered every file it has
opened, and nothing that is not on disk (`Fresh`). `With`, which enters a manifest, keeps a
dictionary ordered (`WithIs`), and a search finds one entry at most (`FindIs`, `FoundIsOne`). From
these follow `NoOtherTenantsManifest`, `LoadsGrantWhatIsOnDisk` and `KernelsAnswerAlike`, for any
kernels, files and edits: if no two files have one key, the entries under a key are the file on disk
(`KeyedIsOnDisk`), and the order in which they were entered does not matter. `NoOtherTenantsManifest`
has the condition `Told` in its property; `PlainNamesAreTold` shows that it is met for every caller where
no tenant or namespace is `_` or contains `::`, whatever the agents are called (`PlainKeys`: a key is then
split at its first two separators).

**AuthTokensProofs.** `RevokedOK` (the ids listed are those of the tokens reported revoked) gives
`RevocationsAreExact`. `ServersOK` (a server has the settings deployed, or signs with the secret
before) gives `RolloutLocksNobodyOut`. `RegistryOK` gives `OneKeyIsActive`: the row `key-current` is
never removed, so a late first insert clashes with it; and the rotation under way, if there is one,
holds the active key, so its commit retires it.

**SandboxProofs.** `ProcessOK` and `ReportOK` say what may have been started, and what may have been
said of it, at each place of a command. From them `ResultsAreTrue` and `NothingIsLeftRunning`.

Only model-checked: the two liveness properties, `EventuallyDelivered` and `EveryCommandAnswered`,
which are outside the prover's reach.

## 5. Findings

1. `approval.py:128`: two processes deciding on one approval can leave the verdict of one
   decision with the reviewer of the other, or the earlier verdict standing: the session flushes only
   changed columns and nothing detects the conflict. (`approvals_concurrent`)
2. `kernel_v2.py:547`: last hash and insert are separate statements; a server and an
   `approval-replay` can both name one predecessor, which forks the chain. (`audit_overlap`) The
   verifier rejects the table, by `AcceptedMeansLinear`.
3. `kernel_v2.py:81`: over quota, the enforcement mode replaces a policy denial. The architecture
   document says a denied request returns an error. (`kernel_denied`) The list of guarded tools is
   another way: `kernel_v2.py:297` makes a denial `approval_required`, and `kernel_v2.py:188` approves that
   at low risk.

Seen while reading, and not counted as findings:

* `approval.py:294`: two emitters working on one approval lose one of two attempts. `AttemptsBounded` is
  checked and proved for one emitter for that reason.
* `kernel_v2.py:539`: a record stamped before another but committed after it sorts before it, although
  neither writer read a stale hash, and the verifier rejects the table. `ChainVerifies` and
  `CheckpointsHold` exclude overlapping writes (`Calm`); only `AcceptedMeansLinear` speaks of them.
* `kernel_v2.py:66`: a refusal by the capability manager leaves no record. `AuditTellsTruth` exempts it
  by name.
* An approval is not used up by a replay, so two replays run an action twice.
* `Limit` rejected events block the outbox (section 3, Fairness).
* No request is decided from the rows of the capability store: the manager reads files.
* `capability/manager.py:72`: manifests of two tenants may have one key, and then one replaces the other
  and is applied to both (section 2). docs/production-deployment.md:90 recommends scoped manifests to
  keep tenants apart; names without `::`, and not `_`, make that so. Nothing checks names.
* `capability_store.py:89`: on Postgres a manifest created active between the UPDATE and the commit of an
  activation stays active beside the activated one.
* `capability_store.py:95`: an activation that loaded its row active, where another activation has
  deactivated it since, flushes no `active` and still deactivates the siblings, so that the scope is
  left with no active manifest. Two bumps of one row make two rows of one version.
* `auth.py:163`: during a rollout, tokens minted with the new secret are refused by the servers that have
  not been restarted; `NobodyLockedOut` claims them only once all have. Two rotations that overlap
  add two active keys.
* `sandbox.py:74`: a timeout that is no number leaves the process running with nobody waiting for it.
  The branch for a missing docker client at `sandbox.py:170` is never taken: that exception leaves
  `execute` earlier, and the adapter reports it.

## 6. Not modelled

*Metrics* only read counters; *migrations* are schema scripts. *Adapters* for files and HTTP: who
reaches them is in KernelRequest, what they do outside is I/O. The *docker* options (limits, mounts,
network) are text given to another program. Read-only commands and endpoints, formatting,
signatures and headers carry no state. The request scoping and the 4xx answers of the *HTTP API*
look at one request and its caller; whether its token is good is in AuthTokens. The weights of the
*risk* score are an input of KernelRequest. Static API keys are compared with settings.

`Reap` takes `process.wait()` to return when the process has exited; in Python versions where it
waits for the pipes too, some releases of the supported 3.11 among them, a child that holds them
delays the answer to a timed-out command until it ends.

## 7. Plan

Done, in this order, the core first: Approvals with its register, RateLimit and AuditChain;
WebhookDelivery, KernelRequest, CapabilityLookup; CapabilityStore with its register, AuthTokens and
Sandbox; proofs of every safety property the runs check. What is left:

1. `KernelRequest` composed with `Approvals`, `RateLimit` and `AuditChain`, each in the place of an
   open answer: the held request, its decision and its replay share one audit chain.
2. An abstract specification of the outbox (a set of events owed and delivered) that
   `WebhookDelivery` implements.
