# Verification of the options agent

The repository is an autonomous agent that trades one option spread at a time on a
paper broker account, with what keeps it running: a lease, a scheduler that starts and
stops its server, backups, deployments, and studies that judge its rules. Its core claim
is about *responsibility*: what it sent, what it may own and what it must still close
are facts in a database that survive lost responses, races with fills, outages and
restarts. This directory models these parts in TLA+, model-checks them with TLC and
proves what matters most with TLAPS.

## The system

Paths are under `src/src/options_alpha_lab/` unless they start with another directory.

| Component | State it keeps | Operations | What makes it correct |
|---|---|---|---|
| Lifecycle store, `execution/lifecycle.py` | rows of orders, positions, incidents | prepare, record, apply, release, open and resolve incidents | acceptance is never a fill; only a flat broker ends responsibility |
| Reconciler, `execution/reconcile.py` | none between passes | two broker reads, one visit per position, a report | its report is the truth of the broker, however the broker moves while it reads |
| Deadline enforcer, `execution/deadline.py` | none | cancel what is overdue, reinstate late fills | no order holds the slot for ever; no fill is ignored |
| Gateway, `execution/gateway.py`, `execution/request.py` | execution state | preflight, submit with lookup, cancel | refuses new risk in a halt; an unknown outcome is never a refusal |
| Intents, `execution/intent.py` | none | build_open_intent, build_close_intent | one authority, one id |
| Agent, `agent.py` | execution state, last results | startup, tick, the clocks, manage_positions, _consider_entry | exits before entries; one strategy; one close |
| Exit policy, `exits.py` | none | evaluate_exit, evaluate_triggers | precedence of triggers; an unreadable value hides no other rule |
| Workflow, `architecture/`, `components.py`, `providers/openai_thesis.py` | none | signals, setup, memo, selection, risk governor | no gate is skipped; the model may only abstain |
| Calendar, `calendar.py` | committed sessions | evaluate_entry, session counts | windows, half days, coverage |
| Market data, `providers/alpaca_readonly.py`, `evidence.py` | none | reads, snapshot | a bar in progress is no close |
| Outcome review, `outcomes.py` | jobs and outcomes | review | each horizon judged once, at the first observation |
| Worker, `worker.py` | lease row, health file | acquire, heartbeat, release, the loop and its clocks | one writer at a time; a dead worker is replaced |
| Scheduler, `scheduler.py`, `deploy/scheduler/handler.py`, `scripts/session.py` | lock tags of the server | decide, tick, the owner's commands | up for every session; never stopped with exposure |
| Backups, `offsite.py`, `scripts/backup_database.sh`, `watchdog.py`, `presentation/readiness.py` | dumps, records, a bucket, one incident | dump, copy, watch, answer readiness | a stop leaves the session's data off the host |
| Deployment, `scripts/ship_host.py`, `deploy_react.py`, `deploy_all.py`, `resize_trial.py` | the host | ship, migrate, restart, deploy, revert, resize | what it reports is what runs; a failure goes back |
| Studies, `veto_*.py`, `gate_study.py`, `ablation.py`, `sensitivity.py`, `replay.py` | files | run the live gates over history | the live rules, and no look-ahead |
| Legacy lab, `orchestrator.py`, `risk.py`, `agents.py` | none | run_experiment | what it approves obeys the policy |
| API, presentation, telemetry, configuration | buckets, filter counts | limit, page, mark, list, filter, load | nothing is skipped or hidden |
| Incident tool, dashboard, migrations | | | not modelled |

How they interact. The worker holds a lease and calls the agent: `startup` once, then
`tick` in a loop, and while it waits `order_clock`, `position_clock` and the review.
Each begins with `reconcile`, which reads the broker and writes the store; `tick` and
`order_clock` enforce deadlines through the gateway. A tick reads clock, bars and chain,
manages the position it finds, or puts the observation through the workflow and may
submit an entry. The review reads the decisions that ticks recorded. The scheduler runs
outside the server; it asks the server whether it may stop, and the answer comes from
the incident table and the records of the backup jobs. The resize and the deployments
act on the same server, over the same scheduler. The studies call the gates the tick calls.

What is hard. The process is sequential, its world is not: the broker accepts, fills,
cancels and expires orders between any two calls, several reads are no snapshot, a
response can be lost before or after the broker acted, and the process may die between a
send and its commit. A tick may outlast its lease, its entry window or the session.
Readiness is asked one call before the stop it permits, while the owner writes the lock.
Backup jobs run at their own times, fail and catch up. A deployment is several remote
scripts, each of which may fail part way while systemd starts services from what it
finds. `hazards` in `PROJECT.json` lists each of these at its line, with the properties
that watch it.

## Modules

| Module | Models |
|---|---|
| `OrderLifecycle` | the rows and, as operators on a row, every write of the store |
| `TradingAgent` | the process, reconciler, enforcer, gateway, clocks and the external broker |
| `SingleWriter`, `WorkerLease` | what the lease promises; the loop, its clocks and the lease row for several workers |
| `TradingCalendar` | sessions as functions of an instant; used by all modules below that know a session |
| `ExitPolicy` | the rules that close a position |
| `DecisionGates` | signals, setup, memo, selection, governor and the order of the gates |
| `DecisionCycle` | ticks that observe, decide, record, send and manage, and the review, over time |
| `VetoBacktest` | the breadth-veto study, session by session and minute by minute, with the live gates |
| `StudyGates` | gate study, veto count, ablation, replay, sweep, as operators over the live gates |
| `LabExperiment` | the legacy lab's experiment |
| `RunScheduler` | the scheduler's ticks, the owner's commands, the server |
| `ResizeTrial` | a resize, composed with `RunScheduler` (it EXTENDS it and runs its actions beside its own) |
| `HostBackups` | dump, copy, readiness, stop and watchdog |
| `HostDeploy` | the deployment programs, the host and its schema |
| `ReadModels` | what readers see: marks, pages, lists, counts, rate limit, cadence filter, settings |
| `MC...` | values for TLC |
| `TradingAgentProofs`, `StrategyProofs` | theorems about `TradingAgent`: fills; strategies, exposure and closes |
| `WorkerLeaseProofs`, `RunSchedulerProofs`, `DecisionProofs`, `DeployProofs` | theorems about the lease, the scheduler and the resize, the decision cycle, the deployments |
| `StudyProofs` | theorems about `VetoBacktest`, `StudyGates`, `LabExperiment` |
| `OperatorProofs` | theorems about `HostBackups`, `ReadModels` |

### OrderLifecycle

An order row is its local state, recorded fill, age of `submitted_at` and whether a
broker id is known. A position row is its state, filled quantity, legs and close order.
The age takes four values because the code asks only three things of it: is it set, is
the deadline over (`due`), is the order clock's ten-minute window over (`old`). A client
order id is derived from the intent, so an entry is named by its decision and a close
by position, quantity and terms (trigger and limit price).

### TradingAgent

| State | In the code |
|---|---|
| `order`, `pos`, `incidents` | tables `broker_orders`, `positions`, `incidents` (open rows) |
| `bOrder`, `held` | the broker's orders and signed positions |
| `pc`, `ret` | where the process is; where it returns after a reconciliation |
| `writes`, `exec` | `settings.may_write_orders`; `execution_state` of agent and gateway |
| `view`, `listed`, `report`, `todo` | locals of `Reconciler.reconcile`: remaining exposure, open orders, mismatches, rows left |
| `batch` | rows left in `manage_positions` |
| `cur`, `reply` | the order being submitted, the gateway's answer |
| `acted` | `DeadlineOutcome.acted` |
| `budget` | bounds of the model |

A step ends where the broker or a crash can come in between: after each broker call and
each commit that the next decision depends on. `ReadPositions`, `ReadOrders`,
`ReconcileOne`, `ReconcileEnds` are one pass; `EnforceOne`, `EnforceEnds` one deadline
pass; `Preflight*`, `Send*`, `LookUp`, `Record*`, `EntryRefused`, `EntryAmbiguous`,
`CloseRefused` one submission; `Tick`, `OrderClock`, `PositionClock`, `BeginCycle`,
`Manage`, `PrepareEntry`, `TurnEnds` the clocks. `Crash` loses everything but the
tables; `Start` begins with a reconciliation.

The broker is external and modelled from how the code uses it: an order is absent, in
transit (the response is lost and it will or will not be registered), working, or
ended; it fills one strategy at a time; a close needs the legs it sells; a cancel is
refused once an order has ended. Orders are day orders, so a working order ends.

Abstractions, and why they are safe:

- What the market data, the workflow and the exit policy answer is a free choice, so
  the properties hold for every answer. `DecisionCycle` has what they answer.
- One `ReconcileOne` step contains up to two commits for one position (the order row, the
  position row). A crash between them leaves an order row that is ahead of its position
  row; the next pass reads the order again and writes the same values.
- Incidents about no position are written when the pass ends, and the halt after a
  deadline pass in the step that failed: nothing reads either in between.
- Prices come with fills, so an OPEN row without a basis is not reached. A duplicate
  entry intent is not reached either, because each decision has its own hash.
- Time passes only between passes: a pass reads its clock once. An intent that outlives
  its 90 seconds before it is sent is counted as a fault.
- Database failures are left out, and so is FREEZE_ALL_WRITES, which no code sets.
- The order in which a management cycle visits positions is free.

### WorkerLease and SingleWriter

`TradingAgent` has one process at a time. `WorkerLease` is about why: several places
(`Workers`) run a worker each, and a row says whose turn it is.

| State | In the code |
|---|---|
| `lease` | row of `worker_leases`: owner, time until `expires_at`, whether `released_at` is set |
| `proc[w].at` | the line of `main` the process is at, or why there is none: `down` (systemd restarts it), `stopped` (an operator has to) |
| `proc[w].waited`, `since`, `stopping` | `waited`; time since `Cadence._last`; `stopping["now"]` |
| `proc[w].spent` | time spent in the present activity |
| `tickTime` | the longest tick of the behaviour |

`Time` advances everything at once and stops before an activity outlives its bound
(`StartTime`, `tickTime`, `ClockTime`, one second of sleep); tests and single database
calls take no time. A restarted process has an identity of its own: when one dies, its
name in the row becomes `Nobody`, so its own place is refused like any other while
the row is live. `acquire` is part of `Start`, `heartbeat` of `Loop` and `Wake`,
`release` of `End`. `Crash` covers a kill and an exception before the `try` block, neither
of which releases. An absent row and a released one are the same to `acquire`.

`SingleWriter` has one variable, the set of writers: empty, or one process.
`WorkerLease` implements it with `writers` mapped to the processes that are alive past
`acquire`, on the condition `Timely`: two starts, or a tick, the seconds between two
heartbeats and the clocks due in them, are shorter than the TTL.

### TradingCalendar, ExitPolicy, DecisionGates

Pure operators. An instant is a natural number, a day `DayLen` of them, a week `WeekLen`
days; `Sessions` is the committed table and `CoveredThrough` its last day. `ExitPolicy`
has the five rules in their precedence, the memo of the highest value, and
`evaluate_triggers` as the rows it displays, a function written separately in the code.
`DecisionGates` takes readings (which averages lie where, how volatile, how broad) where
the code computes them from bars, and has everything after: signals with their strength
and its rounding, the classification, the thesis with what the validation makes of a
reply, the estimator, the pairs of a chain and the order among them, the governor's
recomputation, and `Conclude`, the gates in order with the reason of the first that declines.

### DecisionCycle

| State | In the code |
|---|---|
| `time`, `now` | the wall clock; `now` of `tick` |
| `clock`, `bars`, `snapshot`, `outcome` | what the tick read and made of it |
| `pc` | where in `tick`, `_consider_entry` or `manage_positions` the tick is |
| `decisions`, `jobs`, `outcomes` | tables of decisions (with their observation), pending review jobs, outcomes |
| `slot`, `position` | the one strategy as `TradingAgent` has it, and what the exit rules know of it |

Time may pass, and the worker may die, between any two steps, up to `MaxSpan` in a tick.
The clock may be stale or unreadable, the bars late by `MaxLag` sessions. The race
between the clock and the bars is harmless because a tick that saw a closed market
returns; `CompletedCloses` says so. Left out: the existing-hash branch of
`record_decision`, realized results, and `slot` in the detail of `TradingAgent`: it is
free, in flight, held or closing, and changes as the broker likes.

### RunScheduler, ResizeTrial

One unit of time is a period of the function, 15 minutes. `tick` is one invocation
between its calls (`ReadsInstance`, `AsksReadiness`, `Retags`, `Starts`, `Stops`), with
what it read; `lock` the tags, `owner` a command of `session.py` in progress, `host` what
the server would answer. `TypesTags` is the owner at the console. The start check
(`§5 layer 1`) only alerts and is left out. `ResizeTrial` adds the script's points, the
type, the services and whether the type fits; each point is one remote or cloud call
that may fail, and `ScriptDies` may come anywhere. `calm` is a history variable: how many
periods, up to two, have begun since a script was last in progress or a call failed. With
it `UpAfterResize` says what the scheduler makes good: whatever a script left stopped when
it ended or died, the server runs wherever a session is on two undisturbed periods later.
The services a dead script left stopped on a running server stay down; nothing in the
code owes them. Dry runs, the preflight report and
the p95 comparison are left out.

### HostBackups

`backup` and `offsite` are the two records, `bucket` the stored objects with the moment
whose data they have, `dumping` and `copying` the jobs, `due` the timers that fired,
`alarm` the watchdog's incident. The two timers fire in each unit. `worker` stands for
the checks that have nothing to do with backups. A dump that fails leaves a failed record, or
the record before it where `set -e` ends the script past its `fail`. The watchdog's call to
the database may fail, and the incident then stays as it was. An object keeps when it was
last modified, which is what the watchdog goes by past the calendar (`MaxCopyAge`, 30 hours).
Readiness is that of the code, without
the exposure that `RunScheduler` has.

### HostDeploy

`h` is the host: files, virtual environment, link, what each service imported, schema and
its stamp, backups. A remote script is a sequence of commands under `set -e`; `Sends`
runs all of it, or a part of it with a failure seen by the program. The operator's
command moves through the points of `ship_host.py` and `deploy_react.py`; `deploy_all.py`
runs the two: it asks for a restart of the worker only where it asks for no migration.
`day` is whether the trading day is on and not ignored. What a program printed is
`result`; the record `deploy_react.py` writes is not kept, because it says REVERTED from the
moment a deployment failed, also when the revert then fails, which `result` tells apart. Left out: the
session lock opened for a deploy, the security-group rule of port 8600, unit and timer
files, dry runs.

### VetoBacktest, StudyGates, LabExperiment, ReadModels

`VetoBacktest` passes over the sessions with both arms of the study, selects a spread
when breadth alone vetoed, walks the minutes with all cost cases at once, and books the
portfolio of each arm. Half-widths are rounded to cents, where the code keeps the fraction: a
quote may differ by half a cent, which no property is about. Unmeasured rows
and the bootstrap are left out. The other three are pure operators with theorems and no
state: `StudyGates` calls `DecisionGates` for the live side; `LabExperiment` is
`run_experiment` with its revision; `ReadModels` has marks and their age, pages, the
decision list, review counts, trail gaps, the cadence filter, the rate limiter (time in
thirds of a second, so that tokens are whole), and the loading of settings.
Abstracted there: labels, tones, cursor encoding, serialisation, the statistics of reports.

## Runs

| Run | Module | Shows |
|---|---|---|
| `core_safety` | `MCTradingAgent` | `TypeOK`, `NoPhantomExposure`, `AbandonedMeansDead`, `OneStrategy`, `ExposureOwned` |
| `closing` | `MCTradingAgent` | `NeverAheadOfBroker`, `OneCloseWorking`, `CloseSettles` |
| `late_fills` | `MCTradingAgent` | `LateFillNoticed`, `ContestedNotJudged`, `EntrySettles`, `OutageHeals` |
| `single_writer` | `MCWorkerLease` | `SingleWriterSpec` (refinement), `OldWriterYields`, `OnlyHolderReleases`, `Served` |
| `scheduler` | `RunScheduler` | `UpForTheSession`, `NoStopWithExposure`, `SessionServed`, `IdleServerStops` |
| `resize` | `ResizeTrial` | `UpAfterResize`, `ChangedSafely`, `UnfitIsUndone` |
| `backups` | `MCHostBackups` | `CopyIsPostClose`, `SessionSaved`, `StoppedWithCopy`, `AlarmClears` |
| `deploys` | `MCHostDeploy` | `RevertRestores`, `DeployedServed`, `RestartedAsPlanned` |
| `decisions` | `MCDecisionCycle` | `CompletedCloses`, `ApprovedInEnvelope`, `ReviewedAtHorizon`, `HorizonAsked`, `EntryBeforeClose`, `JobsResolve` |
| `veto_replay` | `MCVetoBacktest` | `VetoIsBreadthAlone`, `OnePositionAtATime`, `TriggersInWindow`, `DearerStopsFirst` |

Bounds, and why they are enough:

- `core_safety`, `late_fills`: two entries, because the code compares rows in pairs and
  allows one live entry; one failed call and one crash, which reach every error path,
  alone or together; in `core_safety` one contract that leaves by hand or assignment, in
  `late_fills` one fill after the end. `closing`: one entry of two strategies, so that a
  partial fill has a proper part. The selector only asks for a quantity of one, so the
  larger one checks the store's arithmetic, not a configuration in use. It has no failed
  calls, because of what `second_close` shows.
- `single_writer`: a unit is about ten seconds: a TTL of 8, a heartbeat every 2, the order
  clock every unit, the position clock every 3, a review clock of 8 against a wait of 4.
  `TickTimes` makes `Timely` hold in one initial state and fail in the other. Two workers
  show every conflict over one row; two upsets allow a crash during a recovery.
- `scheduler`: a day of 11 periods with a window around a session of 2; locks up to 2
  periods with a grace of 1, so that each is active, expired, in grace and over; two
  failed calls, fewer than `START_LEAD` leaves room for; two commands of the owner.
  Days of each kind follow in any order, for ever.
- `resize`: one resize (and the rollback it runs itself), one failed call, a day of 7 with a
  session of 3, so that two undisturbed periods fit after a script that dies in the
  session; no locks: the scheduler acts by its window.
- `backups`: two sessions of 8-unit days, the second a short one and the last of its
  week, then a day past the calendar; one failed call, slow dump, cut copy or power loss
  anywhere; a resize in the first evening. The clock stays at `Horizon` while timers go on.
- `deploys`: two commits of any of four kinds, two commands, one failed script, one
  service started by systemd: a command that failed part way is followed by one that
  finds a mixture, with a start in either. No command waits for anything and the operator may stop
  for good, so deadlock is not checked. No revision needs more than `create_all`:
  `stamped_head` shows what happens to one that does.
- `decisions`: three sessions, one short, with a holiday; horizons of one and two
  sessions; three decisions, so that an observation can be too early, right and late for
  another; ticks that last two instants and intents that live for one; late bars.
- `veto_replay`: four sessions, two entries (two positions are what one can do to
  another), two costs, prices that reach stop and target; the session stop of 1 and a
  window of 3 sessions keep the relation of 3 and 5. A study ends: no deadlock check.

Two runs find what the code does against what the repository says:

| Run | Statement | What happens |
|---|---|---|
| `second_close` | responsibility is retained by monitoring, not by re-submitting | an ambiguous close is forgotten when the entry heals its position, and another one is sent |
| `stamped_head` | migrations move existing databases forward | a worker that starts between the new files and their migration stamps head: the column is never added and `ship_host.py` sees nothing to do |

`findings` in `PROJECT.json` quotes the lines. Because of the first, `OneCloseWorking` is
otherwise checked without failed calls.

### Known divergences

Statements of the repository that the code does not keep, without a run of their own. The
first seven are definitions of the modules; TLC violates each with the constants of
`second_close` (for the last two, of the run they name) and these changes:

| Definition | Constants | What happens |
|---|---|---|
| `ReleasedCloseDidNotFill` | `MaxFaults = 0` | a close that filled between two reads of one pass is released |
| `DeadSubmitRecovers` | `FairSpec`, `CloseTerms = {}`, `MaxFaults = 0`, `MaxCrashes = 1` | a PENDING row whose order was never sent keeps the slot for ever; a close never sent stays CLOSING in the same way |
| `UncancellableWasSent` | `CloseTerms = {}`, `Tracked = {"uncancellable_order"}` | 90 s after a refused entry it is an uncancellable order, and every tick is spent on it |
| `LateFillReinstated` | `FairSpec`, `CloseTerms = {}`, `MaxFaults = 0`, `MaxLate = 1` | the reconciler answers first; the row stays abandoned, under an incident |
| `NoFalseLateFill` | `MaxPositions = 2`, `CloseTerms = {}`, `MaxFaults = 0`, `Tracked = {"late_fill_after_terminal"}` | in the pass in which a re-entry opens, an abandoned row is told its legs are left over |
| `ExactlyOneActive` (`WorkerLease`) | as in `single_writer` | a tick outlasts the lease; a second worker reconciles while the first still ticks |
| `LoadedIsRestarted` (`HostDeploy`) | as in `stamped_head`, `Columns = {}`, `MaxRuns = 2`, `MaxFaults = 1` | "a file a service loads differs -> that service restarts" (`deploy_all.py:25`): after a ship that stopped between the migration files and the package, a worker that starts between the plan of `deploy_all.py` and that of `ship_host.py` stamps head; the restart left to the migration is not made, and VERIFY finds the old process up |

Because of these, `EntrySettles` and `CloseSettles` speak of submissions that were recorded,
and `RestartedAsPlanned` of deployments whose two plans agree on the migration.
The others follow from reading the modules:

- `RunScheduler`: a stray `oa-session` tag is invalid for ever. The function rewrites the
  expiry and the reason only, so the lock it set is invalid again, while
  `scheduler.py:157-160` says it expires like any other. `IdleServerStops` assumes no such tag.
- `HostBackups`: a copy cut short on its way fails its run, but the next run finds its key
  in the listing and takes it for the copy, and readiness believes that run
  (`StoppedWithCopy` excepts it). A copy made for a resize lies under `daily/` too, so the
  watchdog counts it as the session's copy; readiness does not.
- `ResizeTrial`: `resize_trial.py` says "Never leave production down", but restarts the
  server only if it finds it stopped: when the call after the services were stopped
  fails, a running server is left without services.
- `HostDeploy`: the record of a UI deployment says REVERTED although its revert failed.
  `deploy_react.py` marks the stage before the call, so a call that never
  arrived reverts to the backup of an earlier deployment; `RevertRestores` asks for a
  backup of its own. After `ship_host.py` made one (without a build), `rollback` is
  refused. A command repeated after a failure between install and restart finds nothing
  to do, restarts nothing and reports success. A failed MIGRATE leaves the worker down.
  On a host whose package is not linked, `deploy_react.py` reports DEPLOYED while the API
  runs the copy (`DeployedServed` asks for the link). The last step of `deploy_all.py` ends
  the owner's session lock, whoever set it.
- `ReadModels`: `telemetry.py` offers the count of lines held back since the last one, and the
  worker writes it after the filter has reset it: it is always zero (`NothingReported`).
  The review page says that all reviewed decisions are refusals whenever there are no
  position rows, although positions of an observing agent are reviewed as trades. Realized
  results keep one filled order per role and leave out one that filled in part and was
  canceled.
- Offline: the lab's command line saves after it submits, so a crash loses the order, and
  sends the close before the entry has filled; a rehearsal whose tick raises is recorded
  as ok; an interrupted replay leaves its run open; `veto_outcomes.py` calls a level
  breached strictly below it, the exit policy also at it.

### Fairness

`TradingAgent.Fairness` is what the worker's loop gives. A process that is down is started
again. A turn that has begun runs on: the code is sequential. `Tick` has strong fairness
because the loop comes back to it after the other clocks, which enable and disable it.
The broker settles a request in transit and ends or fills a working order, because
orders are day orders. Fills, moves, crashes, failures and the other two clocks need
never happen. Time is not fair: no property waits for a deadline.

In `WorkerLease` time passes, a process that runs goes on, and systemd restarts one that
failed (`Restart=on-failure`, `RestartSec=10`). Upsets are finite, and an operator who
stopped a worker need not start it again, so `Served` allows for all workers being
stopped. `SingleWriterSpec` is conditional on `Timely`, which nothing in the code enforces.

In `RunScheduler` and `ResizeTrial` the timer of the function fires, calls return, boots and
halts end, and a script that began goes on unless it dies. Owner and worker owe nothing.
In `HostBackups` the timers' jobs end, the watchdog runs, and the scheduler starts the
server in its window. In `DecisionCycle` a tick comes to an end, because every call has a
timeout; the review, which is enabled only between ticks, has strong fairness because the
worker's wait runs it on its own cadence. Time passes up to `EndOfTime`, and `JobsResolve` asks for no
time beyond the observation it needs. `HostDeploy` and `VetoBacktest` have safety only.

## Proofs

All theorems hold for every value of the constants that satisfies the named assumptions;
a theorem that needs more of them says so in its statement. Every invariant and every
action property of a passing run is stated by one.

`TradingAgentProofs` (`LifecycleAssumption`, `AgentAssumption`; no bound on entries,
quantities, symbols, faults or crashes): `TypeCorrect`, `NoPhantom`, `NeverAhead`,
`FillsKept`. The argument is one inductive invariant, `IInv`. That an OPEN row filled at the
broker cannot be shown alone: the row is opened from a listing taken earlier in the pass
and from order rows written in earlier ones. `IInv` adds

- `Submitting`: at the labels of a submission, `cur` is a real order of the prepared position;
- `ListingCurrent`: what is listed is not ahead of the broker, and the broker still knows it;
- `Unprepared`: an order without a row has never been sent, so a send never overwrites a fill;
- `NeverAheadOfBroker` and `NoPhantomExposure` themselves.

`BrokerInv`, `ReconcileInv`, `EnforceInv`, `GatewayInv` and `TurnInv` show that the steps
of each part keep `IInv`, from lemmas about single writes (`OrderWrites`,
`PositionWrites`, `LookupCurrent`, `AppliedRow`). Fills only grow at the broker, and
whatever a lookup returns is either the broker's order or a listing not ahead of it and
not behind the row; that gives `FillsKept`.

`StrategyProofs` (on top of `IInv`, under the same assumptions) first says what any step may do
to a bound, an order at the broker, its quantities, a position row and a submission; the
invariants are proved from these summaries. Three of the properties are not true of
the code without a condition, and the theorems state it as the largest prefix of a run in
which they hold:

- `OneStrategyUntilLateFill`, `AbandonedUntilLateFill` (any quantity): as long as `NoLateFill`, the
  broker has filled no entry it had ended. After one, the deadline pass reinstates the
  first strategy while a second may live; `late_fills` checks what follows then.
  `SlotInv` adds to `IInv` that no two entries are in flight (`EntriesApart`), none when
  one is about to be sent, that a closed position had filled, and that an order that is
  about to be sent is new (`NotYetSent`).
- `ExposureOwnedUntilLateFill`, for `Quantity = 1`, which is all the selector asks for. With
  more, an entry may fill in part, be closed, and the rest arrive for a row that no pass
  visits any more; the program reaches no such state, so it is no hazard of it. `ExposureInv` adds
  `FlatUntilFilled` and `ViewCovers`: the quantities a pass holds show every leg of a closing
  position it has still to judge. `WithoutLateFills` sums the three up for a
  broker that never fills an ended order.
- `OneCloseUntilFault`: as long as `NoFault`, no call of the process has failed. After one the position is
  an incident that does not name the close still working, which `second_close` shows.
  Crashes, late fills and moves are not excluded. `CloseInv` has that a close
  in flight is the one its row names, what is not yet sent is absent, and an order recorded
  without the broker's id is not in flight.
- `ContestedLeftAlone`: the set of contested rows is computed once per pass, and `HeldOutShrinks`
  shows that the visits of the pass do not make it grow.

`WorkerLeaseProofs` (`LeaseAssumption`): `LeaseTypeCorrect`, with `Counted` (a process sleeps
only while seconds of its wait are left), `HolderKeeps`, and the refinement
`LeaseImplementsSingleWriter`: `WorkerLease` implements `SingleWriter`, which is conditional on
`Timely`. `LeaseInv` bounds, at each point of the loop, the time since the last renewal
by what the process has slept, ticked and run since (`OnTime`); `Margin` shows from
`Timely` that the bound stays below the TTL, so a living process still owns the row when it renews it.

`RunSchedulerProofs` (`ScheduleAssumption`): `ScheduleTypes`, and `StopsWithoutExposure`: readiness is
read a call before the stop, and nothing asks again. The invariant `StopWarranted` says that
while a stop is decided or under way it is night and the server owns nothing. Time does not
pass within a tick, and the server takes exposure in a session only, which lies within
the window, so what was answered still holds when the stop is sent. `StopsOnlyUnlocked`
follows the tags through the tick (`NoLockRead`): `SessionNotCut`, which no run repeats. `UpWithLead` assumes
`MaxFaults < StartLead`: each failed call costs a period, and one is needed for the start.
`LeadInv` counts the ticks of the window against the faults spent: until the server is in hand, each
tick over has failed. `UpAfterScript` needs the same of a server a script may have left anywhere:
`NightInv` has that the function asks for readiness, and stops, outside the window only, and
`CalmInv` that a period of the window without script and fault ends with the server in
hand, since its tick read the instance after the script was gone. `ResizeIsSafe` is about `ResizeTrial` composed with the scheduler;
`ResizeInv` says which of snapshot, copy and stopped services hold at each point of the script.

`DecisionProofs` (`CalendarAssumption`, `ExitAssumption`, `CycleAssumption`, `TtlAssumption`): the exit
policy answers the first rule that fired (`WinnerFiredFirst`), decides without a premium
what needs none (`MissingPremium`), is never asked about a rule that runs against its position,
where it would raise (`RuleRunsWithPosition`), and the model's memo is bounded (`MemoIsBounded`). On these
rest `EnvelopeKept`, by `EnvelopeInv` that follows the snapshot and the outcome through the tick;
`EntryLeavesInSession`, by an invariant that the tick began inside an entry window and that
the intent's life is shorter than the buffer before the close; and `HorizonIsAsked`.
`NoLookAhead` rests on `RecordInv`: a bar is there only once its session has begun, a tick goes on
only if the clock it read showed an open session, and every completed session it may take
then was over at its instant. The invariant also has the order of the table, a decision
observed after the one before was taken, from which `ReviewsAtHorizon` concludes with
`ReviewInv`: a later observation counts no fewer closes, so the first that counts enough stays the
first, and a question answered is no job again.

`StudyProofs` proves about operators: one revision is enough and a candidate fits its
budget; the study's gates are the live ones, the variations widen, the count is an upper
bound, the model only abstains, a sweep restores. About `VetoBacktest`
(`BacktestAssumption`, `InputAssumption`, `CalendarAssumption`, `WindowAssumption`: the path of
downloaded sessions is longer than the session stop by two) it proves `VetoedByBreadth`, `TriggersAreSeen`,
`DearerIsFirst` and `PositionsOneByOne`. `OrderInv`: entries are of different days, in order.
`VetoInv`: what was selected was refused for its breadth or for nothing. `TradesInv`: during a
walk no trade is ahead of the moment reached, one that is still open is short of its
session stop, and a dearer case had its trigger where a cheaper one hit its stop. It
needs that one observation passes at most one close (`OneCloseBetween`), and that a dearer
case has the higher stop and the lower mark. `BooksInv`: `busyUntil` of a book is not before
the end of any trade in it.

`OperatorProofs` proves about the operators of `ReadModels`: a silent position is flagged, pages
neither skip nor repeat, positions are listed, quiet is bounded, forgetting is free, an
allowance is spent once, enabled is allowed. About `HostBackups` (`BackupAssumption`,
`CalendarAssumption`, `SessionsAssumption`: a session's lag is over on its own day, and its day within
the horizon):

- `DaysAreTrue`, `StopsWithCopy`, by `BackupsInv`: every stored object is a dump that may have its name,
  whole unless something failed; a run no longer misses what is stored; a record says what
  is there. `KeyIsPostClose` is the heart: a dump named after a session's day
  began after that session and before the next.
- `EverySessionIsSaved`, with `SavingInv`. A dump begun in one unit is copied by the run of the
  next, if nothing fails in the two. There are two such units after the close and two
  before the next open, so one fault spoils one pair and the other makes the copy. It
  assumes `NightsAreLong`, which the code's values satisfy: a dump counts 15 minutes after the
  close while the server runs for 90 (`STOP_LAG`); it starts 60 minutes before the open
  with persistent timers that catch up at boot and then fire hourly, which are two
  units; a dump is accepted for 7800 s, longer than a unit; between the evening and the
  next morning lie hours, and the calendar covers its sessions.

`DeployProofs`: `RevertPutsBack`, `DeployIsServed` and `RestartsLeaveNoMixture`, for any commits and failures and any number of
commands. None is inductive: what a revert puts back was kept two scripts
earlier, and what is served was started before the checks. `DeployInv` adds that until
the swap `before` is what the host has, that after it what was kept can be put back
(`Undoable`), and that the host then serves what the command was given (`Served`). Lemmas say
of each remote command, and of each script as a prefix of its commands, what
it leaves alone (`KeepHost`, `PlainScriptKeepsHost`, `ReactRuns`). For the last, `RestartInv` carries
the plan from `deploy_all.py` to VERIFY: the two programs read the same files, so whatever is
touched is started again by the migration or after it (`StepsCover`), a start takes all of
the checkout and leaves the other service alone (`StartFreshens`), and a worker that ended
instead fails VERIFY.

Only model-checked: all liveness (`CloseSettles`, `EntrySettles`, `OutageHeals`, `LateFillNoticed`,
`OldWriterYields`, `Served`, `SessionServed`, `IdleServerStops`, `UnfitIsUndone`,
`AlarmClears`, `JobsResolve`), because fairness and ENABLED are out of the prover's reach.
`TypeOK` of the modules without such a theorem is the description of their
state; what a proof needs of it is in its invariant. What a run finds violated has no
proof, of course.

## Not modelled

- `incidents.py`: one row written by hand in one transaction.
- The dashboard renders the API; migrations are generated, and `HostDeploy` has them as numbers.
- Statistics and report layout of the studies, freezing of evidence, rehearsal (it drives
  the agent that `TradingAgent` models), provisioning and one-off scripts.
- HTTP, pagination, JSON, encryption and command lines: their failures are choices of the models.
- Arithmetic of the indicators: a reading stands for a window of bars.

## Left of the plan

1. A condition weaker than `NoFault` for one close at a time: a failed send whose order
   never reached the broker should do no harm.
2. `DecisionCycle` over `TradingAgent` instead of its `slot`, on instances small enough.
3. An operator who resolves incidents, as an action of `TradingAgent`.
4. The health, lease and event checks of the watchdog in detail.
