# TLA+ for agents-manager: prompts, hook events, builds, windows and restarts

agents-manager is a daemon that keeps coding agents (Claude, Codex, ...) running
in the panes of a terminal multiplexer (herdr), types prompts into them, and
records what they answer. This directory is a verification of the protocols in it
where something can get lost, happen twice, or get stuck: the state machines of
runs and turns, the durable inbox through which the agents report back, the queue
for build slots, the window in which nothing may be typed, and the recovery of
restarts that a crash of the daemon interrupted.

| file | what it is |
| --- | --- |
| `TurnLifecycle.tla` | the runs and turns of one bot and every path that moves them |
| `TurnGuard.tla` | abstract specification: what is promised about one turn, whatever path works on it |
| `HookInbox.tla` | the hook inbox, its worker, its spool |
| `EventLog.tla` | abstract specification: what the inbox promises about the events of a bot |
| `BuildScheduler.tla` | the table of build slots, whoever calls it |
| `CargoShim.tla` | the cargo wrapper that polls, builds under a lease, renews and gives back; extends and implements `BuildScheduler` |
| `MaintenanceGate.tla` | approvals, the restart lease, and the gates that read it |
| `RestartIntents.tla` | the intent of a restart, and its recovery after a crash |
| `MC*.tla` | the instances of these for TLC |
| `*_proofs.tla` | what TLAPS proves about them (eight modules) |
| `PROJECT.json` | components, runs, mutants, map to the source lines, findings, hazards, theorems |

Paths below are short for `src/crates/am-lifecycle/src/lifecycle/` (L),
`src/crates/am-base/src/` (B), `src/crates/am-supervisor/src/supervisor/` (S) and
`src/daemon/src/` (D).

## 1. Inventory

### The system's components

| component | state it keeps | operations | what makes it correct |
| --- | --- | --- | --- |
| **Runs** (L `start.rs`, `stop.rs`, `run_state.rs`; D `runners/events.rs`, `reconcile.rs`) | `runs.state`: starting, running, stopping, stopped, exited; the agent in the pane; retries of state writes that failed | start, stop, restart, exit event, reconcile, timed retries | at most one active run of a bot; an end that was recorded stays; nobody overwrites what another path decided; a transient state is left again |
| **Turns** (L `prompt.rs`, `queue.rs`, `delivery.rs`, `turn_controller.rs`; B `db/turn_guard.rs`) | `turns.status`, `delivery`, `run_id`, lanes of the queue, number of put-backs | prompt, queue, claim, type, record, put back, withdraw, revoke, complete, fail | only legal edges; typed at most once; "not sent" is true; at most one in flight on a run; the turn of a run that ended is closed |
| **Ledgers of owed writes** (L `owed_delivery.rs`, `interruption.rs`, `run_state.rs`) | in memory: results and closes whose write failed | owe, timed retry, settle before the next prompt | what is owed is written, and is still right when it is |
| **Hook inbox** (B `hook_inbox.rs`, `hook_cmd.rs`; D `runners/hook_inbox.rs`) | table `hook_events`, the spool files, tasks of the worker | post, spool, replay, drain, mark, retry | no event lost, none applied twice if it can be recognised, those of a bot in order, all handled |
| **Hook processing** (`hookrecv.rs`) | `turns.source_event_id`, native session and turn ids | attribute an answer to a turn, close it, late answers | the answer lands on the turn it answers |
| **Remote spool** (B `hosts.rs`, `hookrecv.rs`) | files on a host reached by ssh | claim, accept, acknowledge | as for the inbox, over a connection that breaks |
| **Supervisor** (S) | assignments, inbox, roles, incidents | assign, relay, follow up, fail over | an assignment follows the end of its turn |
| **Maintenance window** (S `maintenance.rs`, `store.rs`) | `supervisor_approvals`, `supervisor_leases` with a fencing number | acquire, renew, release, force, revoke, startup | no prompt is typed while the window is open; one holder, who keeps it; one approval, one window |
| **Restart intents** (D `intents.rs`, `runners/restart_intents.rs`; B `restart_intents.rs`; L `start.rs`, `restart_hold.rs`) | `intents`; in memory the holds and who is driving | prepare, settle, adopt, recover, claim, retry, fail | a bot that was stopped for a restart comes back, once; its queue waits for it; what cannot be had is reported |
| **Build scheduler** (B `build_scheduler.rs`) | `build_slots`: held and waiting rows | acquire, renew, release, cancel, sweep, status | never more than the slots; who polls is not overtaken |
| **Cargo wrapper** (B `cargo_shim.rs`, a shell script) | its deadline, its cargo, its watcher | poll, build, renew, stop, give back | cargo runs only under its own slot, whatever calls are lost |
| **Schedules** (D `schedules/`) | schedules, occurrences | fire, edit, skip, retry | an occurrence becomes one turn |
| Interrupt and send-now, gates before sending, screen reading, API bots, deployment, drafts, sharing, web | | | listed in `PROJECT.json` with the reason why they are not modelled |

### How they interact

* The web, a relaying bot, or a schedule calls `prompt`; under the **bot lock** a
  row goes in (in flight, or queued behind the turn in flight), the text is typed
  into the pane, and the result is written.
* The agent's CLI reports the end of the turn with a hook: an HTTP post, or a line
  of a spool file when the daemon does not answer. The inbox stores it; a worker
  processes it under the bot lock and closes the turn; what was queued is then
  *flushed*: claimed and typed.
* herdr reports that a pane exited. This path (`mark_run_exited`) takes **no
  lock**: it ends the run with a compare-and-set, looks for the turn in flight,
  captures the pane, closes the turn, and revokes what was queued if no run is left.
* Stop, restart, reconcile, the stuck-turn sweep and the fallback that reads the
  pane take the lock. The periodic orphan sweep takes none.
* A database write that fails is entered in a ledger and retried by a timer,
  under the lock.
* A restart writes an intent first; a daemon that finds an open one at boot holds
  the bot's queue, reconciles, and then drives the intent to its end.
* A script that wants to restart things asks the supervisor for the window, with an
  approval. While it is held, `prompt` refuses and the flush stays away; before it
  opens, the supervisor looks at the agents and at the turns.
* An agent that builds runs a wrapper named `cargo`; it asks the daemon for a slot
  over HTTP and goes on asking until it has one.

### What is hard

* The exit and the sweep interleave with every await of a locked section; the
  sections defend themselves with compare-and-set, one statement at a time.
* What a section read may be stale when it writes: the flush has a dozen awaits
  between its choice and its claim, the exit an RPC between its choice and its close.
* Any write may fail after something irreversible (keys typed, an agent killed).
* Retries are deduplicated and cancel themselves by looking at the state.
* A restart is a stop and a start with a hold on the queue in between.
* Events arrive twice, out of the file or out of the network; the daemon may die
  between a commit and the mark that it was done.
* A lease is a promise about time between processes that cannot see each other: an
  answer that is lost leaves one of them with a lease it does not know.
* What guards a commit is read before it (the window, the count of held slots, the
  last run): the guard must still be true, or be read again.
* A recovery may die as what it recovers did, run beside another, or find the world
  changed by a user in the meantime.

`PROJECT.json` lists each hazard at its line, with the properties about it.

## 2. Plan

Order: the core first, then what feeds it, then what sits on top.

1. **TurnLifecycle** with the abstract specification **TurnGuard** - done.
2. **HookInbox** with the abstract specification **EventLog** - done.
3. **BuildScheduler** and its composition with **CargoShim** - done.
4. **MaintenanceGate** against the gates of prompt and flush - done.
5. **RestartIntents**: crash of the daemon, durable intents, holds adopted at boot - done.
6. **HookTurns**: which turn an answer is attributed to (native ids, admission by
   generation, the fallback's turn against the turn in flight), on top of the
   order and at-least-once delivery that HookInbox establishes.
7. **RemoteSpool**: claim, accept, acknowledge over ssh, with a claim script that
   outlives its timeout. It should implement the same abstract delivery as the
   local spool ("every event accepted, none forgotten").
8. **Interrupt / SendNow**: turns in flight without a run, the unknown fate of a key,
   abandon of a turn in doubt; an extension of TurnLifecycle. With it `adopt_*` at
   boot: what becomes of the ledgers that are only in memory.
9. **Supervisor** assignments following the turns of TurnLifecycle; **Schedules**.

Proofs: type correctness, every safety invariant and every action property of the
runs, and the three refinements (all done, section 8). No module to be proved about uses
a RECURSIVE operator.

## 3. TurnLifecycle

### Correspondence

| in the model | in the code |
| --- | --- |
| `runState`, `agent` | `runs.state`; the agent process, as herdr lists it |
| `status`, `delivery`, `runOf`, `retries` | columns of `turns` ("none" and "deleted": no row) |
| `awaitsStart` | the flag of a turn that `start_send` queued for a run to come |
| `at`, `onRun`, `onTurn`, `fromQueue`, `oldRun`, `outcome` | the section that holds the bot lock: where it has got to, and its local variables |
| `exitAt`, `exitSaw`, `exitTurn` | `mark_run_exited_proved`, one per run, and the orphan sweep (process 0): where it has got to, the state it read, the turn it picked |
| `held` | `restart_hold` |
| `owedClose`, `owedWrite`, `settle` | the maps of `interruption.rs`, `owed_delivery.rs`, `run_state.rs` |
| `lostCloses` | history: turns whose close a step lost, with the run it was for |
| `typed`, `faults` | history of what went into a pane; number of failed database calls (bound) |

The bot lock serialises sections, so one program counter `at` is enough for all
of them; everything between two awaits that reads or writes shared state is one
action. A step of a locked section that others cannot tell from the next one is
merged into it. The paths without a lock have their own counters and interleave
with every step. A write may fail wherever the model has `DbFault`: there the code
has an error path that changes state, and it is modelled (owe, schedule, undo, go
on). Elsewhere a failed write leaves the caller with an error and nothing changed,
which is the action not happening.

* *Prompt*: `PromptRead`, then `PromptInsert` (guarded by the run being running
  still) or `PromptQueue`; `TypeText` with the outcomes of `delivery.rs`;
  `RecordOutcome` or `RecordFails`. *Queue*: `FlushRead` (the user's lane first),
  `FlushClaim`; `QueueForStart`; `Withdraw`. *Owed*: `SettleOwedWrite`,
  `SettleOwedClose`, `SettleRun`, `SettleDropped`.
* *Start*: `Start`, `Launch`, `LaunchCommit`, `LaunchAbort`. *Stop*: `StopBegin`,
  `StopFailTurn`, `StopKill`, `StopUndo`, `StopCommit`. *Restart*: the stop with
  `held`, `RestartStopCommit`, `RestartStart` or `RestartRefused`,
  `RestartFailed`; `RestartNoRun`.
* *Exit*: `ExitRead`, `ExitCommit`, `ExitCommitStopping` (the second
  compare-and-set), `ExitPick`, `ExitClose`, `OrphanCheck`, `OrphanRevoke`.
  *Sweep*: `SweepStart` and the last two. *Reconcile*: `ReconcileExit`,
  `ReconcileDone`, `ReconcileAlive`.
* *End of a turn*: `HookCompletes`, `HookFails`, `Fallback`, `LateHook`,
  `FailNeverSent`, `FailUnconfirmed`. *The agent's own turns*: `ExternalRead`,
  `ExternalInsert`.

Left to nondeterminism: what a screen or a log shows, what herdr answers, the
gates that hold a queued prompt back (`FlushRead` may stay away), whether a
maintenance window is held (the outcome "window"), whether a prompt is refused
for a reason that has nothing to do with turns.

Left out: interrupt, send-now and abandon; the resend by the stall watchdog; API
bots; a child's restart in its parent's pane; fences against a superseded host
and against a handed-off project; adoption by reconcile of an agent that has no
run; reconcile leaving a restart's `stopping` alone while its intent is open; the
limit of six timed retries; the crash of the daemon. A stop "only if idle" is a case of `StopBegin`.

### The abstract specification

`TurnGuard` knows the status of every turn and how often its text was typed. Its
edges are those of `LEGAL_EDGES` (B `db/turn_guard.rs`), from which the database
trigger is generated, plus insertion and the removal of a row that was not sent.
It adds what the trigger cannot know: the text is typed at most once, and the
edges that mean "nothing was sent" are taken only by turns whose text was not
typed. `KeepsGuard` says that TurnLifecycle implements it (the two variables have
the same names, so the mapping is the identity; everything else is hidden).

### Properties

| property | kind | says |
| --- | --- | --- |
| `TypeOK` | invariant | types; the put-back counter never exceeds `RetryLimit` |
| `EndedRunTurnIsOwned` | invariant | a prompt in flight on a run that ended: the exit is about to close it, or its close is owed, or one of three steps lost it (below) |
| `OneInFlightPerRun` | invariant | never two turns in flight on one run |
| `StopKillsNoTurn` | invariant | a stop that is about to kill the agent has no turn in flight |
| `PendingHasAWayOut` | invariant | outside a section, a prompt in flight with delivery pending has its result owed |
| `NeverSentIsTrue` | invariant | what is reported as never sent (queued, removed, pending or failed delivery) was not typed, unless the record that it was is owed |
| `UntypedIsKnown` | invariant | the inductive strengthening of the previous one |
| `RestartFindsNoRun` | invariant | between stop and start of a restart no run is active |
| `KeepsGuard` | refinement | every path keeps TurnGuard |
| `UserGoesFirst` | action | a relayed prompt is not claimed before one of the user's |
| `EndedStays` | action | an ended run stays ended; `stopped` becomes `exited` only for a failed restart |
| `EndedRunTurnCloses`, `OrphansLeave` | liveness | the turn of an ended run closes, unless its close was lost; the queue of a bot without a run empties |

Some more are *not* kept by the code; see section 9.

### Runs, bounds

| run | instance | shows |
| --- | --- | --- |
| `delivery` | two prompts of the user (symmetric), one run, one fault | `TypeOK`, delivery, `KeepsGuard` (1.6 million states) |
| `closes` | one prompt, one run, two faults, fair | `EndedRunTurnIsOwned`, `StopKillsNoTurn`, `EndedRunTurnCloses`, `OrphansLeave` |
| `runs` | two corners of one instance: on one run without a fault, a prompt of the user, a relayed one and a turn of the agent's own; without turns, two runs and two faults | `OneInFlightPerRun`, `UserGoesFirst`; `RestartFindsNoRun`, `EndedStays` (2.4 million states) |

Why the bounds are enough. A lane of the queue holds one turn and a run has one in
flight, so two turns give every conflict between turns, and a third would only wait
at a `409`. A property about one run cannot be disturbed by a later one except
through what the two share: the queue and the restart, and `runs` has two runs for
that. `RetryLimit` is 12 in the code. In the runs it is 0: the first counted put-back
is at the limit and fails the prompt, while those that are not counted (a
maintenance window) go on without end, so both outcomes of a put-back occur; what
the theorems say holds for every limit. One fault takes every error path, two take an
error path while another has something owed. The `CONSTRAINT` of `runs`, `OneRunOrNoTurns`,
keeps to its two corners, because the whole instance is too large: where there are turns
there is no fault, for the properties about turns are about who is first, not about writes.
All four hold without bounds (section 8). `MaxRuns`, `RetryLimit`, `MaxFaults` are the
bounds; each appears in a guard. The counter `typed` has none: the refinement says
that it never exceeds 1.

`EndedRunTurnIsOwned` and `EndedRunTurnCloses` are about closes, and the code does lose
some. The steps that do are recorded in `lostCloses`, and the properties except what is
in it (`CloseWasLost`): the read of `fail_in_flight_or_owe` failed (D `runners/s6_l.rs:719`);
the entry of the ledger was overwritten by the exit of another run; the left-over
retry of a stop recorded the end of a run that had been given a turn. In `closes` TLC
meets the first of them; the other two need two runs with two failed writes, or one run
with four (section 9), and more states than TLC can visit. `OwnedHolds` proves
`EndedRunTurnIsOwned` for every number of runs and faults: there is no fourth way. The
exceptions say nothing about a turn whose close was owed, or under way, and not lost by
such a step; there the retries must close it.

`CHECK_DEADLOCK FALSE` in every run of this module: prompts and runs are bounded,
and a bot whose prompts are done and whose runs ended may be idle for good.

### Fairness

`FairSpec` assumes weak fairness of a section that holds the lock (`LockStep`: it
goes on until it releases the lock, whatever the calls in it answer), of every exit
once begun (`ExitStep`), and of the periodic sweep. The timed retries of what is
owed get strong fairness: they are enabled only while the lock is free, which
may be taken and released for ever; the lock is a tokio mutex, whose waiters are
served first come first served, and a retry waits again after each failure.
There is no fairness for prompts, flushes, starts, stops, hooks, pane events, the
death of an agent, or reconcile except where a retry is scheduled for it:
reconcile runs on a connection, when an agent appears and when a child's pane
closes (L `stuck_turns.rs:32`), so it may never run again. Faults are bounded, so a
write succeeds in the end.

## 4. HookInbox

`rows` is the table `hook_events` in the order of its rowid, `spool` and `staging`
the files `hook-spool.jsonl` and `.replaying` of each bot, `queue` and `step` the
task of each bot, `lane` the claim-collision checks under way. `stamped` are the rows that
a turn bears as its `source_event_id`, `claimed` the events whose native ids (session and
turn) a turn bears. `effects` and `settled` are histories: the rows that took effect on
turns, in that order, and those that took effect or were found to have none.

`Post` is `hook_cmd` and `receive`: the row is committed before the answer, and the
sender spools an event that is not answered by 200, so an event may be in both
places. `ReplayFold`, `ReplayLine`, `ReplayRemove` are `replay_spool`, which holds
the bot lock. `Scan` is a round of `drain_once`: it reads a batch of due rows,
excluding bots that have a task, rows behind a backoff of their own bot and checks
under way, and starts tasks up to `MaxTasks`. `Process`, `MarkDone`, `MarkFailed`
are `drain_bot`; `Check`, `CheckMark` the lane; `BackoffEnds` the passing of
`next_attempt_at`. What `process_hook` does to turns is `Handle`. A row may be processed
twice, and how the code finds out depends on the event (`Recognised`). A *reply*
(`TurnComplete`) is looked up by the id of its row and leaves it in the transaction that
ends the turn (`turn_of_event`, `stamp_source_event`); it also leaves the native ids it
carries, except on a turn that ended meanwhile. A *failure* (`TurnFailed`, the constant
`Failures`) neither looks up nor leaves the id of its row: only native ids tell, if it
carries them (`Identified`; `seen_turn` wants both), and agy's failures never do. An event
may also have no effect: it is recognised, of an earlier run, an echo of an interruption,
or there is no turn it could end. `ScanFails` and a failed mark set `broken`: the code waits for
what is running before it begins again (`NextRound`). `Crash` loses all but the disk.

| run | instance | shows |
| --- | --- | --- |
| `inbox` | a reply, a failure with native ids and one without, all keyed, and a check without a key, of one bot; batches of two; two faults; fair (233,818 states) | `Durable`: what the sender and the spool no longer hold has a row. `AppliedOnce`: a keyed event takes effect at most once, unless it is a failure without native ids. `HandedOnce`: no row is worked on twice at a time. `InOrder`: the events of a bot take effect in the order of their rows. `KeepsLog`: the inbox implements EventLog. `EveryEventIsHandled`: what was sent is processed in the end. |
| `f_again` | one failure without native ids, two faults | `FailureAppliedOnce` is violated: such a failure takes effect again (section 9) |

`EventLog` is what the turns of a bot rely on: a log of the accepted events, in which a
keyed event appears once, and of which every bot's part is dealt with entry by entry
(`Settle`: without effect; `Apply`: with it). An entry has its effect once; that of a
failure without native ids may come again, but no longer when a later entry was dealt
with. The mapping takes the events of `rows` for the log, and `effects` and `settled` for
themselves; spool, tasks, lane, backoffs, stamps, native ids and crashes are hidden, and
most steps are stutters. It says more than `InOrder`, which asks that earlier rows were
*marked*: here a row may not be marked done that was not dealt with, or the next one would
be applied too early.

The `CONSTRAINT` of `inbox`, `NotBothFailures`, keeps to the behaviours in which at most
one of the two failures happens: so two events with turns are there for order, and each
kind of failure is checked beside the reply. `Post` has no fairness, so what is left out
are whole behaviours, and the liveness property is checked on those that remain.
Two events of one bot are needed for order, a check for the lane and for the
backoff of a row that blocks others without being in order with them, batches of
two for a task that gives up a row it has been handed. A fault is a lost answer, a
failed write, a failure before or after the commit, or a crash, and two of them
combine any two. The properties are about one bot at a time; bots meet only in the
size of a batch and the number of tasks, which the module models and which a
single bot does not exhaust: starvation between bots is not checked. An event
without a key may have two rows: `AppliedOnce` is about keyed events, as in the
code. Fairness: the worker and the replay are loops, tasks run on their own, a
backoff ends; `FairSpec` numbers rows up to 6, as many as there can be (each copy of
the event without a key costs a fault). The inbox may be empty for good, hence
`CHECK_DEADLOCK FALSE`.

Events that end no turn are in the model only as events that have no effect: an answer
to a question (`AskAnswered`) is inserted under the id of its message (`INSERT OR IGNORE`),
and a `PostToolUse` confirms a delivery by a compare-and-set; both may be repeated. Two
details of the marks are left out: a Codex notify without text stamps its turn and leaves
it in flight, and a turn that bears a stamp keeps it (`source_event_id IS NULL`), so that
the reply which ends it leaves only its native ids; and `Identified` means ids
that no turn of another bot bears, for `native_evidence` drops a turn id that one does.

Left out: rows and lines that cannot be parsed (`mark_dead`), oversized lines, pruning
of processed rows after 24 hours (a spooled copy is taken not to outlive its
row), dedupe keys of older versions, the remote spool, the two halves of
`fold_spool` (a crash between them leaves a copy of the same lines), the slot for
StatusLine, what a check decides, posts refused with 401 or 410 (dropped on
purpose), a sender that cannot write its own spool. A task counts as ended when its
last row is marked; the code counts it until it is joined.

## 5. BuildScheduler and CargoShim

`rows` is the table `build_slots`, `ahead` the order that the column `since` induces
on the waiting rows - all the code uses it for. Every operation of
`build_scheduler.rs` is one section under `build_slot_lock`, hence one action:
`Grant`, `Repeat` (a holder asks again and gets its old token and its old lease),
`Queue` and `Refuse` are the answers of `acquire`, which reaps the dead rows first;
`Renew`, `Release`, `Cancel`, `Sweep`, `Status`. A time is its distance from now and
`Pass` lets time pass.

`CargoShim` is the wrapper of every holder: `Start`, `Poll`, `Told` (the answer to a
poll), `Finish`, `Interrupt`; its watcher is `Wake` and `RenewTold`; `LeaveTold` is the
release, which is tried again. `DaemonAcquires`, `DaemonRenews`, `DaemonReleases`
carry a call into the table, `Lose` loses a request or its answer, `Kill` kills the
wrapper alone - its watcher goes on, as in the code - or its process group.
`due` is `_deadline`. `Tick` is urgent: a timer that ran down is acted on before time
passes, so a process that sleeps through its lease is not in the model; stopping the
process tree is one step, for the script freezes it first.

| property | kind | says |
| --- | --- | --- |
| `ShimTypeOK` | invariant | types of table and wrappers |
| `HeldWithinMax` | invariant | never more slots held than `max_concurrent` |
| `RunsOnItsSlot` | invariant | cargo runs only while the table has its row and its token, unless the token was handed out a second time |
| `NoOvertaking` | action | a slot goes past an earlier waiter only if that one is gone or its last poll was lost |
| `WaiterIsServed` | liveness | who waits gets a slot, is refused or gives up |
| `DeadSlotComesFree` | liveness | the slot of a process group that was killed comes free |

The run `builds` has two wrappers of two bots, one slot and one fault: the smallest
instance with someone to wait, someone to be overtaken and a slot to lose. The number
of ticks keeps the order of the limits in the code: two calls and a pause are less
than `LiveWaiter`, which is less than `StaleWaiting`; a renewal, with two calls, is
less than `Ttl` (the named assumptions `RhythmAssumption` and `TimingAssumption`; in the
code a call is cut off after 5 s, a pause is 3 or 5 s, and the two limits are 20 and 60 s). `MaxRowsPerBot` is 1, so that
the limit is met. `Reuse` (a pid that comes again) is TRUE. `MaxFaults` is the bound.
`ShimFairness`: the wrapper and the daemon go on, cargo ends, the sweep of the daemon
(a timer) comes round, time passes; nobody is obliged to start a build.

Left out: what cargo is given (environment, target directories, arguments), several
slots of one cargo that calls itself, remote hosts (`remote_cargo.rs`), metrics, the
configuration that changes while the daemon runs.

## 6. MaintenanceGate

`turn[b]` is the turn of a bot as far as the window is concerned: `asked` and `taken`
have read the gate and not written yet. `Prompt`, `Insert`, `FlushRead`, `FlushClaim`,
`Recheck` (the second look at the gate: a prompt is withdrawn, a claimed turn put back),
`Typed`, `Resend`. `lease` is the row of `supervisor_leases`, `approval` the rows of
`supervisor_approvals`. `acquire` is `AcquireSpent`, `AcquireReplay`, `AcquireRefuse`,
`AcquireCheck`, then `AcquireTake` or `AcquireLost`, then `AcquireDone`, under the
supervisor's lock but with other statements in between; `Renew`; a release is
`ReleaseRead`, `ReleaseMark`, `ReleaseConsume` without the lock, and `ForceRead` begins one
with force; `Revoke`. `Crash` includes `release_restart_on_startup` and what the boot
makes of a turn caught in its delivery (unknown, never typed again); `Lose` drops a
connection and with it the handler, wherever it is. `TurnEnds`, `AgentTurns`, `Ask`,
`GiveBack` and `Told` are the world outside: agents and scripts.

| property | kind | says |
| --- | --- | --- |
| `TypeOK` | invariant | types |
| `NoTypingInWindow` | invariant | while a window is open no first word of a prompt is typed, except into the holder's own bot |
| `HolderKeepsWindow` | invariant | nothing but force, expiry or a restart takes the window from its holder |
| `HeldIsApproved` | invariant | the approval of an open window is not used up by the end of another one |
| `LeaseWithinApproval` | invariant | no lease outlives its approval |
| `RefusedHasNoWindow` | invariant | who was refused holds no window |
| `QueuedGoesOut` | liveness | a queued prompt goes out once the agent stays idle |

The run `leases` has one bot, which is also a client (a bot that asks in its own turn
is left out of the check it would fail), and a script as a second client, an approval
for each, three fences and one fault: 312,096 states. Two clients are one that holds
and one that takes over; the third fence lets an approval be used a second time. With
one bot, `Others` is the bot for the script and nobody for the bot itself.
Lifetimes are two ticks, so that a lease expires before, with and after its approval
(`f_twice` has three for the approval). `MaxFence` and `MaxFaults` are the bounds.
`Fairness`: a flush is tried again, an acquire that was begun goes on, time passes.

Left out: wake-ups when a window closes, the resource `rebuild` (it closes nothing),
pending and denied approvals, decision records, host exclusions, the assignments a
window holds back, the limit on resends.

## 7. RestartIntents

`runs` are the states of the bot's runs in rowid order, `alive` the runs whose agent
lives in herdr, `intents` the table, `boot` the boot id that owns a running intent. They
survive a crash; `job` (who has the bot's lock, and where in stop and start it is),
`rec` (the recoveries of this daemon), `holds` (`adopted()`) do not.

| in the model | in the code |
| --- | --- |
| `RestartBot`, `Prepared`, `StopBot`, `StartBot`, `QueuePrompt` | what a user asks; `prepare_restart` |
| `BeginStop`, `Kill`, `CommitStopped`, `RelabelThenStart`, `InsertRun`, `Launch`, `RecordRunning`, `GiveUp`, `SettleRestart` | stop, start and settlement, in the order of L `stop.rs`, `start.rs` |
| `PaneExited`, `Reconcile`, `SweepQueue`, `FlushQueue` | the paths beside the lock |
| `RecoverHost`, `DriveOnce`, `Resume`, `Verdict`, `SettleAttempt`, `FailAttempt`, `StopWaiting`, `Reconnect` | D `runners/restart_intents.rs` |
| `Crash` | the daemon dies; `adopt_open_intents` of the next one, which may fail to read the open intents: then nothing is adopted and the boot goes on |

| property | kind | says |
| --- | --- | --- |
| `TypeOK` | invariant | types; at most one intent is open |
| `AgentsAreOwned` | invariant | an agent that lives belongs to the active run |
| `BroughtBackOnce` | invariant | an intent that names a run brings the bot back at most once |
| `StoppedIsAccountedFor` | invariant | a run left `stopped` by a restart: the newest restart of it is still open, or its failure was told |
| `PromptIsKept` | action | while a restart of an earlier daemon is owed, a queued prompt is not revoked, unless the boot could not read the open intents, or a recovery gave up waiting (`loose`) |
| `InheritedSettles`, `HoldsEnd` | liveness | an intent a crash left open is settled; the holds of the boot are let go |

The run `recovery` has two recoveries at a time, two attempts, two operations of the
user and two faults: 946,527 states. Two faults are a crash and a crash of the
recovery, or a failed write in it, or a crash and a boot that cannot read the open intents; two operations are a restart and the stop or start
that crosses it, or two restarts, of which the second refreshes or supersedes the intent
of the first. In the code `MAX_ATTEMPTS` is 5; a bound of two has an attempt that is
returned and one that is the last. `Fairness`: a handler with the lock goes on, the
boot reconciles, a recovery that was begun is driven and retried (`retry_loop`); no user
and no agent has to act.

Left out: rotation of credentials, which uses the same table; bots that were deleted,
payloads that do not decode, hosts that were superseded; children and tabs; the failing
write of `left_down_by_restart` at the end of a handler (`GiveUp`) and its retry;
adoption by reconcile of an agent that has no run; bulk restart and the coalescing of
requests, which decide what is asked for.

What the model shows of this code and no property states: `claim` counts the attempts
but nothing reads the count there, so attempts that die with their daemon are
not limited; an intent that found no run cannot tell that a later one was there; a stop
of the old run by a user between the boot and the recovery is overridden by the
recovery. Two cases in which a queued prompt is not protected are recorded in `loose` and
excepted by `PromptIsKept`: a boot whose `adopt_open_intents` cannot read the intents (L
`restart_hold.rs:71`; its doc says that the time until the recovery is then unprotected,
and the reconcile of the boot does revoke the prompt), and a `retry_loop` that finds
another recovery busy too often and lets go of the hold.

## 8. Proofs

Checked by TLAPS for every value of the constants, under the named assumptions of the
modules: bounds are numbers, `Nil` and `NoTurn` are nobody, and in `CargoShim`
the timing the watcher and the polls are designed for. TLC evaluates all of them in the runs.

*TurnLifecycle.* `TypesHold`: one step per action; the interesting parts are the counter
of put-backs (guarded by the limit) and what an exit read, which is a state the second
compare-and-set may use. `UntypedIsKnownHolds`: with `TypeOK` it is its own inductive
invariant. `NeverSentIsTrue` alone is not inductive: a section about to put a turn
back, or a write owed for it, could be of a turn that was typed. `UntypedIsKnown` says
what the daemon relies on at each such place: the turn a section is about to type has
not been typed; a section whose outcome is "nothing was typed", and an owed write that
says so, tell the truth; a queued or removed row was not typed and nothing is owed for
it. `NeverSentHolds`; and `GuardIsKept`, `Spec => Guard!Spec`: every step is a `Move`, a
`Type` or a stutter, from the two invariants above.

*The runs of a bot (TurnRuns_proofs).* `OneInFlightHolds`, `StopKillsNoTurnHolds`,
`RestartFindsNoRunHolds`, `PendingHasAWayOutHolds`, `UserGoesFirstHolds`. Their common
invariant is in two parts. `RunsPart`: at most one run is active, and a section that
stops works on that one, or on one an exit recorded meanwhile. `TurnsPart`: a section
that is about to claim or to insert found its run idle, and nothing but itself puts a
turn on it, although exits and withdrawals go on beside it; a pending result is
known to the section at work or owed; the flush holds the head of the queue.
`EndedStaysHolds` needs types only. `OwnedHolds` is `Spec => []EndedRunTurnIsOwned`, for
any number of runs and faults: an exit that ended a run picks its one turn
(`OneInFlightPerRun`), nothing new goes in flight on a run that is not running, and a stop
that records the end has closed the turn before (`StopKillsNoTurn`). Its invariant
`OwnedInv` adds what makes this inductive: a prompt in flight has a run that was started,
and a section that is about to put one in flight holds a run. What is neither closed nor
owed was then lost by one of the three steps that write `lostCloses`.

*HookInbox.* `TypesHold`, `DurableHolds`, `AppliedOnceHolds`, `HandedOnceHolds`. The
invariant adds to what the theorems say: a keyed event has one row (dedupe); the lines
of a replayed copy that were passed are in the inbox, so that the removal of the copy
loses nothing; a task has rows of no check and is idle when it has none; an event that
took effect is recognised by a second try (`Known`: by the stamp of its row or by its native
ids), unless it is a failure without a name. `InOrderHolds` needs one part more,
`OrderInv`: a task has the rows of its bot without a gap, so that what was written before
a row of it is in the same task or done. A round keeps it because a batch takes due rows
from the oldest on, and leaves out a bot that has a task and every row behind one in
backoff; and because
a task gives up all it has left when one row fails. `InboxIsALog` is the refinement of
EventLog; beside the other two invariants it needs `StampInv`: what is marked done, and what
a task is about to mark, was dealt with, and before what was dealt with everything is
marked done - so not even a failure that takes effect again comes after a later event.

*BuildScheduler, CargoShim.* Of the table alone, whoever calls: `SlotsTypesHold`,
`HeldWithinMaxHolds`, `QueueIsOrderedHolds` (the queue always has a first). Of the
composition: `ShimTypesHold`; `ShimImplementsSlots`, every step of wrappers, network and
daemon is a step of the table or a stutter, so that `ShimHoldsWithinMax`;
`RunsOnItsSlotHolds`. The last rests on `TimingAssumption` and on `Sound`: while cargo
runs, the deadline lies beyond the timer of the current call, and the lease in the table
lasts at least to the deadline, because the deadline counts from when the renewal was
sent and the lease from when it arrived.
`NoOvertakingHolds` rests on `RhythmAssumption` and on `RhythmInv`: for a wrapper whose
last poll was heard, the silence of its row and what is left of its call or its pause
stay together below `LiveWaiter`. So the daemon never takes it for absent, and only a
grant, which looks for somebody alive ahead, could go past it.

*MaintenanceGate.* `TypesHold`, `HolderKeepsWindowHolds`, `HeldIsApprovedHolds`,
`LeaseWithinApprovalHolds`, `RefusedHasNoWindowHolds`, `NoTypingInWindowHolds`. The invariant relates the fences that clients and releases
remember to the fence of the row: who remembers the current one was its owner; a
release of an older one that still has to consume an approval consumes the current
window's only if that approval opened two. This is where the fence is needed.

*RestartIntents.* `TypesHold`, `AgentsAreOwnedHolds`, `BroughtBackOnceHolds`. The
invariant is a conjunction of named parts: at most one intent is open (`IntentsInv`); the
agents are the active run's (`TableInv`); what the holder of the lock knows by the step it
has reached - a start finds no active run, a launch its own fresh row (`JobInv`); an
intent that brought the bot back left a later run behind, so that no verdict starts
another (`UpsInv`); only the recovery at work has the lock (`RecInv`).

*What a restart promises (RestartPromise_proofs)*, on top of that invariant.
`StoppedIsAccountedForHolds`: `StoppedIsAccountedFor` speaks of the newest intent for the
last run, so the proof must know that nothing else can be at work. `AccountInv` says so: an
open intent is the newest; the restart in hand (`InHand`) is that one, and stops the run
the bot had last; once a later run exists, a stop is not the doing of an older open
intent; and a handler that kills for another reason was asked to. Every end of an intent
is then a success, which leaves another run, or one that is told. `PromptIsKeptHolds`: the
orphan sweep and the exit revoke only without a hold, so that `HoldsInv` must say that
what the recovery owes keeps its hold. A boot that adopts none has put them all in
`loose`. A hold is let go by the worker that settles the intent
and no other (or by one that gives up waiting, which `PromptIsKept` excepts): one worker at a time has an intent in its hands, with the lock or without,
and what it claimed is running under the boot id of this daemon.

Only model-checked: the eight liveness properties (`EndedRunTurnCloses`, `OrphansLeave`,
`EveryEventIsHandled`, `WaiterIsServed`, `DeadSlotComesFree`, `QueuedGoesOut`,
`InheritedSettles`, `HoldsEnd`), which rest on fairness and are out of the prover's reach.

## 9. Where the code and its documentation disagree

Each run `f_*` states what a comment of the code says, and TLC shows a behaviour of the
model that violates it. `PROJECT.json` quotes the lines.

| run | what happens |
| --- | --- |
| `f_again` | a `StopFailure` without native ids ends a turn, and the daemon dies before the row is marked (or what follows the commit fails): the row is processed again, is not recognised, and fails the turn that is in flight by then. The duplicate check says that this does not happen; it compares native ids, which such an event lacks, and the id of the row is for replies only |
| `f_external` | a turn of the agent's own is inserted in flight after an exit ended its run and found nothing to close; nobody owes its close (the INSERT of a prompt is guarded against this, that of `begin_external_turn` is not) |
| `f_deadline` | the answer to an acquire is lost; the next one repeats the old lease, the wrapper counts its deadline from the second request, its renewals fail, and it builds beside the next holder |
| `f_twice` | the daemon dies between the take-over of an expired lease and the consumption of its approval: the approval opens a second window |
| `f_done` | a restart whose new run was inserted but whose agent never came up is called done by the recovery; nobody is told |

How a close is lost (`CloseWasLost`), the first within the bounds of `closes`, the others beyond:

* *One run, one failed read.* An exit has recorded the end of the run; its read of the turn
  in flight fails. The log says that the turn is owed (L `queue.rs:919`, and so does the
  comment at 914), but the ledger has no entry, and nothing retries the read.
* *Two runs, two failed writes.* An exit of the first run picks the turn in flight; before
  it closes it (it captures the pane first) a maintenance window puts the turn back, the
  bot is started again and the turn claimed. The second run ends, its exit picks the turn
  too, fails to close it and owes the close; then the first exit fails to close it and
  records its own. The ledger keeps one entry for a turn (`record` in L
  `interruption.rs:109`; the comment at line 98 promises that the later one does not
  overwrite the earlier, but has two turns in mind), and the one that is left
  names a run the turn is no longer on, so that its retry finds nothing to do.
* *One run, four failed writes.* A stop cannot record its end and schedules the retry
  `finish_stop`; a second stop cannot close the turn, and its undo makes the run
  running; a prompt goes in flight; a third stop can neither close it nor undo itself. The
  retry of the first finds the run stopping and records it stopped, with the turn in
  flight. (Retries wait up to two minutes, L `run_state.rs:152`.)

The hazards name further places where the model shows that no property holds, and
where none is claimed: an exit that picks a turn which is put back and claimed for the
next run before the exit closes it; an orphan sweep whose check is stale when it revokes;
a second stop that revives the run of a dead agent, an exit that loses both of its
compare-and-sets, and a scheduled reconcile that is dropped as a duplicate (a later
reconcile corrects these three, if one comes).

The exceptions that properties make for what is told here are stated in the properties:
`AppliedOnce` and `KeepsLog` for a failure without native ids, `EndedRunTurnIsOwned` and
`EndedRunTurnCloses` for a close that was lost, `PromptIsKept` for `loose` (section 7),
`RunsOnItsSlot` for a repeated token, and `RefusedHasNoWindow` and `HeldIsApproved` for
an approval that opened two windows. A resend by the stall watchdog reads no gate of the
window (L `poller.rs:1058`), so `NoTypingInWindow` is about the first typing.

## 10. Not modelled

* **Remote spool** (B `hosts.rs`, `hookrecv.rs:2378`): shell scripts over ssh that outlive
  their timeouts. Planned; the local spool has the same shape without the connection.
* **Attribution of answers**: native ids and generations in a large function with many
  heuristics. HookInbox takes "took effect on some turn" as one step, and keeps of the native
  ids only whether an event has them and a turn bears them.
* **Interrupt, send-now, abandon**: turns in flight without a run.
* **Supervisor** (assignments, incidents, roles), **schedules**, **API bots**: executors on
  top of turns; planned in part. Creation, deletion and promotion have intents of their own.
* **Screen reading**, the gates of the agents' composers: heuristics about text; their
  verdicts are nondeterministic.
* Drafts, order, read marks, sharing, web, desktop, packaging: no protocol, or no state of
  the daemon. By size most of the repository is here: views, adapters and tests.

## 11. How to run

    tlc -workers 2 -config delivery.cfg MCTurnLifecycle
    tlc -workers 2 -config inbox.cfg MCHookInbox
    tlc -workers 2 -config builds.cfg MCCargoShim
    tlc -workers 2 -config leases.cfg MCMaintenanceGate
    tlc -workers 2 -config recovery.cfg MCRestartIntents
    tlapm RestartIntents_proofs.tla

`closes`, `inbox` and `recovery` take about two minutes, the others one or less; the proofs of a
module take a few minutes. The definitions marked "A mistake the checks must find" are
plausible bugs; put in the place of the definition they follow or precede, they make a run
fail (`mutants` in `PROJECT.json`).
