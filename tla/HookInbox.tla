----------------------------- MODULE HookInbox ------------------------------
(***************************************************************************)
(* The durable inbox of hook events (crates/am-base/src/hook_inbox.rs), the *)
(* worker that empties it (daemon/src/runners/hook_inbox.rs), and the file *)
(* the sender falls back to when the daemon does not answer (replay_spool  *)
(* in hookrecv.rs).                                                        *)
(*                                                                         *)
(* An event is sent once, but may be written twice: when the answer is     *)
(* lost, and when the daemon dies between the commit and the removal of    *)
(* the spooled copy.  A row may be processed twice: when the daemon dies   *)
(* between the commit of the turn and the mark, or what follows the commit *)
(* fails.  A reply is then known by its row, which its turn bears; a       *)
(* failure of a turn only by native ids, which not every one has.  Rows of *)
(* one bot are processed one by one in the order they were written; an     *)
(* event that fails holds up the later ones until it is due again.         *)
(***************************************************************************)
EXTENDS Naturals, Sequences, FiniteSets, FiniteSetsExt

CONSTANTS
    Events, Bots,
    BotOf,       \* the bot an event is of
    Keyed,       \* events that carry the sender's time: they have a dedupe key
    Checks,      \* claim-collision checks: they take neither task nor lock
    Failures,    \* StopFailures: the agent reports that its turn failed
    Identified,  \* events that carry native ids (session, turn), which no
                 \* turn of another bot bears
    BatchSize,   \* BATCH: rows read at a time
    MaxTasks,    \* MAX_BOT_TASKS: bots worked on at a time
    MaxChecks,   \* MAX_CLAIM_CHECKS: checks asked at a time
    MaxFaults    \* how many calls may fail, answers get lost, crashes happen (bound)

ASSUME InboxAssumption ==
    /\ BotOf \in [Events -> Bots]
    /\ {Keyed, Checks, Failures, Identified} \subseteq SUBSET Events
    /\ BatchSize \in Nat \ {0} /\ MaxTasks \in Nat \ {0}
    /\ MaxChecks \in Nat \ {0} /\ MaxFaults \in Nat

VARIABLES
    unsent,      \* events that did not happen yet
    \* table hook_events in the order of its rowid; a row is due (no backoff,
    \* or it is over), in backoff, or done (processed_at is set)
    rows,
    \* hook-spool.jsonl, and hook-spool.jsonl.replaying, of every bot
    spool, staging,
    reading,     \* the line of staging to accept next, 0 when nobody replays
    \* the task of every bot: the rows it still has, and what it does next
    queue, step,
    lane,        \* checks handed to the lane for them: [row, step]
    broken,      \* drain_once met an error and starts nothing more
    stamped,     \* rows that a turn bears as its source_event_id
    claimed,     \* events whose native ids a turn bears
    effects,     \* history: the rows that took effect on turns, in that order
    settled,     \* history: the rows that took effect or were found to have none
    faults       \* what went wrong so far (bound)

marks == <<stamped, claimed, effects, settled>>
disk == <<unsent, rows, spool, staging, marks>>
worker == <<queue, step, lane, broken>>
vars == <<disk, reading, worker, faults>>

Row == [ev : Events, at : {"due", "backoff", "done"}]
Steps == {"process", "done", "failed"}

TypeOK ==
    /\ unsent \subseteq Events
    /\ rows \in Seq(Row)
    /\ spool \in [Bots -> Seq(Events)] /\ staging \in [Bots -> Seq(Events)]
    /\ reading \in [Bots -> Nat]
    /\ queue \in [Bots -> SUBSET DOMAIN rows]
    /\ step \in [Bots -> Steps \cup {"idle"}]
    /\ \A b \in Bots : step[b] = "idle" <=> queue[b] = {}
    /\ lane \subseteq [row : DOMAIN rows, step : Steps]
    /\ broken \in BOOLEAN
    /\ stamped \subseteq DOMAIN rows /\ settled \subseteq DOMAIN rows
    /\ claimed \subseteq Identified
    /\ effects \in Seq(DOMAIN rows)
    /\ faults \in 0 .. MaxFaults

Init ==
    /\ unsent = Events
    /\ rows = <<>>
    /\ spool = [b \in Bots |-> <<>>] /\ staging = [b \in Bots |-> <<>>]
    /\ reading = [b \in Bots |-> 0]
    /\ queue = [b \in Bots |-> {}] /\ step = [b \in Bots |-> "idle"]
    /\ lane = {} /\ broken = FALSE
    /\ stamped = {} /\ claimed = {} /\ effects = <<>> /\ settled = {}
    /\ faults = 0

Fault == faults < MaxFaults /\ faults' = faults + 1
NoFault == UNCHANGED faults

BotOfRow(i) == BotOf[rows[i].ev]
IsCheck(i) == rows[i].ev \in Checks
SetRow(i, at) == rows' = [rows EXCEPT ![i].at = at]

----------------------------------------------------------------------------
(* Getting into the inbox.                                                 *)

(* accept: INSERT OR IGNORE under the unique index on (bot_id, dedupe_key); *)
(* an event without a key always gets a row.                               *)
Accept(e) ==
    rows' = IF e \in Keyed /\ \E i \in DOMAIN rows : rows[i].ev = e
              THEN rows ELSE Append(rows, [ev |-> e, at |-> "due"])

(* hook_cmd posts the event.  The row is committed before the answer; an   *)
(* answer other than 200, or none, puts the event into the spool.          *)
Post(e) ==
    /\ e \in unsent
    /\ unsent' = unsent \ {e}
    /\ \/ Accept(e) /\ NoFault /\ UNCHANGED spool
       \/ /\ Fault /\ spool' = [spool EXCEPT ![BotOf[e]] = Append(@, e)]
          /\ Accept(e) \/ UNCHANGED rows
    /\ UNCHANGED <<staging, reading, worker, marks>>

(* A mistake the checks must find: a copy left behind by a crash is taken  *)
(* up only when something new was spooled.                                 *)
ReplayFoldNewOnly(b) ==
    /\ reading[b] = 0 /\ spool[b] # <<>>
    /\ staging' = [staging EXCEPT ![b] = @ \o spool[b]]
    /\ spool' = [spool EXCEPT ![b] = <<>>]
    /\ reading' = [reading EXCEPT ![b] = 1]
    /\ UNCHANGED <<unsent, rows, marks, worker, faults>>

(* replay_spool takes the bot lock, renames the spool and adds it to what  *)
(* an earlier replay did not finish.                                       *)
ReplayFold(b) ==
    /\ reading[b] = 0 /\ (spool[b] # <<>> \/ staging[b] # <<>>)
    /\ staging' = [staging EXCEPT ![b] = @ \o spool[b]]
    /\ spool' = [spool EXCEPT ![b] = <<>>]
    /\ reading' = [reading EXCEPT ![b] = 1]
    /\ UNCHANGED <<unsent, rows, marks, worker, faults>>

(* A mistake the checks must find: a line that cannot be written is passed *)
(* over.                                                                   *)
ReplayLineOrSkip(b) ==
    /\ reading[b] \in DOMAIN staging[b]
    /\ \/ Accept(staging[b][reading[b]]) /\ NoFault
       \/ Fault /\ UNCHANGED rows
    /\ reading' = [reading EXCEPT ![b] = @ + 1]
    /\ UNCHANGED <<unsent, spool, staging, marks, worker>>

(* Every line is accepted in turn; one that cannot be written ends the     *)
(* replay, which will begin again with the first line.                     *)
ReplayLine(b) ==
    /\ reading[b] \in DOMAIN staging[b]
    /\ \/ /\ Accept(staging[b][reading[b]]) /\ NoFault
          /\ reading' = [reading EXCEPT ![b] = @ + 1]
       \/ /\ Fault /\ UNCHANGED rows
          /\ reading' = [reading EXCEPT ![b] = 0]
    /\ UNCHANGED <<unsent, spool, staging, marks, worker>>

(* All lines are in the inbox: the copy is removed (or stays: that error   *)
(* is ignored).                                                            *)
ReplayRemove(b) ==
    /\ reading[b] > Len(staging[b])
    /\ \/ staging' = [staging EXCEPT ![b] = <<>>] /\ NoFault
       \/ UNCHANGED staging /\ Fault
    /\ reading' = [reading EXCEPT ![b] = 0]
    /\ UNCHANGED <<unsent, rows, spool, marks, worker>>

----------------------------------------------------------------------------
(* The worker: drain_once, one task per bot and one lane for checks.       *)

Busy == {b \in Bots : queue[b] # {}}
InLane == {l.row : l \in lane}

(* pending_excluding: due rows in the order of rowid, but none behind an   *)
(* earlier row of its bot in backoff, none of a bot that has a task, and   *)
(* none that is in the lane.                                               *)
Pickable(laned) ==
    {i \in DOMAIN rows :
        /\ rows[i].at = "due" /\ BotOfRow(i) \notin Busy /\ i \notin laned
        /\ \A j \in 1 .. i - 1 : BotOfRow(j) = BotOfRow(i) => rows[j].at # "backoff"}

Batch(laned) ==
    {i \in Pickable(laned) : Cardinality({j \in Pickable(laned) : j <= i}) <= BatchSize}

(* start_tasks: checks go to the lane, the rest to a task for their bot,   *)
(* bots in the order of their first row, while there are tasks left.       *)
StartTasks(batch) ==
    LET mine(b) == {i \in batch : BotOfRow(i) = b /\ ~IsCheck(i)}
        waiting == {b \in Bots : mine(b) # {}}
        before(b) == {c \in waiting : Min(mine(c)) <= Min(mine(b))}
        started == {b \in waiting : Cardinality(Busy) + Cardinality(before(b)) <= MaxTasks}
    IN  /\ batch # {}
        /\ queue' = [b \in Bots |-> IF b \in started THEN mine(b) ELSE queue[b]]
        /\ step' = [b \in Bots |-> IF b \in started THEN "process" ELSE step[b]]
        /\ lane' = lane \cup {[row |-> i, step |-> "process"] : i \in {j \in batch : IsCheck(j)}}
        /\ UNCHANGED <<disk, reading, broken, faults>>

(* A mistake the checks must find: checks on their way are read again.     *)
ScanLaneAgain == ~broken /\ StartTasks(Batch({l.row : l \in {m \in lane : m.step = "process"}}))

Scan == ~broken /\ StartTasks(Batch(InLane))

(* The rows cannot be read.                                                *)
ScanFails ==
    /\ ~broken /\ Fault
    /\ broken' = TRUE
    /\ UNCHANGED <<disk, reading, queue, step, lane>>

(* After an error what runs is awaited; then the next round begins.        *)
NextRound ==
    /\ broken /\ Busy = {} /\ lane = {}
    /\ broken' = FALSE
    /\ UNCHANGED <<disk, reading, queue, step, lane, faults>>

(* What process_hook finds of a row that it processed before: its id       *)
(* (turn_of_event, for replies only), or the event's native ids.           *)
Recognised(i) == i \in stamped \/ rows[i].ev \in claimed

(* A mistake the checks must find: a turn does not bear its source event.  *)
TakeEffectAgain(i) ==
    /\ ~Recognised(i)
    /\ effects' = Append(effects, i)
    /\ UNCHANGED <<stamped, claimed>>

(* A turn ends with the event.  In the same transaction it gets the native *)
(* ids the event carries (a reply that comes to a turn which ended         *)
(* meanwhile does not leave them), and the id of the row, if the event is  *)
(* a reply: a StopFailure leaves no id of its row.                         *)
TakeEffect(i) ==
    LET ids == {rows[i].ev} \cap Identified
    IN  /\ ~Recognised(i)
        /\ effects' = Append(effects, i)
        /\ \/ claimed' = claimed \cup ids
           \/ claimed' = claimed /\ rows[i].ev \notin Failures
        /\ stamped' = IF rows[i].ev \in Failures THEN stamped ELSE stamped \cup {i}

(* The event takes effect, or has none: it is recognised, it is of an      *)
(* earlier run, there is no turn it could end, or another path ended it.   *)
Handle(i) ==
    /\ TakeEffect(i) \/ UNCHANGED <<stamped, claimed, effects>>
    /\ settled' = settled \cup {i}

(* A mistake the checks must find: an event that failed is not tried again. *)
ProcessOrPass(b) ==
    /\ step[b] = "process" /\ reading[b] = 0
    /\ \/ Handle(Min(queue[b])) /\ NoFault
       \/ Fault /\ (Handle(Min(queue[b])) \/ UNCHANGED marks)
    /\ step' = [step EXCEPT ![b] = "done"]
    /\ UNCHANGED <<unsent, rows, spool, staging, reading, queue, lane, broken>>

(* process_hook, under the bot lock: it may fail before the commit, and    *)
(* after it (what follows the end of a turn).                              *)
Process(b) ==
    /\ step[b] = "process" /\ reading[b] = 0
    /\ \/ /\ Handle(Min(queue[b])) /\ NoFault
          /\ step' = [step EXCEPT ![b] = "done"]
       \/ /\ Fault /\ (Handle(Min(queue[b])) \/ UNCHANGED marks)
          /\ step' = [step EXCEPT ![b] = "failed"]
    /\ UNCHANGED <<unsent, rows, spool, staging, reading, queue, lane, broken>>

EndTask(b) ==
    /\ queue' = [queue EXCEPT ![b] = {}]
    /\ step' = [step EXCEPT ![b] = "idle"]

(* A mistake the checks must find: a task without rows left stays.         *)
MarkDoneStays(b) ==
    /\ step[b] = "done"
    /\ LET i == Min(queue[b]) IN
          /\ SetRow(i, "done") /\ NoFault
          /\ queue' = [queue EXCEPT ![b] = @ \ {i}]
          /\ step' = [step EXCEPT ![b] = "process"]
    /\ UNCHANGED <<unsent, spool, staging, reading, marks, lane, broken>>

(* mark_done, and on to the next row; a write that fails ends the task.    *)
MarkDone(b) ==
    LET i == Min(queue[b])
        rest == queue[b] \ {i}
    IN  /\ step[b] = "done"
        /\ \/ /\ SetRow(i, "done") /\ NoFault
              /\ queue' = [queue EXCEPT ![b] = rest]
              /\ step' = [step EXCEPT ![b] = IF rest = {} THEN "idle" ELSE "process"]
              /\ UNCHANGED broken
           \/ /\ Fault /\ EndTask(b) /\ broken' = TRUE
              /\ UNCHANGED rows
        /\ UNCHANGED <<unsent, spool, staging, reading, marks, lane>>

(* A mistake the checks must find: the task goes on with the next row.     *)
MarkFailedGoesOn(b) ==
    LET i == Min(queue[b])
        rest == queue[b] \ {i}
    IN  /\ step[b] = "failed" /\ SetRow(i, "backoff")
        /\ queue' = [queue EXCEPT ![b] = rest]
        /\ step' = [step EXCEPT ![b] = IF rest = {} THEN "idle" ELSE "process"]
        /\ UNCHANGED <<unsent, spool, staging, reading, marks, lane, broken, faults>>

(* mark_failed: the row is in backoff, and the task gives up the rest.     *)
MarkFailed(b) ==
    /\ step[b] = "failed"
    /\ \/ SetRow(Min(queue[b]), "backoff") /\ NoFault /\ UNCHANGED broken
       \/ UNCHANGED rows /\ Fault /\ broken' = TRUE
    /\ EndTask(b)
    /\ UNCHANGED <<unsent, spool, staging, reading, marks, lane>>

(* The lane: no lock; as many at a time as there are permits.  A check     *)
(* has no effect on turns.                                                 *)
Check(l) ==
    /\ l.step = "process"
    /\ Cardinality({m \in lane : m.step # "process"}) < MaxChecks
    /\ \/ lane' = (lane \ {l}) \cup {[l EXCEPT !.step = "done"]} /\ NoFault
       \/ lane' = (lane \ {l}) \cup {[l EXCEPT !.step = "failed"]} /\ Fault
    /\ UNCHANGED <<disk, reading, queue, step, broken>>

CheckMark(l) ==
    /\ l.step # "process"
    /\ \/ /\ SetRow(l.row, IF l.step = "done" THEN "done" ELSE "backoff") /\ NoFault
          /\ UNCHANGED broken
       \/ UNCHANGED rows /\ Fault /\ broken' = TRUE
    /\ lane' = lane \ {l}
    /\ UNCHANGED <<unsent, spool, staging, reading, marks, queue, step>>

(* next_attempt_at is over.                                                *)
BackoffEnds(i) ==
    /\ rows[i].at = "backoff"
    /\ SetRow(i, "due")
    /\ UNCHANGED <<unsent, spool, staging, reading, marks, worker, faults>>

(* The daemon dies and is started again: what is on disk remains.          *)
Crash ==
    /\ Fault
    /\ reading' = [b \in Bots |-> 0]
    /\ queue' = [b \in Bots |-> {}] /\ step' = [b \in Bots |-> "idle"]
    /\ lane' = {} /\ broken' = FALSE
    /\ UNCHANGED disk

----------------------------------------------------------------------------
(* The specification.                                                      *)

Replay(b) == ReplayFold(b) \/ ReplayLine(b) \/ ReplayRemove(b)
Task(b) == Process(b) \/ MarkDone(b) \/ MarkFailed(b)
Lane(i) == \E l \in lane : l.row = i /\ (Check(l) \/ CheckMark(l))

Next ==
    \/ \E e \in Events : Post(e)
    \/ \E b \in Bots : Replay(b) \/ Task(b)
    \/ Scan \/ ScanFails \/ NextRound \/ Crash
    \/ \E i \in DOMAIN rows : Lane(i) \/ BackoffEnds(i)

Spec == Init /\ [][Next]_vars

(* The worker and the replay of spools are loops, the tasks run on their   *)
(* own, and a backoff is a time (rows are numbered up to a bound here).    *)
Fairness(maxRow) ==
    /\ WF_vars(Scan \/ NextRound)
    /\ \A b \in Bots : WF_vars(Replay(b)) /\ WF_vars(Task(b))
    /\ \A i \in 1 .. maxRow :
          WF_vars(i \in DOMAIN rows /\ (Lane(i) \/ BackoffEnds(i)))

----------------------------------------------------------------------------
(* What should hold.                                                       *)

Held(e) ==
    \/ e \in unsent
    \/ \E b \in Bots : \E k \in DOMAIN spool[b] : spool[b][k] = e
    \/ \E b \in Bots : \E k \in DOMAIN staging[b] : staging[b][k] = e

InInbox(e) == \E i \in DOMAIN rows : rows[i].ev = e

(* A 200, and the removal of a spooled copy, mean that the event is in the *)
(* inbox: what its sender and the spool no longer hold has a row (accept   *)
(* commits before receive answers and before replay_spool removes).        *)
Durable == \A e \in Events : Held(e) \/ InInbox(e)

TakesEffectOnce(e) ==
    \A k, l \in DOMAIN effects :
        rows[effects[k]].ev = e /\ rows[effects[l]].ev = e => k = l

(* An event that has a dedupe key takes effect on turns at most once,      *)
(* though it may be written twice and its row processed twice (dedupe_key  *)
(* in accept; source_event_id for replies, native ids for failures).  A    *)
(* failure without native ids has nothing it could be recognised by.       *)
Nameless == Failures \ Identified

AppliedOnce == \A e \in Keyed \ Nameless : TakesEffectOnce(e)

(* A failure that is sent once ends one turn, though it is tried again or  *)
(* replayed: so says the comment of the duplicate check in the             *)
(* StopFailure branch of hookrecv.rs.                                      *)
FailureAppliedOnce == \A e \in Keyed \cap Failures : TakesEffectOnce(e)

(* No row is worked on twice at a time: drain_once leaves out the bots     *)
(* that have a task and the checks that are on their way.                  *)
HandedOnce ==
    /\ \A l, m \in lane : l.row = m.row => l = m
    /\ \A b \in Bots : queue[b] \cap InLane = {}

(* The events of a bot take effect in the order they were written, also    *)
(* around failures, backoffs and crashes (drain_bot stops at a failure,    *)
(* pending_excluding picks nothing behind a backoff).  Checks stand apart. *)
InOrder ==
    [][\A b \in Bots :
          Process(b) /\ effects' # effects =>
              \A j \in 1 .. Min(queue[b]) - 1 :
                  BotOfRow(j) = b /\ ~IsCheck(j) => rows[j].at = "done"]_vars

(* The inbox is the log EventLog describes: whatever is lost, repeated or  *)
(* tried again, what a bot's agent reported takes effect in order and once *)
(* (a failure without native ids perhaps again, but not when a later event *)
(* was dealt with), and a row that is marked done was not passed over      *)
(* (accept, drain_bot, stamp_source_event, seen_turn).                     *)
Accepted == [i \in DOMAIN rows |-> rows[i].ev]
Log == INSTANCE EventLog WITH log <- Accepted

KeepsLog == Log!Spec

(* What was sent is processed in the end.                                  *)
EveryEventIsHandled ==
    \A e \in Events :
        e \notin unsent ~> \E i \in DOMAIN rows : rows[i].ev = e /\ rows[i].at = "done"

=============================================================================
