----------------------------- MODULE RestartIntents -----------------------------
(***************************************************************************)
(* The durable intent of a restart and its recovery after a crash, for one *)
(* bot (am-lifecycle/lifecycle/start.rs, stop.rs, restart_hold.rs;         *)
(* daemon/intents.rs, runners/restart_intents.rs, reconcile.rs).           *)
(*                                                                         *)
(* A restart stops the run and starts another; the daemon may die between  *)
(* any two steps.  The tables runs and intents and the agents in herdr     *)
(* survive, the bot's lock, the workers and the holds do not.  The bot is  *)
(* never deleted, its payload decodes, and the rotation of a credential,   *)
(* which uses the same intents, is left out.                               *)
(***************************************************************************)
EXTENDS Naturals, Sequences, FiniteSets

CONSTANTS
    Workers,      \* recoveries of one daemon: at boot, at a reconnect, their retries
    MaxAttempts,  \* intents::MAX_ATTEMPTS
    MaxOps,       \* what the user asks for, and reconnects (bound)
    MaxFaults     \* crashes of the daemon, failed writes, deadlines that pass (bound)

None == "none"
User == "user"

ASSUME IntentsAssumption ==
    /\ None \notin Workers /\ User \notin Workers
    /\ MaxAttempts \in Nat \ {0} /\ {MaxOps, MaxFaults} \subseteq Nat

VARIABLES
    runs,      \* the states of the bot's runs, in rowid order
    alive,     \* the runs whose agent lives in herdr
    intents,   \* the table intents, in order of creation
    boot,      \* boot_id
    serving,   \* reconciled, startup_ready
    due,       \* recover_host has still to run
    job,       \* who holds the bot's lock, and how far it is
    rec,       \* every worker: where it is in drive_once, and on which intent
    holds,     \* adopted(): intents of an earlier daemon that keep the queue
    prompt,    \* a queued prompt
    asked,     \* history: the runs a user asked to stop
    came,      \* history: the runs whose agent came up
    loose,     \* history: open intents this daemon did not adopt at boot, or let go of
    ops, faults

table == <<runs, alive>>
past == <<asked, came, loose>>
vars == <<runs, alive, intents, boot, serving, due, job, rec, holds, prompt, asked, came, loose,
          ops, faults>>

Live == {"starting", "running", "stopping"}
States == Live \cup {"stopped", "exited"}
OpenStatus == {"pending", "running"}
Starting == {"start", "launch", "record"}
Steps == {"stop", "kill", "commit", "label", "giveup", "done", "abandoned", "failed"} \cup Starting

Intent == [status : OpenStatus \cup {"done", "abandoned", "failed"}, from : Nat, owner : 0 .. MaxFaults + 1,
           attempts : Nat, born : 1 .. MaxFaults + 1, told : BOOLEAN, ups : Nat]
Job == [who : Workers \cup {User, None}, kind : {"restart", "start", "stop", None},
        step : Steps \cup {None}, id : Nat, from : Nat]
NoJob == [who |-> None, kind |-> None, step |-> None, id |-> 0, from |-> 0]
NoRec == [at |-> "idle", id |-> 0]

Last == Len(runs)
ActiveIn(rs) == IF rs # <<>> /\ rs[Len(rs)] \in Live THEN Len(rs) ELSE 0
Active == ActiveIn(runs)
Free == job.who = None
Opens(ts) == {i \in DOMAIN ts : ts[i].status \in OpenStatus}
Open == Opens(intents)
Ended(i, status, told) ==
    IF i \in Open THEN [intents EXCEPT ![i].status = status, ![i].told = told] ELSE intents

\* restart_hold::in_progress, with the holds hs and the lock's job j
InProgress(j, hs) ==
    \/ hs # {}
    \/ j.kind = "restart" /\ j.step \in Starting \cup (IF j.who = User THEN {"stop", "kill", "commit"} ELSE {})

\* revoke_orphaned_queued_turns
Revoked(rs, j, hs) ==
    IF prompt = "queued" /\ ActiveIn(rs) = 0 /\ ~InProgress(j, hs) THEN "revoked" ELSE prompt

Init ==
    /\ runs = <<"running">> /\ alive = {1} /\ came = {1}
    /\ intents = <<>> /\ boot = 1 /\ serving = TRUE /\ due = FALSE
    /\ job = NoJob /\ rec = [w \in Workers |-> NoRec] /\ holds = {} /\ prompt = None
    /\ asked = {} /\ loose = {} /\ ops = 0 /\ faults = 0

-----------------------------------------------------------------------------
(* What a user asks for. *)

Fresh(from) == [status |-> "pending", from |-> from, owner |-> 0, attempts |-> 0, born |-> boot,
                told |-> FALSE, ups |-> 0]

\* a mistake the checks must find: nothing is superseded
PreparedAnew(from) == Append(intents, Fresh(from))

\* prepare_restart: a dormant intent is superseded, one in recovery is refreshed
Prepared(from) ==
    IF \E i \in Open : intents[i].status = "running" /\ intents[i].owner = boot
    THEN [i \in DOMAIN intents |->
             IF i \in Open THEN [intents[i] EXCEPT !.from = from, !.ups = 0] ELSE intents[i]]
    ELSE Append([i \in DOMAIN intents |->
             IF i \in Open THEN [intents[i] EXCEPT !.status = "abandoned"] ELSE intents[i]], Fresh(from))

UserOp == serving /\ Free /\ ops < MaxOps /\ ops' = ops + 1

RestartBot ==
    /\ UserOp
    /\ intents' = Prepared(Active)
    /\ job' = [who |-> User, kind |-> "restart", step |-> "stop",
               id |-> CHOOSE i \in Opens(intents') : TRUE, from |-> Active]
    /\ UNCHANGED <<table, boot, serving, due, rec, holds, prompt, past, faults>>

StopBot ==
    /\ UserOp /\ Active # 0
    /\ job' = [NoJob EXCEPT !.who = User, !.kind = "stop", !.step = "stop"]
    /\ UNCHANGED <<table, intents, boot, serving, due, rec, holds, prompt, past, faults>>

StartBot ==
    /\ UserOp /\ Active = 0
    /\ job' = [NoJob EXCEPT !.who = User, !.kind = "start", !.step = "start"]
    /\ UNCHANGED <<table, intents, boot, serving, due, rec, holds, prompt, past, faults>>

QueuePrompt ==
    /\ serving /\ prompt = None /\ Active # 0 /\ runs[Last] = "running"
    /\ prompt' = "queued"
    /\ UNCHANGED <<table, intents, boot, serving, due, job, rec, holds, past, ops, faults>>

-----------------------------------------------------------------------------
(* The steps of the lock's holder. *)

Step(s) == job' = [job EXCEPT !.step = s]
Leave == job' = NoJob
AfterStop == IF job.kind = "stop" THEN NoJob
             ELSE [job EXCEPT !.step = IF job.who = User THEN "start" ELSE "label"]
SameDaemon == UNCHANGED <<intents, boot, serving, due, rec, holds, loose, ops>>

\* stop: "stopping" is recorded before anything is touched; a host out of reach touches nothing
BeginStop ==
    /\ job.step = "stop"
    /\ \/ Active = 0 /\ job' = AfterStop /\ UNCHANGED <<runs, asked>>
       \/ Active # 0 /\ runs' = [runs EXCEPT ![Last] = "stopping"] /\ Step("kill")
          /\ asked' = IF job.kind = "stop" THEN asked \cup {Last} ELSE asked \ {Last}
       \/ Active # 0 /\ (IF job.kind = "stop" THEN Leave ELSE Step("failed")) /\ UNCHANGED <<runs, asked>>
       \/ Active # 0 /\ job.kind = "restart" /\ job.who = User /\ Step("abandoned")
          /\ UNCHANGED <<runs, asked>>
    /\ SameDaemon /\ UNCHANGED <<alive, prompt, came, faults>>

\* ctrl+c and the wait: the agent is gone, or still there, or nobody can tell
UnconfirmedStopped == AfterStop    \* a mistake the checks must find
Unconfirmed == IF job.kind = "stop" THEN NoJob ELSE [job EXCEPT !.step = "failed"]
Kill ==
    /\ job.step = "kill"
    /\ \/ alive' = alive \ {Last} /\ Step("commit") /\ UNCHANGED runs
       \/ Last \in alive /\ job' = Unconfirmed /\ UNCHANGED alive
          /\ runs' = [runs EXCEPT ![Last] = IF @ = "stopping" THEN "running" ELSE @]
       \/ alive' \in {alive, alive \ {Last}} /\ job' = Unconfirmed /\ UNCHANGED runs
    /\ SameDaemon /\ UNCHANGED <<prompt, asked, came, faults>>

\* commit_stopped: only a user's stop relabels a run the pane's exit ended first
CommitStopped ==
    /\ job.step = "commit"
    /\ runs' = [runs EXCEPT ![Last] = IF @ = "stopping" \/ job.kind = "stop" THEN "stopped" ELSE @]
    /\ job' = AfterStop
    /\ prompt' = IF runs[Last] = "stopping" THEN Revoked(runs', job, holds) ELSE prompt
    /\ SameDaemon /\ UNCHANGED <<alive, asked, came, faults>>

\* left_down_by_restart in the recovery: it goes on, or the write fails and so does the attempt
RelabelThenStart ==
    /\ job.step = "label"
    /\ \/ runs' = (IF job.from # 0 /\ runs[job.from] = "stopped"
                   THEN [runs EXCEPT ![job.from] = "exited"] ELSE runs)
          /\ Step("start") /\ UNCHANGED faults
       \/ faults < MaxFaults /\ faults' = faults + 1 /\ Step("failed") /\ UNCHANGED runs
    /\ SameDaemon /\ UNCHANGED <<alive, prompt, asked, came>>

\* start_bot_locked: refused before the run is inserted, or inserted
Failed == [job EXCEPT !.step = IF job.who = User THEN "giveup" ELSE "failed"]
StartFails == job' = IF job.kind = "start" THEN NoJob ELSE Failed
InsertRun ==
    /\ job.step = "start"
    /\ \/ runs' = Append(runs, "starting") /\ Step("launch")
       \/ StartFails /\ UNCHANGED runs
    /\ SameDaemon /\ UNCHANGED <<alive, prompt, asked, came, faults>>

\* start_inner: the agent is up, or its pane is closed again and the row says exited
Launch ==
    /\ job.step = "launch"
    /\ \/ /\ alive' = alive \cup {Last} /\ came' = came \cup {Last}
          /\ Step("record") /\ UNCHANGED runs
          /\ intents' = IF job.id = 0 THEN intents ELSE [intents EXCEPT ![job.id].ups = @ + 1]
       \/ /\ runs' = [runs EXCEPT ![Last] = "exited"]
          /\ StartFails /\ UNCHANGED <<alive, came, intents>>
    /\ UNCHANGED <<boot, serving, due, rec, holds, loose, ops, prompt, asked, faults>>

\* the agent is up: running is recorded, or owed, or the pane's exit ended the run first
RecordRunning ==
    /\ job.step = "record"
    /\ IF runs[Last] = "starting"
       THEN /\ IF job.kind = "start" THEN Leave ELSE Step("done")
            /\ \/ runs' = [runs EXCEPT ![Last] = "running"] /\ UNCHANGED faults
               \/ faults < MaxFaults /\ faults' = faults + 1 /\ UNCHANGED runs
       ELSE StartFails /\ UNCHANGED <<runs, faults>>
    /\ SameDaemon /\ UNCHANGED <<alive, prompt, asked, came>>

\* a restart that did not bring the bot back: left_down_by_restart, and its queue is nobody's
GiveUp ==
    /\ job.step = "giveup"
    /\ runs' = IF job.from # 0 /\ runs[job.from] = "stopped"
               THEN [runs EXCEPT ![job.from] = "exited"] ELSE runs
    /\ prompt' = Revoked(runs', job, holds)
    /\ Step("failed")
    /\ SameDaemon /\ UNCHANGED <<alive, asked, came, faults>>

\* settle_restart_intent: a failure was the caller's to see; a write that fails leaves it open
SettleRestart ==
    /\ job.who = User /\ job.step \in {"done", "abandoned", "failed"}
    /\ Leave
    /\ \/ intents' = Ended(job.id, job.step, job.step # "done") /\ UNCHANGED faults
       \/ faults < MaxFaults /\ faults' = faults + 1 /\ UNCHANGED intents
    /\ UNCHANGED <<table, boot, serving, due, rec, holds, prompt, past, ops>>

UserOps == RestartBot \/ StopBot \/ StartBot \/ QueuePrompt
JobStep == BeginStop \/ Kill \/ CommitStopped \/ RelabelThenStart \/ InsertRun \/ Launch
           \/ RecordRunning \/ GiveUp \/ SettleRestart

-----------------------------------------------------------------------------
(* What happens to the agents, and what the daemon makes of it. *)

AgentEnds ==
    /\ \E r \in alive : alive' = alive \ {r}
    /\ UNCHANGED <<runs, intents, boot, serving, due, job, rec, holds, prompt, past, ops, faults>>

\* mark_run_exited, from an event of the pane, without the bot's lock
PaneExited ==
    /\ serving /\ Active # 0 /\ Last \notin alive /\ job.step # "launch"
    /\ runs' = [runs EXCEPT ![Last] = "exited"]
    /\ prompt' = Revoked(runs', job, holds)
    /\ UNCHANGED <<alive, intents, boot, serving, due, job, rec, holds, past, ops, faults>>

\* reconcile, at boot and when a state is stuck: herdr's evidence decides, but the stop of a
\* restart that is still owed is kept, and a start that has no pane yet may stay as it is
OwedRestart == \E i \in Open : intents[i].from = Last
Seen(state) ==
    IF Last \notin alive THEN {"exited"} \cup (IF Last \notin came THEN {state} \cap {"starting"} ELSE {})
    ELSE IF state = "stopping" /\ OwedRestart THEN {state} ELSE {"running"}
Reconcile ==
    /\ Free /\ (~serving \/ Active # 0)
    /\ IF Active = 0 THEN UNCHANGED runs
       ELSE \E state \in Seen(runs[Last]) : runs' = [runs EXCEPT ![Last] = state]
    /\ prompt' = IF ActiveIn(runs') = 0 /\ Active # 0 THEN Revoked(runs', job, holds) ELSE prompt
    /\ serving' = TRUE
    /\ due' = (due \/ ~serving)
    /\ UNCHANGED <<alive, intents, boot, job, rec, holds, past, ops, faults>>

\* the timed sweep of orphaned prompts, and the flush of a running bot's queue
SweepQueue ==
    /\ serving /\ prompt' = Revoked(runs, job, holds) /\ prompt' # prompt
    /\ UNCHANGED <<table, intents, boot, serving, due, job, rec, holds, past, ops, faults>>

FlushQueue ==
    /\ serving /\ prompt = "queued" /\ Active # 0 /\ runs[Last] = "running" /\ Last \in alive
    /\ prompt' = "sent"
    /\ UNCHANGED <<table, intents, boot, serving, due, job, rec, holds, past, ops, faults>>

-----------------------------------------------------------------------------
(* The recovery. *)

Idle(w) == rec' = [rec EXCEPT ![w] = NoRec]
At(w, where) == rec' = [rec EXCEPT ![w].at = where]
Driving == {rec[w].id : w \in {v \in Workers : rec[v].at \in {"claimed", "working", "failing"}}}
FinishedHolding(w) == Idle(w) /\ UNCHANGED holds    \* a mistake the checks must find
Finished(w) == Idle(w) /\ holds' = holds \ {rec[w].id}

\* recover_host: what is overdue has failed and is reported, the rest is driven once
RecoverHost(w) ==
    /\ serving /\ due /\ rec[w].at = "idle"
    /\ w = CHOOSE v \in Workers : rec[v].at = "idle"   \* a new task, whichever it is
    /\ due' = FALSE
    /\ \E overdue \in {{}, Open} :
          /\ intents' = [i \in DOMAIN intents |->
                IF i \in overdue THEN [intents[i] EXCEPT !.status = "failed", !.told = TRUE] ELSE intents[i]]
          /\ IF overdue = {} THEN UNCHANGED faults ELSE faults < MaxFaults /\ faults' = faults + 1
    /\ holds' = holds \cap Opens(intents')
    /\ rec' = IF Opens(intents') = {} THEN rec
              ELSE [rec EXCEPT ![w] = [at |-> "due", id |-> CHOOSE i \in Opens(intents') : TRUE]]
    /\ UNCHANGED <<table, boot, serving, job, prompt, past, ops>>

\* a host that connects again is recovered again
Reconnect ==
    /\ serving /\ ~due /\ ops < MaxOps
    /\ ops' = ops + 1 /\ due' = TRUE
    /\ UNCHANGED <<table, intents, boot, serving, job, rec, holds, prompt, past, faults>>

ClaimablePending(i) == i.status = "pending"    \* a mistake the checks must find
Claimable(i) == i.status = "pending" \/ (i.status = "running" /\ i.owner # boot)
LeftRunning(i) == i.status = "running" /\ i.owner = boot

\* drive_once up to the bot's lock: Driving::enter, claim
DriveOnce(w) ==
    LET id == rec[w].id IN
    /\ rec[w].at \in {"due", "retry"}
    /\ \/ /\ id \notin Driving /\ Claimable(intents[id])
          /\ intents' = [intents EXCEPT ![id].status = "running", ![id].owner = boot,
                                        ![id].attempts = @ + 1]
          /\ At(w, "claimed") /\ UNCHANGED <<holds, faults>>
       \/ /\ id \notin Driving /\ LeftRunning(intents[id])
          /\ At(w, "claimed") /\ UNCHANGED <<intents, holds, faults>>
       \/ /\ id \notin Driving /\ id \notin Open
          /\ Finished(w) /\ UNCHANGED <<intents, faults>>
       \/ /\ id \notin Driving /\ faults < MaxFaults /\ faults' = faults + 1
          /\ At(w, "retry") /\ UNCHANGED <<intents, holds>>
       \/ /\ id \in Driving /\ rec[w].at = "due"
          /\ Idle(w) /\ UNCHANGED <<intents, holds, faults>>
    /\ UNCHANGED <<table, boot, serving, due, job, prompt, past, ops>>

\* retry_loop: too many rounds in which the other one is still at it
StopWaiting(w) ==
    /\ rec[w].at = "retry" /\ rec[w].id \in Driving
    /\ Finished(w) /\ loose' = loose \cup {rec[w].id}
    /\ UNCHANGED <<table, intents, boot, serving, due, job, prompt, asked, came, ops, faults>>

\* Mistakes the checks must find: later runs are not counted; a bot that is down was not restarted.
VerdictUncounted(from) ==
    IF Active \notin {0, from} THEN "done"
    ELSE IF Active # 0 /\ runs[Last] # "stopping" THEN "abandoned"
    ELSE IF Active # 0 THEN "stop" ELSE "label"
VerdictUntouched(from) ==
    IF Active \notin {0, from} THEN "done"
    ELSE IF Active = 0 \/ runs[Last] # "stopping" THEN "abandoned" ELSE "stop"

\* resume, under the bot's lock: what the world says has become of the restart
Verdict(from) ==
    IF Active \notin {0, from} THEN "done"
    ELSE IF Active # 0 /\ runs[Last] # "stopping" THEN "abandoned"
    ELSE IF Active = 0 /\ from # 0 /\ Last > from THEN "done"
    ELSE IF Active # 0 THEN "stop" ELSE "label"
Resume(w) ==
    LET id == rec[w].id IN
    /\ rec[w].at = "claimed" /\ Free
    /\ IF LeftRunning(intents[id])
       THEN /\ job' = [who |-> w, kind |-> "restart", step |-> Verdict(intents[id].from), id |-> id,
                       from |-> intents[id].from]
            /\ At(w, "working") /\ UNCHANGED holds
       ELSE Finished(w) /\ UNCHANGED job
    /\ UNCHANGED <<table, intents, boot, serving, due, prompt, past, ops, faults>>

\* the end of resume: the intent is settled, or this attempt failed
SettleAttempt(w) ==
    /\ job.who = w /\ job.step \in {"done", "abandoned", "failed"}
    /\ Leave
    /\ \/ /\ job.step # "failed" /\ intents' = Ended(job.id, job.step, FALSE)
          /\ Finished(w) /\ UNCHANGED faults
       \/ /\ job.step # "failed" /\ faults < MaxFaults /\ faults' = faults + 1
          /\ At(w, "failing") /\ UNCHANGED <<intents, holds>>
       \/ /\ job.step = "failed"
          /\ At(w, "failing") /\ UNCHANGED <<intents, holds, faults>>
    /\ UNCHANGED <<table, boot, serving, due, prompt, past, ops>>

\* fail_attempt: the last one fails and reports it in one transaction, another returns it; a write
\* that fails is made up for, or leaves it running
Returned(id) == IF intents[id].status = "running" THEN [intents EXCEPT ![id].status = "pending"] ELSE intents
FailAttempt(w) ==
    LET id == rec[w].id IN
    /\ rec[w].at = "failing"
    /\ \/ /\ intents[id].attempts >= MaxAttempts
          /\ intents' = Ended(id, "failed", TRUE)
          /\ Finished(w) /\ UNCHANGED faults
       \/ /\ intents[id].attempts < MaxAttempts
          /\ intents' = Returned(id)
          /\ At(w, "retry") /\ UNCHANGED <<holds, faults>>
       \/ /\ faults < MaxFaults /\ faults' = faults + 1
          /\ intents' \in {intents, Returned(id)}
          /\ At(w, "retry") /\ UNCHANGED holds
    /\ UNCHANGED <<table, boot, serving, due, job, prompt, past, ops>>

\* a mistake the checks must find: the boot adopts no holds
CrashUnheld ==
    /\ faults < MaxFaults /\ faults' = faults + 1
    /\ boot' = boot + 1 /\ serving' = FALSE /\ due' = FALSE
    /\ job' = NoJob /\ rec' = [w \in Workers |-> NoRec] /\ holds' = {} /\ loose' = {}
    /\ UNCHANGED <<table, intents, prompt, asked, came, ops>>

\* the daemon dies and boots: adopt_open_intents comes before everything else; when it cannot read
\* the open intents it adopts none, and the boot goes on
Crash ==
    /\ \/ faults < MaxFaults /\ faults' = faults + 1 /\ holds' = Open
       \/ faults + 1 < MaxFaults /\ faults' = faults + 2 /\ holds' = {}
    /\ loose' = Open \ holds'
    /\ boot' = boot + 1 /\ serving' = FALSE /\ due' = FALSE
    /\ job' = NoJob /\ rec' = [w \in Workers |-> NoRec]
    /\ UNCHANGED <<table, intents, prompt, asked, came, ops>>

Recovery(w) == RecoverHost(w) \/ DriveOnce(w) \/ StopWaiting(w) \/ Resume(w) \/ SettleAttempt(w)
               \/ FailAttempt(w)

Next ==
    \/ UserOps \/ JobStep
    \/ AgentEnds \/ PaneExited \/ Reconcile \/ SweepQueue \/ FlushQueue
    \/ Reconnect \/ Crash
    \/ \E w \in Workers : Recovery(w)

\* a handler goes on, the boot reconciles, a recovery is driven and retried until it is over
Fairness ==
    /\ WF_vars(JobStep)
    /\ WF_vars(Reconcile /\ ~serving)
    /\ WF_vars(\E w \in Workers : RecoverHost(w))
    /\ \A w \in Workers : WF_vars(DriveOnce(w)) /\ WF_vars(Resume(w)) /\ WF_vars(SettleAttempt(w))
                          /\ WF_vars(FailAttempt(w))

Spec == Init /\ [][Next]_vars
FairSpec == Spec /\ Fairness

-----------------------------------------------------------------------------
(* Properties. *)

\* The variables have their types, and at most one intent of the bot is open
\* (the unique index on open intents, intents.rs).
TypeOK ==
    /\ runs \in Seq(States) /\ alive \subseteq DOMAIN runs /\ came \subseteq DOMAIN runs
    /\ asked \subseteq DOMAIN runs /\ loose \subseteq DOMAIN intents /\ holds \subseteq DOMAIN intents
    /\ intents \in Seq(Intent) /\ Cardinality(Open) <= 1
    /\ boot \in 1 .. MaxFaults + 1 /\ serving \in BOOLEAN /\ due \in BOOLEAN
    /\ job \in Job
    /\ rec \in [Workers -> [at : {"idle", "due", "retry", "claimed", "working", "failing"}, id : Nat]]
    /\ prompt \in {None, "queued", "sent", "revoked"}
    /\ ops \in 0 .. MaxOps /\ faults \in 0 .. MaxFaults

\* An agent that lives belongs to the bot's active run: no stop, however it was interrupted and
\* whoever finished it, records an end its agent did not come to, and no recovery starts a second
\* agent beside the first (stop.rs, start.rs, the resume of runners/restart_intents.rs).
AgentsAreOwned == alive \subseteq {Active}

\* An intent brings the bot back once: an attempt that follows one that worked, but could not be
\* settled, or died before it was, starts nothing, even when the user has stopped the new run since
\* (the count of later runs in resume; an intent that found no run has no such count).
BroughtBackOnce == \A i \in DOMAIN intents : intents[i].from # 0 => intents[i].ups <= 1

\* A bot whose last run says "stopped" was stopped by its user; when it was a restart that stopped
\* it, its intent is open for as long as the restart is owed or in hand, or somebody was told that it
\* failed: the probe that takes "stopped" for the user's wish is never wrong in silence
\* (restart_intents.rs, left_down_by_restart, #354).
Unasked == Last # 0 /\ runs[Last] = "stopped" /\ Last \notin asked
Newest == Len(intents)
OwedOrTold(i) == i \in Open \/ intents[i].told
StoppedIsAccountedFor == Unasked => Newest # 0 /\ OwedOrTold(Newest)

\* While the recovery owes the restart of an earlier daemon, a prompt queued for the bot is not taken
\* for an orphan: not by the reconcile of the boot, an exit of the pane, the sweep or a failed attempt
\* (restart_hold's adopted holds).  Two exceptions, each recorded in loose at the step that makes it:
\* the boot could not read the open intents and adopted none, which the doc of adopt_open_intents
\* admits; a recovery nobody could wait for any longer has let go of its hold.
OwedTo(i) == i \in Open /\ intents[i].born < boot /\ i \notin loose
PromptIsKept == [][prompt' = "revoked" /\ prompt # "revoked" => ~\E i \in Open : OwedTo(i)]_vars

\* A restart a crash interrupted is settled: it is done, found not to have begun, or failed and
\* reported, whatever attempts die, fail or cannot be recorded on the way.
Inherited == {i \in Open : intents[i].born < boot}
InheritedSettles == (Inherited # {}) ~> (Inherited = {})

\* The holds taken at boot are let go, or the prompts of a bot that stays down would wait for ever.
HoldsEnd == (holds # {}) ~> (holds = {})

\* What the doc of the recovery says of the intents it closes: done when the bot is back, and failed,
\* with a notice to AGM, when that could not be had in MAX_ATTEMPTS (restart_intents.rs:9-15).
DoneMeansBack ==
    \A i \in DOMAIN intents : intents[i].status = "done" => \E r \in came : r > intents[i].from

=============================================================================
