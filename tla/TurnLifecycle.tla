--------------------------- MODULE TurnLifecycle ---------------------------
(***************************************************************************)
(* The runs and the turns of one bot, and every path of the daemon that    *)
(* changes their state (crates/am-lifecycle/src/lifecycle).                *)
(*                                                                         *)
(* A run is one agent process in a herdr pane; a turn is one prompt and    *)
(* its reply.  Almost every path takes the bot lock: one section of it is  *)
(* in progress at a time, and the variable "at" is its program counter.    *)
(* The exceptions are what this module is about: the pane-exit event       *)
(* (mark_run_exited) and the orphan sweep take no lock and interleave with *)
(* every await inside a locked section; so do the death of an agent and    *)
(* the withdrawal of a queued prompt.  A database write may fail.          *)
(***************************************************************************)
EXTENDS Naturals, FiniteSets

CONSTANTS
    WebTurns,      \* turns that start as a prompt (rows of the table turns)
    RelayTurns,    \* those of them sent by another bot (queue_class relay)
    ExternalTurns, \* turns the agent starts by itself in its pane
    NoTurn,        \* "no turn"
    MaxRuns,       \* how many runs the bot may have (bound)
    RetryLimit,    \* QUEUE_RETRY_LIMIT: put-backs before a prompt is failed
    MaxFaults      \* how many database calls may fail (bound)

Turns == WebTurns \cup ExternalTurns

ASSUME TurnsAssumption ==
    /\ NoTurn \notin Turns
    /\ RelayTurns \subseteq WebTurns
    /\ WebTurns \cap ExternalTurns = {}
ASSUME BoundsAssumption ==
    /\ MaxRuns \in Nat /\ RetryLimit \in Nat /\ MaxFaults \in Nat

Run == 1 .. MaxRuns
NoRun == 0
Sweep == 0       \* the periodic sweep, as one more process that revokes orphans

RunStates == {"none", "starting", "running", "stopping", "stopped", "exited"}
Live == {"starting", "running", "stopping"}
TurnStates == {"none", "queued", "in_flight", "completed",
               "completed_fallback", "failed", "deleted"}
Deliveries == {"pending", "ok", "unknown", "failed"}

(* What a delivery attempt can report, Delivered in delivery.rs:           *)
(*   sent      Submitted, Handed or Unverified: the text went in           *)
(*   unproven  keys may have gone in, nothing proves it                    *)
(*   refused   the agent refused the text, nothing was typed               *)
(*   not_now   NotAttempted { retry: true }: nothing was typed             *)
(*   never     NotAttempted { retry: false }: nothing was typed            *)
(*   window    a maintenance window is held (or unreadable): not typed     *)
Outcomes == {"sent", "unproven", "refused", "not_now", "never", "window"}

(* Where the section that holds the bot lock has got to.                   *)
LockSteps == {"free", "prompt", "flush", "typing", "record", "external",
              "stop_close", "stop_kill", "stop_undo", "stop_commit",
              "restart", "launch", "launch_commit", "launch_abort",
              "restart_failed", "reconcile_exit"}

(* Where a lock-free exit of a run has got to: read -> CAS -> (second CAS) *)
(* -> pick -> close -> orphans -> revoke.                                  *)
ExitSteps == {"idle", "read", "again", "pick", "close", "orphans", "revoke"}

(* Retries scheduled for a run (run_state::Settle).  A state stands for    *)
(* Reconcile { stuck }: reconcile until the run has left that state.       *)
Settles == Live \cup {"finish_stop", "back_to_running", "relabel"}

VARIABLES
    \* table runs, and the agent process in the run's pane
    runState, agent,
    \* table turns
    status, delivery, runOf, awaitsStart, retries,
    \* the section holding the bot lock, and its local variables
    at, onRun, onTurn, fromQueue, oldRun, outcome,
    \* restart_hold: a restart is between its stop and its start
    held,
    \* lock-free exits (one per run, plus the sweep), the run state they read
    \* and the turn they picked
    exitAt, exitSaw, exitTurn,
    \* ledgers kept in memory: interruption, owed_delivery, scheduled settles
    owedClose, owedWrite, settle,
    \* database writes that failed so far (bound)
    faults,
    \* history: how often the text of a turn went into a pane, and the closes
    \* that the code has lost, as pairs of a turn and its run
    typed, lostCloses

runVars == <<runState, agent>>
turnVars == <<status, delivery, runOf, awaitsStart, retries>>
lockVars == <<at, onRun, onTurn, fromQueue, oldRun, outcome>>
exitVars == <<exitAt, exitSaw, exitTurn>>
ledgerVars == <<owedClose, owedWrite, settle>>

vars == <<runVars, turnVars, lockVars, held, exitVars, ledgerVars, faults,
          typed, lostCloses>>

RunTypes ==
    /\ runState \in [Run -> RunStates]
    /\ agent \in [Run -> {"none", "alive", "gone"}]
TurnTypes ==
    /\ status \in [Turns -> TurnStates]
    /\ delivery \in [Turns -> Deliveries]
    /\ runOf \in [Turns -> Run \cup {NoRun}]
    /\ awaitsStart \in [Turns -> BOOLEAN]
    /\ retries \in [Turns -> 0 .. RetryLimit]
LockTypes ==
    /\ at \in LockSteps
    /\ onRun \in Run \cup {NoRun}
    /\ onTurn \in Turns \cup {NoTurn}
    /\ fromQueue \in BOOLEAN
    /\ oldRun \in Run \cup {NoRun}
    /\ outcome \in Outcomes
ExitTypes ==
    /\ exitAt \in [Run \cup {Sweep} -> ExitSteps]
    /\ exitSaw \in [Run -> Live \cup {"none"}]
    /\ \A r \in Run : exitAt[r] \in {"read", "again"} => exitSaw[r] \in Live
    /\ exitTurn \in [Run -> Turns \cup {NoTurn}]
    /\ \A r \in Run : exitAt[r] = "close" => exitTurn[r] \in Turns
LedgerTypes ==
    /\ owedClose \in [Turns -> Run \cup {NoRun}]
    /\ owedWrite \in [Turns -> Outcomes \cup {"none"}]
    /\ settle \in [Run -> SUBSET Settles]
OtherTypes ==
    /\ held \in BOOLEAN
    /\ faults \in 0 .. MaxFaults
    /\ typed \in [Turns -> Nat]
    /\ lostCloses \subseteq Turns \X Run

TypeOK == RunTypes /\ TurnTypes /\ LockTypes /\ ExitTypes /\ LedgerTypes /\ OtherTypes

Init ==
    /\ runState = [r \in Run |-> "none"]
    /\ agent = [r \in Run |-> "none"]
    /\ status = [t \in Turns |-> "none"]
    /\ delivery = [t \in Turns |-> "pending"]
    /\ runOf = [t \in Turns |-> NoRun]
    /\ awaitsStart = [t \in Turns |-> FALSE]
    /\ retries = [t \in Turns |-> 0]
    /\ at = "free" /\ onRun = NoRun /\ onTurn = NoTurn /\ oldRun = NoRun
    /\ fromQueue = FALSE /\ outcome = "sent"
    /\ held = FALSE
    /\ exitAt = [p \in Run \cup {Sweep} |-> "idle"]
    /\ exitSaw = [r \in Run |-> "none"]
    /\ exitTurn = [r \in Run |-> NoTurn]
    /\ owedClose = [t \in Turns |-> NoRun]
    /\ owedWrite = [t \in Turns |-> "none"]
    /\ settle = [r \in Run |-> {}]
    /\ faults = 0
    /\ typed = [t \in Turns |-> 0]
    /\ lostCloses = {}

----------------------------------------------------------------------------
(* Shared reads and writes.                                                *)

ActiveRuns == {r \in Run : runState[r] \in Live}
InFlightOn(r) == {t \in Turns : status[t] = "in_flight" /\ runOf[t] = r}
Queued == {t \in Turns : status[t] = "queued"}

(* A write that fails: the caller sees the error, the row stays.           *)
DbFault == faults < MaxFaults /\ faults' = faults + 1
DbOk == UNCHANGED faults

(* The section ends and the bot lock is released.                          *)
Release ==
    /\ at' = "free" /\ onRun' = NoRun /\ onTurn' = NoTurn /\ oldRun' = NoRun
    /\ fromQueue' = FALSE /\ outcome' = "sent"

GoTo(step) == at' = step /\ UNCHANGED <<onRun, onTurn, fromQueue, oldRun, outcome>>

(* turn_controller::fail_on: the CAS in_flight -> failed, delivery kept.   *)
FailTurn(t) ==
    status' = IF status[t] = "in_flight" THEN [status EXCEPT ![t] = "failed"]
                                         ELSE status

(* retract_queued on every turn of a set: nothing of them was sent.        *)
RetractQueued(S) ==
    /\ status' = [t \in Turns |->
                    IF t \in S /\ status[t] = "queued" THEN "failed" ELSE status[t]]
    /\ delivery' = [t \in Turns |->
                    IF t \in S /\ status[t] = "queued" THEN "failed" ELSE delivery[t]]

(* One queued turn per lane (unique indexes on queue_class): the user's    *)
(* lane, and that of what other bots relay.                                *)
SlotTaken(t) == \E u \in Queued \ {t} : (u \in RelayTurns) = (t \in RelayTurns)

Orphans == {t \in Queued : ~awaitsStart[t]}

(* schedule_settle: one retry of a kind for a run.  All reconciles are one *)
(* kind, whatever state the run is stuck in.                               *)
Schedule(r, how) ==
    settle' = IF how \in Live /\ settle[r] \cap Live # {}
                THEN settle ELSE [settle EXCEPT ![r] = @ \cup {how}]

----------------------------------------------------------------------------
(* A prompt from the web: prompt_inner.                                    *)

(* What earlier sections left owed is written first; a write that fails is *)
(* only logged and the prompt goes on.                                     *)
LedgersClear == \A t \in Turns : owedClose[t] = NoRun /\ owedWrite[t] = "none"

(* Under the lock: the run is running.                                     *)
PromptRead(t, r) ==
    /\ at = "free" /\ t \in WebTurns /\ status[t] = "none"
    /\ runState[r] = "running"
    /\ \/ LedgersClear /\ DbOk
       \/ ~LedgersClear /\ DbFault
    /\ at' = "prompt" /\ onRun' = r /\ onTurn' = t
    /\ UNCHANGED <<fromQueue, oldRun, outcome, runVars, turnVars, held, exitVars,
                   ledgerVars, typed, lostCloses>>

(* A turn parked as delivery unknown must be abandoned first.              *)
Parked == \E t \in Turns : status[t] = "in_flight" /\ delivery[t] = "unknown"

(* A mistake the checks must find: the INSERT does not ask for the run.    *)
PromptInsertUnasked ==
    /\ at = "prompt" /\ InFlightOn(onRun) = {} /\ ~Parked
    /\ status' = [status EXCEPT ![onTurn] = "in_flight"]
    /\ runOf' = [runOf EXCEPT ![onTurn] = onRun]
    /\ GoTo("typing")
    /\ UNCHANGED <<runVars, delivery, awaitsStart, retries, held,
                   exitVars, ledgerVars, faults, typed, lostCloses>>

(* No turn is in flight: the row goes in as in_flight.  The INSERT asks    *)
(* again for the run to be running, for an exit needs no lock; if it is    *)
(* not, the answer is 409 run_ended and nothing was written.               *)
PromptInsert ==
    /\ at = "prompt" /\ InFlightOn(onRun) = {} /\ ~Parked
    /\ IF runState[onRun] = "running"
         THEN /\ status' = [status EXCEPT ![onTurn] = "in_flight"]
              /\ runOf' = [runOf EXCEPT ![onTurn] = onRun]
              /\ GoTo("typing")
         ELSE /\ Release
              /\ UNCHANGED <<status, runOf>>
    /\ UNCHANGED <<runVars, delivery, awaitsStart, retries, held,
                   exitVars, ledgerVars, faults, typed, lostCloses>>

(* The agent is busy: the row goes in as queued, whatever became of the    *)
(* run since it was read; or the lane is taken (or the prompt is refused   *)
(* for another reason) and nothing is written.                             *)
PromptQueue ==
    /\ at = "prompt"
    /\ \/ /\ ~SlotTaken(onTurn)
          /\ status' = [status EXCEPT ![onTurn] = "queued"]
       \/ UNCHANGED status
    /\ Release
    /\ UNCHANGED <<runVars, delivery, runOf, awaitsStart, retries, held,
                   exitVars, ledgerVars, faults, typed, lostCloses>>

(* The text goes into the pane, or does not.  Between the INSERT (or the   *)
(* claim) and this step the run may have ended: no database row is read.   *)
TypeText(o) ==
    /\ at = "typing"
    /\ o = "sent" => agent[onRun] = "alive"
    /\ \/ o \in {"sent", "unproven"} /\ typed' = [typed EXCEPT ![onTurn] = @ + 1]
       \/ o # "sent" /\ UNCHANGED typed
    /\ at' = "record" /\ outcome' = o
    /\ UNCHANGED <<onRun, onTurn, fromQueue, oldRun, runVars, turnVars, held, exitVars,
                   ledgerVars, faults, lostCloses>>

(* owed_delivery::write for a turn that is closed as never sent.           *)
WriteClosed(t) ==
    /\ FailTurn(t)
    /\ delivery' = IF status[t] = "in_flight" \/ delivery[t] = "pending"
                     THEN [delivery EXCEPT ![t] = "failed"] ELSE delivery
    /\ UNCHANGED <<runOf, retries>>

(* A mistake the checks must find: one put-back too many is counted.       *)
WriteBackOnceMore(t, spent) ==
    IF status[t] # "in_flight" THEN UNCHANGED <<status, delivery, runOf, retries>>
    ELSE IF SlotTaken(t) \/ (spent = 1 /\ retries[t] > RetryLimit)
      THEN WriteClosed(t)
      ELSE /\ status' = [status EXCEPT ![t] = "queued"]
           /\ runOf' = [runOf EXCEPT ![t] = NoRun]
           /\ retries' = [retries EXCEPT ![t] = @ + spent]
           /\ UNCHANGED delivery

(* return_to_queue and return_to_queue_unspent, by the CAS on in_flight;   *)
(* a lane taken meanwhile fails the turn instead (slot_taken).             *)
WriteBack(t, spent) ==
    IF status[t] # "in_flight" THEN UNCHANGED <<status, delivery, runOf, retries>>
    ELSE IF SlotTaken(t) \/ (spent = 1 /\ retries[t] >= RetryLimit)
      THEN WriteClosed(t)
      ELSE /\ status' = [status EXCEPT ![t] = "queued"]
           /\ runOf' = [runOf EXCEPT ![t] = NoRun]
           /\ retries' = [retries EXCEPT ![t] = @ + spent]
           /\ UNCHANGED delivery

(* retract_unsent_turn: the row of a direct prompt is deleted again.       *)
WriteRetracted(t) ==
    /\ status' = IF status[t] = "in_flight" THEN [status EXCEPT ![t] = "deleted"]
                                            ELSE status
    /\ UNCHANGED <<delivery, runOf, retries>>

(* A mistake the checks must find: what may have been typed is put back.   *)
WriteOutcomePutsBack(t, o, queued) ==
    \/ /\ o = "sent"
       /\ delivery' = [delivery EXCEPT ![t] = "ok"]
       /\ UNCHANGED <<status, runOf, retries>>
    \/ o \in {"refused", "never"} /\ WriteClosed(t)
    \/ o \in {"unproven", "not_now", "window"} /\ WriteBack(t, 0)

(* What is written when an attempt is over.  mark_delivery is not guarded  *)
(* by the status: the text went in whatever became of the turn.            *)
WriteOutcome(t, o, queued) ==
    \/ /\ o = "sent"
       /\ delivery' = [delivery EXCEPT ![t] = "ok"]
       /\ UNCHANGED <<status, runOf, retries>>
    \/ /\ o = "unproven"
       /\ delivery' = [delivery EXCEPT ![t] = "unknown"]
       /\ UNCHANGED <<status, runOf, retries>>
    \/ o = "refused" /\ WriteClosed(t)
    \/ o = "never" /\ queued /\ WriteClosed(t)
    \/ o = "not_now" /\ queued /\ WriteBack(t, 1)
    \/ o = "window" /\ queued /\ WriteBack(t, 0)
    \/ o \in {"never", "not_now", "window"} /\ ~queued /\ WriteRetracted(t)

(* The result is written while the lock is still held, and settles what    *)
(* was owed for the same turn.                                             *)
RecordOutcome ==
    /\ at = "record"
    /\ WriteOutcome(onTurn, outcome, fromQueue)
    /\ owedWrite' = [owedWrite EXCEPT ![onTurn] = "none"]
    /\ Release
    /\ UNCHANGED <<runVars, awaitsStart, held, exitVars,
                   owedClose, settle, faults, typed, lostCloses>>

(* A mistake the checks must find: the write fails and nothing is owed.    *)
RecordFailsUnowed ==
    /\ at = "record" /\ DbFault
    /\ Release
    /\ UNCHANGED <<runVars, turnVars, held, exitVars, ledgerVars, typed,
                   lostCloses>>

(* The write fails.  A retraction that fails is retried at once as a close *)
(* (retract_unsent_turn); everything else is owed, and the lock released.  *)
RecordFails ==
    /\ at = "record" /\ DbFault
    /\ IF ~fromQueue /\ outcome \in {"never", "not_now", "window"}
         THEN /\ outcome' = "refused"
              /\ UNCHANGED <<at, onRun, onTurn, fromQueue, oldRun, owedWrite>>
         ELSE /\ owedWrite' = [owedWrite EXCEPT ![onTurn] = outcome]
              /\ Release
    /\ UNCHANGED <<runVars, turnVars, held, exitVars, owedClose, settle,
                   typed, lostCloses>>

(* owed_delivery::settle: a timed retry takes the lock and writes again.   *)
SettleOwedWrite(t) ==
    /\ at = "free" /\ owedWrite[t] # "none"
    /\ WriteOutcome(t, owedWrite[t], TRUE)
    /\ owedWrite' = [owedWrite EXCEPT ![t] = "none"]
    /\ UNCHANGED <<runVars, awaitsStart, lockVars, held,
                   exitVars, owedClose, settle, faults, typed, lostCloses>>

----------------------------------------------------------------------------
(* The queue.                                                              *)

(* start_send: no run, or one that is starting; the turn waits for it.     *)
QueueForStart(t) ==
    /\ at = "free" /\ t \in WebTurns /\ status[t] = "none" /\ ~SlotTaken(t)
    /\ \A r \in ActiveRuns : runState[r] = "starting"
    /\ status' = [status EXCEPT ![t] = "queued"]
    /\ awaitsStart' = [awaitsStart EXCEPT ![t] = TRUE]
    /\ UNCHANGED <<runVars, delivery, runOf, retries, lockVars,
                   held, exitVars, ledgerVars, faults, typed, lostCloses>>

(* A mistake the checks must find: the lanes are not ordered.              *)
FlushReadAnyLane(t, r) ==
    /\ at = "free" /\ status[t] = "queued"
    /\ runState[r] = "running" /\ InFlightOn(r) = {}
    /\ at' = "flush" /\ onRun' = r /\ onTurn' = t
    /\ UNCHANGED <<fromQueue, oldRun, outcome, runVars, turnVars, held, exitVars,
                   ledgerVars, faults, typed, lostCloses>>

(* flush_queued_inner takes the head of the queue (the user's lane first), *)
(* reads the run and finds it running, with no turn in flight; then,       *)
(* several awaits later, claims the turn.                                  *)
FlushRead(t, r) ==
    /\ at = "free" /\ status[t] = "queued"
    /\ t \in RelayTurns => Queued \subseteq RelayTurns
    /\ runState[r] = "running" /\ InFlightOn(r) = {}
    /\ at' = "flush" /\ onRun' = r /\ onTurn' = t
    /\ UNCHANGED <<fromQueue, oldRun, outcome, runVars, turnVars, held, exitVars,
                   ledgerVars, faults, typed, lostCloses>>

(* A mistake the checks must find: the turn is not asked to be queued still. *)
FlushClaimStale ==
    /\ at = "flush"
    /\ IF runState[onRun] = "running"
         THEN /\ status' = [status EXCEPT ![onTurn] = "in_flight"]
              /\ runOf' = [runOf EXCEPT ![onTurn] = onRun]
              /\ at' = "typing" /\ fromQueue' = TRUE
              /\ UNCHANGED <<onRun, onTurn, oldRun, outcome>>
         ELSE /\ Release
              /\ UNCHANGED <<status, runOf>>
    /\ UNCHANGED <<runVars, delivery, awaitsStart, retries, held,
                   exitVars, ledgerVars, faults, typed, lostCloses>>

(* claim_queued: the CAS also asks for the run to be running still.        *)
FlushClaim ==
    /\ at = "flush"
    /\ IF status[onTurn] = "queued" /\ runState[onRun] = "running"
         THEN /\ status' = [status EXCEPT ![onTurn] = "in_flight"]
              /\ runOf' = [runOf EXCEPT ![onTurn] = onRun]
              /\ at' = "typing" /\ fromQueue' = TRUE
              /\ UNCHANGED <<onRun, onTurn, oldRun, outcome>>
         ELSE /\ Release
              /\ UNCHANGED <<status, runOf>>
    /\ UNCHANGED <<runVars, delivery, awaitsStart, retries, held,
                   exitVars, ledgerVars, faults, typed, lostCloses>>

(* The user withdraws it, or its assignment is cancelled: no lock.         *)
Withdraw(t) ==
    /\ status[t] = "queued"
    /\ RetractQueued({t})
    /\ UNCHANGED <<runVars, runOf, awaitsStart, retries,
                   lockVars, held, exitVars, ledgerVars, faults, typed,
                   lostCloses>>

----------------------------------------------------------------------------
(* A turn the agent starts by itself: begin_external_turn.                 *)

(* A mistake the checks must find: begun beside a turn in flight.          *)
ExternalReadBusy(t, r) ==
    /\ at = "free" /\ t \in ExternalTurns /\ status[t] = "none"
    /\ runState[r] = "running"
    /\ at' = "external" /\ onRun' = r /\ onTurn' = t
    /\ UNCHANGED <<fromQueue, oldRun, outcome, runVars, turnVars, held, exitVars,
                   ledgerVars, faults, typed, lostCloses>>

ExternalRead(t, r) ==
    /\ at = "free" /\ t \in ExternalTurns /\ status[t] = "none"
    /\ runState[r] = "running" /\ InFlightOn(r) = {}
    /\ at' = "external" /\ onRun' = r /\ onTurn' = t
    /\ UNCHANGED <<fromQueue, oldRun, outcome, runVars, turnVars, held, exitVars,
                   ledgerVars, faults, typed, lostCloses>>

(* This INSERT asks nothing of the run.                                    *)
ExternalInsert ==
    /\ at = "external"
    /\ status' = [status EXCEPT ![onTurn] = "in_flight"]
    /\ delivery' = [delivery EXCEPT ![onTurn] = "ok"]
    /\ runOf' = [runOf EXCEPT ![onTurn] = onRun]
    /\ Release
    /\ UNCHANGED <<runVars, awaitsStart, retries, held, exitVars,
                   ledgerVars, faults, typed, lostCloses>>

----------------------------------------------------------------------------
(* Starting a run.                                                         *)

(* The row of the new run; a unique index allows one active run.           *)
NextRun(r) == runState[r] = "none" /\ \A q \in Run : runState[q] = "none" => r <= q

NewRun(r) ==
    /\ ActiveRuns = {} /\ NextRun(r)
    /\ runState' = [runState EXCEPT ![r] = "starting"]
    /\ at' = "launch" /\ onRun' = r /\ onTurn' = NoTurn
    /\ UNCHANGED <<fromQueue, oldRun, outcome, agent, turnVars, held, exitVars, ledgerVars,
                   faults, typed, lostCloses>>

Start(r) == at = "free" /\ NewRun(r)

(* The second half of a restart; or a check before the row refuses.        *)
RestartStart(r) == at = "restart" /\ NewRun(r)

RestartRefused ==
    /\ at = "restart" /\ GoTo("restart_failed")
    /\ UNCHANGED <<runVars, turnVars, held, exitVars, ledgerVars, faults,
                   typed, lostCloses>>

(* herdr starts the agent in the pane, or it does not come up.             *)
Launch ==
    /\ at = "launch"
    /\ \/ /\ agent[onRun] = "none"
          /\ agent' = [agent EXCEPT ![onRun] = "alive"]
          /\ GoTo("launch_commit")
       \/ /\ agent' = [agent EXCEPT ![onRun] = "gone"]
          /\ GoTo("launch_abort")
    /\ UNCHANGED <<runState, turnVars, held, exitVars, ledgerVars, faults,
                   typed, lostCloses>>

(* starting -> running.  A lost CAS means an exit ended the run meanwhile: *)
(* it is not brought back, the start fails.  A write that fails leaves the *)
(* agent alone and has the run reconciled later.                           *)
LaunchCommit ==
    /\ at = "launch_commit"
    /\ \/ /\ runState[onRun] = "starting" /\ DbOk
          /\ runState' = [runState EXCEPT ![onRun] = "running"]
          /\ Release /\ held' = FALSE
          /\ UNCHANGED settle
       \/ /\ runState[onRun] # "starting" /\ DbOk
          /\ GoTo("launch_abort")
          /\ UNCHANGED <<runState, held, settle>>
       \/ /\ DbFault
          /\ Schedule(onRun, "starting")
          /\ Release /\ held' = FALSE
          /\ UNCHANGED runState
    /\ UNCHANGED <<agent, turnVars, exitVars, owedClose, owedWrite, typed,
                   lostCloses>>

(* The start failed: starting -> exited, unless an exit was first.         *)
LaunchAbort ==
    /\ at = "launch_abort"
    /\ \/ /\ DbOk
          /\ runState' = IF runState[onRun] = "starting"
                           THEN [runState EXCEPT ![onRun] = "exited"] ELSE runState
          /\ UNCHANGED settle
       \/ /\ DbFault
          /\ Schedule(onRun, "starting")
          /\ UNCHANGED runState
    /\ IF held THEN GoTo("restart_failed") ELSE Release
    /\ UNCHANGED <<agent, turnVars, held, exitVars, owedClose, owedWrite,
                   typed, lostCloses>>

(* relabel: exited <-> stopped, while no other run of the bot is active.   *)
Relabel(r, from, to) ==
    runState' = IF runState[r] = from /\ ActiveRuns \subseteq {r}
                  THEN [runState EXCEPT ![r] = to] ELSE runState

(* The restart did not bring the bot back.  The run it stopped is recorded *)
(* as exited (left_down_by_restart), for nobody asked it to stay down, and *)
(* what was queued is revoked.                                             *)
RestartFailed ==
    /\ at = "restart_failed"
    /\ \/ oldRun = NoRun /\ DbOk /\ UNCHANGED <<runState, settle>>
       \/ /\ oldRun # NoRun /\ DbOk
          /\ Relabel(oldRun, "stopped", "exited")
          /\ UNCHANGED settle
       \/ /\ oldRun # NoRun /\ DbFault
          /\ Schedule(oldRun, "relabel")
          /\ UNCHANGED runState
    /\ IF ActiveRuns = {} THEN RetractQueued(Orphans)
                          ELSE UNCHANGED <<status, delivery>>
    /\ held' = FALSE
    /\ Release
    /\ UNCHANGED <<agent, runOf, awaitsStart, retries, exitVars,
                   owedClose, owedWrite, typed, lostCloses>>

----------------------------------------------------------------------------
(* Stopping a run, by the user or as the first half of a restart.          *)

(* Any active state -> stopping, before anything outside is touched.  The  *)
(* user's stop withdraws in the same transaction what waits for a start.   *)
(* A stop asked only of an idle bot is a case of this one: nothing is      *)
(* queued then and nothing in flight.                                      *)
StopBegin(r, forRestart) ==
    /\ at = "free" /\ runState[r] \in Live
    /\ runState' = [runState EXCEPT ![r] = "stopping"]
    /\ IF forRestart THEN UNCHANGED <<status, delivery>>
                     ELSE RetractQueued({t \in Queued : awaitsStart[t]})
    /\ held' = forRestart
    /\ at' = "stop_close" /\ onRun' = r
    /\ oldRun' = IF forRestart THEN r ELSE NoRun
    /\ UNCHANGED <<onTurn, fromQueue, outcome, agent, runOf, awaitsStart, retries,
                   exitVars, ledgerVars, faults, typed, lostCloses>>

(* A restart that finds no run only starts one.                            *)
RestartNoRun ==
    /\ at = "free" /\ ActiveRuns = {}
    /\ held' = TRUE /\ at' = "restart"
    /\ UNCHANGED <<onRun, onTurn, fromQueue, oldRun, outcome, runVars, turnVars, exitVars,
                   ledgerVars, faults, typed, lostCloses>>

(* A mistake the checks must find: a turn in doubt is left in flight.      *)
StopFailTurnInDoubt ==
    /\ at = "stop_close" /\ DbOk
    /\ status' = [t \in Turns |->
                    IF t \in InFlightOn(onRun) /\ delivery[t] # "unknown"
                      THEN "failed" ELSE status[t]]
    /\ GoTo("stop_kill")
    /\ UNCHANGED <<runVars, delivery, runOf, awaitsStart, retries, held,
                   exitVars, ledgerVars, typed, lostCloses>>

(* The turn in flight is closed before the agent is touched; if that write *)
(* fails the agent is left alone and the stop undone (turn_unwritable).    *)
StopFailTurn ==
    /\ at = "stop_close"
    /\ \/ /\ DbOk
          /\ status' = [t \in Turns |->
                          IF t \in InFlightOn(onRun) THEN "failed" ELSE status[t]]
          /\ GoTo("stop_kill")
       \/ /\ DbFault
          /\ UNCHANGED status
          /\ GoTo("stop_undo")
    /\ UNCHANGED <<runVars, delivery, runOf, awaitsStart, retries, held,
                   exitVars, ledgerVars, typed, lostCloses>>

(* ctrl+c, then the pane is closed.  The agent is gone; or it is still     *)
(* there; or herdr cannot tell and the evidence is left to reconcile.      *)
StopKill ==
    /\ at = "stop_kill"
    /\ \/ /\ agent' = [agent EXCEPT ![onRun] = "gone"]
          /\ GoTo("stop_commit")
          /\ UNCHANGED <<held, settle>>
       \/ /\ agent[onRun] = "alive"
          /\ GoTo("stop_undo")
          /\ UNCHANGED <<agent, held, settle>>
       \/ /\ \/ UNCHANGED agent
             \/ agent' = [agent EXCEPT ![onRun] = "gone"]
          /\ Schedule(onRun, "stopping")
          /\ Release /\ held' = FALSE
    /\ UNCHANGED <<runState, turnVars, exitVars, owedClose, owedWrite, faults,
                   typed, lostCloses>>

(* A mistake the checks must find: an exit that was first is overwritten.  *)
BackToRunningAlways(r) == runState' = [runState EXCEPT ![r] = "running"]

(* back_to_running.                                                        *)
BackToRunning(r) ==
    runState' = IF runState[r] = "stopping"
                  THEN [runState EXCEPT ![r] = "running"] ELSE runState

(* A mistake the checks must find: the hold on the queue is not given up.  *)
StopUndoHolding ==
    /\ at = "stop_undo"
    /\ \/ DbOk /\ BackToRunning(onRun) /\ UNCHANGED settle
       \/ DbFault /\ Schedule(onRun, "back_to_running") /\ UNCHANGED runState
    /\ Release
    /\ UNCHANGED <<agent, turnVars, held, exitVars, owedClose, owedWrite, typed,
                   lostCloses>>

StopUndo ==
    /\ at = "stop_undo"
    /\ \/ DbOk /\ BackToRunning(onRun) /\ UNCHANGED settle
       \/ DbFault /\ Schedule(onRun, "back_to_running") /\ UNCHANGED runState
    /\ Release /\ held' = FALSE
    /\ UNCHANGED <<agent, turnVars, exitVars, owedClose, owedWrite, typed,
                   lostCloses>>

(* commit_stopped and after_stop for the user: stopping -> stopped, and    *)
(* what is queued has nobody left to send it; or an exit was first, and    *)
(* its exited is relabelled stopped.                                       *)
CommitStopped(r) ==
    IF runState[r] = "stopping"
      THEN /\ runState' = [runState EXCEPT ![r] = "stopped"]
           /\ IF ActiveRuns \subseteq {r} /\ ~held
                THEN RetractQueued(Orphans) ELSE UNCHANGED <<status, delivery>>
      ELSE Relabel(r, "exited", "stopped") /\ UNCHANGED <<status, delivery>>

StopCommit ==
    /\ at = "stop_commit" /\ ~held
    /\ \/ DbOk /\ CommitStopped(onRun) /\ UNCHANGED settle
       \/ DbFault /\ Schedule(onRun, "finish_stop")
          /\ UNCHANGED <<runState, status, delivery>>
    /\ Release
    /\ UNCHANGED <<agent, runOf, awaitsStart, retries, held, exitVars,
                   owedClose, owedWrite, typed, lostCloses>>

(* A mistake the checks must find: the restart goes on after a failed write. *)
RestartStopCommitBlindly ==
    /\ at = "stop_commit" /\ held
    /\ \/ /\ DbOk
          /\ runState' = IF runState[onRun] = "stopping"
                           THEN [runState EXCEPT ![onRun] = "stopped"] ELSE runState
       \/ DbFault /\ UNCHANGED runState
    /\ GoTo("restart")
    /\ UNCHANGED <<agent, turnVars, held, exitVars, ledgerVars, typed,
                   lostCloses>>

(* For a restart the queue is kept for the next run (restart_hold), and a  *)
(* run that an exit recorded first stays exited.                           *)
RestartStopCommit ==
    /\ at = "stop_commit" /\ held
    /\ \/ /\ DbOk
          /\ runState' = IF runState[onRun] = "stopping"
                           THEN [runState EXCEPT ![onRun] = "stopped"] ELSE runState
          /\ GoTo("restart") /\ UNCHANGED <<held, settle>>
       \/ /\ DbFault
          /\ Schedule(onRun, "stopping") /\ UNCHANGED runState
          /\ Release /\ held' = FALSE
    /\ UNCHANGED <<agent, turnVars, exitVars, owedClose, owedWrite, typed,
                   lostCloses>>

----------------------------------------------------------------------------
(* The end of a run, without the bot lock: mark_run_exited_proved, called  *)
(* by the pane events and by reconcile.                                    *)

ExitGoTo(p, step) == exitAt' = [exitAt EXCEPT ![p] = step]

(* The pane or the agent goes away (of a run that ended nobody looks).     *)
AgentDies(r) ==
    /\ runState[r] \in Live /\ agent[r] # "gone"
    /\ agent' = [agent EXCEPT ![r] = "gone"]
    /\ UNCHANGED <<runState, turnVars, lockVars, held, exitVars, ledgerVars,
                   faults, typed, lostCloses>>

(* The row is read and found active.                                       *)
ExitRead(r) ==
    /\ exitAt[r] = "idle" /\ agent[r] = "gone" /\ runState[r] \in Live
    /\ ExitGoTo(r, "read") /\ exitSaw' = [exitSaw EXCEPT ![r] = runState[r]]
    /\ UNCHANGED <<runVars, turnVars, lockVars, held, exitTurn, ledgerVars,
                   faults, typed, lostCloses>>

(* One of the two CAS to exited, from some of the active states.  The one  *)
(* that wins does the cleaning up; losing, the exit goes on at "lost".  A  *)
(* write that fails has the run reconciled until it leaves the state that  *)
(* was read.                                                               *)
ExitCas(r, from, lost) ==
    /\ \/ /\ runState[r] \in from /\ DbOk
          /\ runState' = [runState EXCEPT ![r] = "exited"]
          /\ ExitGoTo(r, "pick") /\ UNCHANGED settle
       \/ /\ runState[r] \notin from /\ DbOk
          /\ ExitGoTo(r, lost) /\ UNCHANGED <<runState, settle>>
       \/ /\ DbFault
          /\ Schedule(r, exitSaw[r])
          /\ ExitGoTo(r, "idle") /\ UNCHANGED runState
    /\ exitSaw' = IF exitAt'[r] = "again" THEN exitSaw
                                          ELSE [exitSaw EXCEPT ![r] = "none"]
    /\ UNCHANGED <<agent, turnVars, lockVars, held, exitTurn, owedClose,
                   owedWrite, typed, lostCloses>>

ExitCommit(r) == exitAt[r] = "read" /\ ExitCas(r, {"starting", "running"}, "again")

ExitCommitStopping(r) == exitAt[r] = "again" /\ ExitCas(r, {"stopping"}, "idle")

(* What the code leaves in flight on a run, with nobody to close it.       *)
LoseCloses(r) ==
    lostCloses' = lostCloses \cup {<<t, r>> : t \in InFlightOn(r)}

(* fail_in_flight_or_owe looks for the turn in flight on the run.  If that *)
(* read fails the exit goes on without it, and nothing is owed ...         *)
ExitPick(r) ==
    /\ exitAt[r] = "pick"
    /\ \/ \E t \in InFlightOn(r) :
             /\ exitTurn' = [exitTurn EXCEPT ![r] = t]
             /\ ExitGoTo(r, "close") /\ DbOk /\ UNCHANGED lostCloses
       \/ /\ InFlightOn(r) = {} /\ DbOk
          /\ ExitGoTo(r, "orphans") /\ UNCHANGED <<exitTurn, lostCloses>>
       \/ /\ DbFault /\ LoseCloses(r)
          /\ ExitGoTo(r, "orphans") /\ UNCHANGED exitTurn
    /\ UNCHANGED <<runVars, turnVars, lockVars, held, exitSaw, ledgerVars, typed>>

(* A mistake the checks must find: a close that fails is not owed.         *)
ExitCloseUnowed(r) ==
    /\ exitAt[r] = "close"
    /\ \/ DbOk /\ FailTurn(exitTurn[r])
       \/ DbFault /\ UNCHANGED status
    /\ exitTurn' = [exitTurn EXCEPT ![r] = NoTurn]
    /\ ExitGoTo(r, "orphans")
    /\ UNCHANGED <<runVars, delivery, runOf, awaitsStart, retries,
                   lockVars, held, exitSaw, ledgerVars, typed, lostCloses>>

(* ... and closes it, after an RPC that captures the pane.  The CAS asks   *)
(* for in_flight and not for the run.  If the write fails the close is     *)
(* owed; the ledger keeps one entry of a turn, so what was owed for        *)
(* another run of it is overwritten.                                       *)
ExitClose(r) ==
    LET t == exitTurn[r] IN
    /\ exitAt[r] = "close"
    /\ \/ /\ DbOk
          /\ FailTurn(t)
          /\ owedClose' = [owedClose EXCEPT ![t] = NoRun]
          /\ UNCHANGED lostCloses
       \/ /\ DbFault
          /\ owedClose' = [owedClose EXCEPT ![t] = r]
          /\ lostCloses' = lostCloses \cup
                ({<<t, owedClose[t]>>} \ {<<t, NoRun>>, <<t, r>>})
          /\ UNCHANGED status
    /\ exitTurn' = [exitTurn EXCEPT ![r] = NoTurn]
    /\ ExitGoTo(r, "orphans")
    /\ UNCHANGED <<runVars, delivery, runOf, awaitsStart, retries,
                   lockVars, held, exitSaw, owedWrite, settle, typed>>

(* revoke_orphaned_queued_turns: no active run and no restart under way ... *)
OrphanCheck(p) ==
    /\ exitAt[p] = "orphans"
    /\ ExitGoTo(p, IF ActiveRuns = {} /\ ~held THEN "revoke" ELSE "idle")
    /\ UNCHANGED <<runVars, turnVars, lockVars, held, exitSaw, exitTurn, ledgerVars,
                   faults, typed, lostCloses>>

(* ... then, without asking again, everything queued but what waits for a  *)
(* start.                                                                  *)
OrphanRevoke(p) ==
    /\ exitAt[p] = "revoke"
    /\ RetractQueued(Orphans)
    /\ ExitGoTo(p, "idle")
    /\ UNCHANGED <<runVars, runOf, awaitsStart, retries, lockVars, held,
                   exitSaw, exitTurn, ledgerVars, faults, typed, lostCloses>>

(* The periodic sweep does the same for bots without an active run.        *)
SweepStart ==
    /\ exitAt[Sweep] = "idle" /\ Queued # {} /\ ActiveRuns = {}
    /\ ExitGoTo(Sweep, "orphans")
    /\ UNCHANGED <<runVars, turnVars, lockVars, held, exitSaw, exitTurn, ledgerVars,
                   faults, typed, lostCloses>>

----------------------------------------------------------------------------
(* Reconcile, and the retries of writes that failed.                       *)

(* herdr no longer lists the agent: the run is exited, under the lock.     *)
ReconcileExit(r) ==
    /\ at = "free" /\ runState[r] \in Live /\ agent[r] # "alive"
    /\ exitAt[r] = "idle"
    /\ at' = "reconcile_exit" /\ onRun' = r
    /\ ExitGoTo(r, "read") /\ exitSaw' = [exitSaw EXCEPT ![r] = runState[r]]
    /\ UNCHANGED <<onTurn, fromQueue, oldRun, outcome, runVars, turnVars, held, exitTurn,
                   ledgerVars, faults, typed, lostCloses>>

ReconcileDone ==
    /\ at = "reconcile_exit" /\ exitAt[onRun] = "idle"
    /\ Release
    /\ UNCHANGED <<runVars, turnVars, held, exitVars, ledgerVars, faults,
                   typed, lostCloses>>

(* herdr lists it: a run stuck in starting or stopping is running.         *)
ReconcileAlive(r) ==
    /\ at = "free" /\ agent[r] = "alive"
    /\ runState[r] \in {"starting", "stopping"}
    /\ runState' = [runState EXCEPT ![r] = "running"]
    /\ UNCHANGED <<agent, turnVars, lockVars, held, exitVars, ledgerVars, faults,
                   typed, lostCloses>>

(* Settle::pending: the states in which a retry is still waited for.       *)
PendingIn(how) ==
    {state \in RunStates :
        \/ how \in Live /\ state = how
        \/ how = "finish_stop" /\ state \in {"stopping", "exited"}
        \/ how = "back_to_running" /\ state = "stopping"
        \/ how = "relabel" /\ state = "stopped"}

(* settle_once of everything but reconcile, which is the actions above.    *)
(* The retry of a stop's last write closes no turn: one that a stop left   *)
(* over meets the turn the run was given since.                            *)
SettleRun(r, how) ==
    /\ at = "free" /\ how \in settle[r] \ Live
    /\ runState[r] \in PendingIn(how)
    /\ \/ how = "finish_stop" /\ CommitStopped(r)
       \/ how = "back_to_running" /\ BackToRunning(r) /\ UNCHANGED <<status, delivery>>
       \/ /\ how = "relabel" /\ Relabel(r, "stopped", "exited")
          /\ UNCHANGED <<status, delivery>>
    /\ IF how = "finish_stop" /\ runState[r] = "stopping"
         THEN LoseCloses(r) ELSE UNCHANGED lostCloses
    /\ settle' = [settle EXCEPT ![r] = @ \ {how}]
    /\ UNCHANGED <<agent, runOf, awaitsStart, retries, lockVars, held,
                   exitVars, owedClose, owedWrite, faults, typed>>

(* The run left the states in which the retry was waited for.              *)
SettleDropped(r, how) ==
    /\ how \in settle[r] /\ runState[r] \notin PendingIn(how)
    /\ settle' = [settle EXCEPT ![r] = @ \ {how}]
    /\ UNCHANGED <<runVars, turnVars, lockVars, held, exitVars, owedClose,
                   owedWrite, faults, typed, lostCloses>>

(* interruption::settle_one: a close that was owed.  If the turn is no     *)
(* longer in flight on that run there is nothing to settle.                *)
SettleOwedClose(t) ==
    /\ at = "free" /\ owedClose[t] # NoRun
    /\ IF status[t] = "in_flight" /\ runOf[t] = owedClose[t]
         THEN FailTurn(t)
         ELSE UNCHANGED status
    /\ owedClose' = [owedClose EXCEPT ![t] = NoRun]
    /\ UNCHANGED <<runVars, delivery, runOf, awaitsStart, retries,
                   lockVars, held, exitVars, owedWrite, settle, faults, typed,
                   lostCloses>>

----------------------------------------------------------------------------
(* The end of a turn on an active run: hooks, the fallback that reads the  *)
(* pane, and the sweep for turns that are stuck.  All take the lock.       *)

(* The section read the run in one of these states.  An exit, which needs  *)
(* no lock, may have ended the run since, and not have got to the turn:    *)
(* the CAS that closes it asks for in_flight on that run and no more.      *)
ReadOn(t, states) ==
    /\ status[t] = "in_flight"
    /\ runOf[t] \in {r \in Run : runState[r] \in states \/ exitAt[r] \in {"pick", "close"}}

CloseTurn(t, to, deliv) ==
    /\ at = "free"
    /\ status' = [status EXCEPT ![t] = to]
    /\ delivery' = [delivery EXCEPT ![t] = deliv]
    /\ UNCHANGED <<runVars, runOf, awaitsStart, retries, lockVars, held,
                   exitVars, ledgerVars, faults, typed, lostCloses>>

(* The CLI reports the end of the turn.  An answer to a turn whose         *)
(* delivery was unknown proves that it arrived.                            *)
HookCompletes(t) ==
    /\ ReadOn(t, Live)
    /\ CloseTurn(t, "completed",
                 IF delivery[t] = "unknown" THEN "ok" ELSE delivery[t])

HookFails(t) == ReadOn(t, Live) /\ CloseTurn(t, "failed", delivery[t])

(* No hook came and the pane is idle, or the CLI's own log has the answer  *)
(* or an error: only for what was delivered, whatever the run's state.     *)
Fallback(t) ==
    /\ status[t] = "in_flight" /\ delivery[t] = "ok"
    /\ \E to \in {"completed_fallback", "completed", "failed"} : CloseTurn(t, to, "ok")

LateHook(t) ==
    /\ status[t] = "completed_fallback"
    /\ CloseTurn(t, "completed", delivery[t])

(* stuck_turns: in flight too long on a run that is running.               *)
FailNeverSent(t) ==
    /\ ReadOn(t, {"running"})
    /\ delivery[t] = "pending"
    /\ CloseTurn(t, "failed", "failed")

(* A mistake the checks must find: what may have been typed is denied.     *)
FailUnconfirmedAsUnsent(t) ==
    /\ ReadOn(t, {"running"})
    /\ delivery[t] = "unknown"
    /\ CloseTurn(t, "failed", "failed")

FailUnconfirmed(t) ==
    /\ ReadOn(t, {"running"})
    /\ delivery[t] = "unknown"
    /\ CloseTurn(t, "failed", "unknown")

----------------------------------------------------------------------------
(* The specification.                                                      *)

LockStep ==
    \/ PromptInsert \/ PromptQueue
    \/ \E o \in Outcomes : TypeText(o)
    \/ RecordOutcome \/ RecordFails
    \/ FlushClaim \/ ExternalInsert
    \/ \E r \in Run : RestartStart(r)
    \/ RestartRefused \/ Launch \/ LaunchCommit \/ LaunchAbort \/ RestartFailed
    \/ StopFailTurn \/ StopKill \/ StopUndo \/ StopCommit \/ RestartStopCommit
    \/ ReconcileDone

ExitStep(p) ==
    \/ /\ p \in Run
       /\ ExitCommit(p) \/ ExitCommitStopping(p) \/ ExitPick(p) \/ ExitClose(p)
    \/ OrphanCheck(p) \/ OrphanRevoke(p)

TurnStep(t) ==
    \/ \E r \in Run : PromptRead(t, r) \/ FlushRead(t, r) \/ ExternalRead(t, r)
    \/ QueueForStart(t) \/ Withdraw(t)
    \/ SettleOwedWrite(t) \/ SettleOwedClose(t)
    \/ HookCompletes(t) \/ HookFails(t) \/ Fallback(t) \/ LateHook(t)
    \/ FailNeverSent(t) \/ FailUnconfirmed(t)

RunStep(r) ==
    \/ Start(r) \/ StopBegin(r, TRUE) \/ StopBegin(r, FALSE)
    \/ AgentDies(r) \/ ExitRead(r) \/ ReconcileExit(r) \/ ReconcileAlive(r)
    \/ \E how \in Settles : SettleRun(r, how) \/ SettleDropped(r, how)

Next ==
    \/ LockStep \/ RestartNoRun \/ SweepStart
    \/ \E p \in Run \cup {Sweep} : ExitStep(p)
    \/ \E t \in Turns : TurnStep(t)
    \/ \E r \in Run : RunStep(r)

Spec == Init /\ [][Next]_vars

(* The timed retries of what was owed for a turn, and for a run.           *)
TurnRetry(t) == SettleOwedWrite(t) \/ SettleOwedClose(t)

RunRetry(r) ==
    \/ \E how \in Settles : SettleRun(r, how) \/ SettleDropped(r, how)
    \/ runState[r] \in settle[r] /\ (ReconcileExit(r) \/ ReconcileAlive(r))

(* Sections of the lock end and exits go on; timers and the sweep fire     *)
(* again and again, and the lock is fair, so they get it some time.        *)
Fairness ==
    /\ WF_vars(LockStep)
    /\ \A p \in Run \cup {Sweep} : WF_vars(ExitStep(p))
    /\ WF_vars(SweepStart)
    /\ \A t \in Turns : SF_vars(TurnRetry(t))
    /\ \A r \in Run : SF_vars(RunRetry(r))

FairSpec == Spec /\ Fairness

----------------------------------------------------------------------------
(* What should hold.                                                       *)

Ended(r) == runState[r] \in {"stopped", "exited"}

(* A turn in flight on a run that has ended is on its way to being closed: *)
(* the exit that ended the run is about to, or the close is owed and will  *)
(* be retried (interruption).  There are three exceptions, and each is     *)
(* recorded at the step that makes it: the exit's read of the turn failed, *)
(* its entry in the ledger was overwritten by the exit of another run, or  *)
(* the left-over retry of a stop ended the run under it.                   *)
CloseIsComing(t) ==
    \/ exitAt[runOf[t]] = "pick"
    \/ exitAt[runOf[t]] = "close" /\ exitTurn[runOf[t]] = t
    \/ owedClose[t] = runOf[t]

CloseWasLost(t) == <<t, runOf[t]>> \in lostCloses

EndedRunTurnIsOwned ==
    \A t \in WebTurns :
        status[t] = "in_flight" /\ Ended(runOf[t]) =>
            CloseIsComing(t) \/ CloseWasLost(t)

(* The same for every turn, the agent's own included.                      *)
EveryEndedRunTurnIsOwned ==
    \A t \in Turns :
        status[t] = "in_flight" /\ Ended(runOf[t]) =>
            CloseIsComing(t) \/ CloseWasLost(t)

(* No two turns are in flight on one run: a hook could not tell whose      *)
(* answer it brings, and the unique index makes the second write an error. *)
OneInFlightPerRun ==
    \A r \in Run : \A t, u \in InFlightOn(r) : t = u

(* Outside a section of the lock, a prompt in flight whose delivery is     *)
(* still pending has its result owed: without that it would be neither     *)
(* delivered again nor closed, whether its run goes on or has ended.       *)
PendingHasAWayOut ==
    at = "free" =>
        \A t \in WebTurns :
            status[t] = "in_flight" /\ delivery[t] = "pending" =>
                owedWrite[t] # "none"

(* What the daemon reports as never sent was never typed, unless the       *)
(* record that it was is still owed.                                       *)
AboutToRecord(t) ==
    at = "record" /\ onTurn = t /\ outcome \in {"sent", "unproven"}

NeverSentIsTrue ==
    \A t \in Turns :
        typed[t] > 0 /\ (delivery[t] \in {"pending", "failed"}
                            \/ status[t] \in {"none", "queued", "deleted"}) =>
            owedWrite[t] \in {"sent", "unproven"} \/ AboutToRecord(t)

(* What the daemon takes to be untyped was not typed: the turn a section   *)
(* is about to type, one it is about to put back or to fail as not sent,   *)
(* one for which such a write is owed, and every queued or withdrawn row.  *)
(* Nothing is owed for a row that is not there yet or is queued again.     *)
SectionKnowsUntyped ==
    /\ at \in {"prompt", "external"} => onTurn \in Turns /\ status[onTurn] = "none"
    /\ at = "flush" => onTurn \in Turns
    /\ at \in {"typing", "record"} =>
          /\ onTurn \in Turns
          /\ status[onTurn] \in {"in_flight", "failed"}
          /\ owedWrite[onTurn] = "none"
    /\ at = "typing" \/ (at = "record" /\ outcome \notin {"sent", "unproven"}) =>
          typed[onTurn] = 0

LedgerKnowsUntyped ==
    \A t \in Turns :
        /\ owedWrite[t] \notin {"none", "sent", "unproven"} => typed[t] = 0
        /\ status[t] \in {"none", "queued", "deleted"} =>
              typed[t] = 0 /\ owedWrite[t] = "none"

UntypedIsKnown == SectionKnowsUntyped /\ LedgerKnowsUntyped

(* Every path keeps what TurnGuard promises: the legal edges of a turn's   *)
(* status, its text typed at most once, and nothing that was typed queued  *)
(* again or withdrawn.                                                     *)
Guard == INSTANCE TurnGuard WITH Turns <- Turns, status <- status, typed <- typed

KeepsGuard == Guard!Spec

(* Once a stop has closed the turn in flight, no other turn is in flight   *)
(* on the run it is about to kill.                                         *)
StopKillsNoTurn ==
    at \in {"stop_kill", "stop_commit"} => InFlightOn(onRun) = {}

(* A relayed prompt is not claimed before one of the user's that is queued *)
(* already, though the flush chose it several awaits earlier.              *)
UserGoesFirst ==
    [][FlushClaim /\ status' # status /\ onTurn \in RelayTurns =>
          Queued \subseteq RelayTurns]_vars

(* A restart that has stopped its run finds no active run in its way.      *)
RestartFindsNoRun == at = "restart" => ActiveRuns = {}

(* A run that ended stays ended, and the label of one the user stopped     *)
(* changes only when a restart of it failed to bring the bot back.         *)
EndedStays ==
    [][\A r \in Run :
          Ended(r) => /\ runState'[r] \in {"stopped", "exited"}
                      /\ runState[r] = "stopped" /\ runState'[r] = "exited" =>
                            (at = "restart_failed" /\ oldRun = r)
                              \/ "relabel" \in settle[r]]_vars

(* A prompt in flight on a run that ended is closed in the end, unless its *)
(* close was lost in one of the three ways above.                          *)
EndedRunTurnCloses ==
    \A t \in WebTurns :
        (status[t] = "in_flight" /\ runOf[t] # NoRun /\ Ended(runOf[t]))
            ~> (status[t] # "in_flight" \/ CloseWasLost(t))

(* A bot without a run does not keep relayed prompts queued.               *)
OrphansLeave ==
    \A t \in WebTurns :
        (t \in Orphans /\ ActiveRuns = {})
            ~> (t \notin Orphans \/ ActiveRuns # {})

=============================================================================
