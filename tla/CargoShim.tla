------------------------------ MODULE CargoShim ------------------------------
(***************************************************************************)
(* The cargo wrapper of a managed bot (crates/am-base/src/cargo_shim.rs)   *)
(* against the table of build slots: it polls for a slot, runs cargo under *)
(* it while a watcher renews the lease, stops cargo before the lease can   *)
(* be another's, and gives the slot back.                                  *)
(*                                                                         *)
(* Requests and answers get lost; the wrapper, or its whole process group, *)
(* is killed; leases run out.  Nobody is late: a timer that ran down is    *)
(* acted on before time passes (a process that is stopped for longer than  *)
(* its lease is outside the model).  Stopping the process tree is one step *)
(* (SIGSTOP freezes it before anything else is done to it).                *)
(***************************************************************************)
EXTENDS BuildScheduler

CONSTANTS
    Curl,        \* time limit of a call
    Pause,       \* between a failed call and the next one
    PollEvery,   \* retry_after_secs: between two polls
    RenewEvery,  \* _renew_every
    DownMax,     \* _down_max: failed polls in a row before the wrapper gives up
    Reuse,       \* a process may get the number, hence the row, of one that was killed
    MaxFaults    \* calls lost and processes killed (bound)

ASSUME ShimAssumption ==
    /\ {Curl, Pause, PollEvery, RenewEvery, DownMax} \subseteq Nat \ {0}
    /\ RenewEvery < Ttl /\ Reuse \in BOOLEAN /\ MaxFaults \in Nat
    /\ \A t, u \in Tokens \cup {Nil} : \E v \in Tokens : v # t /\ v # u

\* Between two renewals a third of the lease passes, and a call takes at most half of that.
ASSUME TimingAssumption == RenewEvery + Curl + Curl < Ttl

\* Between two answers to one who polls lie two calls and a pause: 5 + 5 + 5 s, or 5 + 3 + 5
\* after a failure, where the daemon takes 20 s of silence for an absence and 60 s for an end.
ASSUME RhythmAssumption ==
    /\ Curl + Pause + Curl < LiveWaiter
    /\ Curl + PollEvery + Curl < LiveWaiter
    /\ LiveWaiter <= StaleWaiting

VARIABLES
    shim,        \* the wrapper of every holder, with its watcher and its cargo
    net,         \* its call: not sent yet or answered, lost, or the answer
    faults       \* what went wrong so far (bound)

vars == <<slots, shim, net, faults>>

Polling == {"asking", "waiting"}
Running == {"building", "renewing"}
Leaving == {"cancelling", "releasing"}
Answers == {"granted", "full", "mismatch", "busy", "renewed", "rejected", "released"}

Shim == [at : Polling \cup Running \cup Leaving \cup {"off"},
         alive : BOOLEAN,      \* the wrapper itself; its watcher outlives it
         cargo : BOOLEAN,
         bot : Bots \cup {Nil}, token : Tokens \cup {Nil},
         timer : Nat,          \* until the call times out or the sleep ends
         due : Nat,            \* _deadline: until it must have stopped cargo
         down : Nat,
         repeat : BOOLEAN,     \* history: the token came with an older lease
         heard : BOOLEAN]      \* history: the last poll reached the daemon

ShimTypeOK ==
    /\ SlotsTypeOK
    /\ shim \in [Holders -> Shim]
    /\ net \in [Holders -> Answers \cup {"idle", "sent", "lost"}]
    /\ faults \in 0 .. MaxFaults

Off == [at |-> "off", alive |-> FALSE, cargo |-> FALSE, bot |-> Nil, token |-> Nil,
        timer |-> 0, due |-> 0, down |-> 0, repeat |-> FALSE, heard |-> FALSE]

ShimInit ==
    /\ SlotsInit
    /\ shim = [s \in Holders |-> Off]
    /\ net = [s \in Holders |-> "idle"]
    /\ faults = 0

-----------------------------------------------------------------------------

\* The wrapper goes on as r, with the call it then has in flight.
Goes(s, r, call) ==
    /\ shim' = [shim EXCEPT ![s] = r]
    /\ net' = [net EXCEPT ![s] = call]
    /\ UNCHANGED <<slots, faults>>

Ask(r) == [r EXCEPT !.at = "asking", !.timer = Curl, !.due = Ttl]
Leave(r, how) == [r EXCEPT !.at = how, !.cargo = FALSE, !.timer = Curl, !.due = 0, !.repeat = FALSE]
Sleep(r, how, ticks) == [r EXCEPT !.at = how, !.timer = ticks]

Start(s, b) ==
    /\ shim[s].at = "off" /\ (Reuse \/ rows[s].status = "none")
    /\ Goes(s, Ask([Off EXCEPT !.alive = TRUE, !.bot = b]), "sent")

Poll(s) ==
    /\ shim[s].at = "waiting" /\ shim[s].timer = 0
    /\ Goes(s, Ask(shim[s]), "sent")

\* The slot is not released: an answer that was not understood, or none at all.
Down(s) ==
    IF shim[s].down + 1 >= DownMax
    THEN Goes(s, Off, "idle")
    ELSE Goes(s, [Sleep(shim[s], "waiting", Pause) EXCEPT !.down = @ + 1, !.due = 0], "idle")

Told(s) ==
    /\ shim[s].at = "asking"
    /\ \/ /\ net[s] = "granted"
          /\ Goes(s, [Sleep(shim[s], "building", RenewEvery) EXCEPT !.cargo = TRUE, !.down = 0], "idle")
       \/ /\ net[s] = "full"
          /\ Goes(s, [Sleep(shim[s], "waiting", PollEvery) EXCEPT !.down = 0, !.due = 0], "idle")
       \/ /\ net[s] = "mismatch"
          /\ Goes(s, Off, "idle")
       \/ /\ net[s] \in {"busy", "lost"}
          /\ Down(s)

\* _abort_wait, and the caller that is gone: the number is handed back, or the slot
\* if the answer that grants it is already there.
Interrupt(s) ==
    \/ /\ shim[s].at \in Polling /\ net[s] # "granted"
       /\ Goes(s, Leave(shim[s], "cancelling"), "sent")
    \/ /\ shim[s].at = "asking" /\ net[s] = "granted"
       /\ Goes(s, Leave(shim[s], "releasing"), "sent")

\* cargo ends; the wrapper gives the slot back, a dead wrapper's watcher does so when it wakes.
Finish(s) ==
    /\ shim[s].cargo
    /\ IF shim[s].alive
       THEN Goes(s, Leave(shim[s], "releasing"), "sent")
       ELSE Goes(s, [shim[s] EXCEPT !.cargo = FALSE], net[s])

\* am_lease_watch wakes up.
Wake(s) ==
    /\ shim[s].at = "building" /\ shim[s].timer = 0
    /\ IF shim[s].alive \/ shim[s].cargo
       THEN Goes(s, Sleep(shim[s], "renewing", Curl), "sent")
       ELSE Goes(s, Leave(shim[s], "releasing"), "sent")

\* A mistake the checks must find: the time limit of the next try is not counted.
RenewToldLate(s) ==
    /\ shim[s].at = "renewing"
    /\ \/ /\ net[s] = "renewed"
          /\ Goes(s, [Sleep(shim[s], "building", RenewEvery)
                        EXCEPT !.due = Ttl - (Curl - shim[s].timer), !.repeat = FALSE], "idle")
       \/ /\ net[s] = "rejected"
          /\ Goes(s, Leave(shim[s], "releasing"), "sent")
       \/ /\ net[s] = "lost"
          /\ IF shim[s].due < Pause
             THEN Goes(s, Leave(shim[s], "releasing"), "sent")
             ELSE Goes(s, Sleep(shim[s], "building", Pause), "idle")

\* The deadline counts from when the renewal was sent, not from its answer.
RenewTold(s) ==
    /\ shim[s].at = "renewing"
    /\ \/ /\ net[s] = "renewed"
          /\ Goes(s, [Sleep(shim[s], "building", RenewEvery)
                        EXCEPT !.due = Ttl - (Curl - shim[s].timer), !.repeat = FALSE], "idle")
       \/ /\ net[s] = "rejected"
          /\ Goes(s, Leave(shim[s], "releasing"), "sent")
       \/ /\ net[s] = "lost"
          /\ IF shim[s].due <= Pause + Curl
             THEN Goes(s, Leave(shim[s], "releasing"), "sent")
             ELSE Goes(s, Sleep(shim[s], "building", Pause), "idle")

\* am_release_lease tries again or gives up; a cancellation is sent once.
LeaveTold(s) ==
    \/ /\ shim[s].at \in Leaving /\ net[s] \in {"released", "lost"}
       /\ Goes(s, Off, "idle")
    \/ /\ shim[s].at = "releasing" /\ net[s] = "lost"
       /\ Goes(s, Sleep(shim[s], "releasing", Curl), "sent")

-----------------------------------------------------------------------------

Fresh(s) == CHOOSE t \in Tokens : t # rows[s].token /\ t # shim[s].token

Answer(s, a) ==
    /\ net' = [net EXCEPT ![s] = a]
    /\ UNCHANGED faults
Hears(s, a, t, old) ==
    /\ Answer(s, a)
    /\ shim' = [shim EXCEPT ![s].heard = TRUE, ![s].token = t, ![s].repeat = old]

DaemonAcquires(s) ==
    LET b == shim[s].bot IN
    /\ shim[s].at = "asking" /\ net[s] = "sent"
    /\ \/ Grant(s, b, Fresh(s)) /\ Hears(s, "granted", Fresh(s), FALSE)
       \/ Repeat(s, b) /\ Hears(s, "granted", rows[s].token, TRUE)
       \/ Queue(s, b) /\ Hears(s, "full", Nil, FALSE)
       \/ Refuse(s, b) /\ Hears(s, IF OwnedByAnother(s, b) THEN "mismatch" ELSE "busy", Nil, FALSE)

DaemonRenews(s) ==
    /\ shim[s].at = "renewing" /\ net[s] = "sent"
    /\ \/ Renew(s, shim[s].token) /\ Answer(s, "renewed")
       \/ ~Renewable(s, shim[s].token) /\ Answer(s, "rejected") /\ UNCHANGED slots
    /\ UNCHANGED shim

DaemonReleases(s) ==
    /\ net[s] = "sent"
    /\ \/ shim[s].at = "releasing" /\ Release(s, shim[s].token)
       \/ shim[s].at = "cancelling" /\ Cancel(s, shim[s].bot)
    /\ Answer(s, "released")
    /\ UNCHANGED shim

DaemonReaps == (Sweep \/ Status) /\ UNCHANGED <<shim, net, faults>>

Fault == faults < MaxFaults /\ faults' = faults + 1

\* A request does not reach the daemon, or its answer does not reach the wrapper.
Lose(s) ==
    /\ Fault
    /\ net[s] \in {"sent"} \cup Answers
    /\ net' = [net EXCEPT ![s] = "lost"]
    /\ shim' = [shim EXCEPT ![s] =
                  IF @.at = "asking"
                  THEN [@ EXCEPT !.heard = net[s] # "sent", !.token = Nil, !.repeat = FALSE] ELSE @]
    /\ UNCHANGED slots

\* SIGKILL of the wrapper alone: the watcher and cargo go on; of the whole group.
Kill(s) ==
    /\ Fault /\ shim[s].alive
    /\ \/ shim[s].at \in Running /\ shim' = [shim EXCEPT ![s].alive = FALSE] /\ UNCHANGED net
       \/ shim' = [shim EXCEPT ![s] = Off] /\ net' = [net EXCEPT ![s] = "idle"]
    /\ UNCHANGED slots

Minus1(n) == IF n > 0 THEN n - 1 ELSE 0
Tick ==
    /\ \A s \in Holders : shim[s].at = "off" \/ shim[s].timer > 0
    /\ shim' = [s \in Holders |-> [shim[s] EXCEPT !.timer = Minus1(@), !.due = Minus1(@)]]
    /\ Pass
    /\ UNCHANGED <<net, faults>>

Steps(s) == Poll(s) \/ Told(s) \/ Wake(s) \/ RenewTold(s) \/ LeaveTold(s)
Daemon(s) == DaemonAcquires(s) \/ DaemonRenews(s) \/ DaemonReleases(s)

ShimNext ==
    \/ \E s \in Holders : \/ \E b \in Bots : Start(s, b)
                          \/ Steps(s) \/ Daemon(s)
                          \/ Interrupt(s) \/ Finish(s) \/ Lose(s) \/ Kill(s)
    \/ DaemonReaps \/ Tick

\* The wrapper and the daemon act, time passes, cargo ends, the sweeper comes round.
ShimFairness ==
    /\ \A s \in Holders : WF_vars(Steps(s)) /\ WF_vars(Daemon(s)) /\ WF_vars(Finish(s))
    /\ WF_vars(Tick)
    /\ WF_vars(Sweep /\ UNCHANGED <<shim, net, faults>>)

ShimSafeSpec == ShimInit /\ [][ShimNext]_vars
ShimSpec == ShimSafeSpec /\ ShimFairness

-----------------------------------------------------------------------------

\* Cargo runs only under a slot: while the cargo of a holder runs, the table has its
\* row with its token, so builds never outnumber slots (cargo_shim.rs:247-250, "a
\* holder that lives but lost its lease must stop using the capacity"), through lost
\* renewals, a wrapper that was killed, leases that ran out.  The one exception is a
\* token that was handed out a second time with a lease that was already running.
RunsOnItsSlot ==
    \A s \in Holders : shim[s].cargo /\ ~shim[s].repeat =>
        rows[s].status = "held" /\ rows[s].token = shim[s].token

\* Nobody who polls is overtaken: a slot goes to s past v, who waits since before s,
\* only if v is gone, or its last poll was lost on the way (build_scheduler.rs:161-166,
\* FIFO_LIVE_WAITER 58-60 against the rhythm of the polls, cargo_shim.rs:639-711).
NoOvertaking ==
    [][\A s, v \in Holders :
          /\ rows[s].status # "held" /\ rows'[s].status = "held"
          /\ v \in Waiting /\ s # v /\ <<s, v>> \notin ahead
          => ~(shim[v].at \in Polling /\ shim[v].heard /\ shim[v].bot = rows[v].bot)]_vars

\* Who waits for a slot gets one, is refused or gives up, however many others come
\* and go (cargo_shim.rs:639-711; the shell script before it starved one for 74 minutes).
WaiterIsServed ==
    \A s \in Holders : shim[s].at = "waiting" ~> shim[s].at \notin Polling

\* The slot of a process group that was killed comes free again, though nobody gives
\* it back (reap_expired_held, build_scheduler.rs:115-122).
DeadSlotComesFree ==
    \A s \in Holders : rows[s].status = "held" /\ shim[s].at = "off"
                         ~> rows[s].status # "held" \/ shim[s].at # "off"

\* Builds never outnumber slots (cargo_shim.rs:247-250): a wrapper stops its cargo by
\* a deadline of which the code says that "the expiry the daemon recorded is surely not
\* earlier" (cargo_shim.rs:374, again at 824).
BuildsWithinMax == Cardinality({s \in Holders : shim[s].cargo}) <= MaxHeld
=============================================================================
