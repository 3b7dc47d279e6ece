---------------------------- MODULE MaintenanceGate ----------------------------
(***************************************************************************)
(* The restart window: approvals, the lease that opens the window          *)
(* (supervisor/maintenance.rs, store.rs, runners/supervisor/api.rs), and   *)
(* the gates that keep the daemon from typing into a pane while it is open *)
(* (lifecycle/prompt.rs, queue.rs).                                        *)
(*                                                                         *)
(* acquire and renew run under the supervisor's lock, release does not: it *)
(* is three statements, and so is a forced one.  A time is its distance    *)
(* from now.  The token of a lease is drawn with its fence and is known by *)
(* it.  A client carries one request id per approval; when its connection  *)
(* is lost, so is the handler that served it.  The lease "rebuild", which  *)
(* closes nothing, is left out, and so are the assignments a window holds. *)
(***************************************************************************)
EXTENDS Naturals

CONSTANTS
    Bots,
    Clients,     \* who ask for windows: the ops scripts, a bot in its own turn
    OwnBot,      \* the bot a client is, and asks to be left out of the idle check, or Nil
    Approvals,
    Requester,   \* the client an approval was given to
    Nil,
    Ttl,         \* of a lease
    Life,        \* of an approval: effective_expiry
    MaxFence,    \* windows opened (bound)
    MaxFaults    \* lost connections, crashes, forced releases, revocations (bound)

Agm == "AGM"     \* forces a release
Releasers == Clients \cup {Agm}

ASSUME GateAssumption ==
    /\ Nil \notin Bots \cup Clients \cup Approvals /\ Agm \notin Clients
    /\ OwnBot \in [Clients -> Bots \cup {Nil}] /\ Requester \in [Approvals -> Clients]
    /\ {Ttl, Life} \subseteq Nat \ {0} /\ {MaxFence, MaxFaults} \subseteq Nat

VARIABLES
    turn,        \* the turn of every bot: "asked" and "taken" have read the gate and wrote nothing yet
    from,        \* where a pending turn came from, and goes back to
    agent,       \* runs.agent_status
    lease,       \* the row of supervisor_leases
    approval,    \* supervisor_approvals
    client,      \* what every client is doing, and knows
    lock,        \* the acquire that holds the supervisor's lock
    release,     \* the releases in progress
    opened,      \* history: windows opened with an approval
    faults       \* what went wrong so far (bound)

bots == <<turn, from, agent>>
books == <<lease, approval, opened>>
vars == <<turn, from, agent, lease, approval, client, lock, release, opened, faults>>

InFlight == {"pending", "typing", "ok", "unknown", "retyping"}

Lease == [fence : 0 .. MaxFence, owner : Clients \cup {Nil}, approval : Approvals \cup {Nil},
          left : 0 .. Ttl, released : BOOLEAN, forced : BOOLEAN]
Permission == [status : {"approved", "consumed", "revoked"}, left : 0 .. Life]
Caller == [at : {"idle", "acquiring", "holding", "releasing"},
           net : {"none", "sent", "granted", "refused", "done", "lost"},
           approval : Approvals \cup {Nil}, fence : 0 .. MaxFence]
Locked == [step : {"none", "take", "consume"}, by : Clients \cup {Nil}, approval : Approvals \cup {Nil}]
Releasing == [step : {"none", "mark", "consume"}, fence : 0 .. MaxFence, approval : Approvals \cup {Nil}]
Free == [step |-> "none", by |-> Nil, approval |-> Nil]
NoRelease == [step |-> "none", fence |-> 0, approval |-> Nil]

TypeOK ==
    /\ turn \in [Bots -> {"none", "asked", "queued", "taken"} \cup InFlight]
    /\ from \in [Bots -> {"none", "queued"}]
    /\ agent \in [Bots -> {"idle", "working", "blocked"}]
    /\ lease \in Lease
    /\ approval \in [Approvals -> Permission]
    /\ client \in [Clients -> Caller]
    /\ lock \in Locked
    /\ release \in [Releasers -> Releasing]
    /\ opened \in [Approvals -> 0 .. MaxFence]
    /\ faults \in 0 .. MaxFaults

NoClient == [at |-> "idle", net |-> "none", approval |-> Nil, fence |-> 0]

Init ==
    /\ turn = [b \in Bots |-> "none"] /\ from = [b \in Bots |-> "none"]
    /\ agent = [b \in Bots |-> "idle"]
    /\ lease = [fence |-> 0, owner |-> Nil, approval |-> Nil, left |-> 0, released |-> TRUE, forced |-> FALSE]
    /\ approval = [p \in Approvals |-> [status |-> "approved", left |-> Life]]
    /\ client = [c \in Clients |-> NoClient]
    /\ lock = Free
    /\ release = [r \in Releasers |-> NoRelease]
    /\ opened = [p \in Approvals |-> 0]
    /\ faults = 0

Fault == faults < MaxFaults /\ faults' = faults + 1

\* held_at, and the gate every entrance reads.
Held == ~lease.released /\ lease.left > 0
WindowHeldForGood == ~lease.released    \* a mistake the checks must find
WindowHeld == Held

-----------------------------------------------------------------------------
(* Bots                                                                    *)

Moves(b, how) == turn' = [turn EXCEPT ![b] = how]
OnlyBots == UNCHANGED <<books, client, lock, release, faults>>

\* prompt: the gate, then the INSERT (a busy bot's prompt is queued), then the gate again.
Prompt(b) ==
    /\ turn[b] = "none" /\ ~WindowHeld
    /\ Moves(b, "asked")
    /\ UNCHANGED <<from, agent>> /\ OnlyBots

Insert(b) ==
    /\ turn[b] = "asked"
    /\ Moves(b, IF agent[b] = "idle" THEN "pending" ELSE "queued")
    /\ UNCHANGED <<from, agent>> /\ OnlyBots

\* flush: the gate, then the claim, then the gate again.
FlushRead(b) ==
    /\ turn[b] = "queued" /\ agent[b] = "idle" /\ ~WindowHeld
    /\ Moves(b, "taken")
    /\ UNCHANGED <<from, agent>> /\ OnlyBots

\* A mistake the checks must find: a turn goes back to where the claim found it.
FlushClaimFrom(b) ==
    /\ turn[b] = "taken"
    /\ Moves(b, "pending")
    /\ from' = [from EXCEPT ![b] = turn[b]]
    /\ UNCHANGED agent /\ OnlyBots

FlushClaim(b) ==
    /\ turn[b] = "taken"
    /\ Moves(b, "pending")
    /\ from' = [from EXCEPT ![b] = "queued"]
    /\ UNCHANGED agent /\ OnlyBots

\* A mistake the checks must find: the gate is not read again after the claim.
RecheckPromptOnly(b) ==
    /\ turn[b] = "pending"
    /\ Moves(b, IF WindowHeld /\ from[b] = "none" THEN "none" ELSE "typing")
    /\ from' = [from EXCEPT ![b] = "none"]
    /\ UNCHANGED agent /\ OnlyBots

\* The window opened meanwhile: the turn is withdrawn, or put back without a retry spent.
Recheck(b) ==
    /\ turn[b] = "pending"
    /\ Moves(b, IF WindowHeld THEN from[b] ELSE "typing")
    /\ from' = [from EXCEPT ![b] = "none"]
    /\ UNCHANGED agent /\ OnlyBots

Typed(b) ==
    /\ turn[b] \in {"typing", "retyping"}
    /\ \/ Moves(b, "ok")
       \/ turn[b] = "typing" /\ Moves(b, "none")
    /\ UNCHANGED <<from, agent>> /\ OnlyBots

TurnEnds(b) ==
    /\ turn[b] \in {"ok", "unknown"}
    /\ Moves(b, "none")
    /\ UNCHANGED <<from, agent>> /\ OnlyBots

\* resend_lost_prompt: the stall watchdog types once more what never reached the screen
\* (the code counts the tries of a turn, here there is no limit).
Resend(b) ==
    /\ turn[b] = "ok" /\ agent[b] = "idle"
    /\ Moves(b, "retyping")
    /\ UNCHANGED <<from, agent>> /\ OnlyBots

AgentTurns(b) ==
    /\ \E s \in {"idle", "working", "blocked"} \ {agent[b]} : agent' = [agent EXCEPT ![b] = s]
    /\ UNCHANGED <<turn, from>> /\ OnlyBots

-----------------------------------------------------------------------------
(* What acquire asks of the bots                                           *)

\* DELIVERY_CRITICAL_PREDICATE
Critical(b) ==
    \/ turn[b] \in {"queued", "taken"} /\ agent[b] = "idle"
    \/ turn[b] \in {"pending", "typing"}

Others(c) == Bots \ {OwnBot[c]}

\* safety_as: nothing runs; or, when the approval waited long enough, nothing is being delivered.
Safe(c, escalated) ==
    \/ \A b \in Others(c) : agent[b] # "working" /\ turn[b] \notin InFlight
    \/ /\ escalated
       /\ \A b \in Others(c) : ~Critical(b)
       /\ ~(Held /\ lease.owner # c)

Refused(p) == approval[p].status # "approved" \/ approval[p].left = 0   \* refusal
Spent(p) == ~Held /\ lease.approval = p                                 \* it opened the last window

Consumed(p) == [approval EXCEPT ![p].status = IF @ = "approved" THEN "consumed" ELSE @]
Least(m, n) == IF m < n THEN m ELSE n
DeadlineUncut(p) == Ttl                                                 \* a mistake the checks must find
Deadline(p) == Least(Ttl, approval[p].left)                             \* lease_deadline

-----------------------------------------------------------------------------
(* Clients                                                                 *)

Acts(c, r) == client' = [client EXCEPT ![c] = r]
OnlyClients == UNCHANGED <<bots, books, lock, release, faults>>

Ask(c, p) ==
    /\ client[c].at = "idle" /\ Requester[p] = c
    /\ Acts(c, [at |-> "acquiring", net |-> "sent", approval |-> p, fence |-> 0])
    /\ OnlyClients

GiveBack(c) ==
    /\ client[c].at = "holding"
    /\ Acts(c, [client[c] EXCEPT !.at = "releasing", !.net = "sent"])
    /\ OnlyClients

Told(c) ==
    /\ \/ /\ client[c].net = "granted"
          /\ Acts(c, [client[c] EXCEPT !.at = "holding", !.net = "none"])
       \/ /\ client[c].net \in {"refused", "done", "lost"}
          /\ Acts(c, NoClient)
       \/ /\ client[c].net = "lost"
          /\ Acts(c, [client[c] EXCEPT !.net = "sent"])
    /\ OnlyClients

-----------------------------------------------------------------------------
(* acquire, under the lock                                                 *)

Asking(c) == client[c].at = "acquiring" /\ client[c].net = "sent" /\ lock = Free
Answer(c, what) == client' = [client EXCEPT ![c].net = what]
OnlyLock == UNCHANGED <<bots, books, release, faults>>

\* An approval opens one window: one whose window is over is used up here if it still is not.
AcquireSpent(c) ==
    LET p == client[c].approval IN
    /\ Asking(c) /\ ~Refused(p) /\ Spent(p)
    /\ approval' = Consumed(p)
    /\ Answer(c, "refused")
    /\ UNCHANGED <<bots, lease, opened, lock, release, faults>>

\* The request that opened the window held gets its token again.
ReplayedNever(c) == FALSE    \* a mistake the checks must find
Replayed(c) == Held /\ lease.owner = c /\ lease.approval = client[c].approval

AcquireReplay(c) ==
    /\ Asking(c) /\ ~Refused(client[c].approval) /\ Replayed(c)
    /\ client' = [client EXCEPT ![c].net = "granted", ![c].fence = lease.fence]
    /\ UNCHANGED lock /\ OnlyLock

AcquireRefuse(c) ==
    /\ Asking(c)
    /\ \/ Refused(client[c].approval)
       \/ /\ ~Spent(client[c].approval) /\ ~Replayed(c)
          /\ \E escalated \in BOOLEAN : ~Safe(c, escalated)
    /\ Answer(c, "refused")
    /\ UNCHANGED lock /\ OnlyLock

AcquireCheck(c) ==
    LET p == client[c].approval IN
    /\ Asking(c) /\ ~Refused(p) /\ ~Spent(p) /\ ~Replayed(c)
    /\ \E escalated \in BOOLEAN : Safe(c, escalated)
    /\ lock' = [step |-> "take", by |-> c, approval |-> Nil]
    /\ UNCHANGED client /\ OnlyLock

\* acquire_lease: one conditional UPDATE; nobody holds it, and nothing is being delivered.
Takable(c) == ~Held /\ \A b \in Others(c) : ~Critical(b)

AcquireTake(c) ==
    LET p == client[c].approval
        stale == IF lease.released THEN Nil ELSE lease.approval IN
    /\ lock.step = "take" /\ lock.by = c /\ Takable(c) /\ lease.fence < MaxFence
    /\ lease' = [fence |-> lease.fence + 1, owner |-> c, approval |-> p, left |-> Deadline(p),
                 released |-> FALSE, forced |-> FALSE]
    /\ opened' = [opened EXCEPT ![p] = @ + 1]
    /\ lock' = [lock EXCEPT !.step = "consume", !.approval = IF stale = p THEN Nil ELSE stale]
    /\ UNCHANGED <<bots, approval, client, release, faults>>

AcquireLost(c) ==
    /\ lock.step = "take" /\ lock.by = c /\ ~Takable(c)
    /\ lock' = Free /\ Answer(c, "refused")
    /\ OnlyLock

\* The approval of a holder that never released is used up; then the answer.
AcquireDone(c) ==
    /\ lock.step = "consume" /\ lock.by = c
    /\ approval' = IF lock.approval = Nil THEN approval ELSE Consumed(lock.approval)
    /\ lock' = Free
    /\ client' = [client EXCEPT ![c].net = "granted", ![c].fence = lease.fence]
    /\ UNCHANGED <<bots, lease, opened, release, faults>>

\* renew: the permission is asked again; the row must be the caller's, and held.
Mine(c) == lease.owner = c /\ lease.fence = client[c].fence
Renew(c) ==
    LET p == lease.approval IN
    /\ client[c].at = "holding" /\ lock = Free
    /\ IF Mine(c) /\ Held /\ ~Refused(p)
         THEN lease' = [lease EXCEPT !.left = Deadline(p)] /\ UNCHANGED client
         ELSE Acts(c, NoClient) /\ UNCHANGED lease
    /\ UNCHANGED <<bots, approval, opened, lock, release, faults>>

\* An approval is revoked, under the lock.
Revoke(p) ==
    /\ Fault /\ lock = Free /\ approval[p].status = "approved"
    /\ approval' = [approval EXCEPT ![p].status = "revoked"]
    /\ UNCHANGED <<bots, lease, opened, client, lock, release>>

-----------------------------------------------------------------------------
(* release, without the lock                                               *)

Serving(r) == IF r = Agm THEN release[Agm].step # "none"
              ELSE client[r].at = "releasing" /\ client[r].net = "sent"
Reply(r) == IF r = Agm THEN UNCHANGED client ELSE Answer(r, "done")

\* The row is read, and the proof (the token of that row, or force) checked.
ReleaseRead(c) ==
    /\ Serving(c) /\ release[c].step = "none"
    /\ IF lease.fence = client[c].fence
         THEN /\ release' = [release EXCEPT ![c] = [step |-> "mark", fence |-> lease.fence,
                                                    approval |-> lease.approval]]
              /\ UNCHANGED client
         ELSE Reply(c) /\ UNCHANGED release
    /\ UNCHANGED <<bots, books, lock, faults>>

ForceRead ==
    /\ Fault /\ release[Agm].step = "none" /\ lease.fence > 0
    /\ release' = [release EXCEPT ![Agm] = [step |-> "mark", fence |-> lease.fence,
                                            approval |-> lease.approval]]
    /\ UNCHANGED <<bots, books, client, lock>>

\* release_lease, force_release_lease: only the row that was read.
SameAnyway(r) == TRUE    \* a mistake the checks must find
Same(r) == lease.fence = release[r].fence

ReleaseMark(r) ==
    /\ Serving(r) /\ release[r].step = "mark"
    /\ IF Same(r) /\ ~lease.released
         THEN /\ lease' = [lease EXCEPT !.released = TRUE, !.forced = (r = Agm)]
              /\ release' = [release EXCEPT ![r].step = "consume"]
              /\ UNCHANGED client
         ELSE Reply(r) /\ release' = [release EXCEPT ![r] = NoRelease] /\ UNCHANGED lease
    /\ UNCHANGED <<bots, approval, opened, lock, faults>>

\* A mistake the checks must find: the row is read again for its approval.
ReleaseConsumeLatest(r) ==
    /\ Serving(r) /\ release[r].step = "consume"
    /\ approval' = Consumed(lease.approval)
    /\ Reply(r) /\ release' = [release EXCEPT ![r] = NoRelease]
    /\ UNCHANGED <<bots, lease, opened, lock, faults>>

\* The approval of the row that was read is used up.
ReleaseConsume(r) ==
    /\ Serving(r) /\ release[r].step = "consume"
    /\ approval' = Consumed(release[r].approval)
    /\ Reply(r) /\ release' = [release EXCEPT ![r] = NoRelease]
    /\ UNCHANGED <<bots, lease, opened, lock, faults>>

-----------------------------------------------------------------------------
(* Faults and time                                                         *)

\* A connection breaks: the handler is dropped wherever it is, or the answer is lost.
Lose(c) ==
    /\ Fault /\ client[c].net \notin {"none", "lost"}
    /\ Answer(c, "lost")
    /\ lock' = IF lock.by = c THEN Free ELSE lock
    /\ release' = [release EXCEPT ![c] = NoRelease]
    /\ UNCHANGED <<bots, books>>

\* The daemon dies and starts again; until release_restart_on_startup is done it answers 503.
\* A turn caught in its delivery stays in flight, unknown, and is not typed again (reconcile.rs).
Restarted(t) == CASE t = "asked" -> "none" [] t = "taken" -> "queued" [] t = "retyping" -> "ok"
                  [] t \in {"pending", "typing"} -> "unknown" [] OTHER -> t
Crash ==
    /\ Fault
    /\ turn' = [b \in Bots |-> Restarted(turn[b])]
    /\ from' = [b \in Bots |-> "none"]
    /\ client' = [c \in Clients |-> [client[c] EXCEPT !.net = IF @ = "sent" THEN "lost" ELSE @]]
    /\ lock' = Free /\ release' = [r \in Releasers |-> NoRelease]
    /\ IF lease.released
         THEN UNCHANGED <<lease, approval>>
         ELSE /\ lease' = [lease EXCEPT !.released = TRUE, !.forced = TRUE]
              /\ approval' = Consumed(lease.approval)
    /\ UNCHANGED <<agent, opened>>

Minus1(n) == IF n > 0 THEN n - 1 ELSE 0
Tick ==
    /\ lease' = [lease EXCEPT !.left = Minus1(@)]
    /\ approval' = [p \in Approvals |-> [approval[p] EXCEPT !.left = Minus1(@)]]
    /\ UNCHANGED <<bots, opened, client, lock, release, faults>>

Flush(b) == FlushRead(b) \/ FlushClaim(b) \/ Recheck(b) \/ Typed(b)
Acquire(c) ==
    \/ AcquireSpent(c) \/ AcquireReplay(c) \/ AcquireRefuse(c)
    \/ AcquireCheck(c) \/ AcquireTake(c) \/ AcquireLost(c) \/ AcquireDone(c)

Next ==
    \/ \E b \in Bots : Prompt(b) \/ Insert(b) \/ Flush(b) \/ TurnEnds(b) \/ Resend(b) \/ AgentTurns(b)
    \/ \E c \in Clients : \/ \E p \in Approvals : Ask(c, p)
                          \/ GiveBack(c) \/ Told(c) \/ Renew(c) \/ Acquire(c) \/ ReleaseRead(c) \/ Lose(c)
    \/ \E r \in Releasers : ReleaseMark(r) \/ ReleaseConsume(r)
    \/ \E p \in Approvals : Revoke(p)
    \/ ForceRead \/ Crash \/ Tick

\* The daemon goes on with what it began, a flush is tried again, and time passes.
Fairness ==
    /\ \A b \in Bots : WF_vars(Flush(b))
    /\ WF_vars(\E c \in Clients : Acquire(c))
    /\ WF_vars(Tick)

SafeSpec == Init /\ [][Next]_vars
Spec == SafeSpec /\ Fairness

-----------------------------------------------------------------------------

\* While the window is open no word of a prompt or of the queue goes into the pane of a
\* bot (prompt.rs:1311-1314, queue.rs:265-268): the prompt that read the gate before the
\* window opened finds it when it looks again, or its turn kept the window from opening.
NoTypingInWindow ==
    \A b \in Bots : turn[b] = "typing" /\ Held => OwnBot[lease.owner] = b

\* Who holds the window keeps it until it gives it back or it runs out: no late release
\* of an earlier holder takes it away, only force or a restart (the fence, store.rs:2914-2917).
HolderKeepsWindow ==
    \A c \in Clients :
        client[c].at = "holding" /\ Mine(c) /\ lease.released => lease.forced

\* The approval of an open window is not used up by the release or the expiry of another
\* window (maintenance.rs:340-342), where it opened no other one.
HeldIsApproved ==
    Held /\ opened[lease.approval] = 1 => approval[lease.approval].status # "consumed"

\* No window outlives the permission it rests on, renewed or not (maintenance.rs:698-700).
LeaseWithinApproval == Held => lease.left <= approval[lease.approval].left

\* Who is refused holds no window: when the answer that granted it was lost, asking again
\* gives it back (maintenance.rs:563-570), unless the permission was revoked meanwhile
\* (or had been left unconsumed by an earlier window).
RefusedHasNoWindow ==
    \A c \in Clients : client[c].at = "acquiring" /\ client[c].net = "refused" /\ Held
        /\ lease.owner = c /\ lease.approval = client[c].approval
        => approval[lease.approval].status = "revoked" \/ opened[lease.approval] > 1

\* A window that nobody closes does not close the queue for good: a queued prompt goes out
\* once the agent stays idle (maintenance.rs:266-267, queue.rs:166-176).
QueuedGoesOut ==
    \A b \in Bots : <>[](agent[b] = "idle") => (turn[b] = "queued" ~> turn[b] \in {"ok", "unknown", "none"})

\* "One yes, one window" (maintenance.rs:329).
OneYesOneWindow == \A p \in Approvals : opened[p] <= 1
=============================================================================
