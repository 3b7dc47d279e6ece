------------------------ MODULE MaintenanceGate_proofs ------------------------
(***************************************************************************)
(* What holds of the restart window (MaintenanceGate) for any number of    *)
(* bots, clients, approvals and faults.                                    *)
(***************************************************************************)
EXTENDS MaintenanceGate, TLAPS

(* A lease that was taken names its owner and its approval, and every      *)
(* window opened took a fence.                                             *)
LeaseInv ==
    /\ ~lease.released => lease.fence > 0
    /\ lease.fence > 0 => /\ lease.owner \in Clients /\ lease.approval \in Approvals
                          /\ opened[lease.approval] >= 1
    /\ lease.fence = 0 => lease.approval = Nil
    /\ \A p \in Approvals : /\ opened[p] <= lease.fence
                            /\ approval[p].status = "consumed" => opened[p] >= 1

(* The fence a client knows was its own; the last one still is.            *)
Known(c, r) ==
    /\ r.at \in {"idle", "holding"} => r.net = "none"
    /\ r.net = "granted" => r.at = "acquiring"
    /\ r.at # "idle" => r.approval \in Approvals
    /\ r.at \in {"holding", "releasing"} \/ r.net = "granted" => r.fence > 0
    /\ r.fence <= lease.fence
    /\ r.fence = lease.fence /\ lease.fence > 0 => lease.owner = c
    /\ /\ r.at = "holding" \/ r.net = "granted"
       /\ lease.owner = c /\ lease.fence = r.fence /\ lease.released
       => lease.forced

(* A client that was refused has no window; see RefusedHasNoWindow.        *)
HasNone(c, r) ==
    /\ r.at = "acquiring" /\ r.net = "refused"
    /\ Held /\ lease.owner = c /\ lease.approval = r.approval
    => approval[lease.approval].status = "revoked" \/ opened[lease.approval] > 1

(* What an acquire under the lock has found still holds.                   *)
LockInv ==
    /\ lock.step # "none" =>
          /\ lock.by \in Clients
          /\ client[lock.by].at = "acquiring" /\ client[lock.by].net = "sent"
    /\ lock.step = "take" => ~Replayed(lock.by)
    /\ lock.step = "consume" =>
          /\ lease.fence > 0 /\ lease.owner = lock.by /\ (lease.released => lease.forced)
          /\ lock.approval # Nil => /\ lock.approval # lease.approval
                                   /\ lock.approval \in Approvals /\ opened[lock.approval] >= 1

(* A release in progress, q, goes on with a row that may be a former one.  *)
Claims(r, q) ==
    q.step # "none" =>
        /\ r \in Clients => q.fence = client[r].fence
        /\ q.fence <= lease.fence
        /\ q.approval \in Approvals /\ opened[q.approval] >= 1
        /\ q.fence = lease.fence =>
              /\ q.approval = lease.approval
              /\ q.step = "consume" => lease.released
        /\ q.fence < lease.fence /\ q.approval = lease.approval => opened[lease.approval] >= 2
ReleaseInv(r) ==
    /\ release[r].step # "none" /\ r \in Clients =>
          client[r].at = "releasing" /\ client[r].net = "sent"
    /\ Claims(r, release[r])

Inv ==
    /\ TypeOK
    /\ LeaseInv /\ LeaseWithinApproval /\ HeldIsApproved
    /\ \A c \in Clients : Known(c, client[c]) /\ HasNone(c, client[c])
    /\ LockInv
    /\ \A r \in Releasers : ReleaseInv(r)

-----------------------------------------------------------------------------

(* A step of the bots changes nothing of the window.                       *)
LEMMA BotsKeepInv ==
    ASSUME Inv, OnlyBots,
           turn' \in [Bots -> {"none", "asked", "queued", "taken"} \cup InFlight],
           from' \in [Bots -> {"none", "queued"}],
           agent' \in [Bots -> {"idle", "working", "blocked"}]
    PROVE  Inv'
<1>1. lease' = lease /\ approval' = approval /\ opened' = opened
      /\ client' = client /\ lock' = lock /\ release' = release /\ faults' = faults
  BY DEF OnlyBots, books
<1>2. TypeOK'
  BY <1>1 DEF Inv, TypeOK
<1>3. QED
  BY <1>1, <1>2 DEF Inv, LeaseInv, LeaseWithinApproval, HeldIsApproved, Known, HasNone, LockInv,
     ReleaseInv, Claims, Held, Replayed

LEMMA StepOfBots ==
    ASSUME Inv, NEW b \in Bots,
           Prompt(b) \/ Insert(b) \/ Flush(b) \/ TurnEnds(b) \/ Resend(b) \/ AgentTurns(b)
    PROVE  Inv'
<1>1. OnlyBots
  BY DEF Prompt, Insert, Flush, FlushRead, FlushClaim, Recheck, Typed, TurnEnds, Resend, AgentTurns
<1>2. /\ turn' \in [Bots -> {"none", "asked", "queued", "taken"} \cup InFlight]
      /\ from' \in [Bots -> {"none", "queued"}]
      /\ agent' \in [Bots -> {"idle", "working", "blocked"}]
  BY DEF Prompt, Insert, Flush, FlushRead, FlushClaim, Recheck, Typed, TurnEnds, Resend, AgentTurns,
     Moves, InFlight, Inv, TypeOK
<1>3. QED
  BY <1>1, <1>2, BotsKeepInv

-----------------------------------------------------------------------------

(* A client goes on as r, while no handler of its works.                   *)
LEMMA ClientKeepsInv ==
    ASSUME Inv, NEW c \in Clients, NEW r \in Caller, client' = [client EXCEPT ![c] = r],
           UNCHANGED <<bots, books, lock, release, faults>>,
           Known(c, r), HasNone(c, r),
           lock.step # "none" => lock.by # c, release[c].step = "none"
    PROVE  Inv'
<1>1. lease' = lease /\ approval' = approval /\ opened' = opened
      /\ lock' = lock /\ release' = release /\ faults' = faults
      /\ turn' = turn /\ from' = from /\ agent' = agent
  BY DEF books, bots
<1>2. client' \in [Clients -> Caller] /\ client'[c] = r
      /\ \A d \in Clients \ {c} : client'[d] = client[d]
  BY DEF Inv, TypeOK
<1>3. TypeOK'
  BY <1>1, <1>2 DEF Inv, TypeOK
<1>4. LeaseInv' /\ LeaseWithinApproval' /\ HeldIsApproved'
  BY <1>1 DEF Inv, LeaseInv, LeaseWithinApproval, HeldIsApproved, Held
<1>5. \A d \in Clients : Known(d, client[d])' /\ HasNone(d, client[d])'
  BY <1>1, <1>2 DEF Inv, Known, HasNone, Held
<1>6. LockInv'
  BY <1>1, <1>2 DEF Inv, LockInv, Replayed, Held
<1>7. \A q \in Releasers : ReleaseInv(q)'
  BY <1>1, <1>2 DEF Inv, ReleaseInv, Claims
<1>8. QED
  BY <1>3, <1>4, <1>5, <1>6, <1>7 DEF Inv

(* A client whose call is not at the daemon is not being served.           *)
LEMMA NotServed ==
    ASSUME Inv, NEW c \in Clients, client[c].net # "sent"
    PROVE  /\ lock.step # "none" => lock.by # c
           /\ release[c].step = "none"
BY DEF Inv, TypeOK, LockInv, ReleaseInv, Releasers, Locked, Releasing

(* A client that acquires is not being released.                           *)
LEMMA NotReleased ==
    ASSUME Inv, NEW c \in Clients, client[c].at # "releasing"
    PROVE  release[c].step = "none"
BY DEF Inv, TypeOK, ReleaseInv, Releasers, Releasing

LEMMA CallerHere ==
    ASSUME Inv, NEW c \in Clients
    PROVE  client[c] \in Caller /\ Known(c, client[c]) /\ HasNone(c, client[c])
BY DEF Inv, TypeOK

LEMMA StepOfClients ==
    ASSUME Inv, NEW c \in Clients,
           (\E p \in Approvals : Ask(c, p)) \/ GiveBack(c) \/ Told(c)
    PROVE  Inv'
<1>1. client[c].net # "sent"
  BY CallerHere DEF Ask, GiveBack, Told, Known
<1>2. ASSUME NEW r \in Caller, Acts(c, r), OnlyClients, Known(c, r), HasNone(c, r)
      PROVE  Inv'
  BY <1>1, <1>2, NotServed, ClientKeepsInv DEF Acts, OnlyClients
<1>3. lease.fence \in Nat /\ 0 \in 0 .. MaxFence
  BY GateAssumption DEF Inv, TypeOK, Lease
<1>4. ASSUME NEW p \in Approvals, Ask(c, p)
      PROVE  Inv'
  <2> DEFINE r == [at |-> "acquiring", net |-> "sent", approval |-> p, fence |-> 0]
  <2>1. r \in Caller
    BY <1>3 DEF Caller
  <2>2. Known(c, r) /\ HasNone(c, r)
    BY <1>3 DEF Known, HasNone
  <2>3. QED
    BY <1>2, <1>4, <2>1, <2>2 DEF Ask
<1>5. ASSUME GiveBack(c)
      PROVE  Inv'
  <2> DEFINE r == [client[c] EXCEPT !.at = "releasing", !.net = "sent"]
  <2>1. client[c] \in Caller /\ client[c].at = "holding"
    BY <1>5, CallerHere DEF GiveBack
  <2>2. r \in Caller /\ r.at = "releasing" /\ r.net = "sent" /\ r.approval = client[c].approval
        /\ r.fence = client[c].fence
    BY ONLY <2>1 DEF Caller
  <2>3. Known(c, r) /\ HasNone(c, r)
    BY <2>1, <2>2, CallerHere DEF Known, HasNone
  <2>4. QED
    BY <1>2, <1>5, <2>2, <2>3 DEF GiveBack
<1>6. ASSUME client[c].net = "granted", Acts(c, [client[c] EXCEPT !.at = "holding", !.net = "none"]),
             OnlyClients
      PROVE  Inv'
  <2> DEFINE r == [client[c] EXCEPT !.at = "holding", !.net = "none"]
  <2>1. client[c] \in Caller
    BY CallerHere
  <2>2. r \in Caller /\ r.at = "holding" /\ r.net = "none" /\ r.approval = client[c].approval
        /\ r.fence = client[c].fence
    BY ONLY <2>1 DEF Caller
  <2>3. Known(c, r) /\ HasNone(c, r)
    BY <1>6, <2>2, CallerHere DEF Known, HasNone
  <2>4. QED
    BY <1>2, <1>6, <2>2, <2>3
<1>7. ASSUME client[c].net \in {"refused", "done", "lost"}, Acts(c, NoClient), OnlyClients
      PROVE  Inv'
  <2>1. NoClient \in Caller /\ Known(c, NoClient) /\ HasNone(c, NoClient)
    BY <1>3 DEF NoClient, Caller, Known, HasNone
  <2>2. QED
    BY <1>2, <1>7, <2>1
<1>8. ASSUME client[c].net = "lost", Acts(c, [client[c] EXCEPT !.net = "sent"]), OnlyClients
      PROVE  Inv'
  <2> DEFINE r == [client[c] EXCEPT !.net = "sent"]
  <2>1. client[c] \in Caller
    BY CallerHere
  <2>2. r \in Caller /\ r.at = client[c].at /\ r.net = "sent" /\ r.approval = client[c].approval
        /\ r.fence = client[c].fence
    BY ONLY <2>1 DEF Caller
  <2>3. Known(c, r) /\ HasNone(c, r)
    BY <1>8, <2>2, CallerHere DEF Known, HasNone
  <2>4. QED
    BY <1>2, <1>8, <2>2, <2>3
<1>9. QED
  BY <1>4, <1>5, <1>6, <1>7, <1>8 DEF Told

-----------------------------------------------------------------------------

(* A permission that is used up stays what it was otherwise.               *)
LEMMA ConsumedIs ==
    ASSUME TypeOK, NEW p \in Approvals
    PROVE  /\ Consumed(p) \in [Approvals -> Permission]
           /\ \A q \in Approvals :
                 /\ Consumed(p)[q].left = approval[q].left
                 /\ \/ Consumed(p)[q].status = approval[q].status
                    \/ q = p /\ Consumed(p)[q].status = "consumed" /\ approval[q].status = "approved"
<1> DEFINE new == [approval[p] EXCEPT !.status = IF @ = "approved" THEN "consumed" ELSE @]
<1>1. approval[p] \in Permission
  BY DEF TypeOK
<1>2. /\ new \in Permission /\ new.left = approval[p].left
      /\ new.status = IF approval[p].status = "approved" THEN "consumed" ELSE approval[p].status
  BY ONLY <1>1 DEF Permission
<1>3. Consumed(p) = [approval EXCEPT ![p] = new]
  BY DEF Consumed, TypeOK
<1> HIDE DEF new
<1>4. QED
  BY <1>2, <1>3 DEF TypeOK

(* What the whole table says, with the types.                              *)
LEMMA Facts ==
    ASSUME Inv
    PROVE  /\ lease \in Lease /\ lease.fence \in Nat /\ lease.left \in Nat /\ lease.fence <= MaxFence
           /\ MaxFence \in Nat /\ Ttl \in Nat /\ Life \in Nat /\ Nil \notin Approvals /\ Nil \notin Clients
           /\ \A p \in Approvals : /\ approval[p] \in Permission /\ approval[p].left \in Nat
                                   /\ opened[p] \in Nat
           /\ \A c \in Clients : client[c] \in Caller /\ client[c].fence \in Nat
           /\ \A r \in Releasers : release[r] \in Releasing /\ release[r].fence \in Nat
BY GateAssumption DEF Inv, TypeOK, Lease, Permission, Caller, Releasing

LEMMA AcquireReplayKeepsInv ==
    ASSUME Inv, NEW c \in Clients, AcquireReplay(c)
    PROVE  Inv'
<1> DEFINE r == [client[c] EXCEPT !.net = "granted", !.fence = lease.fence]
<1>1. client[c] \in Caller /\ lease.fence \in 0 .. MaxFence /\ client[c].at = "acquiring"
  BY Facts DEF AcquireReplay, Asking
<1>2. /\ r \in Caller /\ r.at = "acquiring" /\ r.net = "granted" /\ r.approval = client[c].approval
      /\ r.fence = lease.fence
  BY ONLY <1>1 DEF Caller
<1>3. Known(c, r) /\ HasNone(c, r)
  <2>1. lease.fence > 0
    BY DEF AcquireReplay, Replayed, Held, Inv, LeaseInv
  <2>2. QED
    BY <1>1, <1>2, <2>1, CallerHere, Facts DEF AcquireReplay, Replayed, Held, Known, HasNone
<1>4. client' = [client EXCEPT ![c] = r]
  BY DEF AcquireReplay, Inv, TypeOK
<1>5. lock.step = "none" /\ release[c].step = "none"
  BY <1>1, NotReleased DEF AcquireReplay, Asking, Free
<1>6. QED
  BY <1>2, <1>3, <1>4, <1>5, ClientKeepsInv DEF AcquireReplay, OnlyLock

LEMMA AcquireRefuseKeepsInv ==
    ASSUME Inv, NEW c \in Clients, AcquireRefuse(c)
    PROVE  Inv'
<1> DEFINE r == [client[c] EXCEPT !.net = "refused"]
           p == client[c].approval
<1>1. client[c] \in Caller /\ client[c].at = "acquiring" /\ p \in Approvals
  BY Facts, CallerHere DEF AcquireRefuse, Asking, Known
<1>2. r \in Caller /\ r.at = "acquiring" /\ r.net = "refused" /\ r.approval = p
      /\ r.fence = client[c].fence
  BY ONLY <1>1 DEF Caller
<1>3. ASSUME Held, lease.owner = c, lease.approval = p
      PROVE  approval[p].status = "revoked" \/ opened[p] > 1
  <2>1. approval[p].status # "approved"
    <3>1. Refused(p)
      BY <1>3 DEF AcquireRefuse, Replayed
    <3>2. approval[p].left # 0
      BY <1>1, <1>3, Facts DEF Inv, LeaseWithinApproval, Held
    <3>3. QED
      BY <3>1, <3>2 DEF Refused
  <2>2. lease.fence > 0 /\ opened[p] >= 1
    BY <1>3 DEF Inv, LeaseInv, Held
  <2>3. approval[p].status = "consumed" => opened[p] # 1
    BY <1>3 DEF Inv, HeldIsApproved
  <2>4. QED
    BY <1>1, <2>1, <2>2, <2>3, Facts DEF Permission
<1>4. Known(c, r) /\ HasNone(c, r)
  BY <1>1, <1>2, <1>3, CallerHere DEF Known, HasNone
<1>5. client' = [client EXCEPT ![c] = r]
  BY DEF AcquireRefuse, Answer, Inv, TypeOK
<1>6. lock.step = "none" /\ release[c].step = "none"
  BY <1>1, NotReleased DEF AcquireRefuse, Asking, Free
<1>7. QED
  BY <1>2, <1>4, <1>5, <1>6, ClientKeepsInv DEF AcquireRefuse, OnlyLock

LEMMA AcquireCheckKeepsInv ==
    ASSUME Inv, NEW c \in Clients, AcquireCheck(c)
    PROVE  Inv'
<1>1. /\ lease' = lease /\ approval' = approval /\ opened' = opened /\ client' = client
      /\ release' = release /\ faults' = faults /\ turn' = turn /\ from' = from /\ agent' = agent
      /\ lock' = [step |-> "take", by |-> c, approval |-> Nil]
  BY DEF AcquireCheck, OnlyLock, books, bots
<1>2. TypeOK'
  BY <1>1 DEF Inv, TypeOK, Locked
<1>3. LockInv'
  BY <1>1 DEF LockInv, AcquireCheck, Asking, Replayed, Held
<1>4. QED
  BY <1>1, <1>2, <1>3 DEF Inv, LeaseInv, LeaseWithinApproval, HeldIsApproved, Known, HasNone,
     ReleaseInv, Claims, Held

LEMMA AcquireSpentKeepsInv ==
    ASSUME Inv, NEW c \in Clients, AcquireSpent(c)
    PROVE  Inv'
<1> DEFINE r == [client[c] EXCEPT !.net = "refused"]
           p == client[c].approval
<1>1. client[c] \in Caller /\ client[c].at = "acquiring" /\ p \in Approvals
  BY Facts, CallerHere DEF AcquireSpent, Asking, Known
<1>2. r \in Caller /\ r.at = "acquiring" /\ r.net = "refused" /\ r.approval = p
      /\ r.fence = client[c].fence
  BY ONLY <1>1 DEF Caller
<1>3. /\ lease' = lease /\ opened' = opened /\ lock' = lock /\ release' = release /\ faults' = faults
      /\ turn' = turn /\ from' = from /\ agent' = agent /\ approval' = Consumed(p)
      /\ client' = [client EXCEPT ![c] = r] /\ lock = Free /\ ~Held /\ lease.approval = p
  BY DEF AcquireSpent, Answer, Asking, Spent, Inv, TypeOK, bots
<1>4. client' \in [Clients -> Caller] /\ client'[c] = r
      /\ \A d \in Clients \ {c} : client'[d] = client[d]
  BY <1>2, <1>3 DEF Inv, TypeOK
<1> HIDE DEF r, p
<1>5. ~Held'
  BY <1>3 DEF Held
<1>6. TypeOK'
  BY <1>1, <1>3, <1>4, ConsumedIs DEF Inv, TypeOK
<1>7. LeaseInv'
  <2>1. opened[p] >= 1
    BY <1>1, <1>3, Facts DEF Inv, LeaseInv
  <2>2. QED
    BY <1>1, <1>3, <2>1, ConsumedIs DEF Inv, LeaseInv
<1>8. LeaseWithinApproval' /\ HeldIsApproved'
  BY <1>5 DEF LeaseWithinApproval, HeldIsApproved
<1>9. \A d \in Clients : Known(d, client[d])' /\ HasNone(d, client[d])'
  BY <1>1, <1>2, <1>3, <1>4, <1>5 DEF Inv, Known, HasNone
<1>10. LockInv'
  BY <1>3 DEF LockInv, Free
<1>11. \A q \in Releasers : ReleaseInv(q)'
  <2>1. release[c].step = "none"
    BY <1>1, NotReleased
  <2>2. QED
    BY <1>3, <1>4, <2>1 DEF Inv, ReleaseInv, Claims
<1>12. QED
  BY <1>6, <1>7, <1>8, <1>9, <1>10, <1>11 DEF Inv

LEMMA AcquireTakeKeepsInv ==
    ASSUME Inv, NEW c \in Clients, AcquireTake(c)
    PROVE  Inv'
<1> DEFINE mine == client[c].approval
           stale == IF lease.released THEN Nil ELSE lease.approval
           old == IF stale = mine THEN Nil ELSE stale
<1>1. client[c] \in Caller /\ client[c].at = "acquiring" /\ client[c].net = "sent" /\ mine \in Approvals
  BY Facts, CallerHere DEF AcquireTake, Known, Inv, LockInv
<1>2. /\ lease' = [fence |-> lease.fence + 1, owner |-> c, approval |-> mine, left |-> Deadline(mine),
                   released |-> FALSE, forced |-> FALSE]
      /\ opened' = [opened EXCEPT ![mine] = @ + 1] /\ lock' = [lock EXCEPT !.step = "consume", !.approval = old]
      /\ approval' = approval /\ client' = client /\ release' = release /\ faults' = faults
      /\ turn' = turn /\ from' = from /\ agent' = agent
      /\ lock.step = "take" /\ lock.by = c /\ lease.fence < MaxFence
  BY DEF AcquireTake, bots
<1>3. lease.approval \in Approvals \cup {Nil} /\ (lease.fence > 0 <=> lease.approval # Nil)
  BY Facts DEF Lease, Inv, LeaseInv
<1>4. old \in Approvals \cup {Nil} /\ old # mine /\ (old # Nil => opened[old] >= 1)
  BY <1>1, <1>3, Facts DEF Inv, LeaseInv
<1> HIDE DEF mine, old
<1>5. Deadline(mine) \in 0 .. Ttl /\ Deadline(mine) <= approval[mine].left
  BY <1>1, Facts DEF Deadline, Least
<1>6. lease.fence + 1 \in 0 .. MaxFence
  BY <1>2, Facts
<1>7. /\ opened' \in [Approvals -> 0 .. MaxFence] /\ opened'[mine] = opened[mine] + 1
      /\ \A q \in Approvals : q # mine => opened'[q] = opened[q]
  <2>1. opened[mine] + 1 \in 0 .. MaxFence
    <3>1. opened[mine] \in Nat
      BY <1>1, Facts
    <3>2. opened[mine] <= lease.fence
      <4>1. \A q \in Approvals : opened[q] <= lease.fence
        BY DEF Inv, LeaseInv
      <4>2. QED
        BY ONLY <1>1, <4>1
    <3>3. lease.fence \in Nat /\ MaxFence \in Nat /\ lease.fence < MaxFence
      BY <1>2, Facts
    <3>4. QED
      BY ONLY <3>1, <3>2, <3>3
  <2>2. QED
    BY <1>1, <1>2, <2>1 DEF Inv, TypeOK
<1>8. lock' \in Locked /\ lock'.step = "consume" /\ lock'.by = c /\ lock'.approval = old
  <2>1. lock \in Locked
    BY DEF Inv, TypeOK
  <2>2. QED
    BY ONLY <1>2, <1>4, <2>1 DEF Locked
<1>9. TypeOK'
  <2>1. lease' \in Lease
    BY <1>1, <1>2, <1>5, <1>6 DEF Lease
  <2>2. QED
    BY <1>2, <1>7, <1>8, <2>1 DEF Inv, TypeOK
<1>10. LeaseInv'
  BY <1>1, <1>2, <1>7, Facts DEF Inv, LeaseInv
<1>11. LeaseWithinApproval'
  BY <1>2, <1>5 DEF LeaseWithinApproval
<1>12. HeldIsApproved'
  BY <1>1, <1>2, <1>7, Facts DEF HeldIsApproved, Inv, LeaseInv
<1>13. \A d \in Clients : Known(d, client[d])' /\ HasNone(d, client[d])'
  BY <1>1, <1>2, Facts DEF Inv, Known, HasNone
<1>14. LockInv'
  BY <1>1, <1>2, <1>4, <1>7, <1>8, Facts DEF LockInv
<1>15. ASSUME NEW r \in Releasers
       PROVE  ReleaseInv(r)'
  <2>1. CASE release[r].step = "none"
    BY <1>2, <2>1 DEF ReleaseInv, Claims
  <2>2. CASE release[r].step # "none"
    <3>1. ReleaseInv(r)
      BY DEF Inv
    <3>2. release[r].approval \in Approvals /\ opened[release[r].approval] >= 1
          /\ release[r].fence <= lease.fence
      BY <2>2, <3>1 DEF ReleaseInv, Claims
    <3>3. release[r].approval = mine => opened'[mine] >= 2
      BY <1>1, <1>7, <3>2, Facts
    <3>4. release[r].fence < lease'.fence
      BY <1>2, <3>2, Facts
    <3>5. opened'[release[r].approval] >= 1
      BY <1>1, <1>7, <3>2, Facts
    <3>6. QED
      BY <1>2, <2>2, <3>1, <3>2, <3>3, <3>4, <3>5, Facts DEF ReleaseInv, Claims
  <2>3. QED
    BY <2>1, <2>2
<1>16. QED
  BY <1>9, <1>10, <1>11, <1>12, <1>13, <1>14, <1>15 DEF Inv

(* A client gets its answer from a handler that is done, with what it did  *)
(* to the approvals.                                                       *)
LEMMA AcquireLostKeepsInv ==
    ASSUME Inv, NEW c \in Clients, AcquireLost(c)
    PROVE  Inv'
<1> DEFINE r == [client[c] EXCEPT !.net = "refused"]
<1>1. client[c] \in Caller /\ client[c].at = "acquiring" /\ client[c].approval \in Approvals
      /\ ~Replayed(c)
  BY Facts, CallerHere DEF AcquireLost, Known, Inv, LockInv
<1>2. r \in Caller /\ r.at = "acquiring" /\ r.net = "refused" /\ r.approval = client[c].approval
      /\ r.fence = client[c].fence
  BY ONLY <1>1 DEF Caller
<1>3. /\ lease' = lease /\ opened' = opened /\ lock' = Free /\ release' = release /\ faults' = faults
      /\ turn' = turn /\ from' = from /\ agent' = agent /\ approval' = approval
      /\ client' = [client EXCEPT ![c] = r]
  BY DEF AcquireLost, Answer, OnlyLock, books, bots, Inv, TypeOK
<1>4. client' \in [Clients -> Caller] /\ client'[c] = r
      /\ \A d \in Clients \ {c} : client'[d] = client[d]
  BY <1>2, <1>3 DEF Inv, TypeOK
<1> HIDE DEF r
<1>5. TypeOK'
  BY <1>3, <1>4 DEF Inv, TypeOK, Free, Locked
<1>6. LeaseInv' /\ LeaseWithinApproval' /\ HeldIsApproved'
  BY <1>3 DEF Inv, LeaseInv, LeaseWithinApproval, HeldIsApproved, Held
<1>7. \A d \in Clients : Known(d, client[d])' /\ HasNone(d, client[d])'
  BY <1>1, <1>2, <1>3, <1>4 DEF Inv, Known, HasNone, Held, Replayed
<1>8. LockInv'
  BY <1>3 DEF LockInv, Free
<1>9. \A q \in Releasers : ReleaseInv(q)'
  <2>1. release[c].step = "none"
    BY <1>1, NotReleased
  <2>2. QED
    BY <1>3, <1>4, <2>1 DEF Inv, ReleaseInv, Claims
<1>10. QED
  BY <1>5, <1>6, <1>7, <1>8, <1>9 DEF Inv

LEMMA AcquireDoneKeepsInv ==
    ASSUME Inv, NEW c \in Clients, AcquireDone(c)
    PROVE  Inv'
<1> DEFINE r == [client[c] EXCEPT !.net = "granted", !.fence = lease.fence]
           q == lock.approval
<1>1. client[c] \in Caller /\ client[c].at = "acquiring" /\ client[c].approval \in Approvals
      /\ lease.fence \in 0 .. MaxFence /\ lease.fence > 0 /\ lease.owner = c
      /\ (lease.released => lease.forced)
  BY Facts, CallerHere DEF AcquireDone, Known, Inv, LockInv
<1>2. r \in Caller /\ r.at = "acquiring" /\ r.net = "granted" /\ r.approval = client[c].approval
      /\ r.fence = lease.fence
  BY ONLY <1>1 DEF Caller
<1>3. /\ lease' = lease /\ opened' = opened /\ lock' = Free /\ release' = release /\ faults' = faults
      /\ turn' = turn /\ from' = from /\ agent' = agent
      /\ approval' = IF q = Nil THEN approval ELSE Consumed(q)
      /\ client' = [client EXCEPT ![c] = r]
  BY DEF AcquireDone, bots, Inv, TypeOK
<1>4. client' \in [Clients -> Caller] /\ client'[c] = r
      /\ \A d \in Clients \ {c} : client'[d] = client[d]
  BY <1>2, <1>3 DEF Inv, TypeOK
<1>5. q # Nil => q # lease.approval /\ q \in Approvals /\ opened[q] >= 1
  BY DEF AcquireDone, Inv, LockInv
<1> HIDE DEF r, q
<1>6. /\ approval' \in [Approvals -> Permission]
      /\ \A x \in Approvals :
            /\ approval'[x].left = approval[x].left
            /\ \/ approval'[x].status = approval[x].status
               \/ x = q /\ q # Nil /\ approval'[x].status = "consumed" /\ approval[x].status = "approved"
  BY <1>3, <1>5, ConsumedIs DEF Inv, TypeOK
<1>7. TypeOK'
  BY <1>3, <1>4, <1>6 DEF Inv, TypeOK, Free, Locked
<1>8. LeaseInv'
  BY <1>3, <1>5, <1>6 DEF Inv, LeaseInv
<1>9. lease.approval \in Approvals
  BY <1>1 DEF Inv, LeaseInv
<1>10. LeaseWithinApproval' /\ HeldIsApproved'
  BY <1>3, <1>5, <1>6, <1>9 DEF Inv, LeaseWithinApproval, HeldIsApproved, Held
<1>11. \A d \in Clients : Known(d, client[d])' /\ HasNone(d, client[d])'
  BY <1>1, <1>2, <1>3, <1>4, <1>6, <1>9 DEF Inv, Known, HasNone, Held
<1>12. LockInv'
  BY <1>3 DEF LockInv, Free
<1>13. \A x \in Releasers : ReleaseInv(x)'
  <2>1. release[c].step = "none"
    BY <1>1, NotReleased
  <2>2. QED
    BY <1>3, <1>4, <2>1 DEF Inv, ReleaseInv, Claims
<1>14. QED
  BY <1>7, <1>8, <1>10, <1>11, <1>12, <1>13 DEF Inv

(* The lease keeps owner, fence and approval, and what is left of it.      *)
LEMMA RenewKeepsInv ==
    ASSUME Inv, NEW c \in Clients, Renew(c)
    PROVE  Inv'
<1> DEFINE p == lease.approval
<1>1. client[c].at = "holding" /\ lock = Free /\ client[c].net # "sent"
  BY CallerHere DEF Renew, Known
<1>2. CASE Acts(c, NoClient) /\ UNCHANGED lease
  <2>1. NoClient \in Caller /\ Known(c, NoClient) /\ HasNone(c, NoClient)
    BY Facts DEF NoClient, Caller, Known, HasNone
  <2>2. QED
    BY <1>1, <1>2, <2>1, NotServed, ClientKeepsInv DEF Acts, Renew, books
<1>3. CASE Mine(c) /\ Held /\ ~Refused(p) /\ lease' = [lease EXCEPT !.left = Deadline(p)] /\ UNCHANGED client
  <2>1. p \in Approvals /\ lease \in Lease
    BY <1>3, Facts DEF Held, Inv, LeaseInv
  <2>2. Deadline(p) \in 0 .. Ttl /\ Deadline(p) <= approval[p].left
    BY <2>1, Facts DEF Deadline, Least
  <2>3. /\ lease' \in Lease /\ lease'.fence = lease.fence /\ lease'.owner = lease.owner /\ lease'.approval = p
        /\ lease'.released = lease.released /\ lease'.forced = lease.forced /\ lease'.left = Deadline(p)
    BY ONLY <1>3, <2>1, <2>2 DEF Lease
  <2>4. /\ opened' = opened /\ lock' = lock /\ release' = release /\ faults' = faults /\ client' = client
        /\ turn' = turn /\ from' = from /\ agent' = agent /\ approval' = approval
    BY <1>3 DEF Renew, bots
  <2>5. TypeOK'
    BY <2>3, <2>4 DEF Inv, TypeOK
  <2>6. LeaseInv' /\ LeaseWithinApproval' /\ HeldIsApproved'
    BY <1>3, <2>2, <2>3, <2>4 DEF Inv, LeaseInv, LeaseWithinApproval, HeldIsApproved, Held
  <2>7. \A d \in Clients : Known(d, client[d])' /\ HasNone(d, client[d])'
    BY <1>3, <2>3, <2>4 DEF Inv, Known, HasNone, Held
  <2>8. LockInv'
    BY <1>1, <2>4 DEF LockInv, Free
  <2>9. \A x \in Releasers : ReleaseInv(x)'
    BY <2>3, <2>4 DEF Inv, ReleaseInv, Claims
  <2>10. QED
    BY <2>5, <2>6, <2>7, <2>8, <2>9 DEF Inv
<1>4. QED
  BY <1>2, <1>3 DEF Renew

LEMMA RevokeKeepsInv ==
    ASSUME Inv, NEW p \in Approvals, Revoke(p)
    PROVE  Inv'
<1> DEFINE new == [approval[p] EXCEPT !.status = "revoked"]
<1>1. approval[p] \in Permission
  BY Facts
<1>2. new \in Permission /\ new.left = approval[p].left /\ new.status = "revoked"
  BY ONLY <1>1 DEF Permission
<1>3. /\ lease' = lease /\ opened' = opened /\ lock' = lock /\ release' = release /\ client' = client
      /\ turn' = turn /\ from' = from /\ agent' = agent /\ approval' = [approval EXCEPT ![p] = new]
      /\ lock = Free /\ faults' \in 0 .. MaxFaults
  BY GateAssumption DEF Revoke, Fault, bots, Inv, TypeOK
<1> HIDE DEF new
<1>4. /\ approval' \in [Approvals -> Permission] /\ approval'[p] = new
      /\ \A q \in Approvals \ {p} : approval'[q] = approval[q]
  BY <1>2, <1>3 DEF Inv, TypeOK
<1>5. TypeOK'
  BY <1>3, <1>4 DEF Inv, TypeOK
<1>6. Held => lease.approval \in Approvals
  BY DEF Held, Inv, LeaseInv
<1>7. LeaseInv' /\ LeaseWithinApproval' /\ HeldIsApproved'
  BY <1>2, <1>3, <1>4, <1>6 DEF Inv, LeaseInv, LeaseWithinApproval, HeldIsApproved, Held
<1>8. \A d \in Clients : Known(d, client[d])' /\ HasNone(d, client[d])'
  BY <1>2, <1>3, <1>4, <1>6 DEF Inv, Known, HasNone, Held
<1>9. LockInv' /\ \A x \in Releasers : ReleaseInv(x)'
  BY <1>3 DEF Inv, LockInv, ReleaseInv, Claims, Free
<1>10. QED
  BY <1>5, <1>7, <1>8, <1>9 DEF Inv

-----------------------------------------------------------------------------

(* An answer, or its loss, is all that changes of the client.              *)
LEMMA AnswerIs ==
    ASSUME Inv, NEW c \in Clients,
           NEW what \in {"none", "sent", "granted", "refused", "done", "lost"},
           client' = [client EXCEPT ![c].net = what]
    PROVE  /\ client' \in [Clients -> Caller]
           /\ client'[c].at = client[c].at /\ client'[c].approval = client[c].approval
           /\ client'[c].fence = client[c].fence /\ client'[c].net = what
           /\ \A d \in Clients \ {c} : client'[d] = client[d]
<1> DEFINE n == [client[c] EXCEPT !.net = what]
<1>1. client[c] \in Caller
  BY Facts
<1>2. /\ n \in Caller /\ n.at = client[c].at /\ n.approval = client[c].approval
      /\ n.fence = client[c].fence /\ n.net = what
  BY ONLY <1>1, what \in {"none", "sent", "granted", "refused", "done", "lost"} DEF Caller
<1>3. client' = [client EXCEPT ![c] = n]
  BY DEF Inv, TypeOK
<1> HIDE DEF n
<1>4. QED
  BY <1>2, <1>3 DEF Inv, TypeOK

(* A release goes on as q; a client that is done has its answer.           *)
LEMMA ReleaseKeepsInv ==
    ASSUME Inv, NEW r \in Releasers, NEW q \in Releasing, release' = [release EXCEPT ![r] = q],
           UNCHANGED <<bots, books, lock>>, faults' \in 0 .. MaxFaults,
           \/ client' = client
           \/ q.step = "none" /\ r \in Clients /\ client' = [client EXCEPT ![r].net = "done"],
           r \in Clients => client[r].at = "releasing" /\ client[r].net = "sent",
           Claims(r, q)
    PROVE  Inv'
<1>1. /\ lease' = lease /\ approval' = approval /\ opened' = opened /\ lock' = lock
      /\ turn' = turn /\ from' = from /\ agent' = agent
  BY DEF books, bots
<1>2. release' \in [Releasers -> Releasing] /\ release'[r] = q
      /\ \A x \in Releasers \ {r} : release'[x] = release[x]
  BY DEF Inv, TypeOK
<1>3. \A c \in Clients :
         /\ client'[c] \in Caller /\ client'[c].at = client[c].at
         /\ client'[c].approval = client[c].approval /\ client'[c].fence = client[c].fence
         /\ \/ client'[c] = client[c]
            \/ c = r /\ q.step = "none" /\ client'[c].net = "done" /\ client[c].at = "releasing"
  BY AnswerIs, Facts
<1>4. client' \in [Clients -> Caller]
  BY AnswerIs DEF Inv, TypeOK
<1>5. TypeOK'
  BY <1>1, <1>2, <1>4 DEF Inv, TypeOK
<1>6. LeaseInv' /\ LeaseWithinApproval' /\ HeldIsApproved'
  BY <1>1 DEF Inv, LeaseInv, LeaseWithinApproval, HeldIsApproved, Held
<1>7. \A c \in Clients : Known(c, client[c])' /\ HasNone(c, client[c])'
  BY <1>1, <1>3 DEF Inv, Known, HasNone, Held
<1>8. LockInv'
  BY <1>1, <1>3 DEF Inv, LockInv, Replayed, Held
<1>9. ASSUME NEW x \in Releasers
      PROVE  ReleaseInv(x)'
  <2>1. CASE x = r
    BY <1>1, <1>2, <1>3, <2>1 DEF ReleaseInv, Claims
  <2>2. CASE x # r
    BY <1>1, <1>2, <1>3, <2>2 DEF Inv, ReleaseInv, Claims
  <2>3. QED
    BY <2>1, <2>2
<1>10. QED
  BY <1>5, <1>6, <1>7, <1>8, <1>9 DEF Inv

LEMMA NoReleaseIsOne == NoRelease \in Releasing /\ NoRelease.step = "none"
BY GateAssumption DEF NoRelease, Releasing

LEMMA ReleaseReadKeepsInv ==
    ASSUME Inv, NEW c \in Clients, ReleaseRead(c)
    PROVE  Inv'
<1>1. c # Agm /\ c \in Releasers /\ client[c].at = "releasing" /\ client[c].net = "sent"
  BY GateAssumption DEF ReleaseRead, Serving, Releasers
<1>2. faults' \in 0 .. MaxFaults /\ UNCHANGED <<bots, books, lock>>
  BY DEF ReleaseRead, Inv, TypeOK
<1>3. CASE lease.fence = client[c].fence /\ client' = client
           /\ release' = [release EXCEPT ![c] = [step |-> "mark", fence |-> lease.fence,
                                                 approval |-> lease.approval]]
  <2> DEFINE q == [step |-> "mark", fence |-> lease.fence, approval |-> lease.approval]
  <2>1. q \in Releasing
    BY Facts DEF Releasing, Lease
  <2>2. lease.fence > 0
    BY <1>1, <1>3, CallerHere, Facts DEF Known
  <2>3. lease.approval \in Approvals /\ opened[lease.approval] >= 1
    BY <2>2 DEF Inv, LeaseInv
  <2>4. q.step = "mark" /\ q.fence = client[c].fence /\ q.fence = lease.fence /\ q.approval = lease.approval
    BY <1>3
  <2>5. release' = [release EXCEPT ![c] = q] /\ client' = client
    BY <1>3
  <2>6. Claims(c, q)
    BY <2>3, <2>4, Facts DEF Claims
  <2> HIDE DEF q
  <2>7. QED
    BY <1>1, <1>2, <2>1, <2>5, <2>6, ReleaseKeepsInv
<1>4. CASE Reply(c) /\ UNCHANGED release
  <2>1. client' = [client EXCEPT ![c].net = "done"]
    BY <1>1, <1>4 DEF Reply, Answer
  <2>2. release' = [release EXCEPT ![c] = release[c]]
    BY <1>1, <1>4 DEF Inv, TypeOK
  <2>3. release[c] \in Releasing /\ release[c].step = "none"
    BY <1>1, Facts DEF ReleaseRead
  <2>4. Claims(c, release[c])
    BY <2>3 DEF Claims
  <2>5. QED
    BY <1>1, <1>2, <2>1, <2>2, <2>3, <2>4, ReleaseKeepsInv
<1>5. QED
  BY <1>3, <1>4 DEF ReleaseRead

LEMMA ForceReadKeepsInv ==
    ASSUME Inv, ForceRead
    PROVE  Inv'
<1> DEFINE q == [step |-> "mark", fence |-> lease.fence, approval |-> lease.approval]
<1>1. q \in Releasing
  BY Facts DEF Releasing, Lease
<1>2. Agm \in Releasers /\ Agm \notin Clients /\ faults' \in 0 .. MaxFaults
  BY GateAssumption DEF Releasers, ForceRead, Fault, Inv, TypeOK
<1>3. Claims(Agm, q)
  BY <1>2, Facts DEF Claims, ForceRead, Inv, LeaseInv
<1>4. release' = [release EXCEPT ![Agm] = q] /\ client' = client /\ UNCHANGED <<bots, books, lock>>
  BY DEF ForceRead
<1> HIDE DEF q
<1>5. QED
  BY <1>1, <1>2, <1>3, <1>4, ReleaseKeepsInv

(* Who releases: force, or the client that is at it.                       *)
LEMMA ServingIs ==
    ASSUME Inv, NEW r \in Releasers, Serving(r)
    PROVE  /\ r \in Clients => client[r].at = "releasing" /\ client[r].net = "sent" /\ r # Agm
           /\ r \notin Clients => r = Agm
BY GateAssumption DEF Serving, Releasers

LEMMA ReleaseMarkKeepsInv ==
    ASSUME Inv, NEW r \in Releasers, ReleaseMark(r)
    PROVE  Inv'
<1>1. /\ Serving(r) /\ release[r].step = "mark" /\ faults' = faults /\ faults' \in 0 .. MaxFaults
      /\ release[r] \in Releasing
  BY Facts DEF ReleaseMark, Inv, TypeOK
<1>2. CASE /\ Same(r) /\ ~lease.released /\ client' = client
           /\ lease' = [lease EXCEPT !.released = TRUE, !.forced = (r = Agm)]
           /\ release' = [release EXCEPT ![r].step = "consume"]
  <2> DEFINE q == [release[r] EXCEPT !.step = "consume"]
  <2>1. q \in Releasing /\ q.step = "consume" /\ q.fence = release[r].fence /\ q.approval = release[r].approval
    BY ONLY <1>1 DEF Releasing
  <2>2. release' = [release EXCEPT ![r] = q]
    BY <1>2 DEF Inv, TypeOK
  <2> HIDE DEF q
  <2>3. release' \in [Releasers -> Releasing] /\ release'[r] = q
        /\ \A x \in Releasers \ {r} : release'[x] = release[x]
    BY <2>1, <2>2 DEF Inv, TypeOK
  <2>4. lease \in Lease
    BY Facts
  <2>5. /\ lease' \in Lease /\ lease'.fence = lease.fence /\ lease'.owner = lease.owner
        /\ lease'.approval = lease.approval /\ lease'.released /\ lease'.forced = (r = Agm)
        /\ lease'.left = lease.left
    <3>1. (r = Agm) \in BOOLEAN
      OBVIOUS
    <3>2. QED
      BY ONLY <1>2, <2>4, <3>1 DEF Lease
  <2>6. /\ approval' = approval /\ opened' = opened /\ lock' = lock
        /\ turn' = turn /\ from' = from /\ agent' = agent
    BY DEF ReleaseMark, bots
  <2>7. r = Agm \/ (r = lease.owner /\ r \in Clients /\ client[r].at = "releasing")
    <3>1. CASE r \in Clients
      <4>1. client[r].at = "releasing" /\ release[r].fence = client[r].fence
        BY <1>1, <3>1, ServingIs DEF Inv, ReleaseInv, Claims
      <4>2. client[r].fence = lease.fence /\ lease.fence > 0
        BY <1>2, <4>1 DEF Same, Inv, LeaseInv
      <4>3. QED
        BY <3>1, <4>1, <4>2, CallerHere DEF Known
    <3>2. QED
      BY <1>1, <3>1, ServingIs
  <2>8. TypeOK'
    BY <1>1, <1>2, <2>3, <2>5, <2>6 DEF Inv, TypeOK
  <2>9. LeaseInv' /\ LeaseWithinApproval' /\ HeldIsApproved'
    BY <2>5, <2>6 DEF Inv, LeaseInv, LeaseWithinApproval, HeldIsApproved, Held
  <2>10. \A c \in Clients : Known(c, client[c])' /\ HasNone(c, client[c])'
    BY <1>2, <2>5, <2>6, <2>7 DEF Inv, Known, HasNone, Held
  <2>11. LockInv'
    BY <1>2, <2>5, <2>6, <2>7 DEF Inv, LockInv, Replayed, Held
  <2>12. \A x \in Releasers : ReleaseInv(x)'
    BY <1>1, <1>2, <2>1, <2>3, <2>5, <2>6 DEF Inv, ReleaseInv, Claims, Same
  <2>13. QED
    BY <2>8, <2>9, <2>10, <2>11, <2>12 DEF Inv
<1>3. CASE Reply(r) /\ release' = [release EXCEPT ![r] = NoRelease] /\ UNCHANGED lease
  <2>1. \/ client' = client
        \/ r \in Clients /\ client' = [client EXCEPT ![r].net = "done"]
    BY <1>1, <1>3, ServingIs DEF Reply, Answer
  <2>2. Claims(r, NoRelease) /\ UNCHANGED <<bots, books, lock>>
    BY <1>3, NoReleaseIsOne DEF Claims, ReleaseMark, books
  <2>3. QED
    BY <1>1, <1>3, <2>1, <2>2, NoReleaseIsOne, ServingIs, ReleaseKeepsInv
<1>4. QED
  BY <1>2, <1>3 DEF ReleaseMark

LEMMA ReleaseConsumeKeepsInv ==
    ASSUME Inv, NEW r \in Releasers, ReleaseConsume(r)
    PROVE  Inv'
<1> DEFINE q == release[r].approval
<1>1. /\ Serving(r) /\ release[r].step = "consume" /\ faults' = faults
      /\ lease' = lease /\ opened' = opened /\ lock' = lock /\ turn' = turn /\ from' = from /\ agent' = agent
      /\ approval' = Consumed(q) /\ release' = [release EXCEPT ![r] = NoRelease]
  BY DEF ReleaseConsume, bots
<1>2. q \in Approvals /\ opened[q] >= 1
  BY <1>1 DEF Inv, ReleaseInv, Claims
<1>3. q = lease.approval => ~Held \/ opened[q] >= 2
  BY <1>1, Facts DEF Inv, ReleaseInv, Claims, Held
<1> HIDE DEF q
<1>4. \A c \in Clients :
         /\ client'[c] \in Caller /\ client'[c].at = client[c].at
         /\ client'[c].approval = client[c].approval /\ client'[c].fence = client[c].fence
         /\ \/ client'[c] = client[c]
            \/ c = r /\ client'[c].net = "done" /\ client[c].at = "releasing"
  BY <1>1, AnswerIs, ServingIs, Facts DEF ReleaseConsume, Reply, Answer
<1>5. client' \in [Clients -> Caller]
  BY <1>1, AnswerIs, ServingIs DEF ReleaseConsume, Reply, Answer, Inv, TypeOK
<1>6. release' \in [Releasers -> Releasing] /\ release'[r].step = "none"
      /\ \A x \in Releasers \ {r} : release'[x] = release[x]
  BY <1>1, NoReleaseIsOne DEF Inv, TypeOK
<1>7. /\ approval' \in [Approvals -> Permission]
      /\ \A x \in Approvals :
            /\ approval'[x].left = approval[x].left
            /\ \/ approval'[x].status = approval[x].status
               \/ x = q /\ approval'[x].status = "consumed" /\ approval[x].status = "approved"
  BY <1>1, <1>2, ConsumedIs DEF Inv
<1>8. TypeOK'
  BY <1>1, <1>5, <1>6, <1>7 DEF Inv, TypeOK
<1>9. LeaseInv'
  BY <1>1, <1>2, <1>7 DEF Inv, LeaseInv
<1>10. Held => lease.approval \in Approvals
  BY DEF Held, Inv, LeaseInv
<1>11. LeaseWithinApproval' /\ HeldIsApproved'
  BY <1>1, <1>2, <1>3, <1>7, <1>10, Facts DEF Inv, LeaseWithinApproval, HeldIsApproved, Held
<1>12. \A c \in Clients : Known(c, client[c])' /\ HasNone(c, client[c])'
  BY <1>1, <1>4, <1>7, <1>10 DEF Inv, Known, HasNone, Held
<1>13. LockInv'
  BY <1>1, <1>4, ServingIs DEF Inv, LockInv, Replayed, Held
<1>14. \A x \in Releasers : ReleaseInv(x)'
  BY <1>1, <1>4, <1>6 DEF Inv, ReleaseInv, Claims
<1>15. QED
  BY <1>8, <1>9, <1>11, <1>12, <1>13, <1>14 DEF Inv

LEMMA LoseKeepsInv ==
    ASSUME Inv, NEW c \in Clients, Lose(c)
    PROVE  Inv'
<1>1. /\ lease' = lease /\ opened' = opened /\ approval' = approval
      /\ turn' = turn /\ from' = from /\ agent' = agent
      /\ lock' = IF lock.by = c THEN Free ELSE lock
      /\ release' = [release EXCEPT ![c] = NoRelease] /\ c \in Releasers
      /\ client' = [client EXCEPT ![c].net = "lost"] /\ client[c].net \notin {"none", "lost"}
      /\ faults' \in 0 .. MaxFaults
  BY GateAssumption DEF Lose, Fault, Answer, books, bots, Releasers, Inv, TypeOK
<1>2. /\ client' \in [Clients -> Caller]
      /\ client'[c].at = client[c].at /\ client'[c].approval = client[c].approval
      /\ client'[c].fence = client[c].fence /\ client'[c].net = "lost"
      /\ \A d \in Clients \ {c} : client'[d] = client[d]
  BY <1>1, AnswerIs
<1>3. release' \in [Releasers -> Releasing] /\ release'[c].step = "none"
      /\ \A x \in Releasers \ {c} : release'[x] = release[x]
  BY <1>1, NoReleaseIsOne DEF Inv, TypeOK
<1>4. TypeOK'
  BY <1>1, <1>2, <1>3 DEF Inv, TypeOK, Free, Locked
<1>5. LeaseInv' /\ LeaseWithinApproval' /\ HeldIsApproved'
  BY <1>1 DEF Inv, LeaseInv, LeaseWithinApproval, HeldIsApproved, Held
<1>6. \A d \in Clients : Known(d, client[d])' /\ HasNone(d, client[d])'
  BY <1>1, <1>2 DEF Inv, Known, HasNone, Held
<1>7. LockInv'
  BY <1>1, <1>2 DEF Inv, LockInv, Replayed, Held, Free
<1>8. \A x \in Releasers : ReleaseInv(x)'
  BY <1>1, <1>2, <1>3 DEF Inv, ReleaseInv, Claims
<1>9. QED
  BY <1>4, <1>5, <1>6, <1>7, <1>8 DEF Inv

(* A restart closes the window, and uses its approval up.                  *)
LEMMA CrashKeepsInv ==
    ASSUME Inv, Crash
    PROVE  Inv'
<1>1. /\ opened' = opened /\ agent' = agent /\ lock' = Free
      /\ release' = [r \in Releasers |-> NoRelease] /\ faults' \in 0 .. MaxFaults
      /\ from' = [b \in Bots |-> "none"]
      /\ turn' = [b \in Bots |-> Restarted(turn[b])]
  BY GateAssumption DEF Crash, Fault, Inv, TypeOK
<1>2. turn' \in [Bots -> {"none", "asked", "queued", "taken"} \cup InFlight]
  BY <1>1 DEF Restarted, InFlight, Inv, TypeOK
<1>3. ASSUME NEW c \in Clients
      PROVE  /\ client'[c] \in Caller /\ client'[c].at = client[c].at
             /\ client'[c].approval = client[c].approval /\ client'[c].fence = client[c].fence
             /\ \/ client'[c].net = client[c].net
                \/ client'[c].net = "lost" /\ client[c].net = "sent"
  <2> DEFINE what == IF client[c].net = "sent" THEN "lost" ELSE client[c].net
  <2>1. client[c] \in Caller /\ what \in {"none", "sent", "granted", "refused", "done", "lost"}
    BY Facts DEF Caller
  <2>2. client'[c] = [client[c] EXCEPT !.net = what]
    BY <2>1 DEF Crash, Caller
  <2>3. what = client[c].net \/ (what = "lost" /\ client[c].net = "sent")
    OBVIOUS
  <2> HIDE DEF what
  <2>4. /\ [client[c] EXCEPT !.net = what] \in Caller
        /\ [client[c] EXCEPT !.net = what].at = client[c].at
        /\ [client[c] EXCEPT !.net = what].approval = client[c].approval
        /\ [client[c] EXCEPT !.net = what].fence = client[c].fence
        /\ [client[c] EXCEPT !.net = what].net = what
    BY ONLY <2>1 DEF Caller
  <2>5. QED
    BY <2>2, <2>3, <2>4
<1>4. client' \in [Clients -> Caller]
  BY <1>3 DEF Crash
<1>5. /\ lease' \in Lease /\ lease'.released /\ lease'.fence = lease.fence
      /\ lease'.owner = lease.owner /\ lease'.approval = lease.approval
      /\ lease.released => lease' = lease
      /\ ~lease.released => lease'.forced
  <2>1. CASE lease.released
    BY <2>1, Facts DEF Crash
  <2>2. CASE ~lease.released
    <3>1. lease' = [lease EXCEPT !.released = TRUE, !.forced = TRUE] /\ lease \in Lease
      BY <2>2, Facts DEF Crash
    <3>2. QED
      BY ONLY <2>2, <3>1 DEF Lease
  <2>3. QED
    BY <2>1, <2>2
<1>6. /\ approval' \in [Approvals -> Permission]
      /\ \A x \in Approvals :
            /\ approval'[x].left = approval[x].left
            /\ \/ approval'[x].status = approval[x].status
               \/ x = lease.approval /\ lease.fence > 0
  <2>1. CASE lease.released
    BY <2>1 DEF Crash, Inv, TypeOK
  <2>2. CASE ~lease.released
    <3>1. lease.approval \in Approvals /\ lease.fence > 0 /\ approval' = Consumed(lease.approval)
      BY <2>2 DEF Crash, Inv, LeaseInv
    <3>2. QED
      BY <3>1, ConsumedIs DEF Inv
  <2>3. QED
    BY <2>1, <2>2
<1>7. ~Held'
  BY <1>5 DEF Held
<1>8. TypeOK'
  BY <1>1, <1>2, <1>4, <1>5, <1>6, NoReleaseIsOne DEF Inv, TypeOK, Free, Locked
<1>9. LeaseInv'
  BY <1>1, <1>5, <1>6 DEF Inv, LeaseInv
<1>10. LeaseWithinApproval' /\ HeldIsApproved'
  BY <1>7 DEF LeaseWithinApproval, HeldIsApproved
<1>11. \A c \in Clients : Known(c, client[c])' /\ HasNone(c, client[c])'
  BY <1>3, <1>5, <1>7 DEF Inv, Known, HasNone
<1>12. LockInv' /\ \A x \in Releasers : ReleaseInv(x)'
  BY <1>1, NoReleaseIsOne DEF LockInv, Free, ReleaseInv, Claims
<1>13. QED
  BY <1>8, <1>9, <1>10, <1>11, <1>12 DEF Inv

LEMMA TickKeepsInv ==
    ASSUME Inv, Tick
    PROVE  Inv'
<1>1. /\ opened' = opened /\ lock' = lock /\ release' = release /\ client' = client /\ faults' = faults
      /\ turn' = turn /\ from' = from /\ agent' = agent
  BY DEF Tick, bots
<1>2. Minus1(lease.left) \in 0 .. Ttl /\ lease \in Lease
  BY Facts DEF Minus1, Lease
<1>3. /\ lease' \in Lease /\ lease'.left = Minus1(lease.left) /\ lease'.fence = lease.fence
      /\ lease'.owner = lease.owner /\ lease'.approval = lease.approval
      /\ lease'.released = lease.released /\ lease'.forced = lease.forced
  <2>1. lease' = [lease EXCEPT !.left = Minus1(lease.left)]
    BY <1>2 DEF Tick, Lease
  <2>2. QED
    BY ONLY <1>2, <2>1 DEF Lease
<1>4. ASSUME NEW p \in Approvals
      PROVE  /\ approval'[p] \in Permission /\ approval'[p].status = approval[p].status
             /\ approval'[p].left = Minus1(approval[p].left)
  <2>1. Minus1(approval[p].left) \in 0 .. Life /\ approval[p] \in Permission
    BY Facts DEF Minus1, Permission
  <2>2. approval'[p] = [approval[p] EXCEPT !.left = Minus1(approval[p].left)]
    BY <2>1 DEF Tick, Permission
  <2>3. QED
    BY ONLY <2>1, <2>2 DEF Permission
<1>5. TypeOK'
  BY <1>1, <1>3, <1>4 DEF Inv, TypeOK, Tick
<1>6. Held' => Held
  BY <1>3, Facts DEF Held, Minus1
<1>7. LeaseInv'
  BY <1>1, <1>3, <1>4 DEF Inv, LeaseInv
<1>8. LeaseWithinApproval' /\ HeldIsApproved'
  <2>1. Held => lease.approval \in Approvals
    BY DEF Held, Inv, LeaseInv
  <2>2. QED
    BY <1>1, <1>3, <1>4, <1>6, <2>1, Facts DEF Inv, LeaseWithinApproval, HeldIsApproved, Minus1
<1>9. \A c \in Clients : Known(c, client[c])' /\ HasNone(c, client[c])'
  <2>1. Held => lease.approval \in Approvals
    BY DEF Held, Inv, LeaseInv
  <2>2. QED
    BY <1>1, <1>3, <1>4, <1>6, <2>1 DEF Inv, Known, HasNone
<1>10. LockInv'
  BY <1>1, <1>3, <1>6 DEF Inv, LockInv, Replayed
<1>11. \A x \in Releasers : ReleaseInv(x)'
  BY <1>1, <1>3 DEF Inv, ReleaseInv, Claims
<1>12. QED
  BY <1>5, <1>7, <1>8, <1>9, <1>10, <1>11 DEF Inv

-----------------------------------------------------------------------------

LEMMA InvStep == Inv /\ [Next]_vars => Inv'
<1>1. CASE UNCHANGED vars
  BY <1>1 DEF vars, Inv, TypeOK, LeaseInv, LeaseWithinApproval, HeldIsApproved, Known, HasNone,
     LockInv, ReleaseInv, Claims, Held, Replayed, bots, books
<1>2. ASSUME Inv, Next
      PROVE  Inv'
  BY <1>2, StepOfBots, StepOfClients, AcquireSpentKeepsInv, AcquireReplayKeepsInv, AcquireRefuseKeepsInv,
     AcquireCheckKeepsInv, AcquireTakeKeepsInv, AcquireLostKeepsInv, AcquireDoneKeepsInv, RenewKeepsInv,
     RevokeKeepsInv, ReleaseReadKeepsInv, ForceReadKeepsInv, ReleaseMarkKeepsInv,
     ReleaseConsumeKeepsInv, LoseKeepsInv, CrashKeepsInv, TickKeepsInv
     DEF Next, Acquire
<1>3. QED
  BY <1>1, <1>2

LEMMA InvHolds == SafeSpec => []Inv
<1>1. Init => Inv
  <2>1. ASSUME Init
        PROVE  Inv
    <3>1. TypeOK
      BY <2>1, GateAssumption, NoReleaseIsOne
         DEF Init, TypeOK, InFlight, Lease, Permission, Caller, NoClient, Locked, Free
    <3>2. LeaseInv /\ LeaseWithinApproval /\ HeldIsApproved
      BY <2>1 DEF Init, LeaseInv, LeaseWithinApproval, HeldIsApproved, Held
    <3>3. \A c \in Clients : Known(c, client[c]) /\ HasNone(c, client[c])
      BY <2>1 DEF Init, NoClient, Known, HasNone
    <3>4. LockInv /\ \A r \in Releasers : ReleaseInv(r)
      BY <2>1, NoReleaseIsOne DEF Init, LockInv, Free, ReleaseInv, Claims
    <3>5. QED
      BY <3>1, <3>2, <3>3, <3>4 DEF Inv
  <2>2. QED
    BY <2>1
<1>2. QED
  BY <1>1, InvStep, PTL DEF SafeSpec

(* The state of the window, its approvals and its callers is well typed.   *)
THEOREM TypesHold == SafeSpec => []TypeOK
<1>1. Inv => TypeOK
  BY DEF Inv
<1>2. QED
  BY <1>1, InvHolds, PTL

(* No late or repeated release of an earlier holder closes the window of   *)
(* the one who holds it: the fence of release_lease (store.rs).            *)
THEOREM HolderKeepsWindowHolds == SafeSpec => []HolderKeepsWindow
<1>1. Inv => HolderKeepsWindow
  BY DEF Inv, Known, Mine, HolderKeepsWindow
<1>2. QED
  BY <1>1, InvHolds, PTL

(* The approval of an open window, where it opened no other one, is not    *)
(* used up by the release or the expiry of another window                  *)
(* (maintenance.rs:340-342).                                               *)
THEOREM HeldIsApprovedHolds == SafeSpec => []HeldIsApproved
<1>1. Inv => HeldIsApproved
  BY DEF Inv
<1>2. QED
  BY <1>1, InvHolds, PTL

(* No window outlives the permission it rests on, however often it is      *)
(* renewed (lease_deadline, maintenance.rs:698-700).                       *)
THEOREM LeaseWithinApprovalHolds == SafeSpec => []LeaseWithinApproval
<1>1. Inv => LeaseWithinApproval
  BY DEF Inv
<1>2. QED
  BY <1>1, InvHolds, PTL

(* A client that was refused does not hold a window it does not know of    *)
(* (the replay of acquire, maintenance.rs).                                *)
THEOREM RefusedHasNoWindowHolds == SafeSpec => []RefusedHasNoWindow
<1>1. Inv => RefusedHasNoWindow
  BY DEF Inv, HasNone, RefusedHasNoWindow
<1>2. QED
  BY <1>1, InvHolds, PTL

(* Nobody types into a pane while the window is open, but into that of the *)
(* holder itself: whoever read the gate before it opened reads it again    *)
(* (prompt.rs, queue.rs), or kept it from opening.                         *)
THEOREM NoTypingInWindowHolds == SafeSpec => []NoTypingInWindow
<1>1. Init => NoTypingInWindow
  BY DEF Init, NoTypingInWindow
<1>2. ASSUME Inv, NoTypingInWindow, [Next]_vars
      PROVE  NoTypingInWindow'
  <2>1. ASSUME lease' = lease, \A b \in Bots : turn'[b] = "typing" => turn[b] = "typing" \/ ~Held
        PROVE  NoTypingInWindow'
    BY <1>2, <2>1 DEF NoTypingInWindow, Held
  <2>2. ASSUME NEW b \in Bots, Recheck(b)
        PROVE  NoTypingInWindow'
    BY <2>1, <2>2, <1>2 DEF Recheck, Moves, WindowHeld, OnlyBots, books, Inv, TypeOK
  <2>3. ASSUME NEW b \in Bots,
               \/ Prompt(b) \/ Insert(b) \/ FlushRead(b) \/ FlushClaim(b) \/ Typed(b)
               \/ TurnEnds(b) \/ Resend(b) \/ AgentTurns(b)
        PROVE  NoTypingInWindow'
    BY <2>1, <2>3, <1>2
       DEF Prompt, Insert, FlushRead, FlushClaim, Typed, TurnEnds, Resend, AgentTurns,
           Moves, OnlyBots, books, Inv, TypeOK
  <2>4. ASSUME UNCHANGED <<lease, turn>>
        PROVE  NoTypingInWindow'
    BY <2>1, <2>4
  <2>5. ASSUME NEW c \in Clients, AcquireTake(c)
        PROVE  NoTypingInWindow'
    <3>1. lease'.owner = c /\ turn' = turn
      BY <2>5 DEF AcquireTake, bots
    <3>2. \A b \in Bots : turn[b] = "typing" => b = OwnBot[c]
      BY <2>5 DEF AcquireTake, Takable, Others, Critical
    <3>3. QED
      BY <3>1, <3>2 DEF NoTypingInWindow
  <2>6. ASSUME turn' = turn, lease'.owner = lease.owner, Held' => Held
        PROVE  NoTypingInWindow'
    BY <1>2, <2>6 DEF NoTypingInWindow
  <2>7. ASSUME NEW c \in Clients, Renew(c)
        PROVE  NoTypingInWindow'
    <3>1. turn' = turn /\ (lease' = lease \/ (Held /\ lease' = [lease EXCEPT !.left = Deadline(lease.approval)]))
      BY <2>7 DEF Renew, bots
    <3>2. lease'.owner = lease.owner /\ (Held' => Held)
      BY <3>1, <1>2, Facts DEF Held, Lease
    <3>3. QED
      BY <2>6, <3>1, <3>2
  <2>8. ASSUME NEW r \in Releasers, ReleaseMark(r)
        PROVE  NoTypingInWindow'
    <3>1. turn' = turn /\ (lease' = lease \/ lease' = [lease EXCEPT !.released = TRUE, !.forced = (r = Agm)])
      BY <2>8 DEF ReleaseMark, bots
    <3>2. lease'.owner = lease.owner /\ (Held' => Held)
      BY <3>1, <1>2, Facts DEF Held, Lease
    <3>3. QED
      BY <2>6, <3>1, <3>2
  <2>9. ASSUME Crash
        PROVE  NoTypingInWindow'
    <3>1. \A b \in Bots : turn'[b] # "typing"
      BY <2>9, <1>2 DEF Crash, Restarted
    <3>2. QED
      BY <3>1 DEF NoTypingInWindow
  <2>10. ASSUME Tick
         PROVE  NoTypingInWindow'
    <3>1. turn' = turn /\ lease' = [lease EXCEPT !.left = Minus1(@)]
      BY <2>10 DEF Tick, bots
    <3>2. lease'.owner = lease.owner /\ (Held' => Held)
      BY <3>1, <1>2, Facts DEF Held, Minus1, Lease
    <3>3. QED
      BY <2>6, <3>1, <3>2
  <2>11. CASE UNCHANGED vars
    BY <2>4, <2>11 DEF vars
  <2>12. QED
    BY <1>2, <2>2, <2>3, <2>4, <2>5, <2>7, <2>8, <2>9, <2>10, <2>11
       DEF Next, Flush, Acquire, Ask, GiveBack, Told, AcquireSpent, AcquireReplay, AcquireRefuse,
           AcquireCheck, AcquireLost, AcquireDone, OnlyClients, OnlyLock, Revoke, ReleaseRead,
           ForceRead, ReleaseConsume, Lose, bots, books
<1>3. QED
  BY <1>1, <1>2, InvHolds, PTL DEF SafeSpec

=============================================================================
