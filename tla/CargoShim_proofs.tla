--------------------------- MODULE CargoShim_proofs ---------------------------
(***************************************************************************)
(* What holds of the table of build slots (BuildScheduler) whoever calls   *)
(* it, and of the wrapper that uses it (CargoShim), for any number of      *)
(* holders, slots and ticks.                                               *)
(***************************************************************************)
EXTENDS CargoShim, FiniteSetTheorems, TLAPS

USE DEF Row, Blank

(* Reaping leaves a table: rows that go are blank, the others unchanged.   *)
LEMMA KeptIsTable ==
    ASSUME SlotsTypeOK, NEW gone
    PROVE  Kept(gone) \in [Holders -> Row]
BY SlotsAssumption DEF SlotsTypeOK, Kept

(* The first statements of acquire, and the sweep, leave a typed table.    *)
LEMMA ReapedIsTyped ==
    ASSUME SlotsTypeOK, rows' = Kept(Dead), ahead' = Among(StillWaiting)
    PROVE  SlotsTypeOK'
<1>1. rows' \in [Holders -> Row]
  BY KeptIsTable
<1>2. StillWaiting \subseteq Waiting'
  BY DEF StillWaiting, Waiting, Kept, Dead, Stays
<1>3. QED
  BY <1>1, <1>2 DEF SlotsTypeOK, Among

LEMMA SlotsTypeStep ==
    ASSUME SlotsTypeOK, [SlotsNext]_slots
    PROVE  SlotsTypeOK'
<1> USE SlotsAssumption
<1>1. ASSUME NEW h \in Holders, NEW b \in Bots, Refuse(h, b) \/ Repeat(h, b)
      PROVE  SlotsTypeOK'
  BY <1>1, ReapedIsTyped DEF Refuse, Repeat
<1>2. ASSUME NEW h \in Holders, NEW b \in Bots, Queue(h, b)
      PROVE  SlotsTypeOK'
  <2>1. rows' \in [Holders -> Row]
    BY <1>2, KeptIsTable DEF Queue
  <2>2. StillWaiting \cup {h} \subseteq Waiting'
    BY <1>2, KeptIsTable DEF Queue, StillWaiting, Waiting, Kept, Dead, Stays
  <2>3. ahead' \subseteq (StillWaiting \cup {h}) \X (StillWaiting \cup {h})
    BY <1>2 DEF Queue, Among, SlotsTypeOK
  <2>4. QED
    BY <2>1, <2>2, <2>3 DEF SlotsTypeOK
<1>3. ASSUME NEW h \in Holders, NEW b \in Bots, NEW t \in Tokens, Grant(h, b, t)
      PROVE  SlotsTypeOK'
  <2>1. rows' \in [Holders -> Row]
    BY <1>3, KeptIsTable DEF Grant
  <2>2. StillWaiting \ {h} \subseteq Waiting'
    BY <1>3, KeptIsTable DEF Grant, StillWaiting, Waiting, Kept, Dead, Stays
  <2>3. QED
    BY <1>3, <2>1, <2>2 DEF Grant, Among, SlotsTypeOK
<1>4. ASSUME NEW h \in Holders, NEW b \in Bots, Cancel(h, b)
      PROVE  SlotsTypeOK'
  <2>1. CASE h \in Waiting /\ rows[h].bot = b
    <3>1. rows' = Kept({h}) /\ ahead' = Among(Waiting \ {h})
      BY <1>4, <2>1 DEF Cancel
    <3>2. Waiting \ {h} \subseteq Waiting'
      BY <3>1 DEF Waiting, Kept
    <3>3. QED
      BY <3>1, <3>2, KeptIsTable DEF Among, SlotsTypeOK
  <2>2. CASE ~(h \in Waiting /\ rows[h].bot = b)
    BY <1>4, <2>2 DEF Cancel, SlotsTypeOK, Waiting
  <2>3. QED
    BY <2>1, <2>2
<1>5. ASSUME NEW h \in Holders, NEW t \in Tokens, Renew(h, t)
      PROVE  SlotsTypeOK'
  <2>1. rows' \in [Holders -> Row]
    <3>1. rows' = [rows EXCEPT ![h] = [rows[h] EXCEPT !.left = Ttl, !.silent = 0]]
      BY <1>5 DEF Renew, SlotsTypeOK
    <3>2. [rows[h] EXCEPT !.left = Ttl, !.silent = 0] \in Row
      <4>1. rows[h] \in Row /\ Ttl \in 0 .. Ttl /\ 0 \in 0 .. StaleWaiting
        BY DEF SlotsTypeOK
      <4>2. QED
        BY ONLY <4>1 DEF Row
    <3>3. QED
      BY <3>1, <3>2 DEF SlotsTypeOK
  <2>2. Waiting' = Waiting
    BY <1>5 DEF Renew, SlotsTypeOK, Waiting
  <2>3. QED
    BY <1>5, <2>1, <2>2 DEF Renew, SlotsTypeOK
<1>6. ASSUME NEW h \in Holders, NEW t \in Tokens, Release(h, t)
      PROVE  SlotsTypeOK'
  <2>1. CASE h \in Held /\ rows[h].token = t
    <3>1. rows' = Kept({h}) /\ ahead' = ahead
      BY <1>6, <2>1 DEF Release
    <3>2. Waiting \subseteq Waiting'
      BY <3>1, <2>1 DEF Waiting, Held, Kept
    <3>3. QED
      BY <3>1, <3>2, KeptIsTable DEF SlotsTypeOK
  <2>2. CASE ~(h \in Held /\ rows[h].token = t)
    BY <1>6, <2>2 DEF Release, SlotsTypeOK, Waiting
  <2>3. QED
    BY <2>1, <2>2
<1>7. ASSUME Sweep
      PROVE  SlotsTypeOK'
  BY <1>7, ReapedIsTyped DEF Sweep
<1>8. ASSUME Status
      PROVE  SlotsTypeOK'
  <2>1. Waiting \subseteq Waiting'
    BY <1>8 DEF Status, Waiting, Kept, Expired
  <2>2. QED
    BY <1>8, <2>1, KeptIsTable DEF Status, SlotsTypeOK
<1>9. ASSUME Pass
      PROVE  SlotsTypeOK'
  <2>1. ASSUME NEW h \in Holders
        PROVE  Older(rows[h]) \in Row /\ Older(rows[h]).status = rows[h].status
    BY DEF SlotsTypeOK, Older
  <2>2. Waiting' = Waiting
    BY <1>9, <2>1 DEF Pass, Waiting
  <2>3. QED
    BY <1>9, <2>1, <2>2 DEF Pass, SlotsTypeOK
<1>10. CASE UNCHANGED slots
  BY <1>10 DEF slots, SlotsTypeOK, Waiting
<1>11. QED
  BY <1>1, <1>2, <1>3, <1>4, <1>5, <1>6, <1>7, <1>8, <1>9, <1>10 DEF SlotsNext

(* The table is well typed, whatever is asked of it: a waiting row has a   *)
(* number, a row that is not waiting has none (build_slots and every       *)
(* statement that writes it).                                              *)
THEOREM SlotsTypesHold == SlotsSpec => []SlotsTypeOK
<1>1. SlotsInit => SlotsTypeOK
  BY SlotsAssumption DEF SlotsInit, SlotsTypeOK, Waiting
<1>2. QED
  BY <1>1, SlotsTypeStep, PTL DEF SlotsSpec
-----------------------------------------------------------------------------

LEMMA HeldIsFinite == IsFiniteSet(Held) /\ IsFiniteSet(StillHeld)
BY SlotsAssumption, FS_Subset DEF Held, StillHeld

(* A step holds nothing new, or it is a grant under the limit.             *)
LEMMA HeldGrowsByGrant ==
    ASSUME SlotsTypeOK, [SlotsNext]_slots
    PROVE  \/ Held' \subseteq Held
           \/ \E h \in Holders : /\ Cardinality(StillHeld) < MaxHeld
                                 /\ Held' \subseteq StillHeld \cup {h}
<1>1. ASSUME NEW gone, rows' = Kept(gone)
      PROVE  Held' \subseteq Held
  BY <1>1 DEF Held, Kept
<1>2. ASSUME NEW h \in Holders, NEW b \in Bots, NEW t \in Tokens, Grant(h, b, t)
      PROVE  \E g \in Holders : /\ Cardinality(StillHeld) < MaxHeld
                                /\ Held' \subseteq StillHeld \cup {g}
  <2>1. Held' \subseteq StillHeld \cup {h}
    BY <1>2, KeptIsTable DEF Grant, Held, StillHeld, Kept, Dead, Stays
  <2>2. QED
    BY <1>2, <2>1 DEF Grant, MayHold
<1>3. ASSUME NEW h \in Holders, NEW b \in Bots, Queue(h, b)
      PROVE  Held' \subseteq Held
  BY <1>3, KeptIsTable DEF Queue, Held, Kept
<1>4. ASSUME NEW h \in Holders, NEW t \in Tokens, Renew(h, t)
      PROVE  Held' \subseteq Held
  BY <1>4 DEF Renew, Held, SlotsTypeOK
<1>5. ASSUME Pass
      PROVE  Held' \subseteq Held
  <2>1. \A h \in Holders : Older(rows[h]).status = rows[h].status
    BY DEF SlotsTypeOK, Older
  <2>2. QED
    BY <1>5, <2>1 DEF Pass, Held
<1>6. ASSUME rows' = rows
      PROVE  Held' \subseteq Held
  BY <1>6 DEF Held
<1>7. QED
  BY <1>1, <1>2, <1>3, <1>4, <1>5, <1>6
     DEF SlotsNext, Refuse, Repeat, Cancel, Release, Sweep, Status, slots

(* Never more slots are held than max_concurrent, whatever is asked, and   *)
(* whichever leases run out (acquire counts and writes in one section).    *)
THEOREM HeldWithinMaxHolds == SlotsSpec => []HeldWithinMax
<1>1. SlotsInit => HeldWithinMax
  <2>1. ASSUME SlotsInit
        PROVE  Held = {}
    BY <2>1 DEF SlotsInit, Held
  <2>2. QED
    BY <2>1, SlotsAssumption, FS_EmptySet DEF HeldWithinMax
<1>2. ASSUME SlotsTypeOK, HeldWithinMax, [SlotsNext]_slots
      PROVE  HeldWithinMax'
  <2>1. CASE Held' \subseteq Held
    <3>1. Cardinality(Held') \in Nat /\ Cardinality(Held) \in Nat /\ Cardinality(Held') <= Cardinality(Held)
      BY <2>1, HeldIsFinite, FS_Subset, FS_CardinalityType
    <3>2. QED
      BY <1>2, <3>1, SlotsAssumption DEF HeldWithinMax
  <2>2. ASSUME NEW h \in Holders, Cardinality(StillHeld) < MaxHeld, Held' \subseteq StillHeld \cup {h}
        PROVE  HeldWithinMax'
    <3>1. /\ IsFiniteSet(StillHeld \cup {h})
          /\ Cardinality(StillHeld \cup {h}) <= Cardinality(StillHeld) + 1
      <4>1. /\ IsFiniteSet(StillHeld \cup {h})
            /\ \/ Cardinality(StillHeld \cup {h}) = Cardinality(StillHeld)
               \/ Cardinality(StillHeld \cup {h}) = Cardinality(StillHeld) + 1
        BY HeldIsFinite, FS_AddElement
      <4>2. Cardinality(StillHeld) \in Nat
        BY HeldIsFinite, FS_CardinalityType
      <4>3. QED
        BY <4>1, <4>2
    <3>2. /\ Cardinality(Held') \in Nat /\ Cardinality(StillHeld) \in Nat
          /\ Cardinality(StillHeld \cup {h}) \in Nat
          /\ Cardinality(Held') <= Cardinality(StillHeld \cup {h})
      BY <2>2, <3>1, HeldIsFinite, FS_Subset, FS_CardinalityType
    <3>3. QED
      BY <2>2, <3>1, <3>2, SlotsAssumption DEF HeldWithinMax
  <2>3. QED
    BY <1>2, <2>1, <2>2, HeldGrowsByGrant
<1>3. QED
  BY <1>1, <1>2, SlotsTypesHold, PTL DEF SlotsSpec

-----------------------------------------------------------------------------

(* The numbers that are left after rows went are ordered if they all were. *)
LEMMA RestIsOrdered ==
    ASSUME QueueIsOrdered, ahead' = Among(Waiting'), Waiting' \subseteq Waiting
    PROVE  QueueIsOrdered'
BY DEF QueueIsOrdered, Among

(* Of two that wait one is ahead, and always the same: there is a first in *)
(* the queue (`since` is kept by mark_waiting and cleared by a grant).     *)
THEOREM QueueIsOrderedHolds == SlotsSpec => []QueueIsOrdered
<1>1. SlotsInit => QueueIsOrdered
  BY DEF SlotsInit, QueueIsOrdered, Waiting
<1>2. ASSUME SlotsTypeOK, QueueIsOrdered, [SlotsNext]_slots
      PROVE  QueueIsOrdered'
  <2>1. ASSUME rows' = Kept(Dead), ahead' = Among(StillWaiting)
        PROVE  QueueIsOrdered'
    <3>1. Waiting' = StillWaiting
      BY <2>1 DEF Waiting, StillWaiting, Kept, Dead, Stays
    <3>2. QED
      BY <1>2, <2>1, <3>1, RestIsOrdered DEF StillWaiting
  <2>2. ASSUME NEW h \in Holders, NEW b \in Bots, Queue(h, b)
        PROVE  QueueIsOrdered'
    <3>1. Waiting' = StillWaiting \cup {h}
      BY <1>2, <2>2, KeptIsTable DEF Queue, Waiting, StillWaiting, Kept, Dead, Stays
    <3>2. CASE h \in StillWaiting
      <4>1. Waiting' = StillWaiting /\ ahead' = Among(StillWaiting)
        BY <2>2, <3>1, <3>2 DEF Queue
      <4>2. QED
        BY <1>2, <4>1, RestIsOrdered DEF StillWaiting
    <3>3. CASE h \notin StillWaiting
      <4>1. ahead' = Among(StillWaiting) \cup (StillWaiting \X {h})
        BY <2>2, <3>3 DEF Queue
      <4>2. \A p \in Among(StillWaiting) : p[1] \in StillWaiting /\ p[2] \in StillWaiting
        BY DEF Among
      <4>3. \A v, w \in StillWaiting : <<v, w>> \in Among(StillWaiting) <=> <<v, w>> \in ahead
        BY DEF Among
      <4>4. \A v \in Waiting' : <<v, h>> \in ahead' <=> v \in StillWaiting
        BY <3>1, <3>3, <4>1, <4>2
      <4>5. \A v \in Waiting' : <<h, v>> \notin ahead'
        BY <3>1, <3>3, <4>1, <4>2
      <4>6. \A v, w \in StillWaiting : <<v, w>> \in ahead' <=> <<v, w>> \in ahead
        BY <3>3, <4>1, <4>3
      <4>7. StillWaiting \subseteq Waiting
        BY DEF StillWaiting
      <4>8. QED
        BY <1>2, <3>1, <3>3, <4>4, <4>5, <4>6, <4>7 DEF QueueIsOrdered
    <3>4. QED
      BY <3>2, <3>3
  <2>3. ASSUME NEW h \in Holders, NEW b \in Bots, NEW t \in Tokens, Grant(h, b, t)
        PROVE  QueueIsOrdered'
    <3>1. Waiting' = StillWaiting \ {h}
      BY <1>2, <2>3, KeptIsTable DEF Grant, Waiting, StillWaiting, Kept, Dead, Stays
    <3>2. QED
      BY <1>2, <2>3, <3>1, RestIsOrdered DEF Grant, StillWaiting
  <2>4. ASSUME NEW h \in Holders, NEW b \in Bots, Cancel(h, b)
        PROVE  QueueIsOrdered'
    <3>1. CASE h \in Waiting /\ rows[h].bot = b
      <4>1. rows' = Kept({h}) /\ ahead' = Among(Waiting \ {h})
        BY <2>4, <3>1 DEF Cancel
      <4>2. Waiting' = Waiting \ {h}
        BY <4>1 DEF Waiting, Kept
      <4>3. QED
        BY <1>2, <4>1, <4>2, RestIsOrdered
    <3>2. CASE ~(h \in Waiting /\ rows[h].bot = b)
      BY <1>2, <2>4, <3>2 DEF Cancel, QueueIsOrdered, Waiting
    <3>3. QED
      BY <3>1, <3>2
  <2>5. ASSUME Waiting' = Waiting, ahead' = ahead
        PROVE  QueueIsOrdered'
    BY <1>2, <2>5 DEF QueueIsOrdered
  <2>6. ASSUME NEW h \in Holders, NEW t \in Tokens, Renew(h, t)
        PROVE  Waiting' = Waiting
    BY <1>2, <2>6 DEF Renew, SlotsTypeOK, Waiting
  <2>7. ASSUME NEW h \in Holders, NEW t \in Tokens, Release(h, t)
        PROVE  Waiting' = Waiting
    BY <2>7 DEF Release, Waiting, Held, Kept
  <2>8. ASSUME Status
        PROVE  Waiting' = Waiting
    BY <2>8 DEF Status, Waiting, Kept, Expired
  <2>9. ASSUME Pass
        PROVE  Waiting' = Waiting
    <3>1. \A h \in Holders : Older(rows[h]).status = rows[h].status
      BY <1>2 DEF SlotsTypeOK, Older
    <3>2. QED
      BY <2>9, <3>1 DEF Pass, Waiting
  <2>10. CASE UNCHANGED slots
    BY <2>5, <2>10 DEF slots, Waiting
  <2>11. QED
    BY <1>2, <2>1, <2>2, <2>3, <2>4, <2>5, <2>6, <2>7, <2>8, <2>9, <2>10
       DEF SlotsNext, Refuse, Repeat, Sweep, Renew, Release, Status, Pass
<1>3. QED
  BY <1>1, <1>2, SlotsTypesHold, PTL DEF SlotsSpec

-----------------------------------------------------------------------------
(* The wrapper                                                             *)

Covered(r, row) == row.status = "held" /\ row.token = r.token

(* What a wrapper r knows whose call stands at c, and what its row is.     *)
Shaped(r, c, row) ==
    /\ r.at # "off" => r.bot \in Bots
    /\ r.at \in Running \cup {"releasing"} => r.token \in Tokens
    /\ r.at = "asking" /\ c = "granted" => r.token \in Tokens
    /\ r.cargo => r.at \in Running
    /\ row.status = "held" => row.token \in Tokens

(* Its deadline is never reached while cargo runs: it counts from when the *)
(* call was sent, and leaves room for one more call.                       *)
Timed(r) ==
    /\ r.at = "asking" => r.timer <= Curl /\ r.due = (Ttl - Curl) + r.timer
    /\ r.at = "building" /\ r.cargo => r.due > r.timer + Curl
    /\ r.at = "renewing" => r.timer <= Curl
    /\ r.at = "renewing" /\ r.cargo => r.due > r.timer

(* Who was granted a slot, runs cargo, or has just renewed, has a row of   *)
(* the table that lasts at least to the deadline.                          *)
Granted(r, c) == r.at = "asking" /\ c = "granted" /\ ~r.repeat
Builds(r) == r.cargo /\ ~r.repeat
Renewed(r, c) == r.at = "renewing" /\ c = "renewed"
OnSlot(r, c, row) ==
    /\ Granted(r, c) \/ Builds(r) => Covered(r, row) /\ r.due <= row.left
    /\ Renewed(r, c) => Covered(r, row) /\ (Ttl - Curl) + r.timer <= row.left

Sound(r, c, row) == Shaped(r, c, row) /\ Timed(r) /\ OnSlot(r, c, row)
Inv == ShimTypeOK /\ \A s \in Holders : Sound(shim[s], net[s], rows[s])

Calls == Answers \cup {"idle", "sent", "lost"}

LEMMA ConstantsAreNaturals ==
    /\ Curl \in Nat \ {0} /\ Pause \in Nat \ {0} /\ PollEvery \in Nat \ {0}
    /\ RenewEvery \in Nat \ {0} /\ DownMax \in Nat \ {0} /\ Ttl \in Nat \ {0}
    /\ RenewEvery + Curl + Curl < Ttl
    /\ Nil \notin Tokens /\ Nil \notin Bots
BY SlotsAssumption, ShimAssumption, TimingAssumption

(* A fresh token is one of the tokens.                                     *)
LEMMA FreshIsToken ==
    ASSUME ShimTypeOK, NEW s \in Holders
    PROVE  Fresh(s) \in Tokens
<1>1. rows[s].token \in Tokens \cup {Nil} /\ shim[s].token \in Tokens \cup {Nil}
  BY DEF ShimTypeOK, SlotsTypeOK, Shim
<1>2. \E t \in Tokens : t # rows[s].token /\ t # shim[s].token
  BY <1>1, ShimAssumption
<1>3. QED
  BY <1>2 DEF Fresh

(* A row whose lease still runs, and nobody touches, serves its wrapper as *)
(* before.                                                                 *)
LEMMA OtherRow ==
    ASSUME NEW r \in Shim, NEW c, NEW row \in Row, NEW new, Sound(r, c, row),
           row.status = "held" /\ row.left > 0 => new = row,
           new.status = "held" => new = row
    PROVE  Sound(r, c, new)
<1>1. r.timer \in Nat /\ r.due \in Nat /\ row.left \in Nat
  BY ConstantsAreNaturals DEF Shim
<1>2. Granted(r, c) \/ Builds(r) \/ Renewed(r, c) => new = row
  BY <1>1, ConstantsAreNaturals
     DEF Sound, Shaped, Timed, OnSlot, Granted, Builds, Renewed, Covered, Running
<1>3. OnSlot(r, c, new)
  BY <1>2 DEF Sound, OnSlot
<1>4. QED
  BY <1>3 DEF Sound, Shaped

-----------------------------------------------------------------------------
(* How a wrapper goes on                                                   *)

LEMMA OffIsSound ==
    ASSUME NEW row, row.status = "held" => row.token \in Tokens
    PROVE  Off \in Shim /\ \A c \in Calls : Sound(Off, c, row)
BY DEF Off, Shim, Sound, Shaped, Timed, OnSlot, Granted, Builds, Renewed, Polling, Running, Leaving

LEMMA AskIsSound ==
    ASSUME NEW r \in Shim, NEW row, row.status = "held" => row.token \in Tokens,
           r.bot \in Bots, ~r.cargo
    PROVE  Ask(r) \in Shim /\ Sound(Ask(r), "sent", row)
<1>1. Curl \in Nat /\ Ttl \in Nat /\ Curl < Ttl
  BY ConstantsAreNaturals
<1>2. Ask(r) \in Shim
  BY ONLY <1>1, r \in Shim DEF Ask, Shim, Polling
<1>3. /\ Ask(r).at = "asking" /\ Ask(r).timer = Curl /\ Ask(r).due = Ttl
      /\ Ask(r).bot = r.bot /\ Ask(r).cargo = r.cargo
  BY ONLY r \in Shim DEF Ask, Shim
<1>4. Timed(Ask(r))
  BY <1>1, <1>3 DEF Timed
<1>5. QED
  BY <1>2, <1>3, <1>4 DEF Sound, Shaped, OnSlot, Granted, Builds, Renewed, Running

LEMMA LeaveIsSound ==
    ASSUME NEW r \in Shim, NEW row, row.status = "held" => row.token \in Tokens,
           r.bot \in Bots, NEW how \in Leaving, how = "releasing" => r.token \in Tokens
    PROVE  Leave(r, how) \in Shim /\ Sound(Leave(r, how), "sent", row)
BY ConstantsAreNaturals
   DEF Leave, Shim, Sound, Shaped, Timed, OnSlot, Granted, Builds, Renewed, Polling, Running, Leaving

(* A wrapper that sleeps between two polls has nothing to lose.            *)
LEMMA WaitIsSound ==
    ASSUME NEW r \in Shim, NEW row, row.status = "held" => row.token \in Tokens,
           r.at = "waiting", r.bot \in Bots, ~r.cargo
    PROVE  Sound(r, "idle", row)
BY DEF Sound, Shaped, Timed, OnSlot, Granted, Builds, Renewed, Running

(* A step of the wrapper s alone.                                          *)
LEMMA GoesIsSound ==
    ASSUME Inv, NEW s \in Holders, NEW r \in Shim, NEW c \in Calls, Goes(s, r, c),
           Sound(r, c, rows[s])
    PROVE  Inv'
<1>1. shim' \in [Holders -> Shim] /\ net' \in [Holders -> Calls] /\ rows' = rows
  BY DEF Inv, ShimTypeOK, Goes, Calls, slots
<1>2. ShimTypeOK'
  BY <1>1 DEF Inv, ShimTypeOK, SlotsTypeOK, Waiting, Goes, slots, Calls
<1>3. ASSUME NEW q \in Holders
      PROVE  Sound(shim'[q], net'[q], rows'[q])
  BY <1>1 DEF Inv, Goes, ShimTypeOK
<1>4. QED
  BY <1>2, <1>3 DEF Inv

(* What the invariant says of one wrapper.                                 *)
LEMMA SoundHere ==
    ASSUME Inv, NEW s \in Holders
    PROVE  /\ shim[s] \in Shim /\ net[s] \in Calls /\ rows[s] \in Row
           /\ Sound(shim[s], net[s], rows[s])
           /\ rows[s].status = "held" => rows[s].token \in Tokens
BY DEF Inv, ShimTypeOK, SlotsTypeOK, Calls, Sound, Shaped

LEMMA OffKeepsInv ==
    ASSUME Inv, NEW s \in Holders, Goes(s, Off, "idle")
    PROVE  Inv'
BY SoundHere, OffIsSound, GoesIsSound DEF Calls

LEMMA LeaveKeepsInv ==
    ASSUME Inv, NEW s \in Holders, NEW how \in Leaving, shim[s].at # "off",
           how = "releasing" => shim[s].token \in Tokens,
           Goes(s, Leave(shim[s], how), "sent")
    PROVE  Inv'
<1>1. shim[s].bot \in Bots
  BY SoundHere DEF Sound, Shaped
<1>2. Leave(shim[s], how) \in Shim /\ Sound(Leave(shim[s], how), "sent", rows[s])
  BY <1>1, SoundHere, LeaveIsSound
<1>3. QED
  BY <1>2, GoesIsSound DEF Calls

LEMMA StartKeepsInv ==
    ASSUME Inv, NEW s \in Holders, NEW b \in Bots, Start(s, b)
    PROVE  Inv'
<1> DEFINE r == [Off EXCEPT !.alive = TRUE, !.bot = b]
<1>1. r \in Shim /\ r.bot \in Bots /\ ~r.cargo
  BY DEF Off, Shim
<1>2. Ask(r) \in Shim /\ Sound(Ask(r), "sent", rows[s])
  BY <1>1, SoundHere, AskIsSound
<1>3. Goes(s, Ask(r), "sent")
  BY DEF Start
<1>4. QED
  BY <1>2, <1>3, GoesIsSound DEF Calls

LEMMA PollKeepsInv ==
    ASSUME Inv, NEW s \in Holders, Poll(s)
    PROVE  Inv'
<1>1. shim[s].bot \in Bots /\ ~shim[s].cargo
  BY SoundHere DEF Sound, Shaped, Poll, Running, Shim
<1>2. Ask(shim[s]) \in Shim /\ Sound(Ask(shim[s]), "sent", rows[s])
  BY <1>1, SoundHere, AskIsSound
<1>3. QED
  BY <1>2, GoesIsSound DEF Poll, Calls

LEMMA ToldKeepsInv ==
    ASSUME Inv, NEW s \in Holders, Told(s)
    PROVE  Inv'
<1> DEFINE r == shim[s]
<1>1. /\ r \in Shim /\ rows[s] \in Row /\ r.at = "asking" /\ r.bot \in Bots
      /\ ~r.cargo /\ r.down \in Nat /\ r.due = (Ttl - Curl) + r.timer /\ r.timer \in Nat
      /\ rows[s].status = "held" => rows[s].token \in Tokens
  BY SoundHere DEF Told, Sound, Shaped, Timed, Shim, Running
<1>2. ASSUME net[s] = "granted",
             Goes(s, [Sleep(r, "building", RenewEvery) EXCEPT !.cargo = TRUE, !.down = 0], "idle")
      PROVE  Inv'
  <2> DEFINE n == [Sleep(r, "building", RenewEvery) EXCEPT !.cargo = TRUE, !.down = 0]
  <2>1. RenewEvery \in Nat
    BY ConstantsAreNaturals
  <2>2. n \in Shim
    BY ONLY <1>1, <2>1 DEF Sleep, Shim, Running
  <2>3. /\ n.at = "building" /\ n.timer = RenewEvery /\ n.cargo /\ n.due = r.due
        /\ n.token = r.token /\ n.repeat = r.repeat /\ n.bot = r.bot
    BY ONLY <1>1 DEF Sleep, Shim
  <2>4. r.token \in Tokens /\ (~r.repeat => Covered(r, rows[s]) /\ r.due <= rows[s].left)
    BY <1>1, <1>2, SoundHere DEF Sound, Shaped, OnSlot, Granted
  <2>5. n.due > n.timer + Curl
    BY <1>1, <2>3, ConstantsAreNaturals
  <2>6. Sound(n, "idle", rows[s])
    BY <1>1, <2>3, <2>4, <2>5
       DEF Sound, Shaped, Timed, OnSlot, Granted, Builds, Renewed, Covered, Running
  <2>7. QED
    BY <1>2, <2>2, <2>6, GoesIsSound DEF Calls
<1>3. ASSUME Goes(s, [Sleep(r, "waiting", PollEvery) EXCEPT !.down = 0, !.due = 0], "idle")
      PROVE  Inv'
  <2> DEFINE n == [Sleep(r, "waiting", PollEvery) EXCEPT !.down = 0, !.due = 0]
  <2>1. PollEvery \in Nat
    BY ConstantsAreNaturals
  <2>2. n \in Shim
    BY ONLY <1>1, <2>1 DEF Sleep, Shim, Polling
  <2>3. n.at = "waiting" /\ n.bot = r.bot /\ n.cargo = r.cargo
    BY ONLY <1>1 DEF Sleep, Shim
  <2>4. Sound(n, "idle", rows[s])
    BY <1>1, <2>2, <2>3, WaitIsSound
  <2>5. QED
    BY <1>3, <2>2, <2>4, GoesIsSound DEF Calls
<1>4. ASSUME Down(s)
      PROVE  Inv'
  <2>1. CASE r.down + 1 >= DownMax
    BY <1>4, <2>1, OffKeepsInv DEF Down
  <2>2. CASE ~(r.down + 1 >= DownMax)
    <3> DEFINE n == [Sleep(r, "waiting", Pause) EXCEPT !.down = @ + 1, !.due = 0]
    <3>1. /\ Sleep(r, "waiting", Pause) \in Shim
          /\ Sleep(r, "waiting", Pause).down + 1 \in Nat
      <4>1. Pause \in Nat
        BY ConstantsAreNaturals
      <4>2. Sleep(r, "waiting", Pause) \in Shim
        BY ONLY <1>1, <4>1 DEF Sleep, Shim, Polling
      <4>3. Sleep(r, "waiting", Pause).down \in Nat
        <5> HIDE DEF Sleep
        <5>1. QED
          BY ONLY <4>2 DEF Shim
      <4>4. QED
        BY <4>2, <4>3
    <3>2. n \in Shim
      <4> HIDE DEF Sleep
      <4>1. ASSUME NEW q \in Shim, q.down + 1 \in Nat
            PROVE  [q EXCEPT !.down = @ + 1, !.due = 0] \in Shim
        BY ONLY <4>1 DEF Shim
      <4>2. QED
        BY ONLY <3>1, <4>1
    <3>3. n.at = "waiting" /\ n.bot = r.bot /\ n.cargo = r.cargo
      BY ONLY <1>1 DEF Sleep, Shim
    <3>4. Sound(n, "idle", rows[s])
      BY <1>1, <3>2, <3>3, WaitIsSound
    <3>5. Goes(s, n, "idle")
      BY <1>4, <2>2 DEF Down
    <3>6. QED
      BY <3>2, <3>4, <3>5, GoesIsSound DEF Calls
  <2>3. QED
    BY <2>1, <2>2
<1>5. QED
  BY <1>2, <1>3, <1>4, OffKeepsInv DEF Told

LEMMA InterruptKeepsInv ==
    ASSUME Inv, NEW s \in Holders, Interrupt(s)
    PROVE  Inv'
<1>1. shim[s].at = "asking" /\ net[s] = "granted" => shim[s].token \in Tokens
  BY SoundHere DEF Sound, Shaped
<1>2. shim[s].at # "off"
  BY DEF Interrupt, Polling
<1>3. CASE Goes(s, Leave(shim[s], "cancelling"), "sent")
  BY <1>2, <1>3, LeaveKeepsInv DEF Leaving
<1>4. CASE shim[s].at = "asking" /\ net[s] = "granted" /\ Goes(s, Leave(shim[s], "releasing"), "sent")
  BY <1>1, <1>2, <1>4, LeaveKeepsInv DEF Leaving
<1>5. QED
  BY <1>3, <1>4 DEF Interrupt

LEMMA RunningHasToken ==
    ASSUME Inv, NEW s \in Holders, shim[s].at \in Running
    PROVE  shim[s].token \in Tokens /\ shim[s].bot \in Bots /\ shim[s].at # "off"
BY SoundHere DEF Sound, Shaped, Running

LEMMA FinishKeepsInv ==
    ASSUME Inv, NEW s \in Holders, Finish(s)
    PROVE  Inv'
<1>1. shim[s].at \in Running
  BY SoundHere DEF Finish, Sound, Shaped
<1>2. CASE shim[s].alive
  BY <1>1, <1>2, RunningHasToken, LeaveKeepsInv DEF Finish, Leaving
<1>3. CASE ~shim[s].alive
  <2> DEFINE n == [shim[s] EXCEPT !.cargo = FALSE]
  <2>1. /\ n \in Shim /\ n.at = shim[s].at /\ n.bot = shim[s].bot /\ n.token = shim[s].token
        /\ ~n.cargo /\ n.timer = shim[s].timer /\ n.due = shim[s].due /\ n.repeat = shim[s].repeat
    <3>1. shim[s] \in Shim
      BY SoundHere
    <3>2. QED
      BY ONLY <3>1 DEF Shim
  <2>2. Sound(n, net[s], rows[s])
    BY <2>1, SoundHere
       DEF Sound, Shaped, Timed, OnSlot, Granted, Builds, Renewed, Covered
  <2>3. QED
    BY <1>3, <2>1, <2>2, SoundHere, GoesIsSound DEF Finish
<1>4. QED
  BY <1>2, <1>3

LEMMA WakeKeepsInv ==
    ASSUME Inv, NEW s \in Holders, Wake(s)
    PROVE  Inv'
<1>1. shim[s].at = "building" /\ shim[s].timer = 0
  BY DEF Wake
<1>2. CASE Goes(s, Leave(shim[s], "releasing"), "sent")
  BY <1>1, <1>2, RunningHasToken, LeaveKeepsInv DEF Leaving, Running
<1>3. CASE Goes(s, Sleep(shim[s], "renewing", Curl), "sent")
  <2> DEFINE n == Sleep(shim[s], "renewing", Curl)
  <2>1. Curl \in Nat
    BY ConstantsAreNaturals
  <2>2. shim[s] \in Shim
    BY SoundHere
  <2>3. n \in Shim
    BY ONLY <2>1, <2>2 DEF Sleep, Shim, Running
  <2>4. /\ n.at = "renewing" /\ n.bot = shim[s].bot /\ n.token = shim[s].token /\ n.timer = Curl
        /\ n.cargo = shim[s].cargo /\ n.due = shim[s].due /\ n.repeat = shim[s].repeat
    BY ONLY <2>2 DEF Sleep, Shim
  <2>5. n.cargo => n.due > Curl
    BY <1>1, <2>1, <2>4, SoundHere DEF Sound, Timed, Shim
  <2>6. Sound(n, "sent", rows[s])
    BY <1>1, <2>1, <2>4, <2>5, SoundHere
       DEF Sound, Shaped, Timed, OnSlot, Granted, Builds, Renewed, Covered, Running
  <2>7. QED
    BY <1>3, <2>3, <2>6, GoesIsSound DEF Calls
<1>4. QED
  BY <1>2, <1>3 DEF Wake

LEMMA RenewToldKeepsInv ==
    ASSUME Inv, NEW s \in Holders, RenewTold(s)
    PROVE  Inv'
<1> DEFINE r == shim[s]
<1>1. /\ r \in Shim /\ r.at = "renewing" /\ r.timer \in Nat /\ r.due \in Nat /\ r.timer <= Curl
      /\ rows[s] \in Row /\ rows[s].left \in Nat
  BY SoundHere, ConstantsAreNaturals DEF RenewTold, Sound, Timed, Shim
<1>2. CASE Goes(s, Leave(r, "releasing"), "sent")
  BY <1>1, <1>2, RunningHasToken, LeaveKeepsInv DEF Leaving, Running
<1>3. ASSUME net[s] = "renewed",
             Goes(s, [Sleep(r, "building", RenewEvery)
                        EXCEPT !.due = Ttl - (Curl - r.timer), !.repeat = FALSE], "idle")
      PROVE  Inv'
  <2> DEFINE d == Ttl - (Curl - r.timer)
             n == [Sleep(r, "building", RenewEvery) EXCEPT !.due = d, !.repeat = FALSE]
  <2>1. RenewEvery \in Nat /\ d \in Nat /\ d = (Ttl - Curl) + r.timer /\ d > RenewEvery + Curl
    BY <1>1, ConstantsAreNaturals
  <2> HIDE DEF d
  <2>2. n \in Shim
    BY ONLY <1>1, <2>1 DEF Sleep, Shim, Running
  <2>3. /\ n.at = "building" /\ n.bot = r.bot /\ n.token = r.token /\ n.timer = RenewEvery
        /\ n.cargo = r.cargo /\ n.due = d /\ ~n.repeat
    BY ONLY <1>1 DEF Sleep, Shim
  <2>4. Covered(r, rows[s]) /\ d <= rows[s].left
    BY <1>1, <1>3, <2>1, SoundHere DEF Sound, OnSlot, Renewed
  <2>5. Sound(n, "idle", rows[s])
    BY <1>1, <2>1, <2>3, <2>4, SoundHere
       DEF Sound, Shaped, Timed, OnSlot, Granted, Builds, Renewed, Covered, Running
  <2>6. QED
    BY <1>3, <2>2, <2>5, GoesIsSound DEF Calls, d
<1>4. ASSUME ~(r.due <= Pause + Curl), Goes(s, Sleep(r, "building", Pause), "idle")
      PROVE  Inv'
  <2> DEFINE n == Sleep(r, "building", Pause)
  <2>1. Pause \in Nat /\ r.due > Pause + Curl
    BY <1>1, <1>4, ConstantsAreNaturals
  <2>2. n \in Shim
    BY ONLY <1>1, <2>1 DEF Sleep, Shim, Running
  <2>3. /\ n.at = "building" /\ n.bot = r.bot /\ n.token = r.token /\ n.timer = Pause
        /\ n.cargo = r.cargo /\ n.due = r.due /\ n.repeat = r.repeat
    BY ONLY <1>1 DEF Sleep, Shim
  <2>4. Sound(n, "idle", rows[s])
    BY <1>1, <2>1, <2>3, SoundHere
       DEF Sound, Shaped, Timed, OnSlot, Granted, Builds, Renewed, Covered, Running
  <2>5. QED
    BY <1>4, <2>2, <2>4, GoesIsSound DEF Calls
<1>5. QED
  BY <1>2, <1>3, <1>4 DEF RenewTold

LEMMA LeaveToldKeepsInv ==
    ASSUME Inv, NEW s \in Holders, LeaveTold(s)
    PROVE  Inv'
<1>1. CASE shim[s].at = "releasing" /\ Goes(s, Sleep(shim[s], "releasing", Curl), "sent")
  <2> DEFINE n == Sleep(shim[s], "releasing", Curl)
  <2>1. Curl \in Nat
    BY ConstantsAreNaturals
  <2>2. shim[s] \in Shim
    BY SoundHere
  <2>3. n \in Shim
    BY ONLY <2>1, <2>2 DEF Sleep, Shim, Leaving
  <2>4. /\ n.at = "releasing" /\ n.bot = shim[s].bot /\ n.token = shim[s].token
        /\ n.cargo = shim[s].cargo
    BY ONLY <2>2 DEF Sleep, Shim
  <2>5. Sound(n, "sent", rows[s])
    BY <1>1, <2>4, SoundHere
       DEF Sound, Shaped, Timed, OnSlot, Granted, Builds, Renewed, Running
  <2>6. QED
    BY <1>1, <2>3, <2>5, GoesIsSound DEF Calls
<1>2. QED
  BY <1>1, OffKeepsInv DEF LeaveTold

-----------------------------------------------------------------------------
(* The daemon, faults and time                                             *)

(* Every step of the wrappers with the daemon is a step of the table, or   *)
(* leaves it alone: the wrapper uses the table as BuildScheduler allows.   *)
LEMMA StepOfSlots ==
    ASSUME Inv, [ShimNext]_vars
    PROVE  [SlotsNext]_slots
<1>1. ASSUME NEW s \in Holders, DaemonAcquires(s)
      PROVE  SlotsNext
  <2>1. shim[s].bot \in Bots /\ Fresh(s) \in Tokens
    BY <1>1, SoundHere, FreshIsToken DEF DaemonAcquires, Sound, Shaped, Inv
  <2>2. QED
    BY <1>1, <2>1 DEF DaemonAcquires, SlotsNext
<1>2. ASSUME NEW s \in Holders, DaemonRenews(s)
      PROVE  [SlotsNext]_slots
  <2>1. shim[s].token \in Tokens
    BY <1>2, RunningHasToken DEF DaemonRenews, Running
  <2>2. QED
    BY <1>2, <2>1 DEF DaemonRenews, SlotsNext
<1>3. ASSUME NEW s \in Holders, DaemonReleases(s)
      PROVE  SlotsNext
  <2>1. /\ shim[s].at = "releasing" => shim[s].token \in Tokens
        /\ shim[s].at = "cancelling" => shim[s].bot \in Bots
    BY SoundHere DEF Sound, Shaped
  <2>2. QED
    BY <1>3, <2>1 DEF DaemonReleases, SlotsNext
<1>4. ASSUME NEW s \in Holders, NEW r, NEW c, Goes(s, r, c)
      PROVE  UNCHANGED slots
  BY <1>4 DEF Goes
<1>5. ASSUME NEW s \in Holders,
             (\E b \in Bots : Start(s, b)) \/ Steps(s) \/ Interrupt(s) \/ Finish(s)
      PROVE  UNCHANGED slots
  BY <1>4, <1>5 DEF Start, Steps, Poll, Told, Down, Wake, RenewTold, LeaveTold, Interrupt, Finish
<1>6. QED
  BY <1>1, <1>2, <1>3, <1>5
     DEF ShimNext, Daemon, Lose, Kill, DaemonReaps, Tick, SlotsNext, vars, slots

(* What a step leaves of the row of somebody else who still holds it.      *)
Unharmed(q) ==
    /\ rows[q].status = "held" /\ rows[q].left > 0 => rows'[q] = rows[q]
    /\ rows'[q].status = "held" => rows'[q] = rows[q]

LEMMA ReapingHarmsNobody ==
    ASSUME Inv, NEW gone, gone \subseteq Dead, NEW q \in Holders, rows'[q] = Kept(gone)[q]
    PROVE  Unharmed(q)
<1>1. rows'[q] = IF q \in gone THEN Blank ELSE rows[q]
  BY DEF Kept
<1>2. q \in gone => ~(rows[q].status = "held" /\ rows[q].left > 0)
  BY DEF Dead, Stays, Expired, Stale
<1>3. QED
  BY <1>1, <1>2 DEF Unharmed

LEMMA AnswerIsSound ==
    ASSUME Inv, NEW s \in Holders, NEW r \in Shim, NEW c \in Calls, [SlotsNext]_slots,
           shim' = [shim EXCEPT ![s] = r], net' = [net EXCEPT ![s] = c], faults' \in 0 .. MaxFaults,
           Sound(r, c, rows'[s]), \A q \in Holders \ {s} : Unharmed(q)
    PROVE  Inv'
<1>1. shim' \in [Holders -> Shim] /\ net' \in [Holders -> Calls]
  BY DEF Inv, ShimTypeOK, Calls
<1>2. SlotsTypeOK'
  BY SlotsTypeStep DEF Inv, ShimTypeOK
<1>3. ASSUME NEW q \in Holders
      PROVE  Sound(shim'[q], net'[q], rows'[q])
  <2>1. CASE q = s
    BY <2>1 DEF Inv, ShimTypeOK
  <2>2. CASE q # s
    <3>1. shim'[q] = shim[q] /\ net'[q] = net[q] /\ Unharmed(q)
      BY <2>2 DEF Inv, ShimTypeOK
    <3>2. QED
      BY <3>1, SoundHere, OtherRow DEF Unharmed
  <2>3. QED
    BY <2>1, <2>2
<1>4. QED
  BY <1>1, <1>2, <1>3 DEF Inv, ShimTypeOK, Calls

LEMMA HearsIsSound ==
    ASSUME Inv, NEW s \in Holders, shim[s].at = "asking", NEW c \in Answers \ {"renewed"},
           NEW t \in Tokens \cup {Nil}, NEW old \in BOOLEAN, [SlotsNext]_slots,
           Hears(s, c, t, old), \A q \in Holders \ {s} : Unharmed(q),
           c = "granted" => t \in Tokens, rows'[s].status = "held" => rows'[s].token \in Tokens,
           c = "granted" /\ ~old => rows'[s].status = "held" /\ rows'[s].token = t /\ rows'[s].left = Ttl
    PROVE  Inv'
<1> DEFINE r == shim[s]
           n == [r EXCEPT !.heard = TRUE, !.token = t, !.repeat = old]
<1>1. r \in Shim
  BY SoundHere
<1>2. /\ n \in Shim /\ n.at = "asking" /\ n.bot = r.bot /\ n.cargo = r.cargo /\ n.token = t
      /\ n.timer = r.timer /\ n.due = r.due /\ n.repeat = old
  BY ONLY <1>1, t \in Tokens \cup {Nil}, old \in BOOLEAN, shim[s].at = "asking" DEF Shim
<1>3. shim' = [shim EXCEPT ![s] = n] /\ net' = [net EXCEPT ![s] = c] /\ faults' = faults
  BY <1>1 DEF Hears, Answer, Inv, ShimTypeOK
<1>4. rows'[s].status = "held" => rows'[s].token \in Tokens
  OBVIOUS
<1>5. r.timer <= Curl /\ r.due = (Ttl - Curl) + r.timer /\ r.timer \in Nat /\ r.bot \in Bots /\ ~r.cargo
  BY SoundHere DEF Sound, Shaped, Timed, Running, Shim
<1>6. n.due <= Ttl
  BY <1>2, <1>5, ConstantsAreNaturals
<1>7. Sound(n, c, rows'[s])
  BY <1>2, <1>4, <1>5, <1>6
     DEF Sound, Shaped, Timed, OnSlot, Granted, Builds, Renewed, Covered, Running
<1>8. QED
  BY <1>2, <1>3, <1>7, AnswerIsSound DEF Calls, Inv, ShimTypeOK

LEMMA DaemonAcquiresKeepsInv ==
    ASSUME Inv, NEW s \in Holders, DaemonAcquires(s)
    PROVE  Inv'
<1> DEFINE b == shim[s].bot
<1>1. [SlotsNext]_slots
  BY StepOfSlots DEF ShimNext, Daemon
<1>2. shim[s].at = "asking" /\ Fresh(s) \in Tokens
  BY FreshIsToken DEF DaemonAcquires, Inv
<1>3. Kept(Dead) \in [Holders -> Row]
  BY KeptIsTable DEF Inv, ShimTypeOK
<1>4. ASSUME \A q \in Holders \ {s} : rows'[q] = Kept(Dead)[q]
      PROVE  \A q \in Holders \ {s} : Unharmed(q)
  BY <1>4, ReapingHarmsNobody
<1>5. ASSUME rows'[s] = Kept(Dead)[s]
      PROVE  rows'[s].status = "held" => rows'[s].token \in Tokens
  BY <1>5, SoundHere DEF Kept
<1>6. ASSUME Grant(s, b, Fresh(s)), Hears(s, "granted", Fresh(s), FALSE)
      PROVE  Inv'
  <2>1. rows'[s].status = "held" /\ rows'[s].token = Fresh(s) /\ rows'[s].left = Ttl
    BY <1>3, <1>6 DEF Grant
  <2>2. \A q \in Holders \ {s} : rows'[q] = Kept(Dead)[q]
    BY <1>3, <1>6 DEF Grant
  <2>3. QED
    BY <1>1, <1>2, <1>4, <1>6, <2>1, <2>2, HearsIsSound DEF Answers
<1>7. ASSUME Repeat(s, b), Hears(s, "granted", rows[s].token, TRUE)
      PROVE  Inv'
  <2>1. rows' = Kept(Dead) /\ rows[s].token \in Tokens
    BY <1>7, SoundHere DEF Repeat, StillHeld, Held
  <2>2. QED
    BY <1>1, <1>2, <1>4, <1>5, <1>7, <2>1, HearsIsSound DEF Answers
<1>8. ASSUME Queue(s, b), Hears(s, "full", Nil, FALSE)
      PROVE  Inv'
  <2>1. rows'[s].status = "waiting"
    BY <1>3, <1>8 DEF Queue
  <2>2. \A q \in Holders \ {s} : rows'[q] = Kept(Dead)[q]
    BY <1>3, <1>8 DEF Queue
  <2>3. QED
    BY <1>1, <1>2, <1>4, <1>8, <2>1, <2>2, HearsIsSound DEF Answers
<1>9. ASSUME Refuse(s, b), NEW a \in {"mismatch", "busy"}, Hears(s, a, Nil, FALSE)
      PROVE  Inv'
  <2>1. rows' = Kept(Dead)
    BY <1>9 DEF Refuse
  <2>2. QED
    BY <1>1, <1>2, <1>4, <1>5, <1>9, <2>1, HearsIsSound DEF Answers
<1>10. QED
  BY <1>6, <1>7, <1>8, <1>9 DEF DaemonAcquires

LEMMA DaemonRenewsKeepsInv ==
    ASSUME Inv, NEW s \in Holders, DaemonRenews(s)
    PROVE  Inv'
<1>1. [SlotsNext]_slots
  BY StepOfSlots DEF ShimNext, Daemon
<1>2. /\ shim[s].at = "renewing" /\ shim[s] \in Shim /\ shim' = shim /\ faults' = faults
      /\ shim' = [shim EXCEPT ![s] = shim[s]]
  BY SoundHere DEF DaemonRenews, Answer, Inv, ShimTypeOK
<1>3. CASE Renew(s, shim[s].token) /\ Answer(s, "renewed")
  <2>1. /\ rows'[s].status = "held" /\ rows'[s].token = shim[s].token /\ rows'[s].left = Ttl
        /\ \A q \in Holders \ {s} : rows'[q] = rows[q]
    <3>1. rows[s] \in Row /\ rows[s].status = "held" /\ rows[s].token = shim[s].token
      BY <1>3, SoundHere DEF Renew, Renewable, Held
    <3>2. rows' = [rows EXCEPT ![s] = [rows[s] EXCEPT !.left = Ttl, !.silent = 0]]
      BY <1>3 DEF Renew, Inv, ShimTypeOK, SlotsTypeOK
    <3>3. QED
      BY <3>1, <3>2 DEF Inv, ShimTypeOK, SlotsTypeOK
  <2>2. shim[s].token \in Tokens
    BY <1>2, RunningHasToken DEF Running
  <2>3. /\ shim[s].due \in Nat /\ shim[s].timer \in Nat /\ shim[s].timer <= Curl
        /\ Builds(shim[s]) => shim[s].due <= Ttl
    BY <1>2, SoundHere, ConstantsAreNaturals DEF Sound, Timed, OnSlot, Shim
  <2>4. (Ttl - Curl) + shim[s].timer <= Ttl
    BY <2>3, ConstantsAreNaturals
  <2>5. Sound(shim[s], "renewed", rows'[s])
    BY <1>2, <2>1, <2>2, <2>3, <2>4, SoundHere
       DEF Sound, Shaped, Timed, OnSlot, Granted, Builds, Renewed, Covered, Running
  <2>6. \A q \in Holders \ {s} : Unharmed(q)
    BY <2>1 DEF Unharmed
  <2>7. QED
    BY <1>1, <1>2, <1>3, <2>5, <2>6, AnswerIsSound DEF Answer, Answers, Calls, Inv, ShimTypeOK
<1>4. CASE Answer(s, "rejected") /\ UNCHANGED slots
  <2>1. rows' = rows
    BY <1>4 DEF slots
  <2>2. Sound(shim[s], "rejected", rows'[s])
    BY <1>2, <2>1, SoundHere DEF Sound, Shaped, OnSlot, Granted, Renewed
  <2>3. \A q \in Holders \ {s} : Unharmed(q)
    BY <2>1 DEF Unharmed
  <2>4. QED
    BY <1>1, <1>2, <1>4, <2>2, <2>3, AnswerIsSound DEF Answer, Answers, Calls, Inv, ShimTypeOK
<1>5. QED
  BY <1>3, <1>4 DEF DaemonRenews

LEMMA DaemonReleasesKeepsInv ==
    ASSUME Inv, NEW s \in Holders, DaemonReleases(s)
    PROVE  Inv'
<1>1. [SlotsNext]_slots
  BY StepOfSlots DEF ShimNext, Daemon
<1>2. /\ shim[s].at \in Leaving /\ shim[s] \in Shim /\ shim' = [shim EXCEPT ![s] = shim[s]]
      /\ net' = [net EXCEPT ![s] = "released"] /\ faults' = faults
  BY SoundHere DEF DaemonReleases, Answer, Inv, ShimTypeOK, Leaving
<1>3. rows' = Kept({s}) \/ rows' = rows
  BY DEF DaemonReleases, Release, Cancel
<1>4. rows'[s].status = "held" => rows'[s].token \in Tokens
  BY <1>3, SoundHere DEF Kept
<1>5. \A q \in Holders \ {s} : Unharmed(q)
  BY <1>3 DEF Unharmed, Kept
<1>6. Sound(shim[s], "released", rows'[s])
  BY <1>2, <1>4, SoundHere
     DEF Sound, Shaped, Timed, OnSlot, Granted, Builds, Renewed, Running, Leaving
<1>7. QED
  BY <1>1, <1>2, <1>5, <1>6, AnswerIsSound DEF Answers, Calls, Inv, ShimTypeOK

LEMMA DaemonReapsKeepsInv ==
    ASSUME Inv, DaemonReaps
    PROVE  Inv'
<1>1. SlotsTypeOK'
  BY StepOfSlots, SlotsTypeStep DEF ShimNext, Inv, ShimTypeOK
<1>2. ASSUME NEW q \in Holders
      PROVE  Sound(shim'[q], net'[q], rows'[q])
  <2>1. \E gone : gone \subseteq Dead /\ rows' = Kept(gone)
    BY DEF DaemonReaps, Sweep, Status, Dead, Stays
  <2>2. Unharmed(q)
    BY <2>1, ReapingHarmsNobody
  <2>3. QED
    BY <2>2, SoundHere, OtherRow DEF Unharmed, DaemonReaps
<1>3. QED
  BY <1>1, <1>2 DEF DaemonReaps, Inv, ShimTypeOK

LEMMA FaultIsCounted ==
    ASSUME ShimTypeOK, Fault
    PROVE  faults' \in 0 .. MaxFaults
BY ShimAssumption DEF ShimTypeOK, Fault

LEMMA LoseKeepsInv ==
    ASSUME Inv, NEW s \in Holders, Lose(s)
    PROVE  Inv'
<1> DEFINE r == shim[s]
           n == IF r.at = "asking"
                THEN [r EXCEPT !.heard = net[s] # "sent", !.token = Nil, !.repeat = FALSE] ELSE r
<1>1. r \in Shim /\ rows' = rows /\ (rows[s].status = "held" => rows[s].token \in Tokens)
  BY SoundHere DEF Lose, slots
<1>2. /\ n \in Shim /\ n.at = r.at /\ n.bot = r.bot /\ n.cargo = r.cargo
      /\ n.timer = r.timer /\ n.due = r.due /\ (r.at # "asking" => n = r)
  BY ONLY <1>1 DEF Shim
<1>3. Sound(n, "lost", rows'[s])
  BY <1>1, <1>2, SoundHere
     DEF Sound, Shaped, Timed, OnSlot, Granted, Builds, Renewed, Covered, Running
<1>4. shim' = [shim EXCEPT ![s] = n] /\ net' = [net EXCEPT ![s] = "lost"]
  BY DEF Lose, Inv, ShimTypeOK
<1>5. faults' \in 0 .. MaxFaults
  BY FaultIsCounted DEF Lose, Inv
<1>6. [SlotsNext]_slots
  BY StepOfSlots DEF ShimNext
<1>7. \A q \in Holders \ {s} : Unharmed(q)
  BY <1>1 DEF Unharmed
<1>8. QED
  BY <1>2, <1>3, <1>4, <1>5, <1>6, <1>7, AnswerIsSound DEF Calls

LEMMA KillKeepsInv ==
    ASSUME Inv, NEW s \in Holders, Kill(s)
    PROVE  Inv'
<1>1. faults' \in 0 .. MaxFaults /\ rows' = rows /\ [SlotsNext]_slots
  BY FaultIsCounted, StepOfSlots DEF Kill, ShimNext, Inv, slots
<1>2. \A q \in Holders \ {s} : Unharmed(q)
  BY <1>1 DEF Unharmed
<1>3. CASE shim[s].at \in Running /\ shim' = [shim EXCEPT ![s].alive = FALSE] /\ UNCHANGED net
  <2> DEFINE n == [shim[s] EXCEPT !.alive = FALSE]
  <2>1. shim[s] \in Shim
    BY SoundHere
  <2>2. /\ n \in Shim /\ n.at = shim[s].at /\ n.bot = shim[s].bot /\ n.token = shim[s].token
        /\ n.cargo = shim[s].cargo /\ n.timer = shim[s].timer /\ n.due = shim[s].due
        /\ n.repeat = shim[s].repeat
    BY ONLY <2>1 DEF Shim
  <2>3. Sound(n, net[s], rows'[s])
    BY <1>1, <2>2, SoundHere
       DEF Sound, Shaped, Timed, OnSlot, Granted, Builds, Renewed, Covered
  <2>4. shim' = [shim EXCEPT ![s] = n] /\ net' = [net EXCEPT ![s] = net[s]]
    BY <1>3 DEF Inv, ShimTypeOK
  <2>5. QED
    BY <1>1, <1>2, <2>2, <2>3, <2>4, SoundHere, AnswerIsSound
<1>4. CASE shim' = [shim EXCEPT ![s] = Off] /\ net' = [net EXCEPT ![s] = "idle"]
  <2>1. Off \in Shim /\ "idle" \in Calls /\ Sound(Off, "idle", rows'[s])
    BY <1>1, SoundHere, OffIsSound DEF Calls
  <2>2. QED
    BY <1>1, <1>2, <1>4, <2>1, AnswerIsSound
<1>5. QED
  BY <1>3, <1>4 DEF Kill

LEMMA TickKeepsInv ==
    ASSUME Inv, Tick
    PROVE  Inv'
<1>1. SlotsTypeOK'
  BY StepOfSlots, SlotsTypeStep DEF ShimNext, Inv, ShimTypeOK
<1>2. ASSUME NEW s \in Holders
      PROVE  shim'[s] \in Shim /\ Sound(shim'[s], net'[s], rows'[s])
  <2> DEFINE r == shim[s]
             n == [r EXCEPT !.timer = Minus1(@), !.due = Minus1(@)]
  <2>1. r \in Shim /\ r.timer \in Nat /\ r.due \in Nat /\ rows[s] \in Row /\ rows[s].left \in Nat
    BY SoundHere, ConstantsAreNaturals DEF Shim
  <2>2. Minus1(r.timer) \in Nat /\ Minus1(r.due) \in Nat
    BY <2>1 DEF Minus1
  <2>3. /\ n \in Shim /\ n.at = r.at /\ n.bot = r.bot /\ n.token = r.token /\ n.cargo = r.cargo
        /\ n.timer = Minus1(r.timer) /\ n.due = Minus1(r.due) /\ n.repeat = r.repeat
    BY ONLY <2>1, <2>2 DEF Shim
  <2>4. shim'[s] = n /\ net'[s] = net[s] /\ rows'[s] = Older(rows[s])
    BY DEF Tick, Pass
  <2>5. /\ rows'[s].status = rows[s].status /\ rows'[s].token = rows[s].token
        /\ rows[s].status = "held" => rows'[s].left = Minus1(rows[s].left)
    BY <2>1, <2>4 DEF Older, Minus1
  <2>6. r.at = "off" \/ (r.timer > 0 /\ Minus1(r.timer) = r.timer - 1)
    BY <2>1 DEF Tick, Minus1
  <2>7. Shaped(n, net[s], rows'[s])
    BY <2>3, <2>5, SoundHere DEF Sound, Shaped
  <2>8. Timed(n)
    BY <2>1, <2>3, <2>6, SoundHere, ConstantsAreNaturals DEF Sound, Timed, Minus1
  <2>9. Renewed(r, net[s]) => (Ttl - Curl) + n.timer <= Minus1(rows[s].left)
    BY <2>1, <2>3, <2>6, SoundHere, ConstantsAreNaturals
       DEF Sound, OnSlot, Renewed, Minus1
  <2>10. r.due <= rows[s].left => n.due <= Minus1(rows[s].left)
    BY <2>1, <2>3 DEF Minus1
  <2>11. OnSlot(n, net[s], rows'[s])
    BY <2>3, <2>5, <2>9, <2>10, SoundHere
       DEF Sound, OnSlot, Granted, Builds, Renewed, Covered
  <2>12. QED
    BY <2>3, <2>4, <2>7, <2>8, <2>11 DEF Sound
<1>3. shim' \in [Holders -> Shim] /\ net' = net /\ faults' = faults
  BY <1>2 DEF Tick
<1>4. QED
  BY <1>1, <1>2, <1>3 DEF Inv, ShimTypeOK

LEMMA InvHolds == ShimSafeSpec => []Inv
<1>1. ShimInit => Inv
  <2>1. ASSUME ShimInit
        PROVE  Inv
    <3>1. ShimTypeOK
      BY <2>1, SlotsAssumption, ShimAssumption, OffIsSound
         DEF ShimInit, SlotsInit, SlotsTypeOK, ShimTypeOK, Waiting
    <3>2. \A s \in Holders : Sound(shim[s], net[s], rows[s])
      BY <2>1, OffIsSound DEF ShimInit, SlotsInit, Calls
    <3>3. QED
      BY <3>1, <3>2 DEF Inv
  <2>2. QED
    BY <2>1
<1>2. Inv /\ [ShimNext]_vars => Inv'
  <2>1. CASE UNCHANGED vars
    BY <2>1 DEF vars, slots, Inv, ShimTypeOK, SlotsTypeOK, Waiting
  <2>2. ASSUME Inv, ShimNext
        PROVE  Inv'
    BY <2>2, StartKeepsInv, PollKeepsInv, ToldKeepsInv, InterruptKeepsInv, FinishKeepsInv,
       WakeKeepsInv, RenewToldKeepsInv, LeaveToldKeepsInv, DaemonAcquiresKeepsInv,
       DaemonRenewsKeepsInv, DaemonReleasesKeepsInv, DaemonReapsKeepsInv, LoseKeepsInv,
       KillKeepsInv, TickKeepsInv
       DEF ShimNext, Steps, Daemon
  <2>3. QED
    BY <2>1, <2>2
<1>3. QED
  BY <1>1, <1>2, PTL DEF ShimSafeSpec

(* The wrapper is well typed (the variables of the shell script, and the   *)
(* answers it tells apart, cargo_shim.rs).                                 *)
THEOREM ShimTypesHold == ShimSafeSpec => []ShimTypeOK
<1>1. Inv => ShimTypeOK
  BY DEF Inv
<1>2. QED
  BY <1>1, InvHolds, PTL

(* The wrappers and the daemon together keep to the table of slots: all    *)
(* that was proved of it, whoever calls, holds of them.                    *)
THEOREM ShimImplementsSlots == ShimSafeSpec => SlotsSpec
<1>1. ShimInit => SlotsInit
  BY DEF ShimInit
<1>2. Inv /\ [ShimNext]_vars => [SlotsNext]_slots
  BY StepOfSlots
<1>3. QED
  BY <1>1, <1>2, InvHolds, PTL DEF ShimSafeSpec, SlotsSpec

(* So the wrappers never hold more slots than the configuration allows,    *)
(* whatever they ask, lose or leave behind (acquire, build_scheduler.rs).  *)
THEOREM ShimHoldsWithinMax == ShimSafeSpec => []HeldWithinMax
BY ShimImplementsSlots, HeldWithinMaxHolds, PTL

(* Cargo runs only under a slot of its own: the deadline, counted from     *)
(* when a call was sent, never outlives the lease in the table, however    *)
(* calls get lost (am_lease_watch, cargo_shim.rs).                         *)
THEOREM RunsOnItsSlotHolds == ShimSafeSpec => []RunsOnItsSlot
<1>1. Inv => RunsOnItsSlot
  BY DEF Inv, Sound, OnSlot, Builds, Covered, RunsOnItsSlot
<1>2. QED
  BY <1>1, InvHolds, PTL

-----------------------------------------------------------------------------
(* Nobody who polls is overtaken                                           *)

(* A wrapper polls, its last poll was heard, and the row waits for its bot.*)
Listening(r, row) ==
    r.at \in Polling /\ r.heard /\ row.status = "waiting" /\ r.bot = row.bot

(* Its row has been silent for no longer than the rhythm of the polls      *)
(* leaves room for: what passed since the last poll, and what is left of   *)
(* the call or of the pause.                                               *)
Patient(r, c, row) ==
    /\ r.at = "waiting" => row.silent + r.timer + Curl < LiveWaiter
    /\ r.at = "asking" /\ c = "sent" => row.silent + r.timer < LiveWaiter
    /\ r.at = "asking" /\ c # "sent" => row.silent + r.timer <= Curl

(* An answered poll was heard, and who is heard is not silent.             *)
InRhythm(r, c, row) ==
    /\ r.at = "asking" /\ c \in Answers => r.heard
    /\ Listening(r, row) => Patient(r, c, row)

RhythmInv == \A v \in Holders : InRhythm(shim[v], net[v], rows[v])

LEMMA RhythmOfConstants ==
    /\ LiveWaiter \in Nat /\ StaleWaiting \in Nat
    /\ Curl + Pause + Curl < LiveWaiter /\ Curl + PollEvery + Curl < LiveWaiter
    /\ LiveWaiter <= StaleWaiting
BY SlotsAssumption, RhythmAssumption

LEMMA TimesAreNaturals ==
    ASSUME Inv, NEW s \in Holders
    PROVE  shim[s].timer \in Nat /\ rows[s].silent \in Nat /\ rows[s].silent <= StaleWaiting
BY SoundHere, RhythmOfConstants DEF Shim, Row

(* Who does not poll has no rhythm to keep.                                *)
LEMMA OthersAreInRhythm ==
    ASSUME NEW r, NEW c, NEW row, r.at \notin Polling
    PROVE  InRhythm(r, c, row)
BY DEF InRhythm, Listening, Polling

(* A row that is reaped, or whose lease alone changed, disturbs nobody.    *)
LEMMA RowKeepsRhythm ==
    ASSUME NEW r, NEW c, NEW row, NEW new, InRhythm(r, c, row),
           new = row \/ new.status # "waiting"
    PROVE  InRhythm(r, c, new)
BY DEF InRhythm, Listening

(* A step of the wrapper s alone.                                          *)
LEMMA GoesInRhythm ==
    ASSUME Inv, RhythmInv, NEW s \in Holders, NEW r, NEW c, Goes(s, r, c), InRhythm(r, c, rows[s])
    PROVE  RhythmInv'
<1>1. rows' = rows
  BY DEF Goes, slots
<1>2. ASSUME NEW v \in Holders
      PROVE  InRhythm(shim'[v], net'[v], rows'[v])
  <2>1. CASE v = s
    BY <1>1, <2>1 DEF Goes, Inv, ShimTypeOK
  <2>2. CASE v # s
    <3>1. shim'[v] = shim[v] /\ net'[v] = net[v]
      BY <2>2 DEF Goes, Inv, ShimTypeOK
    <3>2. QED
      BY <1>1, <3>1 DEF RhythmInv
  <2>3. QED
    BY <2>1, <2>2
<1>3. QED
  BY <1>2 DEF RhythmInv

LEMMA NotPollingGoes ==
    ASSUME Inv, RhythmInv, NEW s \in Holders, NEW r, NEW c, Goes(s, r, c), r.at \notin Polling
    PROVE  RhythmInv'
BY OthersAreInRhythm, GoesInRhythm

LEMMA LeavingGoes ==
    ASSUME Inv, RhythmInv, NEW s \in Holders, NEW how \in Leaving, Goes(s, Leave(shim[s], how), "sent")
    PROVE  RhythmInv'
<1>1. shim[s] \in Shim
  BY SoundHere
<1>2. Leave(shim[s], how).at = how
  BY ONLY <1>1 DEF Leave, Shim
<1>3. QED
  BY <1>2, NotPollingGoes DEF Leaving, Polling

LEMMA OffGoes ==
    ASSUME Inv, RhythmInv, NEW s \in Holders, Goes(s, Off, "idle")
    PROVE  RhythmInv'
BY NotPollingGoes DEF Off, Polling

LEMMA SleepingGoes ==
    ASSUME Inv, RhythmInv, NEW s \in Holders, NEW how, how \notin Polling, NEW ticks, NEW c,
           Goes(s, Sleep(shim[s], how, ticks), c)
    PROVE  RhythmInv'
<1>1. shim[s] \in Shim
  BY SoundHere
<1>2. Sleep(shim[s], how, ticks).at = how
  BY ONLY <1>1 DEF Sleep, Shim
<1>3. QED
  BY <1>2, NotPollingGoes

-----------------------------------------------------------------------------

LEMMA StartInRhythm ==
    ASSUME Inv, RhythmInv, NEW s \in Holders, NEW b \in Bots, Start(s, b)
    PROVE  RhythmInv'
<1> DEFINE r == [Off EXCEPT !.alive = TRUE, !.bot = b]
<1>1. r \in Shim /\ ~r.heard
  BY DEF Off, Shim
<1>2. ~Ask(r).heard
  BY ONLY <1>1 DEF Ask, Shim
<1>3. InRhythm(Ask(r), "sent", rows[s])
  BY <1>2 DEF InRhythm, Listening, Answers
<1>4. QED
  BY <1>3, GoesInRhythm DEF Start

(* The next poll goes out while there is still time for one call.          *)
LEMMA PollInRhythm ==
    ASSUME Inv, RhythmInv, NEW s \in Holders, Poll(s)
    PROVE  RhythmInv'
<1> DEFINE r == shim[s]
<1>1. r \in Shim /\ r.at = "waiting" /\ r.timer = 0
  BY SoundHere DEF Poll
<1>2. /\ Ask(r).at = "asking" /\ Ask(r).timer = Curl /\ Ask(r).heard = r.heard
      /\ Ask(r).bot = r.bot
  BY ONLY <1>1 DEF Ask, Shim
<1>3. Listening(Ask(r), rows[s]) => Listening(r, rows[s])
  BY <1>1, <1>2 DEF Listening, Polling
<1>4. Listening(r, rows[s]) => rows[s].silent + Curl < LiveWaiter
  BY <1>1, TimesAreNaturals, ConstantsAreNaturals, RhythmOfConstants
     DEF RhythmInv, InRhythm, Patient
<1>5. InRhythm(Ask(r), "sent", rows[s])
  BY <1>2, <1>3, <1>4 DEF InRhythm, Patient, Answers
<1>6. QED
  BY <1>5, GoesInRhythm DEF Poll

(* Whoever was answered, or lost an answer, sleeps until the next poll.    *)
LEMMA PauseInRhythm ==
    ASSUME Inv, RhythmInv, NEW s \in Holders, NEW r \in Shim, NEW ticks \in Nat,
           shim[s].at = "asking", net[s] # "sent", Curl + ticks + Curl < LiveWaiter,
           r.at = "waiting", r.timer = ticks, r.heard = shim[s].heard, r.bot = shim[s].bot,
           Goes(s, r, "idle")
    PROVE  RhythmInv'
<1>1. Listening(r, rows[s]) => Listening(shim[s], rows[s])
  BY DEF Listening, Polling
<1>2. Listening(shim[s], rows[s]) => rows[s].silent + shim[s].timer <= Curl
  BY DEF RhythmInv, InRhythm, Patient
<1>3. Listening(r, rows[s]) => rows[s].silent + ticks + Curl < LiveWaiter
  BY <1>1, <1>2, TimesAreNaturals, ConstantsAreNaturals, RhythmOfConstants
<1>4. InRhythm(r, "idle", rows[s])
  BY <1>3 DEF InRhythm, Patient
<1>5. QED
  BY <1>4, GoesInRhythm

LEMMA ToldInRhythm ==
    ASSUME Inv, RhythmInv, NEW s \in Holders, Told(s)
    PROVE  RhythmInv'
<1> DEFINE r == shim[s]
<1>1. r \in Shim /\ r.at = "asking" /\ r.down \in Nat
  BY SoundHere DEF Told, Shim
<1>2. ASSUME net[s] = "granted",
             Goes(s, [Sleep(r, "building", RenewEvery) EXCEPT !.cargo = TRUE, !.down = 0], "idle")
      PROVE  RhythmInv'
  <2> DEFINE n == [Sleep(r, "building", RenewEvery) EXCEPT !.cargo = TRUE, !.down = 0]
  <2>1. n.at = "building"
    BY ONLY <1>1 DEF Sleep, Shim
  <2>2. QED
    BY <1>2, <2>1, NotPollingGoes DEF Polling
<1>3. ASSUME net[s] = "full",
             Goes(s, [Sleep(r, "waiting", PollEvery) EXCEPT !.down = 0, !.due = 0], "idle")
      PROVE  RhythmInv'
  <2> DEFINE n == [Sleep(r, "waiting", PollEvery) EXCEPT !.down = 0, !.due = 0]
  <2>1. PollEvery \in Nat
    BY ConstantsAreNaturals
  <2>2. n \in Shim
    BY ONLY <1>1, <2>1 DEF Sleep, Shim, Polling
  <2>3. n.at = "waiting" /\ n.timer = PollEvery /\ n.heard = r.heard /\ n.bot = r.bot
    BY ONLY <1>1 DEF Sleep, Shim
  <2>4. QED
    BY <1>1, <1>3, <2>1, <2>2, <2>3, RhythmOfConstants, PauseInRhythm
<1>4. ASSUME net[s] \in {"busy", "lost"}, Down(s)
      PROVE  RhythmInv'
  <2>1. CASE r.down + 1 >= DownMax
    BY <1>4, <2>1, OffGoes DEF Down
  <2>2. CASE ~(r.down + 1 >= DownMax)
    <3> DEFINE n == [Sleep(r, "waiting", Pause) EXCEPT !.down = @ + 1, !.due = 0]
    <3>1. Pause \in Nat
      BY ConstantsAreNaturals
    <3>2. n = [Sleep(r, "waiting", Pause) EXCEPT !.down = r.down + 1, !.due = 0]
      BY ONLY <1>1 DEF Sleep, Shim
    <3>3. r.down + 1 \in Nat
      BY <1>1
    <3>4. n \in Shim /\ n.at = "waiting" /\ n.timer = Pause /\ n.heard = r.heard /\ n.bot = r.bot
      BY ONLY <1>1, <3>1, <3>2, <3>3 DEF Sleep, Shim, Polling
    <3>5. Goes(s, n, "idle")
      BY <1>4, <2>2 DEF Down
    <3>6. QED
      <4> HIDE DEF n
      <4>1. QED
        BY <1>1, <1>4, <3>1, <3>4, <3>5, RhythmOfConstants, PauseInRhythm
  <2>3. QED
    BY <2>1, <2>2
<1>5. QED
  BY <1>2, <1>3, <1>4, OffGoes DEF Told

LEMMA InterruptInRhythm ==
    ASSUME Inv, RhythmInv, NEW s \in Holders, Interrupt(s)
    PROVE  RhythmInv'
BY LeavingGoes DEF Interrupt, Leaving

LEMMA FinishInRhythm ==
    ASSUME Inv, RhythmInv, NEW s \in Holders, Finish(s)
    PROVE  RhythmInv'
<1>1. shim[s] \in Shim /\ shim[s].at \in Running
  BY SoundHere DEF Finish, Sound, Shaped
<1>2. [shim[s] EXCEPT !.cargo = FALSE].at = shim[s].at
  BY ONLY <1>1 DEF Shim
<1>3. QED
  BY <1>1, <1>2, LeavingGoes, NotPollingGoes DEF Finish, Leaving, Running, Polling

LEMMA WakeInRhythm ==
    ASSUME Inv, RhythmInv, NEW s \in Holders, Wake(s)
    PROVE  RhythmInv'
BY LeavingGoes, SleepingGoes DEF Wake, Leaving, Polling

LEMMA RenewToldInRhythm ==
    ASSUME Inv, RhythmInv, NEW s \in Holders, RenewTold(s)
    PROVE  RhythmInv'
<1> DEFINE n == [Sleep(shim[s], "building", RenewEvery)
                   EXCEPT !.due = Ttl - (Curl - shim[s].timer), !.repeat = FALSE]
<1>1. shim[s] \in Shim
  BY SoundHere
<1>2. n.at = "building"
  BY ONLY <1>1 DEF Sleep, Shim
<1>3. ASSUME Goes(s, n, "idle")
      PROVE  RhythmInv'
  BY <1>2, <1>3, NotPollingGoes DEF Polling
<1>4. QED
  BY <1>3, LeavingGoes, SleepingGoes DEF RenewTold, Leaving, Polling

LEMMA LeaveToldInRhythm ==
    ASSUME Inv, RhythmInv, NEW s \in Holders, LeaveTold(s)
    PROVE  RhythmInv'
BY OffGoes, SleepingGoes DEF LeaveTold, Polling

-----------------------------------------------------------------------------

(* The daemon answers s, or a fault strikes it: what changes of the others *)
(* is at most that their rows are reaped.                                  *)
LEMMA AnsweredInRhythm ==
    ASSUME Inv, RhythmInv, NEW s \in Holders, NEW r, NEW c,
           shim' = [shim EXCEPT ![s] = r], net' = [net EXCEPT ![s] = c],
           InRhythm(r, c, rows'[s]),
           \A q \in Holders \ {s} : rows'[q] = rows[q] \/ rows'[q].status # "waiting"
    PROVE  RhythmInv'
<1>1. ASSUME NEW v \in Holders
      PROVE  InRhythm(shim'[v], net'[v], rows'[v])
  <2>1. CASE v = s
    BY <2>1 DEF Inv, ShimTypeOK
  <2>2. CASE v # s
    <3>1. shim'[v] = shim[v] /\ net'[v] = net[v]
      BY <2>2 DEF Inv, ShimTypeOK
    <3>2. QED
      BY <2>2, <3>1, RowKeepsRhythm DEF RhythmInv
  <2>3. QED
    BY <2>1, <2>2
<1>2. QED
  BY <1>1 DEF RhythmInv

(* Whoever is refused has no row that waits for its bot.                   *)
LEMMA RefusedWaitsNot ==
    ASSUME NEW s \in Holders, NEW b, Refuse(s, b), rows'[s].status = "waiting"
    PROVE  rows'[s].bot # b
<1>1. rows'[s] = IF Stays(s) THEN rows[s] ELSE Blank
  BY DEF Refuse, Kept, Dead
<1>2. Stays(s) /\ rows'[s] = rows[s]
  BY <1>1 DEF Blank
<1>3. OwnedByAnother(s, b)
  BY <1>2 DEF Refuse, Admitted, TooMany
<1>4. QED
  BY <1>2, <1>3 DEF OwnedByAnother

(* A poll that is answered sets the silence of the row back to nothing.    *)
LEMMA DaemonAcquiresInRhythm ==
    ASSUME Inv, RhythmInv, NEW s \in Holders, DaemonAcquires(s)
    PROVE  RhythmInv'
<1> DEFINE b == shim[s].bot
           n(t, old) == [shim[s] EXCEPT !.heard = TRUE, !.token = t, !.repeat = old]
<1>1. /\ shim[s] \in Shim /\ shim[s].at = "asking" /\ shim[s].timer \in Nat /\ shim[s].timer <= Curl
      /\ Curl \in Nat /\ Kept(Dead) \in [Holders -> Row]
  BY SoundHere, KeptIsTable, ConstantsAreNaturals
     DEF DaemonAcquires, Sound, Timed, Shim, Inv, ShimTypeOK
<1>2. ASSUME NEW t, NEW old
      PROVE  /\ n(t, old).at = "asking" /\ n(t, old).heard /\ n(t, old).bot = b
             /\ n(t, old).timer = shim[s].timer
  BY ONLY <1>1 DEF Shim
<1>3. ASSUME NEW a \in {"granted", "full", "mismatch", "busy"}, NEW t, NEW old, Hears(s, a, t, old),
             \A q \in Holders \ {s} : rows'[q] = Kept(Dead)[q],
             rows'[s].status = "waiting" => rows'[s].bot # b \/ rows'[s].silent = 0
      PROVE  RhythmInv'
  <2>1. shim' = [shim EXCEPT ![s] = n(t, old)] /\ net' = [net EXCEPT ![s] = a]
    BY <1>1, <1>3 DEF Hears, Answer, Inv, ShimTypeOK
  <2>2. \A q \in Holders \ {s} : rows'[q] = rows[q] \/ rows'[q].status # "waiting"
    BY <1>3 DEF Kept, Blank
  <2>3. Listening(n(t, old), rows'[s]) => rows'[s].silent = 0
    BY <1>2, <1>3 DEF Listening
  <2>4. InRhythm(n(t, old), a, rows'[s])
    BY <1>1, <1>2, <1>3, <2>3 DEF InRhythm, Patient
  <2>5. QED
    BY <2>1, <2>2, <2>4, AnsweredInRhythm
<1>4. ASSUME Grant(s, b, Fresh(s)), Hears(s, "granted", Fresh(s), FALSE)
      PROVE  RhythmInv'
  <2>1. rows'[s].status = "held" /\ \A q \in Holders \ {s} : rows'[q] = Kept(Dead)[q]
    BY <1>1, <1>4 DEF Grant
  <2>2. QED
    BY <1>3, <1>4, <2>1
<1>5. ASSUME Repeat(s, b), Hears(s, "granted", rows[s].token, TRUE)
      PROVE  RhythmInv'
  <2>1. rows' = Kept(Dead) /\ rows'[s].status = "held"
    BY <1>5 DEF Repeat, StillHeld, Held, Kept, Dead
  <2>2. QED
    BY <1>3, <1>5, <2>1
<1>6. ASSUME Queue(s, b), Hears(s, "full", Nil, FALSE)
      PROVE  RhythmInv'
  <2>1. rows'[s].silent = 0 /\ \A q \in Holders \ {s} : rows'[q] = Kept(Dead)[q]
    BY <1>1, <1>6 DEF Queue
  <2>2. QED
    BY <1>3, <1>6, <2>1
<1>7. ASSUME Refuse(s, b), NEW a \in {"mismatch", "busy"}, Hears(s, a, Nil, FALSE)
      PROVE  RhythmInv'
  <2>1. rows' = Kept(Dead) /\ (rows'[s].status = "waiting" => rows'[s].bot # b)
    BY <1>7, RefusedWaitsNot DEF Refuse
  <2>2. QED
    BY <1>3, <1>7, <2>1
<1>8. QED
  BY <1>4, <1>5, <1>6, <1>7 DEF DaemonAcquires

LEMMA DaemonRenewsInRhythm ==
    ASSUME Inv, RhythmInv, NEW s \in Holders, DaemonRenews(s)
    PROVE  RhythmInv'
<1>1. shim' = [shim EXCEPT ![s] = shim[s]] /\ shim[s].at \notin Polling
  BY DEF DaemonRenews, Polling, Inv, ShimTypeOK
<1>2. PICK c \in {"renewed", "rejected"} : net' = [net EXCEPT ![s] = c]
  BY DEF DaemonRenews, Answer
<1>3. \A q \in Holders \ {s} : rows'[q] = rows[q]
  BY DEF DaemonRenews, Renew, slots, Inv, ShimTypeOK, SlotsTypeOK
<1>4. QED
  BY <1>1, <1>2, <1>3, OthersAreInRhythm, AnsweredInRhythm

LEMMA DaemonReleasesInRhythm ==
    ASSUME Inv, RhythmInv, NEW s \in Holders, DaemonReleases(s)
    PROVE  RhythmInv'
<1>1. /\ shim' = [shim EXCEPT ![s] = shim[s]] /\ shim[s].at \notin Polling
      /\ net' = [net EXCEPT ![s] = "released"]
  BY DEF DaemonReleases, Answer, Polling, Inv, ShimTypeOK
<1>2. \A q \in Holders \ {s} : rows'[q] = rows[q]
  BY DEF DaemonReleases, Release, Cancel, Kept
<1>3. QED
  BY <1>1, <1>2, OthersAreInRhythm, AnsweredInRhythm

LEMMA DaemonReapsInRhythm ==
    ASSUME Inv, RhythmInv, DaemonReaps
    PROVE  RhythmInv'
<1>1. \A v \in Holders : rows'[v] = rows[v] \/ rows'[v].status # "waiting"
  BY DEF DaemonReaps, Sweep, Status, Kept, Blank
<1>2. shim' = shim /\ net' = net
  BY DEF DaemonReaps
<1>3. QED
  BY <1>1, <1>2, RowKeepsRhythm DEF RhythmInv

(* A poll that got lost on its way was not heard; one whose answer got     *)
(* lost was.                                                               *)
LEMMA LoseInRhythm ==
    ASSUME Inv, RhythmInv, NEW s \in Holders, Lose(s)
    PROVE  RhythmInv'
<1> DEFINE r == shim[s]
           n == IF r.at = "asking"
                THEN [r EXCEPT !.heard = net[s] # "sent", !.token = Nil, !.repeat = FALSE] ELSE r
<1>1. r \in Shim /\ rows' = rows
  BY SoundHere DEF Lose, slots
<1>2. shim' = [shim EXCEPT ![s] = n] /\ net' = [net EXCEPT ![s] = "lost"]
  BY DEF Lose, Inv, ShimTypeOK
<1>3. CASE r.at # "asking"
  <2>1. n = r
    BY <1>3
  <2>2. InRhythm(n, "lost", rows[s])
    BY <1>3, <2>1 DEF RhythmInv, InRhythm, Patient
  <2>3. QED
    BY <1>1, <1>2, <2>2, AnsweredInRhythm
<1>4. CASE r.at = "asking"
  <2>1. /\ n.at = "asking" /\ n.bot = r.bot /\ n.timer = r.timer
        /\ n.heard = (net[s] # "sent")
    BY ONLY <1>1, <1>4 DEF Shim
  <2>2. net[s] \in Answers \cup {"sent"}
    BY DEF Lose
  <2>3. Listening(n, rows[s]) => net[s] \in Answers /\ net[s] # "sent" /\ Listening(r, rows[s])
    BY <1>4, <2>1, <2>2 DEF Listening, RhythmInv, InRhythm, Polling
  <2>4. Listening(n, rows[s]) => rows[s].silent + r.timer <= Curl
    BY <1>4, <2>3 DEF RhythmInv, InRhythm, Patient
  <2>5. InRhythm(n, "lost", rows[s])
    BY <2>1, <2>4 DEF InRhythm, Patient, Answers
  <2>6. QED
    BY <1>1, <1>2, <2>5, AnsweredInRhythm
<1>5. QED
  BY <1>3, <1>4

LEMMA KillInRhythm ==
    ASSUME Inv, RhythmInv, NEW s \in Holders, Kill(s)
    PROVE  RhythmInv'
<1>1. rows' = rows /\ shim[s] \in Shim
  BY SoundHere DEF Kill, slots
<1>2. CASE shim[s].at \in Running /\ shim' = [shim EXCEPT ![s].alive = FALSE] /\ UNCHANGED net
  <2> DEFINE n == [shim[s] EXCEPT !.alive = FALSE]
  <2>1. n.at \notin Polling
    BY ONLY <1>1, <1>2 DEF Shim, Running, Polling
  <2>2. shim' = [shim EXCEPT ![s] = n] /\ net' = [net EXCEPT ![s] = net[s]]
    BY <1>2 DEF Inv, ShimTypeOK
  <2>3. QED
    BY <1>1, <2>1, <2>2, OthersAreInRhythm, AnsweredInRhythm
<1>3. CASE shim' = [shim EXCEPT ![s] = Off] /\ net' = [net EXCEPT ![s] = "idle"]
  BY <1>1, <1>3, OthersAreInRhythm, AnsweredInRhythm DEF Off, Polling
<1>4. QED
  BY <1>2, <1>3 DEF Kill

(* The row grows silent as the call or the pause runs down.                *)
LEMMA TickInRhythm ==
    ASSUME Inv, RhythmInv, Tick
    PROVE  RhythmInv'
<1>1. ASSUME NEW v \in Holders
      PROVE  InRhythm(shim'[v], net'[v], rows'[v])
  <2> DEFINE r == shim[v]
             n == [r EXCEPT !.timer = Minus1(@), !.due = Minus1(@)]
  <2>1. r \in Shim /\ rows[v] \in Row
    BY SoundHere
  <2>2. n.at = r.at /\ n.bot = r.bot /\ n.heard = r.heard /\ n.timer = Minus1(r.timer)
    BY ONLY <2>1 DEF Shim
  <2>3. shim'[v] = n /\ net'[v] = net[v] /\ rows'[v] = Older(rows[v])
    BY DEF Tick, Pass
  <2>4. CASE r.at \in Polling /\ rows[v].status = "waiting"
    <3>1. Minus1(r.timer) = r.timer - 1
      BY <2>4, TimesAreNaturals DEF Tick, Minus1, Polling
    <3>2. /\ rows'[v].status = rows[v].status /\ rows'[v].bot = rows[v].bot
          /\ rows'[v].silent = rows[v].silent + 1 \/ rows'[v].silent = rows[v].silent
      BY <2>1, <2>3, <2>4 DEF Older, Row
    <3>3. rows'[v].silent + n.timer <= rows[v].silent + r.timer
      BY <2>2, <3>1, <3>2, TimesAreNaturals
    <3>4. Listening(n, rows'[v]) => Listening(r, rows[v])
      BY <2>2, <3>2 DEF Listening
    <3>5. rows'[v].silent \in Nat /\ n.timer \in Int /\ r.timer \in Nat /\ rows[v].silent \in Nat
          /\ Curl \in Nat /\ LiveWaiter \in Nat
      BY <2>2, <3>1, <3>2, TimesAreNaturals, ConstantsAreNaturals, RhythmOfConstants
    <3>6. Patient(r, net[v], rows[v]) => Patient(n, net[v], rows'[v])
      BY <2>2, <3>3, <3>5 DEF Patient
    <3>7. QED
      BY <2>2, <2>3, <3>4, <3>6 DEF RhythmInv, InRhythm
  <2>5. CASE r.at \notin Polling
    BY <2>2, <2>3, <2>5, OthersAreInRhythm
  <2>6. CASE rows[v].status # "waiting"
    <3>1. rows'[v].status # "waiting"
      BY <2>1, <2>3, <2>6 DEF Older, Row
    <3>2. QED
      BY <2>2, <2>3, <3>1 DEF RhythmInv, InRhythm, Listening
  <2>7. QED
    BY <2>4, <2>5, <2>6
<1>2. QED
  BY <1>1 DEF RhythmInv

LEMMA RhythmHolds == ShimSafeSpec => []RhythmInv
<1>1. ShimInit => RhythmInv
  BY OthersAreInRhythm DEF ShimInit, RhythmInv, Off, Polling
<1>2. Inv /\ RhythmInv /\ [ShimNext]_vars => RhythmInv'
  <2>1. CASE UNCHANGED vars
    BY <2>1 DEF vars, slots, RhythmInv
  <2>2. ASSUME Inv, RhythmInv, ShimNext
        PROVE  RhythmInv'
    BY <2>2, StartInRhythm, PollInRhythm, ToldInRhythm, InterruptInRhythm, FinishInRhythm,
       WakeInRhythm, RenewToldInRhythm, LeaveToldInRhythm, DaemonAcquiresInRhythm,
       DaemonRenewsInRhythm, DaemonReleasesInRhythm, DaemonReapsInRhythm, LoseInRhythm,
       KillInRhythm, TickInRhythm
       DEF ShimNext, Steps, Daemon
  <2>3. QED
    BY <2>1, <2>2
<1>3. QED
  BY <1>1, <1>2, InvHolds, PTL DEF ShimSafeSpec

(* A row that comes to be held was granted.                                *)
LEMMA OnlyGrantHolds ==
    ASSUME SlotsTypeOK, [SlotsNext]_slots, NEW s \in Holders,
           rows[s].status # "held", rows'[s].status = "held"
    PROVE  \E b \in Bots, t \in Tokens : Grant(s, b, t)
<1>1. ASSUME NEW gone, rows' = Kept(gone)
      PROVE  FALSE
  BY <1>1 DEF Kept, Blank
<1>2. ASSUME NEW h \in Holders, NEW b \in Bots, NEW t \in Tokens, Grant(h, b, t)
      PROVE  h = s
  BY <1>2, KeptIsTable DEF Grant, Kept, Blank
<1>3. ASSUME NEW h \in Holders, NEW b \in Bots, Queue(h, b)
      PROVE  FALSE
  BY <1>3, KeptIsTable DEF Queue, Kept, Blank
<1>4. ASSUME NEW h \in Holders, NEW t \in Tokens, Renew(h, t)
      PROVE  FALSE
  BY <1>4 DEF Renew, SlotsTypeOK, Renewable, Held
<1>5. ASSUME Pass
      PROVE  FALSE
  <2>1. Older(rows[s]).status = rows[s].status
    BY DEF SlotsTypeOK, Older
  <2>2. QED
    BY <1>5, <2>1 DEF Pass
<1>6. rows' # rows
  OBVIOUS
<1>7. QED
  BY <1>1, <1>2, <1>3, <1>4, <1>5, <1>6
     DEF SlotsNext, Refuse, Repeat, Cancel, Release, Sweep, Status, slots

(* Nobody who polls is overtaken: between two of its polls less time       *)
(* passes than the daemon takes for an absence, so it is alive where       *)
(* acquire looks for somebody ahead (build_scheduler.rs:161-166).          *)
THEOREM NoOvertakingHolds == ShimSafeSpec => NoOvertaking
<1> DEFINE Fair == \A s, v \in Holders :
              /\ rows[s].status # "held" /\ rows'[s].status = "held"
              /\ v \in Waiting /\ s # v /\ <<s, v>> \notin ahead
              => ~(shim[v].at \in Polling /\ shim[v].heard /\ shim[v].bot = rows[v].bot)
<1>1. ASSUME Inv, RhythmInv, QueueIsOrdered, [ShimNext]_vars,
             NEW s \in Holders, NEW v \in Holders,
             rows[s].status # "held", rows'[s].status = "held",
             v \in Waiting, s # v, <<s, v>> \notin ahead,
             shim[v].at \in Polling, shim[v].heard, shim[v].bot = rows[v].bot
      PROVE  FALSE
  <2>1. ~SomeoneIsAhead(s)
    BY <1>1, StepOfSlots, OnlyGrantHolds DEF Grant, MayHold, Inv, ShimTypeOK
  <2>2. Listening(shim[v], rows[v])
    BY <1>1 DEF Listening, Waiting
  <2>3. Patient(shim[v], net[v], rows[v])
    BY <1>1, <2>2 DEF RhythmInv, InRhythm
  <2>4. rows[v].silent < LiveWaiter /\ rows[v].silent < StaleWaiting
    <3>1. /\ shim[v].timer \in Nat /\ rows[v].silent \in Nat /\ Curl \in Nat /\ Pause \in Nat
          /\ LiveWaiter \in Nat /\ StaleWaiting \in Nat
      BY <1>1, TimesAreNaturals, ConstantsAreNaturals, RhythmOfConstants
    <3>2. Curl < LiveWaiter
      BY <3>1, RhythmOfConstants
    <3>3. rows[v].silent + shim[v].timer < LiveWaiter
      BY <1>1, <2>3, <3>1, <3>2 DEF Patient, Polling
    <3>4. QED
      BY <3>1, <3>3, RhythmOfConstants
  <2>5. v \in StillWaiting \ {s}
    <3>1. ~(rows[v].silent >= StaleWaiting)
      BY <1>1, <2>4, TimesAreNaturals, RhythmOfConstants
    <3>2. QED
      BY <1>1, <3>1 DEF StillWaiting, Stays, Waiting, Expired, Stale
  <2>6. s \in StillWaiting /\ <<v, s>> \notin ahead
    BY <2>1, <2>4, <2>5 DEF SomeoneIsAhead
  <2>7. QED
    BY <1>1, <2>6 DEF QueueIsOrdered, StillWaiting
<1>2. Inv /\ RhythmInv /\ QueueIsOrdered /\ [ShimNext]_vars => [Fair]_vars
  BY <1>1
<1>3. ShimSafeSpec => []QueueIsOrdered
  BY ShimImplementsSlots, QueueIsOrderedHolds, PTL
<1>4. QED
  BY <1>2, <1>3, InvHolds, RhythmHolds, PTL DEF ShimSafeSpec, NoOvertaking

=============================================================================
