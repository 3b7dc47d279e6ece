--------------------------- MODULE HookInbox_proofs ---------------------------
(***************************************************************************)
(* What holds of the hook inbox, its worker and the spool (HookInbox) for  *)
(* any number of events, bots, tasks and faults.                           *)
(***************************************************************************)
EXTENDS HookInbox, SequenceTheorems, FiniteSetTheorems, WellFoundedInduction, TLAPS

(* Rows are never removed while they matter: a keyed event has one.        *)
Unique ==
    \A i, j \in DOMAIN rows : rows[i].ev = rows[j].ev /\ rows[i].ev \in Keyed => i = j
RowsInv == rows \in Seq(Row) /\ Unique

(* The lines of a copy that a replay has passed are in the inbox.          *)
Passed ==
    \A b \in Bots : \A k \in DOMAIN staging[b] : k < reading[b] => InInbox(staging[b][k])
SpoolTypes ==
    /\ unsent \subseteq Events
    /\ spool \in [Bots -> Seq(Events)] /\ staging \in [Bots -> Seq(Events)]
    /\ reading \in [Bots -> Nat]
SpoolInv == SpoolTypes /\ Durable /\ Passed

(* A task has rows of its bot, the lane has checks, no check twice.        *)
TasksInv ==
    /\ queue \in [Bots -> SUBSET DOMAIN rows]
    /\ step \in [Bots -> Steps \cup {"idle"}]
    /\ \A b \in Bots : step[b] = "idle" <=> queue[b] = {}
    /\ \A b \in Bots : \A i \in queue[b] : ~IsCheck(i)
LaneInv ==
    /\ lane \subseteq [row : DOMAIN rows, step : Steps]
    /\ \A l \in lane : IsCheck(l.row)
    /\ \A l, m \in lane : l.row = m.row => l = m
WorkerInv == TasksInv /\ LaneInv /\ broken \in BOOLEAN

(* What took effect is recognised, unless it has no name of its own.       *)
Known ==
    \A k \in DOMAIN effects : rows[effects[k]].ev \notin Nameless => Recognised(effects[k])
RowOnce ==
    \A k, l \in DOMAIN effects :
        effects[k] = effects[l] /\ rows[effects[k]].ev \notin Nameless => k = l
MarkTypes ==
    /\ stamped \subseteq DOMAIN rows /\ settled \subseteq DOMAIN rows
    /\ claimed \subseteq Identified
    /\ effects \in Seq(DOMAIN rows)
AppliedInv == MarkTypes /\ Known /\ RowOnce

Inv == RowsInv /\ SpoolInv /\ WorkerInv /\ AppliedInv /\ faults \in 0 .. MaxFaults

LEMMA InvImplies == Inv => TypeOK /\ Durable /\ AppliedOnce /\ HandedOnce
<1>1. ASSUME Inv
      PROVE  HandedOnce
  <2>1. ASSUME NEW b \in Bots, NEW i \in queue[b] \cap InLane
        PROVE  FALSE
    <3>1. PICK l \in lane : i = l.row
      BY <2>1 DEF InLane
    <3>2. QED
      BY <1>1, <2>1, <3>1 DEF Inv, WorkerInv, TasksInv, LaneInv
  <2>2. QED
    BY <1>1, <2>1 DEF Inv, WorkerInv, LaneInv, HandedOnce
<1>2. ASSUME Inv
      PROVE  AppliedOnce
  <2>1. ASSUME NEW e \in Keyed \ Nameless, NEW k \in DOMAIN effects, NEW l \in DOMAIN effects,
               rows[effects[k]].ev = e, rows[effects[l]].ev = e
        PROVE  k = l
    <3>1. effects[k] \in DOMAIN rows /\ effects[l] \in DOMAIN rows
      BY <1>2 DEF Inv, AppliedInv, MarkTypes
    <3>2. effects[k] = effects[l]
      BY <1>2, <2>1, <3>1 DEF Inv, RowsInv, Unique
    <3>3. QED
      BY <1>2, <2>1, <3>2 DEF Inv, AppliedInv, RowOnce
  <2>2. QED
    BY <2>1 DEF AppliedOnce, TakesEffectOnce
<1>3. QED
  BY <1>1, <1>2 DEF Inv, RowsInv, SpoolInv, SpoolTypes, WorkerInv, TasksInv, LaneInv, AppliedInv,
     MarkTypes, TypeOK

LEMMA FaultIsCounted ==
    ASSUME faults \in 0 .. MaxFaults, Fault \/ NoFault
    PROVE  faults' \in 0 .. MaxFaults
BY InboxAssumption DEF Fault, NoFault

(* The first row of a task.                                                *)
LEMMA MinIsIn ==
    ASSUME NEW S \in SUBSET Nat, S # {}
    PROVE  Min(S) \in S /\ \A y \in S : Min(S) <= y
<1> DEFINE R == OpToRel(<, Nat)
<1>1. IsWellFoundedOn(R, Nat)
  BY NatLessThanWellFounded
<1>2. \A p, q \in Nat : <<p, q>> \in R <=> p < q
  BY DEF OpToRel
<1> HIDE DEF R
<1>3. PICK x \in S : \A y \in S : ~(<<y, x>> \in R)
  BY <1>1, WFMin
<1>4. ASSUME NEW y \in S
      PROVE  x <= y
  <2>1. x \in Nat /\ y \in Nat /\ <<y, x>> \notin R
    BY <1>3
  <2>2. ~(y < x)
    BY <1>2, <2>1, Zenon
  <2>3. QED
    BY <2>1, <2>2
<1>5. QED
  BY <1>4 DEF Min

LEMMA FirstOfTask ==
    ASSUME RowsInv, TasksInv, NEW b \in Bots, step[b] # "idle"
    PROVE  Min(queue[b]) \in queue[b] /\ Min(queue[b]) \in DOMAIN rows
<1>1. queue[b] \in SUBSET DOMAIN rows /\ queue[b] # {}
  BY DEF TasksInv
<1>2. DOMAIN rows \subseteq Nat
  BY DEF RowsInv
<1>3. QED
  BY <1>1, <1>2, MinIsIn

-----------------------------------------------------------------------------
(* Rows are added and marked, never taken away or turned into others.      *)

Grows ==
    /\ RowsInv'
    /\ DOMAIN rows \subseteq DOMAIN rows'
    /\ \A i \in DOMAIN rows : rows'[i].ev = rows[i].ev

LEMMA StaysGrows ==
    ASSUME RowsInv, UNCHANGED rows
    PROVE  Grows
BY DEF RowsInv, Unique, Grows

LEMMA AcceptGrows ==
    ASSUME RowsInv, NEW e \in Events, Accept(e)
    PROVE  Grows /\ InInbox(e)'
<1>1. CASE rows' = rows /\ \E i \in DOMAIN rows : rows[i].ev = e
  BY <1>1, StaysGrows DEF InInbox
<1>2. CASE /\ rows' = Append(rows, [ev |-> e, at |-> "due"])
           /\ ~(e \in Keyed /\ \E i \in DOMAIN rows : rows[i].ev = e)
  <2> DEFINE n == Len(rows) + 1
             r == [ev |-> e, at |-> "due"]
  <2>1. r \in Row /\ r.ev = e
    BY DEF Row
  <2> HIDE DEF r
  <2>2. /\ rows' \in Seq(Row) /\ DOMAIN rows' = DOMAIN rows \cup {n} /\ n \notin DOMAIN rows
        /\ rows'[n] = r /\ \A i \in DOMAIN rows : rows'[i] = rows[i]
    <3>1. rows' = Append(rows, r)
      BY <1>2 DEF r
    <3>2. rows \in Seq(Row)
      BY DEF RowsInv
    <3>3. QED
      BY <2>1, <3>1, <3>2, AppendProperties
  <2>3. Unique'
    BY <1>2, <2>1, <2>2 DEF RowsInv, Unique
  <2>4. QED
    BY <2>1, <2>2, <2>3 DEF Grows, RowsInv, InInbox
<1>3. QED
  BY <1>1, <1>2 DEF Accept

LEMMA SetRowGrows ==
    ASSUME RowsInv, NEW i \in DOMAIN rows, NEW at \in {"due", "backoff", "done"}, SetRow(i, at)
    PROVE  Grows
<1> DEFINE r == [rows[i] EXCEPT !.at = at]
<1>1. rows[i] \in Row
  BY DEF RowsInv
<1>2. r \in Row /\ r.ev = rows[i].ev
  BY ONLY <1>1, at \in {"due", "backoff", "done"} DEF Row
<1>3. rows' = [rows EXCEPT ![i] = r]
  BY DEF SetRow
<1> HIDE DEF r
<1>4. rows' \in Seq(Row) /\ DOMAIN rows' = DOMAIN rows
      /\ \A j \in DOMAIN rows : rows'[j] = IF j = i THEN r ELSE rows[j]
  BY <1>2, <1>3 DEF RowsInv
<1>5. \A j \in DOMAIN rows : rows'[j].ev = rows[j].ev
  BY <1>2, <1>4
<1>6. Unique'
  BY <1>4, <1>5 DEF RowsInv, Unique
<1>7. QED
  BY <1>4, <1>5, <1>6 DEF Grows, RowsInv

LEMMA InboxGrows ==
    ASSUME Grows, NEW e, InInbox(e)
    PROVE  InInbox(e)'
BY DEF Grows, InInbox

(* Whoever works on rows goes on with the same ones.                       *)
LEMMA WorkerStays ==
    ASSUME Grows, WorkerInv, UNCHANGED worker
    PROVE  WorkerInv'
<1>1. queue' = queue /\ step' = step /\ lane' = lane /\ broken' = broken
  BY DEF worker
<1>2. TasksInv'
  BY <1>1 DEF Grows, WorkerInv, TasksInv, IsCheck
<1>3. LaneInv'
  <2>1. lane' \subseteq [row : DOMAIN rows', step : Steps]
    BY <1>1 DEF Grows, WorkerInv, LaneInv
  <2>2. QED
    BY <1>1, <2>1 DEF Grows, WorkerInv, LaneInv, IsCheck
<1>4. QED
  BY <1>1, <1>2, <1>3 DEF WorkerInv

LEMMA AppliedStays ==
    ASSUME Grows, AppliedInv, UNCHANGED marks
    PROVE  AppliedInv'
<1>1. UNCHANGED <<stamped, claimed, effects, settled>>
  BY DEF marks
<1>2. \A k \in DOMAIN effects : effects[k] \in DOMAIN rows
  BY DEF AppliedInv, MarkTypes
<1>3. MarkTypes'
  <2>1. \A S, T : S \subseteq T => Seq(S) \subseteq Seq(T)
    OBVIOUS
  <2>2. effects' \in Seq(DOMAIN rows')
    BY <1>1, <2>1 DEF Grows, AppliedInv, MarkTypes
  <2>3. QED
    BY <1>1, <2>2 DEF Grows, AppliedInv, MarkTypes
<1>4. \A k \in DOMAIN effects : rows'[effects[k]].ev = rows[effects[k]].ev
  BY <1>2 DEF Grows
<1>5. QED
  BY <1>1, <1>3, <1>4 DEF AppliedInv, Known, RowOnce, Recognised

LEMMA SpoolStays ==
    ASSUME Grows, SpoolInv, UNCHANGED <<unsent, spool, staging>>,
           reading' = reading \/ reading' = [b \in Bots |-> 0]
    PROVE  SpoolInv'
<1>1. SpoolTypes'
  BY DEF SpoolInv, SpoolTypes
<1>2. Durable'
  BY InboxGrows DEF SpoolInv, Durable, Held
<1>3. Passed'
  BY InboxGrows DEF SpoolInv, SpoolTypes, Passed
<1>4. QED
  BY <1>1, <1>2, <1>3 DEF SpoolInv

-----------------------------------------------------------------------------
(* The way into the inbox                                                  *)

LEMMA PostKeepsInv ==
    ASSUME Inv, NEW e \in Events, Post(e)
    PROVE  Inv'
<1>1. /\ unsent' = unsent \ {e} /\ staging' = staging /\ reading' = reading
      /\ UNCHANGED worker /\ UNCHANGED marks
  BY DEF Post
<1>2. \/ Accept(e) /\ NoFault /\ spool' = spool
      \/ /\ Fault /\ spool' = [spool EXCEPT ![BotOf[e]] = Append(@, e)]
         /\ Accept(e) \/ UNCHANGED rows
  BY DEF Post
<1>3. Grows /\ faults' \in 0 .. MaxFaults
  BY <1>2, AcceptGrows, StaysGrows, FaultIsCounted DEF Inv
<1>4. BotOf[e] \in Bots
  BY InboxAssumption
<1>5. /\ spool' \in [Bots -> Seq(Events)]
      /\ \A b \in Bots : \A k \in DOMAIN spool[b] : k \in DOMAIN spool'[b] /\ spool'[b][k] = spool[b][k]
  <2>1. CASE spool' = spool
    BY <2>1 DEF Inv, SpoolInv, SpoolTypes
  <2>2. CASE spool' = [spool EXCEPT ![BotOf[e]] = Append(@, e)]
    <3>1. \A b \in Bots : spool'[b] = IF b = BotOf[e] THEN Append(spool[b], e) ELSE spool[b]
      BY <2>2 DEF Inv, SpoolInv, SpoolTypes
    <3>2. QED
      BY <2>2, <3>1, <1>4, AppendProperties DEF Inv, SpoolInv, SpoolTypes
  <2>3. QED
    BY <1>2, <2>1, <2>2
<1>6. Held(e)' \/ InInbox(e)'
  <2>1. CASE Accept(e)
    BY <2>1, AcceptGrows DEF Inv
  <2>2. CASE spool' = [spool EXCEPT ![BotOf[e]] = Append(@, e)]
    <3> DEFINE s == spool[BotOf[e]]
    <3>1. s \in Seq(Events) /\ spool'[BotOf[e]] = Append(s, e)
      BY <1>4, <2>2 DEF Inv, SpoolInv, SpoolTypes
    <3> HIDE DEF s
    <3>2. Len(s) + 1 \in DOMAIN Append(s, e) /\ Append(s, e)[Len(s) + 1] = e
      BY <3>1, AppendProperties
    <3>3. QED
      BY <1>4, <3>1, <3>2 DEF Held
  <2>3. QED
    BY <1>2, <2>1, <2>2
<1>7. Durable'
  <2>1. ASSUME NEW f \in Events, f # e
        PROVE  Held(f)' \/ InInbox(f)'
    <3>1. CASE InInbox(f)
      BY <1>3, <3>1, InboxGrows
    <3>2. CASE Held(f)
      BY <1>1, <1>5, <2>1, <3>2 DEF Held
    <3>3. QED
      BY <3>1, <3>2 DEF Inv, SpoolInv, Durable
  <2>2. QED
    BY <1>6, <2>1 DEF Durable
<1>8. Passed'
  BY <1>1, <1>3, InboxGrows DEF Inv, SpoolInv, SpoolTypes, Passed
<1>9. SpoolTypes'
  BY <1>1, <1>5 DEF Inv, SpoolInv, SpoolTypes
<1>10. WorkerInv' /\ AppliedInv'
  BY <1>1, <1>3, WorkerStays, AppliedStays DEF Inv
<1>11. QED
  BY <1>3, <1>7, <1>8, <1>9, <1>10 DEF Inv, SpoolInv, Grows

LEMMA ReplayFoldKeepsInv ==
    ASSUME Inv, NEW b \in Bots, ReplayFold(b)
    PROVE  Inv'
<1> DEFINE s == spool[b]
           g == staging[b]
<1>1. /\ unsent' = unsent /\ rows' = rows /\ UNCHANGED worker /\ UNCHANGED marks
      /\ faults' = faults
  BY DEF ReplayFold
<1>2. s \in Seq(Events) /\ g \in Seq(Events)
  BY DEF Inv, SpoolInv, SpoolTypes
<1>3. /\ spool' \in [Bots -> Seq(Events)] /\ staging' \in [Bots -> Seq(Events)]
      /\ reading' \in [Bots -> Nat]
      /\ spool'[b] = <<>> /\ staging'[b] = g \o s /\ reading'[b] = 1
      /\ \A c \in Bots \ {b} : spool'[c] = spool[c] /\ staging'[c] = staging[c] /\ reading'[c] = reading[c]
  BY DEF ReplayFold, Inv, SpoolInv, SpoolTypes
<1> HIDE DEF s, g
<1>4. /\ Len(g \o s) = Len(g) + Len(s) /\ g \o s \in Seq(Events)
      /\ \A k \in 1 .. Len(g) : (g \o s)[k] = g[k]
      /\ \A k \in 1 .. Len(s) : (g \o s)[Len(g) + k] = s[k]
  <2>1. \A k \in 1 .. Len(s) : Len(g) + k \in 1 .. Len(g) + Len(s) /\ ~(Len(g) + k <= Len(g))
                               /\ (Len(g) + k) - Len(g) = k
    BY <1>2, LenProperties
  <2>2. QED
    BY <1>2, <2>1, ConcatProperties, LenProperties
<1>5. ASSUME NEW f \in Events, Held(f)
      PROVE  Held(f)'
  <2>1. CASE \E k \in DOMAIN g : g[k] = f
    <3>1. PICK k \in 1 .. Len(g) : g[k] = f
      BY <1>2, <2>1
    <3>2. k \in DOMAIN (g \o s) /\ (g \o s)[k] = f
      BY <1>2, <1>4, <3>1, LenProperties
    <3>3. QED
      BY <1>3, <3>2 DEF Held
  <2>2. CASE \E k \in DOMAIN s : s[k] = f
    <3>1. PICK k \in 1 .. Len(s) : s[k] = f
      BY <1>2, <2>2
    <3>2. Len(g) + k \in DOMAIN (g \o s) /\ (g \o s)[Len(g) + k] = f
      BY <1>2, <1>4, <3>1, LenProperties
    <3>3. QED
      BY <1>3, <3>2 DEF Held
  <2>3. QED
    BY <1>1, <1>3, <1>5, <2>1, <2>2 DEF Held, s, g
<1>6. Durable'
  BY <1>1, <1>5 DEF Inv, SpoolInv, Durable, InInbox
<1>7. Passed'
  <2>1. \A k \in DOMAIN staging'[b] : ~(k < 1)
    BY <1>2, <1>3, <1>4, LenProperties
  <2>2. ASSUME NEW c \in Bots, NEW k \in DOMAIN staging'[c], k < reading'[c]
        PROVE  InInbox(staging'[c][k])
    <3>1. c # b
      BY <1>3, <2>1, <2>2
    <3>2. QED
      BY <1>3, <2>2, <3>1 DEF Inv, SpoolInv, Passed
  <2>3. QED
    BY <1>1, <2>2 DEF Passed, InInbox
<1>8. Grows
  BY <1>1, StaysGrows DEF Inv
<1>9. WorkerInv' /\ AppliedInv'
  BY <1>1, <1>8, WorkerStays, AppliedStays DEF Inv
<1>10. QED
  BY <1>1, <1>3, <1>6, <1>7, <1>8, <1>9 DEF Inv, SpoolInv, SpoolTypes, Grows

LEMMA ReplayLineKeepsInv ==
    ASSUME Inv, NEW b \in Bots, ReplayLine(b)
    PROVE  Inv'
<1>1. /\ unsent' = unsent /\ UNCHANGED worker /\ UNCHANGED marks /\ spool' = spool
      /\ staging' = staging
  BY DEF ReplayLine
<1>2. PICK k \in DOMAIN staging[b] : k = reading[b]
  BY DEF ReplayLine
<1>3. PICK e \in Events : e = staging[b][k]
  BY <1>2 DEF Inv, SpoolInv, SpoolTypes
<1>4. \/ Accept(e) /\ NoFault /\ reading' = [reading EXCEPT ![b] = @ + 1]
      \/ Fault /\ rows' = rows /\ reading' = [reading EXCEPT ![b] = 0]
  BY <1>2, <1>3 DEF ReplayLine
<1>5. Grows /\ faults' \in 0 .. MaxFaults
  BY <1>4, AcceptGrows, StaysGrows, FaultIsCounted DEF Inv
<1>6. /\ reading' \in [Bots -> Nat]
      /\ \A c \in Bots \ {b} : reading'[c] = reading[c]
      /\ \/ InInbox(e)' /\ reading'[b] = k + 1
         \/ reading'[b] = 0
  <2>1. k + 1 \in Nat /\ 0 \in Nat /\ reading \in [Bots -> Nat]
    BY <1>2 DEF Inv, SpoolInv, SpoolTypes
  <2>2. CASE Accept(e) /\ reading' = [reading EXCEPT ![b] = @ + 1]
    BY <1>2, <2>1, <2>2, AcceptGrows DEF Inv
  <2>3. CASE reading' = [reading EXCEPT ![b] = 0]
    BY <2>1, <2>3
  <2>4. QED
    BY <1>4, <2>2, <2>3
<1>7. Passed'
  <2>1. ASSUME NEW c \in Bots, NEW n \in DOMAIN staging'[c], n < reading'[c]
        PROVE  InInbox(staging[c][n])
               \/ (c = b /\ n = k /\ InInbox(e)')
    <3>1. n \in Nat /\ n >= 1 /\ n \in DOMAIN staging[c]
      BY <1>1 DEF Inv, SpoolInv, SpoolTypes
    <3>2. n < reading[c] \/ (c = b /\ n = k /\ InInbox(e)')
      BY <1>2, <1>6, <2>1, <3>1 DEF Inv, SpoolInv, SpoolTypes
    <3>3. QED
      BY <3>1, <3>2 DEF Inv, SpoolInv, Passed
  <2>2. \A f : InInbox(f) => InInbox(f)'
    BY <1>5, InboxGrows
  <2>3. QED
    BY <1>1, <1>3, <2>1, <2>2 DEF Passed, InInbox
<1>8. Durable'
  BY <1>1, <1>5, InboxGrows DEF Inv, SpoolInv, Durable, Held
<1>9. WorkerInv' /\ AppliedInv'
  BY <1>1, <1>5, WorkerStays, AppliedStays DEF Inv
<1>10. QED
  BY <1>1, <1>5, <1>6, <1>7, <1>8, <1>9 DEF Inv, SpoolInv, SpoolTypes, Grows

(* What the copy held is in the inbox when it goes.                        *)
LEMMA ReplayRemoveKeepsInv ==
    ASSUME Inv, NEW b \in Bots, ReplayRemove(b)
    PROVE  Inv'
<1>1. /\ unsent' = unsent /\ UNCHANGED worker /\ UNCHANGED marks /\ spool' = spool /\ rows' = rows
      /\ reading' = [reading EXCEPT ![b] = 0]
      /\ staging' = staging \/ staging' = [staging EXCEPT ![b] = <<>>]
  BY DEF ReplayRemove
<1>2. Grows /\ faults' \in 0 .. MaxFaults
  BY <1>1, StaysGrows, FaultIsCounted DEF ReplayRemove, Inv
<1>3. /\ reading' \in [Bots -> Nat] /\ reading'[b] = 0
      /\ \A c \in Bots \ {b} : reading'[c] = reading[c]
  BY <1>1 DEF Inv, SpoolInv, SpoolTypes
<1>4. /\ staging' \in [Bots -> Seq(Events)]
      /\ \A c \in Bots \ {b} : staging'[c] = staging[c]
      /\ staging'[b] = staging[b] \/ staging'[b] = <<>>
  <2>1. staging \in [Bots -> Seq(Events)] /\ <<>> \in Seq(Events)
    BY DEF Inv, SpoolInv, SpoolTypes
  <2>2. QED
    BY <1>1, <2>1
<1>5. \A k \in DOMAIN staging[b] : InInbox(staging[b][k])
  <2>1. \A k \in DOMAIN staging[b] : k < reading[b]
    BY DEF ReplayRemove, Inv, SpoolInv, SpoolTypes
  <2>2. QED
    BY <2>1 DEF Inv, SpoolInv, Passed
<1>6. Durable' /\ Passed'
  <2>1. ASSUME NEW f \in Events
        PROVE  Held(f)' \/ InInbox(f)
    <3>1. ASSUME Held(f), ~InInbox(f)
          PROVE  Held(f)'
      <4>1. ASSUME NEW c \in Bots, NEW k \in DOMAIN staging[c], staging[c][k] = f
            PROVE  staging'[c] = staging[c]
        BY <1>4, <1>5, <3>1, <4>1
      <4>2. QED
        BY <1>1, <3>1, <4>1 DEF Held
    <3>2. QED
      BY <3>1 DEF Inv, SpoolInv, Durable
  <2>2. \A k \in DOMAIN staging'[b] : ~(k < reading'[b])
    BY <1>3, <1>4 DEF Inv, SpoolInv, SpoolTypes
  <2>3. ASSUME NEW c \in Bots, NEW k \in DOMAIN staging'[c], k < reading'[c]
        PROVE  InInbox(staging'[c][k])
    BY <1>3, <1>4, <2>2, <2>3 DEF Inv, SpoolInv, Passed
  <2>4. QED
    BY <1>1, <2>1, <2>3 DEF Durable, Passed, InInbox
<1>7. WorkerInv' /\ AppliedInv'
  BY <1>1, <1>2, WorkerStays, AppliedStays DEF Inv
<1>8. QED
  BY <1>1, <1>2, <1>3, <1>4, <1>6, <1>7 DEF Inv, SpoolInv, SpoolTypes, Grows

-----------------------------------------------------------------------------
(* The worker                                                              *)

(* A step of the worker that leaves the spool and the effects alone.       *)
LEMMA WorkerKeepsInv ==
    ASSUME Inv, Grows, WorkerInv', faults' \in 0 .. MaxFaults,
           UNCHANGED <<unsent, spool, staging, marks>>,
           reading' = reading \/ reading' = [b \in Bots |-> 0]
    PROVE  Inv'
BY SpoolStays, AppliedStays DEF Inv, Grows

LEMMA ScanKeepsInv ==
    ASSUME Inv, Scan
    PROVE  Inv'
<1>1. /\ rows' = rows /\ reading' = reading /\ broken' = broken /\ faults' = faults
      /\ UNCHANGED <<unsent, spool, staging, marks>>
  BY DEF Scan, StartTasks, disk
<1>2. PICK batch : /\ batch \subseteq DOMAIN rows /\ (\A i \in batch : i \notin InLane)
                   /\ StartTasks(batch)
  BY DEF Scan, Batch, Pickable
<1> DEFINE mine(b) == {i \in batch : BotOfRow(i) = b /\ ~IsCheck(i)}
<1>3. PICK started \in SUBSET {b \in Bots : mine(b) # {}} :
         /\ queue' = [b \in Bots |-> IF b \in started THEN mine(b) ELSE queue[b]]
         /\ step' = [b \in Bots |-> IF b \in started THEN "process" ELSE step[b]]
         /\ lane' = lane \cup {[row |-> i, step |-> "process"] : i \in {j \in batch : IsCheck(j)}}
  BY <1>2 DEF StartTasks
<1>4. TasksInv'
  <2>1. ASSUME NEW b \in Bots
        PROVE  /\ queue'[b] \in SUBSET DOMAIN rows /\ step'[b] \in Steps \cup {"idle"}
               /\ step'[b] = "idle" <=> queue'[b] = {}
               /\ \A i \in queue'[b] : ~IsCheck(i)
    BY <1>2, <1>3 DEF Inv, WorkerInv, TasksInv, Steps
  <2>2. queue' \in [Bots -> SUBSET DOMAIN rows]
    <3>1. queue' = [b \in Bots |-> queue'[b]]
      BY <1>3
    <3>2. QED
      BY <2>1, <3>1
  <2>3. step' \in [Bots -> Steps \cup {"idle"}]
    <3>1. step' = [b \in Bots |-> step'[b]]
      BY <1>3
    <3>2. QED
      BY <2>1, <3>1
  <2>4. QED
    BY <1>1, <2>1, <2>2, <2>3 DEF TasksInv, IsCheck
<1>5. LaneInv'
  <2> DEFINE more == {[row |-> i, step |-> "process"] : i \in {j \in batch : IsCheck(j)}}
  <2>1. \A l \in more : /\ l \in [row : DOMAIN rows, step : Steps] /\ IsCheck(l.row)
                        /\ l.row \notin InLane /\ l.step = "process"
    BY <1>2 DEF Steps
  <2>2. \A l, m \in more : l.row = m.row => l = m
    OBVIOUS
  <2>3. \A l \in lane : l.row \in InLane
    BY DEF InLane
  <2> HIDE DEF more
  <2>4. lane' = lane \cup more
    BY <1>3 DEF more
  <2>5. QED
    BY <1>1, <2>1, <2>2, <2>3, <2>4 DEF Inv, WorkerInv, LaneInv, IsCheck
<1>6. QED
  BY <1>1, <1>4, <1>5, StaysGrows, WorkerKeepsInv DEF Inv, WorkerInv

LEMMA RoundsKeepInv ==
    ASSUME Inv, ScanFails \/ NextRound \/ Crash
    PROVE  Inv'
<1>1. rows' = rows /\ UNCHANGED <<unsent, spool, staging, marks>>
  BY DEF ScanFails, NextRound, Crash, disk
<1>2. faults' \in 0 .. MaxFaults
  BY FaultIsCounted DEF ScanFails, NextRound, Crash, Inv, NoFault
<1>3. reading' = reading \/ reading' = [b \in Bots |-> 0]
  BY DEF ScanFails, NextRound, Crash
<1>4. CASE UNCHANGED <<queue, step, lane>> /\ broken' \in BOOLEAN
  <2>1. WorkerInv'
    BY <1>1, <1>4 DEF Inv, WorkerInv, TasksInv, LaneInv, IsCheck
  <2>2. QED
    BY <1>1, <1>2, <1>3, <2>1, StaysGrows, WorkerKeepsInv DEF Inv
<1>5. CASE Crash
  <2>1. /\ queue' = [b \in Bots |-> {}] /\ step' = [b \in Bots |-> "idle"]
        /\ lane' = {} /\ broken' = FALSE
    BY <1>5 DEF Crash
  <2>2. WorkerInv'
    BY <1>1, <2>1 DEF Inv, WorkerInv, TasksInv, LaneInv
  <2>3. QED
    BY <1>1, <1>2, <1>3, <2>2, StaysGrows, WorkerKeepsInv DEF Inv
<1>6. QED
  BY <1>4, <1>5 DEF ScanFails, NextRound

(* A row that is recognised has no further effect; what takes effect is    *)
(* recognised from then on, unless it is a failure without native ids.     *)
LEMMA EffectOnce ==
    ASSUME RowsInv, AppliedInv, NEW i \in DOMAIN rows, rows' = rows,
           Handle(i) \/ UNCHANGED marks
    PROVE  AppliedInv'
<1>1. CASE UNCHANGED marks
  BY <1>1, StaysGrows, AppliedStays
<1>2. CASE Handle(i) /\ UNCHANGED <<stamped, claimed, effects>>
  <2>1. settled' = settled \cup {i}
    BY <1>2 DEF Handle
  <2>2. QED
    BY <1>2, <2>1 DEF AppliedInv, MarkTypes, Known, RowOnce, Recognised
<1>3. CASE Handle(i) /\ TakeEffect(i)
  <2> DEFINE e == rows[i].ev
             n == Len(effects) + 1
  <2>1. e \in Events
    <3>1. rows[i] \in Row
      BY DEF RowsInv
    <3>2. QED
      BY ONLY <3>1 DEF Row
  <2>2. /\ ~Recognised(i) /\ effects' = Append(effects, i) /\ settled' = settled \cup {i}
        /\ claimed \subseteq claimed' /\ stamped \subseteq stamped'
        /\ stamped' \subseteq stamped \cup {i} /\ claimed' \subseteq claimed \cup ({e} \cap Identified)
    BY <1>3 DEF TakeEffect, Handle
  <2>3. e \notin Nameless => i \in stamped' \/ e \in claimed'
    BY <1>3 DEF TakeEffect, Nameless
  <2>4. effects \in Seq(DOMAIN rows)
    BY DEF AppliedInv, MarkTypes
  <2>5. /\ effects' \in Seq(DOMAIN rows) /\ DOMAIN effects' = DOMAIN effects \cup {n}
        /\ effects'[n] = i /\ \A k \in DOMAIN effects : effects'[k] = effects[k]
    BY <2>2, <2>4, AppendProperties
  <2>6. MarkTypes'
    BY <2>2, <2>5 DEF AppliedInv, MarkTypes
  <2>7. Known'
    <3>1. ASSUME NEW k \in DOMAIN effects, rows[effects[k]].ev \notin Nameless
          PROVE  Recognised(effects[k])'
      BY <2>2, <2>5, <3>1 DEF AppliedInv, Known, Recognised
    <3>2. e \notin Nameless => effects'[n] \in stamped' \/ rows[effects'[n]].ev \in claimed'
      BY <2>3, <2>5
    <3>3. QED
      BY <2>5, <3>1, <3>2 DEF Known, Recognised
  <2>8. ASSUME NEW k \in DOMAIN effects, effects[k] = i
        PROVE  e \in Nameless
    BY <2>2, <2>8 DEF AppliedInv, Known
  <2>9. RowOnce'
    BY <2>5, <2>8 DEF AppliedInv, RowOnce
  <2>10. QED
    BY <2>6, <2>7, <2>9 DEF AppliedInv
<1>4. QED
  BY <1>1, <1>2, <1>3 DEF Handle

LEMMA ProcessKeepsInv ==
    ASSUME Inv, NEW b \in Bots, Process(b)
    PROVE  Inv'
<1>1. /\ rows' = rows /\ UNCHANGED <<unsent, spool, staging, reading>> /\ queue' = queue
      /\ lane' = lane /\ broken' = broken /\ step[b] = "process"
  BY DEF Process
<1>2. Handle(Min(queue[b])) \/ UNCHANGED marks
  BY DEF Process
<1>3. step' = [step EXCEPT ![b] = "done"] \/ step' = [step EXCEPT ![b] = "failed"]
  BY DEF Process
<1>4. faults' \in 0 .. MaxFaults
  BY FaultIsCounted DEF Process, Inv
<1>5. AppliedInv'
  BY <1>1, <1>2, FirstOfTask, EffectOnce DEF Inv, WorkerInv
<1>6. TasksInv'
  BY <1>1, <1>3 DEF Inv, WorkerInv, TasksInv, Steps, IsCheck
<1>7. LaneInv'
  BY <1>1 DEF Inv, WorkerInv, LaneInv, IsCheck
<1>8. SpoolInv' /\ RowsInv'
  BY <1>1, StaysGrows, SpoolStays DEF Inv, Grows
<1>9. QED
  BY <1>1, <1>4, <1>5, <1>6, <1>7, <1>8 DEF Inv, WorkerInv

(* The task of a bot goes on with the rows it has left, or ends.           *)
LEMMA TaskGoesOn ==
    ASSUME Inv, Grows, NEW b \in Bots, NEW rest \in SUBSET queue[b],
           queue' = [queue EXCEPT ![b] = rest],
           step' = [step EXCEPT ![b] = IF rest = {} THEN "idle" ELSE "process"],
           lane' = lane, broken' \in BOOLEAN, faults' \in 0 .. MaxFaults,
           UNCHANGED <<unsent, spool, staging, reading, marks>>
    PROVE  Inv'
<1>1. TasksInv'
  <2>1. ASSUME NEW c \in Bots
        PROVE  /\ queue'[c] \in SUBSET queue[c] /\ step'[c] \in Steps \cup {"idle"}
               /\ step'[c] = "idle" <=> queue'[c] = {}
    BY DEF Inv, WorkerInv, TasksInv, Steps
  <2>2. queue' \in [Bots -> SUBSET DOMAIN rows']
    BY <2>1 DEF Inv, WorkerInv, TasksInv, Grows
  <2>3. step' \in [Bots -> Steps \cup {"idle"}]
    BY <2>1 DEF Inv, WorkerInv, TasksInv
  <2>4. \A c \in Bots : \A i \in queue'[c] : ~IsCheck(i)'
    BY <2>1 DEF Inv, WorkerInv, TasksInv, Grows, IsCheck
  <2>5. QED
    BY <2>1, <2>2, <2>3, <2>4 DEF TasksInv
<1>2. LaneInv'
  <2>1. lane' \subseteq [row : DOMAIN rows', step : Steps]
    BY DEF Grows, Inv, WorkerInv, LaneInv
  <2>2. QED
    BY <2>1 DEF Grows, Inv, WorkerInv, LaneInv, IsCheck
<1>3. QED
  BY <1>1, <1>2, WorkerKeepsInv DEF WorkerInv

LEMMA MarkDoneKeepsInv ==
    ASSUME Inv, NEW b \in Bots, MarkDone(b)
    PROVE  Inv'
<1>1. PICK i \in queue[b] : i = Min(queue[b]) /\ i \in DOMAIN rows
  BY FirstOfTask DEF MarkDone, Inv, WorkerInv
<1>2. faults' \in 0 .. MaxFaults /\ lane' = lane
      /\ UNCHANGED <<unsent, spool, staging, reading, marks>>
  BY FaultIsCounted DEF MarkDone, Inv
<1>3. CASE /\ SetRow(i, "done") /\ broken' = broken
           /\ queue' = [queue EXCEPT ![b] = queue[b] \ {i}]
           /\ step' = [step EXCEPT ![b] = IF queue[b] \ {i} = {} THEN "idle" ELSE "process"]
  <2>1. Grows
    BY <1>1, <1>3, SetRowGrows DEF Inv
  <2>2. QED
    BY <1>2, <1>3, <2>1, TaskGoesOn DEF Inv, WorkerInv
<1>4. CASE EndTask(b) /\ broken' = TRUE /\ UNCHANGED rows
  <2>1. /\ queue' = [queue EXCEPT ![b] = {}] /\ {} \in SUBSET queue[b]
        /\ step' = [step EXCEPT ![b] = IF {} = {} THEN "idle" ELSE "process"]
    BY <1>4 DEF EndTask
  <2>2. QED
    BY <1>2, <1>4, <2>1, StaysGrows, TaskGoesOn DEF Inv
<1>5. QED
  BY <1>1, <1>3, <1>4 DEF MarkDone

LEMMA MarkFailedKeepsInv ==
    ASSUME Inv, NEW b \in Bots, MarkFailed(b)
    PROVE  Inv'
<1>1. PICK i \in queue[b] : i = Min(queue[b]) /\ i \in DOMAIN rows
  BY FirstOfTask DEF MarkFailed, Inv, WorkerInv
<1>2. /\ faults' \in 0 .. MaxFaults /\ lane' = lane /\ broken' \in BOOLEAN
      /\ UNCHANGED <<unsent, spool, staging, reading, marks>>
  BY FaultIsCounted DEF MarkFailed, Inv, WorkerInv
<1>3. Grows
  BY <1>1, SetRowGrows, StaysGrows DEF MarkFailed, Inv
<1>4. /\ queue' = [queue EXCEPT ![b] = {}] /\ {} \in SUBSET queue[b]
      /\ step' = [step EXCEPT ![b] = IF {} = {} THEN "idle" ELSE "process"]
  BY DEF MarkFailed, EndTask
<1>5. QED
  BY <1>2, <1>3, <1>4, TaskGoesOn

LEMMA LaneKeepsInv ==
    ASSUME Inv, NEW l \in lane, Check(l) \/ CheckMark(l)
    PROVE  Inv'
<1>1. /\ faults' \in 0 .. MaxFaults /\ broken' \in BOOLEAN /\ queue' = queue /\ step' = step
      /\ UNCHANGED <<unsent, spool, staging, reading, marks>>
  BY FaultIsCounted DEF Check, CheckMark, Inv, WorkerInv, disk
<1>2. l.row \in DOMAIN rows /\ l \in [row : DOMAIN rows, step : Steps]
  BY DEF Inv, WorkerInv, LaneInv
<1>3. Grows
  BY <1>2, StaysGrows, SetRowGrows DEF Check, CheckMark, disk, Inv
<1>4. \A m \in lane' : \/ m \in lane \ {l}
                       \/ m.row = l.row /\ m.step \in Steps /\ m \in [row : DOMAIN rows, step : Steps]
                          /\ lane' = (lane \ {l}) \cup {m}
  <2>1. CASE CheckMark(l)
    BY <2>1 DEF CheckMark
  <2>2. ASSUME NEW s \in {"done", "failed"}, lane' = (lane \ {l}) \cup {[l EXCEPT !.step = s]}
        PROVE  \A m \in lane' : \/ m \in lane \ {l}
                                \/ m.row = l.row /\ m.step \in Steps
                                   /\ m \in [row : DOMAIN rows, step : Steps]
                                   /\ lane' = (lane \ {l}) \cup {m}
    <3>1. [l EXCEPT !.step = s] \in [row : DOMAIN rows, step : Steps] /\ [l EXCEPT !.step = s].row = l.row
      BY ONLY <1>2, s \in {"done", "failed"} DEF Steps
    <3>2. QED
      BY <2>2, <3>1
  <2>3. QED
    BY <2>1, <2>2 DEF Check
<1>5. LaneInv'
  <2>1. \A m \in lane' : m \in [row : DOMAIN rows', step : Steps] /\ IsCheck(m.row)'
    BY <1>2, <1>3, <1>4 DEF Inv, WorkerInv, LaneInv, Grows, IsCheck
  <2>2. \A m, n \in lane' : m.row = n.row => m = n
    BY <1>4 DEF Inv, WorkerInv, LaneInv
  <2>3. QED
    BY <2>1, <2>2 DEF LaneInv
<1>6. TasksInv'
  BY <1>1, <1>3 DEF Inv, WorkerInv, TasksInv, Grows, IsCheck
<1>7. QED
  BY <1>1, <1>3, <1>5, <1>6, WorkerKeepsInv DEF WorkerInv

LEMMA BackoffEndsKeepsInv ==
    ASSUME Inv, NEW i \in DOMAIN rows, BackoffEnds(i)
    PROVE  Inv'
<1>1. Grows
  BY SetRowGrows DEF BackoffEnds, Inv
<1>2. WorkerInv'
  BY <1>1, WorkerStays DEF BackoffEnds, Inv
<1>3. QED
  BY <1>1, <1>2, WorkerKeepsInv DEF BackoffEnds, Inv

-----------------------------------------------------------------------------

LEMMA InvHolds == Spec => []Inv
<1>1. Init => Inv
  <2>1. ASSUME Init
        PROVE  Inv
    <3>1. RowsInv
      BY <2>1 DEF Init, RowsInv, Unique
    <3>2. SpoolInv
      BY <2>1 DEF Init, SpoolInv, SpoolTypes, Durable, Held, Passed
    <3>3. WorkerInv
      BY <2>1 DEF Init, WorkerInv, TasksInv, LaneInv
    <3>4. AppliedInv /\ faults \in 0 .. MaxFaults
      BY <2>1, InboxAssumption DEF Init, AppliedInv, MarkTypes, Known, RowOnce
    <3>5. QED
      BY <3>1, <3>2, <3>3, <3>4 DEF Inv
  <2>2. QED
    BY <2>1
<1>2. Inv /\ [Next]_vars => Inv'
  <2>1. ASSUME Inv, UNCHANGED vars
        PROVE  Inv'
    <3>1. Grows /\ UNCHANGED worker /\ faults' \in 0 .. MaxFaults
      BY <2>1, StaysGrows DEF Inv, vars, disk
    <3>2. WorkerInv'
      BY <2>1, <3>1, WorkerStays DEF Inv
    <3>3. QED
      BY <2>1, <3>1, <3>2, WorkerKeepsInv DEF vars, disk
  <2>2. ASSUME Inv, Next
        PROVE  Inv'
    BY <2>2, PostKeepsInv, ReplayFoldKeepsInv, ReplayLineKeepsInv, ReplayRemoveKeepsInv, ScanKeepsInv,
       RoundsKeepInv, ProcessKeepsInv, MarkDoneKeepsInv, MarkFailedKeepsInv, LaneKeepsInv,
       BackoffEndsKeepsInv
       DEF Next, Replay, Task, Lane
  <2>3. QED
    BY <2>1, <2>2
<1>3. QED
  BY <1>1, <1>2, PTL DEF Spec

(* The rows, the spool, the tasks and the lane are well typed.             *)
THEOREM TypesHold == Spec => []TypeOK
BY InvHolds, InvImplies, PTL

(* A 200, and the removal of a spooled copy, mean that the event is in the *)
(* inbox (accept, replay_spool).                                           *)
THEOREM DurableHolds == Spec => []Durable
BY InvHolds, InvImplies, PTL

(* An event that has a dedupe key takes effect at most once, however often *)
(* it is written, and its row processed; a failure without native ids is   *)
(* the exception (accept, process_for, seen_turn).                         *)
THEOREM AppliedOnceHolds == Spec => []AppliedOnce
BY InvHolds, InvImplies, PTL

(* No row is worked on by two at a time (drain_once, start_tasks).         *)
THEOREM HandedOnceHolds == Spec => []HandedOnce
BY InvHolds, InvImplies, PTL

-----------------------------------------------------------------------------
(* Order                                                                   *)

(* A task has the rows of its bot without a gap: what was written before   *)
(* a row of it, and is no check, is of the same task or done.              *)
OrderInv ==
    \A b \in Bots : \A i \in queue[b] :
        /\ BotOfRow(i) = b
        /\ \A j \in 1 .. i - 1 :
              BotOfRow(j) = b /\ ~IsCheck(j) => j \in queue[b] \/ rows[j].at = "done"

(* What comes before a row of a task is a row, with its bot and its kind.  *)
LEMMA EarlierIsRow ==
    ASSUME Inv, NEW b \in Bots, NEW i \in queue[b], NEW j \in 1 .. i - 1
    PROVE  i \in DOMAIN rows /\ j \in DOMAIN rows /\ j \in Nat /\ i \in Nat /\ j < i
<1>1. i \in DOMAIN rows /\ DOMAIN rows = 1 .. Len(rows) /\ Len(rows) \in Nat
  BY DEF Inv, RowsInv, WorkerInv, TasksInv
<1>2. QED
  BY <1>1

(* Tasks get no new rows, and rows that are done stay so.                  *)
LEMMA OrderStays ==
    ASSUME Inv, OrderInv, Grows,
           \A b \in Bots : queue'[b] \in SUBSET queue[b],
           \A b \in Bots : \A i \in queue'[b], j \in DOMAIN rows :
              BotOfRow(j) = b /\ ~IsCheck(j) /\ (j \in queue[b] \/ rows[j].at = "done")
              => j \in queue'[b] \/ rows'[j].at = "done"
    PROVE  OrderInv'
<1>1. ASSUME NEW b \in Bots, NEW i \in queue'[b]
      PROVE  BotOfRow(i)' = b
  BY <1>1 DEF OrderInv, Grows, BotOfRow, Inv, WorkerInv, TasksInv
<1>2. ASSUME NEW b \in Bots, NEW i \in queue'[b], NEW j \in 1 .. i - 1,
             BotOfRow(j)' = b, ~IsCheck(j)'
      PROVE  j \in queue'[b] \/ rows'[j].at = "done"
  <2>1. i \in queue[b]
    BY <1>2
  <2>2. j \in DOMAIN rows
    BY <1>2, <2>1, EarlierIsRow
  <2>3. BotOfRow(j) = b /\ ~IsCheck(j)
    BY <1>2, <2>2 DEF Grows, BotOfRow, IsCheck
  <2>4. QED
    BY <1>2, <2>1, <2>2, <2>3 DEF OrderInv
<1>3. QED
  BY <1>1, <1>2 DEF OrderInv

(* No task changes, and no row but a check or one in backoff.              *)
LEMMA OrderOfOthers ==
    ASSUME Inv, OrderInv, Grows, queue' = queue,
           \A j \in DOMAIN rows : rows[j].at = "done" /\ ~IsCheck(j) => rows'[j].at = "done"
    PROVE  OrderInv'
BY OrderStays

LEMMA AcceptKeepsRows ==
    ASSUME RowsInv, NEW e \in Events, Accept(e) \/ UNCHANGED rows
    PROVE  Grows /\ \A j \in DOMAIN rows : rows'[j] = rows[j]
<1>1. rows \in Seq(Row) /\ [ev |-> e, at |-> "due"] \in Row
  BY DEF RowsInv, Row
<1>2. \A j \in DOMAIN rows : rows'[j] = rows[j]
  BY <1>1, AppendProperties DEF Accept
<1>3. QED
  BY <1>2, AcceptGrows, StaysGrows

LEMMA InboxInOrder ==
    ASSUME Inv, OrderInv, (\E e \in Events : Post(e)) \/ (\E b \in Bots : Replay(b))
    PROVE  OrderInv'
<1>1. UNCHANGED worker
  BY DEF Post, Replay, ReplayFold, ReplayLine, ReplayRemove
<1>2. (\E e \in Events : Accept(e)) \/ UNCHANGED rows
  <2>1. ASSUME NEW b \in Bots, ReplayLine(b), Accept(staging[b][reading[b]])
        PROVE  staging[b][reading[b]] \in Events
    BY <2>1 DEF ReplayLine, Inv, SpoolInv, SpoolTypes
  <2>2. QED
    BY <2>1 DEF Post, Replay, ReplayFold, ReplayLine, ReplayRemove
<1>3. Grows /\ \A j \in DOMAIN rows : rows'[j] = rows[j]
  <2>1. CASE UNCHANGED rows
    BY <2>1, StaysGrows DEF Inv
  <2>2. ASSUME NEW e \in Events, Accept(e)
        PROVE  Grows /\ \A j \in DOMAIN rows : rows'[j] = rows[j]
    BY <2>2, AcceptKeepsRows DEF Inv
  <2>3. QED
    BY <1>2, <2>1, <2>2
<1>4. QED
  BY <1>1, <1>3, OrderOfOthers DEF worker

-----------------------------------------------------------------------------
(* A batch takes no row and leaves an earlier one of its bot behind.       *)

LEMMA FewerBelow ==
    ASSUME NEW n \in Nat, NEW P \in SUBSET (1 .. n), NEW i \in Nat, NEW j \in Nat, j < i
    PROVE  /\ Cardinality({p \in P : p <= j}) \in Nat /\ Cardinality({p \in P : p <= i}) \in Nat
           /\ Cardinality({p \in P : p <= j}) <= Cardinality({p \in P : p <= i})
<1>1. IsFiniteSet(1 .. n)
  BY FS_Interval
<1>2. ASSUME NEW S, NEW T, S \subseteq T, T \subseteq 1 .. n
      PROVE  Cardinality(S) \in Nat /\ Cardinality(T) \in Nat /\ Cardinality(S) <= Cardinality(T)
  <2>1. IsFiniteSet(T)
    BY <1>1, <1>2, FS_Subset
  <2>2. IsFiniteSet(S) /\ Cardinality(S) <= Cardinality(T)
    BY <1>2, <2>1, FS_Subset
  <2>3. QED
    BY <2>1, <2>2, FS_CardinalityType
<1>3. {p \in P : p <= j} \subseteq {p \in P : p <= i} /\ {p \in P : p <= i} \subseteq 1 .. n
  <2>1. \A p \in P : p \in Nat /\ p \in 1 .. n
    OBVIOUS
  <2>2. \A p \in P : p <= j => p <= i
    BY <2>1
  <2>3. QED
    BY <2>1, <2>2
<1>4. QED
  BY <1>2, <1>3

LEMMA BatchHasNoGap ==
    ASSUME Inv, NEW i \in Batch(InLane), NEW j \in 1 .. i - 1,
           BotOfRow(j) = BotOfRow(i), ~IsCheck(j), rows[j].at # "done"
    PROVE  j \in Batch(InLane)
<1> DEFINE P == Pickable(InLane)
<1>1. i \in P /\ Cardinality({p \in P : p <= i}) <= BatchSize
  BY DEF Batch
<1>2. DOMAIN rows = 1 .. Len(rows) /\ Len(rows) \in Nat /\ i \in DOMAIN rows /\ j \in DOMAIN rows /\ j < i
      /\ i \in Nat /\ j \in Nat
  BY <1>1 DEF Pickable, Inv, RowsInv
<1>3. j \in P
  <2>1. rows[j].at = "due"
    <3>1. rows[j].at # "backoff"
      BY <1>1 DEF Pickable
    <3>2. rows[j] \in Row
      BY <1>2 DEF Inv, RowsInv
    <3>3. QED
      BY <3>1, <3>2 DEF Row
  <2>2. BotOfRow(j) \notin Busy
    BY <1>1 DEF Pickable
  <2>3. j \notin InLane
    BY DEF InLane, Inv, WorkerInv, LaneInv
  <2>4. \A k \in 1 .. j - 1 : k \in 1 .. i - 1
    BY <1>2
  <2>5. \A k \in 1 .. j - 1 : BotOfRow(k) = BotOfRow(j) => rows[k].at # "backoff"
    BY <1>1, <2>4 DEF Pickable
  <2>6. QED
    BY <1>2, <2>1, <2>2, <2>3, <2>5 DEF Pickable
<1>4. P \in SUBSET (1 .. Len(rows))
  BY <1>2 DEF Pickable
<1>5. /\ Cardinality({p \in P : p <= j}) <= Cardinality({p \in P : p <= i})
      /\ Cardinality({p \in P : p <= j}) \in Nat /\ Cardinality({p \in P : p <= i}) \in Nat
  <2> HIDE DEF P
  <2>1. QED
    BY <1>2, <1>4, FewerBelow
<1>6. Cardinality({p \in P : p <= j}) <= BatchSize
  <2> HIDE DEF P
  <2>1. QED
    BY <1>1, <1>5, InboxAssumption
<1>7. QED
  BY <1>3, <1>6 DEF Batch

LEMMA ScanInOrder ==
    ASSUME Inv, OrderInv, Scan
    PROVE  OrderInv'
<1> DEFINE batch == Batch(InLane)
           mine(b) == {i \in batch : BotOfRow(i) = b /\ ~IsCheck(i)}
<1>1. rows' = rows /\ StartTasks(batch)
  BY DEF Scan, StartTasks, disk
<1>2. ASSUME NEW b \in Bots
      PROVE  queue'[b] = mine(b) \/ queue'[b] = queue[b]
  BY <1>1 DEF StartTasks
<1>3. ASSUME NEW b \in Bots, NEW i \in queue'[b]
      PROVE  BotOfRow(i) = b
  BY <1>2, <1>3 DEF OrderInv
<1>4. ASSUME NEW b \in Bots, NEW i \in queue'[b], NEW j \in 1 .. i - 1, BotOfRow(j) = b, ~IsCheck(j)
      PROVE  j \in queue'[b] \/ rows[j].at = "done"
  <2>1. CASE queue'[b] = mine(b)
    <3>1. i \in Batch(InLane) /\ BotOfRow(i) = b
      BY <1>4, <2>1
    <3>2. rows[j].at # "done" => j \in Batch(InLane)
      BY <1>4, <3>1, BatchHasNoGap
    <3>3. QED
      BY <1>4, <2>1, <3>2
  <2>2. CASE queue'[b] = queue[b]
    BY <1>4, <2>2 DEF OrderInv
  <2>3. QED
    BY <1>2, <2>1, <2>2
<1>5. QED
  BY <1>1, <1>3, <1>4 DEF OrderInv, BotOfRow, IsCheck

LEMMA SetRowChanges ==
    ASSUME RowsInv, NEW i \in DOMAIN rows, NEW at \in {"due", "backoff", "done"}, SetRow(i, at)
    PROVE  /\ Grows /\ rows'[i].at = at
           /\ \A j \in DOMAIN rows \ {i} : rows'[j] = rows[j]
<1>1. rows[i] \in Row /\ rows \in Seq(Row)
  BY DEF RowsInv
<1>2. rows' = [rows EXCEPT ![i] = [rows[i] EXCEPT !.at = at]]
  BY DEF SetRow
<1>3. [rows[i] EXCEPT !.at = at].at = at
  BY ONLY <1>1 DEF Row
<1>4. QED
  BY <1>1, <1>2, <1>3, SetRowGrows

LEMMA TaskInOrder ==
    ASSUME Inv, OrderInv, NEW b \in Bots, Task(b)
    PROVE  OrderInv'
<1>1. CASE Process(b)
  <2>1. rows' = rows /\ queue' = queue
    BY <1>1 DEF Process
  <2>2. QED
    BY <2>1, StaysGrows, OrderOfOthers DEF Inv
<1>2. ASSUME MarkDone(b) \/ MarkFailed(b)
      PROVE  OrderInv'
  <2> DEFINE i == Min(queue[b])
  <2>1. i \in queue[b] /\ i \in DOMAIN rows
    BY <1>2, FirstOfTask DEF MarkDone, MarkFailed, Inv, WorkerInv
  <2>2. /\ SetRow(i, "done") \/ SetRow(i, "backoff") \/ UNCHANGED rows
        /\ \/ queue' = [queue EXCEPT ![b] = {}]
           \/ SetRow(i, "done") /\ queue' = [queue EXCEPT ![b] = queue[b] \ {i}]
    <3>1. CASE MarkDone(b)
      BY <3>1 DEF MarkDone, EndTask
    <3>2. CASE MarkFailed(b)
      BY <3>2 DEF MarkFailed, EndTask
    <3>3. QED
      BY <1>2, <3>1, <3>2
  <2> HIDE DEF i
  <2>3. /\ Grows /\ \A j \in DOMAIN rows \ {i} : rows'[j] = rows[j]
        /\ SetRow(i, "done") => rows'[i].at = "done"
    BY <2>1, <2>2, SetRowChanges, StaysGrows DEF Inv
  <2>4. /\ queue'[b] = {} \/ (SetRow(i, "done") /\ queue'[b] = queue[b] \ {i})
        /\ \A c \in Bots \ {b} : queue'[c] = queue[c]
    BY <2>2 DEF Inv, WorkerInv, TasksInv
  <2>5. BotOfRow(i) = b
    BY <2>1 DEF OrderInv
  <2>6. QED
    BY <2>3, <2>4, <2>5, OrderStays
<1>3. QED
  BY <1>1, <1>2 DEF Task

LEMMA LaneInOrder ==
    ASSUME Inv, OrderInv, NEW l \in lane, Check(l) \/ CheckMark(l)
    PROVE  OrderInv'
<1>1. queue' = queue /\ l.row \in DOMAIN rows /\ IsCheck(l.row)
  BY DEF Check, CheckMark, Inv, WorkerInv, LaneInv
<1>2. SetRow(l.row, "done") \/ SetRow(l.row, "backoff") \/ UNCHANGED rows
  BY DEF Check, CheckMark, disk
<1>3. Grows /\ \A j \in DOMAIN rows \ {l.row} : rows'[j] = rows[j]
  BY <1>1, <1>2, SetRowChanges, StaysGrows DEF Inv
<1>4. QED
  BY <1>1, <1>3, OrderOfOthers

LEMMA BackoffInOrder ==
    ASSUME Inv, OrderInv, NEW i \in DOMAIN rows, BackoffEnds(i)
    PROVE  OrderInv'
<1>1. queue' = queue /\ rows[i].at # "done"
  BY DEF BackoffEnds, worker
<1>2. Grows /\ \A j \in DOMAIN rows \ {i} : rows'[j] = rows[j]
  BY SetRowChanges DEF BackoffEnds, Inv
<1>3. QED
  BY <1>1, <1>2, OrderOfOthers

LEMMA OrderHolds == Spec => []OrderInv
<1>1. Init => OrderInv
  BY DEF Init, OrderInv
<1>2. Inv /\ OrderInv /\ [Next]_vars => OrderInv'
  <2>1. ASSUME Inv, OrderInv, rows' = rows,
               queue' = queue \/ queue' = [b \in Bots |-> {}]
        PROVE  OrderInv'
    BY <2>1 DEF OrderInv, BotOfRow, IsCheck
  <2>2. ASSUME Inv, OrderInv, ScanFails \/ NextRound \/ Crash \/ UNCHANGED vars
        PROVE  OrderInv'
    BY <2>1, <2>2 DEF ScanFails, NextRound, Crash, vars, worker, disk
  <2>3. ASSUME Inv, OrderInv, Next
        PROVE  OrderInv'
    BY <2>2, <2>3, InboxInOrder, ScanInOrder, TaskInOrder, LaneInOrder, BackoffInOrder
       DEF Next, Lane
  <2>4. QED
    BY <2>2, <2>3
<1>3. QED
  BY <1>1, <1>2, InvHolds, PTL DEF Spec

(* The events of a bot take effect in the order they were written, around  *)
(* failures, backoffs and crashes (drain_bot, pending_excluding).          *)
THEOREM InOrderHolds == Spec => InOrder
<1> DEFINE Ordered == \A b \in Bots :
              Process(b) /\ effects' # effects =>
                  \A j \in 1 .. Min(queue[b]) - 1 :
                      BotOfRow(j) = b /\ ~IsCheck(j) => rows[j].at = "done"
<1>1. ASSUME Inv, OrderInv, NEW b \in Bots, Process(b),
             NEW j \in 1 .. Min(queue[b]) - 1, BotOfRow(j) = b, ~IsCheck(j)
      PROVE  rows[j].at = "done"
  <2>1. PICK i \in queue[b] : i = Min(queue[b])
    BY <1>1, FirstOfTask DEF Process, Inv, WorkerInv
  <2>2. queue[b] \in SUBSET Nat /\ queue[b] # {}
    BY <1>1, <2>1 DEF Inv, RowsInv, WorkerInv, TasksInv
  <2>3. \A k \in queue[b] : i <= k
    BY <2>1, <2>2, MinIsIn
  <2>4. j < i /\ i \in Nat /\ j \in Nat
    BY <1>1, <2>1, EarlierIsRow
  <2>5. j \notin queue[b]
    BY <2>3, <2>4
  <2>6. QED
    BY <1>1, <2>1, <2>5 DEF OrderInv
<1>2. Inv /\ OrderInv /\ [Next]_vars => [Ordered]_vars
  BY <1>1
<1>3. QED
  BY <1>2, InvHolds, OrderHolds, PTL DEF Spec, InOrder


-----------------------------------------------------------------------------
(* The inbox implements EventLog                                           *)

(* No row is passed over: what is marked done was dealt with, and so was   *)
(* what a task is about to mark.  What was dealt with has only rows before *)
(* it that are marked done; what a task still has is not.                  *)
Before(j) == {i \in 1 .. j - 1 : BotOfRow(i) = BotOfRow(j) /\ ~IsCheck(i)}
DoneBefore(j) == ~IsCheck(j) /\ \A i \in Before(j) : rows[i].at = "done"

StampInv ==
    /\ \A i \in DOMAIN rows : rows[i].at = "done" /\ ~IsCheck(i) => i \in settled
    /\ \A b \in Bots : step[b] = "done" => Min(queue[b]) \in settled
    /\ \A b \in Bots : \A i \in queue[b] : rows[i].at # "done"
    /\ \A j \in settled : DoneBefore(j)

(* The rows of turns that are marked done are none but those before.       *)
LEMMA StampStays ==
    ASSUME Inv, StampInv, Grows, settled \subseteq settled',
           \A j \in settled' \ settled : j \in DOMAIN rows /\ DoneBefore(j),
           \A i \in DOMAIN rows' : rows'[i].at = "done" =>
              \/ i \in DOMAIN rows /\ (rows[i].at = "done" \/ IsCheck(i))
              \/ i \in settled,
           \A i \in DOMAIN rows : rows[i].at = "done" /\ ~IsCheck(i) => rows'[i].at = "done",
           \A b \in Bots : \A i \in queue'[b] : rows'[i].at # "done",
           \A b \in Bots : step'[b] = "done" =>
              \/ step[b] = "done" /\ queue'[b] = queue[b]
              \/ Min(queue'[b]) \in settled'
    PROVE  StampInv'
<1>1. \A i \in DOMAIN rows : (IsCheck(i)' <=> IsCheck(i)) /\ BotOfRow(i)' = BotOfRow(i)
  BY DEF Grows, IsCheck, BotOfRow
<1>2. \A i \in DOMAIN rows' : rows'[i].at = "done" /\ ~IsCheck(i)' => i \in settled'
  BY <1>1 DEF StampInv
<1>3. \A b \in Bots : step'[b] = "done" => Min(queue'[b]) \in settled'
  BY DEF StampInv
<1>4. ASSUME NEW j \in settled'
      PROVE  DoneBefore(j)'
  <2>1. j \in DOMAIN rows /\ DoneBefore(j)
    BY DEF StampInv, Inv, AppliedInv, MarkTypes
  <2>2. \A i \in 1 .. j - 1 : i \in DOMAIN rows
    <3>1. DOMAIN rows = 1 .. Len(rows) /\ Len(rows) \in Nat
      BY DEF Inv, RowsInv
    <3>2. QED
      BY <2>1, <3>1
  <2>3. QED
    BY <1>1, <2>1, <2>2 DEF DoneBefore, Before
<1>5. QED
  BY <1>2, <1>3, <1>4 DEF StampInv

LEMMA NewRowIsDue ==
    ASSUME RowsInv, NEW e \in Events, Accept(e)
    PROVE  /\ Grows
           /\ \A i \in DOMAIN rows' : rows'[i].at = "done" =>
                 i \in DOMAIN rows /\ rows[i].at = "done"
           /\ \A i \in DOMAIN rows : rows'[i] = rows[i]
<1> DEFINE r == [ev |-> e, at |-> "due"]
<1>1. rows \in Seq(Row) /\ r \in Row /\ r.at = "due"
  BY DEF RowsInv, Row
<1>2. CASE rows' = Append(rows, r)
  <2> HIDE DEF r
  <2>1. /\ DOMAIN rows' = DOMAIN rows \cup {Len(rows) + 1} /\ rows'[Len(rows) + 1] = r
        /\ \A i \in DOMAIN rows : rows'[i] = rows[i]
    BY <1>1, <1>2, AppendProperties
  <2>2. QED
    BY <1>1, <2>1, AcceptGrows
<1>3. CASE rows' = rows
  BY <1>3, AcceptGrows
<1>4. QED
  BY <1>2, <1>3 DEF Accept

(* What a step of the inbox does to the table: nothing, or it accepts.     *)
LEMMA InboxAccepts ==
    ASSUME Inv, (\E e \in Events : Post(e)) \/ (\E b \in Bots : Replay(b))
    PROVE  /\ UNCHANGED worker /\ UNCHANGED marks
           /\ (\E e \in Events : Accept(e)) \/ UNCHANGED rows
<1>1. UNCHANGED worker /\ UNCHANGED marks
  BY DEF Post, Replay, ReplayFold, ReplayLine, ReplayRemove
<1>2. ASSUME NEW b \in Bots, ReplayLine(b), Accept(staging[b][reading[b]])
      PROVE  staging[b][reading[b]] \in Events
  BY <1>2 DEF ReplayLine, Inv, SpoolInv, SpoolTypes
<1>3. QED
  BY <1>1, <1>2 DEF Post, Replay, ReplayFold, ReplayLine, ReplayRemove

LEMMA InboxStamps ==
    ASSUME Inv, StampInv, (\E e \in Events : Post(e)) \/ (\E b \in Bots : Replay(b))
    PROVE  StampInv'
<1>1. /\ Grows
      /\ \A i \in DOMAIN rows' : rows'[i].at = "done" => i \in DOMAIN rows /\ rows[i].at = "done"
      /\ \A i \in DOMAIN rows : rows'[i] = rows[i]
  BY InboxAccepts, NewRowIsDue, StaysGrows DEF Inv
<1>2. UNCHANGED <<queue, step, settled>>
  BY InboxAccepts DEF worker, marks
<1>3. \A b \in Bots : \A i \in queue[b] : rows'[i].at # "done"
  BY <1>1 DEF StampInv, Inv, WorkerInv, TasksInv
<1>4. QED
  BY <1>1, <1>2, <1>3, StampStays

LEMMA ScanStamps ==
    ASSUME Inv, StampInv, Scan
    PROVE  StampInv'
<1>1. rows' = rows /\ settled' = settled
  BY DEF Scan, StartTasks, disk, marks
<1>2. ASSUME NEW b \in Bots
      PROVE  /\ step'[b] = "done" => step[b] = "done" /\ queue'[b] = queue[b]
             /\ \A i \in queue'[b] : rows[i].at # "done"
  BY DEF Scan, StartTasks, Batch, Pickable, StampInv
<1>3. Grows
  BY <1>1, StaysGrows DEF Inv
<1>4. QED
  BY <1>1, <1>2, <1>3, StampStays

(* The first row of a task has nothing before it that is not done.         *)
LEMMA FirstIsNext ==
    ASSUME Inv, OrderInv, NEW b \in Bots, step[b] # "idle"
    PROVE  /\ Min(queue[b]) \in queue[b] /\ Min(queue[b]) \in DOMAIN rows
           /\ DoneBefore(Min(queue[b]))
<1>1. PICK i \in queue[b] : i = Min(queue[b]) /\ i \in DOMAIN rows
  BY FirstOfTask DEF Inv, WorkerInv
<1>2. \A k \in queue[b] : i <= k
  <2>1. queue[b] \in SUBSET Nat /\ queue[b] # {}
    BY <1>1 DEF Inv, RowsInv, WorkerInv, TasksInv
  <2>2. QED
    BY <1>1, <2>1, MinIsIn
<1>3. BotOfRow(i) = b /\ ~IsCheck(i)
  BY DEF OrderInv, Inv, WorkerInv, TasksInv
<1>4. ASSUME NEW j \in Before(i)
      PROVE  rows[j].at = "done"
  <2>1. j \in 1 .. i - 1 /\ BotOfRow(j) = b /\ ~IsCheck(j)
    BY <1>3 DEF Before
  <2>2. j < i /\ j \in Nat /\ i \in Nat
    BY <2>1, EarlierIsRow
  <2>3. j \notin queue[b]
    BY <1>2, <2>2
  <2>4. QED
    BY <2>1, <2>3 DEF OrderInv
<1>5. QED
  BY <1>1, <1>3, <1>4 DEF DoneBefore

LEMMA ProcessStamps ==
    ASSUME Inv, OrderInv, StampInv, NEW b \in Bots, Process(b)
    PROVE  StampInv'
<1>1. rows' = rows /\ queue' = queue /\ step[b] # "idle"
  BY DEF Process
<1>2. /\ settled' = settled \cup {Min(queue[b])} \/ settled' = settled
      /\ step'[b] = "done" => Min(queue[b]) \in settled'
  BY DEF Process, Handle, marks, Inv, WorkerInv, TasksInv
<1>3. \A c \in Bots \ {b} : step'[c] = step[c]
  BY DEF Process, Inv, WorkerInv, TasksInv
<1>4. \A j \in settled' \ settled : j \in DOMAIN rows /\ DoneBefore(j)
  BY <1>1, <1>2, FirstIsNext
<1>5. \A c \in Bots : \A i \in queue'[c] : rows'[i].at # "done"
  BY <1>1 DEF StampInv
<1>6. Grows
  BY <1>1, StaysGrows DEF Inv
<1>7. QED
  BY <1>1, <1>2, <1>3, <1>4, <1>5, <1>6, StampStays

LEMMA MarkStamps ==
    ASSUME Inv, OrderInv, StampInv, NEW b \in Bots, MarkDone(b) \/ MarkFailed(b)
    PROVE  StampInv'
<1> DEFINE i == Min(queue[b])
<1>1. i \in queue[b] /\ i \in DOMAIN rows /\ rows[i].at # "done" /\ BotOfRow(i) = b
  BY FirstOfTask DEF MarkDone, MarkFailed, Inv, WorkerInv, StampInv, OrderInv
<1>2. /\ \/ SetRow(i, "done") /\ step[b] = "done"
         \/ SetRow(i, "backoff") \/ UNCHANGED rows
      /\ settled' = settled
      /\ queue' = [queue EXCEPT ![b] = {}] \/ queue' = [queue EXCEPT ![b] = queue[b] \ {i}]
  BY DEF MarkDone, MarkFailed, EndTask, marks
<1>3. step'[b] # "done" /\ \A c \in Bots \ {b} : step'[c] = step[c] /\ queue'[c] = queue[c]
  BY DEF MarkDone, MarkFailed, EndTask, Inv, WorkerInv, TasksInv
<1>4. step[b] = "done" => i \in settled
  BY DEF StampInv
<1>5. queue'[b] \subseteq queue[b] \ {i}
  BY <1>2 DEF Inv, WorkerInv, TasksInv
<1> HIDE DEF i
<1>6. /\ Grows /\ DOMAIN rows' = DOMAIN rows
      /\ \A j \in DOMAIN rows \ {i} : rows'[j] = rows[j]
      /\ rows'[i].at = "done" => step[b] = "done"
  <2>1. CASE UNCHANGED rows
    BY <1>1, <2>1, StaysGrows DEF Inv
  <2>2. ASSUME NEW at \in {"done", "backoff"}, SetRow(i, at), at = "done" => step[b] = "done"
        PROVE  /\ Grows /\ DOMAIN rows' = DOMAIN rows
               /\ \A j \in DOMAIN rows \ {i} : rows'[j] = rows[j]
               /\ rows'[i].at = "done" => step[b] = "done"
    BY <1>1, <2>2, SetRowChanges DEF Inv, SetRow
  <2>3. QED
    BY <1>2, <2>1, <2>2
<1>7. ASSUME NEW c \in Bots, NEW k \in queue'[c]
      PROVE  rows'[k].at # "done"
  <2>1. k \in queue[c] /\ k \in DOMAIN rows
    BY <1>3, <1>5 DEF Inv, WorkerInv, TasksInv
  <2>2. k # i
    BY <1>1, <1>3, <1>5, <2>1 DEF OrderInv
  <2>3. QED
    BY <1>6, <2>1, <2>2 DEF StampInv
<1>8. QED
  BY <1>1, <1>2, <1>3, <1>4, <1>6, <1>7, StampStays

LEMMA OthersStamp ==
    ASSUME Inv, StampInv,
           \/ \E l \in lane : Check(l) \/ CheckMark(l)
           \/ \E i \in DOMAIN rows : BackoffEnds(i)
    PROVE  StampInv'
<1>1. UNCHANGED <<queue, step, settled>>
  BY DEF Check, CheckMark, BackoffEnds, disk, worker, marks
<1>2. \/ UNCHANGED rows
      \/ \E i \in DOMAIN rows : SetRow(i, "due") /\ rows[i].at = "backoff"
      \/ \E i \in DOMAIN rows : IsCheck(i) /\ (SetRow(i, "done") \/ SetRow(i, "backoff"))
  BY DEF Check, CheckMark, BackoffEnds, disk, Inv, WorkerInv, LaneInv
<1>3. /\ Grows /\ DOMAIN rows' = DOMAIN rows
      /\ \A j \in DOMAIN rows : ~IsCheck(j) => (rows'[j].at = "done" <=> rows[j].at = "done")
  <2>1. CASE UNCHANGED rows
    BY <2>1, StaysGrows DEF Inv
  <2>2. ASSUME NEW i \in DOMAIN rows, NEW at \in {"due", "done", "backoff"}, SetRow(i, at),
               (at = "due" /\ rows[i].at = "backoff") \/ IsCheck(i)
        PROVE  /\ Grows /\ DOMAIN rows' = DOMAIN rows
               /\ \A j \in DOMAIN rows : ~IsCheck(j) => (rows'[j].at = "done" <=> rows[j].at = "done")
    BY <2>2, SetRowChanges DEF Inv, SetRow
  <2>3. QED
    BY <1>2, <2>1, <2>2
<1>4. \A b \in Bots : \A i \in queue'[b] : rows'[i].at # "done"
  BY <1>1, <1>3 DEF StampInv, Inv, WorkerInv, TasksInv
<1>5. QED
  BY <1>1, <1>3, <1>4, StampStays

LEMMA StampHolds == Spec => []StampInv
<1>1. Init => StampInv
  BY DEF Init, StampInv
<1>2. Inv /\ OrderInv /\ StampInv /\ [Next]_vars => StampInv'
  <2>1. ASSUME StampInv, UNCHANGED <<rows, settled>>,
               \/ UNCHANGED <<queue, step>>
               \/ step' = [b \in Bots |-> "idle"] /\ queue' = [b \in Bots |-> {}]
        PROVE  StampInv'
    BY <2>1 DEF StampInv, IsCheck, BotOfRow, DoneBefore, Before
  <2>2. ASSUME Inv, StampInv, ScanFails \/ NextRound \/ Crash \/ UNCHANGED vars
        PROVE  StampInv'
    BY <2>1, <2>2 DEF ScanFails, NextRound, Crash, vars, worker, disk, marks
  <2>3. ASSUME Inv, OrderInv, StampInv, Next
        PROVE  StampInv'
    BY <2>2, <2>3, InboxStamps, ScanStamps, ProcessStamps, MarkStamps, OthersStamp
       DEF Next, Task, Lane
  <2>4. QED
    BY <2>2, <2>3
<1>3. QED
  BY <1>1, <1>2, InvHolds, OrderHolds, PTL DEF Spec

(* Steps that accept nothing leave the log as it is.                       *)
LEMMA AcceptedStays ==
    ASSUME RowsInv, NEW i \in DOMAIN rows, NEW at \in {"due", "backoff", "done"},
           SetRow(i, at) \/ UNCHANGED rows
    PROVE  Accepted' = Accepted
<1>1. CASE UNCHANGED rows
  BY <1>1 DEF Accepted
<1>2. CASE SetRow(i, at)
  <2>1. Grows /\ DOMAIN rows' = DOMAIN rows
    BY <1>2, SetRowGrows DEF SetRow
  <2>2. QED
    BY <2>1 DEF Grows, Accepted
<1>3. QED
  BY <1>1, <1>2

(* An event that gets a row is written to the log.                         *)
LEMMA AcceptWrites ==
    ASSUME RowsInv, NEW e \in Events, Accept(e), UNCHANGED marks
    PROVE  Accepted' = Accepted \/ Log!Write(e)
<1> DEFINE r == [ev |-> e, at |-> "due"]
           n == Len(rows) + 1
<1>1. CASE rows' = rows
  BY <1>1 DEF Accepted
<1>2. CASE rows' = Append(rows, r) /\ (e \in Keyed => \A i \in DOMAIN rows : rows[i].ev # e)
  <2>1. rows \in Seq(Row) /\ r \in Row /\ r.ev = e
    BY DEF RowsInv, Row
  <2>2. Accepted \in Seq(Events) /\ Len(Accepted) = Len(rows) /\ DOMAIN Accepted = DOMAIN rows
    <3>1. \A i \in 1 .. Len(rows) : rows[i].ev \in Events
      <4>1. \A i \in 1 .. Len(rows) : rows[i] \in Row
        BY <2>1
      <4>2. QED
        BY <4>1 DEF Row
    <3>2. DOMAIN rows = 1 .. Len(rows) /\ Len(rows) \in Nat
      BY <2>1
    <3>3. Accepted = [i \in 1 .. Len(rows) |-> rows[i].ev]
      BY <3>2 DEF Accepted
    <3>4. QED
      BY <3>1, <3>2, <3>3
  <2> HIDE DEF r
  <2>3. /\ DOMAIN rows' = 1 .. n /\ rows'[n] = r /\ Len(rows) \in Nat /\ DOMAIN rows = 1 .. Len(rows)
        /\ \A i \in DOMAIN rows : rows'[i] = rows[i]
    <3>1. Len(rows) \in Nat /\ DOMAIN rows = 1 .. Len(rows)
      BY <2>1
    <3>2. /\ DOMAIN rows' = DOMAIN rows \cup {n} /\ rows'[n] = r
          /\ \A i \in DOMAIN rows : rows'[i] = rows[i]
      BY <1>2, <2>1, AppendProperties
    <3>3. \A m \in Nat : 1 .. m + 1 = 1 .. m \cup {m + 1}
      OBVIOUS
    <3>4. DOMAIN rows' = 1 .. n
      BY <3>1, <3>2, <3>3
    <3>5. QED
      BY <3>1, <3>2, <3>4
  <2>4. Accepted' = Append(Accepted, e)
    <3> DEFINE l == Append(Accepted, e)
    <3>1. /\ l \in Seq(Events) /\ DOMAIN l = DOMAIN rows \cup {n} /\ l[n] = e
          /\ \A i \in DOMAIN rows : l[i] = Accepted[i]
      BY <2>2, AppendProperties
    <3>2. Accepted' = [i \in DOMAIN rows' |-> rows'[i].ev]
      BY DEF Accepted
    <3>3. DOMAIN rows' = DOMAIN l /\ l = [i \in DOMAIN l |-> l[i]]
      <4> HIDE DEF l
      <4>1. DOMAIN rows' = DOMAIN l
        BY <2>3, <3>1
      <4>2. l = [i \in 1 .. Len(l) |-> l[i]] /\ DOMAIN l = 1 .. Len(l)
        <5>1. \A s \in Seq(Events) : s = [i \in 1 .. Len(s) |-> s[i]] /\ DOMAIN s = 1 .. Len(s)
          OBVIOUS
        <5>2. QED
          BY <3>1, <5>1
      <4>3. QED
        BY <4>1, <4>2
    <3>4. \A i \in DOMAIN rows : Accepted[i] = rows[i].ev
      BY DEF Accepted
    <3> HIDE DEF l
    <3>5. \A i \in DOMAIN l : rows'[i].ev = l[i]
      BY <2>1, <2>3, <3>1, <3>4
    <3>6. QED
      BY <3>2, <3>3, <3>5 DEF l
  <2>5. e \in Keyed => \A i \in DOMAIN Accepted : Accepted[i] # e
    BY <1>2 DEF Accepted
  <2>6. QED
    BY <2>4, <2>5 DEF Log!Write, marks
<1>3. QED
  BY <1>1, <1>2 DEF Accept

(* A row a task deals with is the one whose turn it is in the log.         *)
LEMMA ProcessApplies ==
    ASSUME Inv, OrderInv, StampInv, NEW b \in Bots, step[b] # "idle",
           Handle(Min(queue[b])), rows' = rows
    PROVE  \E i \in DOMAIN Accepted : Log!Settle(i) \/ Log!Apply(i)
<1> DEFINE i == Min(queue[b])
<1>1. i \in queue[b] /\ i \in DOMAIN rows /\ DoneBefore(i)
  BY FirstIsNext
<1>2. \/ UNCHANGED effects
      \/ TakeEffect(i)
  BY DEF Handle
<1>3. settled' = settled \cup {i}
  BY DEF Handle
<1> HIDE DEF i
<1>4. Accepted' = Accepted /\ DOMAIN Accepted = DOMAIN rows /\ \A j \in DOMAIN rows : Accepted[j] = rows[j].ev
  BY DEF Accepted
<1>5. Log!InTurn(i)
  <2>1. ~IsCheck(i)
    BY <1>1 DEF DoneBefore
  <2>2. ASSUME NEW j \in Log!OfSameBot(i)
        PROVE  /\ j \in DOMAIN rows /\ j \in Nat /\ i \in Nat /\ ~IsCheck(j)
               /\ BotOfRow(j) = BotOfRow(i)
    <3>1. DOMAIN rows \subseteq Nat
      BY DEF Inv, RowsInv
    <3>2. QED
      BY <1>1, <1>4, <3>1 DEF Log!OfSameBot, IsCheck, BotOfRow
  <2>3. ASSUME NEW j \in Log!OfSameBot(i), j < i
        PROVE  j \in settled
    <3>1. j \in Before(i)
      <4>1. j \in 1 .. i - 1
        <5>1. DOMAIN rows = 1 .. Len(rows) /\ Len(rows) \in Nat
          BY DEF Inv, RowsInv
        <5>2. QED
          BY <2>2, <2>3, <5>1
      <4>2. QED
        BY <2>2, <4>1 DEF Before
    <3>2. QED
      BY <1>1, <2>2, <3>1 DEF DoneBefore, StampInv
  <2>4. ASSUME NEW j \in Log!OfSameBot(i), j > i, j \in settled
        PROVE  FALSE
    <3>1. i \in Before(j)
      <4>1. i \in 1 .. j - 1
        <5>1. DOMAIN rows = 1 .. Len(rows) /\ Len(rows) \in Nat
          BY DEF Inv, RowsInv
        <5>2. QED
          BY <1>1, <2>2, <2>4, <5>1
      <4>2. QED
        BY <2>1, <2>2, <4>1 DEF Before
    <3>2. QED
      BY <1>1, <2>4, <3>1 DEF StampInv, DoneBefore
  <2>5. QED
    BY <1>1, <1>4, <2>1, <2>3, <2>4 DEF Log!InTurn, IsCheck
<1>6. CASE UNCHANGED effects
  BY <1>1, <1>3, <1>4, <1>5, <1>6 DEF Log!Settle
<1>7. CASE TakeEffect(i)
  <2>1. ~Recognised(i) /\ effects' = Append(effects, i)
    BY <1>7 DEF TakeEffect
  <2>2. rows[i].ev \in Nameless \/ \A k \in DOMAIN effects : effects[k] # i
    BY <2>1 DEF Inv, AppliedInv, Known
  <2>3. QED
    BY <1>1, <1>3, <1>4, <1>5, <2>1, <2>2 DEF Log!Apply
<1>8. QED
  BY <1>2, <1>6, <1>7

LEMMA NextKeepsLog ==
    ASSUME Inv, OrderInv, StampInv, [Next]_vars
    PROVE  [Log!Next]_<<Accepted, settled, effects>>
<1>1. CASE (\E e \in Events : Post(e)) \/ (\E b \in Bots : Replay(b))
  <2>1. CASE UNCHANGED rows
    BY <1>1, <2>1, InboxAccepts DEF Accepted, marks
  <2>2. CASE \E e \in Events : Accept(e)
    BY <1>1, <2>2, InboxAccepts, AcceptWrites DEF Inv, Log!Next, marks
  <2>3. QED
    BY <1>1, <2>1, <2>2, InboxAccepts
<1>2. ASSUME NEW b \in Bots, Process(b)
      PROVE  [Log!Next]_<<Accepted, settled, effects>>
  <2>1. rows' = rows /\ step[b] # "idle"
        /\ (Handle(Min(queue[b])) \/ UNCHANGED marks)
    BY <1>2 DEF Process
  <2>2. QED
    BY <2>1, ProcessApplies DEF Log!Next, Accepted, marks
<1>3. ASSUME NEW b \in Bots, MarkDone(b) \/ MarkFailed(b)
      PROVE  UNCHANGED <<Accepted, settled, effects>>
  <2>1. Min(queue[b]) \in DOMAIN rows
    BY <1>3, FirstOfTask DEF MarkDone, MarkFailed, Inv, WorkerInv
  <2>2. /\ UNCHANGED marks
        /\ \/ SetRow(Min(queue[b]), "done") \/ SetRow(Min(queue[b]), "backoff")
           \/ UNCHANGED rows
    BY <1>3 DEF MarkDone, MarkFailed
  <2>3. QED
    BY <2>1, <2>2, AcceptedStays DEF Inv, marks
<1>4. ASSUME NEW l \in lane, Check(l) \/ CheckMark(l)
      PROVE  UNCHANGED <<Accepted, settled, effects>>
  <2>1. l.row \in DOMAIN rows /\ UNCHANGED marks
    BY <1>4 DEF Check, CheckMark, disk, Inv, WorkerInv, LaneInv
  <2>2. SetRow(l.row, "done") \/ SetRow(l.row, "backoff") \/ UNCHANGED rows
    BY <1>4 DEF Check, CheckMark, disk
  <2>3. QED
    BY <2>1, <2>2, AcceptedStays DEF Inv, marks
<1>5. ASSUME NEW i \in DOMAIN rows, BackoffEnds(i)
      PROVE  UNCHANGED <<Accepted, settled, effects>>
  BY <1>5, AcceptedStays DEF BackoffEnds, Inv, marks
<1>6. CASE Scan \/ ScanFails \/ NextRound \/ Crash \/ UNCHANGED vars
  BY <1>6 DEF Scan, StartTasks, ScanFails, NextRound, Crash, vars, disk, marks, Accepted
<1>7. QED
  BY <1>1, <1>2, <1>3, <1>4, <1>5, <1>6 DEF Next, Task, Lane

(* Whatever is lost, repeated, tried again or cut short by a crash, what   *)
(* the agents of the bots reported is a log that takes effect in order,    *)
(* entry by entry and once (a failure without native ids excepted), and no *)
(* row that is marked done was passed over (accept, drain_bot,             *)
(* stamp_source_event, seen_turn).                                         *)
THEOREM InboxIsALog == Spec => KeepsLog
<1>1. Init => Log!Init
  BY DEF Init, Log!Init, Accepted
<1>2. Inv /\ OrderInv /\ StampInv /\ [Next]_vars => [Log!Next]_<<Accepted, settled, effects>>
  BY NextKeepsLog
<1>3. QED
  BY <1>1, <1>2, InvHolds, OrderHolds, StampHolds, PTL DEF Spec, KeepsLog, Log!Spec

=============================================================================
