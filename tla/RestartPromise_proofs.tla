------------------------- MODULE RestartPromise_proofs -------------------------
(***************************************************************************)
(* What a restart promises (RestartIntents): a bot it left stopped is not  *)
(* forgotten, and while the recovery owes it, the queue is kept.           *)
(***************************************************************************)
EXTENDS RestartIntents_proofs

(* The restart in hand is the newest one, for the run the bot has or had   *)
(* last, and a stop a user asked for is remembered as his.                 *)
InHand ==
    /\ job.kind = "restart" =>
          /\ job.id = Newest /\ OwedOrTold(job.id) /\ job.from = intents[job.id].from
          /\ job.step = "stop" => Active \in {0, job.from}
          /\ job.step \in {"kill", "commit"} => job.from = Last
          /\ job.step \in {"done", "abandoned"} => ~Unasked
    /\ job.step \in {"kill", "commit"} /\ job.kind # "restart" => Last \in asked
    /\ job.step = "stop" => job.kind \in {"stop", "restart"}

(* An intent that is open is the newest; what a later run left stopped is  *)
(* not its doing.                                                          *)
AccountInv ==
    /\ Open \subseteq {Newest}
    /\ StoppedIsAccountedFor
    /\ \A i \in Open : intents[i].from # 0 /\ intents[i].from < Last => ~Unasked
    /\ InHand

(* Only one worker at a time has an intent in its hands, and that intent   *)
(* is this daemon's; what the recovery owes keeps its hold.                *)
AtWork(w) == rec[w].at \in {"claimed", "working", "failing"}
HoldsInv ==
    /\ \A i \in Open : OwedTo(i) => i \in holds
    /\ \A v, w \in Workers : AtWork(v) /\ AtWork(w) /\ rec[v].id = rec[w].id => v = w
    /\ \A w \in Workers : AtWork(w) /\ rec[w].id \in Open => LeftRunning(intents[rec[w].id])
    /\ \A w \in Workers : job.who = w => rec[w].id = job.id

-----------------------------------------------------------------------------
(* What the actions do to the intents.                                     *)

(* No intent comes or is opened again, and none is for another run.        *)
Fades ==
    /\ DOMAIN intents' = DOMAIN intents /\ Newest' = Newest
    /\ \A i \in DOMAIN intents :
          /\ intents'[i].from = intents[i].from /\ intents'[i].born = intents[i].born
          /\ i \in Open' => i \in Open

(* What ends without success is told.                                      *)
Tells == \A i \in DOMAIN intents : OwedOrTold(i) => OwedOrTold(i)'

LEMMA NewestFacts ==
    ASSUME IntentsInv
    PROVE  /\ Newest \in Nat /\ DOMAIN intents = 1 .. Newest
           /\ \A i \in DOMAIN intents : intents[i] \in Intent /\ intents[i].from \in Nat
           /\ Open \subseteq DOMAIN intents
           /\ \A i \in DOMAIN intents : i \in Open <=> intents[i].status \in OpenStatus
<1>1. Newest \in Nat /\ DOMAIN intents = 1 .. Newest
  BY DEF IntentsInv, Newest
<1>2. \A i \in DOMAIN intents : intents[i] \in Intent
  BY DEF IntentsInv
<1>3. \A i \in DOMAIN intents : intents[i].from \in Nat
  BY <1>2 DEF Intent
<1> QED
  BY <1>1, <1>2, <1>3 DEF Open, Opens

LEMMA UnchangedFades ==
    ASSUME intents' = intents
    PROVE  Fades /\ Tells /\ Open' = Open
BY DEF Fades, Tells, Newest, OwedOrTold, Open

(* One intent becomes e.                                                   *)
LEMMA ReplacedFades ==
    ASSUME IntentsInv, NEW i \in DOMAIN intents, NEW e, intents' = [intents EXCEPT ![i] = e],
           e \in Intent, e.from = intents[i].from, e.born = intents[i].born,
           e.status \in OpenStatus => intents[i].status \in OpenStatus
    PROVE  /\ Fades
           /\ e.status \in OpenStatus \/ e.told \/ ~OwedOrTold(i) => Tells
           /\ intents'[i] = e /\ \A j \in DOMAIN intents : j # i => intents'[j] = intents[j]
           /\ \A j \in DOMAIN intents : j # i => (j \in Open' <=> j \in Open)
           /\ i \in Open' <=> e.status \in OpenStatus
<1>1. /\ DOMAIN intents' = DOMAIN intents /\ Len(intents') = Len(intents)
      /\ \A j \in DOMAIN intents : intents'[j] = IF j = i THEN e ELSE intents[j]
  BY Replace DEF IntentsInv
<1>2. \A j \in DOMAIN intents : j # i => (j \in Open' <=> j \in Open)
  BY <1>1 DEF Open, Opens
<1>3. i \in Open' <=> e.status \in OpenStatus
  BY <1>1 DEF Open, Opens
<1>4. i \in Open <=> intents[i].status \in OpenStatus
  BY DEF Open, Opens
<1>5. Fades
  BY <1>1, <1>2, <1>3, <1>4 DEF Fades, Newest
<1>6. ASSUME e.status \in OpenStatus \/ e.told \/ ~OwedOrTold(i)
      PROVE  Tells
  BY <1>1, <1>2, <1>3, <1>6 DEF Tells, OwedOrTold
<1> QED
  BY <1>1, <1>2, <1>3, <1>5, <1>6

(* Ended writes to an open intent only.                                    *)
LEMMA EndedFades ==
    ASSUME IntentsInv, NEW i, NEW status \in {"done", "abandoned", "failed"}, NEW told \in BOOLEAN,
           intents' = Ended(i, status, told)
    PROVE  /\ Fades /\ i \notin Open'
           /\ told \/ i \notin Open => Tells
           /\ \A j \in DOMAIN intents : j # i => intents'[j] = intents[j]
<1>1. CASE i \notin Open
  <2>1. intents' = intents
    BY <1>1 DEF Ended
  <2> QED
    BY <1>1, <2>1, UnchangedFades
<1>2. CASE i \in Open
  <2> DEFINE e == [intents[i] EXCEPT !.status = status, !.told = told]
  <2>1. intents' = [intents EXCEPT ![i] = e]
    <3>1. intents' = [intents EXCEPT ![i].status = status, ![i].told = told]
      BY <1>2 DEF Ended
    <3> QED
      BY <3>1
  <2>2. i \in DOMAIN intents /\ intents[i] \in Intent
    BY <1>2 DEF Open, Opens, IntentsInv
  <2>3. /\ e \in Intent /\ e.from = intents[i].from /\ e.born = intents[i].born
        /\ e.status = status /\ e.told = told
    BY <2>2 DEF Intent
  <2>4. status \notin OpenStatus
    BY DEF OpenStatus
  <2> HIDE DEF e
  <2>5. /\ Fades /\ i \notin Open'
        /\ \A j \in DOMAIN intents : j # i => intents'[j] = intents[j]
    BY <2>1, <2>2, <2>3, <2>4, ReplacedFades
  <2>6. ASSUME told
        PROVE  Tells
    BY <2>1, <2>2, <2>3, <2>4, <2>6, ReplacedFades
  <2> QED
    BY <1>2, <2>5, <2>6
<1> QED
  BY <1>1, <1>2

(* An attempt that is returned leaves its intent pending.                  *)
LEMMA ReturnedFades ==
    ASSUME IntentsInv, NEW i \in DOMAIN intents, intents' = Returned(i)
    PROVE  /\ Fades /\ Tells
           /\ \A j \in DOMAIN intents : j # i => intents'[j] = intents[j]
<1>1. CASE intents[i].status # "running"
  <2>1. intents' = intents
    BY <1>1 DEF Returned
  <2> QED
    BY <2>1, UnchangedFades
<1>2. CASE intents[i].status = "running"
  <2> DEFINE e == [intents[i] EXCEPT !.status = "pending"]
  <2>1. intents' = [intents EXCEPT ![i] = e]
    BY <1>2 DEF Returned
  <2>2. intents[i] \in Intent
    BY DEF IntentsInv
  <2>3. /\ e \in Intent /\ e.from = intents[i].from /\ e.born = intents[i].born
        /\ e.status \in OpenStatus
    BY <2>2 DEF Intent, OpenStatus
  <2>4. intents[i].status \in OpenStatus
    BY <1>2 DEF OpenStatus
  <2> HIDE DEF e
  <2> QED
    BY <2>1, <2>3, <2>4, ReplacedFades
<1> QED
  BY <1>1, <1>2


-----------------------------------------------------------------------------
(* The account of a bot that was left stopped.                             *)

LEMMA AccountStays ==
    ASSUME Inv, AccountInv, Fades, Unasked' => Unasked /\ Last' = Last /\ Tells, InHand'
    PROVE  AccountInv'
<1>1. /\ Newest \in Nat /\ DOMAIN intents = 1 .. Newest /\ Open \subseteq DOMAIN intents
  BY NewestFacts DEF Inv
<1>2. Open' \subseteq Open
  BY DEF Fades, Open, Opens
<1>3. Open' \subseteq {Newest'}
  BY <1>2 DEF AccountInv, Fades
<1>4. StoppedIsAccountedFor'
  <2> SUFFICES ASSUME Unasked'
               PROVE  (Newest # 0 /\ OwedOrTold(Newest))'
    BY DEF StoppedIsAccountedFor
  <2>1. Newest # 0 /\ OwedOrTold(Newest) /\ Newest' = Newest
    BY DEF AccountInv, StoppedIsAccountedFor, Fades
  <2>2. Newest \in DOMAIN intents
    BY <1>1, <2>1
  <2> QED
    BY <2>1, <2>2 DEF Tells, OwedOrTold
<1>5. (\A i \in Open : intents[i].from # 0 /\ intents[i].from < Last => ~Unasked)'
  <2>1. ASSUME NEW i \in Open', intents'[i].from # 0, intents'[i].from < Last', Unasked'
        PROVE  FALSE
    <3>1. i \in Open /\ intents'[i].from = intents[i].from /\ Last' = Last /\ Unasked
      BY <1>1, <1>2, <2>1 DEF Fades
    <3> QED
      BY <2>1, <3>1 DEF AccountInv
  <2> QED
    BY <2>1
<1> QED
  BY <1>3, <1>4, <1>5 DEF AccountInv

(* A run whose state is not "stopped" cannot have been left stopped.       *)
LEMMA ResetIsAsked ==
    ASSUME TableInv, NEW k, NEW state \in States \ {"stopped"}, runs' = [runs EXCEPT ![k] = state],
           asked' = asked \/ k = Last
    PROVE  Last' = Last /\ (Unasked' => Unasked) /\ (k = Last => ~Unasked')
<1>1. /\ Last' = Last /\ DOMAIN runs' = DOMAIN runs
      /\ \A j \in DOMAIN runs : runs'[j] = IF j = k THEN state ELSE runs[j]
  BY Replace DEF TableInv, Last
<1>2. Last \in Nat /\ DOMAIN runs = 1 .. Last
  BY RunFacts
<1> QED
  BY <1>1, <1>2 DEF Unasked

(* The bot's lock is not touched, and the active run is what it was, or    *)
(* has ended.                                                              *)
LEMMA InHandStays ==
    ASSUME Inv, AccountInv, Fades, Tells, job' = job, Last' = Last, asked' = asked,
           Unasked' => Unasked, Active' \in {0, Active} \/ Free
    PROVE  InHand'
<1>1. job.kind = "restart" => job.id \in DOMAIN intents
  BY DEF Inv, UpsInv
<1>2. ~Free \/ job = NoJob
  BY DEF Inv, JobInv
<1>3. Free => job.kind = None /\ job.step = None
  BY <1>2 DEF NoJob
<1>4. job.kind = "restart" => /\ job'.id = Newest' /\ OwedOrTold(job.id)' /\ job'.from = intents'[job.id].from
                              /\ job'.step = "stop" => Active' \in {0, job'.from}
                              /\ job'.step \in {"kill", "commit"} => job'.from = Last'
                              /\ job'.step \in {"done", "abandoned"} => ~Unasked'
  BY <1>1, <1>3 DEF AccountInv, InHand, Fades, Tells, None
<1> QED
  BY <1>4 DEF AccountInv, InHand, OwedOrTold

(* The holder of the lock goes on to s, or leaves.                         *)
LEMMA InHandGoesOn ==
    ASSUME Inv, AccountInv, Fades, Tells, NEW s \in Steps \ {"stop"}, Step(s),
           s \in {"kill", "commit"} /\ job.kind = "restart" => job.from = Last',
           s \in {"kill", "commit"} /\ job.kind # "restart" => Last' \in asked',
           s \in {"done", "abandoned"} => ~Unasked', job.step # None
    PROVE  InHand'
<1>1. job.kind = "restart" => job.id \in DOMAIN intents
  BY DEF Inv, UpsInv
<1>2. /\ job'.step = s /\ job'.kind = job.kind /\ job'.id = job.id /\ job'.from = job.from
  BY StepFacts DEF Inv
<1>3. job.kind = "restart" => /\ job'.id = Newest' /\ OwedOrTold(job.id)' /\ job'.from = intents'[job.id].from
  BY <1>1, <1>2 DEF AccountInv, InHand, Fades, Tells
<1> QED
  BY <1>2, <1>3 DEF InHand, OwedOrTold

LEMMA InHandLeft ==
    ASSUME job' = NoJob
    PROVE  InHand'
<1>1. job'.kind = None /\ job'.step = None
  BY DEF NoJob
<1> QED
  BY <1>1 DEF InHand, None

LEMMA InHandFails ==
    ASSUME Inv, AccountInv, Fades, Tells, job.step # None,
           job' = NoJob \/ \E s \in {"giveup", "failed"} : Step(s)
    PROVE  InHand'
<1>1. CASE job' = NoJob
  BY <1>1, InHandLeft
<1>2. ASSUME NEW s \in {"giveup", "failed"}, Step(s)
      PROVE  InHand'
  <2>1. s \in Steps \ {"stop"} /\ s \notin {"kill", "commit", "done", "abandoned"}
    BY DEF Steps
  <2> QED
    BY <1>2, <2>1, InHandGoesOn
<1> QED
  BY <1>1, <1>2

LEMMA InHandAfterStop ==
    ASSUME Inv, AccountInv, Fades, Tells, job.step # None, job' = AfterStop
    PROVE  InHand'
<1>1. CASE job.kind = "stop"
  BY <1>1, InHandLeft DEF AfterStop
<1>2. CASE job.kind # "stop"
  <2> DEFINE s == IF job.who = User THEN "start" ELSE "label"
  <2>1. Step(s)
    BY <1>2 DEF AfterStop, Step
  <2>2. s \in Steps \ {"stop"} /\ s \notin {"kill", "commit", "done", "abandoned"}
    BY DEF Steps, Starting
  <2> HIDE DEF s
  <2> QED
    BY <2>1, <2>2, InHandGoesOn
<1> QED
  BY <1>1, <1>2

-----------------------------------------------------------------------------
(* The steps of the lock's holder.                                         *)

LEMMA BeginStopKeepsAccount ==
    ASSUME Inv, AccountInv, BeginStop
    PROVE  AccountInv'
<1>1. TableInv /\ JobInv /\ InHand
  BY DEF Inv, AccountInv
<1>2. job.step = "stop" /\ job.step # None /\ Fades /\ Tells
  BY UnchangedFades DEF BeginStop, SameDaemon, None
<1>3. /\ Last \in Nat /\ DOMAIN runs = 1 .. Last /\ Active \in {0, Last}
      /\ Active # 0 => Last # 0 /\ runs[Last] \in Live
  BY <1>1, RunFacts
<1>4. CASE runs' = runs /\ asked' = asked /\ job' \in {AfterStop, NoJob}
  <2>1. Last' = Last /\ Unasked' = Unasked
    BY <1>4 DEF Last, Unasked
  <2>2. InHand'
    BY <1>2, <1>4, InHandAfterStop, InHandLeft
  <2> QED
    BY <1>2, <2>1, <2>2, AccountStays
<1>5. CASE runs' = runs /\ asked' = asked /\ Active # 0 /\ \E s \in {"failed", "abandoned"} : Step(s)
  <2>1. Last' = Last /\ ~Unasked'
    BY <1>3, <1>5 DEF Last, Unasked, Live
  <2>2. PICK s \in {"failed", "abandoned"} : Step(s)
    BY <1>5
  <2>3. s \in Steps \ {"stop"} /\ s \notin {"kill", "commit"}
    BY DEF Steps
  <2>4. InHand'
    BY <1>2, <2>1, <2>2, <2>3, InHandGoesOn
  <2> QED
    BY <1>2, <2>1, <2>4, AccountStays
<1>6. CASE Active # 0 /\ runs' = [runs EXCEPT ![Last] = "stopping"] /\ Step("kill")
           /\ asked' = IF job.kind = "stop" THEN asked \cup {Last} ELSE asked \ {Last}
  <2>1. "stopping" \in States \ {"stopped"}
    BY DEF States, Live
  <2>2. Last' = Last /\ ~Unasked'
    BY <1>1, <1>6, <2>1, ResetIsAsked
  <2>3. job.kind = "restart" => job.from = Last
    BY <1>1, <1>2, <1>3, <1>6 DEF InHand
  <2>4. job.kind # "restart" => Last \in asked'
    BY <1>1, <1>2, <1>6 DEF InHand
  <2>5. "kill" \in Steps \ {"stop"}
    BY DEF Steps
  <2>6. InHand'
    BY <1>2, <1>6, <2>2, <2>3, <2>4, <2>5, InHandGoesOn
  <2> QED
    BY <1>2, <2>2, <2>6, AccountStays
<1> QED
  BY <1>4, <1>5, <1>6 DEF BeginStop, Leave

LEMMA KillKeepsAccount ==
    ASSUME Inv, AccountInv, Kill
    PROVE  AccountInv'
<1>1. TableInv /\ JobInv /\ InHand
  BY DEF Inv, AccountInv
<1>2. job.step = "kill" /\ job.step # None /\ Fades /\ Tells
  BY UnchangedFades DEF Kill, SameDaemon, None
<1>3. /\ Last \in Nat /\ DOMAIN runs = 1 .. Last
      /\ runs[Last] \in {"stopping", "exited"}
  BY <1>1, <1>2, RunFacts DEF JobInv
<1>4. Last' = Last /\ ~Unasked'
  <2>1. CASE runs' = runs
    BY <1>3, <2>1 DEF Kill, Last, Unasked
  <2>2. CASE runs' = [runs EXCEPT ![Last] = IF @ = "stopping" THEN "running" ELSE @]
    <3> DEFINE state == IF runs[Last] = "stopping" THEN "running" ELSE runs[Last]
    <3>1. runs' = [runs EXCEPT ![Last] = state]
      BY <2>2
    <3>2. state \in States \ {"stopped"}
      BY <1>3 DEF States, Live
    <3> HIDE DEF state
    <3> QED
      BY <1>1, <3>1, <3>2, ResetIsAsked
  <2> QED
    BY <2>1, <2>2 DEF Kill
<1>5. InHand'
  <2>1. CASE Step("commit")
    <3>1. "commit" \in Steps \ {"stop"}
      BY DEF Steps
    <3>2. /\ job.kind = "restart" => job.from = Last'
          /\ job.kind # "restart" => Last' \in asked'
      BY <1>1, <1>2, <1>4 DEF InHand, Kill
    <3> QED
      BY <1>2, <2>1, <3>1, <3>2, InHandGoesOn
  <2>2. CASE job' = Unconfirmed
    BY <1>2, <2>2, InHandFails DEF Unconfirmed, Step
  <2> QED
    BY <2>1, <2>2 DEF Kill
<1> QED
  BY <1>2, <1>4, <1>5, AccountStays

(* Here a restart leaves its bot stopped: its intent is the one to show.   *)
LEMMA CommitStoppedKeepsAccount ==
    ASSUME Inv, AccountInv, CommitStopped
    PROVE  AccountInv'
<1>1. TableInv /\ JobInv /\ InHand /\ IntentsInv /\ UpsInv
  BY DEF Inv, AccountInv
<1>2. job.step = "commit" /\ job.step # None /\ Fades /\ Tells /\ intents' = intents /\ asked' = asked
  BY UnchangedFades DEF CommitStopped, SameDaemon, None
<1>3. InHand'
  BY <1>2, InHandAfterStop DEF CommitStopped
<1>4. Last' = Last
  <2> DEFINE state == IF runs[Last] = "stopping" \/ job.kind = "stop" THEN "stopped" ELSE runs[Last]
  <2>1. runs' = [runs EXCEPT ![Last] = state]
    BY DEF CommitStopped
  <2> QED
    BY <1>1, <2>1, Replace DEF TableInv, Last, States
<1>5. CASE job.kind # "restart"
  <2>1. Last \in asked
    BY <1>1, <1>2, <1>5 DEF InHand
  <2> QED
    BY <1>2, <1>3, <1>4, <2>1, AccountStays DEF Unasked
<1>6. CASE job.kind = "restart"
  <2>1. /\ job.id = Newest /\ OwedOrTold(Newest) /\ Newest \in DOMAIN intents
        /\ intents[Newest].from = Last
    BY <1>1, <1>2, <1>6 DEF InHand, UpsInv
  <2>2. Newest # 0 /\ Newest' = Newest /\ Open' = Open
    BY <1>1, <1>2, <2>1, NewestFacts, UnchangedFades DEF Fades
  <2>3. StoppedIsAccountedFor'
    BY <1>2, <2>1, <2>2 DEF StoppedIsAccountedFor, OwedOrTold
  <2>4. Last \in Nat
    BY <1>1, RunFacts
  <2>5. \A i \in Open : i = Newest
    BY DEF AccountInv
  <2>6. (\A i \in Open : intents[i].from # 0 /\ intents[i].from < Last => ~Unasked)'
    BY <1>2, <1>4, <2>1, <2>2, <2>4, <2>5
  <2> QED
    BY <1>3, <2>2, <2>3, <2>5, <2>6 DEF AccountInv
<1> QED
  BY <1>5, <1>6

LEMMA RelabelIsAsked ==
    ASSUME TableInv, asked' = asked,
           runs' = (IF job.from # 0 /\ runs[job.from] = "stopped"
                    THEN [runs EXCEPT ![job.from] = "exited"] ELSE runs)
    PROVE  Last' = Last /\ (Unasked' => Unasked)
<1>1. "exited" \in States \ {"stopped"}
  BY DEF States
<1>2. CASE runs' = runs
  BY <1>2 DEF Last, Unasked
<1>3. CASE runs' = [runs EXCEPT ![job.from] = "exited"]
  BY <1>1, <1>3, ResetIsAsked
<1> QED
  BY <1>2, <1>3

LEMMA RelabelKeepsAccount ==
    ASSUME Inv, AccountInv, RelabelThenStart \/ GiveUp
    PROVE  AccountInv'
<1>1. TableInv /\ job.step # None /\ Fades /\ Tells /\ asked' = asked
  BY UnchangedFades DEF Inv, RelabelThenStart, GiveUp, SameDaemon, None
<1>2. Last' = Last /\ (Unasked' => Unasked)
  <2>1. CASE runs' = runs
    BY <1>1, <2>1 DEF Last, Unasked
  <2>2. CASE runs' # runs
    BY <1>1, <2>2, RelabelIsAsked DEF RelabelThenStart, GiveUp
  <2> QED
    BY <2>1, <2>2
<1>3. InHand'
  <2>1. PICK s \in {"start", "failed"} : Step(s)
    BY DEF RelabelThenStart, GiveUp
  <2>2. s \in Steps \ {"stop"} /\ s \notin {"kill", "commit", "done", "abandoned"}
    BY DEF Steps, Starting
  <2> QED
    BY <1>1, <2>1, <2>2, InHandGoesOn
<1> QED
  BY <1>1, <1>2, <1>3, AccountStays

LEMMA StartFailsKeepsAccount ==
    ASSUME Inv, AccountInv, StartFails, job.step # None, intents' = intents,
           Unasked' => Unasked /\ Last' = Last
    PROVE  AccountInv'
<1>1. Fades /\ Tells
  BY UnchangedFades
<1>2. InHand'
  BY <1>1, InHandFails DEF StartFails, Failed, Step
<1> QED
  BY <1>1, <1>2, AccountStays

LEMMA InsertRunKeepsAccount ==
    ASSUME Inv, AccountInv, InsertRun
    PROVE  AccountInv'
<1>1. TableInv /\ job.step # None /\ Fades /\ Tells /\ asked' = asked /\ intents' = intents
  BY UnchangedFades DEF Inv, InsertRun, SameDaemon, None
<1>2. CASE runs' = Append(runs, "starting") /\ Step("launch")
  <2>1. runs \in Seq(States) /\ "starting" \in States
    BY <1>1 DEF TableInv, States, Live
  <2>2. Last' = Last + 1 /\ runs'[Last + 1] = "starting"
    BY <1>2, <2>1 DEF Last
  <2>3. ~Unasked'
    BY <2>2 DEF Unasked
  <2>4. "launch" \in Steps \ {"stop"}
    BY DEF Steps, Starting
  <2>5. InHand'
    BY <1>1, <1>2, <2>4, InHandGoesOn
  <2> QED
    BY <1>1, <2>3, <2>5, AccountStays
<1>3. CASE StartFails /\ runs' = runs
  BY <1>1, <1>3, StartFailsKeepsAccount DEF Last, Unasked
<1> QED
  BY <1>2, <1>3 DEF InsertRun

LEMMA LaunchKeepsAccount ==
    ASSUME Inv, AccountInv, Launch
    PROVE  AccountInv'
<1>1. TableInv /\ IntentsInv /\ UpsInv /\ job.step = "launch" /\ job.step # None /\ asked' = asked
  BY DEF Inv, Launch, None
<1>2. CASE runs' = runs /\ Step("record")
           /\ intents' = IF job.id = 0 THEN intents ELSE [intents EXCEPT ![job.id].ups = @ + 1]
  <2>1. Fades /\ Tells
    <3>1. CASE job.id = 0
      BY <1>2, <3>1, UnchangedFades
    <3>2. CASE job.id # 0
      <4> DEFINE e == [intents[job.id] EXCEPT !.ups = @ + 1]
      <4>1. intents' = [intents EXCEPT ![job.id] = e]
        BY <1>2, <3>2
      <4>2. job.id \in DOMAIN intents /\ intents[job.id] \in Intent
        BY <1>1, <3>2 DEF UpsInv, IntentsInv
      <4>3. /\ e \in Intent /\ e.from = intents[job.id].from /\ e.born = intents[job.id].born
            /\ e.status = intents[job.id].status /\ e.told = intents[job.id].told
        BY <4>2 DEF Intent
      <4>4. e.status \in OpenStatus \/ e.told \/ ~OwedOrTold(job.id)
        BY <4>3 DEF OwedOrTold, Open, Opens
      <4> HIDE DEF e
      <4> QED
        BY <1>1, <4>1, <4>2, <4>3, <4>4, ReplacedFades
    <3> QED
      BY <3>1, <3>2
  <2>2. "record" \in Steps \ {"stop"}
    BY DEF Steps, Starting
  <2>3. InHand'
    BY <1>1, <1>2, <2>1, <2>2, InHandGoesOn
  <2> QED
    BY <1>1, <1>2, <2>1, <2>3, AccountStays DEF Last, Unasked
<1>3. CASE runs' = [runs EXCEPT ![Last] = "exited"] /\ StartFails /\ intents' = intents
  <2>1. "exited" \in States \ {"stopped"}
    BY DEF States
  <2>2. ~Unasked'
    BY <1>1, <1>3, <2>1, ResetIsAsked
  <2> QED
    BY <1>1, <1>3, <2>2, StartFailsKeepsAccount
<1> QED
  BY <1>2, <1>3 DEF Launch

LEMMA RecordRunningKeepsAccount ==
    ASSUME Inv, AccountInv, RecordRunning
    PROVE  AccountInv'
<1>1. TableInv /\ job.step # None /\ Fades /\ Tells /\ asked' = asked /\ intents' = intents
  BY UnchangedFades DEF Inv, RecordRunning, SameDaemon, None
<1>2. CASE runs[Last] = "starting"
  <2>1. ~Unasked'
    <3>1. CASE runs' = runs
      BY <1>2, <3>1 DEF Last, Unasked
    <3>2. CASE runs' = [runs EXCEPT ![Last] = "running"]
      <4>1. "running" \in States \ {"stopped"}
        BY DEF States, Live
      <4> QED
        BY <1>1, <3>2, <4>1, ResetIsAsked
    <3> QED
      BY <1>2, <3>1, <3>2 DEF RecordRunning
  <2>2. InHand'
    <3>1. CASE job' = NoJob
      BY <3>1, InHandLeft
    <3>2. CASE Step("done")
      <4>1. "done" \in Steps \ {"stop"}
        BY DEF Steps
      <4> QED
        BY <1>1, <2>1, <3>2, <4>1, InHandGoesOn
    <3> QED
      BY <1>2, <3>1, <3>2 DEF RecordRunning, Leave
  <2> QED
    BY <1>1, <2>1, <2>2, AccountStays
<1>3. CASE runs[Last] # "starting"
  BY <1>1, <1>3, StartFailsKeepsAccount DEF RecordRunning, Last, Unasked
<1> QED
  BY <1>2, <1>3

(* A restart that failed is told; one that did not left nothing stopped.   *)
LEMMA SettledKeepsAccount ==
    ASSUME Inv, AccountInv, NEW told \in BOOLEAN, job.step \in {"done", "abandoned", "failed"},
           intents' = Ended(job.id, job.step, told), told \/ job.step # "failed",
           job' = NoJob, runs' = runs, asked' = asked
    PROVE  AccountInv'
<1>1. IntentsInv /\ UpsInv /\ InHand
  BY DEF Inv, AccountInv
<1>2. /\ Fades
      /\ told \/ job.id \notin Open => Tells
  BY <1>1, EndedFades
<1>3. job.kind # "restart" => job.id \notin Open
  <2>1. job.kind # "restart" => job.id = 0
    BY <1>1 DEF UpsInv
  <2>2. 0 \notin Open
    BY <1>1, NewestFacts
  <2> QED
    BY <2>1, <2>2
<1>4. Unasked' => Unasked /\ Last' = Last /\ Tells
  BY <1>1, <1>2, <1>3 DEF InHand, Unasked, Last
<1> QED
  BY <1>2, <1>4, InHandLeft, AccountStays

LEMMA SettleRestartKeepsAccount ==
    ASSUME Inv, AccountInv, SettleRestart
    PROVE  AccountInv'
<1>1. job' = NoJob /\ runs' = runs /\ asked' = asked
  BY DEF SettleRestart, Leave, table, past
<1>2. CASE intents' = Ended(job.id, job.step, job.step # "done")
  BY <1>1, <1>2, SettledKeepsAccount DEF SettleRestart
<1>3. CASE intents' = intents
  BY <1>1, <1>3, UnchangedFades, InHandLeft, AccountStays DEF Last, Unasked
<1> QED
  BY <1>2, <1>3 DEF SettleRestart

-----------------------------------------------------------------------------
(* What a user asks for.                                                   *)

(* The one intent a restart leaves open is the newest; if it is an older   *)
(* one, it is what it was but for the run it is for.                       *)
LEMMA PreparedNewest ==
    ASSUME Inv, AccountInv, intents' = Prepared(Active)
    PROVE  /\ Newest' # 0 /\ Open' = {Newest'} /\ intents'[Newest'].from = Active
           /\ \/ /\ Newest' \in Open
                 /\ intents'[Newest'].born = intents[Newest'].born
                 /\ intents'[Newest'].status = intents[Newest'].status
                 /\ intents'[Newest'].owner = intents[Newest'].owner
              \/ Newest' \notin DOMAIN intents /\ intents'[Newest'].born = boot
<1>1. /\ IntentsInv /\ Active \in Nat /\ boot \in 1 .. MaxFaults + 1
      /\ Newest \in Nat /\ DOMAIN intents = 1 .. Newest
      /\ \A i \in DOMAIN intents : intents[i] \in Intent
  <2>1. Active \in Nat
    BY RunFacts DEF Inv
  <2>2. boot \in 1 .. MaxFaults + 1
    BY IntentsAssumption DEF Inv, RestInv
  <2> QED
    BY <2>1, <2>2, NewestFacts DEF Inv
<1>2. intents' \in Seq(Intent) /\ \E k \in DOMAIN intents' : Opens(intents') = {k} /\ intents'[k].from = Active
  BY <1>1, PreparedFacts
<1>3. PICK k \in DOMAIN intents' : Open' = {k} /\ intents'[k].from = Active
  BY <1>2 DEF Open
<1>4. /\ \A i \in DOMAIN intents : i \in Open <=> intents[i].status \in OpenStatus
      /\ \A i \in DOMAIN intents' : i \in Open' <=> intents'[i].status \in OpenStatus
  BY DEF Open, Opens
<1> DEFINE again == [i \in DOMAIN intents |->
               IF i \in Open THEN [intents[i] EXCEPT !.from = Active, !.ups = 0] ELSE intents[i]]
           ended == [i \in DOMAIN intents |->
               IF i \in Open THEN [intents[i] EXCEPT !.status = "abandoned"] ELSE intents[i]]
           fresh == Fresh(Active)
<1>5. CASE intents' = again
  <2>1. \A i \in DOMAIN intents :
           /\ again[i].status = intents[i].status /\ again[i].owner = intents[i].owner
           /\ again[i].born = intents[i].born /\ again[i] \in Intent
    BY <1>1 DEF Intent
  <2>2. again \in [DOMAIN intents -> Intent]
    BY <2>1
  <2> HIDE DEF again
  <2>3. DOMAIN intents' = DOMAIN intents /\ Newest' = Newest
    BY <1>1, <1>5, <2>2, Mapped DEF IntentsInv, Newest
  <2>4. k \in Open
    BY <1>3, <1>4, <1>5, <2>1, <2>3
  <2>5. k = Newest /\ k \in DOMAIN intents /\ k # 0
    <3>1. k = Newest
      BY <2>4 DEF AccountInv
    <3>2. k \in 1 .. Newest
      BY <1>1, <1>3, <2>3
    <3> QED
      BY <1>1, <3>1, <3>2
  <2> QED
    BY <1>3, <1>5, <2>1, <2>3, <2>4, <2>5
<1>6. CASE intents' = Append(ended, fresh)
  <2>1. \A i \in DOMAIN intents : ended[i] \in Intent /\ ended[i].status \notin OpenStatus
    BY <1>1, <1>4 DEF Intent, OpenStatus
  <2>2. ended \in [DOMAIN intents -> Intent]
    BY <2>1
  <2>3. fresh.born = boot /\ fresh \in Intent
    <3>1. 0 \in 0 .. MaxFaults + 1
      BY IntentsAssumption
    <3> QED
      BY <1>1, <3>1 DEF Fresh, Intent, OpenStatus
  <2> HIDE DEF ended, fresh
  <2>4. ended \in Seq(Intent) /\ Len(ended) = Newest /\ DOMAIN ended = DOMAIN intents
    BY <1>1, <2>2, Mapped DEF IntentsInv, Newest
  <2>5. /\ DOMAIN intents' = 1 .. Newest + 1 /\ Newest' = Newest + 1
        /\ intents'[Newest + 1] = fresh
        /\ \A i \in DOMAIN intents : intents'[i] = ended[i]
    BY <1>1, <1>6, <2>3, <2>4, AppendProperties DEF Newest
  <2>6. k \notin DOMAIN intents
    BY <1>3, <1>4, <2>1, <2>5
  <2>7. k = Newest'
    BY <1>1, <2>5, <2>6
  <2> QED
    BY <1>1, <1>3, <2>3, <2>5, <2>6, <2>7
<1> QED
  BY <1>5, <1>6 DEF Prepared

LEMMA RestartBotKeepsAccount ==
    ASSUME Inv, AccountInv, RestartBot
    PROVE  AccountInv'
<1>1. /\ Newest' # 0 /\ Open' = {Newest'} /\ intents'[Newest'].from = Active
  BY PreparedNewest DEF RestartBot
<1>2. runs' = runs /\ asked' = asked /\ Last' = Last /\ Active' = Active
  BY DEF RestartBot, table, past, Last, Active
<1>3. job' = [who |-> User, kind |-> "restart", step |-> "stop", id |-> Newest', from |-> Active]
  BY <1>1 DEF RestartBot, Open
<1>4. Active \in {0, Last} /\ Last \in Nat
  BY RunFacts DEF Inv
<1>5. InHand'
  BY <1>1, <1>2, <1>3 DEF InHand, OwedOrTold
<1>6. StoppedIsAccountedFor'
  BY <1>1 DEF StoppedIsAccountedFor, OwedOrTold
<1>7. (\A i \in Open : intents[i].from # 0 /\ intents[i].from < Last => ~Unasked)'
  BY <1>1, <1>2, <1>4
<1> QED
  BY <1>1, <1>5, <1>6, <1>7 DEF AccountInv

LEMMA StopOrStartKeepsAccount ==
    ASSUME Inv, AccountInv, StopBot \/ StartBot
    PROVE  AccountInv'
<1>1. runs' = runs /\ asked' = asked /\ intents' = intents /\ Last' = Last /\ Unasked' = Unasked
  BY DEF StopBot, StartBot, table, past, Last, Unasked
<1>2. \/ job'.kind = "stop" /\ job'.step = "stop"
      \/ job'.kind = "start" /\ job'.step = "start"
  BY DEF StopBot, StartBot, NoJob
<1>3. InHand'
  BY <1>2 DEF InHand
<1> QED
  BY <1>1, <1>3, UnchangedFades, AccountStays

-----------------------------------------------------------------------------
(* The agents, and the boot.                                               *)

LEMMA UntouchedKeepsAccount ==
    ASSUME Inv, AccountInv, runs' = runs, asked' = asked, Fades, Tells, job' = job \/ job' = NoJob
    PROVE  AccountInv'
<1>1. Last' = Last /\ Unasked' = Unasked /\ Active' = Active
  BY DEF Last, Unasked, Active
<1>2. InHand'
  BY <1>1, InHandStays, InHandLeft
<1> QED
  BY <1>1, <1>2, AccountStays

LEMMA BystandersKeepAccount ==
    ASSUME Inv, AccountInv, QueuePrompt \/ SweepQueue \/ FlushQueue \/ AgentEnds \/ Reconnect \/ Crash
    PROVE  AccountInv'
<1>1. runs' = runs /\ asked' = asked /\ intents' = intents /\ (job' = job \/ job' = NoJob)
  BY DEF QueuePrompt, SweepQueue, FlushQueue, AgentEnds, Reconnect, Crash, table, past
<1> QED
  BY <1>1, UnchangedFades, UntouchedKeepsAccount

LEMMA PaneExitedKeepsAccount ==
    ASSUME Inv, AccountInv, PaneExited
    PROVE  AccountInv'
<1>1. TableInv /\ asked' = asked /\ job' = job /\ Fades /\ Tells
      /\ runs' = [runs EXCEPT ![Last] = "exited"]
  BY UnchangedFades DEF Inv, PaneExited, past
<1>2. "exited" \in States \ {"stopped"}
  BY DEF States
<1>3. Last' = Last /\ ~Unasked'
  BY <1>1, <1>2, ResetIsAsked
<1>4. Active' = 0
  <2>1. runs'[Last] \notin Live \/ runs' = <<>>
    BY <1>1 DEF TableInv, Live, Last
  <2> QED
    BY <1>3, <2>1 DEF Active, ActiveIn, Last
<1>5. InHand'
  BY <1>1, <1>3, <1>4, InHandStays
<1> QED
  BY <1>1, <1>3, <1>5, AccountStays

LEMMA ReconcileKeepsAccount ==
    ASSUME Inv, AccountInv, Reconcile
    PROVE  AccountInv'
<1>1. TableInv /\ asked' = asked /\ job' = job /\ Free /\ Fades /\ Tells
  BY UnchangedFades DEF Inv, Reconcile, past
<1>2. CASE runs' = runs
  BY <1>1, <1>2, UntouchedKeepsAccount
<1>3. ASSUME NEW state \in Seen(runs[Last]), runs' = [runs EXCEPT ![Last] = state]
      PROVE  AccountInv'
  <2>1. state \in States \ {"stopped"}
    BY <1>3 DEF Seen, States, Live
  <2>2. Last' = Last /\ ~Unasked'
    BY <1>1, <1>3, <2>1, ResetIsAsked
  <2>3. InHand'
    BY <1>1, <2>2, InHandStays
  <2> QED
    BY <1>1, <2>2, <2>3, AccountStays
<1> QED
  BY <1>2, <1>3 DEF Reconcile

-----------------------------------------------------------------------------
(* The recovery.                                                           *)

(* The intents, with those in S overdue.                                   *)
Overdue(S) == [i \in DOMAIN intents |->
    IF i \in S THEN [intents[i] EXCEPT !.status = "failed", !.told = TRUE] ELSE intents[i]]

LEMMA OverdueFades ==
    ASSUME IntentsInv, NEW overdue \in {{}, Open}, intents' = Overdue(overdue)
    PROVE  /\ Fades /\ Tells
           /\ \A i \in DOMAIN intents : i \in Open' => intents'[i] = intents[i]
<1>1. /\ intents \in Seq(Intent) /\ \A i \in DOMAIN intents : intents[i] \in Intent
      /\ \A i \in DOMAIN intents : i \in Open <=> intents[i].status \in OpenStatus
  BY NewestFacts DEF IntentsInv
<1>2. \A i \in DOMAIN intents :
         /\ i \in overdue => i \in Open /\ intents'[i].status = "failed" /\ intents'[i].told
         /\ i \notin overdue => intents'[i] = intents[i]
         /\ intents'[i].from = intents[i].from /\ intents'[i].born = intents[i].born
         /\ intents'[i] \in Intent
  BY <1>1 DEF Intent, Overdue
<1>3. intents' \in [DOMAIN intents -> Intent]
  BY <1>2 DEF Overdue
<1>4. DOMAIN intents' = DOMAIN intents /\ Newest' = Newest
  BY <1>1, <1>3, Mapped DEF Newest
<1>5. \A i \in DOMAIN intents : i \in Open' <=> intents'[i].status \in OpenStatus
  BY <1>4 DEF Open, Opens
<1>6. \A i \in DOMAIN intents : i \in Open' => i \in Open /\ intents'[i] = intents[i]
  BY <1>1, <1>2, <1>5 DEF OpenStatus
<1>7. Fades
  BY <1>2, <1>4, <1>6 DEF Fades
<1>8. Tells
  BY <1>1, <1>2, <1>5 DEF Tells, OwedOrTold
<1> QED
  BY <1>6, <1>7, <1>8

(* An intent that is claimed is open, before and after.                    *)
Claimed(id) == [intents EXCEPT ![id].status = "running", ![id].owner = boot, ![id].attempts = @ + 1]

LEMMA ClaimFades ==
    ASSUME IntentsInv, NEW id \in DOMAIN intents, boot \in 1 .. MaxFaults + 1, Claimable(intents[id]),
           intents' = Claimed(id)
    PROVE  /\ Fades /\ Tells /\ intents'[id].status = "running" /\ intents'[id].owner = boot
           /\ \A j \in DOMAIN intents : j # id => intents'[j] = intents[j]
<1> DEFINE e == [intents[id] EXCEPT !.status = "running", !.owner = boot, !.attempts = @ + 1]
<1>1. intents' = [intents EXCEPT ![id] = e]
  BY DEF Claimed
<1>2. intents[id] \in Intent
  BY DEF IntentsInv
<1>3. boot \in 0 .. MaxFaults + 1
  BY IntentsAssumption
<1>4. /\ e \in Intent /\ e.from = intents[id].from /\ e.born = intents[id].born
      /\ e.status = "running" /\ e.owner = boot
  BY <1>2, <1>3, ClaimedIntent
<1>5. "running" \in OpenStatus /\ intents[id].status \in OpenStatus
  BY DEF OpenStatus, Claimable
<1> HIDE DEF e
<1>6. /\ Fades /\ Tells /\ intents'[id] = e
      /\ \A j \in DOMAIN intents : j # id => intents'[j] = intents[j]
  BY <1>1, <1>4, <1>5, ReplacedFades
<1> QED
  BY <1>4, <1>6

LEMMA RecoveryKeepsAccount ==
    ASSUME Inv, AccountInv, NEW w \in Workers, RecoverHost(w) \/ DriveOnce(w) \/ StopWaiting(w) \/ FailAttempt(w)
    PROVE  AccountInv'
<1>1. runs' = runs /\ asked' = asked /\ job' = job /\ IntentsInv /\ RecInv /\ boot \in 1 .. MaxFaults + 1
  <2>1. boot \in 1 .. MaxFaults + 1
    BY IntentsAssumption DEF Inv, RestInv
  <2> QED
    BY <2>1 DEF Inv, RecoverHost, DriveOnce, StopWaiting, FailAttempt, table, past
<1>2. CASE intents' = intents
  BY <1>1, <1>2, UnchangedFades, UntouchedKeepsAccount
<1>3. CASE RecoverHost(w)
  <2>1. PICK overdue \in {{}, Open} : intents' = Overdue(overdue)
    BY <1>3 DEF RecoverHost, Overdue
  <2> QED
    BY <1>1, <2>1, OverdueFades, UntouchedKeepsAccount
<1>4. CASE DriveOnce(w) /\ intents' # intents
  <2>1. Claimable(intents[rec[w].id]) /\ intents' = Claimed(rec[w].id)
    BY <1>4 DEF DriveOnce, Claimed
  <2>2. rec[w].id \in DOMAIN intents
    BY <1>1, <1>4 DEF RecInv, DriveOnce
  <2> QED
    BY <1>1, <2>1, <2>2, ClaimFades, UntouchedKeepsAccount
<1>5. CASE FailAttempt(w) /\ intents' # intents
  <2>1. rec[w].id \in DOMAIN intents
    BY <1>1, <1>5 DEF RecInv, FailAttempt
  <2>2. intents' = Ended(rec[w].id, "failed", TRUE) \/ intents' = Returned(rec[w].id)
    BY <1>5 DEF FailAttempt
  <2>3. CASE intents' = Ended(rec[w].id, "failed", TRUE)
    BY <1>1, <2>3, EndedFades, UntouchedKeepsAccount
  <2>4. CASE intents' = Returned(rec[w].id)
    BY <1>1, <2>1, <2>4, ReturnedFades, UntouchedKeepsAccount
  <2> QED
    BY <2>2, <2>3, <2>4
<1> QED
  BY <1>2, <1>3, <1>4, <1>5 DEF StopWaiting

LEMMA SettleAttemptKeepsAccount ==
    ASSUME Inv, AccountInv, NEW w \in Workers, SettleAttempt(w)
    PROVE  AccountInv'
<1>1. job' = NoJob /\ runs' = runs /\ asked' = asked
  BY DEF SettleAttempt, Leave, table, past
<1>2. CASE job.step # "failed" /\ intents' = Ended(job.id, job.step, FALSE)
  BY <1>1, <1>2, SettledKeepsAccount DEF SettleAttempt
<1>3. CASE intents' = intents
  BY <1>1, <1>3, UnchangedFades, UntouchedKeepsAccount
<1> QED
  BY <1>2, <1>3 DEF SettleAttempt

(* The verdict takes a bot that is down for done only if a later run than  *)
(* the intent's was stopped by its user.                                   *)
LEMMA ResumeKeepsAccount ==
    ASSUME Inv, AccountInv, NEW w \in Workers, Resume(w)
    PROVE  AccountInv'
<1>1. /\ runs' = runs /\ asked' = asked /\ intents' = intents
      /\ Last' = Last /\ Unasked' = Unasked /\ Active' = Active
  BY DEF Resume, table, past, Last, Unasked, Active
<1>2. CASE job' = job
  BY <1>1, <1>2, UnchangedFades, UntouchedKeepsAccount
<1>3. CASE LeftRunning(intents[rec[w].id]) /\
           job' = [who |-> w, kind |-> "restart", step |-> Verdict(intents[rec[w].id].from),
                   id |-> rec[w].id, from |-> intents[rec[w].id].from]
  <2> DEFINE id == rec[w].id
             from == intents[id].from
  <2>1. id \in DOMAIN intents
    BY DEF Inv, RecInv, Resume
  <2>2. id \in Open /\ from \in Nat
    BY <1>3, <2>1, NewestFacts DEF Inv, LeftRunning, OpenStatus
  <2>3. id = Newest
    BY <2>2 DEF AccountInv
  <2>4. /\ Last \in Nat /\ Active \in {0, Last}
        /\ Active # 0 => Last # 0 /\ runs[Last] \in Live
    BY RunFacts DEF Inv
  <2>5. Verdict(from) = "stop" => Active \in {0, from}
    BY DEF Verdict
  <2>6. Verdict(from) \in {"done", "abandoned"} => ~Unasked
    <3>1. CASE Active # 0
      BY <2>4, <3>1 DEF Unasked, Live
    <3>2. CASE Active = 0 /\ from # 0 /\ from < Last
      BY <2>2, <3>2 DEF AccountInv
    <3>3. CASE Active = 0 /\ ~(from # 0 /\ from < Last)
      BY <2>2, <2>4, <3>3 DEF Verdict
    <3> QED
      BY <3>1, <3>2, <3>3
  <2>7. Verdict(from) \notin {"kill", "commit"}
    BY DEF Verdict
  <2>8. InHand'
    BY <1>1, <1>3, <2>2, <2>3, <2>5, <2>6, <2>7 DEF InHand, OwedOrTold, Open, Newest
  <2> QED
    BY <1>1, <2>8, UnchangedFades, AccountStays
<1> QED
  BY <1>2, <1>3 DEF Resume

-----------------------------------------------------------------------------
(* The account holds.                                                      *)
LEMMA InitAccount == Init => AccountInv
<1> SUFFICES ASSUME Init
             PROVE  AccountInv
  OBVIOUS
<1>1. intents = <<>> /\ job = NoJob /\ runs = <<"running">> /\ Last = 1
  BY DEF Init, Last
<1>2. Open = {} /\ ~Unasked
  BY <1>1 DEF Open, Opens, Unasked
<1>3. InHand
  BY <1>1 DEF InHand, NoJob, None
<1> QED
  BY <1>2, <1>3 DEF AccountInv, StoppedIsAccountedFor

LEMMA NextKeepsAccount == Inv /\ AccountInv /\ [Next]_vars => AccountInv'
<1> SUFFICES ASSUME Inv, AccountInv, [Next]_vars
             PROVE  AccountInv'
  OBVIOUS
<1>1. CASE UserOps
  BY <1>1, RestartBotKeepsAccount, StopOrStartKeepsAccount, BystandersKeepAccount DEF UserOps
<1>2. CASE JobStep
  BY <1>2, BeginStopKeepsAccount, KillKeepsAccount, CommitStoppedKeepsAccount, RelabelKeepsAccount,
     InsertRunKeepsAccount, LaunchKeepsAccount, RecordRunningKeepsAccount, SettleRestartKeepsAccount
     DEF JobStep
<1>3. CASE AgentEnds \/ PaneExited \/ Reconcile \/ SweepQueue \/ FlushQueue \/ Reconnect \/ Crash
  BY <1>3, PaneExitedKeepsAccount, ReconcileKeepsAccount, BystandersKeepAccount
<1>4. ASSUME NEW w \in Workers, Recovery(w)
      PROVE  AccountInv'
  BY <1>4, RecoveryKeepsAccount, ResumeKeepsAccount, SettleAttemptKeepsAccount DEF Recovery
<1>5. CASE UNCHANGED vars
  BY <1>5, UnchangedFades, UntouchedKeepsAccount DEF vars
<1> QED
  BY <1>1, <1>2, <1>3, <1>4, <1>5 DEF Next

(* A bot that a restart left stopped is not forgotten, wherever a crash, a *)
(* failed write or a deadline cuts the restart or its recovery short: its  *)
(* intent is open, or somebody was told (left_down_by_restart).            *)
THEOREM StoppedIsAccountedForHolds == Spec => []StoppedIsAccountedFor
<1>1. AccountInv => StoppedIsAccountedFor
  BY DEF AccountInv
<1> QED
  BY <1>1, InitInv, NextKeepsInv, InitAccount, NextKeepsAccount, PTL DEF Spec

-----------------------------------------------------------------------------
(* The holds of the recovery.                                              *)

(* The intents that stay open stay as they are.                            *)
OpenStay ==
    \A i \in Open' : /\ i \in Open /\ intents'[i].born = intents[i].born
                     /\ intents'[i].status = intents[i].status /\ intents'[i].owner = intents[i].owner

(* No worker moves, no hold is let go, and the lock stays or falls free.   *)
LEMMA HoldsStay ==
    ASSUME HoldsInv, OpenStay, boot' = boot, loose' = loose, holds' = holds, rec' = rec,
           \A w \in Workers : job'.who = w => job.who = w /\ job'.id = job.id
    PROVE  HoldsInv'
<1>1. (\A i \in Open : OwedTo(i) => i \in holds)'
  <2> SUFFICES ASSUME NEW i \in Open', OwedTo(i)'
               PROVE  i \in holds
    OBVIOUS
  <2>1. OwedTo(i) /\ i \in Open
    BY DEF OpenStay, OwedTo
  <2> QED
    BY <2>1 DEF HoldsInv
<1>2. (\A v, w \in Workers : AtWork(v) /\ AtWork(w) /\ rec[v].id = rec[w].id => v = w)'
  BY DEF HoldsInv, AtWork
<1>3. (\A w \in Workers : AtWork(w) /\ rec[w].id \in Open => LeftRunning(intents[rec[w].id]))'
  BY DEF HoldsInv, AtWork, OpenStay, LeftRunning
<1>4. (\A w \in Workers : job.who = w => rec[w].id = job.id)'
  BY DEF HoldsInv
<1> QED
  BY <1>1, <1>2, <1>3, <1>4 DEF HoldsInv

LEMMA UnchangedStay ==
    ASSUME intents' = intents
    PROVE  OpenStay
BY DEF OpenStay, Open

(* The holder of the lock.                                                 *)
LEMMA JobKeepsHolds ==
    ASSUME Inv, HoldsInv, JobStep
    PROVE  HoldsInv'
<1>1. IntentsInv /\ JobInv /\ UpsInv /\ job \in Job
  BY DEF Inv, JobInv
<1>2. boot' = boot /\ loose' = loose /\ holds' = holds /\ rec' = rec
  BY DEF JobStep, BeginStop, Kill, CommitStopped, RelabelThenStart, InsertRun, Launch, RecordRunning,
         GiveUp, SettleRestart, SameDaemon, past
<1>3. \A w \in Workers : job'.who = w => job.who = w /\ job'.id = job.id
  <2>1. job' = NoJob \/ \E s \in Steps : Step(s)
    BY DEF JobStep, BeginStop, Kill, CommitStopped, RelabelThenStart, InsertRun, Launch, RecordRunning,
           GiveUp, SettleRestart, Leave, AfterStop, Unconfirmed, StartFails, Failed, Step, Steps, Starting
  <2>2. \A w \in Workers : NoJob.who # w
    BY IntentsAssumption DEF NoJob
  <2>3. ASSUME NEW s \in Steps, Step(s)
        PROVE  job'.who = job.who /\ job'.id = job.id
    BY <1>1, <2>3 DEF Step, Job
  <2> QED
    BY <2>1, <2>2, <2>3
<1>4. OpenStay
  <2>1. CASE intents' = intents
    BY <2>1, UnchangedStay
  <2>2. CASE Launch /\ intents' # intents
    <3> DEFINE e == [intents[job.id] EXCEPT !.ups = @ + 1]
    <3>1. job.id \in DOMAIN intents /\ intents' = [intents EXCEPT ![job.id] = e]
      BY <1>1, <2>2 DEF Launch, UpsInv
    <3>2. intents[job.id] \in Intent
      BY <1>1, <3>1 DEF IntentsInv
    <3>3. /\ e.born = intents[job.id].born /\ e.status = intents[job.id].status
          /\ e.owner = intents[job.id].owner
      BY <3>2 DEF Intent
    <3> HIDE DEF e
    <3>4. /\ DOMAIN intents' = DOMAIN intents
          /\ \A j \in DOMAIN intents : intents'[j] = IF j = job.id THEN e ELSE intents[j]
      BY <3>1
    <3> QED
      BY <3>3, <3>4 DEF OpenStay, Open, Opens
  <2>3. CASE SettleRestart /\ intents' # intents
    <3>1. intents' = Ended(job.id, job.step, job.step # "done") /\ job.step \in {"done", "abandoned", "failed"}
      BY <2>3 DEF SettleRestart
    <3>2. PICK i \in {job.id}, status \in {"done", "abandoned", "failed"}, told \in BOOLEAN :
             intents' = Ended(i, status, told)
      BY <3>1
    <3>3. Fades /\ i \notin Open' /\ \A j \in DOMAIN intents : j # i => intents'[j] = intents[j]
      BY <1>1, <3>2, EndedFades
    <3> QED
      BY <3>3 DEF Fades, OpenStay, Open, Opens
  <2> QED
    BY <2>1, <2>2, <2>3 DEF JobStep, BeginStop, Kill, CommitStopped, RelabelThenStart, InsertRun,
       RecordRunning, GiveUp, SameDaemon
<1> QED
  BY <1>2, <1>3, <1>4, HoldsStay

(* What a user asks for: a new intent is this daemon's own.                *)
LEMMA UserKeepsHolds ==
    ASSUME Inv, AccountInv, HoldsInv, UserOps
    PROVE  HoldsInv'
<1>1. boot' = boot /\ loose' = loose /\ holds' = holds /\ rec' = rec /\ boot \in Nat
  <2>1. boot \in Nat
    BY IntentsAssumption DEF Inv, RestInv
  <2> QED
    BY <2>1 DEF UserOps, RestartBot, StopBot, StartBot, QueuePrompt, past
<1>2. \A w \in Workers : job'.who = w => job.who = w /\ job'.id = job.id
  <2>1. job' = job \/ job'.who = User
    <3>1. CASE QueuePrompt
      BY <3>1 DEF QueuePrompt
    <3>2. CASE RestartBot
      BY <3>2 DEF RestartBot
    <3>3. CASE StopBot \/ StartBot
      BY <3>3 DEF StopBot, StartBot, NoJob
    <3> QED
      BY <3>1, <3>2, <3>3 DEF UserOps
  <2> QED
    BY <2>1, IntentsAssumption
<1>3. CASE intents' = intents
  BY <1>1, <1>2, <1>3, UnchangedStay, HoldsStay
<1>4. CASE RestartBot
  <2>1. /\ Newest' # 0 /\ Open' = {Newest'}
        /\ \/ /\ Newest' \in Open
              /\ intents'[Newest'].born = intents[Newest'].born
              /\ intents'[Newest'].status = intents[Newest'].status
              /\ intents'[Newest'].owner = intents[Newest'].owner
           \/ Newest' \notin DOMAIN intents /\ intents'[Newest'].born = boot
    BY <1>4, PreparedNewest DEF RestartBot
  <2>2. CASE Newest' \in Open /\ Newest' \in DOMAIN intents
    <3>1. OpenStay
      BY <2>1, <2>2 DEF OpenStay
    <3> QED
      BY <1>1, <1>2, <3>1, HoldsStay
  <2>3. CASE Newest' \notin DOMAIN intents /\ intents'[Newest'].born = boot
    <3>1. \A i \in Open' : ~OwedTo(i)'
      BY <1>1, <2>1, <2>3 DEF OwedTo
    <3>2. \A w \in Workers : AtWork(w) => rec[w].id \notin Open'
      BY <2>1, <2>3 DEF Inv, RecInv, AtWork
    <3> QED
      BY <1>1, <1>2, <3>1, <3>2 DEF HoldsInv, AtWork
  <2>4. Open \subseteq DOMAIN intents
    BY DEF Open, Opens
  <2> QED
    BY <2>1, <2>2, <2>3, <2>4
<1> QED
  BY <1>3, <1>4 DEF UserOps, StopBot, StartBot, QueuePrompt

LEMMA BystandersKeepHolds ==
    ASSUME HoldsInv, AgentEnds \/ PaneExited \/ Reconcile \/ SweepQueue \/ FlushQueue \/ Reconnect
                     \/ UNCHANGED vars
    PROVE  HoldsInv'
<1>1. boot' = boot /\ loose' = loose /\ holds' = holds /\ rec' = rec /\ job' = job /\ intents' = intents
  BY DEF AgentEnds, PaneExited, Reconcile, SweepQueue, FlushQueue, Reconnect, vars, past
<1> QED
  BY <1>1, UnchangedStay, HoldsStay

(* The boot takes a hold for every open intent, or for none, and then none *)
(* is promised one; nobody is at work yet.                                 *)
LEMMA CrashKeepsHolds ==
    ASSUME HoldsInv, Crash
    PROVE  HoldsInv'
<1>1. \A w \in Workers : rec'[w] = NoRec /\ job'.who # w
  BY IntentsAssumption DEF Crash, NoJob
<1>2. \A w \in Workers : ~AtWork(w)'
  BY <1>1 DEF AtWork, NoRec
<1>3. \A i \in Open' : i \in holds' \/ i \in loose'
  BY DEF Crash, Open
<1>4. \A i \in Open' : OwedTo(i)' => i \in holds'
  BY <1>3 DEF OwedTo
<1> QED
  BY <1>1, <1>2, <1>4 DEF HoldsInv

(* One worker moves on, with the intent it has in its hands or is the only *)
(* one to reach for.                                                       *)
LEMMA HoldsMove ==
    ASSUME Inv, HoldsInv, NEW w \in Workers,
           Idle(w) \/ \E s \in {"claimed", "working", "retry", "failing"} : At(w, s),
           boot' = boot, loose \subseteq loose',
           \A i \in Open' : i \in Open /\ intents'[i].born = intents[i].born,
           \A i \in Open' \ {rec[w].id} : /\ intents'[i].status = intents[i].status
                                          /\ intents'[i].owner = intents[i].owner,
           \A i \in Open' : OwedTo(i)' /\ i \in holds => i \in holds',
           intents' = intents \/ AtWork(w) \/ rec[w].id \notin Driving,
           AtWork(w)' => /\ AtWork(w) \/ rec[w].id \notin Driving
                         /\ rec[w].id \in Open' => LeftRunning(intents[rec[w].id])',
           \A v \in Workers : job'.who = v => \/ v # w /\ job.who = v /\ job'.id = job.id
                                              \/ v = w /\ job'.id = rec[w].id /\ At(w, "working")
    PROVE  HoldsInv'
<1>1. rec \in [Workers -> WorkerState]
  BY DEF Inv, RecInv, WorkerState
<1>2. /\ \A v \in Workers : v # w => rec'[v] = rec[v]
      /\ rec'[w] = NoRec \/ rec'[w].id = rec[w].id
  BY <1>1 DEF Idle, At, WorkerState
<1>3. AtWork(w)' => rec'[w].id = rec[w].id
  BY <1>2 DEF AtWork, NoRec
<1>4. \A v \in Workers : AtWork(v) => rec[v].id \in Driving
  BY DEF AtWork, Driving
<1>5. \A v \in Workers : v # w => (AtWork(v)' <=> AtWork(v))
  BY <1>2 DEF AtWork
<1>6. \A v \in Workers : v # w /\ AtWork(v) /\ (AtWork(w) \/ rec[w].id \notin Driving) => rec[v].id # rec[w].id
  BY <1>4 DEF HoldsInv
<1>7. (\A i \in Open : OwedTo(i) => i \in holds)'
  <2> SUFFICES ASSUME NEW i \in Open', OwedTo(i)'
               PROVE  i \in holds'
    OBVIOUS
  <2>1. OwedTo(i) /\ i \in Open
    BY DEF OwedTo
  <2> QED
    BY <2>1 DEF HoldsInv
<1>8. (\A v, u \in Workers : AtWork(v) /\ AtWork(u) /\ rec[v].id = rec[u].id => v = u)'
  <2> SUFFICES ASSUME NEW v \in Workers, NEW u \in Workers, AtWork(v)', AtWork(u)',
                      rec'[v].id = rec'[u].id, v # u
               PROVE  FALSE
    OBVIOUS
  <2>1. CASE v # w /\ u # w
    BY <1>2, <1>5, <2>1 DEF HoldsInv
  <2>2. CASE v = w \/ u = w
    BY <1>2, <1>3, <1>5, <1>6, <2>2
  <2> QED
    BY <2>1, <2>2
<1>9. (\A v \in Workers : AtWork(v) /\ rec[v].id \in Open => LeftRunning(intents[rec[v].id]))'
  <2> SUFFICES ASSUME NEW v \in Workers, AtWork(v)', rec'[v].id \in Open'
               PROVE  LeftRunning(intents[rec[v].id])'
    OBVIOUS
  <2>1. CASE v = w
    <3>1. rec'[w].id = rec[w].id /\ LeftRunning(intents[rec[w].id])'
      BY <1>3, <2>1
    <3> QED
      BY <2>1, <3>1
  <2>2. CASE v # w
    <3>1. /\ rec'[v] = rec[v] /\ AtWork(v) /\ rec[v].id \in Open'
          /\ rec[v].id \in Open /\ LeftRunning(intents[rec[v].id])
      BY <1>2, <1>5, <2>2 DEF HoldsInv
    <3>2. intents' = intents \/ rec[v].id # rec[w].id
      BY <1>6, <2>2, <3>1
    <3> QED
      BY <3>1, <3>2 DEF LeftRunning
  <2> QED
    BY <2>1, <2>2
<1>10. (\A v \in Workers : job.who = v => rec[v].id = job.id)'
  <2> SUFFICES ASSUME NEW v \in Workers, job'.who = v
               PROVE  rec'[v].id = job'.id
    OBVIOUS
  <2>1. CASE v # w
    BY <1>2, <2>1 DEF HoldsInv
  <2>2. CASE v = w
    <3>1. rec'[w].id = rec[w].id /\ job'.id = rec[w].id
      BY <1>1, <2>2 DEF At, WorkerState
    <3> QED
      BY <2>2, <3>1
  <2> QED
    BY <2>1, <2>2
<1> QED
  BY <1>7, <1>8, <1>9, <1>10 DEF HoldsInv

LEMMA RecoverHostKeepsHolds ==
    ASSUME Inv, HoldsInv, NEW w \in Workers, RecoverHost(w)
    PROVE  HoldsInv'
<1>1. IntentsInv /\ RecInv
  BY DEF Inv
<1>2. PICK overdue \in {{}, Open} : intents' = Overdue(overdue)
  BY DEF RecoverHost, Overdue
<1>3. OpenStay
  <2>1. Fades /\ \A i \in DOMAIN intents : i \in Open' => intents'[i] = intents[i]
    BY <1>1, <1>2, OverdueFades
  <2> QED
    BY <2>1 DEF Fades, OpenStay, Open, Opens
<1>4. boot' = boot /\ loose' = loose /\ job' = job /\ holds' = holds \cap Open'
  BY DEF RecoverHost, past, Open
<1>5. rec \in [Workers -> WorkerState] /\ rec[w].at = "idle" /\ ~AtWork(w)
  BY <1>1 DEF RecInv, WorkerState, RecoverHost, AtWork
<1>6. \A v \in Workers : v # w => rec'[v] = rec[v]
  BY <1>5 DEF RecoverHost
<1>7. ~AtWork(w)'
  <2>1. rec'[w].at \in {"idle", "due"}
    BY <1>5 DEF RecoverHost
  <2> QED
    BY <2>1 DEF AtWork
<1>8. (\A i \in Open : OwedTo(i) => i \in holds)'
  <2> SUFFICES ASSUME NEW i \in Open', OwedTo(i)'
               PROVE  i \in holds'
    OBVIOUS
  <2>1. OwedTo(i) /\ i \in Open
    BY <1>3, <1>4 DEF OwedTo, OpenStay
  <2> QED
    BY <1>4, <2>1 DEF HoldsInv
<1>9. (\A v, u \in Workers : AtWork(v) /\ AtWork(u) /\ rec[v].id = rec[u].id => v = u)'
  <2> SUFFICES ASSUME NEW v \in Workers, NEW u \in Workers, AtWork(v)', AtWork(u)',
                      rec'[v].id = rec'[u].id
               PROVE  v = u
    OBVIOUS
  <2>1. v # w /\ u # w
    BY <1>7
  <2> QED
    BY <1>6, <2>1 DEF HoldsInv, AtWork
<1>10. (\A v \in Workers : AtWork(v) /\ rec[v].id \in Open => LeftRunning(intents[rec[v].id]))'
  <2> SUFFICES ASSUME NEW v \in Workers, AtWork(v)', rec'[v].id \in Open'
               PROVE  LeftRunning(intents[rec[v].id])'
    OBVIOUS
  <2>1. rec'[v] = rec[v] /\ AtWork(v) /\ rec[v].id \in Open'
    BY <1>6, <1>7 DEF AtWork
  <2> QED
    BY <1>3, <1>4, <2>1 DEF HoldsInv, OpenStay, LeftRunning
<1>11. (\A v \in Workers : job.who = v => rec[v].id = job.id)'
  <2>1. \A v \in Workers : job.who = v => v # w
    BY <1>1, <1>5 DEF RecInv
  <2> QED
    BY <1>4, <1>6, <2>1 DEF HoldsInv
<1> QED
  BY <1>8, <1>9, <1>10, <1>11 DEF HoldsInv

LEMMA DriveOnceKeepsHolds ==
    ASSUME Inv, HoldsInv, NEW w \in Workers, DriveOnce(w)
    PROVE  HoldsInv'
<1> DEFINE id == rec[w].id
<1>1. /\ IntentsInv /\ RecInv /\ boot \in 1 .. MaxFaults + 1
      /\ boot' = boot /\ loose' = loose /\ job' = job
  <2>1. boot \in 1 .. MaxFaults + 1
    BY IntentsAssumption DEF Inv, RestInv
  <2> QED
    BY <2>1 DEF Inv, DriveOnce, past
<1>2. rec[w].at \in {"due", "retry"} /\ id \in DOMAIN intents /\ ~AtWork(w)
  BY <1>1 DEF DriveOnce, RecInv, AtWork
<1>3. \A v \in Workers : job'.who = v => v # w /\ job.who = v /\ job'.id = job.id
  BY <1>1, <1>2 DEF RecInv
<1>4. rec \in [Workers -> WorkerState]
  BY <1>1 DEF RecInv, WorkerState
<1>5. CASE id \notin Driving /\ Claimable(intents[id]) /\ intents' = Claimed(id) /\ At(w, "claimed")
           /\ holds' = holds
  <2>1. /\ Fades /\ intents'[id].status = "running" /\ intents'[id].owner = boot
        /\ \A j \in DOMAIN intents : j # id => intents'[j] = intents[j]
    BY <1>1, <1>2, <1>5, ClaimFades
  <2>2. \A i \in Open' : /\ i \in Open /\ intents'[i].born = intents[i].born
                         /\ i # id => intents'[i] = intents[i]
    BY <2>1 DEF Fades, Open, Opens
  <2>3. LeftRunning(intents[id])'
    BY <1>1, <1>4, <1>5, <2>1 DEF LeftRunning, At, WorkerState
  <2> QED
    BY <1>1, <1>3, <1>4, <1>5, <2>2, <2>3, HoldsMove
<1>6. CASE id \notin Driving /\ LeftRunning(intents[id]) /\ intents' = intents /\ At(w, "claimed")
           /\ holds' = holds
  <2>1. Open' = Open /\ rec'[w].id = id
    BY <1>4, <1>6, UnchangedFades DEF At, WorkerState
  <2>2. LeftRunning(intents[rec[w].id])'
    BY <1>1, <1>6, <2>1 DEF LeftRunning
  <2> QED
    BY <1>1, <1>3, <1>6, <2>1, <2>2, HoldsMove
<1>7. CASE intents' = intents /\ (At(w, "retry") \/ Idle(w))
           /\ (holds' = holds \/ (id \notin Open /\ holds' = holds \ {id}))
  <2>1. Open' = Open
    BY <1>7, UnchangedFades
  <2>2. ~AtWork(w)'
    BY <1>4, <1>7 DEF AtWork, At, Idle, NoRec, WorkerState
  <2>3. \A i \in Open' : i \in holds => i \in holds'
    BY <1>7, <2>1
  <2> QED
    BY <1>1, <1>3, <1>7, <2>1, <2>2, <2>3, HoldsMove
<1> QED
  BY <1>5, <1>6, <1>7 DEF DriveOnce, Finished, Claimed

LEMMA StopWaitingKeepsHolds ==
    ASSUME Inv, HoldsInv, NEW w \in Workers, StopWaiting(w)
    PROVE  HoldsInv'
<1>1. /\ RecInv /\ boot' = boot /\ job' = job /\ intents' = intents /\ Open' = Open
      /\ loose' = loose \cup {rec[w].id} /\ holds' = holds \ {rec[w].id} /\ Idle(w)
  BY UnchangedFades DEF Inv, StopWaiting, Finished
<1>2. \A v \in Workers : job'.who = v => v # w /\ job.who = v /\ job'.id = job.id
  BY <1>1 DEF RecInv, StopWaiting
<1>3. ~AtWork(w)'
  BY <1>1 DEF AtWork, Idle, NoRec, RecInv
<1>4. \A i \in Open' : OwedTo(i)' /\ i \in holds => i \in holds'
  BY <1>1 DEF OwedTo
<1> QED
  BY <1>1, <1>2, <1>3, <1>4, HoldsMove

(* An intent that is no longer in this worker's hands is settled.          *)
LEMMA ResumeKeepsHolds ==
    ASSUME Inv, HoldsInv, NEW w \in Workers, Resume(w)
    PROVE  HoldsInv'
<1>1. /\ RecInv /\ boot' = boot /\ intents' = intents /\ Open' = Open /\ loose' = loose
      /\ AtWork(w) /\ rec[w].at = "claimed" /\ job = NoJob
  BY UnchangedFades DEF Inv, JobInv, Resume, past, AtWork
<1>2. rec[w].id \in Open => LeftRunning(intents[rec[w].id])
  BY <1>1 DEF HoldsInv
<1>3. \A v \in Workers : NoJob.who # v
  BY IntentsAssumption DEF NoJob
<1>4. CASE LeftRunning(intents[rec[w].id]) /\ At(w, "working") /\ holds' = holds
           /\ job'.who = w /\ job'.id = rec[w].id
  <2>1. rec'[w].id = rec[w].id
    BY <1>1, <1>4 DEF At, RecInv
  <2>2. LeftRunning(intents[rec[w].id])'
    BY <1>1, <1>4, <2>1 DEF LeftRunning
  <2>3. \A v \in Workers : job'.who = v => v = w
    BY <1>4
  <2> QED
    BY <1>1, <1>4, <2>2, <2>3, HoldsMove
<1>5. CASE ~LeftRunning(intents[rec[w].id]) /\ Finished(w) /\ job' = job
  <2>1. Idle(w) /\ \A i \in Open' : i \in holds => i \in holds'
    BY <1>1, <1>2, <1>5 DEF Finished
  <2>2. ~AtWork(w)'
    BY <1>1, <2>1 DEF AtWork, Idle, NoRec, RecInv
  <2> QED
    BY <1>1, <1>3, <1>5, <2>1, <2>2, HoldsMove
<1> QED
  BY <1>4, <1>5 DEF Resume

LEMMA SettleAttemptKeepsHolds ==
    ASSUME Inv, HoldsInv, NEW w \in Workers, SettleAttempt(w)
    PROVE  HoldsInv'
<1>1. /\ IntentsInv /\ RecInv /\ boot' = boot /\ loose' = loose
      /\ job.who = w /\ rec[w].at = "working" /\ AtWork(w) /\ rec[w].id = job.id /\ job' = NoJob
  BY DEF Inv, RecInv, HoldsInv, SettleAttempt, past, AtWork, Leave
<1>2. \A v \in Workers : job'.who # v
  BY <1>1, IntentsAssumption DEF NoJob
<1>3. CASE job.step # "failed" /\ intents' = Ended(job.id, job.step, FALSE) /\ Finished(w)
  <2>1. job.step \in {"done", "abandoned", "failed"}
    BY DEF SettleAttempt
  <2>2. /\ Fades /\ job.id \notin Open'
        /\ \A j \in DOMAIN intents : j # job.id => intents'[j] = intents[j]
    BY <1>1, <1>3, <2>1, EndedFades
  <2>3. \A i \in Open' : /\ i \in Open /\ intents'[i].born = intents[i].born
                         /\ i # rec[w].id /\ intents'[i] = intents[i]
    BY <1>1, <2>2 DEF Fades, Open, Opens
  <2>4. Idle(w) /\ \A i \in Open' : i \in holds => i \in holds'
    BY <1>3, <2>3 DEF Finished
  <2>5. ~AtWork(w)'
    BY <1>1, <2>4 DEF AtWork, Idle, NoRec, RecInv
  <2> QED
    BY <1>1, <1>2, <2>3, <2>4, <2>5, HoldsMove
<1>4. CASE intents' = intents /\ At(w, "failing") /\ holds' = holds
  <2>1. Open' = Open /\ rec'[w].id = rec[w].id
    BY <1>1, <1>4, UnchangedFades DEF At, RecInv
  <2>2. rec[w].id \in Open => LeftRunning(intents[rec[w].id])'
    <3>1. rec[w].id \in Open => LeftRunning(intents[rec[w].id])
      BY <1>1 DEF HoldsInv
    <3> QED
      BY <1>1, <1>4, <2>1, <3>1 DEF LeftRunning
  <2> QED
    BY <1>1, <1>2, <1>4, <2>1, <2>2, HoldsMove
<1> QED
  BY <1>3, <1>4 DEF SettleAttempt

LEMMA FailAttemptKeepsHolds ==
    ASSUME Inv, HoldsInv, NEW w \in Workers, FailAttempt(w)
    PROVE  HoldsInv'
<1>1. /\ IntentsInv /\ RecInv /\ boot' = boot /\ loose' = loose /\ job' = job
      /\ rec[w].at = "failing" /\ AtWork(w) /\ rec[w].id \in DOMAIN intents
  BY DEF Inv, RecInv, FailAttempt, past, AtWork
<1>2. \A v \in Workers : job'.who = v => v # w /\ job.who = v /\ job'.id = job.id
  BY <1>1 DEF RecInv
<1>3. Idle(w) \/ At(w, "retry")
  BY DEF FailAttempt, Finished
<1>4. ~AtWork(w)'
  BY <1>1, <1>3 DEF AtWork, Idle, At, NoRec, RecInv
<1>5. /\ \A i \in Open' : /\ i \in Open /\ intents'[i].born = intents[i].born
                          /\ i # rec[w].id => intents'[i] = intents[i]
      /\ \A i \in Open' : i \in holds => i \in holds'
  <2>1. CASE intents' = Ended(rec[w].id, "failed", TRUE) /\ Finished(w)
    <3>1. PICK i \in {rec[w].id} : intents' = Ended(i, "failed", TRUE)
      BY <2>1
    <3>2. Fades /\ i \notin Open' /\ \A j \in DOMAIN intents : j # i => intents'[j] = intents[j]
      BY <1>1, <3>1, EndedFades
    <3> QED
      BY <2>1, <3>2 DEF Fades, Open, Opens, Finished
  <2>2. CASE intents' \in {intents, Returned(rec[w].id)} /\ holds' = holds
    <3>1. /\ Fades
          /\ \A j \in DOMAIN intents : j # rec[w].id => intents'[j] = intents[j]
      BY <1>1, <2>2, ReturnedFades, UnchangedFades
    <3> QED
      BY <2>2, <3>1 DEF Fades, Open, Opens
  <2> QED
    BY <2>1, <2>2 DEF FailAttempt
<1> QED
  BY <1>1, <1>2, <1>3, <1>4, <1>5, HoldsMove

-----------------------------------------------------------------------------
(* The holds are kept, and with them the queue.                            *)
LEMMA InitHolds == Init => HoldsInv
<1> SUFFICES ASSUME Init
             PROVE  HoldsInv
  OBVIOUS
<1>1. intents = <<>> /\ job = NoJob /\ \A w \in Workers : rec[w] = NoRec
  BY DEF Init
<1>2. Open = {}
  BY <1>1 DEF Open, Opens
<1>3. \A w \in Workers : ~AtWork(w) /\ job.who # w
  BY <1>1, IntentsAssumption DEF AtWork, NoRec, NoJob
<1> QED
  BY <1>2, <1>3 DEF HoldsInv

LEMMA NextKeepsHolds == Inv /\ AccountInv /\ HoldsInv /\ [Next]_vars => HoldsInv'
<1> SUFFICES ASSUME Inv, AccountInv, HoldsInv, [Next]_vars
             PROVE  HoldsInv'
  OBVIOUS
<1>1. ASSUME NEW w \in Workers, Recovery(w)
      PROVE  HoldsInv'
  BY <1>1, RecoverHostKeepsHolds, DriveOnceKeepsHolds, StopWaitingKeepsHolds, ResumeKeepsHolds,
     SettleAttemptKeepsHolds, FailAttemptKeepsHolds DEF Recovery
<1> QED
  BY <1>1, UserKeepsHolds, JobKeepsHolds, BystandersKeepHolds, CrashKeepsHolds DEF Next

(* A prompt is only taken for an orphan when no hold is left.              *)
LEMMA RevokedUnheld ==
    ASSUME [Next]_vars, prompt' = "revoked", prompt # "revoked"
    PROVE  holds = {}
<1>1. \A rs, j : Revoked(rs, j, holds) = "revoked" => holds = {}
  BY DEF Revoked, InProgress
<1>2. prompt' = prompt \/ (\E rs, j : prompt' = Revoked(rs, j, holds)) \/ prompt' \in {"queued", "sent"}
  <2>1. CASE UserOps
    BY <2>1 DEF UserOps, RestartBot, StopBot, StartBot, QueuePrompt
  <2>2. CASE JobStep
    <3>1. CASE CommitStopped \/ GiveUp
      BY <3>1 DEF CommitStopped, GiveUp
    <3>2. CASE ~(CommitStopped \/ GiveUp)
      BY <2>2, <3>2 DEF JobStep, BeginStop, Kill, RelabelThenStart, InsertRun, Launch, RecordRunning,
         SettleRestart
    <3> QED
      BY <3>1, <3>2
  <2>3. CASE AgentEnds \/ PaneExited \/ Reconcile \/ SweepQueue \/ FlushQueue \/ Reconnect \/ Crash
    BY <2>3 DEF AgentEnds, PaneExited, Reconcile, SweepQueue, FlushQueue, Reconnect, Crash
  <2>4. CASE \E w \in Workers : Recovery(w)
    BY <2>4 DEF Recovery, RecoverHost, DriveOnce, StopWaiting, Resume, SettleAttempt, FailAttempt
  <2>5. CASE UNCHANGED vars
    BY <2>5 DEF vars
  <2> QED
    BY <2>1, <2>2, <2>3, <2>4, <2>5 DEF Next
<1> QED
  BY <1>1, <1>2

(* A prompt queued for a bot whose restart the recovery owes is not        *)
(* revoked by anybody, whichever run ends meanwhile and whoever looks      *)
(* (restart_hold, revoke_orphaned_queued_turns).                           *)
THEOREM PromptIsKeptHolds == Spec => PromptIsKept
<1>1. HoldsInv /\ [Next]_vars =>
         [prompt' = "revoked" /\ prompt # "revoked" => ~\E i \in Open : OwedTo(i)]_vars
  BY RevokedUnheld DEF HoldsInv
<1> QED
  BY <1>1, InitInv, NextKeepsInv, InitAccount, NextKeepsAccount, InitHolds, NextKeepsHolds, PTL
     DEF Spec, PromptIsKept

=============================================================================
