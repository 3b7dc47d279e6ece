------------------------- MODULE RestartIntents_proofs -------------------------
(***************************************************************************)
(* What holds of the restart intents (RestartIntents) for any number of    *)
(* workers, attempts, operations, crashes and faults.                      *)
(***************************************************************************)
EXTENDS RestartIntents, SequenceTheorems, FiniteSetTheorems, TLAPS

(* At most one intent is open.                                             *)
IntentsInv == intents \in Seq(Intent) /\ \A i, j \in Open : i = j

(* The agents are the active run's.                                        *)
TableInv ==
    /\ runs \in Seq(States)
    /\ alive \subseteq DOMAIN runs /\ AgentsAreOwned
    /\ came \subseteq DOMAIN runs /\ asked \subseteq DOMAIN runs

(* What the lock's holder knows, by the step it has reached.               *)
JobInv ==
    /\ job \in Job /\ (Free => job = NoJob)
    /\ job.step \in {"label", "start"} => Active = 0
    /\ job.step = "launch" => runs # <<>> /\ runs[Last] = "starting"
    /\ job.step \in {"kill", "commit", "record"} => runs # <<>>
    /\ job.step \in {"kill", "commit"} => runs[Last] \in {"stopping", "exited"}
    /\ job.step \in {"launch", "commit"} => Last \notin alive

(* An intent that brought the bot back left a run behind.                  *)
ToLaunch == {"stop", "kill", "commit", "label", "start", "launch"}
UpsInv ==
    /\ \A i \in DOMAIN intents :
          /\ intents[i].from <= Last
          /\ intents[i].from # 0 /\ intents[i].ups # 0 => intents[i].ups = 1 /\ intents[i].from < Last
    /\ IF job.kind = "restart" THEN job.id \in DOMAIN intents ELSE job.id = 0
    /\ job.kind = "restart" /\ job.step \in ToLaunch /\ intents[job.id].from # 0 =>
          /\ intents[job.id].ups = 0
          /\ job.step = "launch" => intents[job.id].from < Last

(* A worker has an intent, and the one that has the lock is at work.       *)
RecInv ==
    /\ rec \in [Workers -> [at : {"idle", "due", "retry", "claimed", "working", "failing"}, id : Nat]]
    /\ \A w \in Workers : rec[w].at # "idle" => rec[w].id \in DOMAIN intents
    /\ \A w \in Workers : job.who = w => rec[w].at = "working"
    /\ holds \subseteq DOMAIN intents /\ loose \subseteq DOMAIN intents

RestInv ==
    /\ ops \in 0 .. MaxOps /\ faults \in 0 .. MaxFaults /\ boot \in 1 .. faults + 1
    /\ serving \in BOOLEAN /\ due \in BOOLEAN
    /\ prompt \in {None, "queued", "sent", "revoked"}

Inv == IntentsInv /\ TableInv /\ JobInv /\ UpsInv /\ RecInv /\ RestInv

-----------------------------------------------------------------------------
(* The invariant says what it is for.                                      *)
LEMMA InvImplies == Inv => TypeOK /\ AgentsAreOwned /\ BroughtBackOnce
<1> SUFFICES ASSUME Inv
             PROVE  TypeOK /\ AgentsAreOwned /\ BroughtBackOnce
  OBVIOUS
<1>1. Cardinality(Open) <= 1
  <2>1. CASE Open = {}
    <3>1. Cardinality(Open) = 0
      BY <2>1, FS_EmptySet
    <3> QED
      BY <3>1
  <2>2. CASE Open # {}
    <3>1. PICK i \in Open : TRUE
      BY <2>2
    <3>2. Open = {i}
      BY <3>1 DEF Inv, IntentsInv
    <3>3. Cardinality(Open) = 1
      BY <3>2, FS_Singleton
    <3> QED
      BY <3>3
  <2> QED
    BY <2>1, <2>2
<1>2. TypeOK
  BY <1>1, IntentsAssumption DEF Inv, IntentsInv, TableInv, JobInv, RecInv, RestInv, TypeOK
<1>3. AgentsAreOwned
  BY DEF Inv, TableInv
<1>4. BroughtBackOnce
  <2>1. ASSUME NEW i \in DOMAIN intents, intents[i].from # 0
        PROVE  intents[i].ups <= 1
    <3>1. intents[i] \in Intent
      BY DEF Inv, IntentsInv
    <3>2. intents[i].ups \in Nat
      BY <3>1 DEF Intent
    <3> QED
      BY <2>1, <3>2 DEF Inv, UpsInv
  <2> QED
    BY <2>1 DEF BroughtBackOnce
<1> QED
  BY <1>2, <1>3, <1>4

(* Replacing an element of a sequence, whether it is there or not.         *)
LEMMA Replace ==
    ASSUME NEW S, NEW s \in Seq(S), NEW i, NEW e, i \in DOMAIN s => e \in S
    PROVE  /\ [s EXCEPT ![i] = e] \in Seq(S)
           /\ Len([s EXCEPT ![i] = e]) = Len(s)
           /\ DOMAIN [s EXCEPT ![i] = e] = DOMAIN s
           /\ \A j \in DOMAIN s : [s EXCEPT ![i] = e][j] = IF j = i THEN e ELSE s[j]
<1>1. DOMAIN s = 1 .. Len(s)
  OBVIOUS
<1>2. CASE i \in DOMAIN s
  BY <1>1, <1>2, ExceptSeq
<1>3. CASE i \notin DOMAIN s
  <2>1. [s EXCEPT ![i] = e] = s
    BY <1>3
  <2> QED
    BY <1>3, <2>1
<1> QED
  BY <1>2, <1>3

(* A function on the domain of a sequence is a sequence.                   *)
LEMMA Mapped ==
    ASSUME NEW S, NEW T, NEW s \in Seq(S), NEW f \in [DOMAIN s -> T]
    PROVE  f \in Seq(T) /\ Len(f) = Len(s) /\ DOMAIN f = DOMAIN s
<1>1. DOMAIN s = 1 .. Len(s) /\ Len(s) \in Nat
  OBVIOUS
<1> QED
  BY <1>1

(* What an action may do to the intents short of starting an agent for one *)
(* or asking for another.                                                  *)
Kept ==
    /\ intents' \in Seq(Intent) /\ DOMAIN intents' = DOMAIN intents
    /\ \A i \in DOMAIN intents :
          /\ intents'[i].from = intents[i].from /\ intents'[i].ups = intents[i].ups
          /\ intents'[i].status \in OpenStatus => intents[i].status \in OpenStatus

LEMMA KeptIsGood ==
    ASSUME IntentsInv, Kept
    PROVE  IntentsInv'
BY DEF IntentsInv, Kept, Open, Opens

LEMMA UnchangedIsKept ==
    ASSUME IntentsInv, intents' = intents
    PROVE  Kept
BY DEF IntentsInv, Kept

LEMMA ReplacedIsKept ==
    ASSUME IntentsInv, NEW i, NEW e, intents' = [intents EXCEPT ![i] = e],
           i \in DOMAIN intents =>
               /\ e \in Intent /\ e.from = intents[i].from /\ e.ups = intents[i].ups
               /\ e.status \in OpenStatus => intents[i].status \in OpenStatus
    PROVE  Kept
<1>1. /\ intents' \in Seq(Intent) /\ DOMAIN intents' = DOMAIN intents
      /\ \A j \in DOMAIN intents : intents'[j] = IF j = i THEN e ELSE intents[j]
  BY Replace DEF IntentsInv
<1> QED
  BY <1>1 DEF Kept

LEMMA EndedIsKept ==
    ASSUME IntentsInv, NEW i, NEW status \in {"done", "abandoned", "failed"}, NEW told \in BOOLEAN,
           intents' = Ended(i, status, told)
    PROVE  Kept
<1>1. CASE i \notin Open
  BY <1>1, UnchangedIsKept DEF Ended
<1>2. CASE i \in Open
  <2> DEFINE e == [intents[i] EXCEPT !.status = status, !.told = told]
  <2>1. intents' = [intents EXCEPT ![i] = e]
    <3>1. intents' = [intents EXCEPT ![i].status = status, ![i].told = told]
      BY <1>2 DEF Ended
    <3> QED
      BY <3>1
  <2>2. i \in DOMAIN intents /\ intents[i] \in Intent
    BY <1>2 DEF Open, Opens, IntentsInv
  <2>3. e \in Intent /\ e.from = intents[i].from /\ e.ups = intents[i].ups /\ e.status = status
    BY <2>2 DEF Intent
  <2>4. status \notin OpenStatus
    BY DEF OpenStatus
  <2> HIDE DEF e
  <2> QED
    BY <2>1, <2>3, <2>4, ReplacedIsKept
<1> QED
  BY <1>1, <1>2

LEMMA ReturnedIsKept ==
    ASSUME IntentsInv, NEW i \in DOMAIN intents, intents' = Returned(i)
    PROVE  Kept
<1>1. CASE intents[i].status # "running"
  BY <1>1, UnchangedIsKept DEF Returned
<1>2. CASE intents[i].status = "running"
  <2> DEFINE e == [intents[i] EXCEPT !.status = "pending"]
  <2>1. intents' = [intents EXCEPT ![i] = e]
    BY <1>2 DEF Returned
  <2>2. intents[i] \in Intent
    BY DEF IntentsInv
  <2>3. e \in Intent /\ e.from = intents[i].from /\ e.ups = intents[i].ups
    BY <2>2 DEF Intent, OpenStatus
  <2>4. intents[i].status \in OpenStatus
    BY <1>2 DEF OpenStatus
  <2> HIDE DEF e
  <2> QED
    BY <2>1, <2>3, <2>4, ReplacedIsKept
<1> QED
  BY <1>1, <1>2

-----------------------------------------------------------------------------
(* The runs.                                                               *)
LEMMA RunFacts ==
    ASSUME TableInv
    PROVE  /\ Last \in Nat /\ DOMAIN runs = 1 .. Last
           /\ Active \in {0, Last}
           /\ Active # 0 <=> Last # 0 /\ runs[Last] \in Live
           /\ \A r \in alive : r = Last /\ Active = Last /\ r # 0
<1>1. Last \in Nat /\ DOMAIN runs = 1 .. Last
  BY DEF TableInv, Last
<1>2. runs = <<>> <=> Last = 0
  BY DEF TableInv, Last
<1>3. /\ Active \in {0, Last}
      /\ Active # 0 <=> Last # 0 /\ runs[Last] \in Live
  BY <1>1, <1>2 DEF Active, ActiveIn, Last
<1>4. \A r \in alive : r = Active /\ r \in 1 .. Last
  BY <1>1 DEF TableInv, AgentsAreOwned
<1> QED
  BY <1>1, <1>3, <1>4

(* A state of a run changes, and the run keeps its agent only if it lives. *)
LEMMA ResetKeepsTable ==
    ASSUME TableInv, NEW k, NEW state \in States, runs' = [runs EXCEPT ![k] = state],
           alive' \subseteq alive, k = Last /\ Last \in alive' => state \in Live,
           UNCHANGED came, asked' \subseteq DOMAIN runs
    PROVE  TableInv' /\ Last' = Last
<1>1. /\ runs' \in Seq(States) /\ Last' = Last /\ DOMAIN runs' = DOMAIN runs
      /\ \A j \in DOMAIN runs : runs'[j] = IF j = k THEN state ELSE runs[j]
  BY Replace DEF TableInv, Last
<1>2. alive' \subseteq {Active'}
  <2> SUFFICES ASSUME NEW r \in alive'
               PROVE  r = Active'
    OBVIOUS
  <2>1. r = Last /\ Last # 0 /\ runs[Last] \in Live /\ Last \in DOMAIN runs
    BY RunFacts
  <2>2. runs'[Last] \in Live
    BY <1>1, <2>1
  <2>3. runs' # <<>> /\ Len(runs') = Last
    BY <1>1, <2>1 DEF Last
  <2> QED
    BY <2>1, <2>2, <2>3 DEF Active, ActiveIn
<1> QED
  BY <1>1, <1>2 DEF TableInv, AgentsAreOwned

LEMMA SameTable ==
    ASSUME TableInv, runs' = runs, alive' \subseteq alive, came' = came, asked' = asked
    PROVE  TableInv' /\ Last' = Last /\ Active' = Active
BY DEF TableInv, AgentsAreOwned, Last, Active

-----------------------------------------------------------------------------
(* The holder of the lock goes on with its intent, or leaves.              *)
GoesOn ==
    \/ job' = NoJob
    \/ /\ job'.kind = job.kind /\ job'.id = job.id
       /\ job'.step \in ToLaunch => job.step \in ToLaunch
       /\ job'.step = "launch" /\ job.step # "launch" => Last < Last'

LEMMA UpsStays ==
    ASSUME IntentsInv, TableInv, UpsInv, Kept, Last' \in Nat, Last <= Last', GoesOn
    PROVE  UpsInv'
<1>1. Last \in Nat /\ \A i \in DOMAIN intents : intents[i].from \in Nat /\ intents'[i].from = intents[i].from
                                               /\ intents'[i].ups = intents[i].ups
  <2>1. Last \in Nat
    BY RunFacts
  <2>2. \A i \in DOMAIN intents : intents[i] \in Intent
    BY DEF IntentsInv
  <2>3. \A i \in DOMAIN intents : intents[i].from \in Nat
    BY <2>2 DEF Intent
  <2> QED
    BY <2>1, <2>3 DEF Kept
<1>2. DOMAIN intents' = DOMAIN intents
  BY DEF Kept
<1>3. (\A i \in DOMAIN intents :
          /\ intents[i].from <= Last
          /\ intents[i].from # 0 /\ intents[i].ups # 0 => intents[i].ups = 1 /\ intents[i].from < Last)'
  BY <1>1, <1>2 DEF UpsInv
<1>4. CASE job' = NoJob
  BY <1>3, <1>4 DEF UpsInv, NoJob, None
<1>5. CASE job'.kind = job.kind /\ job'.id = job.id /\ (job'.step \in ToLaunch => job.step \in ToLaunch)
           /\ (job'.step = "launch" /\ job.step # "launch" => Last < Last')
  <2>1. IF job'.kind = "restart" THEN job'.id \in DOMAIN intents' ELSE job'.id = 0
    BY <1>2, <1>5 DEF UpsInv
  <2>2. ASSUME job'.kind = "restart", job'.step \in ToLaunch, intents'[job'.id].from # 0
        PROVE  intents'[job'.id].ups = 0 /\ (job'.step = "launch" => intents'[job'.id].from < Last')
    <3>1. job.id \in DOMAIN intents /\ intents[job.id].from # 0 /\ intents[job.id].ups = 0
      BY <1>1, <1>5, <2>2 DEF UpsInv
    <3>2. intents[job.id].from <= Last /\ (job.step = "launch" => intents[job.id].from < Last)
      BY <1>1, <1>5, <2>2, <3>1 DEF UpsInv
    <3> QED
      BY <1>1, <1>5, <3>1, <3>2
  <2> QED
    BY <1>3, <2>1, <2>2 DEF UpsInv
<1> QED
  BY <1>4, <1>5 DEF GoesOn

LEMMA RecStays ==
    ASSUME RecInv, DOMAIN intents' = DOMAIN intents, rec' = rec, holds' \subseteq DOMAIN intents,
           loose' = loose, job'.who \in {job.who, None, User}
    PROVE  RecInv'
BY IntentsAssumption DEF RecInv

(* The boots are counted by the faults.                                    *)
LEMMA Counted ==
    ASSUME NEW b \in Nat, NEW m \in Nat, NEW n \in Nat, 1 <= b, b <= m + 1, m <= n
    PROVE  b \in 1 .. n + 1
OBVIOUS

(* What a step of the lock's holder may do to the rest: nothing.           *)
LEMMA SameDaemonStays ==
    ASSUME Inv, SameDaemon, job'.who \in {job.who, None, User},
           prompt' \in {None, "queued", "sent", "revoked"}, faults' \in 0 .. MaxFaults, faults <= faults'
    PROVE  IntentsInv' /\ Kept /\ RecInv' /\ RestInv'
<1>1. IntentsInv' /\ Kept
  BY UnchangedIsKept, KeptIsGood DEF Inv, SameDaemon
<1>2. RecInv'
  BY RecStays DEF Inv, SameDaemon, RecInv
<1>3. RestInv'
  <2>1. /\ ops' = ops /\ boot' = boot /\ serving' = serving /\ due' = due
        /\ RestInv
    BY DEF Inv, SameDaemon
  <2>2. boot \in 1 .. faults' + 1
    <3>1. MaxFaults \in Nat
      BY IntentsAssumption
    <3>2. faults \in Nat /\ faults' \in Nat
      BY <2>1, <3>1 DEF RestInv
    <3>3. boot \in 1 .. faults + 1
      BY <2>1 DEF RestInv
    <3>4. faults <= faults'
      OBVIOUS
    <3>5. boot \in Nat /\ 1 <= boot /\ boot <= faults + 1
      BY <3>2, <3>3
    <3> QED
      BY <3>2, <3>4, <3>5, Counted
  <2> QED
    BY <2>1, <2>2 DEF RestInv
<1> QED
  BY <1>1, <1>2, <1>3

LEMMA RevokedIsPrompt ==
    ASSUME prompt \in {None, "queued", "sent", "revoked"}, NEW rs, NEW j, NEW hs
    PROVE  Revoked(rs, j, hs) \in {None, "queued", "sent", "revoked"}
BY DEF Revoked

-----------------------------------------------------------------------------
(* The steps of the lock's holder.                                         *)
LEMMA StepFacts ==
    ASSUME JobInv, NEW s \in Steps, Step(s), job.step # None
    PROVE  /\ job' \in Job /\ job'.step = s /\ job'.kind = job.kind /\ job'.id = job.id
           /\ job'.who = job.who /\ job'.from = job.from /\ job.who # None /\ ~Free'
<1>1. job \in Job
  BY DEF JobInv
<1>2. /\ job' \in Job /\ job'.step = s /\ job'.kind = job.kind /\ job'.id = job.id
      /\ job'.who = job.who /\ job'.from = job.from
  BY <1>1 DEF Step, Job
<1>3. job.who # None
  BY DEF JobInv, Free, NoJob
<1> QED
  BY <1>2, <1>3 DEF Free

LEMMA LeaveFacts ==
    ASSUME job' = NoJob
    PROVE  /\ job'.who = None /\ job' \in Job
           /\ TableInv' => JobInv'
<1>1. job'.who = None /\ job' \in Job /\ job'.step = None
  BY DEF NoJob, Job, None
<1>2. ASSUME TableInv'
      PROVE  JobInv'
  BY <1>1 DEF JobInv, NoJob, Free, None
<1> QED
  BY <1>1, <1>2

LEMMA StepGoesOn ==
    ASSUME JobInv, NEW s \in Steps, Step(s), job.step # None,
           s \in ToLaunch => job.step \in ToLaunch,
           s = "launch" /\ job.step # "launch" => Last < Last',
           s \in {"label", "start"} => Active' = 0,
           s = "launch" => runs' # <<>> /\ runs'[Last'] = "starting",
           s \in {"kill", "commit", "record"} => runs' # <<>>,
           s \in {"kill", "commit"} => runs'[Last'] \in {"stopping", "exited"},
           s \in {"launch", "commit"} => Last' \notin alive'
    PROVE  JobInv' /\ GoesOn /\ job'.who \in {job.who, None, User}
<1>1. /\ job' \in Job /\ job'.step = s /\ job'.kind = job.kind /\ job'.id = job.id
      /\ job'.who = job.who /\ ~Free'
  BY StepFacts
<1>2. JobInv'
  BY <1>1 DEF JobInv
<1>3. GoesOn
  BY <1>1 DEF GoesOn
<1> QED
  BY <1>1, <1>2, <1>3

LEMMA LeaveGoesOn ==
    ASSUME JobInv, TableInv', Leave
    PROVE  JobInv' /\ GoesOn /\ job'.who \in {job.who, None, User}
BY LeaveFacts DEF Leave, GoesOn

LEMMA AfterStopGoesOn ==
    ASSUME JobInv, TableInv', job' = AfterStop, job.step \in ToLaunch, Active' = 0
    PROVE  JobInv' /\ GoesOn /\ job'.who \in {job.who, None, User}
<1>1. CASE job.kind = "stop"
  BY <1>1, LeaveGoesOn DEF AfterStop, Leave
<1>2. CASE job.kind # "stop"
  <2> DEFINE s == IF job.who = User THEN "start" ELSE "label"
  <2>1. Step(s)
    BY <1>2 DEF AfterStop, Step
  <2>2. s \in Steps /\ s \in {"start", "label"} /\ job.step # None
    BY DEF Steps, Starting, ToLaunch, None
  <2> HIDE DEF s
  <2> QED
    BY <2>1, <2>2, StepGoesOn
<1> QED
  BY <1>1, <1>2

LEMMA FailedGoesOn ==
    ASSUME JobInv, TableInv', job.step # None,
           job' = NoJob \/ \E s \in {"giveup", "failed", "abandoned", "done"} : Step(s)
    PROVE  JobInv' /\ GoesOn /\ job'.who \in {job.who, None, User}
<1>1. CASE job' = NoJob
  BY <1>1, LeaveGoesOn DEF Leave
<1>2. CASE \E s \in {"giveup", "failed", "abandoned", "done"} : Step(s)
  <2>1. PICK s \in {"giveup", "failed", "abandoned", "done"} : Step(s)
    BY <1>2
  <2>2. s \in Steps /\ s \notin ToLaunch \cup {"record"}
    BY DEF Steps, ToLaunch
  <2> QED
    BY <2>1, <2>2, StepGoesOn DEF ToLaunch
<1> QED
  BY <1>1, <1>2

LEMMA StartFailsIsFailed ==
    ASSUME StartFails
    PROVE  job' = NoJob \/ \E s \in {"giveup", "failed", "abandoned", "done"} : Step(s)
BY DEF StartFails, Failed, Step

(* A step of the holder: what remains to be shown of each.                 *)
LEMMA HolderKeepsInv ==
    ASSUME Inv, SameDaemon, TableInv', Last' \in Nat, Last <= Last',
           JobInv', GoesOn, job'.who \in {job.who, None, User},
           prompt' \in {None, "queued", "sent", "revoked"}, faults' \in 0 .. MaxFaults, faults <= faults'
    PROVE  Inv'
<1>1. IntentsInv' /\ Kept /\ RecInv' /\ RestInv'
  BY SameDaemonStays
<1>2. UpsInv'
  BY <1>1, UpsStays DEF Inv
<1> QED
  BY <1>1, <1>2 DEF Inv

LEMMA RestFacts ==
    ASSUME Inv
    PROVE  /\ prompt \in {None, "queued", "sent", "revoked"}
           /\ faults \in 0 .. MaxFaults /\ faults <= faults
           /\ faults < MaxFaults => faults + 1 \in 0 .. MaxFaults /\ faults <= faults + 1
<1>1. MaxFaults \in Nat
  BY IntentsAssumption
<1> QED
  BY <1>1 DEF Inv, RestInv

LEMMA BeginStopKeepsInv ==
    ASSUME Inv, BeginStop
    PROVE  Inv'
<1>1. IntentsInv /\ TableInv /\ JobInv
  BY DEF Inv
<1>2. job.step = "stop" /\ job.step \in ToLaunch /\ job.step # None
  BY DEF BeginStop, ToLaunch, None
<1>3. Last \in Nat /\ (Active # 0 => Last \in DOMAIN runs /\ Last # 0 /\ runs # <<>>)
  BY <1>1, RunFacts DEF Last, TableInv
<1>4. CASE runs' = runs /\ asked' = asked
  <2>1. TableInv' /\ Last' = Last /\ Active' = Active
    BY <1>1, <1>4, SameTable DEF BeginStop
  <2>2. JobInv' /\ GoesOn /\ job'.who \in {job.who, None, User}
    <3>1. CASE Active = 0 /\ job' = AfterStop
      BY <1>1, <1>2, <2>1, <3>1, AfterStopGoesOn
    <3>2. CASE job' = NoJob \/ \E s \in {"giveup", "failed", "abandoned", "done"} : Step(s)
      BY <1>1, <1>2, <2>1, <3>2, FailedGoesOn
    <3>3. CASE Active # 0 /\ runs' = [runs EXCEPT ![Last] = "stopping"] /\ Step("kill")
      <4>1. runs'[Last] = "stopping"
        BY <1>3, <3>3
      <4> QED
        BY <1>1, <1>2, <1>3, <2>1, <3>3, <4>1, <1>4, StepGoesOn DEF Steps
    <3> QED
      BY <3>1, <3>2, <3>3 DEF BeginStop, Leave
  <2> QED
    BY <1>3, <2>1, <2>2, RestFacts, HolderKeepsInv DEF BeginStop
<1>5. CASE Active # 0 /\ runs' = [runs EXCEPT ![Last] = "stopping"] /\ Step("kill")
           /\ asked' = IF job.kind = "stop" THEN asked \cup {Last} ELSE asked \ {Last}
  <2>1. asked' \subseteq DOMAIN runs
    BY <1>3, <1>5, <1>1 DEF TableInv
  <2>2. "stopping" \in Live /\ "stopping" \in States
    BY DEF Live, States
  <2>3. TableInv' /\ Last' = Last
    BY <1>1, <1>5, <2>1, <2>2, ResetKeepsTable DEF BeginStop
  <2>4. runs'[Last'] = "stopping" /\ runs' # <<>>
    <3>1. runs'[Last] = "stopping"
      BY <1>3, <1>5
    <3>2. Len(runs') # 0
      BY <1>3, <1>5, <2>3 DEF Last
    <3> QED
      BY <2>3, <3>1, <3>2
  <2>5. JobInv' /\ GoesOn /\ job'.who \in {job.who, None, User}
    BY <1>1, <1>2, <1>5, <2>4, StepGoesOn DEF Steps
  <2> QED
    BY <1>3, <2>3, <2>5, RestFacts, HolderKeepsInv DEF BeginStop
<1> QED
  BY <1>4, <1>5 DEF BeginStop

LEMMA KillKeepsInv ==
    ASSUME Inv, Kill
    PROVE  Inv'
<1>1. IntentsInv /\ TableInv /\ JobInv
  BY DEF Inv
<1>2. job.step = "kill" /\ job.step \in ToLaunch /\ job.step # None
  BY DEF Kill, ToLaunch, None
<1>3. Last \in Nat /\ runs # <<>> /\ runs[Last] \in {"stopping", "exited"} /\ runs[Last] \in States
  <2>1. Last \in Nat /\ DOMAIN runs = 1 .. Last
    BY <1>1, RunFacts
  <2>2. runs # <<>> /\ runs[Last] \in {"stopping", "exited"}
    BY <1>1, <1>2 DEF JobInv
  <2> QED
    BY <2>1, <2>2 DEF States, Live
<1>4. CASE alive' = alive \ {Last} /\ Step("commit") /\ runs' = runs
  <2>1. TableInv' /\ Last' = Last
    BY <1>1, <1>4, SameTable DEF Kill
  <2>2. JobInv' /\ GoesOn /\ job'.who \in {job.who, None, User}
    <3>1. "commit" \in Steps
      BY DEF Steps
    <3> QED
      BY <1>1, <1>2, <1>3, <1>4, <2>1, <3>1, StepGoesOn
  <2> QED
    BY <1>3, <2>1, <2>2, RestFacts, HolderKeepsInv DEF Kill
<1>5. ASSUME job' = Unconfirmed, TableInv', Last' = Last
      PROVE  Inv'
  <2>1. job' = NoJob \/ \E s \in {"giveup", "failed", "abandoned", "done"} : Step(s)
    BY <1>5 DEF Unconfirmed, Step
  <2>2. JobInv' /\ GoesOn /\ job'.who \in {job.who, None, User}
    BY <1>1, <1>2, <1>5, <2>1, FailedGoesOn
  <2> QED
    BY <1>3, <1>5, <2>2, RestFacts, HolderKeepsInv DEF Kill
<1>6. CASE Last \in alive /\ job' = Unconfirmed /\ alive' = alive
           /\ runs' = [runs EXCEPT ![Last] = IF @ = "stopping" THEN "running" ELSE @]
  <2> DEFINE state == IF runs[Last] = "stopping" THEN "running" ELSE runs[Last]
  <2>1. runs' = [runs EXCEPT ![Last] = state]
    BY <1>6
  <2>2. state \in Live /\ state \in States
    <3>1. runs[Last] \in Live
      BY <1>1, <1>6, RunFacts
    <3> QED
      BY <3>1 DEF Live, States
  <2>3. alive' \subseteq alive /\ UNCHANGED came /\ asked' \subseteq DOMAIN runs
    BY <1>1, <1>6 DEF Kill, TableInv
  <2> HIDE DEF state
  <2>4. TableInv' /\ Last' = Last
    BY <1>1, <2>1, <2>2, <2>3, ResetKeepsTable
  <2> QED
    BY <1>5, <1>6, <2>4
<1>7. CASE alive' \in {alive, alive \ {Last}} /\ job' = Unconfirmed /\ runs' = runs
  <2>1. TableInv' /\ Last' = Last
    BY <1>1, <1>7, SameTable DEF Kill
  <2> QED
    BY <1>5, <1>7, <2>1
<1> QED
  BY <1>4, <1>6, <1>7 DEF Kill

LEMMA CommitStoppedKeepsInv ==
    ASSUME Inv, CommitStopped
    PROVE  Inv'
<1>1. IntentsInv /\ TableInv /\ JobInv
  BY DEF Inv
<1>2. job.step = "commit" /\ job.step \in ToLaunch
  BY DEF CommitStopped, ToLaunch
<1>3. /\ Last \in Nat /\ runs # <<>> /\ Last \in DOMAIN runs
      /\ runs[Last] \in {"stopping", "exited"} /\ Last \notin alive
  <2>1. runs # <<>> /\ runs[Last] \in {"stopping", "exited"} /\ Last \notin alive
    BY <1>1, <1>2 DEF JobInv
  <2>2. Last \in DOMAIN runs /\ Last \in Nat
    BY <1>1, <2>1 DEF TableInv, Last
  <2> QED
    BY <2>1, <2>2
<1> DEFINE state == IF runs[Last] = "stopping" \/ job.kind = "stop" THEN "stopped" ELSE runs[Last]
<1>4. runs' = [runs EXCEPT ![Last] = state]
  BY DEF CommitStopped
<1>5. state \in States /\ state \notin Live
  BY <1>3 DEF States, Live
<1> HIDE DEF state
<1>6. TableInv' /\ Last' = Last
  <2>1. alive' \subseteq alive /\ UNCHANGED came /\ asked' \subseteq DOMAIN runs
    BY <1>1 DEF CommitStopped, TableInv
  <2> QED
    BY <1>1, <1>3, <1>4, <1>5, <2>1, ResetKeepsTable
<1>7. Active' = 0
  <2>1. runs'[Last'] = state
    BY <1>3, <1>4, <1>6
  <2> QED
    BY <1>5, <1>6, <2>1, RunFacts DEF Active, ActiveIn, Last
<1>8. JobInv' /\ GoesOn /\ job'.who \in {job.who, None, User}
  BY <1>1, <1>2, <1>6, <1>7, AfterStopGoesOn DEF CommitStopped
<1>9. prompt' \in {None, "queued", "sent", "revoked"}
  BY RestFacts, RevokedIsPrompt DEF CommitStopped
<1> QED
  BY <1>3, <1>6, <1>8, <1>9, RestFacts, HolderKeepsInv DEF CommitStopped

(* left_down_by_restart moves no active run.                               *)
Relabelled == runs' = (IF job.from # 0 /\ runs[job.from] = "stopped"
                       THEN [runs EXCEPT ![job.from] = "exited"] ELSE runs)

LEMMA RelabelKeepsTable ==
    ASSUME TableInv, Relabelled, UNCHANGED <<alive, asked, came>>
    PROVE  TableInv' /\ Last' = Last /\ (Active = 0 => Active' = 0)
<1>1. CASE runs' = runs
  BY <1>1, SameTable
<1>2. CASE runs[job.from] = "stopped" /\ runs' = [runs EXCEPT ![job.from] = "exited"]
  <2>1. "exited" \in States /\ "exited" \notin Live /\ "stopped" \notin Live
    BY DEF States, Live
  <2>2. Last \in alive => runs[Last] \in Live
    BY RunFacts
  <2>3. TableInv' /\ Last' = Last
    BY <1>2, <2>1, <2>2, ResetKeepsTable DEF TableInv
  <2>4. Active = 0 => Active' = 0
    <3>1. \A j \in DOMAIN runs : runs'[j] = IF j = job.from THEN "exited" ELSE runs[j]
      BY <1>2, <2>1, Replace DEF TableInv
    <3>2. ASSUME Active = 0, Active' # 0
          PROVE  FALSE
      <4>1. Last' # 0 /\ runs'[Last'] \in Live
        BY <2>3, <3>2, RunFacts DEF Active, ActiveIn, Last, TableInv
      <4>2. Last \in DOMAIN runs
        BY <2>3, <4>1, RunFacts
      <4>3. runs[Last] \in Live
        BY <2>1, <2>3, <3>1, <4>1, <4>2
      <4> QED
        BY <2>3, <3>2, <4>1, <4>3, RunFacts
    <3> QED
      BY <3>2
  <2> QED
    BY <2>3, <2>4
<1> QED
  BY <1>1, <1>2 DEF Relabelled

LEMMA RelabelThenStartKeepsInv ==
    ASSUME Inv, RelabelThenStart
    PROVE  Inv'
<1>1. IntentsInv /\ TableInv /\ JobInv
  BY DEF Inv
<1>2. job.step = "label" /\ job.step \in ToLaunch /\ job.step # None /\ Active = 0 /\ Last \in Nat
  BY <1>1, RunFacts DEF RelabelThenStart, ToLaunch, None, JobInv
<1>3. CASE Relabelled /\ Step("start") /\ faults' = faults
  <2>1. TableInv' /\ Last' = Last /\ Active' = 0
    BY <1>1, <1>2, <1>3, RelabelKeepsTable DEF RelabelThenStart
  <2>2. JobInv' /\ GoesOn /\ job'.who \in {job.who, None, User}
    <3>1. "start" \in Steps
      BY DEF Steps, Starting
    <3> QED
      BY <1>1, <1>2, <1>3, <2>1, <3>1, StepGoesOn
  <2> QED
    BY <1>2, <1>3, <2>1, <2>2, RestFacts, HolderKeepsInv DEF RelabelThenStart
<1>4. CASE faults < MaxFaults /\ faults' = faults + 1 /\ Step("failed") /\ runs' = runs
  <2>1. TableInv' /\ Last' = Last
    BY <1>1, <1>4, SameTable DEF RelabelThenStart
  <2>2. JobInv' /\ GoesOn /\ job'.who \in {job.who, None, User}
    BY <1>1, <1>2, <1>4, <2>1, FailedGoesOn
  <2> QED
    BY <1>2, <1>4, <2>1, <2>2, RestFacts, HolderKeepsInv DEF RelabelThenStart
<1> QED
  BY <1>3, <1>4 DEF RelabelThenStart, Relabelled

LEMMA GiveUpKeepsInv ==
    ASSUME Inv, GiveUp
    PROVE  Inv'
<1>1. IntentsInv /\ TableInv /\ JobInv
  BY DEF Inv
<1>2. TableInv' /\ Last' = Last /\ Last \in Nat
  BY <1>1, RelabelKeepsTable, RunFacts DEF GiveUp, Relabelled
<1>3. JobInv' /\ GoesOn /\ job'.who \in {job.who, None, User}
  BY <1>1, <1>2, FailedGoesOn DEF GiveUp, None
<1>4. prompt' \in {None, "queued", "sent", "revoked"}
  BY RestFacts, RevokedIsPrompt DEF GiveUp
<1> QED
  BY <1>2, <1>3, <1>4, RestFacts, HolderKeepsInv DEF GiveUp

LEMMA InsertRunKeepsInv ==
    ASSUME Inv, InsertRun
    PROVE  Inv'
<1>1. IntentsInv /\ TableInv /\ JobInv
  BY DEF Inv
<1>2. /\ job.step = "start" /\ job.step \in ToLaunch /\ job.step # None
      /\ Active = 0 /\ Last \in Nat /\ alive = {}
  BY <1>1, RunFacts DEF InsertRun, ToLaunch, None, JobInv
<1>3. CASE runs' = Append(runs, "starting") /\ Step("launch")
  <2>1. runs \in Seq(States) /\ "starting" \in States
    BY <1>1 DEF TableInv, States, Live
  <2>2. /\ runs' \in Seq(States) /\ Len(runs') = Len(runs) + 1 /\ DOMAIN runs' = 1 .. Len(runs) + 1
        /\ runs'[Len(runs) + 1] = "starting"
    BY <1>3, <2>1, AppendProperties
  <2>3. Last' = Last + 1 /\ Last < Last' /\ runs' # <<>> /\ runs'[Last'] = "starting"
    BY <1>2, <2>2 DEF Last
  <2>4. TableInv'
    <3>1. DOMAIN runs \subseteq DOMAIN runs'
      BY <1>1, <1>2, <2>2, RunFacts DEF Last
    <3> QED
      BY <1>1, <1>2, <2>2, <3>1 DEF TableInv, AgentsAreOwned, InsertRun
  <2>5. JobInv' /\ GoesOn /\ job'.who \in {job.who, None, User}
    <3>1. "launch" \in Steps
      BY DEF Steps, Starting
    <3>2. Last' \notin alive'
      BY <1>2 DEF InsertRun
    <3> QED
      BY <1>1, <1>2, <1>3, <2>3, <3>1, <3>2, StepGoesOn
  <2> QED
    BY <1>2, <2>3, <2>4, <2>5, RestFacts, HolderKeepsInv DEF InsertRun
<1>4. CASE StartFails /\ runs' = runs
  <2>1. TableInv' /\ Last' = Last
    BY <1>1, <1>4, SameTable DEF InsertRun
  <2>2. JobInv' /\ GoesOn /\ job'.who \in {job.who, None, User}
    BY <1>1, <1>2, <1>4, <2>1, StartFailsIsFailed, FailedGoesOn
  <2> QED
    BY <1>2, <1>4, <2>1, <2>2, RestFacts, HolderKeepsInv DEF InsertRun
<1> QED
  BY <1>3, <1>4 DEF InsertRun

LEMMA LaunchKeepsInv ==
    ASSUME Inv, Launch
    PROVE  Inv'
<1>1. IntentsInv /\ TableInv /\ JobInv /\ UpsInv /\ RecInv /\ RestInv
  BY DEF Inv
<1>2. /\ job.step = "launch" /\ job.step \in ToLaunch /\ job.step # None
      /\ runs # <<>> /\ runs[Last] = "starting" /\ Last \notin alive
  BY <1>1 DEF Launch, ToLaunch, None, JobInv
<1>3. Last \in Nat /\ Last # 0 /\ Last \in DOMAIN runs /\ Active = Last
  BY <1>1, <1>2, RunFacts DEF Last, TableInv, Active, ActiveIn, Live
<1>4. CASE /\ alive' = alive \cup {Last} /\ came' = came \cup {Last} /\ Step("record") /\ runs' = runs
           /\ intents' = IF job.id = 0 THEN intents ELSE [intents EXCEPT ![job.id].ups = @ + 1]
  <2>1. TableInv' /\ Last' = Last
    <3>1. Active' = Active /\ Last' = Last
      BY <1>4 DEF Active, Last
    <3>2. asked' = asked
      BY DEF Launch
    <3> QED
      BY <1>1, <1>3, <1>4, <3>1, <3>2 DEF TableInv, AgentsAreOwned
  <2>2. JobInv' /\ GoesOn /\ job'.who \in {job.who, None, User}
    <3>1. "record" \in Steps /\ "record" \notin ToLaunch
      BY DEF Steps, Starting, ToLaunch
    <3> QED
      BY <1>1, <1>2, <1>4, <3>1, StepGoesOn
  <2>3. job'.kind = job.kind /\ job'.id = job.id /\ job'.step = "record"
    BY <1>1, <1>2, <1>4, StepFacts DEF Steps, Starting
  <2>4. /\ intents' \in Seq(Intent) /\ DOMAIN intents' = DOMAIN intents
        /\ \A i \in DOMAIN intents :
              /\ intents'[i].from = intents[i].from /\ intents'[i].status = intents[i].status
              /\ i # job.id => intents'[i] = intents[i]
              /\ i = job.id => intents'[i].ups = intents[i].ups + 1
    <3>1. CASE job.id = 0
      <4>1. intents' = intents /\ DOMAIN intents = 1 .. Len(intents) /\ Len(intents) \in Nat
        BY <1>1, <1>4, <3>1 DEF IntentsInv
      <4> QED
        BY <1>1, <3>1, <4>1 DEF IntentsInv
    <3>2. CASE job.id # 0
      <4>1. job.id \in DOMAIN intents
        BY <1>1, <3>2 DEF UpsInv
      <4>2. intents[job.id] \in Intent
        BY <1>1, <4>1 DEF IntentsInv
      <4> DEFINE e == [intents[job.id] EXCEPT !.ups = @ + 1]
      <4>3. intents' = [intents EXCEPT ![job.id] = e]
        BY <1>4, <3>2
      <4>4. /\ e \in Intent /\ e.from = intents[job.id].from /\ e.status = intents[job.id].status
            /\ e.ups = intents[job.id].ups + 1
        BY <4>2 DEF Intent
      <4> HIDE DEF e
      <4>5. /\ intents' \in Seq(Intent) /\ DOMAIN intents' = DOMAIN intents
            /\ \A j \in DOMAIN intents : intents'[j] = IF j = job.id THEN e ELSE intents[j]
        BY <1>1, <4>3, <4>4, Replace DEF IntentsInv
      <4> QED
        BY <4>4, <4>5
    <3> QED
      BY <3>1, <3>2
  <2>5. IntentsInv'
    BY <1>1, <2>4 DEF IntentsInv, Open, Opens
  <2>6. UpsInv'
    <3>1. ASSUME NEW i \in DOMAIN intents
          PROVE  /\ intents'[i].from <= Last
                 /\ intents'[i].from # 0 /\ intents'[i].ups # 0 =>
                        intents'[i].ups = 1 /\ intents'[i].from < Last
      <4>1. CASE i # job.id
        BY <1>1, <2>4, <4>1 DEF UpsInv
      <4>2. CASE i = job.id
        <5>1. job.kind = "restart"
          <6>1. DOMAIN intents = 1 .. Len(intents) /\ Len(intents) \in Nat
            BY <1>1 DEF IntentsInv
          <6> QED
            BY <1>1, <4>2, <6>1 DEF UpsInv
        <5>2. intents[i].from # 0 => intents[i].ups = 0 /\ intents[i].from < Last
          BY <1>1, <1>2, <4>2, <5>1 DEF UpsInv
        <5>3. intents[i].from # 0 => intents'[i].ups = 1
          BY <2>4, <4>2, <5>2
        <5> QED
          BY <1>1, <2>4, <5>2, <5>3 DEF UpsInv
      <4> QED
        BY <4>1, <4>2
    <3>2. job'.step \notin ToLaunch
      BY <2>3 DEF ToLaunch
    <3> QED
      BY <1>1, <2>1, <2>3, <2>4, <3>1, <3>2 DEF UpsInv
  <2>7. RecInv'
    BY <1>1, <2>2, <2>4, RecStays DEF Launch, RecInv
  <2>8. RestInv'
    BY <1>1 DEF Launch, RestInv
  <2> QED
    BY <2>1, <2>2, <2>5, <2>6, <2>7, <2>8 DEF Inv
<1>5. CASE runs' = [runs EXCEPT ![Last] = "exited"] /\ StartFails /\ UNCHANGED <<alive, came, intents>>
  <2>1. "exited" \in States
    BY DEF States
  <2>2. TableInv' /\ Last' = Last
    BY <1>1, <1>2, <1>5, <2>1, ResetKeepsTable DEF Launch, TableInv
  <2>3. JobInv' /\ GoesOn /\ job'.who \in {job.who, None, User}
    BY <1>1, <1>2, <1>5, <2>2, StartFailsIsFailed, FailedGoesOn
  <2>4. SameDaemon
    BY <1>5 DEF Launch, SameDaemon
  <2> QED
    BY <1>3, <2>2, <2>3, <2>4, RestFacts, HolderKeepsInv DEF Launch
<1> QED
  BY <1>4, <1>5 DEF Launch

LEMMA RecordRunningKeepsInv ==
    ASSUME Inv, RecordRunning
    PROVE  Inv'
<1>1. IntentsInv /\ TableInv /\ JobInv
  BY DEF Inv
<1>2. job.step = "record" /\ job.step # None /\ Last \in Nat
  BY <1>1, RunFacts DEF RecordRunning, None
<1>3. TableInv' /\ Last' = Last
  <2>1. CASE runs' = runs
    BY <1>1, <2>1, SameTable DEF RecordRunning
  <2>2. CASE runs' = [runs EXCEPT ![Last] = "running"]
    <3>1. "running" \in States /\ "running" \in Live
      BY DEF States, Live
    <3> QED
      BY <1>1, <2>2, <3>1, ResetKeepsTable DEF RecordRunning, TableInv
  <2> QED
    BY <2>1, <2>2 DEF RecordRunning
<1>4. JobInv' /\ GoesOn /\ job'.who \in {job.who, None, User}
  <2>1. job' = NoJob \/ \E s \in {"giveup", "failed", "abandoned", "done"} : Step(s)
    BY StartFailsIsFailed DEF RecordRunning, Leave
  <2> QED
    BY <1>1, <1>2, <1>3, <2>1, FailedGoesOn
<1>5. faults' = faults \/ (faults < MaxFaults /\ faults' = faults + 1)
  BY DEF RecordRunning
<1> QED
  BY <1>2, <1>3, <1>4, <1>5, RestFacts, HolderKeepsInv DEF RecordRunning

LEMMA SettleRestartKeepsInv ==
    ASSUME Inv, SettleRestart
    PROVE  Inv'
<1>1. IntentsInv /\ TableInv /\ JobInv /\ UpsInv /\ RecInv /\ RestInv
  BY DEF Inv
<1>2. TableInv' /\ Last' = Last /\ Last \in Nat
  BY <1>1, SameTable, RunFacts DEF SettleRestart, table, past
<1>3. JobInv' /\ GoesOn /\ job'.who \in {job.who, None, User}
  BY <1>1, <1>2, LeaveGoesOn DEF SettleRestart
<1>4. Kept
  <2>1. CASE intents' = intents
    BY <1>1, <2>1, UnchangedIsKept
  <2>2. CASE intents' = Ended(job.id, job.step, job.step # "done")
    <3>1. job.step \in {"done", "abandoned", "failed"} /\ (job.step # "done") \in BOOLEAN
      BY DEF SettleRestart
    <3> QED
      BY <1>1, <2>2, <3>1, EndedIsKept
  <2> QED
    BY <2>1, <2>2 DEF SettleRestart
<1>5. IntentsInv' /\ UpsInv' /\ RecInv'
  <2>1. IntentsInv'
    BY <1>1, <1>4, KeptIsGood
  <2>2. UpsInv'
    BY <1>1, <1>2, <1>3, <1>4, UpsStays
  <2>3. RecInv'
    BY <1>1, <1>3, <1>4, RecStays DEF SettleRestart, RecInv, Kept, past
  <2> QED
    BY <2>1, <2>2, <2>3
<1>6. RestInv'
  <2>1. MaxFaults \in Nat
    BY IntentsAssumption
  <2>2. /\ faults' \in 0 .. MaxFaults /\ faults <= faults'
        /\ ops' = ops /\ boot' = boot /\ serving' = serving /\ due' = due /\ prompt' = prompt
    BY RestFacts DEF SettleRestart
  <2>3. faults \in Nat /\ faults' \in Nat /\ boot \in Nat /\ 1 <= boot /\ boot <= faults + 1
    BY <1>1, <2>1, <2>2 DEF RestInv
  <2>4. boot' \in 1 .. faults' + 1
    BY <2>2, <2>3, Counted
  <2> QED
    BY <1>1, <2>2, <2>4 DEF RestInv
<1> QED
  BY <1>2, <1>3, <1>5, <1>6 DEF Inv

-----------------------------------------------------------------------------
(* What a user asks for.                                                   *)
LEMMA UserOpFacts ==
    ASSUME Inv, UserOp
    PROVE  /\ job = NoJob /\ ops' \in 0 .. MaxOps
           /\ IntentsInv /\ TableInv /\ JobInv /\ UpsInv /\ RecInv /\ RestInv
           /\ Last \in Nat /\ Active \in Nat /\ Active <= Last
<1>1. IntentsInv /\ TableInv /\ JobInv /\ UpsInv /\ RecInv /\ RestInv
  BY DEF Inv
<1>2. Last \in Nat /\ Active \in Nat /\ Active <= Last
  BY <1>1, RunFacts
<1>3. MaxOps \in Nat
  BY IntentsAssumption
<1>4. ops' \in 0 .. MaxOps
  BY <1>1, <1>3 DEF UserOp, RestInv
<1> QED
  BY <1>1, <1>2, <1>4 DEF UserOp, JobInv

LEMMA StopOrStartKeepsInv ==
    ASSUME Inv, StopBot \/ StartBot
    PROVE  Inv'
<1>1. UserOp /\ UNCHANGED <<table, intents, boot, serving, due, rec, holds, prompt, past, faults>>
  BY DEF StopBot, StartBot
<1>2. /\ job = NoJob /\ ops' \in 0 .. MaxOps
      /\ IntentsInv /\ TableInv /\ JobInv /\ UpsInv /\ RecInv /\ RestInv
      /\ Last \in Nat
  BY <1>1, UserOpFacts
<1>3. TableInv' /\ Last' = Last /\ Active' = Active
  BY <1>1, <1>2, SameTable DEF table, past
<1>4. /\ job' \in Job /\ job'.who = User /\ job'.id = 0 /\ job'.kind \in {"stop", "start"}
      /\ job'.step \in {"stop", "start"} /\ (job'.step = "start" => Active = 0)
  <2>1. \/ job' = [who |-> User, kind |-> "stop", step |-> "stop", id |-> 0, from |-> 0]
        \/ /\ Active = 0
           /\ job' = [who |-> User, kind |-> "start", step |-> "start", id |-> 0, from |-> 0]
    BY DEF StopBot, StartBot, NoJob
  <2> QED
    BY <2>1 DEF Job, Steps, Starting
<1>5. User # None
  BY DEF User, None
<1>6. JobInv'
  BY <1>3, <1>4, <1>5 DEF JobInv, Free
<1>7. IntentsInv' /\ UpsInv'
  BY <1>1, <1>2, <1>3, <1>4 DEF IntentsInv, UpsInv, Open
<1>8. RecInv'
  BY <1>1, <1>2, <1>4, RecStays DEF RecInv, past
<1>9. RestInv'
  BY <1>1, <1>2 DEF RestInv
<1> QED
  BY <1>3, <1>6, <1>7, <1>8, <1>9 DEF Inv

(* What prepare_restart leaves: one open intent, for the run there is now. *)
LEMMA PreparedFacts ==
    ASSUME IntentsInv, Active \in Nat, boot \in 1 .. MaxFaults + 1, intents' = Prepared(Active)
    PROVE  /\ intents' \in Seq(Intent) /\ DOMAIN intents \subseteq DOMAIN intents'
           /\ \E k \in DOMAIN intents' : /\ Opens(intents') = {k}
                                         /\ intents'[k].from = Active /\ intents'[k].ups = 0
           /\ \A i \in DOMAIN intents' :
                 \/ intents'[i].from = Active /\ intents'[i].ups = 0
                 \/ /\ i \in DOMAIN intents
                    /\ intents'[i].from = intents[i].from /\ intents'[i].ups = intents[i].ups
<1>1. /\ intents \in Seq(Intent) /\ \A i \in DOMAIN intents : intents[i] \in Intent
      /\ \A i \in DOMAIN intents : i \in Open <=> intents[i].status \in OpenStatus
  BY DEF IntentsInv, Open, Opens
<1> DEFINE again == [i \in DOMAIN intents |->
               IF i \in Open THEN [intents[i] EXCEPT !.from = Active, !.ups = 0] ELSE intents[i]]
           ended == [i \in DOMAIN intents |->
               IF i \in Open THEN [intents[i] EXCEPT !.status = "abandoned"] ELSE intents[i]]
           fresh == Fresh(Active)
<1>2. CASE \E i \in Open : TRUE /\ intents' = again
  <2>1. PICK k \in Open : Open = {k}
    BY <1>2 DEF IntentsInv
  <2>2. \A i \in DOMAIN intents :
           /\ again[i] \in Intent /\ again[i].status = intents[i].status
           /\ i = k => again[i].from = Active /\ again[i].ups = 0
           /\ i # k => again[i] = intents[i]
    BY <1>1, <2>1 DEF Intent
  <2>3. again \in [DOMAIN intents -> Intent]
    BY <2>2
  <2> HIDE DEF again
  <2>4. intents' \in Seq(Intent) /\ DOMAIN intents' = DOMAIN intents
    BY <1>1, <1>2, <2>3, Mapped
  <2>5. k \in DOMAIN intents
    BY <2>1 DEF Open, Opens
  <2>6. Opens(intents') = {k}
    <3>1. \A i \in DOMAIN intents' : intents'[i].status = intents[i].status
      BY <1>2, <2>2, <2>4
    <3>2. Opens(intents') = Open
      BY <2>4, <3>1 DEF Opens, Open
    <3> QED
      BY <2>1, <3>2
  <2> QED
    BY <1>2, <2>2, <2>4, <2>5, <2>6
<1>3. CASE intents' = Append(ended, fresh)
  <2>1. \A i \in DOMAIN intents :
           /\ ended[i] \in Intent /\ ended[i].status \notin OpenStatus
           /\ ended[i].from = intents[i].from /\ ended[i].ups = intents[i].ups
    BY <1>1 DEF Intent, OpenStatus
  <2>2. ended \in [DOMAIN intents -> Intent]
    BY <2>1
  <2>3. /\ fresh \in Intent /\ fresh.status \in OpenStatus
        /\ fresh.from = Active /\ fresh.ups = 0
    <3>1. 0 \in 0 .. MaxFaults + 1
      BY IntentsAssumption
    <3> QED
      BY <3>1 DEF Fresh, Intent, OpenStatus
  <2> HIDE DEF ended, fresh
  <2>4. ended \in Seq(Intent) /\ Len(ended) = Len(intents) /\ DOMAIN ended = DOMAIN intents
    BY <1>1, <2>2, Mapped
  <2> DEFINE k == Len(intents) + 1
  <2>5. /\ intents' \in Seq(Intent) /\ DOMAIN intents' = 1 .. k /\ DOMAIN intents = 1 .. Len(intents)
        /\ intents'[k] = fresh /\ Len(intents) \in Nat
        /\ \A i \in DOMAIN intents : intents'[i] = ended[i]
    BY <1>1, <1>3, <2>3, <2>4, AppendProperties
  <2>6. \A i \in DOMAIN intents' : i = k \/ i \in DOMAIN intents
    BY <2>5
  <2>7. k \in DOMAIN intents' /\ k \notin DOMAIN intents
    BY <2>5
  <2> HIDE DEF k
  <2>8. Opens(intents') = {k}
    BY <2>1, <2>3, <2>5, <2>6, <2>7 DEF Opens
  <2>9. DOMAIN intents \subseteq DOMAIN intents'
    BY <2>5 DEF k
  <2> QED
    BY <2>1, <2>3, <2>5, <2>6, <2>7, <2>8, <2>9
<1> QED
  BY <1>2, <1>3 DEF Prepared

LEMMA RestartBotKeepsInv ==
    ASSUME Inv, RestartBot
    PROVE  Inv'
<1>1. UserOp /\ UNCHANGED <<table, boot, serving, due, rec, holds, prompt, past, faults>>
  BY DEF RestartBot
<1>2. /\ job = NoJob /\ ops' \in 0 .. MaxOps
      /\ IntentsInv /\ TableInv /\ JobInv /\ UpsInv /\ RecInv /\ RestInv
      /\ Last \in Nat /\ Active \in Nat /\ Active <= Last
  BY <1>1, UserOpFacts
<1>3. boot \in 1 .. MaxFaults + 1
  BY <1>2, IntentsAssumption DEF RestInv
<1>4. /\ intents' \in Seq(Intent) /\ DOMAIN intents \subseteq DOMAIN intents'
      /\ \E k \in DOMAIN intents' : /\ Opens(intents') = {k}
                                    /\ intents'[k].from = Active /\ intents'[k].ups = 0
      /\ \A i \in DOMAIN intents' :
            \/ intents'[i].from = Active /\ intents'[i].ups = 0
            \/ /\ i \in DOMAIN intents
               /\ intents'[i].from = intents[i].from /\ intents'[i].ups = intents[i].ups
  BY <1>2, <1>3, PreparedFacts DEF RestartBot
<1>5. PICK k \in DOMAIN intents' : /\ Opens(intents') = {k}
                                   /\ intents'[k].from = Active /\ intents'[k].ups = 0
  BY <1>4
<1>6. TableInv' /\ Last' = Last
  BY <1>1, <1>2, SameTable DEF table, past
<1>7. job' = [who |-> User, kind |-> "restart", step |-> "stop", id |-> k, from |-> Active]
  BY <1>5 DEF RestartBot
<1>8. k \in Nat
  BY <1>4, <1>5
<1>9. JobInv'
  <2>1. job' \in Job /\ job'.who = User /\ job'.step = "stop"
    BY <1>2, <1>7, <1>8 DEF Job, Steps
  <2>2. User # None
    BY DEF User, None
  <2> QED
    BY <2>1, <2>2 DEF JobInv, Free
<1>10. IntentsInv'
  BY <1>4, <1>5 DEF IntentsInv, Open
<1>11. UpsInv'
  <2>1. \A i \in DOMAIN intents :
           /\ intents[i].from <= Last
           /\ intents[i].from # 0 /\ intents[i].ups # 0 => intents[i].ups = 1 /\ intents[i].from < Last
    BY <1>2 DEF UpsInv
  <2>2. \A i \in DOMAIN intents' :
           /\ intents'[i].from <= Last
           /\ intents'[i].from # 0 /\ intents'[i].ups # 0 => intents'[i].ups = 1 /\ intents'[i].from < Last
    BY <1>2, <1>4, <2>1
  <2> QED
    BY <1>5, <1>6, <1>7, <2>2 DEF UpsInv
<1>12. RecInv'
  BY <1>1, <1>2, <1>4, <1>7, IntentsAssumption DEF RecInv, past
<1>13. RestInv'
  BY <1>1, <1>2 DEF RestInv
<1> QED
  BY <1>6, <1>9, <1>10, <1>11, <1>12, <1>13 DEF Inv

-----------------------------------------------------------------------------
(* The agents, and what the daemon makes of them.                          *)
Bystander == UNCHANGED <<intents, boot, job, rec, holds, asked, came, loose, ops, faults>>

LEMMA BystanderKeepsInv ==
    ASSUME Inv, Bystander, TableInv', Last' = Last, JobInv',
           serving' \in BOOLEAN, due' \in BOOLEAN, prompt' \in {None, "queued", "sent", "revoked"}
    PROVE  Inv'
<1>1. IntentsInv /\ UpsInv /\ RecInv /\ RestInv
  BY DEF Inv
<1>2. IntentsInv' /\ UpsInv' /\ RecInv'
  BY <1>1 DEF Bystander, IntentsInv, UpsInv, RecInv, Open
<1>3. RestInv'
  BY <1>1 DEF Bystander, RestInv
<1> QED
  BY <1>2, <1>3 DEF Inv

LEMMA SameRunsKeepInv ==
    ASSUME Inv, Bystander, runs' = runs, alive' \subseteq alive, serving' = serving, due' = due,
           prompt' \in {None, "queued", "sent", "revoked"}
    PROVE  Inv'
<1>1. TableInv /\ JobInv /\ RestInv
  BY DEF Inv
<1>2. TableInv' /\ Last' = Last /\ Active' = Active
  BY <1>1, SameTable DEF Bystander
<1>3. JobInv'
  BY <1>1, <1>2 DEF Bystander, JobInv, Free
<1> QED
  BY <1>1, <1>2, <1>3, BystanderKeepsInv DEF RestInv

LEMMA QueueKeepsInv ==
    ASSUME Inv, QueuePrompt \/ SweepQueue \/ FlushQueue
    PROVE  Inv'
<1>1. prompt' \in {None, "queued", "sent", "revoked"}
  BY RestFacts, RevokedIsPrompt DEF QueuePrompt, SweepQueue, FlushQueue
<1>2. Bystander /\ runs' = runs /\ alive' = alive /\ serving' = serving /\ due' = due
  BY DEF QueuePrompt, SweepQueue, FlushQueue, Bystander, table, past
<1> QED
  BY <1>1, <1>2, SameRunsKeepInv

LEMMA AgentEndsKeepsInv ==
    ASSUME Inv, AgentEnds
    PROVE  Inv'
<1>1. alive' \subseteq alive
  BY DEF AgentEnds
<1>2. Bystander /\ runs' = runs /\ serving' = serving /\ due' = due
      /\ prompt' \in {None, "queued", "sent", "revoked"}
  BY RestFacts DEF AgentEnds, Bystander, past
<1> QED
  BY <1>1, <1>2, SameRunsKeepInv

LEMMA PaneExitedKeepsInv ==
    ASSUME Inv, PaneExited
    PROVE  Inv'
<1>1. TableInv /\ JobInv /\ RestInv
  BY DEF Inv
<1>2. /\ Active # 0 /\ Last \in DOMAIN runs /\ Last \notin alive /\ job.step # "launch"
      /\ runs' = [runs EXCEPT ![Last] = "exited"] /\ alive' = alive /\ Bystander
      /\ serving' = serving /\ due' = due
  BY <1>1, RunFacts DEF PaneExited, Bystander, past
<1>3. TableInv' /\ Last' = Last
  <2>1. "exited" \in States
    BY DEF States
  <2> QED
    BY <1>1, <1>2, <2>1, ResetKeepsTable DEF Bystander, TableInv
<1>4. runs'[Last'] = "exited" /\ Active' = 0 /\ runs' # <<>>
  <2>1. runs'[Last'] = "exited"
    BY <1>2, <1>3
  <2>2. Last' # 0
    BY <1>1, <1>2, <1>3, RunFacts
  <2>3. runs' # <<>>
    BY <2>2 DEF Last
  <2> QED
    BY <2>1, <2>3 DEF Active, ActiveIn, Last, Live
<1>5. JobInv'
  BY <1>1, <1>2, <1>3, <1>4 DEF JobInv, Bystander, Free
<1>6. prompt' \in {None, "queued", "sent", "revoked"}
  BY RestFacts, RevokedIsPrompt DEF PaneExited
<1> QED
  BY <1>1, <1>2, <1>3, <1>5, <1>6, BystanderKeepsInv DEF RestInv

LEMMA ReconcileKeepsInv ==
    ASSUME Inv, Reconcile
    PROVE  Inv'
<1>1. TableInv /\ JobInv /\ RestInv /\ job = NoJob
  BY DEF Inv, JobInv, Reconcile
<1>2. Bystander /\ alive' = alive /\ serving' \in BOOLEAN /\ due' \in BOOLEAN
      /\ prompt' \in {None, "queued", "sent", "revoked"}
  BY <1>1, RestFacts, RevokedIsPrompt DEF Reconcile, Bystander, past, RestInv
<1>3. TableInv' /\ Last' = Last
  <2>1. CASE runs' = runs
    BY <1>1, <1>2, <2>1, SameTable DEF Bystander
  <2>2. ASSUME NEW state \in Seen(runs[Last]), Active # 0, runs' = [runs EXCEPT ![Last] = state]
        PROVE  TableInv' /\ Last' = Last
    <3>1. state \in States /\ (Last \in alive => state \in Live)
      BY <2>2 DEF Seen, States, Live
    <3> QED
      BY <1>1, <1>2, <2>2, <3>1, ResetKeepsTable DEF Bystander, TableInv
  <2> QED
    BY <2>1, <2>2 DEF Reconcile
<1>4. JobInv'
  <2>1. job' = NoJob
    BY <1>1, <1>2 DEF Bystander
  <2> QED
    BY <1>3, <2>1, LeaveFacts
<1> QED
  BY <1>2, <1>3, <1>4, BystanderKeepsInv

-----------------------------------------------------------------------------
(* The recovery.                                                           *)
WorkerState == [at : {"idle", "due", "retry", "claimed", "working", "failing"}, id : Nat]

LEMMA RecReplaced ==
    ASSUME RecInv, NEW w \in Workers, NEW r \in WorkerState, rec' = [rec EXCEPT ![w] = r],
           r.at # "idle" => r.id \in DOMAIN intents', job'.who = w => r.at = "working",
           \A v \in Workers : job'.who = v => v = w \/ job.who = v,
           DOMAIN intents' = DOMAIN intents,
           holds' \subseteq DOMAIN intents, loose' \subseteq DOMAIN intents
    PROVE  RecInv'
<1>1. rec \in [Workers -> WorkerState] /\ rec' \in [Workers -> WorkerState]
  BY DEF RecInv, WorkerState
<1>2. \A v \in Workers : rec'[v] = IF v = w THEN r ELSE rec[v]
  BY <1>1
<1>3. \A v \in Workers : /\ rec'[v].at # "idle" => rec'[v].id \in DOMAIN intents'
                         /\ job'.who = v => rec'[v].at = "working"
  BY <1>2 DEF RecInv
<1> QED
  BY <1>1, <1>3 DEF RecInv, WorkerState

(* Not the worker that has the lock, or it stays at work.                  *)
LEMMA WorkerMoves ==
    ASSUME RecInv, NEW w \in Workers, Idle(w) \/ \E s \in {"claimed", "working", "retry", "failing"} : At(w, s),
           rec[w].at # "idle", rec[w].at # "working" \/ job'.who = None,
           job' = job \/ job'.who = None \/ (job'.who = w /\ At(w, "working")),
           DOMAIN intents' = DOMAIN intents,
           holds' \subseteq DOMAIN intents, loose' \subseteq DOMAIN intents
    PROVE  RecInv'
<1>1. rec \in [Workers -> WorkerState] /\ rec[w] \in WorkerState /\ rec[w].id \in DOMAIN intents
  BY DEF RecInv, WorkerState
<1>2. None \notin Workers
  BY IntentsAssumption
<1>3. job' = job => job'.who # w
  BY <1>2 DEF RecInv
<1>4. \A v \in Workers : job'.who = v => v = w \/ job.who = v
  BY <1>2
<1>5. CASE Idle(w)
  <2>1. NoRec \in WorkerState /\ NoRec.at = "idle"
    BY DEF NoRec, WorkerState
  <2>2. job'.who = w => FALSE
    <3>1. CASE At(w, "working")
      <4>1. rec'[w] = NoRec /\ rec'[w].at = "working"
        BY <1>1, <1>5, <3>1 DEF Idle, At, WorkerState
      <4> QED
        BY <4>1 DEF NoRec
    <3> QED
      BY <1>2, <1>3, <3>1
  <2> QED
    BY <1>4, <1>5, <2>1, <2>2, RecReplaced DEF Idle
<1>6. ASSUME NEW s \in {"claimed", "working", "retry", "failing"}, At(w, s)
      PROVE  RecInv'
  <2> DEFINE r == [rec[w] EXCEPT !.at = s]
  <2>1. rec' = [rec EXCEPT ![w] = r]
    BY <1>6 DEF At
  <2>2. r \in WorkerState /\ r.at = s /\ r.id = rec[w].id
    BY <1>1, <1>6 DEF WorkerState
  <2>3. job'.who = w => s = "working"
    <3>1. CASE At(w, "working")
      <4>1. rec'[w].at = "working"
        BY <1>1, <3>1 DEF At, WorkerState
      <4>2. rec'[w] = r
        BY <1>1, <2>1
      <4> QED
        BY <2>2, <4>1, <4>2
    <3> QED
      BY <1>2, <1>3, <3>1
  <2> HIDE DEF r
  <2> QED
    BY <1>1, <1>4, <2>1, <2>2, <2>3, RecReplaced
<1> QED
  BY <1>5, <1>6

LEMMA RecoveryKeepsInv ==
    ASSUME Inv, Kept, RecInv', UNCHANGED <<runs, alive, asked, came, job, boot, serving, prompt>>,
           due' \in BOOLEAN, ops' \in 0 .. MaxOps, faults' \in 0 .. MaxFaults, faults <= faults'
    PROVE  Inv'
<1>1. IntentsInv /\ TableInv /\ JobInv /\ UpsInv /\ RestInv
  BY DEF Inv
<1>2. TableInv' /\ Last' = Last /\ Active' = Active /\ Last \in Nat
  BY <1>1, SameTable, RunFacts
<1>3. JobInv'
  BY <1>1, <1>2 DEF JobInv, Free
<1>4. IntentsInv'
  BY <1>1, KeptIsGood
<1>5. UpsInv'
  <2>1. GoesOn
    BY DEF GoesOn
  <2> QED
    BY <1>1, <1>2, <2>1, UpsStays
<1>6. RestInv'
  <2>1. MaxFaults \in Nat
    BY IntentsAssumption
  <2>2. faults \in Nat /\ faults' \in Nat /\ boot \in Nat /\ 1 <= boot /\ boot <= faults + 1
    BY <1>1, <2>1 DEF RestInv
  <2>3. boot' \in 1 .. faults' + 1
    BY <2>2, Counted
  <2> QED
    BY <1>1, <2>3 DEF RestInv
<1> QED
  BY <1>2, <1>3, <1>4, <1>5, <1>6 DEF Inv

LEMMA FaultFacts ==
    ASSUME Inv, faults' = faults \/ (faults < MaxFaults /\ faults' = faults + 1)
    PROVE  faults' \in 0 .. MaxFaults /\ faults <= faults'
BY RestFacts

LEMMA ReconnectKeepsInv ==
    ASSUME Inv, Reconnect
    PROVE  Inv'
<1>1. IntentsInv /\ RecInv /\ RestInv /\ MaxOps \in Nat
  BY IntentsAssumption DEF Inv
<1>2. Kept
  BY <1>1, UnchangedIsKept DEF Reconnect
<1>3. RecInv'
  BY <1>1 DEF Reconnect, RecInv, past
<1>4. ops' \in 0 .. MaxOps
  BY <1>1 DEF Reconnect, RestInv
<1> QED
  BY <1>2, <1>3, <1>4, FaultFacts, RecoveryKeepsInv DEF Reconnect, table, past

LEMMA RecoverHostKeepsInv ==
    ASSUME Inv, NEW w \in Workers, RecoverHost(w)
    PROVE  Inv'
<1>1. IntentsInv /\ RecInv /\ RestInv
  BY DEF Inv
<1>2. PICK overdue \in {{}, Open} :
         intents' = [i \in DOMAIN intents |->
             IF i \in overdue THEN [intents[i] EXCEPT !.status = "failed", !.told = TRUE] ELSE intents[i]]
  BY DEF RecoverHost
<1>3. \A i \in DOMAIN intents :
         /\ intents'[i] \in Intent /\ intents'[i].from = intents[i].from /\ intents'[i].ups = intents[i].ups
         /\ intents'[i].status \in OpenStatus => intents[i].status \in OpenStatus
  <2> SUFFICES ASSUME NEW i \in DOMAIN intents
               PROVE  /\ intents'[i] \in Intent /\ intents'[i].from = intents[i].from
                      /\ intents'[i].ups = intents[i].ups
                      /\ intents'[i].status \in OpenStatus => intents[i].status \in OpenStatus
    OBVIOUS
  <2>1. intents[i] \in Intent
    BY <1>1 DEF IntentsInv
  <2>2. intents'[i] \in {intents[i], [intents[i] EXCEPT !.status = "failed", !.told = TRUE]}
    BY <1>2
  <2> QED
    BY <2>1, <2>2 DEF Intent, OpenStatus
<1>4. Kept
  <2>1. intents' \in [DOMAIN intents -> Intent]
    BY <1>2, <1>3
  <2>2. intents' \in Seq(Intent) /\ DOMAIN intents' = DOMAIN intents
    BY <1>1, <2>1, Mapped DEF IntentsInv
  <2> QED
    BY <1>3, <2>2 DEF Kept
<1>5. RecInv'
  <2>1. UNCHANGED <<job, loose>> /\ holds' \subseteq DOMAIN intents' /\ DOMAIN intents' = DOMAIN intents
    BY <1>1, <1>4 DEF RecoverHost, past, RecInv, Kept
  <2>2. CASE rec' = rec
    BY <1>1, <2>1, <2>2 DEF RecInv
  <2>3. CASE Opens(intents') # {} /\
             rec' = [rec EXCEPT ![w] = [at |-> "due", id |-> CHOOSE i \in Opens(intents') : TRUE]]
    <3> DEFINE id == CHOOSE i \in Opens(intents') : TRUE
               r == [at |-> "due", id |-> id]
    <3>1. id \in DOMAIN intents'
      BY <2>3 DEF Opens
    <3>2. id \in Nat
      BY <1>1, <2>1, <3>1 DEF IntentsInv
    <3> HIDE DEF id
    <3>3. r \in WorkerState /\ r.at = "due" /\ r.id = id
      BY <3>2 DEF WorkerState
    <3>4. rec' = [rec EXCEPT ![w] = r]
      BY <2>3 DEF id
    <3>5. job'.who # w
      BY <1>1, <2>1 DEF RecInv, RecoverHost
    <3> HIDE DEF r
    <3> QED
      BY <1>1, <2>1, <3>1, <3>3, <3>4, <3>5, RecReplaced DEF RecInv
  <2> QED
    BY <2>2, <2>3 DEF RecoverHost
<1>6. faults' = faults \/ (faults < MaxFaults /\ faults' = faults + 1)
  BY DEF RecoverHost
<1>7. /\ UNCHANGED <<runs, alive, asked, came, job, boot, serving, prompt, ops>> /\ due' \in BOOLEAN
      /\ ops' \in 0 .. MaxOps
  BY <1>1 DEF RecoverHost, table, past, RestInv
<1> QED
  BY <1>4, <1>5, <1>6, <1>7, FaultFacts, RecoveryKeepsInv

(* A claim leaves what the intent is for.                                  *)
LEMMA ClaimedIntent ==
    ASSUME NEW i \in Intent, NEW b \in 0 .. MaxFaults + 1
    PROVE  LET e == [i EXCEPT !.status = "running", !.owner = b, !.attempts = @ + 1] IN
           /\ e \in Intent /\ e.from = i.from /\ e.ups = i.ups
           /\ e.born = i.born /\ e.status = "running" /\ e.owner = b
<1>1. i.attempts + 1 \in Nat
  BY DEF Intent
<1> QED
  BY <1>1 DEF Intent, OpenStatus

LEMMA DriveOnceKeepsInv ==
    ASSUME Inv, NEW w \in Workers, DriveOnce(w)
    PROVE  Inv'
<1>1. IntentsInv /\ RecInv /\ RestInv
  BY DEF Inv
<1>2. Kept
  <2> DEFINE id == rec[w].id
             e == [intents[id] EXCEPT !.status = "running", !.owner = boot, !.attempts = @ + 1]
  <2>1. CASE intents' = intents
    BY <1>1, <2>1, UnchangedIsKept
  <2>2. CASE Claimable(intents[id]) /\ intents' = [intents EXCEPT ![id].status = "running",
                ![id].owner = boot, ![id].attempts = @ + 1]
    <3>1. id \in DOMAIN intents
      BY <1>1 DEF RecInv, DriveOnce
    <3>2. intents[id] \in Intent
      BY <1>1, <3>1 DEF IntentsInv
    <3>3. intents' = [intents EXCEPT ![id] = e]
      BY <2>2
    <3>4. boot \in 0 .. MaxFaults + 1
      BY <1>1, IntentsAssumption DEF RestInv
    <3>5. e \in Intent /\ e.from = intents[id].from /\ e.ups = intents[id].ups
      BY <3>2, <3>4, ClaimedIntent
    <3>6. intents[id].status \in OpenStatus
      BY <2>2 DEF Claimable, OpenStatus
    <3> HIDE DEF e, id
    <3> QED
      BY <1>1, <3>3, <3>5, <3>6, ReplacedIsKept
  <2> QED
    BY <2>1, <2>2 DEF DriveOnce
<1>3. RecInv'
  <2>1. Idle(w) \/ \E s \in {"claimed", "working", "retry", "failing"} : At(w, s)
    BY DEF DriveOnce, Finished
  <2>2. holds' \subseteq DOMAIN intents /\ loose' \subseteq DOMAIN intents /\ job' = job
    BY <1>1 DEF DriveOnce, Finished, RecInv, past
  <2> QED
    BY <1>1, <1>2, <2>1, <2>2, WorkerMoves DEF DriveOnce, Kept
<1>4. faults' = faults \/ (faults < MaxFaults /\ faults' = faults + 1)
  BY DEF DriveOnce
<1>5. /\ UNCHANGED <<runs, alive, asked, came, job, boot, serving, prompt, ops>> /\ due' \in BOOLEAN
      /\ ops' \in 0 .. MaxOps
  BY <1>1 DEF DriveOnce, table, past, RestInv
<1> QED
  BY <1>2, <1>3, <1>4, <1>5, FaultFacts, RecoveryKeepsInv

LEMMA StopWaitingKeepsInv ==
    ASSUME Inv, NEW w \in Workers, StopWaiting(w)
    PROVE  Inv'
<1>1. IntentsInv /\ RecInv /\ RestInv
  BY DEF Inv
<1>2. Kept
  BY <1>1, UnchangedIsKept DEF StopWaiting
<1>3. RecInv'
  <2>1. rec[w].at = "retry" /\ rec[w].id \in DOMAIN intents
    BY <1>1 DEF RecInv, StopWaiting
  <2>2. Idle(w) /\ job' = job /\ holds' \subseteq DOMAIN intents /\ loose' \subseteq DOMAIN intents
    BY <1>1, <2>1 DEF StopWaiting, Finished, RecInv
  <2> QED
    BY <1>1, <1>2, <2>1, <2>2, WorkerMoves DEF Kept
<1>4. /\ UNCHANGED <<runs, alive, asked, came, job, boot, serving, prompt, ops, faults>>
      /\ due' \in BOOLEAN /\ ops' \in 0 .. MaxOps
  BY <1>1 DEF StopWaiting, table, RestInv
<1> QED
  BY <1>2, <1>3, <1>4, FaultFacts, RecoveryKeepsInv

LEMMA FailAttemptKeepsInv ==
    ASSUME Inv, NEW w \in Workers, FailAttempt(w)
    PROVE  Inv'
<1>1. IntentsInv /\ RecInv /\ RestInv
  BY DEF Inv
<1>2. rec[w].at = "failing" /\ rec[w].id \in DOMAIN intents
  BY <1>1 DEF RecInv, FailAttempt
<1>3. Kept
  <2>1. CASE intents' = intents
    BY <1>1, <2>1, UnchangedIsKept
  <2>2. CASE intents' = Ended(rec[w].id, "failed", TRUE)
    BY <1>1, <2>2, EndedIsKept
  <2>3. CASE intents' = Returned(rec[w].id)
    BY <1>1, <1>2, <2>3, ReturnedIsKept
  <2> QED
    BY <2>1, <2>2, <2>3 DEF FailAttempt
<1>4. RecInv'
  <2>1. Idle(w) \/ \E s \in {"claimed", "working", "retry", "failing"} : At(w, s)
    BY DEF FailAttempt, Finished
  <2>2. holds' \subseteq DOMAIN intents /\ loose' \subseteq DOMAIN intents /\ job' = job
    BY <1>1 DEF FailAttempt, Finished, RecInv, past
  <2> QED
    BY <1>1, <1>2, <1>3, <2>1, <2>2, WorkerMoves DEF Kept
<1>5. faults' = faults \/ (faults < MaxFaults /\ faults' = faults + 1)
  BY DEF FailAttempt
<1>6. /\ UNCHANGED <<runs, alive, asked, came, job, boot, serving, prompt, ops>> /\ due' \in BOOLEAN
      /\ ops' \in 0 .. MaxOps
  BY <1>1 DEF FailAttempt, table, past, RestInv
<1> QED
  BY <1>3, <1>4, <1>5, <1>6, FaultFacts, RecoveryKeepsInv

(* What resume concludes fits what the attempt knows.                      *)
LEMMA ResumeKeepsInv ==
    ASSUME Inv, NEW w \in Workers, Resume(w)
    PROVE  Inv'
<1>1. IntentsInv /\ TableInv /\ JobInv /\ UpsInv /\ RecInv /\ RestInv
  BY DEF Inv
<1>2. rec[w].at = "claimed" /\ rec[w].id \in DOMAIN intents /\ job = NoJob
  BY <1>1 DEF RecInv, JobInv, Resume
<1>3. CASE Finished(w) /\ job' = job
  <2>1. Kept
    BY <1>1, UnchangedIsKept DEF Resume
  <2>2. RecInv'
    <3>1. holds' \subseteq DOMAIN intents /\ loose' \subseteq DOMAIN intents /\ Idle(w)
      BY <1>1, <1>3 DEF Finished, RecInv, Resume, past
    <3> QED
      BY <1>1, <1>2, <1>3, <2>1, <3>1, WorkerMoves DEF Kept
  <2>3. /\ UNCHANGED <<runs, alive, asked, came, job, boot, serving, prompt, ops, faults>>
        /\ due' \in BOOLEAN /\ ops' \in 0 .. MaxOps
    BY <1>1, <1>3 DEF Resume, table, past, RestInv
  <2> QED
    BY <2>1, <2>2, <2>3, FaultFacts, RecoveryKeepsInv
<1>4. CASE At(w, "working") /\ holds' = holds /\
           job' = [who |-> w, kind |-> "restart", step |-> Verdict(intents[rec[w].id].from),
                   id |-> rec[w].id, from |-> intents[rec[w].id].from]
  <2> DEFINE id == rec[w].id
             from == intents[id].from
             s == Verdict(from)
  <2>1. /\ id \in DOMAIN intents /\ id \in Nat /\ from \in Nat /\ from <= Last /\ intents[id].ups \in Nat
        /\ from # 0 /\ intents[id].ups # 0 => from < Last
    <3>1. intents[id] \in Intent
      BY <1>1, <1>2 DEF IntentsInv
    <3>2. id \in Nat
      BY <1>1, <1>2 DEF IntentsInv
    <3> QED
      BY <1>1, <1>2, <3>1, <3>2 DEF Intent, UpsInv
  <2> HIDE DEF id, from
  <2>2. s \in {"done", "abandoned", "stop", "label"}
    BY DEF Verdict
  <2>3. s = "label" => Active = 0
    BY DEF Verdict
  <2>4. s \in {"stop", "label"} => ~(from # 0 /\ from < Last)
    BY <1>1, <2>1, RunFacts DEF Verdict
  <2> HIDE DEF s
  <2>5. /\ job' \in Job /\ job'.who = w /\ job'.step = s /\ job'.kind = "restart" /\ job'.id = id
    <3>1. job' = [who |-> w, kind |-> "restart", step |-> s, id |-> id, from |-> from]
      BY <1>4 DEF id, from, s
    <3>2. s \in Steps
      BY <2>2 DEF Steps
    <3> QED
      BY <2>1, <3>1, <3>2 DEF Job
  <2>6. TableInv' /\ Last' = Last /\ Active' = Active
    BY <1>1, SameTable DEF Resume, table, past
  <2>7. JobInv'
    <3>1. w # None
      BY IntentsAssumption
    <3> QED
      BY <2>2, <2>3, <2>5, <2>6, <3>1 DEF JobInv, Free
  <2>8. IntentsInv' /\ intents' = intents
    BY <1>1 DEF IntentsInv, Open, Resume
  <2>9. UpsInv'
    <3>1. s \in ToLaunch => s \in {"stop", "label"}
      BY <2>2 DEF ToLaunch
    <3>2. s # "launch"
      BY <2>2
    <3>3. job'.step \in ToLaunch /\ intents[id].from # 0 => intents[id].ups = 0
      BY <2>1, <2>4, <2>5, <3>1 DEF from
    <3> QED
      BY <1>1, <2>1, <2>5, <2>6, <2>8, <3>2, <3>3 DEF UpsInv
  <2>10. RecInv'
    <3>1. holds' \subseteq DOMAIN intents /\ loose' \subseteq DOMAIN intents
          /\ DOMAIN intents' = DOMAIN intents
      BY <1>1, <1>4, <2>8 DEF RecInv, Resume, past
    <3> QED
      BY <1>1, <1>2, <1>4, <2>5, <3>1, WorkerMoves
  <2>11. RestInv'
    BY <1>1 DEF Resume, RestInv
  <2> QED
    BY <2>6, <2>7, <2>8, <2>9, <2>10, <2>11 DEF Inv
<1> QED
  BY <1>3, <1>4 DEF Resume

LEMMA SettleAttemptKeepsInv ==
    ASSUME Inv, NEW w \in Workers, SettleAttempt(w)
    PROVE  Inv'
<1>1. IntentsInv /\ TableInv /\ JobInv /\ UpsInv /\ RecInv /\ RestInv
  BY DEF Inv
<1>2. rec[w].at = "working" /\ job' = NoJob /\ job'.who = None
  BY <1>1 DEF RecInv, SettleAttempt, Leave, NoJob
<1>3. TableInv' /\ Last' = Last /\ Last \in Nat
  BY <1>1, SameTable, RunFacts DEF SettleAttempt, table, past
<1>4. JobInv' /\ GoesOn
  BY <1>1, <1>2, <1>3, LeaveGoesOn DEF Leave
<1>5. Kept
  <2>1. CASE intents' = intents
    BY <1>1, <2>1, UnchangedIsKept
  <2>2. CASE job.step # "failed" /\ intents' = Ended(job.id, job.step, FALSE)
    <3>1. job.step \in {"done", "abandoned", "failed"}
      BY DEF SettleAttempt
    <3> QED
      BY <1>1, <2>2, <3>1, EndedIsKept
  <2> QED
    BY <2>1, <2>2 DEF SettleAttempt
<1>6. IntentsInv' /\ UpsInv'
  BY <1>1, <1>3, <1>4, <1>5, KeptIsGood, UpsStays
<1>7. RecInv'
  <2>1. Idle(w) \/ \E s \in {"claimed", "working", "retry", "failing"} : At(w, s)
    BY DEF SettleAttempt, Finished
  <2>2. holds' \subseteq DOMAIN intents /\ loose' \subseteq DOMAIN intents
    BY <1>1 DEF SettleAttempt, Finished, RecInv, past
  <2> QED
    BY <1>1, <1>2, <1>5, <2>1, <2>2, WorkerMoves DEF Kept
<1>8. RestInv'
  <2>1. MaxFaults \in Nat
    BY IntentsAssumption
  <2>2. faults' = faults \/ (faults < MaxFaults /\ faults' = faults + 1)
    BY DEF SettleAttempt
  <2>3. faults' \in 0 .. MaxFaults /\ faults <= faults'
    BY <2>2, FaultFacts
  <2>4. faults \in Nat /\ faults' \in Nat /\ boot \in Nat /\ 1 <= boot /\ boot <= faults + 1
    BY <1>1, <2>1, <2>3 DEF RestInv
  <2>5. boot' \in 1 .. faults' + 1
    BY <2>3, <2>4, Counted DEF SettleAttempt
  <2> QED
    BY <1>1, <2>3, <2>5 DEF RestInv, SettleAttempt
<1> QED
  BY <1>3, <1>4, <1>6, <1>7, <1>8 DEF Inv

LEMMA CrashKeepsInv ==
    ASSUME Inv, Crash
    PROVE  Inv'
<1>1. IntentsInv /\ TableInv /\ JobInv /\ UpsInv /\ RecInv /\ RestInv
  BY DEF Inv
<1>2. TableInv' /\ Last' = Last /\ Last \in Nat
  BY <1>1, SameTable, RunFacts DEF Crash, table
<1>3. JobInv' /\ GoesOn /\ job'.who = None
  BY <1>2, LeaveFacts DEF Crash, GoesOn
<1>4. Kept /\ intents' = intents
  BY <1>1, UnchangedIsKept DEF Crash
<1>5. IntentsInv' /\ UpsInv'
  BY <1>1, <1>2, <1>3, <1>4, KeptIsGood, UpsStays
<1>6. RecInv'
  <2>1. \A v \in Workers : rec'[v] = NoRec
    BY DEF Crash
  <2>2. rec' \in [Workers -> WorkerState] /\ NoRec.at = "idle"
    BY DEF Crash, NoRec, WorkerState
  <2>3. holds' \subseteq DOMAIN intents /\ loose' \subseteq DOMAIN intents
    BY DEF Crash, Open, Opens
  <2> QED
    BY <1>1, <1>3, <1>4, <2>1, <2>2, <2>3, IntentsAssumption DEF RecInv, WorkerState
<1>7. RestInv'
  <2>1. MaxFaults \in Nat
    BY IntentsAssumption
  <2>2. faults \in Nat /\ faults < faults' /\ faults' \in Nat /\ faults' <= MaxFaults
    <3>1. faults \in Nat /\ faults <= MaxFaults
      BY <1>1, <2>1 DEF RestInv
    <3>2. \/ faults < MaxFaults /\ faults' = faults + 1
          \/ faults + 1 < MaxFaults /\ faults' = faults + 2
      BY DEF Crash
    <3> QED
      BY <2>1, <3>1, <3>2
  <2>3. boot \in 1 .. faults + 1 /\ boot' = boot + 1
    BY <1>1 DEF RestInv, Crash
  <2>4. boot' \in 1 .. faults' + 1 /\ faults' \in 0 .. MaxFaults
    <3>1. boot \in Nat /\ 1 <= boot /\ boot <= faults + 1
      BY <2>2, <2>3
    <3>2. boot' \in Nat /\ 1 <= boot' /\ boot' = boot + 1
      BY <2>3, <3>1
    <3>3. boot + 1 <= faults' + 1
      <4>1. \A m, n, k \in Nat : m <= n + 1 /\ n < k => m + 1 <= k + 1
        OBVIOUS
      <4> QED
        BY <2>2, <3>1, <4>1, Zenon
    <3>4. boot' \in 1 .. faults' + 1
      BY <2>2, <3>2, <3>3
    <3>5. faults' \in 0 .. MaxFaults
      BY <2>1, <2>2
    <3> QED
      BY <3>4, <3>5
  <2>5. UNCHANGED <<ops, prompt>> /\ serving' \in BOOLEAN /\ due' \in BOOLEAN
    BY DEF Crash
  <2> QED
    BY <1>1, <2>4, <2>5 DEF RestInv
<1> QED
  BY <1>2, <1>3, <1>5, <1>6, <1>7 DEF Inv

-----------------------------------------------------------------------------
(* The invariant holds, and with it what it implies.                       *)
LEMMA InitInv == Init => Inv
<1> SUFFICES ASSUME Init
             PROVE  Inv
  OBVIOUS
<1>1. runs = <<"running">> /\ alive = {1} /\ came = {1} /\ asked = {}
  BY DEF Init
<1>2. runs \in Seq(States) /\ Len(runs) = 1 /\ runs[1] = "running" /\ DOMAIN runs = {1} /\ runs # <<>>
  BY <1>1 DEF States, Live
<1>3. TableInv
  BY <1>1, <1>2 DEF TableInv, AgentsAreOwned, Active, ActiveIn, Live
<1>4. job = NoJob
  BY DEF Init
<1>5. JobInv
  BY <1>4 DEF JobInv, NoJob, Job, Free, None
<1>6. intents = <<>> /\ holds = {} /\ loose = {} /\ rec = [w \in Workers |-> NoRec]
  BY DEF Init
<1>7. IntentsInv
  BY <1>6 DEF IntentsInv, Open, Opens
<1>8. UpsInv
  BY <1>4, <1>6 DEF UpsInv, NoJob, None
<1>9. RecInv
  BY <1>4, <1>6, IntentsAssumption DEF RecInv, NoRec, NoJob
<1>10. RestInv
  <2>1. MaxOps \in Nat /\ MaxFaults \in Nat
    BY IntentsAssumption
  <2>2. ops = 0 /\ faults = 0 /\ boot = 1 /\ serving = TRUE /\ due = FALSE /\ prompt = None
    BY DEF Init
  <2>3. ops \in 0 .. MaxOps /\ faults \in 0 .. MaxFaults /\ boot \in 1 .. faults + 1
    BY <2>1, <2>2
  <2> QED
    BY <2>2, <2>3 DEF RestInv
<1> QED
  BY <1>3, <1>5, <1>7, <1>8, <1>9, <1>10 DEF Inv

LEMMA StutterKeepsInv ==
    ASSUME Inv, UNCHANGED vars
    PROVE  Inv'
<1>1. UNCHANGED <<runs, alive, intents, boot, serving, due, job, rec, holds, prompt, asked, came,
                  loose, ops, faults>>
  BY DEF vars
<1>2. Bystander /\ runs' = runs /\ alive' \subseteq alive /\ serving' = serving /\ due' = due
      /\ prompt' \in {None, "queued", "sent", "revoked"}
  BY <1>1, RestFacts DEF Bystander
<1> QED
  BY <1>2, SameRunsKeepInv

LEMMA NextKeepsInv == Inv /\ [Next]_vars => Inv'
<1> SUFFICES ASSUME Inv, [Next]_vars
             PROVE  Inv'
  OBVIOUS
<1>1. CASE UserOps
  BY <1>1, RestartBotKeepsInv, StopOrStartKeepsInv, QueueKeepsInv DEF UserOps
<1>2. CASE JobStep
  BY <1>2, BeginStopKeepsInv, KillKeepsInv, CommitStoppedKeepsInv, RelabelThenStartKeepsInv,
     InsertRunKeepsInv, LaunchKeepsInv, RecordRunningKeepsInv, GiveUpKeepsInv, SettleRestartKeepsInv
     DEF JobStep
<1>3. CASE AgentEnds \/ PaneExited \/ Reconcile \/ SweepQueue \/ FlushQueue
  BY <1>3, AgentEndsKeepsInv, PaneExitedKeepsInv, ReconcileKeepsInv, QueueKeepsInv
<1>4. CASE Reconnect \/ Crash
  BY <1>4, ReconnectKeepsInv, CrashKeepsInv
<1>5. ASSUME NEW w \in Workers, Recovery(w)
      PROVE  Inv'
  BY <1>5, RecoverHostKeepsInv, DriveOnceKeepsInv, StopWaitingKeepsInv, ResumeKeepsInv,
     SettleAttemptKeepsInv, FailAttemptKeepsInv DEF Recovery
<1>6. CASE UNCHANGED vars
  BY <1>6, StutterKeepsInv
<1> QED
  BY <1>1, <1>2, <1>3, <1>4, <1>5, <1>6 DEF Next

(* The variables have their types and at most one intent is open, whatever *)
(* restarts, crashes and recoveries there were.                            *)
THEOREM TypesHold == Spec => []TypeOK
<1>1. Inv => TypeOK
  BY InvImplies
<1> QED
  BY <1>1, InitInv, NextKeepsInv, PTL DEF Spec

(* No agent lives outside the bot's active run: no interleaving of stop,   *)
(* start, exit, reconcile and recovery leaves one behind or starts a       *)
(* second.                                                                 *)
THEOREM AgentsAreOwnedHolds == Spec => []AgentsAreOwned
<1>1. Inv => AgentsAreOwned
  BY InvImplies
<1> QED
  BY <1>1, InitInv, NextKeepsInv, PTL DEF Spec

(* An intent of a run brings the bot back once, however often its attempts *)
(* die or cannot be settled.                                               *)
THEOREM BroughtBackOnceHolds == Spec => []BroughtBackOnce
<1>1. Inv => BroughtBackOnce
  BY InvImplies
<1> QED
  BY <1>1, InitInv, NextKeepsInv, PTL DEF Spec

=============================================================================
