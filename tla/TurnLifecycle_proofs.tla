------------------------ MODULE TurnLifecycle_proofs ------------------------
(***************************************************************************)
(* What is proved of TurnLifecycle for every set of turns and every bound  *)
(* on runs, retries and failing writes: the type invariant, and that every *)
(* step keeps what TurnGuard promises of a turn.                           *)
(***************************************************************************)
EXTENDS TurnLifecycle, TLAPS

----------------------------------------------------------------------------
(* Types.                                                                  *)

(* The state predicates of Init give every variable a value of its type.   *)
LEMMA InitTypeOK == Init => TypeOK
<1> SUFFICES ASSUME Init PROVE TypeOK
  OBVIOUS
<1>1. RunTypes
  BY DEF Init, RunTypes, RunStates
<1>2. TurnTypes
  BY BoundsAssumption DEF Init, TurnTypes, TurnStates, Deliveries, NoRun
<1>3. LockTypes
  BY DEF Init, LockTypes, LockSteps, NoRun, Outcomes
<1>4. ExitTypes
  BY DEF Init, ExitTypes, ExitSteps
<1>5. LedgerTypes
  BY DEF Init, LedgerTypes, NoRun, Settles
<1>6. OtherTypes
  <2>1. held \in BOOLEAN
    BY DEF Init
  <2>2. faults \in 0 .. MaxFaults /\ typed \in [Turns -> Nat]
    BY BoundsAssumption DEF Init
  <2>3. lostCloses \subseteq Turns \X Run
    BY DEF Init
  <2> QED
    BY <2>1, <2>2, <2>3 DEF OtherTypes
<1> QED
  BY <1>1, <1>2, <1>3, <1>4, <1>5, <1>6 DEF TypeOK

(* What a step leaves alone keeps its type.                                *)
LEMMA Frame ==
    /\ RunTypes /\ UNCHANGED runVars => RunTypes'
    /\ TurnTypes /\ UNCHANGED turnVars => TurnTypes'
    /\ LockTypes /\ UNCHANGED lockVars => LockTypes'
    /\ ExitTypes /\ UNCHANGED exitVars => ExitTypes'
    /\ LedgerTypes /\ UNCHANGED ledgerVars => LedgerTypes'
  BY DEF RunTypes, TurnTypes, LockTypes, ExitTypes, LedgerTypes, runVars,
         turnVars, lockVars, exitVars, ledgerVars

(* Releasing the lock, or going on in the section that holds it.           *)
LEMMA LockMoves ==
    /\ Release => LockTypes'
    /\ \A step \in LockSteps : LockTypes /\ GoTo(step) => LockTypes'
  BY DEF Release, GoTo, LockTypes, LockSteps, NoRun, Outcomes

(* A database call that succeeds, or fails within the bound.               *)
LEMMA FaultTypes ==
    ASSUME OtherTypes, UNCHANGED typed, held' \in BOOLEAN,
           lostCloses' \subseteq Turns \X Run,
           DbOk \/ DbFault \/ UNCHANGED faults
    PROVE  OtherTypes'
  BY BoundsAssumption DEF OtherTypes, DbOk, DbFault

(* Closes that are lost are of turns, on runs.                             *)
LEMMA LoseTypes ==
    ASSUME OtherTypes, NEW r \in Run, LoseCloses(r)
    PROVE  lostCloses' \subseteq Turns \X Run
  BY DEF OtherTypes, LoseCloses, InFlightOn

(* Withdrawing queued turns.                                               *)
LEMMA RetractTypes ==
    ASSUME TurnTypes, NEW S, RetractQueued(S),
           UNCHANGED <<runOf, awaitsStart, retries>>
    PROVE  TurnTypes'
  BY DEF TurnTypes, RetractQueued, TurnStates, Deliveries

(* Remembering a retry for a run.                                          *)
LEMMA ScheduleTypes ==
    ASSUME LedgerTypes, NEW r, NEW how \in Settles, Schedule(r, how),
           UNCHANGED <<owedClose, owedWrite>>
    PROVE  LedgerTypes'
  BY DEF LedgerTypes, Schedule

(* What is written when an attempt to deliver is over.                     *)
LEMMA OutcomeTypes ==
    ASSUME TurnTypes, NEW t, NEW o, NEW q, WriteOutcome(t, o, q),
           UNCHANGED awaitsStart
    PROVE  TurnTypes'
<1> USE DEF TurnTypes
<1>1. ASSUME WriteClosed(t) PROVE TurnTypes'
  BY <1>1 DEF WriteClosed, FailTurn, TurnStates, Deliveries
<1>2. ASSUME NEW spent \in {0, 1}, WriteBack(t, spent) PROVE TurnTypes'
  <2>1. CASE status[t] # "in_flight"
    BY <1>2, <2>1 DEF WriteBack
  <2>2. CASE status[t] = "in_flight" /\ (SlotTaken(t) \/ (spent = 1 /\ retries[t] >= RetryLimit))
    BY <1>1, <1>2, <2>2 DEF WriteBack
  <2>3. CASE status[t] = "in_flight" /\ ~(SlotTaken(t) \/ (spent = 1 /\ retries[t] >= RetryLimit))
    <3>1. UNCHANGED delivery /\ status' \in [Turns -> TurnStates]
          /\ runOf' \in [Turns -> Run \cup {NoRun}]
      BY <1>2, <2>3 DEF WriteBack, TurnStates
    <3>2. retries' \in [Turns -> 0 .. RetryLimit]
      BY <1>2, <2>3, BoundsAssumption DEF WriteBack
    <3> QED
      BY <3>1, <3>2
  <2> QED
    BY <2>1, <2>2, <2>3
<1>3. ASSUME WriteRetracted(t) PROVE TurnTypes'
  BY <1>3 DEF WriteRetracted, TurnStates
<1>4. ASSUME delivery' = [delivery EXCEPT ![t] = "ok"]
               \/ delivery' = [delivery EXCEPT ![t] = "unknown"],
             UNCHANGED <<status, runOf, retries>>
      PROVE  TurnTypes'
  BY <1>4 DEF Deliveries
<1> QED
  BY <1>1, <1>2, <1>3, <1>4 DEF WriteOutcome

(* Sections of the lock.                                                   *)
LEMMA LockStepTypes ==
    ASSUME TypeOK, LockStep PROVE TypeOK'
<1> USE DEF TypeOK
<1>1. CASE PromptInsert
  <2> USE <1>1 DEF PromptInsert
  <2>1. TurnTypes'
    BY DEF TurnTypes, TurnStates, GoTo, LockTypes
  <2>2. LockTypes'
    BY LockMoves DEF LockTypes, LockSteps
  <2> QED
    BY <2>1, <2>2, Frame DEF OtherTypes
<1>2. CASE PromptQueue
  <2> USE <1>2 DEF PromptQueue
  <2>1. TurnTypes'
    BY DEF TurnTypes, TurnStates
  <2>2. LockTypes'
    BY LockMoves DEF LockTypes, LockSteps
  <2> QED
    BY <2>1, <2>2, Frame DEF OtherTypes
<1>3. ASSUME NEW o \in Outcomes, TypeText(o) PROVE TypeOK'
  <2> USE <1>3 DEF TypeText
  <2>1. LockTypes'
    BY DEF LockTypes, LockSteps
  <2>2. OtherTypes'
    BY DEF OtherTypes
  <2> QED
    BY <2>1, <2>2, Frame
<1>4. CASE RecordOutcome
  <2> USE <1>4 DEF RecordOutcome
  <2>1. TurnTypes'
    BY OutcomeTypes
  <2>2. LockTypes'
    BY LockMoves DEF LockTypes, LockSteps
  <2>3. LedgerTypes'
    BY DEF LedgerTypes
  <2> QED
    BY <2>1, <2>2, <2>3, Frame DEF OtherTypes
<1>5. CASE RecordFails
  <2> USE <1>5 DEF RecordFails
  <2>1. LockTypes'
    BY LockMoves DEF LockTypes, LockSteps, Outcomes
  <2>2. LedgerTypes'
    BY DEF LedgerTypes, LockTypes
  <2>3. OtherTypes'
    BY FaultTypes DEF OtherTypes, DbOk, DbFault
  <2> QED
    BY <2>1, <2>2, <2>3, Frame
<1>6. CASE FlushClaim
  <2> USE <1>6 DEF FlushClaim
  <2>1. TurnTypes'
    BY DEF TurnTypes, TurnStates, LockTypes
  <2>2. LockTypes'
    BY LockMoves DEF LockTypes, LockSteps
  <2> QED
    BY <2>1, <2>2, Frame DEF OtherTypes
<1>7. CASE ExternalInsert
  <2> USE <1>7 DEF ExternalInsert
  <2>1. TurnTypes'
    BY DEF TurnTypes, TurnStates, LockTypes, Deliveries
  <2>2. LockTypes'
    BY LockMoves DEF LockTypes, LockSteps
  <2> QED
    BY <2>1, <2>2, Frame DEF OtherTypes
<1>8. ASSUME NEW r \in Run, NewRun(r) PROVE TypeOK'
  <2> USE <1>8 DEF NewRun
  <2>1. RunTypes'
    BY DEF RunTypes, RunStates
  <2>2. LockTypes'
    BY DEF LockTypes, LockSteps
  <2> QED
    BY <2>1, <2>2, Frame DEF OtherTypes
<1>9. CASE RestartRefused
  <2> USE <1>9 DEF RestartRefused
  <2>1. LockTypes'
    BY LockMoves DEF LockTypes, LockSteps
  <2> QED
    BY <2>1, Frame DEF OtherTypes
<1>10. CASE Launch
  <2> USE <1>10 DEF Launch
  <2>1. RunTypes'
    BY DEF RunTypes, RunStates
  <2>2. LockTypes'
    BY LockMoves DEF LockTypes, LockSteps
  <2> QED
    BY <2>1, <2>2, Frame DEF OtherTypes
<1>11. CASE LaunchCommit
  <2> USE <1>11 DEF LaunchCommit
  <2>1. RunTypes'
    BY DEF RunTypes, RunStates
  <2>2. LockTypes'
    BY LockMoves DEF LockTypes, LockSteps
  <2>3. LedgerTypes'
    BY ScheduleTypes DEF Settles, Live, LedgerTypes
  <2>4. OtherTypes'
    BY FaultTypes DEF OtherTypes, DbOk, DbFault
  <2> QED
    BY <2>1, <2>2, <2>3, <2>4, Frame
<1>12. CASE LaunchAbort
  <2> USE <1>12 DEF LaunchAbort
  <2>1. RunTypes'
    BY DEF RunTypes, RunStates
  <2>2. LockTypes'
    BY LockMoves DEF LockTypes, LockSteps
  <2>3. LedgerTypes'
    BY ScheduleTypes DEF Settles, Live, LedgerTypes
  <2>4. OtherTypes'
    BY FaultTypes DEF OtherTypes, DbOk, DbFault
  <2> QED
    BY <2>1, <2>2, <2>3, <2>4, Frame
<1>13. CASE RestartFailed
  <2> USE <1>13 DEF RestartFailed
  <2>1. RunTypes'
    BY DEF RunTypes, RunStates, Relabel
  <2>2. TurnTypes'
    BY RetractTypes DEF TurnTypes
  <2>3. LockTypes'
    BY LockMoves DEF LockTypes, LockSteps
  <2>4. LedgerTypes'
    BY ScheduleTypes DEF Settles, Live, LedgerTypes
  <2>5. OtherTypes'
    BY FaultTypes DEF OtherTypes, DbOk, DbFault
  <2> QED
    BY <2>1, <2>2, <2>3, <2>4, <2>5, Frame
<1>14. CASE StopFailTurn
  <2> USE <1>14 DEF StopFailTurn
  <2>1. TurnTypes'
    BY DEF TurnTypes, TurnStates
  <2>2. LockTypes'
    BY LockMoves DEF LockTypes, LockSteps
  <2>3. OtherTypes'
    BY FaultTypes DEF OtherTypes, DbOk, DbFault
  <2> QED
    BY <2>1, <2>2, <2>3, Frame
<1>15. CASE StopKill
  <2> USE <1>15 DEF StopKill
  <2>1. RunTypes'
    BY DEF RunTypes, RunStates
  <2>2. LockTypes'
    BY LockMoves DEF LockTypes, LockSteps
  <2>3. LedgerTypes'
    BY ScheduleTypes DEF Settles, Live, LedgerTypes
  <2>4. OtherTypes'
    BY DEF OtherTypes
  <2> QED
    BY <2>1, <2>2, <2>3, <2>4, Frame
<1>16. CASE StopUndo
  <2> USE <1>16 DEF StopUndo
  <2>1. RunTypes'
    BY DEF RunTypes, RunStates, BackToRunning
  <2>2. LockTypes'
    BY LockMoves DEF LockTypes, LockSteps
  <2>3. LedgerTypes'
    BY ScheduleTypes DEF Settles, Live, LedgerTypes
  <2>4. OtherTypes'
    BY FaultTypes DEF OtherTypes, DbOk, DbFault
  <2> QED
    BY <2>1, <2>2, <2>3, <2>4, Frame
<1>17. CASE StopCommit
  <2> USE <1>17 DEF StopCommit
  <2>1. RunTypes'
    BY DEF RunTypes, RunStates, CommitStopped, Relabel
  <2>2. TurnTypes'
    BY RetractTypes DEF TurnTypes, CommitStopped
  <2>3. LockTypes'
    BY LockMoves DEF LockTypes, LockSteps
  <2>4. LedgerTypes'
    BY ScheduleTypes DEF Settles, Live, LedgerTypes
  <2>5. OtherTypes'
    BY FaultTypes DEF OtherTypes, DbOk, DbFault
  <2> QED
    BY <2>1, <2>2, <2>3, <2>4, <2>5, Frame
<1>18. CASE RestartStopCommit
  <2> USE <1>18 DEF RestartStopCommit
  <2>1. RunTypes'
    BY DEF RunTypes, RunStates
  <2>2. LockTypes'
    BY LockMoves DEF LockTypes, LockSteps
  <2>3. LedgerTypes'
    BY ScheduleTypes DEF Settles, Live, LedgerTypes
  <2>4. OtherTypes'
    BY FaultTypes DEF OtherTypes, DbOk, DbFault
  <2> QED
    BY <2>1, <2>2, <2>3, <2>4, Frame
<1>19. CASE ReconcileDone
  <2> USE <1>19 DEF ReconcileDone
  <2>1. LockTypes'
    BY LockMoves DEF LockTypes, LockSteps
  <2> QED
    BY <2>1, Frame DEF OtherTypes
<1> QED
  BY <1>1, <1>2, <1>3, <1>4, <1>5, <1>6, <1>7, <1>8, <1>9, <1>10, <1>11,
     <1>12, <1>13, <1>14, <1>15, <1>16, <1>17, <1>18, <1>19 DEF LockStep,
     RestartStart

(* The end of a run, and the withdrawal of orphans.                        *)
LEMMA ExitStepTypes ==
    ASSUME TypeOK, NEW p \in Run \cup {Sweep}, ExitStep(p) PROVE TypeOK'
<1> USE DEF TypeOK
<1>1. ASSUME NEW r \in Run, NEW from, NEW lost \in {"again", "idle"},
             ExitCas(r, from, lost), exitSaw[r] \in Live
      PROVE  TypeOK'
  <2> USE <1>1 DEF ExitCas
  <2>1. RunTypes'
    BY DEF RunTypes, RunStates
  <2>2. ExitTypes'
    <3>1. exitAt' \in [Run \cup {Sweep} -> ExitSteps]
      BY DEF ExitTypes, ExitSteps, ExitGoTo
    <3>2. exitSaw' \in [Run -> Live \cup {"none"}]
      BY DEF ExitTypes
    <3>3. ASSUME NEW q \in Run, exitAt'[q] \in {"read", "again"}
          PROVE  exitSaw'[q] \in Live
      BY <3>3 DEF ExitTypes, ExitGoTo
    <3>4. ASSUME NEW q \in Run, exitAt'[q] = "close"
          PROVE  exitTurn'[q] \in Turns
      BY <3>4 DEF ExitTypes, ExitGoTo
    <3>5. exitTurn' \in [Run -> Turns \cup {NoTurn}]
      BY DEF ExitTypes
    <3> QED
      BY <3>1, <3>2, <3>3, <3>4, <3>5 DEF ExitTypes
  <2>3. LedgerTypes'
    BY ScheduleTypes DEF Settles, Live, LedgerTypes
  <2>4. OtherTypes'
    BY FaultTypes DEF OtherTypes, DbOk, DbFault
  <2> QED
    BY <2>1, <2>2, <2>3, <2>4, Frame
<1>2. ASSUME NEW r \in Run, ExitPick(r) PROVE TypeOK'
  <2> USE <1>2 DEF ExitPick
  <2>1. ExitTypes'
    BY DEF ExitTypes, ExitSteps, ExitGoTo, InFlightOn
  <2>2. OtherTypes'
    <3>1. lostCloses' \subseteq Turns \X Run
      BY LoseTypes DEF OtherTypes
    <3> QED
      BY <3>1, FaultTypes DEF OtherTypes, DbOk, DbFault
  <2> QED
    BY <2>1, <2>2, Frame
<1>3. ASSUME NEW r \in Run, ExitClose(r) PROVE TypeOK'
  <2> USE <1>3 DEF ExitClose
  <2>1. TurnTypes'
    BY DEF TurnTypes, TurnStates, FailTurn
  <2>2. ExitTypes'
    BY DEF ExitTypes, ExitSteps, ExitGoTo
  <2>3. LedgerTypes'
    BY DEF LedgerTypes, NoRun
  <2>4. OtherTypes'
    <3>1. exitAt[r] = "close" /\ lostCloses \subseteq Turns \X Run
      BY DEF OtherTypes
    <3>2. owedClose \in [Turns -> Run \cup {NoRun}]
      BY DEF LedgerTypes
    <3>3. CASE UNCHANGED lostCloses
      BY <3>1, <3>3, FaultTypes DEF OtherTypes, DbOk, DbFault
    <3>4. CASE ~UNCHANGED lostCloses
      <4>1. exitTurn[r] \in Turns
        BY <3>1 DEF ExitTypes
      <4>2. /\ owedClose[exitTurn[r]] \in Run \cup {NoRun}
            /\ lostCloses' \subseteq lostCloses \cup
                  ({<<exitTurn[r], owedClose[exitTurn[r]]>>}
                     \ {<<exitTurn[r], NoRun>>})
        BY <3>2, <3>4, <4>1
      <4>3. lostCloses' \subseteq Turns \X Run
        BY <3>1, <4>1, <4>2
      <4> QED
        BY <4>3, FaultTypes DEF OtherTypes, DbOk, DbFault
    <3> QED
      BY <3>3, <3>4
  <2> QED
    BY <2>1, <2>2, <2>3, <2>4, Frame
<1>4. ASSUME OrphanCheck(p) PROVE TypeOK'
  <2> USE <1>4 DEF OrphanCheck
  <2>1. ExitTypes'
    BY DEF ExitTypes, ExitSteps, ExitGoTo
  <2> QED
    BY <2>1, Frame DEF OtherTypes
<1>5. ASSUME OrphanRevoke(p) PROVE TypeOK'
  <2> USE <1>5 DEF OrphanRevoke
  <2>1. TurnTypes'
    BY RetractTypes
  <2>2. ExitTypes'
    BY DEF ExitTypes, ExitSteps, ExitGoTo
  <2> QED
    BY <2>1, <2>2, Frame DEF OtherTypes
<1> QED
  BY <1>1, <1>2, <1>3, <1>4, <1>5 DEF ExitStep, ExitCommit,
     ExitCommitStopping, ExitTypes, ExitSteps

(* What happens to a turn while no section is in progress.                 *)
LEMMA TurnStepTypes ==
    ASSUME TypeOK, NEW t \in Turns, TurnStep(t) PROVE TypeOK'
<1> USE DEF TypeOK
<1>1. ASSUME NEW r \in Run, PromptRead(t, r) PROVE TypeOK'
  <2> USE <1>1 DEF PromptRead
  <2>1. LockTypes'
    BY DEF LockTypes, LockSteps
  <2>2. OtherTypes'
    BY FaultTypes DEF OtherTypes, DbOk, DbFault
  <2> QED
    BY <2>1, <2>2, Frame
<1>2. ASSUME NEW r \in Run, FlushRead(t, r) PROVE TypeOK'
  <2> USE <1>2 DEF FlushRead
  <2>1. LockTypes'
    BY DEF LockTypes, LockSteps
  <2> QED
    BY <2>1, Frame DEF OtherTypes
<1>3. ASSUME NEW r \in Run, ExternalRead(t, r) PROVE TypeOK'
  <2> USE <1>3 DEF ExternalRead
  <2>1. LockTypes'
    BY DEF LockTypes, LockSteps
  <2> QED
    BY <2>1, Frame DEF OtherTypes
<1>4. ASSUME QueueForStart(t) PROVE TypeOK'
  <2> USE <1>4 DEF QueueForStart
  <2>1. TurnTypes'
    BY DEF TurnTypes, TurnStates
  <2> QED
    BY <2>1, Frame DEF OtherTypes
<1>5. ASSUME Withdraw(t) PROVE TypeOK'
  <2> USE <1>5 DEF Withdraw
  <2>1. TurnTypes'
    BY RetractTypes
  <2> QED
    BY <2>1, Frame DEF OtherTypes
<1>6. ASSUME SettleOwedWrite(t) PROVE TypeOK'
  <2> USE <1>6 DEF SettleOwedWrite
  <2>1. TurnTypes'
    BY OutcomeTypes
  <2>2. LedgerTypes'
    BY DEF LedgerTypes
  <2> QED
    BY <2>1, <2>2, Frame DEF OtherTypes
<1>7. ASSUME SettleOwedClose(t) PROVE TypeOK'
  <2> USE <1>7 DEF SettleOwedClose
  <2>1. TurnTypes'
    BY DEF TurnTypes, TurnStates, FailTurn
  <2>2. LedgerTypes'
    BY DEF LedgerTypes, NoRun
  <2> QED
    BY <2>1, <2>2, Frame DEF OtherTypes
<1>8. ASSUME NEW to \in TurnStates, NEW deliv \in Deliveries, CloseTurn(t, to, deliv) PROVE TypeOK'
  <2> USE <1>8 DEF CloseTurn
  <2>1. TurnTypes'
    BY DEF TurnTypes
  <2> QED
    BY <2>1, Frame DEF OtherTypes
<1> QED
  BY <1>1, <1>2, <1>3, <1>4, <1>5, <1>6, <1>7, <1>8 DEF TurnStep,
     HookCompletes, HookFails, Fallback, LateHook, FailNeverSent,
     FailUnconfirmed, TurnTypes, TurnStates, Deliveries

(* What happens to a run while no section is in progress.                  *)
LEMMA RunStepTypes ==
    ASSUME TypeOK, NEW r \in Run, RunStep(r) PROVE TypeOK'
<1> USE DEF TypeOK
<1>1. ASSUME NewRun(r) PROVE TypeOK'
  <2> USE <1>1 DEF NewRun
  <2>1. RunTypes'
    BY DEF RunTypes, RunStates
  <2>2. LockTypes'
    BY DEF LockTypes, LockSteps
  <2> QED
    BY <2>1, <2>2, Frame DEF OtherTypes
<1>2. ASSUME NEW forRestart \in BOOLEAN, StopBegin(r, forRestart) PROVE TypeOK'
  <2> USE <1>2 DEF StopBegin
  <2>1. RunTypes'
    BY DEF RunTypes, RunStates
  <2>2. TurnTypes'
    BY RetractTypes DEF TurnTypes
  <2>3. LockTypes'
    BY DEF LockTypes, LockSteps, NoRun
  <2>4. OtherTypes'
    BY DEF OtherTypes
  <2> QED
    BY <2>1, <2>2, <2>3, <2>4, Frame
<1>3. ASSUME AgentDies(r) PROVE TypeOK'
  <2> USE <1>3 DEF AgentDies
  <2>1. RunTypes'
    BY DEF RunTypes, RunStates
  <2> QED
    BY <2>1, Frame DEF OtherTypes
<1>4. ASSUME ExitRead(r) PROVE TypeOK'
  <2> USE <1>4 DEF ExitRead
  <2>1. ExitTypes'
    BY DEF ExitTypes, ExitSteps, ExitGoTo
  <2> QED
    BY <2>1, Frame DEF OtherTypes
<1>5. ASSUME ReconcileExit(r) PROVE TypeOK'
  <2> USE <1>5 DEF ReconcileExit
  <2>1. LockTypes'
    BY DEF LockTypes, LockSteps
  <2>2. ExitTypes'
    BY DEF ExitTypes, ExitSteps, ExitGoTo
  <2> QED
    BY <2>1, <2>2, Frame DEF OtherTypes
<1>6. ASSUME ReconcileAlive(r) PROVE TypeOK'
  <2> USE <1>6 DEF ReconcileAlive
  <2>1. RunTypes'
    BY DEF RunTypes, RunStates
  <2> QED
    BY <2>1, Frame DEF OtherTypes
<1>7. ASSUME NEW how \in Settles, SettleRun(r, how) PROVE TypeOK'
  <2> USE <1>7 DEF SettleRun
  <2>1. RunTypes'
    BY DEF RunTypes, RunStates, CommitStopped, BackToRunning, Relabel
  <2>2. TurnTypes'
    BY RetractTypes DEF TurnTypes, CommitStopped
  <2>3. LedgerTypes'
    BY DEF LedgerTypes
  <2>4. OtherTypes'
    BY LoseTypes DEF OtherTypes
  <2> QED
    BY <2>1, <2>2, <2>3, <2>4, Frame
<1>8. ASSUME NEW how \in Settles, SettleDropped(r, how) PROVE TypeOK'
  <2> USE <1>8 DEF SettleDropped
  <2>1. LedgerTypes'
    BY DEF LedgerTypes
  <2> QED
    BY <2>1, Frame DEF OtherTypes
<1> QED
  BY <1>1, <1>2, <1>3, <1>4, <1>5, <1>6, <1>7, <1>8 DEF RunStep, Start

(* The two steps that are of no turn and no run.                           *)
LEMMA BotStepTypes ==
    ASSUME TypeOK, RestartNoRun \/ SweepStart PROVE TypeOK'
<1> USE DEF TypeOK
<1>1. CASE RestartNoRun
  <2> USE <1>1 DEF RestartNoRun
  <2>1. LockTypes'
    BY DEF LockTypes, LockSteps
  <2>2. OtherTypes'
    BY DEF OtherTypes
  <2> QED
    BY <2>1, <2>2, Frame
<1>2. CASE SweepStart
  <2> USE <1>2 DEF SweepStart
  <2>1. ExitTypes'
    BY DEF ExitTypes, ExitSteps, ExitGoTo
  <2> QED
    BY <2>1, Frame DEF OtherTypes
<1> QED
  BY <1>1, <1>2 DEF TypeOK

(* Every variable keeps its type, whatever the daemon does.                *)
THEOREM TypesHold == Spec => []TypeOK
<1>1. TypeOK /\ [Next]_vars => TypeOK'
  <2> SUFFICES ASSUME TypeOK, [Next]_vars PROVE TypeOK'
    OBVIOUS
  <2>1. CASE UNCHANGED vars
    BY <2>1, Frame DEF vars, TypeOK, OtherTypes
  <2>2. CASE Next
    BY <2>2, LockStepTypes, ExitStepTypes, TurnStepTypes, RunStepTypes,
       BotStepTypes DEF Next
  <2> QED
    BY <2>1, <2>2
<1> QED
  BY InitTypeOK, <1>1, PTL DEF Spec

=============================================================================
