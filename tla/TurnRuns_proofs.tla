--------------------------- MODULE TurnRuns_proofs ---------------------------
(***************************************************************************)
(* How the runs of a bot and its turns fit together, proved for every set  *)
(* of turns and every bound: one active run, one turn in flight on it, a   *)
(* stop that kills no agent with a turn in flight, a restart that finds no *)
(* run in its way, and no prompt left pending with nothing owed for it.    *)
(***************************************************************************)
EXTENDS TurnDelivery_proofs

----------------------------------------------------------------------------
(* The inductive invariant, on top of TypeOK and DeliveryInv.              *)

(* The unique index on the active runs of a bot.                           *)
OneActive == \A q, r \in ActiveRuns : q = r

StopSections == {"stop_close", "stop_kill", "stop_undo", "stop_commit"}

(* A stop works on the one active run, or on one an exit ended meanwhile.  *)
StopOnItsRun ==
    at \in StopSections =>
        /\ onRun \in Run
        /\ runState[onRun] \in {"stopping", "exited"}
        /\ ActiveRuns \subseteq {onRun}

(* A claim of the queue and an external turn found the run idle; no turn   *)
(* is put in flight on it but by the section itself.                       *)
BeginOnIdleRun ==
    at \in {"flush", "external"} => onRun \in Run /\ InFlightOn(onRun) = {}

(* Only the section at work on a prompt knows its result before it is      *)
(* written or owed.                                                        *)
PendingIsKnown ==
    \A t \in WebTurns :
        status[t] = "in_flight" /\ delivery[t] = "pending" =>
            \/ owedWrite[t] # "none"
            \/ at \in {"typing", "record"} /\ onTurn = t

(* The flush holds the head of the queue.                                  *)
FlushHoldsHead ==
    at = "flush" /\ onTurn \in RelayTurns => Queued \subseteq RelayTurns

(* The parts about the runs, and those about the turns.                    *)
RunsPart == OneActive /\ StopOnItsRun /\ RestartFindsNoRun
TurnsPart ==
    /\ OneInFlightPerRun /\ BeginOnIdleRun /\ StopKillsNoTurn
    /\ PendingIsKnown /\ FlushHoldsHead

RunInv == RunsPart /\ TurnsPart

----------------------------------------------------------------------------
(* What steps do to the runs.                                              *)

(* No run becomes active, and one that was recorded ended stays so.        *)
RunsOnlyLeave ==
    \A r \in Run :
        /\ runState'[r] \in Live => runState[r] \in Live
        /\ runState[r] \in {"stopping", "exited"} /\ at \in StopSections /\ at' \in StopSections
              => runState'[r] \in {"stopping", "exited"}

(* The sections of the lock a step may enter: those that promise nothing   *)
(* of the runs, or the one it is in.                                       *)
Elsewhere == at' \notin StopSections \cup {"restart"}
SectionStays == at' = at /\ onRun' = onRun

LEMMA RunsStayClear ==
    ASSUME TypeOK, RunsPart, RunsOnlyLeave,
           \/ Elsewhere \/ SectionStays
           \/ at \in StopSections /\ at' \in StopSections /\ onRun' = onRun
           \/ at' = "restart" /\ ActiveRuns' = {}
    PROVE  RunsPart'
<1> USE DEF RunsPart, RunsOnlyLeave, Elsewhere, SectionStays
<1>1. ActiveRuns' \subseteq ActiveRuns
  BY DEF ActiveRuns
<1>2. OneActive'
  BY <1>1 DEF OneActive
<1>3. StopOnItsRun'
  BY <1>1 DEF StopOnItsRun, StopSections
<1>4. RestartFindsNoRun'
  BY <1>1 DEF RestartFindsNoRun, StopSections
<1> QED
  BY <1>2, <1>3, <1>4

----------------------------------------------------------------------------
(* What steps do to the turns.                                             *)

(* A section that begins, or one whose stop has closed the turn in flight. *)
SectionMoves ==
    \/ UNCHANGED lockVars
    \/ /\ at \notin TurnSections /\ at' \notin TurnSections
       /\ at' \in {"stop_kill", "stop_commit"} =>
             /\ onRun' = onRun
             /\ at \in {"stop_kill", "stop_commit"} \/ InFlightOn(onRun)' = {}

(* A step that only fails turns or withdraws them spoils nothing.          *)
LEMMA TurnsStayClear ==
    ASSUME TypeOK, TurnsPart, TurnsOnlyFail, runOf' = runOf, SectionMoves
    PROVE  TurnsPart'
<1> USE DEF TurnsPart, TurnsOnlyFail
<1>1. \A r : InFlightOn(r)' \subseteq InFlightOn(r)
  BY DEF InFlightOn
<1>2. Queued' \subseteq Queued
  BY DEF Queued
<1>3. OneInFlightPerRun'
  BY <1>1 DEF OneInFlightPerRun
<1>4. BeginOnIdleRun'
  BY <1>1 DEF BeginOnIdleRun, SectionMoves, TurnSections, lockVars
<1>5. StopKillsNoTurn'
  BY <1>1 DEF StopKillsNoTurn, SectionMoves, lockVars
<1>6. PendingIsKnown'
  <2> SUFFICES ASSUME NEW t \in WebTurns, status'[t] = "in_flight",
                      delivery'[t] = "pending"
               PROVE  \/ owedWrite[t] # "none"
                      \/ at' \in {"typing", "record"} /\ onTurn' = t
    BY DEF PendingIsKnown
  <2>1. status[t] = "in_flight" /\ delivery[t] = "pending"
    BY DEF Turns
  <2> QED
    BY <2>1 DEF PendingIsKnown, SectionMoves, TurnSections, lockVars
<1>7. FlushHoldsHead'
  BY <1>2 DEF FlushHoldsHead, SectionMoves, TurnSections, lockVars
<1> QED
  BY <1>3, <1>4, <1>5, <1>6, <1>7

----------------------------------------------------------------------------
(* Attempts to deliver.                                                    *)

(* They leave the runs alone.                                              *)
LEMMA AttemptLeavesRuns ==
    ASSUME TypeOK, RunsPart,
           \/ PromptInsert \/ PromptQueue \/ FlushClaim \/ ExternalInsert
           \/ \E o \in Outcomes : TypeText(o)
           \/ RecordOutcome \/ RecordFails
    PROVE  RunsPart'
<1>1. runState' = runState
  BY DEF PromptInsert, PromptQueue, FlushClaim, ExternalInsert, TypeText,
     RecordOutcome, RecordFails, runVars
<1>2. Elsewhere
  BY DEF PromptInsert, PromptQueue, FlushClaim, ExternalInsert, TypeText,
     RecordOutcome, RecordFails, Elsewhere, StopSections, Release, GoTo
<1>3. RunsOnlyLeave
  BY <1>1, <1>2 DEF RunsOnlyLeave, Elsewhere
<1> QED
  BY <1>2, <1>3, RunsStayClear

(* One turn more in flight on a run that has none.                         *)
LEMMA InsertKeeps ==
    ASSUME TypeOK, TurnsPart, NEW t \in Turns, NEW r, InFlightOn(r) = {},
           status' = [status EXCEPT ![t] = "in_flight"],
           runOf' = [runOf EXCEPT ![t] = r]
    PROVE  OneInFlightPerRun'
<1> USE DEF TypeOK, TurnTypes
<1>1. InFlightOn(r)' = {t}
  BY DEF InFlightOn
<1>2. \A q : q # r => InFlightOn(q)' \subseteq InFlightOn(q)
  BY DEF InFlightOn
<1> QED
  BY <1>1, <1>2 DEF TurnsPart, OneInFlightPerRun

(* A row goes in, or is claimed: the run had no turn in flight.            *)
LEMMA BeginsKeepTurns ==
    ASSUME TypeOK, DeliveryInv, TurnsPart,
           \/ PromptInsert \/ PromptQueue \/ FlushClaim \/ ExternalInsert
    PROVE  TurnsPart'
<1> USE DEF TypeOK, TurnTypes
<1>1. /\ onTurn \in Turns
      /\ owedWrite' = owedWrite
      /\ \/ UNCHANGED <<status, runOf, delivery>> /\ at' = "free"
         \/ /\ status' = [status EXCEPT ![onTurn] = "queued"] /\ at' = "free"
            /\ UNCHANGED <<runOf, delivery>> /\ status[onTurn] = "none"
         \/ /\ status' = [status EXCEPT ![onTurn] = "in_flight"]
            /\ runOf' = [runOf EXCEPT ![onTurn] = onRun]
            /\ InFlightOn(onRun) = {}
            /\ \/ at' = "typing" /\ onTurn' = onTurn /\ delivery' = delivery
               \/ at' = "free" /\ delivery' = [delivery EXCEPT ![onTurn] = "ok"]
  BY DEF PromptInsert, PromptQueue, FlushClaim, ExternalInsert, Release, GoTo,
     TurnsPart, BeginOnIdleRun, DeliveryInv, SectionKnowsUntyped, ledgerVars
<1>2. at \notin {"typing", "record"}
  BY DEF PromptInsert, PromptQueue, FlushClaim, ExternalInsert
<1>3. OneInFlightPerRun'
  <2>1. CASE UNCHANGED runOf /\ status' \in {status, [status EXCEPT ![onTurn] = "queued"]}
    <3>1. \A r : InFlightOn(r)' \subseteq InFlightOn(r)
      BY <2>1, <1>1 DEF InFlightOn
    <3> QED
      BY <3>1 DEF TurnsPart, OneInFlightPerRun
  <2> QED
    BY <1>1, <2>1, InsertKeeps
<1>4. BeginOnIdleRun' /\ StopKillsNoTurn' /\ FlushHoldsHead'
  BY <1>1 DEF BeginOnIdleRun, StopKillsNoTurn, FlushHoldsHead
<1>5. PendingIsKnown'
  BY <1>1, <1>2 DEF TurnsPart, PendingIsKnown, Turns
<1> QED
  BY <1>3, <1>4, <1>5 DEF TurnsPart

(* The result that is written leaves no turn in flight and pending.        *)
LEMMA OutcomeSettles ==
    ASSUME TypeOK, NEW t \in Turns, NEW o \in Outcomes, NEW q \in BOOLEAN,
           WriteOutcome(t, o, q)
    PROVE  /\ \A u \in Turns \ {t} : /\ status'[u] = status[u]
                                     /\ delivery'[u] = delivery[u]
                                     /\ runOf'[u] = runOf[u]
           /\ status'[t] = "in_flight" =>
                 /\ status[t] = "in_flight" /\ runOf'[t] = runOf[t]
                 /\ delivery'[t] # "pending"
<1> USE DEF TypeOK, TurnTypes
<1>1. ASSUME WriteClosed(t)
      PROVE  /\ \A u \in Turns \ {t} : /\ status'[u] = status[u]
                                       /\ delivery'[u] = delivery[u]
             /\ status'[t] # "in_flight" /\ runOf' = runOf
  BY <1>1 DEF WriteClosed, FailTurn
<1>2. ASSUME NEW spent \in {0, 1}, WriteBack(t, spent)
      PROVE  /\ \A u \in Turns \ {t} : /\ status'[u] = status[u]
                                       /\ delivery'[u] = delivery[u]
                                       /\ runOf'[u] = runOf[u]
             /\ status'[t] # "in_flight"
  BY <1>1, <1>2 DEF WriteBack
<1>3. ASSUME WriteRetracted(t)
      PROVE  /\ \A u \in Turns \ {t} : status'[u] = status[u]
             /\ status'[t] # "in_flight" /\ UNCHANGED <<delivery, runOf>>
  BY <1>3 DEF WriteRetracted
<1>4. CASE o \in {"sent", "unproven"}
  BY <1>4 DEF WriteOutcome
<1>5. CASE o \notin {"sent", "unproven"}
  BY <1>1, <1>2, <1>3, <1>5 DEF WriteOutcome
<1> QED
  BY <1>4, <1>5

(* Now, or by a retry, and the lock is free.                               *)
LEMMA WritesKeepTurns ==
    ASSUME TypeOK, TurnsPart, NEW t \in Turns, NEW o \in Outcomes,
           NEW q \in BOOLEAN, WriteOutcome(t, o, q),
           owedWrite' = [owedWrite EXCEPT ![t] = "none"],
           at' = "free", at = "free" \/ onTurn = t
    PROVE  TurnsPart'
<1> USE DEF TypeOK, LedgerTypes
<1>1. /\ \A u \in Turns \ {t} : /\ status'[u] = status[u]
                                /\ delivery'[u] = delivery[u]
                                /\ runOf'[u] = runOf[u]
      /\ status'[t] = "in_flight" =>
            /\ status[t] = "in_flight" /\ runOf'[t] = runOf[t]
            /\ delivery'[t] # "pending"
  BY OutcomeSettles
<1>2. \A r : InFlightOn(r)' \subseteq InFlightOn(r)
  BY <1>1 DEF InFlightOn
<1>3. OneInFlightPerRun'
  BY <1>2 DEF TurnsPart, OneInFlightPerRun
<1>4. BeginOnIdleRun' /\ StopKillsNoTurn' /\ FlushHoldsHead'
  BY DEF BeginOnIdleRun, StopKillsNoTurn, FlushHoldsHead
<1>5. PendingIsKnown'
  BY <1>1 DEF TurnsPart, PendingIsKnown, Turns
<1> QED
  BY <1>3, <1>4, <1>5 DEF TurnsPart

(* The text is typed and its result written, or owed.                      *)
LEMMA RecordsKeepTurns ==
    ASSUME TypeOK, DeliveryInv, TurnsPart,
           (\E o \in Outcomes : TypeText(o)) \/ RecordOutcome \/ RecordFails
    PROVE  TurnsPart'
<1>1. onTurn \in Turns /\ outcome \in Outcomes /\ fromQueue \in BOOLEAN
  BY DEF TypeText, RecordOutcome, RecordFails, DeliveryInv,
     SectionKnowsUntyped, TypeOK, LockTypes
<1>2. CASE RecordOutcome
  BY <1>1, <1>2, WritesKeepTurns DEF RecordOutcome, Release
<1>3. ASSUME UNCHANGED turnVars, at \in {"typing", "record"},
             \/ UNCHANGED owedWrite /\ at' = "record" /\ onTurn' = onTurn
             \/ owedWrite' = [owedWrite EXCEPT ![onTurn] = outcome] /\ at' = "free"
      PROVE  TurnsPart'
  <2>1. \A r : InFlightOn(r)' = InFlightOn(r)
    BY <1>3 DEF turnVars, InFlightOn
  <2>2. OneInFlightPerRun'
    BY <2>1 DEF TurnsPart, OneInFlightPerRun
  <2>3. BeginOnIdleRun' /\ StopKillsNoTurn' /\ FlushHoldsHead'
    BY <1>3 DEF BeginOnIdleRun, StopKillsNoTurn, FlushHoldsHead
  <2>4. \A t \in Turns : owedWrite[t] # "none" \/ onTurn = t =>
           owedWrite'[t] # "none" \/ (at' = "record" /\ onTurn' = t)
    BY <1>1, <1>3 DEF TypeOK, LedgerTypes, Outcomes
  <2>5. PendingIsKnown'
    BY <1>3, <2>4 DEF TurnsPart, PendingIsKnown, Turns, turnVars
  <2> QED
    BY <2>2, <2>3, <2>5 DEF TurnsPart
<1>4. CASE (\E o \in Outcomes : TypeText(o)) \/ RecordFails
  <2>1. /\ UNCHANGED turnVars /\ at \in {"typing", "record"}
        /\ \/ UNCHANGED owedWrite /\ at' = "record" /\ onTurn' = onTurn
           \/ owedWrite' = [owedWrite EXCEPT ![onTurn] = outcome] /\ at' = "free"
    BY <1>4 DEF TypeText, RecordFails, Release, ledgerVars
  <2> QED
    BY <1>3, <2>1
<1> QED
  BY <1>2, <1>4

----------------------------------------------------------------------------
(* What happens to one turn while no section is in progress.               *)

(* A section that works on a turn begins.                                  *)
LEMMA ReadsKeep ==
    ASSUME TypeOK, RunsPart, TurnsPart, NEW t \in Turns, NEW r \in Run,
           PromptRead(t, r) \/ FlushRead(t, r) \/ ExternalRead(t, r)
    PROVE  RunsPart' /\ TurnsPart'
<1> USE DEF PromptRead, FlushRead, ExternalRead
<1>1. /\ UNCHANGED <<runState, status, delivery, runOf, owedWrite>>
      /\ at = "free" /\ at' \in {"prompt", "flush", "external"}
      /\ onRun' = r /\ onTurn' = t
  BY DEF runVars, turnVars, ledgerVars
<1>2. RunsPart'
  <2>1. RunsOnlyLeave /\ Elsewhere
    BY <1>1 DEF RunsOnlyLeave, Elsewhere, StopSections
  <2> QED
    BY <2>1, RunsStayClear
<1>3. \A q : InFlightOn(q)' = InFlightOn(q)
  BY <1>1 DEF InFlightOn
<1>4. OneInFlightPerRun' /\ StopKillsNoTurn' /\ PendingIsKnown'
  BY <1>1, <1>3 DEF TurnsPart, OneInFlightPerRun, StopKillsNoTurn,
     PendingIsKnown
<1>5. BeginOnIdleRun'
  BY <1>1, <1>3 DEF BeginOnIdleRun
<1>6. FlushHoldsHead'
  BY <1>1 DEF FlushHoldsHead, Queued
<1> QED
  BY <1>2, <1>4, <1>5, <1>6 DEF TurnsPart

(* A retry, a prompt queued for a start, or the end of a turn.             *)
LEMMA TurnEndsKeep ==
    ASSUME TypeOK, RunsPart, TurnsPart, NEW t \in Turns,
           \/ SettleOwedWrite(t) \/ QueueForStart(t) \/ HookCompletes(t)
           \/ HookFails(t) \/ Fallback(t) \/ LateHook(t) \/ FailNeverSent(t)
           \/ FailUnconfirmed(t)
    PROVE  RunsPart' /\ TurnsPart'
<1>1. UNCHANGED <<runState, at, onRun>> /\ at = "free"
  BY DEF SettleOwedWrite, QueueForStart, HookCompletes, HookFails, Fallback,
     LateHook, FailNeverSent, FailUnconfirmed, CloseTurn, runVars, lockVars
<1>2. RunsPart'
  <2>1. RunsOnlyLeave /\ SectionStays
    BY <1>1 DEF RunsOnlyLeave, SectionStays, StopSections
  <2> QED
    BY <2>1, RunsStayClear
<1>3. CASE SettleOwedWrite(t)
  <2>1. owedWrite[t] \in Outcomes
    BY <1>3 DEF SettleOwedWrite, TypeOK, LedgerTypes
  <2> QED
    BY <1>1, <1>2, <1>3, <2>1, WritesKeepTurns DEF SettleOwedWrite
<1>4. CASE \/ QueueForStart(t) \/ HookCompletes(t) \/ HookFails(t)
           \/ Fallback(t) \/ LateHook(t) \/ FailNeverSent(t)
           \/ FailUnconfirmed(t)
  <2>1. /\ UNCHANGED <<runOf, owedWrite>>
        /\ status'[t] # "in_flight"
        /\ \A u \in Turns \ {t} :
              status'[u] = status[u] /\ delivery'[u] = delivery[u]
    BY <1>4 DEF QueueForStart, HookCompletes, HookFails, Fallback, LateHook,
       FailNeverSent, FailUnconfirmed, CloseTurn, TypeOK, TurnTypes, ledgerVars
  <2>2. \A r : InFlightOn(r)' \subseteq InFlightOn(r)
    BY <2>1 DEF InFlightOn
  <2>3. OneInFlightPerRun'
    BY <2>2 DEF TurnsPart, OneInFlightPerRun
  <2>4. BeginOnIdleRun' /\ StopKillsNoTurn' /\ FlushHoldsHead'
    BY <1>1 DEF BeginOnIdleRun, StopKillsNoTurn, FlushHoldsHead
  <2>5. PendingIsKnown'
    BY <1>1, <2>1 DEF TurnsPart, PendingIsKnown, Turns
  <2> QED
    BY <1>2, <2>3, <2>4, <2>5 DEF TurnsPart
<1> QED
  BY <1>3, <1>4

----------------------------------------------------------------------------
(* Every other step fails turns at most, and works on the runs.            *)

(* A run begins: there was no active one.                                  *)
LEMMA NewRunKeeps ==
    ASSUME TypeOK, NEW r \in Run, NewRun(r) PROVE RunsPart'
<1>1. ActiveRuns' \subseteq {r} /\ at' = "launch"
  BY DEF NewRun, ActiveRuns, TypeOK, RunTypes
<1> QED
  BY <1>1 DEF RunsPart, OneActive, StopOnItsRun, StopSections,
     RestartFindsNoRun

(* Sections that start a run.                                              *)
LEMMA LaunchKeeps ==
    ASSUME TypeOK, RunsPart, TurnsPart,
           \/ \E r \in Run : RestartStart(r)
           \/ RestartRefused \/ Launch \/ LaunchCommit \/ LaunchAbort
           \/ RestartFailed \/ ReconcileDone
    PROVE  RunsPart' /\ TurnsPart'
<1>1. TurnsPart'
  <2>1. TurnsOnlyFail
    BY LockStepFails
  <2>2. runOf' = runOf
    BY DEF RestartStart, NewRun, RestartRefused, Launch, LaunchCommit,
       LaunchAbort, RestartFailed, ReconcileDone, turnVars
  <2>3. SectionMoves
    BY DEF RestartStart, NewRun, RestartRefused, Launch, LaunchCommit,
       LaunchAbort, RestartFailed, ReconcileDone, SectionMoves, TurnSections,
       GoTo, Release
  <2> QED
    BY <2>1, <2>2, <2>3, TurnsStayClear
<1>2. ASSUME NEW r \in Run, RestartStart(r) PROVE RunsPart'
  BY <1>2, NewRunKeeps DEF RestartStart
<1>3. CASE \/ RestartRefused \/ Launch \/ LaunchCommit \/ LaunchAbort
           \/ RestartFailed \/ ReconcileDone
  <2>1. Elsewhere
    BY <1>3 DEF RestartRefused, Launch, LaunchCommit, LaunchAbort,
       RestartFailed, ReconcileDone, Elsewhere, StopSections, GoTo, Release
  <2>2. RunsOnlyLeave
    BY <1>3, <2>1 DEF RestartRefused, Launch, LaunchCommit, LaunchAbort,
       RestartFailed, Relabel, ReconcileDone, RunsOnlyLeave, Elsewhere, Live,
       TypeOK, RunTypes, runVars
  <2> QED
    BY <1>1, <2>1, <2>2, RunsStayClear
<1> QED
  BY <1>1, <1>2, <1>3

(* Sections that stop one.                                                 *)
LEMMA StopsKeep ==
    ASSUME TypeOK, RunsPart, TurnsPart,
           \/ StopFailTurn \/ StopKill \/ StopUndo \/ StopCommit
           \/ RestartStopCommit
    PROVE  RunsPart' /\ TurnsPart'
<1>1. TurnsPart'
  <2>1. TurnsOnlyFail
    BY LockStepFails
  <2>2. runOf' = runOf
    BY DEF StopFailTurn, StopKill, StopUndo, StopCommit, RestartStopCommit,
       turnVars
  <2>3. SectionMoves
    <3>1. ASSUME StopFailTurn, at' = "stop_kill" PROVE InFlightOn(onRun)' = {}
      BY <3>1, <2>2 DEF StopFailTurn, GoTo, InFlightOn
    <3> QED
      BY <3>1 DEF StopFailTurn, StopKill, StopUndo, StopCommit,
         RestartStopCommit, SectionMoves, TurnSections, GoTo, Release
  <2> QED
    BY <2>1, <2>2, <2>3, TurnsStayClear
<1>2. RunsPart'
  <2>1. onRun \in Run /\ runState[onRun] \in {"stopping", "exited"}
        /\ ActiveRuns \subseteq {onRun}
    BY DEF StopFailTurn, StopKill, StopUndo, StopCommit, RestartStopCommit,
       RunsPart, StopOnItsRun, StopSections
  <2>2. RunsOnlyLeave
    BY DEF StopFailTurn, StopKill, StopUndo, StopCommit, RestartStopCommit,
       BackToRunning, CommitStopped, Relabel, RunsOnlyLeave, StopSections,
       Live, GoTo, Release, TypeOK, RunTypes, runVars
  <2>3. \/ Elsewhere
        \/ at \in StopSections /\ at' \in StopSections /\ onRun' = onRun
        \/ at' = "restart" /\ ActiveRuns' = {}
    <3>1. ASSUME RestartStopCommit, at' = "restart" PROVE ActiveRuns' = {}
      BY <2>1, <3>1 DEF RestartStopCommit, Release, ActiveRuns, Live, TypeOK,
         RunTypes
    <3> QED
      BY <3>1 DEF StopFailTurn, StopKill, StopUndo, StopCommit,
         RestartStopCommit, StopSections, Elsewhere, GoTo, Release
  <2> QED
    BY <2>2, <2>3, RunsStayClear
<1> QED
  BY <1>1, <1>2

(* An exit of a run only takes it away.                                    *)
LEMMA ExitsKeep ==
    ASSUME TypeOK, RunsPart, TurnsPart, NEW p \in Run \cup {Sweep}, ExitStep(p)
    PROVE  RunsPart' /\ TurnsPart'
<1> USE DEF ExitStep, ExitCommit, ExitCommitStopping, ExitCas, ExitPick,
            ExitClose, OrphanCheck, OrphanRevoke
<1>1. UNCHANGED lockVars /\ runOf' = runOf
  BY DEF turnVars
<1>2. TurnsPart'
  BY <1>1, ExitStepFails, TurnsStayClear DEF SectionMoves
<1>3. SectionStays
  BY <1>1 DEF SectionStays, lockVars
<1>4. RunsOnlyLeave
  BY DEF RunsOnlyLeave, Live, TypeOK, RunTypes, runVars
<1> QED
  BY <1>2, <1>3, <1>4, RunsStayClear

(* What happens to a run while no section is in progress.                  *)
LEMMA RunStepsKeep ==
    ASSUME TypeOK, RunsPart, TurnsPart, NEW r \in Run, RunStep(r)
    PROVE  RunsPart' /\ TurnsPart'
<1>1. TurnsPart'
  <2>1. TurnsOnlyFail
    BY RunStepFails
  <2>2. runOf' = runOf
    BY DEF RunStep, Start, NewRun, StopBegin, AgentDies, ExitRead,
       ReconcileExit, ReconcileAlive, SettleRun, SettleDropped, turnVars
  <2>3. SectionMoves
    BY DEF RunStep, Start, NewRun, StopBegin, AgentDies, ExitRead,
       ReconcileExit, ReconcileAlive, SettleRun, SettleDropped, SectionMoves,
       TurnSections
  <2> QED
    BY <2>1, <2>2, <2>3, TurnsStayClear
<1>2. CASE Start(r)
  BY <1>1, <1>2, NewRunKeeps DEF Start
<1>3. ASSUME NEW forRestart \in BOOLEAN, StopBegin(r, forRestart)
      PROVE  RunsPart'
  <2>1. r \in ActiveRuns /\ ActiveRuns' = ActiveRuns /\ runState'[r] = "stopping"
    BY <1>3 DEF StopBegin, ActiveRuns, Live, TypeOK, RunTypes
  <2>2. OneActive'
    BY <2>1 DEF RunsPart, OneActive
  <2>3. StopOnItsRun'
    BY <1>3, <2>1 DEF StopBegin, RunsPart, OneActive, StopOnItsRun
  <2>4. RestartFindsNoRun'
    BY <1>3 DEF StopBegin, RestartFindsNoRun
  <2> QED
    BY <2>2, <2>3, <2>4 DEF RunsPart
<1>4. CASE \/ AgentDies(r) \/ ExitRead(r) \/ ReconcileExit(r)
           \/ ReconcileAlive(r)
           \/ \E how \in Settles : SettleRun(r, how) \/ SettleDropped(r, how)
  <2>1. SectionStays \/ Elsewhere
    BY <1>4 DEF AgentDies, ExitRead, ReconcileExit, ReconcileAlive, SettleRun,
       SettleDropped, SectionStays, Elsewhere, StopSections, lockVars
  <2>2. RunsOnlyLeave
    <3>1. CASE \/ AgentDies(r) \/ ExitRead(r) \/ ReconcileExit(r)
               \/ \E how \in Settles : SettleDropped(r, how)
      BY <3>1 DEF AgentDies, ExitRead, ReconcileExit, SettleDropped,
         RunsOnlyLeave, runVars
    <3>2. ASSUME NEW how \in Settles, SettleRun(r, how) PROVE RunsOnlyLeave
      BY <3>2 DEF SettleRun, CommitStopped, BackToRunning, Relabel,
         RunsOnlyLeave, StopSections, Live, TypeOK, RunTypes
    <3>3. CASE ReconcileAlive(r)
      BY <3>3 DEF ReconcileAlive, RunsOnlyLeave, StopSections, Live, TypeOK,
         RunTypes
    <3> QED
      BY <1>4, <3>1, <3>2, <3>3
  <2> QED
    BY <1>1, <2>1, <2>2, RunsStayClear
<1> QED
  BY <1>1, <1>2, <1>3, <1>4 DEF RunStep

(* The withdrawal of a prompt, a close that was owed, and what is of no    *)
(* turn and no run.                                                        *)
LEMMA OthersKeep ==
    ASSUME TypeOK, RunsPart, TurnsPart,
           \/ RestartNoRun \/ SweepStart
           \/ \E t \in Turns : Withdraw(t) \/ SettleOwedClose(t)
    PROVE  RunsPart' /\ TurnsPart'
<1> USE DEF RestartNoRun, SweepStart, Withdraw, SettleOwedClose
<1>1. TurnsPart'
  <2>1. TurnsOnlyFail
    BY OtherStepFails
  <2>2. runOf' = runOf /\ SectionMoves
    BY DEF SectionMoves, TurnSections, turnVars, lockVars
  <2> QED
    BY <2>1, <2>2, TurnsStayClear
<1>2. RunsPart'
  <2>1. RunsOnlyLeave
    BY DEF RunsOnlyLeave, runVars
  <2>2. SectionStays \/ (at' = "restart" /\ ActiveRuns' = {})
    BY DEF SectionStays, lockVars, runVars, ActiveRuns
  <2> QED
    BY <2>1, <2>2, RunsStayClear
<1> QED
  BY <1>1, <1>2

----------------------------------------------------------------------------
(* The theorems.                                                           *)

LEMMA RunInit == Init => RunsPart /\ TurnsPart
<1> SUFFICES ASSUME Init PROVE RunsPart /\ TurnsPart
  OBVIOUS
<1>1. at = "free" /\ ActiveRuns = {}
  BY DEF Init, ActiveRuns, Live
<1>2. \A t \in Turns : status[t] = "none"
  BY DEF Init
<1>3. RunsPart
  BY <1>1 DEF RunsPart, OneActive, StopOnItsRun, StopSections,
     RestartFindsNoRun
<1>4. TurnsPart
  BY <1>1, <1>2 DEF TurnsPart, OneInFlightPerRun, InFlightOn, BeginOnIdleRun,
     StopKillsNoTurn, PendingIsKnown, FlushHoldsHead, Turns
<1> QED
  BY <1>3, <1>4

LEMMA RunsStep ==
    ASSUME TypeOK, DeliveryInv, RunsPart, TurnsPart, [Next]_vars
    PROVE  RunsPart' /\ TurnsPart'
<1>1. CASE UNCHANGED vars
  BY <1>1 DEF vars, runVars, turnVars, lockVars, ledgerVars, RunsPart,
     OneActive, StopOnItsRun, RestartFindsNoRun, ActiveRuns, TurnsPart,
     OneInFlightPerRun, InFlightOn, BeginOnIdleRun, StopKillsNoTurn,
     PendingIsKnown, FlushHoldsHead, Queued
<1>2. CASE LockStep
  BY <1>2, AttemptLeavesRuns, BeginsKeepTurns, RecordsKeepTurns, LaunchKeeps,
     StopsKeep DEF LockStep
<1>3. ASSUME NEW p \in Run \cup {Sweep}, ExitStep(p)
      PROVE  RunsPart' /\ TurnsPart'
  BY <1>3, ExitsKeep
<1>4. ASSUME NEW t \in Turns, TurnStep(t) PROVE RunsPart' /\ TurnsPart'
  BY <1>4, ReadsKeep, TurnEndsKeep, OthersKeep DEF TurnStep
<1>5. ASSUME NEW r \in Run, RunStep(r) PROVE RunsPart' /\ TurnsPart'
  BY <1>5, RunStepsKeep
<1>6. CASE RestartNoRun \/ SweepStart
  BY <1>6, OthersKeep
<1> QED
  BY <1>1, <1>2, <1>3, <1>4, <1>5, <1>6 DEF Next

LEMMA RunInvHolds == Spec => []RunInv
<1>1. Init => RunInv
  BY RunInit DEF RunInv
<1>2. TypeOK /\ DeliveryInv /\ RunInv /\ [Next]_vars => RunInv'
  BY RunsStep DEF RunInv
<1> QED
  BY <1>1, <1>2, TypesHold, DeliveryHolds, PTL DEF Spec

(* No two turns are in flight on one run, whatever inserts and claims them *)
(* (the unique index turns_one_in_flight).                                 *)
THEOREM OneInFlightHolds == Spec => []OneInFlightPerRun
<1>1. RunInv => OneInFlightPerRun
  BY DEF RunInv, TurnsPart
<1> QED
  BY <1>1, RunInvHolds, PTL

(* A stop kills an agent only when no turn is in flight on its run         *)
(* (stop.rs).                                                              *)
THEOREM StopKillsNoTurnHolds == Spec => []StopKillsNoTurn
<1>1. RunInv => StopKillsNoTurn
  BY DEF RunInv, TurnsPart
<1> QED
  BY <1>1, RunInvHolds, PTL

(* A restart that has stopped its run finds no active run in its way       *)
(* (start.rs, restart_bot).                                                *)
THEOREM RestartFindsNoRunHolds == Spec => []RestartFindsNoRun
<1>1. RunInv => RestartFindsNoRun
  BY DEF RunInv, RunsPart
<1> QED
  BY <1>1, RunInvHolds, PTL

(* Outside a section of the lock, a prompt in flight with its delivery     *)
(* pending has its result owed (owed_delivery.rs).                         *)
THEOREM PendingHasAWayOutHolds == Spec => []PendingHasAWayOut
<1>1. RunInv => PendingHasAWayOut
  BY DEF RunInv, TurnsPart, PendingIsKnown, PendingHasAWayOut
<1> QED
  BY <1>1, RunInvHolds, PTL

(* A relayed prompt is not claimed before one of the user's that is queued *)
(* already (queue.rs, flush_queued_inner and claim_queued).                *)
THEOREM UserGoesFirstHolds == Spec => UserGoesFirst
<1>1. ASSUME RunInv, [Next]_vars
      PROVE  [FlushClaim /\ status' # status /\ onTurn \in RelayTurns =>
                 Queued \subseteq RelayTurns]_vars
  BY <1>1 DEF FlushClaim, RunInv, TurnsPart, FlushHoldsHead
<1> QED
  BY <1>1, RunInvHolds, PTL DEF Spec, UserGoesFirst

(* A step that takes a run into an ended state from there, and why.        *)
EndedKept ==
    \A r \in Run :
        Ended(r) =>
            /\ runState'[r] \in {"stopped", "exited"}
            /\ runState[r] = "stopped" /\ runState'[r] = "exited" =>
                  (at = "restart_failed" /\ oldRun = r) \/ "relabel" \in settle[r]

LEMMA LockStepKeepsEnded ==
    ASSUME TypeOK, LockStep PROVE EndedKept
<1> USE DEF EndedKept, Ended, TypeOK, RunTypes, Live
<1>1. CASE \/ PromptInsert \/ PromptQueue \/ (\E o \in Outcomes : TypeText(o))
           \/ RecordOutcome \/ RecordFails \/ FlushClaim \/ ExternalInsert
           \/ RestartRefused \/ StopFailTurn \/ StopKill \/ ReconcileDone
  BY <1>1 DEF PromptInsert, PromptQueue, TypeText, RecordOutcome, RecordFails,
     FlushClaim, ExternalInsert, RestartRefused, StopFailTurn, StopKill,
     ReconcileDone, runVars
<1>2. ASSUME NEW r \in Run, RestartStart(r) PROVE EndedKept
  BY <1>2 DEF RestartStart, NewRun, NextRun
<1>3. CASE Launch \/ LaunchCommit \/ LaunchAbort \/ RestartFailed
  BY <1>3 DEF Launch, LaunchCommit, LaunchAbort, RestartFailed, Relabel
<1>4. CASE StopUndo \/ StopCommit \/ RestartStopCommit
  BY <1>4 DEF StopUndo, BackToRunning, StopCommit, CommitStopped, Relabel,
     RestartStopCommit
<1> QED
  BY <1>1, <1>2, <1>3, <1>4 DEF LockStep

LEMMA RunStepKeepsEnded ==
    ASSUME TypeOK, NEW r \in Run, RunStep(r) PROVE EndedKept
<1> USE DEF EndedKept, Ended, TypeOK, RunTypes, Live
<1>1. CASE \/ AgentDies(r) \/ ExitRead(r) \/ ReconcileExit(r)
           \/ \E how \in Settles : SettleDropped(r, how)
  BY <1>1 DEF AgentDies, ExitRead, ReconcileExit, SettleDropped, runVars
<1>2. CASE \/ Start(r) \/ StopBegin(r, TRUE) \/ StopBegin(r, FALSE)
           \/ ReconcileAlive(r)
  BY <1>2 DEF Start, NewRun, NextRun, StopBegin, ReconcileAlive
<1>3. ASSUME NEW how \in Settles, SettleRun(r, how) PROVE EndedKept
  BY <1>3 DEF SettleRun, CommitStopped, BackToRunning, Relabel
<1> QED
  BY <1>1, <1>2, <1>3 DEF RunStep

LEMMA NextKeepsEnded ==
    ASSUME TypeOK, Next PROVE EndedKept
<1>1. CASE LockStep
  BY <1>1, LockStepKeepsEnded
<1>2. ASSUME NEW r \in Run, RunStep(r) PROVE EndedKept
  BY <1>2, RunStepKeepsEnded
<1>3. ASSUME NEW p \in Run \cup {Sweep}, ExitStep(p) PROVE EndedKept
  BY <1>3 DEF ExitStep, ExitCommit, ExitCommitStopping, ExitCas,
     ExitPick, ExitClose, OrphanCheck, OrphanRevoke, EndedKept, Ended,
     TypeOK, RunTypes, runVars
<1>4. ASSUME NEW t \in Turns, TurnStep(t) PROVE EndedKept
  BY <1>4 DEF TurnStep, PromptRead, FlushRead, ExternalRead, QueueForStart,
     Withdraw, SettleOwedWrite, SettleOwedClose, HookCompletes, HookFails,
     Fallback, LateHook, FailNeverSent, FailUnconfirmed, CloseTurn,
     EndedKept, Ended, runVars
<1>5. CASE RestartNoRun \/ SweepStart
  BY <1>5 DEF RestartNoRun, SweepStart, EndedKept, Ended, runVars
<1> QED
  BY <1>1, <1>2, <1>3, <1>4, <1>5 DEF Next

(* A run that ended stays ended: no late CAS, retry or reconcile brings it *)
(* back, and a run the user stopped is recorded as exited only when a      *)
(* restart of it failed (run_state.rs).                                    *)
THEOREM EndedStaysHolds == Spec => EndedStays
<1>1. TypeOK /\ [Next]_vars =>
         [\A r \in Run :
             Ended(r) => /\ runState'[r] \in {"stopped", "exited"}
                         /\ runState[r] = "stopped" /\ runState'[r] = "exited" =>
                               (at = "restart_failed" /\ oldRun = r)
                                 \/ "relabel" \in settle[r]]_vars
  BY NextKeepsEnded DEF EndedKept
<1> QED
  BY <1>1, TypesHold, PTL DEF Spec, EndedStays

----------------------------------------------------------------------------
(* Who closes a turn in flight on a run that ended.                        *)

(* Somebody is about to close it, or one of the three steps that lose a    *)
(* close was taken.                                                        *)
Accounted(t) == CloseIsComing(t) \/ CloseWasLost(t)

(* A prompt is put in flight on a run that is running.                     *)
PromptsOnStartedRuns ==
    \A t \in WebTurns :
        status[t] = "in_flight" =>
            runOf[t] \in Run /\ runState[runOf[t]] \notin {"none", "starting"}

SectionsOnTheirOwn ==
    /\ at \in {"prompt", "flush"} => onRun \in Run
    /\ at = "external" => onTurn \in ExternalTurns

OwnedInv == PromptsOnStartedRuns /\ SectionsOnTheirOwn /\ EndedRunTurnIsOwned

(* A prompt that is in flight before a step and after it.                  *)
StillInFlight(t) ==
    status[t] = "in_flight" /\ status'[t] = "in_flight" /\ runOf'[t] = runOf[t]

(* A step does not forget the close of a prompt that stays in flight.      *)
ClosesKept ==
    \A t \in WebTurns :
        StillInFlight(t) /\ runOf[t] \in Run =>
            /\ ~Ended(runOf[t]) /\ Ended(runOf[t])' => Accounted(t)'
            /\ Ended(runOf[t]) /\ Accounted(t) => Accounted(t)'

(* No prompt is put in flight, or one on a run that is running.            *)
OnlyOnRunning ==
    \A t \in WebTurns :
        status'[t] = "in_flight" =>
            \/ StillInFlight(t)
            \/ /\ runOf'[t] \in Run /\ runState[runOf'[t]] = "running"
               /\ runState' = runState

LEMMA OwnedStays ==
    ASSUME TypeOK, OwnedInv, ClosesKept, OnlyOnRunning, EndedKept,
           SectionsOnTheirOwn',
           \A r \in Run : runState[r] \notin {"none", "starting"} =>
                             runState'[r] \notin {"none", "starting"}
    PROVE  OwnedInv'
<1> USE DEF OwnedInv, OnlyOnRunning
<1>1. PromptsOnStartedRuns'
  BY DEF PromptsOnStartedRuns, StillInFlight
<1>2. EndedRunTurnIsOwned'
  <2> SUFFICES ASSUME NEW t \in WebTurns, status'[t] = "in_flight",
                      Ended(runOf[t])'
               PROVE  Accounted(t)'
    BY DEF EndedRunTurnIsOwned, Accounted
  <2>1. StillInFlight(t) /\ runOf[t] \in Run
    BY DEF Ended, PromptsOnStartedRuns, StillInFlight
  <2> QED
    BY <2>1 DEF ClosesKept, EndedRunTurnIsOwned, StillInFlight, Accounted
<1> QED
  BY <1>1, <1>2

(* Steps that touch no exit and no owed close, and end no run that has a   *)
(* prompt in flight.                                                       *)
LEMMA ClosesQuiet ==
    ASSUME UNCHANGED <<exitAt, exitTurn, owedClose, lostCloses>>,
           \A t \in WebTurns :
               StillInFlight(t) /\ runOf[t] \in Run /\ ~Ended(runOf[t]) =>
                   ~Ended(runOf[t])'
    PROVE  ClosesKept
  BY DEF ClosesKept, Accounted, CloseIsComing, CloseWasLost, StillInFlight

(* The results that are written put nothing in flight.                     *)
LEMMA OutcomeIsQuiet ==
    ASSUME TypeOK, NEW t \in Turns, NEW o \in Outcomes, NEW q \in BOOLEAN,
           WriteOutcome(t, o, q)
    PROVE  OnlyOnRunning
  BY OutcomeSettles DEF OnlyOnRunning, StillInFlight, Turns

(* Steps that only fail turns put nothing in flight.                       *)
LEMMA FailingIsQuiet ==
    ASSUME TypeOK, TurnsOnlyFail, runOf' = runOf PROVE OnlyOnRunning
  BY DEF OnlyOnRunning, StillInFlight, TurnsOnlyFail, Turns

(* Only the sections of the lock that launch a run take it out of          *)
(* "starting", and none goes back.                                         *)
StartedStays ==
    \A r \in Run : runState[r] \notin {"none", "starting"} =>
                      runState'[r] \notin {"none", "starting"}

(* What remains to show of a step.                                         *)
OwnedStep == ClosesKept /\ OnlyOnRunning /\ SectionsOnTheirOwn' /\ StartedStays

LEMMA AttemptsOwned ==
    ASSUME TypeOK, DeliveryInv, OwnedInv,
           \/ PromptInsert \/ PromptQueue \/ FlushClaim \/ ExternalInsert
           \/ \E o \in Outcomes : TypeText(o)
           \/ RecordOutcome \/ RecordFails
    PROVE  OwnedStep
<1>1. UNCHANGED <<runState, exitAt, exitTurn, owedClose, lostCloses>>
  BY DEF PromptInsert, PromptQueue, FlushClaim, ExternalInsert, TypeText,
     RecordOutcome, RecordFails, runVars, exitVars, ledgerVars
<1>2. ClosesKept
  BY <1>1, ClosesQuiet DEF Ended, StillInFlight
<1>3. StartedStays
  BY <1>1 DEF StartedStays
<1>4. SectionsOnTheirOwn'
  BY DEF PromptInsert, PromptQueue, FlushClaim, ExternalInsert, TypeText,
     RecordOutcome, RecordFails, Release, GoTo, SectionsOnTheirOwn
<1>5. OnlyOnRunning
  <2> USE DEF OnlyOnRunning, StillInFlight, TypeOK, TurnTypes, Turns
  <2>1. CASE RecordOutcome
    <3>1. onTurn \in Turns /\ outcome \in Outcomes /\ fromQueue \in BOOLEAN
      BY <2>1 DEF RecordOutcome, DeliveryInv, SectionKnowsUntyped, LockTypes
    <3> QED
      BY <2>1, <3>1, OutcomeIsQuiet DEF RecordOutcome
  <2>2. CASE PromptQueue \/ (\E o \in Outcomes : TypeText(o)) \/ RecordFails
    BY <2>2 DEF PromptQueue, TypeText, RecordFails, turnVars
  <2>3. CASE PromptInsert \/ FlushClaim
    BY <1>1, <2>3 DEF PromptInsert, FlushClaim, OwnedInv, SectionsOnTheirOwn
  <2>4. CASE ExternalInsert
    BY <2>4, TurnsAssumption DEF ExternalInsert, OwnedInv, SectionsOnTheirOwn
  <2> QED
    BY <2>1, <2>2, <2>3, <2>4
<1> QED
  BY <1>2, <1>3, <1>4, <1>5 DEF OwnedStep

LEMMA OtherLockStepsOwned ==
    ASSUME TypeOK, OwnedInv, RunInv,
           \/ \E r \in Run : RestartStart(r)
           \/ RestartRefused \/ Launch \/ LaunchCommit \/ LaunchAbort
           \/ RestartFailed \/ StopFailTurn \/ StopKill \/ StopUndo
           \/ StopCommit \/ RestartStopCommit \/ ReconcileDone
    PROVE  OwnedStep
<1>1. UNCHANGED <<runOf, exitAt, exitTurn, owedClose, lostCloses>>
  BY DEF RestartStart, NewRun, RestartRefused, Launch, LaunchCommit,
     LaunchAbort, RestartFailed, StopFailTurn, StopKill, StopUndo, StopCommit,
     RestartStopCommit, ReconcileDone, turnVars, exitVars, ledgerVars
<1>2. OnlyOnRunning
  BY <1>1, LockStepFails, FailingIsQuiet
<1>3. at' \notin {"prompt", "flush", "external"}
  BY DEF RestartStart, NewRun, RestartRefused, Launch, LaunchCommit,
     LaunchAbort, RestartFailed, StopFailTurn, StopKill, StopUndo, StopCommit,
     RestartStopCommit, ReconcileDone, Release, GoTo
<1>4. StartedStays
  BY DEF RestartStart, NewRun, NextRun, RestartRefused, Launch, LaunchCommit,
     LaunchAbort, RestartFailed, Relabel, StopFailTurn, StopKill, StopUndo,
     BackToRunning, StopCommit, CommitStopped, RestartStopCommit,
     ReconcileDone, StartedStays, runVars, TypeOK, RunTypes
<1>5. ClosesKept
  <2> SUFFICES ASSUME NEW t \in WebTurns, StillInFlight(t), runOf[t] \in Run,
                      ~Ended(runOf[t])
               PROVE  ~Ended(runOf[t])'
    BY <1>1, ClosesQuiet
  <2>1. /\ runOf'[t] = runOf[t]
        /\ runState[runOf[t]] \notin {"none", "starting", "stopped", "exited"}
    BY DEF OwnedInv, PromptsOnStartedRuns, StillInFlight, Ended
  <2> USE DEF Ended, TypeOK, RunTypes
  <2>2. CASE \/ \E r \in Run : RestartStart(r)
             \/ RestartRefused \/ Launch \/ LaunchCommit \/ LaunchAbort
             \/ RestartFailed \/ ReconcileDone
    BY <2>1, <2>2 DEF RestartStart, NewRun, NextRun, RestartRefused, Launch,
       LaunchCommit, LaunchAbort, RestartFailed, Relabel, ReconcileDone, runVars
  <2>3. CASE StopFailTurn \/ StopKill \/ StopUndo
    BY <2>1, <2>3 DEF StopFailTurn, StopKill, StopUndo, BackToRunning, runVars
  <2>4. CASE StopCommit \/ RestartStopCommit
    <3>1. runOf[t] # onRun
      BY <2>4 DEF StopCommit, RestartStopCommit, RunInv, TurnsPart,
         StopKillsNoTurn, InFlightOn, StillInFlight, Turns
    <3> QED
      BY <2>1, <2>4, <3>1 DEF StopCommit, CommitStopped, Relabel,
         RestartStopCommit
  <2> QED
    BY <2>2, <2>3, <2>4
<1> QED
  BY <1>2, <1>3, <1>4, <1>5 DEF OwnedStep, SectionsOnTheirOwn

(* An exit finds the turn in flight on its run, and closes it or owes it.  *)
LEMMA ExitsOwned ==
    ASSUME TypeOK, OwnedInv, RunInv,
           NEW p \in Run \cup {Sweep}, ExitStep(p)
    PROVE  OwnedStep
<1> USE DEF ExitCommit, ExitCommitStopping, ExitCas, ExitPick, ExitClose,
            OrphanCheck, OrphanRevoke
<1>1. UNCHANGED <<runOf, lockVars>>
  BY DEF ExitStep, turnVars
<1>2. OnlyOnRunning
  BY <1>1, ExitStepFails, FailingIsQuiet
<1>3. SectionsOnTheirOwn'
  BY <1>1 DEF OwnedInv, SectionsOnTheirOwn, lockVars
<1>4. StartedStays
  BY DEF ExitStep, StartedStays, runVars, TypeOK, RunTypes
<1>5. ClosesKept
  <2> SUFFICES ASSUME NEW t \in WebTurns, StillInFlight(t), runOf[t] \in Run,
                      Ended(runOf[t])', ~Ended(runOf[t]) \/ Accounted(t)
               PROVE  Accounted(t)'
    BY DEF ClosesKept, Ended, ExitStep, StillInFlight, TypeOK, RunTypes, runVars
  <2> DEFINE r == runOf[t]
  <2>1. /\ runOf'[t] = r /\ r \in Run /\ t \in InFlightOn(r) /\ r # Sweep
        /\ t \in Turns
    BY DEF StillInFlight, InFlightOn, Turns, Run, Sweep
  <2>2. lostCloses \subseteq lostCloses'
    BY DEF ExitStep, LoseCloses
  <2>3. CASE CloseWasLost(t)
    BY <2>1, <2>2, <2>3 DEF Accounted, CloseWasLost
  <2>4. ASSUME ~CloseWasLost(t) PROVE ~Ended(r) \/ CloseIsComing(t)
    BY <2>4 DEF Accounted
  <2> USE DEF TypeOK, RunTypes, ExitTypes, LedgerTypes, ExitGoTo
  <2>5. CASE ~CloseWasLost(t) /\ p \in Run /\ (ExitCommit(p) \/ ExitCommitStopping(p))
    BY <2>1, <2>4, <2>5 DEF Accounted, CloseIsComing, Ended
  <2>6. CASE ~CloseWasLost(t) /\ p \in Run /\ ExitPick(p)
    <3>1. CASE p = r /\ LoseCloses(r)
      BY <2>1, <3>1 DEF Accounted, CloseWasLost, LoseCloses
    <3>2. CASE p = r /\ ~LoseCloses(r)
      BY <2>1, <2>4, <2>6, <3>2 DEF Accounted, CloseIsComing, RunInv, TurnsPart,
         OneInFlightPerRun, Ended, runVars, ledgerVars
    <3>3. CASE p # r
      BY <2>1, <2>4, <2>6, <3>3 DEF Accounted, CloseIsComing, Ended, runVars,
         ledgerVars
    <3> QED
      BY <3>1, <3>2, <3>3
  <2>7. CASE ~CloseWasLost(t) /\ p \in Run /\ ExitClose(p)
    <3>1. CASE exitTurn[p] = t
      <4>1. /\ owedClose' = [owedClose EXCEPT ![t] = p]
            /\ lostCloses' = lostCloses \cup
                  ({<<t, owedClose[t]>>} \ {<<t, NoRun>>, <<t, p>>})
        BY <2>1, <2>7, <3>1 DEF FailTurn, StillInFlight, InFlightOn, TurnTypes
      <4>2. CASE p = r
        BY <2>1, <4>1, <4>2 DEF Accounted, CloseIsComing
      <4>3. CASE p # r
        <5>1. Ended(r)
          BY <2>1, <2>7, <4>3 DEF Ended, runVars
        <5>2. CASE owedClose[t] = r
          <6>1. <<t, r>> \in lostCloses'
            BY <2>1, <4>1, <4>3, <5>2 DEF Run, NoRun
          <6> QED
            BY <2>1, <6>1 DEF Accounted, CloseWasLost
        <5>3. CASE owedClose[t] # r
          BY <2>1, <2>4, <2>7, <4>3, <5>1, <5>3 DEF Accounted, CloseIsComing
        <5> QED
          BY <5>2, <5>3
      <4> QED
        BY <4>2, <4>3
    <3>2. CASE exitTurn[p] # t
      BY <2>1, <2>4, <2>7, <3>2 DEF Accounted, CloseIsComing, Ended, runVars
    <3> QED
      BY <3>1, <3>2
  <2>8. CASE ~CloseWasLost(t) /\ (OrphanCheck(p) \/ OrphanRevoke(p))
    BY <2>1, <2>4, <2>8 DEF Accounted, CloseIsComing, Ended, runVars, ledgerVars
  <2> QED
    BY <2>3, <2>5, <2>6, <2>7, <2>8 DEF ExitStep
<1> QED
  BY <1>2, <1>3, <1>4, <1>5 DEF OwnedStep

(* What happens to one turn while no section is in progress.               *)
LEMMA TurnStepsOwned ==
    ASSUME TypeOK, DeliveryInv, OwnedInv, NEW t \in Turns, TurnStep(t)
    PROVE  OwnedStep
<1>1. UNCHANGED <<runState, exitAt, exitTurn, lostCloses>>
  BY DEF TurnStep, PromptRead, FlushRead, ExternalRead, QueueForStart,
     Withdraw, SettleOwedWrite, SettleOwedClose, HookCompletes, HookFails,
     Fallback, LateHook, FailNeverSent, FailUnconfirmed, CloseTurn, runVars,
     exitVars
<1>2. StartedStays
  BY <1>1 DEF StartedStays
<1>3. SectionsOnTheirOwn'
  BY DEF TurnStep, PromptRead, FlushRead, ExternalRead, QueueForStart,
     Withdraw, SettleOwedWrite, SettleOwedClose, HookCompletes, HookFails,
     Fallback, LateHook, FailNeverSent, FailUnconfirmed, CloseTurn, lockVars,
     OwnedInv, SectionsOnTheirOwn
<1>4. OnlyOnRunning
  <2>1. CASE SettleOwedWrite(t)
    <3>1. owedWrite[t] \in Outcomes
      BY <2>1 DEF SettleOwedWrite, TypeOK, LedgerTypes
    <3> QED
      BY <2>1, <3>1, OutcomeIsQuiet DEF SettleOwedWrite
  <2>2. CASE Withdraw(t) \/ SettleOwedClose(t)
    BY <2>2, OtherStepFails, FailingIsQuiet DEF Withdraw, SettleOwedClose
  <2>3. CASE \E r \in Run : PromptRead(t, r) \/ FlushRead(t, r) \/ ExternalRead(t, r)
    BY <2>3 DEF PromptRead, FlushRead, ExternalRead, turnVars, OnlyOnRunning,
       StillInFlight
  <2>4. CASE \/ QueueForStart(t) \/ HookCompletes(t) \/ HookFails(t)
             \/ Fallback(t) \/ LateHook(t) \/ FailNeverSent(t)
             \/ FailUnconfirmed(t)
    BY <2>4 DEF QueueForStart, HookCompletes, HookFails, Fallback, LateHook,
       FailNeverSent, FailUnconfirmed, CloseTurn, TypeOK, TurnTypes, Turns,
       OnlyOnRunning, StillInFlight
  <2> QED
    BY <2>1, <2>2, <2>3, <2>4 DEF TurnStep
<1>5. ClosesKept
  <2>1. CASE SettleOwedClose(t)
    BY <1>1, <2>1 DEF SettleOwedClose, FailTurn, ClosesKept, Accounted,
       CloseIsComing, CloseWasLost, StillInFlight, Ended, TypeOK, TurnTypes, LedgerTypes, Turns
  <2>2. CASE UNCHANGED owedClose
    BY <1>1, <2>2, ClosesQuiet DEF Ended, StillInFlight
  <2> QED
    BY <2>1, <2>2 DEF TurnStep, PromptRead, FlushRead, ExternalRead,
       QueueForStart, Withdraw, SettleOwedWrite, HookCompletes, HookFails,
       Fallback, LateHook, FailNeverSent, FailUnconfirmed, CloseTurn,
       ledgerVars
<1> QED
  BY <1>2, <1>3, <1>4, <1>5 DEF OwnedStep

(* What happens to a run while no section is in progress.                  *)
LEMMA RunStepsOwned ==
    ASSUME TypeOK, OwnedInv, NEW r \in Run, RunStep(r)
    PROVE  OwnedStep
<1> USE DEF RunStep, Start, NewRun, NextRun, StopBegin, AgentDies, ExitRead,
            ReconcileExit, ReconcileAlive, SettleRun, SettleDropped
<1>1. UNCHANGED <<runOf, exitTurn, owedClose>>
  BY DEF turnVars, exitVars, ledgerVars
<1>2. OnlyOnRunning
  BY <1>1, RunStepFails, FailingIsQuiet
<1>3. SectionsOnTheirOwn'
  BY DEF lockVars, OwnedInv, SectionsOnTheirOwn
<1>4. StartedStays
  BY DEF CommitStopped, BackToRunning, Relabel, StartedStays, runVars, Live,
     TypeOK, RunTypes
<1>5. \A q \in Run : exitAt[q] \in {"pick", "close"} => exitAt'[q] = exitAt[q]
  BY DEF ExitGoTo, exitVars, TypeOK, ExitTypes, Sweep, Run
<1>6. lostCloses \subseteq lostCloses'
  BY DEF LoseCloses
<1>7. ASSUME NEW t \in WebTurns, StillInFlight(t), runOf[t] \in Run,
             ~Ended(runOf[t]), Ended(runOf[t])'
      PROVE  CloseWasLost(t)'
  <2>1. /\ runOf[t] \in Run /\ runOf'[t] = runOf[t]
        /\ t \in InFlightOn(runOf[t])
        /\ runState[runOf[t]] \notin {"none", "starting", "stopped", "exited"}
    BY <1>7 DEF OwnedInv, PromptsOnStartedRuns, StillInFlight, Ended,
       InFlightOn, Turns
  <2> USE DEF Ended, TypeOK, RunTypes
  <2>2. CASE ~\E how \in Settles : SettleRun(r, how)
    BY <1>7, <2>1, <2>2 DEF runVars
  <2>3. ASSUME NEW how \in Settles, SettleRun(r, how)
        PROVE  CloseWasLost(t)'
    <3>1. runOf[t] = r /\ how = "finish_stop" /\ runState[r] = "stopping"
      BY <1>7, <2>1, <2>3 DEF CommitStopped, BackToRunning, Relabel
    <3> QED
      BY <2>1, <2>3, <3>1 DEF CloseWasLost, LoseCloses
  <2> QED
    BY <2>2, <2>3
<1>8. ClosesKept
  BY <1>1, <1>5, <1>6, <1>7 DEF ClosesKept, Accounted, CloseIsComing,
     CloseWasLost, StillInFlight
<1> QED
  BY <1>2, <1>3, <1>4, <1>8 DEF OwnedStep

(* The two steps that are of no turn and no run.                           *)
LEMMA BotStepsOwned ==
    ASSUME TypeOK, OwnedInv, RestartNoRun \/ SweepStart PROVE OwnedStep
<1>1. /\ UNCHANGED <<runState, status, runOf, exitTurn, owedClose, lostCloses>>
      /\ \A r \in Run : exitAt'[r] = exitAt[r]
      /\ at' = "restart" \/ UNCHANGED lockVars
  BY DEF RestartNoRun, SweepStart, ExitGoTo, runVars, turnVars, exitVars,
     ledgerVars, TypeOK, ExitTypes, Sweep, Run
<1>2. ClosesKept
  BY <1>1 DEF ClosesKept, Accounted, CloseIsComing, CloseWasLost, StillInFlight,
     Ended
<1>3. OnlyOnRunning /\ StartedStays
  BY <1>1 DEF OnlyOnRunning, StillInFlight, StartedStays
<1>4. SectionsOnTheirOwn'
  BY <1>1 DEF OwnedInv, SectionsOnTheirOwn, lockVars
<1> QED
  BY <1>2, <1>3, <1>4 DEF OwnedStep

LEMMA OwnedInit == Init => OwnedInv
<1> SUFFICES ASSUME Init PROVE OwnedInv
  OBVIOUS
<1>1. at = "free" /\ \A t \in WebTurns : status[t] = "none"
  BY DEF Init, Turns
<1> QED
  BY <1>1 DEF OwnedInv, PromptsOnStartedRuns, SectionsOnTheirOwn,
     EndedRunTurnIsOwned

LEMMA OwnedNext ==
    ASSUME TypeOK, DeliveryInv, RunInv, OwnedInv, [Next]_vars
    PROVE  OwnedInv'
<1>1. CASE UNCHANGED vars
  BY <1>1 DEF vars, runVars, turnVars, lockVars, exitVars, ledgerVars,
     OwnedInv, PromptsOnStartedRuns, SectionsOnTheirOwn, EndedRunTurnIsOwned,
     CloseIsComing, CloseWasLost, Ended
<1>2. CASE Next
  <2>1. OwnedStep
    <3>1. CASE LockStep
      BY <3>1, AttemptsOwned, OtherLockStepsOwned DEF LockStep
    <3>2. CASE \E r \in Run : RunStep(r)
      BY <3>2, RunStepsOwned
    <3>3. CASE RestartNoRun \/ SweepStart
      BY <3>3, BotStepsOwned
    <3> QED
      BY <1>2, <3>1, <3>2, <3>3, ExitsOwned, TurnStepsOwned DEF Next
  <2>2. EndedKept
    BY <1>2, NextKeepsEnded
  <2> QED
    BY <2>1, <2>2, OwnedStays DEF OwnedStep, StartedStays
<1> QED
  BY <1>1, <1>2

(* A prompt in flight on a run that ended is about to be closed, or its    *)
(* close is owed, or one of three steps lost it: the exit's failing read,  *)
(* an overwritten entry of the ledger, the left-over retry of a stop.      *)
(* There is no other way in which fail_in_flight_or_owe, interruption.rs   *)
(* and run_state.rs lose a close, however many runs there are and however  *)
(* many database calls fail.                                               *)
THEOREM OwnedHolds == Spec => []EndedRunTurnIsOwned
<1>1. TypeOK /\ DeliveryInv /\ RunInv /\ OwnedInv /\ [Next]_vars => OwnedInv'
  BY OwnedNext
<1>2. OwnedInv => EndedRunTurnIsOwned
  BY DEF OwnedInv
<1> QED
  BY <1>1, <1>2, OwnedInit, TypesHold, DeliveryHolds, RunInvHolds, PTL DEF Spec

=============================================================================
