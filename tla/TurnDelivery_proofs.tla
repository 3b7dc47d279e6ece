------------------------- MODULE TurnDelivery_proofs -------------------------
(***************************************************************************)
(* What the daemon says of a delivery, proved for every set of turns and   *)
(* every bound: nothing that was typed is reported as never sent, queued   *)
(* again or withdrawn, no text is typed twice, and a turn's status moves   *)
(* along the legal edges only (TurnGuard).                                 *)
(***************************************************************************)
EXTENDS TurnLifecycle_proofs

(* Inductive on top of TypeOK.                                             *)
DeliveryInv == SectionKnowsUntyped /\ LedgerKnowsUntyped /\ NeverSentIsTrue

GuardStep == [Guard!Next]_<<status, typed>>

(* Sections of the lock that work on one turn.                             *)
TurnSections == {"prompt", "flush", "external", "typing", "record"}

----------------------------------------------------------------------------
(* Steps of the guard.                                                     *)

(* The moves of a status that TurnGuard allows.                            *)
LEMMA Edges ==
    ASSUME NEW t \in Turns, NEW a, NEW b,
           \/ a = "none" /\ b \in {"queued", "in_flight"}
           \/ a = "queued" /\ b = "in_flight"
           \/ a = "in_flight" /\ b \in {"completed", "completed_fallback", "failed"}
           \/ a = "completed_fallback" /\ b = "completed"
           \/ /\ typed[t] = 0
              /\ \/ a = "queued" /\ b = "failed"
                 \/ a = "in_flight" /\ b \in {"queued", "deleted"}
    PROVE  Guard!MayMove(t, <<a, b>>)
  BY DEF Guard!MayMove, Guard!Inserts, Guard!LegalEdges, Guard!Removals,
         Guard!Unsent

(* Such moves are a step of the guard.                                     *)
LEMMA Moves ==
    ASSUME TypeOK', UNCHANGED typed,
           \A t \in Turns : \/ status'[t] = status[t]
                            \/ Guard!MayMove(t, <<status[t], status'[t]>>)
    PROVE  GuardStep
<1>1. status' \in [Turns -> Guard!TurnStates]
  BY DEF TypeOK, TurnTypes, TurnStates, Guard!TurnStates
<1> QED
  BY <1>1 DEF GuardStep, Guard!Next, Guard!Move

(* What happens to the turns in a step that sends nothing: some are failed *)
(* where they stand, or withdrawn from the queue.                          *)
TurnsOnlyFail ==
    /\ UNCHANGED <<typed, owedWrite>>
    /\ \A t \in Turns :
          \/ status'[t] = status[t] /\ delivery'[t] = delivery[t]
          \/ status[t] = "queued" /\ status'[t] = "failed"
          \/ status[t] = "in_flight" /\ status'[t] = "failed"
             /\ delivery'[t] = delivery[t]

SectionKept ==
    UNCHANGED lockVars \/ (at \notin TurnSections /\ at' \notin TurnSections)

LEMMA FailingKeeps ==
    ASSUME TypeOK, TypeOK', DeliveryInv, TurnsOnlyFail, SectionKept
    PROVE  DeliveryInv' /\ GuardStep
<1> USE DEF DeliveryInv, TurnsOnlyFail
<1>1. SectionKnowsUntyped'
  <2>1. CASE UNCHANGED lockVars
    BY <2>1 DEF lockVars, SectionKnowsUntyped
  <2>2. CASE at' \notin TurnSections
    BY <2>2 DEF TurnSections, SectionKnowsUntyped
  <2> QED
    BY <2>1, <2>2 DEF SectionKept
<1>2. LedgerKnowsUntyped'
  BY DEF LedgerKnowsUntyped
<1>3. NeverSentIsTrue'
  <2> SUFFICES ASSUME NEW t \in Turns, typed[t] > 0,
                      \/ delivery'[t] \in {"pending", "failed"}
                      \/ status'[t] \in {"none", "queued", "deleted"}
               PROVE  owedWrite[t] \in {"sent", "unproven"} \/ AboutToRecord(t)'
    BY DEF NeverSentIsTrue
  <2>1. typed[t] # 0
    OBVIOUS
  <2>2. owedWrite[t] \in {"sent", "unproven"} \/ AboutToRecord(t)
    BY <2>1 DEF NeverSentIsTrue, LedgerKnowsUntyped
  <2>3. AboutToRecord(t) => AboutToRecord(t)'
    BY DEF AboutToRecord, SectionKept, TurnSections, lockVars
  <2> QED
    BY <2>2, <2>3
<1>4. GuardStep
  <2> SUFFICES ASSUME NEW t \in Turns, status'[t] # status[t]
               PROVE  Guard!MayMove(t, <<status[t], status'[t]>>)
    BY Moves
  <2> QED
    BY Edges DEF LedgerKnowsUntyped
<1> QED
  BY <1>1, <1>2, <1>3, <1>4

----------------------------------------------------------------------------
(* Attempts to deliver.                                                    *)

(* The written result of an attempt, whether now or by a retry.            *)
LEMMA OutcomeMoves ==
    ASSUME TypeOK, TypeOK', NEW t \in Turns, NEW o, NEW q \in BOOLEAN,
           status[t] \notin {"none", "queued", "deleted"},
           o \notin {"sent", "unproven"} => typed[t] = 0,
           WriteOutcome(t, o, q)
    PROVE  /\ \A u \in Turns \ {t} :
                 status'[u] = status[u] /\ delivery'[u] = delivery[u]
           /\ o \in {"sent", "unproven"} =>
                 status' = status /\ delivery'[t] \in {"ok", "unknown"}
           /\ \/ status'[t] = status[t]
              \/ Guard!MayMove(t, <<status[t], status'[t]>>)
           /\ status'[t] \in {"none", "queued", "deleted"} => typed[t] = 0
<1> USE DEF TypeOK, TurnTypes
<1>1. ASSUME WriteClosed(t), typed[t] = 0
      PROVE  /\ \A u \in Turns \ {t} :
                   status'[u] = status[u] /\ delivery'[u] = delivery[u]
             /\ \/ status'[t] = status[t]
                \/ Guard!MayMove(t, <<status[t], status'[t]>>)
  BY <1>1, Edges DEF WriteClosed, FailTurn
<1>2. ASSUME NEW spent \in {0, 1}, WriteBack(t, spent), typed[t] = 0
      PROVE  /\ \A u \in Turns \ {t} :
                   status'[u] = status[u] /\ delivery'[u] = delivery[u]
             /\ \/ status'[t] = status[t]
                \/ Guard!MayMove(t, <<status[t], status'[t]>>)
  BY <1>1, <1>2, Edges DEF WriteBack
<1>3. ASSUME WriteRetracted(t), typed[t] = 0
      PROVE  /\ \A u \in Turns \ {t} :
                   status'[u] = status[u] /\ delivery'[u] = delivery[u]
             /\ \/ status'[t] = status[t]
                \/ Guard!MayMove(t, <<status[t], status'[t]>>)
  BY <1>3, Edges DEF WriteRetracted
<1>4. CASE o \in {"sent", "unproven"}
  BY <1>4 DEF WriteOutcome, Deliveries
<1>5. CASE o \notin {"sent", "unproven"}
  BY <1>1, <1>2, <1>3, <1>5 DEF WriteOutcome
<1> QED
  BY <1>4, <1>5

(* Under the lock, the text is typed and the result written.               *)
LEMMA AttemptKeeps ==
    ASSUME TypeOK, TypeOK', DeliveryInv,
           \/ PromptInsert \/ PromptQueue \/ FlushClaim \/ ExternalInsert
           \/ \E o \in Outcomes : TypeText(o)
           \/ RecordOutcome \/ RecordFails
    PROVE  DeliveryInv' /\ GuardStep
<1> USE DEF DeliveryInv, TypeOK
<1>1. CASE PromptInsert \/ PromptQueue \/ FlushClaim \/ ExternalInsert
  <2>1. UNCHANGED <<typed, owedWrite>>
    BY <1>1 DEF PromptInsert, PromptQueue, FlushClaim, ExternalInsert, ledgerVars
  <2>2. \/ UNCHANGED <<status, delivery>>
        \/ /\ onTurn \in Turns /\ typed[onTurn] = 0 /\ owedWrite[onTurn] = "none"
           /\ \/ status[onTurn] = "none" /\ status' = [status EXCEPT ![onTurn] = "queued"]
              \/ /\ status[onTurn] \in {"none", "queued"}
                 /\ status' = [status EXCEPT ![onTurn] = "in_flight"]
           /\ \A t \in Turns \ {onTurn} : delivery'[t] = delivery[t]
    BY <1>1 DEF PromptInsert, PromptQueue, FlushClaim, ExternalInsert,
       SectionKnowsUntyped, LedgerKnowsUntyped, TurnTypes
  <2>3. at' = "free" \/ (at' = "typing" /\ onTurn' = onTurn /\ onTurn \in Turns
                           /\ status' = [status EXCEPT ![onTurn] = "in_flight"]
                           /\ status[onTurn] \in {"none", "queued"})
    BY <1>1 DEF PromptInsert, PromptQueue, FlushClaim, ExternalInsert,
       Release, GoTo, SectionKnowsUntyped
  <2>4. at # "record" /\ at' # "record"
    BY <1>1 DEF PromptInsert, PromptQueue, FlushClaim, ExternalInsert,
       Release, GoTo
  <2>5. SectionKnowsUntyped'
    BY <2>1, <2>2, <2>3 DEF SectionKnowsUntyped, LedgerKnowsUntyped, TurnTypes
  <2>6. LedgerKnowsUntyped'
    BY <2>1, <2>2 DEF LedgerKnowsUntyped, TurnTypes
  <2>7. NeverSentIsTrue'
    <3> SUFFICES ASSUME NEW t \in Turns, typed[t] > 0,
                        \/ delivery'[t] \in {"pending", "failed"}
                        \/ status'[t] \in {"none", "queued", "deleted"}
                 PROVE  owedWrite[t] \in {"sent", "unproven"}
      BY <2>1 DEF NeverSentIsTrue
    <3>1. typed[t] # 0
      OBVIOUS
    <3>2. ~AboutToRecord(t)
      BY <2>4 DEF AboutToRecord
    <3>3. status'[t] = status[t] /\ delivery'[t] = delivery[t]
      BY <2>2, <3>1 DEF TurnTypes
    <3> QED
      BY <3>2, <3>3 DEF NeverSentIsTrue
  <2>8. GuardStep
    BY <2>1, <2>2, Edges, Moves DEF TurnTypes
  <2> QED
    BY <2>5, <2>6, <2>7, <2>8
<1>2. ASSUME NEW o \in Outcomes, TypeText(o)
      PROVE  DeliveryInv' /\ GuardStep
  <2>1. /\ onTurn \in Turns /\ status[onTurn] \in {"in_flight", "failed"}
        /\ owedWrite[onTurn] = "none" /\ typed[onTurn] = 0
    BY <1>2 DEF TypeText, SectionKnowsUntyped
  <2>2. /\ at' = "record" /\ onTurn' = onTurn /\ outcome' = o
        /\ UNCHANGED <<status, delivery, owedWrite>>
    BY <1>2 DEF TypeText, turnVars, ledgerVars
  <2>3. \/ o \in {"sent", "unproven"} /\ typed' = [typed EXCEPT ![onTurn] = 1]
        \/ o # "sent" /\ typed' = typed
    BY <1>2, <2>1 DEF TypeText, OtherTypes
  <2>4. SectionKnowsUntyped'
    BY <2>1, <2>2, <2>3 DEF SectionKnowsUntyped, OtherTypes
  <2>5. LedgerKnowsUntyped'
    BY <2>1, <2>2, <2>3 DEF LedgerKnowsUntyped, OtherTypes
  <2>6. NeverSentIsTrue'
    <3> SUFFICES ASSUME NEW t \in Turns, typed'[t] > 0,
                        \/ delivery[t] \in {"pending", "failed"}
                        \/ status[t] \in {"none", "queued", "deleted"}
                 PROVE  owedWrite[t] \in {"sent", "unproven"} \/ AboutToRecord(t)'
      BY <2>2 DEF NeverSentIsTrue
    <3>1. CASE t = onTurn
      BY <2>1, <2>2, <2>3, <3>1 DEF AboutToRecord, OtherTypes
    <3>2. CASE t # onTurn
      BY <1>2, <2>3, <3>2 DEF NeverSentIsTrue, AboutToRecord, TypeText, OtherTypes
    <3> QED
      BY <3>1, <3>2
  <2>7. GuardStep
    BY <2>1, <2>2, <2>3 DEF GuardStep, Guard!Next, Guard!Type
  <2> QED
    BY <2>4, <2>5, <2>6, <2>7
<1>3. CASE RecordOutcome
  <2>1. /\ onTurn \in Turns /\ status[onTurn] \in {"in_flight", "failed"}
        /\ outcome \notin {"sent", "unproven"} => typed[onTurn] = 0
    BY <1>3 DEF RecordOutcome, SectionKnowsUntyped
  <2>2. /\ WriteOutcome(onTurn, outcome, fromQueue) /\ UNCHANGED typed
        /\ owedWrite' = [owedWrite EXCEPT ![onTurn] = "none"] /\ at' = "free"
    BY <1>3 DEF RecordOutcome, Release
  <2>3. fromQueue \in BOOLEAN
    BY DEF LockTypes
  <2>4. /\ \A u \in Turns \ {onTurn} :
              status'[u] = status[u] /\ delivery'[u] = delivery[u]
        /\ outcome \in {"sent", "unproven"} =>
              status' = status /\ delivery'[onTurn] \in {"ok", "unknown"}
        /\ \/ status'[onTurn] = status[onTurn]
           \/ Guard!MayMove(onTurn, <<status[onTurn], status'[onTurn]>>)
        /\ status'[onTurn] \in {"none", "queued", "deleted"} => typed[onTurn] = 0
    BY <2>1, <2>2, <2>3, OutcomeMoves
  <2>5. SectionKnowsUntyped'
    BY <2>2 DEF SectionKnowsUntyped
  <2>6. LedgerKnowsUntyped'
    BY <2>1, <2>2, <2>4 DEF LedgerKnowsUntyped, LedgerTypes
  <2>7. NeverSentIsTrue'
    <3> SUFFICES ASSUME NEW t \in Turns, typed[t] > 0,
                        \/ delivery'[t] \in {"pending", "failed"}
                        \/ status'[t] \in {"none", "queued", "deleted"}
                 PROVE  owedWrite'[t] \in {"sent", "unproven"}
      BY <2>2 DEF NeverSentIsTrue
    <3>1. typed[t] # 0
      OBVIOUS
    <3>2. t # onTurn
      BY <2>1, <2>4, <3>1
    <3>3. owedWrite[t] \in {"sent", "unproven"} \/ AboutToRecord(t)
      BY <2>4, <3>2 DEF NeverSentIsTrue
    <3> QED
      BY <2>2, <3>2, <3>3 DEF AboutToRecord, LedgerTypes
  <2>8. GuardStep
    BY <2>2, <2>4, Moves
  <2> QED
    BY <2>5, <2>6, <2>7, <2>8
<1>4. CASE RecordFails
  <2>1. /\ onTurn \in Turns /\ status[onTurn] \in {"in_flight", "failed"}
        /\ owedWrite[onTurn] = "none"
        /\ outcome \notin {"sent", "unproven"} => typed[onTurn] = 0
        /\ at = "record"
    BY <1>4 DEF RecordFails, SectionKnowsUntyped
  <2>2. /\ UNCHANGED <<status, delivery, typed>>
        /\ \/ /\ outcome \in {"never", "not_now", "window"} /\ outcome' = "refused"
              /\ UNCHANGED <<at, onTurn, owedWrite>>
           \/ owedWrite' = [owedWrite EXCEPT ![onTurn] = outcome] /\ at' = "free"
    BY <1>4 DEF RecordFails, Release, turnVars
  <2>3. SectionKnowsUntyped'
    BY <2>1, <2>2 DEF SectionKnowsUntyped
  <2>4. LedgerKnowsUntyped'
    BY <2>1, <2>2 DEF LedgerKnowsUntyped, LedgerTypes
  <2>5. NeverSentIsTrue'
    BY <2>1, <2>2 DEF NeverSentIsTrue, AboutToRecord, LedgerTypes
  <2>6. GuardStep
    BY <2>2 DEF GuardStep
  <2> QED
    BY <2>3, <2>4, <2>5, <2>6
<1> QED
  BY <1>1, <1>2, <1>3, <1>4

(* A section of the lock that works on a turn begins.                      *)
LEMMA BeginKeeps ==
    ASSUME TypeOK, DeliveryInv, NEW t \in Turns, NEW r \in Run,
           PromptRead(t, r) \/ FlushRead(t, r) \/ ExternalRead(t, r)
    PROVE  DeliveryInv' /\ GuardStep
<1> USE DEF DeliveryInv, PromptRead, FlushRead, ExternalRead
<1>1. UNCHANGED <<status, delivery, typed, owedWrite>>
  BY DEF turnVars, ledgerVars
<1>2. SectionKnowsUntyped'
  BY <1>1 DEF SectionKnowsUntyped
<1>3. LedgerKnowsUntyped'
  BY <1>1 DEF LedgerKnowsUntyped
<1>4. NeverSentIsTrue'
  BY <1>1 DEF NeverSentIsTrue, AboutToRecord
<1>5. GuardStep
  BY <1>1 DEF GuardStep
<1> QED
  BY <1>2, <1>3, <1>4, <1>5

(* A retry writes the result that was owed.                                *)
LEMMA SettleKeeps ==
    ASSUME TypeOK, TypeOK', DeliveryInv, NEW t \in Turns, SettleOwedWrite(t)
    PROVE  DeliveryInv' /\ GuardStep
<1> USE DEF DeliveryInv
<1>1. /\ status[t] \notin {"none", "queued", "deleted"}
      /\ owedWrite[t] \notin {"sent", "unproven"} => typed[t] = 0
  BY DEF SettleOwedWrite, LedgerKnowsUntyped
<1>2. /\ WriteOutcome(t, owedWrite[t], TRUE) /\ UNCHANGED <<typed, at>>
      /\ owedWrite' = [owedWrite EXCEPT ![t] = "none"] /\ at = "free"
  BY DEF SettleOwedWrite, lockVars
<1>3. /\ \A u \in Turns \ {t} :
            status'[u] = status[u] /\ delivery'[u] = delivery[u]
      /\ owedWrite[t] \in {"sent", "unproven"} =>
            status' = status /\ delivery'[t] \in {"ok", "unknown"}
      /\ \/ status'[t] = status[t]
         \/ Guard!MayMove(t, <<status[t], status'[t]>>)
      /\ status'[t] \in {"none", "queued", "deleted"} => typed[t] = 0
  BY <1>1, <1>2, OutcomeMoves
<1>4. SectionKnowsUntyped'
  BY <1>2 DEF SectionKnowsUntyped
<1>5. LedgerKnowsUntyped'
  BY <1>1, <1>2, <1>3 DEF LedgerKnowsUntyped, TypeOK, LedgerTypes
<1>6. NeverSentIsTrue'
  <2> SUFFICES ASSUME NEW u \in Turns, typed[u] > 0,
                      \/ delivery'[u] \in {"pending", "failed"}
                      \/ status'[u] \in {"none", "queued", "deleted"}
               PROVE  owedWrite'[u] \in {"sent", "unproven"}
    BY <1>2 DEF NeverSentIsTrue
  <2>1. typed[u] # 0
    OBVIOUS
  <2>2. u # t
    BY <1>1, <1>3, <2>1
  <2>3. owedWrite[u] \in {"sent", "unproven"}
    BY <1>2, <1>3, <2>2 DEF NeverSentIsTrue, AboutToRecord
  <2> QED
    BY <1>2, <2>2, <2>3 DEF TypeOK, LedgerTypes
<1>7. GuardStep
  BY <1>2, <1>3, Moves
<1> QED
  BY <1>4, <1>5, <1>6, <1>7

(* A prompt is queued for a start, or a turn ends on an active run.        *)
LEMMA TurnEndKeeps ==
    ASSUME TypeOK, TypeOK', DeliveryInv, NEW t \in Turns,
           \/ QueueForStart(t) \/ HookCompletes(t) \/ HookFails(t)
           \/ Fallback(t) \/ LateHook(t) \/ FailNeverSent(t)
           \/ FailUnconfirmed(t)
    PROVE  DeliveryInv' /\ GuardStep
<1> USE DEF DeliveryInv, TypeOK, TurnTypes
<1>1. UNCHANGED <<typed, owedWrite, at>> /\ at = "free"
  BY DEF QueueForStart, HookCompletes, HookFails, Fallback, LateHook,
     FailNeverSent, FailUnconfirmed, CloseTurn, lockVars, ledgerVars
<1>2. \A u \in Turns \ {t} :
         status'[u] = status[u] /\ delivery'[u] = delivery[u]
  BY DEF QueueForStart, HookCompletes, HookFails, Fallback, LateHook,
     FailNeverSent, FailUnconfirmed, CloseTurn
<1>3. \/ status[t] = "none" /\ status'[t] = "queued"
      \/ /\ \/ /\ status[t] = "in_flight"
               /\ status'[t] \in {"completed", "completed_fallback", "failed"}
            \/ status[t] = "completed_fallback" /\ status'[t] = "completed"
         /\ delivery'[t] \in {"pending", "failed"} =>
               delivery[t] \in {"pending", "failed"}
  BY DEF QueueForStart, HookCompletes, HookFails, Fallback, LateHook,
     FailNeverSent, FailUnconfirmed, CloseTurn, ReadOn
<1>4. SectionKnowsUntyped'
  BY <1>1 DEF SectionKnowsUntyped
<1>5. LedgerKnowsUntyped'
  BY <1>1, <1>2, <1>3 DEF LedgerKnowsUntyped
<1>6. NeverSentIsTrue'
  <2> SUFFICES ASSUME NEW u \in Turns, typed[u] > 0,
                      \/ delivery'[u] \in {"pending", "failed"}
                      \/ status'[u] \in {"none", "queued", "deleted"}
               PROVE  owedWrite[u] \in {"sent", "unproven"}
    BY <1>1 DEF NeverSentIsTrue
  <2>1. typed[u] # 0
    OBVIOUS
  <2>2. \/ delivery[u] \in {"pending", "failed"}
        \/ status[u] \in {"none", "queued", "deleted"}
    BY <1>2, <1>3, <2>1 DEF LedgerKnowsUntyped
  <2> QED
    BY <1>1, <2>2 DEF NeverSentIsTrue, AboutToRecord
<1>7. GuardStep
  BY <1>1, <1>2, <1>3, Edges, Moves
<1> QED
  BY <1>4, <1>5, <1>6, <1>7

----------------------------------------------------------------------------
(* Every other step only fails turns, or leaves them alone.                *)

LEMMA LockStepFails ==
    ASSUME TypeOK,
           \/ \E r \in Run : RestartStart(r)
           \/ RestartRefused \/ Launch \/ LaunchCommit \/ LaunchAbort
           \/ RestartFailed \/ StopFailTurn \/ StopKill \/ StopUndo
           \/ StopCommit \/ RestartStopCommit \/ ReconcileDone
    PROVE  TurnsOnlyFail /\ SectionKept
<1> USE DEF SectionKept, TurnSections, TurnsOnlyFail
<1>1. CASE \/ \E r \in Run : RestartStart(r)
           \/ RestartRefused \/ Launch \/ LaunchCommit \/ LaunchAbort
  BY <1>1 DEF RestartStart, NewRun, RestartRefused, Launch, LaunchCommit,
     LaunchAbort, GoTo, Release, turnVars, ledgerVars
<1>2. CASE StopKill \/ StopUndo \/ RestartStopCommit \/ ReconcileDone
  BY <1>2 DEF StopKill, StopUndo, RestartStopCommit, ReconcileDone, GoTo,
     Release, turnVars, ledgerVars
<1>3. CASE RestartFailed
  BY <1>3 DEF RestartFailed, RetractQueued, Release
<1>4. CASE StopFailTurn
  BY <1>4 DEF StopFailTurn, InFlightOn, GoTo, ledgerVars
<1>5. CASE StopCommit
  BY <1>5 DEF StopCommit, CommitStopped, RetractQueued, Release
<1> QED
  BY <1>1, <1>2, <1>3, <1>4, <1>5

LEMMA ExitStepFails ==
    ASSUME TypeOK, NEW p \in Run \cup {Sweep}, ExitStep(p)
    PROVE  TurnsOnlyFail /\ SectionKept
<1> USE DEF SectionKept, TurnsOnlyFail
<1>1. CASE \/ p \in Run /\ (ExitCommit(p) \/ ExitCommitStopping(p) \/ ExitPick(p))
           \/ OrphanCheck(p)
  BY <1>1 DEF ExitCommit, ExitCommitStopping, ExitCas, ExitPick, OrphanCheck,
     turnVars, ledgerVars
<1>2. CASE p \in Run /\ ExitClose(p)
  BY <1>2 DEF ExitClose, FailTurn, TypeOK, TurnTypes
<1>3. CASE OrphanRevoke(p)
  BY <1>3 DEF OrphanRevoke, RetractQueued, ledgerVars
<1> QED
  BY <1>1, <1>2, <1>3 DEF ExitStep

LEMMA RunStepFails ==
    ASSUME TypeOK, NEW r \in Run, RunStep(r)
    PROVE  TurnsOnlyFail /\ SectionKept
<1> USE DEF SectionKept, TurnsOnlyFail, TurnSections
<1>1. CASE \/ Start(r) \/ AgentDies(r) \/ ExitRead(r) \/ ReconcileExit(r)
           \/ ReconcileAlive(r) \/ \E how \in Settles : SettleDropped(r, how)
  BY <1>1 DEF Start, NewRun, AgentDies, ExitRead, ReconcileExit,
     ReconcileAlive, SettleDropped, turnVars, ledgerVars
<1>2. ASSUME NEW forRestart \in BOOLEAN, StopBegin(r, forRestart)
      PROVE  TurnsOnlyFail /\ SectionKept
  BY <1>2 DEF StopBegin, RetractQueued, ledgerVars
<1>3. ASSUME NEW how \in Settles, SettleRun(r, how)
      PROVE  TurnsOnlyFail /\ SectionKept
  BY <1>3 DEF SettleRun, CommitStopped, RetractQueued
<1> QED
  BY <1>1, <1>2, <1>3 DEF RunStep

LEMMA OtherStepFails ==
    ASSUME TypeOK,
           \/ RestartNoRun \/ SweepStart
           \/ \E t \in Turns : Withdraw(t) \/ SettleOwedClose(t)
    PROVE  TurnsOnlyFail /\ SectionKept
<1> USE DEF SectionKept, TurnsOnlyFail, TurnSections
<1>1. CASE RestartNoRun \/ SweepStart
  BY <1>1 DEF RestartNoRun, SweepStart, turnVars, ledgerVars
<1>2. ASSUME NEW t \in Turns, Withdraw(t) PROVE TurnsOnlyFail /\ SectionKept
  BY <1>2 DEF Withdraw, RetractQueued, ledgerVars
<1>3. ASSUME NEW t \in Turns, SettleOwedClose(t)
      PROVE  TurnsOnlyFail /\ SectionKept
  BY <1>3 DEF SettleOwedClose, FailTurn, TypeOK, TurnTypes
<1> QED
  BY <1>1, <1>2, <1>3

----------------------------------------------------------------------------
(* The theorems.                                                           *)

LEMMA DeliveryInit == Init => DeliveryInv
<1> SUFFICES ASSUME Init PROVE DeliveryInv
  OBVIOUS
<1>1. /\ \A t \in Turns : /\ status[t] = "none" /\ owedWrite[t] = "none"
                          /\ typed[t] = 0
      /\ at = "free"
  BY DEF Init
<1> QED
  BY <1>1 DEF DeliveryInv, SectionKnowsUntyped, LedgerKnowsUntyped,
     NeverSentIsTrue

LEMMA DeliveryStep ==
    ASSUME TypeOK, TypeOK', DeliveryInv, [Next]_vars
    PROVE  DeliveryInv' /\ GuardStep
<1>1. CASE UNCHANGED vars
  <2>1. TurnsOnlyFail /\ SectionKept
    BY <1>1 DEF vars, turnVars, lockVars, ledgerVars, TurnsOnlyFail, SectionKept
  <2> QED
    BY <2>1, FailingKeeps
<1>2. CASE LockStep
  BY <1>2, AttemptKeeps, LockStepFails, FailingKeeps DEF LockStep
<1>3. ASSUME NEW p \in Run \cup {Sweep}, ExitStep(p)
      PROVE  DeliveryInv' /\ GuardStep
  BY <1>3, ExitStepFails, FailingKeeps
<1>4. ASSUME NEW t \in Turns, TurnStep(t) PROVE DeliveryInv' /\ GuardStep
  BY <1>4, BeginKeeps, SettleKeeps, TurnEndKeeps, OtherStepFails,
     FailingKeeps DEF TurnStep
<1>5. ASSUME NEW r \in Run, RunStep(r) PROVE DeliveryInv' /\ GuardStep
  BY <1>5, RunStepFails, FailingKeeps
<1>6. CASE RestartNoRun \/ SweepStart
  BY <1>6, OtherStepFails, FailingKeeps
<1> QED
  BY <1>1, <1>2, <1>3, <1>4, <1>5, <1>6 DEF Next

LEMMA DeliveryHolds == Spec => []DeliveryInv
<1>1. TypeOK /\ TypeOK' /\ DeliveryInv /\ [Next]_vars => DeliveryInv'
  BY DeliveryStep
<1> QED
  BY <1>1, DeliveryInit, TypesHold, PTL DEF Spec

(* What the daemon takes to be untyped was not typed, in every section     *)
(* (queue.rs, prompt.rs) and in the ledger of owed writes                  *)
(* (owed_delivery.rs).                                                     *)
THEOREM UntypedIsKnownHolds == Spec => []UntypedIsKnown
<1>1. DeliveryInv => UntypedIsKnown
  BY DEF DeliveryInv, UntypedIsKnown
<1> QED
  BY <1>1, DeliveryHolds, PTL

(* A turn reported as pending, never sent, queued or withdrawn was not     *)
(* typed, unless the record that it was is still owed (mark_delivery,      *)
(* owed_delivery::write, retract_unsent_turn).                             *)
THEOREM NeverSentHolds == Spec => []NeverSentIsTrue
<1>1. DeliveryInv => NeverSentIsTrue
  BY DEF DeliveryInv
<1> QED
  BY <1>1, DeliveryHolds, PTL

(* The daemon implements TurnGuard: whatever path works on a turn, its     *)
(* status moves along the legal edges of turn_guard.rs, its text is typed  *)
(* at most once, and nothing typed is queued again or withdrawn.           *)
THEOREM GuardIsKept == Spec => KeepsGuard
<1>1. Init => Guard!Init
  BY DEF Init, Guard!Init
<1>2. TypeOK /\ TypeOK' /\ DeliveryInv /\ [Next]_vars
        => [Guard!Next]_<<status, typed>>
  BY DeliveryStep DEF GuardStep
<1> QED
  BY <1>1, <1>2, TypesHold, DeliveryHolds, PTL DEF Spec, KeepsGuard, Guard!Spec

=============================================================================
