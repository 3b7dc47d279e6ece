----------------------------- MODULE TurnGuard -----------------------------
(***************************************************************************)
(* What the daemon promises about a turn, whatever path works on it: its   *)
(* status moves along the legal edges only (the table the database trigger *)
(* turns_status_transition is generated from), its text goes into a pane   *)
(* at most once, and a turn whose text went in is never queued again and   *)
(* never forgotten.                                                        *)
(***************************************************************************)
EXTENDS Naturals

CONSTANT Turns

VARIABLES
    status,   \* turns.status; "none" and "deleted": no row
    typed     \* how often the text of a turn went into a pane

TurnStates == {"none", "queued", "in_flight", "completed",
               "completed_fallback", "failed", "deleted"}

(* A row is inserted queued or in flight.                                  *)
Inserts == {"none"} \X {"queued", "in_flight"}

LegalEdges ==
    {<<"queued", "in_flight">>, <<"queued", "failed">>,
     <<"in_flight", "queued">>, <<"in_flight", "completed">>,
     <<"in_flight", "completed_fallback">>, <<"in_flight", "failed">>,
     <<"completed_fallback", "completed">>}

(* The row of a prompt that was not sent is removed again.                 *)
Removals == {<<"in_flight", "deleted">>}

(* Edges that say "nothing was sent".                                      *)
Unsent == Removals \cup {<<"in_flight", "queued">>, <<"queued", "failed">>}

Init ==
    /\ status = [t \in Turns |-> "none"]
    /\ typed = [t \in Turns |-> 0]

MayMove(t, edge) ==
    /\ edge \in Inserts \cup LegalEdges \cup Removals
    /\ edge \in Unsent => typed[t] = 0

(* One write may close several turns.                                      *)
Move ==
    /\ status' \in [Turns -> TurnStates]
    /\ \A t \in Turns :
          status'[t] = status[t] \/ MayMove(t, <<status[t], status'[t]>>)
    /\ UNCHANGED typed

(* The turn was accepted and claimed; its run may end while it is typed.   *)
Type(t) ==
    /\ status[t] \in {"in_flight", "failed"} /\ typed[t] = 0
    /\ typed' = [typed EXCEPT ![t] = 1]
    /\ UNCHANGED status

Next == Move \/ \E t \in Turns : Type(t)

Spec == Init /\ [][Next]_<<status, typed>>

=============================================================================
