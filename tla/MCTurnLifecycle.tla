--------------------------- MODULE MCTurnLifecycle ---------------------------
(***************************************************************************)
(* The instances of TurnLifecycle that TLC checks, named so that a cfg     *)
(* says which situation it is about.                                       *)
(***************************************************************************)
EXTENDS TurnLifecycle, TLC

CONSTANTS u, v, x

(* Two prompts of the user, in one lane of the queue.                      *)
OneLane == {u, v}
(* A prompt of the user and one relayed by another bot.                    *)
RelayLane == {v}
OnePrompt == {u}
(* A turn the agent starts by itself.                                      *)
OneExternal == {x}
Nobody == {}

(* Two corners of an instance that is too large as a whole: one run and no *)
(* failed write, with any turns; or two runs and failed writes, with none. *)
OneRunOrNoTurns ==
    \/ faults = 0 /\ \A r \in Run \ {1} : runState[r] = "none"
    \/ \A t \in Turns : status[t] = "none"

(* Prompts of one lane are interchangeable (only in safety runs).          *)
SameLane == Permutations(OneLane)

=============================================================================
