---------------------------- MODULE MCRestartIntents ----------------------------
(* Instances of RestartIntents for TLC: one bot, its runs and its restarts.  *)
EXTENDS RestartIntents

CONSTANTS w1, w2

WorkersAre == {w1, w2}
OneWorker == {w1}

=============================================================================
