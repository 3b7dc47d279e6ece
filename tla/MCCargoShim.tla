---------------------------- MODULE MCCargoShim ----------------------------
(***************************************************************************)
(* Instances of CargoShim for TLC.  One tick is five seconds for a poll,   *)
(* thirty for a lease; the order of the limits is that of the code:        *)
(* Curl + Pause + Curl < LiveWaiter < StaleWaiting.                        *)
(***************************************************************************)
EXTENDS CargoShim

CONSTANTS s1, s2, s3, b1, b2, t1, t2, t3
=============================================================================
