--------------------------- MODULE MCMaintenanceGate ---------------------------
(***************************************************************************)
(* Instances of MaintenanceGate for TLC: one bot, which is also the client *)
(* c1 that asks for a window in its own turn, and a script c2.             *)
(***************************************************************************)
EXTENDS MaintenanceGate

CONSTANTS a, c1, c2, p1, p2

MCOwnBot == [c \in Clients |-> IF c = c1 THEN a ELSE Nil]
MCRequester == [p \in Approvals |-> IF p = p1 THEN c1 ELSE c2]
=============================================================================
