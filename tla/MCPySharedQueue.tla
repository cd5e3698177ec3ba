--------------------------- MODULE MCPySharedQueue ---------------------------
(* A small instance of PySharedQueue for TLC. *)
EXTENDS PySharedQueue

CONSTANTS p1, p2, r1, r2

TwoProcesses == {p1, p2}
TwoRecords == {r1, r2}
RefusedOrBusy == {401, 503}
=============================================================================
