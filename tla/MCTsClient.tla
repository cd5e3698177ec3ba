------------------------------ MODULE MCTsClient ------------------------------
(* Model values of TsClient for TLC.                                         *)
EXTENDS TsClient

CONSTANTS r1, r2, s1, s2

TwoRecords == {r1, r2}
TwoSenders == {s1, s2}
=============================================================================
