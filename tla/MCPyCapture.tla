----------------------------- MODULE MCPyCapture -----------------------------
(* A small instance of PyCapture for TLC. *)
EXTENDS PyCapture, TLC

CONSTANTS w1, w2

TwoWriters == {w1, w2}

AnyWriter == Permutations(Writers)
=============================================================================
