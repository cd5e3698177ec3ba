----------------------------- MODULE MCPyClient -----------------------------
(* Small instances of PyClient for TLC. *)
EXTENDS PyClient, TLC

CONSTANTS r1, r2, r3, close, flush, s1, s2

ThreeRecords == {r1, r2, r3}
TwoRecords == {r1, r2}
OnlyClose == {close}
CloseAndFlush == {close, flush}
OneSender == {s1}
TwoSenders == {s1, s2}

AnyRecord == Permutations(Records)
AnyRecordAndSender == AnyRecord \cup Permutations(Senders)
=============================================================================
