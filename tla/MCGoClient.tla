----------------------------- MODULE MCGoClient -----------------------------
(* Small instances of GoClient for TLC. *)
EXTENDS GoClient, TLC

CONSTANTS r1, r2, close, other, s1, s2

OneRecord == {r1}
TwoRecords == {r1, r2}
OneCaller == {close}
TwoCallers == {close, other}
OneSender == {s1}
TwoSenders == {s1, s2}

AnyRecord == Permutations(Records)
AnyRecordAndSender == Permutations(Records) \cup Permutations(Senders)
=============================================================================
