--------------------------- MODULE MCPyInstrument ---------------------------
(* Model values of PyInstrument for TLC.                                    *)
EXTENDS PyInstrument

CONSTANTS t1, t2, env1, env2

TwoThreads == {t1, t2}
TwoFiles == {env1, env2}
=============================================================================
