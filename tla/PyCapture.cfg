SPECIFICATION Spec
CONSTANTS
    w1 = w1
    w2 = w2
    NL = NL
    Writers <- TwoWriters
INVARIANTS TypeOK TerminalComplete CapturedBeforeFlush ForwardedOnce LinesOfOneThread TerminalBack
CHECK_DEADLOCK FALSE
SYMMETRY AnyWriter
