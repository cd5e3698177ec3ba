-------------------------- MODULE PyCaptureProofs --------------------------
(***************************************************************************)
(* Theorems about PyCapture, for every finite set of threads and           *)
(* subprocesses: captured text reaches the terminal, is forwarded once and *)
(* before close() flushes, lines of a wrapped sys.stdout are not mixed,    *)
(* and the terminal is given back.                                         *)
(***************************************************************************)
EXTENDS PyCapture, FiniteSetTheorems, SequenceTheorems, TLAPS

(* The reading thread has ended, or will not be waited for any more. *)
ReaderLeft == rd \in {"off", "over"} \/ "late" \in gaps

(* The capture is undone: no write end of the pipe is left in the client. *)
Undone == fd = "terminal" /\ ~process /\ ReaderLeft

(* The constructor: what it has not come to yet. *)
InstallInv ==
    /\ inst \in {"redirect", "open"} =>
          /\ cap = "none" /\ rd = "off" /\ ~process /\ ~bypass
          /\ rs["install"] = "idle" /\ rs["close"] = "idle"
          /\ rs["disable"] \in {"idle", "snap", "end"}
    /\ inst = "redirect" => fd = "terminal" /\ saved = "none"
    /\ inst = "open" => saved = "open"
    /\ inst \in {"stderr", "swap", "retarget"} => rd # "off"
    /\ rd = "off" => cap # "fd" /\ ~process /\ ~bypass
    /\ rd = "off" /\ inst # "open" =>
          /\ fd = "terminal" /\ saved = "none" /\ pipe = <<>>
          /\ \A w \in Writers : ref[w] # "pipe"
    /\ rs["install"] # "idle" => inst \in {"undo", "over"}
    /\ inst = "undo" => rs["install"] # "idle"
    /\ rs["install"] \in {"bypass", "end"} /\ inst # "over" => cap = "none"
    /\ rs["close"] # "idle" => inst = "over"

(* A call of _restore_system_log_capture: what it has done so far. *)
CallInv(r) ==
    /\ rs[r] \in {"stop", "back", "join", "release", "clear", "bypass"} => held[r] = "fd"
    /\ rs[r] \in {"drain", "emit"} => r = "close" /\ held[r] = "stream"
    /\ rs[r] \in {"handlers", "sysout", "forget"} => held[r] # "none"
    /\ rs[r] \in {"idle", "snap", "end", "raised"} => held[r] = "none"
    /\ held[r] = "fd" => rd # "off"
    /\ held[r] = "stream" => inst = "over" /\ Undone
    /\ rs[r] = "back" => ~process
    /\ rs[r] = "join" => ~process /\ fd = "terminal"
    /\ rs[r] \in {"release", "clear", "forget", "bypass", "raised"} => Undone

CapturedBy(stream) == stream = "captured" => inst = "over" /\ Undone

RestoreInv ==
    /\ inst # "open" => (cap = "fd" /\ saved = "open") \/ Undone
    /\ ~bypass => ReaderLeft
    /\ \A r \in Restorers : CallInv(r)
    /\ rs["close"] = "end" => Undone
    /\ cap = "stream" => inst = "over"
    /\ CapturedBy(sysout) /\ \A w \in Writers : CapturedBy(ref[w])

Past == {"stop", "back", "join", "release", "clear", "forget", "bypass"}

(* Unless the client was disabled while it installed the capture. *)
PastInv(r) ==
    /\ rs[r] \in Past => sysout = "original"
    /\ rs[r] \in Past \cup {"sysout"} => own = "original"
    /\ held[r] = "fd" => cap # "stream"
    /\ held[r] = "stream" => cap # "fd"

BackInv ==
    "early" \notin gaps =>
        /\ inst # "over" => rs["disable"] = "idle"
        /\ inst \in {"stderr", "swap", "retarget"} =>
              cap = "fd" /\ process /\ bypass
        /\ inst \in {"swap", "retarget"} => terminal = "bypass"
        /\ inst \in {"redirect", "open", "stderr", "swap"} => sysout = "original"
        /\ inst # "over" => own = "original"
        /\ sysout \in {"original", "process", "captured"}
        /\ sysout = "process" => cap = "fd" /\ process
        /\ sysout = "captured" => cap = "stream"
        /\ own # "original" => own = terminal /\ "own" \in retargeted /\ cap = "fd"
        /\ \A r \in Restorers : PastInv(r)
        /\ rs["close"] = "end" => sysout = "original" /\ own = "original"

(* Where the text of a writer is. *)
In(s, w) == \E i \in DOMAIN s : s[i] = w
InLines(s, w) == \E k \in DOMAIN s : w \in s[k]

InPipe(w) == In(pipe, w)
InChunk(w) == rd \in {"tee", "write"} /\ In(chunk, w)
InRest(w) == w \in rest
InRead(w) == InLines(out["reader"], w)
InBuffer(w) == w \in buffers[ident[w]]
InHand(w) == InLines(out[ident[w]], w)
InDrain(w) == InLines(out["close"], w)
Sent(w) == \E l \in Lines : forwarded[l] > 0 /\ w \in l

Once(s) == \A i, j \in DOMAIN s : s[i] \in Writers /\ s[i] = s[j] => i = j
OnceLines(s) == \A i, j \in DOMAIN s : \A w \in s[i] \cap s[j] : i = j

(* In one place at most. *)
Apart(w) ==
    /\ InPipe(w) => ~(InChunk(w) \/ InRest(w) \/ InRead(w) \/ InBuffer(w)
                        \/ InHand(w) \/ InDrain(w) \/ Sent(w))
    /\ InChunk(w) => ~(InRest(w) \/ InRead(w) \/ InBuffer(w) \/ InHand(w)
                         \/ InDrain(w) \/ Sent(w))
    /\ InRest(w) => ~(InRead(w) \/ InBuffer(w) \/ InHand(w) \/ InDrain(w) \/ Sent(w))
    /\ InRead(w) => ~(InBuffer(w) \/ InHand(w) \/ InDrain(w) \/ Sent(w))
    /\ InBuffer(w) => ~(InHand(w) \/ InDrain(w) \/ Sent(w))
    /\ InHand(w) => ~(InDrain(w) \/ Sent(w))
    /\ InDrain(w) => ~Sent(w)

Somewhere(w) ==
    \/ InPipe(w) \/ InChunk(w) \/ InRest(w) \/ InRead(w) \/ InBuffer(w)
    \/ InHand(w) \/ InDrain(w) \/ Sent(w)

Unwritten == {"new", "text", "child", "keep"}

(* The texts that threads of an ident have written. *)
Of(i) == {v \in taken : ident[v] = i}

HandInv(w) ==
    /\ at[w] \in {"keep", "cut", "emit"} => ref[w] = "captured"
    /\ at[w] = "keep" => w \in shown
    /\ at[w] = "new" => ref[w] = "none"
    /\ at[w] \in Unwritten => w \notin taken

(* What the threads of an ident hold, and the one that lives. *)
IdentInv(i) ==
    /\ buffers[i] \subseteq Of(i)
    /\ out[i] # <<>> =>
          /\ Len(out[i]) = 1 /\ out[i][1] \subseteq Of(i)
          /\ \E w \in Writers : at[w] = "emit" /\ ident[w] = i

OneLives ==
    \A v, w \in Writers :
        at[v] \in Printing /\ at[w] \in Printing /\ ident[v] = ident[w] => v = w

WriterInv ==
    /\ \A w \in Writers : HandInv(w)
    /\ \A i \in Writers : IdentInv(i)
    /\ OneLives
    /\ out["reader"] # <<>> => rd = "emit"
    /\ out["close"] # <<>> => rs["close"] = "emit"
    /\ \A k \in DOMAIN out["close"] : \E p \in Writers : out["close"][k] \subseteq Of(p)
    /\ rd \in {"off", "over"} => rest = {}
    /\ rd = "over" /\ "late" \notin gaps => pipe = <<>>

PlaceInv(w) == Apart(w) /\ (at[w] \in Unwritten => ~Somewhere(w))

FlowInv ==
    /\ \A w \in Writers : PlaceInv(w)
    /\ Once(pipe) /\ Once(chunk)
    /\ OnceLines(out["reader"]) /\ OnceLines(out["close"])

KeptInv ==
    remote /\ ~closed /\ gaps = {} => \A w \in taken : Somewhere(w)

(* Captured text that is not on the terminal is on its way to it. *)
ShownInv ==
    gaps \subseteq {"early"} =>
        \A w \in taken : w \in shown \/ InPipe(w) \/ InChunk(w)

-----------------------------------------------------------------------------
(* Types.                                                                  *)

Texts == Writers \cup {NL}
Threads == Writers \cup {"reader", "close"}

InstallTypes ==
    /\ inst \in InstallPcs
    /\ rs \in [Restorers -> RestorePcs]
    /\ held \in [Restorers -> {"none", "fd", "stream"}]
    /\ cap \in {"none", "fd", "stream"}
    /\ sysout \in Streams /\ terminal \in Streams /\ own \in Streams /\ other \in Streams
    /\ retargeted \subseteq {"own", "other"}
    /\ fd \in {"terminal", "pipe"}
    /\ saved \in {"none", "open", "closed"} /\ process \in BOOLEAN /\ bypass \in BOOLEAN
    /\ remote \in BOOLEAN /\ closed \in BOOLEAN
    /\ gaps \subseteq {"late", "undone", "undecoded", "early"}

FlowTypes ==
    /\ pipe \in Seq(Texts) /\ chunk \in Seq(Texts)
    /\ rd \in {"off", "read", "tee", "write", "emit", "over"}
    /\ rest \in Lines
    /\ buffers \in [Writers -> Lines]
    /\ out \in [Threads -> Seq(Lines)]
    /\ at \in [Writers -> {"new", "text", "keep", "end", "cut", "emit", "child",
                            "written", "over"}]
    /\ ref \in [Writers -> Streams \cup {"pipe", "terminal"}]
    /\ ident \in [Writers -> Writers]
    /\ taken \subseteq Writers /\ shown \subseteq Writers
    /\ forwarded \in [Lines -> 0 .. 2]

LEMMA TypesApart == TypeOK <=> InstallTypes /\ FlowTypes
BY DEF TypeOK, InstallTypes, FlowTypes, Texts, Threads

LEMMA TypesKept ==
  ASSUME InstallTypes', FlowTypes'
  PROVE  TypeOK'
BY DEF TypeOK, InstallTypes, FlowTypes, Texts, Threads

LEMMA TypesInitially == Init => TypeOK
<1> SUFFICES ASSUME Init PROVE TypeOK
  OBVIOUS
<1>1. InstallTypes
  BY DEF Init, InstallTypes, InstallPcs, RestorePcs, Streams
<1>2. FlowTypes
  <2>1. pipe \in Seq(Texts) /\ chunk \in Seq(Texts) /\ <<>> \in Seq(Lines)
    BY DEF Init
  <2>2. out \in [Threads -> Seq(Lines)]
    BY <2>1 DEF Init, Threads
  <2>3. {} \in Lines
    BY DEF Lines
  <2>4. buffers \in [Writers -> Lines] /\ rest \in Lines
    BY <2>3 DEF Init
  <2>5. ref \in [Writers -> Streams \cup {"pipe", "terminal"}]
    BY DEF Init, Streams
  <2>6. forwarded \in [Lines -> 0 .. 2] /\ ident \in [Writers -> Writers]
    BY DEF Init
  <2> QED
    BY <2>1, <2>2, <2>4, <2>5, <2>6 DEF Init, FlowTypes
<1> QED
  BY <1>1, <1>2, TypesApart

(* Places of the code, and how a call of _restore_... goes to one. *)
LEMMA RestoreGoes ==
  ASSUME TypeOK, NEW r \in Restorers, NEW pc \in RestorePcs
  PROVE  /\ [rs EXCEPT ![r] = pc] \in [Restorers -> RestorePcs]
         /\ [rs EXCEPT ![r] = pc][r] = pc
         /\ \A q \in Restorers \ {r} : [rs EXCEPT ![r] = pc][q] = rs[q]
BY DEF TypeOK

LEMMA Snaps ==
  ASSUME TypeOK
  PROVE  \A r \in {"install", "disable", "close"} :
            r \in Restorers /\ [rs EXCEPT ![r] = "snap"] \in [Restorers -> RestorePcs]
<1>1. "snap" \in RestorePcs /\ \A r \in {"install", "disable", "close"} : r \in Restorers
  BY DEF RestorePcs, Restorers
<1> QED
  BY <1>1, RestoreGoes

LEMMA InstallKeepsTypes ==
  ASSUME TypeOK, InstallStep \/ DisableBegin \/ CloseBegin \/ CloseMark
  PROVE  TypeOK'
<1>0. InstallTypes /\ FlowTypes
  BY TypesApart
<1>1. InstallTypes'
  <2> USE DEF InstallTypes, GoInstall, InstallUndo, loggerVars, fdVars, callVars, handlerVars
  <2>0. {"open", "stderr", "swap", "retarget", "undo", "over"} \subseteq InstallPcs
    BY DEF InstallPcs
  <2>s. {"original", "process", "bypass", "captured", "none"} \subseteq Streams
    BY DEF Streams
  <2>1. CASE Redirect
    <3>1. UNCHANGED <<cap, sysout, terminal, own, other, retargeted, remote, closed, process,
                      bypass, gaps, held>>
      BY <2>1 DEF Redirect
    <3>2. fd' \in {fd, "pipe"} /\ saved' \in {saved, "open"} /\ inst' \in {"open", "undo", "over"}
          /\ rs' \in {rs, [rs EXCEPT !["install"] = "snap"]}
      BY <2>1 DEF Redirect
    <3> QED
      BY <1>0, <2>0, <3>1, <3>2, Snaps
  <2>2. CASE Open
    BY <1>0, <2>0, <2>2 DEF Open
  <2>3. CASE OpenFails
    <3>1. UNCHANGED <<cap, sysout, terminal, own, other, retargeted, remote, closed, process,
                      bypass, held>>
      BY <2>3 DEF OpenFails
    <3>2. fd' = "terminal" /\ saved' = "none" /\ inst' = "undo" /\ gaps' = gaps \cup {"undone"}
          /\ rs' = [rs EXCEPT !["install"] = "snap"]
      BY <2>3 DEF OpenFails
    <3> QED
      BY <1>0, <2>0, <3>1, <3>2, Snaps
  <2>4. CASE Stderr
    <3>1. UNCHANGED <<cap, sysout, own, other, retargeted, remote, closed, process,
                      bypass, held, fd, saved, gaps>>
      BY <2>4 DEF Stderr
    <3>2. terminal' \in {terminal, "bypass", "none"} /\ inst' \in {"swap", "undo"}
          /\ rs' \in {rs, [rs EXCEPT !["install"] = "snap"]}
      BY <2>4 DEF Stderr
    <3> QED
      BY <1>0, <2>0, <2>s, <3>1, <3>2, Snaps
  <2>5. CASE SwapSysout
    <3>1. UNCHANGED <<cap, terminal, own, other, retargeted, remote, closed, process,
                      bypass, held, fd, saved, gaps>>
      BY <2>5 DEF SwapSysout
    <3>2. sysout' \in {sysout, "process", "none"} /\ inst' \in {"retarget", "undo"}
          /\ rs' \in {rs, [rs EXCEPT !["install"] = "snap"]}
      BY <2>5 DEF SwapSysout
    <3> QED
      BY <1>0, <2>0, <2>s, <3>1, <3>2, Snaps
  <2>6. CASE Retarget
    <3>1. UNCHANGED <<cap, sysout, terminal, remote, closed, process,
                      bypass, held, fd, saved, gaps>>
      BY <2>6 DEF Retarget
    <3>2. own' \in {own, terminal} /\ other' \in {other, "process"}
      BY <2>6 DEF Retarget
    <3>3. retargeted' \subseteq {"own", "other"}
      BY <1>0, <2>6 DEF Retarget
    <3>4. inst' \in {"over", "undo"} /\ rs' \in {rs, [rs EXCEPT !["install"] = "snap"]}
      BY <2>6 DEF Retarget
    <3> QED
      BY <1>0, <2>0, <2>s, <3>1, <3>2, <3>3, <3>4, Snaps
  <2>7. CASE Fallback
    BY <1>0, <2>0, <2>s, <2>7 DEF Fallback
  <2>8. CASE DisableBegin
    <3>1. UNCHANGED <<inst, cap, sysout, terminal, own, other, retargeted, closed, process,
                      bypass, held, fd, saved>>
      BY <2>8 DEF DisableBegin
    <3>2. remote' = FALSE /\ gaps' \in {gaps, gaps \cup {"early"}}
          /\ rs' = [rs EXCEPT !["disable"] = "snap"]
      BY <2>8 DEF DisableBegin
    <3> QED
      BY <1>0, <3>1, <3>2, Snaps
  <2>9. CASE CloseBegin
    <3>1. UNCHANGED <<inst, cap, sysout, terminal, own, other, retargeted, remote, closed,
                      process, bypass, held, fd, saved, gaps>>
      BY <2>9 DEF CloseBegin
    <3>2. rs' = [rs EXCEPT !["close"] = "snap"]
      BY <2>9 DEF CloseBegin
    <3> QED
      BY <1>0, <3>1, <3>2, Snaps
  <2>10. CASE CloseMark
    BY <1>0, <2>10 DEF CloseMark
  <2> QED
    BY <2>1, <2>2, <2>3, <2>4, <2>5, <2>6, <2>7, <2>8, <2>9, <2>10 DEF InstallStep
<1>2. FlowTypes'
  <2>1. CASE Open
    BY <1>0, <2>1 DEF Open, FlowTypes, writerVars
  <2>2. CASE OpenFails
    BY <1>0, <2>2 DEF OpenFails, FlowTypes, writerVars
  <2>3. CASE UNCHANGED flowVars
    BY <1>0, <2>3 DEF FlowTypes, flowVars, writerVars, readerVars
  <2> QED
    BY <2>1, <2>2, <2>3 DEF InstallStep, Redirect, Stderr, SwapSysout, Retarget, Fallback,
       DisableBegin, CloseBegin, CloseMark
<1> QED
  BY <1>1, <1>2, TypesKept

LEMMA GoRestoreMoves ==
  ASSUME TypeOK, NEW r \in Restorers, NEW pc \in RestorePcs, GoRestore(r, pc)
  PROVE  /\ rs' \in [Restorers -> RestorePcs] /\ rs'[r] = pc
         /\ \A q \in Restorers \ {r} : rs'[q] = rs[q] /\ held'[q] = held[q]
         /\ held' \in [Restorers -> {"none", "fd", "stream"}]
         /\ held'[r] = IF pc \in {"end", "raised"} THEN "none" ELSE held[r]
         /\ inst' = inst
<1>1. rs' = [rs EXCEPT ![r] = pc] /\ inst' = inst
  BY DEF GoRestore
<1>2. /\ rs' \in [Restorers -> RestorePcs] /\ rs'[r] = pc
      /\ \A q \in Restorers \ {r} : rs'[q] = rs[q]
  BY <1>1, RestoreGoes
<1>3. held \in [Restorers -> {"none", "fd", "stream"}]
  BY DEF TypeOK
<1>4. held' = IF pc \in {"end", "raised"} THEN [held EXCEPT ![r] = "none"] ELSE held
  BY DEF GoRestore
<1>5. /\ held' \in [Restorers -> {"none", "fd", "stream"}]
      /\ held'[r] = IF pc \in {"end", "raised"} THEN "none" ELSE held[r]
      /\ \A q \in Restorers \ {r} : held'[q] = held[q]
  <2>1. CASE pc \in {"end", "raised"}
    BY <1>3, <1>4, <2>1
  <2>2. CASE pc \notin {"end", "raised"}
    BY <1>3, <1>4, <2>2
  <2> QED
    BY <2>1, <2>2
<1> QED
  BY <1>1, <1>2, <1>5

(* What drain() takes: the buffers of all threads, each once. *)
LEMMA DrainedLines ==
  ASSUME TypeOK, NEW s, s = SetToSeq({buffers[p] : p \in Writers})
  PROVE  /\ s \in Seq(Lines)
         /\ \A i, j \in DOMAIN s : s[i] = s[j] => i = j
         /\ \A k \in DOMAIN s : \E p \in Writers : s[k] = buffers[p]
         /\ \A p \in Writers : \E k \in DOMAIN s : s[k] = buffers[p]
<1> DEFINE S == {buffers[p] : p \in Writers}
<1> DEFINE n == Cardinality(S)
<1>1. buffers \in [Writers -> Lines] /\ buffers \in [Writers -> S]
  BY DEF TypeOK
<1>2. IsFiniteSet(S)
  <2>1. buffers \in Surjection(Writers, S)
    BY <1>1 DEF Surjection
  <2>2. IsFiniteSet(Writers)
    BY CaptureAssumption
  <2> HIDE DEF S
  <2> QED
    BY <2>1, <2>2, FS_Surjection
<1>3. S \subseteq Lines
  BY <1>1
<1> HIDE DEF S
<1>4. n \in Nat /\ \E f : f \in Bijection(1 .. n, S)
  BY <1>2, FS_CardinalityType DEF ExistsBijection
<1>5. \E f \in [1 .. n -> S] : IsInjective(f)
  <2>1. PICK f : f \in Bijection(1 .. n, S)
    BY <1>4
  <2>2. f \in [1 .. n -> S] /\ IsInjective(f)
    BY <2>1 DEF Bijection, Injection, Surjection, IsInjective
  <2> QED
    BY <2>2
<1>6. s \in [1 .. n -> S] /\ IsInjective(s)
  <2>1. s = CHOOSE f \in [1 .. n -> S] : IsInjective(f)
    BY DEF SetToSeq, S
  <2> QED
    BY <1>5, <2>1
<1>7. s \in Surjection(1 .. n, S)
  <2>1. s \in Injection(1 .. n, S)
    BY <1>6 DEF Injection, IsInjective
  <2>2. Cardinality(1 .. n) = n
    BY <1>4, FS_Interval
  <2> QED
    BY <1>2, <2>1, <2>2, FS_Injection
<1>8. s \in Seq(Lines)
  BY <1>3, <1>4, <1>6
<1>9. \A k \in DOMAIN s : \E p \in Writers : s[k] = buffers[p]
  BY <1>6 DEF S
<1>10. \A p \in Writers : \E k \in DOMAIN s : s[k] = buffers[p]
  BY <1>7 DEF Surjection, S
<1> QED
  BY <1>6, <1>8, <1>9, <1>10 DEF IsInjective

LEMMA EmitMoves ==
  ASSUME TypeOK, NEW e \in Threads, EmitNext(e)
  PROVE  /\ out' \in [Threads -> Seq(Lines)] /\ out[e] # <<>>
         /\ out'[e] = Tail(out[e]) /\ \A d \in Threads \ {e} : out'[d] = out[d]
         /\ Head(out[e]) \in Lines /\ Forward(Head(out[e]))
<1>1. out \in [Threads -> Seq(Lines)]
  BY DEF TypeOK, Threads
<1>2. out[e] # <<>> /\ out' = [out EXCEPT ![e] = Tail(out[e])] /\ Forward(Head(out[e]))
  BY DEF EmitNext
<1>3. out[e] \in Seq(Lines)
  BY <1>1
<1>4. Tail(out[e]) \in Seq(Lines) /\ Head(out[e]) \in Lines
  BY <1>2, <1>3
<1> QED
  BY <1>1, <1>2, <1>4

LEMMA ForwardMoves ==
  ASSUME TypeOK, NEW line \in Lines, Forward(line)
  PROVE  /\ forwarded' \in [Lines -> 0 .. 2]
         /\ line = {} \/ closed \/ ~remote => forwarded' = forwarded
         /\ ~(line = {} \/ closed \/ ~remote) =>
               /\ forwarded'[line] > 0 /\ (forwarded[line] = 0 => forwarded'[line] = 1)
               /\ \A l \in Lines \ {line} : forwarded'[l] = forwarded[l]
<1>1. forwarded \in [Lines -> 0 .. 2] /\ forwarded[line] \in 0 .. 2
  BY DEF TypeOK
<1>2. CASE line = {} \/ closed \/ ~remote
  BY <1>1, <1>2 DEF Forward
<1>3. CASE ~(line = {} \/ closed \/ ~remote)
  <2> DEFINE n == IF forwarded[line] = 2 THEN 2 ELSE forwarded[line] + 1
  <2>1. forwarded' = [forwarded EXCEPT ![line] = n]
    BY <1>3 DEF Forward
  <2>2. n \in 0 .. 2 /\ n > 0 /\ (forwarded[line] = 0 => n = 1)
    BY <1>1
  <2> HIDE DEF n
  <2> QED
    BY <1>1, <1>3, <2>1, <2>2
<1> QED
  BY <1>2, <1>3

-----------------------------------------------------------------------------
(* What each step of _restore_system_log_capture does.                     *)

Alone(r) ==
    /\ inst' = inst
    /\ rs' \in [Restorers -> RestorePcs] /\ held' \in [Restorers -> {"none", "fd", "stream"}]
    /\ \A q \in Restorers \ {r} : rs'[q] = rs[q] /\ held'[q] = held[q]

LEMMA SnapMoves ==
  ASSUME TypeOK, NEW r \in Restorers, Snap(r)
  PROVE  /\ rs[r] = "snap" /\ Alone(r)
         /\ rs'[r] = (IF cap = "none" THEN "end"
                    ELSE IF cap = "stream" /\ r = "close" THEN "drain" ELSE "handlers")
         /\ held'[r] = cap
         /\ UNCHANGED <<cap, sysout, terminal, own, other, retargeted, fd, saved, process,
                        bypass, remote, closed, gaps, pipe, rd, chunk, rest, buffers, out,
                        at, ref, ident, taken, shown, forwarded>>
<1> DEFINE pc == IF cap = "none" THEN "end"
                 ELSE IF cap = "stream" /\ r = "close" THEN "drain" ELSE "handlers"
<1>1. pc \in RestorePcs
  BY DEF RestorePcs
<1>2. rs[r] = "snap" /\ rs' = [rs EXCEPT ![r] = pc] /\ held' = [held EXCEPT ![r] = cap]
        /\ inst' = inst
  BY DEF Snap
<1> HIDE DEF pc
<1>3. /\ rs' \in [Restorers -> RestorePcs] /\ rs'[r] = pc
      /\ \A q \in Restorers \ {r} : rs'[q] = rs[q]
  BY <1>1, <1>2, RestoreGoes
<1>4. /\ held' \in [Restorers -> {"none", "fd", "stream"}] /\ held'[r] = cap
      /\ \A q \in Restorers \ {r} : held'[q] = held[q]
  BY <1>2 DEF TypeOK
<1>5. UNCHANGED <<cap, sysout, terminal, own, other, retargeted, fd, saved, process, bypass,
                 remote, closed, gaps, pipe, rd, chunk, rest, buffers, out, at, ref, ident, taken,
                 shown, forwarded>>
  BY DEF Snap, flowVars, loggerVars, fdVars, handlerVars, readerVars, writerVars
<1> QED
  BY <1>2, <1>3, <1>4, <1>5 DEF pc, Alone

LEMMA RestoreHandlersMoves ==
  ASSUME TypeOK, NEW r \in Restorers, RestoreHandlers(r)
  PROVE  /\ rs[r] = "handlers" /\ Alone(r)
         /\ rs'[r] = "sysout" /\ held'[r] = held[r]
         /\ own' = (IF "own" \in retargeted /\ own = terminal THEN "original" ELSE own)
         /\ other' \in {other, "original"} /\ retargeted' = {}
         /\ UNCHANGED <<cap, sysout, terminal, fd, saved, process, bypass, remote, closed,
                        gaps, pipe, rd, chunk, rest, buffers, out, at, ref, ident, taken, shown,
                        forwarded>>
<1> DEFINE pc == "sysout"
<1>1. pc \in RestorePcs /\ pc \in {"sysout", "stop", "back", "join", "release", "clear", "forget",
                                 "bypass", "end", "raised"}
  BY DEF RestorePcs
<1>2. rs[r] = "handlers" /\ GoRestore(r, pc)
  BY DEF RestoreHandlers
<1> HIDE DEF pc
<1>3. /\ Alone(r) /\ rs'[r] = pc
      /\ held'[r] = IF pc \in {"end", "raised"} THEN "none" ELSE held[r]
  BY <1>1, <1>2, GoRestoreMoves DEF Alone
<1>4. UNCHANGED <<cap, sysout, terminal, fd, saved, process, bypass, remote, closed, gaps,
                 pipe, rd, chunk, rest, buffers, out, at, ref, ident, taken, shown, forwarded>>
  BY DEF RestoreHandlers, flowVars, loggerVars, fdVars, handlerVars, readerVars, writerVars
<1> QED
  BY <1>2, <1>3, <1>4 DEF pc, RestoreHandlers

LEMMA RestoreSysoutMoves ==
  ASSUME TypeOK, NEW r \in Restorers, RestoreSysout(r)
  PROVE  /\ rs[r] = "sysout" /\ Alone(r)
         /\ rs'[r] = (IF held[r] = "fd" THEN "stop" ELSE "forget") /\ held'[r] = held[r]
         /\ sysout' = (IF (held[r] = "fd" /\ sysout = "process" /\ process)
                         \/ (held[r] = "stream" /\ sysout = "captured")
                      THEN "original" ELSE sysout)
         /\ UNCHANGED <<cap, terminal, own, other, retargeted, fd, saved, process, bypass,
                        remote, closed, gaps, pipe, rd, chunk, rest, buffers, out, at, ref, ident,
                        taken, shown, forwarded>>
<1> DEFINE pc == IF held[r] = "fd" THEN "stop" ELSE "forget"
<1>1. pc \in RestorePcs /\ pc \in {"sysout", "stop", "back", "join", "release", "clear", "forget",
                                 "bypass", "end", "raised"}
  BY DEF RestorePcs
<1>2. rs[r] = "sysout" /\ GoRestore(r, pc)
  BY DEF RestoreSysout
<1> HIDE DEF pc
<1>3. /\ Alone(r) /\ rs'[r] = pc
      /\ held'[r] = IF pc \in {"end", "raised"} THEN "none" ELSE held[r]
  BY <1>1, <1>2, GoRestoreMoves DEF Alone
<1>4. UNCHANGED <<cap, terminal, own, other, retargeted, fd, saved, process, bypass, remote,
                 closed, gaps, pipe, rd, chunk, rest, buffers, out, at, ref, ident, taken, shown,
                 forwarded>>
  BY DEF RestoreSysout, flowVars, loggerVars, fdVars, handlerVars, readerVars, writerVars
<1> QED
  BY <1>2, <1>3, <1>4 DEF pc, RestoreSysout

LEMMA StopMoves ==
  ASSUME TypeOK, NEW r \in Restorers, Stop(r)
  PROVE  /\ rs[r] = "stop" /\ Alone(r)
         /\ rs'[r] = (IF saved = "none" THEN "forget" ELSE "back") /\ held'[r] = held[r]
         /\ process' = (process /\ saved = "none")
         /\ UNCHANGED <<cap, sysout, terminal, own, other, retargeted, fd, saved, bypass,
                        remote, closed, gaps, pipe, rd, chunk, rest, buffers, out, at, ref, ident,
                        taken, shown, forwarded>>
<1> DEFINE pc == IF saved = "none" THEN "forget" ELSE "back"
<1>1. pc \in RestorePcs /\ pc \in {"sysout", "stop", "back", "join", "release", "clear", "forget",
                                 "bypass", "end", "raised"}
  BY DEF RestorePcs
<1>2. rs[r] = "stop" /\ GoRestore(r, pc)
  BY DEF Stop
<1> HIDE DEF pc
<1>3. /\ Alone(r) /\ rs'[r] = pc
      /\ held'[r] = IF pc \in {"end", "raised"} THEN "none" ELSE held[r]
  BY <1>1, <1>2, GoRestoreMoves DEF Alone
<1>4. UNCHANGED <<cap, sysout, terminal, own, other, retargeted, fd, saved, bypass, remote,
                 closed, gaps, pipe, rd, chunk, rest, buffers, out, at, ref, ident, taken, shown,
                 forwarded>>
  BY DEF Stop, flowVars, loggerVars, fdVars, handlerVars, readerVars, writerVars
<1> QED
  BY <1>2, <1>3, <1>4 DEF pc, Stop

LEMMA PutBackMoves ==
  ASSUME TypeOK, NEW r \in Restorers, PutBack(r)
  PROVE  /\ rs[r] = "back" /\ Alone(r)
         /\ rs'[r] = (IF saved = "open" THEN "join" ELSE "raised")
         /\ held'[r] = (IF saved = "open" THEN held[r] ELSE "none")
         /\ fd' = (IF saved = "open" THEN "terminal" ELSE fd)
         /\ UNCHANGED <<cap, sysout, terminal, own, other, retargeted, saved, process,
                        bypass, remote, closed, gaps, pipe, rd, chunk, rest, buffers, out,
                        at, ref, ident, taken, shown, forwarded>>
<1> DEFINE pc == IF saved = "open" THEN "join" ELSE "raised"
<1>1. pc \in RestorePcs /\ pc \in {"sysout", "stop", "back", "join", "release", "clear", "forget",
                                 "bypass", "end", "raised"}
  BY DEF RestorePcs
<1>2. rs[r] = "back" /\ GoRestore(r, pc)
  BY DEF PutBack
<1> HIDE DEF pc
<1>3. /\ Alone(r) /\ rs'[r] = pc
      /\ held'[r] = IF pc \in {"end", "raised"} THEN "none" ELSE held[r]
  BY <1>1, <1>2, GoRestoreMoves DEF Alone
<1>4. UNCHANGED <<cap, sysout, terminal, own, other, retargeted, saved, process, bypass,
                 remote, closed, gaps, pipe, rd, chunk, rest, buffers, out, at, ref, ident, taken,
                 shown, forwarded>>
  BY DEF PutBack, flowVars, loggerVars, fdVars, handlerVars, readerVars, writerVars
<1> QED
  BY <1>2, <1>3, <1>4 DEF pc, PutBack

LEMMA JoinMoves ==
  ASSUME TypeOK, NEW r \in Restorers, Join(r)
  PROVE  /\ rs[r] = "join" /\ Alone(r)
         /\ rs'[r] = "release" /\ held'[r] = held[r]
         /\ gaps' = (IF rd = "over" THEN gaps ELSE gaps \cup {"late"})
         /\ UNCHANGED <<cap, sysout, terminal, own, other, retargeted, fd, saved, process,
                        bypass, remote, closed, pipe, rd, chunk, rest, buffers, out, at,
                        ref, ident, taken, shown, forwarded>>
<1> DEFINE pc == "release"
<1>1. pc \in RestorePcs /\ pc \in {"sysout", "stop", "back", "join", "release", "clear", "forget",
                                 "bypass", "end", "raised"}
  BY DEF RestorePcs
<1>2. rs[r] = "join" /\ GoRestore(r, pc)
  BY DEF Join
<1> HIDE DEF pc
<1>3. /\ Alone(r) /\ rs'[r] = pc
      /\ held'[r] = IF pc \in {"end", "raised"} THEN "none" ELSE held[r]
  BY <1>1, <1>2, GoRestoreMoves DEF Alone
<1>4. UNCHANGED <<cap, sysout, terminal, own, other, retargeted, fd, saved, process, bypass,
                 remote, closed, pipe, rd, chunk, rest, buffers, out, at, ref, ident, taken,
                 shown, forwarded>>
  BY DEF Join, flowVars, loggerVars, fdVars, handlerVars, readerVars, writerVars
<1> QED
  BY <1>2, <1>3, <1>4 DEF pc, Join

LEMMA ReleaseMoves ==
  ASSUME TypeOK, NEW r \in Restorers, Release(r)
  PROVE  /\ rs[r] = "release" /\ Alone(r)
         /\ rs'[r] = (IF saved = "open" THEN "clear" ELSE "raised")
         /\ held'[r] = (IF saved = "open" THEN held[r] ELSE "none")
         /\ saved' = (IF saved = "open" THEN "closed" ELSE saved)
         /\ UNCHANGED <<cap, sysout, terminal, own, other, retargeted, fd, process, bypass,
                        remote, closed, gaps, pipe, rd, chunk, rest, buffers, out, at, ref, ident,
                        taken, shown, forwarded>>
<1> DEFINE pc == IF saved = "open" THEN "clear" ELSE "raised"
<1>1. pc \in RestorePcs /\ pc \in {"sysout", "stop", "back", "join", "release", "clear", "forget",
                                 "bypass", "end", "raised"}
  BY DEF RestorePcs
<1>2. rs[r] = "release" /\ GoRestore(r, pc)
  BY DEF Release
<1> HIDE DEF pc
<1>3. /\ Alone(r) /\ rs'[r] = pc
      /\ held'[r] = IF pc \in {"end", "raised"} THEN "none" ELSE held[r]
  BY <1>1, <1>2, GoRestoreMoves DEF Alone
<1>4. UNCHANGED <<cap, sysout, terminal, own, other, retargeted, fd, process, bypass,
                 remote, closed, gaps, pipe, rd, chunk, rest, buffers, out, at, ref, ident, taken,
                 shown, forwarded>>
  BY DEF Release, flowVars, loggerVars, fdVars, handlerVars, readerVars, writerVars
<1> QED
  BY <1>2, <1>3, <1>4 DEF pc, Release

LEMMA ClearMoves ==
  ASSUME TypeOK, NEW r \in Restorers, Clear(r)
  PROVE  /\ rs[r] = "clear" /\ Alone(r)
         /\ rs'[r] = "forget" /\ held'[r] = held[r] /\ saved' = "none"
         /\ UNCHANGED <<cap, sysout, terminal, own, other, retargeted, fd, process, bypass,
                        remote, closed, gaps, pipe, rd, chunk, rest, buffers, out, at, ref, ident,
                        taken, shown, forwarded>>
<1> DEFINE pc == "forget"
<1>1. pc \in RestorePcs /\ pc \in {"sysout", "stop", "back", "join", "release", "clear", "forget",
                                 "bypass", "end", "raised"}
  BY DEF RestorePcs
<1>2. rs[r] = "clear" /\ GoRestore(r, pc)
  BY DEF Clear
<1> HIDE DEF pc
<1>3. /\ Alone(r) /\ rs'[r] = pc
      /\ held'[r] = IF pc \in {"end", "raised"} THEN "none" ELSE held[r]
  BY <1>1, <1>2, GoRestoreMoves DEF Alone
<1>4. UNCHANGED <<cap, sysout, terminal, own, other, retargeted, fd, process, bypass,
                 remote, closed, gaps, pipe, rd, chunk, rest, buffers, out, at, ref, ident, taken,
                 shown, forwarded>>
  BY DEF Clear, flowVars, loggerVars, fdVars, handlerVars, readerVars, writerVars
<1> QED
  BY <1>2, <1>3, <1>4 DEF pc, Clear

LEMMA ForgetMoves ==
  ASSUME TypeOK, NEW r \in Restorers, Forget(r)
  PROVE  /\ rs[r] = "forget" /\ Alone(r)
         /\ rs'[r] = (IF held[r] = "fd" THEN "bypass" ELSE "end")
         /\ held'[r] = (IF held[r] = "fd" THEN held[r] ELSE "none")
         /\ cap' = "none" /\ terminal' = "original"
         /\ UNCHANGED <<sysout, own, other, retargeted, fd, saved, process, bypass, remote,
                        closed, gaps, pipe, rd, chunk, rest, buffers, out, at, ref, ident, taken,
                        shown, forwarded>>
<1> DEFINE pc == IF held[r] = "fd" THEN "bypass" ELSE "end"
<1>1. pc \in RestorePcs /\ pc \in {"sysout", "stop", "back", "join", "release", "clear", "forget",
                                 "bypass", "end", "raised"}
  BY DEF RestorePcs
<1>2. rs[r] = "forget" /\ GoRestore(r, pc)
  BY DEF Forget
<1> HIDE DEF pc
<1>3. /\ Alone(r) /\ rs'[r] = pc
      /\ held'[r] = IF pc \in {"end", "raised"} THEN "none" ELSE held[r]
  BY <1>1, <1>2, GoRestoreMoves DEF Alone
<1>4. UNCHANGED <<sysout, own, other, retargeted, fd, saved, process, bypass, remote,
                 closed, gaps, pipe, rd, chunk, rest, buffers, out, at, ref, ident, taken, shown,
                 forwarded>>
  BY DEF Forget, flowVars, loggerVars, fdVars, handlerVars, readerVars, writerVars
<1> QED
  BY <1>2, <1>3, <1>4 DEF pc, Forget

LEMMA CloseBypassMoves ==
  ASSUME TypeOK, NEW r \in Restorers, CloseBypass(r)
  PROVE  /\ rs[r] = "bypass" /\ Alone(r)
         /\ rs'[r] = "end" /\ held'[r] = "none"
         /\ bypass' = FALSE
         /\ UNCHANGED <<cap, sysout, terminal, own, other, retargeted, fd, saved, process,
                        remote, closed, gaps, pipe, rd, chunk, rest, buffers, out, at, ref, ident,
                        taken, shown, forwarded>>
<1> DEFINE pc == "end"
<1>1. pc \in RestorePcs /\ pc \in {"sysout", "stop", "back", "join", "release", "clear", "forget",
                                 "bypass", "end", "raised"}
  BY DEF RestorePcs
<1>2. rs[r] = "bypass" /\ GoRestore(r, pc)
  BY DEF CloseBypass
<1> HIDE DEF pc
<1>3. /\ Alone(r) /\ rs'[r] = pc
      /\ held'[r] = IF pc \in {"end", "raised"} THEN "none" ELSE held[r]
  BY <1>1, <1>2, GoRestoreMoves DEF Alone
<1>4. UNCHANGED <<cap, sysout, terminal, own, other, retargeted, fd, saved, process, remote,
                 closed, gaps, pipe, rd, chunk, rest, buffers, out, at, ref, ident, taken, shown,
                 forwarded>>
  BY DEF CloseBypass, flowVars, loggerVars, fdVars, handlerVars, readerVars, writerVars
<1> QED
  BY <1>2, <1>3, <1>4 DEF pc, CloseBypass

LEMMA DrainMoves ==
  ASSUME TypeOK, NEW r \in Restorers, Drain(r)
  PROVE  /\ rs[r] = "drain" /\ Alone(r)
         /\ rs'[r] = "emit" /\ held'[r] = held[r]
         /\ out' \in [Threads -> Seq(Lines)]
         /\ out'["close"] = SetToSeq({buffers[p] : p \in Writers})
         /\ \A e \in Threads \ {"close"} : out'[e] = out[e]
         /\ buffers' = [p \in Writers |-> {}]
         /\ UNCHANGED <<cap, sysout, terminal, own, other, retargeted, fd, saved, process,
                        bypass, remote, closed, gaps, pipe, rd, chunk, rest, at, ref, ident,
                        taken, shown, forwarded>>
<1>1. rs[r] = "drain" /\ GoRestore(r, "emit") /\ "emit" \in RestorePcs
  BY DEF Drain, RestorePcs
<1>2. Alone(r) /\ rs'[r] = "emit" /\ held'[r] = held[r]
  BY <1>1, GoRestoreMoves DEF Alone
<1> DEFINE s == SetToSeq({buffers[p] : p \in Writers})
<1>3. s \in Seq(Lines)
  BY DrainedLines
<1>4. out' = [out EXCEPT !["close"] = s] /\ out \in [Threads -> Seq(Lines)] /\ "close" \in Threads
  BY DEF Drain, TypeOK, Threads
<1> HIDE DEF s
<1>5. /\ out' \in [Threads -> Seq(Lines)] /\ out'["close"] = s
      /\ \A e \in Threads \ {"close"} : out'[e] = out[e]
  BY <1>3, <1>4
<1>6. UNCHANGED <<cap, sysout, terminal, own, other, retargeted, fd, saved, process, bypass,
                 remote, closed, gaps, pipe, rd, chunk, rest, at, ref, ident, taken, shown,
                 forwarded>>
  BY DEF Drain, loggerVars, fdVars, handlerVars, readerVars
<1>7. buffers' = [p \in Writers |-> {}]
  BY DEF Drain
<1> QED
  BY <1>1, <1>2, <1>5, <1>6, <1>7 DEF s

LEMMA DrainEmitMoves ==
  ASSUME TypeOK, NEW r \in Restorers, DrainEmit(r)
  PROVE  /\ rs[r] = "emit" /\ Alone(r) /\ held'[r] = held[r]
         /\ \/ EmitNext("close") /\ rs'[r] = "emit"
            \/ out["close"] = <<>> /\ rs'[r] = "handlers" /\ UNCHANGED <<out, forwarded>>
         /\ UNCHANGED <<cap, sysout, terminal, own, other, retargeted, fd, saved, process,
                        bypass, remote, closed, gaps, pipe, rd, chunk, rest, buffers, at,
                        ref, ident, taken, shown>>
<1>1. UNCHANGED <<cap, sysout, terminal, own, other, retargeted, fd, saved, process, bypass,
                 remote, closed, gaps, pipe, rd, chunk, rest, buffers, at, ref, ident, taken,
                 shown>>
  BY DEF DrainEmit, loggerVars, fdVars, handlerVars, readerVars, writerVars
<1>2. rs[r] = "emit"
  BY DEF DrainEmit
<1>3. CASE EmitNext("close") /\ UNCHANGED callVars
  BY <1>1, <1>2, <1>3 DEF Alone, callVars, TypeOK
<1>4. CASE out["close"] = <<>> /\ GoRestore(r, "handlers") /\ UNCHANGED <<out, forwarded>>
  <2>1. "handlers" \in RestorePcs
    BY DEF RestorePcs
  <2> QED
    BY <1>1, <1>2, <1>4, <2>1, GoRestoreMoves DEF Alone
<1> QED
  BY <1>3, <1>4 DEF DrainEmit

LEMMA FlowTypesSame ==
  ASSUME FlowTypes, UNCHANGED <<pipe, rd, chunk, rest, buffers, out, at, ref, ident, taken, shown,
                              forwarded>>
  PROVE  FlowTypes'
BY DEF FlowTypes

(* A call changes one variable of the rest. *)
LEMMA InstallTypesFrom ==
  ASSUME InstallTypes, NEW r, Alone(r),
         cap' \in {"none", "fd", "stream"},
         {sysout', terminal', own', other'} \subseteq Streams,
         retargeted' \subseteq {"own", "other"}, fd' \in {"terminal", "pipe"},
         saved' \in {"none", "open", "closed"},
         {process', bypass', remote', closed'} \subseteq BOOLEAN,
         gaps' \subseteq {"late", "undone", "undecoded", "early"}
  PROVE  InstallTypes'
BY DEF InstallTypes, Alone

LEMMA RestoreKeepsTypes ==
  ASSUME TypeOK, NEW r \in Restorers, RestoreStep(r)
  PROVE  TypeOK'
<1>0. InstallTypes /\ FlowTypes
  BY TypesApart
<1>s. {"original", "process", "bypass", "captured", "none"} \subseteq Streams
  BY DEF Streams
<1>t. /\ cap \in {"none", "fd", "stream"} /\ {sysout, terminal, own, other} \subseteq Streams
      /\ retargeted \subseteq {"own", "other"} /\ fd \in {"terminal", "pipe"}
      /\ saved \in {"none", "open", "closed"} /\ {process, bypass, remote, closed} \subseteq BOOLEAN
      /\ gaps \subseteq {"late", "undone", "undecoded", "early"}
  BY <1>0 DEF InstallTypes
<1>1. CASE Snap(r)
  <2>1. Alone(r) /\ UNCHANGED <<cap, sysout, terminal, own, other, retargeted, fd, saved,
                             process, bypass, remote, closed, gaps>>
    BY <1>1, SnapMoves
  <2>2. UNCHANGED <<pipe, rd, chunk, rest, buffers, out, at, ref, ident, taken, shown, forwarded>>
    BY <1>1, SnapMoves
  <2>4. InstallTypes'
    BY <1>0, <1>t, <2>1, InstallTypesFrom
  <2> QED
    BY <1>0, <2>2, <2>4, FlowTypesSame, TypesKept
<1>2. CASE RestoreHandlers(r)
  <2>1. Alone(r) /\ UNCHANGED <<cap, sysout, terminal, fd, saved, process, bypass, remote,
                             closed, gaps>>
    BY <1>2, RestoreHandlersMoves
  <2>2. UNCHANGED <<pipe, rd, chunk, rest, buffers, out, at, ref, ident, taken, shown, forwarded>>
    BY <1>2, RestoreHandlersMoves
  <2>3. own' \in Streams /\ other' \in Streams /\ retargeted' \subseteq {"own", "other"}
    BY <1>s, <1>t, <1>2, RestoreHandlersMoves
  <2>4. InstallTypes'
    BY <1>0, <1>t, <2>1, <2>3, InstallTypesFrom
  <2> QED
    BY <1>0, <2>2, <2>4, FlowTypesSame, TypesKept
<1>3. CASE RestoreSysout(r)
  <2>1. Alone(r) /\ UNCHANGED <<cap, terminal, own, other, retargeted, fd, saved, process,
                             bypass, remote, closed, gaps>>
    BY <1>3, RestoreSysoutMoves
  <2>2. UNCHANGED <<pipe, rd, chunk, rest, buffers, out, at, ref, ident, taken, shown, forwarded>>
    BY <1>3, RestoreSysoutMoves
  <2>3. sysout' \in Streams
    BY <1>s, <1>t, <1>3, RestoreSysoutMoves
  <2>4. InstallTypes'
    BY <1>0, <1>t, <2>1, <2>3, InstallTypesFrom
  <2> QED
    BY <1>0, <2>2, <2>4, FlowTypesSame, TypesKept
<1>4. CASE Stop(r)
  <2>1. Alone(r) /\ UNCHANGED <<cap, sysout, terminal, own, other, retargeted, fd, saved,
                             bypass, remote, closed, gaps>>
    BY <1>4, StopMoves
  <2>2. UNCHANGED <<pipe, rd, chunk, rest, buffers, out, at, ref, ident, taken, shown, forwarded>>
    BY <1>4, StopMoves
  <2>3. process' \in BOOLEAN
    BY <1>s, <1>t, <1>4, StopMoves
  <2>4. InstallTypes'
    BY <1>0, <1>t, <2>1, <2>3, InstallTypesFrom
  <2> QED
    BY <1>0, <2>2, <2>4, FlowTypesSame, TypesKept
<1>5. CASE PutBack(r)
  <2>1. Alone(r) /\ UNCHANGED <<cap, sysout, terminal, own, other, retargeted, saved, process,
                             bypass, remote, closed, gaps>>
    BY <1>5, PutBackMoves
  <2>2. UNCHANGED <<pipe, rd, chunk, rest, buffers, out, at, ref, ident, taken, shown, forwarded>>
    BY <1>5, PutBackMoves
  <2>3. fd' \in {"terminal", "pipe"}
    BY <1>s, <1>t, <1>5, PutBackMoves
  <2>4. InstallTypes'
    BY <1>0, <1>t, <2>1, <2>3, InstallTypesFrom
  <2> QED
    BY <1>0, <2>2, <2>4, FlowTypesSame, TypesKept
<1>6. CASE Join(r)
  <2>1. Alone(r) /\ UNCHANGED <<cap, sysout, terminal, own, other, retargeted, fd, saved,
                             process, bypass, remote, closed>>
    BY <1>6, JoinMoves
  <2>2. UNCHANGED <<pipe, rd, chunk, rest, buffers, out, at, ref, ident, taken, shown, forwarded>>
    BY <1>6, JoinMoves
  <2>3. gaps' \subseteq {"late", "undone", "undecoded", "early"}
    BY <1>s, <1>t, <1>6, JoinMoves
  <2>4. InstallTypes'
    BY <1>0, <1>t, <2>1, <2>3, InstallTypesFrom
  <2> QED
    BY <1>0, <2>2, <2>4, FlowTypesSame, TypesKept
<1>7. CASE Release(r)
  <2>1. Alone(r) /\ UNCHANGED <<cap, sysout, terminal, own, other, retargeted, fd, process,
                             bypass, remote, closed, gaps>>
    BY <1>7, ReleaseMoves
  <2>2. UNCHANGED <<pipe, rd, chunk, rest, buffers, out, at, ref, ident, taken, shown, forwarded>>
    BY <1>7, ReleaseMoves
  <2>3. saved' \in {"none", "open", "closed"}
    BY <1>s, <1>t, <1>7, ReleaseMoves
  <2>4. InstallTypes'
    BY <1>0, <1>t, <2>1, <2>3, InstallTypesFrom
  <2> QED
    BY <1>0, <2>2, <2>4, FlowTypesSame, TypesKept
<1>8. CASE Forget(r)
  <2>1. Alone(r) /\ UNCHANGED <<sysout, own, other, retargeted, fd, saved, process, bypass,
                             remote, closed, gaps>>
    BY <1>8, ForgetMoves
  <2>2. UNCHANGED <<pipe, rd, chunk, rest, buffers, out, at, ref, ident, taken, shown, forwarded>>
    BY <1>8, ForgetMoves
  <2>3. cap' \in {"none", "fd", "stream"} /\ terminal' \in Streams
    BY <1>s, <1>t, <1>8, ForgetMoves
  <2>4. InstallTypes'
    BY <1>0, <1>t, <2>1, <2>3, InstallTypesFrom
  <2> QED
    BY <1>0, <2>2, <2>4, FlowTypesSame, TypesKept
<1>9. CASE CloseBypass(r)
  <2>1. Alone(r) /\ UNCHANGED <<cap, sysout, terminal, own, other, retargeted, fd, saved,
                             process, remote, closed, gaps>>
    BY <1>9, CloseBypassMoves
  <2>2. UNCHANGED <<pipe, rd, chunk, rest, buffers, out, at, ref, ident, taken, shown, forwarded>>
    BY <1>9, CloseBypassMoves
  <2>3. bypass' \in BOOLEAN
    BY <1>s, <1>t, <1>9, CloseBypassMoves
  <2>4. InstallTypes'
    BY <1>0, <1>t, <2>1, <2>3, InstallTypesFrom
  <2> QED
    BY <1>0, <2>2, <2>4, FlowTypesSame, TypesKept
<1>10. CASE Drain(r)
  <2>1. Alone(r) /\ UNCHANGED <<cap, sysout, terminal, own, other, retargeted, fd, saved,
                             process, bypass, remote, closed, gaps>>
    BY <1>10, DrainMoves
  <2>2. InstallTypes'
    BY <1>0, <1>t, <2>1, InstallTypesFrom
  <2>3. buffers' \in [Writers -> Lines] /\ out' \in [Threads -> Seq(Lines)]
    BY <1>10, DrainMoves DEF Lines
  <2>4. UNCHANGED <<pipe, rd, chunk, rest, at, ref, ident, taken, shown, forwarded>>
    BY <1>10, DrainMoves
  <2>5. FlowTypes'
    BY <1>0, <2>3, <2>4 DEF FlowTypes
  <2> QED
    BY <2>2, <2>5, TypesKept
<1>11. CASE DrainEmit(r)
  <2>1. Alone(r) /\ UNCHANGED <<cap, sysout, terminal, own, other, retargeted, fd, saved,
                             process, bypass, remote, closed, gaps>>
    BY <1>11, DrainEmitMoves
  <2>2. InstallTypes'
    BY <1>0, <1>t, <2>1, InstallTypesFrom
  <2>3. out' \in [Threads -> Seq(Lines)] /\ forwarded' \in [Lines -> 0 .. 2]
    <3>1. CASE EmitNext("close")
      <4>1. "close" \in Threads
        BY DEF Threads
      <4> QED
        BY <3>1, <4>1, EmitMoves, ForwardMoves
    <3>2. CASE UNCHANGED <<out, forwarded>>
      BY <1>0, <3>2 DEF FlowTypes
    <3> QED
      BY <1>11, <3>1, <3>2, DrainEmitMoves
  <2>4. UNCHANGED <<pipe, rd, chunk, rest, buffers, at, ref, ident, taken, shown>>
    BY <1>11, DrainEmitMoves
  <2>5. FlowTypes'
    BY <1>0, <2>3, <2>4 DEF FlowTypes
  <2> QED
    BY <2>2, <2>5, TypesKept
<1>12. CASE Clear(r)
  <2>1. Alone(r) /\ UNCHANGED <<cap, sysout, terminal, own, other, retargeted, fd, process,
                             bypass, remote, closed, gaps>>
    BY <1>12, ClearMoves
  <2>2. UNCHANGED <<pipe, rd, chunk, rest, buffers, out, at, ref, ident, taken, shown, forwarded>>
    BY <1>12, ClearMoves
  <2>3. saved' \in {"none", "open", "closed"}
    BY <1>s, <1>t, <1>12, ClearMoves
  <2>4. InstallTypes'
    BY <1>0, <1>t, <2>1, <2>3, InstallTypesFrom
  <2> QED
    BY <1>0, <2>2, <2>4, FlowTypesSame, TypesKept
<1> QED
  BY <1>1, <1>2, <1>3, <1>4, <1>5, <1>6, <1>7, <1>8, <1>9, <1>10, <1>11,
     <1>12 DEF RestoreStep

-----------------------------------------------------------------------------
(* What each step of a writer does.                                        *)

LEMMA PutMoves ==
  ASSUME TypeOK, NEW w \in Writers, NEW stream, NEW s, NEW next,
         Put(w, stream, s, next)
  PROVE  /\ at' = [at EXCEPT ![w] = at'[w]] /\ at'[w] \in {next, "over"}
         /\ \A v \in Writers \ {w} : at'[v] = at[v]
         /\ \/ /\ rd # "over" /\ (stream = "pipe" \/ fd = "pipe" \/ (stream = "process" /\ process))
               /\ pipe' = pipe \o s /\ taken' = taken \cup ({w} \cap ToSet(s))
               /\ at'[w] = next /\ UNCHANGED shown
            \/ /\ stream = "terminal" \/ fd = "terminal"
               /\ shown' = shown \cup ({w} \cap ToSet(s)) /\ at'[w] = next
               /\ UNCHANGED <<pipe, taken>>
            \/ at'[w] = "over" /\ UNCHANGED <<pipe, taken, shown>>
<1>1. DOMAIN at = Writers
  BY DEF TypeOK
<1>2. CASE PutPipe(w, s, next) /\ (stream = "pipe" \/ fd = "pipe"
          \/ (stream = "process" /\ process))
  BY <1>1, <1>2 DEF PutPipe
<1>3. CASE PutTerminal(w, s, next) /\ (stream = "terminal" \/ fd = "terminal")
  BY <1>1, <1>3 DEF PutTerminal
<1>4. CASE at' = [at EXCEPT ![w] = "over"] /\ UNCHANGED <<pipe, taken, shown>>
  BY <1>1, <1>4
<1> QED
  BY <1>2, <1>3, <1>4 DEF Put

Sames == UNCHANGED <<inst, rs, held, cap, sysout, terminal, own, other, retargeted, remote,
                     closed, fd, saved, process, bypass, gaps>>

(* A step of writer w touches nothing of the others, the reader, the rest. *)
Bystanders(w) ==
    /\ Sames /\ UNCHANGED <<rd, chunk, rest>>
    /\ at' \in [Writers -> {"new", "text", "keep", "end", "cut", "emit", "child", "written",
                            "over"}]
    /\ ref' \in [Writers -> Streams \cup {"pipe", "terminal"}]
    /\ ident' \in [Writers -> Writers]
    /\ \A v \in Writers \ {w} : at'[v] = at[v] /\ ref'[v] = ref[v] /\ ident'[v] = ident[v]
    /\ \A i \in Writers \ {ident[w]} : buffers'[i] = buffers[i]
    /\ \A e \in Threads \ {ident[w]} : out'[e] = out[e]

(* The write of s, and what follows it. *)
Puts(w, s, next) ==
    \/ pipe' = pipe \o s /\ taken' = taken \cup ({w} \cap ToSet(s))
          /\ at'[w] = next /\ shown' = shown /\ rd # "over"
    \/ shown' = shown \cup ({w} \cap ToSet(s)) /\ at'[w] = next /\ UNCHANGED <<pipe, taken>>
    \/ at'[w] = "over" /\ UNCHANGED <<pipe, taken, shown>>

LEMMA SetupSame ==
  ASSUME UNCHANGED setupVars
  PROVE  Sames
BY DEF setupVars, callVars, loggerVars, fdVars, handlerVars, Sames

LEMMA PrintLookupMoves ==
  ASSUME TypeOK, NEW w \in Writers, PrintLookup(w)
  PROVE  /\ Bystanders(w) /\ at[w] = "new" /\ at'[w] = "text" /\ ref'[w] = sysout
         /\ \A q \in Writers : at[q] \in Printing => ident[q] # ident'[w]
         /\ UNCHANGED <<pipe, buffers, taken, out, shown, forwarded>>
<1>1. /\ at[w] = "new" /\ at' = [at EXCEPT ![w] = "text"] /\ ref' = [ref EXCEPT ![w] = sysout]
      /\ UNCHANGED <<setupVars, rd, chunk, rest, pipe, buffers, taken, out, shown, forwarded>>
  BY DEF PrintLookup, readerVars
<1>2. sysout \in Streams
  BY DEF TypeOK
<1>3. PICK i \in {w} \cup {ident[q] : q \in {v \in Writers : at[v] = "over"}} :
        /\ \A q \in Writers : at[q] \in Printing => ident[q] # i
        /\ ident' = [ident EXCEPT ![w] = i]
  BY DEF PrintLookup
<1>4. ident \in [Writers -> Writers] /\ i \in Writers
  BY DEF TypeOK
<1>5. /\ ident' \in [Writers -> Writers] /\ ident'[w] = i
      /\ \A v \in Writers \ {w} : ident'[v] = ident[v]
  BY <1>3, <1>4
<1> QED
  BY <1>1, <1>2, <1>3, <1>5, SetupSame DEF Bystanders, TypeOK

LEMMA ChildSpawnMoves ==
  ASSUME TypeOK, NEW w \in Writers, ChildSpawn(w)
  PROVE  /\ Bystanders(w) /\ at[w] = "new" /\ at'[w] = "child" /\ ref'[w] = fd
         /\ UNCHANGED <<pipe, ident, buffers, taken, out, shown,
                     forwarded>>
<1>1. /\ at[w] = "new" /\ at' = [at EXCEPT ![w] = "child"] /\ ref' = [ref EXCEPT ![w] = fd]
      /\ UNCHANGED <<setupVars, rd, chunk, rest, pipe, ident, buffers, taken, out, shown,
                     forwarded>>
  BY DEF ChildSpawn, readerVars
<1>2. fd \in {"pipe", "terminal"}
  BY DEF TypeOK
<1> QED
  BY <1>1, <1>2, SetupSame DEF Bystanders, TypeOK

LEMMA ChildExitsMoves ==
  ASSUME TypeOK, NEW w \in Writers, ChildExits(w)
  PROVE  /\ Bystanders(w) /\ at[w] = "written" /\ at'[w] = "over" /\ ref'[w] = "none"
         /\ UNCHANGED <<pipe, ident, buffers, taken, out, shown,
                     forwarded>>
<1>1. /\ at[w] = "written" /\ at' = [at EXCEPT ![w] = "over"] /\ ref' = [ref EXCEPT ![w] = "none"]
      /\ UNCHANGED <<setupVars, rd, chunk, rest, pipe, ident, buffers, taken, out, shown,
                     forwarded>>
  BY DEF ChildExits, readerVars
<1>2. "none" \in Streams
  BY DEF Streams
<1> QED
  BY <1>1, <1>2, SetupSame DEF Bystanders, TypeOK

LEMMA PrintOpenMoves ==
  ASSUME TypeOK, NEW w \in Writers, PrintOpen(w)
  PROVE  /\ Bystanders(w) /\ at[w] = "end" /\ at'[w] = "over" /\ ref'[w] = "none"
         /\ UNCHANGED <<pipe, ident, buffers, taken, out, shown,
                     forwarded>>
<1>1. /\ at[w] = "end" /\ at' = [at EXCEPT ![w] = "over"] /\ ref' = [ref EXCEPT ![w] = "none"]
      /\ UNCHANGED <<setupVars, rd, chunk, rest, pipe, ident, buffers, taken, out, shown,
                     forwarded>>
  BY DEF PrintOpen, readerVars
<1>2. "none" \in Streams
  BY DEF Streams
<1> QED
  BY <1>1, <1>2, SetupSame DEF Bystanders, TypeOK

LEMMA KeepTextMoves ==
  ASSUME TypeOK, NEW w \in Writers, KeepText(w)
  PROVE  /\ Bystanders(w) /\ at[w] = "keep" /\ at'[w] = "end" /\ ref'[w] = ref[w]
         /\ buffers' \in [Writers -> Lines] /\ buffers'[ident[w]] = buffers[ident[w]] \cup {w}
         /\ taken' = taken \cup {w}
         /\ UNCHANGED <<pipe, ident, out, shown, forwarded>>
<1> DEFINE i == ident[w]
<1>1. /\ at[w] = "keep" /\ at' = [at EXCEPT ![w] = "end"] /\ taken' = taken \cup {w}
      /\ buffers' = [buffers EXCEPT ![i] = buffers[i] \cup {w}]
      /\ UNCHANGED <<setupVars, rd, chunk, rest, pipe, ref, ident, out, shown, forwarded>>
  BY DEF KeepText, readerVars
<1>2. i \in Writers /\ buffers \in [Writers -> Lines] /\ buffers[i] \cup {w} \in Lines
  BY DEF TypeOK, Lines
<1> HIDE DEF i
<1>3. /\ buffers' \in [Writers -> Lines] /\ buffers'[i] = buffers[i] \cup {w}
      /\ \A v \in Writers \ {i} : buffers'[v] = buffers[v]
  BY <1>1, <1>2
<1> QED
  BY <1>1, <1>3, SetupSame DEF Bystanders, TypeOK, i

LEMMA CutLineMoves ==
  ASSUME TypeOK, NEW w \in Writers, CutLine(w)
  PROVE  /\ Bystanders(w) /\ at[w] = "cut" /\ at'[w] = "emit" /\ ref'[w] = ref[w]
         /\ buffers' \in [Writers -> Lines] /\ buffers'[ident[w]] = {}
         /\ out' \in [Threads -> Seq(Lines)]
         /\ out'[ident[w]] = Append(out[ident[w]], buffers[ident[w]])
         /\ UNCHANGED <<pipe, ident, taken, shown, forwarded>>
<1> DEFINE i == ident[w]
<1>1. /\ at[w] = "cut" /\ at' = [at EXCEPT ![w] = "emit"]
      /\ out' = [out EXCEPT ![i] = Append(out[i], buffers[i])]
      /\ buffers' = [buffers EXCEPT ![i] = {}]
      /\ UNCHANGED <<setupVars, rd, chunk, rest, pipe, ref, ident, taken, shown, forwarded>>
  BY DEF CutLine, readerVars
<1>2. /\ i \in Writers /\ i \in Threads
      /\ buffers \in [Writers -> Lines] /\ {} \in Lines /\ buffers[i] \in Lines
      /\ out \in [Threads -> Seq(Lines)]
  BY DEF TypeOK, Lines, Threads
<1> HIDE DEF i
<1>3. /\ buffers' \in [Writers -> Lines] /\ buffers'[i] = {}
      /\ \A v \in Writers \ {i} : buffers'[v] = buffers[v]
  BY <1>1, <1>2
<1>4. Append(out[i], buffers[i]) \in Seq(Lines)
  BY <1>2
<1>5. /\ out' \in [Threads -> Seq(Lines)] /\ out'[i] = Append(out[i], buffers[i])
      /\ \A e \in Threads \ {i} : out'[e] = out[e]
  BY <1>1, <1>2, <1>4
<1> QED
  BY <1>1, <1>3, <1>5, SetupSame DEF Bystanders, TypeOK, i

LEMMA EmitLineMoves ==
  ASSUME TypeOK, NEW w \in Writers, EmitLine(w)
  PROVE  /\ Bystanders(w) /\ at[w] = "emit" /\ at'[w] = "over" /\ ref'[w] = "none"
         /\ EmitNext(ident[w]) /\ ident[w] \in Threads
         /\ UNCHANGED <<pipe, ident, buffers, taken, shown>>
<1>1. /\ at[w] = "emit" /\ at' = [at EXCEPT ![w] = "over"] /\ ref' = [ref EXCEPT ![w] = "none"]
      /\ EmitNext(ident[w])
      /\ UNCHANGED <<setupVars, rd, chunk, rest, pipe, ident, buffers, taken, shown>>
  BY DEF EmitLine, readerVars
<1>2. "none" \in Streams /\ ident[w] \in Threads
  BY DEF Streams, Threads, TypeOK
<1>3. \A e \in Threads \ {ident[w]} : out'[e] = out[e]
  BY <1>1, <1>2, EmitMoves
<1> QED
  BY <1>1, <1>2, <1>3, SetupSame DEF Bystanders, TypeOK

(* A write to a stream that does not lead to the pipe leaves it alone. *)
Shut(w, stream, s) ==
    fd = "terminal" /\ ~process /\ stream # "pipe" =>
        /\ pipe' = pipe /\ taken' = taken
        /\ at'[w] = "over" \/ shown' = shown \cup ({w} \cap ToSet(s))

LEMMA PutWrites ==
  ASSUME TypeOK, NEW w \in Writers, NEW stream, NEW s \in Seq(Texts), NEW next,
         Put(w, stream, s, next),
         next \in {"new", "text", "keep", "end", "cut", "emit", "child", "written", "over"}
  PROVE  /\ at'[w] \in {next, "over"} /\ \A v \in Writers \ {w} : at'[v] = at[v]
         /\ at' \in [Writers -> {"new", "text", "keep", "end", "cut", "emit", "child", "written",
                                 "over"}]
         /\ Puts(w, s, next) /\ Shut(w, stream, s)
         /\ pipe' \in Seq(Texts) /\ taken' \subseteq Writers /\ shown' \subseteq Writers
<1>1. /\ at' = [at EXCEPT ![w] = at'[w]] /\ at'[w] \in {next, "over"}
      /\ \A v \in Writers \ {w} : at'[v] = at[v]
  BY PutMoves
<1>2. at' \in [Writers -> {"new", "text", "keep", "end", "cut", "emit", "child", "written",
                           "over"}]
  BY <1>1 DEF TypeOK
<1>3. Puts(w, s, next) /\ Shut(w, stream, s)
  BY PutMoves DEF Puts, Shut
<1>4. pipe \in Seq(Texts) /\ taken \subseteq Writers /\ shown \subseteq Writers
  BY DEF TypeOK, Texts
<1>5. pipe \o s \in Seq(Texts)
  BY <1>4
<1>6. pipe' \in Seq(Texts) /\ taken' \subseteq Writers /\ shown' \subseteq Writers
  BY <1>3, <1>4, <1>5 DEF Puts
<1> QED
  BY <1>1, <1>2, <1>3, <1>6

LEMMA PutByWrites ==
  ASSUME TypeOK, NEW w \in Writers, NEW s \in Seq(Texts), NEW next,
         PutBy(w, s, next),
         next \in {"new", "text", "keep", "end", "cut", "emit", "child", "written", "over"}
  PROVE  /\ at'[w] \in {next, "over"} /\ \A v \in Writers \ {w} : at'[v] = at[v]
         /\ at' \in [Writers -> {"new", "text", "keep", "end", "cut", "emit", "child", "written",
                                 "over"}]
         /\ Puts(w, s, next) /\ Shut(w, ref[w], s)
         /\ pipe' \in Seq(Texts) /\ taken' \subseteq Writers /\ shown' \subseteq Writers
         /\ ref' \in [Writers -> Streams \cup {"pipe", "terminal"}]
         /\ ref'[w] = IF at'[w] = "over" THEN "none" ELSE ref[w]
         /\ \A v \in Writers \ {w} : ref'[v] = ref[v]
<1>1. Put(w, ref[w], s, next)
  BY DEF PutBy
<1>2. ref' = IF at'[w] = "over" THEN [ref EXCEPT ![w] = "none"] ELSE ref
  BY DEF PutBy
<1>3. "none" \in Streams /\ ref \in [Writers -> Streams \cup {"pipe", "terminal"}]
  BY DEF Streams, TypeOK
<1>4. /\ ref' \in [Writers -> Streams \cup {"pipe", "terminal"}]
      /\ ref'[w] = IF at'[w] = "over" THEN "none" ELSE ref[w]
      /\ \A v \in Writers \ {w} : ref'[v] = ref[v]
  <2>1. CASE at'[w] = "over"
    BY <1>2, <1>3, <2>1
  <2>2. CASE at'[w] # "over"
    BY <1>2, <1>3, <2>2
  <2> QED
    BY <2>1, <2>2
<1> QED
  BY <1>1, <1>4, PutWrites

LEMMA WrittenTexts ==
  ASSUME NEW w \in Writers
  PROVE  /\ <<w>> \in Seq(Texts) /\ <<w, NL>> \in Seq(Texts)
         /\ <<NL>> \in Seq(Texts) /\ <<>> \in Seq(Texts)
         /\ ToSet(<<w>>) = {w} /\ ToSet(<<w, NL>>) = {w, NL}
         /\ ToSet(<<NL>>) = {NL} /\ ToSet(<<>>) = {}
<1>1. w \in Texts /\ NL \in Texts
  BY DEF Texts
<1>2. DOMAIN <<w, NL>> = {1, 2} /\ <<w, NL>>[1] = w /\ <<w, NL>>[2] = NL
  OBVIOUS
<1> QED
  BY <1>1, <1>2 DEF ToSet

LEMMA PrintTextMoves ==
  ASSUME TypeOK, NEW w \in Writers, PrintText(w)
  PROVE  /\ Bystanders(w) /\ at[w] = "text"
         /\ at'[w] \in {IF ref[w] = "captured" THEN "keep" ELSE "end", "over"}
         /\ ref'[w] = IF at'[w] = "over" THEN "none" ELSE ref[w]
         /\ Puts(w, <<w>>, IF ref[w] = "captured" THEN "keep" ELSE "end")
         /\ Shut(w, ref[w], <<w>>)
         /\ pipe' \in Seq(Texts) /\ taken' \subseteq Writers /\ shown' \subseteq Writers
         /\ UNCHANGED <<ident, buffers, out, forwarded>>
<1> DEFINE next == IF ref[w] = "captured" THEN "keep" ELSE "end"
<1>1. at[w] = "text" /\ PutBy(w, <<w>>, next)
  BY DEF PrintText
<1>2. next \in {"keep", "end"}
  OBVIOUS
<1>3. UNCHANGED <<setupVars, rd, chunk, rest, ident, buffers, out, forwarded>>
  BY DEF PrintText, readerVars
<1> HIDE DEF next
<1>4. /\ at'[w] \in {next, "over"} /\ \A v \in Writers \ {w} : at'[v] = at[v]
      /\ at' \in [Writers -> {"new", "text", "keep", "end", "cut", "emit", "child", "written",
                              "over"}]
      /\ Puts(w, <<w>>, next) /\ Shut(w, ref[w], <<w>>)
      /\ pipe' \in Seq(Texts) /\ taken' \subseteq Writers /\ shown' \subseteq Writers
      /\ ref' \in [Writers -> Streams \cup {"pipe", "terminal"}]
      /\ ref'[w] = IF at'[w] = "over" THEN "none" ELSE ref[w]
      /\ \A v \in Writers \ {w} : ref'[v] = ref[v]
  BY <1>1, <1>2, WrittenTexts, PutByWrites
<1>5. Bystanders(w)
  BY <1>3, <1>4, SetupSame DEF Bystanders, TypeOK
<1> QED
  BY <1>1, <1>3, <1>4, <1>5 DEF next

LEMMA PrintEndMoves ==
  ASSUME TypeOK, NEW w \in Writers, PrintEnd(w)
  PROVE  \E s \in {<<NL>>, <<>>} :
         /\ Bystanders(w) /\ at[w] = "end"
         /\ at'[w] \in {IF ref[w] = "captured" THEN "cut" ELSE "over", "over"}
         /\ ref'[w] = IF at'[w] = "over" THEN "none" ELSE ref[w]
         /\ Puts(w, s, IF ref[w] = "captured" THEN "cut" ELSE "over")
         /\ Shut(w, ref[w], s)
         /\ pipe' \in Seq(Texts) /\ taken' \subseteq Writers /\ shown' \subseteq Writers
         /\ UNCHANGED <<ident, buffers, out, forwarded>>
<1> DEFINE next == IF ref[w] = "captured" THEN "cut" ELSE "over"
<1>1. PICK s \in {<<NL>>, <<>>} : PutBy(w, s, next)
  BY DEF PrintEnd
<1>2. next \in {"cut", "over"} /\ at[w] = "end" /\ s \in Seq(Texts)
  BY WrittenTexts DEF PrintEnd
<1>3. UNCHANGED <<setupVars, rd, chunk, rest, ident, buffers, out, forwarded>>
  BY DEF PrintEnd, readerVars
<1> HIDE DEF next
<1>4. /\ at'[w] \in {next, "over"} /\ \A v \in Writers \ {w} : at'[v] = at[v]
      /\ at' \in [Writers -> {"new", "text", "keep", "end", "cut", "emit", "child", "written",
                              "over"}]
      /\ Puts(w, s, next) /\ Shut(w, ref[w], s)
      /\ pipe' \in Seq(Texts) /\ taken' \subseteq Writers /\ shown' \subseteq Writers
      /\ ref' \in [Writers -> Streams \cup {"pipe", "terminal"}]
      /\ ref'[w] = IF at'[w] = "over" THEN "none" ELSE ref[w]
      /\ \A v \in Writers \ {w} : ref'[v] = ref[v]
  BY <1>1, <1>2, PutByWrites
<1>5. Bystanders(w)
  BY <1>3, <1>4, SetupSame DEF Bystanders, TypeOK
<1> QED
  BY <1>1, <1>2, <1>3, <1>4, <1>5 DEF next

LEMMA ChildWritesMoves ==
  ASSUME TypeOK, NEW w \in Writers, ChildWrites(w)
  PROVE  /\ Bystanders(w) /\ at[w] = "child" /\ at'[w] \in {"written", "over"}
         /\ ref'[w] = IF at'[w] = "over" THEN "none" ELSE ref[w]
         /\ Puts(w, <<w, NL>>, "written") /\ Shut(w, ref[w], <<w, NL>>)
         /\ pipe' \in Seq(Texts) /\ taken' \subseteq Writers /\ shown' \subseteq Writers
         /\ UNCHANGED <<ident, buffers, out, forwarded>>
<1>1. at[w] = "child" /\ PutBy(w, <<w, NL>>, "written")
  BY DEF ChildWrites
<1>3. UNCHANGED <<setupVars, rd, chunk, rest, ident, buffers, out, forwarded>>
  BY DEF ChildWrites, readerVars
<1>4. /\ at'[w] \in {"written", "over"} /\ \A v \in Writers \ {w} : at'[v] = at[v]
      /\ at' \in [Writers -> {"new", "text", "keep", "end", "cut", "emit", "child", "written",
                              "over"}]
      /\ Puts(w, <<w, NL>>, "written") /\ Shut(w, ref[w], <<w, NL>>)
      /\ pipe' \in Seq(Texts) /\ taken' \subseteq Writers /\ shown' \subseteq Writers
      /\ ref' \in [Writers -> Streams \cup {"pipe", "terminal"}]
      /\ ref'[w] = IF at'[w] = "over" THEN "none" ELSE ref[w]
      /\ \A v \in Writers \ {w} : ref'[v] = ref[v]
  BY <1>1, WrittenTexts, PutByWrites
<1>5. Bystanders(w)
  BY <1>3, <1>4, SetupSame DEF Bystanders, TypeOK
<1> QED
  BY <1>1, <1>3, <1>4, <1>5

LEMMA HandlerLogsMoves ==
  ASSUME TypeOK, NEW w \in Writers, HandlerLogs(w)
  PROVE  /\ Bystanders(w) /\ at[w] = "new" /\ at'[w] = "over" /\ ref'[w] = ref[w]
         /\ Puts(w, <<w, NL>>, "over") /\ Shut(w, other, <<w, NL>>) /\ other # "pipe"
         /\ pipe' \in Seq(Texts) /\ taken' \subseteq Writers /\ shown' \subseteq Writers
         /\ UNCHANGED <<ident, buffers, out, forwarded>>
<1>1. at[w] = "new" /\ Put(w, other, <<w, NL>>, "over")
  BY DEF HandlerLogs
<1>2. other # "pipe"
  BY DEF TypeOK, Streams
<1>3. UNCHANGED <<setupVars, rd, chunk, rest, ref, ident, buffers, out, forwarded>>
  BY DEF HandlerLogs, readerVars
<1>4. /\ at'[w] = "over" /\ \A v \in Writers \ {w} : at'[v] = at[v]
      /\ at' \in [Writers -> {"new", "text", "keep", "end", "cut", "emit", "child", "written",
                              "over"}]
      /\ Puts(w, <<w, NL>>, "over") /\ Shut(w, other, <<w, NL>>)
      /\ pipe' \in Seq(Texts) /\ taken' \subseteq Writers /\ shown' \subseteq Writers
  BY <1>1, WrittenTexts, PutWrites
<1>5. Bystanders(w)
  BY <1>3, <1>4, SetupSame DEF Bystanders, TypeOK
<1> QED
  BY <1>1, <1>2, <1>3, <1>4, <1>5

(* What each writer step leaves of the flow of text has its type. *)
LEMMA WriterKeepsTypes ==
  ASSUME TypeOK, NEW w \in Writers, PrintStep(w) \/ HandlerLogs(w) \/ ChildStep(w)
  PROVE  TypeOK' /\ Bystanders(w)
<1>0. InstallTypes /\ FlowTypes
  BY TypesApart
<1>1. Bystanders(w)
  BY PrintLookupMoves, PrintTextMoves, KeepTextMoves, PrintEndMoves, CutLineMoves, EmitLineMoves,
     HandlerLogsMoves, ChildSpawnMoves, ChildWritesMoves, ChildExitsMoves, PrintOpenMoves
     DEF PrintStep, ChildStep
<1>2. InstallTypes'
  BY <1>0, <1>1 DEF InstallTypes, Bystanders, Sames
<1>3. /\ pipe \in Seq(Texts) /\ buffers \in [Writers -> Lines] /\ out \in [Threads -> Seq(Lines)]
      /\ taken \subseteq Writers /\ shown \subseteq Writers /\ forwarded \in [Lines -> 0 .. 2]
  BY <1>0 DEF FlowTypes
<1>4. /\ pipe' \in Seq(Texts) /\ buffers' \in [Writers -> Lines] /\ out' \in [Threads -> Seq(Lines)]
      /\ taken' \subseteq Writers /\ shown' \subseteq Writers /\ forwarded' \in [Lines -> 0 .. 2]
  <2>1. CASE PrintLookup(w) \/ ChildSpawn(w) \/ ChildExits(w) \/ PrintOpen(w)
    BY <1>3, <2>1, PrintLookupMoves, ChildSpawnMoves, ChildExitsMoves, PrintOpenMoves
  <2>2. CASE PrintText(w)
    BY <1>3, <2>2, PrintTextMoves
  <2>3. CASE PrintEnd(w)
    BY <1>3, <2>3, PrintEndMoves
  <2>4. CASE ChildWrites(w)
    BY <1>3, <2>4, ChildWritesMoves
  <2>5. CASE HandlerLogs(w)
    BY <1>3, <2>5, HandlerLogsMoves
  <2>6. CASE KeepText(w)
    BY <1>3, <2>6, KeepTextMoves
  <2>7. CASE CutLine(w)
    BY <1>3, <2>7, CutLineMoves
  <2>8. CASE EmitLine(w)
    <3>1. ident[w] \in Threads /\ EmitNext(ident[w])
      BY <2>8, EmitLineMoves
    <3> QED
      BY <1>3, <2>8, <3>1, EmitLineMoves, EmitMoves, ForwardMoves
  <2> QED
    BY <2>1, <2>2, <2>3, <2>4, <2>5, <2>6, <2>7, <2>8 DEF PrintStep, ChildStep
<1>5. FlowTypes'
  BY <1>0, <1>1, <1>4 DEF FlowTypes, Bystanders
<1> QED
  BY <1>1, <1>2, <1>5, TypesKept

-----------------------------------------------------------------------------
(* The reader, and how it cuts what it has read into lines.                *)

LEMMA EndedCounts ==
  ASSUME NEW s \in Seq(Texts)
  PROVE  /\ \A i \in Int : Ended(s, i) \in Nat
         /\ \A i, j \in Int : i <= j => Ended(s, i) <= Ended(s, j)
<1>1. \A i \in Int : IsFiniteSet(1 .. i - 1) /\ IsFiniteSet({j \in 1 .. i - 1 : s[j] = NL})
  <2> SUFFICES ASSUME NEW i \in Int PROVE IsFiniteSet(1 .. i - 1)
        /\ IsFiniteSet({j \in 1 .. i - 1 : s[j] = NL})
    OBVIOUS
  <2>1. IsFiniteSet(1 .. i - 1)
    BY FS_Interval
  <2>2. {j \in 1 .. i - 1 : s[j] = NL} \subseteq 1 .. i - 1
    OBVIOUS
  <2> QED
    BY <2>1, <2>2, FS_Subset
<1>2. \A i \in Int : Ended(s, i) \in Nat
  BY <1>1, FS_CardinalityType DEF Ended
<1>3. ASSUME NEW i \in Int, NEW j \in Int, i <= j
      PROVE  Ended(s, i) <= Ended(s, j)
  <2>1. {k \in 1 .. i - 1 : s[k] = NL} \subseteq {k \in 1 .. j - 1 : s[k] = NL}
    BY <1>3
  <2> QED
    BY <1>1, <2>1, FS_Subset DEF Ended
<1> QED
  BY <1>2, <1>3

(* The places of the texts of a chunk among its lines and what stays. *)
LEMMA CutTypes ==
  ASSUME TypeOK, NEW s \in Seq(Texts)
  PROVE  /\ Cut(s).lines \in Seq(Lines) /\ Cut(s).rest \in Lines
         /\ Len(Cut(s).lines) = Ended(s, Len(s) + 1)
         /\ Cut(s).rest = Part(s, Ended(s, Len(s) + 1))
         /\ \A k \in DOMAIN Cut(s).lines : Cut(s).lines[k] = Part(s, k - 1)
<1> DEFINE n == Ended(s, Len(s) + 1)
<1>1. n \in Nat
  BY EndedCounts
<1>2. \A k \in Nat : Part(s, k) \in Lines
  <2> SUFFICES ASSUME NEW k \in Nat PROVE Part(s, k) \subseteq Writers
    BY DEF Lines
  <2>1. rest \subseteq Writers
    BY DEF TypeOK, Lines
  <2>2. \A j \in DOMAIN s : s[j] # NL => s[j] \in Writers
    BY DEF Texts
  <2> QED
    BY <2>1, <2>2 DEF Part
<1>3. Cut(s) = [lines |-> [k \in 1 .. n |-> Part(s, k - 1)], rest |-> Part(s, n)]
  BY DEF Cut
<1> HIDE DEF n
<1>4. Cut(s).rest = Part(s, n) /\ Cut(s).lines = [k \in 1 .. n |-> Part(s, k - 1)]
  BY <1>3
<1>5. \A k \in 1 .. n : k - 1 \in Nat
  BY <1>1
<1>6. Cut(s).lines \in Seq(Lines) /\ Len(Cut(s).lines) = n /\ DOMAIN Cut(s).lines = 1 .. n
  BY <1>1, <1>2, <1>4, <1>5
<1> QED
  BY <1>1, <1>2, <1>4, <1>6 DEF n

LEMMA SplitMoves ==
  ASSUME TypeOK, Split
  PROVE  /\ out' \in [Threads -> Seq(Lines)] /\ out'["reader"] = Cut(chunk).lines
         /\ \A e \in Threads \ {"reader"} : out'[e] = out[e]
         /\ rest' = Cut(chunk).rest /\ rest' \in Lines /\ chunk' = <<>> /\ rd' = "emit"
<1>1. chunk \in Seq(Texts) /\ out \in [Threads -> Seq(Lines)] /\ "reader" \in Threads
  BY DEF TypeOK, Texts, Threads
<1>2. Cut(chunk).lines \in Seq(Lines) /\ Cut(chunk).rest \in Lines
  BY <1>1, CutTypes
<1>3. /\ out' = [out EXCEPT !["reader"] = Cut(chunk).lines]
      /\ rest' = Cut(chunk).rest /\ chunk' = <<>> /\ rd' = "emit"
  BY DEF Split
<1> QED
  BY <1>1, <1>2, <1>3

(* The reader leaves the rest of the client and the writers alone. *)
Reading ==
    /\ Sames /\ UNCHANGED <<at, ref, ident, buffers, taken>>
    /\ rd \notin {"off", "over"} /\ rd' # "off"

LEMMA ReaderMoves ==
  ASSUME TypeOK, ReadStep
  PROVE  /\ Reading
         /\ \/ /\ ReadChunk /\ rd = "read" /\ rd' = "tee" /\ chunk' = pipe /\ pipe' = <<>>
               /\ UNCHANGED <<rest, out, shown, forwarded>>
            \/ /\ rd = "tee" /\ bypass /\ rd' = "write"
               /\ UNCHANGED <<pipe, chunk, rest, out, shown, forwarded>>
            \/ rd = "tee" /\ ~bypass /\ Split /\ UNCHANGED <<pipe, shown, forwarded>>
            \/ /\ rd = "write" /\ bypass /\ Split
               /\ shown' = shown \cup (ToSet(chunk) \cap Writers)
               /\ UNCHANGED <<pipe, forwarded>>
            \/ /\ rd = "write" /\ ~bypass /\ rd' = "over" /\ chunk' = <<>> /\ rest' = {}
               /\ UNCHANGED <<pipe, out, shown, forwarded>>
            \/ /\ rd = "emit" /\ EmitNext("reader") /\ rd' = "emit"
               /\ UNCHANGED <<pipe, chunk, rest, shown>>
            \/ /\ rd = "emit" /\ out["reader"] = <<>> /\ rd' = "read"
               /\ UNCHANGED <<pipe, chunk, rest, out, shown, forwarded>>
            \/ /\ ReadEnd /\ rd = "read" /\ pipe = <<>> /\ rd' = "over" /\ rest' = {}
               /\ Forward(rest) /\ UNCHANGED <<pipe, chunk, out, shown>>
<1> USE DEF Reading, writerVars
<1>1. CASE ReadChunk
  <2>1. Sames
    BY <1>1, SetupSame DEF ReadChunk
  <2> QED
    BY <1>1, <2>1 DEF ReadChunk
<1>2. CASE TeeCheck
  <2>1. Sames
    BY <1>2, SetupSame DEF TeeCheck
  <2> QED
    BY <1>2, <2>1, SplitMoves DEF TeeCheck
<1>3. CASE TeeWrite
  <2>1. Sames
    BY <1>3, SetupSame DEF TeeWrite
  <2> QED
    BY <1>3, <2>1, SplitMoves DEF TeeWrite
<1>4. CASE EmitChunk
  <2>1. Sames
    BY <1>4, SetupSame DEF EmitChunk
  <2> QED
    BY <1>4, <2>1 DEF EmitChunk
<1>5. CASE ReadEnd
  <2>1. Sames
    BY <1>5, SetupSame DEF ReadEnd
  <2> QED
    BY <1>5, <2>1 DEF ReadEnd
<1> QED
  BY <1>1, <1>2, <1>3, <1>4, <1>5 DEF ReadStep

(* A chunk that cannot be decoded ends the loop. *)
LEMMA DecodeFailsMoves ==
  ASSUME TypeOK, DecodeFails
  PROVE  /\ rd = "read" /\ rd' = "over" /\ pipe' = <<>> /\ rest' = {}
         /\ gaps' = gaps \cup {"undecoded"}
         /\ UNCHANGED <<inst, rs, held, cap, sysout, terminal, own, other, retargeted, remote,
                        closed, fd, saved, process, bypass, chunk, at, ref, ident, buffers, taken,
                        out, shown, forwarded>>
BY DEF DecodeFails, callVars, loggerVars, handlerVars, fdVars, writerVars

LEMMA DecodeFailsKeepsTypes ==
  ASSUME TypeOK, DecodeFails
  PROVE  TypeOK'
<1>0. InstallTypes /\ FlowTypes
  BY TypesApart
<1>1. InstallTypes'
  BY <1>0, DecodeFailsMoves DEF InstallTypes
<1>2. <<>> \in Seq(Texts) /\ {} \in Lines
  BY DEF Lines
<1>3. FlowTypes'
  BY <1>0, <1>2, DecodeFailsMoves DEF FlowTypes
<1> QED
  BY <1>1, <1>3, TypesKept

LEMMA ReaderKeepsTypes ==
  ASSUME TypeOK, ReadStep
  PROVE  TypeOK'
<1>0. InstallTypes /\ FlowTypes
  BY TypesApart
<1>1. Reading
  BY ReaderMoves
<1>2. InstallTypes'
  BY <1>0, <1>1 DEF InstallTypes, Reading, Sames
<1>3. /\ pipe \in Seq(Texts) /\ chunk \in Seq(Texts) /\ <<>> \in Seq(Texts)
      /\ out \in [Threads -> Seq(Lines)] /\ rest \in Lines /\ {} \in Lines
      /\ shown \subseteq Writers /\ forwarded \in [Lines -> 0 .. 2]
  BY <1>0 DEF FlowTypes, Lines
<1>4. \A line \in Lines : Forward(line) => forwarded' \in [Lines -> 0 .. 2]
  BY ForwardMoves
<1>5. EmitNext("reader") => out' \in [Threads -> Seq(Lines)] /\ forwarded' \in [Lines -> 0 .. 2]
  BY <1>4, EmitMoves DEF Threads
<1>6. Split => out' \in [Threads -> Seq(Lines)] /\ rest' \in Lines /\ chunk' = <<>> /\ rd' = "emit"
  BY SplitMoves
<1>7. /\ pipe' \in Seq(Texts) /\ chunk' \in Seq(Texts)
      /\ rest' \in Lines /\ out' \in [Threads -> Seq(Lines)]
      /\ shown' \subseteq Writers /\ forwarded' \in [Lines -> 0 .. 2]
  BY <1>3, <1>4, <1>5, <1>6, ReaderMoves
<1>8. rd' \in {"off", "read", "tee", "write", "emit", "over"}
  BY <1>6, ReaderMoves
<1>9. FlowTypes'
  BY <1>0, <1>1, <1>7, <1>8 DEF FlowTypes, Reading
<1> QED
  BY <1>2, <1>9, TypesKept

LEMMA StepKeepsTypes ==
  ASSUME TypeOK, [Next]_vars
  PROVE  TypeOK'
<1>1. CASE UNCHANGED vars
  <2>1. Sames /\ UNCHANGED flowVars
    BY <1>1, SetupSame DEF vars
  <2>2. UNCHANGED <<pipe, rd, chunk, rest, buffers, out, at, ref, ident, taken, shown, forwarded>>
    BY <2>1 DEF flowVars, readerVars, writerVars
  <2>3. InstallTypes'
    BY <2>1, TypesApart DEF Sames, InstallTypes
  <2> QED
    BY <2>2, <2>3, FlowTypesSame, TypesApart, TypesKept
<1>2. CASE Next
  BY <1>2, WriterKeepsTypes, ReaderKeepsTypes, DecodeFailsKeepsTypes, InstallKeepsTypes,
     RestoreKeepsTypes DEF Next
<1> QED
  BY <1>1, <1>2

(* Everything the client keeps has its type in every reachable state,      *)
(* whatever the writers, the reader, the constructor, a permanent failure  *)
(* and close() do at once.                                                 *)
THEOREM TypeCorrect == Spec => []TypeOK
<1>1. Init => TypeOK
  BY TypesInitially
<1>2. TypeOK /\ [Next]_vars => TypeOK'
  BY StepKeepsTypes
<1> QED
  BY <1>1, <1>2, PTL DEF Spec

-----------------------------------------------------------------------------
(* The constructor and the calls of _restore_system_log_capture.           *)

SetupInv == InstallInv /\ RestoreInv /\ BackInv

(* What a call has done stays done, and so does a capture that is undone. *)
LEMMA CallKept ==
  ASSUME NEW q \in Restorers, CallInv(q), rs'[q] = rs[q], held'[q] = held[q],
         rd # "off" => rd' # "off", inst = "over" => inst' = "over", Undone => Undone',
         ~process => ~process', fd = "terminal" => fd' = "terminal"
  PROVE  CallInv(q)'
BY DEF CallInv

LEMMA PastKept ==
  ASSUME NEW q \in Restorers, PastInv(q), rs'[q] = rs[q], held'[q] = held[q],
         sysout' \in {sysout, "original"}, own' \in {own, "original"}, cap' \in {cap, "none"}
  PROVE  PastInv(q)'
BY DEF PastInv

LEMMA BackKept ==
  ASSUME BackInv, "early" \notin gaps' => "early" \notin gaps,
         UNCHANGED <<inst, rs, held, cap, sysout, terminal, own, retargeted, process, bypass>>
  PROVE  BackInv'
BY DEF BackInv, PastInv

LEMMA WriterLooks ==
  ASSUME TypeOK, NEW w \in Writers, PrintStep(w) \/ HandlerLogs(w) \/ ChildStep(w)
  PROVE  /\ ref'[w] \in {ref[w], "none", sysout, fd}
         /\ fd = "terminal" /\ ~process /\ ref[w] # "pipe" =>
              pipe' = pipe /\ taken' \subseteq taken \cup {w}
<1>1. CASE PrintLookup(w) \/ ChildSpawn(w) \/ ChildExits(w) \/ PrintOpen(w)
  BY <1>1, PrintLookupMoves, ChildSpawnMoves, ChildExitsMoves, PrintOpenMoves
<1>2. CASE PrintText(w)
  BY <1>2, PrintTextMoves DEF Shut
<1>3. CASE PrintEnd(w)
  BY <1>3, PrintEndMoves DEF Shut
<1>4. CASE ChildWrites(w)
  BY <1>4, ChildWritesMoves DEF Shut
<1>5. CASE HandlerLogs(w)
  BY <1>5, HandlerLogsMoves DEF Shut
<1>6. CASE KeepText(w) \/ CutLine(w) \/ EmitLine(w)
  BY <1>6, KeepTextMoves, CutLineMoves, EmitLineMoves
<1> QED
  BY <1>1, <1>2, <1>3, <1>4, <1>5, <1>6 DEF PrintStep, ChildStep

LEMMA SetupAfterWriter ==
  ASSUME TypeOK, SetupInv, NEW w \in Writers, PrintStep(w) \/ HandlerLogs(w) \/ ChildStep(w)
  PROVE  SetupInv'
<1>1. Sames /\ rd' = rd
  BY WriterKeepsTypes DEF Bystanders
<1>2. /\ ref'[w] \in {ref[w], "none", sysout, fd}
      /\ \A v \in Writers \ {w} : ref'[v] = ref[v]
      /\ fd = "terminal" /\ ~process /\ ref[w] # "pipe" => pipe' = pipe
  BY WriterLooks, WriterKeepsTypes DEF Bystanders
<1>3. sysout # "pipe" /\ fd # "captured"
  BY DEF TypeOK, Streams
<1>4. rd = "off" /\ inst # "open" =>
          /\ fd = "terminal" /\ saved = "none" /\ pipe' = <<>>
          /\ \A v \in Writers : ref'[v] # "pipe"
  BY <1>2, <1>3 DEF SetupInv, InstallInv
<1>5. InstallInv'
  BY <1>1, <1>4 DEF SetupInv, InstallInv, Sames
<1>6. CapturedBy(sysout)' /\ \A v \in Writers : CapturedBy(ref[v])'
  BY <1>1, <1>2, <1>3 DEF SetupInv, RestoreInv, Sames, CapturedBy, Undone, ReaderLeft
<1>7. Undone' = Undone /\ ReaderLeft' = ReaderLeft
  BY <1>1 DEF Sames, Undone, ReaderLeft
<1>8. \A r \in Restorers : CallInv(r)'
  BY <1>1, <1>7, CallKept DEF SetupInv, RestoreInv, Sames
<1>9. RestoreInv'
  BY <1>1, <1>6, <1>7, <1>8 DEF SetupInv, RestoreInv, Sames
<1>10. BackInv'
  BY <1>1, BackKept DEF SetupInv, Sames
<1> QED
  BY <1>5, <1>9, <1>10 DEF SetupInv

LEMMA SetupAfterReader ==
  ASSUME TypeOK, SetupInv, ReadStep
  PROVE  SetupInv'
<1>1. Sames /\ ref' = ref /\ rd \notin {"off", "over"} /\ rd' # "off"
  BY ReaderMoves DEF Reading
<1>2. InstallInv'
  BY <1>1 DEF SetupInv, InstallInv, Sames
<1>3. (Undone => Undone') /\ (ReaderLeft => ReaderLeft')
  BY <1>1 DEF Sames, Undone, ReaderLeft
<1>4. CapturedBy(sysout)' /\ \A v \in Writers : CapturedBy(ref[v])'
  BY <1>1, <1>3 DEF SetupInv, RestoreInv, Sames, CapturedBy
<1>5. \A r \in Restorers : CallInv(r)'
  BY <1>1, <1>3, CallKept DEF SetupInv, RestoreInv, Sames
<1>6. RestoreInv'
  BY <1>1, <1>3, <1>4, <1>5 DEF SetupInv, RestoreInv, Sames
<1>7. BackInv'
  BY <1>1, BackKept DEF SetupInv, Sames
<1> QED
  BY <1>2, <1>6, <1>7 DEF SetupInv

LEMMA SetupAfterDecode ==
  ASSUME TypeOK, SetupInv, DecodeFails
  PROVE  SetupInv'
<1>1. /\ UNCHANGED <<inst, rs, held, cap, sysout, terminal, own, retargeted, fd, saved, process,
                     bypass, ref>>
      /\ rd = "read" /\ rd' = "over" /\ ("early" \in gaps' <=> "early" \in gaps)
  BY DecodeFailsMoves
<1>2. InstallInv'
  BY <1>1 DEF SetupInv, InstallInv
<1>3. ReaderLeft' /\ (Undone => Undone')
  BY <1>1 DEF Undone, ReaderLeft
<1>4. CapturedBy(sysout)' /\ \A v \in Writers : CapturedBy(ref[v])'
  BY <1>1, <1>3 DEF SetupInv, RestoreInv, CapturedBy
<1>5. \A r \in Restorers : CallInv(r)'
  BY <1>1, <1>3, CallKept DEF SetupInv, RestoreInv
<1>6. RestoreInv'
  BY <1>1, <1>3, <1>4, <1>5 DEF SetupInv, RestoreInv
<1>7. BackInv'
  BY <1>1, BackKept DEF SetupInv
<1> QED
  BY <1>2, <1>6, <1>7 DEF SetupInv

(* Where InstallUndo goes, and the two other callers begin. *)
LEMMA Begins ==
  ASSUME TypeOK, NEW r \in {"install", "disable", "close"}, rs' = [rs EXCEPT ![r] = "snap"]
  PROVE  r \in Restorers /\ rs'[r] = "snap" /\ \A q \in Restorers \ {r} : rs'[q] = rs[q]
<1>1. r \in Restorers /\ "snap" \in RestorePcs
  BY DEF Restorers, RestorePcs
<1> QED
  BY <1>1, RestoreGoes

(* A call that begins, or goes to a place where it still holds nothing. *)
LEMMA CallBegins ==
  ASSUME TypeOK, NEW q \in Restorers, rs'[q] = "snap", held'[q] = held[q],
         CallInv(q), rs[q] \in {"idle", "snap", "end", "raised"}
  PROVE  CallInv(q)' /\ PastInv(q)'
BY DEF CallInv, PastInv, Past

LEMMA TheRestorers == Restorers = {"install", "disable", "close"}
BY DEF Restorers

LEMMA InstallInvAfterRedirect ==
  ASSUME TypeOK, SetupInv, Redirect
  PROVE  SetupInv'
<1>1. /\ inst = "redirect" /\ inst' \in {"open", "undo", "over"} /\ held' = held
      /\ UNCHANGED <<cap, sysout, terminal, own, other, retargeted, remote, closed, process,
                     bypass, gaps, pipe, rd, ref>>
  BY DEF Redirect, GoInstall, InstallUndo, flowVars, loggerVars, handlerVars, readerVars,
         writerVars
<1>2. \/ inst' = "open" /\ fd' = "pipe" /\ saved' = "open" /\ rs' = rs
      \/ inst' = "undo" /\ rs' = [rs EXCEPT !["install"] = "snap"] /\ UNCHANGED <<fd, saved>>
      \/ inst' = "over" /\ UNCHANGED <<rs, fd, saved>>
  BY DEF Redirect, GoInstall, InstallUndo
<1>3. /\ cap = "none" /\ rd = "off" /\ ~process /\ ~bypass /\ fd = "terminal" /\ saved = "none"
      /\ rs["install"] = "idle" /\ rs["close"] = "idle" /\ rs["disable"] \in {"idle", "snap", "end"}
      /\ pipe = <<>> /\ \A w \in Writers : ref[w] # "pipe"
  BY <1>1 DEF SetupInv, InstallInv
<1>4. /\ rs'["close"] = "idle" /\ rs'["disable"] = rs["disable"]
      /\ rs'["install"] \in {"idle", "snap"} /\ (rs'["install"] = "snap" <=> inst' = "undo")
  BY <1>1, <1>2, <1>3, Begins, TheRestorers
<1>5. InstallInv'
  BY <1>1, <1>2, <1>3, <1>4 DEF InstallInv
<1>6. CapturedBy(sysout)' /\ \A w \in Writers : CapturedBy(ref[w])'
  BY <1>1 DEF SetupInv, RestoreInv, CapturedBy
<1>7. \A r \in Restorers : held'[r] = "none" /\ rs'[r] \in {"idle", "snap", "end"}
  BY <1>1, <1>3, <1>4, TheRestorers DEF SetupInv, RestoreInv, CallInv
<1>8. \A r \in Restorers : CallInv(r)' /\ PastInv(r)'
  BY <1>7 DEF CallInv, PastInv, Past
<1>9. RestoreInv'
  BY <1>1, <1>2, <1>3, <1>4, <1>6, <1>8 DEF SetupInv, RestoreInv, Undone, ReaderLeft
<1>10. BackInv'
  BY <1>1, <1>3, <1>4, <1>8 DEF SetupInv, BackInv
<1> QED
  BY <1>5, <1>9, <1>10 DEF SetupInv

LEMMA InstallInvAfterOpen ==
  ASSUME TypeOK, SetupInv, Open \/ OpenFails
  PROVE  SetupInv'
<1>1. /\ inst = "open" /\ held' = held
      /\ UNCHANGED <<sysout, terminal, own, other, retargeted, remote, closed, ref>>
  BY DEF Open, OpenFails, GoInstall, InstallUndo, flowVars, loggerVars, handlerVars, readerVars,
         writerVars
<1>2. \/ /\ inst' = "stderr" /\ process' = TRUE /\ bypass' = TRUE /\ rd' = "read" /\ cap' = "fd"
         /\ UNCHANGED <<rs, fd, saved, gaps>>
      \/ /\ inst' = "undo" /\ rs' = [rs EXCEPT !["install"] = "snap"] /\ fd' = "terminal"
         /\ saved' = "none" /\ rd' = "over" /\ gaps' = gaps \cup {"undone"}
         /\ UNCHANGED <<cap, process, bypass>>
  BY DEF Open, OpenFails, GoInstall, InstallUndo, loggerVars
<1>3. /\ cap = "none" /\ rd = "off" /\ ~process /\ ~bypass /\ saved = "open"
      /\ rs["install"] = "idle" /\ rs["close"] = "idle" /\ rs["disable"] \in {"idle", "snap", "end"}
  BY <1>1 DEF SetupInv, InstallInv
<1>4. /\ rs'["close"] = "idle" /\ rs'["disable"] = rs["disable"]
      /\ rs'["install"] \in {"idle", "snap"} /\ (rs'["install"] = "snap" <=> inst' = "undo")
  BY <1>1, <1>2, <1>3, Begins, TheRestorers
<1>5. InstallInv'
  BY <1>1, <1>2, <1>3, <1>4 DEF InstallInv
<1>6. CapturedBy(sysout)' /\ \A w \in Writers : CapturedBy(ref[w])'
  BY <1>1 DEF SetupInv, RestoreInv, CapturedBy
<1>7. \A r \in Restorers : held'[r] = "none" /\ rs'[r] \in {"idle", "snap", "end"}
  BY <1>1, <1>3, <1>4, TheRestorers DEF SetupInv, RestoreInv, CallInv
<1>8. \A r \in Restorers : CallInv(r)' /\ PastInv(r)'
  BY <1>7 DEF CallInv, PastInv, Past
<1>9. RestoreInv'
  <2>1. (cap' = "fd" /\ saved' = "open") \/ Undone'
    BY <1>2, <1>3 DEF Undone, ReaderLeft
  <2>2. (~bypass' => ReaderLeft') /\ cap' # "stream" /\ rs'["close"] # "end"
    BY <1>2, <1>3, <1>4 DEF ReaderLeft
  <2> QED
    BY <1>6, <1>8, <2>1, <2>2 DEF RestoreInv
<1>10. BackInv'
  BY <1>1, <1>2, <1>3, <1>4, <1>8 DEF SetupInv, BackInv
<1> QED
  BY <1>5, <1>9, <1>10 DEF SetupInv

(* The later places of the constructor. *)
LEMMA InstallInvAfterStderr ==
  ASSUME TypeOK, SetupInv, Stderr \/ SwapSysout \/ Retarget
  PROVE  SetupInv'
<1>1. /\ inst \in {"stderr", "swap", "retarget"} /\ held' = held
      /\ UNCHANGED <<cap, remote, closed, process, bypass, saved, fd, gaps, ref, rd, pipe>>
  BY DEF Stderr, SwapSysout, Retarget, GoInstall, InstallUndo, flowVars, fdVars, readerVars,
         writerVars
<1>2. \/ inst' \in {"swap", "retarget", "over"} /\ rs' = rs /\ cap = "fd"
      \/ inst' = "undo" /\ rs' = [rs EXCEPT !["install"] = "snap"]
  BY DEF Stderr, SwapSysout, Retarget, GoInstall, InstallUndo
<1>3. /\ rd # "off" /\ rs["install"] = "idle" /\ rs["close"] = "idle"
  BY <1>1 DEF SetupInv, InstallInv
<1>4. /\ rs'["close"] = "idle" /\ rs'["disable"] = rs["disable"]
      /\ rs'["install"] \in {"idle", "snap"} /\ (rs'["install"] = "snap" <=> inst' = "undo")
  BY <1>1, <1>2, <1>3, Begins, TheRestorers
<1>5. InstallInv'
  BY <1>1, <1>2, <1>3, <1>4 DEF InstallInv
<1>6. CapturedBy(sysout)' /\ \A w \in Writers : CapturedBy(ref[w])'
  <2>1. sysout' \in {sysout, "process", "none"}
    BY DEF Stderr, SwapSysout, Retarget
  <2> QED
    BY <1>1, <2>1 DEF SetupInv, RestoreInv, CapturedBy
<1>7. CallInv("install")' /\ PastInv("install")'
  BY <1>1, <1>3, <1>4, TheRestorers DEF SetupInv, RestoreInv, CallInv, PastInv, Past
<1>8. CallInv("disable")' /\ CallInv("close")'
  BY <1>1, <1>2, <1>3, <1>4, TheRestorers, CallKept DEF SetupInv, RestoreInv, Undone, ReaderLeft
<1>9. RestoreInv'
  BY <1>1, <1>2, <1>3, <1>4, <1>6, <1>7, <1>8, TheRestorers
     DEF SetupInv, RestoreInv, Undone, ReaderLeft
<1>10. BackInv'
  <2> SUFFICES ASSUME "early" \notin gaps PROVE BackInv'
    BY <1>1 DEF BackInv
  <2>1. /\ rs["disable"] = "idle" /\ cap = "fd" /\ process /\ bypass /\ own = "original"
        /\ inst \in {"swap", "retarget"} => terminal = "bypass"
        /\ inst \in {"stderr", "swap"} => sysout = "original"
        /\ sysout \in {"original", "process", "captured"} /\ sysout # "captured"
    BY <1>1 DEF SetupInv, BackInv
  <2>2. \A r \in Restorers : rs'[r] \in {"idle", "snap"} /\ held'[r] = "none"
    BY <1>1, <1>3, <1>4, <2>1, TheRestorers DEF SetupInv, RestoreInv, CallInv
  <2>3. \A r \in Restorers : PastInv(r)'
    BY <2>2 DEF PastInv, Past
  <2>4. CASE Stderr
    BY <1>1, <1>3, <1>4, <2>1, <2>3, <2>4, TheRestorers
       DEF BackInv, Stderr, GoInstall, InstallUndo, handlerVars
  <2>5. CASE SwapSysout
    BY <1>1, <1>3, <1>4, <2>1, <2>3, <2>5, TheRestorers
       DEF BackInv, SwapSysout, GoInstall, InstallUndo, handlerVars
  <2>6. CASE Retarget
    BY <1>1, <1>3, <1>4, <2>1, <2>3, <2>6, TheRestorers
       DEF BackInv, Retarget, GoInstall, InstallUndo, handlerVars
  <2> QED
    BY <2>4, <2>5, <2>6
<1> QED
  BY <1>5, <1>9, <1>10 DEF SetupInv

LEMMA InstallInvAfterFallback ==
  ASSUME TypeOK, SetupInv, Fallback
  PROVE  SetupInv'
<1>1. /\ inst = "undo" /\ inst' = "over" /\ rs' = rs /\ held' = held
      /\ UNCHANGED <<terminal, own, other, retargeted, remote, closed, process, bypass, saved,
                     fd, gaps, ref, rd, pipe>>
      /\ \/ rs["install"] = "end" /\ cap' = "stream" /\ sysout' = "captured"
         \/ rs["install"] = "raised" /\ UNCHANGED <<cap, sysout>>
  BY DEF Fallback, GoInstall, handlerVars, flowVars, fdVars, readerVars, writerVars
<1>2. rs["close"] = "idle" /\ (rs["install"] = "end" => cap = "none")
  BY <1>1 DEF SetupInv, InstallInv
<1>3. InstallInv'
  BY <1>1, <1>2 DEF SetupInv, InstallInv
<1>4. Undone' = Undone /\ ReaderLeft' = ReaderLeft
  BY <1>1 DEF Undone, ReaderLeft
<1>5. (cap' = "stream" => Undone) /\ cap # "stream"
  BY <1>1, <1>2 DEF SetupInv, RestoreInv
<1>6. \A r \in Restorers : CallInv(r)'
  BY <1>1, <1>4, CallKept DEF SetupInv, RestoreInv
<1>7. CapturedBy(sysout)' /\ \A w \in Writers : CapturedBy(ref[w])'
  BY <1>1, <1>4, <1>5 DEF SetupInv, RestoreInv, CapturedBy
<1>8. RestoreInv'
  BY <1>1, <1>2, <1>4, <1>5, <1>6, <1>7 DEF SetupInv, RestoreInv
<1>9. BackInv'
  <2> SUFFICES ASSUME "early" \notin gaps PROVE BackInv'
    BY <1>1 DEF BackInv
  <2>1. /\ rs["disable"] = "idle" /\ own = "original"
        /\ sysout \in {"original", "process", "captured"}
        /\ sysout = "process" => cap = "fd" /\ process
        /\ sysout = "captured" => cap = "stream"
        /\ PastInv("install")
    BY <1>1, TheRestorers DEF SetupInv, BackInv
  <2>2. held["disable"] = "none" /\ held["close"] = "none" /\ held["install"] = "none"
    BY <1>1, <1>2, <2>1, TheRestorers DEF SetupInv, RestoreInv, CallInv
  <2>3. \A r \in Restorers : PastInv(r)'
    BY <1>1, <1>2, <2>1, <2>2, TheRestorers DEF PastInv, Past
  <2> QED
    BY <1>1, <1>2, <2>1, <2>3 DEF BackInv
<1> QED
  BY <1>3, <1>8, <1>9 DEF SetupInv

LEMMA InstallInvAfterBegin ==
  ASSUME TypeOK, SetupInv, DisableBegin \/ CloseBegin \/ CloseMark
  PROVE  SetupInv'
<1>1. UNCHANGED <<inst, held, cap, sysout, terminal, own, other, retargeted, process, bypass,
                  saved, fd, ref, rd, pipe>>
  BY DEF DisableBegin, CloseBegin, CloseMark, handlerVars, flowVars, fdVars, readerVars,
         writerVars, callVars, loggerVars
<1>2. \/ /\ rs["disable"] = "idle" /\ rs' = [rs EXCEPT !["disable"] = "snap"]
         /\ gaps' = IF inst = "over" THEN gaps ELSE gaps \cup {"early"}
      \/ /\ inst = "over" /\ rs["close"] \in {"idle", "raised"}
         /\ rs' = [rs EXCEPT !["close"] = "snap"] /\ gaps' = gaps
      \/ rs' = rs /\ gaps' = gaps
  BY DEF DisableBegin, CloseBegin, CloseMark, callVars
<1>3. /\ \A r \in Restorers : /\ rs'[r] = rs[r] \/ (rs'[r] = "snap" /\ rs[r] \in {"idle", "raised"})
                              /\ rs'[r] \in {"end", "idle", "bypass", "undo"} => rs[r] = rs'[r]
      /\ rs'["install"] = rs["install"]
      /\ rs'["close"] = rs["close"] \/ (rs'["close"] = "snap" /\ inst = "over")
      /\ rs'["disable"] = rs["disable"] \/ rs'["disable"] = "snap"
      /\ rs'["disable"] = rs["disable"] \/ inst = "over" \/ "early" \in gaps'
  BY <1>2, Begins, TheRestorers
<1>4. Undone' = Undone /\ ReaderLeft' = ReaderLeft
  BY <1>1, <1>2 DEF Undone, ReaderLeft
<1>5. InstallInv'
  BY <1>1, <1>3, TheRestorers DEF SetupInv, InstallInv
<1>6. CapturedBy(sysout)' /\ \A w \in Writers : CapturedBy(ref[w])'
  BY <1>1, <1>4 DEF SetupInv, RestoreInv, CapturedBy
<1>7. \A r \in Restorers : CallInv(r)'
  BY <1>1, <1>3, <1>4, CallKept, CallBegins DEF SetupInv, RestoreInv
<1>8. RestoreInv'
  BY <1>1, <1>3, <1>4, <1>6, <1>7, TheRestorers DEF SetupInv, RestoreInv
<1>9. BackInv'
  <2> SUFFICES ASSUME "early" \notin gaps' PROVE BackInv'
    BY DEF BackInv
  <2>1. "early" \notin gaps
    BY <1>2
  <2>2. \A r \in Restorers : PastInv(r)'
    BY <1>1, <1>3, <2>1, PastKept, CallBegins DEF SetupInv, RestoreInv, BackInv
  <2>3. rs'["close"] = "end" => rs["close"] = "end"
    BY <1>3
  <2>4. inst' # "over" => rs'["disable"] = "idle"
    BY <1>1, <1>3, <2>1 DEF SetupInv, BackInv
  <2> QED
    BY <1>1, <2>1, <2>2, <2>3, <2>4 DEF SetupInv, BackInv
<1> QED
  BY <1>5, <1>8, <1>9 DEF SetupInv

(* What all steps of a call have in common: they only undo. *)
Undoes(r) ==
    /\ Alone(r) /\ UNCHANGED <<rd, ref, pipe, remote, closed>>
    /\ rs[r] \notin {"idle", "end", "raised"} /\ rs'[r] # "idle"
    /\ cap' \in {cap, "none"} /\ fd' \in {fd, "terminal"}
    /\ sysout' \in {sysout, "original"} /\ own' \in {own, "original"}
    /\ (process' => process) /\ (bypass' => bypass)
    /\ (saved' = "open" => saved = "open") /\ (saved = "none" => saved' = "none")
    /\ gaps' \in {gaps, gaps \cup {"late"}}
    /\ rs[r] = "snap" => saved' = saved /\ (cap = "none" => rs'[r] = "end")
    /\ rs'[r] \in {"bypass", "end"} => cap' = "none" \/ (rs[r] = "bypass" /\ cap' = cap)

LEMMA UndoesKeeps ==
  ASSUME TypeOK, SetupInv, NEW r \in Restorers, Undoes(r), CallInv(r)',
         bypass' = bypass \/ ReaderLeft,
         inst # "open" => (cap' = cap /\ saved' = saved) \/ Undone',
         rs'[r] = "end" /\ inst = "over" => Undone'
  PROVE  InstallInv' /\ RestoreInv' /\ (Undone => Undone')
<1>1. (Undone => Undone') /\ (ReaderLeft => ReaderLeft')
  BY DEF Undoes, Undone, ReaderLeft
<1>2. inst' = inst /\ \A q \in Restorers \ {r} : rs'[q] = rs[q] /\ held'[q] = held[q]
  BY DEF Undoes, Alone
<1>3. inst \in {"redirect", "open"} =>
         r = "disable" /\ rs[r] = "snap" /\ rs'[r] = "end" /\ saved' = saved /\ cap = "none"
  BY TheRestorers DEF SetupInv, InstallInv, Undoes
<1>4. inst \in {"undo", "over"} \/ r = "disable"
  BY TheRestorers DEF SetupInv, InstallInv, Undoes
<1>5. /\ rs["install"] # "idle" => rs'["install"] # "idle"
      /\ rs["install"] = "idle" => rs'["install"] = "idle"
      /\ rs["close"] = "idle" => rs'["close"] = "idle"
  BY <1>2, TheRestorers DEF Undoes
<1>6. rs'["install"] \in {"bypass", "end"} /\ inst # "over" => cap' = "none"
  <2>1. CASE r = "install"
    BY <2>1 DEF SetupInv, InstallInv, Undoes
  <2>2. CASE r # "install"
    BY <1>2, <2>2, TheRestorers DEF SetupInv, InstallInv, Undoes
  <2> QED
    BY <2>1, <2>2
<1>7. rs["close"] = "idle" /\ rs["disable"] \in {"idle", "snap", "end"} =>
         rs'["close"] = "idle"
           /\ (inst \in {"redirect", "open"} => rs'["disable"] \in {"idle", "snap", "end"})
  BY <1>2, <1>3, <1>5, TheRestorers
<1>8. InstallInv'
  BY <1>2, <1>3, <1>5, <1>6, <1>7 DEF SetupInv, InstallInv, Undoes
<1>9. CapturedBy(sysout)' /\ \A w \in Writers : CapturedBy(ref[w])'
  BY <1>1, <1>2 DEF SetupInv, RestoreInv, CapturedBy, Undoes
<1>10. \A q \in Restorers : CallInv(q)'
  BY <1>1, <1>2, CallKept DEF SetupInv, RestoreInv, Undoes
<1>11. inst' # "open" => (cap' = "fd" /\ saved' = "open") \/ Undone'
  BY <1>1, <1>2 DEF SetupInv, RestoreInv
<1>12. rs'["close"] = "end" => Undone'
  BY <1>1, <1>2, <1>5, TheRestorers DEF SetupInv, RestoreInv, InstallInv
<1>13. (cap' = "stream" => inst' = "over") /\ (~bypass' => ReaderLeft')
  BY <1>1, <1>2 DEF SetupInv, RestoreInv, Undoes
<1> QED
  BY <1>1, <1>8, <1>9, <1>10, <1>11, <1>12, <1>13 DEF RestoreInv

LEMMA UndoesGivesBack ==
  ASSUME TypeOK, SetupInv, NEW r \in Restorers, Undoes(r), "early" \notin gaps,
         PastInv(r)',
         sysout' = "process" => cap' = cap /\ process' = process,
         sysout' = "captured" => cap' = cap,
         own' # "original" => UNCHANGED <<cap, terminal, retargeted>>,
         rs'[r] = "end" => sysout' = "original" /\ own' = "original"
  PROVE  BackInv'
<1>1. inst' = inst /\ \A q \in Restorers \ {r} : rs'[q] = rs[q] /\ held'[q] = held[q]
  BY DEF Undoes, Alone
<1>2. inst \in {"undo", "over"} /\ (inst # "over" => rs'["disable"] = "idle")
  BY <1>1, TheRestorers DEF SetupInv, BackInv, InstallInv, Undoes
<1>3. \A q \in Restorers : PastInv(q)'
  BY <1>1, PastKept DEF SetupInv, BackInv, Undoes
<1>4. rs'["close"] = "end" => sysout' = "original" /\ own' = "original"
  BY <1>1, TheRestorers DEF SetupInv, BackInv, Undoes
<1> QED
  BY <1>1, <1>2, <1>3, <1>4 DEF SetupInv, BackInv, Undoes

(* The facts about the call r that its steps start from. *)
LEMMA CallStarts ==
  ASSUME SetupInv, NEW r \in Restorers
  PROVE  /\ CallInv(r) /\ ("early" \notin gaps => PastInv(r))
         /\ held[r] # "none" => inst # "open"
         /\ cap = "fd" => rd # "off"
         /\ r = "close" /\ rs[r] # "idle" => inst = "over"
<1>1. CallInv(r) /\ ("early" \notin gaps => PastInv(r))
  BY DEF SetupInv, RestoreInv, BackInv
<1>2. held[r] # "none" => inst # "open"
  BY <1>1, TheRestorers DEF SetupInv, InstallInv, CallInv
<1> QED
  BY <1>1, <1>2 DEF SetupInv, InstallInv

(* Each step of a call keeps the invariants of the setup. *)
LEMMA SetupAfterRestore ==
  ASSUME TypeOK, SetupInv, NEW r \in Restorers, RestoreStep(r)
  PROVE  SetupInv' /\ (Undone => Undone')
<1>0. /\ CallInv(r) /\ ("early" \notin gaps => PastInv(r))
      /\ held[r] # "none" => inst # "open"
      /\ cap = "fd" => rd # "off"
      /\ r = "close" /\ rs[r] # "idle" => inst = "over"
  BY CallStarts
<1>b. /\ saved \in {"none", "open", "closed"} /\ process \in BOOLEAN /\ bypass \in BOOLEAN
      /\ held[r] \in {"none", "fd", "stream"} /\ cap \in {"none", "fd", "stream"}
  BY TypesApart DEF InstallTypes
<1>r. /\ inst # "open" => (cap = "fd" /\ saved = "open") \/ Undone
      /\ cap = "stream" => inst = "over"
  BY DEF SetupInv, RestoreInv
<1>k. /\ "early" \notin gaps => /\ sysout \in {"original", "process", "captured"}
                                /\ sysout = "process" => cap = "fd" /\ process
                                /\ sysout = "captured" => cap = "stream"
                                /\ own # "original" =>
                                     own = terminal /\ "own" \in retargeted /\ cap = "fd"
  BY DEF SetupInv, BackInv
<1>1. CASE Snap(r)
  <2>1. Undoes(r)
    BY <1>0, <1>b, <1>1, SnapMoves DEF Undoes, CallInv
  <2>2. (Undone => Undone') /\ (ReaderLeft => ReaderLeft')
    BY <2>1 DEF Undoes, Undone, ReaderLeft
  <2>3. CallInv(r)' /\ (bypass' = bypass \/ ReaderLeft)
        /\ (inst # "open" => (cap' = cap /\ saved' = saved) \/ Undone')
        /\ (rs'[r] = "end" /\ inst = "over" => Undone')
    BY <1>0, <1>b, <1>r, <1>1, <2>2, SnapMoves DEF CallInv, Alone, Undone, ReaderLeft
  <2>4. InstallInv' /\ RestoreInv'
    BY <2>1, <2>3, UndoesKeeps
  <2>5. ASSUME "early" \notin gaps
        PROVE  /\ PastInv(r)' /\ (sysout' = "process" => cap' = cap /\ process' = process)
               /\ sysout' = "captured" => cap' = cap
               /\ own' # "original" => UNCHANGED <<cap, terminal, retargeted>>
               /\ rs'[r] = "end" => sysout' = "original" /\ own' = "original"
    BY <1>0, <1>b, <1>k, <1>1, <2>5, SnapMoves DEF PastInv, Past, CallInv
  <2>6. BackInv'
    <3>1. CASE "early" \in gaps
      BY <2>1, <3>1 DEF BackInv, Undoes
    <3>2. CASE "early" \notin gaps
      BY <2>1, <2>5, <3>2, UndoesGivesBack
    <3> QED
      BY <3>1, <3>2
  <2> QED
    BY <2>2, <2>4, <2>6 DEF SetupInv
<1>2. CASE Drain(r)
  <2>1. Undoes(r)
    BY <1>0, <1>b, <1>2, DrainMoves DEF Undoes, CallInv
  <2>2. (Undone => Undone') /\ (ReaderLeft => ReaderLeft')
    BY <2>1 DEF Undoes, Undone, ReaderLeft
  <2>3. CallInv(r)' /\ (bypass' = bypass \/ ReaderLeft)
        /\ (inst # "open" => (cap' = cap /\ saved' = saved) \/ Undone')
        /\ (rs'[r] = "end" /\ inst = "over" => Undone')
    BY <1>0, <1>b, <1>r, <1>2, <2>2, DrainMoves DEF CallInv, Alone, Undone, ReaderLeft
  <2>4. InstallInv' /\ RestoreInv'
    BY <2>1, <2>3, UndoesKeeps
  <2>5. ASSUME "early" \notin gaps
        PROVE  /\ PastInv(r)' /\ (sysout' = "process" => cap' = cap /\ process' = process)
               /\ sysout' = "captured" => cap' = cap
               /\ own' # "original" => UNCHANGED <<cap, terminal, retargeted>>
               /\ rs'[r] = "end" => sysout' = "original" /\ own' = "original"
    BY <1>0, <1>b, <1>k, <1>2, <2>5, DrainMoves DEF PastInv, Past, CallInv
  <2>6. BackInv'
    <3>1. CASE "early" \in gaps
      BY <2>1, <3>1 DEF BackInv, Undoes
    <3>2. CASE "early" \notin gaps
      BY <2>1, <2>5, <3>2, UndoesGivesBack
    <3> QED
      BY <3>1, <3>2
  <2> QED
    BY <2>2, <2>4, <2>6 DEF SetupInv
<1>3. CASE DrainEmit(r)
  <2>1. Undoes(r)
    BY <1>0, <1>b, <1>3, DrainEmitMoves DEF Undoes, CallInv
  <2>2. (Undone => Undone') /\ (ReaderLeft => ReaderLeft')
    BY <2>1 DEF Undoes, Undone, ReaderLeft
  <2>3. CallInv(r)' /\ (bypass' = bypass \/ ReaderLeft)
        /\ (inst # "open" => (cap' = cap /\ saved' = saved) \/ Undone')
        /\ (rs'[r] = "end" /\ inst = "over" => Undone')
    BY <1>0, <1>b, <1>r, <1>3, <2>2, DrainEmitMoves DEF CallInv, Alone, Undone, ReaderLeft
  <2>4. InstallInv' /\ RestoreInv'
    BY <2>1, <2>3, UndoesKeeps
  <2>5. ASSUME "early" \notin gaps
        PROVE  /\ PastInv(r)' /\ (sysout' = "process" => cap' = cap /\ process' = process)
               /\ sysout' = "captured" => cap' = cap
               /\ own' # "original" => UNCHANGED <<cap, terminal, retargeted>>
               /\ rs'[r] = "end" => sysout' = "original" /\ own' = "original"
    BY <1>0, <1>b, <1>k, <1>3, <2>5, DrainEmitMoves DEF PastInv, Past, CallInv
  <2>6. BackInv'
    <3>1. CASE "early" \in gaps
      BY <2>1, <3>1 DEF BackInv, Undoes
    <3>2. CASE "early" \notin gaps
      BY <2>1, <2>5, <3>2, UndoesGivesBack
    <3> QED
      BY <3>1, <3>2
  <2> QED
    BY <2>2, <2>4, <2>6 DEF SetupInv
<1>4. CASE RestoreHandlers(r)
  <2>1. Undoes(r)
    BY <1>0, <1>b, <1>4, RestoreHandlersMoves DEF Undoes, CallInv
  <2>2. (Undone => Undone') /\ (ReaderLeft => ReaderLeft')
    BY <2>1 DEF Undoes, Undone, ReaderLeft
  <2>3. CallInv(r)' /\ (bypass' = bypass \/ ReaderLeft)
        /\ (inst # "open" => (cap' = cap /\ saved' = saved) \/ Undone')
        /\ (rs'[r] = "end" /\ inst = "over" => Undone')
    BY <1>0, <1>b, <1>r, <1>4, <2>2, RestoreHandlersMoves DEF CallInv, Alone, Undone, ReaderLeft
  <2>4. InstallInv' /\ RestoreInv'
    BY <2>1, <2>3, UndoesKeeps
  <2>5. ASSUME "early" \notin gaps
        PROVE  /\ PastInv(r)' /\ (sysout' = "process" => cap' = cap /\ process' = process)
               /\ sysout' = "captured" => cap' = cap
               /\ own' # "original" => UNCHANGED <<cap, terminal, retargeted>>
               /\ rs'[r] = "end" => sysout' = "original" /\ own' = "original"
    BY <1>0, <1>b, <1>k, <1>4, <2>5, RestoreHandlersMoves DEF PastInv, Past, CallInv
  <2>6. BackInv'
    <3>1. CASE "early" \in gaps
      BY <2>1, <3>1 DEF BackInv, Undoes
    <3>2. CASE "early" \notin gaps
      BY <2>1, <2>5, <3>2, UndoesGivesBack
    <3> QED
      BY <3>1, <3>2
  <2> QED
    BY <2>2, <2>4, <2>6 DEF SetupInv
<1>5. CASE RestoreSysout(r)
  <2>1. Undoes(r)
    BY <1>0, <1>b, <1>5, RestoreSysoutMoves DEF Undoes, CallInv
  <2>2. (Undone => Undone') /\ (ReaderLeft => ReaderLeft')
    BY <2>1 DEF Undoes, Undone, ReaderLeft
  <2>3. CallInv(r)' /\ (bypass' = bypass \/ ReaderLeft)
        /\ (inst # "open" => (cap' = cap /\ saved' = saved) \/ Undone')
        /\ (rs'[r] = "end" /\ inst = "over" => Undone')
    BY <1>0, <1>b, <1>r, <1>5, <2>2, RestoreSysoutMoves DEF CallInv, Alone, Undone, ReaderLeft
  <2>4. InstallInv' /\ RestoreInv'
    BY <2>1, <2>3, UndoesKeeps
  <2>5. ASSUME "early" \notin gaps
        PROVE  /\ PastInv(r)' /\ (sysout' = "process" => cap' = cap /\ process' = process)
               /\ sysout' = "captured" => cap' = cap
               /\ own' # "original" => UNCHANGED <<cap, terminal, retargeted>>
               /\ rs'[r] = "end" => sysout' = "original" /\ own' = "original"
    BY <1>0, <1>b, <1>k, <1>5, <2>5, RestoreSysoutMoves DEF PastInv, Past, CallInv
  <2>6. BackInv'
    <3>1. CASE "early" \in gaps
      BY <2>1, <3>1 DEF BackInv, Undoes
    <3>2. CASE "early" \notin gaps
      BY <2>1, <2>5, <3>2, UndoesGivesBack
    <3> QED
      BY <3>1, <3>2
  <2> QED
    BY <2>2, <2>4, <2>6 DEF SetupInv
<1>6. CASE Stop(r)
  <2>1. Undoes(r)
    BY <1>0, <1>b, <1>6, StopMoves DEF Undoes, CallInv
  <2>2. (Undone => Undone') /\ (ReaderLeft => ReaderLeft')
    BY <2>1 DEF Undoes, Undone, ReaderLeft
  <2>3. CallInv(r)' /\ (bypass' = bypass \/ ReaderLeft)
        /\ (inst # "open" => (cap' = cap /\ saved' = saved) \/ Undone')
        /\ (rs'[r] = "end" /\ inst = "over" => Undone')
    BY <1>0, <1>b, <1>r, <1>6, <2>2, StopMoves DEF CallInv, Alone, Undone, ReaderLeft
  <2>4. InstallInv' /\ RestoreInv'
    BY <2>1, <2>3, UndoesKeeps
  <2>5. ASSUME "early" \notin gaps
        PROVE  /\ PastInv(r)' /\ (sysout' = "process" => cap' = cap /\ process' = process)
               /\ sysout' = "captured" => cap' = cap
               /\ own' # "original" => UNCHANGED <<cap, terminal, retargeted>>
               /\ rs'[r] = "end" => sysout' = "original" /\ own' = "original"
    BY <1>0, <1>b, <1>k, <1>6, <2>5, StopMoves DEF PastInv, Past, CallInv
  <2>6. BackInv'
    <3>1. CASE "early" \in gaps
      BY <2>1, <3>1 DEF BackInv, Undoes
    <3>2. CASE "early" \notin gaps
      BY <2>1, <2>5, <3>2, UndoesGivesBack
    <3> QED
      BY <3>1, <3>2
  <2> QED
    BY <2>2, <2>4, <2>6 DEF SetupInv
<1>7. CASE PutBack(r)
  <2>1. Undoes(r)
    BY <1>0, <1>b, <1>7, PutBackMoves DEF Undoes, CallInv
  <2>2. (Undone => Undone') /\ (ReaderLeft => ReaderLeft')
    BY <2>1 DEF Undoes, Undone, ReaderLeft
  <2>3. CallInv(r)' /\ (bypass' = bypass \/ ReaderLeft)
        /\ (inst # "open" => (cap' = cap /\ saved' = saved) \/ Undone')
        /\ (rs'[r] = "end" /\ inst = "over" => Undone')
    BY <1>0, <1>b, <1>r, <1>7, <2>2, PutBackMoves DEF CallInv, Alone, Undone, ReaderLeft
  <2>4. InstallInv' /\ RestoreInv'
    BY <2>1, <2>3, UndoesKeeps
  <2>5. ASSUME "early" \notin gaps
        PROVE  /\ PastInv(r)' /\ (sysout' = "process" => cap' = cap /\ process' = process)
               /\ sysout' = "captured" => cap' = cap
               /\ own' # "original" => UNCHANGED <<cap, terminal, retargeted>>
               /\ rs'[r] = "end" => sysout' = "original" /\ own' = "original"
    BY <1>0, <1>b, <1>k, <1>7, <2>5, PutBackMoves DEF PastInv, Past, CallInv
  <2>6. BackInv'
    <3>1. CASE "early" \in gaps
      BY <2>1, <3>1 DEF BackInv, Undoes
    <3>2. CASE "early" \notin gaps
      BY <2>1, <2>5, <3>2, UndoesGivesBack
    <3> QED
      BY <3>1, <3>2
  <2> QED
    BY <2>2, <2>4, <2>6 DEF SetupInv
<1>8. CASE Join(r)
  <2>1. Undoes(r)
    BY <1>0, <1>b, <1>8, JoinMoves DEF Undoes, CallInv
  <2>2. (Undone => Undone') /\ (ReaderLeft => ReaderLeft')
    BY <2>1 DEF Undoes, Undone, ReaderLeft
  <2>3. CallInv(r)' /\ (bypass' = bypass \/ ReaderLeft)
        /\ (inst # "open" => (cap' = cap /\ saved' = saved) \/ Undone')
        /\ (rs'[r] = "end" /\ inst = "over" => Undone')
    BY <1>0, <1>b, <1>r, <1>8, <2>2, JoinMoves DEF CallInv, Alone, Undone, ReaderLeft
  <2>4. InstallInv' /\ RestoreInv'
    BY <2>1, <2>3, UndoesKeeps
  <2>5. ASSUME "early" \notin gaps
        PROVE  /\ PastInv(r)' /\ (sysout' = "process" => cap' = cap /\ process' = process)
               /\ sysout' = "captured" => cap' = cap
               /\ own' # "original" => UNCHANGED <<cap, terminal, retargeted>>
               /\ rs'[r] = "end" => sysout' = "original" /\ own' = "original"
    BY <1>0, <1>b, <1>k, <1>8, <2>5, JoinMoves DEF PastInv, Past, CallInv
  <2>6. BackInv'
    <3>1. CASE "early" \in gaps
      BY <2>1, <3>1 DEF BackInv, Undoes
    <3>2. CASE "early" \notin gaps
      BY <2>1, <2>5, <3>2, UndoesGivesBack
    <3> QED
      BY <3>1, <3>2
  <2> QED
    BY <2>2, <2>4, <2>6 DEF SetupInv
<1>9. CASE Release(r)
  <2>1. Undoes(r)
    BY <1>0, <1>b, <1>9, ReleaseMoves DEF Undoes, CallInv
  <2>2. (Undone => Undone') /\ (ReaderLeft => ReaderLeft')
    BY <2>1 DEF Undoes, Undone, ReaderLeft
  <2>3. CallInv(r)' /\ (bypass' = bypass \/ ReaderLeft)
        /\ (inst # "open" => (cap' = cap /\ saved' = saved) \/ Undone')
        /\ (rs'[r] = "end" /\ inst = "over" => Undone')
    BY <1>0, <1>b, <1>r, <1>9, <2>2, ReleaseMoves DEF CallInv, Alone, Undone, ReaderLeft
  <2>4. InstallInv' /\ RestoreInv'
    BY <2>1, <2>3, UndoesKeeps
  <2>5. ASSUME "early" \notin gaps
        PROVE  /\ PastInv(r)' /\ (sysout' = "process" => cap' = cap /\ process' = process)
               /\ sysout' = "captured" => cap' = cap
               /\ own' # "original" => UNCHANGED <<cap, terminal, retargeted>>
               /\ rs'[r] = "end" => sysout' = "original" /\ own' = "original"
    BY <1>0, <1>b, <1>k, <1>9, <2>5, ReleaseMoves DEF PastInv, Past, CallInv
  <2>6. BackInv'
    <3>1. CASE "early" \in gaps
      BY <2>1, <3>1 DEF BackInv, Undoes
    <3>2. CASE "early" \notin gaps
      BY <2>1, <2>5, <3>2, UndoesGivesBack
    <3> QED
      BY <3>1, <3>2
  <2> QED
    BY <2>2, <2>4, <2>6 DEF SetupInv
<1>10. CASE Forget(r)
  <2>1. Undoes(r)
    BY <1>0, <1>b, <1>10, ForgetMoves DEF Undoes, CallInv
  <2>2. (Undone => Undone') /\ (ReaderLeft => ReaderLeft')
    BY <2>1 DEF Undoes, Undone, ReaderLeft
  <2>3. CallInv(r)' /\ (bypass' = bypass \/ ReaderLeft)
        /\ (inst # "open" => (cap' = cap /\ saved' = saved) \/ Undone')
        /\ (rs'[r] = "end" /\ inst = "over" => Undone')
    BY <1>0, <1>b, <1>r, <1>10, <2>2, ForgetMoves DEF CallInv, Alone, Undone, ReaderLeft
  <2>4. InstallInv' /\ RestoreInv'
    BY <2>1, <2>3, UndoesKeeps
  <2>5. ASSUME "early" \notin gaps
        PROVE  /\ PastInv(r)' /\ (sysout' = "process" => cap' = cap /\ process' = process)
               /\ sysout' = "captured" => cap' = cap
               /\ own' # "original" => UNCHANGED <<cap, terminal, retargeted>>
               /\ rs'[r] = "end" => sysout' = "original" /\ own' = "original"
    BY <1>0, <1>b, <1>k, <1>10, <2>5, ForgetMoves DEF PastInv, Past, CallInv
  <2>6. BackInv'
    <3>1. CASE "early" \in gaps
      BY <2>1, <3>1 DEF BackInv, Undoes
    <3>2. CASE "early" \notin gaps
      BY <2>1, <2>5, <3>2, UndoesGivesBack
    <3> QED
      BY <3>1, <3>2
  <2> QED
    BY <2>2, <2>4, <2>6 DEF SetupInv
<1>11. CASE CloseBypass(r)
  <2>1. Undoes(r)
    BY <1>0, <1>b, <1>11, CloseBypassMoves DEF Undoes, CallInv
  <2>2. (Undone => Undone') /\ (ReaderLeft => ReaderLeft')
    BY <2>1 DEF Undoes, Undone, ReaderLeft
  <2>3. CallInv(r)' /\ (bypass' = bypass \/ ReaderLeft)
        /\ (inst # "open" => (cap' = cap /\ saved' = saved) \/ Undone')
        /\ (rs'[r] = "end" /\ inst = "over" => Undone')
    BY <1>0, <1>b, <1>r, <1>11, <2>2, CloseBypassMoves DEF CallInv, Alone, Undone, ReaderLeft
  <2>4. InstallInv' /\ RestoreInv'
    BY <2>1, <2>3, UndoesKeeps
  <2>5. ASSUME "early" \notin gaps
        PROVE  /\ PastInv(r)' /\ (sysout' = "process" => cap' = cap /\ process' = process)
               /\ sysout' = "captured" => cap' = cap
               /\ own' # "original" => UNCHANGED <<cap, terminal, retargeted>>
               /\ rs'[r] = "end" => sysout' = "original" /\ own' = "original"
    BY <1>0, <1>b, <1>k, <1>11, <2>5, CloseBypassMoves DEF PastInv, Past, CallInv
  <2>6. BackInv'
    <3>1. CASE "early" \in gaps
      BY <2>1, <3>1 DEF BackInv, Undoes
    <3>2. CASE "early" \notin gaps
      BY <2>1, <2>5, <3>2, UndoesGivesBack
    <3> QED
      BY <3>1, <3>2
  <2> QED
    BY <2>2, <2>4, <2>6 DEF SetupInv
<1>12. CASE Clear(r)
  <2>1. Undoes(r)
    BY <1>0, <1>b, <1>12, ClearMoves DEF Undoes, CallInv
  <2>2. (Undone => Undone') /\ (ReaderLeft => ReaderLeft')
    BY <2>1 DEF Undoes, Undone, ReaderLeft
  <2>3. CallInv(r)' /\ (bypass' = bypass \/ ReaderLeft)
        /\ (inst # "open" => (cap' = cap /\ saved' = saved) \/ Undone')
        /\ (rs'[r] = "end" /\ inst = "over" => Undone')
    BY <1>0, <1>b, <1>r, <1>12, <2>2, ClearMoves DEF CallInv, Alone, Undone, ReaderLeft
  <2>4. InstallInv' /\ RestoreInv'
    BY <2>1, <2>3, UndoesKeeps
  <2>5. ASSUME "early" \notin gaps
        PROVE  /\ PastInv(r)' /\ (sysout' = "process" => cap' = cap /\ process' = process)
               /\ sysout' = "captured" => cap' = cap
               /\ own' # "original" => UNCHANGED <<cap, terminal, retargeted>>
               /\ rs'[r] = "end" => sysout' = "original" /\ own' = "original"
    BY <1>0, <1>b, <1>k, <1>12, <2>5, ClearMoves DEF PastInv, Past, CallInv
  <2>6. BackInv'
    <3>1. CASE "early" \in gaps
      BY <2>1, <3>1 DEF BackInv, Undoes
    <3>2. CASE "early" \notin gaps
      BY <2>1, <2>5, <3>2, UndoesGivesBack
    <3> QED
      BY <3>1, <3>2
  <2> QED
    BY <2>2, <2>4, <2>6 DEF SetupInv
<1> QED
  BY <1>1, <1>2, <1>3, <1>4, <1>5, <1>6, <1>7, <1>8, <1>9, <1>10, <1>11,
     <1>12 DEF RestoreStep

LEMMA SetupInitially == Init => SetupInv
<1> SUFFICES ASSUME Init PROVE SetupInv
  OBVIOUS
<1>1. \A r \in Restorers : rs[r] = "idle" /\ held[r] = "none"
  BY DEF Init
<1>2. /\ inst = "redirect" /\ cap = "none" /\ rd = "off" /\ ~process /\ ~bypass /\ saved = "none"
      /\ fd = "terminal" /\ pipe = <<>> /\ sysout = "original" /\ own = "original"
      /\ \A w \in Writers : ref[w] = "none"
  BY DEF Init
<1>3. InstallInv
  BY <1>1, <1>2, TheRestorers DEF InstallInv
<1>4. \A r \in Restorers : CallInv(r) /\ PastInv(r)
  BY <1>1, <1>2 DEF CallInv, PastInv, Past
<1>5. RestoreInv
  BY <1>1, <1>2, <1>4, TheRestorers DEF RestoreInv, CapturedBy, Undone, ReaderLeft
<1>6. BackInv
  BY <1>1, <1>2, <1>4, TheRestorers DEF BackInv
<1> QED
  BY <1>3, <1>5, <1>6 DEF SetupInv

LEMMA VarsSame ==
  ASSUME UNCHANGED vars
  PROVE  /\ Sames
         /\ UNCHANGED <<pipe, rd, chunk, rest, buffers, out, at, ref, ident, taken, shown,
                        forwarded>>
BY SetupSame DEF vars, flowVars, readerVars, writerVars

LEMMA SetupStays ==
  ASSUME TypeOK, SetupInv, [Next]_vars
  PROVE  SetupInv'
<1>1. CASE UNCHANGED vars
  <2>1. Sames /\ UNCHANGED <<pipe, rd, ref>>
    BY <1>1, VarsSame
  <2>2. InstallInv'
    BY <2>1 DEF SetupInv, InstallInv, Sames
  <2>3. Undone' = Undone /\ ReaderLeft' = ReaderLeft
    BY <2>1 DEF Undone, ReaderLeft, Sames
  <2>4. \A r \in Restorers : CallInv(r)'
    BY <2>1, <2>3, CallKept DEF SetupInv, RestoreInv, Sames
  <2>5. CapturedBy(sysout)' /\ \A w \in Writers : CapturedBy(ref[w])'
    BY <2>1, <2>3 DEF SetupInv, RestoreInv, CapturedBy, Sames
  <2>6. RestoreInv'
    BY <2>1, <2>3, <2>4, <2>5 DEF SetupInv, RestoreInv, Sames
  <2>7. BackInv'
    BY <2>1, BackKept DEF SetupInv, Sames
  <2> QED
    BY <2>2, <2>6, <2>7 DEF SetupInv
<1>2. CASE Next
  BY <1>2, SetupAfterWriter, SetupAfterReader, SetupAfterDecode, SetupAfterRestore,
     InstallInvAfterRedirect,
     InstallInvAfterOpen, InstallInvAfterStderr, InstallInvAfterFallback,
     InstallInvAfterBegin DEF Next, InstallStep
<1> QED
  BY <1>1, <1>2

(* After close(), descriptor 1, sys.stdout and LogMate's own handlers lead *)
(* to the terminal again and no write end of the pipe is left in the       *)
(* client, though a permanent failure may undo the capture in another      *)
(* thread at the same time, without a lock between the two.                *)
THEOREM GivenBack == Spec => []TerminalBack
<1>1. Init => TypeOK /\ SetupInv
  BY TypesInitially, SetupInitially
<1>2. TypeOK /\ SetupInv /\ [Next]_vars => (TypeOK /\ SetupInv)'
  BY StepKeepsTypes, SetupStays
<1>3. TypeOK /\ SetupInv => TerminalBack
  <2> SUFFICES ASSUME TypeOK, SetupInv, rs["close"] = "end"
               PROVE  /\ fd = "terminal" /\ ~process
                      /\ "early" \notin gaps => sysout = "original" /\ own = "original"
    BY DEF TerminalBack
  <2>1. fd = "terminal" /\ ~process
    BY DEF SetupInv, RestoreInv, Undone
  <2>2. "early" \notin gaps => sysout = "original" /\ own = "original"
    BY DEF SetupInv, BackInv
  <2> QED
    BY <2>1, <2>2
<1> QED
  BY <1>1, <1>2, <1>3, PTL DEF Spec

-----------------------------------------------------------------------------
(* The writers, and the lines each thread holds.                           *)

LEMMA ThreadsApart ==
  /\ "reader" \in Threads /\ "close" \in Threads /\ "reader" # "close"
  /\ \A w \in Writers : w \in Threads /\ w # "reader" /\ w # "close" /\ w # NL
BY CaptureAssumption DEF Threads

LEMMA HandKept ==
  ASSUME NEW v \in Writers, HandInv(v), at'[v] = at[v], ref'[v] = ref[v],
         v \in taken' => v \in taken, shown \subseteq shown'
  PROVE  HandInv(v)'
BY DEF HandInv

LEMMA HandsKept ==
  ASSUME WriterInv, UNCHANGED <<at, ref, taken>>, shown \subseteq shown'
  PROVE  \A v \in Writers : HandInv(v)'
BY HandKept DEF WriterInv

LEMMA IdentKept ==
  ASSUME NEW i \in Writers, IdentInv(i), buffers'[i] \in {buffers[i], {}}, out'[i] = out[i],
         Of(i) \subseteq Of(i)',
         \A v \in Writers : at[v] = "emit" /\ ident[v] = i => at'[v] = "emit" /\ ident'[v] = i
  PROVE  IdentInv(i)'
<1>1. buffers'[i] \subseteq Of(i)'
  BY DEF IdentInv
<1>2. out'[i] # <<>> => Len(out'[i]) = 1 /\ out'[i][1] \subseteq Of(i)'
  BY DEF IdentInv
<1>3. out'[i] # <<>> => \E w \in Writers : at'[w] = "emit" /\ ident'[w] = i
  BY DEF IdentInv
<1> QED
  BY <1>1, <1>2, <1>3 DEF IdentInv

LEMMA IdentsKept ==
  ASSUME WriterInv, UNCHANGED <<at, ident, taken>>,
         \A i \in Writers : buffers'[i] \in {buffers[i], {}} /\ out'[i] = out[i]
  PROVE  /\ \A i \in Writers : IdentInv(i)' /\ Of(i)' = Of(i)
         /\ OneLives'
<1>1. \A i \in Writers : Of(i)' = Of(i)
  BY DEF Of
<1>2. ASSUME NEW i \in Writers PROVE IdentInv(i)'
  BY <1>1, IdentKept DEF WriterInv
<1>3. OneLives'
  BY DEF WriterInv, OneLives
<1> QED
  BY <1>1, <1>2, <1>3

(* What a write puts where, and what follows it. *)
LEMMA PutsFlow ==
  ASSUME TypeOK, NEW w \in Writers, NEW s \in {<<w>>, <<w, NL>>, <<NL>>, <<>>}, NEW next,
         Puts(w, s, next)
  PROVE  /\ taken \subseteq taken' /\ taken' \subseteq taken \cup {w} /\ shown \subseteq shown'
         /\ rd = "over" => pipe' = pipe
         /\ s \in {<<NL>>, <<>>} => taken' = taken
BY WrittenTexts, ThreadsApart DEF Puts

(* A step of writer w, as the others see it. *)
LEMMA WriterFlow ==
  ASSUME TypeOK, NEW w \in Writers, PrintStep(w) \/ HandlerLogs(w) \/ ChildStep(w)
  PROVE  /\ taken \subseteq taken' /\ taken' \subseteq taken \cup {w} /\ shown \subseteq shown'
         /\ rd = "over" => pipe' = pipe
<1>1. CASE PrintLookup(w) \/ ChildSpawn(w) \/ ChildExits(w) \/ PrintOpen(w)
  BY <1>1, PrintLookupMoves, ChildSpawnMoves, ChildExitsMoves, PrintOpenMoves
<1>2. CASE PrintText(w)
  BY <1>2, PrintTextMoves, PutsFlow
<1>3. CASE PrintEnd(w)
  BY <1>3, PrintEndMoves, PutsFlow
<1>4. CASE ChildWrites(w)
  BY <1>4, ChildWritesMoves, PutsFlow
<1>5. CASE HandlerLogs(w)
  BY <1>5, HandlerLogsMoves, PutsFlow
<1>6. CASE KeepText(w) \/ CutLine(w) \/ EmitLine(w)
  BY <1>6, KeepTextMoves, CutLineMoves, EmitLineMoves
<1> QED
  BY <1>1, <1>2, <1>3, <1>4, <1>5, <1>6 DEF PrintStep, ChildStep

LEMMA OneLine ==
  /\ \A s \in Seq(Lines) : Len(s) = 1 => Tail(s) = <<>> /\ Head(s) = s[1] /\ s # <<>>
  /\ \A l \in Lines : Len(Append(<<>>, l)) = 1 /\ Append(<<>>, l)[1] = l
<1>1. ASSUME NEW s \in Seq(Lines), Len(s) = 1
      PROVE  Tail(s) = <<>> /\ Head(s) = s[1] /\ s # <<>>
  <2>1. s # <<>> /\ Len(<<>>) = 0 /\ Len(s) = 1
    BY <1>1, EmptySeq
  <2>2. Tail(s) \in Seq(Lines) /\ Len(Tail(s)) = 0
    BY <2>1, HeadTailProperties
  <2>3. Tail(s) = <<>>
    BY <2>2, EmptySeq
  <2>4. Head(s) = s[1]
    BY <2>1
  <2> QED
    BY <2>1, <2>3, <2>4
<1>2. ASSUME NEW l \in Lines
      PROVE  Len(Append(<<>>, l)) = 1 /\ Append(<<>>, l)[1] = l
  <2>1. <<>> \in Seq(Lines) /\ Len(<<>>) = 0
    OBVIOUS
  <2> QED
    BY <2>1
<1> QED
  BY <1>1, <1>2

(* A text stays with the ident its thread had when it wrote it. *)
LEMMA IdentFlow ==
  ASSUME TypeOK, WriterInv, NEW w \in Writers, PrintStep(w) \/ HandlerLogs(w) \/ ChildStep(w)
  PROVE  /\ \A v \in taken : ident'[v] = ident[v]
         /\ at[w] # "new" => ident' = ident
         /\ \A i \in Writers : Of(i) \subseteq Of(i)'
<1>1. /\ \A v \in taken : ident'[v] = ident[v]
      /\ at[w] # "new" => ident' = ident
  <2>1. CASE PrintLookup(w)
    <3>1. w \notin taken
      BY <2>1, PrintLookupMoves DEF WriterInv, HandInv, Unwritten
    <3>2. taken \subseteq Writers
      BY DEF TypeOK
    <3> QED
      BY <2>1, <3>1, <3>2, PrintLookupMoves DEF Bystanders
  <2>2. CASE UNCHANGED ident
    BY <2>2
  <2> QED
    BY <2>1, <2>2, PrintTextMoves, KeepTextMoves, PrintEndMoves, CutLineMoves, EmitLineMoves,
       HandlerLogsMoves, ChildSpawnMoves, ChildWritesMoves, ChildExitsMoves, PrintOpenMoves
       DEF PrintStep, ChildStep
<1>2. taken \subseteq taken'
  BY WriterFlow
<1> QED
  BY <1>1, <1>2 DEF Of

LEMMA HandAfterWriter ==
  ASSUME TypeOK, SetupInv, NEW w \in Writers, HandInv(w),
         PrintStep(w) \/ HandlerLogs(w) \/ ChildStep(w)
  PROVE  HandInv(w)'
<1>1. CASE PrintLookup(w) \/ ChildSpawn(w) \/ ChildExits(w) \/ PrintOpen(w)
  BY <1>1, PrintLookupMoves, ChildSpawnMoves, ChildExitsMoves, PrintOpenMoves
     DEF HandInv, Unwritten
<1>2. CASE PrintText(w)
  <2>1. /\ at[w] = "text" /\ at'[w] \in {"keep", "end", "over"}
        /\ at'[w] = "keep" => ref[w] = "captured" /\ ref'[w] = "captured"
    BY <1>2, PrintTextMoves
  <2>2. at'[w] = "keep" => w \in shown' /\ taken' = taken
    <3>1. ref[w] = "captured" => fd = "terminal" /\ ~process
      BY DEF SetupInv, RestoreInv, CapturedBy, Undone
    <3> QED
      BY <1>2, <2>1, <3>1, PrintTextMoves, WrittenTexts DEF Shut
  <2> QED
    BY <2>1, <2>2 DEF HandInv, Unwritten
<1>3. CASE PrintEnd(w)
  BY <1>3, PrintEndMoves DEF HandInv, Unwritten
<1>4. CASE ChildWrites(w)
  BY <1>4, ChildWritesMoves DEF HandInv, Unwritten
<1>5. CASE HandlerLogs(w)
  BY <1>5, HandlerLogsMoves DEF HandInv, Unwritten
<1>6. CASE KeepText(w)
  BY <1>6, KeepTextMoves DEF HandInv, Unwritten
<1>7. CASE CutLine(w)
  BY <1>7, CutLineMoves DEF HandInv, Unwritten
<1>8. CASE EmitLine(w)
  BY <1>8, EmitLineMoves DEF HandInv, Unwritten
<1> QED
  BY <1>1, <1>2, <1>3, <1>4, <1>5, <1>6, <1>7, <1>8 DEF PrintStep, ChildStep

(* Nothing is in the hands of an ident whose thread cuts its line. *)
LEMMA HandEmpty ==
  ASSUME TypeOK, WriterInv, NEW w \in Writers, at[w] = "cut"
  PROVE  ident[w] \in Writers /\ out[ident[w]] = <<>>
<1>1. ident[w] \in Writers
  BY TypesApart DEF FlowTypes
<1>2. ASSUME out[ident[w]] # <<>> PROVE FALSE
  <2>1. PICK v \in Writers : at[v] = "emit" /\ ident[v] = ident[w]
    BY <1>1, <1>2 DEF WriterInv, IdentInv
  <2> QED
    BY <2>1 DEF WriterInv, OneLives, Printing
<1> QED
  BY <1>1, <1>2

(* What the threads of an ident hold after a step of one of them. *)
LEMMA IdentAfterWriter ==
  ASSUME TypeOK, WriterInv, NEW w \in Writers, PrintStep(w) \/ HandlerLogs(w) \/ ChildStep(w),
         NEW i \in Writers
  PROVE  IdentInv(i)'
<1>0. /\ Bystanders(w) /\ IdentInv(i) /\ Of(i) \subseteq Of(i)' /\ i \in Threads
      /\ out[i] \in Seq(Lines) /\ buffers[i] \in Lines
  BY WriterKeepsTypes, IdentFlow, ThreadsApart, TypesApart DEF WriterInv, FlowTypes
<1>1. CASE i # ident[w]
  <2>1. buffers'[i] = buffers[i] /\ out'[i] = out[i]
    BY <1>0, <1>1 DEF Bystanders
  <2>2. \A v \in Writers : at[v] = "emit" /\ ident[v] = i => at'[v] = "emit" /\ ident'[v] = i
    BY <1>0, <1>1 DEF Bystanders
  <2> QED
    BY <1>0, <2>1, <2>2, IdentKept
<1>2. CASE UNCHANGED <<buffers, out>> /\ at[w] # "emit"
  <2>1. \A v \in Writers : at[v] = "emit" /\ ident[v] = i => at'[v] = "emit" /\ ident'[v] = i
    BY <1>0, <1>2 DEF Bystanders
  <2> QED
    BY <1>0, <1>2, <2>1, IdentKept
<1>3. CASE KeepText(w) /\ i = ident[w]
  <2>1. /\ buffers'[i] = buffers[i] \cup {w} /\ taken' = taken \cup {w} /\ ident' = ident
        /\ out' = out /\ at[w] = "keep"
    BY <1>3, KeepTextMoves
  <2>2. w \in Of(i)'
    BY <1>3, <2>1 DEF Of
  <2>3. out'[i] # <<>> => \E v \in Writers : at'[v] = "emit" /\ ident'[v] = i
    BY <1>0, <2>1 DEF IdentInv, Bystanders
  <2>4. out'[i] # <<>> => Len(out'[i]) = 1 /\ out'[i][1] \subseteq Of(i)'
    BY <1>0, <2>1 DEF IdentInv
  <2> QED
    BY <1>0, <2>1, <2>2, <2>3, <2>4 DEF IdentInv
<1>4. CASE CutLine(w) /\ i = ident[w]
  <2>1. /\ buffers'[i] = {} /\ out'[i] = Append(out[i], buffers[i]) /\ ident' = ident
        /\ at[w] = "cut" /\ at'[w] = "emit"
    BY <1>4, CutLineMoves
  <2>2. out[i] = <<>>
    BY <1>4, <2>1, HandEmpty
  <2>3. Len(out'[i]) = 1 /\ out'[i][1] = buffers[i]
    BY <1>0, <2>1, <2>2, OneLine
  <2>4. at'[w] = "emit" /\ ident'[w] = i
    BY <1>4, <2>1
  <2> QED
    BY <1>0, <2>1, <2>3, <2>4 DEF IdentInv
<1>5. CASE EmitLine(w) /\ i = ident[w]
  <2>1. out[i] # <<>> /\ out'[i] = Tail(out[i]) /\ buffers' = buffers
    BY <1>5, EmitLineMoves, EmitMoves
  <2>2. out'[i] = <<>>
    BY <1>0, <2>1, OneLine DEF IdentInv
  <2> QED
    BY <1>0, <2>1, <2>2 DEF IdentInv
<1> QED
  BY <1>1, <1>2, <1>3, <1>4, <1>5, PrintLookupMoves, PrintTextMoves, PrintEndMoves,
     HandlerLogsMoves, ChildSpawnMoves, ChildWritesMoves, ChildExitsMoves, PrintOpenMoves
     DEF PrintStep, ChildStep

(* No two threads that live have the same ident. *)
LEMMA OneLivesAfterWriter ==
  ASSUME TypeOK, WriterInv, NEW w \in Writers, PrintStep(w) \/ HandlerLogs(w) \/ ChildStep(w)
  PROVE  OneLives'
<1>0. OneLives /\ Bystanders(w)
  BY WriterKeepsTypes DEF WriterInv
<1>1. CASE PrintLookup(w)
  BY <1>0, <1>1, PrintLookupMoves DEF OneLives, Bystanders
<1>2. CASE UNCHANGED ident /\ (at'[w] \in Printing => at[w] \in Printing)
  BY <1>0, <1>2 DEF OneLives, Bystanders
<1> QED
  BY <1>1, <1>2, PrintTextMoves, KeepTextMoves, PrintEndMoves, CutLineMoves, EmitLineMoves,
     HandlerLogsMoves, ChildSpawnMoves, ChildWritesMoves, ChildExitsMoves, PrintOpenMoves
     DEF PrintStep, ChildStep, Printing

LEMMA WriterInvAfterWriter ==
  ASSUME TypeOK, SetupInv, WriterInv, NEW w \in Writers,
         PrintStep(w) \/ HandlerLogs(w) \/ ChildStep(w)
  PROVE  WriterInv'
<1>1. Bystanders(w)
  BY WriterKeepsTypes
<1>2. \A v \in Writers \ {w} : HandInv(v)'
  BY <1>1, WriterFlow, HandKept DEF WriterInv, Bystanders
<1>3. HandInv(w)'
  BY HandAfterWriter DEF WriterInv
<1>4. \A i \in Writers : IdentInv(i)' /\ Of(i) \subseteq Of(i)'
  BY IdentAfterWriter, IdentFlow
<1>5. OneLives'
  BY OneLivesAfterWriter
<1>6. out'["reader"] = out["reader"] /\ out'["close"] = out["close"]
  <2>1. ident[w] # "reader" /\ ident[w] # "close"
    BY ThreadsApart, TypesApart DEF FlowTypes
  <2> QED
    BY <1>1, <2>1, ThreadsApart DEF Bystanders
<1>7. \A k \in DOMAIN out'["close"] : \E p \in Writers : out'["close"][k] \subseteq Of(p)'
  BY <1>4, <1>6 DEF WriterInv
<1>8. UNCHANGED <<rd, rest, rs, gaps>> /\ (rd = "over" => pipe' = pipe)
  BY <1>1, WriterFlow DEF Bystanders, Sames
<1> QED
  BY <1>2, <1>3, <1>4, <1>5, <1>6, <1>7, <1>8 DEF WriterInv

LEMMA WriterInvAfterReader ==
  ASSUME TypeOK, SetupInv, WriterInv, ReadStep
  PROVE  WriterInv'
<1>1. Reading
  BY ReaderMoves
<1>2. /\ \A e \in Threads \ {"reader"} : out'[e] = out[e]
      /\ shown \subseteq shown'
  BY ReaderMoves, SplitMoves, EmitMoves, ThreadsApart
<1>3. /\ \A v \in Writers : HandInv(v)' /\ IdentInv(v)' /\ Of(v)' = Of(v)
      /\ OneLives'
  BY <1>1, <1>2, HandsKept, IdentsKept, ThreadsApart DEF Reading
<1>4. out'["close"] = out["close"]
  BY <1>2, ThreadsApart
<1>5. out'["reader"] # <<>> => rd' = "emit"
  BY ReaderMoves, SplitMoves DEF WriterInv
<1>6. rd' = "over" => rest' = {} /\ (pipe' = <<>> \/ "late" \in gaps')
  <2>1. ~bypass /\ rd = "write" => "late" \in gaps'
    BY <1>1 DEF SetupInv, RestoreInv, ReaderLeft, Reading, Sames
  <2> QED
    BY <2>1, ReaderMoves, SplitMoves
<1>7. rd' # "off" /\ rs' = rs /\ gaps' = gaps
  BY <1>1 DEF Reading, Sames
<1> QED
  BY <1>3, <1>4, <1>5, <1>6, <1>7 DEF WriterInv

LEMMA WriterInvAfterDecode ==
  ASSUME TypeOK, WriterInv, DecodeFails
  PROVE  WriterInv'
<1>1. /\ UNCHANGED <<rs, at, ref, ident, buffers, taken, out, shown>>
      /\ rd = "read" /\ rd' = "over" /\ pipe' = <<>> /\ rest' = {}
  BY DecodeFailsMoves
<1>2. /\ \A v \in Writers : HandInv(v)' /\ IdentInv(v)' /\ Of(v)' = Of(v)
      /\ OneLives'
  BY <1>1, HandsKept, IdentsKept
<1> QED
  BY <1>1, <1>2 DEF WriterInv

(* The constructor and the beginnings touch the flow at its opening only. *)
LEMMA InstallFlow ==
  ASSUME TypeOK, SetupInv, InstallStep \/ DisableBegin \/ CloseBegin \/ CloseMark
  PROVE  /\ UNCHANGED <<chunk, rest, buffers, out, at, ref, ident, taken, shown, forwarded>>
         /\ \/ UNCHANGED <<pipe, rd>>
            \/ rd = "off" /\ rd' = "read" /\ pipe' = pipe
            \/ rd = "off" /\ rd' = "over" /\ pipe' = <<>> /\ "undone" \in gaps'
         /\ (remote' => remote) /\ (closed => closed') /\ gaps \subseteq gaps'
         /\ rs'["close"] = rs["close"] \/ rs["close"] \in {"idle", "raised"}
         /\ rs["close"] = "end" => rs'["close"] = "end"
<1>1. inst = "open" => rd = "off"
  BY DEF SetupInv, InstallInv
<1>2. CASE Open \/ OpenFails
  <2>1. rs'["close"] = rs["close"]
    BY <1>2, Begins, TheRestorers DEF Open, OpenFails, GoInstall, InstallUndo
  <2> QED
    BY <1>1, <1>2, <2>1 DEF Open, OpenFails, writerVars, loggerVars
<1>3. CASE Redirect \/ Stderr \/ SwapSysout \/ Retarget \/ Fallback
  <2>1. UNCHANGED flowVars /\ UNCHANGED <<remote, closed, gaps>>
    BY <1>3 DEF Redirect, Stderr, SwapSysout, Retarget, Fallback, loggerVars
  <2>2. rs'["close"] = rs["close"]
    BY <1>3, Begins, TheRestorers DEF Redirect, Stderr, SwapSysout, Retarget, Fallback,
       GoInstall, InstallUndo
  <2> QED
    BY <2>1, <2>2 DEF flowVars, readerVars, writerVars
<1>4. CASE DisableBegin \/ CloseBegin \/ CloseMark
  <2>1. UNCHANGED flowVars /\ (remote' => remote) /\ (closed => closed') /\ gaps \subseteq gaps'
    BY <1>4 DEF DisableBegin, CloseBegin, CloseMark, loggerVars
  <2>2. rs'["close"] = rs["close"] \/ rs["close"] \in {"idle", "raised"}
    BY <1>4, Begins, TheRestorers DEF DisableBegin, CloseBegin, CloseMark, callVars
  <2> QED
    BY <2>1, <2>2 DEF flowVars, readerVars, writerVars
<1> QED
  BY <1>2, <1>3, <1>4 DEF InstallStep

LEMMA WriterInvAfterInstall ==
  ASSUME TypeOK, SetupInv, WriterInv, InstallStep \/ DisableBegin \/ CloseBegin \/ CloseMark
  PROVE  WriterInv'
<1>1. /\ \A v \in Writers : HandInv(v)' /\ IdentInv(v)' /\ Of(v)' = Of(v)
      /\ OneLives'
  BY InstallFlow, HandsKept, IdentsKept
<1> QED
  BY <1>1, InstallFlow DEF WriterInv

(* A step of a call touches the flow in drain() only. *)
LEMMA RestoreFlow ==
  ASSUME TypeOK, SetupInv, WriterInv, NEW r \in Restorers, RestoreStep(r)
  PROVE  /\ UNCHANGED <<pipe, rd, chunk, rest, at, ref, ident, taken, shown, remote, closed>>
         /\ gaps \subseteq gaps' /\ Alone(r)
         /\ \A e \in Threads \ {"close"} : out'[e] = out[e]
         /\ \/ /\ UNCHANGED <<buffers, out, forwarded>>
               /\ out["close"] # <<>> => rs'["close"] = "emit"
            \/ /\ Drain(r) /\ rs["close"] = "drain" /\ rs'["close"] = "emit"
               /\ UNCHANGED forwarded
            \/ /\ DrainEmit(r) /\ EmitNext("close") /\ rs'["close"] = "emit"
               /\ UNCHANGED buffers
<1>1. r # "close" => rs'["close"] = rs["close"] \/ ~Alone(r)
  BY TheRestorers DEF Alone
<1>2. out["close"] # <<>> => rs["close"] = "emit"
  BY DEF WriterInv
<1>3. rs[r] \in {"drain", "emit"} => r = "close"
  BY DEF SetupInv, RestoreInv, CallInv
<1>4. CASE Snap(r) \/ RestoreHandlers(r) \/ RestoreSysout(r) \/ Stop(r) \/ PutBack(r)
  BY <1>1, <1>2, <1>3, <1>4, SnapMoves, RestoreHandlersMoves, RestoreSysoutMoves, StopMoves,
     PutBackMoves
<1>5. CASE Join(r) \/ Release(r) \/ Clear(r) \/ Forget(r) \/ CloseBypass(r)
  BY <1>1, <1>2, <1>3, <1>5, JoinMoves, ReleaseMoves, ClearMoves, ForgetMoves, CloseBypassMoves
<1>6. CASE Drain(r)
  BY <1>3, <1>6, DrainMoves
<1>7. CASE DrainEmit(r)
  BY <1>1, <1>2, <1>3, <1>7, DrainEmitMoves, EmitMoves, ThreadsApart
<1> QED
  BY <1>4, <1>5, <1>6, <1>7 DEF RestoreStep

LEMMA WriterInvAfterRestore ==
  ASSUME TypeOK, SetupInv, WriterInv, NEW r \in Restorers, RestoreStep(r)
  PROVE  WriterInv'
<1>1. /\ \A v \in Writers : out'[v] = out[v]
      /\ out'["reader"] = out["reader"]
  BY RestoreFlow, ThreadsApart
<1>2. /\ \A v \in Writers : HandInv(v)' /\ IdentInv(v)' /\ Of(v)' = Of(v)
      /\ OneLives'
  <2>1. \A v \in Writers : buffers'[v] \in {buffers[v], {}}
    BY RestoreFlow, DrainMoves
  <2> QED
    BY <1>1, <2>1, RestoreFlow, HandsKept, IdentsKept
<1>3. out'["close"] # <<>> => rs'["close"] = "emit"
  BY RestoreFlow
<1>4. \A k \in DOMAIN out'["close"] : \E p \in Writers : out'["close"][k] \subseteq Of(p)
  <2>1. CASE UNCHANGED out
    BY <2>1 DEF WriterInv
  <2>2. CASE Drain(r)
    <3>1. \A k \in DOMAIN out'["close"] : \E p \in Writers : out'["close"][k] = buffers[p]
      BY <2>2, DrainMoves, DrainedLines
    <3> QED
      BY <3>1 DEF WriterInv, IdentInv
  <2>3. CASE EmitNext("close")
    <3>1. out'["close"] = Tail(out["close"]) /\ out["close"] # <<>> /\ out["close"] \in Seq(Lines)
      BY <2>3, EmitMoves, ThreadsApart, TypesApart DEF FlowTypes
    <3>2. \A k \in DOMAIN out'["close"] : k + 1 \in DOMAIN out["close"]
            /\ out'["close"][k] = out["close"][k + 1]
      BY <3>1
    <3> QED
      BY <3>2 DEF WriterInv
  <2> QED
    BY <2>1, <2>2, <2>3, RestoreFlow
<1>5. UNCHANGED <<rd, rest, pipe>> /\ gaps \subseteq gaps'
  BY RestoreFlow
<1> QED
  BY <1>1, <1>2, <1>3, <1>4, <1>5 DEF WriterInv

LEMMA WriterInvInitially == Init => WriterInv
BY ThreadsApart DEF Init, WriterInv, HandInv, IdentInv, OneLives, Printing, Threads

LEMMA WriterInvStays ==
  ASSUME TypeOK, SetupInv, WriterInv, [Next]_vars
  PROVE  WriterInv'
<1>1. CASE UNCHANGED vars
  <2>1. Sames /\ UNCHANGED <<pipe, rd, rest, buffers, out, at, ref, ident, taken, shown>>
    BY <1>1, VarsSame
  <2>2. /\ \A v \in Writers : HandInv(v)' /\ IdentInv(v)' /\ Of(v)' = Of(v)
        /\ OneLives'
    BY <2>1, HandsKept, IdentsKept
  <2> QED
    BY <2>1, <2>2 DEF WriterInv, Sames
<1>2. CASE Next
  BY <1>2, WriterInvAfterWriter, WriterInvAfterReader, WriterInvAfterDecode,
     WriterInvAfterInstall, WriterInvAfterRestore DEF Next
<1> QED
  BY <1>1, <1>2

-----------------------------------------------------------------------------
(* Captured text on its way to the terminal.                               *)

LEMMA InAppended ==
  ASSUME NEW s \in Seq(Texts), NEW t \in Seq(Texts), NEW v
  PROVE  /\ s \o t \in Seq(Texts)
         /\ In(s \o t, v) <=> In(s, v) \/ In(t, v)
<1>1. /\ s \o t \in Seq(Texts) /\ Len(s \o t) = Len(s) + Len(t)
      /\ \A i \in 1 .. Len(s) + Len(t) : (s \o t)[i] = IF i <= Len(s) THEN s[i] ELSE t[i - Len(s)]
      /\ Len(s) \in Nat /\ Len(t) \in Nat
  BY ConcatProperties, LenProperties
<1>2. DOMAIN s = 1 .. Len(s) /\ DOMAIN t = 1 .. Len(t) /\ DOMAIN (s \o t) = 1 .. Len(s) + Len(t)
  BY <1>1, LenProperties
<1>3. ASSUME In(s, v) PROVE In(s \o t, v)
  <2>1. PICK i \in 1 .. Len(s) : s[i] = v
    BY <1>2, <1>3 DEF In
  <2>2. i \in 1 .. Len(s) + Len(t) /\ (s \o t)[i] = v
    BY <1>1, <2>1
  <2> QED
    BY <1>2, <2>2 DEF In
<1>4. ASSUME In(t, v) PROVE In(s \o t, v)
  <2>1. PICK i \in 1 .. Len(t) : t[i] = v
    BY <1>2, <1>4 DEF In
  <2>2. i + Len(s) \in 1 .. Len(s) + Len(t) /\ (s \o t)[i + Len(s)] = v
    BY <1>1, <2>1
  <2> QED
    BY <1>2, <2>2 DEF In
<1>5. ASSUME In(s \o t, v) PROVE In(s, v) \/ In(t, v)
  <2>1. PICK i \in 1 .. Len(s) + Len(t) : (s \o t)[i] = v
    BY <1>2, <1>5 DEF In
  <2>2. CASE i <= Len(s)
    BY <1>1, <1>2, <2>1, <2>2 DEF In
  <2>3. CASE ~(i <= Len(s))
    <3>1. i - Len(s) \in 1 .. Len(t) /\ t[i - Len(s)] = v
      BY <1>1, <2>1, <2>3
    <3> QED
      BY <1>2, <3>1 DEF In
  <2> QED
    BY <2>2, <2>3
<1> QED
  BY <1>1, <1>3, <1>4, <1>5

LEMMA InWritten ==
  ASSUME NEW w \in Writers, NEW v \in Writers
  PROVE  /\ In(<<w>>, v) <=> v = w
         /\ In(<<w, NL>>, v) <=> v = w
         /\ ~In(<<NL>>, v) /\ ~In(<<>>, v)
<1>1. v # NL
  BY ThreadsApart
<1> QED
  BY <1>1 DEF In

(* A write puts the writer's own text at most, and takes none away. *)
LEMMA PutsPipe ==
  ASSUME TypeOK, NEW w \in Writers, NEW s \in {<<w>>, <<w, NL>>, <<NL>>, <<>>}, NEW next,
         Puts(w, s, next), NEW v \in Writers
  PROVE  /\ InPipe(v) => InPipe(v)'
         /\ InPipe(v)' => InPipe(v) \/ (v = w /\ s \in {<<w>>, <<w, NL>>} /\ v \in taken')
         /\ v \in taken' => v \in taken \/ (v = w /\ InPipe(v)')
<1>0. pipe \in Seq(Texts) /\ s \in Seq(Texts)
  BY WrittenTexts, TypesApart DEF FlowTypes
<1>1. CASE pipe' = pipe /\ taken' = taken
  BY <1>1 DEF InPipe
<1>2. CASE pipe' = pipe \o s /\ taken' = taken \cup ({w} \cap ToSet(s))
  <2>1. In(pipe \o s, v) <=> In(pipe, v) \/ In(s, v)
    BY <1>0, InAppended
  <2>2. /\ s \in {<<w>>, <<w, NL>>} => (In(s, v) <=> v = w) /\ In(s, w)
        /\ s \in {<<NL>>, <<>>} => ~In(s, v)
    <3>1. (In(<<w>>, v) <=> v = w) /\ (In(<<w, NL>>, v) <=> v = w)
      BY InWritten
    <3>2. In(<<w>>, w) /\ In(<<w, NL>>, w) /\ ~In(<<NL>>, v) /\ ~In(<<>>, v)
      BY InWritten
    <3> QED
      BY <3>1, <3>2
  <2>3. s \in {<<w>>, <<w, NL>>} => taken' = taken \cup {w}
    <3>1. {w} \cap {w} = {w} /\ {w} \cap {w, NL} = {w}
      OBVIOUS
    <3>2. ToSet(<<w>>) = {w} /\ ToSet(<<w, NL>>) = {w, NL}
      BY WrittenTexts
    <3> QED
      BY <1>2, <3>1, <3>2
  <2>4. s \in {<<NL>>, <<>>} => taken' = taken
    BY <1>2, WrittenTexts, ThreadsApart
  <2>5. InPipe(v)' <=> In(pipe, v) \/ In(s, v)
    BY <1>2, <2>1 DEF InPipe
  <2> QED
    BY <2>2, <2>3, <2>4, <2>5 DEF InPipe
<1> QED
  BY <1>1, <1>2 DEF Puts

LEMMA WriterPipe ==
  ASSUME TypeOK, SetupInv, WriterInv, NEW w \in Writers,
         PrintStep(w) \/ HandlerLogs(w) \/ ChildStep(w), NEW v \in Writers
  PROVE  /\ InPipe(v) => InPipe(v)'
         /\ v \in taken' => v \in taken \/ (v = w /\ (InPipe(v)' \/ v \in shown'))
<1>1. CASE PrintLookup(w) \/ ChildSpawn(w) \/ ChildExits(w) \/ PrintOpen(w)
  BY <1>1, PrintLookupMoves, ChildSpawnMoves, ChildExitsMoves, PrintOpenMoves DEF InPipe
<1>2. CASE PrintText(w)
  BY <1>2, PrintTextMoves, PutsPipe
<1>3. CASE PrintEnd(w)
  BY <1>3, PrintEndMoves, PutsPipe
<1>4. CASE ChildWrites(w)
  BY <1>4, ChildWritesMoves, PutsPipe
<1>5. CASE HandlerLogs(w)
  BY <1>5, HandlerLogsMoves, PutsPipe
<1>6. CASE KeepText(w) \/ CutLine(w) \/ EmitLine(w)
  BY <1>6, KeepTextMoves, CutLineMoves, EmitLineMoves DEF InPipe, WriterInv, HandInv
<1> QED
  BY <1>1, <1>2, <1>3, <1>4, <1>5, <1>6 DEF PrintStep, ChildStep

LEMMA ShownInvStays ==
  ASSUME TypeOK, SetupInv, WriterInv, ShownInv, [Next]_vars
  PROVE  ShownInv'
<1> SUFFICES ASSUME gaps' \subseteq {"early"}, NEW v \in Writers, v \in taken'
             PROVE  v \in shown' \/ InPipe(v)' \/ InChunk(v)'
  BY StepKeepsTypes, TypesApart DEF ShownInv, TypeOK
<1>1. CASE UNCHANGED vars
  BY <1>1, VarsSame DEF ShownInv, InPipe, InChunk, Sames
<1>2. ASSUME NEW w \in Writers, PrintStep(w) \/ HandlerLogs(w) \/ ChildStep(w)
      PROVE  v \in shown' \/ InPipe(v)' \/ InChunk(v)'
  <2>1. UNCHANGED <<rd, chunk, gaps>> /\ shown \subseteq shown'
    BY <1>2, WriterKeepsTypes, WriterFlow DEF Bystanders, Sames
  <2>2. InChunk(v)' <=> InChunk(v)
    BY <2>1 DEF InChunk
  <2> QED
    BY <1>2, <2>1, <2>2, WriterPipe DEF ShownInv
<1>3. CASE ReadStep
  <2>1. Reading
    BY <1>3, ReaderMoves
  <2>2. v \in taken /\ gaps \subseteq {"early"}
    BY <2>1 DEF Reading, Sames
  <2>3. bypass
    BY <2>1, <2>2 DEF SetupInv, RestoreInv, ReaderLeft, Reading
  <2>4. v \in shown \/ InPipe(v) \/ InChunk(v)
    BY <2>2 DEF ShownInv
  <2>5. InChunk(v) /\ rd = "write" => v \in ToSet(chunk) \cap Writers
    BY DEF InChunk, In, ToSet
  <2>6. ~In(<<>>, v)
    BY InWritten
  <2> QED
    BY <1>3, <2>3, <2>4, <2>5, <2>6, ReaderMoves DEF InPipe, InChunk
<1>6. CASE DecodeFails
  BY <1>6, DecodeFailsMoves
<1>4. CASE InstallStep \/ DisableBegin \/ CloseBegin \/ CloseMark
  <2>1. UNCHANGED <<chunk, taken, shown>> /\ gaps \subseteq gaps' /\ "undone" \notin gaps'
        /\ (UNCHANGED <<pipe, rd>> \/ (rd = "off" /\ pipe' = pipe))
    BY <1>4, InstallFlow
  <2> QED
    BY <2>1 DEF ShownInv, InPipe, InChunk
<1>5. ASSUME NEW r \in Restorers, RestoreStep(r)
      PROVE  v \in shown' \/ InPipe(v)' \/ InChunk(v)'
  <2>1. UNCHANGED <<pipe, rd, chunk, taken, shown>> /\ gaps \subseteq gaps'
    BY <1>5, RestoreFlow
  <2> QED
    BY <2>1 DEF ShownInv, InPipe, InChunk
<1> QED
  BY <1>1, <1>2, <1>3, <1>4, <1>5, <1>6 DEF Next

(* Text that went into the pipe is on the terminal or on its way to it,    *)
(* though close() and a permanent failure close the streams the reading    *)
(* thread copies it to, unless it was given up to a timeout or to a chunk  *)
(* that could not be decoded.                                              *)
THEOREM TextReachesTerminal == Spec => []TerminalComplete
<1>1. Init => TypeOK /\ SetupInv /\ WriterInv /\ ShownInv
  BY TypesInitially, SetupInitially, WriterInvInitially DEF Init, ShownInv
<1>2. TypeOK /\ SetupInv /\ WriterInv /\ ShownInv /\ [Next]_vars
         => (TypeOK /\ SetupInv /\ WriterInv /\ ShownInv)'
  BY StepKeepsTypes, SetupStays, WriterInvStays, ShownInvStays
<1>3. TypeOK /\ ShownInv => TerminalComplete
  BY DEF TypeOK, ShownInv, TerminalComplete, InPipe, InChunk, In, TextsOf, ToSet
<1> QED
  BY <1>1, <1>2, <1>3, PTL DEF Spec

-----------------------------------------------------------------------------
(* Lines of one thread.                                                    *)

LEMMA ForwardOfOne ==
  ASSUME TypeOK, NEW line \in Lines, Forward(line), NEW p \in Writers, line \subseteq Of(p)',
         \A i \in Writers : Of(i) \subseteq Of(i)',
         \A l \in Lines : forwarded[l] > 0 => \E i \in Writers : l \subseteq Of(i)
  PROVE  \A l \in Lines : forwarded'[l] > 0 => \E i \in Writers : l \subseteq Of(i)'
<1> SUFFICES ASSUME NEW l \in Lines, forwarded'[l] > 0
             PROVE  \E i \in Writers : l \subseteq Of(i)'
  OBVIOUS
<1>1. l = line \/ forwarded'[l] = forwarded[l]
  BY ForwardMoves
<1>2. CASE l = line
  BY <1>2
<1>3. CASE forwarded'[l] = forwarded[l]
  <2>1. PICK i \in Writers : l \subseteq Of(i)
    BY <1>3
  <2> QED
    BY <2>1
<1> QED
  BY <1>1, <1>2, <1>3

(* What a thread passes to _emit is the head of what it holds. *)
LEMMA HeadsOfOne ==
  ASSUME TypeOK, WriterInv
  PROVE  /\ \A i \in Writers : out[i] # <<>> => Head(out[i]) \subseteq Of(i)
              /\ Head(out[i]) \in Lines
                                                  /\ Tail(out[i]) = <<>> /\ Head(out[i]) = out[i][1]
                                                  /\ Len(out[i]) = 1
         /\ out["close"] # <<>> => \E p \in Writers : Head(out["close"]) \subseteq Of(p)
<1>1. \A i \in Writers : out[i] \in Seq(Lines) /\ out["close"] \in Seq(Lines)
  BY ThreadsApart, TypesApart DEF FlowTypes
<1>2. ASSUME NEW i \in Writers, out[i] # <<>>
      PROVE  /\ Head(out[i]) \subseteq Of(i) /\ Head(out[i]) \in Lines
             /\ Tail(out[i]) = <<>> /\ Head(out[i]) = out[i][1] /\ Len(out[i]) = 1
  <2>1. Len(out[i]) = 1 /\ out[i][1] \subseteq Of(i)
    BY <1>2 DEF WriterInv, IdentInv
  <2> QED
    BY <1>1, <1>2, <2>1, OneLine, HeadTailProperties
<1>3. ASSUME out["close"] # <<>>
      PROVE  \E p \in Writers : Head(out["close"]) \subseteq Of(p)
  <2>1. out["close"] \in Seq(Lines)
    BY ThreadsApart, TypesApart DEF FlowTypes
  <2>2. 1 \in DOMAIN out["close"] /\ Head(out["close"]) = out["close"][1]
    BY <1>3, <2>1
  <2> QED
    BY <2>2 DEF WriterInv
<1> QED
  BY <1>2, <1>3

(* Every line that was forwarded has the texts of one ident. *)
OneThreadInv ==
    rd = "off" => \A l \in Lines : forwarded[l] > 0 => \E i \in Writers : l \subseteq Of(i)

LEMMA OneThreadStays ==
  ASSUME TypeOK, SetupInv, WriterInv, OneThreadInv, [Next]_vars
  PROVE  OneThreadInv'
<1> SUFFICES ASSUME rd' = "off"
             PROVE  \A l \in Lines : forwarded'[l] > 0 => \E i \in Writers : l \subseteq Of(i)'
  BY DEF OneThreadInv, Lines
<1>0. ASSUME UNCHANGED <<forwarded, ident, taken>>, rd = "off"
      PROVE  \A l \in Lines : forwarded'[l] > 0 => \E i \in Writers : l \subseteq Of(i)'
  BY <1>0 DEF OneThreadInv, Of
<1>1. CASE UNCHANGED vars
  BY <1>0, <1>1, VarsSame DEF vars, flowVars, writerVars
<1>2. ASSUME NEW w \in Writers, PrintStep(w) \/ HandlerLogs(w) \/ ChildStep(w)
      PROVE  \A l \in Lines : forwarded'[l] > 0 => \E i \in Writers : l \subseteq Of(i)'
  <2>1. rd = "off"
    BY <1>2, WriterKeepsTypes DEF Bystanders
  <2>2. \A i \in Writers : Of(i) \subseteq Of(i)'
    BY <1>2, IdentFlow
  <2>3. \A l \in Lines : forwarded[l] > 0 => \E i \in Writers : l \subseteq Of(i)
    BY <2>1 DEF OneThreadInv
  <2>4. CASE EmitLine(w)
    <3>1. EmitNext(ident[w]) /\ ident[w] \in Threads /\ ident[w] \in Writers
      BY <2>4, EmitLineMoves, TypesApart DEF FlowTypes
    <3>2. /\ out[ident[w]] # <<>> /\ Head(out[ident[w]]) \in Lines
          /\ Forward(Head(out[ident[w]]))
      BY <3>1, EmitMoves
    <3>3. Head(out[ident[w]]) \subseteq Of(ident[w])'
      <4>1. Head(out[ident[w]]) \subseteq Of(ident[w]) /\ ident' = ident /\ taken' = taken
        BY <2>4, <3>1, <3>2, HeadsOfOne, EmitLineMoves
      <4> QED
        BY <4>1 DEF Of
    <3>4. PICK p \in Writers : Head(out[ident[w]]) \subseteq Of(p)'
      <4>1. ident' = ident
        BY <2>4, EmitLineMoves
      <4> QED
        BY <3>1, <3>3, <4>1 DEF Of
    <3> QED
      BY <2>2, <2>3, <3>2, <3>4, ForwardOfOne
  <2>5. CASE UNCHANGED forwarded
    BY <2>2, <2>3, <2>5
  <2> QED
    BY <1>2, <2>4, <2>5, PrintLookupMoves, PrintTextMoves, KeepTextMoves, PrintEndMoves,
       CutLineMoves, HandlerLogsMoves, ChildSpawnMoves, ChildWritesMoves, ChildExitsMoves,
       PrintOpenMoves DEF PrintStep, ChildStep
<1>3. CASE ReadStep \/ DecodeFails
  BY <1>3, ReaderMoves, DecodeFailsMoves DEF Reading
<1>4. CASE InstallStep \/ DisableBegin \/ CloseBegin \/ CloseMark
  BY <1>0, <1>4, InstallFlow
<1>5. ASSUME NEW r \in Restorers, RestoreStep(r)
      PROVE  \A l \in Lines : forwarded'[l] > 0 => \E i \in Writers : l \subseteq Of(i)'
  <2>1. rd = "off" /\ UNCHANGED <<ident, taken>>
    BY <1>5, RestoreFlow
  <2>2. CASE EmitNext("close")
    <3>1. out["close"] # <<>> /\ Head(out["close"]) \in Lines /\ Forward(Head(out["close"]))
      BY <2>2, EmitMoves, ThreadsApart
    <3>2. PICK p \in Writers : Head(out["close"]) \subseteq Of(p)
      BY <3>1, HeadsOfOne
    <3>3. \A i \in Writers : Of(i)' = Of(i)
      BY <2>1 DEF Of
    <3> QED
      BY <2>1, <3>1, <3>2, <3>3, ForwardOfOne DEF OneThreadInv
  <2>3. CASE UNCHANGED forwarded
    BY <1>0, <2>1, <2>3
  <2> QED
    BY <1>5, <2>2, <2>3, RestoreFlow
<1> QED
  BY <1>1, <1>2, <1>3, <1>4, <1>5 DEF Next

(* Where sys.stdout is wrapped, a line that is forwarded is of one ident,  *)
(* so of one thread or of threads that lived one after the other, however  *)
(* the writes of the threads interleave and whichever idents are reused.   *)
THEOREM OneThreadPerLine == Spec => []LinesOfOneThread
<1>1. Init => TypeOK /\ SetupInv /\ WriterInv /\ OneThreadInv
  BY TypesInitially, SetupInitially, WriterInvInitially DEF Init, OneThreadInv
<1>2. TypeOK /\ SetupInv /\ WriterInv /\ OneThreadInv /\ [Next]_vars
         => (TypeOK /\ SetupInv /\ WriterInv /\ OneThreadInv)'
  BY StepKeepsTypes, SetupStays, WriterInvStays, OneThreadStays
<1>3. OneThreadInv => LinesOfOneThread
  <2> SUFFICES ASSUME OneThreadInv, rd = "off", NEW l \in Lines, forwarded[l] > 0
               PROVE  \A v, w \in l : ident[v] = ident[w]
    BY DEF LinesOfOneThread
  <2>1. PICK i \in Writers : l \subseteq Of(i)
    BY DEF OneThreadInv
  <2> QED
    BY <2>1 DEF Of
<1> QED
  BY <1>1, <1>2, <1>3, PTL DEF Spec

-----------------------------------------------------------------------------
(* The places a text can be in.                                            *)

LEMMA OnceAppended ==
  ASSUME NEW s \in Seq(Texts), NEW t \in Seq(Texts), Once(s), Once(t),
         \A v \in Writers : ~(In(s, v) /\ In(t, v))
  PROVE  Once(s \o t)
<1>1. /\ \A i \in 1 .. Len(s) + Len(t) : (s \o t)[i] = IF i <= Len(s) THEN s[i] ELSE t[i - Len(s)]
      /\ Len(s) \in Nat /\ Len(t) \in Nat
  BY ConcatProperties, LenProperties
<1>2. DOMAIN s = 1 .. Len(s) /\ DOMAIN t = 1 .. Len(t) /\ DOMAIN (s \o t) = 1 .. Len(s) + Len(t)
  BY LenProperties, ConcatProperties
<1> SUFFICES ASSUME NEW i \in 1 .. Len(s) + Len(t), NEW j \in 1 .. Len(s) + Len(t), i <= j,
                    (s \o t)[i] \in Writers, (s \o t)[i] = (s \o t)[j]
             PROVE  i = j
  <2>1. \A i, j \in 1 .. Len(s) + Len(t) : i <= j \/ j <= i
    BY <1>1
  <2> QED
    BY <1>2, <2>1 DEF Once
<1>3. CASE j <= Len(s)
  BY <1>1, <1>2, <1>3 DEF Once
<1>4. CASE i <= Len(s) /\ ~(j <= Len(s))
  <2>1. s[i] \in Writers /\ s[i] = t[j - Len(s)] /\ i \in DOMAIN s /\ j - Len(s) \in DOMAIN t
    BY <1>1, <1>2, <1>4
  <2>2. In(s, s[i]) /\ In(t, s[i])
    BY <2>1 DEF In
  <2> QED
    BY <2>1, <2>2
<1>5. CASE ~(i <= Len(s))
  <2>1. /\ t[i - Len(s)] \in Writers /\ t[i - Len(s)] = t[j - Len(s)]
        /\ i - Len(s) \in DOMAIN t /\ j - Len(s) \in DOMAIN t
    BY <1>1, <1>2, <1>5
  <2>2. i - Len(s) = j - Len(s)
    BY <2>1 DEF Once
  <2> QED
    BY <1>1, <2>2
<1> QED
  BY <1>1, <1>3, <1>4, <1>5

LEMMA OnceWritten ==
  ASSUME NEW w \in Writers
  PROVE  Once(<<w>>) /\ Once(<<w, NL>>) /\ Once(<<NL>>) /\ Once(<<>>)
<1>1. NL \notin Writers
  BY CaptureAssumption
<1> QED
  BY <1>1 DEF Once

LEMMA InTail ==
  ASSUME NEW s \in Seq(Lines), s # <<>>, NEW v
  PROVE  /\ InLines(s, v) <=> v \in Head(s) \/ InLines(Tail(s), v)
         /\ OnceLines(s) => OnceLines(Tail(s)) /\ ~(v \in Head(s) /\ InLines(Tail(s), v))
<1>1. /\ Head(s) = s[1] /\ 1 \in DOMAIN s /\ Tail(s) \in Seq(Lines)
      /\ Len(s) \in Nat /\ DOMAIN s = 1 .. Len(s) /\ DOMAIN Tail(s) = 1 .. Len(s) - 1
  BY HeadTailProperties, LenProperties
<1>2. \A k \in DOMAIN Tail(s) : k + 1 \in DOMAIN s /\ Tail(s)[k] = s[k + 1] /\ k + 1 # 1
  BY <1>1
<1>3. \A k \in DOMAIN s : k = 1 \/ (k - 1 \in DOMAIN Tail(s) /\ Tail(s)[k - 1] = s[k])
  BY <1>1
<1>4. InLines(s, v) <=> v \in Head(s) \/ InLines(Tail(s), v)
  BY <1>1, <1>2, <1>3 DEF InLines
<1>5. ASSUME OnceLines(s)
      PROVE  OnceLines(Tail(s)) /\ ~(v \in Head(s) /\ InLines(Tail(s), v))
  <2>1. ASSUME NEW i \in DOMAIN Tail(s), NEW j \in DOMAIN Tail(s),
                 NEW u \in Tail(s)[i] \cap Tail(s)[j]
        PROVE  i = j
    <3>1. i + 1 \in DOMAIN s /\ j + 1 \in DOMAIN s /\ u \in s[i + 1] \cap s[j + 1]
      BY <1>2
    <3>2. i + 1 = j + 1
      BY <1>5, <3>1 DEF OnceLines
    <3> QED
      BY <1>1, <3>2
  <2>2. ASSUME NEW k \in DOMAIN Tail(s), v \in Tail(s)[k], v \in Head(s)
        PROVE  FALSE
    <3>1. k + 1 \in DOMAIN s /\ v \in s[k + 1] \cap s[1] /\ k + 1 # 1
      BY <1>1, <1>2, <2>2
    <3> QED
      BY <1>1, <1>5, <3>1 DEF OnceLines
  <2> QED
    BY <2>1, <2>2 DEF OnceLines, InLines
<1> QED
  BY <1>4, <1>5

(* A text of the chunk, or that was buffered, is in one part of the cut. *)
LEMMA CutPlaces ==
  ASSUME TypeOK, NEW s \in Seq(Texts), Once(s), NEW v \in Writers, ~(In(s, v) /\ v \in rest)
  PROVE  /\ InLines(Cut(s).lines, v) \/ v \in Cut(s).rest <=> In(s, v) \/ v \in rest
         /\ ~(InLines(Cut(s).lines, v) /\ v \in Cut(s).rest)
         /\ \A k, l \in DOMAIN Cut(s).lines :
               v \in Cut(s).lines[k] /\ v \in Cut(s).lines[l] => k = l
<1> DEFINE n == Ended(s, Len(s) + 1)
<1> DEFINE c == Cut(s).lines
<1>1. /\ n \in Nat /\ DOMAIN c = 1 .. n /\ \A k \in 1 .. n : c[k] = Part(s, k - 1)
      /\ Cut(s).rest = Part(s, n)
  <2>1. Len(s) + 1 \in Int
    BY LenProperties
  <2>2. n \in Nat
    BY <2>1, EndedCounts
  <2> QED
    BY <2>2, CutTypes, LenProperties
<1>2. v # NL /\ DOMAIN s = 1 .. Len(s) /\ Len(s) \in Nat
  BY ThreadsApart, LenProperties
<1>3. \A k : v \in Part(s, k) <=>
          (\E i \in DOMAIN s : s[i] = v /\ Ended(s, i) = k) \/ (k = 0 /\ v \in rest)
  BY <1>2 DEF Part
<1>4. \A i \in DOMAIN s : Ended(s, i) \in Nat /\ Ended(s, i) <= n
  <2> SUFFICES ASSUME NEW i \in DOMAIN s PROVE Ended(s, i) \in Nat /\ Ended(s, i) <= n
    OBVIOUS
  <2>1. i \in Int /\ Len(s) + 1 \in Int /\ i <= Len(s) + 1
    BY <1>2
  <2> QED
    BY <2>1, EndedCounts
<1>5. ASSUME NEW k, NEW l, v \in Part(s, k), v \in Part(s, l) PROVE k = l
  BY <1>2, <1>3, <1>5 DEF Once, In
<1> HIDE DEF n, c
<1>6. In(s, v) \/ v \in rest => \E k \in 0 .. n : v \in Part(s, k)
  BY <1>1, <1>3, <1>4 DEF In
<1>7. \A k \in 0 .. n : v \in Part(s, k) => In(s, v) \/ v \in rest
  BY <1>3 DEF In
<1>8. InLines(c, v) <=> \E k \in 0 .. n : k # n /\ v \in Part(s, k)
  <2>1. ASSUME NEW k \in DOMAIN c, v \in c[k] PROVE k - 1 \in 0 .. n /\ k - 1 # n
                 /\ v \in Part(s, k - 1)
    BY <1>1, <2>1
  <2>2. ASSUME NEW k \in 0 .. n, k # n, v \in Part(s, k) PROVE k + 1 \in DOMAIN c /\ v \in c[k + 1]
    <3>1. k + 1 \in 1 .. n /\ (k + 1) - 1 = k
      BY <1>1, <2>2
    <3> QED
      BY <1>1, <2>2, <3>1
  <2> QED
    BY <2>1, <2>2 DEF InLines
<1>9. \A k, l \in DOMAIN c : v \in c[k] /\ v \in c[l] => k = l
  <2> SUFFICES ASSUME NEW k \in 1 .. n, NEW l \in 1 .. n, v \in c[k], v \in c[l] PROVE k = l
    BY <1>1
  <2>1. v \in Part(s, k - 1) /\ v \in Part(s, l - 1)
    BY <1>1
  <2>2. k - 1 = l - 1
    BY <1>5, <2>1
  <2> QED
    BY <1>1, <2>2
<1>10. n \in 0 .. n /\ (v \in Cut(s).rest <=> v \in Part(s, n))
  BY <1>1
<1> QED
  BY <1>5, <1>6, <1>7, <1>8, <1>9, <1>10 DEF c

LEMMA SentMoves ==
  ASSUME TypeOK, NEW line \in Lines, Forward(line), NEW v \in Writers
  PROVE  /\ Sent(v) => Sent(v)'
         /\ Sent(v)' => Sent(v) \/ v \in line
         /\ v \in line /\ ~closed /\ remote => Sent(v)'
<1>1. forwarded \in [Lines -> 0 .. 2]
  BY DEF TypeOK
<1>2. CASE line = {} \/ closed \/ ~remote
  <2>1. forwarded' = forwarded
    BY <1>2, ForwardMoves
  <2> QED
    BY <1>2, <2>1 DEF Sent, Lines
<1>3. CASE ~(line = {} \/ closed \/ ~remote)
  <2>1. forwarded'[line] > 0 /\ \A l \in Lines \ {line} : forwarded'[l] = forwarded[l]
    BY <1>3, ForwardMoves
  <2> QED
    BY <2>1 DEF Sent, Lines
<1> QED
  BY <1>2, <1>3

LEMMA SentSame ==
  ASSUME forwarded' = forwarded, NEW v
  PROVE  Sent(v)' <=> Sent(v)
BY DEF Sent, Lines

(* A line none of whose texts was sent is forwarded once. *)
LEMMA ForwardOnce ==
  ASSUME TypeOK, ForwardedOnce, NEW line \in Lines, Forward(line),
         \A v \in line : ~Sent(v)
  PROVE  ForwardedOnce'
<1> SUFFICES ASSUME NEW l \in Lines, NEW m \in Lines, forwarded'[l] > 0, forwarded'[m] > 0
             PROVE  forwarded'[l] = 1 /\ (l # m => l \cap m = {})
  BY DEF ForwardedOnce, Lines
<1>1. forwarded \in [Lines -> 0 .. 2]
  BY DEF TypeOK
<1>2. CASE line = {} \/ closed \/ ~remote
  BY <1>2, ForwardMoves DEF ForwardedOnce
<1>3. CASE ~(line = {} \/ closed \/ ~remote)
  <2>1. \A k \in Lines : forwarded[k] > 0 => k \cap line = {}
    BY DEF Sent
  <2>2. forwarded[line] = 0
    BY <1>1, <1>3, <2>1
  <2>3. forwarded'[line] = 1 /\ \A k \in Lines \ {line} : forwarded'[k] = forwarded[k]
    BY <1>3, <2>2, ForwardMoves
  <2>4. CASE l = line
    BY <2>1, <2>3, <2>4
  <2>5. CASE l # line
    BY <2>1, <2>3, <2>5 DEF ForwardedOnce
  <2> QED
    BY <2>4, <2>5
<1> QED
  BY <1>2, <1>3

LEMMA OnceSame ==
  ASSUME ForwardedOnce, forwarded' = forwarded
  PROVE  ForwardedOnce'
BY DEF ForwardedOnce, Lines

LEMMA PlaceSame ==
  ASSUME NEW v \in Writers, PlaceInv(v),
         InPipe(v)' <=> InPipe(v), InChunk(v)' <=> InChunk(v), InRest(v)' <=> InRest(v),
         InRead(v)' <=> InRead(v), InBuffer(v)' <=> InBuffer(v), InHand(v)' <=> InHand(v),
         InDrain(v)' <=> InDrain(v), Sent(v)' <=> Sent(v),
         at'[v] \in Unwritten => at[v] \in Unwritten
  PROVE  PlaceInv(v)' /\ (Somewhere(v)' <=> Somewhere(v))
BY DEF PlaceInv, Apart, Somewhere

(* The places that depend on the reader only. *)
LEMMA ReaderPlaces ==
  ASSUME UNCHANGED <<rd, chunk, rest>>, out'["reader"] = out["reader"], NEW v \in Writers
  PROVE  /\ InChunk(v)' <=> InChunk(v)
         /\ InRest(v)' <=> InRest(v)
         /\ InRead(v)' <=> InRead(v)
BY DEF InChunk, InRest, InRead

LEMMA ThreadPlaces ==
  ASSUME NEW v \in Writers, ident'[v] = ident[v], buffers'[ident[v]] = buffers[ident[v]],
         out'[ident[v]] = out[ident[v]]
  PROVE  (InBuffer(v)' <=> InBuffer(v)) /\ (InHand(v)' <=> InHand(v))
BY DEF InBuffer, InHand

LEMMA DrainPlace ==
  ASSUME out'["close"] = out["close"], NEW v \in Writers
  PROVE  InDrain(v)' <=> InDrain(v)
BY DEF InDrain

LEMMA PipePlace ==
  ASSUME pipe' = pipe, NEW v \in Writers
  PROVE  InPipe(v)' <=> InPipe(v)
BY DEF InPipe

FlowAll == FlowInv /\ ForwardedOnce

(* What the ident's threads left in the buffer goes to the thread's hands. *)
LEMMA CutLineFlow ==
  ASSUME TypeOK, SetupInv, WriterInv, FlowAll, NEW w \in Writers, CutLine(w), NEW v \in Writers
  PROVE  PlaceInv(v)' /\ (Somewhere(v) => Somewhere(v)')
<1> DEFINE i == ident[w]
<1>1. /\ Bystanders(w) /\ UNCHANGED <<pipe, ident, taken, forwarded>>
      /\ at[w] = "cut" /\ at'[w] = "emit" /\ buffers'[i] = {}
      /\ out'[i] = Append(out[i], buffers[i])
  BY CutLineMoves
<1>2. i \in Writers /\ out[i] = <<>> /\ buffers[i] \in Lines
  BY <1>1, HandEmpty, TypesApart DEF FlowTypes
<1>3. PlaceInv(v) /\ (at'[v] \in Unwritten => at[v] \in Unwritten)
  BY <1>1 DEF FlowAll, FlowInv, Unwritten, Bystanders
<1> HIDE DEF i
<1>4. /\ InPipe(v)' <=> InPipe(v)
      /\ InChunk(v)' <=> InChunk(v)
      /\ InRest(v)' <=> InRest(v)
      /\ InRead(v)' <=> InRead(v)
      /\ InDrain(v)' <=> InDrain(v)
      /\ Sent(v)' <=> Sent(v)
  <2>1. /\ UNCHANGED <<rd, chunk, rest>>
        /\ out'["reader"] = out["reader"] /\ out'["close"] = out["close"]
    BY <1>1, <1>2, ThreadsApart DEF Bystanders, i
  <2> QED
    BY <1>1, <2>1, PipePlace, ReaderPlaces, DrainPlace, SentSame
<1>5. CASE ident[v] # i
  <2>1. ident[v] \in Writers /\ ident[v] \in Threads
    BY ThreadsApart, TypesApart DEF FlowTypes
  <2>2. (InBuffer(v)' <=> InBuffer(v)) /\ (InHand(v)' <=> InHand(v))
    BY <1>1, <1>5, <2>1, ThreadPlaces DEF Bystanders, i
  <2> QED
    BY <1>3, <1>4, <2>2, PlaceSame
<1>6. CASE ident[v] = i
  <2>1. out'[i] = <<buffers[i]>>
    BY <1>1, <1>2
  <2>2. DOMAIN <<buffers[i]>> = {1} /\ <<buffers[i]>>[1] = buffers[i]
    OBVIOUS
  <2>3. InLines(out'[i], v) <=> v \in buffers[i]
    BY <2>1, <2>2 DEF InLines
  <2>4. ~InBuffer(v)' /\ (InHand(v)' <=> InBuffer(v)) /\ ~InHand(v)
    BY <1>1, <1>2, <1>6, <2>3 DEF InBuffer, InHand, InLines
  <2> QED
    BY <1>3, <1>4, <2>4 DEF PlaceInv, Apart, Somewhere
<1> QED
  BY <1>5, <1>6

(* and from them to send(). *)
LEMMA EmitLineFlow ==
  ASSUME TypeOK, SetupInv, WriterInv, FlowAll, NEW w \in Writers, EmitLine(w)
  PROVE  /\ \A v \in Writers : PlaceInv(v)' /\ (Somewhere(v) /\ remote /\ ~closed => Somewhere(v)')
         /\ ForwardedOnce'
<1> DEFINE i == ident[w]
<1>1. /\ Bystanders(w) /\ UNCHANGED <<pipe, ident, buffers, taken>>
      /\ at'[w] = "over" /\ EmitNext(i) /\ i \in Writers /\ i \in Threads
  BY EmitLineMoves, TypesApart DEF FlowTypes
<1> HIDE DEF i
<1>2. /\ out[i] # <<>> /\ Head(out[i]) \in Lines /\ Forward(Head(out[i]))
      /\ out'[i] = Tail(out[i]) /\ out[i] \in Seq(Lines)
  BY <1>1, EmitMoves, TypesApart DEF FlowTypes
<1>3. Tail(out[i]) = <<>> /\ Head(out[i]) \subseteq Of(i)
  BY <1>1, <1>2, HeadsOfOne
<1>4. /\ UNCHANGED <<rd, chunk, rest>>
      /\ out'["reader"] = out["reader"] /\ out'["close"] = out["close"]
  BY <1>1, ThreadsApart DEF Bystanders, i
<1>5. ASSUME NEW v \in Writers
      PROVE  /\ PlaceInv(v)' /\ (Somewhere(v) /\ remote /\ ~closed => Somewhere(v)')
             /\ v \in Head(out[i]) => ~Sent(v)
  <2>1. PlaceInv(v) /\ (at'[v] \in Unwritten => at[v] \in Unwritten)
    BY <1>1 DEF FlowAll, FlowInv, Unwritten, Bystanders
  <2>2. /\ InPipe(v)' <=> InPipe(v)
        /\ InChunk(v)' <=> InChunk(v)
        /\ InRest(v)' <=> InRest(v)
        /\ InRead(v)' <=> InRead(v)
        /\ InDrain(v)' <=> InDrain(v)
        /\ InBuffer(v)' <=> InBuffer(v)
    BY <1>1, <1>4, PipePlace, ReaderPlaces, DrainPlace DEF InBuffer
  <2>3. CASE ident[v] # i
    <3>1. ident[v] \in Threads /\ v \notin Head(out[i])
      BY <1>3, <2>3, ThreadsApart, TypesApart DEF FlowTypes, Of
    <3>2. InHand(v)' <=> InHand(v)
      BY <1>1, <2>3, <3>1 DEF InHand, Bystanders, i
    <3>3. Sent(v)' <=> Sent(v)
      BY <1>2, <3>1, SentMoves
    <3>4. PlaceInv(v)' /\ (Somewhere(v)' <=> Somewhere(v))
      BY <2>1, <2>2, <3>2, <3>3, PlaceSame
    <3> QED
      BY <3>1, <3>4
  <2>4. CASE ident[v] = i
    <3>1. ~InHand(v)' /\ (InHand(v) <=> v \in Head(out[i]))
      <4>1. InHand(v)' <=> InLines(Tail(out[i]), v)
        BY <1>1, <1>2, <2>4 DEF InHand
      <4>2. InHand(v) <=> v \in Head(out[i]) \/ InLines(Tail(out[i]), v)
        BY <1>2, <2>4, InTail DEF InHand
      <4>3. ~InLines(<<>>, v)
        BY DEF InLines
      <4> QED
        BY <1>3, <4>1, <4>2, <4>3
    <3>2. /\ Sent(v) => Sent(v)'
          /\ Sent(v)' => Sent(v) \/ InHand(v)
          /\ InHand(v) /\ ~closed /\ remote => Sent(v)'
      BY <1>2, <3>1, SentMoves
    <3> QED
      BY <2>1, <2>2, <3>1, <3>2 DEF PlaceInv, Apart, Somewhere
  <2> QED
    BY <2>3, <2>4
<1>6. \A v \in Head(out[i]) : ~Sent(v)
  BY <1>2, <1>5 DEF Lines
<1>7. ForwardedOnce'
  BY <1>2, <1>6, ForwardOnce DEF FlowAll
<1> QED
  BY <1>5, <1>7

(* The other writers see nothing of a step of w, unless they had its ident. *)
LEMMA OthersPlaces ==
  ASSUME TypeOK, SetupInv, WriterInv, FlowAll, NEW w \in Writers,
         PrintStep(w) \/ HandlerLogs(w) \/ ChildStep(w), NEW v \in Writers \ {w}
  PROVE  PlaceInv(v)' /\ (Somewhere(v) /\ remote /\ ~closed => Somewhere(v)')
<1>1. CASE CutLine(w)
  BY <1>1, CutLineFlow
<1>2. CASE EmitLine(w)
  BY <1>2, EmitLineFlow
<1>3. CASE ~CutLine(w) /\ ~EmitLine(w)
  <2>1. Bystanders(w) /\ out' = out
    BY <1>3, WriterKeepsTypes, PrintLookupMoves, PrintTextMoves, KeepTextMoves, PrintEndMoves,
       HandlerLogsMoves, ChildSpawnMoves, ChildWritesMoves, ChildExitsMoves, PrintOpenMoves
       DEF PrintStep, ChildStep
  <2>2. InPipe(v)' <=> InPipe(v)
    <3>1. CASE UNCHANGED pipe
      BY <3>1, PipePlace
    <3>2. CASE PrintText(w)
      BY <3>2, PrintTextMoves, PutsPipe
    <3>3. CASE PrintEnd(w)
      <4> DEFINE next == IF ref[w] = "captured" THEN "cut" ELSE "over"
      <4>1. PICK s \in {<<NL>>, <<>>} : Puts(w, s, next)
        BY <3>3, PrintEndMoves
      <4>2. Puts(w, s, next) /\ s \in {<<w>>, <<w, NL>>, <<NL>>, <<>>}
        BY <4>1
      <4> HIDE DEF next
      <4> QED
        BY <4>2, PutsPipe
    <3>4. CASE ChildWrites(w)
      BY <3>4, ChildWritesMoves, PutsPipe
    <3>5. CASE HandlerLogs(w)
      BY <3>5, HandlerLogsMoves, PutsPipe
    <3> QED
      BY <1>3, <3>1, <3>2, <3>3, <3>4, <3>5, PrintLookupMoves, KeepTextMoves, ChildSpawnMoves,
         ChildExitsMoves, PrintOpenMoves DEF PrintStep, ChildStep
  <2>3. Sent(v)' <=> Sent(v)
    BY <1>3, SentSame, PrintLookupMoves, PrintTextMoves, KeepTextMoves, PrintEndMoves,
       HandlerLogsMoves, ChildSpawnMoves, ChildWritesMoves, ChildExitsMoves, PrintOpenMoves
       DEF PrintStep, ChildStep
  <2>4. (InBuffer(v)' <=> InBuffer(v)) /\ (InHand(v)' <=> InHand(v))
    <3>1. ident'[v] = ident[v] /\ ident[v] \in Writers
      BY <2>1, TypesApart DEF Bystanders, FlowTypes
    <3>2. CASE UNCHANGED buffers
      BY <2>1, <3>1, <3>2, ThreadPlaces
    <3>3. CASE KeepText(w)
      BY <2>1, <3>1, <3>3, KeepTextMoves DEF InBuffer, InHand, Bystanders
    <3> QED
      BY <1>3, <3>2, <3>3, PrintLookupMoves, PrintTextMoves, PrintEndMoves, HandlerLogsMoves,
         ChildSpawnMoves, ChildWritesMoves, ChildExitsMoves, PrintOpenMoves
         DEF PrintStep, ChildStep
  <2>5. UNCHANGED <<rd, chunk, rest>> /\ at'[v] = at[v]
    BY <2>1 DEF Bystanders
  <2> QED
    BY <2>1, <2>2, <2>3, <2>4, <2>5, PlaceSame, ReaderPlaces, DrainPlace DEF FlowAll, FlowInv
<1> QED
  BY <1>1, <1>2, <1>3

(* A write by w, which has nothing under way unless it ends its line. *)
LEMMA PutPlaces ==
  ASSUME TypeOK, SetupInv, WriterInv, FlowAll, NEW w \in Writers, Bystanders(w),
         NEW s \in {<<w>>, <<w, NL>>, <<NL>>, <<>>}, NEW next, Puts(w, s, next),
         UNCHANGED <<ident, buffers, out, forwarded>>,
         s \in {<<NL>>, <<>>} \/ at[w] \in Unwritten,
         at'[w] \in Unwritten => pipe' = pipe /\ at[w] \in Unwritten
  PROVE  /\ PlaceInv(w)' /\ Once(pipe') /\ ForwardedOnce'
         /\ Somewhere(w) => Somewhere(w)'
         /\ w \in taken' => w \in taken \/ Somewhere(w)'
<1>1. UNCHANGED <<rd, chunk, rest>>
  BY DEF Bystanders
<1>2. /\ InChunk(w)' <=> InChunk(w)
      /\ InRest(w)' <=> InRest(w)
      /\ InRead(w)' <=> InRead(w)
      /\ InBuffer(w)' <=> InBuffer(w)
      /\ InHand(w)' <=> InHand(w)
      /\ InDrain(w)' <=> InDrain(w)
      /\ Sent(w)' <=> Sent(w)
  BY <1>1, ReaderPlaces, ThreadPlaces, DrainPlace, SentSame
<1>3. PlaceInv(w)
  BY DEF FlowAll, FlowInv
<1>4. /\ InPipe(w) => InPipe(w)'
      /\ InPipe(w)' => InPipe(w) \/ s \in {<<w>>, <<w, NL>>}
      /\ w \in taken' => w \in taken \/ InPipe(w)'
  BY PutsPipe
<1>5. s \in {<<w>>, <<w, NL>>} => s \notin {<<NL>>, <<>>}
  <2>1. w # NL
    BY ThreadsApart
  <2>2. In(<<w>>, w) /\ In(<<w, NL>>, w) /\ ~In(<<NL>>, w) /\ ~In(<<>>, w)
    BY InWritten
  <2> QED
    BY <2>2
<1>6. at'[w] \in Unwritten => (InPipe(w)' <=> InPipe(w))
  BY PipePlace
<1>7. PlaceInv(w)'
  BY <1>2, <1>3, <1>4, <1>5, <1>6 DEF PlaceInv, Apart, Somewhere
<1>8. /\ Somewhere(w) => Somewhere(w)'
      /\ w \in taken' => w \in taken \/ Somewhere(w)'
  BY <1>2, <1>4 DEF Somewhere
<1>9. Once(pipe')
  <2>1. CASE pipe' = pipe
    BY <2>1 DEF FlowAll, FlowInv
  <2>2. CASE pipe' = pipe \o s
    <3>1. pipe \in Seq(Texts) /\ s \in Seq(Texts)
      BY WrittenTexts, TypesApart DEF FlowTypes
    <3>2. Once(pipe) /\ Once(s)
      BY OnceWritten DEF FlowAll, FlowInv
    <3>3. \A v \in Writers : ~(In(pipe, v) /\ In(s, v))
      <4> SUFFICES ASSUME NEW v \in Writers, In(pipe, v), In(s, v) PROVE FALSE
        OBVIOUS
      <4>1. (In(<<w>>, v) <=> v = w) /\ (In(<<w, NL>>, v) <=> v = w) /\ ~In(<<NL>>, v)
              /\ ~In(<<>>, v)
        BY InWritten
      <4>2. v = w /\ s \in {<<w>>, <<w, NL>>}
        BY <4>1
      <4>3. at[w] \in Unwritten
        BY <1>5, <4>2
      <4> QED
        BY <1>3, <4>2, <4>3 DEF PlaceInv, Somewhere, InPipe
    <3> QED
      BY <2>2, <3>1, <3>2, <3>3, OnceAppended
  <2> QED
    BY <2>1, <2>2 DEF Puts
<1>10. ForwardedOnce'
  BY OnceSame DEF FlowAll
<1> QED
  BY <1>7, <1>8, <1>9, <1>10

LEMMA OwnPlaces ==
  ASSUME TypeOK, SetupInv, WriterInv, FlowAll, NEW w \in Writers,
         PrintStep(w) \/ HandlerLogs(w) \/ ChildStep(w)
  PROVE  /\ PlaceInv(w)' /\ Once(pipe') /\ ForwardedOnce'
         /\ Somewhere(w) /\ remote /\ ~closed => Somewhere(w)'
         /\ w \in taken' => w \in taken \/ Somewhere(w)'
<1>1. Bystanders(w)
  BY WriterKeepsTypes
<1>2. PlaceInv(w) /\ HandInv(w) /\ Once(pipe) /\ ForwardedOnce
  BY DEF FlowAll, FlowInv, WriterInv
<1>3. /\ UNCHANGED <<rd, chunk, rest>> /\ ident[w] \in Writers
      /\ out'["reader"] = out["reader"] /\ out'["close"] = out["close"]
  <2>1. ident[w] \in Writers
    BY TypesApart DEF FlowTypes
  <2> QED
    BY <1>1, <2>1, ThreadsApart DEF Bystanders
<1>4. /\ InChunk(w)' <=> InChunk(w)
      /\ InRest(w)' <=> InRest(w)
      /\ InRead(w)' <=> InRead(w)
      /\ InDrain(w)' <=> InDrain(w)
  BY <1>3, ReaderPlaces, DrainPlace
<1>11. CASE PrintLookup(w)
  <2>1. UNCHANGED <<pipe, buffers, taken, out, forwarded>> /\ at[w] = "new"
    BY <1>11, PrintLookupMoves
  <2>2. w \notin taken /\ ~Somewhere(w) /\ ident'[w] \in Writers
    BY <1>1, <1>2, <2>1 DEF HandInv, PlaceInv, Unwritten, Bystanders
  <2>3. IdentInv(ident'[w])
    BY <2>2 DEF WriterInv
  <2>4. ~InBuffer(w)'
    BY <2>1, <2>2, <2>3 DEF InBuffer, IdentInv, Of
  <2>5. ~InHand(w)'
    <3> DEFINE i == ident'[w]
    <3>1. out[i] \in Seq(Lines)
      BY <2>2, ThreadsApart, TypesApart DEF FlowTypes
    <3>2. out[i] # <<>> => Len(out[i]) = 1 /\ w \notin out[i][1]
      BY <2>2, <2>3 DEF IdentInv, Of
    <3>3. InHand(w)' <=> InLines(out[i], w)
      BY <2>1 DEF InHand
    <3> HIDE DEF i
    <3>4. ~InLines(out[i], w)
      <4>1. CASE out[i] = <<>>
        BY <4>1 DEF InLines
      <4>2. CASE out[i] # <<>>
        <5>1. DOMAIN out[i] = 1 .. 1
          BY <3>1, <3>2, <4>2, LenProperties
        <5> QED
          BY <3>2, <4>2, <5>1 DEF InLines
      <4> QED
        BY <4>1, <4>2
    <3> QED
      BY <3>3, <3>4
  <2>6. /\ InPipe(w)' <=> InPipe(w)
        /\ Sent(w)' <=> Sent(w)
    BY <2>1, PipePlace, SentSame
  <2>7. ~Somewhere(w)'
    BY <1>4, <2>2, <2>4, <2>5, <2>6 DEF Somewhere
  <2>8. PlaceInv(w)'
    BY <2>7 DEF PlaceInv, Apart, Somewhere
  <2> QED
    BY <1>2, <2>1, <2>2, <2>8, OnceSame
<1>5. CASE ChildSpawn(w) \/ ChildExits(w) \/ PrintOpen(w)
  <2>1. /\ UNCHANGED <<pipe, ident, buffers, taken, out, forwarded>>
        /\ at'[w] \in Unwritten => at[w] \in Unwritten
    BY <1>5, ChildSpawnMoves, ChildExitsMoves, PrintOpenMoves DEF Unwritten
  <2>2. /\ InPipe(w)' <=> InPipe(w)
        /\ InBuffer(w)' <=> InBuffer(w)
        /\ InHand(w)' <=> InHand(w)
        /\ Sent(w)' <=> Sent(w)
    BY <2>1, PipePlace, ThreadPlaces, SentSame
  <2>3. PlaceInv(w)' /\ (Somewhere(w)' <=> Somewhere(w))
    BY <1>2, <1>4, <2>1, <2>2, PlaceSame
  <2> QED
    BY <1>2, <2>1, <2>3, OnceSame
<1>6. CASE PrintText(w)
  <2> DEFINE next == IF ref[w] = "captured" THEN "keep" ELSE "end"
  <2>1. /\ Puts(w, <<w>>, next) /\ at[w] \in Unwritten
             /\ UNCHANGED <<ident, buffers, out, forwarded>>
        /\ at'[w] \in {next, "over"} /\ Shut(w, ref[w], <<w>>)
    BY <1>6, PrintTextMoves DEF Unwritten
  <2>2. at'[w] \in Unwritten => pipe' = pipe
    <3>1. ref[w] = "captured" => fd = "terminal" /\ ~process
      BY DEF SetupInv, RestoreInv, CapturedBy, Undone
    <3> QED
      BY <2>1, <3>1 DEF Shut, Unwritten
  <2> HIDE DEF next
  <2> QED
    BY <1>1, <2>1, <2>2, PutPlaces
<1>7. CASE PrintEnd(w)
  <2> DEFINE next == IF ref[w] = "captured" THEN "cut" ELSE "over"
  <2>1. PICK s \in {<<NL>>, <<>>} :
          /\ Puts(w, s, next) /\ at'[w] \in {next, "over"}
               /\ UNCHANGED <<ident, buffers, out, forwarded>>
    BY <1>7, PrintEndMoves
  <2>2. at'[w] \notin Unwritten
    BY <2>1 DEF Unwritten
  <2> HIDE DEF next
  <2> QED
    BY <1>1, <2>1, <2>2, PutPlaces
<1>8. CASE ChildWrites(w)
  BY <1>1, <1>8, ChildWritesMoves, PutPlaces DEF Unwritten
<1>9. CASE HandlerLogs(w)
  BY <1>1, <1>9, HandlerLogsMoves, PutPlaces DEF Unwritten
<1>10. CASE KeepText(w)
  <2>1. /\ UNCHANGED <<pipe, out, forwarded>> /\ at[w] \in Unwritten /\ at'[w] \notin Unwritten
        /\ w \in buffers'[ident'[w]] /\ ident' = ident
    BY <1>10, KeepTextMoves DEF Unwritten
  <2>2. /\ InPipe(w)' <=> InPipe(w)
        /\ Sent(w)' <=> Sent(w)
    BY <2>1, PipePlace, SentSame
  <2>3. InBuffer(w)' /\ (InHand(w)' <=> InHand(w))
    BY <2>1 DEF InBuffer, InHand
  <2>4. PlaceInv(w)' /\ Somewhere(w)'
    BY <1>2, <1>4, <2>1, <2>2, <2>3 DEF PlaceInv, Apart, Somewhere
  <2> QED
    BY <1>2, <2>1, <2>4, OnceSame
<1>12. CASE CutLine(w)
  <2>1. UNCHANGED <<pipe, taken, forwarded>>
    BY <1>12, CutLineMoves
  <2>2. PlaceInv(w)' /\ (Somewhere(w) => Somewhere(w)')
    BY <1>12, CutLineFlow
  <2> QED
    BY <1>2, <2>1, <2>2, OnceSame
<1>13. CASE EmitLine(w)
  <2>1. UNCHANGED <<pipe, taken>>
    BY <1>13, EmitLineMoves
  <2> QED
    BY <1>2, <1>13, <2>1, EmitLineFlow
<1> QED
  BY <1>5, <1>6, <1>7, <1>8, <1>9, <1>10, <1>11, <1>12, <1>13 DEF PrintStep, ChildStep

(* No text is lost on the way: what flow steps keep, for KeptInv. *)
FlowStep ==
    /\ FlowAll'
    /\ \A v \in Writers :
          /\ Somewhere(v) /\ remote' /\ ~closed' /\ gaps' = {} => Somewhere(v)'
          /\ v \in taken' => v \in taken \/ Somewhere(v)'

LEMMA FlowAfterWriter ==
  ASSUME TypeOK, SetupInv, WriterInv, FlowAll, NEW w \in Writers,
         PrintStep(w) \/ HandlerLogs(w) \/ ChildStep(w)
  PROVE  FlowStep
<1>1. /\ PlaceInv(w)' /\ Once(pipe') /\ ForwardedOnce'
      /\ Somewhere(w) /\ remote /\ ~closed => Somewhere(w)'
      /\ w \in taken' => w \in taken \/ Somewhere(w)'
  BY OwnPlaces
<1>2. \A v \in Writers \ {w} :
          PlaceInv(v)' /\ (Somewhere(v) /\ remote /\ ~closed => Somewhere(v)')
  BY OthersPlaces
<1>3. /\ UNCHANGED <<chunk, remote, closed>> /\ taken' \subseteq taken \cup {w}
      /\ out'["reader"] = out["reader"] /\ out'["close"] = out["close"]
  <2>1. ident[w] \in Writers
    BY TypesApart DEF FlowTypes
  <2> QED
    BY <2>1, WriterKeepsTypes, WriterFlow, ThreadsApart DEF Bystanders, Sames
<1>4. FlowInv'
  BY <1>1, <1>2, <1>3 DEF FlowAll, FlowInv
<1> QED
  BY <1>1, <1>2, <1>3, <1>4 DEF FlowStep, FlowAll

(* A step of the reader that gives no line to send(). *)
LEMMA FlowAfterReading ==
  ASSUME TypeOK, SetupInv, WriterInv, FlowAll, Reading, NEW v \in Writers,
         forwarded' = forwarded, \A e \in Threads \ {"reader"} : out'[e] = out[e]
  PROVE  /\ InBuffer(v)' <=> InBuffer(v)
         /\ InHand(v)' <=> InHand(v)
         /\ InDrain(v)' <=> InDrain(v)
         /\ Sent(v)' <=> Sent(v)
         /\ PlaceInv(v) /\ at'[v] = at[v]
<1>1. ident[v] \in Writers
  BY TypesApart DEF FlowTypes
<1> QED
  BY <1>1, ThreadPlaces, DrainPlace, SentSame, ThreadsApart DEF FlowAll, FlowInv, Reading

LEMMA SplitFlow ==
  ASSUME TypeOK, SetupInv, WriterInv, FlowAll, Reading, Split, rd \in {"tee", "write"},
         UNCHANGED <<pipe, forwarded>>
  PROVE  FlowStep
<1>0. /\ \A e \in Threads \ {"reader"} : out'[e] = out[e]
      /\ out'["reader"] = Cut(chunk).lines /\ rest' = Cut(chunk).rest
      /\ chunk' = <<>> /\ rd' = "emit" /\ out'["close"] = out["close"]
  BY SplitMoves, ThreadsApart
<1>1. out["reader"] = <<>> /\ chunk \in Seq(Texts) /\ Once(chunk)
  BY TypesApart DEF WriterInv, FlowTypes, FlowAll, FlowInv
<1>2. ASSUME NEW v \in Writers
      PROVE  /\ InLines(out'["reader"], v) \/ v \in rest' <=> In(chunk, v) \/ v \in rest
             /\ ~(InLines(out'["reader"], v) /\ v \in rest')
             /\ \A k, l \in DOMAIN out'["reader"] :
                   v \in out'["reader"][k] /\ v \in out'["reader"][l] => k = l
  <2>1. ~(In(chunk, v) /\ v \in rest)
    BY DEF FlowAll, FlowInv, PlaceInv, Apart, InChunk, InRest
  <2> QED
    BY <1>0, <1>1, <2>1, CutPlaces
<1>3. ASSUME NEW v \in Writers
      PROVE  PlaceInv(v)' /\ (Somewhere(v)' <=> Somewhere(v))
  <2>1. /\ InBuffer(v)' <=> InBuffer(v)
        /\ InHand(v)' <=> InHand(v)
        /\ InDrain(v)' <=> InDrain(v)
        /\ Sent(v)' <=> Sent(v)
        /\ PlaceInv(v) /\ at'[v] = at[v]
    BY <1>0, FlowAfterReading
  <2>2. /\ InPipe(v)' <=> InPipe(v)
        /\ ~InChunk(v)' /\ ~InRead(v)
        /\ InChunk(v) <=> In(chunk, v)
        /\ InRest(v) <=> v \in rest
    BY <1>0, <1>1, PipePlace DEF InChunk, InRead, InLines, InRest
  <2>3. /\ InRead(v)' <=> InLines(out'["reader"], v)
        /\ InRest(v)' <=> v \in rest'
    BY DEF InRead, InRest
  <2>4. /\ InRead(v)' \/ InRest(v)' <=> InChunk(v) \/ InRest(v)
        /\ ~(InRead(v)' /\ InRest(v)')
    BY <1>2, <2>2, <2>3
  <2> QED
    BY <2>1, <2>2, <2>4 DEF PlaceInv, Apart, Somewhere
<1>4. OnceLines(out'["reader"])
  <2>1. out'["reader"] \in Seq(Lines)
    BY SplitMoves, ThreadsApart
  <2>2. \A k \in DOMAIN out'["reader"] : out'["reader"][k] \subseteq Writers
    BY <2>1 DEF Lines
  <2> QED
    BY <1>2, <2>2 DEF OnceLines
<1>5. Once(pipe') /\ Once(chunk') /\ OnceLines(out'["close"]) /\ ForwardedOnce' /\ taken' = taken
  <2>1. Once(<<>>)
    BY DEF Once
  <2> QED
    BY <1>0, <2>1, OnceSame DEF FlowAll, FlowInv, Reading
<1> QED
  BY <1>3, <1>4, <1>5 DEF FlowStep, FlowAll, FlowInv

LEMMA FlowAfterReader ==
  ASSUME TypeOK, SetupInv, WriterInv, FlowAll, ReadStep
  PROVE  FlowStep
<1>0. Reading /\ Sames
  BY ReaderMoves DEF Reading
<1>a. /\ Once(pipe) /\ Once(chunk) /\ Once(<<>>)
      /\ OnceLines(out["reader"]) /\ OnceLines(out["close"]) /\ ForwardedOnce /\ taken' = taken
  <2>1. Once(<<>>)
    BY DEF Once
  <2> QED
    BY <1>0, <2>1 DEF FlowAll, FlowInv, Reading
<1>1. CASE /\ rd = "read" /\ rd' = "tee" /\ chunk' = pipe /\ pipe' = <<>>
           /\ UNCHANGED <<rest, out, shown, forwarded>>
  <2>1. ASSUME NEW v \in Writers PROVE PlaceInv(v)' /\ (Somewhere(v)' <=> Somewhere(v))
    <3>1. /\ InBuffer(v)' <=> InBuffer(v)
          /\ InHand(v)' <=> InHand(v)
          /\ InDrain(v)' <=> InDrain(v)
          /\ Sent(v)' <=> Sent(v)
          /\ PlaceInv(v) /\ at'[v] = at[v]
      BY <1>0, <1>1, FlowAfterReading
    <3>2. ~In(<<>>, v)
      BY InWritten
    <3>3. /\ ~InPipe(v)' /\ ~InChunk(v) /\ (InChunk(v)' <=> InPipe(v))
          /\ InRest(v)' <=> InRest(v)
          /\ InRead(v)' <=> InRead(v)
      BY <1>1, <3>2 DEF InPipe, InChunk, InRest, InRead
    <3> QED
      BY <3>1, <3>3 DEF PlaceInv, Apart, Somewhere
  <2>2. ForwardedOnce'
    BY <1>1, <1>a, OnceSame
  <2> QED
    BY <1>1, <1>a, <2>1, <2>2 DEF FlowStep, FlowAll, FlowInv
<1>2. CASE \/ rd = "tee" /\ rd' = "write" /\ UNCHANGED <<pipe, chunk, rest, out, shown, forwarded>>
           \/ rd = "emit" /\ rd' = "read" /\ UNCHANGED <<pipe, chunk, rest, out, shown, forwarded>>
  <2>1. ASSUME NEW v \in Writers PROVE PlaceInv(v)' /\ (Somewhere(v)' <=> Somewhere(v))
    <3>1. /\ InBuffer(v)' <=> InBuffer(v)
          /\ InHand(v)' <=> InHand(v)
          /\ InDrain(v)' <=> InDrain(v)
          /\ Sent(v)' <=> Sent(v)
          /\ PlaceInv(v) /\ at'[v] = at[v]
      BY <1>0, <1>2, FlowAfterReading
    <3>2. /\ InPipe(v)' <=> InPipe(v)
          /\ InChunk(v)' <=> InChunk(v)
          /\ InRest(v)' <=> InRest(v)
          /\ InRead(v)' <=> InRead(v)
      BY <1>2 DEF InPipe, InChunk, InRest, InRead
    <3> QED
      BY <3>1, <3>2, PlaceSame
  <2>2. ForwardedOnce'
    BY <1>2, <1>a, OnceSame
  <2> QED
    BY <1>2, <1>a, <2>1, <2>2 DEF FlowStep, FlowAll, FlowInv
<1>3. CASE Split /\ rd \in {"tee", "write"} /\ UNCHANGED <<pipe, forwarded>>
  BY <1>0, <1>3, SplitFlow
<1>4. CASE /\ rd = "write" /\ ~bypass /\ rd' = "over" /\ chunk' = <<>> /\ rest' = {}
           /\ UNCHANGED <<pipe, out, shown, forwarded>>
  <2>1. "late" \in gaps'
    BY <1>0, <1>4 DEF SetupInv, RestoreInv, ReaderLeft, Sames
  <2>2. ASSUME NEW v \in Writers PROVE PlaceInv(v)'
    <3>1. /\ InBuffer(v)' <=> InBuffer(v)
          /\ InHand(v)' <=> InHand(v)
          /\ InDrain(v)' <=> InDrain(v)
          /\ Sent(v)' <=> Sent(v)
          /\ PlaceInv(v) /\ at'[v] = at[v]
      BY <1>0, <1>4, FlowAfterReading
    <3>2. /\ InPipe(v)' <=> InPipe(v)
          /\ InRead(v)' <=> InRead(v)
          /\ ~InChunk(v)' /\ ~InRest(v)'
      BY <1>4 DEF InPipe, InChunk, InRest, InRead
    <3> QED
      BY <3>1, <3>2 DEF PlaceInv, Apart, Somewhere
  <2>3. ForwardedOnce'
    BY <1>4, <1>a, OnceSame
  <2> QED
    BY <1>4, <1>a, <2>1, <2>2, <2>3 DEF FlowStep, FlowAll, FlowInv
<1>5. CASE /\ rd = "emit" /\ EmitNext("reader") /\ rd' = "emit"
           /\ UNCHANGED <<pipe, chunk, rest, shown>>
  <2>1. /\ out["reader"] # <<>> /\ Head(out["reader"]) \in Lines /\ Forward(Head(out["reader"]))
        /\ out'["reader"] = Tail(out["reader"]) /\ out["reader"] \in Seq(Lines)
        /\ \A e \in Threads \ {"reader"} : out'[e] = out[e]
    BY <1>5, EmitMoves, ThreadsApart, TypesApart DEF FlowTypes
  <2>2. ASSUME NEW v \in Writers
        PROVE  /\ PlaceInv(v)' /\ (Somewhere(v) /\ remote /\ ~closed => Somewhere(v)')
               /\ v \in Head(out["reader"]) => ~Sent(v)
    <3>1. /\ InPipe(v)' <=> InPipe(v)
          /\ InChunk(v)' <=> InChunk(v)
          /\ InRest(v)' <=> InRest(v)
          /\ InBuffer(v)' <=> InBuffer(v)
          /\ InHand(v)' <=> InHand(v)
          /\ InDrain(v)' <=> InDrain(v)
          /\ PlaceInv(v) /\ at'[v] = at[v]
      <4>1. ident[v] \in Writers
        BY TypesApart DEF FlowTypes
      <4> QED
        BY <1>0, <1>5, <2>1, <4>1, ThreadPlaces, DrainPlace, ThreadsApart
           DEF FlowAll, FlowInv, Reading, InPipe, InChunk, InRest
    <3>2. /\ InRead(v) <=> v \in Head(out["reader"]) \/ InRead(v)'
          /\ ~(v \in Head(out["reader"]) /\ InRead(v)')
      BY <1>a, <2>1, InTail DEF InRead
    <3>3. /\ Sent(v) => Sent(v)'
          /\ Sent(v)' => Sent(v) \/ v \in Head(out["reader"])
          /\ v \in Head(out["reader"]) /\ ~closed /\ remote => Sent(v)'
      BY <2>1, SentMoves
    <3> QED
      BY <3>1, <3>2, <3>3 DEF PlaceInv, Apart, Somewhere
  <2>3. ForwardedOnce'
    BY <1>a, <2>1, <2>2, ForwardOnce DEF Lines
  <2>4. OnceLines(out'["reader"]) /\ out'["close"] = out["close"]
    BY <1>a, <2>1, InTail, ThreadsApart
  <2>5. remote' = remote /\ closed' = closed
    BY <1>0 DEF Sames
  <2> QED
    BY <1>5, <1>a, <2>2, <2>3, <2>4, <2>5 DEF FlowStep, FlowAll, FlowInv
<1>6. CASE /\ rd = "read" /\ rd' = "over" /\ rest' = {} /\ Forward(rest)
           /\ UNCHANGED <<pipe, chunk, out, shown>>
  <2>1. rest \in Lines
    BY TypesApart DEF FlowTypes
  <2>2. ASSUME NEW v \in Writers
        PROVE  /\ PlaceInv(v)' /\ (Somewhere(v) /\ remote /\ ~closed => Somewhere(v)')
               /\ v \in rest => ~Sent(v)
    <3>1. /\ InPipe(v)' <=> InPipe(v)
          /\ ~InChunk(v) /\ ~InChunk(v)' /\ ~InRest(v)'
          /\ InRead(v)' <=> InRead(v)
          /\ InBuffer(v)' <=> InBuffer(v)
          /\ InHand(v)' <=> InHand(v)
          /\ InDrain(v)' <=> InDrain(v)
          /\ PlaceInv(v) /\ at'[v] = at[v]
      BY <1>0, <1>6 DEF FlowAll, FlowInv, Reading, InPipe, InChunk, InRest, InRead, InBuffer,
         InHand, InDrain
    <3>2. /\ Sent(v) => Sent(v)'
          /\ Sent(v)' => Sent(v) \/ InRest(v)
          /\ InRest(v) /\ ~closed /\ remote => Sent(v)'
      BY <1>6, <2>1, SentMoves DEF InRest
    <3> QED
      BY <3>1, <3>2 DEF PlaceInv, Apart, Somewhere, InRest
  <2>3. ForwardedOnce'
    BY <1>6, <1>a, <2>1, <2>2, ForwardOnce DEF Lines
  <2>4. remote' = remote /\ closed' = closed
    BY <1>0 DEF Sames
  <2> QED
    BY <1>6, <1>a, <2>2, <2>3, <2>4 DEF FlowStep, FlowAll, FlowInv
<1> QED
  BY <1>1, <1>2, <1>3, <1>4, <1>5, <1>6, ReaderMoves

LEMMA FlowAfterDecode ==
  ASSUME TypeOK, WriterInv, FlowAll, DecodeFails
  PROVE  FlowStep
<1>1. /\ UNCHANGED <<chunk, buffers, out, at, ref, ident, taken, shown, forwarded>>
      /\ rd = "read" /\ rd' = "over" /\ pipe' = <<>> /\ rest' = {} /\ gaps' # {}
  BY DecodeFailsMoves
<1>2. ASSUME NEW v \in Writers PROVE PlaceInv(v)'
  <2>1. /\ InRead(v)' <=> InRead(v)
        /\ InBuffer(v)' <=> InBuffer(v)
        /\ InHand(v)' <=> InHand(v)
        /\ InDrain(v)' <=> InDrain(v)
        /\ Sent(v)' <=> Sent(v)
        /\ PlaceInv(v)
    BY <1>1, SentSame DEF FlowAll, FlowInv, InRead, InBuffer, InHand, InDrain
  <2>2. ~InPipe(v)' /\ ~InChunk(v)' /\ ~InRest(v)'
    BY <1>1, InWritten DEF InPipe, InChunk, InRest
  <2> QED
    BY <1>1, <2>1, <2>2 DEF PlaceInv, Apart, Somewhere
<1>3. Once(pipe') /\ ForwardedOnce'
  BY <1>1, OnceSame DEF FlowAll, Once
<1> QED
  BY <1>1, <1>2, <1>3 DEF FlowStep, FlowAll, FlowInv

LEMMA FlowAfterInstall ==
  ASSUME TypeOK, SetupInv, WriterInv, FlowAll,
         InstallStep \/ DisableBegin \/ CloseBegin \/ CloseMark
  PROVE  FlowStep
<1>1. /\ UNCHANGED <<chunk, rest, buffers, out, at, ref, ident, taken, shown, forwarded>>
      /\ \/ UNCHANGED <<pipe, rd>>
         \/ rd = "off" /\ rd' = "read" /\ pipe' = pipe
         \/ rd = "off" /\ rd' = "over" /\ pipe' = <<>> /\ gaps' # {}
  BY InstallFlow
<1>2. ASSUME NEW v \in Writers
      PROVE  /\ PlaceInv(v)' /\ (gaps' = {} => (Somewhere(v)' <=> Somewhere(v)))
  <2>1. /\ InChunk(v)' <=> InChunk(v)
        /\ InRest(v)' <=> InRest(v)
        /\ InRead(v)' <=> InRead(v)
        /\ InBuffer(v)' <=> InBuffer(v)
        /\ InHand(v)' <=> InHand(v)
        /\ InDrain(v)' <=> InDrain(v)
        /\ Sent(v)' <=> Sent(v)
        /\ PlaceInv(v)
    BY <1>1, SentSame DEF FlowAll, FlowInv, InChunk, InRest, InRead, InBuffer, InHand, InDrain
  <2>2. CASE pipe' = pipe
    BY <1>1, <2>1, <2>2, PipePlace, PlaceSame
  <2>3. CASE pipe' = <<>> /\ gaps' # {}
    <3>1. ~InPipe(v)'
      BY <2>3, InWritten DEF InPipe
    <3> QED
      BY <1>1, <2>1, <2>3, <3>1 DEF PlaceInv, Apart, Somewhere
  <2> QED
    BY <1>1, <2>2, <2>3
<1>3. Once(pipe')
  BY <1>1 DEF FlowAll, FlowInv, Once
<1>4. ForwardedOnce'
  BY <1>1, OnceSame DEF FlowAll
<1> QED
  BY <1>1, <1>2, <1>3, <1>4 DEF FlowStep, FlowAll, FlowInv

LEMMA FlowAfterRestore ==
  ASSUME TypeOK, SetupInv, WriterInv, FlowAll, NEW r \in Restorers, RestoreStep(r)
  PROVE  FlowStep
<1>1. /\ UNCHANGED <<pipe, rd, chunk, rest, at, ref, ident, taken, shown, remote, closed>>
      /\ out'["reader"] = out["reader"] /\ \A v \in Writers : out'[v] = out[v]
  BY RestoreFlow, ThreadsApart
<1>2. ASSUME NEW v \in Writers
      PROVE  /\ InPipe(v)' <=> InPipe(v)
             /\ InChunk(v)' <=> InChunk(v)
             /\ InRest(v)' <=> InRest(v)
             /\ InRead(v)' <=> InRead(v)
             /\ InHand(v)' <=> InHand(v)
             /\ PlaceInv(v) /\ at'[v] = at[v]
  <2>1. ident[v] \in Writers
    BY TypesApart DEF FlowTypes
  <2> QED
    BY <1>1, <2>1 DEF FlowAll, FlowInv, InPipe, InChunk, InRest, InRead, InHand
<1>3. CASE UNCHANGED <<buffers, out, forwarded>>
  <2>1. ASSUME NEW v \in Writers PROVE PlaceInv(v)' /\ (Somewhere(v)' <=> Somewhere(v))
    <3>1. InBuffer(v)' <=> InBuffer(v)
      BY <1>1, <1>3 DEF InBuffer
    <3>2. (InDrain(v)' <=> InDrain(v)) /\ (Sent(v)' <=> Sent(v))
      BY <1>3, DrainPlace, SentSame
    <3> QED
      BY <1>2, <3>1, <3>2, PlaceSame
  <2>2. ForwardedOnce'
    BY <1>3, OnceSame DEF FlowAll
  <2> QED
    BY <1>1, <1>3, <2>1, <2>2 DEF FlowStep, FlowAll, FlowInv
<1>4. CASE Drain(r) /\ rs["close"] = "drain" /\ UNCHANGED forwarded
  <2>1. /\ \A p \in Writers : \A u \in buffers[p] : u \in Writers /\ ident[u] = p
        /\ \A p \in Writers : buffers'[p] = {}
        /\ out["close"] = <<>> /\ \A v \in Writers : ident[v] \in Writers
    <3>1. \A p \in Writers : \A u \in buffers[p] : u \in taken /\ ident[u] = p
      BY DEF WriterInv, IdentInv, Of
    <3>2. taken \subseteq Writers /\ \A v \in Writers : ident[v] \in Writers
      BY TypesApart DEF FlowTypes
    <3>3. \A p \in Writers : buffers'[p] = {}
      BY <1>4, DrainMoves
    <3>4. out["close"] = <<>>
      BY <1>4 DEF WriterInv
    <3> QED
      BY <3>1, <3>2, <3>3, <3>4
  <2>2. /\ \A k \in DOMAIN out'["close"] : \E p \in Writers : out'["close"][k] = buffers[p]
        /\ \A p \in Writers : \E k \in DOMAIN out'["close"] : out'["close"][k] = buffers[p]
        /\ \A i, j \in DOMAIN out'["close"] : out'["close"][i] = out'["close"][j] => i = j
    BY <1>4, DrainMoves, DrainedLines
  <2>3. OnceLines(out'["close"])
    <3> SUFFICES ASSUME NEW i \in DOMAIN out'["close"], NEW j \in DOMAIN out'["close"],
                        NEW u \in out'["close"][i] \cap out'["close"][j]
                 PROVE  i = j
      BY DEF OnceLines
    <3>1. out'["close"][i] = buffers[ident[u]] /\ out'["close"][j] = buffers[ident[u]]
      BY <2>1, <2>2
    <3> QED
      BY <2>2, <3>1
  <2>4. ASSUME NEW v \in Writers PROVE PlaceInv(v)' /\ (Somewhere(v)' <=> Somewhere(v))
    <3>1. ~InDrain(v) /\ ~InBuffer(v)'
      BY <1>1, <2>1 DEF InDrain, InLines, InBuffer
    <3>2. InDrain(v)' <=> InBuffer(v)
      BY <2>1, <2>2 DEF InDrain, InLines, InBuffer
    <3>3. Sent(v)' <=> Sent(v)
      BY <1>4, SentSame
    <3> QED
      BY <1>2, <3>1, <3>2, <3>3 DEF PlaceInv, Apart, Somewhere
  <2>5. ForwardedOnce'
    BY <1>4, OnceSame DEF FlowAll
  <2> QED
    BY <1>1, <2>3, <2>4, <2>5 DEF FlowStep, FlowAll, FlowInv
<1>5. CASE DrainEmit(r) /\ EmitNext("close") /\ UNCHANGED buffers
  <2>1. /\ out["close"] # <<>> /\ Head(out["close"]) \in Lines /\ Forward(Head(out["close"]))
        /\ out'["close"] = Tail(out["close"]) /\ out["close"] \in Seq(Lines)
    BY <1>5, EmitMoves, ThreadsApart, TypesApart DEF FlowTypes
  <2>2. ASSUME NEW v \in Writers
        PROVE  /\ PlaceInv(v)' /\ (Somewhere(v) /\ remote /\ ~closed => Somewhere(v)')
               /\ v \in Head(out["close"]) => ~Sent(v)
    <3>1. InBuffer(v)' <=> InBuffer(v)
      BY <1>1, <1>5 DEF InBuffer
    <3>2. /\ InDrain(v) <=> v \in Head(out["close"]) \/ InDrain(v)'
          /\ ~(v \in Head(out["close"]) /\ InDrain(v)')
      BY <2>1, InTail DEF InDrain, FlowAll, FlowInv
    <3>3. /\ Sent(v) => Sent(v)'
          /\ Sent(v)' => Sent(v) \/ v \in Head(out["close"])
          /\ v \in Head(out["close"]) /\ ~closed /\ remote => Sent(v)'
      BY <2>1, SentMoves
    <3> QED
      BY <1>2, <3>1, <3>2, <3>3 DEF PlaceInv, Apart, Somewhere
  <2>3. ForwardedOnce'
    BY <2>1, <2>2, ForwardOnce DEF FlowAll, Lines
  <2>4. OnceLines(out'["close"])
    BY <2>1, InTail DEF FlowAll, FlowInv
  <2> QED
    BY <1>1, <2>2, <2>3, <2>4 DEF FlowStep, FlowAll, FlowInv
<1> QED
  BY <1>3, <1>4, <1>5, RestoreFlow

LEMMA FlowStays ==
  ASSUME TypeOK, SetupInv, WriterInv, FlowAll, [Next]_vars
  PROVE  FlowStep
<1>1. CASE UNCHANGED vars
  <2>1. /\ UNCHANGED <<pipe, rd, chunk, rest, buffers, out, at, ident, taken, forwarded>>
    BY <1>1, VarsSame DEF vars, flowVars, writerVars
  <2>2. ASSUME NEW v \in Writers PROVE PlaceInv(v)' /\ (Somewhere(v)' <=> Somewhere(v))
    BY <2>1, PipePlace, ReaderPlaces, ThreadPlaces, DrainPlace, SentSame, PlaceSame
       DEF FlowAll, FlowInv
  <2>3. ForwardedOnce'
    BY <2>1, OnceSame DEF FlowAll
  <2> QED
    BY <2>1, <2>2, <2>3 DEF FlowStep, FlowAll, FlowInv
<1>2. CASE Next
  BY <1>2, FlowAfterWriter, FlowAfterReader, FlowAfterDecode, FlowAfterInstall, FlowAfterRestore
     DEF Next
<1> QED
  BY <1>1, <1>2

LEMMA NothingIn ==
  ASSUME NEW v \in Writers, pipe = <<>>, rest = {}, out["reader"] = <<>>, out["close"] = <<>>,
         rd \in {"off", "over"}, ~Sent(v)
  PROVE  Somewhere(v) => InBuffer(v) \/ InHand(v)
<1>1. ~In(<<>>, v) /\ ~InLines(<<>>, v)
  <2>1. DOMAIN <<>> = {}
    OBVIOUS
  <2> QED
    BY <2>1 DEF In, InLines
<1>2. ~InPipe(v) /\ ~InRead(v) /\ ~InDrain(v)
  BY <1>1 DEF InPipe, InRead, InDrain
<1>3. ~InChunk(v) /\ ~InRest(v)
  BY DEF InChunk, InRest
<1> QED
  BY <1>2, <1>3 DEF Somewhere

LEMMA FlowInitially == Init => FlowAll /\ KeptInv
<1> SUFFICES ASSUME Init PROVE FlowAll /\ KeptInv
  OBVIOUS
<1>1. /\ pipe = <<>> /\ rd = "off" /\ chunk = <<>> /\ rest = {} /\ taken = {}
      /\ out["reader"] = <<>> /\ out["close"] = <<>>
      /\ \A w \in Writers : buffers[w] = {} /\ out[w] = <<>> /\ ident[w] = w
      /\ \A l \in Lines : forwarded[l] = 0
  BY ThreadsApart DEF Init, Threads
<1>2. \A v \in Writers : ~Somewhere(v)
  <2> SUFFICES ASSUME NEW v \in Writers PROVE ~Somewhere(v)
    OBVIOUS
  <2>1. ~Sent(v) /\ ~InBuffer(v)
    BY <1>1 DEF Sent, InBuffer
  <2>2. ~InHand(v)
    BY <1>1 DEF InHand, InLines
  <2> QED
    BY <1>1, <2>1, <2>2, NothingIn
<1>3. \A v \in Writers : PlaceInv(v)
  BY <1>2 DEF PlaceInv, Apart, Somewhere
<1>4. Once(<<>>) /\ OnceLines(<<>>)
  BY DEF Once, OnceLines
<1> QED
  BY <1>1, <1>3, <1>4 DEF FlowAll, FlowInv, ForwardedOnce, KeptInv

(* No text is given to send() twice, whoever takes the line it is in: the  *)
(* write that ends it, flush(), drain() or the reading thread.             *)
THEOREM SentOnce == Spec => []ForwardedOnce
<1>1. Init => TypeOK /\ SetupInv /\ WriterInv /\ FlowAll
  BY TypesInitially, SetupInitially, WriterInvInitially, FlowInitially
<1>2. TypeOK /\ SetupInv /\ WriterInv /\ FlowAll /\ [Next]_vars
         => (TypeOK /\ SetupInv /\ WriterInv /\ FlowAll)'
  BY StepKeepsTypes, SetupStays, WriterInvStays, FlowStays DEF FlowStep
<1>3. FlowAll => ForwardedOnce
  BY DEF FlowAll
<1> QED
  BY <1>1, <1>2, <1>3, PTL DEF Spec

(* What makes a text droppable stays: disabled, closed, or given up. *)
LEMMA KeptInvStays ==
  ASSUME TypeOK, SetupInv, WriterInv, FlowAll, KeptInv, [Next]_vars
  PROVE  KeptInv'
<1>1. (remote' => remote) /\ (closed => closed') /\ gaps \subseteq gaps'
  <2>1. CASE Sames
    BY <2>1 DEF Sames
  <2>2. CASE UNCHANGED vars
    BY <2>1, <2>2, VarsSame
  <2>3. ASSUME NEW w \in Writers, PrintStep(w) \/ HandlerLogs(w) \/ ChildStep(w) PROVE Sames
    BY <2>3, WriterKeepsTypes DEF Bystanders
  <2>4. CASE ReadStep
    BY <2>1, <2>4, ReaderMoves DEF Reading
  <2>5. CASE DecodeFails
    BY <2>5, DecodeFailsMoves
  <2> QED
    BY <2>1, <2>2, <2>3, <2>4, <2>5, InstallFlow, RestoreFlow DEF Next
<1>2. taken' \subseteq Writers
  BY StepKeepsTypes, TypesApart DEF TypeOK
<1>3. \A v \in Writers :
          /\ Somewhere(v) /\ remote' /\ ~closed' /\ gaps' = {} => Somewhere(v)'
          /\ v \in taken' => v \in taken \/ Somewhere(v)'
  BY FlowStays DEF FlowStep
<1> QED
  BY <1>1, <1>2, <1>3 DEF KeptInv

LEMMA KeptMeansCaptured ==
  ASSUME TypeOK, SetupInv, WriterInv, KeptInv
  PROVE  CapturedBeforeFlush
<1> SUFFICES ASSUME rs["close"] = "end", remote, ~closed, gaps = {},
                    NEW w \in taken, w \notin Forwarded, w \notin buffers[ident[w]],
                    w \notin UNION ToSet(out[ident[w]])
             PROVE  FALSE
  BY DEF CapturedBeforeFlush
<1>1. w \in Writers /\ Somewhere(w)
  BY DEF KeptInv, TypeOK
<1>2. rd \in {"off", "over"} /\ inst = "over"
  BY DEF SetupInv, InstallInv, RestoreInv, Undone, ReaderLeft
<1>3. pipe = <<>> /\ rest = {} /\ out["reader"] = <<>> /\ out["close"] = <<>>
  BY <1>2 DEF SetupInv, InstallInv, WriterInv
<1>4. ~Sent(w)
  BY DEF Forwarded, Sent
<1>5. ~InBuffer(w) /\ ~InHand(w)
  BY DEF InBuffer, InHand, InLines, ToSet
<1> QED
  BY <1>1, <1>2, <1>3, <1>4, <1>5, NothingIn

(* When close() goes on to flush(), every captured line has been given to  *)
(* send(), but one that a print() is still writing: the reading thread has *)
(* come to the end of the pipe and drain() has emptied the buffers, unless *)
(* a join timed out or a chunk could not be decoded.                       *)
THEOREM LinesBeforeFlush == Spec => []CapturedBeforeFlush
<1>1. Init => TypeOK /\ SetupInv /\ WriterInv /\ FlowAll /\ KeptInv
  BY TypesInitially, SetupInitially, WriterInvInitially, FlowInitially
<1>2. TypeOK /\ SetupInv /\ WriterInv /\ FlowAll /\ KeptInv /\ [Next]_vars
         => (TypeOK /\ SetupInv /\ WriterInv /\ FlowAll /\ KeptInv)'
  BY StepKeepsTypes, SetupStays, WriterInvStays, FlowStays, KeptInvStays DEF FlowStep
<1>3. TypeOK /\ SetupInv /\ WriterInv /\ KeptInv => CapturedBeforeFlush
  BY KeptMeansCaptured
<1> QED
  BY <1>1, <1>2, <1>3, PTL DEF Spec

===============================================================================
