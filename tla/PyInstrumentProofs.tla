------------------------- MODULE PyInstrumentProofs -------------------------
(***************************************************************************)
(* Theorems about PyInstrument, for every set of threads and addresses and *)
(* every bound: one open logger, captures that do not stack up, exception  *)
(* hooks that are all called, one address from the .env files.             *)
(***************************************************************************)
EXTENDS PyInstrument, FiniteSetTheorems, WellFoundedInduction, TLAPS

(* The logger under construction: where its construction is, as long as    *)
(* the thread that holds the lock is one of the process, and which it is.  *)
Place == IF owner \in live THEN pc[owner].at ELSE "none"
Under == pc[owner].logger

BeforeCapture == {"config", "hook", "sethook", "capture"}
Building == BeforeCapture \cup {"publish"}
Closing == {"flush", "check", "unhook"}

(* The threads that will make one more logger without a further call. *)
Pending ==
  {t \in live : \/ pc[t].at \in {"enter", "construct"}
                \/ pc[t].fallback /\ pc[t].at \in BeforeCapture}

Count == Cardinality(Made)

(* Loggers are made one after the other, the one under construction is the *)
(* last, and there are enough of them for the calls and their failures.    *)
CountInv ==
  /\ Count \in Nat /\ Made = 1 .. Count
  /\ \A l \in Loggers : log[l].made \/ log[l] = Blank
  /\ Place \in Building => Under \in Loggers /\ Under = Count /\ Under \notin inherited
  /\ Count + Cardinality(Pending) <= calls + 2 * failures

(* Only a logger that was returned is current or closed by a thread, and   *)
(* one that is being closed has put its capture back.                      *)
RolesInv ==
  /\ current # None => log[current].returned
  /\ Place \in Building => ~log[Under].returned /\ ~log[Under].closed
  /\ \A t \in live : pc[t].at \in Closing =>
        /\ pc[t].logger \in Loggers
        /\ log[pc[t].logger].returned /\ ~log[pc[t].logger].captures
        /\ pc[t].at # "flush" => log[pc[t].logger].closed

(* The open logger is the current one, and there is none while the lock is *)
(* held, by whomever, but for those a child could not retire.              *)
OpenInv ==
  /\ \A l \in Loggers : log[l].returned /\ ~log[l].closed => l = current \/ l \in stuck
  /\ owner # None => current = None \/ log[current].closed \/ current \in stuck

(* One that a child could not retire keeps its capture, and is not returned *)
(* again: it was built by an earlier process.                               *)
StuckInv ==
  /\ \A l \in stuck : log[l].returned /\ log[l].captures
  /\ builtBy # None => builtBy <= process
  /\ current \in stuck => builtBy # process

(* Whose stream sys.stdout is. *)
StdoutInv ==
  /\ stdout # None => log[stdout].captures
  /\ owner = None => stdout \in {None, current}
  /\ Place \in BeforeCapture \cup {"construct"} => stdout = None
  /\ Place = "publish" => stdout \in {None, Under}
  /\ Place \in Building => log[Under].original = None

(* Whose pipe descriptor 1 leads to, or a saved descriptor will. *)
FdInv ==
  /\ fd # None => log[fd].made
  /\ \A l \in Loggers :
        log[l].saved # None => log[log[l].saved].made
          /\ (~log[log[l].saved].returned \/ log[l].saved \in stuck)
  /\ fd # None /\ log[fd].returned => (fd = current \/ fd \in stuck) /\ log[fd].captures
  /\ Place \in Building => \A l \in Loggers : log[l].saved # Under
  /\ Place \in BeforeCapture => fd # Under /\ ~log[Under].captures
  /\ Place = "publish" /\ fd = Under => log[Under].captures

CaptureInv == StdoutInv /\ FdInv /\ CapturesDoNotStack

(* The hooks are stacked: each one was installed after the one it calls.   *)
HookInv ==
  /\ hook \in Loggers => log[hook].made
  /\ appHook.prev # None => log[appHook.prev].made
  /\ hook = App \/ appHook.prev # None => appHook.installed
  /\ \A l \in Loggers :
        /\ log[l].prev \in Loggers => log[l].prev < l
        /\ log[l].prev = App =>
              appHook.installed /\ (appHook.prev # None => appHook.prev < l)
  /\ Place \in {"config", "hook"} => log[Under].prev = None
  /\ Place \in {"config", "hook", "sethook"} =>
        ~log[Under].hooked /\ hook # Under /\ appHook.prev # Under

(* Hooks l and nothing above it but the application's. *)
OnTop(l) == hook = l \/ (hook = App /\ appHook.prev = l)

(* Those of a set call the application's hook, or each other. *)
LeadToApp(S) == \A l \in S : log[l].prev = App \/ log[l].prev \in S

(* Unless two threads replaced the hook at once: what was read is still    *)
(* there when it is replaced, the hook of the newest logger is on top, and *)
(* what is above the application's leads to it.                            *)
RaceInv ==
  ~raced =>
    /\ Place = "sethook" => log[Under].prev = hook
    /\ \A t \in live : pc[t].at = "unhook" => hook = pc[t].logger
    /\ Place \in {"capture", "publish"} /\ log[Under].hooked => OnTop(Under)
    /\ current # None /\ current \notin stuck /\ log[current].hooked /\ ~log[current].closed
         => OnTop(current)
    /\ appHook.installed => hook = App \/ \E S \in SUBSET Loggers : hook \in S /\ LeadToApp(S)

InstrumentInv ==
  /\ TypeOK /\ CountInv /\ RolesInv /\ OpenInv /\ StuckInv /\ CaptureInv
  /\ OneAddressFromFiles /\ HookInv /\ RaceInv

-----------------------------------------------------------------------------
(* Basic facts.                                                            *)

LEMMA LoggersAreNumbers ==
  /\ Loggers \subseteq Nat \ {0} /\ App \notin Loggers /\ None \notin Loggers
  /\ MaxCalls \in Nat /\ MaxFailures \in Nat /\ MaxForks \in Nat
<1>1. MaxCalls \in Nat /\ MaxFailures \in Nat /\ MaxForks \in Nat
  BY Bounds
<1>2. Loggers \subseteq Nat \ {0}
  BY <1>1 DEF Loggers
<1>3. App \notin Nat /\ None \notin Nat
  BY NotLoggers
<1> QED
  BY <1>1, <1>2, <1>3

(* The thread that is inside a call holds the lock, and no other does.     *)
LEMMA HolderIsInCall ==
  ASSUME TypeOK
  PROVE  /\ \A t \in live : pc[t].at \in InCall => owner = t /\ Place = pc[t].at
         /\ Place # "none" => owner \in live /\ owner \in Threads /\ Place \in InCall
                              /\ Place = pc[owner].at
         /\ owner = None => Place = "none"
<1>1. live \subseteq Threads /\ None \notin live
  BY UserThreads DEF TypeOK
<1> QED
  BY <1>1 DEF TypeOK, Place

Places == InCall \cup {"idle", "enter", "flush", "check", "unhook"}
Pcs == [at : Places, logger : Loggers \cup {None}, fallback : BOOLEAN]

LEMMA PcTyped ==
  ASSUME TypeOK
  PROVE  pc \in [Threads -> Pcs] /\ live \subseteq Threads
BY DEF TypeOK, Pcs, Places

LEMMA GotoMoves ==
  ASSUME TypeOK, NEW t \in live, NEW place, Goto(t, place)
  PROVE  /\ t \in Threads
         /\ pc'[t] = [at |-> place, logger |-> pc[t].logger, fallback |-> pc[t].fallback]
         /\ \A u \in Threads \ {t} : pc'[u] = pc[u]
         /\ place \in Places => pc' \in [Threads -> Pcs]
<1>1. t \in Threads /\ pc \in [Threads -> Pcs]
  BY DEF TypeOK, Pcs, Places
<1>2. pc[t] \in Pcs
  BY <1>1
<1>3. [pc[t] EXCEPT !.at = place]
         = [at |-> place, logger |-> pc[t].logger, fallback |-> pc[t].fallback]
  BY <1>2 DEF Pcs
<1>4. pc'[t] = [pc[t] EXCEPT !.at = place]
  BY <1>1 DEF Goto
<1>5. place \in Places => [pc[t] EXCEPT !.at = place] \in Pcs
  BY <1>2, <1>3 DEF Pcs
<1>6. pc' = [pc EXCEPT ![t] = [pc[t] EXCEPT !.at = place]]
  BY DEF Goto
<1> QED
  BY <1>1, <1>3, <1>4, <1>5, <1>6

LEMMA EnterTyped ==
  ASSUME TypeOK, NEW t \in live, NEW place \in Places, NEW l \in Loggers,
         NEW fallback \in BOOLEAN, Enter(t, place, l, fallback)
  PROVE  pc' \in [Threads -> Pcs]
<1>1. t \in Threads /\ pc \in [Threads -> Pcs]
  BY DEF TypeOK, Pcs, Places
<1> QED
  BY <1>1 DEF Enter, Pcs

LEMMA DoneMoves ==
  ASSUME TypeOK, NEW t \in live, Done(t)
  PROVE  /\ t \in Threads
         /\ pc'[t] = Idle
         /\ \A u \in Threads \ {t} : pc'[u] = pc[u]
         /\ pc' \in [Threads -> Pcs]
<1>1. t \in Threads /\ pc \in [Threads -> Pcs]
  BY DEF TypeOK, Pcs, Places
<1>2. Idle \in Pcs
  BY DEF Idle, Pcs, Places
<1> QED
  BY <1>1, <1>2 DEF Done

(* A step of a thread outside the lock leaves the construction alone.      *)
LEMMA StayPlace ==
  ASSUME TypeOK, NEW t \in live, pc[t].at \notin InCall,
         owner' = owner, live' = live, \A u \in Threads \ {t} : pc'[u] = pc[u]
  PROVE  /\ Place' = Place
         /\ Place # "none" => Under' = Under /\ pc'[owner] = pc[owner]
<1>1. owner \in live => owner # t /\ owner \in Threads
  BY DEF TypeOK
<1> QED
  BY <1>1 DEF Place, Under

(* A step of the holder that keeps the lock, or takes it. *)
LEMMA HolderPlace ==
  ASSUME NEW t \in live, owner' = t, live' = live
  PROVE  Place' = pc'[t].at /\ Under' = pc'[t].logger
BY DEF Place, Under

(* A step that releases it. *)
LEMMA FreePlace ==
  ASSUME TypeOK, live' = live, owner' = None
  PROVE  Place' = "none"
<1>1. None \notin live
  BY UserThreads DEF TypeOK
<1> QED
  BY <1>1 DEF Place

LEMMA LogTyped ==
  ASSUME TypeOK
  PROVE  \A l \in Loggers : log[l] \in LoggerRecord
BY DEF TypeOK

(* What the record of a logger becomes when its capture is put back. *)
LEMMA Restored ==
  ASSUME TypeOK, NEW l \in Loggers, NEW r \in LoggerRecord, r.captures = log[l].captures,
         Restore(l, r)
  PROVE  /\ log' = [log EXCEPT ![l] = [r EXCEPT !.captures = FALSE]]
         /\ stdout' = stdout \/ (log[l].captures /\ stdout = l /\ stdout' = log[l].original)
         /\ log[l].captures /\ stdout = l => stdout' = log[l].original
         /\ log[l].captures => fd' = log[l].saved
         /\ ~log[l].captures => fd' = fd
<1>1. ASSUME ~log[l].captures PROVE r = [r EXCEPT !.captures = FALSE]
  <2>1. r.captures = FALSE
    BY <1>1 DEF LoggerRecord
  <2> QED
    BY <2>1 DEF LoggerRecord
<1>2. log' = [log EXCEPT ![l] = [r EXCEPT !.captures = FALSE]]
  <2>1. CASE log[l].captures
    BY <2>1 DEF Restore
  <2>2. CASE ~log[l].captures
    BY <2>2, <1>1 DEF Restore
  <2> QED
    BY <2>1, <2>2
<1>3. /\ stdout' = stdout \/ (log[l].captures /\ stdout = l /\ stdout' = log[l].original)
      /\ log[l].captures /\ stdout = l => stdout' = log[l].original
      /\ log[l].captures => fd' = log[l].saved
      /\ ~log[l].captures => fd' = fd
  BY DEF Restore, streams
<1> QED
  BY <1>2, <1>3

LEMMA BlankTyped ==
  /\ Blank \in LoggerRecord
  /\ \A out \in Loggers \cup {None} : New(out) \in LoggerRecord
BY DEF Blank, New, LoggerRecord

LEMMA LogAt ==
  ASSUME TypeOK, NEW l \in Loggers, NEW r \in LoggerRecord, log' = [log EXCEPT ![l] = r]
  PROVE  /\ log' \in [Loggers -> LoggerRecord]
         /\ log'[l] = r
         /\ \A k \in Loggers : k # l => log'[k] = log[k]
<1>1. log \in [Loggers -> LoggerRecord]
  BY DEF TypeOK
<1> QED
  BY ONLY <1>1, log' = [log EXCEPT ![l] = r], l \in Loggers, r \in LoggerRecord

(* A logger that was not made is blank. *)
LEMMA UsedIsMade ==
  ASSUME CountInv, NEW l \in Loggers, ~log[l].made
  PROVE  /\ ~log[l].returned /\ ~log[l].closed /\ ~log[l].captures /\ ~log[l].hooked
         /\ ~log[l].remote /\ log[l].prev = None /\ log[l].original = None
         /\ log[l].saved = None /\ log[l].address = None
BY DEF CountInv, Blank

LEMMA UnderIsMade ==
  ASSUME CountInv, Place \in Building
  PROVE  Under \in Loggers /\ log[Under].made
<1>1. Under \in Loggers /\ Under = Count /\ Made = 1 .. Count /\ Count \in Nat
  BY DEF CountInv
<1>2. Under \in Made
  BY <1>1, LoggersAreNumbers
<1> QED
  BY <1>1, <1>2 DEF Made

(* The next logger is the one after the last that was made. *)
LEMMA NextIsFree ==
  ASSUME CountInv, Count < MaxCalls + 2 * MaxFailures
  PROVE  /\ NextLogger = Count + 1 /\ NextLogger \in Loggers
         /\ ~log[NextLogger].made /\ log[NextLogger] = Blank
         /\ \A l \in Made : l < NextLogger
<1>1. NextLogger = Count + 1 /\ Count \in Nat /\ Made = 1 .. Count
  BY DEF NextLogger, Count, CountInv
<1>2. NextLogger \in Loggers
  BY <1>1, LoggersAreNumbers DEF Loggers
<1>3. NextLogger \notin Made /\ \A l \in Made : l < NextLogger
  BY <1>1
<1>4. ~log[NextLogger].made
  BY <1>2, <1>3 DEF Made
<1>5. log[NextLogger] = Blank
  BY <1>2, <1>4 DEF CountInv
<1> QED
  BY <1>1, <1>2, <1>3, <1>4, <1>5

LEMMA PendingIsFinite ==
  ASSUME TypeOK
  PROVE  IsFiniteSet(Pending) /\ Cardinality(Pending) \in Nat
<1>1. Pending \subseteq Threads
  BY DEF Pending, TypeOK
<1> QED
  BY <1>1, UserThreads, FS_Subset, FS_CardinalityType

LEMMA PendingLess ==
  ASSUME TypeOK, NEW S \in SUBSET Pending
  PROVE  Cardinality(S) \in Nat /\ Cardinality(S) <= Cardinality(Pending)
BY PendingIsFinite, FS_Subset, FS_CardinalityType

LEMMA PendingOthers ==
  ASSUME TypeOK, NEW t \in live, live' = live, \A u \in Threads \ {t} : pc'[u] = pc[u]
  PROVE  /\ \A u : u # t => (u \in Pending' <=> u \in Pending)
         /\ t \in Pending => pc[t].at \in {"enter", "construct"} \/
                             (pc[t].fallback /\ pc[t].at \in BeforeCapture)
         /\ t \in Pending' => pc'[t].at \in {"enter", "construct"} \/
                             (pc'[t].fallback /\ pc'[t].at \in BeforeCapture)
<1>1. live \subseteq Threads
  BY DEF TypeOK
<1>2. \A u \in live : u # t => pc'[u] = pc[u]
  BY <1>1
<1>3. ASSUME NEW u, u # t PROVE u \in Pending' <=> u \in Pending
  <2>1. CASE u \in live
    <3>1. pc'[u] = pc[u]
      BY <1>2, <1>3, <2>1
    <3> QED
      BY <3>1 DEF Pending
  <2>2. CASE u \notin live
    BY <2>2 DEF Pending
  <2> QED
    BY <2>1, <2>2
<1> QED
  BY <1>3 DEF Pending

(* Steps that make no logger and add no pending one.                       *)
LEMMA CountKept ==
  ASSUME TypeOK, CountInv,
         \A l \in Loggers : log'[l] = log[l] \/ (log[l].made /\ log'[l].made),
         Place' \in Building => Place \in Building /\ Under' = Under,
         inherited' = inherited,
         Pending' \subseteq Pending, calls' = calls, failures' = failures
  PROVE  CountInv' /\ Made' = Made
<1>1. Made' = Made
  BY DEF Made
<1>2. Count' = Count
  BY <1>1 DEF Count
<1>3. Cardinality(Pending)' \in Nat /\ Cardinality(Pending)' <= Cardinality(Pending)
  BY PendingLess
<1>4. (Count + Cardinality(Pending) <= calls + 2 * failures)'
  <2>1. Count \in Nat /\ Count + Cardinality(Pending) <= calls + 2 * failures
    BY DEF CountInv
  <2>2. calls \in Nat /\ failures \in Nat /\ Cardinality(Pending) \in Nat
    BY PendingIsFinite, LoggersAreNumbers DEF TypeOK
  <2> QED
    BY <1>2, <1>3, <2>1, <2>2
<1>5. (\A l \in Loggers : log[l].made \/ log[l] = Blank)'
  BY DEF CountInv, Blank
<1>6. (Place \in Building => Under \in Loggers /\ Under = Count /\ Under \notin inherited)'
  BY <1>2 DEF CountInv
<1> QED
  BY <1>1, <1>2, <1>4, <1>5, <1>6 DEF CountInv

-----------------------------------------------------------------------------
(* What each step does: to the lock and the logger under construction, and *)
(* to the threads that move.                                               *)

(* The steps of a thread outside the lock: it stays outside.               *)
Outside(t) ==
  \/ Instrument(t) \/ Reuse(t) \/ (\E l \in Loggers : CloseBegin(t, l)) \/ CloseMark(t)
  \/ (\E l \in Loggers : CloseRaises(t, l)) \/ CloseCheck(t) \/ CloseUnhook(t) \/ AppHook(t)

(* When putting a capture back raises, sys.stdout alone may have changed.  *)
LEMMA RestoreRaisesMoves ==
  ASSUME NEW l \in Loggers, RestoreRaises(l)
  PROVE  /\ log[l].captures /\ l \in shut /\ log' = log /\ fd' = fd
         /\ stdout' = (IF stdout = l THEN log[l].original ELSE stdout)
BY DEF RestoreRaises, Raises

LEMMA OutsideMoves ==
  ASSUME TypeOK, NEW t \in Threads, Outside(t)
  PROVE  /\ t \in live /\ pc[t].at \notin InCall /\ pc'[t].at \notin InCall
         /\ pc' \in [Threads -> Pcs]
         /\ \A u \in Threads \ {t} : pc'[u] = pc[u]
         /\ owner' = owner /\ live' = live /\ process' = process /\ inherited' = inherited
         /\ shut' = shut /\ stuck' = stuck
         /\ current' = current /\ builtBy' = builtBy /\ env' = env /\ failures' = failures
<1> USE DEF At
<1>1. CASE Instrument(t)
  <2>1. t \in live /\ pc[t].at = "idle" /\ Goto(t, "enter") /\ "enter" \in Places
    BY <1>1 DEF Instrument, Places
  <2>2. /\ pc'[t] = [at |-> "enter", logger |-> pc[t].logger, fallback |-> pc[t].fallback]
        /\ pc' \in [Threads -> Pcs] /\ \A u \in Threads \ {t} : pc'[u] = pc[u]
    BY <2>1, GotoMoves
  <2>3. pc[t].at \notin InCall /\ pc'[t].at \notin InCall
    BY <2>1, <2>2 DEF InCall
  <2>4. UNCHANGED <<owner, live, process, inherited, shut, stuck, current, builtBy, env, failures>>
    BY <1>1 DEF Instrument, processVars, globals
  <2> QED
    BY <2>1, <2>2, <2>3, <2>4
<1>2. CASE Reuse(t)
  <2>1. t \in live /\ pc[t].at = "enter" /\ Done(t)
    BY <1>2 DEF Reuse
  <2>2. pc'[t] = Idle /\ pc' \in [Threads -> Pcs] /\ \A u \in Threads \ {t} : pc'[u] = pc[u]
    BY <2>1, DoneMoves
  <2>3. pc[t].at \notin InCall /\ pc'[t].at \notin InCall
    BY <2>1, <2>2 DEF InCall, Idle
  <2>4. UNCHANGED <<owner, live, process, inherited, shut, stuck, current, builtBy, env, failures>>
    BY <1>2 DEF Reuse, processVars, globals
  <2> QED
    BY <2>1, <2>2, <2>3, <2>4
<1>3. CASE \E l \in Loggers : CloseBegin(t, l)
  <2>0. PICK l \in Loggers : CloseBegin(t, l)
    BY <1>3
  <2>1. t \in live /\ pc[t].at = "idle" /\ Enter(t, "flush", l, FALSE) /\ "flush" \in Places
    BY <2>0 DEF CloseBegin, Places
  <2>2. /\ pc'[t] = [at |-> "flush", logger |-> l, fallback |-> FALSE]
        /\ pc' \in [Threads -> Pcs] /\ \A u \in Threads \ {t} : pc'[u] = pc[u]
    <3>1. pc' \in [Threads -> Pcs]
      BY <2>1, EnterTyped
    <3> QED
      BY <2>1, <3>1, PcTyped DEF Enter
  <2>3. pc[t].at \notin InCall /\ pc'[t].at \notin InCall
    BY <2>1, <2>2 DEF InCall
  <2>4. UNCHANGED <<owner, live, process, inherited, shut, stuck, current, builtBy, env, failures>>
    BY <2>0 DEF CloseBegin, processVars, globals
  <2> QED
    BY <2>1, <2>2, <2>3, <2>4
<1>4. CASE CloseMark(t)
  <2>1. t \in live /\ pc[t].at = "flush" /\ Goto(t, "check") /\ "check" \in Places
    BY <1>4 DEF CloseMark, Places
  <2>2. /\ pc'[t] = [at |-> "check", logger |-> pc[t].logger, fallback |-> pc[t].fallback]
        /\ pc' \in [Threads -> Pcs] /\ \A u \in Threads \ {t} : pc'[u] = pc[u]
    BY <2>1, GotoMoves
  <2>3. pc[t].at \notin InCall /\ pc'[t].at \notin InCall
    BY <2>1, <2>2 DEF InCall
  <2>4. UNCHANGED <<owner, live, process, inherited, shut, stuck, current, builtBy, env, failures>>
    BY <1>4 DEF CloseMark, processVars, globals
  <2> QED
    BY <2>1, <2>2, <2>3, <2>4
<1>5. CASE CloseCheck(t)
  <2>1. t \in live /\ pc[t].at = "check" /\ (Goto(t, "unhook") \/ Done(t))
    BY <1>5 DEF CloseCheck
  <2>2. /\ pc'[t].at \in {"unhook", "idle"} /\ pc' \in [Threads -> Pcs]
        /\ \A u \in Threads \ {t} : pc'[u] = pc[u]
    <3>1. CASE Goto(t, "unhook")
      <4>1. "unhook" \in Places
        BY DEF Places
      <4>2. pc'[t] = [at |-> "unhook", logger |-> pc[t].logger, fallback |-> pc[t].fallback]
        BY <2>1, <3>1, GotoMoves
      <4> QED
        BY <2>1, <3>1, <4>1, <4>2, GotoMoves
    <3>2. CASE Done(t)
      BY <2>1, <3>2, DoneMoves DEF Idle
    <3> QED
      BY <2>1, <3>1, <3>2
  <2>3. pc[t].at \notin InCall /\ pc'[t].at \notin InCall
    BY <2>1, <2>2 DEF InCall
  <2>4. UNCHANGED <<owner, live, process, inherited, shut, stuck, current, builtBy, env, failures>>
    BY <1>5 DEF CloseCheck, processVars, globals
  <2> QED
    BY <2>1, <2>2, <2>3, <2>4
<1>6. CASE CloseUnhook(t)
  <2>1. t \in live /\ pc[t].at = "unhook" /\ Done(t)
    BY <1>6 DEF CloseUnhook
  <2>2. pc'[t] = Idle /\ pc' \in [Threads -> Pcs] /\ \A u \in Threads \ {t} : pc'[u] = pc[u]
    BY <2>1, DoneMoves
  <2>3. pc[t].at \notin InCall /\ pc'[t].at \notin InCall
    BY <2>1, <2>2 DEF InCall, Idle
  <2>4. UNCHANGED <<owner, live, process, inherited, shut, stuck, current, builtBy, env, failures>>
    BY <1>6 DEF CloseUnhook, processVars, globals
  <2> QED
    BY <2>1, <2>2, <2>3, <2>4
<1>7. CASE AppHook(t)
  <2>1. t \in live /\ pc[t].at = "idle" /\ pc' = pc
    BY <1>7 DEF AppHook
  <2>2. pc[t].at \notin InCall
    BY <2>1 DEF InCall
  <2>3. pc \in [Threads -> Pcs]
    BY DEF TypeOK, Pcs, Places
  <2>4. UNCHANGED <<owner, live, process, inherited, shut, stuck, current, builtBy, env, failures>>
    BY <1>7 DEF AppHook, processVars, globals
  <2> QED
    BY <2>1, <2>2, <2>3, <2>4
<1>8. CASE \E l \in Loggers : CloseRaises(t, l)
  <2>1. t \in live /\ pc[t].at = "idle" /\ pc' = pc
        /\ UNCHANGED <<owner, live, process, inherited, shut, stuck, current, builtBy, env,
                       failures>>
    BY <1>8 DEF CloseRaises, processVars, globals
  <2>2. pc[t].at \notin InCall
    BY <2>1 DEF InCall
  <2>3. pc \in [Threads -> Pcs]
    BY DEF TypeOK, Pcs, Places
  <2> QED
    BY <2>1, <2>2, <2>3
<1> QED
  BY <1>1, <1>2, <1>3, <1>4, <1>5, <1>6, <1>7, <1>8 DEF Outside

(* The thread that builds a logger, between taking the lock and releasing it. *)
LEMMA MakeMoves ==
  ASSUME TypeOK, NEW t \in Threads, Build(t) \/ Construct(t)
  PROVE  /\ t \in live /\ pc[t].at \in {"enter", "construct"} /\ Place \notin Building
         /\ owner' = t /\ live' = live /\ Place' = "config" /\ Under' = NextLogger
         /\ pc'[t] = [at |-> "config", logger |-> NextLogger, fallback |-> FALSE]
         /\ \A u \in Threads \ {t} : pc'[u] = pc[u]
         /\ owner = None \/ (owner = t /\ Place = "construct")
         /\ owner = None => current = None \/ log[current].closed
         /\ log' = [log EXCEPT ![NextLogger] = New(stdout)]
         /\ UNCHANGED <<process, inherited, shut, stuck, current, builtBy, hook, appHook, raced,
                        stdout, fd, env, calls, failures>>
<1> USE DEF At
<1>1. /\ t \in live /\ pc[t].at \in {"enter", "construct"}
      /\ Enter(t, "config", NextLogger, FALSE)
      /\ log' = [log EXCEPT ![NextLogger] = New(stdout)]
      /\ UNCHANGED <<process, live, inherited, shut, stuck, current, builtBy, hook, appHook,
                     raced, stdout, fd, env, calls, failures>>
  BY DEF Build, Construct, processVars, globals, hookVars, streams
<1>2. /\ owner' = t /\ Place \notin Building /\ (owner = None \/ (owner = t /\ Place = "construct"))
      /\ owner = None => current = None \/ log[current].closed
  <2>1. CASE Build(t)
    <3>1. owner = None /\ owner' = t /\ (current = None \/ log[current].closed)
      BY <2>1 DEF Build
    <3>2. Place = "none"
      BY <3>1, HolderIsInCall
    <3> QED
      BY <3>1, <3>2 DEF Building, BeforeCapture
  <2>2. CASE Construct(t)
    <3>1. pc[t].at = "construct" /\ owner' = owner
      BY <2>2 DEF Construct
    <3>2. "construct" \in InCall
      BY DEF InCall
    <3>3. owner = t /\ Place = "construct"
      BY <1>1, <3>1, <3>2, HolderIsInCall
    <3>4. owner # None
      BY <3>3, UserThreads
    <3> QED
      BY <3>1, <3>3, <3>4 DEF Building, BeforeCapture
  <2> QED
    BY <2>1, <2>2
<1>3. /\ pc'[t] = [at |-> "config", logger |-> NextLogger, fallback |-> FALSE]
      /\ \A u \in Threads \ {t} : pc'[u] = pc[u]
  BY <1>1, PcTyped DEF Enter
<1>4. Place' = "config" /\ Under' = NextLogger
  <2>1. Place' = pc'[t].at /\ Under' = pc'[t].logger
    BY <1>1, <1>2, HolderPlace
  <2> QED
    BY <2>1, <1>3
<1> QED
  BY <1>1, <1>2, <1>3, <1>4

SameRoles(l) ==
  log'[l].made = log[l].made /\ log'[l].returned = log[l].returned
  /\ log'[l].closed = log[l].closed
SameStreams(l) ==
  log'[l].captures = log[l].captures /\ log'[l].original = log[l].original
  /\ log'[l].saved = log[l].saved
SameHooks(l) == log'[l].hooked = log[l].hooked /\ log'[l].prev = log[l].prev
SameAddress(l) == log'[l].address = log[l].address /\ log'[l].remote = log[l].remote

LEMMA BuilderHolds ==
  ASSUME TypeOK, CountInv, NEW t \in Threads, t \in live, pc[t].at \in Building
  PROVE  /\ owner = t /\ Place = pc[t].at /\ Under = pc[t].logger
         /\ Under \in Loggers /\ log[Under].made /\ log[Under] \in LoggerRecord
<1>1. pc[t].at \in InCall
  BY DEF Building, BeforeCapture, InCall
<1>2. owner = t /\ Place = pc[t].at
  BY <1>1, HolderIsInCall
<1> QED
  BY <1>2, UnderIsMade, LogTyped DEF Under

LEMMA RetireMoves ==
  ASSUME TypeOK, CountInv, NEW t \in Threads, Retire(t)
  PROVE  /\ t \in live /\ pc[t].at = "enter" /\ owner = None /\ Place = "none"
         /\ current \in Loggers
         /\ owner' = t /\ live' = live /\ Place' = "construct"
         /\ pc'[t] = [at |-> "construct", logger |-> pc[t].logger, fallback |-> pc[t].fallback]
         /\ \A u \in Threads \ {t} : pc'[u] = pc[u]
         /\ pc' \in [Threads -> Pcs]
         /\ log' = [log EXCEPT ![current] = [log[current] EXCEPT !.closed = TRUE,
                !.captures = FALSE]]
         /\ stdout' = stdout \/ (log[current].captures /\ stdout = current
                                   /\ stdout' = log[current].original)
         /\ log[current].captures /\ stdout = current => stdout' = log[current].original
         /\ log[current].captures => fd' = log[current].saved
         /\ ~log[current].captures => fd' = fd
         /\ ~log[current].captures \/ current \notin shut
         /\ UNCHANGED <<process, inherited, shut, stuck, current, builtBy, hook, appHook, raced,
                        env, calls, failures>>
<1> USE DEF At
<1>1. /\ t \in live /\ pc[t].at = "enter" /\ owner = None /\ owner' = t /\ current # None
      /\ Goto(t, "construct")
      /\ Restore(current, [log[current] EXCEPT !.closed = TRUE])
      /\ ~log[current].captures \/ current \notin shut
      /\ UNCHANGED <<process, live, inherited, shut, stuck, current, builtBy, hook, appHook,
                     raced, env, calls, failures>>
  BY DEF Retire, Raises, processVars, globals, hookVars
<1>2. Place = "none" /\ current \in Loggers
  BY <1>1, HolderIsInCall DEF TypeOK
<1>3. "construct" \in Places
  BY DEF Places, InCall
<1>4. /\ pc'[t] = [at |-> "construct", logger |-> pc[t].logger, fallback |-> pc[t].fallback]
      /\ \A u \in Threads \ {t} : pc'[u] = pc[u]
      /\ pc' \in [Threads -> Pcs]
  BY <1>1, <1>3, GotoMoves
<1>5. Place' = "construct"
  BY <1>1, <1>4, HolderPlace
<1> DEFINE r == [log[current] EXCEPT !.closed = TRUE]
<1>6. r \in LoggerRecord /\ r.captures = log[current].captures
      /\ [r EXCEPT !.captures = FALSE] = [log[current] EXCEPT !.closed = TRUE, !.captures = FALSE]
  BY <1>2, LogTyped DEF LoggerRecord
<1>7. Restore(current, r)
  BY <1>1
<1> HIDE DEF r
<1>8. /\ log' = [log EXCEPT ![current] = [r EXCEPT !.captures = FALSE]]
      /\ stdout' = stdout \/ (log[current].captures /\ stdout = current
                                /\ stdout' = log[current].original)
      /\ log[current].captures /\ stdout = current => stdout' = log[current].original
      /\ log[current].captures => fd' = log[current].saved
      /\ ~log[current].captures => fd' = fd
  BY <1>2, <1>6, <1>7, Restored
<1> QED
  BY <1>1, <1>2, <1>4, <1>5, <1>6, <1>8

LEMMA RetireRaisesMoves ==
  ASSUME TypeOK, NEW t \in Threads, RetireRaises(t)
  PROVE  /\ t \in live /\ pc[t].at = "enter" /\ owner = None /\ Place = "none"
         /\ current \in Loggers /\ log[current].captures /\ current \in shut
         /\ builtBy # process
         /\ owner' = t /\ live' = live /\ Place' = "construct"
         /\ pc'[t] = [at |-> "construct", logger |-> pc[t].logger, fallback |-> pc[t].fallback]
         /\ \A u \in Threads \ {t} : pc'[u] = pc[u]
         /\ pc' \in [Threads -> Pcs]
         /\ stdout' = (IF stdout = current THEN log[current].original ELSE stdout)
         /\ stuck' = stuck \cup {current}
         /\ UNCHANGED <<process, inherited, shut, current, builtBy, log, hook, appHook, raced, fd,
                        env, calls, failures>>
<1>1. /\ t \in live /\ pc[t].at = "enter" /\ owner = None /\ owner' = t /\ current # None
      /\ builtBy # process /\ Goto(t, "construct") /\ RestoreRaises(current)
      /\ stuck' = stuck \cup {current}
      /\ UNCHANGED <<process, live, inherited, shut, current, builtBy, hook, appHook, raced, env,
                     calls, failures>>
  BY DEF RetireRaises, At, globals, hookVars
<1>2. Place = "none" /\ current \in Loggers
  BY <1>1, HolderIsInCall DEF TypeOK
<1>3. "construct" \in Places
  BY DEF Places, InCall
<1>4. /\ pc'[t] = [at |-> "construct", logger |-> pc[t].logger, fallback |-> pc[t].fallback]
      /\ \A u \in Threads \ {t} : pc'[u] = pc[u]
      /\ pc' \in [Threads -> Pcs]
  BY <1>1, <1>3, GotoMoves
<1>5. Place' = "construct"
  BY <1>1, <1>4, HolderPlace
<1> QED
  BY <1>1, <1>2, <1>4, <1>5, RestoreRaisesMoves

LEMMA RejectMoves ==
  ASSUME TypeOK, CountInv, NEW t \in Threads, Reject(t)
  PROVE  /\ t \in live /\ pc[t].at = "config" /\ ~pc[t].fallback
         /\ owner = t /\ Place = "config" /\ Under = pc[t].logger /\ Under \in Loggers
         /\ log[Under].made
         /\ owner' = None /\ live' = live /\ Place' = "none"
         /\ pc'[t] = Idle /\ pc' \in [Threads -> Pcs]
         /\ \A u \in Threads \ {t} : pc'[u] = pc[u]
         /\ log' = [log EXCEPT ![Under] = Blank]
         /\ \E file \in Files \cup {None} : env' = LoadEnv(file)
         /\ UNCHANGED <<process, inherited, shut, stuck, current, builtBy, hook, appHook, raced,
                        stdout, fd, calls, failures>>
<1> USE DEF At
<1>1. /\ t \in live /\ pc[t].at = "config" /\ ~pc[t].fallback /\ owner' = None /\ Done(t)
      /\ log' = [log EXCEPT ![pc[t].logger] = Blank]
      /\ \E file \in Files \cup {None} : env' = LoadEnv(file)
      /\ UNCHANGED <<process, live, inherited, shut, stuck, current, builtBy, hook, appHook,
                     raced, stdout, fd, calls, failures>>
  BY DEF Reject, processVars, globals, hookVars, streams
<1>2. pc[t].at \in Building
  BY <1>1 DEF Building, BeforeCapture
<1>3. owner = t /\ Place = pc[t].at /\ Under = pc[t].logger /\ Under \in Loggers /\ log[Under].made
  BY <1>1, <1>2, BuilderHolds
<1>4. pc'[t] = Idle /\ pc' \in [Threads -> Pcs] /\ \A u \in Threads \ {t} : pc'[u] = pc[u]
  BY <1>1, DoneMoves
<1>5. Place' = "none"
  BY <1>1, FreePlace
<1> QED
  BY <1>1, <1>3, <1>4, <1>5

LEMMA ConfigureMoves ==
  ASSUME TypeOK, CountInv, NEW t \in Threads, Configure(t)
  PROVE  /\ t \in live /\ pc[t].at = "config"
         /\ owner = t /\ Place = "config" /\ Under = pc[t].logger /\ Under \in Loggers
         /\ log[Under].made
         /\ owner' = t /\ live' = live /\ Place' \in {"hook", "publish"} /\ Under' = Under
         /\ pc'[t].at = Place' /\ pc'[t].logger = Under /\ pc'[t].fallback = pc[t].fallback
         /\ \A u \in Threads \ {t} : pc'[u] = pc[u]
         /\ pc' \in [Threads -> Pcs]
         /\ log' \in [Loggers -> LoggerRecord]
         /\ SameRoles(Under) /\ SameStreams(Under) /\ SameHooks(Under)
         /\ log'[Under].address \in Files => log'[Under].address = env'
         /\ \A k \in Loggers : k # Under => log'[k] = log[k]
         /\ \E file \in Files \cup {None} : env' = LoadEnv(file)
         /\ UNCHANGED <<process, inherited, shut, stuck, current, builtBy, hook, appHook, raced,
                        stdout, fd, calls, failures>>
<1> USE DEF At
<1>1. /\ t \in live /\ pc[t].at = "config"
      /\ UNCHANGED <<process, live, inherited, shut, stuck, owner, current, builtBy, hook,
                     appHook, raced, stdout, fd, calls, failures>>
  BY DEF Configure, processVars, globals, hookVars, streams
<1>2. pc[t].at \in Building
  BY <1>1 DEF Building, BeforeCapture
<1>3. /\ owner = t /\ Place = pc[t].at /\ Under = pc[t].logger /\ Under \in Loggers
      /\ log[Under].made /\ log[Under] \in LoggerRecord
  BY <1>1, <1>2, BuilderHolds
<1>4. PICK file \in Files \cup {None}, argument \in {Argument, None}, refused \in BOOLEAN :
        LET found == LoadEnv(file)
            address == IF found # None THEN found ELSE argument
            remote == address # None /\ ~refused
        IN /\ pc[t].fallback => file = None /\ argument = None
           /\ env' = found
           /\ log' = [log EXCEPT ![pc[t].logger].address = IF remote THEN address ELSE None,
                                 ![pc[t].logger].remote = remote]
           /\ Goto(t, IF remote THEN "hook" ELSE "publish")
  BY DEF Configure
<1> DEFINE address == IF LoadEnv(file) # None THEN LoadEnv(file) ELSE argument
           remote == address # None /\ ~refused
           sent == IF remote THEN address ELSE None
           next == IF remote THEN "hook" ELSE "publish"
           r == [log[Under] EXCEPT !.address = sent, !.remote = remote]
<1>5. env' = LoadEnv(file) /\ Goto(t, next)
      /\ log' = [log EXCEPT ![pc[t].logger].address = sent, ![pc[t].logger].remote = remote]
  BY <1>4
<1>6. next \in {"hook", "publish"} /\ next \in Places
  BY DEF Places, InCall
<1>7. LoadEnv(file) \in Files \cup {None}
  BY DEF LoadEnv, TypeOK
<1>8. sent \in Files \cup {Argument, None} /\ remote \in BOOLEAN
  BY <1>7
<1>9. sent \in Files => sent = env'
  BY <1>5, <1>7, NotAddresses
<1> HIDE DEF next, sent, remote, address
<1>10. /\ pc'[t] = [at |-> next, logger |-> pc[t].logger, fallback |-> pc[t].fallback]
       /\ \A u \in Threads \ {t} : pc'[u] = pc[u]
       /\ pc' \in [Threads -> Pcs]
  BY <1>1, <1>5, <1>6, GotoMoves
<1>11. Place' = next /\ Under' = Under
  <2>1. Place' = pc'[t].at /\ Under' = pc'[t].logger
    BY <1>1, <1>3, HolderPlace
  <2> QED
    BY <2>1, <1>3, <1>10
<1>12. r \in LoggerRecord /\ r.address = sent
       /\ r.made = log[Under].made /\ r.returned = log[Under].returned
       /\ r.closed = log[Under].closed /\ r.captures = log[Under].captures
       /\ r.original = log[Under].original /\ r.saved = log[Under].saved
       /\ r.hooked = log[Under].hooked /\ r.prev = log[Under].prev
  BY <1>3, <1>8 DEF LoggerRecord
<1>13. log' = [log EXCEPT ![Under] = r]
  BY <1>3, <1>5 DEF TypeOK
<1> HIDE DEF r
<1>14. /\ log' \in [Loggers -> LoggerRecord] /\ log'[Under] = r
       /\ \A k \in Loggers : k # Under => log'[k] = log[k]
  BY <1>3, <1>12, <1>13, LogAt
<1>15. SameRoles(Under) /\ SameStreams(Under) /\ SameHooks(Under)
  BY <1>12, <1>14 DEF SameRoles, SameStreams, SameHooks
<1>16. log'[Under].address \in Files => log'[Under].address = env'
  BY <1>9, <1>12, <1>14
<1>17. \E f \in Files \cup {None} : env' = LoadEnv(f)
  BY <1>5
<1>18. Place' \in {"hook", "publish"} /\ pc'[t].at = Place' /\ pc'[t].logger = Under
       /\ pc'[t].fallback = pc[t].fallback
  BY <1>3, <1>6, <1>10, <1>11
<1>19. owner' = t /\ Place = "config"
  BY <1>1, <1>3
<1> QED
  BY <1>1, <1>3, <1>10, <1>11, <1>14, <1>15, <1>16, <1>17, <1>18, <1>19

LEMMA ReadHookMoves ==
  ASSUME TypeOK, CountInv, NEW t \in Threads, ReadHook(t)
  PROVE  /\ t \in live /\ pc[t].at = "hook"
         /\ owner = t /\ Place = "hook" /\ Under = pc[t].logger /\ Under \in Loggers
         /\ log[Under].made
         /\ owner' = t /\ live' = live /\ Place' = "sethook" /\ Under' = Under
         /\ pc'[t].at = Place' /\ pc'[t].logger = Under /\ pc'[t].fallback = pc[t].fallback
         /\ \A u \in Threads \ {t} : pc'[u] = pc[u]
         /\ pc' \in [Threads -> Pcs]
         /\ log' \in [Loggers -> LoggerRecord]
         /\ SameRoles(Under) /\ SameStreams(Under) /\ SameAddress(Under)
         /\ log'[Under].hooked = log[Under].hooked /\ log'[Under].prev = hook
         /\ raced' = (raced \/ Swapping(t))
         /\ \A k \in Loggers : k # Under => log'[k] = log[k]
         /\ UNCHANGED <<process, inherited, shut, stuck, current, builtBy, hook, appHook, stdout,
                        fd, env, calls, failures>>
<1> USE DEF At
<1>1. /\ t \in live /\ pc[t].at = "hook" /\ owner' = owner /\ Goto(t, "sethook")
           /\ "sethook" \in Places
      /\ UNCHANGED <<live, process, inherited, shut, stuck, current, builtBy, hook, appHook,
                     stdout, fd, env, calls, failures>>
  BY DEF ReadHook, processVars, globals, hookVars, streams, Places, InCall
<1>2. pc[t].at \in Building
  BY <1>1 DEF Building, BeforeCapture
<1>3. /\ owner = t /\ Place = pc[t].at /\ Under = pc[t].logger /\ Under \in Loggers
      /\ log[Under].made /\ log[Under] \in LoggerRecord
  BY <1>1, <1>2, BuilderHolds
<1>4. /\ pc'[t] = [at |-> "sethook", logger |-> pc[t].logger, fallback |-> pc[t].fallback]
      /\ \A u \in Threads \ {t} : pc'[u] = pc[u]
      /\ pc' \in [Threads -> Pcs]
  BY <1>1, GotoMoves
<1>5. Place' = "sethook" /\ Under' = Under
  <2>1. Place' = pc'[t].at /\ Under' = pc'[t].logger
    BY <1>1, <1>3, HolderPlace
  <2> QED
    BY <2>1, <1>3, <1>4
<1>6. log' = [log EXCEPT ![pc[t].logger].prev = hook] /\ raced' = (raced \/ Swapping(t))
      /\ hook \in Loggers \cup {App, None}
  BY <1>3 DEF ReadHook, TypeOK, hookVars
<1> DEFINE r == [log[Under] EXCEPT !.prev = hook]
<1>7. /\ r \in LoggerRecord
      /\ r.made = log[Under].made  /\ r.returned = log[Under].returned
      /\ r.closed = log[Under].closed  /\ r.captures = log[Under].captures
      /\ r.original = log[Under].original  /\ r.saved = log[Under].saved
      /\ r.hooked = log[Under].hooked  /\ r.prev = hook
      /\ r.address = log[Under].address  /\ r.remote = log[Under].remote
  BY <1>3, <1>6, LoggersAreNumbers DEF LoggerRecord, TypeOK
<1>8. log' = [log EXCEPT ![Under] = r]
  BY <1>3, <1>6 DEF TypeOK
<1> HIDE DEF r
<1>9. /\ log' \in [Loggers -> LoggerRecord] /\ log'[Under] = r
      /\ \A k \in Loggers : k # Under => log'[k] = log[k]
  BY <1>3, <1>7, <1>8, LogAt
<1>10.
      /\ SameRoles(Under) /\ SameStreams(Under) /\ SameAddress(Under)
      /\ log'[Under].hooked = log[Under].hooked /\ log'[Under].prev = hook
      /\ raced' = (raced \/ Swapping(t))
  BY <1>6, <1>7, <1>9 DEF SameRoles, SameStreams, SameHooks, SameAddress
<1>11. /\ pc'[t].at = Place' /\ pc'[t].logger = Under /\ pc'[t].fallback = pc[t].fallback
       /\ owner' = t
  BY <1>1, <1>3, <1>4, <1>5
<1> QED
  BY <1>1, <1>3, <1>4, <1>5, <1>6, <1>9, <1>10, <1>11

LEMMA SetHookMoves ==
  ASSUME TypeOK, CountInv, NEW t \in Threads, SetHook(t)
  PROVE  /\ t \in live /\ pc[t].at = "sethook"
         /\ owner = t /\ Place = "sethook" /\ Under = pc[t].logger /\ Under \in Loggers
         /\ log[Under].made
         /\ owner' = t /\ live' = live /\ Place' = "capture" /\ Under' = Under
         /\ pc'[t].at = Place' /\ pc'[t].logger = Under /\ pc'[t].fallback = pc[t].fallback
         /\ \A u \in Threads \ {t} : pc'[u] = pc[u]
         /\ pc' \in [Threads -> Pcs]
         /\ log' \in [Loggers -> LoggerRecord]
         /\ SameRoles(Under) /\ SameStreams(Under) /\ SameAddress(Under)
         /\ log'[Under].hooked /\ log'[Under].prev = log[Under].prev /\ hook' = Under
         /\ raced' = (raced \/ Swapping(t))
         /\ \A k \in Loggers : k # Under => log'[k] = log[k]
         /\ UNCHANGED <<process, inherited, shut, stuck, current, builtBy, appHook, stdout, fd,
                        env, calls, failures>>
<1> USE DEF At
<1>1. /\ t \in live /\ pc[t].at = "sethook" /\ owner' = owner /\ Goto(t, "capture")
           /\ "capture" \in Places
      /\ UNCHANGED <<live, process, inherited, shut, stuck, current, builtBy, appHook, stdout, fd,
                     env, calls, failures>>
  BY DEF SetHook, processVars, globals, hookVars, streams, Places, InCall
<1>2. pc[t].at \in Building
  BY <1>1 DEF Building, BeforeCapture
<1>3. /\ owner = t /\ Place = pc[t].at /\ Under = pc[t].logger /\ Under \in Loggers
      /\ log[Under].made /\ log[Under] \in LoggerRecord
  BY <1>1, <1>2, BuilderHolds
<1>4. /\ pc'[t] = [at |-> "capture", logger |-> pc[t].logger, fallback |-> pc[t].fallback]
      /\ \A u \in Threads \ {t} : pc'[u] = pc[u]
      /\ pc' \in [Threads -> Pcs]
  BY <1>1, GotoMoves
<1>5. Place' = "capture" /\ Under' = Under
  <2>1. Place' = pc'[t].at /\ Under' = pc'[t].logger
    BY <1>1, <1>3, HolderPlace
  <2> QED
    BY <2>1, <1>3, <1>4
<1>6. log' = [log EXCEPT ![pc[t].logger].hooked = TRUE] /\ raced' = (raced \/ Swapping(t))
      /\ hook' = pc[t].logger
  BY <1>3 DEF SetHook, TypeOK, hookVars
<1> DEFINE r == [log[Under] EXCEPT !.hooked = TRUE]
<1>7. /\ r \in LoggerRecord
      /\ r.made = log[Under].made  /\ r.returned = log[Under].returned
      /\ r.closed = log[Under].closed  /\ r.captures = log[Under].captures
      /\ r.original = log[Under].original  /\ r.saved = log[Under].saved
      /\ r.hooked = TRUE  /\ r.prev = log[Under].prev
      /\ r.address = log[Under].address  /\ r.remote = log[Under].remote
  BY <1>3, <1>6, LoggersAreNumbers DEF LoggerRecord, TypeOK
<1>8. log' = [log EXCEPT ![Under] = r]
  BY <1>3, <1>6 DEF TypeOK
<1> HIDE DEF r
<1>9. /\ log' \in [Loggers -> LoggerRecord] /\ log'[Under] = r
      /\ \A k \in Loggers : k # Under => log'[k] = log[k]
  BY <1>3, <1>7, <1>8, LogAt
<1>10.
      /\ SameRoles(Under) /\ SameStreams(Under) /\ SameAddress(Under)
      /\ log'[Under].hooked /\ log'[Under].prev = log[Under].prev /\ hook' = Under
      /\ raced' = (raced \/ Swapping(t))
  BY <1>3, <1>6, <1>7, <1>9 DEF SameRoles, SameStreams, SameHooks, SameAddress
<1>11. /\ pc'[t].at = Place' /\ pc'[t].logger = Under /\ pc'[t].fallback = pc[t].fallback
       /\ owner' = t
  BY <1>1, <1>3, <1>4, <1>5
<1> QED
  BY <1>1, <1>3, <1>4, <1>5, <1>6, <1>9, <1>10, <1>11

LEMMA CaptureMoves ==
  ASSUME TypeOK, CountInv, NEW t \in Threads, Capture(t)
  PROVE  /\ t \in live /\ pc[t].at = "capture"
         /\ owner = t /\ Place = "capture" /\ Under = pc[t].logger /\ Under \in Loggers
         /\ log[Under].made
         /\ owner' = t /\ live' = live /\ Place' = "publish" /\ Under' = Under
         /\ pc'[t].at = Place' /\ pc'[t].logger = Under /\ pc'[t].fallback = pc[t].fallback
         /\ \A u \in Threads \ {t} : pc'[u] = pc[u]
         /\ pc' \in [Threads -> Pcs]
         /\ log' \in [Loggers -> LoggerRecord]
         /\ SameRoles(Under) /\ SameHooks(Under) /\ SameAddress(Under)
         /\ log'[Under].captures /\ log'[Under].saved = fd
         /\ log'[Under].original = log[Under].original /\ stdout' = Under /\ fd' = Under
         /\ \A k \in Loggers : k # Under => log'[k] = log[k]
         /\ UNCHANGED <<process, inherited, shut, stuck, current, builtBy, hook, appHook, raced,
                        env, calls, failures>>
<1> USE DEF At
<1>1. /\ t \in live /\ pc[t].at = "capture" /\ owner' = owner /\ Goto(t, "publish")
           /\ "publish" \in Places
      /\ UNCHANGED <<live, process, inherited, shut, stuck, current, builtBy, hook, appHook,
                     raced, env, calls, failures>>
  BY DEF Capture, processVars, globals, hookVars, streams, Places, InCall
<1>2. pc[t].at \in Building
  BY <1>1 DEF Building, BeforeCapture
<1>3. /\ owner = t /\ Place = pc[t].at /\ Under = pc[t].logger /\ Under \in Loggers
      /\ log[Under].made /\ log[Under] \in LoggerRecord
  BY <1>1, <1>2, BuilderHolds
<1>4. /\ pc'[t] = [at |-> "publish", logger |-> pc[t].logger, fallback |-> pc[t].fallback]
      /\ \A u \in Threads \ {t} : pc'[u] = pc[u]
      /\ pc' \in [Threads -> Pcs]
  BY <1>1, GotoMoves
<1>5. Place' = "publish" /\ Under' = Under
  <2>1. Place' = pc'[t].at /\ Under' = pc'[t].logger
    BY <1>1, <1>3, HolderPlace
  <2> QED
    BY <2>1, <1>3, <1>4
<1>6. log' = [log EXCEPT ![pc[t].logger].saved = fd, ![pc[t].logger].captures = TRUE]
      /\ stdout' = pc[t].logger /\ fd' = pc[t].logger
  BY <1>3 DEF Capture, TypeOK, hookVars
<1> DEFINE r == [log[Under] EXCEPT !.saved = fd, !.captures = TRUE]
<1>7. /\ r \in LoggerRecord
      /\ r.made = log[Under].made  /\ r.returned = log[Under].returned
      /\ r.closed = log[Under].closed  /\ r.captures = TRUE
      /\ r.original = log[Under].original  /\ r.saved = fd
      /\ r.hooked = log[Under].hooked  /\ r.prev = log[Under].prev
      /\ r.address = log[Under].address  /\ r.remote = log[Under].remote
  BY <1>3, <1>6, LoggersAreNumbers DEF LoggerRecord, TypeOK
<1>8. log' = [log EXCEPT ![Under] = r]
  BY <1>3, <1>6 DEF TypeOK
<1> HIDE DEF r
<1>9. /\ log' \in [Loggers -> LoggerRecord] /\ log'[Under] = r
      /\ \A k \in Loggers : k # Under => log'[k] = log[k]
  BY <1>3, <1>7, <1>8, LogAt
<1>10.
      /\ SameRoles(Under) /\ SameHooks(Under) /\ SameAddress(Under)
      /\ log'[Under].captures /\ log'[Under].saved = fd
      /\ log'[Under].original = log[Under].original /\ stdout' = Under /\ fd' = Under
  BY <1>3, <1>6, <1>7, <1>9 DEF SameRoles, SameStreams, SameHooks, SameAddress
<1>11. /\ pc'[t].at = Place' /\ pc'[t].logger = Under /\ pc'[t].fallback = pc[t].fallback
       /\ owner' = t
  BY <1>1, <1>3, <1>4, <1>5
<1> QED
  BY <1>1, <1>3, <1>4, <1>5, <1>6, <1>9, <1>10, <1>11

LEMMA CaptureRaisesMoves ==
  ASSUME TypeOK, CountInv, NEW t \in Threads, CaptureRaises(t),
         NextLogger \in Loggers, ~log[NextLogger].made
  PROVE  /\ t \in live /\ pc[t].at = "capture"
         /\ pc[t].fallback \/ failures < MaxFailures
         /\ failures' = IF pc[t].fallback THEN failures ELSE failures + 1
         /\ owner = t /\ Place = "capture" /\ Under = pc[t].logger /\ Under \in Loggers
         /\ log[Under].made /\ Under # NextLogger
         /\ owner' = t /\ live' = live /\ Under' = NextLogger
         /\ Place' = IF pc[t].fallback THEN "publish" ELSE "config"
         /\ pc'[t].at = Place' /\ pc'[t].logger = NextLogger /\ pc'[t].fallback = TRUE
         /\ \A u \in Threads \ {t} : pc'[u] = pc[u]
         /\ pc' \in [Threads -> Pcs]
         /\ log' \in [Loggers -> LoggerRecord]
         /\ log'[NextLogger] = New(stdout)
         /\ SameRoles(Under) /\ SameHooks(Under) /\ SameAddress(Under)
         /\ log'[Under].original = log[Under].original
         /\ \/ SameStreams(Under) /\ fd' = fd
            \/ log'[Under].captures /\ log'[Under].saved = fd /\ fd' = Under
         /\ \A k \in Loggers \ {Under, NextLogger} : log'[k] = log[k]
         /\ UNCHANGED <<process, inherited, shut, stuck, current, builtBy, hook, appHook, raced,
                        stdout, env, calls>>
<1> DEFINE n == NextLogger
           place == IF pc[t].fallback THEN "publish" ELSE "config"
           next == [log EXCEPT ![n] = New(stdout)]
           r == [log[Under] EXCEPT !.saved = fd, !.captures = TRUE]
<1>1. /\ t \in live /\ pc[t].at = "capture" /\ owner' = owner /\ Enter(t, place, n, TRUE)
      /\ pc[t].fallback \/ failures < MaxFailures
      /\ failures' = IF pc[t].fallback THEN failures ELSE failures + 1
      /\ UNCHANGED <<live, process, inherited, shut, stuck, current, builtBy, hook, appHook,
                     raced, stdout, env, calls>>
  BY DEF CaptureRaises, At, processVars, globals, hookVars
<1>2. pc[t].at \in Building
  BY <1>1 DEF Building, BeforeCapture
<1>3. /\ owner = t /\ Place = pc[t].at /\ Under = pc[t].logger /\ Under \in Loggers
      /\ log[Under].made /\ log[Under] \in LoggerRecord
  BY <1>1, <1>2, BuilderHolds
<1>4. \/ log' = next /\ fd' = fd
      \/ log' = [next EXCEPT ![Under].saved = fd, ![Under].captures = TRUE] /\ fd' = Under
  BY <1>3 DEF CaptureRaises
<1>5. Under # n
  BY <1>3
<1>6. place \in Places /\ place \in {"publish", "config"}
  BY DEF Places, InCall
<1>7. n \in Loggers /\ TRUE \in BOOLEAN
  OBVIOUS
<1>8. New(stdout) \in LoggerRecord
  BY BlankTyped DEF TypeOK
<1> HIDE DEF n, place
<1>9. pc' \in [Threads -> Pcs]
  BY <1>1, <1>6, <1>7, EnterTyped
<1>10. /\ pc'[t] = [at |-> place, logger |-> n, fallback |-> TRUE]
       /\ \A u \in Threads \ {t} : pc'[u] = pc[u]
  BY <1>1, PcTyped DEF Enter
<1>11. Place' = place /\ Under' = n
  <2>1. Place' = pc'[t].at /\ Under' = pc'[t].logger
    BY <1>1, <1>3, HolderPlace
  <2> QED
    BY <2>1, <1>10
<1>12. /\ next \in [Loggers -> LoggerRecord] /\ next[n] = New(stdout)
       /\ \A k \in Loggers : k # n => next[k] = log[k]
  <2>1. log \in [Loggers -> LoggerRecord]
    BY DEF TypeOK
  <2> QED
    BY ONLY <2>1, <1>7, <1>8
<1>13. /\ r \in LoggerRecord
       /\ r.made = log[Under].made /\ r.returned = log[Under].returned
       /\ r.closed = log[Under].closed /\ r.original = log[Under].original
       /\ r.hooked = log[Under].hooked /\ r.prev = log[Under].prev
       /\ r.address = log[Under].address /\ r.remote = log[Under].remote
       /\ r.captures /\ r.saved = fd
  BY <1>3 DEF LoggerRecord, TypeOK
<1>14. next[Under] = log[Under]
  BY <1>3, <1>5, <1>12
<1> HIDE DEF next
<1>15. ASSUME log' = next /\ fd' = fd
       PROVE  /\ SameStreams(Under)
              /\ log' \in [Loggers -> LoggerRecord]
              /\ log'[n] = New(stdout)
              /\ SameRoles(Under) /\ SameHooks(Under) /\ SameAddress(Under)
              /\ log'[Under].original = log[Under].original
              /\ \A k \in Loggers \ {Under, n} : log'[k] = log[k]
  <2>1. log' \in [Loggers -> LoggerRecord] /\ log'[n] = New(stdout) /\ log'[Under] = log[Under]
        /\ \A k \in Loggers \ {Under, n} : log'[k] = log[k]
    BY <1>12, <1>14, <1>15
  <2>2. SameRoles(Under) /\ SameHooks(Under) /\ SameAddress(Under) /\ SameStreams(Under)
        /\ log'[Under].original = log[Under].original
    BY <2>1 DEF SameRoles, SameHooks, SameAddress, SameStreams
  <2> QED
    BY <2>1, <2>2
<1>16. ASSUME log' = [next EXCEPT ![Under].saved = fd, ![Under].captures = TRUE] /\ fd' = Under
       PROVE  /\ log'[Under].captures /\ log'[Under].saved = fd
              /\ log' \in [Loggers -> LoggerRecord]
              /\ log'[n] = New(stdout)
              /\ SameRoles(Under) /\ SameHooks(Under) /\ SameAddress(Under)
              /\ log'[Under].original = log[Under].original
              /\ \A k \in Loggers \ {Under, n} : log'[k] = log[k]
  <2>1. log' = [next EXCEPT ![Under] = r]
    BY <1>3, <1>12, <1>14, <1>16
  <2> HIDE DEF r
  <2>2. log' \in [Loggers -> LoggerRecord] /\ log'[n] = New(stdout) /\ log'[Under] = r
        /\ \A k \in Loggers \ {Under, n} : log'[k] = log[k]
    BY <1>3, <1>5, <1>7, <1>12, <1>13, <2>1
  <2>3. SameRoles(Under) /\ SameHooks(Under) /\ SameAddress(Under)
        /\ log'[Under].original = log[Under].original
        /\ log'[Under].captures /\ log'[Under].saved = fd
    BY <1>13, <2>2 DEF SameRoles, SameHooks, SameAddress
  <2> QED
    BY <2>2, <2>3
<1>17. /\ pc'[t].at = place /\ pc'[t].logger = n /\ pc'[t].fallback = TRUE
  BY <1>10
<1> QED
  BY <1>1, <1>3, <1>4, <1>5, <1>9, <1>10, <1>11, <1>15, <1>16, <1>17 DEF n, place

LEMMA PublishMoves ==
  ASSUME TypeOK, CountInv, NEW t \in Threads, Publish(t)
  PROVE  /\ t \in live /\ pc[t].at = "publish"
         /\ owner = t /\ Place = "publish" /\ Under = pc[t].logger /\ Under \in Loggers
         /\ log[Under].made
         /\ owner' = None /\ live' = live /\ Place' = "none"
         /\ current' = Under /\ builtBy' = process
         /\ pc'[t] = Idle /\ pc' \in [Threads -> Pcs]
         /\ \A u \in Threads \ {t} : pc'[u] = pc[u]
         /\ log' \in [Loggers -> LoggerRecord]
         /\ log'[Under].made /\ log'[Under].returned /\ log'[Under].closed = log[Under].closed
         /\ SameHooks(Under) /\ log'[Under].address = log[Under].address
         /\ log'[Under].original = log[Under].original /\ log'[Under].saved = log[Under].saved
         /\ \/ log'[Under].captures = log[Under].captures /\ stdout' = stdout /\ fd' = fd
            \/ /\ ~log'[Under].captures
               /\ stdout' = stdout \/ stdout' = log[Under].original
               /\ log[Under].captures /\ stdout = Under => stdout' = log[Under].original
               /\ log[Under].captures => fd' = log[Under].saved
               /\ ~log[Under].captures => fd' = fd
         /\ \A k \in Loggers : k # Under => log'[k] = log[k]
         /\ UNCHANGED <<process, inherited, shut, stuck, hook, appHook, raced, env, calls,
                        failures>>
<1>1. /\ t \in live /\ pc[t].at = "publish" /\ owner' = None /\ Done(t)
      /\ current' = pc[t].logger /\ builtBy' = process
      /\ UNCHANGED <<live, process, inherited, shut, stuck, hook, appHook, raced, env, calls,
                     failures>>
  BY DEF Publish, At, processVars, hookVars
<1>2. pc[t].at \in Building
  BY <1>1 DEF Building, BeforeCapture
<1>3. /\ owner = t /\ Place = pc[t].at /\ Under = pc[t].logger /\ Under \in Loggers
      /\ log[Under].made /\ log[Under] \in LoggerRecord
  BY <1>1, <1>2, BuilderHolds
<1>4. pc'[t] = Idle /\ pc' \in [Threads -> Pcs] /\ \A u \in Threads \ {t} : pc'[u] = pc[u]
  BY <1>1, DoneMoves
<1>5. Place' = "none"
  BY <1>1, FreePlace
<1> DEFINE q == [log[Under] EXCEPT !.returned = TRUE]
           r == [q EXCEPT !.remote = FALSE]
           b == [r EXCEPT !.captures = FALSE]
<1>6. \/ log' = [log EXCEPT ![Under] = q] /\ UNCHANGED <<stdout, fd>>
      \/ Restore(Under, r)
  BY <1>3 DEF Publish, streams
<1>7. /\ q \in LoggerRecord /\ r \in LoggerRecord /\ b \in LoggerRecord
      /\ r.captures = log[Under].captures
  BY <1>3 DEF LoggerRecord
<1>8. \A x \in {q, b} :
         /\ x.made = log[Under].made /\ x.returned /\ x.closed = log[Under].closed
         /\ x.hooked = log[Under].hooked /\ x.prev = log[Under].prev
         /\ x.address = log[Under].address /\ x.original = log[Under].original
         /\ x.saved = log[Under].saved
  BY <1>3 DEF LoggerRecord
<1>9. q.captures = log[Under].captures /\ ~b.captures
  BY <1>3 DEF LoggerRecord
<1>10. /\ \/ log' = [log EXCEPT ![Under] = q] /\ UNCHANGED <<stdout, fd>>
          \/ /\ log' = [log EXCEPT ![Under] = b]
             /\ stdout' = stdout \/ stdout' = log[Under].original
             /\ log[Under].captures /\ stdout = Under => stdout' = log[Under].original
             /\ log[Under].captures => fd' = log[Under].saved
             /\ ~log[Under].captures => fd' = fd
  <2>1. CASE Restore(Under, r)
    <3> HIDE DEF r
    <3>1. /\ log' = [log EXCEPT ![Under] = [r EXCEPT !.captures = FALSE]]
          /\ stdout' = stdout \/ (log[Under].captures /\ stdout = Under
                                     /\ stdout' = log[Under].original)
          /\ log[Under].captures /\ stdout = Under => stdout' = log[Under].original
          /\ log[Under].captures => fd' = log[Under].saved
          /\ ~log[Under].captures => fd' = fd
      BY <1>3, <1>7, <2>1, Restored
    <3> QED
      BY <3>1
  <2> QED
    BY <1>6, <2>1
<1> HIDE DEF q, b
<1>11. \E x \in {q, b} : /\ log' \in [Loggers -> LoggerRecord] /\ log'[Under] = x
                         /\ \A k \in Loggers : k # Under => log'[k] = log[k]
  BY <1>3, <1>7, <1>10, LogAt
<1>12. /\ log' \in [Loggers -> LoggerRecord]
       /\ log'[Under].made /\ log'[Under].returned /\ log'[Under].closed = log[Under].closed
       /\ SameHooks(Under) /\ log'[Under].address = log[Under].address
       /\ log'[Under].original = log[Under].original /\ log'[Under].saved = log[Under].saved
       /\ \A k \in Loggers : k # Under => log'[k] = log[k]
  BY <1>3, <1>8, <1>11 DEF SameHooks
<1>13. \/ log'[Under].captures = log[Under].captures /\ stdout' = stdout /\ fd' = fd
       \/ /\ ~log'[Under].captures
          /\ stdout' = stdout \/ stdout' = log[Under].original
          /\ log[Under].captures /\ stdout = Under => stdout' = log[Under].original
          /\ log[Under].captures => fd' = log[Under].saved
          /\ ~log[Under].captures => fd' = fd
  <2>1. CASE log' = [log EXCEPT ![Under] = q] /\ UNCHANGED <<stdout, fd>>
    <3>1. log'[Under] = q
      BY <1>3, <1>7, <2>1, LogAt
    <3> QED
      BY <3>1, <2>1, <1>9
  <2>2. CASE log' = [log EXCEPT ![Under] = b]
    <3>1. log'[Under] = b
      BY <1>3, <1>7, <2>2, LogAt
    <3>2. ~log'[Under].captures
      BY <3>1, <1>9
    <3>3. CASE log' = [log EXCEPT ![Under] = q] /\ UNCHANGED <<stdout, fd>>
      BY <2>1, <3>3
    <3> QED
      BY <3>2, <3>3, <1>10
  <2> QED
    BY <2>1, <2>2, <1>10
<1> QED
  BY <1>1, <1>3, <1>4, <1>5, <1>12, <1>13

(* The capture of an open logger is put back. *)
LEMMA CloseBeginMoves ==
  ASSUME TypeOK, NEW t \in Threads, NEW l \in Loggers, CloseBegin(t, l)
  PROVE  /\ t \in live /\ pc[t].at = "idle" /\ log[l].returned /\ ~log[l].closed
         /\ pc'[t] = [at |-> "flush", logger |-> l, fallback |-> FALSE]
         /\ log' \in [Loggers -> LoggerRecord]
         /\ SameRoles(l) /\ SameHooks(l) /\ SameAddress(l) /\ ~log'[l].captures
         /\ log'[l].original = log[l].original /\ log'[l].saved = log[l].saved
         /\ \A k \in Loggers : k # l => log'[k] = log[k]
         /\ stdout' = stdout \/ (log[l].captures /\ stdout = l /\ stdout' = log[l].original)
         /\ log[l].captures /\ stdout = l => stdout' = log[l].original
         /\ log[l].captures => fd' = log[l].saved
         /\ ~log[l].captures => fd' = fd
         /\ ~log[l].captures \/ l \notin shut
         /\ UNCHANGED <<hook, appHook, raced, calls>>
<1>1. /\ t \in live /\ pc[t].at = "idle" /\ log[l].returned /\ ~log[l].closed
      /\ Restore(l, log[l]) /\ Enter(t, "flush", l, FALSE)
      /\ ~log[l].captures \/ l \notin shut
      /\ UNCHANGED <<hook, appHook, raced, calls>>
  BY DEF CloseBegin, Raises, At, hookVars
<1>2. pc'[t] = [at |-> "flush", logger |-> l, fallback |-> FALSE]
  BY <1>1, PcTyped DEF Enter
<1>3. log[l] \in LoggerRecord
  BY LogTyped
<1>4. /\ log' = [log EXCEPT ![l] = [log[l] EXCEPT !.captures = FALSE]]
      /\ stdout' = stdout \/ (log[l].captures /\ stdout = l /\ stdout' = log[l].original)
      /\ log[l].captures /\ stdout = l => stdout' = log[l].original
      /\ log[l].captures => fd' = log[l].saved
      /\ ~log[l].captures => fd' = fd
  BY <1>1, <1>3, Restored
<1> DEFINE b == [log[l] EXCEPT !.captures = FALSE]
<1>5. /\ b \in LoggerRecord /\ ~b.captures
      /\ b.made = log[l].made /\ b.returned = log[l].returned /\ b.closed = log[l].closed
      /\ b.hooked = log[l].hooked /\ b.prev = log[l].prev
      /\ b.address = log[l].address /\ b.remote = log[l].remote
      /\ b.original = log[l].original /\ b.saved = log[l].saved
  BY <1>3 DEF LoggerRecord
<1>6. log' = [log EXCEPT ![l] = b]
  BY <1>4
<1> HIDE DEF b
<1>7. /\ log' \in [Loggers -> LoggerRecord] /\ log'[l] = b
      /\ \A k \in Loggers : k # l => log'[k] = log[k]
  BY <1>5, <1>6, LogAt
<1>8. /\ SameRoles(l) /\ SameHooks(l) /\ SameAddress(l) /\ ~log'[l].captures
      /\ log'[l].original = log[l].original /\ log'[l].saved = log[l].saved
  BY <1>5, <1>7 DEF SameRoles, SameHooks, SameAddress
<1> QED
  BY <1>1, <1>2, <1>4, <1>7, <1>8

LEMMA CloseRaisesMoves ==
  ASSUME NEW t \in Threads, NEW l \in Loggers, CloseRaises(t, l)
  PROVE  /\ t \in live /\ pc[t].at = "idle" /\ log[l].captures
         /\ stdout' = (IF stdout = l THEN log[l].original ELSE stdout)
         /\ UNCHANGED <<log, fd, pc, hook, appHook, raced, env, calls>>
<1>1. /\ t \in live /\ pc[t].at = "idle" /\ RestoreRaises(l)
      /\ UNCHANGED <<pc, hook, appHook, raced, env, calls>>
  BY DEF CloseRaises, At, hookVars
<1> QED
  BY <1>1, RestoreRaisesMoves

LEMMA CloseMarkMoves ==
  ASSUME TypeOK, NEW t \in Threads, CloseMark(t), pc[t].logger \in Loggers
  PROVE  /\ t \in live /\ pc[t].at = "flush"
         /\ pc'[t].at = "check" /\ pc'[t].logger = pc[t].logger
         /\ pc'[t].fallback = pc[t].fallback
         /\ log' \in [Loggers -> LoggerRecord]
         /\ log'[pc[t].logger].closed /\ log'[pc[t].logger].made = log[pc[t].logger].made
         /\ log'[pc[t].logger].returned = log[pc[t].logger].returned
         /\ SameStreams(pc[t].logger) /\ SameHooks(pc[t].logger) /\ SameAddress(pc[t].logger)
         /\ \A k \in Loggers : k # pc[t].logger => log'[k] = log[k]
         /\ UNCHANGED <<hook, appHook, raced, stdout, fd, calls>>
<1> DEFINE l == pc[t].logger
           r == [log[l] EXCEPT !.closed = TRUE]
<1>1. /\ t \in live /\ pc[t].at = "flush" /\ Goto(t, "check") /\ l \in Loggers
      /\ log' = [log EXCEPT ![l].closed = TRUE]
      /\ UNCHANGED <<hook, appHook, raced, stdout, fd, calls>>
  BY DEF CloseMark, At, hookVars, streams
<1>2. pc'[t] = [at |-> "check", logger |-> pc[t].logger, fallback |-> pc[t].fallback]
  BY <1>1, GotoMoves
<1> HIDE DEF l
<1>3. log[l] \in LoggerRecord
  BY <1>1, LogTyped
<1>4. /\ r \in LoggerRecord /\ r.closed /\ r.made = log[l].made
      /\ r.returned = log[l].returned /\ r.captures = log[l].captures
      /\ r.hooked = log[l].hooked /\ r.prev = log[l].prev
      /\ r.address = log[l].address /\ r.remote = log[l].remote
      /\ r.original = log[l].original /\ r.saved = log[l].saved
  BY <1>3 DEF LoggerRecord
<1>5. log' = [log EXCEPT ![l] = r]
  BY <1>1, <1>3 DEF TypeOK
<1> HIDE DEF r
<1>6. /\ log' \in [Loggers -> LoggerRecord] /\ log'[l] = r
      /\ \A k \in Loggers : k # l => log'[k] = log[k]
  BY <1>1, <1>4, <1>5, LogAt
<1>7. /\ SameStreams(l) /\ SameHooks(l) /\ SameAddress(l) /\ log'[l].closed
      /\ log'[l].made = log[l].made /\ log'[l].returned = log[l].returned
  BY <1>4, <1>6 DEF SameStreams, SameHooks, SameAddress
<1> QED
  BY <1>1, <1>2, <1>6, <1>7 DEF l

LEMMA DisableRemoteMoves ==
  ASSUME TypeOK, NEW l \in Loggers, DisableRemote(l)
  PROVE  /\ log[l].remote
         /\ log' \in [Loggers -> LoggerRecord]
         /\ SameRoles(l) /\ SameHooks(l) /\ log'[l].address = log[l].address
         /\ ~log'[l].captures
         /\ log'[l].original = log[l].original /\ log'[l].saved = log[l].saved
         /\ \A k \in Loggers : k # l => log'[k] = log[k]
         /\ stdout' = stdout \/ (log[l].captures /\ stdout = l /\ stdout' = log[l].original)
         /\ log[l].captures /\ stdout = l => stdout' = log[l].original
         /\ log[l].captures => fd' = log[l].saved
         /\ ~log[l].captures => fd' = fd
         /\ l \notin inherited
         /\ UNCHANGED <<process, live, inherited, shut, stuck, current, builtBy, owner, hook,
                        appHook, raced, env, pc, calls, failures>>
         /\ Place' = Place /\ Under' = Under
<1> DEFINE r == [log[l] EXCEPT !.remote = FALSE]
           b == [r EXCEPT !.captures = FALSE]
<1>1. /\ log[l].remote /\ l \notin inherited /\ Restore(l, r)
      /\ UNCHANGED <<process, live, inherited, shut, stuck, current, builtBy, owner, hook,
                     appHook, raced, env, pc, calls, failures>>
  BY DEF DisableRemote, processVars, globals, hookVars
<1>2. log[l] \in LoggerRecord
  BY LogTyped
<1>3. r \in LoggerRecord /\ r.captures = log[l].captures
  BY <1>2 DEF LoggerRecord
<1>4. /\ b \in LoggerRecord /\ ~b.captures
      /\ b.made = log[l].made /\ b.returned = log[l].returned /\ b.closed = log[l].closed
      /\ b.hooked = log[l].hooked /\ b.prev = log[l].prev /\ b.address = log[l].address
      /\ b.original = log[l].original /\ b.saved = log[l].saved
  BY <1>2 DEF LoggerRecord
<1> HIDE DEF r
<1>5. /\ log' = [log EXCEPT ![l] = b]
      /\ stdout' = stdout \/ (log[l].captures /\ stdout = l /\ stdout' = log[l].original)
      /\ log[l].captures /\ stdout = l => stdout' = log[l].original
      /\ log[l].captures => fd' = log[l].saved
      /\ ~log[l].captures => fd' = fd
  BY <1>1, <1>3, Restored
<1> HIDE DEF b
<1>6. /\ log' \in [Loggers -> LoggerRecord] /\ log'[l] = b
      /\ \A k \in Loggers : k # l => log'[k] = log[k]
  BY <1>4, <1>5, LogAt
<1>7. /\ SameRoles(l) /\ SameHooks(l) /\ log'[l].address = log[l].address /\ ~log'[l].captures
      /\ log'[l].original = log[l].original /\ log'[l].saved = log[l].saved
  BY <1>4, <1>6 DEF SameRoles, SameHooks
<1>8. Place' = Place /\ Under' = Under
  BY <1>1 DEF Place, Under
<1> QED
  BY <1>1, <1>5, <1>6, <1>7, <1>8

LEMMA ForkMoves ==
  ASSUME TypeOK, NEW t \in Threads, Fork(t)
  PROVE  /\ t \in live /\ process < MaxForks /\ process' = process + 1
         /\ live' = {t} /\ inherited' = Made /\ Place' = "none"
         /\ pc' \in [Threads -> Pcs] /\ \A u \in Threads : pc'[u] = Idle
         /\ shut \subseteq shut' /\ \A l \in shut' \ shut : l \in Loggers /\ log[l].captures
         /\ \/ stdout' = stdout /\ fd' = fd
            \/ \E l \in Loggers : /\ log[l].captures /\ fd' = log[l].saved
                                   /\ stdout' = (IF stdout = l THEN log[l].original ELSE stdout)
         /\ UNCHANGED <<stuck, current, builtBy, owner, log, hook, appHook, raced, env, calls,
                        failures>>
<1>1. /\ t \in live /\ pc[t].at = "idle" /\ process < MaxForks /\ process' = process + 1
      /\ live' = {t} /\ inherited' = Made /\ pc' = [u \in Threads |-> Idle]
      /\ shut \subseteq shut' /\ \A l \in shut' \ shut : l \in Loggers /\ log[l].captures
      /\ \/ stdout' = stdout /\ fd' = fd
         \/ \E l \in Loggers : /\ log[l].captures /\ fd' = log[l].saved
                                /\ stdout' = (IF stdout = l THEN log[l].original ELSE stdout)
      /\ UNCHANGED <<stuck, current, builtBy, owner, log, hook, appHook, raced, env, calls,
                     failures>>
  BY DEF Fork, At, globals, hookVars, streams
<1>2. Idle \in Pcs
  BY DEF Idle, Pcs, Places
<1>3. owner # t
  BY <1>1 DEF TypeOK, InCall
<1>4. Place' = "none"
  BY <1>1, <1>3 DEF Place
<1> QED
  BY <1>1, <1>2, <1>4

-----------------------------------------------------------------------------
(* Types and the numbering of loggers.                                     *)

LEMMA ReturnedIsMade ==
  ASSUME TypeOK, CountInv, NEW l \in Loggers
  PROVE  log[l].returned \/ log[l].closed \/ log[l].captures \/ log[l].hooked \/ log[l].remote
           => log[l].made
BY UsedIsMade

(* Whoever closes a logger closes one that was made. *)
LEMMA ClosedIsMade ==
  ASSUME TypeOK, CountInv, RolesInv, NEW t \in live, pc[t].at \in Closing
  PROVE  /\ pc[t].logger \in Loggers /\ log[pc[t].logger].made /\ log[pc[t].logger].returned
         /\ ~log[pc[t].logger].captures
         /\ pc[t].at # "flush" => log[pc[t].logger].closed
<1>1. /\ pc[t].logger \in Loggers /\ log[pc[t].logger].returned /\ ~log[pc[t].logger].captures
      /\ pc[t].at # "flush" => log[pc[t].logger].closed
  BY DEF RolesInv
<1> QED
  BY <1>1, ReturnedIsMade

(* What is left of the types once the lock is seen to be held as it should. *)
LEMMA TypesFrom ==
  ASSUME process' \in 0 .. MaxForks, live' \subseteq Threads, inherited' \subseteq Made',
         shut' \subseteq inherited', stuck' \subseteq shut',
         current' \in Loggers \cup {None}, builtBy' \in 0 .. MaxForks \cup {None},
         owner' \in Threads \cup {None}, \A t \in live' : owner' = t <=> pc'[t].at \in InCall,
         log' \in [Loggers -> LoggerRecord], hook' \in Loggers \cup {App, None},
         appHook' \in [installed : BOOLEAN, prev : Loggers \cup {None}],
         stdout' \in Loggers \cup {None}, fd' \in Loggers \cup {None},
         env' \in Files \cup {None}, pc' \in [Threads -> Pcs], raced' \in BOOLEAN,
         calls' \in 0 .. MaxCalls, failures' \in 0 .. MaxFailures
  PROVE  TypeOK'
BY DEF TypeOK, Pcs, Places

(* What the steps outside the lock do to the rest of the state. *)
LEMMA OutsideTyped ==
  ASSUME InstrumentInv, NEW t \in Threads, Outside(t)
  PROVE  /\ log' \in [Loggers -> LoggerRecord]
         /\ \A l \in Loggers : log'[l] = log[l] \/ (log[l].made /\ log'[l].made)
         /\ hook' \in Loggers \cup {App, None}
         /\ appHook' \in [installed : BOOLEAN, prev : Loggers \cup {None}]
         /\ stdout' \in Loggers \cup {None} /\ fd' \in Loggers \cup {None}
         /\ raced' \in BOOLEAN
         /\ calls' = calls \/ (calls' = calls + 1 /\ calls < MaxCalls)
         /\ Pending' \subseteq Pending \cup {t}
         /\ calls' = calls => Pending' \subseteq Pending
<1> USE DEF At
<1>0. TypeOK /\ CountInv /\ RolesInv /\ HookInv
  BY DEF InstrumentInv
<1>1. /\ log \in [Loggers -> LoggerRecord] /\ hook \in Loggers \cup {App, None}
      /\ appHook \in [installed : BOOLEAN, prev : Loggers \cup {None}]
      /\ stdout \in Loggers \cup {None} /\ fd \in Loggers \cup {None} /\ raced \in BOOLEAN
      /\ calls \in Int /\ live \subseteq Threads
  BY <1>0, LoggersAreNumbers DEF TypeOK
<1>2. t \in live /\ live' = live /\ \A u \in Threads \ {t} : pc'[u] = pc[u]
  BY <1>0, OutsideMoves
<1>3. Pending' \subseteq Pending \cup {t}
  BY <1>1, <1>2 DEF Pending
<1>4. ASSUME \/ pc'[t].at \notin {"enter", "construct"} \cup BeforeCapture
      PROVE  Pending' \subseteq Pending
  <2>1. t \notin Pending'
    BY <1>4 DEF Pending
  <2> QED
    BY <2>1, <1>3
<1>5. CASE Instrument(t)
  <2>1. calls' = calls + 1 /\ calls < MaxCalls /\ calls' # calls
        /\ UNCHANGED <<log, hook, appHook, stdout, fd, raced>>
    BY <1>1, <1>5 DEF Instrument, hookVars, streams
  <2> QED
    BY <1>1, <1>3, <2>1
<1>6. CASE Reuse(t)
  <2>1. calls' = calls /\ UNCHANGED <<log, hook, appHook, stdout, fd, raced>> /\ Done(t)
    BY <1>6 DEF Reuse, hookVars, streams
  <2>2. pc'[t] = Idle
    BY <2>1, <1>0, <1>2, DoneMoves
  <2>3. Pending' \subseteq Pending
    BY <2>2, <1>4 DEF Idle, BeforeCapture
  <2> QED
    BY <1>1, <1>3, <2>1, <2>3
<1>7. CASE \E l \in Loggers : CloseBegin(t, l)
  <2>1. PICK l \in Loggers : CloseBegin(t, l)
    BY <1>7
  <2>2. /\ pc'[t] = [at |-> "flush", logger |-> l, fallback |-> FALSE]
        /\ log' \in [Loggers -> LoggerRecord] /\ log[l].returned
        /\ log'[l].made = log[l].made
        /\ \A k \in Loggers : k # l => log'[k] = log[k]
        /\ stdout' = stdout \/ stdout' = log[l].original
        /\ fd' = log[l].saved \/ fd' = fd
        /\ UNCHANGED <<hook, appHook, raced, calls>>
    BY <1>0, <2>1, CloseBeginMoves DEF SameRoles
  <2>3. Pending' \subseteq Pending
    BY <2>2, <1>4 DEF BeforeCapture
  <2>4. log[l].made /\ log[l] \in LoggerRecord
    BY <1>0, <2>2, ReturnedIsMade, LogTyped
  <2>5. stdout' \in Loggers \cup {None} /\ fd' \in Loggers \cup {None}
    BY <1>1, <2>2, <2>4 DEF LoggerRecord
  <2>6. \A k \in Loggers : log'[k] = log[k] \/ (log[k].made /\ log'[k].made)
    BY <2>2, <2>4
  <2> QED
    BY <1>1, <1>3, <2>2, <2>3, <2>5, <2>6
<1>8. CASE CloseMark(t)
  <2>1. pc[t].at = "flush"
    BY <1>8 DEF CloseMark
  <2>2. pc[t].logger \in Loggers /\ log[pc[t].logger].made
    BY <1>0, <1>2, <2>1, ClosedIsMade DEF Closing
  <2>3. /\ pc'[t].at = "check"
        /\ log' \in [Loggers -> LoggerRecord]
        /\ log'[pc[t].logger].made = log[pc[t].logger].made
        /\ \A k \in Loggers : k # pc[t].logger => log'[k] = log[k]
        /\ UNCHANGED <<hook, appHook, raced, stdout, fd, calls>>
    BY <1>0, <1>8, <2>2, CloseMarkMoves
  <2>4. Pending' \subseteq Pending
    BY <2>3, <1>4 DEF BeforeCapture
  <2>5. \A k \in Loggers : log'[k] = log[k] \/ (log[k].made /\ log'[k].made)
    BY <2>2, <2>3
  <2> QED
    BY <1>1, <1>3, <2>3, <2>4, <2>5
<1>9. CASE CloseCheck(t)
  <2>1. /\ pc[t].at = "check" /\ (Goto(t, "unhook") \/ Done(t))
        /\ UNCHANGED <<log, hook, appHook, stdout, fd, raced, calls>>
    BY <1>9 DEF CloseCheck, hookVars, streams
  <2>2. pc'[t].at \in {"unhook", "idle"}
    <3>1. CASE Goto(t, "unhook")
      <4>1. pc'[t] = [at |-> "unhook", logger |-> pc[t].logger, fallback |-> pc[t].fallback]
        BY <1>0, <1>2, <3>1, GotoMoves
      <4> QED
        BY <4>1
    <3>2. CASE Done(t)
      BY <1>0, <1>2, <3>2, DoneMoves DEF Idle
    <3> QED
      BY <2>1, <3>1, <3>2
  <2>3. Pending' \subseteq Pending
    BY <2>2, <1>4 DEF BeforeCapture
  <2> QED
    BY <1>1, <1>3, <2>1, <2>3
<1>10. CASE CloseUnhook(t)
  <2>1. /\ pc[t].at = "unhook" /\ Done(t) /\ hook' = log[pc[t].logger].prev
        /\ raced' = (raced \/ Swapping(t))
        /\ UNCHANGED <<log, appHook, stdout, fd, calls>>
    BY <1>10 DEF CloseUnhook, streams
  <2>2. pc[t].logger \in Loggers
    BY <1>0, <1>2, <2>1, ClosedIsMade DEF Closing
  <2>3. hook' \in Loggers \cup {App, None}
    BY <1>0, <2>1, <2>2, LogTyped DEF LoggerRecord
  <2>4. pc'[t] = Idle
    BY <1>0, <1>2, <2>1, DoneMoves
  <2>5. Pending' \subseteq Pending
    BY <2>4, <1>4 DEF BeforeCapture, Idle
  <2>6. raced' \in BOOLEAN
    BY <2>1
  <2> QED
    BY <1>1, <1>3, <2>1, <2>3, <2>5, <2>6
<1>11. CASE AppHook(t)
  <2>1. /\ ~appHook.installed /\ appHook' = [installed |-> TRUE, prev |-> hook] /\ hook' = App
        /\ raced' = (raced \/ Swapping(t)) /\ UNCHANGED <<log, stdout, fd, pc, calls>>
    BY <1>11 DEF AppHook, streams
  <2>2. hook # App
    BY <1>0, <2>1 DEF HookInv
  <2>3. appHook' \in [installed : BOOLEAN, prev : Loggers \cup {None}]
    BY <1>1, <2>1, <2>2
  <2>4. Pending' \subseteq Pending
    BY <1>2, <2>1 DEF Pending
  <2>5. raced' \in BOOLEAN
    BY <2>1
  <2> QED
    BY <1>1, <1>3, <2>1, <2>3, <2>4, <2>5
<1>12. CASE \E l \in Loggers : CloseRaises(t, l)
  <2>1. PICK l \in Loggers : CloseRaises(t, l)
    BY <1>12
  <2>2. /\ stdout' = (IF stdout = l THEN log[l].original ELSE stdout)
        /\ UNCHANGED <<log, fd, pc, hook, appHook, raced, calls>>
    BY <2>1, CloseRaisesMoves
  <2>3. stdout' \in Loggers \cup {None}
    BY <1>0, <1>1, <2>2, LogTyped DEF LoggerRecord
  <2>4. Pending' \subseteq Pending
    BY <1>2, <2>2 DEF Pending
  <2> QED
    BY <1>1, <1>3, <2>2, <2>3, <2>4
<1> QED
  BY <1>5, <1>6, <1>7, <1>8, <1>9, <1>10, <1>11, <1>12 DEF Outside

LEMMA OutsideKeepsTypes ==
  ASSUME InstrumentInv, NEW t \in Threads, Outside(t)
  PROVE  TypeOK' /\ CountInv' /\ Place' = Place /\ (Place # "none" => Under' = Under)
           /\ Made' = Made
<1>0. TypeOK /\ CountInv
  BY DEF InstrumentInv
<1>1. /\ t \in live /\ pc[t].at \notin InCall /\ pc'[t].at \notin InCall
      /\ pc' \in [Threads -> Pcs]
      /\ \A u \in Threads \ {t} : pc'[u] = pc[u]
      /\ owner' = owner /\ live' = live /\ process' = process /\ inherited' = inherited
      /\ shut' = shut /\ stuck' = stuck
      /\ current' = current /\ builtBy' = builtBy /\ env' = env /\ failures' = failures
  BY <1>0, OutsideMoves
<1>2. /\ log' \in [Loggers -> LoggerRecord]
      /\ \A l \in Loggers : log'[l] = log[l] \/ (log[l].made /\ log'[l].made)
      /\ hook' \in Loggers \cup {App, None}
      /\ appHook' \in [installed : BOOLEAN, prev : Loggers \cup {None}]
      /\ stdout' \in Loggers \cup {None} /\ fd' \in Loggers \cup {None}
      /\ raced' \in BOOLEAN
      /\ calls' = calls \/ (calls' = calls + 1 /\ calls < MaxCalls)
      /\ Pending' \subseteq Pending \cup {t}
      /\ calls' = calls => Pending' \subseteq Pending
  BY OutsideTyped
<1>3. Place' = Place /\ (Place # "none" => Under' = Under)
  BY <1>0, <1>1, StayPlace
<1>4. Made' = Made
  BY <1>2 DEF Made
<1>5. \A u \in live' : owner' = u <=> pc'[u].at \in InCall
  <2>1. \A u \in live : u \in Threads /\ (owner = u <=> pc[u].at \in InCall)
    BY <1>0 DEF TypeOK
  <2> QED
    BY <2>1, <1>1
<1>6. TypeOK'
  <2>1. calls' \in 0 .. MaxCalls
    BY <1>0, <1>2, LoggersAreNumbers DEF TypeOK
  <2>2. /\ process' \in 0 .. MaxForks /\ live' \subseteq Threads /\ inherited' \subseteq Made'
        /\ shut' \subseteq inherited' /\ stuck' \subseteq shut'
        /\ current' \in Loggers \cup {None} /\ builtBy' \in 0 .. MaxForks \cup {None}
        /\ owner' \in Threads \cup {None} /\ env' \in Files \cup {None}
        /\ failures' \in 0 .. MaxFailures
    BY <1>0, <1>1, <1>4 DEF TypeOK
  <2> QED
    BY <1>1, <1>2, <1>5, <2>1, <2>2, TypesFrom
<1>7. CountInv'
  <2>1. Place' \in Building => Place \in Building /\ Under' = Under
    BY <1>3 DEF Building, BeforeCapture
  <2>2. CASE calls' = calls
    BY <1>0, <1>1, <1>2, <2>1, <2>2, CountKept
  <2>3. CASE calls' = calls + 1
    <3>1. Count' = Count
      BY <1>4 DEF Count
    <3>2. Cardinality(Pending)' <= Cardinality(Pending) + 1 /\ Cardinality(Pending)' \in Nat
      <4>1. IsFiniteSet(Pending \cup {t}) /\ Cardinality(Pending \cup {t}) <= Cardinality(Pending) + 1
        <5>1. /\ IsFiniteSet(Pending \cup {t})
              /\ Cardinality(Pending \cup {t}) = Cardinality(Pending)
                   \/ Cardinality(Pending \cup {t}) = Cardinality(Pending) + 1
          BY <1>0, PendingIsFinite, FS_AddElement
        <5>2. Cardinality(Pending) \in Nat
          BY <1>0, PendingIsFinite
        <5> QED
          BY <5>1, <5>2
      <4>2. Pending' \subseteq Pending \cup {t}
        BY <1>2
      <4>3. IsFiniteSet(Pending') /\ Cardinality(Pending)' <= Cardinality(Pending \cup {t})
        BY <4>1, <4>2, FS_Subset
      <4>4. Cardinality(Pending)' \in Nat /\ Cardinality(Pending \cup {t}) \in Nat
        BY <4>1, <4>3, FS_CardinalityType
      <4> QED
        BY <1>0, PendingIsFinite, <4>1, <4>3, <4>4
    <3>3. (Count + Cardinality(Pending) <= calls + 2 * failures)'
      <4>1. Count \in Nat /\ Count + Cardinality(Pending) <= calls + 2 * failures
        BY <1>0 DEF CountInv
      <4>2. calls \in Nat /\ failures \in Nat /\ Cardinality(Pending) \in Nat
              /\ failures' = failures
        BY <1>0, <1>1, PendingIsFinite, LoggersAreNumbers DEF TypeOK
      <4> QED
        BY <2>3, <3>1, <3>2, <4>1, <4>2
    <3>4. (\A l \in Loggers : log[l].made \/ log[l] = Blank)'
      BY <1>0, <1>2 DEF CountInv, Blank
    <3>5. (Place \in Building => Under \in Loggers /\ Under = Count /\ Under \notin inherited)'
      BY <1>0, <1>1, <2>1, <3>1 DEF CountInv
    <3>6. Count' \in Nat /\ Made' = (1 .. Count)'
      BY <1>0, <1>4, <3>1 DEF CountInv
    <3> QED
      BY <3>3, <3>4, <3>5, <3>6 DEF CountInv
  <2> QED
    BY <1>2, <2>2, <2>3
<1> QED
  BY <1>3, <1>4, <1>6, <1>7

(* The lock, when one thread moves and takes, keeps or releases it. *)
LEMMA LockMoves ==
  ASSUME TypeOK, NEW t \in Threads, t \in live, live' = live,
         \A u \in Threads \ {t} : pc'[u] = pc[u],
         owner \in {t, None},
         (owner' = t /\ pc'[t].at \in InCall) \/ (owner' = None /\ pc'[t].at \notin InCall)
  PROVE  \A u \in live' : owner' = u <=> pc'[u].at \in InCall
<1>1. \A u \in live : u \in Threads /\ (owner = u <=> pc[u].at \in InCall)
  BY DEF TypeOK
<1>2. None \notin live
  BY <1>1, UserThreads
<1>3. \A u \in live \ {t} : owner # u /\ pc[u].at \notin InCall
  BY <1>1, <1>2
<1> QED
  BY <1>1, <1>2, <1>3

(* A call that makes a logger finds one that is free. *)
LEMMA RoomForOneMore ==
  ASSUME TypeOK, CountInv, Pending # {} \/ failures < MaxFailures
  PROVE  /\ NextLogger = Count + 1 /\ NextLogger \in Loggers
         /\ ~log[NextLogger].made /\ log[NextLogger] = Blank
         /\ \A l \in Made : l < NextLogger
<1>1. Count \in Nat /\ Count + Cardinality(Pending) <= calls + 2 * failures
  BY DEF CountInv
<1>2. Cardinality(Pending) \in Nat /\ (Pending # {} => Cardinality(Pending) > 0)
  BY PendingIsFinite, FS_EmptySet
<1>3. calls \in 0 .. MaxCalls /\ failures \in 0 .. MaxFailures
  BY DEF TypeOK
<1>4. MaxCalls \in Nat /\ MaxFailures \in Nat
  BY LoggersAreNumbers
<1>5. Count < MaxCalls + 2 * MaxFailures
  <2>1. Count < calls + 2 * failures \/ failures + 1 <= MaxFailures
    BY <1>1, <1>2, <1>3, <1>4
  <2> QED
    BY <1>1, <1>2, <1>3, <1>4, <2>1
<1> QED
  BY <1>5, NextIsFree

(* One more logger is made. *)
LEMMA CountGrows ==
  ASSUME TypeOK, CountInv,
         NextLogger = Count + 1, NextLogger \in Loggers, ~log[NextLogger].made,
         log'[NextLogger] = New(stdout),
         \A k \in Loggers \ {NextLogger} : log'[k] = log[k] \/ (log[k].made /\ log'[k].made),
         Place' \in Building, Under' = NextLogger, inherited' = inherited
  PROVE  /\ Made' = Made \cup {NextLogger} /\ Count' = Count + 1 /\ Count' \in Nat
         /\ Made' = 1 .. Count'
         /\ (\A l \in Loggers : log[l].made \/ log[l] = Blank)'
         /\ (Place \in Building => Under \in Loggers /\ Under = Count /\ Under \notin inherited)'
<1>1. log'[NextLogger].made
  BY DEF New, Blank
<1>2. Made' = Made \cup {NextLogger} /\ NextLogger \notin Made
  BY <1>1 DEF Made
<1>3. Made = 1 .. Count /\ Count \in Nat
  BY DEF CountInv
<1>4. Count' = Count + 1
  <2>1. IsFiniteSet(Made)
    BY <1>3, FS_Interval, LoggersAreNumbers
  <2> QED
    BY <1>2, <2>1, FS_AddElement DEF Count
<1>5. Made' = 1 .. Count'
  BY <1>2, <1>3, <1>4
<1>6. NextLogger \notin inherited
  BY <1>2 DEF TypeOK
<1>7. (\A l \in Loggers : log[l].made \/ log[l] = Blank)'
  BY <1>1 DEF CountInv
<1> QED
  BY <1>2, <1>3, <1>4, <1>5, <1>6, <1>7

LEMMA MakeKeepsTypes ==
  ASSUME InstrumentInv, NEW t \in Threads, Build(t) \/ Construct(t)
  PROVE  /\ TypeOK' /\ CountInv' /\ Made' = Made \cup {NextLogger}
         /\ NextLogger = Count + 1 /\ NextLogger \in Loggers
         /\ ~log[NextLogger].made /\ log[NextLogger] = Blank
         /\ log'[NextLogger] = New(stdout)
         /\ \A l \in Made : l < NextLogger
         /\ \A k \in Loggers : k # NextLogger => log'[k] = log[k]
<1>0. TypeOK /\ CountInv
  BY DEF InstrumentInv
<1>1. /\ t \in live /\ pc[t].at \in {"enter", "construct"} /\ Place \notin Building
      /\ owner' = t /\ live' = live /\ Place' = "config" /\ Under' = NextLogger
      /\ pc'[t] = [at |-> "config", logger |-> NextLogger, fallback |-> FALSE]
      /\ \A u \in Threads \ {t} : pc'[u] = pc[u]
      /\ owner = None \/ (owner = t /\ Place = "construct")
      /\ log' = [log EXCEPT ![NextLogger] = New(stdout)]
      /\ UNCHANGED <<process, inherited, shut, stuck, current, builtBy, hook, appHook, raced,
                     stdout, fd, env, calls, failures>>
  BY <1>0, MakeMoves
<1>2. t \in Pending
  BY <1>1 DEF Pending
<1>3. /\ NextLogger = Count + 1 /\ NextLogger \in Loggers
      /\ ~log[NextLogger].made /\ log[NextLogger] = Blank
      /\ \A l \in Made : l < NextLogger
  BY <1>0, <1>2, RoomForOneMore
<1>4. New(stdout) \in LoggerRecord
  BY <1>0, BlankTyped DEF TypeOK
<1>5. /\ log' \in [Loggers -> LoggerRecord] /\ log'[NextLogger] = New(stdout)
      /\ \A k \in Loggers : k # NextLogger => log'[k] = log[k]
  BY <1>0, <1>1, <1>3, <1>4, LogAt
<1>6. pc' \in [Threads -> Pcs]
  <2>1. Enter(t, "config", NextLogger, FALSE) /\ "config" \in Places
    BY DEF Build, Construct, Places, InCall
  <2> QED
    BY <1>0, <1>1, <1>3, <2>1, EnterTyped
<1>7. "config" \in InCall /\ "config" \in Building
  BY DEF InCall, Building, BeforeCapture
<1>8. \A u \in live' : owner' = u <=> pc'[u].at \in InCall
  BY <1>0, <1>1, <1>7, LockMoves
<1>9. /\ Made' = Made \cup {NextLogger} /\ Count' = Count + 1 /\ Count' \in Nat
      /\ Made' = 1 .. Count'
      /\ (\A l \in Loggers : log[l].made \/ log[l] = Blank)'
      /\ (Place \in Building => Under \in Loggers /\ Under = Count /\ Under \notin inherited)'
  BY <1>0, <1>1, <1>3, <1>5, <1>7, CountGrows
<1>10. TypeOK'
  <2>1. /\ process' \in 0 .. MaxForks /\ live' \subseteq Threads /\ inherited' \subseteq Made'
        /\ shut' \subseteq inherited' /\ stuck' \subseteq shut'
        /\ current' \in Loggers \cup {None} /\ builtBy' \in 0 .. MaxForks \cup {None}
        /\ owner' \in Threads \cup {None} /\ env' \in Files \cup {None}
        /\ failures' \in 0 .. MaxFailures /\ calls' \in 0 .. MaxCalls
        /\ hook' \in Loggers \cup {App, None} /\ raced' \in BOOLEAN
        /\ appHook' \in [installed : BOOLEAN, prev : Loggers \cup {None}]
        /\ stdout' \in Loggers \cup {None} /\ fd' \in Loggers \cup {None}
    BY <1>0, <1>1, <1>9 DEF TypeOK
  <2> QED
    BY <1>5, <1>6, <1>8, <2>1, TypesFrom
<1>11. (Count + Cardinality(Pending) <= calls + 2 * failures)'
  <2>1. Pending' = Pending \ {t}
    <3>1. t \notin Pending'
      BY <1>0, <1>1, PendingOthers
    <3> QED
      BY <1>0, <1>1, <3>1, PendingOthers
  <2>2. Cardinality(Pending)' = Cardinality(Pending) - 1
    BY <1>0, <1>2, <2>1, PendingIsFinite, FS_RemoveElement
  <2>3. Count + Cardinality(Pending) <= calls + 2 * failures /\ Count \in Nat
    BY <1>0 DEF CountInv
  <2>4. calls \in Nat /\ failures \in Nat /\ Cardinality(Pending) \in Nat
    BY <1>0, PendingIsFinite, LoggersAreNumbers DEF TypeOK
  <2> QED
    BY <1>1, <1>9, <2>2, <2>3, <2>4
<1>12. CountInv'
  BY <1>9, <1>11 DEF CountInv
<1> QED
  BY <1>3, <1>5, <1>9, <1>10, <1>12

LEMMA RetireKeepsTypes ==
  ASSUME InstrumentInv, NEW t \in Threads, Retire(t)
  PROVE  /\ TypeOK' /\ CountInv'
         /\ log[current].returned /\ log'[current].closed /\ ~log'[current].captures
         /\ log'[current].returned = log[current].returned
         /\ log'[current].made = log[current].made
         /\ log'[current].original = log[current].original
         /\ log'[current].saved = log[current].saved
         /\ SameHooks(current) /\ SameAddress(current)
         /\ \A k \in Loggers : k # current => log'[k] = log[k]
<1>0. TypeOK /\ CountInv /\ RolesInv
  BY DEF InstrumentInv
<1>1. /\ t \in live /\ pc[t].at = "enter" /\ owner = None /\ Place = "none"
      /\ current \in Loggers
      /\ owner' = t /\ live' = live /\ Place' = "construct"
      /\ pc'[t] = [at |-> "construct", logger |-> pc[t].logger, fallback |-> pc[t].fallback]
      /\ \A u \in Threads \ {t} : pc'[u] = pc[u]
      /\ pc' \in [Threads -> Pcs]
      /\ log' = [log EXCEPT ![current] = [log[current] EXCEPT !.closed = TRUE, !.captures = FALSE]]
      /\ stdout' = stdout \/ stdout' = log[current].original
      /\ log[current].captures => fd' = log[current].saved
      /\ ~log[current].captures => fd' = fd
      /\ UNCHANGED <<process, inherited, shut, stuck, current, builtBy, hook, appHook, raced, env,
                     calls, failures>>
  BY <1>0, RetireMoves
<1> DEFINE r == [log[current] EXCEPT !.closed = TRUE, !.captures = FALSE]
<1>2. log[current] \in LoggerRecord /\ log[current].returned
  BY <1>0, <1>1, LogTyped, LoggersAreNumbers DEF RolesInv
<1>3. log[current].made
  BY <1>0, <1>1, <1>2, ReturnedIsMade
<1>4. /\ r \in LoggerRecord /\ r.closed /\ ~r.captures /\ r.made = log[current].made
      /\ r.returned = log[current].returned /\ r.hooked = log[current].hooked
      /\ r.prev = log[current].prev /\ r.address = log[current].address
      /\ r.remote = log[current].remote /\ r.original = log[current].original
      /\ r.saved = log[current].saved
  BY <1>2 DEF LoggerRecord
<1>5. log' = [log EXCEPT ![current] = r]
  BY <1>1
<1> HIDE DEF r
<1>6. /\ log' \in [Loggers -> LoggerRecord] /\ log'[current] = r
      /\ \A k \in Loggers : k # current => log'[k] = log[k]
  BY <1>0, <1>1, <1>4, <1>5, LogAt
<1>7. \A l \in Loggers : log'[l] = log[l] \/ (log[l].made /\ log'[l].made)
  BY <1>3, <1>4, <1>6
<1>8. "construct" \in InCall /\ "construct" \notin Building
  BY DEF InCall, Building, BeforeCapture
<1>9. \A u \in live' : owner' = u <=> pc'[u].at \in InCall
  BY <1>0, <1>1, <1>8, LockMoves
<1>10. Pending' \subseteq Pending
  <2>1. t \in Pending
    BY <1>1 DEF Pending
  <2> QED
    BY <1>0, <1>1, <2>1, PendingOthers
<1>11. CountInv' /\ Made' = Made
  BY <1>0, <1>1, <1>7, <1>8, <1>10, CountKept
<1>12. TypeOK'
  <2>1. stdout' \in Loggers \cup {None} /\ fd' \in Loggers \cup {None}
    BY <1>0, <1>1, <1>2 DEF TypeOK, LoggerRecord
  <2>2. /\ process' \in 0 .. MaxForks /\ live' \subseteq Threads /\ inherited' \subseteq Made'
        /\ shut' \subseteq inherited' /\ stuck' \subseteq shut'
        /\ current' \in Loggers \cup {None} /\ builtBy' \in 0 .. MaxForks \cup {None}
        /\ owner' \in Threads \cup {None} /\ env' \in Files \cup {None}
        /\ failures' \in 0 .. MaxFailures /\ calls' \in 0 .. MaxCalls
        /\ hook' \in Loggers \cup {App, None} /\ raced' \in BOOLEAN
        /\ appHook' \in [installed : BOOLEAN, prev : Loggers \cup {None}]
    BY <1>0, <1>1, <1>11 DEF TypeOK
  <2> QED
    BY <1>1, <1>6, <1>9, <2>1, <2>2, TypesFrom
<1>13. SameHooks(current) /\ SameAddress(current)
  BY <1>4, <1>6 DEF SameHooks, SameAddress
<1> QED
  BY <1>2, <1>4, <1>6, <1>11, <1>12, <1>13

LEMMA RetireRaisesKeepsTypes ==
  ASSUME InstrumentInv, NEW t \in Threads, RetireRaises(t)
  PROVE  TypeOK' /\ CountInv'
<1>0. TypeOK /\ CountInv
  BY DEF InstrumentInv
<1>1. /\ t \in live /\ pc[t].at = "enter" /\ owner = None
      /\ current \in Loggers /\ current \in shut
      /\ owner' = t /\ live' = live /\ Place' = "construct"
      /\ pc'[t] = [at |-> "construct", logger |-> pc[t].logger, fallback |-> pc[t].fallback]
      /\ \A u \in Threads \ {t} : pc'[u] = pc[u]
      /\ pc' \in [Threads -> Pcs]
      /\ stdout' = (IF stdout = current THEN log[current].original ELSE stdout)
      /\ stuck' = stuck \cup {current}
      /\ UNCHANGED <<process, inherited, shut, current, builtBy, log, hook, appHook, raced, fd,
                     env, calls, failures>>
  BY <1>0, RetireRaisesMoves
<1>2. "construct" \in InCall /\ "construct" \notin Building
  BY DEF InCall, Building, BeforeCapture
<1>3. \A u \in live' : owner' = u <=> pc'[u].at \in InCall
  BY <1>0, <1>1, <1>2, LockMoves
<1>4. Pending' \subseteq Pending
  <2>1. t \in Pending
    BY <1>1 DEF Pending
  <2> QED
    BY <1>0, <1>1, <2>1, PendingOthers
<1>5. CountInv' /\ Made' = Made
  BY <1>0, <1>1, <1>2, <1>4, CountKept
<1>6. TypeOK'
  <2>1. stdout' \in Loggers \cup {None}
    BY <1>0, <1>1, LogTyped DEF TypeOK, LoggerRecord
  <2>2. /\ process' \in 0 .. MaxForks /\ live' \subseteq Threads /\ inherited' \subseteq Made'
        /\ shut' \subseteq inherited' /\ stuck' \subseteq shut'
        /\ current' \in Loggers \cup {None} /\ builtBy' \in 0 .. MaxForks \cup {None}
        /\ owner' \in Threads \cup {None} /\ env' \in Files \cup {None}
        /\ failures' \in 0 .. MaxFailures /\ calls' \in 0 .. MaxCalls
        /\ hook' \in Loggers \cup {App, None} /\ raced' \in BOOLEAN
        /\ appHook' \in [installed : BOOLEAN, prev : Loggers \cup {None}]
        /\ log' \in [Loggers -> LoggerRecord] /\ fd' \in Loggers \cup {None}
    BY <1>0, <1>1, <1>5 DEF TypeOK
  <2> QED
    BY <1>1, <1>3, <2>1, <2>2, TypesFrom
<1> QED
  BY <1>5, <1>6

LEMMA RejectKeepsTypes ==
  ASSUME InstrumentInv, NEW t \in Threads, Reject(t)
  PROVE  /\ TypeOK' /\ CountInv' /\ Made' = Made \ {Under}
         /\ log'[Under] = Blank
         /\ \A k \in Loggers : k # Under => log'[k] = log[k]
         /\ \A k \in Made \ {Under} : k < Under
<1>0. TypeOK /\ CountInv
  BY DEF InstrumentInv
<1>1. /\ t \in live /\ pc[t].at = "config" /\ ~pc[t].fallback
      /\ owner = t /\ Place = "config" /\ Under = pc[t].logger /\ Under \in Loggers
      /\ log[Under].made
      /\ owner' = None /\ live' = live /\ Place' = "none"
      /\ pc'[t] = Idle /\ pc' \in [Threads -> Pcs]
      /\ \A u \in Threads \ {t} : pc'[u] = pc[u]
      /\ log' = [log EXCEPT ![Under] = Blank]
      /\ UNCHANGED <<process, inherited, shut, stuck, current, builtBy, hook, appHook, raced,
                     stdout, fd, calls, failures>>
  BY <1>0, RejectMoves
<1>2. PICK file \in Files \cup {None} : env' = LoadEnv(file)
  BY RejectMoves, <1>0
<1>3. /\ log' \in [Loggers -> LoggerRecord] /\ log'[Under] = Blank
      /\ \A k \in Loggers : k # Under => log'[k] = log[k]
  BY <1>0, <1>1, BlankTyped, LogAt
<1>4. "config" \in Building /\ "none" \notin Building /\ Idle.at \notin InCall
  BY DEF InCall, Building, BeforeCapture, Idle
<1>5. \A u \in live' : owner' = u <=> pc'[u].at \in InCall
  BY <1>0, <1>1, <1>4, LockMoves
<1>6. Made = 1 .. Count /\ Under = Count /\ Under \notin inherited /\ Count \in Nat
  BY <1>0, <1>1, <1>4 DEF CountInv
<1>7. Made' = Made \ {Under} /\ Under \in Made
  BY <1>1, <1>3 DEF Made, Blank
<1>8. Count' = Count - 1
  <2>1. IsFiniteSet(Made)
    BY <1>6, FS_Interval, LoggersAreNumbers
  <2> QED
    BY <1>7, <2>1, FS_RemoveElement DEF Count
<1>9. Under > 0 /\ Count' \in Nat /\ Made' = 1 .. Count'
  BY <1>1, <1>6, <1>7, <1>8, LoggersAreNumbers
<1>10. \A k \in Made \ {Under} : k < Under
  BY <1>6
<1>11. TypeOK'
  <2>1. env' \in Files \cup {None}
    BY <1>0, <1>2 DEF TypeOK, LoadEnv
  <2>2. /\ process' \in 0 .. MaxForks /\ live' \subseteq Threads /\ inherited' \subseteq Made'
        /\ shut' \subseteq inherited' /\ stuck' \subseteq shut'
        /\ current' \in Loggers \cup {None} /\ builtBy' \in 0 .. MaxForks \cup {None}
        /\ owner' \in Threads \cup {None}
        /\ failures' \in 0 .. MaxFailures /\ calls' \in 0 .. MaxCalls
        /\ hook' \in Loggers \cup {App, None} /\ raced' \in BOOLEAN
        /\ appHook' \in [installed : BOOLEAN, prev : Loggers \cup {None}]
        /\ stdout' \in Loggers \cup {None} /\ fd' \in Loggers \cup {None}
    BY <1>0, <1>1, <1>6, <1>7 DEF TypeOK
  <2> QED
    BY <1>1, <1>3, <1>5, <2>1, <2>2, TypesFrom
<1>12. (Count + Cardinality(Pending) <= calls + 2 * failures)'
  <2>1. Pending' \subseteq Pending
    <3>1. t \notin Pending'
      BY <1>0, <1>1, PendingOthers DEF Idle, BeforeCapture
    <3> QED
      BY <1>0, <1>1, <3>1, PendingOthers
  <2>2. Cardinality(Pending)' \in Nat /\ Cardinality(Pending)' <= Cardinality(Pending)
    BY <1>0, <2>1, PendingLess
  <2>3. Count + Cardinality(Pending) <= calls + 2 * failures
    BY <1>0 DEF CountInv
  <2>4. calls \in Nat /\ failures \in Nat /\ Cardinality(Pending) \in Nat
    BY <1>0, PendingIsFinite, LoggersAreNumbers DEF TypeOK
  <2> QED
    BY <1>1, <1>6, <1>8, <2>2, <2>3, <2>4
<1>13. (\A l \in Loggers : log[l].made \/ log[l] = Blank)'
  BY <1>0, <1>3 DEF CountInv
<1>14. CountInv'
  BY <1>1, <1>4, <1>9, <1>12, <1>13 DEF CountInv
<1> QED
  BY <1>3, <1>7, <1>10, <1>11, <1>14

(* A step of the construction, up to the capture. *)
LEMMA BuilderKeepsTypes ==
  ASSUME TypeOK, CountInv, NEW t \in Threads, t \in live, owner = t, pc[t].at \in BeforeCapture,
         Place = pc[t].at, Under \in Loggers, log[Under].made,
         owner' = t, live' = live, Place' \in Building, pc'[t].at = Place', Under' = Under,
         pc'[t].fallback = pc[t].fallback, pc' \in [Threads -> Pcs],
         \A u \in Threads \ {t} : pc'[u] = pc[u],
         log' \in [Loggers -> LoggerRecord], log'[Under].made,
         \A k \in Loggers : k # Under => log'[k] = log[k],
         hook' \in Loggers \cup {App, None}, raced' \in BOOLEAN,
         stdout' \in Loggers \cup {None}, fd' \in Loggers \cup {None},
         env' \in Files \cup {None},
         UNCHANGED <<process, inherited, shut, stuck, current, builtBy, appHook, calls, failures>>
  PROVE  TypeOK' /\ CountInv' /\ Made' = Made
<1>1. Place' \in InCall /\ Place' \notin {"enter"} /\ BeforeCapture \subseteq Building
      /\ Building \subseteq InCall
  BY DEF InCall, Building, BeforeCapture
<1>2. \A u \in live' : owner' = u <=> pc'[u].at \in InCall
  BY <1>1, LockMoves
<1>3. Pending' \subseteq Pending
  <2>1. t \in Pending' => pc'[t].fallback
    <3>1. pc'[t].at \notin {"enter", "construct"}
      BY DEF Building, BeforeCapture
    <3> QED
      BY <3>1, PendingOthers
  <2>2. pc[t].fallback => t \in Pending
    BY DEF Pending
  <2>3. t \in Pending' => t \in Pending
    BY <2>1, <2>2
  <2> QED
    BY <2>3, PendingOthers
<1>4. \A l \in Loggers : log'[l] = log[l] \/ (log[l].made /\ log'[l].made)
  OBVIOUS
<1>5. CountInv' /\ Made' = Made
  BY <1>1, <1>3, <1>4, CountKept
<1>6. TypeOK'
  <2>2. /\ process' \in 0 .. MaxForks /\ live' \subseteq Threads /\ inherited' \subseteq Made'
        /\ shut' \subseteq inherited' /\ stuck' \subseteq shut'
        /\ current' \in Loggers \cup {None} /\ builtBy' \in 0 .. MaxForks \cup {None}
        /\ owner' \in Threads \cup {None}
        /\ failures' \in 0 .. MaxFailures /\ calls' \in 0 .. MaxCalls
        /\ appHook' \in [installed : BOOLEAN, prev : Loggers \cup {None}]
    BY <1>5 DEF TypeOK
  <2> QED
    BY <1>2, <2>2, TypesFrom
<1> QED
  BY <1>5, <1>6

LEMMA ConfigureKeepsTypes ==
  ASSUME InstrumentInv, NEW t \in Threads, Configure(t)
  PROVE  TypeOK' /\ CountInv' /\ Made' = Made
<1>0. TypeOK /\ CountInv
  BY DEF InstrumentInv
<1>1. /\ t \in live /\ pc[t].at = "config"
      /\ owner = t /\ Place = "config" /\ Under = pc[t].logger /\ Under \in Loggers
      /\ log[Under].made
      /\ owner' = t /\ live' = live /\ Place' \in {"hook", "publish"} /\ Under' = Under
      /\ pc'[t].at = Place' /\ pc'[t].fallback = pc[t].fallback
      /\ \A u \in Threads \ {t} : pc'[u] = pc[u]
      /\ pc' \in [Threads -> Pcs]
      /\ log' \in [Loggers -> LoggerRecord] /\ SameRoles(Under)
      /\ \A k \in Loggers : k # Under => log'[k] = log[k]
      /\ UNCHANGED <<process, inherited, shut, stuck, current, builtBy, hook, appHook, raced,
                     stdout, fd, calls, failures>>
  BY <1>0, ConfigureMoves
<1>2. PICK file \in Files \cup {None} : env' = LoadEnv(file)
  BY <1>0, ConfigureMoves
<1>3. env' \in Files \cup {None}
  BY <1>0, <1>2 DEF TypeOK, LoadEnv
<1>4. /\ hook' \in Loggers \cup {App, None} /\ raced' \in BOOLEAN
      /\ stdout' \in Loggers \cup {None} /\ fd' \in Loggers \cup {None}
  BY <1>0, <1>1 DEF TypeOK
<1>5. log'[Under].made /\ "config" \in BeforeCapture /\ Place' \in Building
  BY <1>1 DEF SameRoles, BeforeCapture, Building
<1>6. Place = pc[t].at /\ pc[t].at \in BeforeCapture
  BY <1>1, <1>5
<1> QED
  BY <1>0, <1>1, <1>3, <1>4, <1>5, <1>6, BuilderKeepsTypes

LEMMA ReadHookKeepsTypes ==
  ASSUME InstrumentInv, NEW t \in Threads, ReadHook(t)
  PROVE  TypeOK' /\ CountInv' /\ Made' = Made
<1>0. TypeOK /\ CountInv
  BY DEF InstrumentInv
<1>1. /\ t \in live /\ pc[t].at = "hook"
      /\ owner = t /\ Place = "hook" /\ Under = pc[t].logger /\ Under \in Loggers
      /\ log[Under].made
      /\ owner' = t /\ live' = live /\ Place' = "sethook" /\ Under' = Under
      /\ pc'[t].at = Place' /\ pc'[t].fallback = pc[t].fallback
      /\ \A u \in Threads \ {t} : pc'[u] = pc[u]
      /\ pc' \in [Threads -> Pcs]
      /\ log' \in [Loggers -> LoggerRecord] /\ SameRoles(Under)
      /\ \A k \in Loggers : k # Under => log'[k] = log[k]
      /\ raced' = (raced \/ Swapping(t))
      /\ UNCHANGED <<process, inherited, shut, stuck, current, builtBy, hook, appHook, stdout, fd,
                     env, calls, failures>>
  BY <1>0, ReadHookMoves
<1>2. raced' \in BOOLEAN
  BY <1>1
<1>4. /\ hook' \in Loggers \cup {App, None} /\ env' \in Files \cup {None}
      /\ stdout' \in Loggers \cup {None} /\ fd' \in Loggers \cup {None}
  BY <1>0, <1>1 DEF TypeOK
<1>5. log'[Under].made /\ "hook" \in BeforeCapture /\ Place' \in Building
  BY <1>1 DEF SameRoles, BeforeCapture, Building
<1>6. Place = pc[t].at /\ pc[t].at \in BeforeCapture
  BY <1>1, <1>5
<1> QED
  BY <1>0, <1>1, <1>2, <1>4, <1>5, <1>6, BuilderKeepsTypes

LEMMA SetHookKeepsTypes ==
  ASSUME InstrumentInv, NEW t \in Threads, SetHook(t)
  PROVE  TypeOK' /\ CountInv' /\ Made' = Made
<1>0. TypeOK /\ CountInv
  BY DEF InstrumentInv
<1>1. /\ t \in live /\ pc[t].at = "sethook"
      /\ owner = t /\ Place = "sethook" /\ Under = pc[t].logger /\ Under \in Loggers
      /\ log[Under].made
      /\ owner' = t /\ live' = live /\ Place' = "capture" /\ Under' = Under
      /\ pc'[t].at = Place' /\ pc'[t].fallback = pc[t].fallback
      /\ \A u \in Threads \ {t} : pc'[u] = pc[u]
      /\ pc' \in [Threads -> Pcs]
      /\ log' \in [Loggers -> LoggerRecord] /\ SameRoles(Under)
      /\ \A k \in Loggers : k # Under => log'[k] = log[k]
      /\ raced' = (raced \/ Swapping(t)) /\ hook' = Under
      /\ UNCHANGED <<process, inherited, shut, stuck, current, builtBy, appHook, stdout, fd, env,
                     calls, failures>>
  BY <1>0, SetHookMoves
<1>2. raced' \in BOOLEAN
  BY <1>1
<1>4. /\ hook' \in Loggers \cup {App, None} /\ env' \in Files \cup {None}
      /\ stdout' \in Loggers \cup {None} /\ fd' \in Loggers \cup {None}
  BY <1>0, <1>1 DEF TypeOK
<1>5. log'[Under].made /\ "sethook" \in BeforeCapture /\ Place' \in Building
  BY <1>1 DEF SameRoles, BeforeCapture, Building
<1>6. Place = pc[t].at /\ pc[t].at \in BeforeCapture
  BY <1>1, <1>5
<1> QED
  BY <1>0, <1>1, <1>2, <1>4, <1>5, <1>6, BuilderKeepsTypes

LEMMA CaptureKeepsTypes ==
  ASSUME InstrumentInv, NEW t \in Threads, Capture(t)
  PROVE  TypeOK' /\ CountInv' /\ Made' = Made
<1>0. TypeOK /\ CountInv
  BY DEF InstrumentInv
<1>1. /\ t \in live /\ pc[t].at = "capture"
      /\ owner = t /\ Place = "capture" /\ Under = pc[t].logger /\ Under \in Loggers
      /\ log[Under].made
      /\ owner' = t /\ live' = live /\ Place' = "publish" /\ Under' = Under
      /\ pc'[t].at = Place' /\ pc'[t].fallback = pc[t].fallback
      /\ \A u \in Threads \ {t} : pc'[u] = pc[u]
      /\ pc' \in [Threads -> Pcs]
      /\ log' \in [Loggers -> LoggerRecord] /\ SameRoles(Under)
      /\ \A k \in Loggers : k # Under => log'[k] = log[k]
      /\ stdout' = Under /\ fd' = Under
      /\ UNCHANGED <<process, inherited, shut, stuck, current, builtBy, hook, appHook, raced, env,
                     calls, failures>>
  BY <1>0, CaptureMoves
<1>4. /\ hook' \in Loggers \cup {App, None} /\ env' \in Files \cup {None}
      /\ stdout' \in Loggers \cup {None} /\ fd' \in Loggers \cup {None}
      /\ raced' \in BOOLEAN
  BY <1>0, <1>1 DEF TypeOK
<1>5. log'[Under].made /\ "capture" \in BeforeCapture /\ Place' \in Building
  BY <1>1 DEF SameRoles, BeforeCapture, Building
<1>6. Place = pc[t].at /\ pc[t].at \in BeforeCapture
  BY <1>1, <1>5
<1> QED
  BY <1>0, <1>1, <1>4, <1>5, <1>6, BuilderKeepsTypes

LEMMA CaptureRaisesKeepsTypes ==
  ASSUME InstrumentInv, NEW t \in Threads, CaptureRaises(t)
  PROVE  /\ TypeOK' /\ CountInv' /\ Made' = Made \cup {NextLogger}
         /\ NextLogger = Count + 1 /\ NextLogger \in Loggers
         /\ ~log[NextLogger].made /\ log[NextLogger] = Blank
         /\ \A l \in Made : l < NextLogger
<1>0. TypeOK /\ CountInv
  BY DEF InstrumentInv
<1>1. t \in live /\ pc[t].at = "capture" /\ (pc[t].fallback \/ failures < MaxFailures)
  BY DEF CaptureRaises, At
<1>2. pc[t].fallback => t \in Pending
  BY <1>1 DEF Pending, BeforeCapture
<1>3. /\ NextLogger = Count + 1 /\ NextLogger \in Loggers
      /\ ~log[NextLogger].made /\ log[NextLogger] = Blank
      /\ \A l \in Made : l < NextLogger
  <2>1. Pending # {} \/ failures < MaxFailures
    BY <1>1, <1>2
  <2> QED
    BY <1>0, <2>1, RoomForOneMore
<1>4. /\ failures' = IF pc[t].fallback THEN failures ELSE failures + 1
      /\ owner = t /\ Place = "capture" /\ Under = pc[t].logger /\ Under \in Loggers
      /\ log[Under].made /\ Under # NextLogger
      /\ owner' = t /\ live' = live /\ Under' = NextLogger
      /\ Place' = IF pc[t].fallback THEN "publish" ELSE "config"
      /\ pc'[t].at = Place' /\ pc'[t].fallback = TRUE
      /\ \A u \in Threads \ {t} : pc'[u] = pc[u]
      /\ pc' \in [Threads -> Pcs]
      /\ log' \in [Loggers -> LoggerRecord]
      /\ log'[NextLogger] = New(stdout)
      /\ SameRoles(Under)
      /\ fd' = fd \/ fd' = Under
      /\ \A k \in Loggers \ {Under, NextLogger} : log'[k] = log[k]
      /\ UNCHANGED <<process, inherited, shut, stuck, current, builtBy, hook, appHook, raced,
                     stdout, env, calls>>
  BY <1>0, <1>3, CaptureRaisesMoves
<1>5. Place' \in Building /\ Place' \in InCall
  BY <1>4 DEF Building, BeforeCapture, InCall
<1>6. \A u \in live' : owner' = u <=> pc'[u].at \in InCall
  BY <1>0, <1>1, <1>4, <1>5, LockMoves
<1>7. \A k \in Loggers \ {NextLogger} : log'[k] = log[k] \/ (log[k].made /\ log'[k].made)
  BY <1>4 DEF SameRoles
<1>8. /\ Made' = Made \cup {NextLogger} /\ Count' = Count + 1 /\ Count' \in Nat
      /\ Made' = 1 .. Count'
      /\ (\A l \in Loggers : log[l].made \/ log[l] = Blank)'
      /\ (Place \in Building => Under \in Loggers /\ Under = Count /\ Under \notin inherited)'
  BY <1>0, <1>3, <1>4, <1>5, <1>7, CountGrows
<1>9. calls \in 0 .. MaxCalls /\ failures \in 0 .. MaxFailures /\ failures' \in 0 .. MaxFailures
  BY <1>0, <1>1, <1>4, LoggersAreNumbers DEF TypeOK
<1>10. TypeOK'
  <2>1. stdout' \in Loggers \cup {None} /\ fd' \in Loggers \cup {None}
    BY <1>0, <1>4 DEF TypeOK
  <2>2. /\ process' \in 0 .. MaxForks /\ live' \subseteq Threads /\ inherited' \subseteq Made'
        /\ shut' \subseteq inherited' /\ stuck' \subseteq shut'
        /\ current' \in Loggers \cup {None} /\ builtBy' \in 0 .. MaxForks \cup {None}
        /\ owner' \in Threads \cup {None} /\ calls' \in 0 .. MaxCalls
        /\ hook' \in Loggers \cup {App, None} /\ raced' \in BOOLEAN /\ env' \in Files \cup {None}
        /\ appHook' \in [installed : BOOLEAN, prev : Loggers \cup {None}]
    BY <1>0, <1>4, <1>8, <1>9 DEF TypeOK
  <2> QED
    BY <1>4, <1>6, <1>9, <2>1, <2>2, TypesFrom
<1>11. (Count + Cardinality(Pending) <= calls + 2 * failures)'
  <2>1. Count + Cardinality(Pending) <= calls + 2 * failures /\ Count \in Nat
    BY <1>0 DEF CountInv
  <2>2. Cardinality(Pending) \in Nat /\ IsFiniteSet(Pending)
    BY <1>0, PendingIsFinite
  <2>3. CASE pc[t].fallback
    <3>1. t \notin Pending' /\ t \in Pending
      BY <1>0, <1>1, <1>2, <1>4, <2>3, PendingOthers DEF BeforeCapture
    <3>2. Pending' = Pending \ {t}
      BY <1>0, <1>1, <1>4, <3>1, PendingOthers
    <3>3. Cardinality(Pending)' = Cardinality(Pending) - 1
      BY <2>2, <3>1, <3>2, FS_RemoveElement
    <3>4. failures' = failures /\ calls' = calls
      BY <1>4, <2>3
    <3> QED
      BY <1>8, <1>9, <2>1, <2>2, <3>3, <3>4, LoggersAreNumbers
  <2>4. CASE ~pc[t].fallback
    <3>1. Pending' \subseteq Pending \cup {t}
      BY <1>0, <1>1, <1>4, PendingOthers
    <3>2. Cardinality(Pending \cup {t}) = Cardinality(Pending)
            \/ Cardinality(Pending \cup {t}) = Cardinality(Pending) + 1
      BY <2>2, FS_AddElement
    <3>3. IsFiniteSet(Pending \cup {t})
      BY <2>2, FS_AddElement
    <3>4. Cardinality(Pending)' <= Cardinality(Pending \cup {t}) /\ Cardinality(Pending)' \in Nat
      BY <3>1, <3>3, FS_Subset, FS_CardinalityType
    <3>5. failures' = failures + 1 /\ calls' = calls
      BY <1>4, <2>4
    <3> QED
      BY <1>8, <1>9, <2>1, <2>2, <3>2, <3>4, <3>5, LoggersAreNumbers
  <2> QED
    BY <2>3, <2>4
<1>12. CountInv'
  BY <1>8, <1>11 DEF CountInv
<1> QED
  BY <1>3, <1>8, <1>10, <1>12

LEMMA PublishKeepsTypes ==
  ASSUME InstrumentInv, NEW t \in Threads, Publish(t)
  PROVE  TypeOK' /\ CountInv' /\ Made' = Made
<1>0. TypeOK /\ CountInv
  BY DEF InstrumentInv
<1>1. /\ t \in live /\ pc[t].at = "publish"
      /\ owner = t /\ Place = "publish" /\ Under = pc[t].logger /\ Under \in Loggers
      /\ log[Under].made
      /\ owner' = None /\ live' = live /\ Place' = "none"
      /\ current' = Under /\ builtBy' = process
      /\ pc'[t] = Idle /\ pc' \in [Threads -> Pcs]
      /\ \A u \in Threads \ {t} : pc'[u] = pc[u]
      /\ log' \in [Loggers -> LoggerRecord]
      /\ log'[Under].made
      /\ log'[Under].original = log[Under].original /\ log'[Under].saved = log[Under].saved
      /\ stdout' = stdout \/ stdout' = log[Under].original
      /\ fd' = fd \/ fd' = log[Under].saved
      /\ \A k \in Loggers : k # Under => log'[k] = log[k]
      /\ UNCHANGED <<process, inherited, shut, stuck, hook, appHook, raced, env, calls, failures>>
  BY <1>0, PublishMoves
<1>2. Idle.at \notin InCall /\ "none" \notin Building
  BY DEF Idle, InCall, Building, BeforeCapture
<1>3. \A u \in live' : owner' = u <=> pc'[u].at \in InCall
  BY <1>0, <1>1, <1>2, LockMoves
<1>4. Pending' \subseteq Pending
  <2>1. t \notin Pending'
    BY <1>0, <1>1, PendingOthers DEF Idle, BeforeCapture
  <2> QED
    BY <1>0, <1>1, <2>1, PendingOthers
<1>5. \A l \in Loggers : log'[l] = log[l] \/ (log[l].made /\ log'[l].made)
  BY <1>1
<1>6. CountInv' /\ Made' = Made
  BY <1>0, <1>1, <1>2, <1>4, <1>5, CountKept
<1>7. TypeOK'
  <2>1. stdout' \in Loggers \cup {None} /\ fd' \in Loggers \cup {None}
    <3>1. log[Under] \in LoggerRecord
      BY <1>0, <1>1, LogTyped
    <3> QED
      BY <1>0, <1>1, <3>1 DEF TypeOK, LoggerRecord
  <2>2. /\ process' \in 0 .. MaxForks /\ live' \subseteq Threads /\ inherited' \subseteq Made'
        /\ shut' \subseteq inherited' /\ stuck' \subseteq shut'
        /\ current' \in Loggers \cup {None} /\ builtBy' \in 0 .. MaxForks \cup {None}
        /\ owner' \in Threads \cup {None} /\ calls' \in 0 .. MaxCalls
        /\ failures' \in 0 .. MaxFailures
        /\ hook' \in Loggers \cup {App, None} /\ raced' \in BOOLEAN /\ env' \in Files \cup {None}
        /\ appHook' \in [installed : BOOLEAN, prev : Loggers \cup {None}]
    BY <1>0, <1>1, <1>6 DEF TypeOK
  <2> QED
    BY <1>1, <1>3, <2>1, <2>2, TypesFrom
<1> QED
  BY <1>6, <1>7

LEMMA ForkKeepsTypes ==
  ASSUME InstrumentInv, NEW t \in Threads, Fork(t)
  PROVE  TypeOK' /\ CountInv' /\ Made' = Made
<1>0. TypeOK /\ CountInv
  BY DEF InstrumentInv
<1>1. /\ t \in live /\ process < MaxForks /\ process' = process + 1
      /\ live' = {t} /\ inherited' = Made /\ Place' = "none"
      /\ pc' \in [Threads -> Pcs] /\ \A u \in Threads : pc'[u] = Idle
      /\ shut \subseteq shut' /\ \A l \in shut' \ shut : l \in Loggers /\ log[l].captures
      /\ stdout' = stdout \/ \E l \in Loggers : stdout' \in {stdout, log[l].original}
      /\ fd' = fd \/ \E l \in Loggers : fd' = log[l].saved
      /\ UNCHANGED <<stuck, current, builtBy, owner, log, hook, appHook, raced, env, calls,
                     failures>>
  BY <1>0, ForkMoves
<1>2. pc[t].at = "idle"
  BY DEF Fork, At
<1>3. Idle.at \notin InCall /\ "none" \notin Building /\ "idle" \notin InCall
  BY DEF Idle, InCall, Building, BeforeCapture
<1>4. \A u \in live' : owner' = u <=> pc'[u].at \in InCall
  <2>1. owner # t
    BY <1>0, <1>1, <1>2, <1>3 DEF TypeOK
  <2> QED
    BY <1>1, <1>3, <2>1
<1>5. Made' = Made
  BY <1>1 DEF Made
<1>6. Pending' = {}
  BY <1>1 DEF Pending, Idle, BeforeCapture
<1>7. (Count + Cardinality(Pending) <= calls + 2 * failures)'
  <2>1. Cardinality(Pending)' = 0
    BY <1>6, FS_EmptySet
  <2>2. Count + Cardinality(Pending) <= calls + 2 * failures /\ Count \in Nat
    BY <1>0 DEF CountInv
  <2>3. calls \in Nat /\ failures \in Nat /\ Cardinality(Pending) \in Nat
    BY <1>0, PendingIsFinite, LoggersAreNumbers DEF TypeOK
  <2>4. Count' = Count
    BY <1>5 DEF Count
  <2> QED
    BY <1>1, <2>1, <2>2, <2>3, <2>4
<1>8. CountInv'
  <2>1. Count' \in Nat /\ Made' = 1 .. Count'
    BY <1>0, <1>5 DEF CountInv, Count
  <2>2. (\A l \in Loggers : log[l].made \/ log[l] = Blank)'
    BY <1>0, <1>1 DEF CountInv, Blank
  <2>3. (Place \in Building => Under \in Loggers /\ Under = Count /\ Under \notin inherited)'
    BY <1>1, <1>3
  <2> QED
    BY <1>7, <2>1, <2>2, <2>3 DEF CountInv
<1>9. TypeOK'
  <2>1. process' \in 0 .. MaxForks
    BY <1>0, <1>1, LoggersAreNumbers DEF TypeOK
  <2>2. /\ live' \subseteq Threads
        /\ current' \in Loggers \cup {None} /\ builtBy' \in 0 .. MaxForks \cup {None}
        /\ owner' \in Threads \cup {None} /\ calls' \in 0 .. MaxCalls
        /\ failures' \in 0 .. MaxFailures /\ log' \in [Loggers -> LoggerRecord]
        /\ hook' \in Loggers \cup {App, None} /\ raced' \in BOOLEAN /\ env' \in Files \cup {None}
        /\ appHook' \in [installed : BOOLEAN, prev : Loggers \cup {None}]
    BY <1>0, <1>1, <1>5 DEF TypeOK
  <2>3. inherited' \subseteq Made' /\ shut' \subseteq inherited' /\ stuck' \subseteq shut'
    <3>1. \A l \in shut' \ shut : l \in Made
      BY <1>0, <1>1, ReturnedIsMade DEF Made
    <3>2. shut \subseteq Made /\ stuck \subseteq shut
      BY <1>0 DEF TypeOK
    <3> QED
      BY <1>1, <1>5, <3>1, <3>2
  <2>4. stdout' \in Loggers \cup {None} /\ fd' \in Loggers \cup {None}
    <3>1. \A l \in Loggers : log[l].original \in Loggers \cup {None}
                             /\ log[l].saved \in Loggers \cup {None}
      BY <1>0, LogTyped DEF LoggerRecord
    <3> QED
      BY <1>0, <1>1, <3>1 DEF TypeOK
  <2> QED
    BY <1>1, <1>4, <2>1, <2>2, <2>3, <2>4, TypesFrom
<1> QED
  BY <1>5, <1>8, <1>9

LEMMA DisableRemoteKeepsTypes ==
  ASSUME InstrumentInv, NEW l \in Loggers, DisableRemote(l)
  PROVE  TypeOK' /\ CountInv' /\ Made' = Made /\ log[l].made
<1>0. TypeOK /\ CountInv
  BY DEF InstrumentInv
<1>1. /\ log[l].remote
      /\ log' \in [Loggers -> LoggerRecord] /\ SameRoles(l)
      /\ \A k \in Loggers : k # l => log'[k] = log[k]
      /\ stdout' = stdout \/ stdout' = log[l].original
      /\ fd' = fd \/ fd' = log[l].saved
      /\ UNCHANGED <<process, live, inherited, shut, stuck, current, builtBy, owner, hook,
                     appHook, raced, env, pc, calls, failures>>
      /\ Place' = Place /\ Under' = Under
  BY <1>0, DisableRemoteMoves
<1>2. log[l].made /\ log'[l].made
  BY <1>0, <1>1, ReturnedIsMade DEF SameRoles
<1>3. \A k \in Loggers : log'[k] = log[k] \/ (log[k].made /\ log'[k].made)
  BY <1>1, <1>2
<1>4. Pending' \subseteq Pending
  BY <1>1 DEF Pending
<1>5. CountInv' /\ Made' = Made
  BY <1>0, <1>1, <1>3, <1>4, CountKept
<1>6. TypeOK'
  <2>1. stdout' \in Loggers \cup {None} /\ fd' \in Loggers \cup {None}
    <3>1. log[l] \in LoggerRecord
      BY <1>0, LogTyped
    <3> QED
      BY <1>0, <1>1, <3>1 DEF TypeOK, LoggerRecord
  <2>2. /\ process' \in 0 .. MaxForks /\ live' \subseteq Threads /\ inherited' \subseteq Made'
        /\ shut' \subseteq inherited' /\ stuck' \subseteq shut'
        /\ current' \in Loggers \cup {None} /\ builtBy' \in 0 .. MaxForks \cup {None}
        /\ owner' \in Threads \cup {None} /\ calls' \in 0 .. MaxCalls
        /\ failures' \in 0 .. MaxFailures /\ pc' \in [Threads -> Pcs]
        /\ hook' \in Loggers \cup {App, None} /\ raced' \in BOOLEAN /\ env' \in Files \cup {None}
        /\ appHook' \in [installed : BOOLEAN, prev : Loggers \cup {None}]
    BY <1>0, <1>1, <1>5, PcTyped DEF TypeOK
  <2>3. \A u \in live' : owner' = u <=> pc'[u].at \in InCall
    BY <1>0, <1>1 DEF TypeOK
  <2> QED
    BY <1>1, <2>1, <2>2, <2>3, TypesFrom
<1> QED
  BY <1>2, <1>5, <1>6

-----------------------------------------------------------------------------
(* One open logger.                                                        *)

(* Loggers stay returned and closed, and no other opens. *)
RolesGrow ==
  \A l \in Loggers :
    /\ log[l].returned => log'[l].returned
    /\ log[l].closed => log'[l].closed
    /\ log'[l].returned /\ ~log'[l].closed => log[l].returned /\ ~log[l].closed
    /\ log[l].returned /\ ~log[l].captures => ~log'[l].captures

(* What holds of a thread that is closing a logger. *)
Closes(t) ==
  /\ pc[t].logger \in Loggers
  /\ log[pc[t].logger].returned /\ ~log[pc[t].logger].captures
  /\ pc[t].at # "flush" => log[pc[t].logger].closed

LEMMA RolesKept ==
  ASSUME RolesInv, RolesGrow,
         \A u \in live' : pc'[u].at \in Closing => (u \in live /\ pc'[u] = pc[u]) \/ Closes(u)',
         Place' \in Building => ~log'[Under'].returned /\ ~log'[Under'].closed,
         current' # None => log'[current'].returned
  PROVE  RolesInv'
<1>1. ASSUME NEW u \in live', pc'[u].at \in Closing PROVE Closes(u)'
  <2>1. CASE u \in live /\ pc'[u] = pc[u]
    <3>1. Closes(u)
      BY <1>1, <2>1 DEF RolesInv, Closes
    <3> QED
      BY <2>1, <3>1 DEF Closes, RolesGrow
  <2> QED
    BY <1>1, <2>1
<1> QED
  BY <1>1 DEF RolesInv, Closes

LEMMA OpenKept ==
  ASSUME TypeOK, OpenInv, RolesGrow, current' = current, stuck \subseteq stuck',
         owner' # None => owner # None \/ current = None \/ log'[current].closed
                            \/ current \in stuck'
  PROVE  OpenInv'
<1>1. (\A l \in Loggers : log[l].returned /\ ~log[l].closed => l = current \/ l \in stuck)'
  BY DEF OpenInv, RolesGrow
<1>2. current \in Loggers \cup {None}
  BY DEF TypeOK
<1>3. (owner # None => current = None \/ log[current].closed \/ current \in stuck)'
  BY <1>2 DEF OpenInv, RolesGrow
<1> QED
  BY <1>1, <1>3 DEF OpenInv

LEMMA OutsideGrowsRoles ==
  ASSUME InstrumentInv, NEW t \in Threads, Outside(t)
  PROVE  /\ RolesGrow
         /\ \A l \in Loggers : /\ log'[l].returned = log[l].returned
                               /\ log'[l].closed => log[l].closed \/ log[l].returned
         /\ pc'[t].at \in Closing => Closes(t)' \/ pc'[t] = pc[t]
<1> USE DEF At
<1>0. TypeOK /\ CountInv /\ RolesInv
  BY DEF InstrumentInv
<1>1. t \in live
  BY <1>0, OutsideMoves
<1>2. ASSUME log' = log
      PROVE  /\ RolesGrow
             /\ \A l \in Loggers : /\ log'[l].returned = log[l].returned
                                   /\ log'[l].closed => log[l].closed \/ log[l].returned
  BY <1>2 DEF RolesGrow
<1>3. CASE Instrument(t)
  <2>1. log' = log /\ Goto(t, "enter")
    BY <1>3 DEF Instrument
  <2>2. pc'[t] = [at |-> "enter", logger |-> pc[t].logger, fallback |-> pc[t].fallback]
    BY <1>0, <1>1, <2>1, GotoMoves
  <2> QED
    BY <1>2, <2>1, <2>2 DEF Closing
<1>4. CASE Reuse(t)
  <2>1. log' = log /\ Done(t)
    BY <1>4 DEF Reuse
  <2>2. pc'[t] = Idle
    BY <1>0, <1>1, <2>1, DoneMoves
  <2> QED
    BY <1>2, <2>1, <2>2 DEF Closing, Idle
<1>5. CASE \E l \in Loggers : CloseBegin(t, l)
  <2>1. PICK l \in Loggers : CloseBegin(t, l)
    BY <1>5
  <2>2. /\ log[l].returned /\ ~log[l].closed
        /\ pc'[t] = [at |-> "flush", logger |-> l, fallback |-> FALSE]
        /\ SameRoles(l) /\ ~log'[l].captures
        /\ \A k \in Loggers : k # l => log'[k] = log[k]
    BY <1>0, <2>1, CloseBeginMoves
  <2>3. log'[l].returned = log[l].returned /\ log'[l].closed = log[l].closed
    BY <2>2 DEF SameRoles
  <2>4. RolesGrow
    BY <2>2, <2>3 DEF RolesGrow
  <2>5. \A k \in Loggers : /\ log'[k].returned = log[k].returned
                           /\ log'[k].closed => log[k].closed \/ log[k].returned
    BY <2>2, <2>3
  <2>6. Closes(t)'
    <3>1. pc'[t].logger = l /\ pc'[t].at = "flush"
      BY <2>2
    <3> QED
      BY <2>2, <2>3, <3>1 DEF Closes
  <2> QED
    BY <2>4, <2>5, <2>6
<1>6. CASE CloseMark(t)
  <2> DEFINE l == pc[t].logger
  <2>1. pc[t].at = "flush"
    BY <1>6 DEF CloseMark
  <2>2. l \in Loggers /\ log[l].returned /\ ~log[l].captures
    BY <1>0, <1>1, <2>1, ClosedIsMade DEF Closing
  <2>3. /\ pc'[t].at = "check" /\ pc'[t].logger = l
        /\ log'[l].closed /\ log'[l].returned = log[l].returned /\ SameStreams(l)
        /\ \A k \in Loggers : k # l => log'[k] = log[k]
    BY <1>0, <1>6, <2>2, CloseMarkMoves
  <2> HIDE DEF l
  <2>4. log'[l].captures = log[l].captures
    BY <2>3 DEF SameStreams
  <2>5. RolesGrow
    BY <2>2, <2>3, <2>4 DEF RolesGrow
  <2>6. \A k \in Loggers : /\ log'[k].returned = log[k].returned
                           /\ log'[k].closed => log[k].closed \/ log[k].returned
    BY <2>2, <2>3
  <2>7. Closes(t)'
    BY <2>2, <2>3, <2>4 DEF Closes
  <2> QED
    BY <2>5, <2>6, <2>7
<1>7. CASE CloseCheck(t)
  <2>1. log' = log /\ pc[t].at = "check" /\ (Goto(t, "unhook") \/ Done(t))
    BY <1>7 DEF CloseCheck
  <2>2. CASE Goto(t, "unhook")
    <3>1. pc'[t] = [at |-> "unhook", logger |-> pc[t].logger, fallback |-> pc[t].fallback]
      BY <1>0, <1>1, <2>2, GotoMoves
    <3>2. Closes(t) /\ log[pc[t].logger].closed
      BY <1>0, <1>1, <2>1, ClosedIsMade DEF Closing, Closes
    <3>3. Closes(t)'
      BY <2>1, <3>1, <3>2 DEF Closes
    <3> QED
      BY <1>2, <2>1, <3>3
  <2>3. CASE Done(t)
    <3>1. pc'[t] = Idle
      BY <1>0, <1>1, <2>3, DoneMoves
    <3> QED
      BY <1>2, <2>1, <3>1 DEF Closing, Idle
  <2> QED
    BY <2>1, <2>2, <2>3
<1>8. CASE CloseUnhook(t)
  <2>1. log' = log /\ Done(t)
    BY <1>8 DEF CloseUnhook
  <2>2. pc'[t] = Idle
    BY <1>0, <1>1, <2>1, DoneMoves
  <2> QED
    BY <1>2, <2>1, <2>2 DEF Closing, Idle
<1>9. CASE AppHook(t)
  <2>1. log' = log /\ pc' = pc
    BY <1>9 DEF AppHook
  <2> QED
    BY <1>2, <2>1
<1>10. CASE \E l \in Loggers : CloseRaises(t, l)
  <2>1. log' = log /\ pc' = pc
    BY <1>10, CloseRaisesMoves
  <2> QED
    BY <1>2, <2>1
<1> QED
  BY <1>3, <1>4, <1>5, <1>6, <1>7, <1>8, <1>9, <1>10 DEF Outside

LEMMA OutsideKeepsRoles ==
  ASSUME InstrumentInv, NEW t \in Threads, Outside(t)
  PROVE  RolesInv' /\ OpenInv'
<1>0. TypeOK /\ CountInv /\ RolesInv /\ OpenInv
  BY DEF InstrumentInv
<1>1. /\ t \in live /\ live' = live /\ \A u \in Threads \ {t} : pc'[u] = pc[u]
      /\ owner' = owner /\ current' = current /\ stuck' = stuck
  BY <1>0, OutsideMoves
<1>2. /\ RolesGrow
      /\ \A l \in Loggers : /\ log'[l].returned = log[l].returned
                            /\ log'[l].closed => log[l].closed \/ log[l].returned
      /\ pc'[t].at \in Closing => Closes(t)' \/ pc'[t] = pc[t]
  BY OutsideGrowsRoles
<1>3. Place' = Place /\ (Place # "none" => Under' = Under)
  BY OutsideKeepsTypes
<1>4. OpenInv'
  BY <1>0, <1>1, <1>2, OpenKept
<1>5. \A u \in live' : pc'[u].at \in Closing => (u \in live /\ pc'[u] = pc[u]) \/ Closes(u)'
  <2>1. live \subseteq Threads
    BY <1>0 DEF TypeOK
  <2> QED
    BY <2>1, <1>1, <1>2
<1>6. Place' \in Building => ~log'[Under'].returned /\ ~log'[Under'].closed
  <2>1. Place' \in Building => Place \in Building /\ Under' = Under
    BY <1>3 DEF Building, BeforeCapture
  <2>2. Place \in Building => Under \in Loggers /\ ~log[Under].returned /\ ~log[Under].closed
    BY <1>0, UnderIsMade DEF RolesInv
  <2> QED
    BY <2>1, <2>2, <1>2
<1>7. current' # None => log'[current'].returned
  BY <1>0, <1>1, <1>2 DEF TypeOK, RolesInv
<1> QED
  BY <1>0, <1>2, <1>4, <1>5, <1>6, <1>7, RolesKept

(* The step of a thread that holds the lock and leaves it to be closed by nobody. *)
LEMMA ClosersKept ==
  ASSUME TypeOK, NEW t \in Threads, live' = live, \A u \in Threads \ {t} : pc'[u] = pc[u],
         pc'[t].at \notin Closing
  PROVE  \A u \in live' : pc'[u].at \in Closing => (u \in live /\ pc'[u] = pc[u]) \/ Closes(u)'
BY DEF TypeOK

LEMMA MakeKeepsRoles ==
  ASSUME InstrumentInv, NEW t \in Threads, Build(t) \/ Construct(t)
  PROVE  RolesInv' /\ OpenInv'
<1>0. TypeOK /\ CountInv /\ RolesInv /\ OpenInv
  BY DEF InstrumentInv
<1> DEFINE n == NextLogger
<1>1. /\ n \in Loggers /\ ~log[n].made /\ log[n] = Blank /\ log'[n] = New(stdout)
      /\ \A k \in Loggers : k # n => log'[k] = log[k]
  BY MakeKeepsTypes
<1>2. /\ t \in live /\ live' = live /\ owner' = t /\ Place' = "config" /\ Under' = n
      /\ pc'[t] = [at |-> "config", logger |-> n, fallback |-> FALSE]
      /\ \A u \in Threads \ {t} : pc'[u] = pc[u]
      /\ owner = None \/ owner = t
      /\ owner = None => current = None \/ log[current].closed
      /\ current' = current /\ stuck' = stuck
  BY <1>0, MakeMoves
<1> HIDE DEF n
<1>3. /\ ~log[n].returned /\ ~log[n].closed /\ ~log[n].captures
      /\ ~log'[n].returned /\ ~log'[n].closed /\ ~log'[n].captures
  BY <1>1 DEF New, Blank
<1>4. RolesGrow
  BY <1>1, <1>3 DEF RolesGrow
<1>5. current \in Loggers => current # n
  BY <1>0, <1>3, LoggersAreNumbers DEF RolesInv
<1>6. current # None => log'[current].returned /\ log'[current] = log[current]
  BY <1>0, <1>1, <1>5 DEF RolesInv, TypeOK
<1>7. OpenInv'
  <2>1. owner' # None => owner # None \/ current = None \/ log'[current].closed
    BY <1>2, <1>6
  <2> QED
    BY <1>0, <1>2, <1>4, <2>1, OpenKept
<1>8. \A u \in live' : pc'[u].at \in Closing => (u \in live /\ pc'[u] = pc[u]) \/ Closes(u)'
  <2>1. pc'[t].at \notin Closing
    BY <1>2 DEF Closing
  <2> QED
    BY <1>0, <1>2, <2>1, ClosersKept
<1> QED
  BY <1>0, <1>2, <1>3, <1>4, <1>6, <1>7, <1>8, RolesKept

LEMMA RetireKeepsRoles ==
  ASSUME InstrumentInv, NEW t \in Threads, Retire(t)
  PROVE  RolesInv' /\ OpenInv'
<1>0. TypeOK /\ CountInv /\ RolesInv /\ OpenInv
  BY DEF InstrumentInv
<1>1. /\ log[current].returned /\ log'[current].closed /\ ~log'[current].captures
      /\ log'[current].returned = log[current].returned
      /\ \A k \in Loggers : k # current => log'[k] = log[k]
  BY RetireKeepsTypes
<1>2. /\ t \in live /\ live' = live /\ owner' = t /\ Place' = "construct" /\ current \in Loggers
      /\ pc'[t] = [at |-> "construct", logger |-> pc[t].logger, fallback |-> pc[t].fallback]
      /\ \A u \in Threads \ {t} : pc'[u] = pc[u]
      /\ current' = current /\ stuck' = stuck
  BY <1>0, RetireMoves
<1>3. RolesGrow
  BY <1>1, <1>2 DEF RolesGrow
<1>4. OpenInv'
  BY <1>0, <1>1, <1>2, <1>3, OpenKept
<1>5. \A u \in live' : pc'[u].at \in Closing => (u \in live /\ pc'[u] = pc[u]) \/ Closes(u)'
  <2>1. pc'[t].at \notin Closing
    BY <1>2 DEF Closing
  <2> QED
    BY <1>0, <1>2, <2>1, ClosersKept
<1>6. Place' \notin Building
  BY <1>2 DEF Building, BeforeCapture
<1>7. current' # None => log'[current'].returned
  BY <1>1, <1>2
<1> QED
  BY <1>0, <1>3, <1>4, <1>5, <1>6, <1>7, RolesKept

LEMMA RetireRaisesKeepsRoles ==
  ASSUME InstrumentInv, NEW t \in Threads, RetireRaises(t)
  PROVE  RolesInv' /\ OpenInv'
<1>0. TypeOK /\ CountInv /\ RolesInv /\ OpenInv
  BY DEF InstrumentInv
<1>1. /\ t \in live /\ live' = live /\ owner' = t /\ Place' = "construct"
      /\ pc'[t] = [at |-> "construct", logger |-> pc[t].logger, fallback |-> pc[t].fallback]
      /\ \A u \in Threads \ {t} : pc'[u] = pc[u]
      /\ stuck' = stuck \cup {current} /\ current' = current /\ log' = log
  BY <1>0, RetireRaisesMoves
<1>2. RolesGrow
  BY <1>1 DEF RolesGrow
<1>3. OpenInv'
  BY <1>0, <1>1, <1>2, OpenKept
<1>4. \A u \in live' : pc'[u].at \in Closing => (u \in live /\ pc'[u] = pc[u]) \/ Closes(u)'
  <2>1. pc'[t].at \notin Closing
    BY <1>1 DEF Closing
  <2> QED
    BY <1>0, <1>1, <2>1, ClosersKept
<1>5. Place' \notin Building
  BY <1>1 DEF Building, BeforeCapture
<1>6. current' # None => log'[current'].returned
  BY <1>0, <1>1 DEF RolesInv
<1> QED
  BY <1>0, <1>2, <1>3, <1>4, <1>5, <1>6, RolesKept

LEMMA RejectKeepsRoles ==
  ASSUME InstrumentInv, NEW t \in Threads, Reject(t)
  PROVE  RolesInv' /\ OpenInv'
<1>0. TypeOK /\ CountInv /\ RolesInv /\ OpenInv
  BY DEF InstrumentInv
<1>1. log'[Under] = Blank /\ \A k \in Loggers : k # Under => log'[k] = log[k]
  BY RejectKeepsTypes
<1>2. /\ t \in live /\ live' = live /\ owner' = None /\ Place' = "none" /\ Under \in Loggers
      /\ Place = "config" /\ pc'[t] = Idle
      /\ \A u \in Threads \ {t} : pc'[u] = pc[u]
      /\ current' = current /\ stuck' = stuck
  BY <1>0, RejectMoves
<1>3. /\ ~log[Under].returned /\ ~log[Under].closed
      /\ ~log'[Under].returned /\ ~log'[Under].closed /\ ~log'[Under].captures
  BY <1>0, <1>1, <1>2 DEF RolesInv, Building, BeforeCapture, Blank
<1>4. RolesGrow
  BY <1>1, <1>2, <1>3 DEF RolesGrow
<1>5. current # None => log'[current].returned
  <2>1. current # None => current \in Loggers /\ current # Under
    BY <1>0, <1>3 DEF RolesInv, TypeOK
  <2> QED
    BY <1>0, <1>1, <2>1 DEF RolesInv
<1>6. OpenInv'
  BY <1>0, <1>2, <1>4, OpenKept
<1>7. \A u \in live' : pc'[u].at \in Closing => (u \in live /\ pc'[u] = pc[u]) \/ Closes(u)'
  <2>1. pc'[t].at \notin Closing
    BY <1>2 DEF Closing, Idle
  <2> QED
    BY <1>0, <1>2, <2>1, ClosersKept
<1>8. Place' \notin Building
  BY <1>2 DEF Building, BeforeCapture
<1> QED
  BY <1>0, <1>2, <1>4, <1>5, <1>6, <1>7, <1>8, RolesKept

(* A step of the construction that changes no role. *)
LEMMA BuilderKeepsRoles ==
  ASSUME InstrumentInv, NEW t \in Threads, live' = live, owner = t, owner' = t,
         Place \in Building, Under \in Loggers,
         Place' \in Building, Under' = Under, pc'[t].at = Place',
         \A u \in Threads \ {t} : pc'[u] = pc[u],
         SameRoles(Under), \A k \in Loggers : k # Under => log'[k] = log[k],
         current' = current /\ stuck' = stuck
  PROVE  RolesInv' /\ OpenInv'
<1>0. TypeOK /\ CountInv /\ RolesInv /\ OpenInv
  BY DEF InstrumentInv
<1>3. /\ ~log[Under].returned /\ ~log[Under].closed
      /\ ~log'[Under].returned /\ ~log'[Under].closed
  BY <1>0 DEF RolesInv, SameRoles
<1>4. RolesGrow
  BY <1>3 DEF RolesGrow
<1>5. current # None => log'[current].returned
  <2>1. current # None => current \in Loggers /\ current # Under
    BY <1>0, <1>3 DEF RolesInv, TypeOK
  <2> QED
    BY <1>0, <2>1 DEF RolesInv
<1>6. OpenInv'
  <2>1. owner # None
    BY UserThreads
  <2> QED
    BY <1>0, <1>4, <2>1, OpenKept
<1>7. \A u \in live' : pc'[u].at \in Closing => (u \in live /\ pc'[u] = pc[u]) \/ Closes(u)'
  <2>1. pc'[t].at \notin Closing
    BY DEF Closing, Building, BeforeCapture
  <2> QED
    BY <1>0, <2>1, ClosersKept
<1> QED
  BY <1>0, <1>3, <1>4, <1>5, <1>6, <1>7, RolesKept

LEMMA ConfigureKeepsRoles ==
  ASSUME InstrumentInv, NEW t \in Threads, Configure(t) \/ ReadHook(t) \/ SetHook(t) \/ Capture(t)
  PROVE  RolesInv' /\ OpenInv'
<1>0. TypeOK /\ CountInv
  BY DEF InstrumentInv
<1>1. /\ live' = live /\ owner = t /\ owner' = t
      /\ Place \in Building /\ Under \in Loggers
      /\ Place' \in Building /\ Under' = Under /\ pc'[t].at = Place'
      /\ \A u \in Threads \ {t} : pc'[u] = pc[u]
      /\ SameRoles(Under) /\ \A k \in Loggers : k # Under => log'[k] = log[k]
      /\ current' = current /\ stuck' = stuck
  <2>1. CASE Configure(t)
    BY <1>0, <2>1, ConfigureMoves DEF Building, BeforeCapture
  <2>2. CASE ReadHook(t)
    BY <1>0, <2>2, ReadHookMoves DEF Building, BeforeCapture
  <2>3. CASE SetHook(t)
    BY <1>0, <2>3, SetHookMoves DEF Building, BeforeCapture
  <2>4. CASE Capture(t)
    BY <1>0, <2>4, CaptureMoves DEF Building, BeforeCapture
  <2> QED
    BY <2>1, <2>2, <2>3, <2>4
<1> QED
  BY <1>1, BuilderKeepsRoles

LEMMA CaptureRaisesKeepsRoles ==
  ASSUME InstrumentInv, NEW t \in Threads, CaptureRaises(t)
  PROVE  RolesInv' /\ OpenInv'
<1>0. TypeOK /\ CountInv /\ RolesInv /\ OpenInv
  BY DEF InstrumentInv
<1> DEFINE n == NextLogger
<1>1. n \in Loggers /\ ~log[n].made /\ log[n] = Blank
  BY CaptureRaisesKeepsTypes
<1>2. /\ t \in live /\ live' = live /\ owner' = t /\ owner = t
      /\ Place = "capture" /\ Under \in Loggers /\ Under # n
      /\ Place' = (IF pc[t].fallback THEN "publish" ELSE "config") /\ Under' = n
      /\ pc'[t].at = Place'
      /\ \A u \in Threads \ {t} : pc'[u] = pc[u]
      /\ log'[n] = New(stdout)
      /\ SameRoles(Under)
      /\ \A k \in Loggers \ {Under, n} : log'[k] = log[k]
      /\ current' = current /\ stuck' = stuck
  BY <1>0, <1>1, CaptureRaisesMoves
<1> HIDE DEF n
<1>3. /\ ~log[n].returned /\ ~log[n].closed /\ ~log[n].captures
      /\ ~log'[n].returned /\ ~log'[n].closed /\ ~log'[n].captures
  BY <1>1, <1>2 DEF New, Blank
<1>4. /\ ~log[Under].returned /\ ~log[Under].closed
      /\ ~log'[Under].returned /\ ~log'[Under].closed
  BY <1>0, <1>2 DEF RolesInv, SameRoles, Building, BeforeCapture
<1>5. RolesGrow
  BY <1>2, <1>3, <1>4 DEF RolesGrow
<1>6. current # None => log'[current].returned
  <2>1. current # None => current \in Loggers /\ current \notin {n, Under}
    BY <1>0, <1>3, <1>4 DEF RolesInv, TypeOK
  <2> QED
    BY <1>0, <1>2, <2>1 DEF RolesInv
<1>7. OpenInv'
  <2>1. owner # None
    BY <1>2, UserThreads
  <2> QED
    BY <1>0, <1>2, <1>5, <2>1, OpenKept
<1>8. \A u \in live' : pc'[u].at \in Closing => (u \in live /\ pc'[u] = pc[u]) \/ Closes(u)'
  <2>1. pc'[t].at \notin Closing
    BY <1>2 DEF Closing
  <2> QED
    BY <1>0, <1>2, <2>1, ClosersKept
<1> QED
  BY <1>0, <1>2, <1>3, <1>5, <1>6, <1>7, <1>8, RolesKept

LEMMA PublishKeepsRoles ==
  ASSUME InstrumentInv, NEW t \in Threads, Publish(t)
  PROVE  RolesInv' /\ OpenInv'
<1>0. TypeOK /\ CountInv /\ RolesInv /\ OpenInv
  BY DEF InstrumentInv
<1>1. /\ t \in live /\ live' = live /\ owner' = None /\ owner = t /\ Place' = "none"
      /\ Under \in Loggers /\ Place = "publish" /\ pc'[t] = Idle
      /\ \A u \in Threads \ {t} : pc'[u] = pc[u]
      /\ current' = Under /\ stuck' = stuck
      /\ log'[Under].returned /\ log'[Under].closed = log[Under].closed
      /\ \A k \in Loggers : k # Under => log'[k] = log[k]
  BY <1>0, PublishMoves
<1>2. ~log[Under].returned /\ ~log[Under].closed
  BY <1>0, <1>1 DEF RolesInv, Building, BeforeCapture
<1>3. \A u \in live' : pc'[u].at \in Closing => Closes(u)'
  <2> SUFFICES ASSUME NEW u \in live', pc'[u].at \in Closing PROVE Closes(u)'
    OBVIOUS
  <2>1. u \in Threads /\ u # t
    BY <1>0, <1>1 DEF TypeOK, Idle, Closing
  <2>2. u \in live /\ pc'[u] = pc[u]
    BY <1>1, <2>1
  <2>3. Closes(u) /\ pc[u].logger # Under
    BY <1>0, <1>2, <2>2 DEF RolesInv, Closes
  <2> QED
    BY <1>1, <2>2, <2>3 DEF Closes
<1>4. RolesInv'
  <2>1. Place' \notin Building
    BY <1>1 DEF Building, BeforeCapture
  <2> QED
    BY <1>1, <1>3, <2>1 DEF RolesInv, Closes
<1>5. OpenInv'
  <2>1. owner # None
    BY <1>1, UserThreads
  <2>2. \A l \in Loggers : log[l].returned => log[l].closed \/ l \in stuck
    BY <1>0, <2>1, LoggersAreNumbers DEF OpenInv
  <2>3. \A l \in Loggers : log'[l].returned /\ ~log'[l].closed => l = Under \/ l \in stuck
    BY <1>1, <2>2
  <2> QED
    BY <1>1, <2>3 DEF OpenInv
<1> QED
  BY <1>4, <1>5

LEMMA ForkKeepsRoles ==
  ASSUME InstrumentInv, NEW t \in Threads, Fork(t)
  PROVE  RolesInv' /\ OpenInv'
<1>0. TypeOK /\ CountInv /\ RolesInv /\ OpenInv
  BY DEF InstrumentInv
<1>1. /\ t \in live /\ live' = {t} /\ Place' = "none" /\ \A u \in Threads : pc'[u] = Idle
      /\ UNCHANGED <<current, stuck, owner, log>>
  BY <1>0, ForkMoves
<1>2. Place' \notin Building /\ \A u \in live' : pc'[u].at \notin Closing
  BY <1>1 DEF Building, BeforeCapture, Idle, Closing
<1>3. RolesInv'
  BY <1>0, <1>1, <1>2 DEF RolesInv
<1> QED
  BY <1>0, <1>1, <1>3 DEF OpenInv

LEMMA DisableRemoteKeepsRoles ==
  ASSUME InstrumentInv, NEW l \in Loggers, DisableRemote(l)
  PROVE  RolesInv' /\ OpenInv'
<1>0. TypeOK /\ CountInv /\ RolesInv /\ OpenInv
  BY DEF InstrumentInv
<1>1. /\ SameRoles(l) /\ ~log'[l].captures
      /\ \A k \in Loggers : k # l => log'[k] = log[k]
      /\ UNCHANGED <<live, current, stuck, owner, pc>>
      /\ Place' = Place /\ Under' = Under
  BY <1>0, DisableRemoteMoves
<1>2. \A k \in Loggers : log'[k].returned = log[k].returned /\ log'[k].closed = log[k].closed
  BY <1>1 DEF SameRoles
<1>3. RolesGrow
  BY <1>1, <1>2 DEF RolesGrow
<1>4. OpenInv'
  BY <1>0, <1>1, <1>3, OpenKept
<1>5. Place' \in Building => ~log'[Under'].returned /\ ~log'[Under'].closed
  <2>1. Place \in Building => Under \in Loggers /\ ~log[Under].returned /\ ~log[Under].closed
    BY <1>0, UnderIsMade DEF RolesInv
  <2> QED
    BY <1>1, <1>2, <2>1
<1>6. current' # None => log'[current'].returned
  BY <1>0, <1>1, <1>2 DEF TypeOK, RolesInv
<1> QED
  BY <1>0, <1>1, <1>3, <1>4, <1>5, <1>6, RolesKept

-----------------------------------------------------------------------------
(* The loggers a child could not retire: nothing changes them any more.    *)

LEMMA StuckIsInherited ==
  ASSUME TypeOK, StuckInv
  PROVE  /\ stuck \subseteq Loggers /\ stuck \subseteq inherited /\ stuck \subseteq shut
         /\ \A l \in stuck : log[l].returned /\ log[l].captures
BY DEF TypeOK, StuckInv, Made

LEMMA StuckKept ==
  ASSUME StuckInv, UNCHANGED <<stuck, current, builtBy, process>>,
         \A l \in stuck : log'[l] = log[l]
  PROVE  StuckInv'
BY DEF StuckInv

LEMMA StuckKeptByBuilder ==
  ASSUME InstrumentInv, NEW t \in Threads,
         Reject(t) \/ Configure(t) \/ ReadHook(t) \/ SetHook(t) \/ Capture(t) \/ CaptureRaises(t)
  PROVE  StuckInv'
<1>0. TypeOK /\ CountInv /\ StuckInv
  BY DEF InstrumentInv
<1>1. /\ Place \in Building
      /\ \A k \in Loggers : k # Under => log'[k] = log[k] \/ ~log[k].made
      /\ UNCHANGED <<stuck, current, builtBy, process>>
  <2>1. CASE Reject(t)
    BY <1>0, <2>1, RejectMoves, RejectKeepsTypes DEF Building, BeforeCapture
  <2>2. CASE Configure(t)
    BY <1>0, <2>2, ConfigureMoves DEF Building, BeforeCapture
  <2>3. CASE ReadHook(t)
    BY <1>0, <2>3, ReadHookMoves DEF Building, BeforeCapture
  <2>4. CASE SetHook(t)
    BY <1>0, <2>4, SetHookMoves DEF Building, BeforeCapture
  <2>5. CASE Capture(t)
    BY <1>0, <2>5, CaptureMoves DEF Building, BeforeCapture
  <2>6. CASE CaptureRaises(t)
    <3>1. NextLogger \in Loggers /\ ~log[NextLogger].made
      BY <2>6, CaptureRaisesKeepsTypes
    <3> QED
      BY <1>0, <2>6, <3>1, CaptureRaisesMoves DEF Building, BeforeCapture
  <2> QED
    BY <2>1, <2>2, <2>3, <2>4, <2>5, <2>6
<1>2. Under \notin inherited
  BY <1>0, <1>1 DEF CountInv
<1>3. \A l \in stuck : l \in Loggers /\ l # Under /\ log[l].made
  BY <1>0, <1>2, StuckIsInherited, ReturnedIsMade
<1> QED
  BY <1>0, <1>1, <1>3, StuckKept

LEMMA StuckKeptByCalls ==
  ASSUME InstrumentInv, NEW t \in Threads, CallStep(t) \/ Outside(t) \/ Fork(t)
  PROVE  StuckInv'
<1>0. TypeOK /\ CountInv /\ RolesInv /\ StuckInv
  BY DEF InstrumentInv
<1>s. /\ stuck \subseteq Loggers /\ stuck \subseteq inherited /\ stuck \subseteq shut
      /\ \A l \in stuck : log[l].returned /\ log[l].captures /\ log[l].made
  BY <1>0, StuckIsInherited, ReturnedIsMade
<1>1. CASE Build(t) \/ Construct(t)
  <2>1. /\ NextLogger \in Loggers /\ ~log[NextLogger].made
        /\ \A k \in Loggers : k # NextLogger => log'[k] = log[k]
    BY <1>1, MakeKeepsTypes
  <2>2. UNCHANGED <<stuck, current, builtBy, process>>
    BY <1>0, <1>1, MakeMoves
  <2>3. \A l \in stuck : log'[l] = log[l]
    BY <1>s, <2>1
  <2> QED
    BY <1>0, <2>2, <2>3, StuckKept
<1>2. CASE Retire(t)
  <2>1. \A k \in Loggers : k # current => log'[k] = log[k]
    BY <1>2, RetireKeepsTypes
  <2>2. UNCHANGED <<stuck, current, builtBy, process>> /\ current \in Loggers
        /\ (~log[current].captures \/ current \notin shut)
    BY <1>0, <1>2, RetireMoves
  <2>3. \A l \in stuck : log'[l] = log[l]
    BY <1>s, <2>1, <2>2
  <2> QED
    BY <1>0, <2>2, <2>3, StuckKept
<1>3. CASE RetireRaises(t)
  <2>1. /\ current \in Loggers /\ log[current].captures /\ builtBy # process
        /\ stuck' = stuck \cup {current}
        /\ UNCHANGED <<process, current, builtBy, log>>
    BY <1>0, <1>3, RetireRaisesMoves
  <2>2. log[current].returned
    BY <1>0, <2>1, LoggersAreNumbers DEF RolesInv
  <2> QED
    BY <1>0, <2>1, <2>2 DEF StuckInv
<1>4. CASE Reject(t) \/ Configure(t) \/ ReadHook(t) \/ SetHook(t) \/ Capture(t) \/ CaptureRaises(t)
  BY <1>4, StuckKeptByBuilder
<1>5. CASE Publish(t)
  <2>1. /\ Place = "publish" /\ current' = Under /\ builtBy' = process
        /\ UNCHANGED <<stuck, process>>
        /\ \A k \in Loggers : k # Under => log'[k] = log[k]
    BY <1>0, <1>5, PublishMoves
  <2>2. Under \notin inherited
    BY <1>0, <2>1 DEF CountInv, Building
  <2>3. \A l \in stuck : l # Under /\ log'[l] = log[l]
    BY <1>s, <2>1, <2>2
  <2>4. process \in Nat
    BY <1>0, LoggersAreNumbers DEF TypeOK
  <2> QED
    BY <1>0, <2>1, <2>3, <2>4 DEF StuckInv
<1>6. CASE Fork(t)
  <2>1. process' = process + 1 /\ UNCHANGED <<stuck, current, builtBy, log>>
    BY <1>0, <1>6, ForkMoves
  <2>2. process \in Nat /\ (builtBy = None \/ builtBy \in Nat) /\ None \notin Nat
    BY <1>0, LoggersAreNumbers, NotLoggers DEF TypeOK
  <2>3. builtBy # None => builtBy <= process
    BY <1>0 DEF StuckInv
  <2>4. process' \in Nat /\ builtBy' # process' /\ (builtBy' # None => builtBy' <= process')
    BY <2>1, <2>2, <2>3
  <2> QED
    BY <1>0, <2>1, <2>4 DEF StuckInv
<1>7. CASE \E l \in Loggers : CloseBegin(t, l)
  <2>1. PICK l \in Loggers : CloseBegin(t, l)
    BY <1>7
  <2>2. /\ ~log[l].captures \/ l \notin shut
        /\ \A k \in Loggers : k # l => log'[k] = log[k]
    BY <1>0, <2>1, CloseBeginMoves
  <2>3. UNCHANGED <<stuck, current, builtBy, process>>
    BY <1>0, <1>7, OutsideMoves DEF Outside
  <2>4. \A k \in stuck : log'[k] = log[k]
    BY <1>s, <2>2
  <2> QED
    BY <1>0, <2>3, <2>4, StuckKept
<1>8. CASE CloseMark(t)
  <2>1. pc[t].at = "flush" /\ t \in live
    BY <1>8 DEF CloseMark, At
  <2>2. pc[t].logger \in Loggers /\ ~log[pc[t].logger].captures
    BY <1>0, <2>1, ClosedIsMade DEF Closing
  <2>3. \A k \in Loggers : k # pc[t].logger => log'[k] = log[k]
    BY <1>0, <1>8, <2>2, CloseMarkMoves
  <2>4. UNCHANGED <<stuck, current, builtBy, process>>
    BY <1>0, <1>8, OutsideMoves DEF Outside
  <2>5. \A k \in stuck : log'[k] = log[k]
    BY <1>s, <2>2, <2>3
  <2> QED
    BY <1>0, <2>4, <2>5, StuckKept
<1>9. CASE \/ Instrument(t) \/ Reuse(t) \/ CloseCheck(t) \/ CloseUnhook(t) \/ AppHook(t)
           \/ \E l \in Loggers : CloseRaises(t, l)
  <2>1. log' = log
    BY <1>9, CloseRaisesMoves DEF Instrument, Reuse, CloseCheck, CloseUnhook, AppHook
  <2>2. UNCHANGED <<stuck, current, builtBy, process>>
    BY <1>0, <1>9, OutsideMoves DEF Outside
  <2> QED
    BY <1>0, <2>1, <2>2, StuckKept
<1> QED
  BY <1>1, <1>2, <1>3, <1>4, <1>5, <1>6, <1>7, <1>8, <1>9 DEF CallStep, Outside

LEMMA DisableRemoteKeepsStuck ==
  ASSUME InstrumentInv, NEW l \in Loggers, DisableRemote(l)
  PROVE  StuckInv'
<1>0. TypeOK /\ StuckInv
  BY DEF InstrumentInv
<1>1. /\ l \notin inherited /\ \A k \in Loggers : k # l => log'[k] = log[k]
      /\ UNCHANGED <<stuck, current, builtBy, process>>
  BY <1>0, DisableRemoteMoves
<1>2. \A k \in stuck : log'[k] = log[k]
  BY <1>0, <1>1, StuckIsInherited
<1> QED
  BY <1>0, <1>1, <1>2, StuckKept

-----------------------------------------------------------------------------
(* Captures and the address from the files.                                *)

(* Streams and roles of every logger stay; a captured one is not closed.   *)
(* sys.stdout may go back to the terminal.                                 *)
LEMMA CapturesKept ==
  ASSUME TypeOK, CaptureInv, UNCHANGED <<fd, current, stuck>>, stdout' \in {stdout, None},
         owner' = None => owner = None,
         Place' = Place /\ (Place # "none" => Under' = Under),
         \A l \in Loggers :
            /\ log'[l].made = log[l].made /\ log'[l].returned = log[l].returned
            /\ log'[l].closed => log[l].closed \/ ~log[l].captures
            /\ log'[l].captures = log[l].captures
            /\ log'[l].original = log[l].original /\ log'[l].saved = log[l].saved,
         Place \in Building => Under \in Loggers
  PROVE  CaptureInv'
<1> USE LoggersAreNumbers
<1>1. /\ stdout \in Loggers \cup {None} /\ fd \in Loggers \cup {None}
      /\ \A l \in Loggers : log[l].saved \in Loggers \cup {None}
  BY DEF TypeOK, LoggerRecord
<1>2. Place' \in Building => Place \in Building /\ Under' = Under
  BY DEF Building, BeforeCapture
<1>3. StdoutInv'
  BY <1>1, <1>2 DEF CaptureInv, StdoutInv, Building, BeforeCapture
<1>4. FdInv'
  <2>1. (fd # None => log[fd].made)'
    BY <1>1 DEF CaptureInv, FdInv
  <2>2. (\A l \in Loggers :
           log[l].saved # None => log[log[l].saved].made
             /\ (~log[log[l].saved].returned \/ log[l].saved \in stuck))'
    <3> SUFFICES ASSUME NEW l \in Loggers, log'[l].saved # None
                 PROVE  log'[log'[l].saved].made
                          /\ (~log'[log'[l].saved].returned \/ log'[l].saved \in stuck')
      OBVIOUS
    <3> DEFINE k == log[l].saved
    <3>1. log'[l].saved = k /\ k \in Loggers
      BY <1>1
    <3>2. log[k].made /\ (~log[k].returned \/ k \in stuck)
      BY <3>1 DEF CaptureInv, FdInv
    <3> HIDE DEF k
    <3> QED
      BY <3>1, <3>2
  <2>3. (fd # None /\ log[fd].returned => (fd = current \/ fd \in stuck) /\ log[fd].captures)'
    BY <1>1 DEF CaptureInv, FdInv
  <2>4. (Place \in Building => \A l \in Loggers : log[l].saved # Under)'
    BY <1>2 DEF CaptureInv, FdInv
  <2>5. (Place \in BeforeCapture => fd # Under /\ ~log[Under].captures)'
    BY <1>2 DEF CaptureInv, FdInv, Building
  <2>6. (Place = "publish" /\ fd = Under => log[Under].captures)'
    BY <1>2 DEF CaptureInv, FdInv, Building
  <2> QED
    BY <2>1, <2>2, <2>3, <2>4, <2>5, <2>6 DEF FdInv
<1>5. CapturesDoNotStack'
  BY <1>1 DEF CaptureInv, CapturesDoNotStack
<1> QED
  BY <1>3, <1>4, <1>5 DEF CaptureInv

(* The capture of logger l is put back, and l may be closed. *)
LEMMA CapturePutBack ==
  ASSUME TypeOK, StuckInv, CaptureInv, NEW l \in Loggers, l \notin stuck,
         current' = current /\ stuck' = stuck,
         \A k \in Loggers :
            /\ log'[k].made = log[k].made /\ log'[k].returned = log[k].returned
            /\ log'[k].original = log[k].original /\ log'[k].saved = log[k].saved,
         \A k \in Loggers : k # l => log'[k] = log[k],
         ~log'[l].captures,
         stdout' = stdout \/ (log[l].captures /\ stdout = l /\ stdout' = log[l].original),
         log[l].captures /\ stdout = l => stdout' = log[l].original,
         log[l].captures => fd' = log[l].saved,
         ~log[l].captures => fd' = fd
  PROVE  /\ stdout' = None \/ (stdout' = stdout /\ stdout # l)
         /\ stdout' # None => log'[stdout'].captures
         /\ fd' = fd \/ fd' = log[l].saved
         /\ fd' = fd \/ log[l].captures
         /\ (fd # None => log[fd].made)'
         /\ (\A k \in Loggers :
               log[k].saved # None => log[log[k].saved].made
                 /\ (~log[log[k].saved].returned \/ log[k].saved \in stuck))'
         /\ (fd # None /\ log[fd].returned => (fd = current \/ fd \in stuck) /\ log[fd].captures)'
         /\ CapturesDoNotStack'
<1> USE LoggersAreNumbers
<1>1. /\ stdout \in Loggers \cup {None} /\ fd \in Loggers \cup {None}
      /\ \A k \in Loggers : log[k].saved \in Loggers \cup {None}
  BY DEF TypeOK, LoggerRecord
<1>2. log[l].captures => log[l].original = None
  BY DEF CaptureInv, CapturesDoNotStack
<1>3. stdout # None => log[stdout].captures
  BY DEF CaptureInv, StdoutInv
<1>4. stdout' = None \/ (stdout' = stdout /\ stdout # l)
  BY <1>1, <1>2, <1>3
<1>5. stdout' # None => log'[stdout'].captures
  BY <1>1, <1>3, <1>4
<1>6. /\ \A k \in Loggers :
           log[k].saved # None => log[log[k].saved].made
             /\ (~log[log[k].saved].returned \/ log[k].saved \in stuck)
      /\ fd # None => log[fd].made
      /\ fd # None /\ log[fd].returned => (fd = current \/ fd \in stuck) /\ log[fd].captures
  BY DEF CaptureInv, FdInv
<1>7. /\ fd' = fd \/ fd' = log[l].saved
      /\ fd' = fd \/ log[l].captures
  OBVIOUS
<1>8. (fd # None => log[fd].made)'
  BY <1>1, <1>6, <1>7
<1>9. (\A k \in Loggers :
         log[k].saved # None => log[log[k].saved].made
           /\ (~log[log[k].saved].returned \/ log[k].saved \in stuck))'
  BY <1>1, <1>6
<1>10. (fd # None /\ log[fd].returned => (fd = current \/ fd \in stuck) /\ log[fd].captures)'
  <2>1. CASE log[l].captures
    <3>1. fd' = log[l].saved
      BY <2>1
    <3>2. fd' # None => fd' \in Loggers /\ (~log[fd'].returned \/ fd' \in stuck)
      BY <1>1, <1>6, <3>1
    <3>3. fd' # None => ~log'[fd'].returned \/ (fd' \in stuck' /\ log'[fd'].captures)
      BY <3>2 DEF StuckInv
    <3> QED
      BY <3>3
  <2>2. CASE ~log[l].captures
    <3>1. fd # None /\ log[fd].returned => (fd = current \/ fd \in stuck) /\ log[fd].captures
            /\ fd # l
      BY <1>6, <2>2
    <3> QED
      BY <1>1, <2>2, <3>1
  <2> QED
    BY <2>1, <2>2
<1>11. CapturesDoNotStack'
  BY <1>1 DEF CaptureInv, CapturesDoNotStack
<1> QED
  BY <1>4, <1>5, <1>7, <1>8, <1>9, <1>10, <1>11

(* As long as the lock and the construction stay as they are. *)
LEMMA CapturePutBackOutside ==
  ASSUME TypeOK, StuckInv, CaptureInv, NEW l \in Loggers, l \notin stuck,
         current' = current /\ stuck' = stuck, owner' = owner,
         Place' = Place /\ (Place # "none" => Under' = Under),
         Place \in Building => Under \in Loggers,
         \A k \in Loggers :
            /\ log'[k].made = log[k].made /\ log'[k].returned = log[k].returned
            /\ log'[k].original = log[k].original /\ log'[k].saved = log[k].saved,
         \A k \in Loggers : k # l => log'[k] = log[k],
         ~log'[l].captures,
         stdout' = stdout \/ (log[l].captures /\ stdout = l /\ stdout' = log[l].original),
         log[l].captures /\ stdout = l => stdout' = log[l].original,
         log[l].captures => fd' = log[l].saved,
         ~log[l].captures => fd' = fd
  PROVE  CaptureInv'
<1>1. /\ stdout' = None \/ (stdout' = stdout /\ stdout # l)
      /\ stdout' # None => log'[stdout'].captures
      /\ fd' = fd \/ fd' = log[l].saved
      /\ fd' = fd \/ log[l].captures
      /\ (fd # None => log[fd].made)'
      /\ (\A k \in Loggers :
            log[k].saved # None => log[log[k].saved].made
              /\ (~log[log[k].saved].returned \/ log[k].saved \in stuck))'
      /\ (fd # None /\ log[fd].returned => (fd = current \/ fd \in stuck) /\ log[fd].captures)'
      /\ CapturesDoNotStack'
  BY CapturePutBack
<1>2. Place' \in Building => Place \in Building /\ Under' = Under /\ Under \in Loggers
  BY DEF Building, BeforeCapture
<1>3. StdoutInv'
  BY <1>1, <1>2 DEF CaptureInv, StdoutInv, Building, BeforeCapture
<1>4. (Place \in Building => \A k \in Loggers : log[k].saved # Under)'
  BY <1>2 DEF CaptureInv, FdInv
<1>5. Place \in Building => log[l].saved # Under
  BY DEF CaptureInv, FdInv
<1>6. (Place \in BeforeCapture => fd # Under /\ ~log[Under].captures)'
  <2> SUFFICES ASSUME Place' \in BeforeCapture PROVE fd' # Under' /\ ~log'[Under'].captures
    OBVIOUS
  <2>1. Place \in BeforeCapture /\ Place \in Building /\ Under' = Under /\ Under \in Loggers
    BY <1>2 DEF Building
  <2>2. fd # Under /\ ~log[Under].captures
    BY <2>1 DEF CaptureInv, FdInv
  <2> QED
    BY <1>1, <1>5, <2>1, <2>2
<1>7. (Place = "publish" /\ fd = Under => log[Under].captures)'
  <2> SUFFICES ASSUME Place' = "publish", fd' = Under' PROVE log'[Under'].captures
    OBVIOUS
  <2>1. Place = "publish" /\ Place \in Building /\ Under' = Under /\ Under \in Loggers
    BY <1>2 DEF Building
  <2>2. fd' = fd /\ fd = Under
    BY <1>1, <1>5, <2>1
  <2>3. log[Under].captures
    BY <2>1, <2>2 DEF CaptureInv, FdInv
  <2>4. Under # l
    <3>1. log[l].saved # Under
      BY <1>5, <2>1
    <3>2. ~log[l].captures
      BY <2>1, <3>1
    <3> QED
      BY <2>3, <3>2
  <2> QED
    BY <2>1, <2>3, <2>4
<1>8. FdInv'
  BY <1>1, <1>4, <1>6, <1>7 DEF FdInv
<1> QED
  BY <1>1, <1>3, <1>8 DEF CaptureInv

LEMMA OutsideKeepsCaptures ==
  ASSUME InstrumentInv, NEW t \in Threads, Outside(t)
  PROVE  CaptureInv'
<1>0. TypeOK /\ CountInv /\ RolesInv /\ OpenInv /\ StuckInv /\ CaptureInv
  BY DEF InstrumentInv
<1>1. t \in live /\ owner' = owner /\ current' = current /\ stuck' = stuck
  BY <1>0, OutsideMoves
<1>2. /\ Place' = Place /\ (Place # "none" => Under' = Under)
      /\ Place \in Building => Under \in Loggers
  BY <1>0, OutsideKeepsTypes, UnderIsMade
<1>3. ASSUME UNCHANGED <<log, stdout, fd>> PROVE CaptureInv'
  BY <1>0, <1>1, <1>2, <1>3, CapturesKept
<1>4. CASE Instrument(t) \/ Reuse(t) \/ CloseCheck(t) \/ CloseUnhook(t) \/ AppHook(t)
  <2>1. UNCHANGED <<log, stdout, fd>>
    BY <1>4 DEF Instrument, Reuse, CloseCheck, CloseUnhook, AppHook, streams
  <2> QED
    BY <1>3, <2>1
<1>5. CASE \E l \in Loggers : CloseBegin(t, l)
  <2>1. PICK l \in Loggers : CloseBegin(t, l)
    BY <1>5
  <2>2. /\ SameRoles(l) /\ ~log'[l].captures
        /\ log'[l].original = log[l].original /\ log'[l].saved = log[l].saved
        /\ \A k \in Loggers : k # l => log'[k] = log[k]
        /\ stdout' = stdout \/ (log[l].captures /\ stdout = l /\ stdout' = log[l].original)
        /\ log[l].captures /\ stdout = l => stdout' = log[l].original
        /\ log[l].captures => fd' = log[l].saved
        /\ ~log[l].captures => fd' = fd
        /\ l \notin stuck
    BY <1>0, <2>1, CloseBeginMoves, StuckIsInherited
  <2>3. \A k \in Loggers :
           /\ log'[k].made = log[k].made /\ log'[k].returned = log[k].returned
           /\ log'[k].original = log[k].original /\ log'[k].saved = log[k].saved
    BY <2>2 DEF SameRoles
  <2> QED
    BY <1>0, <1>1, <1>2, <2>2, <2>3, CapturePutBackOutside
<1>6. CASE CloseMark(t)
  <2> DEFINE l == pc[t].logger
  <2>1. pc[t].at = "flush"
    BY <1>6 DEF CloseMark, At
  <2>2. l \in Loggers /\ log[l].returned /\ ~log[l].captures
    BY <1>0, <1>1, <2>1, ClosedIsMade DEF Closing
  <2>3. /\ log'[l].made = log[l].made /\ log'[l].returned = log[l].returned /\ SameStreams(l)
        /\ \A k \in Loggers : k # l => log'[k] = log[k]
        /\ UNCHANGED <<stdout, fd>>
    BY <1>0, <1>6, <2>2, CloseMarkMoves
  <2> HIDE DEF l
  <2>4. \A k \in Loggers :
            /\ log'[k].made = log[k].made /\ log'[k].returned = log[k].returned
            /\ log'[k].closed => log[k].closed \/ ~log[k].captures
            /\ log'[k].captures = log[k].captures
            /\ log'[k].original = log[k].original /\ log'[k].saved = log[k].saved
    BY <2>2, <2>3 DEF SameStreams
  <2> QED
    BY <1>0, <1>1, <1>2, <2>3, <2>4, CapturesKept
<1>7. CASE \E l \in Loggers : CloseRaises(t, l)
  <2>1. PICK l \in Loggers : CloseRaises(t, l)
    BY <1>7
  <2>2. /\ log[l].captures /\ UNCHANGED <<log, fd>>
        /\ stdout' = (IF stdout = l THEN log[l].original ELSE stdout)
    BY <2>1, CloseRaisesMoves
  <2>3. stdout' \in {stdout, None}
    BY <1>0, <2>2 DEF CaptureInv, CapturesDoNotStack
  <2> QED
    BY <1>0, <1>1, <1>2, <2>2, <2>3, CapturesKept
<1> QED
  BY <1>4, <1>5, <1>6, <1>7 DEF Outside

LEMMA DisableRemoteKeepsCaptures ==
  ASSUME InstrumentInv, NEW l \in Loggers, DisableRemote(l)
  PROVE  CaptureInv'
<1>0. TypeOK /\ CountInv /\ StuckInv /\ CaptureInv
  BY DEF InstrumentInv
<1>1. /\ SameRoles(l) /\ ~log'[l].captures
      /\ log'[l].original = log[l].original /\ log'[l].saved = log[l].saved
      /\ \A k \in Loggers : k # l => log'[k] = log[k]
      /\ stdout' = stdout \/ (log[l].captures /\ stdout = l /\ stdout' = log[l].original)
      /\ log[l].captures /\ stdout = l => stdout' = log[l].original
      /\ log[l].captures => fd' = log[l].saved
      /\ ~log[l].captures => fd' = fd
      /\ current' = current /\ stuck' = stuck /\ owner' = owner
      /\ Place' = Place /\ Under' = Under /\ l \notin stuck
  BY <1>0, DisableRemoteMoves, StuckIsInherited
<1>2. \A k \in Loggers :
         /\ log'[k].made = log[k].made /\ log'[k].returned = log[k].returned
         /\ log'[k].original = log[k].original /\ log'[k].saved = log[k].saved
  BY <1>1 DEF SameRoles
<1>3. Place \in Building => Under \in Loggers
  BY <1>0, UnderIsMade
<1> QED
  BY <1>0, <1>1, <1>2, <1>3, CapturePutBackOutside

LEMMA RetireKeepsCaptures ==
  ASSUME InstrumentInv, NEW t \in Threads, Retire(t)
  PROVE  CaptureInv'
<1>0. TypeOK /\ CountInv /\ StuckInv /\ CaptureInv
  BY DEF InstrumentInv
<1>1. /\ owner = None /\ owner' = t /\ Place' = "construct"
      /\ current \in Loggers /\ current' = current /\ stuck' = stuck
      /\ stdout' = stdout \/ (log[current].captures /\ stdout = current
                                /\ stdout' = log[current].original)
      /\ log[current].captures /\ stdout = current => stdout' = log[current].original
      /\ log[current].captures => fd' = log[current].saved
      /\ ~log[current].captures => fd' = fd
      /\ current \notin stuck
  BY <1>0, RetireMoves, StuckIsInherited
<1>2. /\ ~log'[current].captures
      /\ log'[current].returned = log[current].returned
      /\ log'[current].made = log[current].made
      /\ log'[current].original = log[current].original
      /\ log'[current].saved = log[current].saved
      /\ \A k \in Loggers : k # current => log'[k] = log[k]
  BY RetireKeepsTypes
<1>3. \A k \in Loggers :
         /\ log'[k].made = log[k].made /\ log'[k].returned = log[k].returned
         /\ log'[k].original = log[k].original /\ log'[k].saved = log[k].saved
  BY <1>2
<1>4. /\ stdout' = None \/ (stdout' = stdout /\ stdout # current)
      /\ (fd # None => log[fd].made)'
      /\ (\A k \in Loggers :
            log[k].saved # None => log[log[k].saved].made
              /\ (~log[log[k].saved].returned \/ log[k].saved \in stuck))'
      /\ (fd # None /\ log[fd].returned => (fd = current \/ fd \in stuck) /\ log[fd].captures)'
      /\ CapturesDoNotStack'
  BY <1>0, <1>1, <1>2, <1>3, CapturePutBack
<1>5. stdout' = None
  <2>1. stdout \in {None, current}
    BY <1>0, <1>1 DEF CaptureInv, StdoutInv
  <2> QED
    BY <1>4, <2>1
<1>6. Place' \notin Building /\ Place' \notin BeforeCapture /\ Place' # "publish"
  BY <1>1 DEF Building, BeforeCapture
<1>7. StdoutInv'
  BY <1>5, <1>6 DEF StdoutInv
<1>8. FdInv'
  BY <1>4, <1>6 DEF FdInv
<1> QED
  BY <1>4, <1>7, <1>8 DEF CaptureInv

LEMMA RetireRaisesKeepsCaptures ==
  ASSUME InstrumentInv, NEW t \in Threads, RetireRaises(t)
  PROVE  CaptureInv'
<1>0. TypeOK /\ CaptureInv
  BY DEF InstrumentInv
<1>1. /\ owner = None /\ Place' = "construct" /\ current \in Loggers /\ log[current].captures
      /\ stdout' = (IF stdout = current THEN log[current].original ELSE stdout)
      /\ owner' = t /\ stuck \subseteq stuck' /\ UNCHANGED <<current, log, fd>>
  BY <1>0, RetireRaisesMoves
<1>2. stdout' = None
  BY <1>0, <1>1 DEF CaptureInv, StdoutInv, CapturesDoNotStack
<1>3. Place' \notin Building /\ Place' \notin BeforeCapture /\ Place' # "publish"
  BY <1>1 DEF Building, BeforeCapture
<1>4. StdoutInv'
  BY <1>2, <1>3 DEF StdoutInv
<1>5. FdInv'
  BY <1>0, <1>1, <1>3 DEF CaptureInv, FdInv
<1>6. CapturesDoNotStack'
  BY <1>0, <1>1 DEF CaptureInv, CapturesDoNotStack
<1> QED
  BY <1>4, <1>5, <1>6 DEF CaptureInv

LEMMA SavedTyped ==
  ASSUME TypeOK
  PROVE  /\ stdout \in Loggers \cup {None} /\ fd \in Loggers \cup {None} /\ None \notin Loggers
         /\ current \in Loggers \cup {None}
         /\ \A k \in Loggers : log[k].saved \in Loggers \cup {None}
BY LoggersAreNumbers DEF TypeOK, LoggerRecord

(* Nobody's stream or saved descriptor is one that was not made. *)
LEMMA UnmadeIsUnused ==
  ASSUME TypeOK, CountInv, CaptureInv, NEW n \in Loggers, ~log[n].made
  PROVE  stdout # n /\ fd # n /\ \A k \in Loggers : log[k].saved # n
<1>1. ~log[n].captures /\ n # None
  BY UsedIsMade, LoggersAreNumbers
<1> QED
  BY <1>1 DEF CaptureInv, StdoutInv, FdInv

LEMMA MakeKeepsCaptures ==
  ASSUME InstrumentInv, NEW t \in Threads, Build(t) \/ Construct(t)
  PROVE  CaptureInv'
<1>0. TypeOK /\ CountInv /\ CaptureInv /\ RolesInv
  BY DEF InstrumentInv
<1> DEFINE n == NextLogger
<1>1. /\ n \in Loggers /\ ~log[n].made /\ log'[n] = New(stdout)
      /\ \A k \in Loggers : k # n => log'[k] = log[k]
  BY MakeKeepsTypes
<1>2. /\ owner' = t /\ Place' = "config" /\ Under' = n
      /\ owner = None \/ Place = "construct"
      /\ owner = None => current = None \/ log[current].closed
      /\ UNCHANGED <<current, stuck, stdout, fd>>
  BY <1>0, MakeMoves
<1> HIDE DEF n
<1>3. stdout = None
  <2>1. CASE owner = None
    <3>1. stdout \in {None, current} /\ (stdout # None => log[stdout].captures)
      BY <1>0, <2>1 DEF CaptureInv, StdoutInv
    <3>2. stdout \in Loggers /\ log[stdout].captures => ~log[stdout].closed
      BY <1>0 DEF CaptureInv, CapturesDoNotStack
    <3> QED
      BY <1>0, <1>2, <2>1, <3>1, <3>2, SavedTyped
  <2>2. CASE Place = "construct"
    BY <1>0, <2>2 DEF CaptureInv, StdoutInv
  <2> QED
    BY <1>2, <2>1, <2>2
<1>4. fd # n /\ \A k \in Loggers : log[k].saved # n
  BY <1>0, <1>1, UnmadeIsUnused
<1>5. /\ log'[n].made /\ ~log'[n].returned /\ ~log'[n].captures /\ log'[n].original = None
      /\ log'[n].saved = None
  BY <1>1, <1>3 DEF New, Blank
<1>6. StdoutInv'
  <2>1. stdout' = None
    BY <1>2, <1>3
  <2> QED
    BY <1>2, <1>5, <2>1 DEF StdoutInv
<1>7. /\ (fd # None => log[fd].made)'
      /\ (fd # None /\ log[fd].returned => (fd = current \/ fd \in stuck) /\ log[fd].captures)'
  <2>1. fd # None => log'[fd] = log[fd]
    BY <1>0, <1>1, <1>4, SavedTyped
  <2> QED
    BY <1>0, <1>2, <2>1 DEF CaptureInv, FdInv
<1>8. ASSUME NEW k \in Loggers
      PROVE  /\ log'[k].saved # n
             /\ log'[k].saved # None =>
                  log'[log'[k].saved].made /\ (~log'[log'[k].saved].returned
                      \/ log'[k].saved \in stuck')
  <2>1. CASE k = n
    BY <1>1, <1>5, <2>1, LoggersAreNumbers
  <2>2. CASE k # n
    <3>1. log'[k].saved = log[k].saved /\ log[k].saved # n /\ log[k].saved \in Loggers \cup {None}
      BY <1>0, <1>1, <1>4, <2>2, SavedTyped
    <3>2. log[k].saved # None => log[log[k].saved].made
            /\ (~log[log[k].saved].returned \/ log[k].saved \in stuck)
      BY <1>0 DEF CaptureInv, FdInv
    <3>3. log[k].saved # None => log'[log[k].saved] = log[log[k].saved]
      BY <1>1, <3>1
    <3> QED
      BY <1>2, <3>1, <3>2, <3>3
  <2> QED
    BY <2>1, <2>2
<1>9. FdInv'
  BY <1>2, <1>4, <1>5, <1>7, <1>8 DEF FdInv
<1>10. CapturesDoNotStack'
  <2> SUFFICES ASSUME NEW k \in Loggers, log'[k].captures
               PROVE  /\ ~log'[k].closed /\ log'[k].original = None
                      /\ log'[k].saved # None => ~log'[log'[k].saved].returned
                           \/ log'[k].saved \in stuck'
    BY DEF CapturesDoNotStack
  <2>1. k # n /\ log'[k] = log[k]
    BY <1>1, <1>5
  <2> QED
    BY <1>0, <1>8, <2>1 DEF CaptureInv, CapturesDoNotStack
<1> QED
  BY <1>6, <1>9, <1>10 DEF CaptureInv

LEMMA RejectKeepsCaptures ==
  ASSUME InstrumentInv, NEW t \in Threads, Reject(t)
  PROVE  CaptureInv'
<1>0. TypeOK /\ CountInv /\ CaptureInv
  BY DEF InstrumentInv
<1>1. log'[Under] = Blank /\ \A k \in Loggers : k # Under => log'[k] = log[k]
  BY RejectKeepsTypes
<1>2. /\ Place = "config" /\ Place' = "none" /\ Under \in Loggers
      /\ UNCHANGED <<current, stuck, stdout, fd>>
  BY <1>0, RejectMoves
<1> DEFINE n == Under
<1>3. /\ stdout = None /\ fd # n /\ \A k \in Loggers : log[k].saved # n
  BY <1>0, <1>2 DEF CaptureInv, StdoutInv, FdInv, Building, BeforeCapture
<1>4. ~log'[n].captures /\ log'[n].saved = None
  BY <1>1 DEF Blank
<1>5. n \in Loggers /\ \A k \in Loggers : k # n => log'[k] = log[k]
  BY <1>1, <1>2
<1>6. Place' \notin Building /\ Place' \notin BeforeCapture
        /\ Place' \notin {"publish", "construct"}
  BY <1>2 DEF Building, BeforeCapture
<1> HIDE DEF n
<1>7. StdoutInv'
  BY <1>2, <1>3, <1>6 DEF StdoutInv
<1>8. /\ (fd # None => log[fd].made)'
      /\ (fd # None /\ log[fd].returned => (fd = current \/ fd \in stuck) /\ log[fd].captures)'
  <2>1. fd # None => log'[fd] = log[fd]
    BY <1>0, <1>3, <1>5, SavedTyped
  <2> QED
    BY <1>0, <1>2, <2>1 DEF CaptureInv, FdInv
<1>9. ASSUME NEW k \in Loggers
      PROVE  log'[k].saved # None => log'[log'[k].saved].made
               /\ (~log'[log'[k].saved].returned \/ log'[k].saved \in stuck')
  <2>1. CASE k = n
    BY <1>4, <2>1
  <2>2. CASE k # n
    <3>1. log'[k].saved = log[k].saved /\ log[k].saved # n /\ log[k].saved \in Loggers \cup {None}
      BY <1>0, <1>3, <1>5, <2>2, SavedTyped
    <3>2. log[k].saved # None => log[log[k].saved].made
            /\ (~log[log[k].saved].returned \/ log[k].saved \in stuck)
      BY <1>0 DEF CaptureInv, FdInv
    <3>3. log[k].saved # None => log'[log[k].saved] = log[log[k].saved]
      BY <1>5, <3>1
    <3> QED
      BY <1>2, <3>1, <3>2, <3>3
  <2> QED
    BY <2>1, <2>2
<1>10. FdInv'
  BY <1>6, <1>8, <1>9 DEF FdInv
<1>11. CapturesDoNotStack'
  <2> SUFFICES ASSUME NEW k \in Loggers, log'[k].captures
               PROVE  /\ ~log'[k].closed /\ log'[k].original = None
                      /\ log'[k].saved # None => ~log'[log'[k].saved].returned
                           \/ log'[k].saved \in stuck'
    BY DEF CapturesDoNotStack
  <2>1. k # n /\ log'[k] = log[k]
    BY <1>4, <1>5
  <2> QED
    BY <1>0, <1>9, <2>1 DEF CaptureInv, CapturesDoNotStack
<1> QED
  BY <1>7, <1>10, <1>11 DEF CaptureInv

(* The construction, before the capture. *)
LEMMA ConfigureKeepsCaptures ==
  ASSUME InstrumentInv, NEW t \in Threads, Configure(t) \/ ReadHook(t) \/ SetHook(t)
  PROVE  CaptureInv'
<1>0. TypeOK /\ CountInv /\ CaptureInv
  BY DEF InstrumentInv
<1>1. /\ owner' = t /\ Place \in {"config", "hook", "sethook"} /\ Under \in Loggers
      /\ Place' \in {"hook", "publish", "sethook", "capture"} /\ Under' = Under
      /\ SameRoles(Under) /\ SameStreams(Under)
      /\ \A k \in Loggers : k # Under => log'[k] = log[k]
      /\ UNCHANGED <<current, stuck, stdout, fd>>
  <2>1. CASE Configure(t)
    BY <1>0, <2>1, ConfigureMoves
  <2>2. CASE ReadHook(t)
    BY <1>0, <2>2, ReadHookMoves
  <2>3. CASE SetHook(t)
    BY <1>0, <2>3, SetHookMoves
  <2> QED
    BY <2>1, <2>2, <2>3
<1>2. \A k \in Loggers :
         /\ log'[k].made = log[k].made /\ log'[k].returned = log[k].returned
         /\ log'[k].closed = log[k].closed /\ log'[k].captures = log[k].captures
         /\ log'[k].original = log[k].original /\ log'[k].saved = log[k].saved
  BY <1>1 DEF SameRoles, SameStreams
<1>3. Place \in BeforeCapture /\ Place \in Building
  BY <1>1 DEF BeforeCapture, Building
<1>4. /\ stdout = None /\ log[Under].original = None /\ fd # Under /\ ~log[Under].captures
      /\ \A k \in Loggers : log[k].saved # Under
  BY <1>0, <1>3 DEF CaptureInv, StdoutInv, FdInv
<1>5. StdoutInv'
  BY <1>1, <1>2, <1>4 DEF StdoutInv
<1>6. /\ (fd # None => log[fd].made)'
      /\ (fd # None /\ log[fd].returned => (fd = current \/ fd \in stuck) /\ log[fd].captures)'
  BY <1>0, <1>1, <1>2, SavedTyped DEF CaptureInv, FdInv
<1>7. ASSUME NEW k \in Loggers
      PROVE  log'[k].saved # None => log'[log'[k].saved].made
               /\ (~log'[log'[k].saved].returned \/ log'[k].saved \in stuck')
  <2>1. log'[k].saved = log[k].saved /\ log[k].saved \in Loggers \cup {None}
    BY <1>0, <1>2, SavedTyped
  <2>2. log[k].saved # None => log[log[k].saved].made
          /\ (~log[log[k].saved].returned \/ log[k].saved \in stuck)
    BY <1>0 DEF CaptureInv, FdInv
  <2> QED
    BY <1>1, <1>2, <2>1, <2>2
<1>8. FdInv'
  BY <1>1, <1>2, <1>4, <1>6, <1>7 DEF FdInv
<1>9. CapturesDoNotStack'
  BY <1>0, <1>2, <1>7 DEF CaptureInv, CapturesDoNotStack
<1> QED
  BY <1>5, <1>8, <1>9 DEF CaptureInv

(* Nothing is captured by a returned logger while another is built. *)
LEMMA BuildersPipe ==
  ASSUME TypeOK, CaptureInv, OpenInv, owner # None
  PROVE  fd # None => log[fd].made /\ (~log[fd].returned \/ fd \in stuck)
<1>1. fd # None => log[fd].made
  BY DEF CaptureInv, FdInv
<1>2. ASSUME fd # None, log[fd].returned, fd \notin stuck PROVE FALSE
  <2>1. fd = current /\ log[current].captures /\ current \in Loggers
    BY <1>2, SavedTyped DEF CaptureInv, FdInv
  <2>2. log[current].closed
    BY <1>2, <2>1, SavedTyped DEF OpenInv
  <2> QED
    BY <2>1, <2>2 DEF CaptureInv, CapturesDoNotStack
<1> QED
  BY <1>1, <1>2

LEMMA CaptureKeepsCaptures ==
  ASSUME InstrumentInv, NEW t \in Threads, Capture(t)
  PROVE  CaptureInv'
<1>0. TypeOK /\ CountInv /\ CaptureInv /\ OpenInv /\ RolesInv
  BY DEF InstrumentInv
<1>1. /\ owner = t /\ owner' = t /\ Place = "capture" /\ Under \in Loggers
      /\ log[Under].made
      /\ Place' = "publish" /\ Under' = Under
      /\ SameRoles(Under)
      /\ log'[Under].captures /\ log'[Under].saved = fd
      /\ log'[Under].original = log[Under].original /\ stdout' = Under /\ fd' = Under
      /\ \A k \in Loggers : k # Under => log'[k] = log[k]
      /\ current' = current /\ stuck' = stuck
  BY <1>0, CaptureMoves
<1>2. Place \in BeforeCapture /\ Place \in Building /\ Place' \notin BeforeCapture
      /\ Place' # "construct"
  BY <1>1 DEF BeforeCapture, Building
<1>3. /\ stdout = None /\ log[Under].original = None /\ fd # Under /\ ~log[Under].captures
      /\ \A k \in Loggers : log[k].saved # Under
  BY <1>0, <1>2 DEF CaptureInv, StdoutInv, FdInv
<1>4. /\ ~log'[Under].returned /\ ~log'[Under].closed /\ log'[Under].made
      /\ ~log[Under].returned
  BY <1>0, <1>1, <1>2 DEF RolesInv, SameRoles
<1>5. fd # None => log[fd].made /\ (~log[fd].returned \/ fd \in stuck)
  BY <1>0, <1>1, BuildersPipe, UserThreads
<1>6. StdoutInv'
  <2>1. owner' # None
    BY <1>1, UserThreads
  <2> QED
    BY <1>1, <1>2, <1>3, <2>1 DEF StdoutInv
<1>7. ASSUME NEW k \in Loggers
      PROVE  /\ log'[k].saved # Under
             /\ log'[k].saved # None => log'[log'[k].saved].made
                  /\ (~log'[log'[k].saved].returned \/ log'[k].saved \in stuck')
  <2> DEFINE s == IF k = Under THEN fd ELSE log[k].saved
  <2>1. log'[k].saved = s /\ s \in Loggers \cup {None} /\ s # Under
    BY <1>0, <1>1, <1>3, SavedTyped
  <2>2. s # None => log[s].made /\ (~log[s].returned \/ s \in stuck)
    <3>1. log[k].saved # None => log[log[k].saved].made
            /\ (~log[log[k].saved].returned \/ log[k].saved \in stuck)
      BY <1>0 DEF CaptureInv, FdInv
    <3> QED
      BY <1>5, <3>1
  <2>3. s # None => log'[s] = log[s]
    BY <1>1, <2>1
  <2> HIDE DEF s
  <2> QED
    BY <1>1, <2>1, <2>2, <2>3
<1>8. FdInv'
  BY <1>1, <1>2, <1>4, <1>7 DEF FdInv
<1>9. CapturesDoNotStack'
  <2> SUFFICES ASSUME NEW k \in Loggers, log'[k].captures
               PROVE  /\ ~log'[k].closed /\ log'[k].original = None
                      /\ log'[k].saved # None => ~log'[log'[k].saved].returned
                           \/ log'[k].saved \in stuck'
    BY DEF CapturesDoNotStack
  <2>1. CASE k = Under
    BY <1>1, <1>3, <1>4, <1>7, <2>1
  <2>2. CASE k # Under
    BY <1>0, <1>1, <1>7, <2>2 DEF CaptureInv, CapturesDoNotStack
  <2> QED
    BY <2>1, <2>2
<1> QED
  BY <1>6, <1>8, <1>9 DEF CaptureInv

LEMMA CaptureRaisesKeepsCaptures ==
  ASSUME InstrumentInv, NEW t \in Threads, CaptureRaises(t)
  PROVE  CaptureInv'
<1>0. TypeOK /\ CountInv /\ CaptureInv /\ OpenInv /\ RolesInv
  BY DEF InstrumentInv
<1> DEFINE n == NextLogger
<1>1. n \in Loggers /\ ~log[n].made
  BY CaptureRaisesKeepsTypes
<1>2. /\ owner = t /\ owner' = t /\ Place = "capture" /\ Under \in Loggers
      /\ log[Under].made /\ Under # n
      /\ Place' \in {"publish", "config"} /\ Under' = n
      /\ log'[n] = New(stdout)
      /\ SameRoles(Under)
      /\ log'[Under].original = log[Under].original
      /\ \/ SameStreams(Under) /\ fd' = fd
         \/ log'[Under].captures /\ log'[Under].saved = fd /\ fd' = Under
      /\ \A k \in Loggers \ {Under, n} : log'[k] = log[k]
      /\ UNCHANGED <<current, stuck, stdout>>
  BY <1>0, <1>1, CaptureRaisesMoves
<1> HIDE DEF n
<1>3. Place \in BeforeCapture /\ Place \in Building
  BY <1>2 DEF BeforeCapture, Building
<1>4. /\ stdout = None /\ log[Under].original = None /\ fd # Under /\ ~log[Under].captures
  BY <1>0, <1>3 DEF CaptureInv, StdoutInv, FdInv
<1>5. /\ ~log'[Under].returned /\ ~log'[Under].closed /\ log'[Under].made
  BY <1>0, <1>2, <1>3 DEF RolesInv, SameRoles
<1>6. fd # None => log[fd].made /\ (~log[fd].returned \/ fd \in stuck)
  BY <1>0, <1>2, BuildersPipe, UserThreads
<1>7. fd # n /\ \A k \in Loggers : log[k].saved # n
  BY <1>0, <1>1, UnmadeIsUnused
<1>8. /\ log'[n].made /\ ~log'[n].returned /\ ~log'[n].captures /\ log'[n].original = None
      /\ log'[n].saved = None
  BY <1>2, <1>4 DEF New, Blank
<1>9. log'[Under].saved \in {fd, log[Under].saved} /\ fd' \in {fd, Under}
  BY <1>2 DEF SameStreams
<1>10. StdoutInv'
  <2>1. owner' # None /\ stdout' = None
    BY <1>2, <1>4, UserThreads
  <2> QED
    BY <1>2, <1>8, <2>1 DEF StdoutInv
<1>11. \A s \in Loggers \cup {None} :
          s # None /\ log[s].made /\ (~log[s].returned \/ s \in stuck) =>
            log'[s].made /\ (~log'[s].returned \/ s \in stuck')
  BY <1>1, <1>2, <1>5, LoggersAreNumbers
<1>12. ASSUME NEW k \in Loggers
       PROVE  /\ log'[k].saved # n
              /\ log'[k].saved # None => log'[log'[k].saved].made
                   /\ (~log'[log'[k].saved].returned \/ log'[k].saved \in stuck')
  <2>1. CASE k = n
    BY <1>8, <2>1, <1>1, LoggersAreNumbers
  <2>2. CASE k # n
    <3> DEFINE s == log'[k].saved
    <3>1. s \in {fd, log[k].saved}
      BY <1>2, <1>9, <2>2
    <3>2. s \in Loggers \cup {None} /\ s # n
      BY <1>0, <1>7, <3>1, SavedTyped
    <3>3. s # None => log[s].made /\ (~log[s].returned \/ s \in stuck)
      <4>1. log[k].saved # None => log[log[k].saved].made
              /\ (~log[log[k].saved].returned \/ log[k].saved \in stuck)
        BY <1>0 DEF CaptureInv, FdInv
      <4> QED
        BY <1>6, <3>1, <4>1
    <3> HIDE DEF s
    <3>4. s # None => log'[s].made /\ (~log'[s].returned \/ s \in stuck')
      BY <1>11, <3>2, <3>3
    <3> QED
      BY <3>2, <3>4 DEF s
  <2> QED
    BY <2>1, <2>2
<1>13. fd' # n /\ (fd' # None => log'[fd'].made /\ (~log'[fd'].returned \/ fd' \in stuck'))
  BY <1>0, <1>2, <1>5, <1>6, <1>7, <1>9, <1>11, SavedTyped
<1>14. FdInv'
  <2>1. Place' = "publish" \/ Place' = "config"
    BY <1>2
  <2>2. fd' \in stuck' => log'[fd'].captures
    <3> SUFFICES ASSUME fd' \in stuck PROVE log'[fd'].captures
      BY <1>2
    <3>1. fd' \in Loggers /\ log[fd'].returned /\ log[fd'].captures
      BY <1>0, StuckIsInherited DEF InstrumentInv
    <3>2. fd' # Under /\ fd' # n
      BY <1>0, <1>3, <1>13, <3>1 DEF RolesInv
    <3> QED
      BY <1>2, <3>1, <3>2
  <2> QED
    BY <1>2, <1>8, <1>12, <1>13, <2>1, <2>2 DEF FdInv
<1>15. CapturesDoNotStack'
  <2> SUFFICES ASSUME NEW k \in Loggers, log'[k].captures
               PROVE  /\ ~log'[k].closed /\ log'[k].original = None
                      /\ log'[k].saved # None => ~log'[log'[k].saved].returned
                           \/ log'[k].saved \in stuck'
    BY DEF CapturesDoNotStack
  <2>1. CASE k = Under
    BY <1>2, <1>4, <1>5, <1>12, <2>1
  <2>2. CASE k # Under
    <3>1. k # n /\ log'[k] = log[k]
      BY <1>2, <1>8, <2>2
    <3> QED
      BY <1>0, <1>12, <3>1 DEF CaptureInv, CapturesDoNotStack
  <2> QED
    BY <2>1, <2>2
<1> QED
  BY <1>10, <1>14, <1>15 DEF CaptureInv

LEMMA PublishKeepsCaptures ==
  ASSUME InstrumentInv, NEW t \in Threads, Publish(t)
  PROVE  CaptureInv'
<1>0. TypeOK /\ CountInv /\ StuckInv /\ CaptureInv /\ OpenInv /\ RolesInv
  BY DEF InstrumentInv
<1>1. /\ owner = t /\ owner' = None /\ Place = "publish" /\ Under \in Loggers
      /\ log[Under].made /\ Place' = "none" /\ current' = Under /\ stuck' = stuck
      /\ log'[Under].made /\ log'[Under].closed = log[Under].closed
      /\ log'[Under].original = log[Under].original /\ log'[Under].saved = log[Under].saved
      /\ \/ log'[Under].captures = log[Under].captures /\ stdout' = stdout /\ fd' = fd
         \/ /\ ~log'[Under].captures
            /\ stdout' = stdout \/ stdout' = log[Under].original
            /\ log[Under].captures /\ stdout = Under => stdout' = log[Under].original
            /\ log[Under].captures => fd' = log[Under].saved
            /\ ~log[Under].captures => fd' = fd
      /\ \A k \in Loggers : k # Under => log'[k] = log[k]
  BY <1>0, PublishMoves
<1>2. /\ Place \in Building /\ Place' \notin Building /\ Place' \notin BeforeCapture
      /\ Place' \notin {"publish", "construct"}
  BY <1>1 DEF BeforeCapture, Building
<1>3. /\ stdout \in {None, Under} /\ log[Under].original = None
      /\ stdout # None => log[stdout].captures
      /\ \A k \in Loggers : log[k].saved # Under
      /\ fd = Under => log[Under].captures
  BY <1>0, <1>1, <1>2 DEF CaptureInv, StdoutInv, FdInv
<1>4. fd # None => log[fd].made /\ (~log[fd].returned \/ fd \in stuck)
  BY <1>0, <1>1, BuildersPipe, UserThreads
<1>5. log[Under].saved # None => log[log[Under].saved].made
        /\ (~log[log[Under].saved].returned \/ log[Under].saved \in stuck)
  BY <1>0, <1>1 DEF CaptureInv, FdInv
<1>6. \/ stdout' = None
      \/ stdout' = Under /\ log'[Under].captures
  <2>1. CASE log'[Under].captures = log[Under].captures /\ stdout' = stdout
    BY <1>3, <2>1
  <2>2. CASE ~(log'[Under].captures = log[Under].captures /\ stdout' = stdout)
    <3>1. /\ stdout' = stdout \/ stdout' = log[Under].original
          /\ log[Under].captures /\ stdout = Under => stdout' = log[Under].original
      BY <1>1, <2>2
    <3> QED
      BY <1>3, <3>1
  <2> QED
    BY <2>1, <2>2
<1>7. StdoutInv'
  BY <1>1, <1>2, <1>6 DEF StdoutInv
<1>8. ASSUME NEW k \in Loggers
      PROVE  log'[k].saved # None => log'[log'[k].saved].made
               /\ (~log'[log'[k].saved].returned \/ log'[k].saved \in stuck')
  <2> DEFINE s == log[k].saved
  <2>1. log'[k].saved = s /\ s # Under /\ s \in Loggers \cup {None}
    BY <1>0, <1>1, <1>3, SavedTyped
  <2>2. s # None => log[s].made /\ (~log[s].returned \/ s \in stuck)
    BY <1>0 DEF CaptureInv, FdInv
  <2> HIDE DEF s
  <2>3. s # None => log'[s] = log[s]
    BY <1>1, <2>1
  <2> QED
    BY <1>1, <2>1, <2>2, <2>3
<1>9. \/ fd' = Under /\ log'[Under].captures
      \/ /\ fd' # Under
         /\ fd' # None => log[fd'].made /\ (~log[fd'].returned \/ fd' \in stuck)
  <2>1. CASE log'[Under].captures = log[Under].captures /\ fd' = fd
    BY <1>3, <1>4, <2>1
  <2>2. CASE ~(log'[Under].captures = log[Under].captures /\ fd' = fd)
    <3>1. log[Under].captures => fd' = log[Under].saved
      BY <1>1, <2>2
    <3>2. ~log[Under].captures => fd' = fd
      BY <1>1, <2>2
    <3>3. log[Under].saved # Under
      BY <1>1, <1>3
    <3>4. CASE log[Under].captures
      BY <1>5, <3>1, <3>3, <3>4
    <3>5. CASE ~log[Under].captures
      BY <1>3, <1>4, <3>2, <3>5
    <3> QED
      BY <3>4, <3>5
  <2> QED
    BY <2>1, <2>2
<1>10. fd' \in Loggers \cup {None}
  BY PublishKeepsTypes DEF TypeOK
<1>11. (fd # None => log[fd].made)'
  BY <1>1, <1>9, <1>10
<1>12. (fd # None /\ log[fd].returned => (fd = current \/ fd \in stuck) /\ log[fd].captures)'
  <2>1. CASE fd' = Under /\ log'[Under].captures
    BY <1>1, <2>1
  <2>2. CASE fd' # Under /\ fd' # None
    <3>1. log'[fd'] = log[fd'] /\ (~log[fd'].returned \/ fd' \in stuck)
      BY <1>1, <1>9, <1>10, <2>2
    <3> QED
      BY <1>0, <1>1, <3>1 DEF StuckInv
  <2> QED
    BY <1>9, <2>1, <2>2
<1>13. FdInv'
  BY <1>2, <1>8, <1>11, <1>12 DEF FdInv
<1>14. CapturesDoNotStack'
  <2> SUFFICES ASSUME NEW k \in Loggers, log'[k].captures
               PROVE  /\ ~log'[k].closed /\ log'[k].original = None
                      /\ log'[k].saved # None => ~log'[log'[k].saved].returned
                           \/ log'[k].saved \in stuck'
    BY DEF CapturesDoNotStack
  <2>1. CASE k = Under
    <3>1. ~log[Under].closed
      BY <1>0, <1>2 DEF RolesInv
    <3> QED
      BY <1>1, <1>3, <1>8, <2>1, <3>1
  <2>2. CASE k # Under
    BY <1>0, <1>1, <1>8, <2>2 DEF CaptureInv, CapturesDoNotStack
  <2> QED
    BY <2>1, <2>2
<1> QED
  BY <1>7, <1>13, <1>14 DEF CaptureInv

LEMMA ForkKeepsCaptures ==
  ASSUME InstrumentInv, NEW t \in Threads, Fork(t)
  PROVE  CaptureInv'
<1>0. CaptureInv /\ StuckInv /\ TypeOK
  BY DEF InstrumentInv
<1>1. /\ Place' = "none" /\ UNCHANGED <<current, stuck, owner, log>>
      /\ \/ stdout' = stdout /\ fd' = fd
         \/ \E l \in Loggers : /\ log[l].captures /\ fd' = log[l].saved
                                /\ stdout' = (IF stdout = l THEN log[l].original ELSE stdout)
  BY <1>0, ForkMoves
<1>2. /\ Place' \notin Building /\ Place' \notin BeforeCapture
      /\ Place' \notin {"publish", "construct"}
  BY <1>1 DEF BeforeCapture, Building
<1>3. stdout' \in {stdout, None}
  BY <1>0, <1>1 DEF CaptureInv, CapturesDoNotStack
<1>4. StdoutInv'
  BY <1>0, <1>1, <1>2, <1>3 DEF CaptureInv, StdoutInv
<1>5. /\ fd' # None => log[fd'].made
      /\ fd' # None /\ log[fd'].returned => (fd' = current \/ fd' \in stuck) /\ log[fd'].captures
  <2>1. CASE fd' = fd
    BY <1>0, <2>1 DEF CaptureInv, FdInv
  <2>2. CASE \E l \in Loggers : fd' = log[l].saved
    <3>1. fd' # None => log[fd'].made /\ (~log[fd'].returned \/ fd' \in stuck)
      BY <1>0, <2>2 DEF CaptureInv, FdInv
    <3> QED
      BY <1>0, <3>1 DEF StuckInv
  <2> QED
    BY <1>1, <2>1, <2>2
<1>6. FdInv'
  BY <1>0, <1>1, <1>2, <1>5 DEF CaptureInv, FdInv
<1>7. CapturesDoNotStack'
  BY <1>0, <1>1 DEF CaptureInv, CapturesDoNotStack
<1> QED
  BY <1>4, <1>6, <1>7 DEF CaptureInv

(* The addresses: what the environment holds stays, and a logger that gets *)
(* one from a file gets that one.                                          *)
LEMMA AddressesKept ==
  ASSUME OneAddressFromFiles, env' = env \/ env = None,
         \A l \in Loggers : log'[l].address \in Files =>
            log'[l].address = log[l].address \/ log'[l].address = env'
  PROVE  OneAddressFromFiles'
BY NotAddresses DEF OneAddressFromFiles

LEMMA AddressKeptByCalls ==
  ASSUME InstrumentInv, NEW t \in Threads, CallStep(t) \/ Outside(t) \/ Fork(t)
  PROVE  OneAddressFromFiles'
<1>0. TypeOK /\ CountInv /\ RolesInv /\ OneAddressFromFiles
  BY DEF InstrumentInv
<1>a. \A out : New(out).address = None /\ Blank.address = None
  BY DEF New, Blank
<1>1. CASE Build(t) \/ Construct(t)
  <2>1. log'[NextLogger] = New(stdout) /\ \A k \in Loggers : k # NextLogger => log'[k] = log[k]
    BY <1>1, MakeKeepsTypes
  <2>2. env' = env
    BY <1>0, <1>1, MakeMoves
  <2> QED
    BY <1>0, <1>a, <2>1, <2>2, NotAddresses, AddressesKept
<1>2. CASE Retire(t)
  <2>1. SameAddress(current) /\ \A k \in Loggers : k # current => log'[k] = log[k]
    BY <1>2, RetireKeepsTypes
  <2>2. env' = env
    BY <1>0, <1>2, RetireMoves
  <2> QED
    BY <1>0, <2>1, <2>2, AddressesKept DEF SameAddress
<1>3. CASE Reject(t)
  <2>1. log'[Under] = Blank /\ \A k \in Loggers : k # Under => log'[k] = log[k]
    BY <1>3, RejectKeepsTypes
  <2>2. PICK file \in Files \cup {None} : env' = LoadEnv(file)
    BY <1>0, <1>3, RejectMoves
  <2>3. env' = env \/ env = None
    BY <2>2 DEF LoadEnv
  <2> QED
    BY <1>0, <1>a, <2>1, <2>3, NotAddresses, AddressesKept
<1>4. CASE Configure(t)
  <2>1. /\ log'[Under].address \in Files => log'[Under].address = env'
        /\ \A k \in Loggers : k # Under => log'[k] = log[k]
    BY <1>0, <1>4, ConfigureMoves
  <2>2. PICK file \in Files \cup {None} : env' = LoadEnv(file)
    BY <1>0, <1>4, ConfigureMoves
  <2>3. env' = env \/ env = None
    BY <2>2 DEF LoadEnv
  <2> QED
    BY <1>0, <2>1, <2>3, AddressesKept
<1>5. CASE ReadHook(t) \/ SetHook(t) \/ Capture(t)
  <2>1. /\ SameAddress(Under) /\ env' = env
        /\ \A k \in Loggers : k # Under => log'[k] = log[k]
    BY <1>0, <1>5, ReadHookMoves, SetHookMoves, CaptureMoves
  <2> QED
    BY <1>0, <2>1, AddressesKept DEF SameAddress
<1>6. CASE CaptureRaises(t)
  <2>1. NextLogger \in Loggers /\ ~log[NextLogger].made
    BY <1>6, CaptureRaisesKeepsTypes
  <2>2. /\ SameAddress(Under) /\ env' = env /\ log'[NextLogger] = New(stdout)
        /\ \A k \in Loggers \ {Under, NextLogger} : log'[k] = log[k]
    BY <1>0, <1>6, <2>1, CaptureRaisesMoves
  <2> QED
    BY <1>0, <1>a, <2>2, NotAddresses, AddressesKept DEF SameAddress
<1>7. CASE Publish(t)
  <2>1. /\ log'[Under].address = log[Under].address /\ env' = env
        /\ \A k \in Loggers : k # Under => log'[k] = log[k]
    BY <1>0, <1>7, PublishMoves
  <2> QED
    BY <1>0, <2>1, AddressesKept
<1>8. CASE Fork(t)
  <2>1. UNCHANGED <<env, log>>
    BY <1>0, <1>8, ForkMoves
  <2> QED
    BY <1>0, <2>1, AddressesKept
<1>9. CASE \E l \in Loggers : CloseBegin(t, l)
  <2>1. PICK l \in Loggers : CloseBegin(t, l)
    BY <1>9
  <2>2. SameAddress(l) /\ \A k \in Loggers : k # l => log'[k] = log[k]
    BY <1>0, <2>1, CloseBeginMoves
  <2>3. env' = env
    BY <2>1 DEF CloseBegin
  <2> QED
    BY <1>0, <2>2, <2>3, AddressesKept DEF SameAddress
<1>10. CASE CloseMark(t)
  <2>1. pc[t].at = "flush" /\ t \in live /\ env' = env
    BY <1>10 DEF CloseMark, At
  <2>2. pc[t].logger \in Loggers
    BY <1>0, <2>1, ClosedIsMade DEF Closing
  <2>3. SameAddress(pc[t].logger) /\ \A k \in Loggers : k # pc[t].logger => log'[k] = log[k]
    BY <1>0, <1>10, <2>2, CloseMarkMoves
  <2> QED
    BY <1>0, <2>1, <2>3, AddressesKept DEF SameAddress
<1>11. CASE Instrument(t) \/ Reuse(t) \/ CloseCheck(t) \/ CloseUnhook(t) \/ AppHook(t)
  <2>1. UNCHANGED <<env, log>>
    BY <1>11 DEF Instrument, Reuse, CloseCheck, CloseUnhook, AppHook
  <2> QED
    BY <1>0, <2>1, AddressesKept
<1>12. CASE RetireRaises(t) \/ \E l \in Loggers : CloseRaises(t, l)
  <2>1. UNCHANGED <<env, log>>
    BY <1>0, <1>12, RetireRaisesMoves, CloseRaisesMoves
  <2> QED
    BY <1>0, <2>1, AddressesKept
<1> QED
  BY <1>1, <1>2, <1>3, <1>4, <1>5, <1>6, <1>7, <1>8, <1>9, <1>10, <1>11, <1>12
     DEF CallStep, Outside

LEMMA DisableRemoteKeepsAddress ==
  ASSUME InstrumentInv, NEW l \in Loggers, DisableRemote(l)
  PROVE  OneAddressFromFiles'
<1>0. TypeOK /\ OneAddressFromFiles
  BY DEF InstrumentInv
<1>1. /\ log'[l].address = log[l].address /\ env' = env
      /\ \A k \in Loggers : k # l => log'[k] = log[k]
  BY <1>0, DisableRemoteMoves
<1> QED
  BY <1>0, <1>1, AddressesKept

-----------------------------------------------------------------------------
(* Exception hooks.                                                        *)

LEMMA HooksTyped ==
  ASSUME TypeOK
  PROVE  /\ hook \in Loggers \cup {App, None} /\ appHook.prev \in Loggers \cup {None}
         /\ App \notin Loggers /\ None \notin Loggers /\ App # None
         /\ \A l \in Loggers : log[l].prev \in Loggers \cup {App, None}
BY LoggersAreNumbers, NotLoggers DEF TypeOK, LoggerRecord

(* What was made comes before what is made now. *)
LEMMA MadeBefore ==
  ASSUME CountInv, NEW l \in Loggers, log[l].made
  PROVE  /\ l \in Nat /\ l <= Count
         /\ \A k \in Loggers : k < l => log[k].made
         /\ Place \in Building => l <= Under /\ (l # Under => l < Under)
<1>1. Made = 1 .. Count /\ Count \in Nat /\ l \in Made
  BY DEF CountInv, Made
<1>2. \A k \in Loggers : k \in Nat /\ k > 0
  BY LoggersAreNumbers
<1>3. \A k \in Loggers : k < l => k \in Made
  BY <1>1, <1>2
<1>4. Place \in Building => Under = Count
  BY DEF CountInv
<1> QED
  BY <1>1, <1>2, <1>3, <1>4 DEF Made

(* Steps that leave the hooks alone. *)
LEMMA HookInvKept ==
  ASSUME TypeOK, HookInv, UNCHANGED <<hook, appHook>>,
         \A l \in Loggers : log'[l].prev = log[l].prev \/ log'[l].prev = None,
         \A l \in Loggers : (l = hook \/ l = appHook.prev) /\ log[l].made => log'[l].made,
         Place' \in {"config", "hook"} => log'[Under'].prev = None,
         Place' \in {"config", "hook", "sethook"} =>
            ~log'[Under'].hooked /\ hook # Under' /\ appHook.prev # Under'
  PROVE  HookInv'
<1>1. (hook \in Loggers => log[hook].made)'
  BY DEF HookInv
<1>2. (appHook.prev # None => log[appHook.prev].made)'
  BY HooksTyped DEF HookInv
<1>3. (hook = App \/ appHook.prev # None => appHook.installed)'
  BY DEF HookInv
<1>4. (\A l \in Loggers :
        /\ log[l].prev \in Loggers => log[l].prev < l
        /\ log[l].prev = App =>
              appHook.installed /\ (appHook.prev # None => appHook.prev < l))'
  BY HooksTyped DEF HookInv
<1> QED
  BY <1>1, <1>2, <1>3, <1>4 DEF HookInv

LEMMA RaceInvKept ==
  ASSUME TypeOK, RaceInv, UNCHANGED <<hook, appHook>>, raced => raced',
         \A l \in Loggers : log'[l].prev = log[l].prev \/ log[l].prev = None,
         Place' = "sethook" =>
           log'[Under'].prev = hook \/ (Place = "sethook" /\ log'[Under'].prev = log[Under].prev),
         \A u \in live' : pc'[u].at = "unhook" =>
           (u \in live /\ pc'[u] = pc[u]) \/ hook = pc'[u].logger,
         Place' \in {"capture", "publish"} /\ log'[Under'].hooked =>
           Place \in {"capture", "publish"} /\ Under' = Under /\ log[Under].hooked,
         stuck \subseteq stuck',
         current' # None /\ current' \notin stuck'
         /\ log'[current'].hooked /\ ~log'[current'].closed =>
           \/ current' = current /\ log[current].hooked /\ ~log[current].closed
           \/ current' = Under /\ Place = "publish" /\ log[Under].hooked
  PROVE  RaceInv'
<1> SUFFICES ASSUME ~raced' PROVE RaceInv'
  BY DEF RaceInv
<1>0. ~raced
  OBVIOUS
<1>1. (Place = "sethook" => log[Under].prev = hook)'
  BY <1>0 DEF RaceInv
<1>2. (\A t \in live : pc[t].at = "unhook" => hook = pc[t].logger)'
  BY <1>0 DEF RaceInv
<1>3. \A l : OnTop(l) => OnTop(l)'
  BY DEF OnTop
<1>4. (Place \in {"capture", "publish"} /\ log[Under].hooked => OnTop(Under))'
  <2> SUFFICES ASSUME Place' \in {"capture", "publish"}, log'[Under'].hooked
               PROVE  hook' = Under' \/ (hook' = App /\ appHook'.prev = Under')
    BY DEF OnTop
  <2>1. OnTop(Under) /\ Under' = Under
    BY <1>0 DEF RaceInv
  <2> QED
    BY <2>1 DEF OnTop
<1>5. (current # None /\ current \notin stuck /\ log[current].hooked /\ ~log[current].closed
         => OnTop(current))'
  <2> SUFFICES ASSUME current' # None, current' \notin stuck',
                      log'[current'].hooked, ~log'[current'].closed
               PROVE  hook' = current' \/ (hook' = App /\ appHook'.prev = current')
    BY DEF OnTop
  <2>1. OnTop(current')
    <3>1. CASE current' = current /\ log[current].hooked /\ ~log[current].closed
      BY <1>0, <3>1 DEF RaceInv
    <3>2. CASE current' = Under /\ Place = "publish" /\ log[Under].hooked
      BY <1>0, <3>2 DEF RaceInv
    <3> QED
      BY <3>1, <3>2
  <2> QED
    BY <2>1 DEF OnTop
<1>6. (appHook.installed => hook = App \/ \E S \in SUBSET Loggers : hook \in S /\ LeadToApp(S))'
  <2> SUFFICES ASSUME appHook.installed, hook # App
               PROVE  \E S \in SUBSET Loggers : hook' \in S /\ LeadToApp(S)'
    OBVIOUS
  <2>1. PICK S \in SUBSET Loggers : hook \in S /\ LeadToApp(S)
    BY <1>0 DEF RaceInv
  <2>2. \A l \in S : log'[l].prev = log[l].prev
    BY <2>1, HooksTyped DEF LeadToApp
  <2>3. LeadToApp(S)'
    BY <2>1, <2>2 DEF LeadToApp
  <2> QED
    BY <2>1, <2>3
<1> QED
  BY <1>1, <1>2, <1>4, <1>5, <1>6 DEF RaceInv

(* What the construction's part of HookInv and RaceInv rests on, when a step *)
(* outside the lock does not touch the logger under construction.            *)
LEMMA OutsideKeepsBuild ==
  ASSUME InstrumentInv, NEW t \in Threads, Outside(t),
         \A l \in Loggers : log'[l].prev = log[l].prev /\ log'[l].hooked = log[l].hooked
  PROVE  /\ Place' = Place /\ (Place # "none" => Under' = Under)
         /\ Place \in Building => Under \in Loggers /\ log'[Under].prev = log[Under].prev
                                  /\ log'[Under].hooked = log[Under].hooked
         /\ \A l \in Loggers : log[l].made => log'[l].made
<1>0. TypeOK /\ CountInv
  BY DEF InstrumentInv
<1>1. Place' = Place /\ (Place # "none" => Under' = Under) /\ Made' = Made
  BY OutsideKeepsTypes
<1>2. Place \in Building => Under \in Loggers
  BY <1>0, UnderIsMade
<1> QED
  BY <1>1, <1>2 DEF Made

LEMMA OutsideKeepsHooks ==
  ASSUME InstrumentInv, NEW t \in Threads,
         Instrument(t) \/ Reuse(t) \/ (\E l \in Loggers : CloseBegin(t, l)) \/ CloseMark(t)
           \/ CloseCheck(t) \/ (\E l \in Loggers : CloseRaises(t, l))
  PROVE  HookInv' /\ RaceInv'
<1> USE DEF At
<1>0. TypeOK /\ CountInv /\ RolesInv /\ HookInv /\ RaceInv /\ Outside(t)
  BY DEF InstrumentInv, Outside
<1>1. /\ t \in live /\ live' = live /\ current' = current /\ stuck' = stuck
      /\ \A u \in Threads \ {t} : pc'[u] = pc[u]
      /\ live \subseteq Threads
  BY <1>0, OutsideMoves, PcTyped
<1>2. /\ RolesGrow
      /\ \A l \in Loggers : log'[l].returned = log[l].returned
  BY <1>0, OutsideGrowsRoles
<1>3. /\ UNCHANGED <<hook, appHook, raced>>
      /\ \A l \in Loggers : log'[l].prev = log[l].prev /\ log'[l].hooked = log[l].hooked
      /\ pc'[t].at = "unhook" => hook = pc'[t].logger
  <2>1. CASE Instrument(t)
    <3>1. UNCHANGED <<hook, appHook, raced, log>> /\ Goto(t, "enter")
      BY <2>1 DEF Instrument, hookVars
    <3>2. pc'[t] = [at |-> "enter", logger |-> pc[t].logger, fallback |-> pc[t].fallback]
      BY <1>0, <1>1, <3>1, GotoMoves
    <3> QED
      BY <3>1, <3>2
  <2>2. CASE Reuse(t)
    <3>1. UNCHANGED <<hook, appHook, raced, log>> /\ Done(t)
      BY <2>2 DEF Reuse, hookVars
    <3>2. pc'[t] = Idle
      BY <1>0, <1>1, <3>1, DoneMoves
    <3> QED
      BY <3>1, <3>2 DEF Idle
  <2>3. CASE \E l \in Loggers : CloseBegin(t, l)
    <3>1. PICK l \in Loggers : CloseBegin(t, l)
      BY <2>3
    <3>2. /\ pc'[t] = [at |-> "flush", logger |-> l, fallback |-> FALSE]
          /\ SameHooks(l) /\ \A k \in Loggers : k # l => log'[k] = log[k]
          /\ UNCHANGED <<hook, appHook, raced>>
      BY <1>0, <3>1, CloseBeginMoves
    <3> QED
      BY <3>2 DEF SameHooks
  <2>4. CASE CloseMark(t)
    <3>1. pc[t].at = "flush"
      BY <2>4 DEF CloseMark
    <3>2. pc[t].logger \in Loggers
      BY <1>0, <1>1, <3>1, ClosedIsMade DEF Closing
    <3>3. /\ pc'[t].at = "check" /\ SameHooks(pc[t].logger)
          /\ \A k \in Loggers : k # pc[t].logger => log'[k] = log[k]
          /\ UNCHANGED <<hook, appHook, raced>>
      BY <1>0, <2>4, <3>2, CloseMarkMoves
    <3> QED
      BY <3>2, <3>3 DEF SameHooks
  <2>5. CASE CloseCheck(t)
    <3>1. /\ UNCHANGED <<hook, appHook, raced, log>>
          /\ \/ OwnsHook(pc[t].logger) /\ Goto(t, "unhook")
             \/ Done(t)
      BY <2>5 DEF CloseCheck, hookVars
    <3>2. pc'[t].at = "unhook" => hook = pc'[t].logger
      <4>1. CASE OwnsHook(pc[t].logger) /\ Goto(t, "unhook")
        <5>1. pc'[t] = [at |-> "unhook", logger |-> pc[t].logger, fallback |-> pc[t].fallback]
          BY <1>0, <1>1, <4>1, GotoMoves
        <5> QED
          BY <4>1, <5>1 DEF OwnsHook
      <4>2. CASE Done(t)
        <5>1. pc'[t] = Idle
          BY <1>0, <1>1, <4>2, DoneMoves
        <5> QED
          BY <5>1 DEF Idle
      <4> QED
        BY <3>1, <4>1, <4>2
    <3> QED
      BY <3>1, <3>2
  <2>6. CASE \E l \in Loggers : CloseRaises(t, l)
    <3>1. UNCHANGED <<hook, appHook, raced, log, pc>> /\ pc[t].at = "idle"
      BY <2>6, CloseRaisesMoves
    <3> QED
      BY <3>1
  <2> QED
    BY <2>1, <2>2, <2>3, <2>4, <2>5, <2>6
<1>4. /\ Place' = Place /\ (Place # "none" => Under' = Under)
      /\ Place \in Building => Under \in Loggers /\ log'[Under].prev = log[Under].prev
                               /\ log'[Under].hooked = log[Under].hooked
      /\ \A l \in Loggers : log[l].made => log'[l].made
  BY <1>0, <1>3, OutsideKeepsBuild
<1>5. {"config", "hook", "sethook", "capture", "publish"} = Building /\ "none" \notin Building
  BY DEF Building, BeforeCapture
<1>6. HookInv'
  <2>1. Place' \in {"config", "hook"} => log'[Under'].prev = None
    BY <1>0, <1>4, <1>5 DEF HookInv
  <2>2. Place' \in {"config", "hook", "sethook"} =>
            ~log'[Under'].hooked /\ hook # Under' /\ appHook.prev # Under'
    BY <1>0, <1>4, <1>5 DEF HookInv
  <2> QED
    BY <1>0, <1>3, <1>4, <2>1, <2>2, HookInvKept
<1>7. RaceInv'
  <2>1. Place' = "sethook" =>
           log'[Under'].prev = hook \/ (Place = "sethook" /\ log'[Under'].prev = log[Under].prev)
    BY <1>4, <1>5
  <2>2. \A u \in live' : pc'[u].at = "unhook" =>
           (u \in live /\ pc'[u] = pc[u]) \/ hook = pc'[u].logger
    BY <1>1, <1>3
  <2>3. Place' \in {"capture", "publish"} /\ log'[Under'].hooked =>
           Place \in {"capture", "publish"} /\ Under' = Under /\ log[Under].hooked
    BY <1>4, <1>5
  <2>4. current' # None /\ log'[current'].hooked /\ ~log'[current'].closed =>
           current' = current /\ log[current].hooked /\ ~log[current].closed
    <3>1. current \in Loggers \cup {None}
      BY <1>0 DEF TypeOK
    <3> QED
      BY <1>1, <1>2, <1>3, <3>1 DEF RolesGrow
  <2> QED
    BY <1>0, <1>1, <1>3, <2>1, <2>2, <2>3, <2>4, RaceInvKept
<1> QED
  BY <1>6, <1>7

(* A thread that builds a logger is another one than one that closes one or *)
(* is idle, and one that is about to replace the hook has read it.          *)
LEMMA NobodyElseSwaps ==
  ASSUME TypeOK, NEW t \in live, pc[t].at \notin InCall, ~Swapping(t)
  PROVE  /\ Place # "sethook"
         /\ \A u \in live \ {t} : pc[u].at \notin {"sethook", "check", "unhook"}
<1>1. \A u \in live \ {t} : pc[u].at \notin {"sethook", "check", "unhook"}
  BY DEF Swapping
<1>2. ASSUME Place = "sethook" PROVE FALSE
  <2>1. owner \in live /\ pc[owner].at = "sethook" /\ owner # t
    BY <1>2, HolderIsInCall DEF InCall
  <2> QED
    BY <1>1, <2>1
<1> QED
  BY <1>1, <1>2

LEMMA CloseUnhookKeepsHooks ==
  ASSUME InstrumentInv, NEW t \in Threads, CloseUnhook(t)
  PROVE  HookInv' /\ RaceInv'
<1> DEFINE l == pc[t].logger
<1>0. TypeOK /\ CountInv /\ RolesInv /\ HookInv /\ RaceInv /\ Outside(t)
  BY DEF InstrumentInv, Outside
<1>1. /\ t \in live /\ live' = live /\ current' = current /\ stuck' = stuck
      /\ \A u \in Threads \ {t} : pc'[u] = pc[u]
      /\ live \subseteq Threads
  BY <1>0, OutsideMoves, PcTyped
<1>2. /\ pc[t].at = "unhook" /\ hook' = log[l].prev /\ raced' = (raced \/ Swapping(t))
      /\ UNCHANGED <<log, appHook>> /\ Done(t)
  BY DEF CloseUnhook, At
<1>3. pc'[t] = Idle /\ pc'[t].at # "unhook"
  <2>1. pc'[t] = Idle
    BY <1>0, <1>1, <1>2, DoneMoves
  <2> QED
    BY <2>1 DEF Idle
<1>4. l \in Loggers /\ log[l].made /\ log[l].returned /\ log[l].closed
  BY <1>0, <1>1, <1>2, ClosedIsMade DEF Closing
<1> HIDE DEF l
<1>5. Place' = Place /\ (Place # "none" => Under' = Under)
  BY <1>0, OutsideKeepsTypes
<1>6. Place \in Building => Under \in Loggers /\ ~log[Under].returned
  BY <1>0, UnderIsMade DEF RolesInv
<1>7. {"config", "hook", "sethook", "capture", "publish"} = Building /\ "none" \notin Building
  BY DEF Building, BeforeCapture
<1>8. /\ log[l].prev \in Loggers \cup {App, None}
      /\ log[l].prev \in Loggers => log[l].prev < l /\ log[log[l].prev].made
      /\ log[l].prev = App => appHook.installed
  BY <1>0, <1>4, HooksTyped, MadeBefore DEF HookInv
<1>9. HookInv'
  <2>1. (hook \in Loggers => log[hook].made)'
    BY <1>2, <1>8
  <2>2. (appHook.prev # None => log[appHook.prev].made)'
    BY <1>0, <1>2 DEF HookInv
  <2>3. (hook = App \/ appHook.prev # None => appHook.installed)'
    BY <1>0, <1>2, <1>8 DEF HookInv
  <2>4. (\A k \in Loggers :
          /\ log[k].prev \in Loggers => log[k].prev < k
          /\ log[k].prev = App =>
                appHook.installed /\ (appHook.prev # None => appHook.prev < k))'
    BY <1>0, <1>2 DEF HookInv
  <2>5. (Place \in {"config", "hook"} => log[Under].prev = None)'
    BY <1>0, <1>2, <1>5 DEF HookInv
  <2>6. (Place \in {"config", "hook", "sethook"} =>
            ~log[Under].hooked /\ hook # Under /\ appHook.prev # Under)'
    <3> SUFFICES ASSUME Place \in {"config", "hook", "sethook"}
                 PROVE  ~log[Under].hooked /\ hook' # Under /\ appHook.prev # Under
      BY <1>2, <1>5
    <3>1. ~log[Under].hooked /\ appHook.prev # Under
      BY <1>0 DEF HookInv
    <3>2. Under \in Loggers /\ l < Under
      BY <1>0, <1>4, <1>6, <1>7, MadeBefore
    <3>3. hook' # Under
      BY <1>2, <1>4, <1>8, <3>2, LoggersAreNumbers, HooksTyped
    <3> QED
      BY <3>1, <3>3
  <2> QED
    BY <2>1, <2>2, <2>3, <2>4, <2>5, <2>6 DEF HookInv
<1>10. RaceInv'
  <2> SUFFICES ASSUME ~raced' PROVE RaceInv'
    BY DEF RaceInv
  <2>1. ~raced /\ ~Swapping(t)
    BY <1>2
  <2>2. /\ Place # "sethook"
        /\ \A u \in live \ {t} : pc[u].at \notin {"sethook", "check", "unhook"}
    BY <1>0, <1>1, <1>2, <2>1, NobodyElseSwaps DEF InCall
  <2>3. hook = l /\ hook # App
    <3>1. hook = l
      BY <1>0, <1>1, <1>2, <2>1 DEF RaceInv, l
    <3> QED
      BY <1>0, <1>4, <3>1, HooksTyped
  <2>4. ~(Place \in {"capture", "publish"} /\ log[Under].hooked)
    BY <1>0, <1>4, <1>6, <1>7, <2>1, <2>3 DEF RaceInv, OnTop
  <2>5. ~(current # None /\ current \notin stuck /\ log[current].hooked /\ ~log[current].closed)
    BY <1>0, <1>4, <2>1, <2>3 DEF RaceInv, OnTop
  <2>6. (Place = "sethook" => log[Under].prev = hook)'
    BY <1>5, <2>2
  <2>7. (\A u \in live : pc[u].at = "unhook" => hook = pc[u].logger)'
    BY <1>1, <1>3, <2>2
  <2>8. (Place \in {"capture", "publish"} /\ log[Under].hooked => OnTop(Under))'
    BY <1>2, <1>5, <2>4
  <2>9. (current # None /\ current \notin stuck /\ log[current].hooked /\ ~log[current].closed
           => OnTop(current))'
    BY <1>1, <1>2, <2>5
  <2>10. (appHook.installed => hook = App \/ \E S \in SUBSET Loggers : hook \in S /\ LeadToApp(S))'
    <3> SUFFICES ASSUME appHook.installed, hook' # App
                 PROVE  \E S \in SUBSET Loggers : hook' \in S /\ LeadToApp(S)'
      BY <1>2
    <3>1. PICK S \in SUBSET Loggers : l \in S /\ LeadToApp(S)
      BY <1>0, <2>1, <2>3 DEF RaceInv
    <3>2. hook' \in S
      BY <1>2, <3>1 DEF LeadToApp
    <3>3. LeadToApp(S)'
      BY <1>2, <3>1 DEF LeadToApp
    <3> QED
      BY <3>1, <3>2, <3>3
  <2> QED
    BY <2>6, <2>7, <2>8, <2>9, <2>10 DEF RaceInv
<1> QED
  BY <1>9, <1>10

LEMMA AppHookKeepsHooks ==
  ASSUME InstrumentInv, NEW t \in Threads, AppHook(t)
  PROVE  HookInv' /\ RaceInv'
<1>0. TypeOK /\ CountInv /\ HookInv /\ RaceInv
  BY DEF InstrumentInv
<1>1. /\ t \in live /\ pc[t].at = "idle" /\ ~appHook.installed
      /\ appHook' = [installed |-> TRUE, prev |-> hook] /\ hook' = App
      /\ raced' = (raced \/ Swapping(t))
      /\ UNCHANGED <<log, pc, live, current, stuck, owner>>
  BY DEF AppHook, At, processVars, globals
<1>2. Place' = Place /\ Under' = Under
  BY <1>1 DEF Place, Under
<1>3. hook # App /\ appHook'.installed /\ appHook'.prev = hook /\ appHook.prev = None
  BY <1>0, <1>1 DEF HookInv
<1>4. HookInv'
  <2>1. (hook \in Loggers => log[hook].made)'
    BY <1>0, <1>1, HooksTyped
  <2>2. (appHook.prev # None => log[appHook.prev].made)'
    BY <1>0, <1>1, <1>3, HooksTyped DEF HookInv
  <2>3. (hook = App \/ appHook.prev # None => appHook.installed)'
    BY <1>3
  <2>4. (\A k \in Loggers :
          /\ log[k].prev \in Loggers => log[k].prev < k
          /\ log[k].prev = App =>
                appHook.installed /\ (appHook.prev # None => appHook.prev < k))'
    BY <1>0, <1>1 DEF HookInv
  <2>5. (Place \in {"config", "hook"} => log[Under].prev = None)'
    BY <1>0, <1>1, <1>2 DEF HookInv
  <2>6. (Place \in {"config", "hook", "sethook"} =>
            ~log[Under].hooked /\ hook # Under /\ appHook.prev # Under)'
    <3> SUFFICES ASSUME Place \in {"config", "hook", "sethook"}
                 PROVE  ~log[Under].hooked /\ App # Under /\ hook # Under
      BY <1>1, <1>2, <1>3
    <3>1. ~log[Under].hooked /\ hook # Under
      BY <1>0 DEF HookInv
    <3>2. Under \in Loggers
      BY <1>0, UnderIsMade DEF Building, BeforeCapture
    <3> QED
      BY <1>0, <3>1, <3>2, HooksTyped
  <2> QED
    BY <2>1, <2>2, <2>3, <2>4, <2>5, <2>6 DEF HookInv
<1>5. RaceInv'
  <2> SUFFICES ASSUME ~raced' PROVE RaceInv'
    BY DEF RaceInv
  <2>1. ~raced /\ ~Swapping(t)
    BY <1>1
  <2>2. /\ Place # "sethook"
        /\ \A u \in live \ {t} : pc[u].at \notin {"sethook", "check", "unhook"}
    BY <1>0, <1>1, <2>1, NobodyElseSwaps DEF InCall
  <2>3. \A l : OnTop(l) => OnTop(l)'
    BY <1>1, <1>3 DEF OnTop
  <2>4. Place \in {"capture", "publish"} /\ log[Under].hooked => OnTop(Under)
    BY <1>0, <2>1 DEF RaceInv
  <2>5. current # None /\ current \notin stuck /\ log[current].hooked /\ ~log[current].closed
           => OnTop(current)
    BY <1>0, <2>1 DEF RaceInv
  <2>6. (Place = "sethook" => log[Under].prev = hook)'
    BY <1>2, <2>2
  <2>7. (\A u \in live : pc[u].at = "unhook" => hook = pc[u].logger)'
    BY <1>1, <2>2
  <2>8. (Place \in {"capture", "publish"} /\ log[Under].hooked => OnTop(Under))'
    BY <1>1, <1>2, <1>3, <2>4 DEF OnTop
  <2>9. (current # None /\ current \notin stuck /\ log[current].hooked /\ ~log[current].closed
           => OnTop(current))'
    BY <1>1, <1>3, <2>5 DEF OnTop
  <2>10. (appHook.installed => hook = App \/ \E S \in SUBSET Loggers : hook \in S /\ LeadToApp(S))'
    BY <1>1
  <2> QED
    BY <2>6, <2>7, <2>8, <2>9, <2>10 DEF RaceInv
<1> QED
  BY <1>4, <1>5

(* Steps of the construction that do not replace the hook, and steps around it. *)
LEMMA MakeKeepsHooks ==
  ASSUME InstrumentInv, NEW t \in Threads, Build(t) \/ Construct(t)
  PROVE  HookInv' /\ RaceInv'
<1>0. TypeOK /\ CountInv /\ RolesInv /\ HookInv /\ RaceInv
  BY DEF InstrumentInv
<1> DEFINE n == NextLogger
<1>1. /\ n \in Loggers /\ ~log[n].made /\ log'[n] = New(stdout)
      /\ \A k \in Loggers : k # n => log'[k] = log[k]
  BY MakeKeepsTypes
<1>2. /\ t \in live /\ live' = live /\ Place' = "config" /\ Under' = n /\ current' = current
           /\ stuck' = stuck
      /\ pc'[t] = [at |-> "config", logger |-> n, fallback |-> FALSE]
      /\ \A u \in Threads \ {t} : pc'[u] = pc[u]
      /\ UNCHANGED <<hook, appHook, raced>>
  BY <1>0, MakeMoves
<1> HIDE DEF n
<1>3. /\ log[n].prev = None /\ log'[n].prev = None /\ ~log'[n].hooked /\ ~log[n].returned
  BY <1>0, <1>1, UsedIsMade DEF New, Blank
<1>4. hook # n /\ appHook.prev # n
  BY <1>0, <1>1, HooksTyped DEF HookInv
<1>5. HookInv'
  BY <1>0, <1>1, <1>2, <1>3, <1>4, HookInvKept
<1>6. \A u \in live' : pc'[u].at = "unhook" => (u \in live /\ pc'[u] = pc[u])
  <2>1. pc'[t].at = "config"
    BY <1>2
  <2> QED
    BY <1>0, <1>2, <2>1, PcTyped
<1>7. current' # None => current # n /\ log'[current] = log[current]
  BY <1>0, <1>1, <1>2, <1>3 DEF RolesInv, TypeOK
<1>8. RaceInv'
  BY <1>0, <1>1, <1>2, <1>3, <1>6, <1>7, RaceInvKept
<1> QED
  BY <1>5, <1>8

LEMMA RetireKeepsHooks ==
  ASSUME InstrumentInv, NEW t \in Threads, Retire(t)
  PROVE  HookInv' /\ RaceInv'
<1>0. TypeOK /\ CountInv /\ HookInv /\ RaceInv
  BY DEF InstrumentInv
<1>1. /\ log'[current].closed /\ log'[current].made = log[current].made /\ SameHooks(current)
      /\ \A k \in Loggers : k # current => log'[k] = log[k]
  BY RetireKeepsTypes
<1>2. /\ t \in live /\ live' = live /\ Place' = "construct" /\ current \in Loggers
      /\ pc'[t] = [at |-> "construct", logger |-> pc[t].logger, fallback |-> pc[t].fallback]
      /\ \A u \in Threads \ {t} : pc'[u] = pc[u]
      /\ UNCHANGED <<hook, appHook, raced, current, stuck>>
  BY <1>0, RetireMoves
<1>3. \A k \in Loggers : log'[k].prev = log[k].prev /\ log'[k].made = log[k].made
  BY <1>1 DEF SameHooks
<1>4. HookInv'
  BY <1>0, <1>2, <1>3, HookInvKept
<1>5. \A u \in live' : pc'[u].at = "unhook" => (u \in live /\ pc'[u] = pc[u])
  <2>1. pc'[t].at = "construct"
    BY <1>2
  <2> QED
    BY <1>0, <1>2, <2>1, PcTyped
<1>6. RaceInv'
  BY <1>0, <1>1, <1>2, <1>3, <1>5, RaceInvKept
<1> QED
  BY <1>4, <1>6

LEMMA RetireRaisesKeepsHooks ==
  ASSUME InstrumentInv, NEW t \in Threads, RetireRaises(t)
  PROVE  HookInv' /\ RaceInv'
<1>0. TypeOK /\ HookInv /\ RaceInv
  BY DEF InstrumentInv
<1>1. /\ t \in live /\ live' = live /\ Place' = "construct"
      /\ pc'[t] = [at |-> "construct", logger |-> pc[t].logger, fallback |-> pc[t].fallback]
      /\ \A u \in Threads \ {t} : pc'[u] = pc[u]
      /\ stuck \subseteq stuck'
      /\ UNCHANGED <<log, hook, appHook, raced, current>>
  BY <1>0, RetireRaisesMoves
<1>2. HookInv'
  BY <1>0, <1>1, HookInvKept
<1>3. \A u \in live' : pc'[u].at = "unhook" => (u \in live /\ pc'[u] = pc[u])
  <2>1. pc'[t].at = "construct"
    BY <1>1
  <2> QED
    BY <1>0, <1>1, <2>1, PcTyped
<1>4. RaceInv'
  BY <1>0, <1>1, <1>3, RaceInvKept
<1> QED
  BY <1>2, <1>4

LEMMA RejectKeepsHooks ==
  ASSUME InstrumentInv, NEW t \in Threads, Reject(t)
  PROVE  HookInv' /\ RaceInv'
<1>0. TypeOK /\ CountInv /\ RolesInv /\ HookInv /\ RaceInv
  BY DEF InstrumentInv
<1>1. log'[Under] = Blank /\ \A k \in Loggers : k # Under => log'[k] = log[k]
  BY RejectKeepsTypes
<1>2. /\ t \in live /\ live' = live /\ Place = "config" /\ Place' = "none" /\ Under \in Loggers
      /\ pc'[t] = Idle
      /\ \A u \in Threads \ {t} : pc'[u] = pc[u]
      /\ UNCHANGED <<hook, appHook, raced, current, stuck>>
  BY <1>0, RejectMoves
<1>3. /\ log[Under].prev = None /\ hook # Under /\ appHook.prev # Under /\ ~log[Under].returned
  BY <1>0, <1>2 DEF HookInv, RolesInv, Building, BeforeCapture
<1>4. \A k \in Loggers : log'[k].prev = log[k].prev \/ (log[k].prev = None /\ log'[k].prev = None)
  BY <1>1, <1>3 DEF Blank
<1>5. HookInv'
  BY <1>0, <1>1, <1>2, <1>3, <1>4, HookInvKept
<1>6. \A u \in live' : pc'[u].at = "unhook" => (u \in live /\ pc'[u] = pc[u])
  <2>1. pc'[t].at = "idle"
    BY <1>2 DEF Idle
  <2> QED
    BY <1>0, <1>2, <2>1, PcTyped
<1>7. current' # None => current # Under /\ log'[current] = log[current]
  BY <1>0, <1>1, <1>2, <1>3 DEF RolesInv, TypeOK
<1>8. RaceInv'
  BY <1>0, <1>2, <1>4, <1>6, <1>7, RaceInvKept
<1> QED
  BY <1>5, <1>8

(* Nothing of the current logger changes while another is built.           *)
LEMMA CurrentIsNotUnder ==
  ASSUME InstrumentInv, Place \in Building
  PROVE  current # None => current \in Loggers /\ current # Under
BY DEF InstrumentInv, RolesInv, TypeOK

LEMMA ConfigureKeepsHooks ==
  ASSUME InstrumentInv, NEW t \in Threads, Configure(t) \/ Capture(t)
  PROVE  HookInv' /\ RaceInv'
<1>0. TypeOK /\ CountInv /\ HookInv /\ RaceInv
  BY DEF InstrumentInv
<1>1. /\ t \in live /\ live' = live /\ Under \in Loggers /\ Under' = Under
      /\ \/ Place = "config" /\ Place' \in {"hook", "publish"}
         \/ Place = "capture" /\ Place' = "publish"
      /\ pc'[t].at = Place'
      /\ \A u \in Threads \ {t} : pc'[u] = pc[u]
      /\ SameRoles(Under) /\ SameHooks(Under)
      /\ \A k \in Loggers : k # Under => log'[k] = log[k]
      /\ UNCHANGED <<hook, appHook, raced, current, stuck>>
  <2>1. CASE Configure(t)
    BY <1>0, <2>1, ConfigureMoves
  <2>2. CASE Capture(t)
    BY <1>0, <2>2, CaptureMoves
  <2> QED
    BY <2>1, <2>2
<1>2. \A k \in Loggers : log'[k].prev = log[k].prev /\ log'[k].made = log[k].made
                         /\ log'[k].hooked = log[k].hooked
  BY <1>1 DEF SameRoles, SameHooks
<1>3. Place = "config" =>
         log[Under].prev = None /\ ~log[Under].hooked /\ hook # Under /\ appHook.prev # Under
  BY <1>0 DEF HookInv
<1>4. HookInv'
  BY <1>0, <1>1, <1>2, <1>3, HookInvKept
<1>5. \A u \in live' : pc'[u].at = "unhook" => (u \in live /\ pc'[u] = pc[u])
  BY <1>0, <1>1, PcTyped
<1>6. current' # None => log'[current] = log[current]
  <2>1. Place \in Building
    BY <1>1 DEF Building, BeforeCapture
  <2> QED
    BY <1>1, <2>1, CurrentIsNotUnder
<1>7. Place' \in {"capture", "publish"} /\ log'[Under'].hooked =>
           Place \in {"capture", "publish"} /\ Under' = Under /\ log[Under].hooked
  BY <1>1, <1>2, <1>3
<1>8. Place' # "sethook"
  BY <1>1
<1>9. RaceInv'
  BY <1>0, <1>1, <1>2, <1>5, <1>6, <1>7, <1>8, RaceInvKept
<1> QED
  BY <1>4, <1>9

LEMMA ReadHookKeepsHooks ==
  ASSUME InstrumentInv, NEW t \in Threads, ReadHook(t)
  PROVE  HookInv' /\ RaceInv'
<1>0. TypeOK /\ CountInv /\ HookInv /\ RaceInv
  BY DEF InstrumentInv
<1>1. /\ t \in live /\ live' = live /\ Under \in Loggers /\ Under' = Under
      /\ Place = "hook" /\ Place' = "sethook"
      /\ pc'[t].at = Place'
      /\ \A u \in Threads \ {t} : pc'[u] = pc[u]
      /\ SameRoles(Under) /\ log'[Under].hooked = log[Under].hooked /\ log'[Under].prev = hook
      /\ \A k \in Loggers : k # Under => log'[k] = log[k]
      /\ raced' = (raced \/ Swapping(t))
      /\ UNCHANGED <<hook, appHook, current, stuck>>
  BY <1>0, ReadHookMoves
<1>2. /\ log[Under].prev = None /\ ~log[Under].hooked /\ hook # Under /\ appHook.prev # Under
  BY <1>0, <1>1 DEF HookInv
<1>3. Place \in Building
  BY <1>1 DEF Building, BeforeCapture
<1>4. \A k \in Loggers : log'[k].made = log[k].made /\ log'[k].hooked = log[k].hooked
  BY <1>1 DEF SameRoles
<1>5. /\ hook \in Loggers => hook < Under
      /\ hook = App => appHook.installed
      /\ appHook.prev # None => appHook.prev < Under
  <2>1. hook \in Loggers => log[hook].made
    BY <1>0 DEF HookInv
  <2>2. appHook.prev # None => appHook.prev \in Loggers /\ log[appHook.prev].made
    BY <1>0, HooksTyped DEF HookInv
  <2>3. hook = App => appHook.installed
    BY <1>0 DEF HookInv
  <2> QED
    BY <1>0, <1>2, <1>3, <2>1, <2>2, <2>3, MadeBefore
<1>6. HookInv'
  <2>1. (hook \in Loggers => log[hook].made)'
    BY <1>0, <1>1, <1>4 DEF HookInv
  <2>2. (appHook.prev # None => log[appHook.prev].made)'
    BY <1>0, <1>1, <1>4, HooksTyped DEF HookInv
  <2>3. (hook = App \/ appHook.prev # None => appHook.installed)'
    BY <1>0, <1>1 DEF HookInv
  <2>4. ASSUME NEW k \in Loggers
        PROVE  /\ log'[k].prev \in Loggers => log'[k].prev < k
               /\ log'[k].prev = App =>
                    appHook.installed /\ (appHook.prev # None => appHook.prev < k)
    <3>1. CASE k = Under
      BY <1>1, <1>5, <3>1
    <3>2. CASE k # Under
      BY <1>0, <1>1, <3>2 DEF HookInv
    <3> QED
      BY <3>1, <3>2
  <2>5. (Place \in {"config", "hook"} => log[Under].prev = None)'
    BY <1>1
  <2>6. (Place \in {"config", "hook", "sethook"} =>
            ~log[Under].hooked /\ hook # Under /\ appHook.prev # Under)'
    BY <1>1, <1>2, <1>4
  <2> QED
    BY <1>1, <2>1, <2>2, <2>3, <2>4, <2>5, <2>6 DEF HookInv
<1>7. RaceInv'
  <2>1. \A u \in live' : pc'[u].at = "unhook" => (u \in live /\ pc'[u] = pc[u])
    BY <1>0, <1>1, PcTyped
  <2>2. current' # None => log'[current] = log[current]
    BY <1>1, <1>3, CurrentIsNotUnder
  <2>3. \A k \in Loggers : log'[k].prev = log[k].prev \/ log[k].prev = None
    BY <1>1, <1>2
  <2>4. /\ raced => raced'
        /\ Place' = "sethook" => log'[Under'].prev = hook
        /\ Place' \notin {"capture", "publish"}
    BY <1>1
  <2>5. current' # None /\ log'[current'].hooked /\ ~log'[current'].closed =>
           current' = current /\ log[current].hooked /\ ~log[current].closed
    BY <1>1, <2>2
  <2>6. UNCHANGED <<hook, appHook, stuck>>
    BY <1>1
  <2> QED
    BY <1>0, <2>1, <2>3, <2>4, <2>5, <2>6, RaceInvKept
<1> QED
  BY <1>6, <1>7

(* A set of loggers that leads to the application's hook after a step. *)
LEMMA LeadsAfter ==
  ASSUME NEW S \in SUBSET Loggers, hook' \in S,
         \A k \in S : log'[k].prev = App \/ log'[k].prev \in S
  PROVE  (\E U \in SUBSET Loggers : hook \in U /\ LeadToApp(U))'
<1>1. LeadToApp(S)'
  BY DEF LeadToApp
<1> QED
  BY <1>1

LEMMA SetHookKeepsHooks ==
  ASSUME InstrumentInv, NEW t \in Threads, SetHook(t)
  PROVE  HookInv' /\ RaceInv'
<1>0. TypeOK /\ CountInv /\ HookInv /\ RaceInv /\ OpenInv
  BY DEF InstrumentInv
<1>1. /\ t \in live /\ live' = live /\ Under \in Loggers /\ Under' = Under
      /\ owner = t /\ log[Under].made
      /\ Place = "sethook" /\ Place' = "capture"
      /\ pc'[t].at = Place'
      /\ \A u \in Threads \ {t} : pc'[u] = pc[u]
      /\ SameRoles(Under) /\ log'[Under].hooked /\ log'[Under].prev = log[Under].prev
      /\ hook' = Under
      /\ \A k \in Loggers : k # Under => log'[k] = log[k]
      /\ raced' = (raced \/ Swapping(t))
      /\ UNCHANGED <<appHook, current, stuck>>
  BY <1>0, SetHookMoves
<1>3. Place \in Building
  BY <1>1 DEF Building, BeforeCapture
<1>4. \A k \in Loggers : log'[k].made = log[k].made /\ log'[k].prev = log[k].prev
  BY <1>1 DEF SameRoles
<1>6. HookInv'
  <2>1. (hook \in Loggers => log[hook].made)'
    BY <1>1, <1>4
  <2>2. (appHook.prev # None => log[appHook.prev].made)'
    BY <1>0, <1>1, <1>4, HooksTyped DEF HookInv
  <2>3. (hook = App \/ appHook.prev # None => appHook.installed)'
    BY <1>0, <1>1, HooksTyped DEF HookInv
  <2>4. (\A k \in Loggers :
          /\ log[k].prev \in Loggers => log[k].prev < k
          /\ log[k].prev = App =>
                appHook.installed /\ (appHook.prev # None => appHook.prev < k))'
    BY <1>0, <1>1, <1>4 DEF HookInv
  <2>5. Place' \notin {"config", "hook", "sethook"}
    BY <1>1
  <2> QED
    BY <2>1, <2>2, <2>3, <2>4, <2>5 DEF HookInv
<1>7. RaceInv'
  <2> SUFFICES ASSUME ~raced' PROVE RaceInv'
    BY DEF RaceInv
  <2>1. ~raced /\ ~Swapping(t)
    BY <1>1
  <2>2. \A u \in live \ {t} : pc[u].at # "unhook"
    BY <2>1 DEF Swapping
  <2>3. log[Under].prev = hook
    BY <1>0, <1>1, <2>1 DEF RaceInv
  <2>4. Place' # "sethook"
    BY <1>1
  <2>5. (\A u \in live : pc[u].at = "unhook" => hook = pc[u].logger)'
    <3>1. pc'[t].at # "unhook"
      BY <1>1
    <3>2. \A u \in live \ {t} : pc'[u] = pc[u]
      BY <1>0, <1>1, PcTyped
    <3> QED
      BY <1>1, <2>2, <3>1, <3>2
  <2>6. (Place \in {"capture", "publish"} /\ log[Under].hooked => OnTop(Under))'
    BY <1>1 DEF OnTop
  <2>7. (current # None /\ current \notin stuck /\ log[current].hooked /\ ~log[current].closed
           => OnTop(current))'
    <3>1. current # None => log[current].closed \/ current \in stuck
      BY <1>0, <1>1, UserThreads DEF OpenInv
    <3>2. current # None => log'[current] = log[current]
      BY <1>1, <1>3, CurrentIsNotUnder
    <3> QED
      BY <1>1, <3>1, <3>2
  <2>8. (appHook.installed => hook = App \/ \E S \in SUBSET Loggers : hook \in S /\ LeadToApp(S))'
    <3> SUFFICES ASSUME appHook.installed, NEW n \in Loggers, n = Under
                 PROVE  (\E S \in SUBSET Loggers : hook \in S /\ LeadToApp(S))'
      BY <1>1
    <3>0. hook' = n /\ log'[n].prev = hook
      BY <1>1, <1>4, <2>3
    <3>1. CASE hook = App
      <4>1. {n} \in SUBSET Loggers /\ hook' \in {n}
        BY <3>0
      <4>2. \A k \in {n} : log'[k].prev = App \/ log'[k].prev \in {n}
        BY <3>0, <3>1
      <4> QED
        BY <4>1, <4>2, LeadsAfter
    <3>2. CASE hook # App
      <4>1. PICK S \in SUBSET Loggers : hook \in S /\ LeadToApp(S)
        BY <1>0, <2>1, <3>2 DEF RaceInv
      <4>2. S \cup {n} \in SUBSET Loggers /\ hook' \in S \cup {n}
        BY <3>0
      <4>3. ASSUME NEW k \in S \cup {n}
            PROVE  log'[k].prev = App \/ log'[k].prev \in S \cup {n}
        <5>1. CASE k = n
          BY <3>0, <4>1, <5>1
        <5>2. CASE k \in S
          BY <1>4, <4>1, <5>2 DEF LeadToApp
        <5> QED
          BY <5>1, <5>2
      <4> QED
        BY <4>2, <4>3, LeadsAfter
    <3> QED
      BY <3>1, <3>2
  <2> QED
    BY <2>4, <2>5, <2>6, <2>7, <2>8 DEF RaceInv
<1> QED
  BY <1>6, <1>7

LEMMA CaptureRaisesKeepsHooks ==
  ASSUME InstrumentInv, NEW t \in Threads, CaptureRaises(t)
  PROVE  HookInv' /\ RaceInv'
<1>0. TypeOK /\ CountInv /\ HookInv /\ RaceInv /\ RolesInv
  BY DEF InstrumentInv
<1> DEFINE n == NextLogger
<1>1. n \in Loggers /\ ~log[n].made
  BY CaptureRaisesKeepsTypes
<1>2. /\ t \in live /\ live' = live /\ Place = "capture" /\ Under \in Loggers /\ Under # n
      /\ Place' = (IF pc[t].fallback THEN "publish" ELSE "config") /\ Under' = n
      /\ pc'[t].at = Place'
      /\ \A u \in Threads \ {t} : pc'[u] = pc[u]
      /\ log'[n] = New(stdout)
      /\ SameRoles(Under) /\ SameHooks(Under)
      /\ \A k \in Loggers \ {Under, n} : log'[k] = log[k]
      /\ UNCHANGED <<hook, appHook, raced, current, stuck>>
  BY <1>0, <1>1, CaptureRaisesMoves
<1> HIDE DEF n
<1>3. /\ log[n].prev = None /\ log'[n].prev = None /\ ~log'[n].hooked /\ ~log[n].returned
  BY <1>0, <1>1, <1>2, UsedIsMade DEF New, Blank
<1>4. hook # n /\ appHook.prev # n
  BY <1>0, <1>1, HooksTyped DEF HookInv
<1>5. \A k \in Loggers \ {n} : log'[k].prev = log[k].prev /\ log'[k].made = log[k].made
  BY <1>2 DEF SameRoles, SameHooks
<1>6. \A k \in Loggers : log'[k].prev = log[k].prev
  BY <1>3, <1>5
<1>7. HookInv'
  <2>1. \A k \in Loggers : (k = hook \/ k = appHook.prev) /\ log[k].made => log'[k].made
    BY <1>4, <1>5
  <2> QED
    BY <1>0, <1>2, <1>3, <1>4, <1>6, <2>1, HookInvKept
<1>8. \A u \in live' : pc'[u].at = "unhook" => (u \in live /\ pc'[u] = pc[u])
  BY <1>0, <1>2, PcTyped
<1>9. current' # None => log'[current] = log[current]
  <2>1. Place \in Building
    BY <1>2 DEF Building, BeforeCapture
  <2>2. current # None => current \in Loggers \ {Under, n}
    BY <1>0, <1>3, <2>1, CurrentIsNotUnder DEF RolesInv
  <2> QED
    BY <1>2, <2>2
<1>10. /\ Place' # "sethook" /\ ~log'[Under'].hooked /\ UNCHANGED <<hook, appHook, stuck>>
       /\ raced' = raced
  BY <1>2, <1>3
<1>11. current' # None /\ log'[current'].hooked /\ ~log'[current'].closed =>
          current' = current /\ log[current].hooked /\ ~log[current].closed
  BY <1>2, <1>9
<1>12. RaceInv'
  BY <1>0, <1>6, <1>8, <1>10, <1>11, RaceInvKept
<1> QED
  BY <1>7, <1>12

LEMMA PublishKeepsHooks ==
  ASSUME InstrumentInv, NEW t \in Threads, Publish(t)
  PROVE  HookInv' /\ RaceInv'
<1>0. TypeOK /\ CountInv /\ HookInv /\ RaceInv
  BY DEF InstrumentInv
<1>1. /\ t \in live /\ live' = live /\ Under \in Loggers
      /\ Place = "publish" /\ Place' = "none" /\ pc'[t] = Idle
      /\ \A u \in Threads \ {t} : pc'[u] = pc[u]
      /\ current' = Under /\ stuck' = stuck /\ log'[Under].made
      /\ SameHooks(Under)
      /\ \A k \in Loggers : k # Under => log'[k] = log[k]
      /\ UNCHANGED <<hook, appHook, raced>>
  BY <1>0, PublishMoves
<1>2. \A k \in Loggers : /\ log'[k].prev = log[k].prev /\ log'[k].hooked = log[k].hooked
                         /\ log[k].made => log'[k].made
  BY <1>1 DEF SameHooks
<1>3. HookInv'
  BY <1>0, <1>1, <1>2, HookInvKept
<1>4. \A u \in live' : pc'[u].at = "unhook" => (u \in live /\ pc'[u] = pc[u])
  <2>1. pc'[t].at = "idle"
    BY <1>1 DEF Idle
  <2> QED
    BY <1>0, <1>1, <2>1, PcTyped
<1>5. RaceInv'
  BY <1>0, <1>1, <1>2, <1>4, RaceInvKept
<1> QED
  BY <1>3, <1>5

LEMMA ForkKeepsHooks ==
  ASSUME InstrumentInv, NEW t \in Threads, Fork(t)
  PROVE  HookInv' /\ RaceInv'
<1>0. TypeOK /\ HookInv /\ RaceInv
  BY DEF InstrumentInv
<1>1. /\ live' = {t} /\ t \in live /\ Place' = "none" /\ \A u \in Threads : pc'[u] = Idle
      /\ UNCHANGED <<hook, appHook, raced, current, stuck, log>>
  BY <1>0, ForkMoves
<1>2. \A u \in live' : pc'[u].at # "unhook"
  BY <1>1 DEF Idle
<1>3. HookInv'
  BY <1>0, <1>1, HookInvKept
<1>4. RaceInv'
  BY <1>0, <1>1, <1>2, RaceInvKept
<1> QED
  BY <1>3, <1>4

LEMMA DisableRemoteKeepsHooks ==
  ASSUME InstrumentInv, NEW l \in Loggers, DisableRemote(l)
  PROVE  HookInv' /\ RaceInv'
<1>0. TypeOK /\ CountInv /\ HookInv /\ RaceInv
  BY DEF InstrumentInv
<1>1. /\ SameRoles(l) /\ SameHooks(l)
      /\ \A k \in Loggers : k # l => log'[k] = log[k]
      /\ Place' = Place /\ Under' = Under
      /\ UNCHANGED <<hook, appHook, raced, current, stuck, live, pc>>
  BY <1>0, DisableRemoteMoves
<1>2. \A k \in Loggers : /\ log'[k].prev = log[k].prev /\ log'[k].hooked = log[k].hooked
                         /\ log'[k].made = log[k].made /\ log'[k].closed = log[k].closed
  BY <1>1 DEF SameRoles, SameHooks
<1>3. Place \in Building => Under \in Loggers
  BY <1>0, UnderIsMade
<1>4. {"config", "hook", "sethook", "capture", "publish"} = Building
  BY DEF Building, BeforeCapture
<1>5. HookInv'
  <2>1. Place' \in {"config", "hook"} => log'[Under'].prev = None
    BY <1>0, <1>1, <1>2, <1>3, <1>4 DEF HookInv
  <2>2. Place' \in {"config", "hook", "sethook"} =>
            ~log'[Under'].hooked /\ hook # Under' /\ appHook.prev # Under'
    BY <1>0, <1>1, <1>2, <1>3, <1>4 DEF HookInv
  <2> QED
    BY <1>0, <1>1, <1>2, <2>1, <2>2, HookInvKept
<1>6. RaceInv'
  <2>1. Place' = "sethook" => Place = "sethook" /\ log'[Under'].prev = log[Under].prev
    BY <1>1, <1>2, <1>3, <1>4
  <2>2. Place' \in {"capture", "publish"} /\ log'[Under'].hooked =>
           Place \in {"capture", "publish"} /\ Under' = Under /\ log[Under].hooked
    BY <1>1, <1>2, <1>3, <1>4
  <2>3. current' # None /\ log'[current'].hooked /\ ~log'[current'].closed =>
           current' = current /\ log[current].hooked /\ ~log[current].closed
    BY <1>0, <1>1, <1>2 DEF TypeOK
  <2> QED
    BY <1>0, <1>1, <1>2, <2>1, <2>2, <2>3, RaceInvKept
<1> QED
  BY <1>5, <1>6

-----------------------------------------------------------------------------
(* The invariant, from the first state on.                                 *)

LEMMA InstrumentInvInitially == Init => InstrumentInv
<1> SUFFICES ASSUME Init PROVE InstrumentInv
  OBVIOUS
<1> USE LoggersAreNumbers, NotLoggers
<1>1. /\ process = 0 /\ live = Threads /\ inherited = {} /\ shut = {} /\ stuck = {}
      /\ current = None /\ builtBy = None
      /\ owner = None /\ hook = None /\ appHook = [installed |-> FALSE, prev |-> None]
      /\ raced = FALSE /\ stdout = None /\ fd = None /\ env = None /\ calls = 0 /\ failures = 0
      /\ log = [l \in Loggers |-> Blank] /\ pc = [t \in Threads |-> Idle]
  BY DEF Init
<1>2. \A l \in Loggers :
        /\ log[l] = Blank /\ ~log[l].made /\ ~log[l].returned /\ ~log[l].closed
        /\ ~log[l].captures /\ log[l].prev = None /\ log[l].saved = None
        /\ log[l].address = None
  BY <1>1 DEF Blank
<1>3. \A t \in Threads : pc[t] = Idle /\ pc[t].at = "idle" /\ pc[t].fallback = FALSE
  BY <1>1 DEF Idle
<1>4. Place = "none" /\ Place \notin Building /\ Place \notin BeforeCapture
  BY <1>1, UserThreads DEF Place, Building, BeforeCapture
<1>5. Made = {} /\ Pending = {} /\ Count = 0 /\ Cardinality(Pending) = 0
  <2>1. Made = {}
    BY <1>2 DEF Made
  <2>2. Pending = {}
    BY <1>1, <1>3 DEF Pending, BeforeCapture
  <2> QED
    BY <2>1, <2>2, FS_EmptySet DEF Count
<1>6. TypeOK
  <2>1. log \in [Loggers -> LoggerRecord]
    BY <1>1, BlankTyped
  <2>2. pc \in [Threads -> Pcs]
    BY <1>1 DEF Idle, Pcs, Places
  <2>3. \A t \in live : owner = t <=> pc[t].at \in InCall
    BY <1>1, <1>3, UserThreads DEF InCall
  <2>4. appHook \in [installed : BOOLEAN, prev : Loggers \cup {None}]
    BY <1>1
  <2>5. process \in 0 .. MaxForks /\ calls \in 0 .. MaxCalls /\ failures \in 0 .. MaxFailures
    BY <1>1
  <2> QED
    BY <1>1, <1>5, <2>1, <2>2, <2>3, <2>4, <2>5 DEF TypeOK, Pcs, Places
<1>7. CountInv
  <2>1. Made = 1 .. Count /\ Count \in Nat
    BY <1>5
  <2>2. Count + Cardinality(Pending) <= calls + 2 * failures
    BY <1>1, <1>5
  <2> QED
    BY <1>2, <1>4, <2>1, <2>2 DEF CountInv
<1>8. RolesInv /\ OpenInv /\ StuckInv
  BY <1>1, <1>2, <1>3, <1>4 DEF RolesInv, OpenInv, StuckInv, Closing
<1>9. CaptureInv
  <2>1. StdoutInv
    BY <1>1, <1>4 DEF StdoutInv, BeforeCapture
  <2>2. FdInv
    BY <1>1, <1>2, <1>4 DEF FdInv
  <2>3. CapturesDoNotStack
    BY <1>2 DEF CapturesDoNotStack
  <2> QED
    BY <2>1, <2>2, <2>3 DEF CaptureInv
<1>10. OneAddressFromFiles
  BY <1>2, NotAddresses DEF OneAddressFromFiles
<1>11. HookInv
  BY <1>1, <1>2, <1>4 DEF HookInv
<1>12. RaceInv
  <2>1. appHook.installed = FALSE
    BY <1>1
  <2>2. Place \notin {"sethook", "capture", "publish"}
    BY <1>4
  <2> QED
    BY <1>1, <1>3, <2>1, <2>2 DEF RaceInv
<1> QED
  BY <1>6, <1>7, <1>8, <1>9, <1>10, <1>11, <1>12 DEF InstrumentInv

LEMMA OutsideKeepsAllHooks ==
  ASSUME InstrumentInv, NEW t \in Threads, Outside(t)
  PROVE  HookInv' /\ RaceInv'
BY OutsideKeepsHooks, CloseUnhookKeepsHooks, AppHookKeepsHooks DEF Outside

LEMMA CallKeepsInv ==
  ASSUME InstrumentInv, NEW t \in Threads, CallStep(t)
  PROVE  InstrumentInv'
<1>0. OneAddressFromFiles' /\ StuckInv'
  BY AddressKeptByCalls, StuckKeptByCalls
<1>1. CASE Reuse(t)
  <2>1. Outside(t)
    BY <1>1 DEF Outside
  <2> QED
    BY <1>0, <2>1, OutsideKeepsTypes, OutsideKeepsRoles, OutsideKeepsCaptures,
       OutsideKeepsAllHooks DEF InstrumentInv
<1>2. CASE Build(t) \/ Construct(t)
  BY <1>0, <1>2, MakeKeepsTypes, MakeKeepsRoles, MakeKeepsCaptures, MakeKeepsHooks
     DEF InstrumentInv
<1>3. CASE Retire(t)
  BY <1>0, <1>3, RetireKeepsTypes, RetireKeepsRoles, RetireKeepsCaptures, RetireKeepsHooks
     DEF InstrumentInv
<1>4. CASE Reject(t)
  BY <1>0, <1>4, RejectKeepsTypes, RejectKeepsRoles, RejectKeepsCaptures, RejectKeepsHooks
     DEF InstrumentInv
<1>5. CASE Configure(t)
  BY <1>0, <1>5, ConfigureKeepsTypes, ConfigureKeepsRoles, ConfigureKeepsCaptures,
     ConfigureKeepsHooks DEF InstrumentInv
<1>6. CASE ReadHook(t)
  BY <1>0, <1>6, ReadHookKeepsTypes, ConfigureKeepsRoles, ConfigureKeepsCaptures,
     ReadHookKeepsHooks DEF InstrumentInv
<1>7. CASE SetHook(t)
  BY <1>0, <1>7, SetHookKeepsTypes, ConfigureKeepsRoles, ConfigureKeepsCaptures,
     SetHookKeepsHooks DEF InstrumentInv
<1>8. CASE Capture(t)
  BY <1>0, <1>8, CaptureKeepsTypes, ConfigureKeepsRoles, CaptureKeepsCaptures,
     ConfigureKeepsHooks DEF InstrumentInv
<1>9. CASE CaptureRaises(t)
  BY <1>0, <1>9, CaptureRaisesKeepsTypes, CaptureRaisesKeepsRoles, CaptureRaisesKeepsCaptures,
     CaptureRaisesKeepsHooks DEF InstrumentInv
<1>10. CASE Publish(t)
  BY <1>0, <1>10, PublishKeepsTypes, PublishKeepsRoles, PublishKeepsCaptures,
     PublishKeepsHooks DEF InstrumentInv
<1>11. CASE RetireRaises(t)
  BY <1>0, <1>11, RetireRaisesKeepsTypes, RetireRaisesKeepsRoles, RetireRaisesKeepsCaptures,
     RetireRaisesKeepsHooks DEF InstrumentInv
<1> QED
  BY <1>1, <1>2, <1>3, <1>4, <1>5, <1>6, <1>7, <1>8, <1>9, <1>10, <1>11 DEF CallStep

LEMMA StutterKeepsInv ==
  ASSUME InstrumentInv, UNCHANGED vars
  PROVE  InstrumentInv'
<1>1. UNCHANGED <<process, live, inherited, shut, stuck, current, builtBy, owner, log, hook,
                  appHook, raced, stdout, fd, env, pc, calls, failures>>
  BY DEF vars, processVars, globals, hookVars, streams
<1>2. TypeOK /\ CountInv /\ RolesInv /\ OpenInv /\ StuckInv /\ CaptureInv
      /\ OneAddressFromFiles /\ HookInv /\ RaceInv
  BY DEF InstrumentInv
<1>3. Place' = Place /\ Under' = Under /\ Made' = Made /\ Count' = Count /\ Pending' = Pending
  BY <1>1 DEF Place, Under, Made, Count, Pending
<1>4. TypeOK'
  BY <1>1, <1>2, <1>3 DEF TypeOK
<1>5. CountInv'
  BY <1>1, <1>2, <1>3 DEF CountInv
<1>6. RolesInv' /\ OpenInv' /\ StuckInv'
  BY <1>1, <1>2, <1>3 DEF RolesInv, OpenInv, StuckInv
<1>7. CaptureInv'
  BY <1>1, <1>2, <1>3 DEF CaptureInv, StdoutInv, FdInv, CapturesDoNotStack
<1>8. OneAddressFromFiles' /\ HookInv'
  BY <1>1, <1>2, <1>3 DEF OneAddressFromFiles, HookInv
<1>9. RaceInv'
  BY <1>1, <1>2, <1>3 DEF RaceInv, OnTop, LeadToApp
<1> QED
  BY <1>4, <1>5, <1>6, <1>7, <1>8, <1>9 DEF InstrumentInv

LEMMA InstrumentInvKept == InstrumentInv /\ [Next]_vars => InstrumentInv'
<1> SUFFICES ASSUME InstrumentInv, [Next]_vars PROVE InstrumentInv'
  OBVIOUS
<1>1. CASE UNCHANGED vars
  BY <1>1, StutterKeepsInv
<1>2. ASSUME NEW l \in Loggers, DisableRemote(l) PROVE InstrumentInv'
  BY <1>2, DisableRemoteKeepsTypes, DisableRemoteKeepsRoles, DisableRemoteKeepsCaptures,
     DisableRemoteKeepsHooks, DisableRemoteKeepsAddress, DisableRemoteKeepsStuck DEF InstrumentInv
<1>3. ASSUME NEW t \in Threads, CallStep(t) PROVE InstrumentInv'
  BY <1>3, CallKeepsInv
<1>4. ASSUME NEW t \in Threads, Outside(t) PROVE InstrumentInv'
  BY <1>4, OutsideKeepsTypes, OutsideKeepsRoles, OutsideKeepsCaptures, OutsideKeepsAllHooks,
     AddressKeptByCalls, StuckKeptByCalls DEF InstrumentInv
<1>5. ASSUME NEW t \in Threads, Fork(t) PROVE InstrumentInv'
  BY <1>5, ForkKeepsTypes, ForkKeepsRoles, ForkKeepsCaptures, ForkKeepsHooks,
     AddressKeptByCalls, StuckKeptByCalls DEF InstrumentInv
<1>6. ASSUME Next
      PROVE  \/ \E l \in Loggers : DisableRemote(l)
             \/ \E t \in Threads : CallStep(t) \/ Outside(t) \/ Fork(t)
  <2>1. CASE \E l \in Loggers : DisableRemote(l)
    BY <2>1
  <2>2. CASE \E t \in Threads :
               \/ Instrument(t)
               \/ CallStep(t)
               \/ \E l \in Loggers : CloseBegin(t, l) \/ CloseRaises(t, l)
               \/ CloseStep(t)
               \/ AppHook(t)
               \/ Fork(t)
    BY <2>2 DEF Outside, CloseStep
  <2> QED
    BY <1>6, <2>1, <2>2 DEF Next
<1> QED
  BY <1>1, <1>2, <1>3, <1>4, <1>5, <1>6

LEMMA InstrumentInvariant == Spec => []InstrumentInv
BY InstrumentInvInitially, InstrumentInvKept, PTL DEF Spec

(* Type correctness, and that a thread of the process holds                *)
(* _instrument_lock exactly while it builds a logger.                      *)
THEOREM TypeCorrect == Spec => []TypeOK
BY InstrumentInvariant, PTL DEF InstrumentInv

(* Of the loggers instrument() has returned, in the process or before its  *)
(* fork, at most one is open (core.py:939), but for those whose capture a  *)
(* child could not put back (core.py:963); and no call returns one of      *)
(* these again.                                                            *)
THEOREM OneLoggerOpen == Spec => []OneOpenLogger
<1>1. InstrumentInv => OneOpenLogger
  <2> SUFFICES ASSUME InstrumentInv PROVE OneOpenLogger
    OBVIOUS
  <2>1. \A a, b \in {l \in Loggers \ stuck : log[l].returned /\ ~log[l].closed} : a = b
    BY DEF InstrumentInv, OpenInv
  <2>2. Usable => current \notin stuck
    BY DEF InstrumentInv, StuckInv, Usable
  <2> QED
    BY <2>1, <2>2 DEF OneOpenLogger
<1> QED
  BY <1>1, InstrumentInvariant, PTL

(* Whoever calls, closes, disables or forks: no capture stacks on that of  *)
(* another returned logger, but one that a child could not retire, and     *)
(* none is left behind by a closed one.                                    *)
THEOREM CapturesApart == Spec => []CapturesDoNotStack
BY InstrumentInvariant, PTL DEF InstrumentInv, CaptureInv

(* The .env files move a process to one address at most.                   *)
THEOREM OneAddress == Spec => []OneAddressFromFiles
BY InstrumentInvariant, PTL DEF InstrumentInv

(* A set that has zero, and the successor of each number it has, has them *)
(* all.                                                                    *)
LEMMA NatByStep ==
  ASSUME NEW S, 0 \in S, \A n \in Nat : n \in S => n + 1 \in S
  PROVE  Nat \subseteq S
<1> DEFINE T == Nat \ S
<1> SUFFICES ASSUME T # {} PROVE FALSE
  OBVIOUS
<1>1. IsWellFoundedOn(OpToRel(<, Nat), Nat)
  BY NatLessThanWellFounded
<1>2. PICK x \in T : \A y \in T : ~ (<<y, x>> \in OpToRel(<, Nat))
  <2>1. T \subseteq Nat
    OBVIOUS
  <2> HIDE DEF T
  <2> QED
    BY <1>1, <2>1, WFMin
<1>3. \A y \in T : ~(y < x)
  BY <1>2 DEF OpToRel
<1>4. x # 0 /\ x - 1 \in Nat /\ x - 1 < x
  OBVIOUS
<1>5. x - 1 \in S
  BY <1>3, <1>4
<1>6. (x - 1) + 1 \in S
  BY <1>4, <1>5
<1> QED
  BY <1>6

-----------------------------------------------------------------------------
(* The chain of hooks.                                                     *)

(* The hook that is called after x. *)
After(x) == CASE x = None -> None [] x = App -> appHook.prev [] OTHER -> log[x].prev

(* f follows the hooks for n steps. *)
WalkTo(n, f) == f = [i \in 0 .. n |-> IF i = 0 THEN hook ELSE After(f[i - 1])]

LEMMA WalkExists ==
  ASSUME NEW L \in Nat
  PROVE  \E f : WalkTo(L, f)
<1> DEFINE S == {n \in Nat : \E f : WalkTo(n, f)}
<1>1. 0 \in S
  <2>1. WalkTo(0, [i \in 0 .. 0 |-> hook])
    BY DEF WalkTo
  <2> QED
    BY <2>1
<1>2. ASSUME NEW n \in Nat, n \in S PROVE n + 1 \in S
  <2>1. PICK f : WalkTo(n, f)
    BY <1>2
  <2> DEFINE g == [i \in 0 .. n + 1 |-> IF i = n + 1 THEN After(f[n]) ELSE f[i]]
  <2>2. \A i \in 0 .. n : f[i] = IF i = 0 THEN hook ELSE After(f[i - 1])
    BY <2>1 DEF WalkTo
  <2>3. ASSUME NEW i \in 0 .. n + 1
        PROVE  g[i] = IF i = 0 THEN hook ELSE After(g[i - 1])
    <3>1. CASE i = n + 1
      <4>1. g[i] = After(f[n]) /\ i # 0 /\ i - 1 = n /\ n # n + 1 /\ n \in 0 .. n + 1
        BY <3>1
      <4>2. g[i - 1] = f[n]
        BY <4>1
      <4> QED
        BY <4>1, <4>2
    <3>2. CASE i # n + 1
      <4>1. i \in 0 .. n /\ g[i] = f[i]
        BY <3>2
      <4>2. CASE i = 0
        BY <2>2, <4>1, <4>2
      <4>3. CASE i # 0
        <5>1. i - 1 \in 0 .. n + 1 /\ i - 1 # n + 1
          BY <4>1, <4>3
        <5>2. g[i - 1] = f[i - 1]
          BY <5>1
        <5> QED
          BY <2>2, <4>1, <4>3, <5>2
      <4> QED
        BY <4>2, <4>3
    <3> QED
      BY <3>1, <3>2
  <2>4. g = [i \in 0 .. n + 1 |-> g[i]]
    OBVIOUS
  <2> HIDE DEF g
  <2>5. g = [i \in 0 .. n + 1 |-> IF i = 0 THEN hook ELSE After(g[i - 1])]
    BY <2>3, <2>4
  <2>6. WalkTo(n + 1, g)
    BY <2>5 DEF WalkTo
  <2>7. \E h : WalkTo(n + 1, h)
    BY <2>6
  <2>8. n + 1 \in Nat
    OBVIOUS
  <2> QED
    BY <2>7, <2>8
<1>3. L \in S
  <2> HIDE DEF S
  <2> QED
    BY <1>1, <1>2, NatByStep
<1> QED
  BY <1>3

LEMMA LimitIsNumber ==
  HookLimit \in Nat /\ HookLimit = MaxCalls + 2 * MaxFailures + 2
<1>1. MaxCalls + 2 * MaxFailures \in Nat
  BY LoggersAreNumbers
<1>2. Cardinality(Loggers) = MaxCalls + 2 * MaxFailures
  BY <1>1, FS_Interval DEF Loggers
<1> QED
  BY <1>1, <1>2 DEF HookLimit

(* HookChain follows the hooks from sys.excepthook on. *)
LEMMA ChainFollows ==
  /\ HookChain[0] = hook
  /\ \A i \in 0 .. HookLimit : i + 1 \in 0 .. HookLimit => HookChain[i + 1] = After(HookChain[i])
<1>1. \E f : WalkTo(HookLimit, f)
  BY LimitIsNumber, WalkExists
<1>2. WalkTo(HookLimit, HookChain)
  BY <1>1 DEF WalkTo, HookChain, After
<1> HIDE DEF HookChain
<1>3. \A i \in 0 .. HookLimit :
         HookChain[i] = IF i = 0 THEN hook ELSE After(HookChain[i - 1])
  BY <1>2 DEF WalkTo
<1>4. 0 \in 0 .. HookLimit
  BY LimitIsNumber
<1>5. ASSUME NEW i \in 0 .. HookLimit, i + 1 \in 0 .. HookLimit
      PROVE  HookChain[i + 1] = After(HookChain[i])
  <2>1. i + 1 # 0 /\ (i + 1) - 1 = i
    BY LimitIsNumber
  <2> QED
    BY <1>3, <1>5, <2>1
<1> QED
  BY <1>3, <1>4, <1>5

(* What is left of the chain after i hooks: the loggers get older, but for *)
(* those below the application's hook by one step less.                    *)
Remaining(x, i) ==
  LET n == MaxCalls + 2 * MaxFailures
  IN \/ x = None
     \/ x = App /\ i <= n /\ (appHook.prev # None => appHook.prev <= n - i)
     \/ /\ x \in Loggers
        /\ \/ x <= n - i
           \/ x <= n - i + 1 /\ appHook.prev # None /\ x <= appHook.prev

LEMMA RemainingShrinks ==
  ASSUME TypeOK, HookInv, NEW i \in Nat, NEW x, Remaining(x, i)
  PROVE  Remaining(After(x), i + 1)
<1> DEFINE n == MaxCalls + 2 * MaxFailures
<1>0. /\ n \in Nat /\ App # None /\ App \notin Loggers /\ None \notin Loggers
      /\ Loggers \subseteq Nat \ {0} /\ appHook.prev \in Loggers \cup {None}
      /\ \A l \in Loggers : log[l].prev \in Loggers \cup {App, None}
  BY LoggersAreNumbers, HooksTyped
<1>1. CASE x = None
  BY <1>0, <1>1 DEF Remaining, After
<1>2. CASE x = App
  <2>1. After(x) = appHook.prev
    BY <1>0, <1>2 DEF After
  <2>2. CASE appHook.prev = None
    BY <2>1, <2>2 DEF Remaining
  <2>3. CASE appHook.prev # None
    <3>1. appHook.prev \in Loggers /\ appHook.prev \in Nat /\ appHook.prev <= n - i
      BY <1>0, <1>2, <2>3 DEF Remaining
    <3>2. appHook.prev <= n - (i + 1) + 1 /\ appHook.prev <= appHook.prev
      BY <1>0, <3>1
    <3> QED
      BY <2>1, <2>3, <3>1, <3>2 DEF Remaining
  <2> QED
    BY <2>2, <2>3
<1>3. CASE x \in Loggers
  <2>1. After(x) = log[x].prev /\ log[x].prev \in Loggers \cup {App, None}
    BY <1>0, <1>3 DEF After
  <2>2. /\ log[x].prev \in Loggers => log[x].prev < x
        /\ log[x].prev = App => (appHook.prev # None => appHook.prev < x)
    BY <1>3 DEF HookInv
  <2>3. /\ x \in Nat /\ x >= 1 /\ x # None /\ x # App
        /\ \/ x <= n - i
           \/ x <= n - i + 1 /\ appHook.prev # None /\ x <= appHook.prev
    BY <1>0, <1>3 DEF Remaining
  <2>4. CASE log[x].prev = None
    BY <2>1, <2>4 DEF Remaining
  <2>5. CASE log[x].prev = App
    <3>1. appHook.prev # None => appHook.prev \in Nat /\ appHook.prev < x
      BY <1>0, <2>2, <2>5
    <3>2. x <= n - i
      BY <1>0, <2>3, <3>1
    <3>3. i + 1 <= n /\ (appHook.prev # None => appHook.prev <= n - (i + 1))
      BY <1>0, <2>3, <3>1, <3>2
    <3> QED
      BY <2>1, <2>5, <3>3 DEF Remaining
  <2>6. CASE log[x].prev \in Loggers
    <3>1. log[x].prev \in Nat /\ log[x].prev < x
      BY <1>0, <2>2, <2>6
    <3>2. CASE x <= n - i
      <4>1. log[x].prev <= n - (i + 1)
        BY <1>0, <2>3, <3>1, <3>2
      <4> QED
        BY <2>1, <2>6, <4>1 DEF Remaining
    <3>3. CASE x <= n - i + 1 /\ appHook.prev # None /\ x <= appHook.prev
      <4>1. appHook.prev \in Nat
        BY <1>0, <3>3
      <4>2. log[x].prev <= n - (i + 1) + 1 /\ log[x].prev <= appHook.prev
        BY <1>0, <2>3, <3>1, <3>3, <4>1
      <4> QED
        BY <2>1, <2>6, <3>3, <4>2 DEF Remaining
    <3> QED
      BY <2>3, <3>2, <3>3
  <2> QED
    BY <2>1, <2>4, <2>5, <2>6
<1> QED
  BY <1>1, <1>2, <1>3 DEF Remaining

LEMMA ChainEnds ==
  ASSUME TypeOK, HookInv
  PROVE  HookChain[HookLimit] = None
<1> DEFINE n == MaxCalls + 2 * MaxFailures
<1> DEFINE S == {i \in Nat : i <= HookLimit => Remaining(HookChain[i], i)}
<1>0. n \in Nat /\ HookLimit = n + 2 /\ HookLimit \in Nat /\ Loggers = 1 .. n
  BY LoggersAreNumbers, LimitIsNumber DEF Loggers
<1>1. Remaining(hook, 0)
  <2>1. /\ hook \in Loggers \cup {App, None} /\ appHook.prev \in Loggers \cup {None}
    BY HooksTyped
  <2>2. n - 0 = n /\ 0 <= n /\ \A l \in Loggers : l <= n
    BY <1>0
  <2> HIDE DEF n
  <2>3. appHook.prev # None => appHook.prev <= n
    BY <2>1, <2>2
  <2>4. hook \in Loggers => hook <= n
    BY <2>2
  <2>5. MaxCalls + 2 * MaxFailures = n
    BY DEF n
  <2> QED
    BY <2>1, <2>2, <2>3, <2>4, <2>5 DEF Remaining
<1>2. 0 \in S
  BY <1>1, ChainFollows
<1>3. ASSUME NEW i \in Nat, i \in S PROVE i + 1 \in S
  <2> SUFFICES ASSUME i + 1 <= HookLimit PROVE Remaining(HookChain[i + 1], i + 1)
    BY <1>0
  <2>1. i \in 0 .. HookLimit /\ i + 1 \in 0 .. HookLimit /\ i <= HookLimit
    BY <1>0
  <2>2. Remaining(HookChain[i], i)
    BY <1>3, <2>1
  <2>3. HookChain[i + 1] = After(HookChain[i])
    BY <2>1, ChainFollows
  <2> QED
    BY <2>2, <2>3, RemainingShrinks
<1>4. HookLimit \in S
  <2> HIDE DEF S
  <2> QED
    BY <1>0, <1>2, <1>3, NatByStep
<1>5. Remaining(HookChain[HookLimit], HookLimit)
  BY <1>0, <1>4
<1> DEFINE x == HookChain[HookLimit]
<1> HIDE DEF x
<1>6. Remaining(x, n + 2)
  BY <1>0, <1>5 DEF x
<1>7. ~ (n + 2 <= n) /\ \A l \in Loggers : ~ (l <= n - (n + 2)) /\ ~ (l <= n - (n + 2) + 1)
  BY <1>0
<1>8. x = None
  BY <1>6, <1>7 DEF Remaining
<1> QED
  BY <1>8 DEF x

(* What is above the application's hook leads to it, so that it is heard.  *)
LEMMA AppIsHeard ==
  ASSUME TypeOK, HookInv, NEW S \in SUBSET Loggers, hook \in S, LeadToApp(S)
  PROVE  \E i \in 0 .. HookLimit : HookChain[i] = App
<1> SUFFICES ASSUME \A i \in 0 .. HookLimit : HookChain[i] # App PROVE FALSE
  OBVIOUS
<1> DEFINE T == {i \in Nat : i <= HookLimit => HookChain[i] \in S}
<1>1. 0 \in T
  BY ChainFollows
<1>2. ASSUME NEW i \in Nat, i \in T PROVE i + 1 \in T
  <2> SUFFICES ASSUME i + 1 <= HookLimit PROVE HookChain[i + 1] \in S
    OBVIOUS
  <2>1. i \in 0 .. HookLimit /\ i + 1 \in 0 .. HookLimit /\ i <= HookLimit
    BY LimitIsNumber
  <2> DEFINE x == HookChain[i]
  <2>2. x \in S /\ HookChain[i + 1] = After(x) /\ HookChain[i + 1] # App
    BY <1>2, <2>1, ChainFollows
  <2> HIDE DEF x
  <2>3. x # None /\ x # App /\ After(x) = log[x].prev
    BY <2>2, HooksTyped DEF After
  <2> QED
    BY <2>2, <2>3 DEF LeadToApp
<1>3. HookLimit \in T
  <2> HIDE DEF T
  <2> QED
    BY <1>1, <1>2, LimitIsNumber, NatByStep
<1>4. HookChain[HookLimit] \in S
  BY <1>3, LimitIsNumber
<1>5. None \notin S
  BY HooksTyped
<1> QED
  BY <1>4, <1>5, ChainEnds

LEMMA HooksAreKept ==
  ASSUME InstrumentInv
  PROVE  HooksKept
<1>0. TypeOK /\ HookInv /\ RaceInv
  BY DEF InstrumentInv
<1>1. HookChain[HookLimit] = None
  BY <1>0, ChainEnds
<1>2. ASSUME ~raced, NEW l \in {current} \ ({None} \cup stuck), log[l].hooked, ~log[l].closed
      PROVE  \E i \in 0 .. HookLimit : HookChain[i] = l
  <2>1. OnTop(l)
    BY <1>0, <1>2 DEF RaceInv
  <2>2. 0 \in 0 .. HookLimit /\ 1 \in 0 .. HookLimit /\ 0 + 1 = 1
    BY LimitIsNumber, LoggersAreNumbers
  <2>3. HookChain[0] = hook /\ HookChain[1] = After(hook)
    BY <2>2, ChainFollows
  <2>4. CASE hook = l
    BY <2>2, <2>3, <2>4
  <2>5. CASE hook = App /\ appHook.prev = l
    <3>1. After(hook) = l
      BY <1>0, <2>5, HooksTyped DEF After
    <3> QED
      BY <2>2, <2>3, <3>1
  <2> QED
    BY <2>1, <2>4, <2>5 DEF OnTop
<1>3. ASSUME ~raced, appHook.installed
      PROVE  \E i \in 0 .. HookLimit : HookChain[i] = App
  <2>1. CASE hook = App
    <3>1. 0 \in 0 .. HookLimit /\ HookChain[0] = hook
      BY LimitIsNumber, ChainFollows
    <3> QED
      BY <2>1, <3>1
  <2>2. CASE hook # App
    <3>1. PICK S \in SUBSET Loggers : hook \in S /\ LeadToApp(S)
      BY <1>0, <1>3, <2>2 DEF RaceInv
    <3> QED
      BY <1>0, <3>1, AppIsHeard
  <2> QED
    BY <2>1, <2>2
<1> QED
  BY <1>1, <1>2, <1>3 DEF HooksKept

(* Whatever is built, closed, disabled or forked, the chain of exception   *)
(* hooks ends at Python's own, and unless two threads replaced the hook at *)
(* once it has the application's hook and that of the open logger, unless  *)
(* a child could not retire it (core.py:500, 963).                         *)
THEOREM HooksHeard == Spec => []HooksKept
BY HooksAreKept, InstrumentInvariant, PTL

===============================================================================
