----------------------------- MODULE PyInstrument -----------------------------
(***************************************************************************)
(* instrument() of the Python client and the process-wide state it owns:   *)
(* the module's globals and _instrument_lock, sys.stdout and its           *)
(* descriptor, sys.excepthook, and the environment .env files are loaded   *)
(* into.  Several threads call instrument() and close(), a worker may      *)
(* disable its logger, the application may install an exception hook of    *)
(* its own, and the process may fork.                                      *)
(*                                                                         *)
(* A fork gives the child a copy of the memory and the one thread that     *)
(* forked.  Nothing either process does here changes the other, so a       *)
(* behaviour goes on with the child: the parent's is one without the fork. *)
(*                                                                         *)
(* Taking the capture out and putting it back are one step here (PyCapture *)
(* has their steps); in a child putting it back may raise.                 *)
(* threading.excepthook is handled as sys.excepthook and left out, and so  *)
(* is capture_system_logs=False.                                           *)
(***************************************************************************)
EXTENDS Integers, FiniteSets

CONSTANTS
  Threads,      \* user threads of a process
  Files,        \* addresses the .env files name
  Argument,     \* the address passed as an argument
  App,          \* the exception hook of the application
  None,         \* no logger, no address, Python's own hook, the terminal
  MaxCalls,     \* bound: calls of instrument()
  MaxFailures,  \* bound: calls that meet a thread that cannot start
  MaxForks      \* bound: forks

ASSUME NotAddresses == Argument \notin Files /\ None \notin Files \cup {Argument}
ASSUME NotLoggers == {App, None} \cap Nat = {} /\ App # None
ASSUME UserThreads == IsFiniteSet(Threads) /\ None \notin Threads
ASSUME Bounds == {MaxCalls, MaxFailures, MaxForks} \subseteq Nat

VARIABLES
  process,    \* os.getpid(), as the number of forks behind it
  live,       \* the threads the process has
  inherited,  \* the loggers it was given by the fork that made it
  shut,       \* those whose saved descriptor is closed though _saved_fd is not -1
  stuck,      \* history: those whose retirement raised
  current,    \* _instrumented_logger
  builtBy,    \* _instrumented_pid
  owner,      \* who holds _instrument_lock
  log,        \* the state of each logger
  hook,       \* sys.excepthook
  appHook,    \* whether the application's hook is installed, and the one before it
  stdout,     \* whose stream sys.stdout is
  fd,         \* whose pipe descriptor 1 leads to
  env,        \* the address in os.environ
  pc,         \* where each thread is, in which logger's construction or close()
  raced,      \* history: two threads read and replaced the hook at once
  calls, failures

processVars == <<process, live, inherited, shut, stuck>>
globals == <<current, builtBy>>
hookVars == <<hook, appHook, raced>>
streams == <<stdout, fd>>
vars == <<processVars, globals, owner, log, hookVars, streams, env, pc, calls, failures>>

Loggers == 1 .. (MaxCalls + 2 * MaxFailures)

LoggerRecord ==
  [made : BOOLEAN, returned : BOOLEAN, closed : BOOLEAN, remote : BOOLEAN,
   hooked : BOOLEAN, captures : BOOLEAN,
   prev : Loggers \cup {App, None},      \* _previous_sys_excepthook
   original : Loggers \cup {None},       \* _original_stdout: whose stream it is
   saved : Loggers \cup {None},          \* where the saved descriptor leads
   address : Files \cup {Argument, None}]  \* the API it sent to

Blank == [made |-> FALSE, returned |-> FALSE, closed |-> FALSE, remote |-> FALSE,
          hooked |-> FALSE, captures |-> FALSE, prev |-> None, original |-> None,
          saved |-> None, address |-> None]

Idle == [at |-> "idle", logger |-> None, fallback |-> FALSE]

Init ==
  /\ process = 0 /\ live = Threads /\ inherited = {} /\ shut = {} /\ stuck = {}
  /\ current = None /\ builtBy = None /\ owner = None
  /\ log = [l \in Loggers |-> Blank]
  /\ hook = None /\ appHook = [installed |-> FALSE, prev |-> None] /\ raced = FALSE
  /\ stdout = None /\ fd = None
  /\ env = None
  /\ pc = [t \in Threads |-> Idle]
  /\ calls = 0 /\ failures = 0

At(t, place) == t \in live /\ pc[t].at = place
Goto(t, place) == pc' = [pc EXCEPT ![t].at = place]
Enter(t, place, l, fallback) ==
  pc' = [pc EXCEPT ![t] = [at |-> place, logger |-> l, fallback |-> fallback]]
Done(t) == pc' = [pc EXCEPT ![t] = Idle]

Made == {l \in Loggers : log[l].made}
NextLogger == Cardinality(Made) + 1

(* Another thread has read the hook and is about to replace it, or has     *)
(* closed a logger and is about to look whether the hook is that logger's. *)
Swapping(t) ==
  \E u \in live \ {t} : pc[u].at \in {"sethook", "check", "unhook"}

(* _restore_system_log_capture of logger l, whose record becomes r.        *)
Restore(l, r) ==
  IF log[l].captures
  THEN /\ log' = [log EXCEPT ![l] = [r EXCEPT !.captures = FALSE]]
       /\ stdout' = IF stdout = l THEN log[l].original ELSE stdout
       /\ fd' = log[l].saved
  ELSE log' = [log EXCEPT ![l] = r] /\ UNCHANGED streams

(* stop() raises out of it when dup2 finds the saved descriptor closed:    *)
(* sys.stdout is back by then, descriptor 1 and the capture stay.          *)
Raises(l) == log[l].captures /\ l \in shut

RestoreRaises(l) ==
  /\ Raises(l)
  /\ stdout' = IF stdout = l THEN log[l].original ELSE stdout
  /\ UNCHANGED <<log, fd>>

(* A logger constructed while sys.stdout is out.                           *)
New(out) == [Blank EXCEPT !.made = TRUE, !.original = out]

-----------------------------------------------------------------------------
(* instrument().                                                           *)

Instrument(t) ==
  /\ At(t, "idle")
  /\ calls < MaxCalls
  /\ calls' = calls + 1
  /\ Goto(t, "enter")
  /\ UNCHANGED <<processVars, globals, owner, log, hookVars, streams, env, failures>>

Usable == current # None /\ builtBy = process /\ ~log[current].closed

Reuse(t) ==
  /\ At(t, "enter")
  /\ owner = None
  /\ Usable
  /\ Done(t)
  /\ UNCHANGED <<processVars, globals, owner, log, hookVars, streams, env, calls, failures>>

Build(t) ==
  /\ At(t, "enter")
  /\ owner = None
  /\ current = None \/ (builtBy = process /\ log[current].closed)
  /\ owner' = t
  /\ log' = [log EXCEPT ![NextLogger] = New(stdout)]
  /\ Enter(t, "config", NextLogger, FALSE)
  /\ UNCHANGED <<processVars, globals, hookVars, streams, env, calls, failures>>

(* Mutation: the logger inherited through a fork is left open.             *)
RetireKeepsOpen(t) ==
  /\ At(t, "enter")
  /\ owner = None
  /\ current # None
  /\ builtBy # process
  /\ ~Raises(current)
  /\ owner' = t
  /\ Restore(current, log[current])
  /\ Goto(t, "construct")
  /\ UNCHANGED <<processVars, globals, hookVars, env, calls, failures>>

(* A child takes its parent's logger out of service, its capture and its   *)
(* threads but not its exception hook, and builds its own.                 *)
Retire(t) ==
  /\ At(t, "enter")
  /\ owner = None
  /\ current # None
  /\ builtBy # process
  /\ ~Raises(current)
  /\ owner' = t
  /\ Restore(current, [log[current] EXCEPT !.closed = TRUE])
  /\ Goto(t, "construct")
  /\ UNCHANGED <<processVars, globals, hookVars, env, calls, failures>>

(* When putting the capture back raises, _closed is not set: the child     *)
(* builds its own logger beside an open one.                               *)
RetireRaises(t) ==
  /\ At(t, "enter")
  /\ owner = None
  /\ current # None
  /\ builtBy # process
  /\ RestoreRaises(current)
  /\ owner' = t
  /\ stuck' = stuck \cup {current}
  /\ Goto(t, "construct")
  /\ UNCHANGED <<process, live, inherited, shut, globals, hookVars, env, calls, failures>>

Construct(t) ==
  /\ At(t, "construct")
  /\ log' = [log EXCEPT ![NextLogger] = New(stdout)]
  /\ Enter(t, "config", NextLogger, FALSE)
  /\ UNCHANGED <<processVars, globals, owner, hookVars, streams, env, calls, failures>>

(* Mutation: the .env file overwrites variables that are set.              *)
LoadOverwrites(file) == IF file = None THEN env ELSE file

(* _load_env: os.environ.setdefault, for the rest of the process.          *)
LoadEnv(file) == IF env = None THEN file ELSE env

(* Mutation: the lock is not released when the arguments are wrong.        *)
RejectKeepsLock(t) ==
  /\ At(t, "config")
  /\ ~pc[t].fallback
  /\ \E file \in Files \cup {None} : env' = LoadEnv(file)
  /\ log' = [log EXCEPT ![pc[t].logger] = Blank]
  /\ Done(t)
  /\ UNCHANGED <<processVars, globals, owner, hookVars, streams, calls, failures>>

(* ValueError: one of api_url and sender_name alone, or not a usable one.  *)
(* The .env file has been loaded, the globals are as they were.            *)
Reject(t) ==
  /\ At(t, "config")
  /\ ~pc[t].fallback
  /\ \E file \in Files \cup {None} : env' = LoadEnv(file)
  /\ log' = [log EXCEPT ![pc[t].logger] = Blank]
  /\ owner' = None
  /\ Done(t)
  /\ UNCHANGED <<processVars, globals, hookVars, streams, calls, failures>>

(* _config and the initial attempts.  The environment wins over the        *)
(* argument; without an address the logger is local, and a refusal         *)
(* disables it.  An API that is away leaves it enabled, as an answer does. *)
(* The fallback construction is given no file and no argument.             *)
Configure(t) ==
  /\ At(t, "config")
  /\ \E file \in Files \cup {None}, argument \in {Argument, None}, refused \in BOOLEAN :
       LET found == LoadEnv(file)
           address == IF found # None THEN found ELSE argument
           remote == address # None /\ ~refused
       IN /\ pc[t].fallback => file = None /\ argument = None
          /\ env' = found
          /\ log' = [log EXCEPT ![pc[t].logger].address = IF remote THEN address ELSE None,
                                ![pc[t].logger].remote = remote]
          /\ Goto(t, IF remote THEN "hook" ELSE "publish")
  /\ UNCHANGED <<processVars, globals, owner, hookVars, streams, calls, failures>>

ReadHook(t) ==
  /\ At(t, "hook")
  /\ log' = [log EXCEPT ![pc[t].logger].prev = hook]
  /\ raced' = (raced \/ Swapping(t))
  /\ Goto(t, "sethook")
  /\ UNCHANGED <<processVars, globals, owner, hook, appHook, streams, env, calls, failures>>

SetHook(t) ==
  /\ At(t, "sethook")
  /\ hook' = pc[t].logger
  /\ log' = [log EXCEPT ![pc[t].logger].hooked = TRUE]
  /\ raced' = (raced \/ Swapping(t))
  /\ Goto(t, "capture")
  /\ UNCHANGED <<processVars, globals, owner, appHook, streams, env, calls, failures>>

Capture(t) ==
  LET l == pc[t].logger
  IN /\ At(t, "capture")
     /\ stdout' = l
     /\ fd' = l
     /\ log' = [log EXCEPT ![l].saved = fd, ![l].captures = TRUE]
     /\ Goto(t, "publish")
     /\ UNCHANGED <<processVars, globals, owner, hookVars, env, calls, failures>>

(* A reader thread that cannot start raises RuntimeError out of the        *)
(* constructor, with the hook installed and perhaps the descriptor         *)
(* redirected.  _build_logger starts again from the environment, and when  *)
(* that raises too makes do with a bare local logger.                      *)
CaptureRaises(t) ==
  LET l == pc[t].logger
      next == [log EXCEPT ![NextLogger] = New(stdout)]
  IN /\ At(t, "capture")
     /\ pc[t].fallback \/ failures < MaxFailures
     /\ failures' = IF pc[t].fallback THEN failures ELSE failures + 1
     /\ \/ log' = next /\ fd' = fd
        \/ log' = [next EXCEPT ![l].saved = fd, ![l].captures = TRUE] /\ fd' = l
     /\ Enter(t, IF pc[t].fallback THEN "publish" ELSE "config", NextLogger, TRUE)
     /\ UNCHANGED <<processVars, globals, owner, hookVars, stdout, env, calls>>

(* A fallback logger is disabled before it is returned.                    *)
Publish(t) ==
  LET l == pc[t].logger
      result == [log[l] EXCEPT !.returned = TRUE]
  IN /\ At(t, "publish")
     /\ IF pc[t].fallback
        THEN Restore(l, [result EXCEPT !.remote = FALSE])
        ELSE log' = [log EXCEPT ![l] = result] /\ UNCHANGED streams
     /\ current' = l
     /\ builtBy' = process
     /\ owner' = None
     /\ Done(t)
     /\ UNCHANGED <<processVars, hookVars, env, calls, failures>>

-----------------------------------------------------------------------------
(* close(), the worker, the application's hook, fork.                      *)

(* Mutation: the logger is marked closed before its capture is put back.   *)
CloseMarksFirst(t, l) ==
  /\ At(t, "idle")
  /\ log[l].returned
  /\ ~log[l].closed
  /\ ~Raises(l)
  /\ log' = [log EXCEPT ![l].closed = TRUE]
  /\ Enter(t, "flush", l, FALSE)
  /\ UNCHANGED <<processVars, globals, owner, hookVars, streams, env, calls, failures>>

CloseBegin(t, l) ==
  /\ At(t, "idle")
  /\ log[l].returned
  /\ ~log[l].closed
  /\ ~Raises(l)
  /\ Restore(l, log[l])
  /\ Enter(t, "flush", l, FALSE)
  /\ UNCHANGED <<processVars, globals, owner, hookVars, env, calls, failures>>

(* close() reports the error and returns with the logger open.             *)
CloseRaises(t, l) ==
  /\ At(t, "idle")
  /\ log[l].returned
  /\ ~log[l].closed
  /\ RestoreRaises(l)
  /\ UNCHANGED <<processVars, globals, owner, hookVars, env, pc, calls, failures>>

CloseMark(t) ==
  /\ At(t, "flush")
  /\ log' = [log EXCEPT ![pc[t].logger].closed = TRUE]
  /\ Goto(t, "check")
  /\ UNCHANGED <<processVars, globals, owner, hookVars, streams, env, calls, failures>>

(* Mutation: the hook is put back whoever has replaced it.                 *)
OwnsAny(l) == log[l].hooked

OwnsHook(l) == log[l].hooked /\ hook = l

CloseCheck(t) ==
  /\ At(t, "check")
  /\ IF OwnsHook(pc[t].logger) THEN Goto(t, "unhook") ELSE Done(t)
  /\ UNCHANGED <<processVars, globals, owner, log, hookVars, streams, env, calls, failures>>

CloseUnhook(t) ==
  /\ At(t, "unhook")
  /\ hook' = log[pc[t].logger].prev
  /\ raced' = (raced \/ Swapping(t))
  /\ Done(t)
  /\ UNCHANGED <<processVars, globals, owner, log, appHook, streams, env, calls, failures>>

(* The worker meets a permanent failure.  A child has none for the loggers *)
(* of its parent.                                                          *)
DisableRemote(l) ==
  /\ l \notin inherited
  /\ log[l].remote
  /\ Restore(l, [log[l] EXCEPT !.remote = FALSE])
  /\ UNCHANGED <<processVars, globals, owner, hookVars, env, pc, calls, failures>>

(* The application replaces sys.excepthook by a hook that calls the one    *)
(* before it.                                                              *)
AppHook(t) ==
  /\ At(t, "idle")
  /\ ~appHook.installed
  /\ appHook' = [installed |-> TRUE, prev |-> hook]
  /\ hook' = App
  /\ raced' = (raced \/ Swapping(t))
  /\ UNCHANGED <<processVars, globals, owner, log, streams, env, pc, calls, failures>>

(* The child may close the descriptors it was given, as daemons do, or the *)
(* fork may come while another thread puts back the capture of logger l,   *)
(* between os.close() of the saved descriptor and _saved_fd = -1.          *)
Fork(t) ==
  /\ At(t, "idle")
  /\ process < MaxForks
  /\ process' = process + 1
  /\ live' = {t}
  /\ inherited' = Made
  /\ \/ /\ shut' \in {shut, shut \cup {l \in Loggers : log[l].captures}}
        /\ UNCHANGED streams
     \/ \E l \in Loggers \ inherited :
           /\ log[l].captures
           /\ stdout' = IF stdout = l THEN log[l].original ELSE stdout
           /\ fd' = log[l].saved
           /\ shut' = shut \cup {l}
  /\ pc' = [u \in Threads |-> Idle]
  /\ UNCHANGED <<stuck, globals, owner, log, hookVars, env, calls, failures>>

CallStep(t) ==
  \/ Reuse(t)
  \/ Build(t)
  \/ Retire(t)
  \/ RetireRaises(t)
  \/ Construct(t)
  \/ Reject(t)
  \/ Configure(t)
  \/ ReadHook(t)
  \/ SetHook(t)
  \/ Capture(t)
  \/ CaptureRaises(t)
  \/ Publish(t)

CloseStep(t) ==
  \/ CloseMark(t)
  \/ CloseCheck(t)
  \/ CloseUnhook(t)

Next ==
  \/ \E l \in Loggers : DisableRemote(l)
  \/ \E t \in Threads :
       \/ Instrument(t)
       \/ CallStep(t)
       \/ \E l \in Loggers : CloseBegin(t, l) \/ CloseRaises(t, l)
       \/ CloseStep(t)
       \/ AppHook(t)
       \/ Fork(t)

Spec == Init /\ [][Next]_vars

(* Every thread runs on once it is inside instrument(), whose attempts to  *)
(* reach the API are bounded.                                              *)
FairSpec == Spec /\ \A t \in Threads : WF_vars(CallStep(t))

-----------------------------------------------------------------------------
(* Properties.                                                             *)

InCall == {"construct", "config", "hook", "sethook", "capture", "publish"}

(* Type correctness, and the lock: a thread of the process holds it exactly *)
(* while it builds a logger.                                               *)
TypeOK ==
  /\ process \in 0 .. MaxForks /\ live \subseteq Threads /\ inherited \subseteq Made
  /\ shut \subseteq inherited /\ stuck \subseteq shut
  /\ current \in Loggers \cup {None} /\ builtBy \in 0 .. MaxForks \cup {None}
  /\ owner \in Threads \cup {None}
  /\ \A t \in live : owner = t <=> pc[t].at \in InCall
  /\ log \in [Loggers -> LoggerRecord]
  /\ hook \in Loggers \cup {App, None}
  /\ appHook \in [installed : BOOLEAN, prev : Loggers \cup {None}]
  /\ stdout \in Loggers \cup {None} /\ fd \in Loggers \cup {None}
  /\ env \in Files \cup {None}
  /\ pc \in [Threads -> [at : InCall \cup {"idle", "enter", "flush", "check", "unhook"},
                         logger : Loggers \cup {None}, fallback : BOOLEAN]]
  /\ raced \in BOOLEAN
  /\ calls \in 0 .. MaxCalls /\ failures \in 0 .. MaxFailures

(* One logger per process (core.py:939): of the loggers instrument() has   *)
(* returned, in the process or before its fork, at most one is open,       *)
(* however calls, close() and fork interleave, but for those a child could *)
(* not retire, and none of these is what a further call returns.           *)
OneOpenLogger ==
  /\ \A a, b \in {l \in Loggers \ stuck : log[l].returned /\ ~log[l].closed} : a = b
  /\ Usable => current \notin stuck

(* Captures do not stack up, in a process or across a fork: a capture is   *)
(* never owned by a closed logger, a new logger never takes the stream of  *)
(* another for the terminal, and only one that a failed construction left  *)
(* behind, or that a child could not retire, can be found under it.        *)
CapturesDoNotStack ==
  \A l \in Loggers :
    log[l].captures =>
      /\ ~log[l].closed
      /\ log[l].original = None
      /\ log[l].saved # None => ~log[log[l].saved].returned \/ log[l].saved \in stuck

HookLimit == Cardinality(Loggers) + 2

(* The hooks called one after the other when an exception ends a thread.   *)
HookChain ==
  LET walk[i \in 0 .. HookLimit] ==
        IF i = 0 THEN hook
        ELSE CASE walk[i - 1] = None -> None
               [] walk[i - 1] = App -> appHook.prev
               [] OTHER -> log[walk[i - 1]].prev
  IN walk

(* The chain of exception hooks always ends at Python's own hook: no       *)
(* exception is handled for ever.  And none goes unheard: unless two       *)
(* threads replaced the hook at once, the application's hook and that of   *)
(* the open logger, unless a child could not retire it, stay in the chain, *)
(* whatever else is built, closed, disabled or forked.                     *)
HooksKept ==
  LET heard == {HookChain[i] : i \in 0 .. HookLimit}
      kept == {l \in {current} \ ({None} \cup stuck) : log[l].hooked /\ ~log[l].closed}
  IN /\ HookChain[HookLimit] = None
     /\ ~raced => kept \cup (IF appHook.installed THEN {App} ELSE {}) \subseteq heard

(* The .env files move a process to one API at most: a logger whose address *)
(* came from a file uses the address every later logger will use, whichever *)
(* files and arguments other calls name, accepted or not.                  *)
OneAddressFromFiles ==
  \A l \in Loggers : log[l].address \in Files => log[l].address = env

(* instrument() returns: a call ends, by a result or an error, unless its  *)
(* process was forked while another thread held _instrument_lock.          *)
CallsReturn ==
  \A t \in Threads :
    (At(t, "enter") /\ owner \in live \cup {None}) ~> (pc[t].at = "idle")

=============================================================================
