------------------------------ MODULE GoClient ------------------------------
(***************************************************************************)
(* The delivery path of the Go client (config.go, client.go, worker.go):   *)
(* New, the worker goroutine, the goroutines that call Log, Flush and      *)
(* Shutdown, and the end and restart of the process on the same file.      *)
(*                                                                         *)
(* A record stands for one Log call in a goroutine of its own; a caller    *)
(* for one Flush, or one Shutdown when it is in Closers.  sender stands    *)
(* for senderID, instanceID and instanceToken, always set together under   *)
(* c.mu.  A step is what one holder of c.mu does, or one channel           *)
(* operation.                                                              *)
(***************************************************************************)
EXTENDS GoQueueStore, FiniteSets

CONSTANTS Callers,          \* goroutines that call Flush or Shutdown
          Closers,          \* those that call Shutdown
          Senders,          \* sender ids the API may answer init with
          NoSender,         \* no session: the three fields are ""
          RetryAttempts,    \* retryAttempts
          MaxRuns           \* bound on the runs of the process

ASSUME ClientAssumption ==
    /\ Closers \subseteq Callers
    /\ NoSender \notin Senders
    /\ RetryAttempts \in Nat
    /\ MaxRuns \in Nat \ {0}
    /\ IsFiniteSet(Records)

VARIABLES pc,               \* where New or the worker is
          remoteEnabled,
          closed,
          workerRunning,
          done,             \* the done channel is closed
          workerDone,       \* the workerDone channel is closed
          once,             \* sync.Once of Shutdown: "free", "busy", "over"
          sender,           \* senderID / instanceID / instanceToken
          item,             \* the record the worker has taken from next
          failures,         \* retriesDone, then consecutiveFailures
          call,             \* where each Log is
          lane,             \* where Log put each record, or that it did not
          tag,              \* SenderID of each record
          caller,           \* where each Flush or Shutdown is
          \* history
          run,              \* number of the current run of the process
          ticket,           \* place of each record in the queueing order
          born,             \* the run that queued each record
          received,         \* records the API has received
          lost,             \* why the client gave a record up, or "no"
          owed              \* what was pending when each Flush began

workerVars == <<pc, workerRunning, sender, item, failures>>
stateVars == <<remoteEnabled, closed, done, workerDone, once>>
callVars == <<call, lane, tag>>
historyVars == <<run, ticket, born, received, lost, owed>>
vars == <<queueVars, workerVars, stateVars, callVars, caller, historyVars>>

BootPcs == {"prepare", "connect", "clear"}
LoopPcs == {"loop", "init", "reclear", "next", "idle", "send", "drop", "backoff"}
ExitPcs == {"stopping", "closing", "dbclose", "finishing"}
EndPcs == {"none", "over"}   \* no worker was started / run() returned

CallPcs == {"new", "enqueue", "signal", "returned"}
Outcomes == {"none", "disk", "memory", "nowhere"}
CallerPcs == {"idle", "running", "look", "count", "last", "signal", "tick",
              "true", "false", "stop", "stopAll", "closeAll", "dbclose", "finish",
              "await", "released", "expired"}
Causes == {"no", "startup", "reconnect", "exit"}

Queued == {r \in Records : lane[r] \in {"disk", "memory"}}

TypeOK ==
    /\ QueueTypeOK
    /\ pc \in BootPcs \cup LoopPcs \cup ExitPcs \cup EndPcs
    /\ remoteEnabled \in BOOLEAN /\ closed \in BOOLEAN
    /\ workerRunning \in BOOLEAN /\ done \in BOOLEAN /\ workerDone \in BOOLEAN
    /\ once \in {"free", "busy", "over"}
    /\ sender \in Senders \cup {NoSender}
    /\ item \in Items \cup {NoItem}
    /\ pc \in {"send", "drop"} => item \in Items
    /\ failures \in 0 .. RetryAttempts + 1
    /\ call \in [Records -> CallPcs]
    /\ lane \in [Records -> Outcomes]
    /\ tag \in [Records -> Senders \cup {NoSender}]
    /\ caller \in [Callers -> CallerPcs]
    /\ run \in 1 .. MaxRuns
    /\ ticket \in [Records -> Nat]
    /\ born \in [Records -> 0 .. MaxRuns]
    /\ received \subseteq Records
    /\ lost \in [Records -> Causes]
    /\ owed \in [Callers -> SUBSET Records]

Init ==
    /\ QueueInit
    /\ pc = "prepare"
    /\ remoteEnabled = TRUE /\ closed = FALSE /\ workerRunning = FALSE
    /\ done = FALSE /\ workerDone = FALSE /\ once = "free"
    /\ sender = NoSender /\ item = NoItem /\ failures = 0
    /\ call = [r \in Records |-> "new"]
    /\ lane = [r \in Records |-> "none"]
    /\ tag = [r \in Records |-> NoSender]
    /\ caller = [f \in Callers |-> "idle"]
    /\ run = 1
    /\ ticket = [r \in Records |-> 0]
    /\ born = [r \in Records |-> 0]
    /\ received = {}
    /\ lost = [r \in Records |-> "no"]
    /\ owed = [f \in Callers |-> {}]

(* Records that leave the queue in this step without having been received. *)
LoseAs(cause) ==
    lost' = [r \in Records |->
                IF r \in Stored /\ r \notin Stored' /\ r \notin received
                THEN cause ELSE lost[r]]

-----------------------------------------------------------------------------
(* New: prepareQueue, initializeBlocking, then the worker is started. *)
Prepare ==
    /\ pc = "prepare"
    /\ PrepareQueue
    /\ pc' = "connect"
    /\ UNCHANGED <<workerRunning, sender, item, failures, stateVars, callVars,
                   caller, historyVars>>

(* The session of initialize, in New and in the worker. *)
Connected(s) == sender' = s

ConnectOk(s) ==
    /\ pc = "connect"
    /\ Connected(s)
    /\ pc' = "clear"
    /\ UNCHANGED <<queueVars, workerRunning, item, failures, stateVars,
                   callVars, caller, historyVars>>

ConnectFails ==
    /\ pc = "connect"
    /\ \/ failures < RetryAttempts /\ failures' = failures + 1 /\ pc' = pc
       \/ failures >= RetryAttempts /\ pc' = "none" /\ UNCHANGED failures
    /\ UNCHANGED <<queueVars, workerRunning, sender, item, stateVars, callVars,
                   caller, historyVars>>

(* disableRemote: unlike close, it touches no channel. *)
DisableRemote ==
    /\ remoteEnabled' = FALSE
    /\ sender' = NoSender
    /\ UNCHANGED <<closed, done, workerDone, once>>

ConnectRefused ==
    /\ pc = "connect"
    /\ DisableRemote
    /\ pc' = "none"
    /\ UNCHANGED <<queueVars, workerRunning, item, failures, callVars, caller,
                   historyVars>>

StartupClear ==
    /\ pc = "clear"
    /\ ClearPersistentQueue
    /\ LoseAs("startup")
    /\ workerRunning' = TRUE
    /\ failures' = 0
    /\ pc' = "loop"
    /\ UNCHANGED <<sender, item, stateVars, callVars, caller, run, ticket, born,
                   received, owed>>

-----------------------------------------------------------------------------
(* run: the top of the loop. *)
Loop ==
    /\ pc = "loop"
    /\ pc' = IF done THEN "stopping" ELSE IF sender = NoSender THEN "init" ELSE "next"
    /\ UNCHANGED <<queueVars, workerRunning, sender, item, failures, stateVars,
                   callVars, caller, historyVars>>

(* consecutiveFailures++ and reportDeliveryFailure, which forgets the      *)
(* session beyond retryAttempts.                                           *)
CountFailure ==
    /\ failures' = IF failures > RetryAttempts THEN failures ELSE failures + 1
    /\ sender' = IF failures' > RetryAttempts THEN NoSender ELSE sender
    /\ pc' = "backoff"

InitOk(s) ==
    /\ pc = "init"
    /\ Connected(s)
    /\ pc' = "reclear"
    /\ UNCHANGED <<queueVars, workerRunning, item, failures, stateVars,
                   callVars, caller, historyVars>>

InitFails ==
    /\ pc = "init"
    /\ CountFailure
    /\ UNCHANGED <<queueVars, workerRunning, item, stateVars, callVars, caller,
                   historyVars>>

InitRefused ==
    /\ pc = "init"
    /\ DisableRemote
    /\ pc' = "stopping"
    /\ UNCHANGED <<queueVars, workerRunning, item, failures, callVars, caller,
                   historyVars>>

InitClear ==
    /\ pc = "reclear"
    /\ ClearPersistentQueue
    /\ LoseAs("reconnect")
    /\ failures' = 0
    /\ pc' = "next"
    /\ UNCHANGED <<workerRunning, sender, item, stateVars, callVars, caller,
                   run, ticket, born, received, owed>>

TakeNext ==
    /\ pc = "next"
    /\ \E it \in Peekable : NextItem(it) /\ item' = it
    /\ pc' = "send"
    /\ UNCHANGED <<workerRunning, sender, failures, stateVars, callVars, caller,
                   historyVars>>

NextEmpty ==
    /\ pc = "next"
    /\ NextNothing
    /\ pc' = "idle"
    /\ UNCHANGED <<workerRunning, sender, item, failures, stateVars, callVars,
                   caller, historyVars>>

(* The idle select: any of its ready cases. *)
IdleDone ==
    /\ pc = "idle"
    /\ done
    /\ pc' = "stopping"
    /\ UNCHANGED <<queueVars, workerRunning, sender, item, failures, stateVars,
                   callVars, caller, historyVars>>

IdleWake ==
    /\ pc = "idle"
    /\ wake
    /\ wake' = FALSE
    /\ pc' = "loop"
    /\ UNCHANGED <<disk, nextId, memory, persistent, queueDB, sqlite, faults,
                   workerRunning, sender, item, failures, stateVars, callVars,
                   caller, historyVars>>

(* A tick of the health ticker: the select of the idle worker, and the one  *)
(* at the top of the loop, where a tick may be chosen over a closed done.  *)
(* The request it makes changes nothing here.                              *)
HealthTick ==
    /\ \/ pc = "idle" /\ pc' = "loop"
       \/ pc = "loop" /\ pc' = IF sender = NoSender THEN "init" ELSE "next"
    /\ UNCHANGED <<queueVars, workerRunning, sender, item, failures, stateVars,
                   callVars, caller, historyVars>>

(* send: a record tagged by another sender is a permanent failure. *)
Foreign == tag[item.rec] \notin {NoSender, sender}

SendOk ==
    /\ pc = "send" /\ ~Foreign
    /\ received' = received \cup {item.rec}
    /\ pc' = "drop"
    /\ UNCHANGED <<queueVars, workerRunning, sender, item, failures, stateVars,
                   callVars, caller, run, ticket, born, lost, owed>>

(* A failed exchange: the API may have received the record all the same. *)
MaybeReceived == received' \in {received, received \cup {item.rec}}

SendFails ==
    /\ pc = "send" /\ ~Foreign
    /\ MaybeReceived
    /\ CountFailure
    /\ item' = NoItem
    /\ UNCHANGED <<queueVars, workerRunning, stateVars, callVars, caller, run,
                   ticket, born, lost, owed>>

SendRefused ==
    /\ pc = "send"
    /\ IF Foreign THEN UNCHANGED received ELSE MaybeReceived
    /\ DisableRemote
    /\ item' = NoItem
    /\ pc' = "stopping"
    /\ UNCHANGED <<queueVars, workerRunning, failures, callVars, caller, run,
                   ticket, born, lost, owed>>

(* drop, whose failure is only reported. *)
DropSent ==
    /\ pc = "drop"
    /\ Drop(item)
    /\ failures' = 0
    /\ item' = NoItem
    /\ pc' = "loop"
    /\ UNCHANGED <<workerRunning, sender, stateVars, callVars, caller,
                   historyVars>>

(* wait(retryInterval) *)
Backoff ==
    /\ pc = "backoff"
    /\ pc' \in IF done THEN {"loop", "stopping"} ELSE {"loop"}
    /\ UNCHANGED <<queueVars, workerRunning, sender, item, failures, stateVars,
                   callVars, caller, historyVars>>

(* The deferred end of run: workerRunning, closeQueue, finishWorker. *)
ExitRunning ==
    /\ pc = "stopping"
    /\ workerRunning' = FALSE
    /\ pc' = "closing"
    /\ UNCHANGED <<queueVars, sender, item, failures, stateVars, callVars,
                   caller, historyVars>>

ExitTake ==
    /\ pc = "closing"
    /\ TakeQueueDB
    /\ pc' = IF queueDB THEN "dbclose" ELSE "finishing"
    /\ UNCHANGED <<workerRunning, sender, item, failures, stateVars, callVars,
                   caller, historyVars>>

ExitClose ==
    /\ pc = "dbclose"
    /\ CloseDB
    /\ pc' = "finishing"
    /\ UNCHANGED <<workerRunning, sender, item, failures, stateVars, callVars,
                   caller, historyVars>>

ExitDone ==
    /\ pc = "finishing"
    /\ workerDone' = TRUE
    /\ pc' = "over"
    /\ UNCHANGED <<queueVars, workerRunning, sender, item, failures,
                   remoteEnabled, closed, done, once, callVars, caller,
                   historyVars>>

-----------------------------------------------------------------------------
(* Log: Enabled, then enqueue, then signal, each on its own. *)
LogBegin(r) ==
    /\ pc \notin BootPcs
    /\ call[r] = "new"
    /\ call' = [call EXCEPT ![r] = IF remoteEnabled THEN "enqueue" ELSE "returned"]
    /\ UNCHANGED <<queueVars, workerVars, stateVars, lane, tag, caller,
                   historyVars>>

LogEnqueue(r) ==
    /\ call[r] = "enqueue"
    /\ ~closed
    /\ \/ InsertRow(r) /\ lane' = [lane EXCEPT ![r] = "disk"]
       \/ KeepInMemory(r) /\ lane' = [lane EXCEPT ![r] = "memory"]
    /\ tag' = [tag EXCEPT ![r] = sender]
    /\ call' = [call EXCEPT ![r] = "signal"]
    /\ ticket' = [ticket EXCEPT ![r] = Cardinality(Queued) + 1]
    /\ born' = [born EXCEPT ![r] = run]
    /\ UNCHANGED <<workerVars, stateVars, caller, run, received, lost, owed>>

LogNowhere(r) ==
    /\ call[r] = "enqueue"
    /\ ~closed
    /\ StoreNowhere
    /\ lane' = [lane EXCEPT ![r] = "nowhere"]
    /\ call' = [call EXCEPT ![r] = "signal"]
    /\ UNCHANGED <<workerVars, stateVars, tag, caller, historyVars>>

(* enqueue returns "client is closed". *)
LogRejected(r) ==
    /\ call[r] = "enqueue"
    /\ closed
    /\ call' = [call EXCEPT ![r] = "returned"]
    /\ UNCHANGED <<queueVars, workerVars, stateVars, lane, tag, caller,
                   historyVars>>

(* Mutation: enqueue returns without its signal. *)
LogForgetsSignal(r) ==
    /\ call[r] = "signal"
    /\ call' = [call EXCEPT ![r] = "returned"]
    /\ UNCHANGED <<queueVars, workerVars, stateVars, lane, tag, caller,
                   historyVars>>

LogSignal(r) ==
    /\ call[r] = "signal"
    /\ Signal
    /\ call' = [call EXCEPT ![r] = "returned"]
    /\ UNCHANGED <<workerVars, stateVars, lane, tag, caller, historyVars>>

-----------------------------------------------------------------------------
Goto(f, place) == caller' = [caller EXCEPT ![f] = place]

(* Flush: Enabled, workerRunning, then a poll of closed and PendingCount. *)
FlushBegin(f) ==
    /\ pc \notin BootPcs
    /\ caller[f] = "idle"
    /\ Goto(f, IF remoteEnabled THEN "running" ELSE "false")
    /\ owed' = [owed EXCEPT ![f] = Stored]
    /\ UNCHANGED <<queueVars, workerVars, stateVars, callVars, run, ticket,
                   born, received, lost>>

FlushRunning(f) ==
    /\ caller[f] = "running"
    /\ Goto(f, IF workerRunning THEN "look" ELSE "last")
    /\ UNCHANGED <<queueVars, workerVars, stateVars, callVars, historyVars>>

(* closed is read before the count that decides. *)
FlushLook(f) ==
    /\ caller[f] = "look"
    /\ Goto(f, IF closed THEN "last" ELSE "count")
    /\ UNCHANGED <<queueVars, workerVars, stateVars, callVars, historyVars>>

FlushCount(f) ==
    /\ caller[f] \in {"count", "last"}
    /\ \E zero \in BOOLEAN :
          /\ CountPending(zero)
          /\ Goto(f, IF zero THEN "true"
                     ELSE IF caller[f] = "last" THEN "false" ELSE "signal")
    /\ UNCHANGED <<workerVars, stateVars, callVars, historyVars>>

FlushSignal(f) ==
    /\ caller[f] = "signal"
    /\ Signal
    /\ Goto(f, "tick")
    /\ UNCHANGED <<workerVars, stateVars, callVars, historyVars>>

FlushTick(f) ==
    /\ caller[f] = "tick"
    /\ Goto(f, "look")
    /\ UNCHANGED <<queueVars, workerVars, stateVars, callVars, historyVars>>

FlushExpires(f) ==
    /\ caller[f] = "tick"
    /\ Goto(f, "false")
    /\ UNCHANGED <<queueVars, workerVars, stateVars, callVars, historyVars>>

-----------------------------------------------------------------------------
(* Shutdown, after its Flush: the body of once.Do, which every other       *)
(* caller waits for, then the wait for workerDone.                         *)
ShutdownMark(f) ==
    /\ f \in Closers
    /\ caller[f] \in {"true", "false"}
    /\ once = "free"
    /\ once' = "busy"
    /\ closed' = TRUE
    /\ Goto(f, IF workerRunning THEN "stop" ELSE "stopAll")
    /\ UNCHANGED <<queueVars, workerVars, remoteEnabled, done, workerDone,
                   callVars, historyVars>>

(* Mutation: the wake-up alone, without close(c.done). *)
ShutdownOnlySignals(f) ==
    /\ caller[f] \in {"stop", "stopAll"}
    /\ Signal
    /\ Goto(f, IF caller[f] = "stop" THEN "await" ELSE "closeAll")
    /\ once' = IF caller[f] = "stop" THEN "over" ELSE once
    /\ UNCHANGED <<workerVars, remoteEnabled, closed, done, workerDone,
                   callVars, historyVars>>

(* close(c.done) and signal. *)
ShutdownStop(f) ==
    /\ caller[f] \in {"stop", "stopAll"}
    /\ done' = TRUE
    /\ Signal
    /\ Goto(f, IF caller[f] = "stop" THEN "await" ELSE "closeAll")
    /\ once' = IF caller[f] = "stop" THEN "over" ELSE once
    /\ UNCHANGED <<workerVars, remoteEnabled, closed, workerDone, callVars,
                   historyVars>>

(* Mutation: without a worker, only workerDone is closed. *)
ShutdownKeepsQueue(f) ==
    /\ caller[f] = "closeAll"
    /\ Goto(f, "finish")
    /\ UNCHANGED <<queueVars, workerVars, stateVars, callVars, historyVars>>

(* No worker was running: closeQueue, then finishWorker.  A worker that is *)
(* ending may have taken queueDB first, and be about to close it.          *)
ShutdownTake(f) ==
    /\ caller[f] = "closeAll"
    /\ TakeQueueDB
    /\ Goto(f, IF queueDB THEN "dbclose" ELSE "finish")
    /\ UNCHANGED <<workerVars, stateVars, callVars, historyVars>>

ShutdownClose(f) ==
    /\ caller[f] = "dbclose"
    /\ CloseDB
    /\ Goto(f, "finish")
    /\ UNCHANGED <<workerVars, stateVars, callVars, historyVars>>

ShutdownFinish(f) ==
    /\ caller[f] = "finish"
    /\ workerDone' = TRUE
    /\ once' = "over"
    /\ Goto(f, "await")
    /\ UNCHANGED <<queueVars, workerVars, remoteEnabled, closed, done, callVars,
                   historyVars>>

ShutdownLate(f) ==
    /\ f \in Closers
    /\ caller[f] \in {"true", "false"}
    /\ once = "over"
    /\ Goto(f, "await")
    /\ UNCHANGED <<queueVars, workerVars, stateVars, callVars, historyVars>>

ShutdownReturns(f) ==
    /\ caller[f] = "await"
    /\ \/ workerDone /\ Goto(f, "released")
       \/ Goto(f, "expired")
    /\ UNCHANGED <<queueVars, workerVars, stateVars, callVars, historyVars>>

-----------------------------------------------------------------------------
(* The process ends at any point, closed or not, and is started again on  *)
(* the same file.                                                          *)
Restart ==
    /\ run < MaxRuns
    /\ run' = run + 1
    /\ QueueRestart
    /\ LoseAs("exit")
    /\ pc' = "prepare"
    /\ remoteEnabled' = TRUE /\ closed' = FALSE /\ workerRunning' = FALSE
    /\ done' = FALSE /\ workerDone' = FALSE /\ once' = "free"
    /\ sender' = NoSender /\ item' = NoItem /\ failures' = 0
    /\ call' = [r \in Records |-> IF lane[r] = "none" THEN "new" ELSE "returned"]
    /\ caller' = [f \in Callers |-> "idle"]
    /\ owed' = [f \in Callers |-> {}]
    /\ UNCHANGED <<lane, tag, ticket, born, received>>

BootStep ==
    \/ Prepare \/ (\E s \in Senders : ConnectOk(s)) \/ ConnectFails
    \/ ConnectRefused \/ StartupClear
InitStep == (\E s \in Senders : InitOk(s)) \/ InitFails \/ InitRefused \/ InitClear
IdleStep == IdleDone \/ IdleWake
SendStep == SendOk \/ SendFails \/ SendRefused
ExitStep == ExitRunning \/ ExitTake \/ ExitClose \/ ExitDone
WorkerStep ==
    \/ Loop \/ InitStep \/ TakeNext \/ NextEmpty \/ IdleStep \/ SendStep
    \/ DropSent \/ Backoff \/ ExitStep
LogStep(r) ==
    \/ LogBegin(r) \/ LogEnqueue(r) \/ LogNowhere(r) \/ LogRejected(r)
    \/ LogSignal(r)
FlushStep(f) ==
    \/ FlushBegin(f) \/ FlushRunning(f) \/ FlushLook(f) \/ FlushCount(f)
    \/ FlushSignal(f) \/ FlushTick(f) \/ FlushExpires(f)
OnceStep(f) ==
    ShutdownStop(f) \/ ShutdownTake(f) \/ ShutdownClose(f) \/ ShutdownFinish(f)
ShutdownStep(f) ==
    \/ ShutdownMark(f) \/ OnceStep(f) \/ ShutdownLate(f) \/ ShutdownReturns(f)

Next ==
    \/ BootStep
    \/ WorkerStep
    \/ HealthTick
    \/ \E r \in Records : LogStep(r)
    \/ \E f \in Callers : FlushStep(f) \/ ShutdownStep(f)
    \/ Restart

Spec == Init /\ [][Next]_vars

(* New, the worker, a Log that has queued its record and the body of       *)
(* once.Do are goroutines that run again (WF); of the exchanges that are   *)
(* tried again and again one succeeds (SF); a select does not pass over a  *)
(* closed done for ever (SF: it chooses among ready cases at random).      *)
(* Nothing is assumed of the health ticker, nor of the goroutines that     *)
(* call Log, Flush or Shutdown.                                            *)
Fairness ==
    /\ WF_vars(BootStep)
    /\ WF_vars(WorkerStep)
    /\ \A r \in Records : WF_vars(LogSignal(r))
    /\ \A f \in Closers : WF_vars(OnceStep(f))
    /\ SF_vars(Loop)
    /\ SF_vars(IdleDone)
    /\ SF_vars(SendOk)
    /\ SF_vars(\E s \in Senders : InitOk(s))

FairSpec == Spec /\ Fairness

-----------------------------------------------------------------------------
(* A worker that sleeps with no wake-up on its way has nothing to send:    *)
(* while SQLite does not fail, no record waits for the health ticker (the  *)
(* idle select has no timeout of its own, worker.go:51).  Hazard: the      *)
(* token of a record queued between next and the select.                   *)
NoLostWakeUp ==
    (faults = 0 /\ pc = "idle" /\ ~wake /\ \A r \in Records : call[r] # "signal")
        => Stored = {}

(* A run sends only what was queued in it, even when its startup clear     *)
(* fails, and the startup clear removes nothing queued by the run that     *)
(* makes it ("persisted records are cleared ... after a successful         *)
(* instance initialization", logmate-client-go/README.md:318).             *)
RunsAreIsolated ==
    /\ pc = "send" => born[item.rec] = run
    /\ \A r \in Records : lost[r] = "startup" => born[r] < run

(* A Flush that returned true saw everything pending at its start leave    *)
(* the queue ("Flush waits until records queued by this logger have been   *)
(* delivered", instrument.go:147).                                         *)
FlushTruth ==
    faults = 0 =>
        \A f \in Callers : caller[f] = "true" => owed[f] \cap Stored = {}

(* A Shutdown that was not cut off by its context leaves no one who can    *)
(* use the database, whether the worker was running, ending or never       *)
(* started, and whoever called it first; and SQLite is closed, unless a    *)
(* worker that was already ending has taken the handle and is just about   *)
(* to close it (client.go:112-115, queue_store.go:183-189).                *)
ShutdownReleases ==
    \A f \in Closers :
        caller[f] = "released" =>
            /\ ~queueDB /\ pc \notin BootPcs \cup LoopPcs
            /\ sqlite => pc = "dbclose"

(* A Log that reports no error and finds the client enabled has put its    *)
(* record in one of the lanes ("If SQLite cannot be prepared or written,   *)
(* affected records remain in memory", logmate-client-go/README.md:320).   *)
AcceptedIsQueued ==
    \A r \in Records : lane[r] # "nowhere"

(* A session counts once its clear is over, until it is forgotten. *)
SessionOpen == pc \in LoopPcs \ {"reclear"} /\ sender # NoSender

(* The client keeps what LogDelivery promises of the records it queues. *)
Delivery == INSTANCE LogDelivery WITH
    lane <- [r \in Records |-> IF r \in Queued THEN lane[r] ELSE "none"],
    pending <- Stored,
    open <- SessionOpen

(* The Go client implements the same contract as the Python one: oldest    *)
(* first in each lane, dropped once received, lost only when a session     *)
(* opens or the process ends; through failed reads, INSERTs and DELETEs.   *)
ImplementsDelivery == Delivery!Spec

(* A record queued while the worker runs is received or given up, unless   *)
(* the client stops; with no help from the health ticker unless SQLite     *)
(* fails.                                                                  *)
EventuallySent ==
    \A r \in Records :
        (r \in Stored /\ pc \in LoopPcs)
            ~> (r \in received \/ lost[r] # "no" \/ closed \/ ~remoteEnabled
                \/ faults > 0)

(* A Shutdown that has begun closes workerDone, so that every Shutdown can *)
(* return, and has SQLite closed in the end ("releases the background      *)
(* worker and SQLite connection", logmate-client-go/README.md:342),        *)
(* whatever the worker is doing and whether there is one.                  *)
ShutdownCompletes == closed ~> workerDone /\ ~sqlite

=============================================================================
