------------------------------ MODULE PyClient ------------------------------
(***************************************************************************)
(* The delivery path of the Python client (core.py, class LogMateLogger):  *)
(* the constructor that opens a session with the API, the worker thread,   *)
(* the application threads that call send() and flush(), close(), and the  *)
(* end and restart of the process on the same queue file.                  *)
(*                                                                         *)
(* A record stands for one send() call in a thread of its own, a flusher   *)
(* for a thread that calls flush() any number of times; Closer ends with   *)
(* close(), whose flush() is the last it called.                           *)
(* sender stands for sender_id, instance_id and instance_token, which are  *)
(* set and reset together by the worker; the orders in which their         *)
(* assignments and the reads in _enqueue_payload interleave give the same  *)
(* tags as one variable.                                                   *)
(***************************************************************************)
EXTENDS PyQueueStore, FiniteSets

CONSTANTS Flushers,         \* threads that call flush()
          Closer,           \* the flusher that calls close()
          Senders,          \* sender ids the API may answer init with
          NoSender,         \* no instance: the three attributes are ""
          RetryAttempts,    \* retry_attempts
          MaxRuns           \* bound on the runs of the process

ASSUME ClientAssumption ==
    /\ Closer \in Flushers
    /\ NoSender \notin Senders
    /\ RetryAttempts \in Nat
    /\ MaxRuns \in Nat \ {0}
    /\ IsFiniteSet(Records)

VARIABLES pc,               \* where the constructor or the worker is
          remote,           \* _remote_enabled
          closed,           \* _closed
          stop,             \* _stop (Event)
          sender,           \* sender_id / instance_id / instance_token
          item,             \* the record the worker has peeked
          failures,         \* retries_done, then consecutive_failures
          call,             \* where each send() is, or the lane it queued in
          tag,              \* _logmate_sender_id of each record
          fl,               \* where each flusher is, or what flush() returned
          \* history
          run,              \* number of the current run of the process
          ticket,           \* place of each record in the queueing order
          born,             \* the run that queued each record
          received,         \* records the API has received
          lost,             \* why the client gave a record up, or "no"
          owed,             \* what was pending when the last flush() began
          late              \* a flush() has set _queue_drained after a send()

threadVars == <<pc, remote, closed, stop, sender, item, failures>>
callVars == <<call, tag>>
historyVars == <<run, ticket, born, received, lost, owed, late>>
vars == <<queueVars, threadVars, callVars, fl, historyVars>>

BootPcs == {"prepare", "connect", "clear"}
WorkerPcs == {"loop", "init", "reconnect", "reclear", "peek", "quiet", "idle",
              "post", "ack", "foreign", "backoff"}
EndPcs == {"none", "done"}   \* no worker was started / the worker returned
HoldsItem == {"post", "ack", "foreign"}

CallPcs == {"new", "tag", "insert", "local", "disk", "memory"}
FlushPcs == {"idle", "drain", "check", "enter", "wait", "true", "false",
             "closing", "closed"}
Causes == {"no", "startup", "reconnect", "foreign", "exit"}

Queued == {r \in Records : call[r] \in {"disk", "memory"}}
WorkerAlive == pc \in WorkerPcs

TypeOK ==
    /\ QueueTypeOK
    /\ pc \in BootPcs \cup WorkerPcs \cup EndPcs
    /\ remote \in BOOLEAN /\ closed \in BOOLEAN /\ stop \in BOOLEAN
    /\ sender \in Senders \cup {NoSender}
    /\ item \in Items \cup {NoItem}
    /\ pc \in HoldsItem => item \in Items
    /\ failures \in 0 .. RetryAttempts + 1
    /\ call \in [Records -> CallPcs]
    /\ tag \in [Records -> Senders \cup {NoSender}]
    /\ fl \in [Flushers -> FlushPcs]
    /\ run \in 1 .. MaxRuns
    /\ ticket \in [Records -> Nat]
    /\ born \in [Records -> 0 .. MaxRuns]
    /\ received \subseteq Records
    /\ lost \in [Records -> Causes]
    /\ owed \in [Flushers -> SUBSET Records]
    /\ late \in BOOLEAN

Init ==
    /\ QueueInit
    /\ pc = "prepare"
    /\ remote = TRUE /\ closed = FALSE /\ stop = FALSE
    /\ sender = NoSender
    /\ item = NoItem
    /\ failures = 0
    /\ call = [r \in Records |-> "new"]
    /\ tag = [r \in Records |-> NoSender]
    /\ fl = [f \in Flushers |-> "idle"]
    /\ run = 1
    /\ ticket = [r \in Records |-> 0]
    /\ born = [r \in Records |-> 0]
    /\ received = {}
    /\ lost = [r \in Records |-> "no"]
    /\ owed = [f \in Flushers |-> {}]
    /\ late = FALSE

-----------------------------------------------------------------------------
(* Event.set() on _queue_drained releases every thread in its wait(). *)
Release(state) ==
    [f \in Flushers |-> IF drained' /\ state[f] = "wait" THEN "true" ELSE state[f]]

(* Records that leave the queue in this step without having been received. *)
LoseAs(cause) ==
    lost' = [r \in Records |->
                IF r \in Stored /\ r \notin Stored' /\ r \notin received
                THEN cause ELSE lost[r]]

(* _disable_remote *)
DisableRemote ==
    /\ remote' = FALSE
    /\ stop' = TRUE
    /\ wake' = TRUE

-----------------------------------------------------------------------------
(* The constructor: _prepare_queue_storage, _initialize_blocking,         *)
(* _start_worker.                                                         *)
Prepare ==
    /\ pc = "prepare"
    /\ PrepareQueueStorage
    /\ pc' = "connect"
    /\ fl' = Release(fl)
    /\ UNCHANGED <<remote, closed, stop, sender, item, failures, callVars,
                   historyVars>>

ConnectOk(s) ==
    /\ pc = "connect"
    /\ sender' = s
    /\ pc' = "clear"
    /\ UNCHANGED <<queueVars, remote, closed, stop, item, failures, callVars,
                   fl, historyVars>>

(* A temporary failure: another attempt, or the application is released   *)
(* with no worker and _remote_enabled still set.                          *)
ConnectFails ==
    /\ pc = "connect"
    /\ \/ failures < RetryAttempts /\ failures' = failures + 1 /\ pc' = pc
       \/ failures >= RetryAttempts /\ pc' = "none" /\ UNCHANGED failures
    /\ UNCHANGED <<queueVars, remote, closed, stop, sender, item, callVars, fl,
                   historyVars>>

ConnectRefused ==
    /\ pc = "connect"
    /\ DisableRemote
    /\ pc' = "none"
    /\ UNCHANGED <<disk, nextId, memory, persistent, drained, faults, closed,
                   sender, item, failures, callVars, fl, historyVars>>

(* The end of _initialize_instance, then the worker thread is started. *)
StartupClear ==
    /\ pc = "clear"
    /\ ClearPersistentQueue
    /\ LoseAs("startup")
    /\ failures' = 0
    /\ pc' = "loop"
    /\ fl' = Release(fl)
    /\ UNCHANGED <<remote, closed, stop, sender, item, callVars, run, ticket,
                   born, received, owed, late>>

-----------------------------------------------------------------------------
(* Mutation: the loop looks at _remote_enabled only. *)
LoopIgnoresStop ==
    /\ pc = "loop"
    /\ pc' = IF ~remote THEN "done" ELSE IF sender = NoSender THEN "init" ELSE "peek"
    /\ UNCHANGED <<queueVars, remote, closed, stop, sender, item, failures,
                   callVars, fl, historyVars>>

(* The worker thread: _worker_loop. *)
Loop ==
    /\ pc = "loop"
    /\ pc' = IF stop \/ ~remote THEN "done"
             ELSE IF sender = NoSender THEN "init" ELSE "peek"
    /\ UNCHANGED <<queueVars, remote, closed, stop, sender, item, failures,
                   callVars, fl, historyVars>>

(* _initialize_instance raises RuntimeError once the logger is closed. *)
InitializeInstance ==
    /\ pc = "init"
    /\ pc' = IF closed THEN "backoff" ELSE "reconnect"
    /\ UNCHANGED <<queueVars, remote, closed, stop, sender, item, failures,
                   callVars, fl, historyVars>>

(* Mutation: the instance is forgotten one failure too early. *)
CountFailureEarly ==
    /\ failures' = IF failures > RetryAttempts THEN failures ELSE failures + 1
    /\ sender' = IF failures' >= RetryAttempts THEN NoSender ELSE sender
    /\ pc' = "backoff"

(* One more consecutive failure; beyond retry_attempts the instance is    *)
(* forgotten.  offline_announced is failures > RetryAttempts.             *)
CountFailure ==
    /\ failures' = IF failures > RetryAttempts THEN failures ELSE failures + 1
    /\ sender' = IF failures' > RetryAttempts THEN NoSender ELSE sender
    /\ pc' = "backoff"

ReconnectOk(s) ==
    /\ pc = "reconnect"
    /\ sender' = s
    /\ pc' = "reclear"
    /\ UNCHANGED <<queueVars, remote, closed, stop, item, failures, callVars,
                   fl, historyVars>>

ReconnectFails ==
    /\ pc = "reconnect"
    /\ CountFailure
    /\ UNCHANGED <<queueVars, remote, closed, stop, item, callVars, fl,
                   historyVars>>

ReconnectRefused ==
    /\ pc = "reconnect"
    /\ DisableRemote
    /\ pc' = "done"
    /\ UNCHANGED <<disk, nextId, memory, persistent, drained, faults, closed,
                   sender, item, failures, callVars, fl, historyVars>>

(* The same _initialize_instance clears the table after an outage too. *)
ReconnectClear ==
    /\ pc = "reclear"
    /\ ClearPersistentQueue
    /\ LoseAs("reconnect")
    /\ failures' = 0
    /\ pc' = "peek"
    /\ fl' = Release(fl)
    /\ UNCHANGED <<remote, closed, stop, sender, item, callVars, run, ticket,
                   born, received, owed, late>>

(* The peeked record goes to the API, or is dropped as another sender's.  *)
Peek ==
    /\ pc = "peek"
    /\ \E it \in Peekable :
          /\ PeekDisk(it) \/ PeekMemory(it)
          /\ item' = it
          /\ pc' = IF tag[it.rec] \in {NoSender, sender} THEN "post" ELSE "foreign"
    /\ UNCHANGED <<remote, closed, stop, sender, failures, callVars, fl,
                   historyVars>>

PeekEmpty ==
    /\ pc = "peek"
    /\ PeekNothing
    /\ pc' = "quiet"
    /\ UNCHANGED <<remote, closed, stop, sender, item, failures, callVars, fl,
                   historyVars>>

(* _queue_event.clear() after the empty peek, then wait(timeout=0.5). *)
Quiet ==
    /\ pc = "quiet"
    /\ wake' = FALSE
    /\ pc' = "idle"
    /\ UNCHANGED <<disk, nextId, memory, persistent, drained, faults, remote,
                   closed, stop, sender, item, failures, callVars, fl,
                   historyVars>>

Awake ==
    /\ pc = "idle"
    /\ wake
    /\ pc' = "loop"
    /\ UNCHANGED <<queueVars, remote, closed, stop, sender, item, failures,
                   callVars, fl, historyVars>>

IdleTimeout ==
    /\ pc = "idle"
    /\ pc' = "loop"
    /\ UNCHANGED <<queueVars, remote, closed, stop, sender, item, failures,
                   callVars, fl, historyVars>>

PostOk ==
    /\ pc = "post"
    /\ received' = received \cup {item.rec}
    /\ pc' = "ack"
    /\ UNCHANGED <<queueVars, remote, closed, stop, sender, item, failures,
                   callVars, fl, run, ticket, born, lost, owed, late>>

(* A failed exchange: the API may have received the record all the same.  *)
MaybeReceived ==
    received' \in {received, received \cup {item.rec}}

(* Mutation: a temporary failure goes on to the acknowledgement. *)
PostFailsAcks ==
    /\ pc = "post"
    /\ MaybeReceived
    /\ pc' = "ack"
    /\ UNCHANGED <<queueVars, remote, closed, stop, sender, item, failures,
                   callVars, fl, run, ticket, born, lost, owed, late>>

PostFails ==
    /\ pc = "post"
    /\ MaybeReceived
    /\ CountFailure
    /\ item' = NoItem
    /\ UNCHANGED <<queueVars, remote, closed, stop, callVars, fl, run, ticket,
                   born, lost, owed, late>>

(* A rejected record, or a reply that is not a JSON object. *)
PostRefused ==
    /\ pc = "post"
    /\ MaybeReceived
    /\ DisableRemote
    /\ item' = NoItem
    /\ pc' = "done"
    /\ UNCHANGED <<disk, nextId, memory, persistent, drained, faults, closed,
                   sender, failures, callVars, fl, run, ticket, born, lost, owed, late>>

AckSent ==
    /\ pc = "ack"
    /\ AckPayload(item)
    /\ failures' = 0
    /\ item' = NoItem
    /\ pc' = "loop"
    /\ fl' = Release(fl)
    /\ UNCHANGED <<remote, closed, stop, sender, callVars, historyVars>>

DropForeign ==
    /\ pc = "foreign"
    /\ AckPayload(item)
    /\ LoseAs("foreign")
    /\ item' = NoItem
    /\ pc' = "loop"
    /\ fl' = Release(fl)
    /\ UNCHANGED <<remote, closed, stop, sender, failures, callVars, run,
                   ticket, born, received, owed, late>>

(* The DELETE raises: the worker backs off and will peek the row again. *)
AckRaises ==
    /\ pc \in {"ack", "foreign"}
    /\ AckFails(item)
    /\ item' = NoItem
    /\ pc' = "backoff"
    /\ UNCHANGED <<remote, closed, stop, sender, failures, callVars, fl,
                   historyVars>>

(* _stop.wait(retry_interval) *)
Backoff ==
    /\ pc = "backoff"
    /\ pc' = "loop"
    /\ UNCHANGED <<queueVars, remote, closed, stop, sender, item, failures,
                   callVars, fl, historyVars>>

-----------------------------------------------------------------------------
(* send() in an application thread, once the constructor has returned. *)
SendBegin(r) ==
    /\ pc \notin BootPcs
    /\ call[r] = "new"
    /\ call' = [call EXCEPT ![r] = IF ~remote THEN "local"
                                   ELSE IF sender = NoSender THEN "insert" ELSE "tag"]
    /\ UNCHANGED <<queueVars, threadVars, tag, fl, historyVars>>

(* sender_id is read again for the tag; the worker may have reset it. *)
SendTag(r) ==
    /\ call[r] = "tag"
    /\ tag' = [tag EXCEPT ![r] = sender]
    /\ call' = [call EXCEPT ![r] = "insert"]
    /\ UNCHANGED <<queueVars, threadVars, fl, historyVars>>

SendEnqueue(r) ==
    /\ call[r] = "insert"
    /\ \/ EnqueueOnDisk(r) /\ call' = [call EXCEPT ![r] = "disk"]
       \/ EnqueueInMemory(r) /\ call' = [call EXCEPT ![r] = "memory"]
    /\ ticket' = [ticket EXCEPT ![r] = Cardinality(Queued) + 1]
    /\ born' = [born EXCEPT ![r] = run]
    /\ UNCHANGED <<threadVars, tag, fl, run, received, lost, owed, late>>

-----------------------------------------------------------------------------
(* flush(): the count is taken under the lock, everything after it is not. *)
FlushBegin(f) ==
    /\ pc \notin BootPcs
    /\ fl[f] \in {"idle", "true", "false"}
    /\ \E zero \in BOOLEAN :
          /\ CountPending(zero)
          /\ fl' = [fl EXCEPT ![f] = IF zero THEN "drain" ELSE "check"]
    /\ owed' = [owed EXCEPT ![f] = Stored]
    /\ UNCHANGED <<threadVars, callVars, run, ticket, born, received, lost, late>>

FlushDrain(f) ==
    /\ fl[f] = "drain"
    /\ drained' = TRUE
    /\ fl' = Release([fl EXCEPT ![f] = "true"])
    /\ late' = (late \/ Stored # {})
    /\ UNCHANGED <<disk, nextId, memory, persistent, wake, faults, threadVars,
                   callVars, run, ticket, born, received, lost, owed>>

FlushCheck(f) ==
    /\ fl[f] = "check"
    /\ \/ /\ remote /\ WorkerAlive
          /\ wake' = TRUE
          /\ fl' = [fl EXCEPT ![f] = "enter"]
       \/ /\ ~remote \/ ~WorkerAlive
          /\ fl' = [fl EXCEPT ![f] = "false"]
          /\ UNCHANGED wake
    /\ UNCHANGED <<disk, nextId, memory, persistent, drained, faults,
                   threadVars, callVars, historyVars>>

FlushWait(f) ==
    /\ fl[f] = "enter"
    /\ fl' = [fl EXCEPT ![f] = IF drained THEN "true" ELSE "wait"]
    /\ UNCHANGED <<queueVars, threadVars, callVars, historyVars>>

FlushTimeout(f) ==
    /\ fl[f] = "wait"
    /\ fl' = [fl EXCEPT ![f] = "false"]
    /\ UNCHANGED <<queueVars, threadVars, callVars, historyVars>>

(* close(), after its flush(): _closed first, then _stop and _queue_event. *)
CloseMark ==
    /\ fl[Closer] \in {"true", "false"}
    /\ closed' = TRUE
    /\ fl' = [fl EXCEPT ![Closer] = "closing"]
    /\ UNCHANGED <<queueVars, pc, remote, stop, sender, item, failures,
                   callVars, historyVars>>

CloseStop ==
    /\ fl[Closer] = "closing"
    /\ stop' = TRUE
    /\ wake' = TRUE
    /\ fl' = [fl EXCEPT ![Closer] = "closed"]
    /\ UNCHANGED <<disk, nextId, memory, persistent, drained, faults, pc,
                   remote, closed, sender, item, failures, callVars, historyVars>>

-----------------------------------------------------------------------------
(* The process ends at any point, closed or not, and is started again on  *)
(* the same file.  A send() that had not queued its record dies with it.  *)
Restart ==
    /\ run < MaxRuns
    /\ run' = run + 1
    /\ QueueRestart
    /\ LoseAs("exit")
    /\ pc' = "prepare"
    /\ remote' = TRUE /\ closed' = FALSE /\ stop' = FALSE
    /\ sender' = NoSender
    /\ item' = NoItem
    /\ failures' = 0
    /\ call' = [r \in Records |-> IF r \in Queued THEN call[r] ELSE "new"]
    /\ tag' = [r \in Records |-> IF r \in Queued THEN tag[r] ELSE NoSender]
    /\ fl' = [f \in Flushers |-> "idle"]
    /\ owed' = [f \in Flushers |-> {}]
    /\ late' = FALSE
    /\ UNCHANGED <<ticket, born, received>>

ConnectStep == (\E s \in Senders : ConnectOk(s)) \/ ConnectFails \/ ConnectRefused
ReconnectStep == (\E s \in Senders : ReconnectOk(s)) \/ ReconnectFails \/ ReconnectRefused
PostStep == PostOk \/ PostFails \/ PostRefused
AckStep == AckSent \/ DropForeign \/ AckRaises

BootStep == Prepare \/ ConnectStep \/ StartupClear
WorkerStep ==
    \/ Loop \/ InitializeInstance \/ ReconnectStep \/ ReconnectClear
    \/ Peek \/ PeekEmpty \/ Quiet \/ Awake \/ IdleTimeout
    \/ PostStep \/ AckStep \/ Backoff
SendStep(r) == SendBegin(r) \/ SendTag(r) \/ SendEnqueue(r)
FlushStep(f) ==
    \/ FlushBegin(f) \/ FlushDrain(f) \/ FlushCheck(f)
    \/ FlushWait(f) \/ FlushTimeout(f)
CloseStep == CloseMark \/ CloseStop

Next ==
    \/ BootStep
    \/ WorkerStep
    \/ \E r \in Records : SendStep(r)
    \/ \E f \in Flushers : FlushStep(f)
    \/ CloseStep
    \/ Restart

Spec == Init /\ [][Next]_vars

-----------------------------------------------------------------------------
(* The constructor, the worker and a close() that has begun are threads   *)
(* that are scheduled again (WF); wait(timeout=0.5) and                   *)
(* wait(retry_interval) return by themselves; of the exchanges that are   *)
(* tried again and again one succeeds (SF).                               *)
Fairness ==
    /\ WF_vars(BootStep)
    /\ WF_vars(WorkerStep)
    /\ WF_vars(CloseStep)
    /\ SF_vars(PostOk)
    /\ SF_vars(\E s \in Senders : ReconnectOk(s))

FairSpec == Spec /\ Fairness

-----------------------------------------------------------------------------
(* A record that send() reported as queued is still in a lane, or the API  *)
(* has received it, or the client gave it up in one of the ways the code   *)
(* has for that.  Hazards: the worker acknowledging a record other than    *)
(* the one it sent while threads enqueue, a failed exchange treated as     *)
(* sent, a restart between POST and DELETE.                                *)
NoSilentLoss ==
    \A r \in Queued : r \in Stored \/ r \in received \/ lost[r] # "no"

(* A run sends only what was queued in it, even when its startup clear     *)
(* fails, and the startup clear removes nothing queued by the run that     *)
(* makes it ("Remove all SQLite records when initializing a run",          *)
(* _clear_persistent_queue).                                               *)
RunsAreIsolated ==
    /\ pc = "post" => born[item.rec] = run
    /\ \A r \in Records : lost[r] = "startup" => born[r] < run

(* While SQLite raises nothing, an empty queue always has _queue_drained   *)
(* set, so that no flush() waits out its timeout on an empty queue: every  *)
(* step that can empty the queue (ack, clear, drop, prepare) sets it.      *)
DrainedWhenEmpty ==
    (faults = 0 /\ pc # "prepare" /\ QueueEmpty) => drained

(* The worker has an instance unless more than retry_attempts exchanges in *)
(* a row have failed: only such an outage makes it open a new session,     *)
(* which discards the table.                                               *)
OutageBeforeReconnect ==
    (pc \in WorkerPcs /\ sender = NoSender) => failures > RetryAttempts

(* A flush() that returns True has seen every record that was pending when *)
(* it was called leave the queue ("Wait for the queue to drain without     *)
(* exceeding the given timeout.", queue_store.py:33), while SQLite raises  *)
(* nothing.                                                                *)
FlushTruth ==
    faults = 0 =>
        \A f \in Flushers : fl[f] = "true" => owed[f] \cap Stored = {}

(* The only way to a flush() that returns True too early, however many run *)
(* at once or one after the other: in the same run of the process some     *)
(* flush() has counted nothing and set _queue_drained, outside the lock,   *)
(* after a send() had cleared it (queue_store.py:34-36).  No enqueue, ack, *)
(* clear or restart leaves the event set on a record.                      *)
FlushTruthUnlessLate == ~late => FlushTruth

(* No record queued during an outage is discarded by the reconnection      *)
(* ("Logs will remain queued and be resent automatically.", core.py:668).  *)
OutageKeepsQueue ==
    \A r \in Records : lost[r] # "reconnect"

(* A session counts once its clear is over, and until the worker forgets   *)
(* it or returns.                                                          *)
SessionOpen == pc \in WorkerPcs \ {"reclear"} /\ sender # NoSender

(* The client keeps what LogDelivery promises. *)
Delivery == INSTANCE LogDelivery WITH
    lane <- [r \in Records |-> IF r \in Queued THEN call[r] ELSE "none"],
    pending <- Stored,
    open <- SessionOpen

(* The client implements LogDelivery: step by step, records are accepted,  *)
(* sent oldest first of their lane, dropped once received, and lost only   *)
(* when a session opens, the process ends or the head is another sender's. *)
ImplementsDelivery == Delivery!Spec

(* A record in the queue of a running worker is eventually received or     *)
(* given up, unless the client is stopped or the table was given up after  *)
(* the record was stored there.  Hazard: _queue_event.clear() after an     *)
(* empty peek loses the wake-up of a record queued in between.             *)
EventuallySent ==
    \A r \in Records :
        (r \in Stored /\ WorkerAlive)
            ~> \/ r \in received \/ lost[r] # "no" \/ stop
               \/ call[r] = "disk" /\ ~persistent

(* close() and a permanent failure end the worker, whatever it is doing.   *)
StopEndsWorker == stop ~> pc \in EndPcs

=============================================================================
