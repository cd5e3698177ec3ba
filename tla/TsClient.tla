------------------------------- MODULE TsClient -------------------------------
(***************************************************************************)
(* The TypeScript client and its queue: one thread, whose steps are the    *)
(* stretches between two awaits.  The constructor and initialize(), the    *)
(* worker loop, enqueue(), flush(), close() of the one logger of the       *)
(* process, SQLite failing at any access, and the end of the process.      *)
(*                                                                         *)
(* Not modelled: a client without an address, the health request, rows     *)
(* that do not decode, and a second instrument() after close().            *)
(***************************************************************************)
EXTENDS Naturals, FiniteSets

CONSTANTS
  Records,        \* the records the application logs
  Callers,        \* callers of flush()
  Closer,         \* the one of them that goes on to close()
  Senders,        \* sender ids the API may answer with
  NoSender, NoItem,
  RetryAttempts,  \* config.retryAttempts
  MaxFaults,      \* bound: SQLite operations that fail
  MaxRuns         \* bound: runs of the program on the same queue file

ASSUME ClientAssumption ==
  /\ IsFiniteSet(Records) /\ Closer \in Callers /\ NoSender \notin Senders
  /\ RetryAttempts \in Nat /\ MaxFaults \in Nat /\ MaxRuns \in Nat \ {0}

VARIABLES
  disk, memory,                          \* the table and the array of QueueStore
  database,                              \* whether QueueStore has a database
  faults,
  pc,                                    \* where initialize() or the worker awaits
  worker,                                \* whether there is one
  senderId, failures, item,
  remoteEnabled, closed,
  caller,                                \* the flush() calls
  run,
  lane, ticket, tag, born, received      \* history of each record

storeVars == <<disk, memory, database, faults>>
workerVars == <<pc, worker, senderId, failures, item>>
stateVars == <<remoteEnabled, closed>>
recordVars == <<lane, ticket, tag, born>>
historyVars == <<run, recordVars, received>>
vars == <<storeVars, workerVars, stateVars, caller, historyVars>>

Enabled == remoteEnabled /\ ~closed
Stored == disk \cup memory
Waits == {"idle", "retry"}
Oldest(S) == {r \in S : \A other \in S : ticket[r] <= ticket[other]}

Init ==
  /\ disk = {} /\ memory = {} /\ database = FALSE /\ faults = 0
  /\ pc = "prepare" /\ worker = FALSE
  /\ senderId = NoSender /\ failures = 0 /\ item = NoItem
  /\ remoteEnabled = TRUE /\ closed = FALSE
  /\ caller = [c \in Callers |-> "idle"]
  /\ run = 1
  /\ lane = [r \in Records |-> "none"]
  /\ ticket = [r \in Records |-> 0]
  /\ tag = [r \in Records |-> NoSender]
  /\ born = [r \in Records |-> 0]
  /\ received = {}

(* An access to the database that works, or one that throws.               *)
NoFault == UNCHANGED faults
Fault == faults < MaxFaults /\ faults' = faults + 1

-----------------------------------------------------------------------------
(* QueueStore.                                                             *)

(* Mutation: a record that was inserted is kept in memory as well.         *)
InsertTwice(r) ==
  \/ /\ database /\ NoFault
     /\ disk' = disk \cup {r} /\ memory' = memory \cup {r}
     /\ lane' = [lane EXCEPT ![r] = "disk"]
  \/ /\ IF database THEN Fault ELSE NoFault
     /\ memory' = memory \cup {r} /\ UNCHANGED disk
     /\ lane' = [lane EXCEPT ![r] = "memory"]

(* enqueue(): the table or, without a database or after a failed INSERT,   *)
(* the array.                                                              *)
Insert(r) ==
  \/ /\ database /\ NoFault
     /\ disk' = disk \cup {r} /\ UNCHANGED memory
     /\ lane' = [lane EXCEPT ![r] = "disk"]
  \/ /\ IF database THEN Fault ELSE NoFault
     /\ memory' = memory \cup {r} /\ UNCHANGED disk
     /\ lane' = [lane EXCEPT ![r] = "memory"]

(* What peek() may return: the first row, or the first of memory when      *)
(* there is no row, no database or the SELECT throws.                      *)
PeekDisk == database /\ NoFault /\ item' \in [record : Oldest(disk), lane : {"disk"}]
PeekMemory ==
  /\ \/ NoFault /\ (~database \/ disk = {})
     \/ database /\ Fault
  /\ item' \in [record : Oldest(memory), lane : {"memory"}]
PeekNothing ==
  /\ \/ NoFault /\ (~database \/ disk = {})
     \/ database /\ Fault
  /\ memory = {}
  /\ item' = NoItem

(* Mutation: the DELETE takes every row.                                   *)
AcknowledgeAll(i) ==
  IF i.lane = "memory" THEN memory' = memory \ {i.record} /\ UNCHANGED disk
  ELSE disk' = (IF database THEN {} ELSE disk) /\ UNCHANGED memory

(* acknowledge(): a row leaves the table, if there still is a database.    *)
Acknowledge(i) ==
  IF i.lane = "memory" THEN memory' = memory \ {i.record} /\ UNCHANGED disk
  ELSE disk' = (IF database THEN disk \ {i.record} ELSE disk) /\ UNCHANGED memory

(* Mutation: a clear that throws keeps the database in use.                *)
ClearKeepsDatabase ==
  \/ database /\ NoFault /\ disk' = {} /\ UNCHANGED <<memory, database>>
  \/ database /\ Fault /\ UNCHANGED <<disk, memory, database>>
  \/ ~database /\ NoFault /\ UNCHANGED <<disk, memory, database>>

(* clearPersistent(): a throw gives the database up for the run.           *)
ClearPersistent ==
  \/ database /\ NoFault /\ disk' = {} /\ UNCHANGED <<memory, database>>
  \/ database /\ Fault /\ database' = FALSE /\ UNCHANGED <<disk, memory>>
  \/ ~database /\ NoFault /\ UNCHANGED <<disk, memory, database>>

(* The values pendingCount() may return.                                   *)
Counts(n) ==
  \/ NoFault /\ n = Cardinality(IF database THEN Stored ELSE memory)
  \/ database /\ Fault /\ n = Cardinality(memory)

-----------------------------------------------------------------------------
(* initialize().                                                           *)

Prepare ==
  /\ pc = "prepare"
  /\ \/ database' = TRUE /\ NoFault
     \/ database' = FALSE /\ Fault
  /\ pc' = "connect"
  /\ UNCHANGED <<disk, memory, worker, senderId, failures, item, stateVars, caller,
                 historyVars>>

(* initializeInstance() is answered: the session, and the table cleared.   *)
OpenSession(s) == senderId' = s /\ ClearPersistent

ConnectOk(s) ==
  /\ pc = "connect"
  /\ OpenSession(s)
  /\ worker' = TRUE
  /\ failures' = 0
  /\ pc' = "loop"
  /\ UNCHANGED <<item, stateVars, caller, historyVars>>

ConnectFails ==
  /\ pc = "connect"
  /\ IF failures < RetryAttempts
     THEN failures' = failures + 1 /\ UNCHANGED pc
     ELSE pc' = "ended" /\ UNCHANGED failures
  /\ UNCHANGED <<storeVars, worker, senderId, item, stateVars, caller, historyVars>>

Refused ==
  /\ pc \in {"connect", "session", "post", "answer"}
  /\ remoteEnabled' = FALSE
  /\ pc' = "ended"
  /\ item' = NoItem
  /\ UNCHANGED <<storeVars, worker, senderId, failures, closed, caller, historyVars>>

-----------------------------------------------------------------------------
(* workerLoop().                                                           *)

(* Mutation: the loop does not look whether the client is closed.          *)
LoopIgnoresClose ==
  /\ pc = "loop"
  /\ IF ~remoteEnabled THEN pc' = "ended" ELSE pc' = "session" /\ senderId = NoSender
  /\ UNCHANGED <<storeVars, worker, senderId, failures, item, stateVars, caller,
                 historyVars>>

(* The top of the loop: the client stops, or asks for a session.           *)
Loop ==
  /\ pc = "loop"
  /\ IF ~Enabled THEN pc' = "ended" ELSE pc' = "session" /\ senderId = NoSender
  /\ UNCHANGED <<storeVars, worker, senderId, failures, item, stateVars, caller,
                 historyVars>>

(* The answer to the session request goes on with the iteration, closed or *)
(* not.                                                                    *)
SessionOk(s) ==
  /\ pc = "session"
  /\ OpenSession(s)
  /\ failures' = 0
  /\ pc' = "peek"
  /\ UNCHANGED <<worker, item, stateVars, caller, historyVars>>

Peeking == pc = "peek" \/ (pc = "loop" /\ Enabled /\ senderId # NoSender)

Foreign(r) == tag[r] \notin {NoSender, senderId}

Post ==
  /\ Peeking
  /\ PeekDisk \/ PeekMemory
  /\ ~Foreign(item'.record)
  /\ pc' = "post"
  /\ UNCHANGED <<disk, memory, database, worker, senderId, failures, stateVars, caller,
                 run, recordVars, received>>

(* A record of another sender is acknowledged unsent.  In memory only: the *)
(* table holds rows of the session alone, every session begins by clearing *)
(* it (another process on the same file is PySharedQueue's matter).        *)
DropForeign ==
  /\ Peeking
  /\ \/ NoFault /\ (~database \/ disk = {})
     \/ database /\ Fault
  /\ \E r \in Oldest(memory) :
       Foreign(r) /\ Acknowledge([record |-> r, lane |-> "memory"])
  /\ pc' = "loop"
  /\ UNCHANGED <<database, worker, senderId, failures, item, stateVars, caller, historyVars>>

(* An empty peek and the wait are one stretch: no wake-up falls between.   *)
Rest ==
  /\ Peeking
  /\ PeekNothing
  /\ pc' = "idle"
  /\ UNCHANGED <<disk, memory, database, worker, senderId, failures, stateVars, caller,
                 historyVars>>

(* The record reaches the API; the answer is on its way.                   *)
Received ==
  /\ pc = "post"
  /\ received' = received \cup {item.record}
  /\ pc' = "answer"
  /\ UNCHANGED <<storeVars, worker, senderId, failures, item, stateVars, caller, run, recordVars>>

AckSent ==
  /\ pc = "answer"
  /\ NoFault
  /\ Acknowledge(item)
  /\ item' = NoItem
  /\ failures' = 0
  /\ pc' = "loop"
  /\ UNCHANGED <<database, worker, senderId, stateVars, caller, historyVars>>

AckThrows ==
  /\ pc = "answer"
  /\ item.lane = "disk" /\ database
  /\ Fault
  /\ item' = NoItem
  /\ pc' = "retry"
  /\ UNCHANGED <<disk, memory, database, worker, senderId, failures, stateVars, caller,
                 historyVars>>

(* Mutation: an outage ends the worker, as it ends initialize().           *)
RequestFailsForGood ==
  /\ pc \in {"session", "post", "answer"}
  /\ failures' = failures + 1
  /\ item' = NoItem
  /\ pc' = IF failures < RetryAttempts THEN "retry" ELSE "ended"
  /\ UNCHANGED <<storeVars, worker, senderId, stateVars, caller, historyVars>>

(* A temporary failure; too many in a row give the session up.             *)
RequestFails ==
  /\ pc \in {"session", "post", "answer"}
  /\ IF failures < RetryAttempts
     THEN failures' = failures + 1 /\ UNCHANGED senderId
     ELSE failures' = RetryAttempts + 1 /\ senderId' = NoSender
  /\ item' = NoItem
  /\ pc' = "retry"
  /\ UNCHANGED <<storeVars, worker, stateVars, caller, historyVars>>

WaitOver ==
  /\ pc \in Waits
  /\ pc' = "loop"
  /\ UNCHANGED <<storeVars, worker, senderId, failures, item, stateVars, caller,
                 historyVars>>

(* wakeWorker(): any wait ends, that before a retry as well.               *)
Wake == pc' = IF pc \in Waits THEN "loop" ELSE pc

-----------------------------------------------------------------------------
(* enqueue(), flush() and close(), once the logger has been returned.      *)

Returned == pc \notin {"prepare", "connect"}

(* Mutation: the worker is not woken.                                      *)
EnqueueSilently(r) ==
  /\ Returned /\ Enabled /\ lane[r] = "none"
  /\ tag' = [tag EXCEPT ![r] = senderId]
  /\ born' = [born EXCEPT ![r] = run]
  /\ ticket' = [ticket EXCEPT ![r] = Cardinality({o \in Records : lane[o] # "none"}) + 1]
  /\ Insert(r)
  /\ UNCHANGED <<database, workerVars, stateVars, caller, run, received>>

Enqueue(r) ==
  /\ Returned /\ Enabled /\ lane[r] = "none"
  /\ tag' = [tag EXCEPT ![r] = senderId]
  /\ born' = [born EXCEPT ![r] = run]
  /\ ticket' = [ticket EXCEPT ![r] = Cardinality({o \in Records : lane[o] # "none"}) + 1]
  /\ Insert(r)
  /\ Wake
  /\ UNCHANGED <<database, worker, senderId, failures, item, stateVars, caller, run,
                 received>>

Answer(c, value) == caller' = [caller EXCEPT ![c] = value]

FlushBegin(c) ==
  /\ Returned /\ caller[c] = "idle"
  /\ \E n \in 0 .. Cardinality(Records) :
       /\ Counts(n)
       /\ IF n = 0 THEN Answer(c, "true") /\ UNCHANGED pc
          ELSE IF Enabled /\ worker THEN Answer(c, "poll") /\ Wake
          ELSE Answer(c, "false") /\ UNCHANGED pc
  /\ UNCHANGED <<disk, memory, database, worker, senderId, failures, item, stateVars,
                 historyVars>>

(* A look at the count, every 25 ms: empty, not yet, or out of time.       *)
FlushPoll(c) ==
  /\ caller[c] = "poll"
  /\ \E n \in 0 .. Cardinality(Records) :
       /\ Counts(n)
       /\ IF n = 0 THEN Answer(c, "true")
          ELSE Answer(c, "false") \/ UNCHANGED caller
  /\ UNCHANGED <<disk, memory, database, workerVars, stateVars, historyVars>>

CloseMark ==
  /\ caller[Closer] \in {"true", "false"}
  /\ ~closed
  /\ closed' = TRUE
  /\ Wake
  /\ UNCHANGED <<storeVars, worker, senderId, failures, item, remoteEnabled, caller,
                 historyVars>>

(* The worker has ended, or two seconds have passed.                       *)
CloseQueue ==
  /\ closed
  /\ caller[Closer] \in {"true", "false"}
  /\ Answer(Closer, "closed")
  /\ database' = FALSE
  /\ UNCHANGED <<disk, memory, faults, workerVars, stateVars, historyVars>>

-----------------------------------------------------------------------------
(* The process ends at any point and is started again on the same file.    *)
Restart ==
  /\ run < MaxRuns
  /\ run' = run + 1
  /\ memory' = {} /\ database' = FALSE
  /\ pc' = "prepare" /\ worker' = FALSE
  /\ senderId' = NoSender /\ failures' = 0 /\ item' = NoItem
  /\ remoteEnabled' = TRUE /\ closed' = FALSE
  /\ caller' = [c \in Callers |-> "idle"]
  /\ UNCHANGED <<disk, faults, recordVars, received>>

WorkerStep ==
  \/ Loop \/ (\E s \in Senders : SessionOk(s)) \/ Post \/ DropForeign \/ Rest
  \/ Received \/ AckSent \/ AckThrows \/ RequestFails \/ Refused

Next ==
  \/ Prepare
  \/ \E s \in Senders : ConnectOk(s)
  \/ ConnectFails
  \/ WorkerStep
  \/ WaitOver
  \/ \E r \in Records : Enqueue(r)
  \/ \E c \in Callers : FlushBegin(c) \/ FlushPoll(c)
  \/ CloseMark
  \/ CloseQueue
  \/ Restart

Spec == Init /\ [][Next]_vars

(* The event loop runs what is ready and requests are answered or time     *)
(* out; timers fire; of the requests that are tried again and again one    *)
(* succeeds.                                                               *)
FairSpec ==
  /\ Spec
  /\ WF_vars(WorkerStep)
  /\ WF_vars(WaitOver)
  /\ SF_vars(Received)
  /\ SF_vars(AckSent)
  /\ SF_vars(\E s \in Senders : SessionOk(s))

-----------------------------------------------------------------------------
(* Properties.                                                             *)

(* Type correctness; a record is in at most one lane, the one it was put   *)
(* in, and the entry on its way to the API names that lane.                *)
TypeOK ==
  /\ disk \subseteq {r \in Records : lane[r] = "disk"}
  /\ memory \subseteq {r \in Records : lane[r] = "memory"}
  /\ database \in BOOLEAN /\ worker \in BOOLEAN /\ faults \in 0 .. MaxFaults
  /\ senderId \in Senders \cup {NoSender} /\ failures \in 0 .. RetryAttempts + 1
  /\ pc \in {"prepare", "connect", "loop", "session", "peek", "post", "answer",
            "idle", "retry", "ended"}
  /\ IF pc \in {"post", "answer"}
     THEN /\ item \in [record : Records, lane : {"disk", "memory"}]
          /\ item.lane = lane[item.record]
     ELSE item = NoItem
  /\ remoteEnabled \in BOOLEAN /\ closed \in BOOLEAN
  /\ caller \in [Callers -> {"idle", "poll", "true", "false", "closed"}]
  /\ run \in 1 .. MaxRuns
  /\ lane \in [Records -> {"none", "disk", "memory"}]
  /\ ticket \in [Records -> Nat] /\ born \in [Records -> 0 .. MaxRuns]
  /\ tag \in [Records -> Senders \cup {NoSender}] /\ received \subseteq Records

(* A worker that waits idle has nothing to send, as long as SQLite works:  *)
(* no record waits for the 0.5 s timer (client.ts:98, 187).               *)
NoLostWakeUp ==
  (pc = "idle" /\ faults = 0) => memory = {} /\ (database => disk = {})

(* A run sends only what was queued in it, even when its startup clear     *)
(* throws and leaves the rows of an earlier run in the file.               *)
RunsAreIsolated == pc \in {"post", "answer"} => born[item.record] = run

(* The client keeps what LogDelivery promises, with close() taking the     *)
(* database away under a request whose answer then acknowledges a row.     *)
Delivery == INSTANCE LogDelivery WITH
  pending <- Stored,
  open <- senderId # NoSender

ImplementsDelivery == Delivery!Spec

(* Every record a running worker holds is sent or given up, through any    *)
(* outage, until close(), a refusal or the end of the process.             *)
EventuallySent ==
  \A r \in Records :
    (r \in Stored /\ worker)
      ~> (r \in received \/ r \notin Stored \/ ~Enabled \/ ~worker \/ faults > 0)

(* close() ends the worker wherever it awaits.                             *)
CloseEndsWorker == closed ~> pc \in {"ended", "prepare"}

=============================================================================
