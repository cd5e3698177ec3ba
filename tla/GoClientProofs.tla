---------------------------- MODULE GoClientProofs ----------------------------
(***************************************************************************)
(* Theorems about GoClient, for every finite set of records, every set of  *)
(* sender ids and callers, and every bound: its types, that no wake-up is  *)
(* lost, that runs are isolated, that Shutdown releases what it promises,  *)
(* and that the client implements LogDelivery.                             *)
(***************************************************************************)
EXTENDS GoClient, FiniteSetTheorems, TLAPS

Holds == {"send", "drop"}
Ended == {"closing", "dbclose", "finishing", "over", "none"}
OnceBody == {"stop", "stopAll", "closeAll", "dbclose", "finish"}

(* The goroutines of one process: whether the worker runs, who can be      *)
(* where before it does, and what is left once queueDB has been closed.    *)
ThreadInv ==
    /\ workerRunning <=> pc \in LoopPcs \cup {"stopping"}
    /\ pc \in BootPcs =>
          /\ \A f \in Callers : caller[f] = "idle"
          /\ \A r \in Records : call[r] \in {"new", "returned"}
    /\ \A f \in Callers :
          caller[f] \in {"stopAll", "closeAll", "dbclose", "finish"} => pc \in Ended
    /\ \A f \in Callers : caller[f] \in {"dbclose", "finish"} => ~queueDB
    /\ \A f \in Callers : caller[f] = "released" => workerDone
    /\ workerDone => pc \in Ended /\ ~queueDB
    /\ pc \in {"dbclose", "finishing", "over"} => ~queueDB

(* Who closes SQLite: whoever has taken queueDB, the worker or the one     *)
(* caller that is in the body of once.Do.                                  *)
CloseInv ==
    /\ queueDB => sqlite
    /\ sqlite => queueDB \/ pc = "dbclose" \/ \E f \in Callers : caller[f] = "dbclose"
    /\ \A f \in Callers : caller[f] \in OnceBody => once = "busy"
    /\ \A f, g \in Callers :
          caller[f] \in OnceBody /\ caller[g] \in OnceBody => f = g
    /\ \A f \in Callers : caller[f] \in {"await", "released"} => once = "over"

(* Where the worker has a session, and where it has none. *)
SessionInv ==
    /\ pc \in {"clear", "reclear", "next", "idle"} \cup Holds => sender # NoSender
    /\ pc = "init" => sender = NoSender

(* A worker has the table until SQLite fails. *)
TableInv ==
    (faults = 0 /\ pc \in {"connect", "clear"} \cup LoopPcs) => TableInUse

(* Each record is in the lane it was put in, once it was put in one. *)
LaneInv ==
    /\ \A row \in disk : lane[row.rec] = "disk"
    /\ \A r \in InMemory : lane[r] = "memory"
    /\ \A r \in Records : call[r] \in {"new", "enqueue"} => lane[r] = "none"
    /\ \A r \in Records : lane[r] = "none" => lost[r] = "no"

(* Both lanes are in the order of the tickets, and the next ticket is      *)
(* above all of them.                                                      *)
OrderInv ==
    /\ \A r \in Queued : ticket[r] <= Cardinality(Queued)
    /\ \A row \in disk : row.id < nextId
    /\ \A a, b \in disk : a.id = b.id => a = b
    /\ \A a, b \in disk : a.id < b.id => ticket[a.rec] < ticket[b.rec]
    /\ \A i, j \in 1 .. Len(memory) :
          i < j => ticket[memory[i]] < ticket[memory[j]]

(* Where a record of an earlier run can be: in the table, before the run   *)
(* has cleared it, or when the run no longer uses it.                      *)
BornInv ==
    /\ \A r \in Records : born[r] <= run
    /\ \A r \in InMemory : born[r] = run
    /\ pc \in BootPcs => memory = <<>> /\ \A row \in disk : born[row.rec] < run
    /\ pc \in LoopPcs /\ TableInUse => \A row \in disk : born[row.rec] = run
    /\ \A r \in Records : lost[r] = "startup" => born[r] < run

(* The record the worker sends is the first of its lane until it is        *)
(* dropped: others are only put behind it, and only the worker removes.    *)
First(it) ==
    \/ /\ it.persisted /\ queueDB
       /\ [id |-> it.id, rec |-> it.rec] \in disk
       /\ \A row \in disk : it.id <= row.id
    \/ /\ ~it.persisted
       /\ memory # <<>> /\ memory[1] = it.rec

HeldInv ==
    pc \in Holds =>
        /\ First(item)
        /\ born[item.rec] = run
        /\ pc = "drop" => item.rec \in received

GoInv ==
    /\ TypeOK /\ ThreadInv /\ CloseInv /\ SessionInv /\ TableInv /\ LaneInv /\ OrderInv
    /\ BornInv /\ HeldInv /\ NoLostWakeUp

-----------------------------------------------------------------------------
(* Types. *)

LEMMA QueuedIsCounted ==
    ASSUME ClientAssumption
    PROVE  IsFiniteSet(Queued) /\ Cardinality(Queued) \in Nat
<1>1. Queued \subseteq Records /\ IsFiniteSet(Records)
  BY DEF Queued, ClientAssumption
<1> QED
  BY <1>1, FS_Subset, FS_CardinalityType

LEMMA FaultCount ==
    ASSUME QueueAssumption, QueueTypeOK, Fault \/ NoFault
    PROVE  faults' \in 0 .. MaxFaults
BY DEF QueueAssumption, QueueTypeOK, Fault, NoFault

(* What the operations of the queue change: PrepareQueue, the clear and    *)
(* DELETE of rows, the accesses that only read, the channel, closeQueue.   *)
LEMMA QueueStepTyped ==
    ASSUME QueueAssumption, QueueTypeOK, NEW it, NEW zero \in BOOLEAN,
           \/ PrepareQueue \/ ClearPersistentQueue \/ NextNothing \/ Drop(it)
           \/ CountPending(zero) \/ Signal \/ TakeQueueDB \/ CloseDB \/ UNCHANGED queueVars
    PROVE  QueueTypeOK' /\ nextId' = nextId /\ disk' \subseteq disk
<1> USE DEF QueueTypeOK
<1>1. faults' \in 0 .. MaxFaults
  <2>1. CASE PrepareQueue \/ ClearPersistentQueue \/ NextNothing \/ Drop(it)
             \/ CountPending(zero)
    <3>1. Fault \/ NoFault
      BY <2>1 DEF PrepareQueue, ClearPersistentQueue, NextNothing, Drop, CountPending
    <3> QED
      BY <3>1, FaultCount
  <2>2. CASE Signal \/ TakeQueueDB \/ CloseDB \/ UNCHANGED queueVars
    BY <2>2 DEF Signal, TakeQueueDB, CloseDB, queueVars
  <2> QED
    BY <2>1, <2>2
<1>2. CASE PrepareQueue \/ NextNothing \/ CountPending(zero)
  BY <1>1, <1>2 DEF PrepareQueue, NextNothing, CountPending
<1>3. CASE ClearPersistentQueue
  BY <1>1, <1>3 DEF ClearPersistentQueue
<1>4. CASE Drop(it)
  <2>1. memory' \in Seq(Records) /\ disk' \subseteq disk
    BY <1>4 DEF Drop
  <2>2. UNCHANGED <<nextId, persistent, queueDB, sqlite, wake>>
    BY <1>4 DEF Drop
  <2> QED
    BY <1>1, <2>1, <2>2
<1>5. CASE Signal \/ TakeQueueDB \/ CloseDB \/ UNCHANGED queueVars
  BY <1>1, <1>5 DEF Signal, TakeQueueDB, CloseDB, queueVars
<1> QED
  BY <1>2, <1>3, <1>4, <1>5

LEMMA PutTyped ==
    ASSUME QueueAssumption, QueueTypeOK, NEW r \in Records,
           InsertRow(r) \/ KeepInMemory(r)
    PROVE  QueueTypeOK'
<1>1. faults' \in 0 .. MaxFaults
  BY FaultCount DEF InsertRow, KeepInMemory
<1>2. CASE InsertRow(r)
  <2>1. disk' \subseteq Rows /\ nextId' \in Nat
    BY <1>2 DEF InsertRow, QueueTypeOK, Rows
  <2> QED
    BY <1>1, <1>2, <2>1 DEF InsertRow, QueueTypeOK
<1>3. CASE KeepInMemory(r)
  <2>1. memory' \in Seq(Records)
    BY <1>3 DEF KeepInMemory, QueueTypeOK
  <2> QED
    BY <1>1, <1>3, <2>1 DEF KeepInMemory, QueueTypeOK
<1> QED
  BY <1>2, <1>3

(* What the queue holds is records, and what next may return is an item.   *)
LEMMA StoredTyped ==
    ASSUME QueueTypeOK
    PROVE  /\ Stored \subseteq Records
           /\ \A row \in disk : row.rec \in Records /\ row.id \in Nat
           /\ InMemory \subseteq Records
           /\ Peekable \subseteq Items
<1>1. \A row \in disk : row.rec \in Records /\ row.id \in Nat
  BY DEF QueueTypeOK, Rows
<1>2. InMemory \subseteq Records
  <2>1. \A i \in 1 .. Len(memory) : memory[i] \in Records
    BY DEF QueueTypeOK
  <2> QED
    BY <2>1 DEF InMemory
<1>3. ASSUME NEW row \in disk
      PROVE  [persisted |-> TRUE, id |-> row.id, rec |-> row.rec] \in Items
  BY <1>1, <1>3 DEF Items
<1>4. ASSUME NEW r \in InMemory
      PROVE  [persisted |-> FALSE, id |-> 0, rec |-> r] \in Items
  BY <1>2, <1>4 DEF Items
<1> QED
  BY <1>1, <1>2, <1>3, <1>4 DEF Stored, OnDisk, Peekable

(* Giving records up keeps the causes. *)
LEMMA LoseTyped ==
    ASSUME TypeOK, NEW cause \in Causes, LoseAs(cause)
    PROVE  lost' \in [Records -> Causes]
BY DEF TypeOK, LoseAs

LEMMA CountFailureTyped ==
    ASSUME ClientAssumption, TypeOK, CountFailure
    PROVE  /\ failures' \in 0 .. RetryAttempts + 1
           /\ sender' \in Senders \cup {NoSender}
           /\ pc' = "backoff"
BY DEF ClientAssumption, TypeOK, CountFailure

LEMMA BootTyped ==
    ASSUME ClientAssumption, QueueAssumption, TypeOK, BootStep
    PROVE  TypeOK'
<1> USE DEF TypeOK, BootPcs, LoopPcs, EndPcs, ClientAssumption
<1>1. CASE Prepare
  BY <1>1, QueueStepTyped DEF Prepare, stateVars, callVars, historyVars
<1>2. CASE \E s \in Senders : ConnectOk(s)
  <2>1. QueueTypeOK'
    BY <1>2, QueueStepTyped DEF ConnectOk
  <2> QED
    BY <1>2, <2>1 DEF ConnectOk, Connected, stateVars, callVars, historyVars
<1>3. CASE ConnectFails
  <2>1. QueueTypeOK' /\ failures' \in 0 .. RetryAttempts + 1
    BY <1>3, QueueStepTyped DEF ConnectFails
  <2> QED
    BY <1>3, <2>1 DEF ConnectFails, stateVars, callVars, historyVars
<1>4. CASE ConnectRefused
  <2>1. QueueTypeOK'
    BY <1>4, QueueStepTyped DEF ConnectRefused
  <2> QED
    BY <1>4, <2>1 DEF ConnectRefused, DisableRemote, callVars, historyVars
<1>5. CASE StartupClear
  <2>1. QueueTypeOK' /\ failures' \in 0 .. RetryAttempts + 1
    BY <1>5, QueueStepTyped DEF StartupClear
  <2>2. lost' \in [Records -> Causes]
    BY <1>5, LoseTyped DEF StartupClear, Causes
  <2> QED
    BY <1>5, <2>1, <2>2 DEF StartupClear, stateVars, callVars
<1> QED
  BY <1>1, <1>2, <1>3, <1>4, <1>5 DEF BootStep

LEMMA SessionTyped ==
    ASSUME ClientAssumption, QueueAssumption, TypeOK,
           Loop \/ InitStep \/ HealthTick
    PROVE  TypeOK'
<1> USE DEF TypeOK, BootPcs, LoopPcs, ExitPcs, EndPcs, ClientAssumption
<1>1. CASE Loop \/ HealthTick
  <2>1. QueueTypeOK'
    BY <1>1, QueueStepTyped DEF Loop, HealthTick
  <2> QED
    BY <1>1, <2>1 DEF Loop, HealthTick, stateVars, callVars, historyVars
<1>2. CASE \E s \in Senders : InitOk(s)
  <2>1. QueueTypeOK'
    BY <1>2, QueueStepTyped DEF InitOk
  <2> QED
    BY <1>2, <2>1 DEF InitOk, Connected, stateVars, callVars, historyVars
<1>3. CASE InitFails
  <2>1. QueueTypeOK'
    BY <1>3, QueueStepTyped DEF InitFails
  <2> QED
    BY <1>3, <2>1, CountFailureTyped DEF InitFails, stateVars, callVars, historyVars
<1>4. CASE InitRefused
  <2>1. QueueTypeOK'
    BY <1>4, QueueStepTyped DEF InitRefused
  <2> QED
    BY <1>4, <2>1 DEF InitRefused, DisableRemote, callVars, historyVars
<1>5. CASE InitClear
  <2>1. QueueTypeOK' /\ failures' \in 0 .. RetryAttempts + 1
    BY <1>5, QueueStepTyped DEF InitClear
  <2>2. lost' \in [Records -> Causes]
    BY <1>5, LoseTyped DEF InitClear, Causes
  <2> QED
    BY <1>5, <2>1, <2>2 DEF InitClear, stateVars, callVars
<1> QED
  BY <1>1, <1>2, <1>3, <1>4, <1>5 DEF InitStep

LEMMA SendingTyped ==
    ASSUME ClientAssumption, QueueAssumption, TypeOK,
           \/ TakeNext \/ NextEmpty \/ IdleStep \/ SendStep \/ DropSent \/ Backoff
           \/ ExitStep
    PROVE  TypeOK'
<1> USE DEF TypeOK, BootPcs, LoopPcs, ExitPcs, EndPcs, ClientAssumption
<1>1. CASE TakeNext
  <2>1. QueueTypeOK'
    BY <1>1, QueueStepTyped DEF TakeNext, NextItem
  <2>2. item' \in Items
    BY <1>1, StoredTyped DEF TakeNext
  <2> QED
    BY <1>1, <2>1, <2>2 DEF TakeNext, stateVars, callVars, historyVars
<1>2. CASE NextEmpty
  <2>1. QueueTypeOK'
    BY <1>2, QueueStepTyped DEF NextEmpty
  <2> QED
    BY <1>2, <2>1 DEF NextEmpty, stateVars, callVars, historyVars
<1>3. CASE IdleDone \/ Backoff
  <2>1. QueueTypeOK'
    BY <1>3, QueueStepTyped DEF IdleDone, Backoff
  <2> QED
    BY <1>3, <2>1 DEF IdleDone, Backoff, stateVars, callVars, historyVars
<1>4. CASE IdleWake
  <2>1. QueueTypeOK'
    BY <1>4 DEF IdleWake, QueueTypeOK
  <2> QED
    BY <1>4, <2>1 DEF IdleWake, stateVars, callVars, historyVars
<1>5. CASE SendStep
  <2>1. QueueTypeOK'
    BY <1>5, QueueStepTyped DEF SendStep, SendOk, SendFails, SendRefused
  <2>2. item.rec \in Records
    BY <1>5 DEF SendStep, SendOk, SendFails, SendRefused, Items
  <2>3. received' \subseteq Records
    BY <1>5, <2>2 DEF SendStep, SendOk, SendFails, SendRefused, MaybeReceived
  <2>4. CASE SendOk
    BY <2>1, <2>3, <2>4 DEF SendOk, stateVars, callVars
  <2>5. CASE SendFails
    BY <2>1, <2>3, <2>5, CountFailureTyped DEF SendFails, stateVars, callVars
  <2>6. CASE SendRefused
    BY <2>1, <2>3, <2>6 DEF SendRefused, DisableRemote, callVars
  <2> QED
    BY <1>5, <2>4, <2>5, <2>6 DEF SendStep
<1>6. CASE DropSent
  <2>1. QueueTypeOK' /\ failures' \in 0 .. RetryAttempts + 1
    BY <1>6, QueueStepTyped DEF DropSent
  <2> QED
    BY <1>6, <2>1 DEF DropSent, stateVars, callVars, historyVars
<1>7. CASE ExitStep
  <2>1. QueueTypeOK'
    BY <1>7, QueueStepTyped DEF ExitStep, ExitRunning, ExitTake, ExitClose, ExitDone
  <2> QED
    BY <1>7, <2>1 DEF ExitStep, ExitRunning, ExitTake, ExitClose, ExitDone, stateVars, callVars,
                      historyVars
<1> QED
  BY <1>1, <1>2, <1>3, <1>4, <1>5, <1>6, <1>7 DEF IdleStep

LEMMA LogTyped ==
    ASSUME ClientAssumption, QueueAssumption, TypeOK, NEW r \in Records, LogStep(r)
    PROVE  TypeOK'
<1> USE DEF TypeOK, CallPcs, Outcomes, ClientAssumption
<1>1. CASE LogBegin(r) \/ LogRejected(r) \/ LogSignal(r)
  <2>1. QueueTypeOK'
    BY <1>1, QueueStepTyped DEF LogBegin, LogRejected, LogSignal
  <2>2. call' \in [Records -> CallPcs]
    BY <1>1 DEF LogBegin, LogRejected, LogSignal
  <2> QED
    BY <1>1, <2>1, <2>2 DEF LogBegin, LogRejected, LogSignal, workerVars, stateVars,
                            historyVars
<1>2. CASE LogEnqueue(r)
  <2>1. QueueTypeOK'
    BY <1>2, PutTyped DEF LogEnqueue
  <2>2. ticket' \in [Records -> Nat]
    BY <1>2, QueuedIsCounted DEF LogEnqueue
  <2>3. born' \in [Records -> 0 .. MaxRuns]
    BY <1>2 DEF LogEnqueue
  <2>4. /\ lane' \in [Records -> Outcomes] /\ call' \in [Records -> CallPcs]
        /\ tag' \in [Records -> Senders \cup {NoSender}]
    BY <1>2 DEF LogEnqueue
  <2> QED
    BY <1>2, <2>1, <2>2, <2>3, <2>4 DEF LogEnqueue, workerVars, stateVars
<1>3. CASE LogNowhere(r)
  <2>1. QueueTypeOK'
    BY <1>3, QueueStepTyped DEF LogNowhere, StoreNowhere
  <2> QED
    BY <1>3, <2>1 DEF LogNowhere, workerVars, stateVars, historyVars
<1> QED
  BY <1>1, <1>2, <1>3 DEF LogStep

LEMMA CallersTyped ==
    ASSUME ClientAssumption, QueueAssumption, TypeOK, NEW f \in Callers,
           FlushStep(f) \/ ShutdownStep(f)
    PROVE  TypeOK'
<1> USE DEF TypeOK, CallerPcs
<1>1. QueueTypeOK'
  <2>1. CASE FlushCount(f)
    BY <2>1, QueueStepTyped DEF FlushCount
  <2>2. CASE ~FlushCount(f)
    <3>1. Signal \/ TakeQueueDB \/ CloseDB \/ UNCHANGED queueVars
      BY <2>2 DEF FlushStep, FlushBegin, FlushRunning, FlushLook, FlushSignal, FlushTick,
         FlushExpires, ShutdownStep, ShutdownMark, OnceStep, ShutdownStop,
         ShutdownTake, ShutdownClose, ShutdownFinish, ShutdownLate, ShutdownReturns
    <3> QED
      BY <3>1, QueueStepTyped
  <2> QED
    BY <2>1, <2>2
<1>2. caller' \in [Callers -> CallerPcs]
  <2>1. \E place \in CallerPcs : Goto(f, place)
    <3>1. CASE FlushStep(f)
      BY <3>1 DEF FlushStep, FlushBegin, FlushRunning, FlushLook, FlushCount, FlushSignal,
         FlushTick, FlushExpires
    <3>2. CASE ShutdownStep(f)
      BY <3>2 DEF ShutdownStep, ShutdownMark, OnceStep, ShutdownStop, ShutdownTake,
         ShutdownClose, ShutdownFinish,
         ShutdownLate, ShutdownReturns
    <3> QED
      BY <3>1, <3>2
  <2> QED
    BY <2>1 DEF Goto
<1>3. CASE FlushBegin(f)
  <2>1. owed' \in [Callers -> SUBSET Records]
    BY <1>3, StoredTyped DEF FlushBegin
  <2> QED
    BY <1>1, <1>2, <1>3, <2>1 DEF FlushBegin, workerVars, stateVars, callVars
<1>4. CASE FlushStep(f) /\ ~FlushBegin(f)
  <2>1. UNCHANGED <<workerVars, stateVars, callVars, historyVars>>
    BY <1>4 DEF FlushStep, FlushRunning, FlushLook, FlushCount, FlushSignal, FlushTick,
                FlushExpires
  <2> QED
    BY <1>1, <1>2, <2>1 DEF workerVars, stateVars, callVars, historyVars
<1>5. CASE ShutdownStep(f)
  <2>1. UNCHANGED <<workerVars, remoteEnabled, callVars, historyVars>>
    BY <1>5 DEF ShutdownStep, ShutdownMark, OnceStep, ShutdownStop, ShutdownTake,
         ShutdownClose, ShutdownFinish,
                ShutdownLate, ShutdownReturns, stateVars
  <2>2. /\ closed' \in BOOLEAN /\ done' \in BOOLEAN /\ workerDone' \in BOOLEAN
        /\ once' \in {"free", "busy", "over"}
    BY <1>5 DEF ShutdownStep, ShutdownMark, OnceStep, ShutdownStop, ShutdownTake,
         ShutdownClose, ShutdownFinish,
                ShutdownLate, ShutdownReturns, stateVars
  <2> QED
    BY <1>1, <1>2, <2>1, <2>2 DEF workerVars, callVars, historyVars
<1> QED
  BY <1>3, <1>4, <1>5

LEMMA RestartTyped ==
    ASSUME ClientAssumption, QueueAssumption, TypeOK, Restart
    PROVE  TypeOK'
<1>1. QueueTypeOK'
  <2>1. memory' \in Seq(Records)
    BY DEF Restart, QueueRestart
  <2> QED
    BY <2>1 DEF TypeOK, Restart, QueueRestart, QueueTypeOK
<1>2. lost' \in [Records -> Causes]
  BY LoseTyped DEF Restart, Causes
<1>3. run' \in 1 .. MaxRuns /\ failures' \in 0 .. RetryAttempts + 1
  BY DEF TypeOK, Restart, ClientAssumption
<1>4. /\ call' \in [Records -> CallPcs] /\ caller' \in [Callers -> CallerPcs]
      /\ owed' \in [Callers -> SUBSET Records]
  BY DEF Restart, CallPcs, CallerPcs
<1>5. UNCHANGED <<lane, tag, ticket, born, received>>
  BY DEF Restart
<1>6. /\ pc' \in BootPcs /\ pc' \notin {"send", "drop"}
      /\ sender' \in Senders \cup {NoSender} /\ item' \in Items \cup {NoItem}
      /\ remoteEnabled' \in BOOLEAN /\ closed' \in BOOLEAN
      /\ workerRunning' \in BOOLEAN /\ done' \in BOOLEAN /\ workerDone' \in BOOLEAN
      /\ once' \in {"free", "busy", "over"}
  BY DEF Restart, BootPcs
<1> QED
  BY <1>1, <1>2, <1>3, <1>4, <1>5, <1>6 DEF TypeOK

LEMMA TypeInit ==
    ASSUME ClientAssumption, QueueAssumption, Init
    PROVE  TypeOK
<1>1. QueueTypeOK
  <2>1. memory \in Seq(Records) /\ faults \in 0 .. MaxFaults
    BY DEF Init, QueueInit, QueueAssumption
  <2> QED
    BY <2>1 DEF Init, QueueInit, QueueTypeOK
<1>2. run \in 1 .. MaxRuns /\ failures \in 0 .. RetryAttempts + 1
      /\ 0 \in 0 .. MaxRuns
  BY DEF Init, ClientAssumption
<1>3. /\ call \in [Records -> CallPcs] /\ lane \in [Records -> Outcomes]
      /\ tag \in [Records -> Senders \cup {NoSender}]
      /\ caller \in [Callers -> CallerPcs]
  BY DEF Init, CallPcs, Outcomes, CallerPcs
<1>4. /\ ticket \in [Records -> Nat] /\ born \in [Records -> 0 .. MaxRuns]
      /\ lost \in [Records -> Causes] /\ owed \in [Callers -> SUBSET Records]
  BY <1>2 DEF Init, Causes
<1>5. /\ pc \in BootPcs /\ pc \notin {"send", "drop"}
      /\ item \in Items \cup {NoItem}
  BY DEF Init, BootPcs
<1> QED
  BY <1>1, <1>2, <1>3, <1>4, <1>5 DEF Init, TypeOK

LEMMA TypeStep ==
    ASSUME ClientAssumption, QueueAssumption, TypeOK, [Next]_vars
    PROVE  TypeOK'
<1>1. CASE UNCHANGED vars
  <2>1. QueueTypeOK'
    BY <1>1, QueueStepTyped DEF TypeOK, vars
  <2> QED
    BY <1>1, <2>1 DEF TypeOK, vars, workerVars, stateVars, callVars, historyVars
<1> QED
  BY <1>1, BootTyped, SessionTyped, SendingTyped, LogTyped, CallersTyped, RestartTyped
     DEF Next, WorkerStep

-----------------------------------------------------------------------------
(* Steps by what they do.                                                  *)

(* The steps of a running worker that goes on, or begins to end. *)
LoopStep ==
    \/ Loop \/ InitStep \/ TakeNext \/ NextEmpty \/ IdleStep \/ SendStep \/ DropSent
    \/ Backoff \/ HealthTick

LEMMA LoopSteps ==
    ASSUME LoopStep
    PROVE  /\ pc \in LoopPcs /\ pc' \in LoopPcs \cup {"stopping"}
           /\ UNCHANGED <<workerRunning, caller, call, lane, workerDone, queueDB, run>>
           /\ UNCHANGED <<sqlite, once>>
<1> USE DEF LoopPcs, queueVars, stateVars, callVars, historyVars
<1>1. CASE Loop \/ HealthTick \/ Backoff \/ IdleStep
  BY <1>1 DEF Loop, HealthTick, Backoff, IdleStep, IdleDone, IdleWake
<1>2. CASE InitStep
  BY <1>2 DEF InitStep, InitOk, InitFails, InitRefused, InitClear, DisableRemote,
              CountFailure, ClearPersistentQueue
<1>3. CASE TakeNext \/ NextEmpty \/ DropSent
  BY <1>3 DEF TakeNext, NextItem, NextEmpty, NextNothing, DropSent, Drop
<1>4. CASE SendStep
  BY <1>4 DEF SendStep, SendOk, SendFails, SendRefused, DisableRemote, CountFailure
<1> QED
  BY <1>1, <1>2, <1>3, <1>4 DEF LoopStep

(* A caller of Flush or Shutdown leaves the worker and the records alone.  *)
LEMMA CallerSteps ==
    ASSUME NEW f \in Callers, FlushStep(f) \/ ShutdownStep(f)
    PROVE  /\ \E place \in CallerPcs : caller' = [caller EXCEPT ![f] = place]
           /\ UNCHANGED <<workerVars, callVars, run, ticket, born, received, lost>>
           /\ UNCHANGED <<disk, nextId, memory, persistent>>
<1>1. CASE FlushStep(f)
  BY <1>1 DEF FlushStep, FlushBegin, FlushRunning, FlushLook, FlushCount, FlushSignal,
     FlushTick, FlushExpires, Goto, CallerPcs, queueVars, historyVars, CountPending, Signal
<1>2. CASE ShutdownStep(f)
  BY <1>2 DEF ShutdownStep, ShutdownMark, OnceStep, ShutdownStop, ShutdownTake,
         ShutdownClose, ShutdownFinish,
     ShutdownLate, ShutdownReturns, Goto, CallerPcs, queueVars, historyVars, Signal,
     TakeQueueDB, CloseDB
<1> QED
  BY <1>1, <1>2

LEMMA StepKinds ==
    ASSUME [Next]_vars
    PROVE  \/ BootStep \/ LoopStep \/ ExitStep \/ Restart \/ UNCHANGED vars
           \/ \E r \in Records : LogStep(r)
           \/ \E f \in Callers : FlushStep(f) \/ ShutdownStep(f)
BY Zenon DEF Next, WorkerStep, LoopStep

-----------------------------------------------------------------------------
(* The goroutines.                                                         *)

LEMMA ThreadCallers ==
    ASSUME TypeOK, ThreadInv, NEW f \in Callers, FlushStep(f) \/ ShutdownStep(f)
    PROVE  ThreadInv'
<1> DEFINE places == {"stopAll", "closeAll", "dbclose", "finish", "released"}
<1>1. /\ \A g \in Callers \ {f} : caller'[g] = caller[g]
      /\ UNCHANGED <<pc, workerRunning, call>>
  BY CallerSteps DEF TypeOK, workerVars, callVars
<1>2. pc \notin BootPcs
  <2>1. FlushBegin(f) \/ caller[f] # "idle"
    BY DEF FlushStep, FlushRunning, FlushLook, FlushCount, FlushSignal, FlushTick,
       FlushExpires, ShutdownStep, ShutdownMark, OnceStep, ShutdownStop, ShutdownTake,
         ShutdownClose, ShutdownFinish,
       ShutdownLate, ShutdownReturns
  <2> QED
    BY <2>1 DEF FlushBegin, ThreadInv
<1>3. CASE FlushStep(f)
  <2>1. caller'[f] \notin places
    BY <1>3 DEF FlushStep, FlushBegin, FlushRunning, FlushLook, FlushCount, FlushSignal,
       FlushTick, FlushExpires, Goto, TypeOK
  <2>2. UNCHANGED <<workerDone, queueDB>>
    BY <1>3 DEF FlushStep, FlushBegin, FlushRunning, FlushLook, FlushCount, FlushSignal,
       FlushTick, FlushExpires, CountPending, Signal, stateVars, queueVars
  <2> QED
    BY <1>1, <1>2, <2>1, <2>2 DEF ThreadInv
<1>4. CASE ShutdownMark(f)
  <2>1. caller'[f] = IF workerRunning THEN "stop" ELSE "stopAll"
    BY <1>4 DEF ShutdownMark, Goto, TypeOK
  <2>2. ~workerRunning => pc \in Ended
    BY <1>2 DEF ThreadInv, TypeOK, Ended, ExitPcs, EndPcs
  <2>3. UNCHANGED <<workerDone, queueDB>>
    BY <1>4 DEF ShutdownMark, queueVars
  <2> QED
    BY <1>1, <1>2, <2>1, <2>2, <2>3 DEF ThreadInv
<1>5. CASE ShutdownStop(f)
  <2>1. caller'[f] = IF caller[f] = "stop" THEN "await" ELSE "closeAll"
    BY <1>5 DEF ShutdownStop, Goto, TypeOK
  <2>2. caller[f] \in {"stop", "stopAll"} /\ UNCHANGED <<workerDone, queueDB>>
    BY <1>5 DEF ShutdownStop, Signal
  <2> QED
    BY <1>1, <1>2, <2>1, <2>2 DEF ThreadInv
<1>6. CASE ShutdownTake(f) \/ ShutdownClose(f)
  <2>1. /\ caller'[f] \in {"dbclose", "finish"} /\ caller[f] \in {"closeAll", "dbclose"}
        /\ ~queueDB' /\ workerDone' = workerDone
    BY <1>6 DEF ShutdownTake, TakeQueueDB, ShutdownClose, CloseDB, Goto, stateVars,
                TypeOK, ThreadInv
  <2> QED
    BY <1>1, <1>2, <2>1 DEF ThreadInv
<1>8. CASE ShutdownFinish(f)
  <2>1. caller'[f] = "await" /\ caller[f] = "finish" /\ workerDone' /\ queueDB' = queueDB
    BY <1>8 DEF ShutdownFinish, Goto, queueVars, TypeOK
  <2> QED
    BY <1>1, <1>2, <2>1 DEF ThreadInv
<1>7. CASE ShutdownLate(f) \/ ShutdownReturns(f)
  <2>1. /\ caller'[f] \in {"await", "released", "expired"}
        /\ caller'[f] = "released" => workerDone
        /\ UNCHANGED <<workerDone, queueDB>>
    BY <1>7 DEF ShutdownLate, ShutdownReturns, Goto, TypeOK, stateVars, queueVars
  <2> QED
    BY <1>1, <1>2, <2>1 DEF ThreadInv
<1> QED
  BY <1>3, <1>4, <1>5, <1>6, <1>7, <1>8 DEF ShutdownStep, OnceStep

LEMMA ThreadKept ==
    ASSUME TypeOK, ThreadInv, [Next]_vars
    PROVE  ThreadInv'
<1>1. CASE BootStep
  <2>1. /\ pc \in BootPcs /\ pc' \in BootPcs \cup {"loop", "none"}
        /\ UNCHANGED <<caller, call, workerDone>>
        /\ workerRunning' = IF pc' = "loop" THEN TRUE ELSE workerRunning
    BY <1>1 DEF BootStep, Prepare, ConnectOk, ConnectFails, ConnectRefused,
       StartupClear, DisableRemote, BootPcs, stateVars, callVars
  <2> QED
    BY <2>1 DEF ThreadInv, BootPcs, LoopPcs, Ended
<1>2. CASE LoopStep
  BY <1>2, LoopSteps DEF ThreadInv, BootPcs, LoopPcs, Ended
<1>3. CASE ExitStep
  <2>1. CASE ExitRunning
    BY <2>1 DEF ExitRunning, ThreadInv, BootPcs, LoopPcs, Ended, stateVars, callVars
  <2>2. CASE ExitTake
    BY <2>2 DEF ExitTake, TakeQueueDB, ThreadInv, BootPcs, LoopPcs, Ended, stateVars,
                callVars
  <2>4. CASE ExitClose
    BY <2>4 DEF ExitClose, CloseDB, ThreadInv, BootPcs, LoopPcs, Ended, stateVars, callVars
  <2>3. CASE ExitDone
    BY <2>3 DEF ExitDone, ThreadInv, BootPcs, LoopPcs, Ended, queueVars, callVars
  <2> QED
    BY <1>3, <2>1, <2>2, <2>3, <2>4 DEF ExitStep
<1>4. ASSUME NEW r \in Records, LogStep(r)
      PROVE  ThreadInv'
  <2>1. pc \notin BootPcs
    BY <1>4 DEF LogStep, LogBegin, LogEnqueue, LogNowhere, LogRejected, LogSignal, ThreadInv
  <2>2. UNCHANGED <<pc, workerRunning, workerDone, caller, queueDB>>
    BY <1>4 DEF LogStep, LogBegin, LogEnqueue, LogNowhere, LogRejected, LogSignal,
       InsertRow, KeepInMemory, StoreNowhere, Signal, queueVars, workerVars, stateVars
  <2> QED
    BY <2>1, <2>2 DEF ThreadInv
<1>5. CASE Restart
  BY <1>5 DEF Restart, QueueRestart, ThreadInv, BootPcs, LoopPcs, Ended
<1>6. CASE UNCHANGED vars
  BY <1>6 DEF vars, queueVars, workerVars, stateVars, callVars, ThreadInv
<1> QED
  BY <1>1, <1>2, <1>3, <1>4, <1>5, <1>6, ThreadCallers, StepKinds

LEMMA CloseCallers ==
    ASSUME TypeOK, ThreadInv, CloseInv, NEW f \in Callers, FlushStep(f) \/ ShutdownStep(f)
    PROVE  CloseInv'
<1> USE DEF CloseInv, OnceBody
<1>1. /\ \A g \in Callers \ {f} : caller'[g] = caller[g]
      /\ pc' = pc
  BY CallerSteps DEF TypeOK, workerVars
<1>2. CASE FlushStep(f)
  <2>1. /\ caller[f] \notin OnceBody \cup {"await", "released"}
        /\ caller'[f] \notin OnceBody \cup {"await", "released"}
    BY <1>2 DEF FlushStep, FlushBegin, FlushRunning, FlushLook, FlushCount, FlushSignal,
       FlushTick, FlushExpires, Goto, TypeOK
  <2>2. UNCHANGED <<once, sqlite, queueDB>>
    BY <1>2 DEF FlushStep, FlushBegin, FlushRunning, FlushLook, FlushCount, FlushSignal,
       FlushTick, FlushExpires, CountPending, Signal, stateVars, queueVars
  <2> QED
    BY <1>1, <2>1, <2>2
<1>3. CASE ShutdownMark(f)
  <2>1. /\ caller[f] \in {"true", "false"} /\ caller'[f] \in {"stop", "stopAll"}
        /\ once = "free" /\ once' = "busy"
        /\ UNCHANGED <<sqlite, queueDB>>
    BY <1>3 DEF ShutdownMark, Goto, TypeOK, queueVars
  <2> QED
    BY <1>1, <2>1
<1>4. CASE ShutdownStop(f)
  <2>1. /\ UNCHANGED <<sqlite, queueDB>>
        /\ \/ caller[f] = "stop" /\ caller'[f] = "await" /\ once' = "over"
           \/ caller[f] = "stopAll" /\ caller'[f] = "closeAll" /\ once' = once
    BY <1>4 DEF ShutdownStop, Signal, Goto, TypeOK
  <2> QED
    BY <1>1, <2>1
<1>5. CASE ShutdownTake(f)
  <2>1. /\ caller[f] = "closeAll" /\ caller'[f] = IF queueDB THEN "dbclose" ELSE "finish"
        /\ ~queueDB' /\ UNCHANGED <<sqlite, once>>
    BY <1>5 DEF ShutdownTake, TakeQueueDB, Goto, TypeOK, stateVars
  <2> QED
    BY <1>1, <2>1
<1>6. CASE ShutdownClose(f)
  <2>1. /\ caller[f] = "dbclose" /\ caller'[f] = "finish" /\ ~queueDB'
        /\ ~sqlite' /\ once' = once
    BY <1>6 DEF ShutdownClose, CloseDB, Goto, TypeOK, stateVars, ThreadInv
  <2> QED
    BY <1>1, <2>1
<1>7. CASE ShutdownFinish(f)
  <2>1. /\ caller[f] = "finish" /\ caller'[f] = "await" /\ once' = "over"
        /\ UNCHANGED <<sqlite, queueDB>>
    BY <1>7 DEF ShutdownFinish, Goto, TypeOK, queueVars
  <2> QED
    BY <1>1, <2>1
<1>8. CASE ShutdownLate(f) \/ ShutdownReturns(f)
  <2>1. /\ once' = once /\ UNCHANGED <<sqlite, queueDB>>
        /\ \/ caller[f] \in {"true", "false"} /\ once = "over" /\ caller'[f] = "await"
           \/ caller[f] = "await" /\ caller'[f] \in {"released", "expired"}
    BY <1>8 DEF ShutdownLate, ShutdownReturns, Goto, TypeOK, stateVars, queueVars
  <2> QED
    BY <1>1, <2>1
<1> QED
  BY <1>2, <1>3, <1>4, <1>5, <1>6, <1>7, <1>8 DEF ShutdownStep, OnceStep

LEMMA CloseKept ==
    ASSUME TypeOK, ThreadInv, CloseInv, [Next]_vars
    PROVE  CloseInv'
<1> USE DEF CloseInv, OnceBody
<1>1. CASE BootStep
  <2>1. UNCHANGED <<caller, once>> /\ pc \in BootPcs
    BY <1>1 DEF BootStep, Prepare, ConnectOk, ConnectFails, ConnectRefused, StartupClear,
                DisableRemote, BootPcs, stateVars
  <2>2. \/ queueDB' /\ sqlite'
        \/ UNCHANGED <<queueDB, sqlite>>
    BY <1>1 DEF BootStep, Prepare, PrepareQueue, ConnectOk, ConnectFails, ConnectRefused,
                StartupClear, ClearPersistentQueue, queueVars
  <2> QED
    BY <2>1, <2>2 DEF BootPcs
<1>2. CASE LoopStep
  BY <1>2, LoopSteps DEF LoopPcs
<1>3. CASE ExitStep
  <2>1. UNCHANGED <<caller, once>>
    BY <1>3 DEF ExitStep, ExitRunning, ExitTake, ExitClose, ExitDone, stateVars
  <2>2. CASE ExitRunning \/ ExitDone
    BY <2>1, <2>2 DEF ExitRunning, ExitDone, queueVars
  <2>3. CASE ExitTake
    BY <2>1, <2>3 DEF ExitTake, TakeQueueDB
  <2>4. CASE ExitClose
    BY <2>1, <2>4 DEF ExitClose, CloseDB, ThreadInv
  <2> QED
    BY <1>3, <2>2, <2>3, <2>4 DEF ExitStep
<1>4. ASSUME NEW r \in Records, LogStep(r)
      PROVE  CloseInv'
  <2>1. UNCHANGED <<pc, once, caller, queueDB, sqlite>>
    BY <1>4 DEF LogStep, LogBegin, LogEnqueue, LogNowhere, LogRejected, LogSignal,
       InsertRow, KeepInMemory, StoreNowhere, Signal, queueVars, workerVars, stateVars
  <2> QED
    BY <2>1
<1>5. CASE Restart
  BY <1>5 DEF Restart, QueueRestart
<1>6. CASE UNCHANGED vars
  BY <1>6 DEF vars, queueVars, workerVars, stateVars
<1> QED
  BY <1>1, <1>2, <1>3, <1>4, <1>5, <1>6, CloseCallers, StepKinds

LEMMA SessionKept ==
    ASSUME ClientAssumption, TypeOK, SessionInv, [Next]_vars
    PROVE  SessionInv'
<1> USE DEF SessionInv, Holds
<1>1. CASE BootStep
  BY <1>1 DEF BootStep, Prepare, ConnectOk, Connected, ConnectFails, ConnectRefused,
              StartupClear, ClientAssumption
<1>2. CASE Loop \/ HealthTick \/ Backoff \/ IdleStep \/ TakeNext \/ NextEmpty \/ DropSent
  BY <1>2 DEF Loop, HealthTick, Backoff, IdleStep, IdleDone, IdleWake, TakeNext, NextEmpty,
              DropSent
<1>3. CASE InitStep \/ SendStep
  BY <1>3 DEF InitStep, InitOk, Connected, InitFails, InitRefused, InitClear, SendStep,
              SendOk, SendFails, SendRefused, CountFailure, DisableRemote,
              ClientAssumption
<1>4. CASE ExitStep \/ Restart
  BY <1>4 DEF ExitStep, ExitRunning, ExitTake, ExitClose, ExitDone, Restart
<1>5. CASE \/ \E r \in Records : LogStep(r)
           \/ \E f \in Callers : FlushStep(f) \/ ShutdownStep(f)
           \/ UNCHANGED vars
  <2>1. UNCHANGED <<pc, sender>>
    BY <1>5, CallerSteps DEF LogStep, LogBegin, LogEnqueue, LogNowhere, LogRejected,
       LogSignal, workerVars, vars
  <2> QED
    BY <2>1
<1> QED
  BY <1>1, <1>2, <1>3, <1>4, <1>5, StepKinds DEF LoopStep

(* An access counts at most one failure more, and only a clear that fails  *)
(* gives the table up.                                                     *)
LEMMA FaultSteps ==
    ASSUME TypeOK, [Next]_vars, ~Restart
    PROVE  /\ faults' = 0 => faults = 0
           /\ \/ Prepare \/ persistent' = persistent \/ faults' # 0
              \/ UNCHANGED vars
<1>1. NoFault \/ Fault \/ UNCHANGED vars
  <2>1. BootStep => NoFault \/ Fault
    BY DEF BootStep, Prepare, PrepareQueue, ConnectOk, ConnectFails, ConnectRefused,
           StartupClear, ClearPersistentQueue, NoFault, queueVars
  <2>2. LoopStep => NoFault \/ Fault
    BY DEF LoopStep, Loop, HealthTick, Backoff, IdleStep, IdleDone, IdleWake, TakeNext,
           NextItem, NextEmpty, NextNothing, DropSent, Drop, InitStep, InitOk, InitFails,
           InitRefused, InitClear, ClearPersistentQueue, SendStep, SendOk, SendFails,
           SendRefused, NoFault, queueVars
  <2>3. ExitStep => NoFault
    BY DEF ExitStep, ExitRunning, ExitTake, ExitClose, ExitDone, TakeQueueDB, CloseDB, NoFault,
       queueVars
  <2>4. (\E r \in Records : LogStep(r)) => NoFault \/ Fault
    BY DEF LogStep, LogBegin, LogEnqueue, InsertRow, KeepInMemory, LogNowhere,
           StoreNowhere, LogRejected, LogSignal, Signal, NoFault, queueVars
  <2>5. (\E f \in Callers : FlushStep(f)) => NoFault \/ Fault
    BY DEF FlushStep, FlushBegin, FlushRunning, FlushLook, FlushCount, CountPending,
           FlushSignal, FlushTick, FlushExpires, Signal, NoFault, queueVars
  <2>6. (\E f \in Callers : ShutdownStep(f)) => NoFault
    BY DEF ShutdownStep, ShutdownMark, OnceStep, ShutdownStop, ShutdownTake,
         ShutdownClose, ShutdownFinish,
           ShutdownLate, ShutdownReturns, Signal, TakeQueueDB, CloseDB, NoFault, queueVars
  <2> QED
    BY <2>1, <2>2, <2>3, <2>4, <2>5, <2>6, StepKinds
<1>2. faults' = 0 => faults = 0
  BY <1>1 DEF NoFault, Fault, TypeOK, QueueTypeOK, vars, queueVars
<1>3. Prepare \/ persistent' = persistent \/ faults' # 0 \/ UNCHANGED vars
  <2>1. BootStep => Prepare \/ persistent' = persistent \/ faults' # 0
    BY DEF BootStep, ConnectOk, ConnectFails, ConnectRefused, StartupClear,
           ClearPersistentQueue, Fault, queueVars, TypeOK, QueueTypeOK
  <2>2. LoopStep => persistent' = persistent \/ faults' # 0
    <3>1. InitClear => persistent' = persistent \/ faults' # 0
      BY DEF InitClear, ClearPersistentQueue, Fault, TypeOK, QueueTypeOK
    <3>2. LoopStep /\ ~InitClear => persistent' = persistent
      BY DEF LoopStep, Loop, HealthTick, Backoff, IdleStep, IdleDone, IdleWake, TakeNext,
           NextItem, NextEmpty, NextNothing, DropSent, Drop, InitStep, InitOk, InitFails,
           InitRefused, SendStep, SendOk, SendFails, SendRefused, queueVars
    <3> QED
      BY <3>1, <3>2
  <2>3. ExitStep => persistent' = persistent
    BY DEF ExitStep, ExitRunning, ExitTake, ExitClose, ExitDone, TakeQueueDB, CloseDB, queueVars
  <2>4. (\E r \in Records : LogStep(r)) => persistent' = persistent
    BY DEF LogStep, LogBegin, LogEnqueue, InsertRow, KeepInMemory, LogNowhere,
           StoreNowhere, LogRejected, LogSignal, Signal, queueVars
  <2>5. (\E f \in Callers : FlushStep(f) \/ ShutdownStep(f)) => persistent' = persistent
    BY CallerSteps
  <2> QED
    BY <2>1, <2>2, <2>3, <2>4, <2>5, StepKinds
<1> QED
  BY <1>2, <1>3

LEMMA TableKept ==
    ASSUME TypeOK, ThreadInv, TableInv, [Next]_vars
    PROVE  TableInv'
<1> USE DEF TableInv, TableInUse
<1>1. CASE Prepare
  BY <1>1 DEF Prepare, PrepareQueue, Fault, TypeOK, QueueTypeOK
<1>2. CASE Restart
  BY <1>2 DEF Restart, LoopPcs
<1>3. CASE UNCHANGED vars
  BY <1>3 DEF vars, workerVars, queueVars
<1>4. CASE ~Prepare /\ ~Restart /\ ~UNCHANGED vars
  <2>1. (faults' = 0 => faults = 0) /\ (persistent' = persistent \/ faults' # 0)
    BY <1>4, FaultSteps
  <2>2. CASE BootStep
    <3>1. queueDB' = queueDB /\ (pc \in {"connect", "clear"}
              \/ pc' \notin {"connect", "clear"} \cup LoopPcs)
      BY <1>4, <2>2 DEF BootStep, ConnectOk, ConnectFails, ConnectRefused, StartupClear,
         ClearPersistentQueue, queueVars
    <3> QED
      BY <2>1, <3>1
  <2>3. CASE LoopStep
    BY <2>1, <2>3, LoopSteps
  <2>4. CASE ExitStep
    BY <2>4 DEF ExitStep, ExitRunning, ExitTake, ExitClose, ExitDone, LoopPcs
  <2>5. ASSUME NEW r \in Records, LogStep(r)
        PROVE  TableInv'
    <3>1. UNCHANGED <<pc, queueDB>>
      BY <2>5 DEF LogStep, LogBegin, LogEnqueue, InsertRow, KeepInMemory, LogNowhere,
         StoreNowhere, LogRejected, LogSignal, Signal, queueVars, workerVars
    <3> QED
      BY <2>1, <3>1
  <2>6. ASSUME NEW f \in Callers, FlushStep(f) \/ ShutdownStep(f)
        PROVE  TableInv'
    <3>1. pc' = pc
      BY <2>6, CallerSteps DEF workerVars
    <3>2. CASE ShutdownTake(f)
      <4>1. pc \in Ended
        BY <3>2 DEF ShutdownTake, ThreadInv
      <4> QED
        BY <3>1, <4>1 DEF Ended, LoopPcs
    <3>3. CASE ~ShutdownTake(f)
      <4>1. queueDB' = queueDB
        BY <2>6, <3>3 DEF FlushStep, FlushBegin, FlushRunning, FlushLook, FlushCount,
           CountPending, FlushSignal, FlushTick, FlushExpires, ShutdownStep,
           ShutdownMark, OnceStep, ShutdownStop, ShutdownClose, CloseDB, ShutdownFinish,
           ShutdownLate, ShutdownReturns, Signal, queueVars
      <4> QED
        BY <2>1, <3>1, <4>1
    <3> QED
      BY <3>2, <3>3
  <2> QED
    BY <1>4, <2>2, <2>3, <2>4, <2>5, <2>6, StepKinds
<1> QED
  BY <1>1, <1>2, <1>3, <1>4

(* The idle select is entered with an empty queue, and a record that comes *)
(* after that is followed by its signal.                                   *)
LEMMA WakeUpKept ==
    ASSUME TypeOK, TableInv, NoLostWakeUp, [Next]_vars
    PROVE  NoLostWakeUp'
<1> USE DEF NoLostWakeUp
<1>1. CASE NextEmpty
  <2>1. faults' = 0 => memory = <<>> /\ disk = {}
    BY <1>1 DEF NextEmpty, NextNothing, Fault, NoFault, TableInv, LoopPcs, TypeOK, QueueTypeOK
  <2>2. UNCHANGED <<disk, memory>>
    BY <1>1 DEF NextEmpty, NextNothing
  <2> QED
    BY <2>1, <2>2 DEF Stored, OnDisk, InMemory
<1>2. CASE BootStep \/ ExitStep \/ Restart \/ (LoopStep /\ ~NextEmpty)
  <2>1. BootStep \/ ExitStep \/ Restart => pc' # "idle"
    BY DEF BootStep, Prepare, ConnectOk, ConnectFails, ConnectRefused, StartupClear,
       ExitStep, ExitRunning, ExitTake, ExitClose, ExitDone, Restart
  <2>2. LoopStep /\ ~NextEmpty => pc' # "idle"
    BY DEF LoopStep, Loop, HealthTick, Backoff, IdleStep, IdleDone, IdleWake, TakeNext,
       DropSent, InitStep, InitOk, InitFails, InitRefused, InitClear, SendStep, SendOk,
       SendFails, SendRefused, CountFailure
  <2> QED
    BY <1>2, <2>1, <2>2
<1>3. ASSUME NEW r \in Records, LogStep(r)
      PROVE  NoLostWakeUp'
  <2>1. CASE LogEnqueue(r) \/ LogNowhere(r)
    <3>1. call'[r] = "signal"
      BY <2>1 DEF LogEnqueue, LogNowhere, TypeOK
    <3> QED
      BY <3>1
  <2>2. CASE LogSignal(r)
    BY <2>2 DEF LogSignal, Signal
  <2>3. CASE LogBegin(r) \/ LogRejected(r)
    <3>1. UNCHANGED <<pc, wake, faults, disk, memory>>
      BY <2>3 DEF LogBegin, LogRejected, queueVars, workerVars
    <3>2. \A o \in Records : call[o] = "signal" => call'[o] = "signal"
      BY <2>3 DEF LogBegin, LogRejected, TypeOK
    <3> QED
      BY <3>1, <3>2 DEF Stored, OnDisk, InMemory
  <2> QED
    BY <1>3, <2>1, <2>2, <2>3 DEF LogStep
<1>4. ASSUME NEW f \in Callers, FlushStep(f) \/ ShutdownStep(f)
      PROVE  NoLostWakeUp'
  <2>1. UNCHANGED <<pc, call, disk, memory>>
    BY <1>4, CallerSteps DEF workerVars, callVars
  <2>2. wake' = wake \/ wake' = TRUE
    BY <1>4 DEF FlushStep, FlushBegin, FlushRunning, FlushLook, FlushCount,
       CountPending, FlushSignal, FlushTick, FlushExpires, ShutdownStep, ShutdownMark,
       OnceStep, ShutdownStop, ShutdownTake, ShutdownClose, ShutdownFinish, ShutdownLate,
         ShutdownReturns, Signal,
       TakeQueueDB, CloseDB, queueVars
  <2>3. faults' = 0 => faults = 0
    <3>1. ~Restart
      BY <2>1, <1>4, CallerSteps DEF Restart, TypeOK
    <3> QED
      BY <3>1, FaultSteps
  <2> QED
    BY <2>1, <2>2, <2>3 DEF Stored, OnDisk, InMemory
<1>5. CASE UNCHANGED vars
  BY <1>5 DEF vars, queueVars, workerVars, callVars, Stored, OnDisk, InMemory
<1> QED
  BY <1>1, <1>2, <1>3, <1>4, <1>5, StepKinds

-----------------------------------------------------------------------------
(* The contents of the queue.                                              *)

LEMMA AppendMemory ==
    ASSUME QueueTypeOK, NEW r \in Records, memory' = Append(memory, r)
    PROVE  /\ Len(memory) \in Nat /\ Len(memory') = Len(memory) + 1
           /\ \A i \in 1 .. Len(memory) : memory'[i] = memory[i]
           /\ memory'[Len(memory) + 1] = r
           /\ \A i \in 1 .. Len(memory') : i = Len(memory) + 1 \/ i \in 1 .. Len(memory)
           /\ InMemory' = InMemory \cup {r}
<1>1. memory \in Seq(Records)
  BY DEF QueueTypeOK
<1>2. Len(memory') = Len(memory) + 1 /\ Len(memory) \in Nat
  BY <1>1
<1>3. /\ \A i \in 1 .. Len(memory) : memory'[i] = memory[i]
      /\ memory'[Len(memory) + 1] = r
  BY <1>1
<1>4. \A i \in 1 .. Len(memory') : i = Len(memory) + 1 \/ i \in 1 .. Len(memory)
  BY <1>2
<1>5. InMemory' = InMemory \cup {r}
  BY <1>2, <1>3, <1>4 DEF InMemory
<1> QED
  BY <1>2, <1>3, <1>4, <1>5

LEMMA TailMemory ==
    ASSUME QueueTypeOK, memory # <<>>, memory' = Tail(memory)
    PROVE  /\ Len(memory) \in Nat \ {0} /\ Len(memory') = Len(memory) - 1
           /\ \A i \in 1 .. Len(memory') : i + 1 \in 1 .. Len(memory)
                                           /\ memory'[i] = memory[i + 1]
           /\ InMemory' \subseteq InMemory
           /\ InMemory \subseteq InMemory' \cup {memory[1]}
<1>1. memory \in Seq(Records)
  BY DEF QueueTypeOK
<1>2. Len(memory) \in Nat \ {0} /\ Len(memory') = Len(memory) - 1
  BY <1>1
<1>3. \A i \in 1 .. Len(memory') : i + 1 \in 1 .. Len(memory) /\ memory'[i] = memory[i + 1]
  BY <1>1, <1>2
<1>4. InMemory' \subseteq InMemory
  BY <1>3 DEF InMemory
<1>5. ASSUME NEW i \in 1 .. Len(memory), i # 1
      PROVE  memory[i] \in InMemory'
  <2>1. i - 1 \in 1 .. Len(memory') /\ (i - 1) + 1 = i
    BY <1>2, <1>5
  <2> QED
    BY <1>3, <2>1 DEF InMemory
<1> QED
  BY <1>2, <1>3, <1>4, <1>5 DEF InMemory

(* Enqueueing puts the record in one lane, behind what is there. *)
LEMMA PutAdds ==
    ASSUME TypeOK, NEW r \in Records, LogEnqueue(r)
    PROVE  /\ call[r] = "enqueue"
           /\ \/ /\ InsertRow(r) /\ lane' = [lane EXCEPT ![r] = "disk"]
                 /\ disk' = disk \cup {[id |-> nextId, rec |-> r]} /\ nextId' = nextId + 1
                 /\ memory' = memory /\ InMemory' = InMemory
                 /\ TableInUse
              \/ /\ KeepInMemory(r) /\ lane' = [lane EXCEPT ![r] = "memory"]
                 /\ disk' = disk /\ nextId' = nextId
                 /\ memory' = Append(memory, r) /\ InMemory' = InMemory \cup {r}
           /\ Stored' = Stored \cup {r}
           /\ call' = [call EXCEPT ![r] = "signal"]
           /\ ticket' = [ticket EXCEPT ![r] = Cardinality(Queued) + 1]
           /\ born' = [born EXCEPT ![r] = run]
           /\ UNCHANGED <<workerVars, persistent, queueDB, run, received, lost>>
<1>1. CASE InsertRow(r) /\ lane' = [lane EXCEPT ![r] = "disk"]
  <2>1. /\ disk' = disk \cup {[id |-> nextId, rec |-> r]} /\ nextId' = nextId + 1
        /\ memory' = memory /\ TableInUse /\ UNCHANGED <<persistent, queueDB>>
    BY <1>1 DEF InsertRow
  <2>2. InMemory' = InMemory
    BY <2>1 DEF InMemory
  <2>3. [id |-> nextId, rec |-> r].rec = r
    OBVIOUS
  <2>4. OnDisk' = OnDisk \cup {r}
    BY <2>1, <2>3 DEF OnDisk
  <2> QED
    BY <1>1, <2>1, <2>2, <2>4 DEF LogEnqueue, Stored
<1>2. CASE KeepInMemory(r) /\ lane' = [lane EXCEPT ![r] = "memory"]
  <2>1. /\ disk' = disk /\ nextId' = nextId /\ memory' = Append(memory, r)
        /\ UNCHANGED <<persistent, queueDB>>
    BY <1>2 DEF KeepInMemory
  <2>2. InMemory' = InMemory \cup {r}
    BY <2>1, AppendMemory DEF TypeOK
  <2> QED
    BY <1>2, <2>1, <2>2 DEF LogEnqueue, Stored, OnDisk
<1> QED
  BY <1>1, <1>2 DEF LogEnqueue

(* Dropping the first record of a lane leaves all the others. *)
LEMMA DropRemoves ==
    ASSUME TypeOK, LaneInv, OrderInv, First(item), item \in Items, Drop(item)
    PROVE  /\ disk' \subseteq disk /\ InMemory' \subseteq InMemory
           /\ memory' = memory \/ (memory # <<>> /\ memory' = Tail(memory))
           /\ Stored' = Stored \/ Stored' = Stored \ {item.rec}
           /\ UNCHANGED <<nextId, persistent, queueDB>>
<1>0. QueueTypeOK /\ UNCHANGED <<nextId, persistent, queueDB>>
  BY DEF TypeOK, Drop
<1>1. CASE memory' = memory /\ disk' = disk
  BY <1>0, <1>1 DEF Stored, OnDisk, InMemory
<1>2. CASE item.persisted /\ memory' = memory /\ disk' = {row \in disk : row.id # item.id}
  <2> DEFINE held == [id |-> item.id, rec |-> item.rec]
  <2>1. held \in disk /\ held.id = item.id /\ held.rec = item.rec
    BY <1>2 DEF First
  <2>2. \A row \in disk : row.id = item.id => row.rec = item.rec
    BY <2>1 DEF OrderInv
  <2>3. ASSUME NEW row \in disk, row.id # item.id
        PROVE  row.rec # item.rec
    <3>1. row.id \in Nat /\ item.id \in Nat /\ row.rec \in Records /\ item.rec \in Records
      BY <1>0, <2>1, StoredTyped
    <3>2. row.id < held.id \/ held.id < row.id
      BY <2>1, <2>3, <3>1
    <3>3. ticket[row.rec] < ticket[held.rec] \/ ticket[held.rec] < ticket[row.rec]
      BY <2>1, <3>2 DEF OrderInv
    <3>4. ticket[item.rec] \in Nat
      BY <3>1 DEF TypeOK
    <3> QED
      BY <2>1, <3>3, <3>4
  <2>4. OnDisk' = OnDisk \ {item.rec}
    BY <1>2, <2>2, <2>3 DEF OnDisk
  <2>5. item.rec \notin InMemory
    BY <2>1 DEF LaneInv
  <2>6. InMemory' = InMemory
    BY <1>2 DEF InMemory
  <2> QED
    BY <1>0, <1>2, <2>4, <2>5, <2>6 DEF Stored
<1>3. CASE ~item.persisted /\ disk' = disk /\ memory # <<>> /\ memory' = Tail(memory)
  <2>1. memory[1] = item.rec
    BY <1>3 DEF First
  <2>2. /\ Len(memory) \in Nat \ {0} /\ Len(memory') = Len(memory) - 1
        /\ \A i \in 1 .. Len(memory') : i + 1 \in 1 .. Len(memory)
                                        /\ memory'[i] = memory[i + 1]
        /\ InMemory' \subseteq InMemory /\ InMemory \subseteq InMemory' \cup {item.rec}
    BY <1>0, <1>3, <2>1, TailMemory
  <2>3. ASSUME NEW i \in 1 .. Len(memory')
        PROVE  memory'[i] # item.rec
    <3>1. 1 \in 1 .. Len(memory) /\ i + 1 \in 1 .. Len(memory) /\ 1 < i + 1
      BY <2>2, <2>3
    <3>2. ticket[memory[1]] < ticket[memory[i + 1]]
      BY <3>1 DEF OrderInv
    <3>3. memory[1] \in Records
      BY <1>0, <3>1 DEF QueueTypeOK
    <3>4. ticket[memory[1]] \in Nat
      BY <3>3 DEF TypeOK
    <3> QED
      BY <2>1, <2>2, <2>3, <3>2, <3>4
  <2>4. InMemory' = InMemory \ {item.rec}
    BY <2>2, <2>3 DEF InMemory
  <2>5. item.rec \notin OnDisk
    <3>1. item.rec \in InMemory
      BY <2>1, <2>2 DEF InMemory
    <3> QED
      BY <3>1 DEF LaneInv, OnDisk
  <2> QED
    BY <1>0, <1>3, <2>4, <2>5 DEF Stored, OnDisk
<1> QED
  BY <1>1, <1>2, <1>3 DEF Drop, First

(* Steps that leave the queue and the records' histories alone. *)
Still == UNCHANGED <<disk, nextId, memory, lane, ticket, born, run, lost>>

StillStep ==
    \/ BootStep /\ ~StartupClear
    \/ LoopStep /\ ~InitClear /\ ~DropSent
    \/ ExitStep \/ UNCHANGED vars
    \/ \E r \in Records : LogBegin(r) \/ LogRejected(r) \/ LogSignal(r)
    \/ \E f \in Callers : FlushStep(f) \/ ShutdownStep(f)

LEMMA StillSteps ==
    ASSUME StillStep
    PROVE  Still
<1> USE DEF Still, queueVars, callVars, historyVars
<1>1. BootStep /\ ~StartupClear => Still
  BY DEF BootStep, Prepare, PrepareQueue, ConnectOk, ConnectFails, ConnectRefused
<1>2. Loop \/ HealthTick \/ Backoff \/ IdleStep \/ TakeNext \/ NextEmpty => Still
  BY DEF Loop, HealthTick, Backoff, IdleStep, IdleDone, IdleWake, TakeNext, NextItem,
         NextEmpty, NextNothing
<1>3. (InitStep /\ ~InitClear) \/ SendStep => Still
  BY DEF InitStep, InitOk, InitFails, InitRefused, SendStep, SendOk, SendFails, SendRefused
<1>4. ExitStep \/ UNCHANGED vars => Still
  BY DEF ExitStep, ExitRunning, ExitTake, ExitClose, ExitDone, TakeQueueDB, CloseDB, vars
<1>5. (\E r \in Records : LogBegin(r) \/ LogRejected(r) \/ LogSignal(r)) => Still
  BY DEF LogBegin, LogRejected, LogSignal, Signal
<1>6. (\E f \in Callers : FlushStep(f) \/ ShutdownStep(f)) => Still
  BY CallerSteps
<1> QED
  BY <1>1, <1>2, <1>3, <1>4, <1>5, <1>6 DEF StillStep, LoopStep

(* The steps that are not still. *)
LEMMA ContentSteps ==
    ASSUME [Next]_vars
    PROVE  \/ StillStep \/ StartupClear \/ InitClear \/ DropSent \/ Restart
           \/ \E r \in Records : LogEnqueue(r) \/ LogNowhere(r)
<1>1. (\E r \in Records : LogStep(r)) =>
         \/ \E r \in Records : LogBegin(r) \/ LogRejected(r) \/ LogSignal(r)
         \/ \E r \in Records : LogEnqueue(r) \/ LogNowhere(r)
  BY DEF LogStep
<1> QED
  BY <1>1, StepKinds DEF StillStep

(* A clear empties the table, or leaves it and gives it up, and what goes  *)
(* is noted as lost.                                                       *)
LEMMA ClearRemoves ==
    ASSUME TypeOK, LaneInv, StartupClear \/ InitClear
    PROVE  /\ disk' \in {disk, {}} /\ memory' = memory /\ InMemory' = InMemory
           /\ ~TableInUse' \/ (TableInUse /\ disk' = {})
           /\ \A r \in Records : lost'[r] # lost[r] =>
                 /\ r \in Stored /\ r \notin Stored'
                 /\ lost'[r] = IF pc = "clear" THEN "startup" ELSE "reconnect"
           /\ UNCHANGED <<nextId, queueDB, call, lane, ticket, born, run>>
<1>1. /\ ClearPersistentQueue /\ UNCHANGED <<call, lane, ticket, born, run>>
      /\ LoseAs(IF pc = "clear" THEN "startup" ELSE "reconnect")
  BY DEF StartupClear, InitClear, callVars
<1>2. /\ disk' \in {disk, {}} /\ memory' = memory /\ InMemory' = InMemory
      /\ UNCHANGED <<nextId, queueDB>>
  BY <1>1 DEF ClearPersistentQueue, InMemory
<1>3. ~TableInUse' \/ (TableInUse /\ disk' = {})
  BY <1>1 DEF ClearPersistentQueue, TableInUse
<1> QED
  BY <1>1, <1>2, <1>3 DEF LoseAs

LEMMA LaneKept ==
    ASSUME TypeOK, LaneInv, OrderInv, HeldInv, [Next]_vars
    PROVE  LaneInv'
<1>0. /\ \A row \in disk : row.rec \in Records
      /\ InMemory \subseteq Records
      /\ \A r \in Stored : lane[r] # "none"
  BY StoredTyped DEF TypeOK, LaneInv, Stored, OnDisk
<1>1. CASE StillStep
  <2>1. Still /\ InMemory' = InMemory
    BY <1>1, StillSteps DEF Still, InMemory
  <2>2. \A r \in Records : call'[r] \in {"new", "enqueue"} => call[r] \in {"new", "enqueue"}
    <3>1. ASSUME NEW r \in Records, LogBegin(r) \/ LogRejected(r) \/ LogSignal(r)
          PROVE  \A o \in Records :
                    call'[o] \in {"new", "enqueue"} => call[o] \in {"new", "enqueue"}
      BY <3>1 DEF LogBegin, LogRejected, LogSignal, TypeOK
    <3>2. BootStep \/ LoopStep \/ ExitStep \/ UNCHANGED vars => call' = call
      BY LoopSteps DEF BootStep, Prepare, ConnectOk, ConnectFails, ConnectRefused,
         StartupClear, ExitStep, ExitRunning, ExitTake, ExitClose, ExitDone, callVars, vars
    <3>3. (\E f \in Callers : FlushStep(f) \/ ShutdownStep(f)) => call' = call
      BY CallerSteps DEF callVars
    <3> QED
      BY <1>1, <3>1, <3>2, <3>3 DEF StillStep
  <2> QED
    BY <2>1, <2>2 DEF Still, LaneInv
<1>2. CASE StartupClear \/ InitClear
  <2>1. \A r \in Records : lane[r] = "none" => lost'[r] = lost[r]
    BY <1>0, <1>2, ClearRemoves
  <2> QED
    BY <1>2, <2>1, ClearRemoves DEF LaneInv
<1>3. CASE DropSent
  <2>1. disk' \subseteq disk /\ InMemory' \subseteq InMemory
    BY <1>3, DropRemoves DEF DropSent, HeldInv, Holds, TypeOK
  <2> QED
    BY <1>3, <2>1 DEF DropSent, LaneInv, callVars, historyVars
<1>4. CASE Restart
  <2>1. disk' = disk /\ InMemory' = {} /\ lane' = lane
    BY <1>4 DEF Restart, QueueRestart, InMemory
  <2>2. \A r \in Records : call'[r] \in {"new", "enqueue"} => lane[r] = "none"
    BY <1>4 DEF Restart
  <2>3. \A r \in Records : lane[r] = "none" => lost'[r] = lost[r]
    BY <1>0, <1>4 DEF Restart, LoseAs
  <2> QED
    BY <2>1, <2>2, <2>3 DEF LaneInv
<1>5. ASSUME NEW r \in Records, LogEnqueue(r)
      PROVE  LaneInv'
  <2>1. lane[r] = "none" /\ call' = [call EXCEPT ![r] = "signal"] /\ lost' = lost
    BY <1>5, PutAdds DEF LaneInv
  <2>2. \A row \in disk : row.rec # r /\ lane[row.rec] = "disk"
    BY <2>1 DEF LaneInv
  <2>3. r \notin InMemory /\ \A o \in InMemory : lane[o] = "memory"
    BY <2>1 DEF LaneInv
  <2>4. CASE /\ lane' = [lane EXCEPT ![r] = "disk"] /\ InMemory' = InMemory
             /\ disk' = disk \cup {[id |-> nextId, rec |-> r]}
    <3>1. lane'[r] = "disk" /\ \A o \in Records \ {r} : lane'[o] = lane[o]
      BY <2>4 DEF TypeOK
    <3>2. \A row \in disk' : lane'[row.rec] = "disk"
      BY <1>0, <2>2, <2>4, <3>1
    <3>3. \A o \in InMemory' : lane'[o] = "memory"
      BY <1>0, <2>3, <2>4, <3>1
    <3> QED
      BY <2>1, <3>1, <3>2, <3>3 DEF LaneInv, TypeOK
  <2>5. CASE /\ lane' = [lane EXCEPT ![r] = "memory"] /\ disk' = disk
             /\ InMemory' = InMemory \cup {r}
    <3>1. lane'[r] = "memory" /\ \A o \in Records \ {r} : lane'[o] = lane[o]
      BY <2>5 DEF TypeOK
    <3>2. \A row \in disk' : lane'[row.rec] = "disk"
      BY <1>0, <2>2, <2>5, <3>1
    <3>3. \A o \in InMemory' : lane'[o] = "memory"
      BY <1>0, <2>3, <2>5, <3>1
    <3> QED
      BY <2>1, <3>1, <3>2, <3>3 DEF LaneInv, TypeOK
  <2> QED
    BY <1>5, <2>4, <2>5, PutAdds
<1>6. ASSUME NEW r \in Records, LogNowhere(r)
      PROVE  LaneInv'
  <2>1. /\ lane[r] = "none" /\ lane' = [lane EXCEPT ![r] = "nowhere"]
        /\ call' = [call EXCEPT ![r] = "signal"]
        /\ UNCHANGED <<disk, memory, lost>>
    BY <1>6 DEF LogNowhere, StoreNowhere, LaneInv, queueVars, historyVars
  <2>2. \A row \in disk : row.rec # r
    BY <2>1 DEF LaneInv
  <2>3. r \notin InMemory /\ InMemory' = InMemory
    BY <2>1 DEF LaneInv, InMemory
  <2> QED
    BY <1>0, <2>1, <2>2, <2>3 DEF LaneInv, TypeOK
<1> QED
  BY <1>1, <1>2, <1>3, <1>4, <1>5, <1>6, ContentSteps

-----------------------------------------------------------------------------
(* The order of the lanes.                                                 *)

(* A record that is queued was not, and gets the next ticket. *)
LEMMA EnqueueCounts ==
    ASSUME ClientAssumption, TypeOK, LaneInv, NEW r \in Records, LogEnqueue(r)
    PROVE  /\ lane[r] = "none" /\ r \notin Queued /\ r \notin Stored
           /\ Queued' = Queued \cup {r}
           /\ Cardinality(Queued') = Cardinality(Queued) + 1
           /\ Cardinality(Queued) \in Nat
<1>1. /\ lane[r] = "none"
      /\ \E l \in {"disk", "memory"} : lane' = [lane EXCEPT ![r] = l]
  BY PutAdds DEF LaneInv
<1>2. r \notin Queued /\ Queued' = Queued \cup {r}
  BY <1>1 DEF Queued, TypeOK
<1>3. Cardinality(Queued') = Cardinality(Queued) + 1
  BY <1>2, QueuedIsCounted, FS_AddElement
<1>4. r \notin Stored
  BY <1>1 DEF LaneInv, Stored, OnDisk
<1> QED
  BY <1>1, <1>2, <1>3, <1>4, QueuedIsCounted

(* Every stored record has a ticket below the next one. *)
LEMMA TicketsBelow ==
    ASSUME ClientAssumption, TypeOK, LaneInv, OrderInv
    PROVE  \A o \in Stored : o \in Queued /\ ticket[o] \in Nat
                             /\ ticket[o] < Cardinality(Queued) + 1
<1>1. Stored \subseteq Queued
  BY StoredTyped DEF TypeOK, LaneInv, Stored, OnDisk, Queued
<1>2. \A o \in Queued : ticket[o] \in Nat /\ ticket[o] <= Cardinality(Queued)
  BY DEF OrderInv, Queued, TypeOK
<1> QED
  BY <1>1, <1>2, QueuedIsCounted

LEMMA OrderKept ==
    ASSUME ClientAssumption, TypeOK, LaneInv, OrderInv, HeldInv, [Next]_vars
    PROVE  OrderInv'
<1>1. CASE StillStep
  BY <1>1, StillSteps DEF Still, OrderInv, Queued
<1>2. CASE StartupClear \/ InitClear
  BY <1>2, ClearRemoves DEF OrderInv, Queued
<1>3. CASE DropSent
  <2>1. /\ disk' \subseteq disk /\ UNCHANGED <<nextId, lane, ticket>>
        /\ memory' = memory \/ (memory # <<>> /\ memory' = Tail(memory))
    BY <1>3, DropRemoves DEF DropSent, HeldInv, Holds, TypeOK, callVars, historyVars
  <2>2. \A i, j \in 1 .. Len(memory') :
           i < j => ticket[memory'[i]] < ticket[memory'[j]]
    <3>1. CASE memory' = memory
      BY <3>1 DEF OrderInv
    <3>2. CASE memory # <<>> /\ memory' = Tail(memory)
      <4>1. \A i \in 1 .. Len(memory') : i + 1 \in 1 .. Len(memory)
                                         /\ memory'[i] = memory[i + 1]
        BY <3>2, TailMemory DEF TypeOK
      <4>2. \A i, j \in 1 .. Len(memory') : i < j => i + 1 < j + 1
        OBVIOUS
      <4> QED
        BY <4>1, <4>2 DEF OrderInv
    <3> QED
      BY <2>1, <3>1, <3>2
  <2> QED
    BY <2>1, <2>2 DEF OrderInv, Queued
<1>4. CASE Restart
  <2>1. disk' = disk /\ nextId' = nextId /\ 1 .. Len(memory') = {}
        /\ UNCHANGED <<lane, ticket>>
    BY <1>4 DEF Restart, QueueRestart
  <2> QED
    BY <2>1 DEF OrderInv, Queued
<1>5. ASSUME NEW r \in Records, LogEnqueue(r)
      PROVE  OrderInv'
  <2> DEFINE n == Cardinality(Queued)
             new == [id |-> nextId, rec |-> r]
  <2>1. /\ n \in Nat /\ r \notin Queued /\ r \notin Stored
        /\ Queued' = Queued \cup {r} /\ Cardinality(Queued') = n + 1
        /\ ticket' = [ticket EXCEPT ![r] = n + 1]
    BY <1>5, EnqueueCounts, PutAdds
  <2>2. \A o \in Queued : ticket[o] \in Nat /\ ticket[o] <= n
    BY DEF OrderInv, Queued, TypeOK
  <2>3. \A o \in Stored : o \in Queued /\ o # r
    BY <2>1, TicketsBelow
  <2> HIDE DEF n
  <2>4. ticket'[r] = n + 1 /\ \A o \in Queued : ticket'[o] = ticket[o]
    BY <2>1 DEF TypeOK, Queued
  <2>5. \A o \in Queued' : ticket'[o] <= Cardinality(Queued')
    BY <2>1, <2>2, <2>4
  <2>6. \A o \in Stored : ticket'[o] = ticket[o] /\ ticket'[o] < ticket'[r]
    BY <2>1, <2>2, <2>3, <2>4
  <2>7. /\ \A row \in disk : row.rec \in Stored /\ row.id \in Nat
        /\ \A i \in 1 .. Len(memory) : memory[i] \in Stored
    BY StoredTyped DEF TypeOK, Stored, OnDisk, InMemory
  <2>8. CASE disk' = disk \cup {new} /\ nextId' = nextId + 1 /\ memory' = memory
    <3>1. nextId \in Nat /\ new.id = nextId /\ new.rec = r
          /\ \A row \in disk : row.id < nextId
      BY DEF OrderInv, TypeOK, QueueTypeOK
    <3>2. \A row \in disk' : row.id < nextId'
      BY <2>7, <2>8, <3>1
    <3>3. \A a, b \in disk' : a.id = b.id => a = b
      BY <2>7, <2>8, <3>1 DEF OrderInv
    <3>4. \A a, b \in disk : a.id < b.id => ticket'[a.rec] < ticket'[b.rec]
      BY <2>6, <2>7 DEF OrderInv
    <3>5. \A a \in disk : ticket'[a.rec] < ticket'[new.rec] /\ ~(new.id < a.id)
      BY <2>6, <2>7, <3>1
    <3>6. \A a, b \in disk' : a.id < b.id => ticket'[a.rec] < ticket'[b.rec]
      BY <2>8, <3>1, <3>4, <3>5
    <3>7. \A i, j \in 1 .. Len(memory') :
             i < j => ticket'[memory'[i]] < ticket'[memory'[j]]
      BY <2>6, <2>7, <2>8 DEF OrderInv
    <3> QED
      BY <2>5, <3>2, <3>3, <3>6, <3>7 DEF OrderInv
  <2>9. CASE disk' = disk /\ nextId' = nextId /\ memory' = Append(memory, r)
    <3>1. /\ Len(memory) \in Nat /\ memory'[Len(memory) + 1] = r
          /\ \A i \in 1 .. Len(memory) : memory'[i] = memory[i]
          /\ \A i \in 1 .. Len(memory') : i = Len(memory) + 1 \/ i \in 1 .. Len(memory)
      BY <2>9, AppendMemory DEF TypeOK
    <3>2. \A a, b \in disk' : a.id < b.id => ticket'[a.rec] < ticket'[b.rec]
      BY <2>6, <2>7, <2>9 DEF OrderInv
    <3>3. \A i, j \in 1 .. Len(memory) :
             i < j => ticket'[memory'[i]] < ticket'[memory'[j]]
      BY <2>6, <2>7, <3>1 DEF OrderInv
    <3>4. \A i \in 1 .. Len(memory) : ticket'[memory'[i]] < ticket'[r]
      BY <2>6, <2>7, <3>1
    <3>5. ASSUME NEW i \in 1 .. Len(memory'), NEW j \in 1 .. Len(memory'), i < j
          PROVE  ticket'[memory'[i]] < ticket'[memory'[j]]
      <4>1. i \in 1 .. Len(memory)
        BY <3>1, <3>5
      <4>2. j \in 1 .. Len(memory) \/ j = Len(memory) + 1
        BY <3>1
      <4> QED
        BY <3>1, <3>3, <3>4, <3>5, <4>1, <4>2
    <3> QED
      BY <2>5, <2>9, <3>2, <3>5 DEF OrderInv
  <2> QED
    BY <1>5, <2>8, <2>9, PutAdds
<1>6. ASSUME NEW r \in Records, LogNowhere(r)
      PROVE  OrderInv'
  <2>1. /\ lane[r] = "none" /\ lane' = [lane EXCEPT ![r] = "nowhere"]
        /\ UNCHANGED <<disk, nextId, memory, ticket>>
    BY <1>6 DEF LogNowhere, StoreNowhere, LaneInv, queueVars, historyVars
  <2>2. Queued' = Queued
    BY <2>1 DEF Queued, TypeOK
  <2> QED
    BY <2>1, <2>2 DEF OrderInv
<1> QED
  BY <1>1, <1>2, <1>3, <1>4, <1>5, <1>6, ContentSteps

-----------------------------------------------------------------------------
(* The runs.                                                               *)

(* No step but Restart goes back to New, and no step but the startup clear *)
(* takes a worker to its table.                                            *)
LEMMA StillPlaces ==
    ASSUME TypeOK, StillStep
    PROVE  /\ pc' \in BootPcs => pc \in BootPcs
           /\ pc' \in LoopPcs /\ TableInUse' => pc \in LoopPcs /\ TableInUse
<1>1. CASE BootStep /\ ~StartupClear
  BY <1>1 DEF BootStep, Prepare, ConnectOk, ConnectFails, ConnectRefused, BootPcs, LoopPcs
<1>2. CASE LoopStep /\ ~InitClear /\ ~DropSent
  <2>1. persistent' = persistent
    BY <1>2 DEF LoopStep, Loop, HealthTick, Backoff, IdleStep, IdleDone, IdleWake, TakeNext,
       NextItem, NextEmpty, NextNothing, InitStep, InitOk, InitFails, InitRefused,
       SendStep, SendOk, SendFails, SendRefused, queueVars
  <2> QED
    BY <1>2, <2>1, LoopSteps DEF TableInUse, BootPcs, LoopPcs
<1>3. CASE ExitStep
  BY <1>3 DEF ExitStep, ExitRunning, ExitTake, ExitClose, ExitDone, BootPcs, LoopPcs
<1>4. CASE UNCHANGED vars
  BY <1>4 DEF vars, queueVars, workerVars, TableInUse
<1>5. CASE \E r \in Records : LogBegin(r) \/ LogRejected(r) \/ LogSignal(r)
  BY <1>5 DEF LogBegin, LogRejected, LogSignal, Signal, queueVars, workerVars, TableInUse
<1>6. ASSUME NEW f \in Callers, FlushStep(f) \/ ShutdownStep(f)
      PROVE  UNCHANGED <<pc, persistent>> /\ (queueDB' => queueDB)
  <2>1. UNCHANGED <<pc, persistent>>
    BY <1>6, CallerSteps DEF workerVars
  <2>2. queueDB' => queueDB
    BY <1>6 DEF FlushStep, FlushBegin, FlushRunning, FlushLook, FlushCount, CountPending,
       FlushSignal, FlushTick, FlushExpires, ShutdownStep, ShutdownMark, OnceStep,
       ShutdownStop, ShutdownTake, ShutdownClose, ShutdownFinish, ShutdownLate, ShutdownReturns,
         Signal, TakeQueueDB, CloseDB,
       queueVars
  <2> QED
    BY <2>1, <2>2
<1>7. CASE \E f \in Callers : FlushStep(f) \/ ShutdownStep(f)
  BY <1>6, <1>7 DEF TableInUse
<1> QED
  BY <1>1, <1>2, <1>3, <1>4, <1>5, <1>7 DEF StillStep

LEMMA BornKept ==
    ASSUME ClientAssumption, TypeOK, ThreadInv, LaneInv, OrderInv, BornInv, HeldInv,
           [Next]_vars
    PROVE  BornInv'
<1>0. /\ \A row \in disk : row.rec \in Records
      /\ InMemory \subseteq Records
      /\ run \in Nat /\ \A r \in Records : born[r] \in Nat
  BY StoredTyped DEF TypeOK
<1>1. CASE StillStep
  <2>1. Still /\ InMemory' = InMemory
    BY <1>1, StillSteps DEF Still, InMemory
  <2> QED
    BY <1>1, <2>1, StillPlaces DEF Still, BornInv
<1>2. CASE StartupClear
  <2>1. /\ disk' \in {disk, {}} /\ memory' = <<>> /\ InMemory' = InMemory
        /\ ~TableInUse' \/ disk' = {}
        /\ UNCHANGED <<born, run>>
        /\ pc' \notin BootPcs
    BY <1>2, ClearRemoves DEF StartupClear, BornInv, BootPcs
  <2>2. ASSUME NEW r \in Records, lost'[r] = "startup", lost'[r] # lost[r]
        PROVE  born[r] < run
    <3>1. r \in Stored /\ memory = <<>> /\ \A row \in disk : born[row.rec] < run
      BY <1>2, <2>2, ClearRemoves DEF StartupClear, BornInv, BootPcs
    <3>2. r \in OnDisk
      BY <3>1 DEF Stored, InMemory
    <3> QED
      BY <3>1, <3>2 DEF OnDisk
  <2> QED
    BY <2>1, <2>2 DEF BornInv
<1>3. CASE InitClear
  <2>1. /\ disk' \in {disk, {}} /\ memory' = memory /\ InMemory' = InMemory
        /\ ~TableInUse' \/ disk' = {}
        /\ UNCHANGED <<born, run>>
        /\ pc' \notin BootPcs
    BY <1>3, ClearRemoves DEF InitClear, BootPcs
  <2>2. \A r \in Records : lost'[r] = "startup" => lost[r] = "startup"
    BY <1>3, ClearRemoves DEF InitClear
  <2> QED
    BY <2>1, <2>2 DEF BornInv
<1>4. CASE DropSent
  <2>1. /\ disk' \subseteq disk /\ InMemory' \subseteq InMemory
        /\ UNCHANGED <<persistent, queueDB>>
    BY <1>4, DropRemoves DEF DropSent, HeldInv, Holds, TypeOK
  <2>2. /\ pc = "drop" /\ pc' = "loop" /\ UNCHANGED <<born, run, lost>>
    BY <1>4 DEF DropSent, historyVars
  <2> QED
    BY <2>1, <2>2 DEF BornInv, TableInUse, BootPcs, LoopPcs
<1>5. CASE Restart
  <2>1. /\ disk' = disk /\ memory' = <<>> /\ InMemory' = {} /\ run' = run + 1
        /\ pc' \notin LoopPcs /\ born' = born
    BY <1>5 DEF Restart, QueueRestart, InMemory, LoopPcs
  <2>2. \A r \in Records : lost'[r] = "startup" => lost[r] = "startup"
    BY <1>5 DEF Restart, LoseAs
  <2>3. \A r \in Records : born[r] < run + 1
    BY <1>0 DEF BornInv
  <2> QED
    BY <1>0, <2>1, <2>2, <2>3 DEF BornInv
<1>6. ASSUME NEW r \in Records, LogEnqueue(r)
      PROVE  BornInv'
  <2>1. /\ born' = [born EXCEPT ![r] = run] /\ pc' = pc
        /\ UNCHANGED <<persistent, queueDB, run, lost>>
    BY <1>6, PutAdds DEF workerVars
  <2>2. pc \notin BootPcs
    BY <1>6 DEF LogEnqueue, ThreadInv
  <2>3. lost[r] = "no"
    BY <1>6, EnqueueCounts DEF LaneInv
  <2>4. born'[r] = run /\ \A o \in Records \ {r} : born'[o] = born[o]
    BY <2>1 DEF TypeOK
  <2>5. InMemory' \subseteq InMemory \cup {r}
        /\ \A row \in disk' : row \in disk \/ row.rec = r
    BY <1>6, PutAdds
  <2>6. \A o \in InMemory' : born'[o] = run
    BY <1>0, <2>4, <2>5 DEF BornInv
  <2>7. pc \in LoopPcs /\ TableInUse => \A row \in disk' : born'[row.rec] = run
    BY <1>0, <2>4, <2>5 DEF BornInv
  <2> QED
    BY <1>0, <2>1, <2>2, <2>3, <2>4, <2>6, <2>7 DEF BornInv, TableInUse
<1>7. ASSUME NEW r \in Records, LogNowhere(r)
      PROVE  BornInv'
  BY <1>7 DEF LogNowhere, StoreNowhere, queueVars, workerVars, historyVars, BornInv,
              TableInUse, InMemory
<1> QED
  BY <1>1, <1>2, <1>3, <1>4, <1>5, <1>6, <1>7, ContentSteps

-----------------------------------------------------------------------------
(* The record the worker holds.                                            *)

(* What next returns is the first of its lane, of the worker's own run.    *)
LEMMA TakenIsFirst ==
    ASSUME TypeOK, BornInv, TakeNext
    PROVE  /\ First(item)' /\ born[item'.rec] = run /\ pc' = "send"
           /\ UNCHANGED <<born, run>>
<1>1. PICK it \in Peekable : NextItem(it) /\ item' = it
  BY DEF TakeNext
<1>2. pc \in LoopPcs /\ pc' = "send" /\ UNCHANGED <<born, run>>
      /\ UNCHANGED <<disk, memory, queueDB>>
  BY <1>1 DEF TakeNext, LoopPcs, NextItem, queueVars, historyVars
<1>3. CASE TableInUse /\ it.persisted /\ \A row \in disk : it.id <= row.id
  <2>1. PICK row \in disk : it.id = row.id /\ it.rec = row.rec
    BY <1>1, <1>3 DEF Peekable
  <2>2. row = [id |-> it.id, rec |-> it.rec]
    BY <2>1 DEF TypeOK, QueueTypeOK, Rows
  <2>3. born[it.rec] = run
    BY <1>2, <1>3, <2>1 DEF BornInv
  <2> QED
    BY <1>1, <1>2, <1>3, <2>1, <2>2, <2>3 DEF First, TableInUse
<1>4. CASE memory # <<>> /\ ~it.persisted /\ it.rec = Head(memory)
  <2>1. it.rec = memory[1] /\ 1 \in 1 .. Len(memory)
    BY <1>4 DEF TypeOK, QueueTypeOK
  <2>2. it.rec \in InMemory
    BY <2>1 DEF InMemory
  <2> QED
    BY <1>1, <1>2, <1>4, <2>1, <2>2 DEF First, BornInv
<1> QED
  BY <1>1, <1>3, <1>4 DEF NextItem

LEMMA FirstIsStored ==
    ASSUME TypeOK, NEW it, First(it)
    PROVE  it.rec \in Stored
<1>1. CASE [id |-> it.id, rec |-> it.rec] \in disk
  BY <1>1 DEF Stored, OnDisk
<1>2. CASE memory # <<>> /\ memory[1] = it.rec
  <2>1. 1 \in 1 .. Len(memory)
    BY <1>2 DEF TypeOK, QueueTypeOK
  <2> QED
    BY <1>2, <2>1 DEF Stored, InMemory
<1> QED
  BY <1>1, <1>2 DEF First

LEMMA HeldKept ==
    ASSUME ClientAssumption, TypeOK, ThreadInv, LaneInv, OrderInv, BornInv, HeldInv,
           [Next]_vars
    PROVE  HeldInv'
<1> USE DEF HeldInv
<1>1. CASE StillStep
  <2>1. Still
    BY <1>1, StillSteps
  <2>2. CASE TakeNext
    BY <2>2, TakenIsFirst
  <2>3. CASE pc' \notin Holds
    BY <2>3
  <2>4. CASE /\ pc' = pc \/ (pc = "send" /\ pc' = "drop" /\ item.rec \in received')
             /\ item' = item /\ (pc \in Holds => queueDB' = queueDB)
             /\ received \subseteq received'
    BY <2>1, <2>4 DEF Still, First, Holds
  <2>5. BootStep \/ ExitStep => pc' \notin Holds
    BY DEF BootStep, Prepare, ConnectOk, ConnectFails, ConnectRefused, StartupClear,
       ExitStep, ExitRunning, ExitTake, ExitClose, ExitDone, Holds
  <2>6. LoopStep => TakeNext \/ SendOk \/ pc' \notin Holds
    BY DEF LoopStep, Loop, HealthTick, Backoff, IdleStep, IdleDone, IdleWake,
       NextEmpty, DropSent, InitStep, InitOk, InitFails, InitRefused, InitClear,
       SendStep, SendFails, SendRefused, CountFailure, Holds
  <2>7. SendOk => /\ pc = "send" /\ pc' = "drop" /\ item.rec \in received'
                  /\ item' = item /\ queueDB' = queueDB /\ received \subseteq received'
    BY DEF SendOk, queueVars
  <2>8. (\E r \in Records : LogBegin(r) \/ LogRejected(r) \/ LogSignal(r)) \/ UNCHANGED vars
        => pc' = pc /\ item' = item /\ queueDB' = queueDB /\ received' = received
    BY DEF LogBegin, LogRejected, LogSignal, Signal, vars, queueVars, workerVars,
       historyVars
  <2>9. ASSUME NEW f \in Callers, FlushStep(f) \/ ShutdownStep(f)
        PROVE  /\ pc' = pc /\ item' = item /\ received' = received
               /\ pc \in Holds => queueDB' = queueDB
    <3>1. pc' = pc /\ item' = item /\ received' = received
      BY <2>9, CallerSteps DEF workerVars
    <3>2. CASE ShutdownTake(f)
      <4>1. pc \in Ended
        BY <3>2 DEF ShutdownTake, ThreadInv
      <4> QED
        BY <3>1, <4>1 DEF Ended, Holds
    <3>3. CASE ~ShutdownTake(f)
      <4>1. queueDB' = queueDB
        BY <2>9, <3>3 DEF FlushStep, FlushBegin, FlushRunning, FlushLook, FlushCount,
           CountPending, FlushSignal, FlushTick, FlushExpires, ShutdownStep,
           ShutdownMark, OnceStep, ShutdownStop, ShutdownClose, CloseDB, ShutdownFinish,
           ShutdownLate, ShutdownReturns, Signal, queueVars
      <4> QED
        BY <3>1, <4>1
    <3> QED
      BY <3>2, <3>3
  <2> QED
    BY <1>1, <2>2, <2>3, <2>4, <2>5, <2>6, <2>7, <2>8, <2>9 DEF StillStep
<1>2. CASE StartupClear \/ InitClear \/ DropSent \/ Restart
  BY <1>2 DEF StartupClear, InitClear, DropSent, Restart, Holds
<1>3. ASSUME NEW r \in Records, LogEnqueue(r), pc \in Holds
      PROVE  HeldInv'
  <2>1. /\ UNCHANGED <<pc, item, queueDB, run, received>>
        /\ born' = [born EXCEPT ![r] = run]
        /\ \/ /\ disk' = disk \cup {[id |-> nextId, rec |-> r]} /\ memory' = memory
           \/ /\ disk' = disk /\ memory' = Append(memory, r)
    BY <1>3, PutAdds DEF workerVars
  <2>2. item.rec \in Stored /\ item.rec # r /\ item.rec \in Records
    BY <1>3, FirstIsStored, EnqueueCounts, StoredTyped DEF TypeOK
  <2>3. born'[item.rec] = run
    BY <1>3, <2>1, <2>2 DEF TypeOK
  <2>4. First(item)'
    <3>1. CASE item.persisted
      <4>1. /\ queueDB /\ [id |-> item.id, rec |-> item.rec] \in disk
            /\ \A row \in disk : item.id <= row.id
        BY <1>3, <3>1 DEF First
      <4>2. item.id < nextId /\ item.id \in Nat /\ nextId \in Nat
        BY <4>1, StoredTyped DEF OrderInv, TypeOK, QueueTypeOK
      <4>3. \A row \in disk' : item.id <= row.id
        BY <2>1, <4>1, <4>2
      <4> QED
        BY <2>1, <3>1, <4>1, <4>3 DEF First
    <3>2. CASE ~item.persisted
      <4>1. memory # <<>> /\ memory[1] = item.rec /\ 1 \in 1 .. Len(memory)
        BY <1>3, <3>2 DEF First, TypeOK, QueueTypeOK
      <4>2. memory' # <<>> /\ memory'[1] = memory[1]
        <5>1. CASE memory' = memory
          BY <4>1, <5>1
        <5>2. CASE memory' = Append(memory, r)
          <6>1. memory'[1] = memory[1] /\ Len(memory') = Len(memory) + 1 /\ Len(memory) \in Nat
            BY <4>1, <5>2, AppendMemory DEF TypeOK
          <6>2. Len(<<>>) = 0
            OBVIOUS
          <6> QED
            BY <6>1, <6>2
        <5> QED
          BY <2>1, <5>1, <5>2
      <4> QED
        BY <2>1, <3>2, <4>1, <4>2 DEF First
    <3> QED
      BY <3>1, <3>2
  <2> QED
    BY <1>3, <2>1, <2>3, <2>4
<1>4. ASSUME NEW r \in Records, LogEnqueue(r), pc \notin Holds
      PROVE  HeldInv'
  BY <1>4, PutAdds DEF workerVars
<1>5. ASSUME NEW r \in Records, LogNowhere(r)
      PROVE  HeldInv'
  BY <1>5 DEF LogNowhere, StoreNowhere, queueVars, workerVars, historyVars, First
<1> QED
  BY <1>1, <1>2, <1>3, <1>4, <1>5, ContentSteps

-----------------------------------------------------------------------------
(* The theorems.                                                           *)

LEMMA GoInvInitially ==
    ASSUME ClientAssumption, QueueAssumption, Init
    PROVE  GoInv
<1>1. TypeOK
  BY TypeInit
<1>2. /\ Queued = {} /\ InMemory = {} /\ disk = {} /\ 1 .. Len(memory) = {}
      /\ Stored = {}
  BY DEF Init, QueueInit, Queued, InMemory, Stored, OnDisk
<1>3. ThreadInv /\ CloseInv /\ SessionInv /\ TableInv /\ HeldInv /\ NoLostWakeUp
  BY <1>2 DEF Init, QueueInit, ThreadInv, CloseInv, SessionInv, TableInv, HeldInv,
              NoLostWakeUp, BootPcs, LoopPcs, Ended, OnceBody, Holds
<1>4. LaneInv /\ OrderInv
  BY <1>2 DEF Init, LaneInv, OrderInv
<1>5. BornInv
  BY <1>2 DEF Init, QueueInit, BornInv, LoopPcs
<1> QED
  BY <1>1, <1>3, <1>4, <1>5 DEF GoInv

LEMMA GoInvKept ==
    ASSUME ClientAssumption, QueueAssumption, GoInv, [Next]_vars
    PROVE  GoInv'
BY TypeStep, ThreadKept, CloseKept, SessionKept, TableKept, LaneKept, OrderKept, BornKept, HeldKept,
   WakeUpKept DEF GoInv

LEMMA GoInvariant == Spec => []GoInv
BY ClientAssumption, QueueAssumption, GoInvInitially, GoInvKept, PTL DEF Spec

(* Type correctness, a worker that sends or drops holding a record. *)
THEOREM TypeCorrect == Spec => []TypeOK
BY GoInvariant, PTL DEF GoInv

(* While SQLite does not fail, a record queued behind an idle worker       *)
(* always has its signal on the way or in the channel (worker.go:51).      *)
THEOREM WakesUp == Spec => []NoLostWakeUp
BY GoInvariant, PTL DEF GoInv

(* What is sent was queued in the same run, and the startup clear removes  *)
(* only records of earlier runs.                                           *)
THEOREM RunsIsolated == Spec => []RunsAreIsolated
<1>1. GoInv => RunsAreIsolated
  BY DEF GoInv, BornInv, HeldInv, Holds, RunsAreIsolated
<1> QED
  BY <1>1, GoInvariant, PTL

(* A Shutdown released by workerDone finds the worker past its loop and    *)
(* the database out of everyone's reach, whoever closed the channel; and   *)
(* SQLite closed, but for a worker between taking queueDB and closing it   *)
(* (queue_store.go:183-189).                                               *)
THEOREM ReleasedAtShutdown == Spec => []ShutdownReleases
<1>1. ClientAssumption /\ GoInv => ShutdownReleases
  <2> SUFFICES ASSUME ClientAssumption, GoInv, NEW f \in Closers, caller[f] = "released"
               PROVE  /\ ~queueDB /\ pc \notin BootPcs \cup LoopPcs
                      /\ sqlite => pc = "dbclose"
    BY DEF ShutdownReleases
  <2>1. f \in Callers /\ workerDone /\ once = "over"
    BY DEF ClientAssumption, GoInv, ThreadInv, CloseInv
  <2>2. ~queueDB /\ pc \notin BootPcs \cup LoopPcs
    BY <2>1 DEF GoInv, ThreadInv, Ended, BootPcs, LoopPcs
  <2>3. sqlite => pc = "dbclose"
    BY <2>1, <2>2 DEF GoInv, CloseInv, OnceBody
  <2> QED
    BY <2>2, <2>3
<1> QED
  BY <1>1, ClientAssumption, GoInvariant, PTL

-----------------------------------------------------------------------------
(* The refinement of LogDelivery.                                          *)

(* The lane of each record, as LogDelivery sees it. *)
Put == [r \in Records |-> IF r \in Queued THEN lane[r] ELSE "none"]

LEMMA SameCount == Delivery!Cardinality(Queued) = Cardinality(Queued)
BY DEF Delivery!Cardinality, Cardinality

(* The accepted records are the queued ones, and the lanes are the table   *)
(* and the slice.                                                          *)
LEMMA LanesAgree ==
    ASSUME TypeOK, LaneInv
    PROVE  /\ Delivery!Accepted = Queued
           /\ Delivery!Held("disk") = OnDisk /\ Delivery!Held("memory") = InMemory
           /\ Stored \subseteq Queued
<1>1. Stored \subseteq Records /\ Stored \subseteq Queued
  BY StoredTyped DEF TypeOK, LaneInv, Stored, OnDisk, Queued
<1>2. Delivery!Accepted = Queued
  BY DEF Delivery!Accepted, Queued
<1>3. \A r \in Stored : Put[r] = lane[r]
  BY <1>1 DEF Put
<1>4. /\ \A r \in OnDisk : lane[r] = "disk"
      /\ \A r \in InMemory : lane[r] = "memory"
  BY DEF LaneInv, OnDisk
<1> QED
  BY <1>1, <1>2, <1>3, <1>4 DEF Delivery!Held, Stored, Put

(* The record the worker holds is the oldest of its lane. *)
LEMMA FirstIsOldest ==
    ASSUME TypeOK, LaneInv, OrderInv, First(item), item \in Items
    PROVE  item.rec \in Records /\ item.rec \in Stored /\ Delivery!OldestOf(item.rec)
<1>0. item.rec \in Records /\ item.rec \in Stored
  BY FirstIsStored, StoredTyped DEF TypeOK
<1>1. CASE item.persisted
  <2> DEFINE held == [id |-> item.id, rec |-> item.rec]
  <2>1. held \in disk /\ held.id = item.id /\ held.rec = item.rec
        /\ \A row \in disk : item.id <= row.id
    BY <1>1 DEF First
  <2>2. ASSUME NEW row \in disk
        PROVE  ticket[item.rec] <= ticket[row.rec]
    <3>1. row.id \in Nat /\ item.id \in Nat /\ row.rec \in Records
      BY <2>1, StoredTyped DEF TypeOK
    <3>2. row = held \/ held.id < row.id
      BY <2>1, <3>1 DEF OrderInv
    <3>3. row = held \/ ticket[held.rec] < ticket[row.rec]
      BY <2>1, <3>2 DEF OrderInv
    <3>4. ticket[item.rec] \in Nat /\ ticket[row.rec] \in Nat
      BY <1>0, <3>1 DEF TypeOK
    <3> QED
      BY <2>1, <3>3, <3>4
  <2>3. \A o \in OnDisk : ticket[item.rec] <= ticket[o]
    BY <2>2 DEF OnDisk
  <2>4. item.rec \in Queued /\ lane[item.rec] = "disk"
    BY <1>0, <2>1, LanesAgree DEF LaneInv
  <2>5. Put[item.rec] = "disk"
    BY <1>0, <2>4 DEF Put
  <2> QED
    BY <1>0, <2>3, <2>5, LanesAgree DEF Delivery!OldestOf, Put
<1>2. CASE ~item.persisted
  <2>1. memory # <<>> /\ memory[1] = item.rec /\ 1 \in 1 .. Len(memory)
    BY <1>2 DEF First, TypeOK, QueueTypeOK
  <2>2. ASSUME NEW i \in 1 .. Len(memory)
        PROVE  ticket[item.rec] <= ticket[memory[i]]
    <3>1. i = 1 \/ 1 < i
      OBVIOUS
    <3>2. i = 1 \/ ticket[memory[1]] < ticket[memory[i]]
      BY <2>1, <3>1 DEF OrderInv
    <3>3. memory[i] \in Records
      BY DEF TypeOK, QueueTypeOK
    <3>4. ticket[item.rec] \in Nat /\ ticket[memory[i]] \in Nat
      BY <1>0, <3>3 DEF TypeOK
    <3> QED
      BY <2>1, <3>2, <3>4
  <2>3. \A o \in InMemory : ticket[item.rec] <= ticket[o]
    BY <2>2 DEF InMemory
  <2>4. item.rec \in Queued /\ lane[item.rec] = "memory"
    BY <1>0, <2>1, LanesAgree DEF LaneInv, InMemory
  <2>5. Put[item.rec] = "memory"
    BY <1>0, <2>4 DEF Put
  <2> QED
    BY <1>0, <2>3, <2>5, LanesAgree DEF Delivery!OldestOf, Put
<1> QED
  BY <1>0, <1>1, <1>2

LEMMA InitRefines == Init => Delivery!Init
<1>1. Init => Queued = {} /\ Stored = {} /\ ~SessionOpen
  BY DEF Init, QueueInit, Queued, Stored, OnDisk, InMemory, SessionOpen, LoopPcs
<1> QED
  BY <1>1 DEF Init, Delivery!Init

(* The session and the records received, in the steps that leave the queue *)
(* alone: no session opens, and only a send reaches the API.               *)
LEMMA StillSession ==
    ASSUME TypeOK, SessionInv, StillStep, ~SendStep
    PROVE  received' = received /\ (SessionOpen' => SessionOpen)
<1> USE DEF SessionOpen
<1>1. CASE BootStep /\ ~StartupClear
  BY <1>1 DEF BootStep, Prepare, ConnectOk, ConnectFails, ConnectRefused, historyVars, LoopPcs
<1>2. CASE Loop \/ HealthTick \/ Backoff \/ IdleStep \/ TakeNext \/ NextEmpty
  BY <1>2 DEF Loop, HealthTick, Backoff, IdleStep, IdleDone, IdleWake, TakeNext, NextEmpty,
              historyVars, LoopPcs
<1>3. CASE InitStep /\ ~InitClear
  BY <1>3 DEF InitStep, InitOk, InitFails, InitRefused, CountFailure, DisableRemote,
              historyVars, LoopPcs
<1>4. CASE ExitStep
  BY <1>4 DEF ExitStep, ExitRunning, ExitTake, ExitClose, ExitDone, historyVars, LoopPcs
<1>5. CASE \/ \E r \in Records : LogBegin(r) \/ LogRejected(r) \/ LogSignal(r)
           \/ UNCHANGED vars
  BY <1>5 DEF LogBegin, LogRejected, LogSignal, vars, workerVars, historyVars
<1>6. CASE \E f \in Callers : FlushStep(f) \/ ShutdownStep(f)
  BY <1>6, CallerSteps DEF workerVars
<1> QED
  BY <1>1, <1>2, <1>3, <1>4, <1>5, <1>6 DEF StillStep, LoopStep

LEMMA StepRefines ==
    ASSUME ClientAssumption, GoInv, [Next]_vars
    PROVE  [Delivery!Next]_(Delivery!abstractVars)
<1> DEFINE Stutters == UNCHANGED <<Put, ticket, Stored, received, SessionOpen>>
<1>0. /\ TypeOK /\ SessionInv /\ LaneInv /\ OrderInv /\ HeldInv
      /\ Delivery!Next => [Delivery!Next]_(Delivery!abstractVars)
      /\ Stutters => [Delivery!Next]_(Delivery!abstractVars)
  BY DEF GoInv, Delivery!abstractVars, Put
<1> HIDE DEF Stutters
<1>1. CASE StillStep
  <2>1. UNCHANGED <<Put, ticket, Stored>>
    BY <1>1, StillSteps DEF Still, Put, Queued, Stored, OnDisk, InMemory
  <2>2. CASE SendStep
    <3>1. item \in Items /\ pc = "send" /\ First(item)
      BY <1>0, <2>2 DEF SendStep, SendOk, SendFails, SendRefused, TypeOK, HeldInv, Holds
    <3>2. /\ item.rec \in Records /\ item.rec \in Stored /\ Delivery!OldestOf(item.rec)
          /\ SessionOpen
      BY <1>0, <3>1, FirstIsOldest DEF SessionOpen, SessionInv, LoopPcs, Holds
    <3>3. received' = received \cup {item.rec} \/ received' = received
      BY <2>2 DEF SendStep, SendOk, SendFails, SendRefused, MaybeReceived
    <3>4. CASE received' = received \cup {item.rec}
      <4>1. SessionOpen' \in BOOLEAN
        BY DEF SessionOpen
      <4>2. Delivery!Receive(item.rec)
        BY <2>1, <3>2, <3>4, <4>1 DEF Delivery!Receive, Put
      <4> QED
        BY <1>0, <3>2, <4>2 DEF Delivery!Next
    <3>5. CASE received' = received
      <4>1. CASE SessionOpen'
        BY <1>0, <2>1, <3>2, <3>5, <4>1 DEF Stutters
      <4>2. CASE ~SessionOpen'
        <5>1. SessionOpen' = FALSE
          BY <4>2 DEF SessionOpen
        <5>2. Delivery!Lapse
          BY <2>1, <3>5, <5>1 DEF Delivery!Lapse, Put
        <5> QED
          BY <1>0, <5>2 DEF Delivery!Next
      <4> QED
        BY <4>1, <4>2
    <3> QED
      BY <3>3, <3>4, <3>5
  <2>3. CASE ~SendStep
    <3>1. received' = received /\ (SessionOpen' => SessionOpen)
      BY <1>0, <1>1, <2>3, StillSession
    <3>2. CASE SessionOpen'
      <4>1. SessionOpen' = SessionOpen
        BY <3>1, <3>2 DEF SessionOpen
      <4> QED
        BY <1>0, <2>1, <3>1, <4>1 DEF Stutters
    <3>3. CASE ~SessionOpen'
      <4>1. SessionOpen' = FALSE
        BY <3>3 DEF SessionOpen
      <4>2. Delivery!Lapse
        BY <2>1, <3>1, <4>1 DEF Delivery!Lapse, Put
      <4> QED
        BY <1>0, <4>2 DEF Delivery!Next
    <3> QED
      BY <3>2, <3>3
  <2> QED
    BY <2>2, <2>3
<1>2. CASE StartupClear \/ InitClear
  <2>1. Stored' \in {Stored, InMemory} /\ UNCHANGED <<Put, ticket, received>>
    <3>1. /\ disk' \in {disk, {}} /\ InMemory' = InMemory /\ UNCHANGED <<lane, ticket>>
      BY <1>0, <1>2, ClearRemoves
    <3>2. received' = received
      BY <1>2 DEF StartupClear, InitClear
    <3> QED
      BY <3>1, <3>2 DEF Stored, OnDisk, Put, Queued
  <2>2. ~SessionOpen /\ SessionOpen'
    BY <1>0, <1>2 DEF StartupClear, InitClear, SessionOpen, SessionInv, LoopPcs
  <2>3. SessionOpen' = TRUE
    BY <2>2 DEF SessionOpen
  <2>4. Delivery!Open
    BY <1>0, <2>1, <2>2, <2>3, LanesAgree DEF Delivery!Open, Put
  <2> QED
    BY <1>0, <2>4 DEF Delivery!Next
<1>3. CASE DropSent
  <2>1. /\ pc = "drop" /\ Drop(item) /\ UNCHANGED <<Put, ticket, received, SessionOpen>>
    BY <1>3 DEF DropSent, Put, Queued, SessionOpen, LoopPcs, callVars, historyVars
  <2>2. /\ item \in Items /\ First(item) /\ item.rec \in received
    BY <1>0, <2>1 DEF TypeOK, HeldInv, Holds
  <2>3. item.rec \in Records /\ item.rec \in Stored
    BY <1>0, <2>2, FirstIsOldest
  <2>4. Stored' = Stored \/ Stored' = Stored \ {item.rec}
    BY <1>0, <2>1, <2>2, DropRemoves
  <2>5. CASE Stored' = Stored \ {item.rec}
    <3>1. Delivery!Settle(item.rec)
      BY <2>1, <2>2, <2>3, <2>5 DEF Delivery!Settle, Put
    <3> QED
      BY <1>0, <2>3, <3>1 DEF Delivery!Next
  <2> QED
    BY <1>0, <2>1, <2>4, <2>5 DEF Stutters
<1>4. CASE Restart
  <2>1. /\ Stored' = OnDisk /\ UNCHANGED <<Put, ticket, received>>
    BY <1>4 DEF Restart, QueueRestart, Stored, OnDisk, InMemory, Put, Queued
  <2>2. SessionOpen' = FALSE
    BY <1>4 DEF Restart, SessionOpen, LoopPcs
  <2>3. Delivery!Exit
    BY <1>0, <2>1, <2>2, LanesAgree DEF Delivery!Exit, Put
  <2> QED
    BY <1>0, <2>3 DEF Delivery!Next
<1>5. ASSUME NEW r \in Records, LogEnqueue(r)
      PROVE  Delivery!Next
  <2>1. PICK l \in {"disk", "memory"} : lane' = [lane EXCEPT ![r] = l]
    BY <1>0, <1>5, PutAdds
  <2>2. /\ Stored' = Stored \cup {r} /\ received' = received
        /\ ticket' = [ticket EXCEPT ![r] = Delivery!Cardinality(Delivery!Accepted) + 1]
    BY <1>0, <1>5, PutAdds, SameCount, LanesAgree
  <2>3. SessionOpen' = SessionOpen
    BY <1>0, <1>5, PutAdds DEF SessionOpen, workerVars
  <2>4. r \notin Queued /\ Queued' = Queued \cup {r}
    BY <1>0, <1>5, EnqueueCounts
  <2>5. Put[r] = "none" /\ Put' = [Put EXCEPT ![r] = l]
    BY <1>0, <2>1, <2>4 DEF Put, TypeOK
  <2>6. Delivery!Accept(r, l)
    BY <2>2, <2>3, <2>5 DEF Delivery!Accept, Put
  <2> QED
    BY <2>6 DEF Delivery!Next, Delivery!Lanes
<1>6. ASSUME NEW r \in Records, LogNowhere(r)
      PROVE  Stutters
  <2>1. /\ lane[r] = "none" /\ lane' = [lane EXCEPT ![r] = "nowhere"]
        /\ UNCHANGED <<disk, memory, ticket, received, pc, sender>>
    BY <1>0, <1>6 DEF LogNowhere, StoreNowhere, LaneInv, queueVars, workerVars, historyVars
  <2>2. Queued' = Queued /\ \A o \in Queued : lane'[o] = lane[o]
    BY <1>0, <2>1 DEF Queued, TypeOK
  <2> QED
    BY <2>1, <2>2 DEF Stutters, Put, Stored, OnDisk, InMemory, SessionOpen
<1> QED
  BY <1>0, <1>1, <1>2, <1>3, <1>4, <1>5, <1>6, ContentSteps

(* The Go client implements the contract of LogDelivery: records are       *)
(* accepted in order, sent oldest first of their lane and within a         *)
(* session, dropped once received, and given up unsent only when a session *)
(* opens or the process ends.                                              *)
THEOREM ClientImplementsDelivery == Spec => ImplementsDelivery
<1>1. Init => Delivery!Init
  BY InitRefines
<1>2. GoInv /\ [Next]_vars => [Delivery!Next]_(Delivery!abstractVars)
  BY ClientAssumption, StepRefines
<1> QED
  BY <1>1, <1>2, GoInvariant, PTL DEF Spec, ImplementsDelivery, Delivery!Spec

===============================================================================
