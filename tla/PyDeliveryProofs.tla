-------------------------- MODULE PyDeliveryProofs --------------------------
(***************************************************************************)
(* Safety of delivery in the Python client: no record is lost silently,    *)
(* runs are isolated, an empty queue is drained, a session is reopened     *)
(* only after an outage, the client implements LogDelivery, and a flush()  *)
(* that is alone tells the truth.                                          *)
(***************************************************************************)
EXTENDS PyClientProofs

(* The record the worker posts is still at the head of its lane, and it   *)
(* acknowledges only what the API has received.                           *)
HeldInv ==
    pc \in HoldsItem => /\ Heads(item)
                        /\ pc = "ack" => item.rec \in received

LossInv == RowIds /\ HeldInv /\ NoSilentLoss

-----------------------------------------------------------------------------
(* Most steps leave the contents of the queue and the records' histories   *)
(* alone; at most the API receives a record more.                          *)
KeepsContents ==
    /\ UNCHANGED <<disk, nextId, memory, lost, born, run>>
    /\ Queued' = Queued
    /\ received \subseteq received'

QuietStep ==
    \/ Prepare \/ ConnectStep
    \/ Loop \/ InitializeInstance \/ ReconnectStep
    \/ Peek \/ PeekEmpty \/ Quiet \/ Awake \/ IdleTimeout
    \/ PostStep \/ AckRaises \/ Backoff
    \/ \E r \in Records : SendBegin(r) \/ SendTag(r)
    \/ \E f \in Flushers : FlushStep(f)
    \/ CloseStep
    \/ UNCHANGED vars

LEMMA QuietStepKeeps ==
    ASSUME TypeOK, QuietStep
    PROVE  KeepsContents
<1>0. ASSUME call' = call PROVE Queued' = Queued
  BY <1>0 DEF Queued
<1>1. CASE Prepare \/ ConnectStep
  <2>1. /\ UNCHANGED <<disk, nextId, memory, lost, born, run, call, received>>
    BY <1>1 DEF Prepare, PrepareQueueStorage, ConnectStep, ConnectOk,
                ConnectFails, ConnectRefused, queueVars, callVars, historyVars
  <2> QED
    BY <2>1, <1>0 DEF KeepsContents
<1>2. CASE Loop \/ InitializeInstance \/ ReconnectStep
  <2>1. /\ UNCHANGED <<disk, nextId, memory, lost, born, run, call, received>>
    BY <1>2 DEF Loop, InitializeInstance, ReconnectStep, ReconnectOk,
                ReconnectFails, ReconnectRefused, queueVars, callVars,
                historyVars
  <2> QED
    BY <2>1, <1>0 DEF KeepsContents
<1>3. CASE Peek \/ PeekEmpty \/ Quiet \/ Awake \/ IdleTimeout \/ Backoff \/ AckRaises
  <2>1. /\ UNCHANGED <<disk, nextId, memory, lost, born, run, call, received>>
    BY <1>3 DEF Peek, PeekDisk, PeekMemory, PeekEmpty, PeekNothing, Quiet,
                Awake, IdleTimeout, Backoff, AckRaises, AckFails, queueVars,
                callVars, historyVars
  <2> QED
    BY <2>1, <1>0 DEF KeepsContents
<1>4. CASE PostStep
  <2>1. /\ UNCHANGED <<disk, nextId, memory, lost, born, run, call>>
        /\ received \subseteq received'
    BY <1>4 DEF PostStep, PostOk, PostFails, PostRefused, MaybeReceived,
                queueVars, callVars
  <2> QED
    BY <2>1, <1>0 DEF KeepsContents
<1>5. ASSUME NEW r \in Records, SendBegin(r) \/ SendTag(r)
      PROVE  KeepsContents
  <2>1. UNCHANGED <<disk, nextId, memory, lost, born, run, received>>
    BY <1>5 DEF SendBegin, SendTag, queueVars, historyVars
  <2>2. Queued' = Queued
    BY <1>5 DEF SendBegin, SendTag, Queued, TypeOK
  <2> QED
    BY <2>1, <2>2 DEF KeepsContents
<1>6. CASE CloseStep \/ \E f \in Flushers : FlushStep(f)
  <2>1. UNCHANGED <<disk, nextId, memory, lost, born, run, call, received>>
    BY <1>6 DEF CloseStep, CloseMark, CloseStop, FlushStep, FlushBegin,
                CountPending, FlushDrain, FlushCheck, FlushWait, FlushTimeout,
                queueVars, callVars, historyVars
  <2> QED
    BY <2>1, <1>0 DEF KeepsContents
<1>7. CASE UNCHANGED vars
  <2>1. UNCHANGED <<disk, nextId, memory, lost, born, run, call, received>>
    BY <1>7 DEF vars, queueVars, callVars, historyVars
  <2> QED
    BY <2>1, <1>0 DEF KeepsContents
<1> QED
  BY <1>1, <1>2, <1>3, <1>4, <1>5, <1>6, <1>7 DEF QuietStep

(* The other steps: those that change what is stored. *)
LEMMA StepCases ==
    ASSUME [Next]_vars
    PROVE  \/ QuietStep
           \/ StartupClear \/ ReconnectClear \/ AckSent \/ DropForeign
           \/ \E r \in Records : SendEnqueue(r)
           \/ Restart
BY DEF Next, BootStep, WorkerStep, AckStep, SendStep, QuietStep

-----------------------------------------------------------------------------
(* Row ids and the held item. *)
LEMMA RowIdsStep ==
    ASSUME TypeOK, RowIds, [Next]_vars
    PROVE  RowIds'
<1>1. CASE QuietStep
  BY <1>1, QuietStepKeeps DEF KeepsContents, RowIds
<1>2. CASE StartupClear \/ ReconnectClear
  BY <1>2, RowIdsKept DEF StartupClear, ReconnectClear, ClearPersistentQueue,
                          TypeOK
<1>3. CASE AckSent \/ DropForeign
  BY <1>3, RowIdsKept DEF AckSent, DropForeign, AckPayload, TypeOK
<1>4. ASSUME NEW r \in Records, SendEnqueue(r)
      PROVE  RowIds'
  <2>1. CASE EnqueueOnDisk(r)
    BY <2>1, RowIdsKept DEF TypeOK
  <2>2. CASE EnqueueInMemory(r)
    BY <2>2, RowIdsKept DEF EnqueueInMemory, TypeOK
  <2> QED
    BY <1>4, <2>1, <2>2 DEF SendEnqueue
<1>5. CASE Restart
  BY <1>5, RowIdsKept DEF Restart, QueueRestart, TypeOK
<1> QED
  BY <1>1, <1>2, <1>3, <1>4, <1>5, StepCases

LEMMA HeldStep ==
    ASSUME TypeOK, HeldInv, [Next]_vars
    PROVE  HeldInv'
<1>1. CASE Peek
  <2>1. PICK it \in Peekable :
           /\ PeekDisk(it) \/ PeekMemory(it)
           /\ item' = it
           /\ pc' = IF tag[it.rec] \in {NoSender, sender} THEN "post" ELSE "foreign"
    BY <1>1 DEF Peek
  <2>2. Heads(it)
    BY <2>1, PeekedIsHead DEF TypeOK
  <2>3. UNCHANGED <<disk, memory, persistent>>
    BY <2>1 DEF PeekDisk, PeekMemory
  <2> QED
    BY <2>1, <2>2, <2>3 DEF HeldInv, Heads
<1>2. CASE PostOk
  <2>1. UNCHANGED <<disk, memory, persistent, item>>
    BY <1>2 DEF PostOk, queueVars
  <2> QED
    BY <1>2, <2>1 DEF PostOk, HeldInv, Heads, HoldsItem
<1>3. ASSUME NEW r \in Records, SendEnqueue(r)
      PROVE  HeldInv'
  <2>1. UNCHANGED <<pc, item, received>>
    BY <1>3 DEF SendEnqueue, threadVars
  <2>2. Heads(item) => Heads(item)'
    BY <1>3, <2>1, EnqueueKeepsHead DEF SendEnqueue, TypeOK
  <2> QED
    BY <2>1, <2>2 DEF HeldInv
<1>4. CASE pc' \notin HoldsItem
  BY <1>4 DEF HeldInv
<1>5. CASE UNCHANGED <<pc, item, disk, memory, persistent, received>>
  BY <1>5 DEF HeldInv, Heads
<1>6. ASSUME NEW r \in Records, SendBegin(r) \/ SendTag(r)
      PROVE  HeldInv'
  BY <1>5, <1>6 DEF SendBegin, SendTag, queueVars, threadVars, historyVars
<1>7. ASSUME NEW f \in Flushers, FlushStep(f)
      PROVE  HeldInv'
  BY <1>5, <1>7 DEF FlushStep, FlushBegin, CountPending, FlushDrain,
                    FlushCheck, FlushWait, FlushTimeout, queueVars, threadVars,
                    historyVars
<1>8. CASE CloseStep \/ UNCHANGED vars
  BY <1>5, <1>8 DEF CloseStep, CloseMark, CloseStop, queueVars, threadVars,
                    historyVars, vars
<1>9. CASE BootStep \/ Restart
  BY <1>4, <1>9 DEF BootStep, Prepare, ConnectStep, ConnectOk, ConnectFails,
                    ConnectRefused, StartupClear, Restart, HoldsItem
<1>10. CASE Loop \/ InitializeInstance \/ ReconnectStep \/ ReconnectClear
  BY <1>4, <1>10 DEF Loop, InitializeInstance, ReconnectStep, ReconnectOk,
                     ReconnectFails, ReconnectRefused, ReconnectClear,
                     CountFailure, HoldsItem
<1>11. CASE PeekEmpty \/ Quiet \/ Awake \/ IdleTimeout \/ Backoff
  BY <1>4, <1>11 DEF PeekEmpty, Quiet, Awake, IdleTimeout, Backoff, HoldsItem
<1>12. CASE PostFails \/ PostRefused \/ AckStep
  BY <1>4, <1>12 DEF PostFails, PostRefused, CountFailure, AckStep, AckSent,
                     DropForeign, AckRaises, HoldsItem
<1> QED
  BY <1>1, <1>2, <1>3, <1>6, <1>7, <1>8, <1>9, <1>10, <1>11, <1>12
     DEF Next, WorkerStep, PostStep, SendStep

-----------------------------------------------------------------------------
(* No silent loss. *)

(* A step that gives records up under a cause loses none silently. *)
LEMMA GivingUpIsNamed ==
    ASSUME NoSilentLoss, Queued' = Queued, received' = received,
           NEW cause \in Causes \ {"no"}, LoseAs(cause)
    PROVE  NoSilentLoss'
<1> SUFFICES ASSUME NEW r \in Queued
             PROVE  r \in Stored' \/ r \in received' \/ lost'[r] # "no"
  BY DEF NoSilentLoss
<1>1. r \in Queued /\ r \in Records
  BY DEF Queued
<1>2. lost'[r] = IF r \in Stored /\ r \notin Stored' /\ r \notin received
                 THEN cause ELSE lost[r]
  BY <1>1 DEF LoseAs
<1>3. r \in Stored \/ r \in received \/ lost[r] # "no"
  BY <1>1 DEF NoSilentLoss
<1> QED
  BY <1>2, <1>3

LEMMA LossStep ==
    ASSUME TypeOK, RowIds, HeldInv, NoSilentLoss, [Next]_vars
    PROVE  NoSilentLoss'
<1>1. CASE QuietStep
  <2>1. KeepsContents
    BY <1>1, QuietStepKeeps
  <2>2. Stored' = Stored
    BY <2>1 DEF KeepsContents, Stored, OnDisk, InMemory
  <2> QED
    BY <2>1, <2>2 DEF KeepsContents, NoSilentLoss
<1>2. CASE StartupClear \/ ReconnectClear \/ DropForeign
  <2>1. call' = call /\ received' = received
    BY <1>2 DEF StartupClear, ReconnectClear, DropForeign, callVars
  <2>2. Queued' = Queued
    BY <2>1 DEF Queued
  <2>3. \E cause \in Causes \ {"no"} : LoseAs(cause)
    BY <1>2 DEF StartupClear, ReconnectClear, DropForeign, Causes
  <2> QED
    BY <2>1, <2>2, <2>3, GivingUpIsNamed
<1>3. CASE AckSent
  <2>1. Heads(item) /\ item.rec \in received
    BY <1>3 DEF AckSent, HeldInv, HoldsItem
  <2>2. Stored \subseteq Stored' \cup {item.rec}
    BY <1>3, <2>1, AckRemovesItem DEF AckSent, TypeOK
  <2>3. UNCHANGED <<call, lost, received>>
    BY <1>3 DEF AckSent, callVars, historyVars
  <2> QED
    BY <2>1, <2>2, <2>3 DEF NoSilentLoss, Queued
<1>4. ASSUME NEW r \in Records, SendEnqueue(r)
      PROVE  NoSilentLoss'
  <2>1. Stored' = Stored \cup {r}
    BY <1>4, EnqueueStores DEF SendEnqueue, TypeOK
  <2>2. Queued' \subseteq Queued \cup {r}
    BY <1>4 DEF SendEnqueue, Queued, TypeOK
  <2>3. UNCHANGED <<lost, received>>
    BY <1>4 DEF SendEnqueue
  <2> QED
    BY <2>1, <2>2, <2>3 DEF NoSilentLoss
<1>5. CASE Restart
  <2>1. LoseAs("exit") /\ received' = received /\ "exit" \in Causes \ {"no"}
    BY <1>5 DEF Restart, Causes
  <2>2. Queued' = Queued
    BY <1>5 DEF Restart, Queued, TypeOK
  <2> QED
    BY <2>1, <2>2, GivingUpIsNamed
<1> QED
  BY <1>1, <1>2, <1>3, <1>4, <1>5, StepCases

(* A record that send() reported as queued is in the queue, or received,  *)
(* or given up in a way the code names: whatever SQLite, the API, the     *)
(* scheduler and the end of the process do, for any number of records.    *)
(* The inductive invariant adds why: the worker acknowledges the very     *)
(* record it sent, because nothing else removes the head of a lane and    *)
(* row ids are never reused.                                              *)
THEOREM NothingLostSilently == Spec => []NoSilentLoss
<1>1. Init => LossInv
  BY DEF Init, QueueInit, LossInv, RowIds, HeldInv, NoSilentLoss, HoldsItem,
         Queued
<1>2. TypeOK /\ LossInv /\ [Next]_vars => LossInv'
  BY RowIdsStep, HeldStep, LossStep DEF LossInv
<1>3. LossInv => NoSilentLoss
  BY DEF LossInv
<1> QED
  BY <1>1, <1>2, <1>3, TypeCorrect, PTL DEF Spec

-----------------------------------------------------------------------------
(* Runs are isolated. *)

(* Every record in the queue was queued; what is in memory, and what a    *)
(* worker with a table can read, was queued in this run; before the        *)
(* startup clear the table holds rows of earlier runs only.                *)
BornInv ==
    /\ Stored \subseteq Queued
    /\ \A r \in InMemory : born[r] = run
    /\ pc \in BootPcs => /\ InMemory = {}
                         /\ \A r \in OnDisk : born[r] < run
                         /\ \A r \in Records : call[r] \notin {"tag", "insert"}
    /\ pc \in WorkerPcs /\ persistent => \A r \in OnDisk : born[r] = run
    /\ \A r \in Records : born[r] <= run
    /\ \A r \in Records : lost[r] = "startup" => born[r] < run
    /\ \A r \in Records : lost[r] # "no" => r \in Queued

(* How a step that keeps the contents moves between the constructor and   *)
(* the worker.                                                             *)
LEMMA QuietStepPhase ==
    ASSUME TypeOK, QuietStep
    PROVE  /\ pc' \in BootPcs => pc \in BootPcs
           /\ pc' \in WorkerPcs => pc \in WorkerPcs
           /\ pc' \in WorkerPcs => persistent' = persistent
           /\ pc \in BootPcs =>
                 \A r \in Records : call[r] \notin {"tag", "insert"} =>
                                        call'[r] \notin {"tag", "insert"}
<1> USE DEF BootPcs, WorkerPcs
<1>1. CASE Prepare \/ ConnectStep
  BY <1>1 DEF Prepare, ConnectStep, ConnectOk, ConnectFails, ConnectRefused,
              queueVars, callVars
<1>2. CASE Loop \/ InitializeInstance \/ ReconnectStep
  BY <1>2 DEF Loop, InitializeInstance, ReconnectStep, ReconnectOk,
              ReconnectFails, ReconnectRefused, CountFailure, queueVars,
              callVars
<1>3. CASE Peek \/ PeekEmpty \/ Quiet \/ Awake \/ IdleTimeout \/ Backoff \/ AckRaises
  BY <1>3 DEF Peek, PeekDisk, PeekMemory, PeekEmpty, PeekNothing, Quiet,
              Awake, IdleTimeout, Backoff, AckRaises, AckFails, queueVars,
              callVars
<1>4. CASE PostStep
  BY <1>4 DEF PostStep, PostOk, PostFails, PostRefused, CountFailure,
              queueVars, callVars
<1>5. ASSUME NEW r \in Records, SendBegin(r) \/ SendTag(r)
      PROVE  /\ UNCHANGED <<pc, persistent>>
             /\ pc \in BootPcs =>
                   call[r] = "tag" /\ call' = [call EXCEPT ![r] = "insert"]
  BY <1>5 DEF SendBegin, SendTag, queueVars, threadVars
<1>6. ASSUME NEW f \in Flushers, FlushStep(f)
      PROVE  UNCHANGED <<pc, persistent, call>>
  BY <1>6 DEF FlushStep, FlushBegin, CountPending, FlushDrain, FlushCheck,
              FlushWait, FlushTimeout, queueVars, threadVars, callVars
<1>7. CASE CloseStep \/ UNCHANGED vars
  BY <1>7 DEF CloseStep, CloseMark, CloseStop, vars, queueVars, threadVars,
              callVars
<1> QED
  BY <1>1, <1>2, <1>3, <1>4, <1>5, <1>6, <1>7 DEF QuietStep, TypeOK

LEMMA ClearKeepsBorn ==
    ASSUME TypeOK, BornInv, StartupClear \/ ReconnectClear
    PROVE  BornInv'
<1>1. /\ UNCHANGED <<call, born, run, memory>>
      /\ disk' \subseteq disk
      /\ pc' \in WorkerPcs /\ pc' \notin BootPcs
      /\ persistent' => persistent /\ disk' = {}
  BY DEF StartupClear, ReconnectClear, ClearPersistentQueue, callVars,
         WorkerPcs, BootPcs, TypeOK, QueueTypeOK
<1>2. /\ Queued' = Queued /\ InMemory' = InMemory
      /\ OnDisk' \subseteq OnDisk /\ Stored' \subseteq Stored
      /\ persistent' => OnDisk' = {}
  BY <1>1 DEF Queued, InMemory, OnDisk, Stored
<1>3. ASSUME NEW r \in Records, lost'[r] # "no"
      PROVE  r \in Queued
  BY <1>3 DEF StartupClear, ReconnectClear, LoseAs, BornInv
<1>4. ASSUME NEW r \in Records, lost'[r] = "startup"
      PROVE  born[r] < run
  <2>1. CASE lost[r] = "startup"
    BY <2>1 DEF BornInv
  <2>2. CASE lost[r] # "startup"
    <3>1. StartupClear /\ r \in Stored
      BY <1>4, <2>2 DEF StartupClear, ReconnectClear, LoseAs
    <3>2. pc \in BootPcs
      BY <3>1 DEF StartupClear, BootPcs
    <3> QED
      BY <3>1, <3>2 DEF BornInv, Stored
  <2> QED
    BY <2>1, <2>2
<1> QED
  BY <1>1, <1>2, <1>3, <1>4 DEF BornInv

LEMMA AckKeepsBorn ==
    ASSUME TypeOK, RowIds, HeldInv, BornInv, AckSent \/ DropForeign
    PROVE  BornInv'
<1>1. Heads(item) /\ AckPayload(item)
  BY DEF AckSent, DropForeign, HeldInv, HoldsItem
<1>2. Stored' \subseteq Stored
  BY <1>1, AckRemovesItem DEF TypeOK
<1>3. /\ UNCHANGED <<call, born, run, persistent>>
      /\ disk' \subseteq disk
      /\ pc \in WorkerPcs /\ pc' \in WorkerPcs /\ pc' \notin BootPcs
  BY DEF AckSent, DropForeign, AckPayload, callVars, historyVars, WorkerPcs,
         BootPcs
<1>4. Queued' = Queued /\ OnDisk' \subseteq OnDisk
  BY <1>3 DEF Queued, OnDisk
<1>5. InMemory' \subseteq InMemory
  BY <1>1, AckShrinksLanes DEF TypeOK
<1>6. \A r \in Records : lost'[r] = "startup" => lost[r] = "startup"
  BY DEF AckSent, DropForeign, LoseAs, historyVars
<1>7. \A r \in Records : lost'[r] # "no" => r \in Queued
  BY DEF AckSent, DropForeign, LoseAs, historyVars, BornInv
<1> QED
  BY <1>2, <1>3, <1>4, <1>5, <1>6, <1>7 DEF BornInv

LEMMA EnqueueKeepsBorn ==
    ASSUME ClientAssumption, TypeOK, BornInv,
           NEW r \in Records, SendEnqueue(r)
    PROVE  BornInv'
<1>1. /\ UNCHANGED <<pc, persistent, run, lost>>
      /\ born' = [born EXCEPT ![r] = run]
      /\ call[r] = "insert" /\ r \notin Queued
      /\ pc \notin BootPcs
  BY DEF SendEnqueue, EnqueueOnDisk, EnqueueInMemory, threadVars, Queued, BornInv
<1>2. Stored' = Stored \cup {r}
  BY EnqueueStores DEF SendEnqueue, TypeOK
<1>3. InMemory' \subseteq InMemory \cup {r} /\ OnDisk' \subseteq OnDisk \cup {r}
  BY EnqueueGrowsLanes DEF SendEnqueue, TypeOK
<1>4. Queued' = Queued \cup {r}
  BY DEF SendEnqueue, Queued, TypeOK
<1>5. /\ \A other \in Queued : born'[other] = born[other]
      /\ born'[r] = run
      /\ run \in Nat
  BY <1>1 DEF TypeOK, Queued, ClientAssumption
<1>6. InMemory \subseteq Queued /\ OnDisk \subseteq Queued
  BY DEF BornInv, Stored
<1>7. \A other \in Records : born'[other] <= run
  BY <1>1, <1>5 DEF TypeOK, BornInv
<1>8. \A other \in Records : lost[other] # "no" => other \in Queued
  BY DEF BornInv
<1> QED
  BY <1>1, <1>2, <1>3, <1>4, <1>5, <1>6, <1>7, <1>8 DEF BornInv

LEMMA RestartKeepsBorn ==
    ASSUME ClientAssumption, TypeOK, BornInv, Restart
    PROVE  BornInv'
<1>1. /\ run' = run + 1 /\ run \in Nat
      /\ UNCHANGED <<disk, born>>
      /\ memory' = <<>>
      /\ pc' \in BootPcs /\ pc' \notin WorkerPcs
  BY DEF Restart, QueueRestart, TypeOK, ClientAssumption, BootPcs, WorkerPcs
<1>2. InMemory' = {} /\ OnDisk' = OnDisk /\ Stored' \subseteq Stored
  BY <1>1 DEF InMemory, OnDisk, Stored
<1>3. /\ Queued' = Queued
      /\ \A r \in Records : call'[r] \notin {"tag", "insert"}
  BY DEF Restart, Queued, TypeOK
<1>4. ASSUME NEW r \in Records
      PROVE  born[r] \in Nat /\ born[r] <= run
  <2>1. born[r] \in 0 .. MaxRuns
    BY DEF TypeOK
  <2> QED
    BY <2>1 DEF BornInv
<1>5. \A r \in Records : born[r] < run'
  BY <1>1, <1>4
<1>6. \A r \in Records : lost'[r] # "no" => r \in Queued
  BY DEF Restart, LoseAs, BornInv
<1>7. OnDisk \subseteq Records
  BY DEF OnDisk, TypeOK, QueueTypeOK, Rows
<1> QED
  BY <1>1, <1>2, <1>3, <1>4, <1>5, <1>6, <1>7 DEF BornInv

LEMMA BornStep ==
    ASSUME ClientAssumption, TypeOK, RowIds, HeldInv, BornInv, [Next]_vars
    PROVE  BornInv'
<1>1. CASE QuietStep
  <2>1. KeepsContents
    BY <1>1, QuietStepKeeps
  <2>2. InMemory' = InMemory /\ OnDisk' = OnDisk /\ Stored' = Stored
    BY <2>1 DEF KeepsContents, Stored, OnDisk, InMemory
  <2> QED
    BY <1>1, <2>1, <2>2, QuietStepPhase DEF KeepsContents, BornInv
<1> QED
  BY <1>1, ClearKeepsBorn, AckKeepsBorn, EnqueueKeepsBorn, RestartKeepsBorn,
     StepCases

LEMMA BornIsolates ==
    ASSUME TypeOK, HeldInv, BornInv
    PROVE  RunsAreIsolated
<1>1. ASSUME pc = "post" PROVE born[item.rec] = run
  <2>1. Heads(item) /\ pc \in WorkerPcs
    BY <1>1 DEF HeldInv, HoldsItem, WorkerPcs
  <2>2. CASE item.src = "disk"
    <3>1. persistent /\ item.rec \in OnDisk
      BY <2>1, <2>2 DEF Heads, OnDisk
    <3> QED
      BY <2>1, <3>1 DEF BornInv
  <2>3. CASE item.src = "memory"
    <3>1. memory \in Seq(Records) /\ memory # <<>> /\ memory[1] = item.rec
      BY <2>1, <2>3 DEF Heads, TypeOK, QueueTypeOK
    <3>2. 1 \in 1 .. Len(memory)
      BY <3>1
    <3> QED
      BY <3>1, <3>2 DEF BornInv, InMemory
  <2> QED
    BY <2>1, <2>2, <2>3 DEF Heads
<1> QED
  BY <1>1 DEF RunsAreIsolated, BornInv

(* A run sends only records queued in it, and its startup clear removes   *)
(* none of its own, even when the clear itself fails.                      *)
THEOREM RunsIsolated == Spec => []RunsAreIsolated
<1>1. Init => RowIds /\ HeldInv /\ BornInv
  <2>1. Init => RowIds /\ HeldInv
    BY DEF Init, QueueInit, RowIds, HeldInv, HoldsItem
  <2>2. Init => InMemory = {} /\ OnDisk = {}
    BY DEF Init, QueueInit, InMemory, OnDisk
  <2>3. Init => BornInv
    BY <2>2 DEF Init, QueueInit, BornInv, Stored, Queued, BootPcs, WorkerPcs
  <2> QED
    BY <2>1, <2>3
<1>2. TypeOK /\ RowIds /\ HeldInv /\ BornInv /\ [Next]_vars
        => (RowIds /\ HeldInv /\ BornInv)'
  BY RowIdsStep, HeldStep, BornStep, ClientAssumption
<1>3. TypeOK /\ HeldInv /\ BornInv => RunsAreIsolated
  BY BornIsolates
<1> QED
  BY <1>1, <1>2, <1>3, TypeCorrect, PTL DEF Spec

-----------------------------------------------------------------------------
(* Sessions. *)

(* Where the worker may be without an instance. *)
SessionInv ==
    /\ pc = "clear" => sender # NoSender
    /\ pc \in WorkerPcs /\ sender = NoSender =>
          /\ failures > RetryAttempts
          /\ pc \in {"loop", "init", "reconnect", "backoff"}

LEMMA SessionStep ==
    ASSUME ClientAssumption, TypeOK, SessionInv, [Next]_vars
    PROVE  SessionInv'
<1> USE DEF SessionInv, WorkerPcs
<1>1. CASE BootStep
  BY <1>1 DEF BootStep, Prepare, ConnectStep, ConnectOk, ConnectFails,
              ConnectRefused, StartupClear, ClientAssumption
<1>2. CASE Loop \/ InitializeInstance
  BY <1>2 DEF Loop, InitializeInstance
<1>3. CASE (\E s \in Senders : ReconnectOk(s)) \/ ReconnectRefused \/ ReconnectClear
  BY <1>3 DEF ReconnectOk, ReconnectRefused, ReconnectClear, ClientAssumption
<1>4. CASE ReconnectFails \/ PostFails
  <2>1. CountFailure /\ pc \in {"reconnect", "post"}
    BY <1>4 DEF ReconnectFails, PostFails
  <2> QED
    BY <2>1 DEF CountFailure, ClientAssumption, TypeOK
<1>5. CASE Peek \/ PeekEmpty \/ Quiet \/ Awake \/ IdleTimeout \/ Backoff
  BY <1>5 DEF Peek, PeekEmpty, Quiet, Awake, IdleTimeout, Backoff
<1>6. CASE PostOk \/ PostRefused \/ AckStep
  BY <1>6 DEF PostOk, PostRefused, AckStep, AckSent, DropForeign, AckRaises
<1>7. ASSUME NEW r \in Records, SendStep(r)
      PROVE  SessionInv'
  BY <1>7 DEF SendStep, SendBegin, SendTag, SendEnqueue, threadVars
<1>8. ASSUME NEW f \in Flushers, FlushStep(f)
      PROVE  SessionInv'
  BY <1>8 DEF FlushStep, FlushBegin, FlushDrain, FlushCheck, FlushWait,
              FlushTimeout, threadVars
<1>9. CASE CloseStep \/ Restart \/ UNCHANGED vars
  BY <1>9 DEF CloseStep, CloseMark, CloseStop, Restart, vars, threadVars
<1> QED
  BY <1>1, <1>2, <1>3, <1>4, <1>5, <1>6, <1>7, <1>8, <1>9
     DEF Next, WorkerStep, ReconnectStep, PostStep

(* The worker is without an instance, and so about to open a session that *)
(* discards the table, only after more than retry_attempts consecutive    *)
(* failures.  The invariant needs the places where it can be then: past    *)
(* the loop head the worker always has its instance.                       *)
THEOREM ReconnectsAfterOutage == Spec => []OutageBeforeReconnect
<1>1. Init => SessionInv
  BY DEF Init, SessionInv, WorkerPcs
<1>2. TypeOK /\ SessionInv /\ [Next]_vars => SessionInv'
  BY SessionStep, ClientAssumption
<1>3. SessionInv => OutageBeforeReconnect
  BY DEF SessionInv, OutageBeforeReconnect
<1> QED
  BY <1>1, <1>2, <1>3, TypeCorrect, PTL DEF Spec

-----------------------------------------------------------------------------
(* Draining. *)

(* A step that leaves no fault behind took none. *)
LEMMA NoFaultTaken ==
    ASSUME QueueTypeOK, faults' = 0
    PROVE  ~Fault /\ (NoFault => faults = 0)
BY DEF QueueTypeOK, Fault, NoFault

(* A step that neither writes to the queue nor clears _queue_drained.     *)
LEMMA DrainFrame ==
    ASSUME DrainedWhenEmpty, pc # "prepare",
           UNCHANGED <<disk, memory, persistent>>,
           drained' = drained \/ drained' = TRUE,
           faults' = 0 => faults = 0
    PROVE  DrainedWhenEmpty'
<1> SUFFICES ASSUME faults' = 0, QueueEmpty'
             PROVE  drained'
  BY Zenon DEF DrainedWhenEmpty
<1>1. QueueEmpty
  BY DEF QueueEmpty
<1>2. drained
  BY <1>1, Zenon DEF DrainedWhenEmpty
<1> QED
  BY <1>2, Zenon

LEMMA ClearDrains ==
    ASSUME QueueTypeOK, DrainedWhenEmpty, pc # "prepare", ClearPersistentQueue
    PROVE  DrainedWhenEmpty'
<1> SUFFICES ASSUME faults' = 0, QueueEmpty'
             PROVE  drained'
  BY Zenon DEF DrainedWhenEmpty
<1>1. ~Fault /\ (NoFault => faults = 0)
  BY NoFaultTaken
<1>2. memory' = memory /\ memory' = <<>>
  BY DEF ClearPersistentQueue, QueueEmpty
<1>3. CASE ~persistent
  <2>1. NoFault /\ drained' = drained
    BY <1>3, Zenon DEF ClearPersistentQueue
  <2>2. QueueEmpty
    BY <1>2, <1>3 DEF QueueEmpty
  <2> QED
    BY <1>1, <2>1, <2>2, Zenon DEF DrainedWhenEmpty
<1>4. CASE persistent
  <2>1. drained' = (memory = <<>>)
    BY <1>4, Zenon DEF ClearPersistentQueue
  <2> QED
    BY <1>2, <2>1, Zenon
<1> QED
  BY <1>3, <1>4

LEMMA PrepareDrains ==
    ASSUME QueueTypeOK, PrepareQueueStorage
    PROVE  DrainedWhenEmpty'
<1> SUFFICES ASSUME faults' = 0, QueueEmpty'
             PROVE  drained'
  BY Zenon DEF DrainedWhenEmpty
<1>1. ~Fault
  BY NoFaultTaken
<1>2. persistent' = TRUE /\ drained' = (disk = {}) /\ disk' = disk
  BY <1>1, Zenon DEF PrepareQueueStorage
<1>3. disk = {}
  BY <1>2 DEF QueueEmpty
<1> QED
  BY <1>2, <1>3, Zenon

LEMMA AckDrains ==
    ASSUME QueueTypeOK, NEW it, AckPayload(it)
    PROVE  DrainedWhenEmpty'
<1> SUFFICES ASSUME faults' = 0, QueueEmpty'
             PROVE  drained'
  BY Zenon DEF DrainedWhenEmpty
<1>1. ~Fault
  BY NoFaultTaken
<1>2. drained' = QueueEmpty'
  BY <1>1, Zenon DEF AckPayload
<1> QED
  BY <1>2, Zenon

LEMMA EnqueueFills ==
    ASSUME QueueTypeOK, NEW r \in Records, EnqueueOnDisk(r) \/ EnqueueInMemory(r)
    PROVE  ~QueueEmpty'
<1>1. CASE EnqueueOnDisk(r)
  BY <1>1 DEF EnqueueOnDisk, QueueEmpty
<1>2. CASE EnqueueInMemory(r)
  <2>1. memory' = Append(memory, r) /\ memory \in Seq(Records)
    BY <1>2 DEF EnqueueInMemory, QueueTypeOK
  <2>2. memory' # <<>>
    BY <2>1
  <2> QED
    BY <2>2 DEF QueueEmpty
<1> QED
  BY <1>1, <1>2

(* The steps that keep the contents, once the storage is prepared. *)
LEMMA QuietStepDrains ==
    ASSUME QuietStep, ~Prepare
    PROVE  /\ pc = "prepare" => pc' = "prepare" \/ ConnectStep
           /\ UNCHANGED <<disk, memory, persistent>>
           /\ drained' = drained \/ drained' = TRUE
           /\ NoFault \/ Fault
<1>1. CASE ConnectStep \/ Loop \/ InitializeInstance \/ ReconnectStep
  BY <1>1 DEF ConnectStep, ConnectOk, ConnectFails, ConnectRefused, Loop,
              InitializeInstance, ReconnectStep, ReconnectOk, ReconnectFails,
              ReconnectRefused, queueVars, NoFault
<1>2. CASE Peek \/ PeekEmpty \/ Quiet \/ Awake \/ IdleTimeout \/ Backoff \/ AckRaises
  BY <1>2 DEF Peek, PeekDisk, PeekMemory, PassOverDisk, PeekEmpty,
              PeekNothing, Quiet, Awake, IdleTimeout, Backoff, AckRaises,
              AckFails, queueVars, NoFault
<1>3. CASE PostStep
  BY <1>3 DEF PostStep, PostOk, PostFails, PostRefused, queueVars, NoFault
<1>4. CASE CloseStep \/ UNCHANGED vars
  BY <1>4 DEF CloseStep, CloseMark, CloseStop, vars, queueVars, threadVars, NoFault
<1>5. ASSUME NEW r \in Records, SendBegin(r) \/ SendTag(r)
      PROVE  UNCHANGED <<disk, memory, persistent, drained, faults, pc>>
  BY <1>5 DEF SendBegin, SendTag, queueVars, threadVars
<1>6. ASSUME NEW f \in Flushers, FlushStep(f)
      PROVE  /\ UNCHANGED <<disk, memory, persistent, pc>>
             /\ drained' = drained \/ drained' = TRUE
             /\ NoFault \/ Fault
  BY <1>6 DEF FlushStep, FlushBegin, CountPending, FlushDrain, FlushCheck,
              FlushWait, FlushTimeout, queueVars, threadVars, NoFault
<1> QED
  BY <1>1, <1>2, <1>3, <1>4, <1>5, <1>6 DEF QuietStep, NoFault

LEMMA DrainStep ==
    ASSUME TypeOK, DrainedWhenEmpty, [Next]_vars
    PROVE  DrainedWhenEmpty'
<1>0. QueueTypeOK
  BY DEF TypeOK
<1>1. CASE Prepare
  BY <1>0, <1>1, PrepareDrains DEF Prepare
<1>2. CASE StartupClear \/ ReconnectClear
  BY <1>0, <1>2, ClearDrains DEF StartupClear, ReconnectClear
<1>3. CASE AckSent \/ DropForeign
  BY <1>0, <1>3, AckDrains DEF AckSent, DropForeign
<1>4. CASE \E r \in Records : SendEnqueue(r)
  BY <1>0, <1>4, EnqueueFills DEF SendEnqueue, DrainedWhenEmpty
<1>5. CASE Restart
  BY <1>5 DEF Restart, DrainedWhenEmpty
<1>6. CASE QuietStep /\ ~Prepare
  <2>1. CASE pc' = "prepare"
    BY <2>1 DEF DrainedWhenEmpty
  <2>2. CASE pc' # "prepare"
    <3>1. pc # "prepare"
      BY <1>6, <2>2, QuietStepDrains DEF ConnectStep, ConnectOk, ConnectFails,
                                         ConnectRefused
    <3>2. faults' = 0 => faults = 0
      BY <1>0, <1>6, NoFaultTaken, QuietStepDrains
    <3> QED
      BY <1>6, <3>1, <3>2, QuietStepDrains, DrainFrame, Zenon
  <2> QED
    BY <2>1, <2>2
<1> QED
  BY <1>1, <1>2, <1>3, <1>4, <1>5, <1>6, StepCases

(* With a SQLite that raises nothing, an empty queue is always announced  *)
(* as drained, so no flush() waits for records that are not there.         *)
THEOREM EmptyIsDrained == Spec => []DrainedWhenEmpty
<1>1. Init => DrainedWhenEmpty
  BY DEF Init, DrainedWhenEmpty
<1>2. TypeOK /\ DrainedWhenEmpty /\ [Next]_vars => DrainedWhenEmpty'
  BY DrainStep
<1> QED
  BY <1>1, <1>2, TypeCorrect, PTL DEF Spec

-----------------------------------------------------------------------------
(* Lanes and order. *)

(* Each record is in the lane its send() put it in. *)
LaneInv ==
    /\ \A row \in disk : call[row.rec] = "disk"
    /\ \A r \in InMemory : call[r] = "memory"

(* Both lanes are in the order of the tickets, and the next ticket is      *)
(* above all of them.                                                      *)
OrderInv ==
    /\ \A r \in Queued : ticket[r] <= Cardinality(Queued)
    /\ \A a, b \in disk : a.id < b.id => ticket[a.rec] < ticket[b.rec]
    /\ \A i, j \in 1 .. Len(memory) :
          i < j => ticket[memory[i]] < ticket[memory[j]]

(* The row the worker holds is the oldest of the table. *)
OldestInv ==
    pc \in HoldsItem /\ item.src = "disk" => \A row \in disk : item.id <= row.id

DeliveryInv ==
    /\ TypeOK /\ RowIds /\ HeldInv /\ BornInv /\ SessionInv
    /\ LaneInv /\ OrderInv /\ OldestInv

(* What a step that keeps the contents keeps of the lanes. *)
LEMMA QuietStepLanes ==
    ASSUME TypeOK, QuietStep
    PROVE  /\ UNCHANGED <<disk, memory, ticket>> /\ Queued' = Queued
           /\ \A r \in Queued : call'[r] = call[r]
<1>1. UNCHANGED <<disk, memory>> /\ Queued' = Queued
  BY QuietStepKeeps DEF KeepsContents
<1>2. CASE Prepare \/ ConnectStep \/ Loop \/ InitializeInstance \/ ReconnectStep
  <2>1. UNCHANGED <<ticket, call>>
    BY <1>2 DEF Prepare, ConnectStep, ConnectOk, ConnectFails, ConnectRefused, Loop,
                InitializeInstance, ReconnectStep, ReconnectOk, ReconnectFails,
                ReconnectRefused, callVars, historyVars
  <2> QED
    BY <1>1, <2>1
<1>3. CASE Peek \/ PeekEmpty \/ Quiet \/ Awake \/ IdleTimeout \/ Backoff \/ AckRaises
           \/ PostStep
  <2>1. UNCHANGED <<ticket, call>>
    BY <1>3 DEF Peek, PeekEmpty, Quiet, Awake, IdleTimeout, Backoff, AckRaises, PostStep,
                PostOk, PostFails, PostRefused, callVars, historyVars
  <2> QED
    BY <1>1, <2>1
<1>4. ASSUME NEW r \in Records, SendBegin(r) \/ SendTag(r)
      PROVE  ticket' = ticket /\ \A o \in Queued : call'[o] = call[o]
  BY <1>4 DEF SendBegin, SendTag, Queued, TypeOK, historyVars
<1>5. CASE CloseStep \/ UNCHANGED vars \/ \E f \in Flushers : FlushStep(f)
  <2>1. UNCHANGED <<ticket, call>>
    BY <1>5 DEF CloseStep, CloseMark, CloseStop, FlushStep, FlushBegin, FlushDrain,
                FlushCheck, FlushWait, FlushTimeout, vars, callVars, historyVars
  <2> QED
    BY <1>1, <2>1
<1> QED
  BY <1>1, <1>2, <1>3, <1>4, <1>5 DEF QuietStep

LEMMA AppendMemory ==
    ASSUME QueueTypeOK, NEW r \in Records, memory' = Append(memory, r)
    PROVE  /\ Len(memory) \in Nat
           /\ \A i \in 1 .. Len(memory) : memory'[i] = memory[i]
           /\ memory'[Len(memory) + 1] = r
           /\ \A i \in 1 .. Len(memory') : i = Len(memory) + 1 \/ i \in 1 .. Len(memory)
<1>1. memory \in Seq(Records)
  BY DEF QueueTypeOK
<1>2. Len(memory') = Len(memory) + 1 /\ Len(memory) \in Nat
  BY <1>1
<1>3. /\ \A i \in 1 .. Len(memory) : memory'[i] = memory[i]
      /\ memory'[Len(memory) + 1] = r
  BY <1>1
<1> QED
  BY <1>2, <1>3

LEMMA TailMemory ==
    ASSUME QueueTypeOK, memory # <<>>, memory' = Tail(memory)
    PROVE  /\ 1 \in 1 .. Len(memory)
           /\ \A i \in 1 .. Len(memory') : i \in Int /\ 1 < i + 1 /\ i + 1 \in 1 .. Len(memory)
                                           /\ memory'[i] = memory[i + 1]
<1>1. memory \in Seq(Records)
  BY DEF QueueTypeOK
<1>2. Len(memory) \in Nat \ {0} /\ Len(memory') = Len(memory) - 1
  BY <1>1
<1> QED
  BY <1>1, <1>2

(* What the queue holds is records. *)
LEMMA LanesTyped ==
    ASSUME TypeOK
    PROVE  /\ Stored \subseteq Records
           /\ \A row \in disk : row.rec \in Stored /\ row.id \in Nat
           /\ \A i \in 1 .. Len(memory) : memory[i] \in Stored
<1>1. \A row \in disk : row.rec \in Records /\ row.id \in Nat
  BY DEF TypeOK, QueueTypeOK, Rows
<1>2. \A i \in 1 .. Len(memory) : memory[i] \in Records
  BY DEF TypeOK, QueueTypeOK
<1> QED
  BY <1>1, <1>2 DEF Stored, OnDisk, InMemory

(* Enqueueing puts a record that was in no lane in one, behind what is     *)
(* there, with the next ticket.                                            *)
LEMMA EnqueueAdds ==
    ASSUME ClientAssumption, TypeOK, BornInv, NEW r \in Records, SendEnqueue(r)
    PROVE  /\ call[r] = "insert" /\ r \notin Queued /\ r \notin Stored
           /\ Queued' = Queued \cup {r}
           /\ Cardinality(Queued) \in Nat /\ Cardinality(Queued') = Cardinality(Queued) + 1
           /\ Stored' = Stored \cup {r}
           /\ ticket' = [ticket EXCEPT ![r] = Cardinality(Queued) + 1]
           /\ \/ /\ call' = [call EXCEPT ![r] = "disk"]
                 /\ disk' = disk \cup {[id |-> nextId, rec |-> r]} /\ memory' = memory
              \/ /\ call' = [call EXCEPT ![r] = "memory"]
                 /\ disk' = disk /\ memory' = Append(memory, r)
<1>1. call[r] = "insert" /\ r \notin Queued
  BY DEF SendEnqueue, Queued
<1>2. Queued' = Queued \cup {r}
  BY DEF SendEnqueue, Queued, TypeOK
<1>3. IsFiniteSet(Queued) /\ Cardinality(Queued) \in Nat
  <2>1. Queued \subseteq Records /\ IsFiniteSet(Records)
    BY DEF Queued, ClientAssumption
  <2> QED
    BY <2>1, FS_Subset, FS_CardinalityType
<1>4. Cardinality(Queued') = Cardinality(Queued) + 1
  BY <1>1, <1>2, <1>3, FS_AddElement
<1>5. Stored' = Stored \cup {r} /\ r \notin Stored
  BY <1>1, EnqueueStores DEF SendEnqueue, TypeOK, BornInv
<1>6. \/ /\ call' = [call EXCEPT ![r] = "disk"]
         /\ disk' = disk \cup {[id |-> nextId, rec |-> r]} /\ memory' = memory
      \/ /\ call' = [call EXCEPT ![r] = "memory"]
         /\ disk' = disk /\ memory' = Append(memory, r)
  BY DEF SendEnqueue, EnqueueOnDisk, EnqueueInMemory
<1>7. ticket' = [ticket EXCEPT ![r] = Cardinality(Queued) + 1]
  BY DEF SendEnqueue
<1> QED
  BY <1>1, <1>2, <1>3, <1>4, <1>5, <1>6, <1>7

(* An acknowledgement shortens a lane at its head. *)
LEMMA AckShortens ==
    ASSUME TypeOK, HeldInv, AckSent \/ DropForeign
    PROVE  /\ disk' \subseteq disk /\ InMemory' \subseteq InMemory
           /\ UNCHANGED <<call, ticket>> /\ Queued' = Queued
           /\ memory' = memory \/ (memory # <<>> /\ memory' = Tail(memory))
<1>1. Heads(item) /\ AckPayload(item) /\ UNCHANGED <<call, ticket>>
  BY DEF AckSent, DropForeign, HeldInv, HoldsItem, callVars, historyVars
<1>2. disk' \subseteq disk /\ memory' \in {memory, Tail(memory)}
      /\ (memory = <<>> => memory' = memory)
  BY <1>1 DEF AckPayload
<1>3. InMemory' \subseteq InMemory
  BY <1>1, AckShrinksLanes DEF TypeOK
<1> QED
  BY <1>1, <1>2, <1>3 DEF Queued

(* A clear empties the table or leaves it; a restart empties the memory.   *)
LEMMA ClearLanes ==
    ASSUME StartupClear \/ ReconnectClear
    PROVE  disk' \in {disk, {}} /\ UNCHANGED <<memory, call, ticket, received, sender>>
BY DEF StartupClear, ReconnectClear, ClearPersistentQueue, callVars

LEMMA RestartLanes ==
    ASSUME TypeOK, Restart
    PROVE  /\ disk' = disk /\ memory' = <<>> /\ UNCHANGED <<ticket, received>>
           /\ Queued' = Queued /\ \A r \in Queued : call'[r] = call[r]
           /\ InMemory' = {} /\ 1 .. Len(memory') = {}
<1>1. disk' = disk /\ memory' = <<>> /\ UNCHANGED <<ticket, received>>
  BY DEF Restart, QueueRestart
<1>2. Queued' = Queued /\ \A r \in Queued : call'[r] = call[r]
  BY DEF Restart, Queued, TypeOK
<1>3. 1 .. Len(memory') = {}
  BY <1>1
<1> QED
  BY <1>1, <1>2, <1>3 DEF InMemory

LEMMA LaneStep ==
    ASSUME ClientAssumption, TypeOK, HeldInv, BornInv, LaneInv, [Next]_vars
    PROVE  LaneInv'
<1>0. /\ \A row \in disk : row.rec \in Queued
      /\ InMemory \subseteq Queued
  BY LanesTyped DEF BornInv, Stored, OnDisk, InMemory
<1>1. CASE QuietStep
  BY <1>0, <1>1, QuietStepLanes DEF LaneInv, InMemory
<1>2. CASE StartupClear \/ ReconnectClear
  BY <1>2, ClearLanes DEF LaneInv, InMemory
<1>3. CASE AckSent \/ DropForeign
  BY <1>3, AckShortens DEF LaneInv
<1>4. ASSUME NEW r \in Records, SendEnqueue(r)
      PROVE  LaneInv'
  <2>1. r \notin Queued
    BY <1>4, EnqueueAdds
  <2>2. CASE /\ call' = [call EXCEPT ![r] = "disk"]
             /\ disk' = disk \cup {[id |-> nextId, rec |-> r]} /\ memory' = memory
    <3>1. call'[r] = "disk" /\ \A o \in Queued : call'[o] = call[o]
      BY <2>1, <2>2 DEF TypeOK, Queued
    <3>2. \A row \in disk' : row.rec = r \/ row \in disk
      BY <2>2
    <3> QED
      BY <1>0, <2>2, <3>1, <3>2 DEF LaneInv, InMemory
  <2>3. CASE /\ call' = [call EXCEPT ![r] = "memory"]
             /\ disk' = disk /\ memory' = Append(memory, r)
    <3>1. call'[r] = "memory" /\ \A o \in Queued : call'[o] = call[o]
      BY <2>1, <2>3 DEF TypeOK, Queued
    <3>2. InMemory' \subseteq InMemory \cup {r}
      BY <1>4, EnqueueGrowsLanes DEF SendEnqueue, TypeOK
    <3> QED
      BY <1>0, <2>3, <3>1, <3>2 DEF LaneInv
  <2> QED
    BY <1>4, <2>2, <2>3, EnqueueAdds
<1>5. CASE Restart
  BY <1>0, <1>5, RestartLanes DEF LaneInv
<1> QED
  BY <1>1, <1>2, <1>3, <1>4, <1>5, StepCases

LEMMA OrderStep ==
    ASSUME ClientAssumption, TypeOK, RowIds, HeldInv, BornInv, OrderInv, [Next]_vars
    PROVE  OrderInv'
<1>1. CASE QuietStep
  BY <1>1, QuietStepLanes DEF OrderInv
<1>2. CASE StartupClear \/ ReconnectClear
  BY <1>2, ClearLanes DEF OrderInv, Queued
<1>3. CASE AckSent \/ DropForeign
  <2>1. \A i, j \in 1 .. Len(memory') :
           i < j => ticket[memory'[i]] < ticket[memory'[j]]
    <3>1. CASE memory' = memory
      BY <3>1 DEF OrderInv
    <3>2. CASE memory # <<>> /\ memory' = Tail(memory)
      <4>1. \A i \in 1 .. Len(memory') : i \in Int /\ i + 1 \in 1 .. Len(memory)
                                         /\ memory'[i] = memory[i + 1]
        BY <3>2, TailMemory DEF TypeOK
      <4>2. \A i, j \in 1 .. Len(memory') : i < j => i + 1 < j + 1
        OBVIOUS
      <4> QED
        BY <4>1, <4>2 DEF OrderInv
    <3> QED
      BY <1>3, <3>1, <3>2, AckShortens
  <2> QED
    BY <1>3, <2>1, AckShortens DEF OrderInv
<1>4. ASSUME NEW r \in Records, SendEnqueue(r)
      PROVE  OrderInv'
  <2> DEFINE n == Cardinality(Queued)
             new == [id |-> nextId, rec |-> r]
  <2>1. /\ n \in Nat /\ r \notin Queued /\ r \notin Stored
        /\ Queued' = Queued \cup {r} /\ Cardinality(Queued') = n + 1
        /\ ticket' = [ticket EXCEPT ![r] = n + 1]
    BY <1>4, EnqueueAdds
  <2>2. \A o \in Queued : ticket[o] \in Nat /\ ticket[o] <= n
    BY DEF OrderInv, Queued, TypeOK
  <2>3. \A o \in Stored : o \in Queued /\ o # r
    BY <2>1 DEF BornInv
  <2> HIDE DEF n
  <2>4. ticket'[r] = n + 1 /\ \A o \in Queued : ticket'[o] = ticket[o]
    BY <2>1 DEF TypeOK, Queued
  <2>5. \A o \in Queued' : ticket'[o] <= Cardinality(Queued')
    BY <2>1, <2>2, <2>4
  <2>6. \A o \in Stored : ticket'[o] = ticket[o] /\ ticket'[o] < ticket'[r]
    BY <2>1, <2>2, <2>3, <2>4
  <2>7. /\ \A row \in disk : row.rec \in Stored /\ row.id \in Nat
        /\ \A i \in 1 .. Len(memory) : memory[i] \in Stored
    BY LanesTyped
  <2>8. CASE disk' = disk \cup {new} /\ memory' = memory
    <3>1. nextId \in Nat /\ new.id = nextId /\ new.rec = r
          /\ \A row \in disk : row.id < nextId
      BY DEF RowIds, TypeOK, QueueTypeOK
    <3>2. \A a, b \in disk : a.id < b.id => ticket'[a.rec] < ticket'[b.rec]
      BY <2>6, <2>7 DEF OrderInv
    <3>3. \A a \in disk : ticket'[a.rec] < ticket'[new.rec] /\ ~(new.id < a.id)
      BY <2>6, <2>7, <3>1
    <3>4. \A a, b \in disk' : a.id < b.id => ticket'[a.rec] < ticket'[b.rec]
      BY <2>8, <3>1, <3>2, <3>3
    <3>5. \A i, j \in 1 .. Len(memory') :
             i < j => ticket'[memory'[i]] < ticket'[memory'[j]]
      BY <2>6, <2>7, <2>8 DEF OrderInv
    <3> QED
      BY <2>5, <3>4, <3>5 DEF OrderInv
  <2>9. CASE disk' = disk /\ memory' = Append(memory, r)
    <3>1. /\ Len(memory) \in Nat /\ memory'[Len(memory) + 1] = r
          /\ \A i \in 1 .. Len(memory) : memory'[i] = memory[i]
          /\ \A i \in 1 .. Len(memory') : i = Len(memory) + 1 \/ i \in 1 .. Len(memory)
      BY <2>9, AppendMemory DEF TypeOK
    <3>2. \A a, b \in disk' : a.id < b.id => ticket'[a.rec] < ticket'[b.rec]
      BY <2>6, <2>7, <2>9 DEF OrderInv
    <3>3. \A i, j \in 1 .. Len(memory) :
             i < j => ticket'[memory'[i]] < ticket'[memory'[j]]
      BY <2>6, <2>7, <3>1 DEF OrderInv
    <3>4. \A i \in 1 .. Len(memory) : ticket'[memory'[i]] < ticket'[r]
      BY <2>6, <2>7, <3>1
    <3>5. ASSUME NEW i \in 1 .. Len(memory'), NEW j \in 1 .. Len(memory'), i < j
          PROVE  ticket'[memory'[i]] < ticket'[memory'[j]]
      <4>1. i \in 1 .. Len(memory)
        BY <3>1, <3>5
      <4>2. j \in 1 .. Len(memory) \/ j = Len(memory) + 1
        BY <3>1
      <4> QED
        BY <3>1, <3>3, <3>4, <3>5, <4>1, <4>2
    <3> QED
      BY <2>5, <2>9, <3>2, <3>5 DEF OrderInv
  <2> QED
    BY <1>4, <2>8, <2>9, EnqueueAdds
<1>5. CASE Restart
  BY <1>5, RestartLanes DEF OrderInv
<1> QED
  BY <1>1, <1>2, <1>3, <1>4, <1>5, StepCases

(* Rows are only put behind the one the worker holds. *)
LEMMA OldestStep ==
    ASSUME ClientAssumption, TypeOK, RowIds, HeldInv, BornInv, OldestInv, [Next]_vars
    PROVE  OldestInv'
<1>1. CASE Peek
  <2>1. PICK it \in Peekable : (PeekDisk(it) \/ PeekMemory(it)) /\ item' = it
    BY <1>1 DEF Peek
  <2> QED
    BY <2>1 DEF PeekDisk, PeekMemory, OldestInv
<1>2. CASE pc' \notin HoldsItem
  BY <1>2 DEF OldestInv
<1>3. CASE pc \in HoldsItem /\ item' = item /\ disk' = disk
  BY <1>3 DEF OldestInv
<1>4. ASSUME NEW r \in Records, SendEnqueue(r)
      PROVE  OldestInv'
  <2>1. UNCHANGED <<pc, item>>
    BY <1>4 DEF SendEnqueue, threadVars
  <2>2. ASSUME pc \in HoldsItem, item.src = "disk"
        PROVE  \A row \in disk' : item.id <= row.id
    <3>1. \A row \in disk : item.id <= row.id
      BY <2>2 DEF OldestInv
    <3>2. item.id < nextId /\ item.id \in Nat /\ nextId \in Nat
      <4>1. [id |-> item.id, rec |-> item.rec] \in disk
        BY <2>2 DEF HeldInv, Heads
      <4>2. item.id < nextId
        BY <4>1 DEF RowIds
      <4>3. item.id \in Nat
        BY <4>1, LanesTyped
      <4> QED
        BY <4>2, <4>3 DEF TypeOK, QueueTypeOK
    <3>3. disk' = disk \/ disk' = disk \cup {[id |-> nextId, rec |-> r]}
      BY <1>4, EnqueueAdds
    <3> QED
      BY <3>1, <3>2, <3>3
  <2> QED
    BY <2>1, <2>2 DEF OldestInv
<1>5. CASE PostOk
  BY <1>3, <1>5 DEF PostOk, queueVars, HoldsItem
<1>6. ASSUME NEW r \in Records, SendBegin(r) \/ SendTag(r)
      PROVE  OldestInv'
  <2>1. UNCHANGED <<pc, item, disk>>
    BY <1>6 DEF SendBegin, SendTag, queueVars, threadVars
  <2> QED
    BY <2>1 DEF OldestInv
<1>7. CASE CloseStep \/ UNCHANGED vars \/ \E f \in Flushers : FlushStep(f)
  <2>1. UNCHANGED <<pc, item, disk>>
    BY <1>7 DEF CloseStep, CloseMark, CloseStop, FlushStep, FlushBegin, CountPending,
                FlushDrain, FlushCheck, FlushWait, FlushTimeout, vars, queueVars, threadVars
  <2> QED
    BY <2>1 DEF OldestInv
<1>8. CASE BootStep \/ Restart
  BY <1>2, <1>8 DEF BootStep, Prepare, ConnectStep, ConnectOk, ConnectFails,
                    ConnectRefused, StartupClear, Restart, HoldsItem
<1>9. CASE Loop \/ InitializeInstance \/ ReconnectStep \/ ReconnectClear
  BY <1>2, <1>9 DEF Loop, InitializeInstance, ReconnectStep, ReconnectOk,
                    ReconnectFails, ReconnectRefused, ReconnectClear,
                    CountFailure, HoldsItem
<1>10. CASE PeekEmpty \/ Quiet \/ Awake \/ IdleTimeout \/ Backoff
  BY <1>2, <1>10 DEF PeekEmpty, Quiet, Awake, IdleTimeout, Backoff, HoldsItem
<1>11. CASE PostFails \/ PostRefused \/ AckStep
  BY <1>2, <1>11 DEF PostFails, PostRefused, CountFailure, AckStep, AckSent,
                     DropForeign, AckRaises, HoldsItem
<1> QED
  BY <1>1, <1>4, <1>5, <1>6, <1>7, <1>8, <1>9, <1>10, <1>11
     DEF Next, WorkerStep, PostStep, SendStep

LEMMA DeliveryInvariant == Spec => []DeliveryInv
<1>1. Init => DeliveryInv
  <2>0. ASSUME Init PROVE Queued = {} /\ InMemory = {} /\ OnDisk = {} /\ disk = {}
                          /\ 1 .. Len(memory) = {}
    BY <2>0 DEF Init, QueueInit, Queued, InMemory, OnDisk
  <2>1. Init => TypeOK
    BY TypeInit, ClientAssumption, QueueAssumption
  <2>2. Init => RowIds /\ HeldInv /\ SessionInv /\ OldestInv
    BY DEF Init, QueueInit, RowIds, HeldInv, SessionInv, OldestInv, HoldsItem, WorkerPcs
  <2>3. Init => BornInv
    <3>1. Init => Stored = {} /\ InMemory = {} /\ OnDisk = {}
      BY <2>0 DEF Stored
    <3>2. Init => pc \notin WorkerPcs /\ run = 1
      BY DEF Init, WorkerPcs
    <3>3. Init => \A r \in Records : born[r] = 0 /\ lost[r] = "no" /\ call[r] = "new"
      BY DEF Init
    <3> QED
      BY <3>1, <3>2, <3>3 DEF BornInv
  <2>4. Init => LaneInv /\ OrderInv
    BY <2>0 DEF LaneInv, OrderInv
  <2> QED
    BY <2>1, <2>2, <2>3, <2>4 DEF DeliveryInv
<1>2. DeliveryInv /\ [Next]_vars => DeliveryInv'
  BY TypeStep, RowIdsStep, HeldStep, BornStep, SessionStep, LaneStep, OrderStep, OldestStep,
     ClientAssumption, QueueAssumption DEF DeliveryInv
<1> QED
  BY <1>1, <1>2, PTL DEF Spec

-----------------------------------------------------------------------------
(* The refinement of LogDelivery.                                          *)

(* The lane of each record, as LogDelivery sees it. *)
Put == [r \in Records |-> IF r \in Queued THEN call[r] ELSE "none"]

LEMMA SameCount == Delivery!Cardinality(Queued) = Cardinality(Queued)
BY DEF Delivery!Cardinality, Cardinality

(* The accepted records are the queued ones, and the lanes are the table   *)
(* and the deque.                                                          *)
LEMMA LanesAgree ==
    ASSUME TypeOK, BornInv, LaneInv
    PROVE  /\ Delivery!Accepted = Queued
           /\ Delivery!Held("disk") = OnDisk /\ Delivery!Held("memory") = InMemory
           /\ Stored \subseteq Queued
<1>1. Stored \subseteq Records /\ Stored \subseteq Queued
  BY LanesTyped DEF BornInv
<1>2. Delivery!Accepted = Queued
  BY DEF Delivery!Accepted, Queued
<1>3. \A r \in Stored : Put[r] = call[r]
  BY <1>1 DEF Put
<1>4. /\ \A r \in OnDisk : call[r] = "disk"
      /\ \A r \in InMemory : call[r] = "memory"
  BY DEF LaneInv, OnDisk
<1> QED
  BY <1>1, <1>2, <1>3, <1>4 DEF Delivery!Held, Stored, Put

(* The record the worker holds is the oldest of its lane. *)
LEMMA HeldIsOldest ==
    ASSUME DeliveryInv, pc \in HoldsItem
    PROVE  item.rec \in Records /\ item.rec \in Stored /\ Delivery!OldestOf(item.rec)
<1> USE DEF DeliveryInv
<1>0. Heads(item)
  BY DEF HeldInv
<1>1. CASE item.src = "disk"
  <2> DEFINE held == [id |-> item.id, rec |-> item.rec]
  <2>1. held \in disk /\ held.id = item.id /\ held.rec = item.rec
        /\ \A row \in disk : item.id <= row.id
    BY <1>0, <1>1 DEF Heads, OldestInv
  <2>2. item.rec \in Stored /\ item.rec \in Records /\ item.id \in Nat
    BY <2>1, LanesTyped
  <2>3. ASSUME NEW row \in disk
        PROVE  ticket[item.rec] <= ticket[row.rec]
    <3>1. row.id \in Nat /\ row.rec \in Records
      BY LanesTyped
    <3>2. row = held \/ held.id < row.id
      BY <2>1, <2>2, <3>1 DEF RowIds
    <3>3. row = held \/ ticket[held.rec] < ticket[row.rec]
      BY <2>1, <3>2 DEF OrderInv
    <3>4. ticket[item.rec] \in Nat /\ ticket[row.rec] \in Nat
      BY <2>2, <3>1 DEF TypeOK
    <3> QED
      BY <2>1, <3>3, <3>4
  <2>4. \A o \in OnDisk : ticket[item.rec] <= ticket[o]
    BY <2>3 DEF OnDisk
  <2>5. item.rec \in Queued /\ call[item.rec] = "disk"
    BY <2>1, <2>2, LanesAgree DEF LaneInv
  <2>6. Put[item.rec] = "disk"
    BY <2>2, <2>5 DEF Put
  <2> QED
    BY <2>2, <2>4, <2>6, LanesAgree DEF Delivery!OldestOf, Put
<1>2. CASE item.src = "memory"
  <2>1. memory # <<>> /\ memory[1] = item.rec /\ 1 \in 1 .. Len(memory)
    BY <1>0, <1>2 DEF Heads, TypeOK, QueueTypeOK
  <2>2. item.rec \in Stored /\ item.rec \in Records
    BY <2>1, LanesTyped
  <2>3. ASSUME NEW i \in 1 .. Len(memory)
        PROVE  ticket[item.rec] <= ticket[memory[i]]
    <3>1. i = 1 \/ 1 < i
      OBVIOUS
    <3>2. i = 1 \/ ticket[memory[1]] < ticket[memory[i]]
      BY <2>1, <3>1 DEF OrderInv
    <3>3. memory[i] \in Records
      BY LanesTyped
    <3>4. ticket[item.rec] \in Nat /\ ticket[memory[i]] \in Nat
      BY <2>2, <3>3 DEF TypeOK
    <3> QED
      BY <2>1, <3>2, <3>4
  <2>4. \A o \in InMemory : ticket[item.rec] <= ticket[o]
    BY <2>3 DEF InMemory
  <2>5. item.rec \in Queued /\ call[item.rec] = "memory"
    BY <2>1, <2>2, LanesAgree DEF LaneInv, InMemory
  <2>6. Put[item.rec] = "memory"
    BY <2>2, <2>5 DEF Put
  <2> QED
    BY <2>2, <2>4, <2>6, LanesAgree DEF Delivery!OldestOf, Put
<1> QED
  BY <1>0, <1>1, <1>2 DEF Heads

(* Acknowledging it removes it, and nothing else: no record is in the      *)
(* queue twice.                                                            *)
LEMMA AckRemovesOne ==
    ASSUME DeliveryInv, AckSent \/ DropForeign
    PROVE  Stored' = Stored \ {item.rec}
<1> USE DEF DeliveryInv
<1>0. Heads(item) /\ AckPayload(item)
  BY DEF AckSent, DropForeign, HeldInv, HoldsItem
<1>1. Stored \subseteq Stored' \cup {item.rec} /\ Stored' \subseteq Stored
  BY <1>0, AckRemovesItem DEF TypeOK
<1>2. CASE item.src = "disk"
  <2> DEFINE held == [id |-> item.id, rec |-> item.rec]
  <2>1. held \in disk /\ held.id = item.id /\ held.rec = item.rec
        /\ disk' = {row \in disk : row.id # item.id} /\ memory' = memory
    BY <1>0, <1>2 DEF Heads, AckPayload
  <2>2. ASSUME NEW row \in disk, row.id # item.id
        PROVE  row.rec # item.rec
    <3>1. row.id \in Nat /\ item.id \in Nat /\ row.rec \in Records /\ item.rec \in Records
      BY <2>1, LanesTyped
    <3>2. row.id < held.id \/ held.id < row.id
      BY <2>1, <2>2, <3>1
    <3>3. ticket[row.rec] < ticket[held.rec] \/ ticket[held.rec] < ticket[row.rec]
      BY <2>1, <3>2 DEF OrderInv
    <3>4. ticket[item.rec] \in Nat
      BY <3>1 DEF TypeOK
    <3> QED
      BY <2>1, <3>3, <3>4
  <2>3. item.rec \notin OnDisk'
    BY <2>1, <2>2 DEF OnDisk
  <2>4. item.rec \notin InMemory'
    BY <2>1 DEF LaneInv, InMemory
  <2> QED
    BY <1>1, <2>3, <2>4 DEF Stored
<1>3. CASE item.src = "memory"
  <2>1. memory # <<>> /\ memory[1] = item.rec /\ memory' = Tail(memory) /\ disk' = disk
    BY <1>0, <1>3 DEF Heads, AckPayload, TypeOK, QueueTypeOK
  <2>2. /\ 1 \in 1 .. Len(memory)
        /\ \A i \in 1 .. Len(memory') : 1 < i + 1 /\ i + 1 \in 1 .. Len(memory)
                                        /\ memory'[i] = memory[i + 1]
    BY <2>1, TailMemory DEF TypeOK
  <2>3. ASSUME NEW i \in 1 .. Len(memory')
        PROVE  memory'[i] # item.rec
    <3>1. ticket[memory[1]] < ticket[memory[i + 1]]
      BY <2>2 DEF OrderInv
    <3>2. memory[1] \in Records
      BY <2>2, LanesTyped
    <3>3. ticket[memory[1]] \in Nat
      BY <3>2 DEF TypeOK
    <3> QED
      BY <2>1, <2>2, <3>1, <3>3
  <2>4. item.rec \notin InMemory'
    BY <2>3 DEF InMemory
  <2>5. item.rec \notin OnDisk'
    <3>1. item.rec \in InMemory
      BY <2>1, <2>2 DEF InMemory
    <3> QED
      BY <2>1, <3>1 DEF LaneInv, OnDisk
  <2> QED
    BY <1>1, <2>4, <2>5 DEF Stored
<1> QED
  BY <1>0, <1>2, <1>3 DEF Heads

LEMMA InitRefines == Init => Delivery!Init
<1>1. Init => Queued = {} /\ Stored = {} /\ ~SessionOpen
  BY DEF Init, QueueInit, Queued, Stored, OnDisk, InMemory, SessionOpen, WorkerPcs
<1> QED
  BY <1>1 DEF Init, Delivery!Init

(* The session in the steps that keep the contents: none opens, and only a *)
(* post reaches the API.                                                   *)
LEMMA QuietSession ==
    ASSUME TypeOK, SessionInv, QuietStep, ~PostStep
    PROVE  received' = received /\ (SessionOpen' => SessionOpen)
<1> USE DEF SessionOpen, WorkerPcs
<1>1. CASE Prepare \/ ConnectStep
  BY <1>1 DEF Prepare, ConnectStep, ConnectOk, ConnectFails, ConnectRefused, historyVars
<1>2. CASE Loop \/ InitializeInstance \/ ReconnectStep
  BY <1>2 DEF Loop, InitializeInstance, ReconnectStep, ReconnectOk, ReconnectFails,
              ReconnectRefused, CountFailure, historyVars
<1>3. CASE Peek \/ PeekEmpty \/ Quiet \/ Awake \/ IdleTimeout \/ Backoff \/ AckRaises
  BY <1>3 DEF Peek, PeekEmpty, Quiet, Awake, IdleTimeout, Backoff, AckRaises, historyVars
<1>4. CASE \/ \E r \in Records : SendBegin(r) \/ SendTag(r)
           \/ CloseStep \/ UNCHANGED vars
  BY <1>4 DEF SendBegin, SendTag, CloseStep, CloseMark, CloseStop, vars, threadVars,
              historyVars
<1>5. CASE \E f \in Flushers : FlushStep(f)
  BY <1>5 DEF FlushStep, FlushBegin, FlushDrain, FlushCheck, FlushWait, FlushTimeout,
              threadVars, historyVars
<1> QED
  BY <1>1, <1>2, <1>3, <1>4, <1>5 DEF QuietStep

LEMMA StepRefines ==
    ASSUME ClientAssumption, DeliveryInv, [Next]_vars
    PROVE  [Delivery!Next]_(Delivery!abstractVars)
<1> DEFINE Stutters == UNCHANGED <<Put, ticket, Stored, received, SessionOpen>>
<1>0. /\ TypeOK /\ HeldInv /\ BornInv /\ SessionInv /\ LaneInv
      /\ Delivery!Next => [Delivery!Next]_(Delivery!abstractVars)
      /\ Stutters => [Delivery!Next]_(Delivery!abstractVars)
  BY DEF DeliveryInv, Delivery!abstractVars, Put
<1> HIDE DEF Stutters
<1>1. CASE QuietStep
  <2>1. UNCHANGED <<Put, ticket, Stored>>
    BY <1>0, <1>1, QuietStepLanes DEF Put, Stored, OnDisk, InMemory
  <2>2. CASE PostStep
    <3>1. pc = "post" /\ received' \in {received, received \cup {item.rec}}
      BY <2>2 DEF PostStep, PostOk, PostFails, PostRefused, MaybeReceived
    <3>2. /\ item.rec \in Records /\ item.rec \in Stored /\ Delivery!OldestOf(item.rec)
          /\ SessionOpen
      BY <1>0, <3>1, HeldIsOldest DEF HoldsItem, SessionOpen, SessionInv, WorkerPcs
    <3>3. CASE received' = received \cup {item.rec}
      <4>1. SessionOpen' \in BOOLEAN
        BY DEF SessionOpen
      <4>2. Delivery!Receive(item.rec)
        BY <2>1, <3>2, <3>3, <4>1 DEF Delivery!Receive, Put
      <4> QED
        BY <1>0, <3>2, <4>2 DEF Delivery!Next
    <3>4. CASE received' = received
      <4>1. CASE SessionOpen'
        BY <1>0, <2>1, <3>2, <3>4, <4>1 DEF Stutters
      <4>2. CASE ~SessionOpen'
        <5>1. SessionOpen' = FALSE
          BY <4>2 DEF SessionOpen
        <5>2. Delivery!Lapse
          BY <2>1, <3>4, <5>1 DEF Delivery!Lapse, Put
        <5> QED
          BY <1>0, <5>2 DEF Delivery!Next
      <4> QED
        BY <4>1, <4>2
    <3> QED
      BY <3>1, <3>3, <3>4
  <2>3. CASE ~PostStep
    <3>1. received' = received /\ (SessionOpen' => SessionOpen)
      BY <1>0, <1>1, <2>3, QuietSession
    <3>2. CASE SessionOpen'
      <4>1. SessionOpen' = SessionOpen
        BY <3>1, <3>2 DEF SessionOpen
      <4> QED
        BY <1>0, <2>1, <3>1, <4>1 DEF Stutters
    <3>3. CASE ~SessionOpen'
      <4>1. SessionOpen' = FALSE
        BY <3>3 DEF SessionOpen
      <4>2. Delivery!Lapse
        BY <2>1, <3>1, <4>1 DEF Delivery!Lapse, Put
      <4> QED
        BY <1>0, <4>2 DEF Delivery!Next
    <3> QED
      BY <3>2, <3>3
  <2> QED
    BY <2>2, <2>3
<1>2. CASE StartupClear \/ ReconnectClear
  <2>1. Stored' \in {Stored, InMemory} /\ UNCHANGED <<Put, ticket, received>>
    BY <1>2, ClearLanes DEF Stored, OnDisk, InMemory, Put, Queued
  <2>2. ~SessionOpen /\ SessionOpen'
    BY <1>0, <1>2 DEF StartupClear, ReconnectClear, SessionOpen, SessionInv, WorkerPcs
  <2>3. SessionOpen' = TRUE
    BY <2>2 DEF SessionOpen
  <2>4. Delivery!Open
    BY <1>0, <2>1, <2>2, <2>3, LanesAgree DEF Delivery!Open, Put
  <2> QED
    BY <1>0, <2>4 DEF Delivery!Next
<1>3. CASE AckSent \/ DropForeign
  <2>1. /\ pc \in HoldsItem /\ (AckSent => item.rec \in received)
        /\ pc \in WorkerPcs \ {"reclear"} /\ pc' \in WorkerPcs \ {"reclear"}
        /\ sender # NoSender /\ UNCHANGED <<sender, received>>
    BY <1>0, <1>3 DEF AckSent, DropForeign, HoldsItem, HeldInv, SessionInv, WorkerPcs,
                      historyVars
  <2>2. item.rec \in Records /\ item.rec \in Stored /\ Delivery!OldestOf(item.rec)
    BY <2>1, HeldIsOldest
  <2>3. Stored' = Stored \ {item.rec}
    BY <1>3, AckRemovesOne
  <2>4. /\ UNCHANGED <<Put, ticket, received>>
        /\ SessionOpen /\ SessionOpen' = SessionOpen
    BY <1>0, <1>3, <2>1, AckShortens DEF Put, SessionOpen
  <2>5. AckSent => Delivery!Settle(item.rec)
    BY <2>1, <2>2, <2>3, <2>4 DEF Delivery!Settle, Put
  <2>6. DropForeign => Delivery!Reject(item.rec)
    BY <2>2, <2>3, <2>4 DEF Delivery!Reject, Put
  <2> QED
    BY <1>0, <1>3, <2>2, <2>5, <2>6 DEF Delivery!Next
<1>4. ASSUME NEW r \in Records, SendEnqueue(r)
      PROVE  Delivery!Next
  <2>1. PICK l \in {"disk", "memory"} : call' = [call EXCEPT ![r] = l]
    BY <1>0, <1>4, EnqueueAdds
  <2>2. /\ Stored' = Stored \cup {r} /\ received' = received
        /\ ticket' = [ticket EXCEPT ![r] = Delivery!Cardinality(Delivery!Accepted) + 1]
    BY <1>0, <1>4, EnqueueAdds, SameCount, LanesAgree DEF SendEnqueue
  <2>3. SessionOpen' = SessionOpen
    BY <1>4 DEF SendEnqueue, SessionOpen, threadVars
  <2>4. r \notin Queued /\ Queued' = Queued \cup {r}
    BY <1>0, <1>4, EnqueueAdds
  <2>5. Put[r] = "none" /\ Put' = [Put EXCEPT ![r] = l]
    BY <1>0, <2>1, <2>4 DEF Put, TypeOK
  <2>6. Delivery!Accept(r, l)
    BY <2>2, <2>3, <2>5 DEF Delivery!Accept, Put
  <2> QED
    BY <2>6 DEF Delivery!Next, Delivery!Lanes
<1>5. CASE Restart
  <2>1. /\ Stored' = OnDisk /\ UNCHANGED <<Put, ticket, received>>
    BY <1>0, <1>5, RestartLanes DEF Stored, OnDisk, Put
  <2>2. SessionOpen' = FALSE
    BY <1>5 DEF Restart, SessionOpen, WorkerPcs
  <2>3. Delivery!Exit
    BY <1>0, <2>1, <2>2, LanesAgree DEF Delivery!Exit, Put
  <2> QED
    BY <1>0, <2>3 DEF Delivery!Next
<1> QED
  BY <1>0, <1>1, <1>2, <1>3, <1>4, <1>5, StepCases

(* The Python client implements the contract of LogDelivery: records are   *)
(* accepted in order, sent oldest first of their lane and within a         *)
(* session, dropped once received, and given up unsent only when a session *)
(* opens, the process ends or the head of a lane is another sender's.      *)
THEOREM ClientImplementsDelivery == Spec => ImplementsDelivery
<1>1. Init => Delivery!Init
  BY InitRefines
<1>2. DeliveryInv /\ [Next]_vars => [Delivery!Next]_(Delivery!abstractVars)
  BY ClientAssumption, StepRefines
<1> QED
  BY <1>1, <1>2, DeliveryInvariant, PTL DEF Spec, ImplementsDelivery, Delivery!Spec

-----------------------------------------------------------------------------
(* flush() tells the truth. *)

(* Nobody is in flush() before the worker starts, and what a flush() is    *)
(* owed was queued.  While SQLite raises nothing the table stays in use;   *)
(* and until a flush() sets _queue_drained late, the event is set on an    *)
(* empty queue only, and what was pending when a flush() that will return  *)
(* True counted, or had counted nothing, is gone.                          *)
FlushInv ==
    /\ pc \in BootPcs => \A f \in Flushers : fl[f] = "idle"
    /\ \A f \in Flushers : owed[f] \subseteq Queued
    /\ faults = 0 /\ pc # "prepare" => persistent
    /\ faults = 0 /\ ~late =>
          /\ pc # "prepare" /\ drained => Stored = {}
          /\ \A f \in Flushers :
                fl[f] \in {"drain", "true"} => owed[f] \cap Stored = {}

(* A queue that pending_count() finds empty, with a table in use, is. *)
LEMMA EmptyIsEmpty ==
    ASSUME persistent, QueueEmpty
    PROVE  Stored = {}
<1>1. disk = {} /\ 1 .. Len(memory) = {}
  BY DEF QueueEmpty
<1> QED
  BY <1>1 DEF Stored, OnDisk, InMemory

(* The steps of the constructor, the worker and send() that leave the      *)
(* queue alone also leave _queue_drained and flush() alone.                *)
LEMMA QuietStepFlush ==
    ASSUME QuietStep, ~Prepare, ~CloseStep, ~(\E f \in Flushers : FlushStep(f))
    PROVE  UNCHANGED <<drained, fl, owed, late>>
<1>1. CASE ConnectStep \/ Loop \/ InitializeInstance \/ ReconnectStep
  BY <1>1 DEF ConnectStep, ConnectOk, ConnectFails, ConnectRefused, Loop,
              InitializeInstance, ReconnectStep, ReconnectOk, ReconnectFails,
              ReconnectRefused, queueVars, historyVars
<1>2. CASE Peek \/ PeekEmpty \/ Quiet \/ Awake \/ IdleTimeout \/ Backoff \/ AckRaises
  BY <1>2 DEF Peek, PeekDisk, PeekMemory, PeekEmpty, PeekNothing, Quiet, Awake,
              IdleTimeout, Backoff, AckRaises, AckFails, queueVars, historyVars
<1>3. CASE PostStep
  BY <1>3 DEF PostStep, PostOk, PostFails, PostRefused, queueVars
<1>4. CASE UNCHANGED vars \/ \E r \in Records : SendBegin(r) \/ SendTag(r)
  BY <1>4 DEF SendBegin, SendTag, vars, queueVars, historyVars
<1> QED
  BY <1>1, <1>2, <1>3, <1>4 DEF QuietStep

LEMMA QuietKeepsFlush ==
    ASSUME TypeOK, FlushInv, QuietStep,
           ~Prepare, ~CloseStep, ~(\E f \in Flushers : FlushStep(f))
    PROVE  FlushInv'
<1>1. UNCHANGED <<drained, fl, owed, late>>
  BY QuietStepFlush
<1>2. UNCHANGED <<disk, memory, persistent>> /\ Queued' = Queued
  BY QuietStepDrains, QuietStepLanes
<1>3. Stored' = Stored
  BY <1>2 DEF Stored, OnDisk, InMemory
<1>4. faults' = 0 => faults = 0
  BY QuietStepDrains, NoFaultTaken DEF TypeOK
<1>5. pc = "prepare" => pc' = "prepare"
  BY QuietStepDrains DEF ConnectStep, ConnectOk, ConnectFails, ConnectRefused
<1>6. pc' \in BootPcs => pc \in BootPcs
  BY QuietStepPhase
<1> QED
  BY <1>1, <1>2, <1>3, <1>4, <1>5, <1>6 DEF FlushInv

(* The steps that set _queue_drained from the queue they leave: an empty   *)
(* table and deque, unless SQLite raised.                                  *)
SetsDrained == Prepare \/ StartupClear \/ ReconnectClear \/ AckSent \/ DropForeign

LEMMA SetFromQueue ==
    ASSUME TypeOK, RowIds, HeldInv, BornInv, FlushInv, faults' = 0, SetsDrained
    PROVE  faults = 0 /\ persistent' /\ Stored' \subseteq Stored /\ (drained' => Stored' = {})
<1>0. QueueTypeOK /\ ~Fault /\ (NoFault => faults = 0)
  BY NoFaultTaken DEF TypeOK
<1>1. CASE Prepare
  <2>1. NoFault /\ persistent' = TRUE /\ drained' = (disk = {})
    BY <1>0, <1>1, Zenon DEF Prepare, PrepareQueueStorage
  <2>2. InMemory = {}
    BY <1>1 DEF Prepare, BornInv, BootPcs
  <2>3. UNCHANGED <<disk, memory>>
    BY <1>1 DEF Prepare, PrepareQueueStorage
  <2>4. OnDisk' = OnDisk /\ InMemory' = {}
    BY <2>2, <2>3 DEF OnDisk, InMemory
  <2>5. drained' => OnDisk = {}
    BY <2>1 DEF OnDisk
  <2> QED
    BY <1>0, <2>1, <2>2, <2>4, <2>5 DEF Stored
<1>2. CASE StartupClear \/ ReconnectClear
  <2>1. ClearPersistentQueue /\ pc # "prepare"
    BY <1>2 DEF StartupClear, ReconnectClear
  <2>2. NoFault /\ memory' = memory
    BY <1>0, <2>1, Zenon DEF ClearPersistentQueue
  <2>3. faults = 0
    BY <1>0, <2>2
  <2>4. persistent
    BY <2>1, <2>3 DEF FlushInv
  <2>5. disk' = {} /\ persistent' = persistent /\ drained' = (memory = <<>>)
    BY <1>0, <2>1, <2>4, Zenon DEF ClearPersistentQueue
  <2>6. OnDisk' = {} /\ InMemory' = InMemory
    BY <2>2, <2>5 DEF OnDisk, InMemory
  <2>7. ASSUME drained' PROVE InMemory = {}
    <3>1. memory = <<>>
      BY <2>5, <2>7
    <3>2. 1 .. Len(memory) = {}
      BY <3>1
    <3> QED
      BY <3>2 DEF InMemory
  <2> QED
    BY <2>3, <2>4, <2>5, <2>6, <2>7 DEF Stored
<1>3. CASE AckSent \/ DropForeign
  <2>1. AckPayload(item) /\ Heads(item) /\ pc # "prepare"
    BY <1>3 DEF AckSent, DropForeign, HeldInv, HoldsItem
  <2>2. NoFault /\ drained' = QueueEmpty'
    BY <1>0, <2>1, Zenon DEF AckPayload
  <2>3. persistent /\ persistent' = persistent /\ faults = 0
    BY <1>0, <2>1, <2>2 DEF AckPayload, FlushInv
  <2>4. QueueEmpty' => Stored' = {}
    <3>1. ASSUME QueueEmpty' PROVE disk' = {} /\ 1 .. Len(memory') = {}
      BY <2>3, <3>1 DEF QueueEmpty
    <3> QED
      BY <3>1 DEF Stored, OnDisk, InMemory
  <2>5. Stored' \subseteq Stored
    BY <1>0, <2>1, AckRemovesItem
  <2> QED
    BY <2>2, <2>3, <2>4, <2>5
<1> QED
  BY <1>1, <1>2, <1>3 DEF SetsDrained

LEMMA SetKeepsFlush ==
    ASSUME ClientAssumption, TypeOK, RowIds, HeldInv, BornInv, FlushInv, SetsDrained
    PROVE  FlushInv'
<1>1. fl' = Release(fl) /\ owed' = owed /\ late' = late /\ Queued' = Queued
  BY DEF SetsDrained, Prepare, StartupClear, ReconnectClear, AckSent, DropForeign, Queued,
         callVars, historyVars
<1>2. \A f \in Flushers :
         fl'[f] = IF drained' /\ fl[f] = "wait" THEN "true" ELSE fl[f]
  BY <1>1 DEF Release
<1>3. pc' \in BootPcs => pc \in BootPcs
  BY DEF SetsDrained, Prepare, StartupClear, ReconnectClear, AckSent, DropForeign, BootPcs
<1>4. pc' \in BootPcs => \A f \in Flushers : fl'[f] = "idle"
  BY <1>2, <1>3 DEF FlushInv
<1>5. \A f \in Flushers : owed'[f] \subseteq Queued'
  BY <1>1 DEF FlushInv
<1>6. faults' = 0 => persistent' /\ (drained' => Stored' = {})
  BY SetFromQueue
<1>7. ASSUME faults' = 0, ~late', NEW f \in Flushers, fl'[f] \in {"drain", "true"}
      PROVE  owed'[f] \cap Stored' = {}
  <2>1. faults = 0 /\ Stored' \subseteq Stored /\ (drained' => Stored' = {})
    BY <1>7, SetFromQueue
  <2>2. CASE drained'
    BY <2>1, <2>2
  <2>3. CASE ~drained'
    <3>1. fl'[f] = fl[f]
      BY <1>2, <2>3
    <3> QED
      BY <1>1, <1>7, <2>1, <3>1 DEF FlushInv
  <2> QED
    BY <2>2, <2>3
<1> QED
  BY <1>4, <1>5, <1>6, <1>7 DEF FlushInv

(* A record that is enqueued clears _queue_drained, and is owed to nobody. *)
LEMMA EnqueueKeepsFlush ==
    ASSUME ClientAssumption, TypeOK, BornInv, FlushInv, NEW r \in Records, SendEnqueue(r)
    PROVE  FlushInv'
<1>1. /\ r \notin Queued /\ Queued' = Queued \cup {r} /\ Stored' = Stored \cup {r}
      /\ UNCHANGED <<pc, fl, owed, late>>
  BY EnqueueAdds DEF SendEnqueue, threadVars
<1>2. /\ drained' = FALSE /\ persistent' = persistent
      /\ (NoFault \/ Fault)
  BY DEF SendEnqueue, EnqueueOnDisk, EnqueueInMemory
<1>3. faults' = 0 => faults = 0
  BY <1>2, NoFaultTaken DEF TypeOK
<1> QED
  BY <1>1, <1>2, <1>3 DEF FlushInv

(* flush() itself, beside any number of others. *)
LEMMA BeginKeepsFlush ==
    ASSUME TypeOK, BornInv, FlushInv, NEW f \in Flushers, FlushBegin(f)
    PROVE  FlushInv'
<1>0. QueueTypeOK /\ fl \in [Flushers -> FlushPcs] /\ owed \in [Flushers -> SUBSET Records]
  BY DEF TypeOK
<1>1. /\ UNCHANGED <<pc, call, persistent, disk, memory, drained, late>>
      /\ pc \notin BootPcs
      /\ owed' = [owed EXCEPT ![f] = Stored]
  BY DEF FlushBegin, CountPending, threadVars, callVars
<1>2. Queued' = Queued /\ Stored' = Stored
  BY <1>1 DEF Queued, Stored, OnDisk, InMemory
<1>3. PICK zero \in BOOLEAN :
         /\ CountPending(zero)
         /\ fl' = [fl EXCEPT ![f] = IF zero THEN "drain" ELSE "check"]
  BY DEF FlushBegin
<1>4. \A g \in Flushers :
         /\ fl'[g] = IF g # f THEN fl[g] ELSE IF zero THEN "drain" ELSE "check"
         /\ owed'[g] = IF g # f THEN owed[g] ELSE Stored
  BY <1>0, <1>1, <1>3
<1>5. Stored \subseteq Queued
  BY DEF TypeOK, BornInv
<1>6. ASSUME faults' = 0
      PROVE  faults = 0 /\ persistent /\ (zero => Stored = {})
  <2>1. ~Fault /\ (NoFault => faults = 0)
    BY <1>0, <1>6, NoFaultTaken
  <2>2. NoFault /\ zero = QueueEmpty
    BY <1>3, <2>1, Zenon DEF CountPending
  <2>3. faults = 0 /\ persistent
    BY <1>1, <2>1, <2>2 DEF FlushInv, BootPcs
  <2>4. zero => QueueEmpty
    BY <2>2, Zenon
  <2> QED
    BY <2>3, <2>4, EmptyIsEmpty
<1> QED
  BY <1>1, <1>2, <1>4, <1>5, <1>6 DEF FlushInv

LEMMA FlushKeepsFlush ==
    ASSUME TypeOK, BornInv, FlushInv, NEW f \in Flushers, FlushStep(f)
    PROVE  FlushInv'
<1>0. fl \in [Flushers -> FlushPcs]
  BY DEF TypeOK
<1>1. CASE FlushBegin(f)
  BY <1>1, BeginKeepsFlush
<1>2. CASE ~FlushBegin(f)
  <2>1. /\ UNCHANGED <<pc, call, persistent, disk, memory, faults, owed>>
        /\ fl[f] # "idle"
    BY <1>2 DEF FlushStep, FlushDrain, FlushCheck, FlushWait, FlushTimeout, queueVars,
                threadVars, callVars, historyVars
  <2>2. Queued' = Queued /\ Stored' = Stored
    BY <2>1 DEF Queued, Stored, OnDisk, InMemory
  <2>3. pc \notin BootPcs
    BY <2>1 DEF FlushInv
  <2>4. CASE FlushDrain(f)
    <3>1. /\ fl[f] = "drain" /\ late' = (late \/ Stored # {})
          /\ fl' = Release([fl EXCEPT ![f] = "true"])
      BY <2>4 DEF FlushDrain
    <3>2. ~late' => ~late /\ Stored = {}
      BY <3>1
    <3> QED
      BY <2>1, <2>2, <2>3, <3>2 DEF FlushInv
  <2>5. CASE FlushCheck(f)
    <3>1. /\ UNCHANGED <<drained, late>>
          /\ \A g \in Flushers : fl'[g] \in {"drain", "true"} => fl'[g] = fl[g]
      BY <1>0, <2>5 DEF FlushCheck, historyVars
    <3> QED
      BY <2>1, <2>2, <2>3, <3>1 DEF FlushInv
  <2>6. CASE FlushWait(f)
    <3>1. /\ UNCHANGED <<drained, late>>
          /\ \A g \in Flushers :
                fl'[g] \in {"drain", "true"} => fl'[g] = fl[g] \/ drained
      BY <1>0, <2>6 DEF FlushWait, queueVars, historyVars
    <3> QED
      BY <2>1, <2>2, <2>3, <3>1 DEF FlushInv, BootPcs
  <2>7. CASE FlushTimeout(f)
    <3>1. /\ UNCHANGED <<drained, late>>
          /\ \A g \in Flushers : fl'[g] \in {"drain", "true"} => fl'[g] = fl[g]
      BY <1>0, <2>7 DEF FlushTimeout, queueVars, historyVars
    <3> QED
      BY <2>1, <2>2, <2>3, <3>1 DEF FlushInv
  <2> QED
    BY <1>2, <2>4, <2>5, <2>6, <2>7 DEF FlushStep
<1> QED
  BY <1>1, <1>2

LEMMA CloseKeepsFlush ==
    ASSUME ClientAssumption, TypeOK, FlushInv, CloseStep
    PROVE  FlushInv'
<1>1. /\ fl[Closer] # "idle" /\ Closer \in Flushers
      /\ \A f \in Flushers : fl'[f] \in {"drain", "true"} => fl'[f] = fl[f]
      /\ UNCHANGED <<pc, owed, late, drained, call, disk, memory, persistent, faults>>
  BY DEF CloseStep, CloseMark, CloseStop, queueVars, callVars, historyVars, TypeOK,
         ClientAssumption
<1>2. Queued' = Queued /\ Stored' = Stored
  BY <1>1 DEF Queued, Stored, OnDisk, InMemory
<1> QED
  BY <1>1, <1>2 DEF FlushInv

LEMMA RestartKeepsFlush ==
    ASSUME Restart
    PROVE  FlushInv'
<1>1. pc' = "prepare" /\ \A f \in Flushers : fl'[f] = "idle" /\ owed'[f] = {}
  BY DEF Restart
<1> QED
  BY <1>1 DEF FlushInv

(* However many threads call flush(), and however often, a flush() that    *)
(* returns True has seen everything that was pending when it was called    *)
(* leave the queue, while SQLite raises nothing and no flush() of the run  *)
(* has set _queue_drained late (queue_store.py:34-36).                     *)
THEOREM FlushTellsTheTruth == Spec => []FlushTruthUnlessLate
<1>1. Init => FlushInv
  BY DEF Init, QueueInit, FlushInv
<1>2. DeliveryInv /\ FlushInv /\ [Next]_vars => FlushInv'
  <2> SUFFICES ASSUME DeliveryInv, FlushInv, [Next]_vars PROVE FlushInv'
    OBVIOUS
  <2>0. TypeOK /\ RowIds /\ HeldInv /\ BornInv
    BY DEF DeliveryInv
  <2>1. CASE SetsDrained
    BY <2>0, <2>1, SetKeepsFlush, ClientAssumption
  <2>2. CASE \E r \in Records : SendEnqueue(r)
    BY <2>0, <2>2, EnqueueKeepsFlush, ClientAssumption
  <2>3. CASE Restart
    BY <2>3, RestartKeepsFlush
  <2>4. CASE \E f \in Flushers : FlushStep(f)
    BY <2>0, <2>4, FlushKeepsFlush
  <2>5. CASE CloseStep
    BY <2>0, <2>5, CloseKeepsFlush, ClientAssumption
  <2>6. CASE QuietStep /\ ~Prepare /\ ~CloseStep /\ ~(\E f \in Flushers : FlushStep(f))
    BY <2>0, <2>6, QuietKeepsFlush
  <2> QED
    BY <2>1, <2>2, <2>3, <2>4, <2>5, <2>6, StepCases DEF SetsDrained
<1>3. FlushInv => FlushTruthUnlessLate
  BY DEF FlushInv, FlushTruthUnlessLate, FlushTruth
<1> QED
  BY <1>1, <1>2, <1>3, DeliveryInvariant, PTL DEF Spec

===============================================================================
