--------------------------- MODULE PyClientProofs ---------------------------
(***************************************************************************)
(* Theorems about PyClient, for every set of records, senders and flushers *)
(* and every bound.                                                        *)
(***************************************************************************)
EXTENDS PyClient, PyQueueStoreProofs, FiniteSetTheorems

-----------------------------------------------------------------------------
(* Types. *)

(* The number of queued records, which numbers the next one, is a natural. *)
LEMMA QueuedIsCounted ==
    ASSUME ClientAssumption
    PROVE  Cardinality(Queued) \in Nat
<1>1. Queued \subseteq Records
  BY DEF Queued
<1>2. IsFiniteSet(Queued)
  BY <1>1, FS_Subset DEF ClientAssumption
<1> QED
  BY <1>2, FS_CardinalityType

(* Releasing the threads in flush() keeps their states. *)
LEMMA ReleaseTyped ==
    ASSUME NEW state \in [Flushers -> FlushPcs]
    PROVE  Release(state) \in [Flushers -> FlushPcs]
BY DEF Release, FlushPcs

(* Giving records up keeps the causes. *)
LEMMA LoseTyped ==
    ASSUME TypeOK, NEW cause \in Causes, LoseAs(cause)
    PROVE  lost' \in [Records -> Causes]
BY DEF TypeOK, LoseAs

(* A failed exchange keeps the worker's variables typed. *)
LEMMA CountFailureTyped ==
    ASSUME ClientAssumption, TypeOK, CountFailure
    PROVE  /\ failures' \in 0 .. RetryAttempts + 1
           /\ sender' \in Senders \cup {NoSender}
           /\ pc' = "backoff"
BY DEF ClientAssumption, TypeOK, CountFailure

LEMMA BootTyped ==
    ASSUME ClientAssumption, QueueAssumption, TypeOK, BootStep
    PROVE  TypeOK'
<1> USE DEF TypeOK, BootPcs, WorkerPcs, EndPcs, HoldsItem, ClientAssumption
<1>1. CASE Prepare
  <2>1. QueueTypeOK'
    BY <1>1, PrepareTyped DEF Prepare
  <2>2. fl' \in [Flushers -> FlushPcs]
    BY <1>1, ReleaseTyped DEF Prepare
  <2> QED
    BY <1>1, <2>1, <2>2 DEF Prepare, callVars, historyVars
<1>2. CASE \E s \in Senders : ConnectOk(s)
  <2>1. QueueTypeOK'
    BY <1>2, EventsTyped DEF ConnectOk, queueVars, QueueTypeOK
  <2> QED
    BY <1>2, <2>1 DEF ConnectOk, callVars, historyVars
<1>3. CASE ConnectFails
  <2>1. QueueTypeOK'
    BY <1>3, EventsTyped DEF ConnectFails, queueVars, QueueTypeOK
  <2> QED
    BY <1>3, <2>1 DEF ConnectFails, callVars, historyVars
<1>4. CASE ConnectRefused
  <2>1. QueueTypeOK'
    BY <1>4, EventsTyped DEF ConnectRefused, DisableRemote, QueueTypeOK
  <2> QED
    BY <1>4, <2>1 DEF ConnectRefused, DisableRemote, callVars, historyVars
<1>5. CASE StartupClear
  <2>1. QueueTypeOK'
    BY <1>5, ClearTyped DEF StartupClear
  <2>2. fl' \in [Flushers -> FlushPcs]
    BY <1>5, ReleaseTyped DEF StartupClear
  <2>3. lost' \in [Records -> Causes]
    BY <1>5, LoseTyped DEF StartupClear, Causes
  <2> QED
    BY <1>5, <2>1, <2>2, <2>3 DEF StartupClear, callVars
<1> QED
  BY <1>1, <1>2, <1>3, <1>4, <1>5 DEF BootStep, ConnectStep

LEMMA SessionTyped ==
    ASSUME ClientAssumption, QueueAssumption, TypeOK,
           Loop \/ InitializeInstance \/ ReconnectStep \/ ReconnectClear
    PROVE  TypeOK'
<1> USE DEF TypeOK, BootPcs, WorkerPcs, EndPcs, HoldsItem, ClientAssumption
<1>1. CASE Loop \/ InitializeInstance
  <2>1. QueueTypeOK'
    BY <1>1, EventsTyped DEF Loop, InitializeInstance, queueVars, QueueTypeOK
  <2> QED
    BY <1>1, <2>1 DEF Loop, InitializeInstance, callVars, historyVars
<1>2. CASE \E s \in Senders : ReconnectOk(s)
  <2>1. QueueTypeOK'
    BY <1>2, EventsTyped DEF ReconnectOk, queueVars, QueueTypeOK
  <2> QED
    BY <1>2, <2>1 DEF ReconnectOk, callVars, historyVars
<1>3. CASE ReconnectFails
  <2>1. QueueTypeOK'
    BY <1>3, EventsTyped DEF ReconnectFails, queueVars, QueueTypeOK
  <2> QED
    BY <1>3, <2>1, CountFailureTyped DEF ReconnectFails, callVars, historyVars
<1>4. CASE ReconnectRefused
  <2>1. QueueTypeOK'
    BY <1>4, EventsTyped DEF ReconnectRefused, DisableRemote, QueueTypeOK
  <2> QED
    BY <1>4, <2>1 DEF ReconnectRefused, DisableRemote, callVars, historyVars
<1>5. CASE ReconnectClear
  <2>1. QueueTypeOK'
    BY <1>5, ClearTyped DEF ReconnectClear
  <2>2. fl' \in [Flushers -> FlushPcs]
    BY <1>5, ReleaseTyped DEF ReconnectClear
  <2>3. lost' \in [Records -> Causes]
    BY <1>5, LoseTyped DEF ReconnectClear, Causes
  <2> QED
    BY <1>5, <2>1, <2>2, <2>3 DEF ReconnectClear, callVars
<1> QED
  BY <1>1, <1>2, <1>3, <1>4, <1>5 DEF ReconnectStep

LEMMA SendingTyped ==
    ASSUME ClientAssumption, QueueAssumption, TypeOK,
           \/ Peek \/ PeekEmpty \/ Quiet \/ Awake \/ IdleTimeout
           \/ PostStep \/ AckStep \/ Backoff
    PROVE  TypeOK'
<1> USE DEF TypeOK, BootPcs, WorkerPcs, EndPcs, HoldsItem, ClientAssumption
<1>1. CASE Peek
  <2>1. PICK it \in Peekable :
           /\ PeekDisk(it) \/ PeekMemory(it)
           /\ item' = it
           /\ pc' = IF tag[it.rec] \in {NoSender, sender} THEN "post" ELSE "foreign"
    BY <1>1 DEF Peek
  <2>2. QueueTypeOK'
    BY <2>1, ReadsTyped DEF Reads
  <2>3. it \in Items
    BY PeekableItems
  <2> QED
    BY <1>1, <2>1, <2>2, <2>3 DEF Peek, callVars, historyVars
<1>2. CASE PeekEmpty
  <2>1. QueueTypeOK'
    BY <1>2, ReadsTyped DEF PeekEmpty, Reads
  <2> QED
    BY <1>2, <2>1 DEF PeekEmpty, callVars, historyVars
<1>3. CASE Quiet
  <2>1. QueueTypeOK'
    BY <1>3, EventsTyped DEF Quiet, QueueTypeOK
  <2> QED
    BY <1>3, <2>1 DEF Quiet, callVars, historyVars
<1>4. CASE Awake \/ IdleTimeout \/ Backoff
  <2>1. QueueTypeOK'
    BY <1>4, EventsTyped DEF Awake, IdleTimeout, Backoff, queueVars, QueueTypeOK
  <2> QED
    BY <1>4, <2>1 DEF Awake, IdleTimeout, Backoff, callVars, historyVars
<1>5. CASE PostStep
  <2>1. QueueTypeOK'
    <3>1. UNCHANGED <<disk, nextId, memory, persistent, drained, faults>>
          /\ wake' \in BOOLEAN
      BY <1>5 DEF PostStep, PostOk, PostFails, PostRefused, DisableRemote,
                  queueVars, QueueTypeOK
    <3> QED
      BY <3>1, EventsTyped DEF QueueTypeOK
  <2>2. item.rec \in Records
    BY <1>5 DEF PostStep, PostOk, PostFails, PostRefused, Items
  <2>3. received' \subseteq Records
    BY <1>5, <2>2 DEF PostStep, PostOk, PostFails, PostRefused, MaybeReceived
  <2>4. CASE PostOk
    BY <2>1, <2>3, <2>4 DEF PostOk, callVars
  <2>5. CASE PostFails
    BY <2>1, <2>3, <2>5, CountFailureTyped DEF PostFails, callVars
  <2>6. CASE PostRefused
    BY <2>1, <2>3, <2>6 DEF PostRefused, DisableRemote, callVars
  <2> QED
    BY <1>5, <2>4, <2>5, <2>6 DEF PostStep
<1>6. CASE AckSent \/ DropForeign
  <2>1. QueueTypeOK'
    BY <1>6, AckTyped DEF AckSent, DropForeign
  <2>2. fl' \in [Flushers -> FlushPcs]
    BY <1>6, ReleaseTyped DEF AckSent, DropForeign
  <2>3. lost' \in [Records -> Causes]
    BY <1>6, LoseTyped DEF AckSent, DropForeign, historyVars, Causes
  <2> QED
    BY <1>6, <2>1, <2>2, <2>3 DEF AckSent, DropForeign, callVars, historyVars
<1>7. CASE AckRaises
  <2>1. QueueTypeOK'
    BY <1>7, ReadsTyped DEF AckRaises, Reads
  <2> QED
    BY <1>7, <2>1 DEF AckRaises, callVars, historyVars
<1> QED
  BY <1>1, <1>2, <1>3, <1>4, <1>5, <1>6, <1>7 DEF AckStep

(* What the queue holds, in the table or in memory, is records. *)
LEMMA StoredTyped ==
    ASSUME disk \subseteq Rows, memory \in Seq(Records)
    PROVE  Stored \subseteq Records
<1>1. OnDisk \subseteq Records
  BY DEF OnDisk, Rows
<1>2. InMemory \subseteq Records
  <2>1. \A i \in 1 .. Len(memory) : memory[i] \in Records
    OBVIOUS
  <2> QED
    BY <2>1 DEF InMemory
<1> QED
  BY <1>1, <1>2 DEF Stored

LEMMA CallersTyped ==
    ASSUME ClientAssumption, QueueAssumption, TypeOK,
           \/ \E r \in Records : SendStep(r)
           \/ \E f \in Flushers : FlushStep(f)
           \/ CloseStep
    PROVE  TypeOK'
<1> USE DEF TypeOK, HoldsItem, CallPcs, FlushPcs, ClientAssumption
<1>1. ASSUME NEW r \in Records, SendBegin(r) \/ SendTag(r)
      PROVE  TypeOK'
  <2>1. QueueTypeOK'
    BY <1>1, EventsTyped DEF SendBegin, SendTag, queueVars, QueueTypeOK
  <2> QED
    BY <1>1, <2>1 DEF SendBegin, SendTag, threadVars, historyVars
<1>2. ASSUME NEW r \in Records, SendEnqueue(r)
      PROVE  TypeOK'
  <2>1. QueueTypeOK'
    BY <1>2, EnqueueTyped DEF SendEnqueue
  <2>2. ticket' \in [Records -> Nat]
    BY <1>2, QueuedIsCounted DEF SendEnqueue
  <2>3. born' \in [Records -> 0 .. MaxRuns]
    BY <1>2 DEF SendEnqueue
  <2> QED
    BY <1>2, <2>1, <2>2, <2>3 DEF SendEnqueue, threadVars
<1>3. ASSUME NEW f \in Flushers, FlushBegin(f)
      PROVE  TypeOK'
  <2>1. QueueTypeOK'
    BY <1>3, ReadsTyped DEF FlushBegin, Reads
  <2>2. Stored \subseteq Records
    <3>1. disk \subseteq Rows /\ memory \in Seq(Records)
      BY ONLY TypeOK DEF QueueTypeOK
    <3> QED
      BY ONLY <3>1, StoredTyped
  <2>3. owed' \in [Flushers -> SUBSET Records]
    BY <1>3, <2>2 DEF FlushBegin
  <2>4. fl' \in [Flushers -> FlushPcs]
    BY <1>3 DEF FlushBegin
  <2> QED
    BY <1>3, <2>1, <2>3, <2>4 DEF FlushBegin, threadVars, callVars
<1>4. ASSUME NEW f \in Flushers, FlushDrain(f)
      PROVE  TypeOK'
  <2>1. QueueTypeOK'
    BY <1>4, EventsTyped DEF FlushDrain, QueueTypeOK
  <2>2. fl' \in [Flushers -> FlushPcs]
    <3>1. [fl EXCEPT ![f] = "true"] \in [Flushers -> FlushPcs]
      OBVIOUS
    <3> QED
      BY <1>4, <3>1, ReleaseTyped DEF FlushDrain
  <2> QED
    BY <1>4, <2>1, <2>2 DEF FlushDrain, threadVars, callVars, historyVars
<1>5. ASSUME NEW f \in Flushers, FlushCheck(f) \/ FlushWait(f) \/ FlushTimeout(f)
      PROVE  TypeOK'
  <2>1. QueueTypeOK'
    BY <1>5, EventsTyped DEF FlushCheck, FlushWait, FlushTimeout, queueVars,
                             QueueTypeOK
  <2> QED
    BY <1>5, <2>1 DEF FlushCheck, FlushWait, FlushTimeout, threadVars,
                      callVars, historyVars
<1>6. CASE CloseStep
  <2>1. QueueTypeOK'
    BY <1>6, EventsTyped DEF CloseStep, CloseMark, CloseStop, queueVars,
                             QueueTypeOK
  <2> QED
    BY <1>6, <2>1 DEF CloseStep, CloseMark, CloseStop, callVars, historyVars
<1> QED
  BY <1>1, <1>2, <1>3, <1>4, <1>5, <1>6 DEF SendStep, FlushStep

LEMMA RestartTyped ==
    ASSUME ClientAssumption, QueueAssumption, TypeOK, Restart
    PROVE  TypeOK'
<1>1. QueueTypeOK'
  BY RestartQueueTyped DEF TypeOK, Restart
<1>2. lost' \in [Records -> Causes]
  BY LoseTyped DEF Restart, Causes
<1>3. /\ pc' \in BootPcs \cup WorkerPcs \cup EndPcs
      /\ pc' \notin HoldsItem
  BY DEF Restart, BootPcs, HoldsItem
<1>4. run' \in 1 .. MaxRuns /\ failures' \in 0 .. RetryAttempts + 1
  BY DEF TypeOK, Restart, ClientAssumption
<1>5. call' \in [Records -> CallPcs]
  BY DEF TypeOK, Restart, CallPcs
<1>6. tag' \in [Records -> Senders \cup {NoSender}]
  BY DEF TypeOK, Restart
<1>7. /\ fl' \in [Flushers -> FlushPcs]
      /\ owed' \in [Flushers -> SUBSET Records] /\ late' \in BOOLEAN
  BY DEF Restart, FlushPcs
<1>8. /\ remote' \in BOOLEAN /\ closed' \in BOOLEAN /\ stop' \in BOOLEAN
      /\ sender' \in Senders \cup {NoSender}
      /\ item' \in Items \cup {NoItem}
      /\ UNCHANGED <<ticket, born, received>>
  BY DEF Restart
<1> QED
  BY <1>1, <1>2, <1>3, <1>4, <1>5, <1>6, <1>7, <1>8 DEF TypeOK

LEMMA StutterTyped ==
    ASSUME TypeOK, UNCHANGED vars
    PROVE  TypeOK'
<1>1. QueueTypeOK'
  <2>1. QueueTypeOK
    BY DEF TypeOK
  <2>2. UNCHANGED <<disk, nextId, memory, persistent, drained, wake, faults>>
    BY DEF vars, queueVars
  <2> QED
    BY <2>1, <2>2 DEF QueueTypeOK
<1>2. /\ UNCHANGED <<pc, remote, closed, stop, sender, item, failures, fl>>
      /\ UNCHANGED <<call, tag, run, ticket, born, received, lost, owed, late>>
  BY DEF vars, threadVars, callVars, historyVars
<1>3. /\ pc' \in BootPcs \cup WorkerPcs \cup EndPcs
      /\ pc' \in HoldsItem => item' \in Items
      /\ call' \in [Records -> CallPcs]
      /\ fl' \in [Flushers -> FlushPcs]
  BY <1>2 DEF TypeOK
<1> QED
  BY <1>1, <1>2, <1>3 DEF TypeOK

LEMMA TypeInit ==
    ASSUME ClientAssumption, QueueAssumption, Init
    PROVE  TypeOK
<1>1. QueueTypeOK
  BY QueueInitTyped DEF Init
<1>2. run \in 1 .. MaxRuns /\ failures \in 0 .. RetryAttempts + 1
  BY DEF Init, ClientAssumption
<1>3. /\ pc \in BootPcs \cup WorkerPcs \cup EndPcs
      /\ item \in Items \cup {NoItem}
      /\ pc \in HoldsItem => item \in Items
  BY DEF Init, BootPcs, HoldsItem
<1>4. /\ call \in [Records -> CallPcs]
      /\ tag \in [Records -> Senders \cup {NoSender}]
      /\ fl \in [Flushers -> FlushPcs]
  BY DEF Init, CallPcs, FlushPcs
<1>5. /\ ticket \in [Records -> Nat]
      /\ born \in [Records -> 0 .. MaxRuns]
      /\ lost \in [Records -> Causes]
      /\ owed \in [Flushers -> SUBSET Records]
  BY DEF Init, ClientAssumption, Causes
<1> QED
  BY <1>1, <1>2, <1>3, <1>4, <1>5 DEF Init, TypeOK

LEMMA TypeStep ==
    ASSUME ClientAssumption, QueueAssumption, TypeOK, [Next]_vars
    PROVE  TypeOK'
BY BootTyped, SessionTyped, SendingTyped, CallersTyped, RestartTyped,
   StutterTyped
   DEF Next, WorkerStep

(* Type correctness: every variable of the client keeps its type through  *)
(* every run, whatever fails, and a worker that posts or acknowledges     *)
(* holds a record (the one place where TypeOK is not about one variable). *)
THEOREM TypeCorrect == Spec => []TypeOK
<1>1. Init => TypeOK
  BY TypeInit, ClientAssumption, QueueAssumption
<1>2. TypeOK /\ [Next]_vars => TypeOK'
  BY TypeStep, ClientAssumption, QueueAssumption
<1> QED
  BY <1>1, <1>2, PTL DEF Spec

=============================================================================
