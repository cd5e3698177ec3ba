------------------------- MODULE PyQueueStoreProofs -------------------------
(***************************************************************************)
(* What each operation of the Python queue does to its state and to the    *)
(* set of stored records.  PyClientProofs cites these lemmas.              *)
(***************************************************************************)
EXTENDS PyQueueStore, TLAPS

(* Row ids identify rows and are below the next one to be given out. *)
RowIds ==
    /\ \A row \in disk : row.id < nextId
    /\ \A a, b \in disk : a.id = b.id => a = b

(* The item a worker holds is still where _peek_payload found it. *)
Heads(it) ==
    \/ /\ it.src = "disk"
       /\ persistent
       /\ [id |-> it.id, rec |-> it.rec] \in disk
    \/ /\ it.src = "memory"
       /\ memory # <<>>
       /\ Head(memory) = it.rec

-----------------------------------------------------------------------------
(* Types. *)
LEMMA FaultCount ==
    ASSUME QueueAssumption, QueueTypeOK, Fault \/ NoFault
    PROVE  faults' \in 0 .. MaxFaults
BY DEF QueueAssumption, QueueTypeOK, Fault, NoFault

LEMMA EventsTyped ==
    ASSUME QueueTypeOK, UNCHANGED <<disk, nextId, memory, persistent, faults>>,
           drained' \in BOOLEAN, wake' \in BOOLEAN
    PROVE  QueueTypeOK'
BY DEF QueueTypeOK

LEMMA QueueInitTyped ==
    ASSUME QueueAssumption, QueueInit
    PROVE  QueueTypeOK
<1>1. memory \in Seq(Records)
  BY DEF QueueInit
<1>2. faults \in 0 .. MaxFaults
  BY DEF QueueInit, QueueAssumption
<1> QED
  BY <1>1, <1>2 DEF QueueInit, QueueTypeOK

LEMMA RestartQueueTyped ==
    ASSUME QueueTypeOK, QueueRestart
    PROVE  QueueTypeOK'
<1>1. memory' \in Seq(Records)
  BY DEF QueueRestart
<1> QED
  BY <1>1 DEF QueueRestart, QueueTypeOK

LEMMA PrepareTyped ==
    ASSUME QueueAssumption, QueueTypeOK, PrepareQueueStorage
    PROVE  QueueTypeOK'
<1>1. faults' \in 0 .. MaxFaults
  BY FaultCount DEF PrepareQueueStorage
<1>2. drained' \in BOOLEAN /\ persistent' \in BOOLEAN
  BY Zenon DEF PrepareQueueStorage, QueueTypeOK
<1>3. UNCHANGED <<disk, nextId, memory, wake>>
  BY DEF PrepareQueueStorage
<1> QED
  BY <1>1, <1>2, <1>3 DEF QueueTypeOK

LEMMA EnqueueTyped ==
    ASSUME QueueAssumption, QueueTypeOK, NEW r \in Records,
           EnqueueOnDisk(r) \/ EnqueueInMemory(r)
    PROVE  QueueTypeOK'
<1>1. faults' \in 0 .. MaxFaults
  BY FaultCount DEF EnqueueOnDisk, EnqueueInMemory
<1>2. CASE EnqueueOnDisk(r)
  <2>1. disk' \subseteq Rows /\ nextId' \in Nat
    BY <1>2 DEF EnqueueOnDisk, QueueTypeOK, Rows
  <2> QED
    BY <1>1, <1>2, <2>1 DEF EnqueueOnDisk, QueueTypeOK
<1>3. CASE EnqueueInMemory(r)
  <2>1. memory' \in Seq(Records)
    BY <1>3 DEF EnqueueInMemory, QueueTypeOK
  <2> QED
    BY <1>1, <1>3, <2>1 DEF EnqueueInMemory, QueueTypeOK
<1> QED
  BY <1>2, <1>3

LEMMA AckTyped ==
    ASSUME QueueAssumption, QueueTypeOK, NEW it, AckPayload(it)
    PROVE  QueueTypeOK'
<1>1. faults' \in 0 .. MaxFaults
  BY FaultCount DEF AckPayload
<1>2. drained' \in BOOLEAN
  BY Zenon DEF AckPayload, QueueEmpty
<1>3. disk' \subseteq Rows
  BY DEF AckPayload, QueueTypeOK
<1>4. memory' \in Seq(Records)
  BY DEF AckPayload, QueueTypeOK
<1> QED
  BY <1>1, <1>2, <1>3, <1>4 DEF AckPayload, QueueTypeOK

LEMMA ClearTyped ==
    ASSUME QueueAssumption, QueueTypeOK, ClearPersistentQueue
    PROVE  QueueTypeOK'
<1>1. faults' \in 0 .. MaxFaults
  BY FaultCount DEF ClearPersistentQueue
<1>2. drained' \in BOOLEAN /\ persistent' \in BOOLEAN
  BY Zenon DEF ClearPersistentQueue, QueueTypeOK
<1>3. disk' \subseteq Rows
  BY DEF ClearPersistentQueue, QueueTypeOK
<1> QED
  BY <1>1, <1>2, <1>3 DEF ClearPersistentQueue, QueueTypeOK

(* The operations that only read: _peek_payload, pending_count, and an    *)
(* acknowledgement whose DELETE raises.                                   *)
Reads(it, zero) ==
    PeekDisk(it) \/ PeekMemory(it) \/ PeekNothing \/ AckFails(it) \/ CountPending(zero)

LEMMA ReadsTyped ==
    ASSUME QueueAssumption, QueueTypeOK, NEW it, NEW zero, Reads(it, zero)
    PROVE  /\ QueueTypeOK'
           /\ UNCHANGED <<disk, nextId, memory, persistent, drained, wake>>
<1>1. Fault \/ NoFault
  BY DEF Reads, PeekDisk, PeekMemory, PeekNothing, PassOverDisk, AckFails,
         CountPending
<1>2. faults' \in 0 .. MaxFaults
  BY <1>1, FaultCount
<1>3. UNCHANGED <<disk, nextId, memory, persistent, drained, wake>>
  BY DEF Reads, PeekDisk, PeekMemory, PeekNothing, AckFails, CountPending
<1> QED
  BY <1>2, <1>3 DEF QueueTypeOK

(* What _peek_payload may return is an item. *)
LEMMA PeekableItems ==
    ASSUME QueueTypeOK
    PROVE  Peekable \subseteq Items
<1>1. ASSUME NEW row \in disk
      PROVE  [src |-> "disk", id |-> row.id, rec |-> row.rec] \in Items
  BY <1>1 DEF QueueTypeOK, Rows, Items
<1>2. ASSUME NEW r \in InMemory
      PROVE  [src |-> "memory", id |-> 0, rec |-> r] \in Items
  <2>1. r \in Records
    BY <1>2 DEF InMemory, QueueTypeOK
  <2> QED
    BY <2>1 DEF Items
<1> QED
  BY <1>1, <1>2 DEF Peekable

-----------------------------------------------------------------------------
(* Contents. *)

(* The fallback lane gains the record. *)
LEMMA EnqueueExtendsMemory ==
    ASSUME QueueTypeOK, NEW r \in Records, EnqueueInMemory(r)
    PROVE  InMemory' = InMemory \cup {r}
<1>1. memory' = Append(memory, r) /\ memory \in Seq(Records)
  BY DEF EnqueueInMemory, QueueTypeOK
<1>2. Len(memory') = Len(memory) + 1 /\ Len(memory) \in Nat
  BY <1>1
<1>3. /\ \A i \in 1 .. Len(memory) : memory'[i] = memory[i]
      /\ memory'[Len(memory) + 1] = r
  BY <1>1
<1>4. \A i \in 1 .. Len(memory') : i = Len(memory) + 1 \/ i \in 1 .. Len(memory)
  BY <1>2
<1> QED
  BY <1>2, <1>3, <1>4 DEF InMemory

(* Enqueueing adds the record to what is stored, and nothing else. *)
LEMMA EnqueueStores ==
    ASSUME QueueTypeOK, NEW r \in Records, EnqueueOnDisk(r) \/ EnqueueInMemory(r)
    PROVE  Stored' = Stored \cup {r}
<1>1. CASE EnqueueOnDisk(r)
  <2>1. disk' = disk \cup {[id |-> nextId, rec |-> r]} /\ memory' = memory
    BY <1>1 DEF EnqueueOnDisk
  <2>2. [id |-> nextId, rec |-> r].rec = r
    OBVIOUS
  <2>3. OnDisk' = OnDisk \cup {r}
    BY <2>1, <2>2 DEF OnDisk
  <2>4. InMemory' = InMemory
    BY <2>1 DEF InMemory
  <2> QED
    BY <2>3, <2>4 DEF Stored
<1>2. CASE EnqueueInMemory(r)
  <2>1. disk' = disk
    BY <1>2 DEF EnqueueInMemory
  <2>2. InMemory' = InMemory \cup {r}
    BY <1>2, EnqueueExtendsMemory
  <2> QED
    BY <2>1, <2>2 DEF Stored, OnDisk
<1> QED
  BY <1>1, <1>2

(* Acknowledging the item the worker holds removes that record only, and  *)
(* adds none.                                                             *)
LEMMA AckRemovesItem ==
    ASSUME QueueTypeOK, RowIds, NEW it, Heads(it), AckPayload(it)
    PROVE  /\ Stored \subseteq Stored' \cup {it.rec}
           /\ Stored' \subseteq Stored
<1>1. CASE it.src = "disk"
  <2>1. /\ [id |-> it.id, rec |-> it.rec] \in disk
        /\ disk' = {row \in disk : row.id # it.id}
        /\ memory' = memory
    BY <1>1 DEF Heads, AckPayload
  <2>2. \A row \in disk : row \in disk' \/ row.rec = it.rec
    BY <2>1 DEF RowIds
  <2> QED
    BY <2>1, <2>2 DEF Stored, OnDisk, InMemory
<1>2. CASE it.src = "memory"
  <2>1. /\ memory \in Seq(Records) /\ memory # <<>>
        /\ memory[1] = it.rec
        /\ memory' = Tail(memory)
        /\ disk' = disk
    BY <1>2 DEF Heads, AckPayload, QueueTypeOK
  <2>2. Len(memory) \in Nat \ {0} /\ Len(memory') = Len(memory) - 1
    BY <2>1
  <2>3. \A i \in 1 .. Len(memory') : memory'[i] = memory[i + 1]
    BY <2>1
  <2>4. ASSUME NEW i \in 1 .. Len(memory), i # 1
        PROVE  memory[i] \in InMemory'
    <3>1. i - 1 \in 1 .. Len(memory')
      BY <2>2, <2>4
    <3>2. memory'[i - 1] = memory[i]
      BY <2>3, <2>4, <3>1
    <3> QED
      BY <3>1, <3>2 DEF InMemory
  <2>5. InMemory \subseteq InMemory' \cup {it.rec}
    BY <2>1, <2>4 DEF InMemory
  <2>6. ASSUME NEW i \in 1 .. Len(memory')
        PROVE  memory'[i] \in InMemory
    <3>1. i + 1 \in 1 .. Len(memory)
      BY <2>2, <2>6
    <3> QED
      BY <2>3, <2>6, <3>1 DEF InMemory
  <2>7. InMemory' \subseteq InMemory
    BY <2>6 DEF InMemory
  <2> QED
    BY <2>1, <2>5, <2>7 DEF Stored, OnDisk
<1> QED
  BY <1>1, <1>2 DEF Heads

(* Lane by lane: an acknowledgement adds nothing to memory, an enqueue at  *)
(* most its record.                                                        *)
LEMMA AckShrinksLanes ==
    ASSUME QueueTypeOK, NEW it, Heads(it), AckPayload(it)
    PROVE  InMemory' \subseteq InMemory
<1>1. CASE memory' = memory
  BY <1>1 DEF InMemory
<1>2. CASE memory' = Tail(memory) /\ memory # <<>>
  <2>1. memory \in Seq(Records)
    BY DEF QueueTypeOK
  <2>2. ASSUME NEW i \in 1 .. Len(memory')
        PROVE  i + 1 \in 1 .. Len(memory) /\ memory'[i] = memory[i + 1]
    BY <1>2, <2>1
  <2> QED
    BY <2>2 DEF InMemory
<1> QED
  BY <1>1, <1>2 DEF AckPayload

LEMMA EnqueueGrowsLanes ==
    ASSUME QueueTypeOK, NEW r \in Records, EnqueueOnDisk(r) \/ EnqueueInMemory(r)
    PROVE  /\ InMemory' \subseteq InMemory \cup {r}
           /\ OnDisk' \subseteq OnDisk \cup {r}
<1>1. CASE EnqueueOnDisk(r)
  BY <1>1 DEF EnqueueOnDisk, OnDisk, InMemory
<1>2. CASE EnqueueInMemory(r)
  <2>1. disk' = disk
    BY <1>2 DEF EnqueueInMemory
  <2>2. InMemory' = InMemory \cup {r}
    BY <1>2, EnqueueExtendsMemory
  <2> QED
    BY <2>1, <2>2 DEF OnDisk
<1> QED
  BY <1>1, <1>2

(* What _peek_payload returns is at the head of its lane. *)
LEMMA PeekedIsHead ==
    ASSUME QueueTypeOK, NEW it \in Peekable, PeekDisk(it) \/ PeekMemory(it)
    PROVE  Heads(it)
<1>1. CASE PeekDisk(it)
  <2>1. PICK row \in disk : it = [src |-> "disk", id |-> row.id, rec |-> row.rec]
    BY <1>1 DEF PeekDisk, Peekable
  <2>2. row = [id |-> row.id, rec |-> row.rec]
    BY <2>1 DEF QueueTypeOK, Rows
  <2> QED
    BY <1>1, <2>1, <2>2 DEF PeekDisk, Heads
<1>2. CASE PeekMemory(it)
  BY <1>2 DEF PeekMemory, Heads
<1> QED
  BY <1>1, <1>2

(* A held item stays at the head of its lane while records are enqueued. *)
LEMMA EnqueueKeepsHead ==
    ASSUME QueueTypeOK, NEW r \in Records, NEW it, Heads(it),
           EnqueueOnDisk(r) \/ EnqueueInMemory(r)
    PROVE  Heads(it)'
<1>1. CASE EnqueueOnDisk(r)
  BY <1>1 DEF EnqueueOnDisk, Heads
<1>2. CASE EnqueueInMemory(r)
  <2>1. memory' = Append(memory, r) /\ memory \in Seq(Records)
        /\ disk' = disk /\ persistent' = persistent
    BY <1>2 DEF EnqueueInMemory, QueueTypeOK
  <2>2. memory' # <<>>
    BY <2>1
  <2>3. memory # <<>> => Head(memory') = Head(memory)
    BY <2>1
  <2> QED
    BY <2>1, <2>2, <2>3 DEF Heads
<1> QED
  BY <1>1, <1>2

(* No operation repeats a row id. *)
LEMMA RowIdsKept ==
    ASSUME QueueTypeOK, RowIds,
           \/ \E r \in Records : EnqueueOnDisk(r)
           \/ nextId' = nextId /\ disk' \subseteq disk
    PROVE  RowIds'
<1>1. ASSUME NEW r \in Records, EnqueueOnDisk(r)
      PROVE  RowIds'
  <2>1. /\ disk' = disk \cup {[id |-> nextId, rec |-> r]}
        /\ nextId' = nextId + 1 /\ nextId \in Nat
        /\ disk \subseteq Rows
    BY <1>1 DEF EnqueueOnDisk, QueueTypeOK
  <2>2. \A row \in disk : row.id \in Nat /\ row.id < nextId
    BY <2>1 DEF Rows, RowIds
  <2>3. \A row \in disk' : row.id < nextId'
    BY <2>1, <2>2
  <2>4. \A a, b \in disk' : a.id = b.id => a = b
    BY <2>1, <2>2 DEF RowIds
  <2> QED
    BY <2>3, <2>4 DEF RowIds
<1>2. CASE nextId' = nextId /\ disk' \subseteq disk
  BY <1>2 DEF RowIds
<1> QED
  BY <1>1, <1>2

=============================================================================
