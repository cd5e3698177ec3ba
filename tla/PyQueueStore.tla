---------------------------- MODULE PyQueueStore ----------------------------
(***************************************************************************)
(* The Python client's queue (queue_store.py, class QueueMixin): a SQLite  *)
(* table with AUTOINCREMENT ids, an in-memory deque used when the table    *)
(* cannot be, and the two threading.Event objects that connect callers to  *)
(* the worker.                                                             *)
(*                                                                         *)
(* Each operator is one method; the part of a method that runs under       *)
(* _queue_lock is one step.  Every SQLite access may raise: Fault.         *)
(***************************************************************************)
EXTENDS Naturals, Sequences

CONSTANTS Records,          \* the records the application logs
          MaxFaults         \* bound on the SQLite operations that raise

ASSUME QueueAssumption == MaxFaults \in Nat

VARIABLES disk,             \* rows of log_queue: [id, rec]
          nextId,           \* next AUTOINCREMENT id, never used before
          memory,           \* _memory_queue
          persistent,       \* _persistent_queue_enabled
          drained,          \* _queue_drained (Event): flush() waits for it
          wake,             \* _queue_event (Event): the worker waits for it
          faults            \* SQLite operations that have raised so far

queueVars == <<disk, nextId, memory, persistent, drained, wake, faults>>

Rows == [id : Nat, rec : Records]
Items == [src : {"disk"}, id : Nat, rec : Records]
         \cup [src : {"memory"}, id : {0}, rec : Records]
NoItem == [src |-> "none"]

OnDisk == {row.rec : row \in disk}
InMemory == {memory[i] : i \in 1 .. Len(memory)}
Stored == OnDisk \cup InMemory

(* What pending_count() and _update_queue_drained_locked() look at. *)
QueueEmpty == memory = <<>> /\ (persistent => disk = {})

Fault == faults < MaxFaults /\ faults' = faults + 1
NoFault == faults' = faults

-----------------------------------------------------------------------------
(* _prepare_queue_storage: called once, by the constructor. *)
PrepareQueueStorage ==
    /\ \/ /\ NoFault
          /\ persistent' = TRUE
          /\ drained' = (disk = {})
       \/ /\ Fault
          /\ persistent' = FALSE
          /\ UNCHANGED drained
    /\ UNCHANGED <<disk, nextId, memory, wake>>

(* Mutations of the two lanes of _enqueue_payload: the Event is not       *)
(* cleared; the serialized text is appended in place of the dictionary.   *)
EnqueueKeepsDrained(r) ==
    /\ persistent
    /\ NoFault
    /\ disk' = disk \cup {[id |-> nextId, rec |-> r]}
    /\ nextId' = nextId + 1
    /\ wake' = TRUE
    /\ UNCHANGED <<memory, persistent, drained>>

EnqueueSerialized(r) ==
    /\ \/ ~persistent /\ NoFault
       \/ persistent /\ Fault
    /\ memory' = Append(memory, "text")
    /\ drained' = FALSE
    /\ wake' = TRUE
    /\ UNCHANGED <<disk, nextId, persistent>>

(* _enqueue_payload, its locked part: INSERT, or the deque when the table *)
(* is disabled or the INSERT raises.                                      *)
EnqueueOnDisk(r) ==
    /\ persistent
    /\ NoFault
    /\ disk' = disk \cup {[id |-> nextId, rec |-> r]}
    /\ nextId' = nextId + 1
    /\ drained' = FALSE
    /\ wake' = TRUE
    /\ UNCHANGED <<memory, persistent>>

EnqueueInMemory(r) ==
    /\ \/ ~persistent /\ NoFault
       \/ persistent /\ Fault
    /\ memory' = Append(memory, r)
    /\ drained' = FALSE
    /\ wake' = TRUE
    /\ UNCHANGED <<disk, nextId, persistent>>

(* _peek_payload: the row with the lowest id; with none, or when the     *)
(* SELECT raises, the head of the deque.  `it` is what it returns.       *)
Peekable ==
    {[src |-> "disk", id |-> row.id, rec |-> row.rec] : row \in disk}
    \cup {[src |-> "memory", id |-> 0, rec |-> r] : r \in InMemory}

PeekDisk(it) ==
    /\ persistent
    /\ it.src = "disk"
    /\ \A row \in disk : it.id <= row.id
    /\ NoFault
    /\ UNCHANGED <<disk, nextId, memory, persistent, drained, wake>>

PassOverDisk ==
    \/ persistent /\ disk = {} /\ NoFault
    \/ ~persistent /\ NoFault
    \/ persistent /\ Fault

PeekMemory(it) ==
    /\ PassOverDisk
    /\ memory # <<>>
    /\ it.src = "memory"
    /\ it.rec = Head(memory)
    /\ UNCHANGED <<disk, nextId, memory, persistent, drained, wake>>

PeekNothing ==
    /\ PassOverDisk
    /\ memory = <<>>
    /\ UNCHANGED <<disk, nextId, memory, persistent, drained, wake>>

(* Mutations of _ack_payload: DELETE without its WHERE; no                *)
(* _update_queue_drained_locked at the end.                               *)
AckDeletesAll(it) ==
    /\ disk' = IF it.src = "disk" THEN {} ELSE disk
    /\ memory' = IF it.src = "memory" THEN Tail(memory) ELSE memory
    /\ NoFault
    /\ UNCHANGED <<nextId, persistent, wake>>
    /\ drained' = QueueEmpty'

AckForgetsDrained(it) ==
    /\ disk' = {row \in disk : ~(it.src = "disk" /\ row.id = it.id)}
    /\ memory' = IF it.src = "memory" THEN Tail(memory) ELSE memory
    /\ NoFault
    /\ UNCHANGED <<nextId, persistent, wake, drained>>

(* _ack_payload: DELETE by id or popleft, then                            *)
(* _update_queue_drained_locked, whose SELECT may raise as well.          *)
AckPayload(it) ==
    /\ disk' = {row \in disk : ~(it.src = "disk" /\ row.id = it.id)}
    /\ memory' = IF it.src = "memory" /\ memory # <<>>
                 THEN Tail(memory) ELSE memory
    /\ UNCHANGED <<nextId, persistent, wake>>
    /\ \/ NoFault /\ drained' = QueueEmpty'
       \/ memory' = <<>> /\ persistent /\ Fault /\ drained' = FALSE

(* The DELETE of _ack_payload raises: the row stays. *)
AckFails(it) ==
    /\ it.src = "disk"
    /\ Fault
    /\ UNCHANGED <<disk, nextId, memory, persistent, drained, wake>>

(* Mutation: a clear that raises leaves the table in use. *)
ClearKeepsTable ==
    /\ \/ /\ ~persistent
          /\ NoFault
          /\ UNCHANGED <<disk, drained>>
       \/ /\ persistent
          /\ \/ NoFault /\ disk' = {}
             \/ Fault /\ disk' = disk
          /\ drained' = (memory = <<>>)
    /\ UNCHANGED <<nextId, memory, persistent, wake>>

(* _clear_persistent_queue: removes every row, or gives the table up. *)
ClearPersistentQueue ==
    /\ \/ /\ ~persistent
          /\ NoFault
          /\ UNCHANGED <<disk, persistent, drained>>
       \/ /\ persistent
          /\ NoFault
          /\ disk' = {}
          /\ drained' = (memory = <<>>)
          /\ UNCHANGED persistent
       \/ /\ persistent
          /\ Fault
          /\ persistent' = FALSE
          /\ drained' = (memory = <<>>)
          /\ UNCHANGED disk
    /\ UNCHANGED <<nextId, memory, wake>>

(* pending_count() = 0: a SELECT that raises leaves only the deque in the *)
(* count.                                                                 *)
CountPending(zero) ==
    /\ \/ NoFault /\ zero = QueueEmpty
       \/ persistent /\ Fault /\ zero = (memory = <<>>)
    /\ UNCHANGED <<disk, nextId, memory, persistent, drained, wake>>

QueueTypeOK ==
    /\ disk \subseteq Rows
    /\ nextId \in Nat
    /\ memory \in Seq(Records)
    /\ persistent \in BOOLEAN
    /\ drained \in BOOLEAN
    /\ wake \in BOOLEAN
    /\ faults \in 0 .. MaxFaults

QueueInit ==
    /\ disk = {}
    /\ nextId = 1
    /\ memory = <<>>
    /\ persistent = FALSE
    /\ drained = TRUE
    /\ wake = FALSE
    /\ faults = 0

(* What the end of a process leaves of the queue: the file. *)
QueueRestart ==
    /\ memory' = <<>>
    /\ persistent' = FALSE
    /\ drained' = TRUE
    /\ wake' = FALSE
    /\ UNCHANGED <<disk, nextId, faults>>

=============================================================================
