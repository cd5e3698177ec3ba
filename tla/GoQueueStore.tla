---------------------------- MODULE GoQueueStore ----------------------------
(***************************************************************************)
(* The Go client's queue (queue_store.go): the SQLite table behind         *)
(* queueDB, the memoryQueue slice and the one-place wake channel.          *)
(*                                                                         *)
(* Each operator is the part of a method that runs under c.mu, or one      *)
(* channel operation.  Every SQLite access may fail: Fault.                *)
(***************************************************************************)
EXTENDS Naturals, Sequences

CONSTANTS Records,          \* the records the application logs
          MaxFaults         \* bound on the SQLite operations that fail

ASSUME QueueAssumption == MaxFaults \in Nat

VARIABLES disk,             \* rows of log_queue: [id, rec]
          nextId,           \* next AUTOINCREMENT id
          memory,           \* memoryQueue
          persistent,       \* persistent
          queueDB,          \* queueDB is not nil
          sqlite,           \* the connection queueDB led to is open
          wake,             \* the wake channel holds its token
          faults            \* SQLite operations that have failed so far

queueVars == <<disk, nextId, memory, persistent, queueDB, sqlite, wake,
               faults>>

Rows == [id : Nat, rec : Records]
Items == [persisted : {TRUE}, id : Nat, rec : Records]
         \cup [persisted : {FALSE}, id : {0}, rec : Records]
NoItem == [persisted |-> FALSE, id |-> 0]

OnDisk == {row.rec : row \in disk}
InMemory == {memory[i] : i \in 1 .. Len(memory)}
Stored == OnDisk \cup InMemory
TableInUse == persistent /\ queueDB

Fault == faults < MaxFaults /\ faults' = faults + 1
NoFault == faults' = faults

-----------------------------------------------------------------------------
(* prepareQueue: the table is used, or, when any of it fails, never. *)
PrepareQueue ==
    /\ \/ NoFault /\ persistent' = TRUE /\ queueDB' = TRUE /\ sqlite' = TRUE
       \/ Fault /\ UNCHANGED <<persistent, queueDB, sqlite>>
    /\ UNCHANGED <<disk, nextId, memory, wake>>

(* Mutation of KeepInMemory: the marshalled text is kept, not the entry. *)
KeepPayload(r) ==
    /\ \/ TableInUse /\ Fault
       \/ ~persistent /\ NoFault
    /\ memory' = Append(memory, "text")
    /\ UNCHANGED <<disk, nextId, persistent, queueDB, sqlite, wake>>

(* enqueue: INSERT; the slice when the INSERT fails or persistent is off; *)
(* neither when persistent is still on but queueDB is gone.               *)
InsertRow(r) ==
    /\ TableInUse
    /\ NoFault
    /\ disk' = disk \cup {[id |-> nextId, rec |-> r]}
    /\ nextId' = nextId + 1
    /\ UNCHANGED <<memory, persistent, queueDB, sqlite, wake>>

KeepInMemory(r) ==
    /\ \/ TableInUse /\ Fault
       \/ ~persistent /\ NoFault
    /\ memory' = Append(memory, r)
    /\ UNCHANGED <<disk, nextId, persistent, queueDB, sqlite, wake>>

StoreNowhere ==
    /\ persistent /\ ~queueDB
    /\ UNCHANGED queueVars

(* Mutation: a clear that fails leaves the table in use. *)
ClearKeepsTable ==
    /\ \/ ~TableInUse /\ NoFault /\ UNCHANGED disk
       \/ TableInUse /\ NoFault /\ disk' = {}
       \/ TableInUse /\ Fault /\ UNCHANGED disk
    /\ UNCHANGED <<nextId, memory, persistent, queueDB, sqlite, wake>>

(* clearPersistentQueue: removes every row, or gives the table up. *)
ClearPersistentQueue ==
    /\ \/ ~TableInUse /\ NoFault /\ UNCHANGED <<disk, persistent>>
       \/ TableInUse /\ NoFault /\ disk' = {} /\ UNCHANGED persistent
       \/ TableInUse /\ Fault /\ persistent' = FALSE /\ UNCHANGED disk
    /\ UNCHANGED <<nextId, memory, queueDB, sqlite, wake>>

(* next: the row with the lowest id; the head of the slice when there is  *)
(* no row; nothing when the SELECT fails, whatever the slice holds.       *)
Peekable ==
    {[persisted |-> TRUE, id |-> row.id, rec |-> row.rec] : row \in disk}
    \cup {[persisted |-> FALSE, id |-> 0, rec |-> r] : r \in InMemory}

NextItem(it) ==
    /\ \/ TableInUse /\ it.persisted /\ \A row \in disk : it.id <= row.id
       \/ /\ TableInUse => disk = {}
          /\ memory # <<>>
          /\ ~it.persisted /\ it.rec = Head(memory)
    /\ UNCHANGED queueVars

NextNothing ==
    /\ \/ (TableInUse => disk = {}) /\ memory = <<>> /\ NoFault
       \/ TableInUse /\ Fault
    /\ UNCHANGED <<disk, nextId, memory, persistent, queueDB, sqlite, wake>>

(* Mutation of drop: DELETE without its WHERE. *)
DropAllRows(it) ==
    /\ \/ it.persisted /\ queueDB /\ NoFault /\ disk' = {} /\ UNCHANGED memory
       \/ it.persisted /\ queueDB /\ Fault /\ UNCHANGED <<disk, memory>>
       \/ ~(it.persisted /\ queueDB) /\ NoFault /\ UNCHANGED disk
          /\ memory' = IF memory # <<>> THEN Tail(memory) ELSE memory
    /\ UNCHANGED <<nextId, persistent, queueDB, sqlite, wake>>

(* drop: DELETE by id, which may fail and leave the row; for a record that *)
(* is not persisted, or with queueDB gone, the head of the slice.          *)
Drop(it) ==
    /\ \/ it.persisted /\ queueDB /\ NoFault /\ UNCHANGED memory
          /\ disk' = {row \in disk : row.id # it.id}
       \/ it.persisted /\ queueDB /\ Fault /\ UNCHANGED <<disk, memory>>
       \/ ~(it.persisted /\ queueDB) /\ NoFault /\ UNCHANGED disk
          /\ memory' = IF memory # <<>> THEN Tail(memory) ELSE memory
    /\ UNCHANGED <<nextId, persistent, queueDB, sqlite, wake>>

(* pendingCount() = 0: a COUNT that fails, like a queueDB that is gone,    *)
(* leaves only the slice in the count.                                     *)
CountPending(zero) ==
    /\ \/ NoFault /\ zero = (memory = <<>> /\ (TableInUse => disk = {}))
       \/ TableInUse /\ Fault /\ zero = (memory = <<>>)
    /\ UNCHANGED <<disk, nextId, memory, persistent, queueDB, sqlite, wake>>

Signal ==
    /\ wake' = TRUE
    /\ UNCHANGED <<disk, nextId, memory, persistent, queueDB, sqlite, faults>>

(* closeQueue: queueDB is taken under c.mu, and closed after the unlock. *)
TakeQueueDB ==
    /\ queueDB' = FALSE
    /\ UNCHANGED <<disk, nextId, memory, persistent, sqlite, wake, faults>>

CloseDB ==
    /\ sqlite' = FALSE
    /\ UNCHANGED <<disk, nextId, memory, persistent, queueDB, wake, faults>>

-----------------------------------------------------------------------------
QueueTypeOK ==
    /\ disk \subseteq Rows
    /\ nextId \in Nat
    /\ memory \in Seq(Records)
    /\ persistent \in BOOLEAN /\ queueDB \in BOOLEAN
    /\ sqlite \in BOOLEAN /\ wake \in BOOLEAN
    /\ faults \in 0 .. MaxFaults

QueueInit ==
    /\ disk = {} /\ nextId = 1 /\ memory = <<>>
    /\ persistent = FALSE /\ queueDB = FALSE /\ sqlite = FALSE /\ wake = FALSE
    /\ faults = 0

(* What the end of a process leaves of the queue: the file. *)
QueueRestart ==
    /\ memory' = <<>>
    /\ persistent' = FALSE /\ queueDB' = FALSE /\ sqlite' = FALSE /\ wake' = FALSE
    /\ UNCHANGED <<disk, nextId, faults>>

=============================================================================
