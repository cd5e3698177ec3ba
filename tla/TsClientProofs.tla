---------------------------- MODULE TsClientProofs ----------------------------
(***************************************************************************)
(* Theorems about TsClient, for every finite set of records, every set of  *)
(* sender ids and callers, and every bound: its types, that no wake-up is  *)
(* lost, that runs are isolated, and that it implements LogDelivery.       *)
(***************************************************************************)
EXTENDS TsClient, FiniteSetTheorems, TLAPS

InFlight == {"post", "answer"}
Entries == [record : Records, lane : {"disk", "memory"}]
Accepted == {r \in Records : lane[r] # "none"}

(* The places where the client has no session, and those where it has one. *)
SessionInv ==
  /\ pc \in {"prepare", "connect", "session"} => senderId = NoSender
  /\ pc \in {"peek", "post"} => senderId # NoSender

(* Tickets are given in order: the next one is above all of them. *)
TicketInv == \A r \in Accepted : ticket[r] <= Cardinality(Accepted)

(* Where a record of an earlier run can be: in a table the run has not     *)
(* cleared, when no worker reads it.                                       *)
BornInv ==
  /\ \A r \in memory : born[r] = run
  /\ pc \notin {"prepare", "connect", "ended"} /\ database =>
        \A r \in disk : born[r] = run
  /\ pc \in InFlight => born[item.record] = run

(* The record of a request stays the oldest of its lane until the answer   *)
(* is dealt with: other stretches only put newer ones behind it.           *)
FlightInv ==
  pc \in InFlight =>
    /\ item.record \in Stored
    /\ \A other \in Stored :
          lane[other] = lane[item.record] => ticket[item.record] <= ticket[other]
    /\ pc = "answer" => item.record \in received

TsInv == /\ TypeOK /\ NoLostWakeUp /\ SessionInv /\ TicketInv
         /\ BornInv /\ FlightInv

-----------------------------------------------------------------------------
(* Types. *)

(* The number of accepted records, which numbers the next one.             *)
LEMMA AcceptedIsCounted ==
  ASSUME ClientAssumption
  PROVE  IsFiniteSet(Accepted) /\ Cardinality(Accepted) \in Nat
<1>1. Accepted \subseteq Records /\ IsFiniteSet(Records)
  BY DEF Accepted, ClientAssumption
<1> QED
  BY <1>1, FS_Subset, FS_CardinalityType

LEMMA FaultTyped ==
  ASSUME ClientAssumption, TypeOK, NoFault \/ Fault
  PROVE  faults' \in 0 .. MaxFaults
BY DEF ClientAssumption, TypeOK, NoFault, Fault

(* initialize(). *)
LEMMA StartTyped ==
  ASSUME ClientAssumption, TypeOK,
         Prepare \/ (\E s \in Senders : ConnectOk(s) \/ SessionOk(s)) \/ ConnectFails
         \/ Refused \/ RequestFails \/ Restart
  PROVE  TypeOK'
<1> USE DEF TypeOK
<1>1. CASE Prepare
  BY <1>1, FaultTyped DEF Prepare, stateVars, historyVars, recordVars
<1>2. ASSUME NEW s \in Senders, ConnectOk(s) \/ SessionOk(s)
      PROVE  TypeOK'
  <2>1. ClearPersistent /\ senderId' = s
    BY <1>2 DEF ConnectOk, SessionOk, OpenSession
  <2>2. /\ faults' \in 0 .. MaxFaults
        /\ disk' \subseteq disk /\ memory' = memory /\ database' \in BOOLEAN
    BY <2>1, FaultTyped DEF ClearPersistent
  <2>3. failures' \in 0 .. RetryAttempts + 1 /\ pc' \in {"loop", "peek"}
        /\ worker' \in BOOLEAN /\ item' = NoItem
    <3>1. failures' = 0 /\ 0 \in 0 .. RetryAttempts + 1
      BY <1>2 DEF ConnectOk, SessionOk, ClientAssumption
    <3>2. item' = item /\ pc \in {"connect", "session"}
      BY <1>2 DEF ConnectOk, SessionOk
    <3> QED
      BY <1>2, <3>1, <3>2 DEF ConnectOk, SessionOk
  <2> QED
    BY <1>2, <2>1, <2>2, <2>3 DEF ConnectOk, SessionOk, stateVars, historyVars,
                                  recordVars
<1>3. CASE ConnectFails
  <2>1. failures' \in 0 .. RetryAttempts + 1
    BY <1>3 DEF ConnectFails, ClientAssumption
  <2> QED
    BY <1>3, <2>1 DEF ConnectFails, storeVars, stateVars, historyVars, recordVars
<1>4. CASE Refused
  BY <1>4 DEF Refused, storeVars, historyVars, recordVars
<1>5. CASE RequestFails
  <2>1. failures' \in 0 .. RetryAttempts + 1
    BY <1>5 DEF RequestFails, ClientAssumption
  <2> QED
    BY <1>5, <2>1 DEF RequestFails, storeVars, stateVars, historyVars, recordVars
<1>6. CASE Restart
  <2>1. run' \in 1 .. MaxRuns /\ failures' \in 0 .. RetryAttempts + 1
    BY <1>6 DEF Restart, ClientAssumption
  <2> QED
    BY <1>6, <2>1 DEF Restart, recordVars
<1> QED
  BY <1>1, <1>2, <1>3, <1>4, <1>5, <1>6

(* workerLoop(). *)
LEMMA WorkerTyped ==
  ASSUME ClientAssumption, TypeOK,
         Loop \/ Post \/ DropForeign \/ Rest \/ Received \/ AckSent \/ AckThrows
         \/ WaitOver
  PROVE  TypeOK'
<1> USE DEF TypeOK
<1>1. CASE Loop \/ WaitOver
  BY <1>1 DEF Loop, WaitOver, Waits, storeVars, stateVars, historyVars, recordVars
<1>2. CASE Post
  <2>1. faults' \in 0 .. MaxFaults
    BY <1>2, FaultTyped DEF Post, PeekDisk, PeekMemory
  <2>2. item' \in Entries /\ item'.lane = lane[item'.record]
    BY <1>2 DEF Post, PeekDisk, PeekMemory, Oldest, Entries
  <2> QED
    BY <1>2, <2>1, <2>2 DEF Post, stateVars, recordVars, Entries
<1>3. CASE DropForeign
  <2>1. faults' \in 0 .. MaxFaults
    BY <1>3, FaultTyped DEF DropForeign
  <2>2. disk' = disk /\ memory' \subseteq memory
    BY <1>3 DEF DropForeign, Acknowledge
  <2> QED
    BY <1>3, <2>1, <2>2 DEF DropForeign, Peeking, stateVars, historyVars, recordVars
<1>4. CASE Rest
  <2>1. faults' \in 0 .. MaxFaults
    BY <1>4, FaultTyped DEF Rest, PeekNothing
  <2> QED
    BY <1>4, <2>1 DEF Rest, PeekNothing, stateVars, historyVars, recordVars
<1>5. CASE Received
  BY <1>5 DEF Received, storeVars, stateVars, recordVars
<1>6. CASE AckSent
  <2>1. disk' \subseteq disk /\ memory' \subseteq memory
    BY <1>6 DEF AckSent, Acknowledge
  <2>2. failures' \in 0 .. RetryAttempts + 1 /\ faults' \in 0 .. MaxFaults
    BY <1>6, FaultTyped DEF AckSent, ClientAssumption
  <2> QED
    BY <1>6, <2>1, <2>2 DEF AckSent, stateVars, historyVars, recordVars
<1>7. CASE AckThrows
  <2>1. faults' \in 0 .. MaxFaults
    BY <1>7, FaultTyped DEF AckThrows
  <2> QED
    BY <1>7, <2>1 DEF AckThrows, stateVars, historyVars, recordVars
<1> QED
  BY <1>1, <1>2, <1>3, <1>4, <1>5, <1>6, <1>7

(* A waiting worker that is woken goes to the loop. *)
LEMMA WakeTyped ==
  ASSUME TypeOK, Wake \/ UNCHANGED pc, UNCHANGED item
  PROVE  /\ pc' \in {pc, "loop"} /\ (pc' # pc => pc \in Waits)
         /\ pc' \in InFlight <=> pc \in InFlight
BY DEF TypeOK, Wake, Waits, InFlight

(* enqueue(), flush() and close(). *)
LEMMA CallsTyped ==
  ASSUME ClientAssumption, TypeOK,
         \/ \E r \in Records : Enqueue(r)
         \/ \E c \in Callers : FlushBegin(c) \/ FlushPoll(c)
         \/ CloseMark \/ CloseQueue
  PROVE  TypeOK'
<1> USE DEF TypeOK
<1>1. ASSUME NEW r \in Records, Enqueue(r)
      PROVE  TypeOK'
  <2>1. faults' \in 0 .. MaxFaults
    BY <1>1, FaultTyped DEF Enqueue, Insert
  <2>2. ticket' \in [Records -> Nat]
    BY <1>1, AcceptedIsCounted DEF Enqueue, Accepted
  <2>3. lane' \in [Records -> {"none", "disk", "memory"}]
        /\ \A o \in Records \ {r} : lane'[o] = lane[o]
    BY <1>1 DEF Enqueue, Insert
  <2>4. /\ disk' \subseteq {o \in Records : lane'[o] = "disk"}
        /\ memory' \subseteq {o \in Records : lane'[o] = "memory"}
    BY <1>1 DEF Enqueue, Insert
  <2>5. pc \in InFlight => item.record # r
    BY <1>1 DEF Enqueue, InFlight
  <2>6. /\ tag' \in [Records -> Senders \cup {NoSender}]
        /\ born' \in [Records -> 0 .. MaxRuns]
    BY <1>1 DEF Enqueue
  <2>7. pc' \in {pc, "loop"} /\ (pc' \in InFlight <=> pc \in InFlight)
    BY <1>1, WakeTyped DEF Enqueue
  <2> QED
    BY <1>1, <2>1, <2>2, <2>3, <2>4, <2>5, <2>6, <2>7
       DEF Enqueue, stateVars, InFlight
<1>2. ASSUME NEW c \in Callers, FlushBegin(c)
      PROVE  TypeOK'
  <2>1. faults' \in 0 .. MaxFaults
    BY <1>2, FaultTyped DEF FlushBegin, Counts
  <2>2. caller' \in [Callers -> {"idle", "poll", "true", "false", "closed"}]
    BY <1>2 DEF FlushBegin, Answer
  <2>3. pc' \in {pc, "loop"} /\ (pc' \in InFlight <=> pc \in InFlight)
    BY <1>2, WakeTyped DEF FlushBegin
  <2> QED
    BY <1>2, <2>1, <2>2, <2>3 DEF FlushBegin, stateVars, historyVars, recordVars,
                                  InFlight
<1>3. ASSUME NEW c \in Callers, FlushPoll(c)
      PROVE  TypeOK'
  <2>1. faults' \in 0 .. MaxFaults
    BY <1>3, FaultTyped DEF FlushPoll, Counts
  <2>2. caller' \in [Callers -> {"idle", "poll", "true", "false", "closed"}]
    BY <1>3 DEF FlushPoll, Answer
  <2> QED
    BY <1>3, <2>1, <2>2 DEF FlushPoll, workerVars, stateVars, historyVars, recordVars
<1>4. CASE CloseMark
  <2>1. pc' \in {pc, "loop"} /\ (pc' \in InFlight <=> pc \in InFlight)
    BY <1>4, WakeTyped DEF CloseMark
  <2> QED
    BY <1>4, <2>1 DEF CloseMark, storeVars, historyVars, recordVars, InFlight
<1>5. CASE CloseQueue
  BY <1>5 DEF CloseQueue, Answer, ClientAssumption, workerVars, stateVars,
              historyVars, recordVars
<1> QED
  BY <1>1, <1>2, <1>3, <1>4, <1>5

LEMMA TypeKept ==
  ASSUME ClientAssumption, TypeOK, [Next]_vars
  PROVE  TypeOK'
<1>1. CASE UNCHANGED vars
  BY <1>1 DEF TypeOK, vars, storeVars, workerVars, stateVars, historyVars, recordVars
<1> QED
  BY <1>1, StartTyped, WorkerTyped, CallsTyped DEF Next, WorkerStep

-----------------------------------------------------------------------------
(* Steps by what they do to the queue and to the records' histories.       *)

(* Steps that leave both alone. *)
Quiet ==
  UNCHANGED <<disk, memory, run, lane, ticket, tag, born, received>>

QuietStep ==
  \/ Prepare \/ ConnectFails \/ Refused \/ Loop \/ Post \/ Rest \/ AckThrows
  \/ RequestFails \/ WaitOver
  \/ \E c \in Callers : FlushBegin(c) \/ FlushPoll(c)
  \/ CloseMark \/ CloseQueue \/ UNCHANGED vars

LEMMA QuietSteps == QuietStep => Quiet
<1> USE DEF Quiet, storeVars, historyVars, recordVars
<1>1. Prepare \/ ConnectFails \/ Refused \/ Loop \/ Rest \/ AckThrows
      \/ RequestFails \/ WaitOver => Quiet
  BY DEF Prepare, ConnectFails, Refused, Loop, Rest, AckThrows, RequestFails, WaitOver
<1>2. Post => Quiet
  BY DEF Post
<1>3. (\E c \in Callers : FlushBegin(c) \/ FlushPoll(c)) => Quiet
  BY DEF FlushBegin, FlushPoll
<1>4. CloseMark \/ CloseQueue \/ UNCHANGED vars => Quiet
  BY DEF CloseMark, CloseQueue, vars
<1> QED
  BY <1>1, <1>2, <1>3, <1>4 DEF QuietStep

(* Opening a session empties the table, or gives the database up. *)
LEMMA OpenClears ==
  ASSUME TypeOK, NEW s \in Senders, ConnectOk(s) \/ SessionOk(s)
  PROVE  /\ senderId' = s /\ pc' \notin InFlight /\ pc' \notin {"connect", "session", "idle"}
         /\ memory' = memory
         /\ \/ disk' = {} /\ database' = database
            \/ disk' = disk /\ database' = FALSE
         /\ UNCHANGED <<run, lane, ticket, tag, born, received>>
BY DEF TypeOK, ConnectOk, SessionOk, OpenSession, ClearPersistent, InFlight,
       historyVars, recordVars

(* An accepted record was in no lane, and gets the next ticket. *)
LEMMA EnqueueAdds ==
  ASSUME ClientAssumption, TypeOK, NEW r \in Records, Enqueue(r)
  PROVE  /\ r \notin Accepted /\ r \notin Stored
         /\ Accepted' = Accepted \cup {r}
         /\ Cardinality(Accepted') = Cardinality(Accepted) + 1
         /\ ticket' = [ticket EXCEPT ![r] = Cardinality(Accepted) + 1]
         /\ born' = [born EXCEPT ![r] = run]
         /\ \E l \in {"disk", "memory"} : lane' = [lane EXCEPT ![r] = l]
         /\ Stored' = Stored \cup {r}
         /\ disk' \in {disk, disk \cup {r}} /\ memory' \in {memory, memory \cup {r}}
         /\ pc \notin {"prepare", "connect"}
         /\ pc' \in {pc, "loop"} /\ pc' # "idle" /\ (pc' \in InFlight <=> pc \in InFlight)
         /\ (pc' # pc => pc \in Waits)
         /\ UNCHANGED <<database, senderId, item, run, received>>
<1>1. lane[r] = "none" /\ pc \notin {"prepare", "connect"} /\ Insert(r) /\ Wake
  BY DEF Enqueue, Returned
<1>2. r \notin Accepted /\ r \notin Stored
  BY <1>1 DEF Accepted, Stored, TypeOK
<1>3. PICK l \in {"disk", "memory"} : lane' = [lane EXCEPT ![r] = l]
  BY <1>1 DEF Insert
<1>4. Accepted' = Accepted \cup {r}
  BY <1>3 DEF Accepted, TypeOK
<1>5. Cardinality(Accepted') = Cardinality(Accepted) + 1
  BY <1>2, <1>4, AcceptedIsCounted, FS_AddElement
<1>6. /\ disk' \in {disk, disk \cup {r}} /\ memory' \in {memory, memory \cup {r}}
      /\ Stored' = Stored \cup {r}
  BY <1>1 DEF Insert, Stored
<1>7. /\ pc' \in {pc, "loop"} /\ pc' # "idle" /\ (pc' \in InFlight <=> pc \in InFlight)
      /\ (pc' # pc => pc \in Waits)
  BY <1>1, WakeTyped DEF Wake, Waits, InFlight, Enqueue
<1>8. /\ ticket' = [ticket EXCEPT ![r] = Cardinality(Accepted) + 1]
      /\ born' = [born EXCEPT ![r] = run]
      /\ UNCHANGED <<database, senderId, item, run, received>>
  BY DEF Enqueue, Accepted
<1> QED
  BY <1>1, <1>2, <1>3, <1>4, <1>5, <1>6, <1>7, <1>8

-----------------------------------------------------------------------------
(* The parts of the invariant.                                             *)

LEMMA SessionKept ==
  ASSUME ClientAssumption, TypeOK, SessionInv, [Next]_vars
  PROVE  SessionInv'
<1> USE DEF SessionInv
<1>1. CASE Prepare \/ ConnectFails \/ Refused \/ Restart
  BY <1>1 DEF Prepare, ConnectFails, Refused, Restart
<1>2. ASSUME NEW s \in Senders, ConnectOk(s) \/ SessionOk(s)
      PROVE  SessionInv'
  BY <1>2 DEF ConnectOk, SessionOk, OpenSession, ClientAssumption
<1>3. CASE Loop \/ WaitOver \/ Rest \/ Received \/ AckSent \/ AckThrows \/ RequestFails
           \/ DropForeign
  BY <1>3 DEF Loop, WaitOver, Rest, Received, AckSent, AckThrows, RequestFails,
              DropForeign
<1>4. CASE Post
  BY <1>4 DEF Post, Peeking
<1>5. CASE \/ \E r \in Records : Enqueue(r)
           \/ \E c \in Callers : FlushBegin(c)
           \/ CloseMark
  <2>1. senderId' = senderId /\ pc' \in {pc, "loop"}
    BY <1>5, WakeTyped DEF Enqueue, FlushBegin, CloseMark
  <2> QED
    BY <2>1
<1>6. CASE (\E c \in Callers : FlushPoll(c)) \/ CloseQueue \/ UNCHANGED vars
  BY <1>6 DEF FlushPoll, CloseQueue, vars, workerVars
<1> QED
  BY <1>1, <1>2, <1>3, <1>4, <1>5, <1>6 DEF Next, WorkerStep

(* The steps that are not quiet. *)
LEMMA StepKinds ==
  ASSUME [Next]_vars
  PROVE  \/ QuietStep
         \/ \E s \in Senders : ConnectOk(s) \/ SessionOk(s)
         \/ DropForeign \/ Received \/ AckSent \/ Restart
         \/ \E r \in Records : Enqueue(r)
<1>1. Next => \/ QuietStep
              \/ \E s \in Senders : ConnectOk(s) \/ SessionOk(s)
              \/ DropForeign \/ Received \/ AckSent \/ Restart
              \/ \E r \in Records : Enqueue(r)
  BY DEF Next, WorkerStep, QuietStep
<1> QED
  BY <1>1 DEF QuietStep

LEMMA TicketKept ==
  ASSUME ClientAssumption, TypeOK, TicketInv, [Next]_vars
  PROVE  TicketInv'
<1>1. CASE UNCHANGED <<lane, ticket>>
  BY <1>1 DEF TicketInv, Accepted
<1>2. ASSUME NEW r \in Records, Enqueue(r)
      PROVE  TicketInv'
  <2> DEFINE n == Cardinality(Accepted)
  <2>1. n \in Nat /\ \A o \in Accepted : ticket[o] \in Nat /\ ticket[o] <= n
    BY AcceptedIsCounted DEF TicketInv, Accepted, TypeOK
  <2>2. /\ Accepted' = Accepted \cup {r} /\ r \notin Accepted
        /\ Cardinality(Accepted') = n + 1
        /\ ticket' = [ticket EXCEPT ![r] = n + 1]
    BY <1>2, EnqueueAdds
  <2> HIDE DEF n
  <2>3. ticket'[r] = n + 1 /\ \A o \in Accepted : ticket'[o] = ticket[o]
    BY <2>2 DEF TypeOK, Accepted
  <2> QED
    BY <2>1, <2>2, <2>3 DEF TicketInv
<1>3. (\E s \in Senders : ConnectOk(s) \/ SessionOk(s)) => UNCHANGED <<lane, ticket>>
  BY OpenClears
<1>4. DropForeign \/ Received \/ AckSent \/ Restart => UNCHANGED <<lane, ticket>>
  BY DEF DropForeign, Received, AckSent, Restart, historyVars, recordVars
<1> QED
  BY <1>1, <1>2, <1>3, <1>4, StepKinds, QuietSteps DEF Quiet

(* A quiet step takes a record to the API only by Post. *)
LEMMA QuietFlight ==
  ASSUME TypeOK, QuietStep
  PROVE  /\ Post \/ pc' \notin InFlight \/ (pc' = pc /\ item' = item)
         /\ database' => database \/ Prepare
         /\ Prepare \/ pc' \in {"prepare", "connect", "ended"}
            \/ pc \notin {"prepare", "connect", "ended"}
<1> USE DEF InFlight, TypeOK
<1>1. CASE Prepare \/ ConnectFails \/ Refused
  BY <1>1 DEF Prepare, ConnectFails, Refused, storeVars
<1>2. CASE Loop \/ Rest \/ AckThrows \/ RequestFails \/ WaitOver
  BY <1>2 DEF Loop, Rest, AckThrows, RequestFails, WaitOver, Peeking, Waits, storeVars
<1>3. CASE Post
  BY <1>3 DEF Post, Peeking
<1>4. CASE (\E c \in Callers : FlushBegin(c)) \/ CloseMark
  <2>1. /\ pc' \in {pc, "loop"} /\ (pc' # pc => pc \in Waits) /\ item' = item
        /\ database' = database
    BY <1>4, WakeTyped DEF FlushBegin, CloseMark, storeVars
  <2> QED
    BY <2>1 DEF Waits
<1>5. CASE (\E c \in Callers : FlushPoll(c)) \/ CloseQueue \/ UNCHANGED vars
  BY <1>5 DEF FlushPoll, CloseQueue, vars, workerVars, storeVars
<1> QED
  BY <1>1, <1>2, <1>3, <1>4, <1>5 DEF QuietStep

LEMMA BornKept ==
  ASSUME ClientAssumption, TypeOK, BornInv, [Next]_vars
  PROVE  BornInv'
<1> USE DEF BornInv
<1>1. CASE QuietStep
  <2>1. Quiet
    BY <1>1, QuietSteps
  <2>2. (pc' \notin {"prepare", "connect", "ended"} /\ database') =>
           \A r \in disk : born[r] = run
    BY <1>1, QuietFlight DEF Prepare
  <2>3. pc' \in InFlight => born[item'.record] = run
    <3>1. CASE Post
      <4>1. (item'.record \in disk /\ database) \/ item'.record \in memory
        BY <3>1 DEF Post, PeekDisk, PeekMemory, Oldest
      <4>2. pc \notin {"prepare", "connect", "ended"}
        BY <3>1 DEF Post, Peeking
      <4> QED
        BY <4>1, <4>2
    <3>2. CASE ~Post
      BY <1>1, <3>2, QuietFlight
    <3> QED
      BY <3>1, <3>2
  <2> QED
    BY <2>1, <2>2, <2>3 DEF Quiet
<1>2. ASSUME NEW s \in Senders, ConnectOk(s) \/ SessionOk(s)
      PROVE  BornInv'
  BY <1>2, OpenClears
<1>3. CASE DropForeign \/ AckSent
  <2>1. /\ disk' \subseteq disk /\ memory' \subseteq memory /\ database' = database
        /\ pc' = "loop" /\ pc \notin {"prepare", "connect", "ended"}
        /\ UNCHANGED <<run, born>>
    BY <1>3 DEF DropForeign, AckSent, Acknowledge, Peeking, historyVars, recordVars
  <2> QED
    BY <2>1 DEF InFlight
<1>4. CASE Received
  BY <1>4 DEF Received, InFlight, storeVars, recordVars
<1>5. CASE Restart
  BY <1>5 DEF Restart, InFlight, recordVars
<1>6. ASSUME NEW r \in Records, Enqueue(r)
      PROVE  BornInv'
  <2>1. /\ born' = [born EXCEPT ![r] = run] /\ UNCHANGED <<database, item, run>>
        /\ disk' \in {disk, disk \cup {r}} /\ memory' \in {memory, memory \cup {r}}
        /\ (pc' \in InFlight <=> pc \in InFlight) /\ pc' \in {pc, "loop"}
        /\ (pc' # pc => pc \in Waits) /\ r \notin Stored
    BY <1>6, EnqueueAdds
  <2>2. pc \in InFlight => item.record # r /\ item.record \in Records
    BY <1>6 DEF Enqueue, TypeOK, InFlight
  <2>3. disk \subseteq Records /\ memory \subseteq Records
        /\ born'[r] = run /\ \A o \in Records \ {r} : born'[o] = born[o]
    BY <2>1 DEF TypeOK
  <2> QED
    BY <2>1, <2>2, <2>3 DEF Waits, Stored
<1> QED
  BY <1>1, <1>2, <1>3, <1>4, <1>5, <1>6, StepKinds

LEMMA FlightKept ==
  ASSUME ClientAssumption, TypeOK, TicketInv, FlightInv, [Next]_vars
  PROVE  FlightInv'
<1> USE DEF FlightInv
<1>1. CASE QuietStep
  <2>1. Quiet /\ Stored' = Stored
    BY <1>1, QuietSteps DEF Quiet, Stored
  <2>2. CASE Post
    <3>1. \/ /\ item'.lane = "disk" /\ item'.record \in disk
             /\ \A other \in disk : ticket[item'.record] <= ticket[other]
          \/ /\ item'.lane = "memory" /\ item'.record \in memory
             /\ \A other \in memory : ticket[item'.record] <= ticket[other]
      BY <2>2 DEF Post, PeekDisk, PeekMemory, Oldest
    <3>2. item'.record \in Stored /\ \A other \in Stored :
             lane[other] = lane[item'.record] => ticket[item'.record] <= ticket[other]
      BY <3>1 DEF Stored, TypeOK
    <3> QED
      BY <2>1, <2>2, <3>2 DEF Post, Quiet
  <2>3. CASE pc' \notin InFlight
    BY <2>3
  <2>4. CASE pc' = pc /\ item' = item
    BY <2>1, <2>4 DEF Quiet
  <2> QED
    BY <1>1, <2>2, <2>3, <2>4, QuietFlight
<1>2. CASE \E s \in Senders : ConnectOk(s) \/ SessionOk(s)
  BY <1>2, OpenClears
<1>3. CASE DropForeign \/ AckSent \/ Restart
  BY <1>3 DEF DropForeign, AckSent, Restart, InFlight
<1>4. CASE Received
  <2>1. Stored' = Stored /\ item' = item /\ pc \in InFlight /\ pc' = "answer"
        /\ item.record \in received' /\ UNCHANGED <<lane, ticket>>
    BY <1>4 DEF Received, Stored, InFlight, storeVars, recordVars
  <2> QED
    BY <2>1
<1>5. ASSUME NEW r \in Records, Enqueue(r)
      PROVE  FlightInv'
  <2>1. /\ Stored' = Stored \cup {r} /\ r \notin Accepted /\ r \notin Stored
        /\ ticket' = [ticket EXCEPT ![r] = Cardinality(Accepted) + 1]
        /\ \E l \in {"disk", "memory"} : lane' = [lane EXCEPT ![r] = l]
        /\ UNCHANGED <<item, received>>
        /\ (pc' \in InFlight <=> pc \in InFlight) /\ (pc' # pc => pc \in Waits)
    BY <1>5, EnqueueAdds
  <2>2. Stored \subseteq Accepted /\ Accepted \subseteq Records
    BY DEF Stored, Accepted, TypeOK
  <2>3. /\ \A o \in Stored : ticket'[o] = ticket[o] /\ lane'[o] = lane[o]
        /\ ticket'[r] = Cardinality(Accepted) + 1
    BY <2>1, <2>2 DEF TypeOK
  <2>4. \A o \in Stored : ticket[o] <= ticket'[r]
    <3>1. Cardinality(Accepted) \in Nat /\ \A o \in Stored : ticket[o] \in Nat
      BY <2>2, AcceptedIsCounted DEF TypeOK
    <3> QED
      BY <2>2, <2>3, <3>1 DEF TicketInv
  <2> QED
    BY <2>1, <2>3, <2>4 DEF Waits, InFlight
<1> QED
  BY <1>1, <1>2, <1>3, <1>4, <1>5, StepKinds

(* Only an empty peek makes the worker wait idle, and every record that    *)
(* comes wakes it.                                                         *)
LEMMA WakeUpKept ==
  ASSUME ClientAssumption, TypeOK, NoLostWakeUp, [Next]_vars
  PROVE  NoLostWakeUp'
<1> USE DEF NoLostWakeUp
<1>1. CASE Rest
  <2>1. /\ Quiet /\ database' = database /\ memory = {}
        /\ (~database \/ disk = {}) \/ (faults' = faults + 1 /\ faults \in Nat)
    BY <1>1, QuietSteps DEF Rest, PeekNothing, Fault, QuietStep, TypeOK
  <2> QED
    BY <2>1 DEF Quiet
<1>2. CASE QuietStep /\ ~Rest
  <2>1. Quiet
    BY <1>2, QuietSteps
  <2>2. /\ pc' = "idle" => pc = "idle" /\ (database' => database)
        /\ faults' = 0 => faults = 0
    <3>1. CASE Prepare \/ ConnectFails \/ Refused \/ Loop \/ Post \/ AckThrows
               \/ RequestFails \/ WaitOver
      <4>1. pc' # "idle"
        BY <3>1 DEF Prepare, ConnectFails, Refused, Loop, Post, AckThrows, RequestFails,
                    WaitOver
      <4>2. faults' = faults \/ (faults' = faults + 1 /\ faults \in Nat)
        <5>1. ConnectFails \/ Refused \/ Loop \/ RequestFails \/ WaitOver
              => faults' = faults
          BY DEF ConnectFails, Refused, Loop, RequestFails, WaitOver, storeVars
        <5>2. Prepare \/ Post \/ AckThrows => NoFault \/ Fault
          BY DEF Prepare, Post, PeekDisk, PeekMemory, AckThrows
        <5>3. NoFault \/ Fault => faults' = faults \/ (faults' = faults + 1 /\ faults \in Nat)
          BY DEF NoFault, Fault, TypeOK
        <5> QED
          BY <3>1, <5>1, <5>2, <5>3
      <4> QED
        BY <4>1, <4>2
    <3>2. faults' = faults \/ (faults' = faults + 1 /\ faults \in Nat)
          => (faults' = 0 => faults = 0)
      OBVIOUS
    <3>3. ASSUME NEW c \in Callers, FlushBegin(c) \/ FlushPoll(c)
          PROVE  faults' = faults \/ (faults' = faults + 1 /\ faults \in Nat)
      BY <3>3 DEF FlushBegin, FlushPoll, Counts, NoFault, Fault, TypeOK
    <3>4. ASSUME NEW c \in Callers, FlushBegin(c) \/ FlushPoll(c)
          PROVE  database' = database /\ (pc' = "idle" => pc = "idle")
      BY <3>4 DEF FlushBegin, FlushPoll, Wake, workerVars
    <3>5. CASE CloseMark \/ CloseQueue \/ UNCHANGED vars
      BY <3>5 DEF CloseMark, CloseQueue, Wake, vars, workerVars, storeVars
    <3>6. CASE \E c \in Callers : FlushBegin(c) \/ FlushPoll(c)
      BY <3>2, <3>3, <3>4, <3>6
    <3> QED
      BY <1>2, <3>1, <3>5, <3>6 DEF QuietStep
  <2> QED
    BY <2>1, <2>2 DEF Quiet
<1>3. CASE \/ \E s \in Senders : ConnectOk(s) \/ SessionOk(s)
           \/ DropForeign \/ Received \/ AckSent \/ Restart
           \/ \E r \in Records : Enqueue(r)
  <2>1. pc' # "idle"
    BY <1>3, OpenClears, EnqueueAdds DEF DropForeign, Received, AckSent, Restart
  <2> QED
    BY <2>1
<1> QED
  BY <1>1, <1>2, <1>3, StepKinds

LEMMA TsInvInitially ==
  ASSUME ClientAssumption, Init
  PROVE  TsInv
<1>1. TypeOK
  <2>1. 0 \in 0 .. MaxFaults /\ 0 \in 0 .. RetryAttempts + 1 /\ 1 \in 1 .. MaxRuns
        /\ 0 \in 0 .. MaxRuns
    BY DEF ClientAssumption
  <2>2. /\ caller \in [Callers -> {"idle", "poll", "true", "false", "closed"}]
        /\ lane \in [Records -> {"none", "disk", "memory"}]
        /\ ticket \in [Records -> Nat]
    BY DEF Init
  <2>3. /\ born \in [Records -> 0 .. MaxRuns]
        /\ tag \in [Records -> Senders \cup {NoSender}]
    BY <2>1 DEF Init
  <2> QED
    BY <2>1, <2>2, <2>3 DEF Init, TypeOK
<1>2. Accepted = {}
  BY DEF Init, Accepted
<1> QED
  BY <1>1, <1>2 DEF Init, TsInv, NoLostWakeUp, SessionInv, TicketInv, BornInv,
                    FlightInv, InFlight

LEMMA TsInvKept ==
  ASSUME ClientAssumption, TsInv, [Next]_vars
  PROVE  TsInv'
BY TypeKept, WakeUpKept, SessionKept, TicketKept, BornKept, FlightKept DEF TsInv

LEMMA TsInvariant == Spec => []TsInv
BY ClientAssumption, TsInvInitially, TsInvKept, PTL DEF Spec

(* Type correctness, each record in the lane it was put in (queue-store.ts *)
(* :56) and the request in flight naming that lane.                        *)
THEOREM TypeCorrect == Spec => []TypeOK
BY TsInvariant, PTL DEF TsInv

(* A worker that waits idle has nothing to send while SQLite works: the    *)
(* wait of client.ts:187 loses no wake-up of client.ts:98.                 *)
THEOREM WakesUp == Spec => []NoLostWakeUp
BY TsInvariant, PTL DEF TsInv

(* What is sent was queued in the same run of the program, even when the   *)
(* clear of client.ts:84 throws and older rows stay in the file.           *)
THEOREM RunsIsolated == Spec => []RunsAreIsolated
<1>1. TsInv => RunsAreIsolated
  BY DEF TsInv, BornInv, InFlight, RunsAreIsolated
<1> QED
  BY <1>1, TsInvariant, PTL

-----------------------------------------------------------------------------
(* The refinement of LogDelivery.                                          *)

(* The lanes of the abstract queue are those of the store. *)
LEMMA LanesAgree ==
  ASSUME TypeOK
  PROVE  /\ Delivery!Held("disk") = disk /\ Delivery!Held("memory") = memory
         /\ disk \cap memory = {}
BY DEF TypeOK, Delivery!Held, Stored

(* LogDelivery counts as FiniteSets does. *)
LEMMA SameCount == Delivery!Cardinality(Accepted) = Cardinality(Accepted)
BY DEF Delivery!Cardinality, Cardinality

LEMMA InitRefines == Init => Delivery!Init
BY DEF Init, Delivery!Init, Stored

LEMMA StepRefines ==
  ASSUME ClientAssumption, TsInv, [Next]_vars
  PROVE  [Delivery!Next]_(Delivery!abstractVars)
<1> DEFINE Stutters == UNCHANGED <<lane, ticket, Stored, received, senderId # NoSender>>
<1>0. /\ TypeOK /\ SessionInv /\ FlightInv
      /\ Delivery!Next => [Delivery!Next]_(Delivery!abstractVars)
      /\ Stutters => [Delivery!Next]_(Delivery!abstractVars)
  BY DEF TsInv, Delivery!abstractVars
<1>1. CASE QuietStep
  <2>1. UNCHANGED <<lane, ticket, Stored, received>>
    BY <1>1, QuietSteps DEF Quiet, Stored
  <2>2. senderId' \in {senderId, NoSender}
    BY <1>1 DEF QuietStep, Prepare, ConnectFails, Refused, Loop, Post, Rest, AckThrows,
       RequestFails, WaitOver, FlushBegin, FlushPoll, CloseMark, CloseQueue, vars,
       workerVars
  <2>3. CASE senderId' = senderId
    BY <1>0, <2>1, <2>3
  <2>4. CASE senderId' = NoSender
    <3>1. Delivery!Lapse
      BY <2>1, <2>4 DEF Delivery!Lapse
    <3> QED
      BY <1>0, <3>1 DEF Delivery!Next
  <2> QED
    BY <2>2, <2>3, <2>4
<1>2. ASSUME NEW s \in Senders, ConnectOk(s) \/ SessionOk(s)
      PROVE  Delivery!Next
  <2>1. senderId = NoSender /\ senderId' # NoSender
    BY <1>0, <1>2 DEF ConnectOk, SessionOk, OpenSession, SessionInv, ClientAssumption
  <2>2. Stored' \in {Stored, memory} /\ UNCHANGED <<lane, ticket, received>>
    BY <1>0, <1>2, OpenClears DEF Stored
  <2>3. Delivery!Open
    BY <1>0, <2>1, <2>2, LanesAgree DEF Delivery!Open
  <2> QED
    BY <2>3 DEF Delivery!Next
<1>3. CASE DropForeign
  <2>1. PICK r \in Oldest(memory) : Acknowledge([record |-> r, lane |-> "memory"])
    BY <1>3 DEF DropForeign
  <2>2. /\ senderId # NoSender /\ senderId' = senderId
        /\ UNCHANGED <<lane, ticket, received>>
    BY <1>0, <1>3 DEF DropForeign, Peeking, SessionInv, historyVars, recordVars
  <2>3. r \in memory /\ lane[r] = "memory" /\ r \in Records
        /\ \A other \in memory : ticket[r] <= ticket[other]
    BY <1>0, <2>1 DEF Oldest, TypeOK
  <2>4. Stored' = Stored \ {r} /\ r \in Stored
    BY <1>0, <2>1, <2>3, LanesAgree DEF Acknowledge, Stored
  <2>5. Delivery!Reject(r)
    BY <1>0, <2>2, <2>3, <2>4, LanesAgree DEF Delivery!Reject, Delivery!OldestOf
  <2> QED
    BY <2>3, <2>5 DEF Delivery!Next
<1>4. CASE Received
  <2>1. /\ pc = "post" /\ received' = received \cup {item.record}
        /\ UNCHANGED <<Stored, lane, ticket, senderId>>
    BY <1>4 DEF Received, Stored, storeVars, recordVars
  <2>2. /\ senderId # NoSender /\ item.record \in Records /\ item.record \in Stored
        /\ \A other \in Stored :
              lane[other] = lane[item.record] => ticket[item.record] <= ticket[other]
    BY <1>0, <2>1 DEF SessionInv, FlightInv, InFlight, TypeOK
  <2>3. Delivery!OldestOf(item.record)
    BY <2>2 DEF Delivery!OldestOf, Delivery!Held
  <2>4. Delivery!Receive(item.record)
    BY <2>1, <2>2, <2>3 DEF Delivery!Receive
  <2> QED
    BY <1>0, <2>2, <2>4 DEF Delivery!Next
<1>5. CASE AckSent
  <2> DEFINE r == item.record
  <2>1. /\ Acknowledge(item) /\ UNCHANGED <<database, senderId, lane, ticket, received>>
        /\ r \in Records /\ r \in Stored /\ r \in received /\ item.lane = lane[r]
    BY <1>0, <1>5 DEF AckSent, historyVars, recordVars, FlightInv, InFlight, TypeOK
  <2>2. Stored' = Stored \/ Stored' = Stored \ {r}
    <3>1. r \in memory => r \notin disk /\ item.lane = "memory"
      BY <1>0, <2>1, LanesAgree DEF TypeOK
    <3>2. r \in disk => r \notin memory /\ item.lane = "disk"
      BY <1>0, <2>1, LanesAgree DEF TypeOK
    <3> QED
      BY <2>1, <3>1, <3>2 DEF Acknowledge, Stored
  <2>3. CASE Stored' = Stored \ {r}
    <3>1. Delivery!Settle(r)
      BY <2>1, <2>3 DEF Delivery!Settle
    <3> QED
      BY <1>0, <2>1, <3>1 DEF Delivery!Next
  <2> QED
    BY <1>0, <2>1, <2>2, <2>3
<1>6. CASE Restart
  <2>1. /\ Stored' = disk /\ senderId' = NoSender
        /\ UNCHANGED <<lane, ticket, received>>
    BY <1>6 DEF Restart, Stored, recordVars
  <2>2. Delivery!Exit
    BY <1>0, <2>1, LanesAgree DEF Delivery!Exit
  <2> QED
    BY <1>0, <2>2 DEF Delivery!Next
<1>7. ASSUME NEW r \in Records, Enqueue(r)
      PROVE  Delivery!Next
  <2>1. PICK l \in {"disk", "memory"} : lane' = [lane EXCEPT ![r] = l]
    BY <1>0, <1>7, EnqueueAdds
  <2>2. /\ ticket' = [ticket EXCEPT ![r] = Delivery!Cardinality(Delivery!Accepted) + 1]
        /\ Stored' = Stored \cup {r} /\ UNCHANGED <<received, senderId>>
    BY <1>0, <1>7, EnqueueAdds, SameCount DEF Delivery!Accepted, Accepted
  <2>3. lane[r] = "none"
    BY <1>7 DEF Enqueue
  <2>4. Delivery!Accept(r, l)
    BY <2>1, <2>2, <2>3 DEF Delivery!Accept
  <2> QED
    BY <2>4 DEF Delivery!Next, Delivery!Lanes
<1> QED
  BY <1>0, <1>1, <1>2, <1>3, <1>4, <1>5, <1>6, <1>7, StepKinds

(* The TypeScript client implements the contract of LogDelivery: records   *)
(* are accepted in order, sent oldest first of their lane and within a     *)
(* session, and given up unsent only when a session opens, the process     *)
(* ends, or a record is another sender's.                                  *)
THEOREM ClientImplementsDelivery == Spec => ImplementsDelivery
<1>1. Init => Delivery!Init
  BY InitRefines
<1>2. TsInv /\ [Next]_vars => [Delivery!Next]_(Delivery!abstractVars)
  BY ClientAssumption, StepRefines
<1> QED
  BY <1>1, <1>2, TsInvariant, PTL DEF Spec, ImplementsDelivery, Delivery!Spec
=============================================================================
