------------------------- MODULE PySharedQueueProofs -------------------------
(***************************************************************************)
(* The safety invariants of PySharedQueue for any numbers of processes,    *)
(* records, starts, faults and retries.  SharedInv strengthens them until  *)
(* they are inductive: what a row's id says of it, what a worker holds     *)
(* between its peek and its acknowledgement while the others go on with    *)
(* the same table, and whose instance every tag is.                        *)
(***************************************************************************)
EXTENDS PySharedQueue, FiniteSetTheorems, TLAPS

(* Ids are given once and count the rows inserted; every row of the table  *)
(* is of a record that was queued, and of no other row's.                  *)
Numbered ==
    /\ nextId = Cardinality(Queued) + 1
    /\ \A row \in table : row.id < nextId /\ row.rec \in Queued
    /\ \A row, other \in table :
          row.id = other.id \/ row.rec = other.rec => row = other

(* The row a worker holds: deleted or not, it was the oldest, and its id   *)
(* and its record are still those of no other row.                         *)
HeldBy(p) ==
    /\ item[p] \in Rows
    /\ item[p].id < nextId
    /\ item[p].rec \in Queued
    /\ inst[p] # 0
    /\ pc[p] = "ack" => received[item[p].rec] # {}
    /\ \A row \in table :
          /\ item[p].id <= row.id
          /\ item[p].id = row.id \/ item[p].rec = row.rec => row = item[p]

Held == \A p \in Processes : pc[p] \in {"post", "ack"} => HeldBy(p)

(* Instances belong to the process they were given to, tags to a record's  *)
(* writer, and what was received was queued and is filed under its tag.    *)
OwnedBy(p) == inst[p] # 0 => owner[inst[p]] = p
Filed(r) ==
    /\ at[r] # "new" => writer[r] \in Processes
    /\ at[r] \in {"new", "tag"} => tag[r] = 0
    /\ at[r] # "queued" => received[r] = {}
    /\ tag[r] # 0 => owner[tag[r]] = writer[r] /\ received[r] \subseteq {tag[r]}

Owned == (\A p \in Processes : OwnedBy(p)) /\ \A r \in Records : Filed(r)

(* The places where the worker's two session attributes agree. *)
SamePair ==
    \A p \in Processes :
        /\ pc[p] \notin {"named", "forget", "done"} => inst[p] = token[p]
        /\ pc[p] = "forget" => inst[p] = 0

SharedInv ==
    TypeOK /\ Numbered /\ Held /\ Owned /\ SamePair
    /\ NothingLostBetween /\ TableOrder /\ DisabledByOwnSession

-----------------------------------------------------------------------------
(* The next id is in range, and so is a row's. *)
LEMMA IdsInRange ==
    ASSUME SharedAssumption, TypeOK, Numbered
    PROVE  /\ Cardinality(Queued) \in 0 .. Cardinality(Records)
           /\ IsFiniteSet(Queued) /\ Cardinality(Records) \in Nat
           /\ \A r \in Records \ Queued :
                 /\ Cardinality(Queued \cup {r}) = Cardinality(Queued) + 1
                 /\ Cardinality(Queued) + 1 \in 1 .. Cardinality(Records)
<1>1. IsFiniteSet(Records) /\ Queued \subseteq Records
  BY DEF SharedAssumption, Queued
<1>2. /\ IsFiniteSet(Queued) /\ Cardinality(Queued) <= Cardinality(Records)
      /\ Cardinality(Records) \in Nat /\ Cardinality(Queued) \in Nat
  BY <1>1, FS_Subset, FS_CardinalityType
<1>3. ASSUME NEW r \in Records \ Queued
      PROVE  /\ Cardinality(Queued \cup {r}) = Cardinality(Queued) + 1
             /\ Cardinality(Queued) + 1 \in 1 .. Cardinality(Records)
  <2>1. Cardinality(Queued \cup {r}) = Cardinality(Queued) + 1
    BY <1>2, <1>3, FS_AddElement
  <2>2. Queued \cup {r} \subseteq Records
    BY <1>1
  <2>3. Cardinality(Queued \cup {r}) <= Cardinality(Records)
    BY <1>1, <2>2, FS_Subset
  <2> QED
    BY <1>2, <2>1, <2>3
<1> QED
  BY <1>2, <1>3

LEMMA PlainStepsTyped ==
    ASSUME SharedAssumption, SharedInv, NEW p \in Processes,
           Start(p) \/ Exit(p) \/ AssignToken(p) \/ ClearTable(p)
           \/ ForgetToken(p) \/ Idle(p) \/ Backoff(p) \/ Ack(p)
           \/ HealthRead(p) \/ HealthAnswer(p)
    PROVE  TypeOK'
<1> USE DEF TypeOK, Instances, WorkerPcs, SharedAssumption, SharedInv
<1>0. RetryAttempts \in Nat /\ MaxStarts \in Nat /\ MaxFaults \in Nat
  OBVIOUS
<1>1. CASE Start(p)
  <2>1. starts' \in 0 .. MaxStarts
    BY <1>0, <1>1 DEF Start
  <2> QED
    BY <1>1, <2>1 DEF Start, Goto, sessionVars, sendVars, resultVars, fileVars
<1>2. CASE Exit(p)
  <2>1. /\ at' \in [Records -> {"new", "tag", "insert", "queued"}]
        /\ writer' \in [Records -> Processes \cup {"nobody"}]
        /\ tag' \in [Records -> Instances \cup {0}]
    BY <1>2 DEF Exit
  <2>2. fails' \in [Processes -> 0 .. RetryAttempts + 1]
    BY <1>0, <1>2 DEF Exit
  <2> QED
    BY <1>2, <2>1, <2>2 DEF Exit, Goto, boundVars, fileVars
<1>3. CASE AssignToken(p)
  BY <1>3 DEF AssignToken, Goto, boundVars, sendVars, resultVars, fileVars
<1>4. CASE ClearTable(p)
  BY <1>4 DEF ClearTable, Goto, boundVars, sessionVars, sendVars, Rows
<1>5. CASE ForgetToken(p)
  BY <1>5 DEF ForgetToken, Goto, boundVars, sendVars, resultVars, fileVars
<1>6. CASE Idle(p)
  BY <1>6 DEF Idle, Goto, boundVars, sessionVars, sendVars, resultVars, fileVars
<1>7. CASE Backoff(p)
  BY <1>7 DEF Backoff, Goto, boundVars, sessionVars, sendVars, resultVars, fileVars
<1>8. CASE Ack(p)
  <2>1. table' \subseteq Rows
    BY <1>8 DEF Ack
  <2>2. fails' \in [Processes -> 0 .. RetryAttempts + 1]
    BY <1>0, <1>8 DEF Ack
  <2> QED
    BY <1>8, <2>1, <2>2 DEF Ack, Goto, boundVars, sessionVars, sendVars, resultVars
<1>9. CASE HealthRead(p)
  BY <1>9 DEF HealthRead, workerVars, boundVars, sendVars, resultVars, fileVars
<1>10. CASE HealthAnswer(p)
  BY <1>10 DEF HealthAnswer, workerVars, boundVars, sendVars, resultVars, fileVars
<1> QED
  BY <1>1, <1>2, <1>3, <1>4, <1>5, <1>6, <1>7, <1>8, <1>9, <1>10

LEMMA FailureTyped ==
    ASSUME SharedAssumption, TypeOK, NEW p \in Processes, CountFailure(p)
    PROVE  /\ fails' \in [Processes -> 0 .. RetryAttempts + 1]
           /\ inst' \in [Processes -> Instances \cup {0}]
           /\ pc' \in [Processes -> WorkerPcs \cup {"off", "done"}]
           /\ pc' = [pc EXCEPT ![p] = pc'[p]] /\ pc'[p] \in {"forget", "backoff"}
           /\ inst' = [inst EXCEPT ![p] = inst'[p]]
           /\ inst'[p] = IF pc'[p] = "forget" THEN 0 ELSE inst[p]
<1> DEFINE n == IF fails[p] > RetryAttempts THEN fails[p] ELSE fails[p] + 1
<1>1. RetryAttempts \in Nat /\ fails \in [Processes -> 0 .. RetryAttempts + 1]
  BY DEF SharedAssumption, TypeOK
<1>2. n \in 0 .. RetryAttempts + 1
  BY <1>1
<1>3. /\ fails' = [fails EXCEPT ![p] = n]
      /\ inst' = [inst EXCEPT ![p] = IF n > RetryAttempts THEN 0 ELSE inst[p]]
      /\ pc' = [pc EXCEPT ![p] = IF n > RetryAttempts THEN "forget" ELSE "backoff"]
  BY DEF CountFailure, Goto
<1> HIDE DEF n
<1>4. fails' \in [Processes -> 0 .. RetryAttempts + 1]
  BY <1>1, <1>2, <1>3
<1>5. pc \in [Processes -> WorkerPcs \cup {"off", "done"}]
      /\ inst \in [Processes -> Instances \cup {0}]
  BY DEF TypeOK
<1> QED
  BY <1>3, <1>4, <1>5 DEF WorkerPcs

LEMMA SessionTyped ==
    ASSUME SharedAssumption, SharedInv, NEW p \in Processes,
           SessionOk(p) \/ (\E a \in Answers : SessionFails(p, a))
    PROVE  TypeOK'
<1> USE DEF TypeOK, WorkerPcs, SharedInv
<1>0. RetryAttempts \in Nat /\ MaxFaults \in Nat
  BY DEF SharedAssumption
<1>1. CASE SessionOk(p)
  <2>1. owner' \in Seq(Processes) /\ Len(owner') = Len(owner) + 1 /\ Len(owner) \in Nat
    BY <1>1 DEF SessionOk
  <2>2. Instances \subseteq Instances' /\ Len(owner) + 1 \in Instances'
    BY <2>1 DEF Instances
  <2>3. /\ inst' \in [Processes -> Instances' \cup {0}]
        /\ token' \in [Processes -> Instances' \cup {0}]
        /\ hid' \in [Processes -> Instances' \cup {0}]
    BY <1>1, <2>2 DEF SessionOk
  <2>4. tag' \in [Records -> Instances' \cup {0}]
    BY <1>1, <2>2 DEF SessionOk, sendVars
  <2>5. received' \in [Records -> SUBSET Instances']
    BY <1>1, <2>2 DEF SessionOk, resultVars
  <2> QED
    BY <1>1, <2>1, <2>3, <2>4, <2>5
       DEF SessionOk, Goto, sendVars, resultVars, fileVars
<1>2. ASSUME NEW a \in Answers, SessionFails(p, a)
      PROVE  TypeOK'
  <2>1. faults' \in 0 .. MaxFaults
    BY <1>0, <1>2 DEF SessionFails, Fault
  <2>2. up' \in [Processes -> BOOLEAN]
    BY <1>2 DEF SessionFails
  <2>3. /\ fails' \in [Processes -> 0 .. RetryAttempts + 1]
        /\ inst' \in [Processes -> Instances \cup {0}]
        /\ pc' \in [Processes -> WorkerPcs \cup {"off", "done"}]
        /\ remote' \in [Processes -> BOOLEAN]
        /\ blame' \in [Processes -> {"none", "own", "mixed"}]
    <3>1. CASE Disable(p) /\ UNCHANGED <<inst, fails>>
      BY <3>1 DEF Disable, Goto
    <3>2. CASE CountFailure(p) /\ UNCHANGED <<remote, blame>>
      BY <3>2, FailureTyped
    <3>3. CASE /\ fails' = [fails EXCEPT ![p] = IF fails[p] < RetryAttempts
                                                 THEN fails[p] + 1 ELSE fails[p]]
               /\ Goto(p, IF fails[p] < RetryAttempts THEN "init" ELSE "done")
               /\ UNCHANGED <<inst, remote, blame>>
      <4>1. (IF fails[p] < RetryAttempts THEN fails[p] + 1 ELSE fails[p])
               \in 0 .. RetryAttempts + 1
        BY <1>0
      <4>2. fails' \in [Processes -> 0 .. RetryAttempts + 1]
        BY <3>3, <4>1
      <4> QED
        BY <3>3, <4>2 DEF Goto
    <3> QED
      BY <1>2, <3>1, <3>2, <3>3 DEF SessionFails
  <2> QED
    BY <1>2, <2>1, <2>2, <2>3 DEF SessionFails, sendVars, fileVars, Instances
<1> QED
  BY <1>1, <1>2

LEMMA RowStepsTyped ==
    ASSUME SharedAssumption, SharedInv, NEW p \in Processes,
           Loop(p) \/ \E a \in Answers : Post(p, a)
    PROVE  TypeOK'
<1> USE DEF TypeOK, WorkerPcs, SharedInv
<1>1. CASE Loop(p)
  <2>1. item' \in [Processes -> Rows \cup {NoRow}]
    BY <1>1 DEF Loop
  <2>2. pc' \in [Processes -> WorkerPcs \cup {"off", "done"}]
    <3>1. \E place \in {"init", "idle", "post"} : pc' = [pc EXCEPT ![p] = place]
      BY <1>1 DEF Loop, Goto
    <3> QED
      BY <3>1
  <2> QED
    BY <1>1, <2>1, <2>2 DEF Loop, fileVars, sessionVars, sendVars, boundVars,
                            resultVars, Instances
<1>2. ASSUME NEW a \in Answers, Post(p, a)
      PROVE  TypeOK'
  <2>1. faults' \in 0 .. MaxFaults
    BY <1>2 DEF Post, Fault, SharedAssumption
  <2>2. FiledUnder(p) \in Instances
    BY <1>2 DEF Post, FiledUnder, Held, HeldBy, Rows
  <2>3. received' \in [Records -> SUBSET Instances]
    <3>1. received' = received
          \/ received' = [received EXCEPT ![item[p].rec] = @ \cup {FiledUnder(p)}]
      BY <1>2 DEF Post
    <3>2. received \in [Records -> SUBSET Instances]
      OBVIOUS
    <3> QED
      BY ONLY <2>2, <3>1, <3>2
  <2>4. item' \in [Processes -> Rows \cup {NoRow}]
    BY <1>2 DEF Post
  <2>5. /\ fails' \in [Processes -> 0 .. RetryAttempts + 1]
        /\ inst' \in [Processes -> Instances \cup {0}]
        /\ pc' \in [Processes -> WorkerPcs \cup {"off", "done"}]
        /\ remote' \in [Processes -> BOOLEAN]
        /\ blame' \in [Processes -> {"none", "own", "mixed"}]
    <3>1. CASE Disable(p) /\ UNCHANGED <<inst, fails>>
      BY <3>1 DEF Disable, Goto
    <3>2. CASE CountFailure(p) /\ UNCHANGED <<remote, blame>>
      BY <3>2, FailureTyped
    <3>3. CASE Goto(p, "ack") /\ UNCHANGED <<inst, fails, remote, blame>>
      BY <3>3 DEF Goto
    <3> QED
      BY <1>2, <3>1, <3>2, <3>3 DEF Post
  <2> QED
    BY <1>2, <2>1, <2>3, <2>4, <2>5 DEF Post, sendVars, fileVars, Instances
<1> QED
  BY <1>1, <1>2

LEMMA SendTyped ==
    ASSUME SharedAssumption, SharedInv, NEW r \in Records, SendStep(r)
    PROVE  TypeOK'
<1> USE DEF TypeOK, Instances, SharedInv
<1>1. ASSUME NEW p \in Processes, SendBegin(r, p)
      PROVE  TypeOK'
  BY <1>1 DEF SendBegin, workerVars, boundVars, sessionVars, resultVars, fileVars
<1>2. CASE SendTag(r)
  <2>1. writer[r] \in Processes
    BY <1>2 DEF SendTag, Owned, Filed
  <2> QED
    BY <1>2, <2>1 DEF SendTag, workerVars, boundVars, sessionVars, resultVars,
                      fileVars
<1>3. CASE SendInsert(r)
  <2>1. r \in Records \ Queued
    BY <1>3 DEF SendInsert, Queued
  <2>2. nextId \in 1 .. Cardinality(Records) /\ Cardinality(Records) \in Nat
    BY <2>1, IdsInRange DEF Numbered
  <2>3. nextId' \in 1 .. Cardinality(Records) + 1 /\ table' \subseteq Rows
    BY <1>3, <2>2 DEF SendInsert, Rows
  <2> QED
    BY <1>3, <2>3 DEF SendInsert, workerVars, boundVars, sessionVars, resultVars
<1> QED
  BY <1>1, <1>2, <1>3 DEF SendStep

-----------------------------------------------------------------------------
(* The steps that insert no row. *)
OtherStep ==
    \/ \E p \in Processes : Start(p) \/ Exit(p) \/ WorkerStep(p) \/ HealthStep(p)
    \/ \E r \in Records : (\E p \in Processes : SendBegin(r, p)) \/ SendTag(r)
    \/ UNCHANGED vars

LEMMA StepKinds ==
    ASSUME [Next]_vars
    PROVE  OtherStep \/ \E r \in Records : SendInsert(r)
<1>1. CASE \E p \in Processes : Start(p) \/ Exit(p) \/ WorkerStep(p) \/ HealthStep(p)
  BY <1>1 DEF OtherStep
<1>2. CASE \E r \in Records : SendStep(r)
  BY <1>2 DEF OtherStep, SendStep
<1>3. CASE UNCHANGED vars
  BY <1>3 DEF OtherStep
<1> QED
  BY <1>1, <1>2, <1>3 DEF Next

(* What they do to the table and to the histories of delivery. *)
TableShrinks ==
    /\ nextId' = nextId /\ table' \subseteq table
    /\ Queued' = Queued /\ lost \subseteq lost'
    /\ \A r \in Records : received[r] \subseteq received'[r]

LEMMA OtherStepsShrink ==
    ASSUME SharedInv, OtherStep
    PROVE  TableShrinks
<1> USE DEF SharedInv, TableShrinks
<1>1. ASSUME NEW p \in Processes, Start(p) \/ HealthStep(p)
      PROVE  TableShrinks
  BY <1>1 DEF Start, HealthStep, HealthRead, HealthAnswer, fileVars, sendVars,
              resultVars, Queued
<1>2. ASSUME NEW p \in Processes, Exit(p)
      PROVE  TableShrinks
  <2>1. Queued' = Queued
    BY <1>2 DEF Exit, Queued, TypeOK
  <2> QED
    BY <1>2, <2>1 DEF Exit, fileVars
<1>3. ASSUME NEW p \in Processes, WorkerStep(p)
      PROVE  TableShrinks
  <2>1. CASE SessionOk(p) \/ AssignToken(p) \/ ForgetToken(p) \/ Loop(p) \/ Idle(p)
             \/ Backoff(p) \/ Ack(p)
    BY <2>1 DEF SessionOk, AssignToken, ForgetToken, Loop, Idle, Backoff, Ack,
                fileVars, sendVars, resultVars, Queued
  <2>2. CASE ClearTable(p)
    BY <2>2 DEF ClearTable, sendVars, Queued
  <2>3. CASE \E a \in Answers : SessionFails(p, a)
    BY <2>3 DEF SessionFails, fileVars, sendVars, Queued
  <2>4. ASSUME NEW a \in Answers, Post(p, a)
        PROVE  TableShrinks
    <3>1. received' = received
          \/ received' = [received EXCEPT ![item[p].rec] = @ \cup {FiledUnder(p)}]
      BY <2>4 DEF Post
    <3>2. received \in [Records -> SUBSET Instances]
      BY DEF TypeOK
    <3>3. \A r \in Records : received[r] \subseteq received'[r]
      BY ONLY <3>1, <3>2
    <3> QED
      BY <2>4, <3>3 DEF Post, fileVars, sendVars, Queued
  <2> QED
    BY <1>3, <2>1, <2>2, <2>3, <2>4 DEF WorkerStep
<1>4. ASSUME NEW r \in Records, (\E p \in Processes : SendBegin(r, p)) \/ SendTag(r)
      PROVE  TableShrinks
  <2>1. Queued' = Queued
    BY <1>4 DEF SendBegin, SendTag, Queued, TypeOK
  <2> QED
    BY <1>4, <2>1 DEF SendBegin, SendTag, fileVars, resultVars
<1>5. CASE UNCHANGED vars
  BY <1>5 DEF vars, fileVars, sendVars, resultVars, Queued
<1> QED
  BY <1>1, <1>2, <1>3, <1>4, <1>5 DEF OtherStep

(* What an insertion does: the row has the next id, its record was new. *)
LEMMA InsertAdds ==
    ASSUME SharedAssumption, SharedInv, NEW r \in Records, SendInsert(r)
    PROVE  /\ r \notin Queued /\ Queued' = Queued \cup {r}
           /\ nextId \in Nat /\ nextId' = nextId + 1
           /\ [id |-> nextId, rec |-> r] \in Rows
           /\ table' = table \cup {[id |-> nextId, rec |-> r]}
           /\ received[r] = {} /\ UNCHANGED <<received, lost>>
<1>1. r \notin Queued /\ Queued' = Queued \cup {r}
  BY DEF SendInsert, Queued, SharedInv, TypeOK
<1>2. nextId \in 1 .. Cardinality(Records) /\ Cardinality(Records) \in Nat
  BY <1>1, IdsInRange DEF SharedInv, Numbered
<1>3. [id |-> nextId, rec |-> r] \in Rows
  BY <1>2 DEF Rows
<1>4. received[r] = {}
  BY DEF SendInsert, SharedInv, Owned, Filed
<1> QED
  BY <1>1, <1>2, <1>3, <1>4 DEF SendInsert, resultVars

LEMMA NumberedKept ==
    ASSUME SharedAssumption, SharedInv, [Next]_vars
    PROVE  Numbered'
<1>1. CASE OtherStep
  <2>1. TableShrinks /\ Numbered
    BY <1>1, OtherStepsShrink DEF SharedInv
  <2> QED
    BY <2>1 DEF TableShrinks, Numbered
<1>2. ASSUME NEW r \in Records, SendInsert(r)
      PROVE  Numbered'
  <2> DEFINE new == [id |-> nextId, rec |-> r]
  <2>1. /\ r \notin Queued /\ Queued' = Queued \cup {r} /\ nextId \in Nat
        /\ nextId' = nextId + 1 /\ table' = table \cup {new}
    BY <1>2, InsertAdds
  <2>2. Numbered /\ table \subseteq Rows /\ Cardinality(Queued) \in Nat
    BY IdsInRange DEF SharedInv, TypeOK
  <2>3. nextId' = Cardinality(Queued') + 1
    BY <2>1, <2>2, IdsInRange DEF SharedInv, Numbered
  <2>4. \A row \in table' : row.id < nextId' /\ row.rec \in Queued'
    <3>1. \A row \in table : row.id < nextId /\ row.id \in Nat /\ row.rec \in Queued
      BY <2>2 DEF Numbered, Rows
    <3> QED
      BY <2>1, <3>1
  <2>5. \A row \in table : row.id # new.id /\ row.rec # new.rec
    BY <2>1, <2>2 DEF Numbered, Rows
  <2>6. \A row, other \in table' :
           row.id = other.id \/ row.rec = other.rec => row = other
    BY <2>1, <2>2, <2>5 DEF Numbered
  <2> QED
    BY <2>3, <2>4, <2>6 DEF Numbered
<1> QED
  BY <1>1, <1>2, StepKinds

-----------------------------------------------------------------------------
(* The steps of one process, and what they leave alone of the others. *)
ProcessStep(p) == Start(p) \/ Exit(p) \/ WorkerStep(p) \/ HealthStep(p)

Local(p) ==
    \A q \in Processes \ {p} :
        /\ pc'[q] = pc[q] /\ item'[q] = item[q] /\ blame'[q] = blame[q]
        /\ inst'[q] = inst[q] /\ token'[q] = token[q]

LEMMA StepsAreLocal ==
    ASSUME SharedAssumption, SharedInv, NEW p \in Processes, ProcessStep(p)
    PROVE  Local(p)
<1>0. TypeOK
  BY DEF SharedInv
<1> USE DEF Local, TypeOK
<1>1. CASE Start(p) \/ Exit(p) \/ HealthStep(p)
  BY <1>0, <1>1 DEF Start, Exit, HealthStep, HealthRead, HealthAnswer, Goto,
                    sessionVars, workerVars, resultVars
<1>2. CASE SessionOk(p) \/ AssignToken(p) \/ ClearTable(p) \/ ForgetToken(p)
  BY <1>0, <1>2 DEF SessionOk, AssignToken, ClearTable, ForgetToken, Goto,
                    sessionVars, resultVars
<1>3. CASE Loop(p) \/ Idle(p) \/ Backoff(p) \/ Ack(p)
  BY <1>0, <1>3 DEF Loop, Idle, Backoff, Ack, Goto, sessionVars, resultVars
<1>4. ASSUME NEW a \in Answers, SessionFails(p, a)
      PROVE  Local(p)
  <2>1. CASE Disable(p) /\ UNCHANGED <<inst, fails>>
    BY <1>0, <1>4, <2>1 DEF SessionFails, Disable, Goto
  <2>2. CASE CountFailure(p) /\ UNCHANGED <<remote, blame>>
    <3>1. UNCHANGED <<token, item, blame>>
      BY <1>4, <2>2 DEF SessionFails
    <3>2. pc' = [pc EXCEPT ![p] = pc'[p]] /\ inst' = [inst EXCEPT ![p] = inst'[p]]
      BY <1>0, <2>2, FailureTyped
    <3> QED
      BY <1>0, <3>1, <3>2
  <2>3. CASE UNCHANGED <<inst, remote, blame>>
             /\ Goto(p, IF fails[p] < RetryAttempts THEN "init" ELSE "done")
    BY <1>0, <1>4, <2>3 DEF SessionFails, Goto
  <2> QED
    BY <1>4, <2>1, <2>2, <2>3 DEF SessionFails
<1>5. ASSUME NEW a \in Answers, Post(p, a)
      PROVE  Local(p)
  <2>1. \A q \in Processes \ {p} : item'[q] = item[q]
    BY <1>0, <1>5 DEF Post
  <2>2. CASE Goto(p, "ack") /\ UNCHANGED <<inst, fails, remote, blame>>
    BY <1>0, <1>5, <2>1, <2>2 DEF Post, Goto
  <2>3. CASE CountFailure(p) /\ UNCHANGED <<remote, blame>>
    <3>1. UNCHANGED <<token, blame>>
      BY <1>5, <2>3 DEF Post
    <3>2. pc' = [pc EXCEPT ![p] = pc'[p]] /\ inst' = [inst EXCEPT ![p] = inst'[p]]
      BY <1>0, <2>3, FailureTyped
    <3> QED
      BY <1>0, <2>1, <3>1, <3>2
  <2>4. CASE Disable(p) /\ UNCHANGED <<inst, fails>>
    BY <1>0, <1>5, <2>1, <2>4 DEF Post, Disable, Goto
  <2> QED
    BY <1>5, <2>2, <2>3, <2>4 DEF Post
<1> QED
  BY <1>1, <1>2, <1>3, <1>4, <1>5 DEF ProcessStep, WorkerStep

(* A row is taken as the oldest, and acknowledged after it was received. *)
LEMMA HoldsAfterStep ==
    ASSUME SharedAssumption, SharedInv, NEW p \in Processes, ProcessStep(p),
           pc'[p] \in {"post", "ack"}
    PROVE  HeldBy(p)' \/ UNCHANGED <<pc[p], item[p], inst[p]>>
<1>0. TypeOK /\ Numbered /\ Held
  BY DEF SharedInv
<1> USE DEF TypeOK, Goto
<1>1. CASE Start(p) \/ Exit(p) \/ HealthStep(p)
  BY <1>0, <1>1 DEF Start, Exit, HealthStep, HealthRead, HealthAnswer, workerVars
<1>2. CASE SessionOk(p) \/ AssignToken(p) \/ ClearTable(p) \/ ForgetToken(p)
           \/ Idle(p) \/ Backoff(p) \/ Ack(p)
  BY <1>0, <1>2 DEF SessionOk, AssignToken, ClearTable, ForgetToken, Idle,
                    Backoff, Ack
<1>3. CASE Loop(p)
  <2>1. PICK row \in table : /\ \A other \in table : row.id <= other.id
                             /\ item' = [item EXCEPT ![p] = row]
                             /\ pc' = [pc EXCEPT ![p] = "post"]
                             /\ inst[p] # 0
    BY <1>0, <1>3 DEF Loop
  <2>2. item'[p] = row /\ pc'[p] = "post" /\ inst'[p] # 0
    BY <1>0, <1>3, <2>1 DEF Loop, sessionVars
  <2>3. row \in Rows /\ row.id < nextId /\ row.rec \in Queued
    BY <1>0, <2>1 DEF Numbered
  <2>4. nextId' = nextId /\ table' = table /\ Queued' = Queued
    BY <1>3 DEF Loop, fileVars, sendVars, Queued
  <2>5. \A other \in table : row.id = other.id \/ row.rec = other.rec => other = row
    BY <1>0, <2>1 DEF Numbered
  <2> QED
    BY <2>1, <2>2, <2>3, <2>4, <2>5 DEF HeldBy, Rows
<1>4. ASSUME NEW a \in Answers, SessionFails(p, a)
      PROVE  FALSE
  <2>1. CASE Disable(p) /\ UNCHANGED <<inst, fails>>
    BY <1>0, <2>1 DEF Disable
  <2>2. CASE CountFailure(p)
    BY <1>0, <2>2, FailureTyped
  <2>3. CASE Goto(p, IF fails[p] < RetryAttempts THEN "init" ELSE "done")
    BY <1>0, <2>3
  <2> QED
    BY <1>4, <2>1, <2>2, <2>3 DEF SessionFails
<1>5. ASSUME NEW a \in Answers, Post(p, a)
      PROVE  HeldBy(p)'
  <2>1. CASE Disable(p) /\ UNCHANGED <<inst, fails>>
    BY <1>0, <2>1 DEF Disable
  <2>2. CASE CountFailure(p)
    BY <1>0, <2>2, FailureTyped
  <2>3. CASE Outcome(a) = "ok" /\ UNCHANGED inst
    <3>1. a.kind = "ok"
      BY <2>3 DEF Outcome, Answers
    <3>2. received' = [received EXCEPT ![item[p].rec] = @ \cup {FiledUnder(p)}]
      BY <1>5, <3>1 DEF Post
    <3>3. HeldBy(p) /\ item[p].rec \in Records
      BY <1>0, <1>5 DEF Post, Held, HeldBy, Rows
    <3>4. received'[item[p].rec] # {}
      BY <1>0, <3>2, <3>3
    <3>5. UNCHANGED <<item, table, nextId, Queued>>
      BY <1>5, <2>3 DEF Post, fileVars, sendVars, Queued
    <3> QED
      BY <2>3, <3>3, <3>4, <3>5 DEF HeldBy
  <2> QED
    BY <1>5, <2>1, <2>2, <2>3 DEF Post
<1> QED
  BY <1>1, <1>2, <1>3, <1>4, <1>5 DEF ProcessStep, WorkerStep

LEMMA HeldKept ==
    ASSUME SharedAssumption, SharedInv, [Next]_vars
    PROVE  Held'
<1>0. Held /\ table \subseteq Rows
  BY DEF SharedInv, TypeOK
<1>1. ASSUME NEW q \in Processes, HeldBy(q), TableShrinks,
             UNCHANGED <<pc[q], item[q], inst[q]>>
      PROVE  HeldBy(q)'
  <2>1. item[q].rec \in Records
    BY <1>1 DEF HeldBy, Rows
  <2> QED
    BY <1>1, <2>1 DEF HeldBy, TableShrinks, Rows
<1>2. ASSUME NEW p \in Processes, ProcessStep(p)
      PROVE  Held'
  <2>1. TableShrinks
    BY <1>2, OtherStepsShrink DEF OtherStep, ProcessStep
  <2>2. ASSUME NEW q \in Processes, pc'[q] \in {"post", "ack"}
        PROVE  HeldBy(q)'
    <3>1. CASE UNCHANGED <<pc[q], item[q], inst[q]>>
      BY <1>0, <1>1, <2>1, <2>2, <3>1 DEF Held
    <3>2. CASE q # p
      BY <1>2, <3>1, <3>2, StepsAreLocal DEF Local
    <3>3. CASE q = p
      BY <1>2, <2>2, <3>1, <3>3, HoldsAfterStep
    <3> QED
      BY <3>2, <3>3
  <2> QED
    BY <2>2 DEF Held
<1>3. ASSUME NEW r \in Records, (\E p \in Processes : SendBegin(r, p)) \/ SendTag(r)
      PROVE  Held'
  <2>1. TableShrinks
    BY <1>3, OtherStepsShrink DEF OtherStep
  <2>2. UNCHANGED <<pc, item, inst>>
    BY <1>3 DEF SendBegin, SendTag, workerVars, sessionVars
  <2> QED
    BY <1>0, <1>1, <2>1, <2>2 DEF Held
<1>4. ASSUME NEW r \in Records, SendInsert(r)
      PROVE  Held'
  <2> DEFINE new == [id |-> nextId, rec |-> r]
  <2>1. /\ r \notin Queued /\ Queued' = Queued \cup {r} /\ nextId \in Nat
        /\ nextId' = nextId + 1 /\ table' = table \cup {new} /\ received' = received
    BY <1>4, InsertAdds
  <2>2. UNCHANGED <<pc, item, inst>>
    BY <1>4 DEF SendInsert, workerVars, sessionVars
  <2>3. ASSUME NEW q \in Processes, HeldBy(q)
        PROVE  HeldBy(q)'
    <3>1. item[q].id < nextId /\ item[q].id \in Int /\ item[q].rec # r
      BY <2>1, <2>3 DEF HeldBy, Rows
    <3>2. item[q].id < nextId' /\ item[q].id <= new.id /\ item[q].id # new.id
      BY <2>1, <3>1
    <3>3. \A row \in table' :
             /\ item[q].id <= row.id
             /\ item[q].id = row.id \/ item[q].rec = row.rec => row = item[q]
      BY <2>1, <2>3, <3>1, <3>2 DEF HeldBy
    <3> QED
      BY <2>1, <2>2, <2>3, <3>2, <3>3 DEF HeldBy
  <2> QED
    BY <1>0, <2>2, <2>3 DEF Held
<1>5. CASE UNCHANGED vars
  BY <1>0, <1>5 DEF Held, HeldBy, Queued, vars, fileVars, sessionVars, workerVars,
                    sendVars, resultVars
<1> QED
  BY <1>2, <1>3, <1>4, <1>5 DEF Next, ProcessStep, SendStep

-----------------------------------------------------------------------------
(* The table and what was received change in few steps. *)
LEMMA FewSteps ==
    ASSUME OtherStep
    PROVE  /\ table' = table \/ \E p \in Processes : ClearTable(p) \/ Ack(p)
           /\ received' = received
              \/ \E p \in Processes : \E a \in Answers : Post(p, a)
<1> USE DEF fileVars, resultVars
<1>1. ASSUME NEW p \in Processes, Start(p) \/ Exit(p) \/ HealthStep(p)
      PROVE  table' = table /\ received' = received
  BY <1>1 DEF Start, Exit, HealthStep, HealthRead, HealthAnswer
<1>2. ASSUME NEW p \in Processes,
             SessionOk(p) \/ AssignToken(p) \/ ForgetToken(p) \/ Loop(p) \/ Idle(p)
             \/ Backoff(p) \/ \E a \in Answers : SessionFails(p, a)
      PROVE  table' = table /\ received' = received
  BY <1>2 DEF SessionOk, AssignToken, ForgetToken, Loop, Idle, Backoff, SessionFails
<1>3. ASSUME NEW p \in Processes, ClearTable(p) \/ Ack(p)
      PROVE  received' = received
  BY <1>3 DEF ClearTable, Ack
<1>4. ASSUME NEW p \in Processes, NEW a \in Answers, Post(p, a)
      PROVE  table' = table
  BY <1>4 DEF Post
<1>5. ASSUME NEW r \in Records, (\E p \in Processes : SendBegin(r, p)) \/ SendTag(r)
      PROVE  table' = table /\ received' = received
  BY <1>5 DEF SendBegin, SendTag
<1>6. CASE UNCHANGED vars
  BY <1>6 DEF vars
<1> QED
  BY <1>1, <1>2, <1>3, <1>4, <1>5, <1>6 DEF OtherStep, WorkerStep

LEMMA NothingLostKept ==
    ASSUME SharedAssumption, SharedInv, [Next]_vars
    PROVE  NothingLostBetween'
<1>0. NothingLostBetween /\ TypeOK /\ Held
  BY DEF SharedInv
<1>1. CASE OtherStep
  <2>1. TableShrinks
    BY <1>1, OtherStepsShrink
  <2>2. ASSUME NEW r \in Queued, r \in Pending
        PROVE  r \in Pending' \/ received'[r] # {} \/ r \in lost'
    <3>1. r \in Records
      BY DEF Queued
    <3>2. CASE table' = table
      BY <2>2, <3>2 DEF Pending
    <3>3. ASSUME NEW p \in Processes, ClearTable(p)
          PROVE  r \in lost'
      BY <2>2, <3>3 DEF ClearTable, Pending
    <3>4. ASSUME NEW p \in Processes, Ack(p)
          PROVE  r \in Pending' \/ received'[r] # {}
      <4>1. PICK row \in table : row.rec = r
        BY <2>2 DEF Pending
      <4>2. CASE row.id = item[p].id
        <5>1. HeldBy(p) /\ pc[p] = "ack"
          BY <1>0, <3>4 DEF Ack, Held
        <5>2. received[r] # {}
          BY <4>1, <4>2, <5>1 DEF HeldBy
        <5> QED
          BY <2>1, <3>1, <5>2 DEF TableShrinks
      <4>3. CASE row.id # item[p].id
        BY <3>4, <4>1, <4>3 DEF Ack, Pending
      <4> QED
        BY <4>2, <4>3
    <3> QED
      BY <1>1, <3>2, <3>3, <3>4, FewSteps
  <2>3. ASSUME NEW r \in Queued
        PROVE  r \in Pending' \/ received'[r] # {} \/ r \in lost'
    <3>1. r \in Records /\ (r \in Pending \/ received[r] # {} \/ r \in lost)
      BY <1>0 DEF Queued, NothingLostBetween
    <3> QED
      BY <2>1, <2>2, <3>1 DEF TableShrinks
  <2> QED
    BY <2>1, <2>3 DEF NothingLostBetween, TableShrinks
<1>2. ASSUME NEW s \in Records, SendInsert(s)
      PROVE  NothingLostBetween'
  <2>1. /\ Queued' = Queued \cup {s} /\ UNCHANGED <<received, lost>>
        /\ table' = table \cup {[id |-> nextId, rec |-> s]}
    BY <1>2, InsertAdds
  <2>2. s \in Pending' /\ Pending \subseteq Pending'
    <3>1. [id |-> nextId, rec |-> s] \in table' /\ [id |-> nextId, rec |-> s].rec = s
      BY <2>1
    <3>2. s \in {row.rec : row \in table'}
      BY ONLY <3>1
    <3>3. {row.rec : row \in table} \subseteq {row.rec : row \in table'}
      BY <2>1
    <3> QED
      BY <3>2, <3>3 DEF Pending
  <2> QED
    BY <1>0, <2>1, <2>2 DEF NothingLostBetween
<1> QED
  BY <1>1, <1>2, StepKinds

LEMMA OrderKept ==
    ASSUME SharedAssumption, SharedInv, [Next]_vars
    PROVE  TableOrder'
<1>0. TableOrder /\ TypeOK /\ Numbered /\ Held
  BY DEF SharedInv
<1>1. CASE OtherStep
  <2>1. table' \subseteq table /\ table \subseteq Rows
    BY <1>0, <1>1, OtherStepsShrink DEF TableShrinks, TypeOK
  <2>2. CASE received' = received
    BY <1>0, <2>1, <2>2 DEF TableOrder
  <2>3. ASSUME NEW p \in Processes, NEW a \in Answers, Post(p, a)
        PROVE  TableOrder'
    <3>1. HeldBy(p)
      BY <1>0, <2>3 DEF Post, Held
    <3>2. \A r \in Records : r # item[p].rec => received'[r] = received[r]
      BY <1>0, <2>3 DEF Post, TypeOK
    <3>3. \A r \in Records : received[r] \subseteq received'[r]
      BY <1>1, OtherStepsShrink DEF TableShrinks
    <3>4. ASSUME NEW older \in table, NEW newer \in table,
                 older.id < newer.id, received'[newer.rec] # {}
          PROVE  received'[older.rec] # {}
      <4>1. older \in Rows /\ newer \in Rows /\ item[p] \in Rows
        BY <2>1, <3>1 DEF HeldBy
      <4>2. newer.rec # item[p].rec
        <5>1. item[p].id <= older.id
          BY <3>1 DEF HeldBy
        <5>2. newer # item[p]
          BY <3>4, <4>1, <5>1 DEF Rows
        <5> QED
          BY <3>1, <5>2 DEF HeldBy
      <4>3. received[newer.rec] # {}
        BY <3>2, <3>4, <4>1, <4>2 DEF Rows
      <4> QED
        BY <1>0, <3>3, <3>4, <4>1, <4>3 DEF TableOrder, Rows
    <3> QED
      BY <2>1, <3>4 DEF TableOrder
  <2> QED
    BY <1>1, <2>2, <2>3, FewSteps
<1>2. ASSUME NEW r \in Records, SendInsert(r)
      PROVE  TableOrder'
  <2> DEFINE new == [id |-> nextId, rec |-> r]
  <2>1. /\ table' = table \cup {new} /\ received' = received
        /\ received[r] = {} /\ nextId \in Nat
    BY <1>2, InsertAdds
  <2>2. \A row \in table : row.id < nextId /\ row.id \in Nat
    BY <1>0 DEF Numbered, TypeOK, Rows
  <2>3. ASSUME NEW older \in table', NEW newer \in table',
               older.id < newer.id, received[newer.rec] # {}
        PROVE  older \in table /\ newer \in table
    <3>1. newer \in table
      BY <2>1, <2>3
    <3>2. ~(nextId < newer.id)
      BY <2>1, <2>2, <3>1
    <3> QED
      BY <2>1, <2>3, <3>1, <3>2
  <2> QED
    BY <1>0, <2>1, <2>3 DEF TableOrder
<1> QED
  BY <1>1, <1>2, StepKinds

-----------------------------------------------------------------------------
(* A worker sends requests, and is disabled, only where its session is     *)
(* whole: the two are one argument.                                        *)
LEMMA PairKept ==
    ASSUME SharedAssumption, SharedInv, [Next]_vars
    PROVE  SamePair' /\ DisabledByOwnSession'
<1>0. SamePair /\ DisabledByOwnSession /\ TypeOK
  BY DEF SharedInv
<1> DEFINE Whole(p) == /\ pc[p] \notin {"named", "forget", "done"} => inst[p] = token[p]
                       /\ pc[p] = "forget" => inst[p] = 0
                       /\ blame[p] # "mixed"
<1>1. \A p \in Processes : Whole(p)
  BY <1>0 DEF SamePair, DisabledByOwnSession
<1>2. ASSUME NEW p \in Processes, ProcessStep(p)
      PROVE  \A q \in Processes : Whole(q)'
  <2>1. Whole(p)'
    <3> USE DEF TypeOK, Goto
    <3>1. CASE Start(p) \/ Exit(p) \/ HealthStep(p)
      BY <1>0, <1>1, <3>1 DEF Start, Exit, HealthStep, HealthRead, HealthAnswer,
                              sessionVars, workerVars, resultVars
    <3>2. CASE SessionOk(p) \/ AssignToken(p) \/ ClearTable(p) \/ ForgetToken(p)
      <4>1. CASE SessionOk(p) \/ AssignToken(p)
        BY <1>0, <1>1, <4>1 DEF SessionOk, AssignToken, resultVars
      <4>2. CASE ClearTable(p)
        BY <1>0, <1>1, <4>2 DEF ClearTable, sessionVars
      <4>3. CASE ForgetToken(p)
        <5>1. pc'[p] = "backoff" /\ inst'[p] = inst[p] /\ token'[p] = 0
          BY <1>0, <4>3 DEF ForgetToken
        <5> QED
          BY <1>0, <1>1, <4>3, <5>1 DEF ForgetToken, resultVars
      <4> QED
        BY <3>2, <4>1, <4>2, <4>3
    <3>3. CASE Loop(p) \/ Idle(p) \/ Backoff(p) \/ Ack(p)
      BY <1>0, <1>1, <3>3 DEF Loop, Idle, Backoff, Ack, sessionVars, resultVars
    <3>4. ASSUME Disable(p), inst[p] = token[p]
          PROVE  Whole(p)'
      BY <1>0, <3>4 DEF Disable
    <3>5. ASSUME CountFailure(p), inst[p] = token[p], UNCHANGED <<token, blame>>
          PROVE  Whole(p)'
      BY <1>0, <1>1, <3>5, FailureTyped
    <3>6. ASSUME NEW a \in Answers, SessionFails(p, a)
          PROVE  Whole(p)'
      <4>1. inst[p] = token[p] /\ token' = token
        BY <1>1, <3>6 DEF SessionFails
      <4>2. CASE UNCHANGED <<inst, remote, blame>>
                 /\ Goto(p, IF fails[p] < RetryAttempts THEN "init" ELSE "done")
        BY <1>0, <1>1, <4>1, <4>2
      <4> QED
        BY <3>4, <3>5, <3>6, <4>1, <4>2 DEF SessionFails
    <3>7. ASSUME NEW a \in Answers, Post(p, a)
          PROVE  Whole(p)'
      <4>1. inst[p] = token[p] /\ token' = token
        BY <1>1, <3>7 DEF Post
      <4>2. CASE Goto(p, "ack") /\ UNCHANGED <<inst, fails, remote, blame>>
        BY <1>0, <1>1, <4>1, <4>2
      <4> QED
        BY <3>4, <3>5, <3>7, <4>1, <4>2 DEF Post
    <3> QED
      BY <1>2, <3>1, <3>2, <3>3, <3>6, <3>7 DEF ProcessStep, WorkerStep
  <2>2. \A q \in Processes \ {p} : Whole(q)'
    BY <1>1, <1>2, StepsAreLocal DEF Local
  <2> QED
    BY <2>1, <2>2
<1>3. ASSUME NEW r \in Records, SendStep(r)
      PROVE  \A q \in Processes : Whole(q)'
  <2>1. UNCHANGED <<pc, inst, token, blame>>
    BY <1>3 DEF SendStep, SendBegin, SendTag, SendInsert, workerVars, sessionVars,
                resultVars
  <2> QED
    BY <1>1, <2>1
<1>4. ASSUME UNCHANGED vars
      PROVE  \A q \in Processes : Whole(q)'
  <2>1. UNCHANGED <<pc, inst, token, blame>>
    BY <1>4 DEF vars, workerVars, sessionVars, resultVars
  <2> QED
    BY <1>1, <2>1
<1>5. \A q \in Processes : Whole(q)'
  BY <1>2, <1>3, <1>4 DEF Next, ProcessStep
<1> QED
  BY <1>5 DEF SamePair, DisabledByOwnSession

-----------------------------------------------------------------------------
(* Instances are given out in SessionOk only, and else only forgotten. *)
LEMMA InstancesKept ==
    ASSUME SharedAssumption, SharedInv, NEW p \in Processes, ProcessStep(p)
    PROVE  \/ SessionOk(p)
           \/ owner' = owner /\ inst'[p] \in {inst[p], 0}
<1>0. TypeOK
  BY DEF SharedInv
<1> USE DEF TypeOK, boundVars, sessionVars
<1>1. CASE Start(p) \/ Exit(p) \/ HealthStep(p)
  BY <1>0, <1>1 DEF Start, Exit, HealthStep, HealthRead, HealthAnswer
<1>2. CASE AssignToken(p) \/ ClearTable(p) \/ ForgetToken(p) \/ Loop(p) \/ Idle(p)
           \/ Backoff(p) \/ Ack(p)
  BY <1>0, <1>2 DEF AssignToken, ClearTable, ForgetToken, Loop, Idle, Backoff, Ack
<1>3. ASSUME NEW a \in Answers, SessionFails(p, a) \/ Post(p, a)
      PROVE  owner' = owner /\ inst'[p] \in {inst[p], 0}
  <2>1. owner' = owner /\ (inst' = inst \/ CountFailure(p))
    BY <1>3 DEF SessionFails, Post
  <2> QED
    BY <1>0, <2>1, FailureTyped
<1> QED
  BY <1>1, <1>2, <1>3 DEF ProcessStep, WorkerStep

LEMMA OwnedKept ==
    ASSUME SharedAssumption, SharedInv, [Next]_vars
    PROVE  Owned'
<1>0. /\ \A p \in Processes : OwnedBy(p)
      /\ \A r \in Records : Filed(r)
      /\ TypeOK /\ Held
  BY DEF SharedInv, Owned
<1>1. ASSUME NEW p \in Processes, SessionOk(p)
      PROVE  Owned'
  <2>1. /\ owner' = Append(owner, p) /\ Len(owner) \in Nat
        /\ inst' = [inst EXCEPT ![p] = Len(owner) + 1]
        /\ UNCHANGED <<at, writer, tag, received>>
    BY <1>0, <1>1 DEF SessionOk, sendVars, resultVars, TypeOK
  <2>2. owner'[Len(owner) + 1] = p /\ \A i \in Instances : owner'[i] = owner[i]
    BY <1>0, <2>1 DEF Instances, TypeOK
  <2>3. \A q \in Processes : OwnedBy(q)'
    BY <1>0, <2>1, <2>2 DEF OwnedBy, TypeOK
  <2>4. \A r \in Records : Filed(r)'
    BY <1>0, <2>1, <2>2 DEF Filed, TypeOK
  <2> QED
    BY <2>3, <2>4 DEF Owned
<1>2. ASSUME NEW p \in Processes, ProcessStep(p), ~SessionOk(p)
      PROVE  Owned'
  <2>1. owner' = owner /\ inst'[p] \in {inst[p], 0}
    BY <1>2, InstancesKept
  <2>2. \A q \in Processes : OwnedBy(q)'
    BY <1>0, <1>2, <2>1, StepsAreLocal DEF OwnedBy, Local
  <2>3. CASE UNCHANGED <<at, writer, tag, received>>
    BY <1>0, <2>1, <2>2, <2>3 DEF Owned, Filed
  <2>4. CASE Exit(p)
    <3>1. \A r \in Records : Filed(r)'
      BY <1>0, <2>1, <2>4 DEF Exit, Filed
    <3> QED
      BY <2>2, <3>1 DEF Owned
  <2>5. ASSUME NEW a \in Answers, Post(p, a)
        PROVE  Owned'
    <3>1. item[p].rec \in Queued
      BY <1>0, <2>5 DEF Post, Held, HeldBy
    <3>2. received' = received
          \/ received' = [received EXCEPT ![item[p].rec] = @ \cup {FiledUnder(p)}]
      BY <2>5 DEF Post
    <3>3. tag[item[p].rec] # 0 => FiledUnder(p) = tag[item[p].rec]
      BY DEF FiledUnder
    <3>4. UNCHANGED <<at, writer, tag>>
      BY <2>5 DEF Post, sendVars
    <3>5. ASSUME NEW r \in Records
          PROVE  Filed(r)'
      <4>1. CASE received'[r] = received[r]
        BY <1>0, <2>1, <3>4, <4>1 DEF Filed
      <4>2. CASE r = item[p].rec /\ received'[r] = received[r] \cup {FiledUnder(p)}
        BY <1>0, <2>1, <3>1, <3>3, <3>4, <4>2 DEF Filed, Queued
      <4> QED
        BY <1>0, <3>2, <4>1, <4>2 DEF TypeOK
    <3> QED
      BY <2>2, <3>5 DEF Owned
  <2>6. Exit(p) \/ UNCHANGED <<at, writer, tag, received>>
        \/ \E a \in Answers : Post(p, a)
    <3> USE DEF sendVars, resultVars
    <3>1. CASE Start(p) \/ HealthStep(p)
      BY <3>1 DEF Start, HealthStep, HealthRead, HealthAnswer
    <3>2. CASE AssignToken(p) \/ ClearTable(p) \/ ForgetToken(p) \/ Loop(p)
               \/ Idle(p) \/ Backoff(p) \/ Ack(p)
      BY <3>2 DEF AssignToken, ClearTable, ForgetToken, Loop, Idle, Backoff, Ack
    <3>3. CASE \E a \in Answers : SessionFails(p, a)
      BY <3>3 DEF SessionFails
    <3> QED
      BY <1>2, <3>1, <3>2, <3>3 DEF ProcessStep, WorkerStep
  <2> QED
    BY <2>3, <2>4, <2>5, <2>6
<1>3. ASSUME NEW r \in Records, SendStep(r)
      PROVE  Owned'
  <2>1. /\ UNCHANGED <<inst, owner, received>>
        /\ \A s \in Records \ {r} : UNCHANGED <<at[s], writer[s], tag[s]>>
    BY <1>0, <1>3 DEF SendStep, SendBegin, SendTag, SendInsert, boundVars,
                      sessionVars, resultVars, TypeOK
  <2>2. \A q \in Processes : OwnedBy(q)'
    BY <1>0, <2>1 DEF OwnedBy
  <2>3. \A s \in Records \ {r} : Filed(s)'
    BY <1>0, <2>1 DEF Filed
  <2>4. Filed(r)'
    <3>1. ASSUME NEW p \in Processes, SendBegin(r, p)
          PROVE  Filed(r)'
      <4>1. tag[r] = 0 /\ received[r] = {}
        BY <1>0, <3>1 DEF SendBegin, Filed
      <4>2. writer'[r] = p /\ tag' = tag /\ at'[r] \in {"tag", "insert"}
        BY <1>0, <3>1 DEF SendBegin, TypeOK
      <4> QED
        BY <2>1, <4>1, <4>2 DEF Filed
    <3>2. ASSUME SendTag(r)
          PROVE  Filed(r)'
      <4>1. /\ tag'[r] = inst[writer[r]] /\ at'[r] = "insert" /\ writer' = writer
            /\ writer[r] \in Processes /\ received[r] = {}
        BY <1>0, <3>2 DEF SendTag, Filed, TypeOK
      <4>2. OwnedBy(writer[r])
        BY <1>0, <4>1
      <4> QED
        BY <1>0, <2>1, <4>1, <4>2 DEF Filed, OwnedBy
    <3>3. CASE SendInsert(r)
      <4>1. at[r] = "insert" /\ at'[r] = "queued" /\ UNCHANGED <<writer, tag>>
        BY <1>0, <3>3 DEF SendInsert, TypeOK
      <4> QED
        BY <1>0, <2>1, <4>1 DEF Filed
    <3> QED
      BY <1>3, <3>1, <3>2, <3>3 DEF SendStep
  <2> QED
    BY <2>2, <2>3, <2>4 DEF Owned
<1>4. CASE UNCHANGED vars
  <2>1. UNCHANGED <<inst, owner, at, writer, tag, received>>
    BY <1>4 DEF vars, sessionVars, boundVars, sendVars, resultVars
  <2> QED
    BY <1>0, <2>1 DEF Owned, OwnedBy, Filed
<1> QED
  BY <1>1, <1>2, <1>3, <1>4 DEF Next, ProcessStep

-----------------------------------------------------------------------------
LEMMA TypeKept ==
    ASSUME SharedAssumption, SharedInv, [Next]_vars
    PROVE  TypeOK'
<1>1. ASSUME NEW p \in Processes, ProcessStep(p)
      PROVE  TypeOK'
  BY <1>1, PlainStepsTyped, SessionTyped, RowStepsTyped
     DEF ProcessStep, WorkerStep, HealthStep
<1>2. CASE \E r \in Records : SendStep(r)
  BY <1>2, SendTyped
<1>3. CASE UNCHANGED vars
  BY <1>3 DEF SharedInv, TypeOK, Instances, vars, fileVars, sessionVars, workerVars,
              sendVars, boundVars, resultVars
<1> QED
  BY <1>1, <1>2, <1>3 DEF Next, ProcessStep

LEMMA SharedInitially ==
    ASSUME SharedAssumption, Init
    PROVE  SharedInv
<1>1. Queued = {} /\ Cardinality(Records) \in Nat
  BY FS_CardinalityType DEF Init, Queued, SharedAssumption
<1>2. TypeOK
  BY <1>1 DEF Init, TypeOK, Instances, WorkerPcs, SharedAssumption
<1>3. Numbered
  BY <1>1, FS_EmptySet DEF Init, Numbered
<1> QED
  BY <1>1, <1>2, <1>3 DEF Init, SharedInv, Held, Owned, OwnedBy, Filed, SamePair,
     NothingLostBetween, TableOrder, DisabledByOwnSession

LEMMA SharedInvariant == Spec => []SharedInv
<1>1. SharedInv /\ [Next]_vars => SharedInv'
  BY SharedAssumption, TypeKept, NumberedKept, HeldKept, OwnedKept, PairKept,
     NothingLostKept, OrderKept DEF SharedInv
<1> QED
  BY SharedAssumption, SharedInitially, <1>1, PTL DEF Spec

(* Type correctness: rows, ids and instances stay in their ranges, the     *)
(* AUTOINCREMENT never passes the number of records by more than one.      *)
THEOREM SharedTypeCorrect == Spec => []TypeOK
  BY SharedInvariant, PTL DEF SharedInv

(* No worker acknowledges a row it has not sent, whatever the workers of   *)
(* the other processes send, acknowledge or clear meanwhile                *)
(* (queue_store.py:132-181).                                               *)
THEOREM SharedNothingLost == Spec => []NothingLostBetween
  BY SharedInvariant, PTL DEF SharedInv

(* A tagged row is filed under the instance its writer had, whoever sends  *)
(* it (queue_store.py:95, transport.py:29).                                *)
THEOREM SharedFiledUnderWriter == Spec => []FiledUnderWriter
<1>1. SharedInv => FiledUnderWriter
  BY DEF SharedInv, Owned, Filed, FiledUnderWriter, TypeOK
<1> QED
  BY <1>1, SharedInvariant, PTL

(* Several workers on one table still send it oldest first. *)
THEOREM SharedTableOrder == Spec => []TableOrder
  BY SharedInvariant, PTL DEF SharedInv

(* Only a request with one session's credentials disables the client.      *)
THEOREM SharedDisabledByOwn == Spec => []DisabledByOwnSession
  BY SharedInvariant, PTL DEF SharedInv
=============================================================================
