---------------------------- MODULE PySharedQueue ----------------------------
(***************************************************************************)
(* Several processes with the same URL and sender name: the Python client  *)
(* gives them one queue file (queue_store.py:51) and one sender, and each  *)
(* an instance of its own.  Any of them may send any row of the table.     *)
(*                                                                         *)
(* The session is kept in two attributes here, instance_id and             *)
(* instance_token, assigned one after the other by the worker and read one *)
(* after the other by send() and by the health thread; sender_id is the    *)
(* same for all.  SQLite does not fail (PyQueueStore covers that), and the *)
(* in-memory lane, which no other process sees, is left out.               *)
(***************************************************************************)
EXTENDS Integers, FiniteSets, Sequences

CONSTANTS Processes, Records,
          Statuses,         \* HTTP error statuses the API may answer with
          RetryAttempts,
          MaxStarts,        \* bound on the starts of processes
          MaxFaults         \* bound on the exchanges of a worker that fail

ASSUME SharedAssumption ==
    /\ IsFiniteSet(Processes) /\ IsFiniteSet(Records)
    /\ Statuses \subseteq Nat /\ 401 \in Statuses
    /\ {RetryAttempts, MaxStarts, MaxFaults} \subseteq Nat

VARIABLES table, nextId,            \* the rows of log_queue, its AUTOINCREMENT
          pc, up,                   \* worker or constructor, constructor over
          inst, token,              \* instance_id, instance_token (0: "")
          remote,                   \* _remote_enabled
          item, fails,              \* the row peeked, failures in a row
          hid,                      \* the instance_id the health thread read
          at, writer, tag,          \* each send(), its process, its row's tag
          \* history
          owner,                    \* whom each instance was given to
          starts, faults,
          received,                 \* instances each record is filed under
          lost,                     \* records deleted by the opening of a session
          blame                     \* credentials of the request that disabled

fileVars == <<table, nextId>>
sessionVars == <<inst, token, hid>>
workerVars == <<pc, up, remote, item, fails>>
sendVars == <<at, writer, tag>>
boundVars == <<owner, starts, faults>>
resultVars == <<received, lost, blame>>
vars == <<fileVars, sessionVars, workerVars, sendVars, boundVars, resultVars>>

Instances == 1 .. Len(owner)
Rows == [id : 1 .. Cardinality(Records), rec : Records]
NoRow == [id |-> 0]
Answers == [kind : {"ok", "garbled", "silence"}, status : {0}]
           \cup [kind : {"error"}, status : Statuses]
WorkerPcs == {"init", "named", "clear", "loop", "idle", "post", "ack", "forget",
              "backoff"}
Working(p) == pc[p] \in WorkerPcs
Alive(p) == pc[p] # "off"

TypeOK ==
    /\ table \subseteq Rows
    /\ nextId \in 1 .. Cardinality(Records) + 1
    /\ pc \in [Processes -> WorkerPcs \cup {"off", "done"}]
    /\ up \in [Processes -> BOOLEAN] /\ remote \in [Processes -> BOOLEAN]
    /\ inst \in [Processes -> Instances \cup {0}]
    /\ token \in [Processes -> Instances \cup {0}]
    /\ hid \in [Processes -> Instances \cup {0}]
    /\ item \in [Processes -> Rows \cup {NoRow}]
    /\ fails \in [Processes -> 0 .. RetryAttempts + 1]
    /\ at \in [Records -> {"new", "tag", "insert", "queued"}]
    /\ writer \in [Records -> Processes \cup {"nobody"}]
    /\ tag \in [Records -> Instances \cup {0}]
    /\ owner \in Seq(Processes)
    /\ starts \in 0 .. MaxStarts /\ faults \in 0 .. MaxFaults
    /\ received \in [Records -> SUBSET Instances]
    /\ lost \subseteq Records
    /\ blame \in [Processes -> {"none", "own", "mixed"}]

Init ==
    /\ table = {} /\ nextId = 1
    /\ pc = [p \in Processes |-> "off"] /\ up = [p \in Processes |-> FALSE]
    /\ inst = [p \in Processes |-> 0] /\ token = [p \in Processes |-> 0]
    /\ hid = [p \in Processes |-> 0]
    /\ remote = [p \in Processes |-> TRUE]
    /\ item = [p \in Processes |-> NoRow] /\ fails = [p \in Processes |-> 0]
    /\ at = [r \in Records |-> "new"]
    /\ writer = [r \in Records |-> "nobody"] /\ tag = [r \in Records |-> 0]
    /\ owner = <<>>
    /\ starts = 0 /\ faults = 0
    /\ received = [r \in Records |-> {}] /\ lost = {}
    /\ blame = [p \in Processes |-> "none"]

-----------------------------------------------------------------------------
(* _is_retryable_http_status, and what _post makes of an answer: a body    *)
(* that is no JSON object is a permanent failure, silence is temporary.    *)
RetryableStatus(s) == s \in {408, 425, 429} \/ s >= 500

Outcome(a) ==
    CASE a.kind = "ok"      -> "ok"
      [] a.kind = "garbled" -> "permanent"
      [] a.kind = "silence" -> "retry"
      [] a.kind = "error"   -> IF RetryableStatus(a.status) THEN "retry" ELSE "permanent"

Fault(a) == /\ a.kind # "ok" => faults < MaxFaults
            /\ faults' = IF a.kind = "ok" THEN faults ELSE faults + 1

Goto(p, place) == pc' = [pc EXCEPT ![p] = place]

(* _disable_remote, after a request with the worker's own credentials. *)
Disable(p) ==
    /\ remote' = [remote EXCEPT ![p] = FALSE]
    /\ blame' = [blame EXCEPT ![p] = IF inst[p] = token[p] THEN "own" ELSE "mixed"]
    /\ Goto(p, "done")

(* One more failure; beyond retry_attempts the session is forgotten,       *)
(* instance_id first.                                                      *)
CountFailure(p) ==
    LET n == IF fails[p] > RetryAttempts THEN fails[p] ELSE fails[p] + 1
    IN  /\ fails' = [fails EXCEPT ![p] = n]
        /\ inst' = [inst EXCEPT ![p] = IF n > RetryAttempts THEN 0 ELSE @]
        /\ Goto(p, IF n > RetryAttempts THEN "forget" ELSE "backoff")

-----------------------------------------------------------------------------
Start(p) ==
    /\ pc[p] = "off" /\ starts < MaxStarts
    /\ starts' = starts + 1
    /\ Goto(p, "init")
    /\ remote' = [remote EXCEPT ![p] = TRUE]
    /\ UNCHANGED <<sessionVars, sendVars, resultVars, fileVars, up, item,
                   fails, owner, faults>>

(* The process ends anywhere; its rows stay in the file, a send() that had *)
(* not inserted its row dies with it.                                      *)
Exit(p) ==
    /\ Alive(p)
    /\ Goto(p, "off")
    /\ up' = [up EXCEPT ![p] = FALSE]
    /\ inst' = [inst EXCEPT ![p] = 0] /\ token' = [token EXCEPT ![p] = 0]
    /\ hid' = [hid EXCEPT ![p] = 0]
    /\ item' = [item EXCEPT ![p] = NoRow] /\ fails' = [fails EXCEPT ![p] = 0]
    /\ blame' = [blame EXCEPT ![p] = "none"]
    /\ LET dies(r) == writer[r] = p /\ at[r] # "queued"
       IN  /\ at' = [r \in Records |-> IF dies(r) THEN "new" ELSE at[r]]
           /\ writer' = [r \in Records |-> IF dies(r) THEN "nobody" ELSE writer[r]]
           /\ tag' = [r \in Records |-> IF dies(r) THEN 0 ELSE tag[r]]
    /\ UNCHANGED <<boundVars, fileVars, remote, received, lost>>

(* _initialize_instance, by the constructor or by the worker. *)
SessionOk(p) ==
    /\ pc[p] = "init"
    /\ owner' = Append(owner, p)
    /\ inst' = [inst EXCEPT ![p] = Len(owner) + 1]
    /\ Goto(p, "named")
    /\ UNCHANGED <<sendVars, resultVars, fileVars, token, hid, up, remote,
                   item, fails, starts, faults>>

(* The constructor gives up after retry_attempts more attempts and starts  *)
(* no worker; the worker goes on.                                          *)
SessionFails(p, a) ==
    /\ pc[p] = "init"
    /\ Fault(a) /\ a.kind # "ok"
    /\ \/ Outcome(a) = "permanent" /\ Disable(p) /\ UNCHANGED <<inst, fails>>
       \/ /\ Outcome(a) = "retry"
          /\ IF up[p] THEN CountFailure(p)
             ELSE /\ fails' = [fails EXCEPT ![p] = IF @ < RetryAttempts THEN @ + 1 ELSE @]
                  /\ Goto(p, IF fails[p] < RetryAttempts THEN "init" ELSE "done")
                  /\ UNCHANGED inst
          /\ UNCHANGED <<remote, blame>>
    /\ up' = [up EXCEPT ![p] = @ \/ pc'[p] = "done"]
    /\ UNCHANGED <<sendVars, fileVars, token, hid, item, owner, starts,
                   received, lost>>

AssignToken(p) ==
    /\ pc[p] = "named"
    /\ token' = [token EXCEPT ![p] = inst[p]]
    /\ Goto(p, "clear")
    /\ UNCHANGED <<boundVars, sendVars, resultVars, fileVars, inst, hid, up,
                   remote, item, fails>>

(* _clear_persistent_queue deletes the rows of every process. *)
ClearTable(p) ==
    /\ pc[p] = "clear"
    /\ table' = {}
    /\ lost' = lost \cup {row.rec : row \in table}
    /\ fails' = [fails EXCEPT ![p] = 0]
    /\ up' = [up EXCEPT ![p] = TRUE]
    /\ Goto(p, "loop")
    /\ UNCHANGED <<boundVars, sessionVars, sendVars, nextId, remote, item,
                   received, blame>>

ForgetToken(p) ==
    /\ pc[p] = "forget"
    /\ token' = [token EXCEPT ![p] = 0]
    /\ Goto(p, "backoff")
    /\ UNCHANGED <<boundVars, sendVars, resultVars, fileVars, inst, hid, up,
                   remote, item, fails>>

-----------------------------------------------------------------------------
(* Mutation: ORDER BY id DESC. *)
LoopNewest(p) ==
    /\ pc[p] = "loop" /\ remote[p] /\ inst[p] # 0
    /\ \E row \in table :
          /\ \A other \in table : row.id >= other.id
          /\ item' = [item EXCEPT ![p] = row]
    /\ Goto(p, "post")
    /\ UNCHANGED <<boundVars, sessionVars, sendVars, resultVars, fileVars, up,
                   remote, fails>>

(* The worker: a row is taken as the oldest of the table at that moment. *)
Loop(p) ==
    /\ pc[p] = "loop" /\ remote[p]
    /\ \/ inst[p] = 0 /\ Goto(p, "init") /\ UNCHANGED item
       \/ inst[p] # 0 /\ table = {} /\ Goto(p, "idle") /\ UNCHANGED item
       \/ /\ inst[p] # 0
          /\ \E row \in table :
                /\ \A other \in table : row.id <= other.id
                /\ item' = [item EXCEPT ![p] = row]
          /\ Goto(p, "post")
    /\ UNCHANGED <<fileVars, sessionVars, up, remote, fails, sendVars,
                   boundVars, resultVars>>

(* Mutation: the wait ends only when a send() of this process sets the     *)
(* event.                                                                  *)
IdleUntilSet(p) ==
    /\ pc[p] = "idle"
    /\ \E row \in table : writer[row.rec] = p
    /\ Goto(p, "loop")
    /\ UNCHANGED <<boundVars, sessionVars, sendVars, resultVars, fileVars, up,
                   remote, item, fails>>

(* _queue_event.wait(timeout=0.5), and the wait after a failure. *)
Idle(p) ==
    /\ pc[p] = "idle"
    /\ Goto(p, "loop")
    /\ UNCHANGED <<boundVars, sessionVars, sendVars, resultVars, fileVars, up,
                   remote, item, fails>>

Backoff(p) ==
    /\ pc[p] = "backoff"
    /\ Goto(p, "loop")
    /\ UNCHANGED <<boundVars, sessionVars, sendVars, resultVars, fileVars, up,
                   remote, item, fails>>

(* Mutation: rows are always sent as the sending process's own. *)
FiledAsSender(p) == inst[p]

(* The instance the API files a record under: the one of the header        *)
(* X-LogMate-Origin-Instance-ID, sent when the row's tag is not the        *)
(* sender's own; a row without a tag goes as the sender's.                 *)
FiledUnder(p) ==
    LET origin == IF tag[item[p].rec] # 0 THEN tag[item[p].rec] ELSE inst[p]
    IN  IF origin # inst[p] THEN origin ELSE inst[p]

Post(p, a) ==
    /\ pc[p] = "post"
    /\ Fault(a)
    /\ \/ /\ a.kind # "error"
          /\ received' = [received EXCEPT ![item[p].rec] = @ \cup {FiledUnder(p)}]
       \/ a.kind \in {"silence", "error"} /\ UNCHANGED received
    /\ \/ Outcome(a) = "ok" /\ Goto(p, "ack") /\ UNCHANGED <<inst, fails,
                                                             remote, blame>>
       \/ Outcome(a) = "retry" /\ CountFailure(p) /\ UNCHANGED <<remote,
                                                                 blame>>
       \/ Outcome(a) = "permanent" /\ Disable(p) /\ UNCHANGED <<inst, fails>>
    /\ item' = IF Outcome(a) = "ok" THEN item ELSE [item EXCEPT ![p] = NoRow]
    /\ UNCHANGED <<sendVars, fileVars, token, hid, up, owner, starts, lost>>

(* DELETE FROM log_queue WHERE id = ?: another process may have deleted it.*)
Ack(p) ==
    /\ pc[p] = "ack"
    /\ table' = {row \in table : row.id # item[p].id}
    /\ item' = [item EXCEPT ![p] = NoRow]
    /\ fails' = [fails EXCEPT ![p] = 0]
    /\ Goto(p, "loop")
    /\ UNCHANGED <<boundVars, sessionVars, sendVars, resultVars, nextId, up,
                   remote>>

-----------------------------------------------------------------------------
(* send() in a process whose constructor has returned: the session is      *)
(* looked at, read again for the tag, and the row inserted.                *)
SendBegin(r, p) ==
    /\ at[r] = "new" /\ up[p] /\ remote[p]
    /\ writer' = [writer EXCEPT ![r] = p]
    /\ at' = [at EXCEPT ![r] = IF inst[p] # 0 THEN "tag" ELSE "insert"]
    /\ UNCHANGED <<workerVars, boundVars, sessionVars, resultVars, fileVars,
                   tag>>

SendTag(r) ==
    /\ at[r] = "tag"
    /\ tag' = [tag EXCEPT ![r] = inst[writer[r]]]
    /\ at' = [at EXCEPT ![r] = "insert"]
    /\ UNCHANGED <<workerVars, boundVars, sessionVars, resultVars, fileVars,
                   writer>>

(* Mutation: INTEGER PRIMARY KEY without AUTOINCREMENT uses an id again.   *)
InsertReusesId(r) ==
    /\ at[r] = "insert"
    /\ \E id \in 1 .. Cardinality(Records) :
          /\ \A row \in table : row.id < id
          /\ id > 1 => \E row \in table : row.id = id - 1
          /\ table' = table \cup {[id |-> id, rec |-> r]}
    /\ at' = [at EXCEPT ![r] = "queued"]
    /\ UNCHANGED <<workerVars, boundVars, sessionVars, resultVars, nextId,
                   writer, tag>>

(* Mutation: the INSERT is made again after its commit. *)
InsertTwice(r) ==
    /\ at[r] = "insert"
    /\ table' = table \cup {[id |-> nextId, rec |-> r], [id |-> nextId + 1, rec |-> r]}
    /\ nextId' = nextId + 2
    /\ at' = [at EXCEPT ![r] = "queued"]
    /\ UNCHANGED <<workerVars, boundVars, sessionVars, resultVars, writer,
                   tag>>

SendInsert(r) ==
    /\ at[r] = "insert"
    /\ table' = table \cup {[id |-> nextId, rec |-> r]}
    /\ nextId' = nextId + 1
    /\ at' = [at EXCEPT ![r] = "queued"]
    /\ UNCHANGED <<workerVars, boundVars, sessionVars, resultVars, writer,
                   tag>>

(* The health thread: instance_id, then instance_token, without a lock. *)
HealthRead(p) ==
    /\ up[p] /\ remote[p] /\ inst[p] # 0 /\ hid[p] = 0
    /\ hid' = [hid EXCEPT ![p] = inst[p]]
    /\ UNCHANGED <<workerVars, boundVars, sendVars, resultVars, fileVars,
                   inst, token>>

(* Mutation: a health request that is refused disables the client. *)
HealthDisables(p) ==
    /\ hid[p] # 0
    /\ hid' = [hid EXCEPT ![p] = 0]
    /\ IF hid[p] # token[p] /\ remote[p]
       THEN /\ remote' = [remote EXCEPT ![p] = FALSE]
            /\ blame' = [blame EXCEPT ![p] = "mixed"]
       ELSE UNCHANGED <<remote, blame>>
    /\ UNCHANGED <<boundVars, sendVars, fileVars, inst, token, pc, up, item,
                   fails, received, lost>>

(* Whatever the answer, it is only reported. *)
HealthAnswer(p) ==
    /\ hid[p] # 0
    /\ hid' = [hid EXCEPT ![p] = 0]
    /\ UNCHANGED <<workerVars, boundVars, sendVars, resultVars, fileVars,
                   inst, token>>

-----------------------------------------------------------------------------
WorkerStep(p) ==
    \/ SessionOk(p) \/ (\E a \in Answers : SessionFails(p, a))
    \/ AssignToken(p) \/ ClearTable(p) \/ ForgetToken(p)
    \/ Loop(p) \/ Idle(p) \/ Backoff(p)
    \/ (\E a \in Answers : Post(p, a)) \/ Ack(p)
SendStep(r) == (\E p \in Processes : SendBegin(r, p)) \/ SendTag(r) \/ SendInsert(r)
HealthStep(p) == HealthRead(p) \/ HealthAnswer(p)

Next ==
    \/ \E p \in Processes : Start(p) \/ Exit(p) \/ WorkerStep(p) \/ HealthStep(p)
    \/ \E r \in Records : SendStep(r)

(* A process that runs is scheduled again; its requests fail MaxFaults     *)
(* times in all.                                                           *)
Spec == Init /\ [][Next]_vars
FairSpec == Spec /\ \A p \in Processes : WF_vars(WorkerStep(p))

-----------------------------------------------------------------------------
Queued == {r \in Records : at[r] = "queued"}
Pending == {row.rec : row \in table}

(* A record inserted by any process is in the table, has been received, or *)
(* was deleted by the opening of some process's session: no process        *)
(* acknowledges a row it did not send.  Hazard: a worker that still holds  *)
(* the id of a row another process's session has deleted.                  *)
NothingLostBetween ==
    \A r \in Queued : r \in Pending \/ received[r] # {} \/ r \in lost

(* Logs of several local processes "can be viewed separately" (README.md:  *)
(* 30): a tagged row is filed under an instance its writer had, whichever  *)
(* process sends it and in whatever session; only rows written without a   *)
(* session are filed as the sender's.                                      *)
FiledUnderWriter ==
    \A r \in Records :
        tag[r] # 0 /\ received[r] # {} =>
            received[r] = {tag[r]} /\ owner[tag[r]] = writer[r]

(* The table is sent in its order even by several workers at once: when a  *)
(* row is first received, no older one is left unsent.                     *)
TableOrder ==
    \A older, newer \in table :
        older.id < newer.id /\ received[newer.rec] # {} => received[older.rec] # {}

(* A client is disabled only by an answer to a request that carried one    *)
(* session's credentials: a health request sent while the worker renews    *)
(* the session, refused for its mixed pair, leaves delivery alone.         *)
DisabledByOwnSession == \A p \in Processes : blame[p] # "mixed"

(* While some worker runs, every row is received or deleted by a session   *)
(* that opens, even when its writer is gone: a worker that has seen an     *)
(* empty table learns of another process's rows by its timeout alone.      *)
SentByAnyWorker ==
    \A r \in Records :
        (r \in Pending /\ \E p \in Processes : Working(p))
            ~> received[r] # {} \/ r \in lost \/ \A p \in Processes : ~Working(p)
=============================================================================
