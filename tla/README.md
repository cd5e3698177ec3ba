# LogMate clients: TLA+ models, checks and proofs

LogMate ships three clients (Python, Go, TypeScript) that take log records from
an application and deliver them to the LogMate API. This directory models them
in TLA+, model-checks small instances with TLC and proves theorems about the
models with TLAPS. Every definition is translated from the source; `PROJECT.json`
names the lines of each ("map").

## 1. The system

### Delivery, in all three languages

    application threads --send()--> queue store (SQLite table + memory) <--peek/ack-- worker --POST--> API
            |                            ^                                              |
            +--flush(), close()----------+------ events / channel / promise ------------+

| part | state | operations | what makes it correct |
|---|---|---|---|
| queue store | table `log_queue` (AUTOINCREMENT ids), in-memory fallback, "persistent" flag, drained/wake signals | prepare, enqueue, peek, acknowledge, clear, count | rows acknowledged are the rows sent; order inside a lane; signals agree with the contents |
| delivery client | session (`sender_id`, `instance_id`, `instance_token`), failure counter, `_remote_enabled`, `_closed`, `_stop` | constructor, worker loop, `send`, `flush`, `close`, disable | no accepted record disappears silently; runs do not mix; `flush` tells the truth; the worker ends when told to and delivers otherwise |
| transport | none | POST, classification of statuses and exceptions | temporary and permanent failures are told apart; a timeout is not a success |
| health thread / ticker | reads the session | POST /health | a refusal changes nothing |
| shared queue file | one table, many processes of a sender | the queue operations of each | no row acknowledged by a process that did not send it; rows filed under the instance that wrote them |
| capture | pipe, saved descriptor, bypass and process streams, line buffers, `sys.stdout`, other loggers' handlers | install, write, read loop, drain, restore | no text lost or forwarded twice, lines of one thread, the terminal given back |
| instrument() | the process-wide logger and its pid, the lock, `sys.excepthook`, the environment | instrument, close, disable, fork | one open logger; captures and hooks do not stack up or get lost |
| configuration, validation | the environment | precedence, bounds, length limits | one address from files; pure otherwise |

The components and what is modelled of each are listed in `PROJECT.json`
("components"); the hazards they are exposed to, each at its line, under
"hazards".

Hard behaviours: `send()` runs in any number of application threads against one
worker; the locks protect single queue operations only, so flags, the session
and the events are read and written around them; each SQLite access may raise;
a request may fail after the API has received it; the process may end between
any two steps and start again on the same file; reconnection reuses the startup
path, with its clearing of the table. Captures, exception hooks and the
environment belong to the process: they are changed by the constructor, by
`close()`, by the worker on a permanent failure and by the application itself,
each in its own thread and mostly without a lock, and inherited by forks.

### How the languages differ

| | Python | Go | TypeScript |
|---|---|---|---|
| concurrency | threads, `_queue_lock`, two Events | goroutines, one mutex, `wake` channel | one thread, interleaving at `await` |
| idle wait | 0.5 s timeout | no timeout (wake or health tick) | 0.5 s, woken by every enqueue |
| `flush` | waits for an Event | polls a count | polls a count |
| row of another sender | acknowledged and dropped | permanent error | acknowledged and dropped |
| end of the worker | leaves the queue open | closes the database | `close()` closes the database |

## 2. The modules

| module | models | extends |
|---|---|---|
| `LogDelivery` | the contract: what any client promises about an accepted record | - |
| `PyQueueStore` | `queue_store.py`: one operator per method, the part under `_queue_lock` being one step | - |
| `PyClient` | `core.py`: constructor, worker, `send`, `flush`, `close`, restart; the properties | `PyQueueStore` |
| `MCPyClient` | the small instances | `PyClient` |
| `GoQueueStore` | `queue_store.go`: one operator per method, the part under `c.mu` being one step | - |
| `GoClient` | `config.go`, `client.go`, `worker.go`: New, worker, Log, Flush, Shutdown, restart; the properties | `GoQueueStore` |
| `MCGoClient` | the small instances | `GoClient` |
| `TsClient` | `client.ts`, `queue-store.ts`: initialize, worker loop, enqueue, flush, close, restart; a step is a stretch between two awaits | - |
| `PyCapture` | `capture.py`, installation and restoration in `core.py` | - |
| `PySharedQueue` | several processes on one queue file; the health thread; classification of answers (`transport.py`, `errors.py`) | - |
| `PyInstrument` | `instrument()`, fork, `_build_logger`, exception hooks, `config.py`'s address | - |
| `MCTsClient`, `MCPyCapture`, `MCPySharedQueue`, `MCPyInstrument` | the small instances | the module they name |
| `PyQueueStoreProofs` | lemmas about the queue operators | `PyQueueStore` |
| `PyClientProofs` | type correctness | `PyClient` |
| `PyDeliveryProofs` | the safety invariants, the refinement of `LogDelivery`, `flush()` | `PyClientProofs` |
| `PySharedQueueProofs` | type correctness and the four safety invariants of the shared file | `PySharedQueue` |
| `GoClientProofs` | type correctness, wake-ups, runs, `Shutdown`, the refinement | `GoClient` |
| `TsClientProofs` | type correctness, wake-ups, runs, the refinement | `TsClient` |
| `PyInstrumentProofs` | type correctness and the four safety invariants of `instrument()` | `PyInstrument` |
| `PyCaptureProofs` | type correctness and the five safety invariants of capture | `PyCapture` |

### State

| model | code |
|---|---|
| `disk`, `nextId` | rows and AUTOINCREMENT counter of `log_queue` |
| `memory`, `persistent` | `_memory_queue`, `_persistent_queue_enabled` |
| `drained`, `wake` | the Events `_queue_drained`, `_queue_event` |
| `pc`, `item` | where the constructor or the worker is, and the record it has peeked |
| `remote`, `closed`, `stop` | `_remote_enabled`, `_closed`, `_stop` |
| `sender` | `sender_id`, `instance_id` and `instance_token`, set and reset together |
| `failures` | `retries_done` in the constructor, `consecutive_failures` in the worker |
| `call`, `tag` | where each `send()` is; the `_logmate_sender_id` its record carries |
| `fl` | where each `flush()` is, or what it returned |
| `faults` | how many SQLite accesses have raised |
| `run`, `ticket`, `born`, `received`, `lost`, `owed`, `late` (Python) | history: no action's guard reads them, but for `run`, which bounds `Restart` |

A record is a model value, not a payload; a record stands for one `send()` call
in its own thread. A row's JSON text is the record itself: the encoding matters
to no property here. The in-memory item is the same record.

The Go model has the same state under the names of the Go fields, with these
differences: `queueDB` says that the handle is not nil, `sqlite` that the connection it
led to is open (`closeQueue` sets the one to nil under `c.mu` and closes the other after
it), `wake` that the one-place channel holds its token, `done` and `workerDone` that the
channels are closed, `once` how far `sync.Once` is; `lane` has the outcome `"nowhere"`
for a record that `enqueue` accepts and stores in neither lane; `caller` is where each
Flush or Shutdown is. A failed `prepareQueue` also stands for `DisablePersistence`.

`TsClient` joins `instanceId`, `instanceToken` and `senderId` in one variable:
they change within one stretch. The entry that `peek()` returned is `item`, the
request it belongs to `pc`: `"post"` until the API has the record, `"answer"`
until the client has its answer. `closed` and `database` are apart because
`close()` takes the database away while the worker may await an answer.

`PyCapture` follows one stream. What leads where: `fd` is descriptor 1, `sysout`
is `sys.stdout`, `own` and `other` are the streams of LogMate's handler and of
another logger's, `process`, `bypass` and `saved` the resources of
`_CapturedFileDescriptor`; `saved` is `"closed"` while `_saved_fd` still has the
number of a closed descriptor. `ident` is `get_ident()` of a writer's thread, which
a thread that begins later may be given again; `buffers` and `out` are kept by it,
as `_buffers` is. Its text is not characters: a writer's one line is the
writer itself, followed by `NL`, and a line is the set of the texts between two
newlines, so that a line mixed of two threads is a set of two. `rs` holds the
place of each of the three calls of `_restore_system_log_capture` (constructor,
worker, `close()`), `held` the references the call has taken at its beginning.

`PySharedQueue` keeps `instance_id` and `instance_token` in two variables that the
worker writes and others read one by one; `sender_id` is the same for all processes
of a sender. `tag` is the `_logmate_instance_id` of a row, `received` the
instances a record has been filed under at the API, and `owner` the process each
instance was given to: `Len(owner)` counts the sessions opened.

`PyInstrument` has one record per logger object the calls have made: whether it
was returned, is closed, enabled, hooked or capturing, its previous hook, the
stream it took for the terminal and where its saved descriptor leads. `shut` has
the loggers whose saved descriptor is closed in this process although `_saved_fd`
still names it, `stuck` (history) those whose retirement in a child raised. `process`
counts forks: a fork copies the memory and keeps the thread that forked, and as
nothing either process does here changes the other, the behaviour goes on with the
child; the parent's is one without the fork.

### Steps

The Python model interleaves at the code's own boundaries: a block under `_queue_lock`
is one step, as is each unlocked read or write of an Event, a flag or the session that
another thread can come between. So `flush()` has five steps (count, set the event,
check the worker, enter the wait, time out) and may be called again whenever it has
returned, `send()` has three (check, read `sender_id` again for the tag, insert), and
the worker loop has one for each request, acknowledgement, wait and loop head.
`_worker_loop`'s idle branch is `PeekEmpty`, `Quiet` (the clear of the event after the
peek) and `Awake` or `IdleTimeout`.

A failed exchange leaves it open whether the API received the record
(`MaybeReceived`); a received record is one the API has seen at least once,
and delivery is at least once.

In the Go model a step is what one holder of `c.mu` does, or one channel
operation. `Log` is `Enabled`, `enqueue` and `signal`, each on its own; `Flush`
reads `remoteEnabled`, `workerRunning`, `closed` and the count at four moments;
`Shutdown` runs the body of `once.Do` step by step while the other callers wait for
it: the flags, `done` and `signal`, and without a worker the handle taken, the
database closed, `workerDone`. The deferred end of `run` is `workerRunning`, the
handle, the database and `workerDone`, each on its own, so that a Shutdown can find
the handle taken and the database still open. `IdleDone`,
`IdleWake` and `HealthTick` are the ready cases of the idle select; at the top of
the loop a tick may be chosen over a closed `done`, which is `HealthTick` too.

`Restart` ends the process at any point, closed or not, and starts it on the
same file: the table survives, everything else is new. `TsClient` has the same
step; in `PySharedQueue` each process starts and exits on its own.

In `TsClient` no two stretches interleave: an empty `peek()` and the registration
of `wakeWorker` are one step (`Rest`), as are the answer to a POST and the
acknowledgement. In `PyCapture` every statement of the restoration that another
thread can come between is a step (`Snap` to `CloseBypass`), `os.close()` of the
saved descriptor (`Release`) and `_saved_fd = -1` (`Clear`) included, as are the two
writes of a `print()`, the reader's check of `bypass_stream` and its write. The
second write may have no newline and a thread may end after the first (`PrintOpen`),
its text staying in the buffer. Any read may meet text that
`decoder.decode()` refuses (`DecodeFails`), which ends the read loop. In
`PyInstrument` what `instrument()` does under its lock is broken at the reads and
writes of `sys.excepthook`, which `close()` and the application replace without the
lock; a capture is taken or put back in one step there, since `PyCapture` has the
steps. Putting it back raises in a child that has closed the saved descriptor, or
whose fork came between `Release` and `Clear` of another thread: `instrument()`
passes over the error and leaves `_closed` unset (`RetireRaises`), `close()` reports
it and returns (`CloseRaises`).

## 3. Properties

| property | says | hazard |
|---|---|---|
| `NoSilentLoss` | a record reported as queued is in a lane, or received, or given up for a named cause (startup or reconnection clear, other sender, end of the process) | acknowledging another record than the one sent; failure taken for success |
| `RunsAreIsolated` (Python, Go, TypeScript) | a run sends only what it queued, and its startup clear removes none of that | the startup clear that fails |
| `OutageBeforeReconnect` | a new session is opened only after more than `retry_attempts` failures in a row | the counter's three resets |
| `DrainedWhenEmpty` | without SQLite faults, an empty queue has `_queue_drained` set | a step that empties the queue and forgets the event |
| `FlushTruthUnlessLate` | without SQLite faults, a `flush()` that returned True saw everything pending at its start leave, unless in that run of the process some `flush()` had set `_queue_drained` after a `send()` | the event left set on a record by an enqueue, an acknowledgement, a clear, a restart |
| `ImplementsDelivery` (all three) | the client implements `LogDelivery` | all of the above, step by step; order inside a lane |
| `EventuallySent` (all three) | a queued record of a running worker is sent or given up, unless the client stops or the table was given up | the lost wake-up |
| `StopEndsWorker`, `CloseEndsWorker` (TypeScript) | `_stop`, `close()` lead to the end of the worker | waits, outages, a full queue |
| `NoLostWakeUp` (Go, TypeScript) | without SQLite failures, an idle worker with no wake-up on its way has nothing to send | a record queued around the empty peek |
| `ShutdownReleases` (Go) | a Shutdown that was not cut off leaves no worker in its loop and `queueDB` nil, and SQLite closed but for a worker that is between taking the handle and closing it | `workerRunning` read before it is acted on; several callers |
| `ShutdownCompletes` (Go) | a Shutdown that has begun leads to `workerDone` and SQLite both closed | no worker, an ending worker, an outage; who has taken the handle |
| `NothingLostBetween` | a row any process inserted is in the table, received, or deleted by the opening of a session | a worker acknowledges by id a row that another process's session has deleted |
| `FiledUnderWriter` | a tagged row is filed under an instance its writer had | sent by another process, or in a later session |
| `TableOrder` | when a row is received no older one in the table is unsent | several workers at one head |
| `DisabledByOwnSession` | a client is disabled by answers to its own session only | the health request's mixed credentials |
| `SentByAnyWorker` | while some worker runs, every row is received or deleted by a session | rows another process inserts wake nobody |
| `TerminalComplete` | text that went into the pipe is on the terminal or still on its way, unless a join timed out, the pipe was given up or a chunk could not be decoded | the bypass closed under the reader |
| `CapturedBeforeFlush` | when `close()` goes on to `flush()`, every captured line has been given to `send()`, with the same exceptions | lines split across reads, the reader outrun |
| `ForwardedOnce` | no text is forwarded twice | newline, `flush()`, `drain()` and the reader at once |
| `LinesOfOneThread` | where `sys.stdout` is wrapped, a forwarded line is of one `get_ident()`: never of two living threads | interleaved writes |
| `TerminalBack` | after `close()` descriptor, `sys.stdout` and own handlers lead to the terminal and the pipe has no writer left | two restorations at once, one that raised |
| `OneOpenLogger` | of the loggers `instrument()` returned, at most one is open, but for those a child could not retire, and none of these is returned again | fork, concurrent calls, failing constructions |
| `CapturesDoNotStack` | a capture is never owned by a closed logger nor taken for the terminal by another, but for one a child could not retire or a failed construction left | the same |
| `HooksKept` | the chain of exception hooks ends, and has the application's hook in it and that of the open logger, unless a child could not retire it | loggers closed in any order |
| `OneAddressFromFiles` | a logger whose address came from a `.env` file uses the address every later one will | the first file loaded wins for the process, even by a call that failed |
| `CallsReturn` | a call of `instrument()` ends | a lock kept by an error path, or over a fork |
| `OutageKeepsQueue`, `FlushTruth` (Python, Go), `AcceptedIsQueued` (Go) | what the messages and the READMEs say (section 5) | |

Each module has one `TypeOK` besides; that of `PyInstrument` says who holds
`_instrument_lock`, those of the queues that a record is in one place.

`LogDelivery` has its records in two lanes and a session that is open or not.
`Receive` is enabled for the oldest of a lane, within a session; the three ways
out of the queue without being received are `Open` (opening a session may wipe
the durable lane, and nothing wipes it at any other moment), `Exit` and
`Reject`. The refinement mapping takes `pending` to the records in `disk` and
`memory`, `lane` to where `send()` put each record and `open` to `SessionOpen`
(the clear is over and the worker has an instance); `ticket` and `received` are
the history variables of the same name. The order of
the disk lane is the order of row ids, which the mapping does not mention: that
it agrees with `ticket` is part of what the check shows. The Go client
implements it with the same mapping over its own state; it never takes `Reject`
(a record of another sender stops it instead). In the TypeScript client the
database may be closed under a request in flight; the row then stays pending.

The contract orders each lane, not the queue: `_peek_payload` takes from memory
only when the table is empty, so a record kept in memory after a failed INSERT
waits for every younger record on disk (the READMEs say "FIFO order",
`README.md:187`).

## 4. Runs

| run | cfg | instance | shows |
|---|---|---|---|
| `delivery` | `PyClientDelivery.cfg` | 2 records, 2 sender ids, `flush()` any number of times and in `close()`, 1 retry, 2 faults, 2 runs | `TypeOK`, `NoSilentLoss`, `RunsAreIsolated`, `DrainedWhenEmpty`, `FlushTruthUnlessLate`, `OutageBeforeReconnect`, `ImplementsDelivery` |
| `liveness` | `PyClientLiveness.cfg` | 2 records, 1 sender id, `close()`, 1 retry, 1 fault, 1 run | `EventuallySent`, `StopEndsWorker` |
| `py_flush` | `PyClientFlush.cfg` | 2 records, `close()` and another flusher, no fault, 1 run | counterexample to `FlushTruth` |
| `outage` | `PyClientOutage.cfg` | no fault, 1 run | counterexample to `OutageKeepsQueue` |
| `go_delivery` | `GoClientDelivery.cfg` | 2 records, 2 sender ids, 1 Shutdown, no retry, 1 fault, 2 runs | `TypeOK`, `NoLostWakeUp`, `RunsAreIsolated`, `ImplementsDelivery` |
| `go_liveness` | `GoClientLiveness.cfg` | 1 record, 2 Shutdowns, 1 retry, no fault, 1 run | `ShutdownReleases`, `EventuallySent`, `ShutdownCompletes` |
| `go_flush` | `GoClientFlush.cfg` | no fault, 1 run | counterexample to `FlushTruth` |
| `go_log` | `GoClientLog.cfg` | no fault, 1 run | counterexample to `AcceptedIsQueued` |
| `ts` | `TsClient.cfg` | 2 records, 2 sender ids, `close()`, 1 retry, 1 fault, 2 runs | `TypeOK`, `NoLostWakeUp`, `RunsAreIsolated`, `ImplementsDelivery`, `EventuallySent`, `CloseEndsWorker` |
| `capture` | `PyCapture.cfg` | 2 writers, symmetry of writers | `TypeOK`, `TerminalComplete`, `CapturedBeforeFlush`, `ForwardedOnce`, `LinesOfOneThread`, `TerminalBack` |
| `shared` | `PySharedQueue.cfg` | 2 processes, 2 records, statuses 401 and 503, no retry, 2 starts, 1 failing exchange | `TypeOK`, `NothingLostBetween`, `FiledUnderWriter`, `TableOrder`, `DisabledByOwnSession`, `SentByAnyWorker` |
| `instrument` | `PyInstrument.cfg` | 2 threads, 2 calls, 2 `.env` files, 1 failing construction, 1 fork | `TypeOK`, `OneOpenLogger`, `CapturesDoNotStack`, `HooksKept`, `OneAddressFromFiles`, `CallsReturn` |

Why the bounds are enough for the questions asked. Order needs two records in one
lane; two faults put one record in memory and still break the clear, a peek or an
acknowledgement after it. `RetryAttempts = 1` has all the cases of the counter:
below, at and above the limit. Two runs are what a statement about "the run before"
needs. Two sender ids are needed for a row of another sender, within a run by way
of an outage. Symmetry permutes records and sender ids (`delivery`,
`go_delivery`) or writers (`capture`), and only in runs without liveness
properties; the refinement checked under it is of the form `Init /\ [][Next]_v`
and names neither a record nor a sender id. `go_delivery` has no retry because two
sender ids, a fault and a restart make it the largest run of that model; the
failure counter at and below its limit is in `go_liveness`. The theorems of
section 6 hold for any number of records, retries, faults and runs.

In `capture` each of the two writers is a `print()`, another logger's handler or a
subprocess, as TLC chooses: a line can mix two threads, a read can end between a
text and its newline, and one writer can act before, the other after any step of
the three restorations, each of which is made once (`close()` again after it
raised). With two writers the second can be given the ident of the first, which is
what a mixed line needs. In `shared` two starts are two processes or one that ends and
starts again, and the one failure opens a second session in a running worker. In
`instrument` two calls give two loggers, with one more for each construction that
raised and its fallback; with the fork one of the two is inherited, retired or not.

Deadlock is not checked: a client whose worker has ended and whose calls have
returned, like a process whose captures are gone, has nothing left to do.

`DrainedWhenEmpty` and `FlushTruthUnlessLate` are stated for executions without
SQLite faults. With one they are false by design of the code: a
SELECT that raises counts as no rows (`pending_count`) or leaves the event
clear (`_update_queue_drained_locked`).

`FlushTruth` as the docstring has it is false in Python as soon as `flush()` is
called twice, at once or one after the other (`py_flush`): the first counts an empty
queue, a `send()` then queues a record and clears `_queue_drained`, the first sets
it, and the second, which counts the record, finds the event set and returns True.
`FlushTruthUnlessLate` says that this is the only way: it excepts the runs of the
process in which a `flush()` has done so (`late`), and nothing else. In `delivery`
`close()`'s flusher may call `flush()` before, as often as TLC likes, so that the
property is checked on every sequence of calls; several at once are in the theorem.

Some properties leave out executions in which what they say cannot be kept, and mark
them by a history variable. `late` in `PyClient`, as above. `gaps` in `PyCapture`:
"late", a join that timed out; "undone", a pipe given up at its opening; "undecoded",
text that the decoder refused; "early", a permanent failure that came while the
constructor was still installing (it can leave `sys.stdout` on None). `stuck` in
`PyInstrument`: the loggers a child could not retire. `raced` in `PyInstrument`: two
threads replaced the exception hook at once, which loses one of the two. `CallsReturn`
excepts a fork made while another thread holds the lock.

Each property is also run against a mutation of the code that breaks it
("mutants"): the definitions marked as mutations, each before the one it breaks.

### Fairness

`WF` on the constructor, the worker and a `close()` that has begun: they are
threads the scheduler comes back to, and their waits have timeouts
(`wait(timeout=0.5)`, `wait(retry_interval)`, the request timeout), so a step of
theirs that stays enabled is taken. `SF` on a successful POST and a successful
session request: an exchange is tried again and again, and the property is about
an API that does not fail every one of them. Nothing is assumed of application
threads, of `flush()`, of SQLite or of the process staying up.

In Go, `WF` on New, the worker, the `signal` of a Log that has queued its record
and the body of `once.Do`; `SF` on a successful request, as above, and on the two
selects that look at `done`: a closed channel is always ready and a select
chooses among ready cases at random. The health ticker is not assumed to tick,
so `EventuallySent` says that delivery does not depend on it, unless SQLite fails.

In TypeScript, `WF` on the worker's stretches and on its waits, which are timers the
event loop fires, and `SF` on a request that arrives, its answer and the session's,
as above. In `shared`, `WF` on the worker of each process (every wait has a
timeout); the bound on failures makes the API answer in the end. In `instrument`,
`WF` on the steps of a call: a thread inside `instrument()` runs on, and its
attempts to reach the API are bounded by `retry_attempts`. `PyCapture` has no
liveness property.

## 5. Where the code and its texts disagree

1. `outage`: the message at `core.py:668` says "LogMate is unavailable. Logs
   will remain queued and be resent automatically." The reconnection that ends
   the outage runs `_initialize_instance`, whose `_clear_persistent_queue`
   (`core.py:718`) deletes every row. What was queued in memory is kept.
2. `go_flush`: "Flush waits until records queued by this logger have been
   delivered" (`instrument.go:147`). It polls `PendingCount`, which leaves the
   table out once the ending worker has set `queueDB` to nil (`queue_store.go:151`).
3. `go_log`: "If SQLite cannot be prepared or written, affected records remain
   in memory and the configured error handler is notified"
   (`logmate-client-go/README.md:320`). After `closeQueue`, `persistent` is
   still on and `queueDB` is nil: `enqueue` stores the record nowhere and returns
   nil (`queue_store.go:56`-`66`).
4. `py_flush`: "Wait for the queue to drain without exceeding the given timeout."
   (`queue_store.py:33`). `flush()` sets `_queue_drained` outside the lock, after its
   count (`queue_store.py:34`-`36`), so that a later or concurrent `flush()` returns
   True at once with a record pending. A `flush()` and then `close()`, as the Python
   README shows (`logmate-client-python/README.md:295`-`304`), is enough.

What the models leave room for, and the properties except, where a text of the
repository says otherwise or nothing at all:

- `Close` "releases the background worker and SQLite connection"
  (`logmate-client-go/README.md:342`). When a permanent failure is ending the
  worker, Shutdown may find `queueDB` nil, close `workerDone` and return before
  the worker has run `db.Close()` (`queue_store.go:183`-`189`, `client.go:112`-`115`).
  The worker closes it next (`ShutdownCompletes`).
- `_install_system_log_capture` sends the StreamHandlers of other loggers to
  `process_stream` (`core.py:343`); `_restore_system_log_capture` puts back only
  those whose stream is a `_CapturedStream` or a terminal stream (`core.py:398`), and
  `stop()` closes `process_stream`: what those loggers write afterwards is lost.
- The decoder has the `errors` of the stream, `strict` for stdout. Text it refuses
  ends the read loop (`capture.py:215`, `226`-`234`): the chunk, what was buffered
  and the rest of the pipe reach neither the terminal nor `send()`, and whoever
  writes next has a broken pipe.
- `_CapturedStream` keeps unfinished text by `threading.get_ident()`
  (`capture.py:25`-`29`) and nothing clears that of a thread that has ended: a thread
  that is given its ident continues its line.
- A child whose inherited logger cannot be put back goes on without setting
  `_closed` (`core.py:957`-`964`): that logger stays open, and its capture under that
  of the new one.

The Go README documents the clear at every "successful instance initialization";
for the Go client the loss at reconnection is therefore part of the contract
(`Open`) and not listed again.

## 6. Proofs

Every invariant of the runs that expect no error, and every refinement, is also a
theorem. TLAPS proves them for all values of the
constants that the modules' assumptions allow, and these only say what kind of
thing a constant is: sets of records, writers and threads are finite and do not
contain the names the model uses for nobody; retry counts, faults, runs, starts,
failures and forks are any natural numbers, with at least one run; 401 is one of the
statuses. They are `QueueAssumption` and `ClientAssumption` (Python, Go),
`ClientAssumption` (TypeScript), `SharedAssumption`, `CaptureAssumption`, and
`NotAddresses`, `NotLoggers`, `UserThreads` and `Bounds` in `PyInstrument`.

| module | theorem | states |
|---|---|---|
| `PyClientProofs` | `TypeCorrect` | `Spec => []TypeOK` |
| `PyDeliveryProofs` | `NothingLostSilently` | `Spec => []NoSilentLoss` |
| | `RunsIsolated` | `Spec => []RunsAreIsolated` |
| | `ReconnectsAfterOutage` | `Spec => []OutageBeforeReconnect` |
| | `EmptyIsDrained` | `Spec => []DrainedWhenEmpty` |
| | `ClientImplementsDelivery` | `Spec => ImplementsDelivery` |
| | `FlushTellsTheTruth` | `Spec => []FlushTruthUnlessLate` |
| `PySharedQueueProofs` | `SharedTypeCorrect` | `Spec => []TypeOK` |
| | `SharedNothingLost` | `Spec => []NothingLostBetween` |
| | `SharedFiledUnderWriter` | `Spec => []FiledUnderWriter` |
| | `SharedTableOrder` | `Spec => []TableOrder` |
| | `SharedDisabledByOwn` | `Spec => []DisabledByOwnSession` |
| `GoClientProofs` | `TypeCorrect` | `Spec => []TypeOK` |
| | `WakesUp` | `Spec => []NoLostWakeUp` |
| | `RunsIsolated` | `Spec => []RunsAreIsolated` |
| | `ReleasedAtShutdown` | `Spec => []ShutdownReleases` |
| | `ClientImplementsDelivery` | `Spec => ImplementsDelivery` |
| `TsClientProofs` | `TypeCorrect` | `Spec => []TypeOK` |
| | `WakesUp` | `Spec => []NoLostWakeUp` |
| | `RunsIsolated` | `Spec => []RunsAreIsolated` |
| | `ClientImplementsDelivery` | `Spec => ImplementsDelivery` |
| `PyInstrumentProofs` | `TypeCorrect` | `Spec => []TypeOK` |
| | `OneLoggerOpen` | `Spec => []OneOpenLogger` |
| | `CapturesApart` | `Spec => []CapturesDoNotStack` |
| | `HooksHeard` | `Spec => []HooksKept` |
| | `OneAddress` | `Spec => []OneAddressFromFiles` |
| `PyCaptureProofs` | `TypeCorrect` | `Spec => []TypeOK` |
| | `GivenBack` | `Spec => []TerminalBack` |
| | `TextReachesTerminal` | `Spec => []TerminalComplete` |
| | `OneThreadPerLine` | `Spec => []LinesOfOneThread` |
| | `SentOnce` | `Spec => []ForwardedOnce` |
| | `LinesBeforeFlush` | `Spec => []CapturedBeforeFlush` |

The arguments:

**Python delivery.** `NoSilentLoss` is not inductive: an acknowledgement removes
the head of a lane, and nothing in the property says that it is the record that was
sent. `RowIds` adds that ids in the table are distinct and below `nextId`, and
`HeldInv` that from peek to acknowledgement the worker's item stays the head of its
lane and is received by the time it is acknowledged. `HeldInv` holds because other
threads only append, and what clears the table is the worker itself, which then
holds nothing. Most steps leave the queue's contents and the records' histories
alone (`QuietStepKeeps`); the few that do not have a case of their own.
`RunsAreIsolated` needs where a record of an earlier run may be: only in a table the
run has not cleared yet or has given up (`BornInv`). `OutageBeforeReconnect` needs
the places in the code where the worker may be without a session (`SessionInv`).
`DrainedWhenEmpty` is inductive with `TypeOK`.

**The refinements.** `DeliveryInv` joins these parts with what the contract's order
rests on: each record is in the lane its call was told (`LaneInv`); in each lane the
order of row ids, or of the list, is that of the tickets, and the next ticket is above
all of them (`OrderInv`); the row the worker holds is the oldest (`OldestInv`). Then a
step that inserts is `Accept`, a request that reaches the API `Receive`, an
acknowledgement `Settle` or `Reject`, the clear after the session request `Open`, a
failure that ends the session `Lapse`, a restart `Exit`, and every other step a stutter.
`GoInv` and `TsInv` do the same over the state of those clients. In Go nobody closes the
database before the worker has left its loop (`ThreadInv`); with `CloseInv`, that an
open SQLite has its handle in place or is about to be closed by whoever has taken it,
the worker or the one caller in the body of `once.Do`, it gives `ShutdownReleases`. In
TypeScript the row in flight stays the oldest of its lane across the await
(`FlightInv`). `NoLostWakeUp` is inductive with the types and, in Go, with `ThreadInv`.

**flush().** `FlushInv`, without SQLite faults: the table stays in use, and until a
`flush()` sets the event late, the event is set on an empty queue only, and what was
owed to a `flush()` that has decided to return True has left the queue. The steps
that set the event are those of the queue, which look at it under the lock
(`SetFromQueue`), and `FlushDrain`, which is late or finds the queue empty. Nothing is
assumed of how many flushers there are or when they call.

**The shared file.** The five theorems come from one invariant, `SharedInv`.
`Numbered`: ids are given once (`nextId` counts the queued records), so no two
rows have an id or a record in common. `Held`: between its peek and its
acknowledgement a worker's row, which others may send, acknowledge or clear
meanwhile, is older than every other row of the table, and no other row has its
id; it has been received before it is acknowledged. `NothingLostBetween` and
`TableOrder` follow, each from one step (`Ack`, `Post`). `Owned`: an instance
belongs to the process that got it, a tag to its record's writer; it gives
`FiledUnderWriter`. `SamePair`: a worker asks the API for something only where
its two session attributes agree; it gives `DisabledByOwnSession`. Every step
that inserts no row only shrinks the table (`OtherStepsShrink`), and a worker's
step leaves the others' state alone (`StepsAreLocal`).

**instrument().** One invariant, `InstrumentInv`. `CountInv`: loggers are numbered in
the order they are made, the one under construction is the last, and there are
enough numbers for the calls and their failures. `RolesInv`: only a returned logger
is current or being closed. `OpenInv`: a returned logger that is open is the current
one, and there is none while the lock is held, but for those in `stuck`; it gives
`OneOpenLogger` with `StuckInv`: a logger that could not be retired keeps its capture
and was built by an earlier process, so that no call returns it.
`StdoutInv` and `FdInv`: whose stream `sys.stdout` is and where descriptor 1 and
the saved descriptors lead, at each place of a construction. `HookInv`: each hook
was installed after the one it calls. `RaceInv`: unless two threads replaced the
hook at once, what a thread read is still there when it replaces it, and the newest
logger's hook is on top, but for the application's.
`HooksKept` speaks of the chain as far as `HookLimit` steps reach, through a
recursive function: that the function follows the hooks (`WalkExists`,
`ChainFollows`) is proved by well-founded induction on its argument, and that the
chain ends from the order of the loggers.

**Capture.** `SetupInv` says how far the constructor, each of the three restorations
and the reading thread have come, and what each has therefore put back or left
(`InstallInv`, `RestoreInv`, `BackInv`): two restorations at once are right because
each has taken its references before it begins and putting a stream back twice
does nothing. `GivenBack` follows from it. `WriterInv` says what a writer in the
middle of a write holds, what the threads of one ident have left in their buffer
(`IdentInv`) and that only one of them lives (`OneLives`), which gives
`LinesOfOneThread`; `ShownInv` where text is that is not on the terminal yet.
`FlowInv` follows each text: it is in at most one place of pipe, chunk, rest, the
reader's lines, a buffer, a writer's hand, `drain()`'s, or sent, and at most once
in it, which gives `ForwardedOnce`; `KeptInv` that it is in one of them, unless the
client was disabled or closed or the text given up, which gives
`CapturedBeforeFlush`. The lemma on which both rest is that splitting a chunk
(`Cut`) puts each text into exactly one part (`CutPlaces`). `Cut` is stated by what
part each text belongs to, by the number of newlines before it, and not by going
through the chunk, so that it can be reasoned about.

Only model-checked: the liveness properties `EventuallySent`, `StopEndsWorker`,
`CloseEndsWorker`, `ShutdownCompletes`, `SentByAnyWorker` and `CallsReturn`.
Fairness is ENABLED, which the provers have no rules for. `FlushTruth` itself is
false in Python and in Go, and not claimed.

## 7. Not modelled

- A request that reaches the API after the client has counted it as failed and
  moved on (`MaybeReceived` decides at the failure).
- Rows that are not JSON objects and their removal (`queue_store.py:141`): no
  client writes one.
- Local mode (no URL), the `logging.Logger` front end and the console: no
  delivery state.
- A second `close()` and `atexit` in `PyClient` (`PyCapture` has the `close()` that
  is made again at exit), and the join of the threads: what follows the two events
  of `close()` only waits.
- Capture: stderr as a second stream (one restoration handles both, one after the
  other; here it is a step that may fail), stdin (a wrapper of `readline` and
  `read`), which text the decoder refuses (any may be), text kept back in the buffers
  of a stream, and a file that is opened under the number of a descriptor closed
  before `_saved_fd` is -1: the second `os.close()` or `dup2` raises here.
- `PySharedQueue`: failures of SQLite and the in-memory lane, which are
  `PyQueueStore`'s; `flush()`; rows another process has queued under another
  sender name (the file's name contains it).
- `PyInstrument`: `threading.excepthook` (handled as `sys.excepthook`),
  `capture_system_logs=False`, the sender name, stdin, `create_logger` (an alias),
  what the parent does after a fork.
- `TsClient`: a client without an address, a second `instrument()` in the process,
  the health request, capture and the logger in front.
- Go: rows that do not decode, the health request, error reporting.
- `queue.py`: a copy of `queue_store.py` that nothing imports.
- Formatting, message texts, packaging, CI, examples.

## 8. Plan

In this order; each module is written to be proved about (constants with named
assumptions, one action per operation, no RECURSIVE operator).

1. `GoInstrument`: slog and log defaults against `Close` in any order
   (`instrument.go`), with the capture of Go.
2. The shared promise of `instrument.ts` with two clients in one process.
3. Pure operators against reference definitions: the classification of answers in
   Go and TypeScript, configuration of the three languages.
