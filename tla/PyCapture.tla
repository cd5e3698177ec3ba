------------------------------ MODULE PyCapture ------------------------------
(***************************************************************************)
(* Capture of the process's output by the Python client: capture.py and    *)
(* the methods _install_system_log_capture and _restore_system_log_capture *)
(* of core.py, for one stream (stdout; that stderr cannot be captured is a *)
(* step that may fail).                                                    *)
(*                                                                         *)
(* The constructor puts a pipe in the place of descriptor 1 and starts a   *)
(* thread that copies the pipe to the terminal and forwards its lines;     *)
(* where it cannot, it wraps sys.stdout instead.  close() and a permanent  *)
(* failure undo this, each in a thread of its own and without a lock.      *)
(*                                                                         *)
(* Every writer writes one line, by print(), through another logger's      *)
(* handler or from a subprocess.  Its text is the writer itself, NL is the *)
(* newline, a line is the set of the texts between two newlines.  Streams  *)
(* hold back no text: their own buffers are flushed at each newline and by *)
(* close().  _closed and _remote_enabled are read once per line.           *)
(***************************************************************************)
EXTENDS Integers, Sequences, FiniteSets, SequencesExt

CONSTANTS Writers,          \* threads and subprocesses that write one line each
          NL

Restorers == {"install", "disable", "close"}

ASSUME CaptureAssumption ==
    /\ IsFiniteSet(Writers)
    /\ NL \notin Writers
    /\ Writers \cap {"reader", "close"} = {}

VARIABLES
    inst,                   \* where the constructor is
    rs,                     \* where each call of _restore_... is
    held,                   \* the capture that call has read at its beginning
    cap,                    \* "fd": _stdout_fd_capture, "stream": _stdout_capture
    sysout,                 \* sys.stdout
    terminal,               \* _terminal_stdout
    own, other,             \* the stream of LogMate's handler, of another logger's
    retargeted,             \* _retargeted_stream_handlers
    fd,                     \* what descriptor 1 leads to
    saved,                  \* _saved_fd: "none" is -1, "closed" is a stale number
    process,                \* process_stream is open, and not None
    bypass,                 \* bypass_stream is open, and not None
    pipe,                   \* what is in the pipe
    rd, chunk, rest,        \* _read_loop: its place, what it has read, buffered
    buffers,                \* _buffers of the _CapturedStream, by ident
    out,                    \* lines the thread of an ident has still to _emit
    at, ref, ident,         \* where each writer is, the stream it writes to,
                            \* get_ident() of its thread
    remote, closed,         \* _remote_enabled, _closed
    \* history
    taken, shown,           \* texts that went into the pipe or into a buffer,
                            \* texts on the terminal
    forwarded,              \* how often each line was given to send()
    gaps                    \* "late": a join timed out, "undone": the pipe was
                            \* given up, "undecoded": a chunk raised, "early":
                            \* disabled while installing

callVars == <<inst, rs, held>>
handlerVars == <<own, other, retargeted>>
loggerVars == <<cap, sysout, terminal, handlerVars, remote, closed>>
fdVars == <<fd, saved, process, bypass>>
readerVars == <<rd, chunk, rest>>
writerVars == <<at, ref, ident, buffers, taken>>
setupVars == <<callVars, loggerVars, fdVars, gaps>>
flowVars == <<pipe, readerVars, writerVars, out, shown, forwarded>>
vars == <<setupVars, flowVars>>

Streams == {"original", "process", "bypass", "captured", "none"}
Lines == SUBSET Writers
InstallPcs == {"redirect", "open", "stderr", "swap", "retarget", "undo",
               "fallback", "over"}
RestorePcs == {"idle", "snap", "drain", "emit", "handlers", "sysout", "stop",
               "back", "join", "release", "clear", "forget", "bypass", "end",
               "raised"}

TypeOK ==
    /\ inst \in InstallPcs
    /\ rs \in [Restorers -> RestorePcs]
    /\ held \in [Restorers -> {"none", "fd", "stream"}]
    /\ cap \in {"none", "fd", "stream"}
    /\ {sysout, terminal, own, other} \subseteq Streams
    /\ retargeted \subseteq {"own", "other"}
    /\ fd \in {"terminal", "pipe"}
    /\ saved \in {"none", "open", "closed"}
    /\ {process, bypass, remote, closed} \subseteq BOOLEAN
    /\ pipe \in Seq(Writers \cup {NL}) /\ chunk \in Seq(Writers \cup {NL})
    /\ rd \in {"off", "read", "tee", "write", "emit", "over"}
    /\ rest \in Lines
    /\ buffers \in [Writers -> Lines]
    /\ out \in [Writers \cup {"reader", "close"} -> Seq(Lines)]
    /\ at \in [Writers -> {"new", "text", "keep", "end", "cut", "emit", "child",
                       "written", "over"}]
    /\ ref \in [Writers -> Streams \cup {"pipe", "terminal"}]
    /\ ident \in [Writers -> Writers]
    /\ taken \subseteq Writers /\ shown \subseteq Writers
    /\ forwarded \in [Lines -> 0 .. 2]
    /\ gaps \subseteq {"late", "undone", "undecoded", "early"}

Init ==
    /\ inst = "redirect"
    /\ rs = [r \in Restorers |-> "idle"]
    /\ held = [r \in Restorers |-> "none"]
    /\ cap = "none"
    /\ sysout = "original" /\ terminal = "original"
    /\ own = "original" /\ other = "original" /\ retargeted = {}
    /\ fd = "terminal" /\ saved = "none" /\ process = FALSE /\ bypass = FALSE
    /\ pipe = <<>> /\ rd = "off" /\ chunk = <<>> /\ rest = {}
    /\ buffers = [p \in Writers |-> {}]
    /\ out = [e \in Writers \cup {"reader", "close"} |-> <<>>]
    /\ at = [w \in Writers |-> "new"] /\ ref = [w \in Writers |-> "none"]
    /\ ident = [w \in Writers |-> w]
    /\ remote = TRUE /\ closed = FALSE
    /\ taken = {} /\ shown = {}
    /\ forwarded = [l \in Lines |-> 0]
    /\ gaps = {}

-----------------------------------------------------------------------------
(* _emit and _capture_system_line: blank lines, and all lines once the     *)
(* logger is closed or disabled, are passed over.                          *)
Forward(line) ==
    forwarded' = IF line = {} \/ closed \/ ~remote THEN forwarded
                 ELSE [forwarded EXCEPT ![line] = IF @ = 2 THEN 2 ELSE @ + 1]

EmitNext(e) ==
    /\ out[e] # <<>>
    /\ Forward(Head(out[e]))
    /\ out' = [out EXCEPT ![e] = Tail(@)]

(* os.write to descriptor 1 or to process_stream's copy of it: a pipe that *)
(* nobody reads any more raises BrokenPipeError.                           *)
PutPipe(w, s, next) ==
    /\ \/ /\ rd # "over"
          /\ pipe' = pipe \o s
          /\ taken' = taken \cup ({w} \cap ToSet(s))
          /\ at' = [at EXCEPT ![w] = next]
       \/ /\ rd = "over"
          /\ at' = [at EXCEPT ![w] = "over"]
          /\ UNCHANGED <<pipe, taken>>
    /\ UNCHANGED shown

PutTerminal(w, s, next) ==
    /\ shown' = shown \cup ({w} \cap ToSet(s))
    /\ at' = [at EXCEPT ![w] = next]
    /\ UNCHANGED <<pipe, taken>>

(* stream.write(s): a closed stream raises ValueError, None swallows it.   *)
Put(w, stream, s, next) ==
    \/ /\ \/ stream = "pipe"
          \/ stream = "process" /\ process
          \/ stream \in {"original", "captured"} /\ fd = "pipe"
       /\ PutPipe(w, s, next)
    \/ /\ \/ stream = "terminal"
          \/ stream \in {"original", "captured"} /\ fd = "terminal"
       /\ PutTerminal(w, s, next)
    \/ /\ \/ stream = "none"
          \/ stream = "process" /\ ~process
       /\ at' = [at EXCEPT ![w] = "over"]
       /\ UNCHANGED <<pipe, taken, shown>>

(* A write after which the writer may be done with its stream. *)
PutBy(w, s, next) ==
    /\ Put(w, ref[w], s, next)
    /\ ref' = IF at'[w] = "over" THEN [ref EXCEPT ![w] = "none"] ELSE ref

-----------------------------------------------------------------------------
(* print(): sys.stdout is looked up once, then written to twice.  The      *)
(* thread may have been given the ident of one that has ended.             *)
Printing == {"text", "keep", "end", "cut", "emit"}

PrintLookup(p) ==
    /\ at[p] = "new"
    /\ \E i \in {p} \cup {ident[q] : q \in {v \in Writers : at[v] = "over"}} :
          /\ \A q \in Writers : at[q] \in Printing => ident[q] # i
          /\ ident' = [ident EXCEPT ![p] = i]
    /\ ref' = [ref EXCEPT ![p] = sysout]
    /\ at' = [at EXCEPT ![p] = "text"]
    /\ UNCHANGED <<setupVars, readerVars, pipe, buffers, taken, out, shown,
                   forwarded>>

PrintText(p) ==
    /\ at[p] = "text"
    /\ PutBy(p, <<p>>, IF ref[p] = "captured" THEN "keep" ELSE "end")
    /\ UNCHANGED <<setupVars, readerVars, ident, buffers, out, forwarded>>

(* Mutation: one buffer for all threads. *)
KeepShared(p) ==
    /\ at[p] = "keep"
    /\ buffers' = [q \in Writers |-> buffers[q] \cup {p}]
    /\ taken' = taken \cup {p}
    /\ at' = [at EXCEPT ![p] = "end"]
    /\ UNCHANGED <<setupVars, readerVars, pipe, ref, ident, out, shown,
                   forwarded>>

(* _CapturedStream.write, second half: the text waits for its newline,     *)
(* after what a thread of this ident has left there.                       *)
KeepText(p) ==
    /\ at[p] = "keep"
    /\ buffers' = [buffers EXCEPT ![ident[p]] = @ \cup {p}]
    /\ taken' = taken \cup {p}
    /\ at' = [at EXCEPT ![p] = "end"]
    /\ UNCHANGED <<setupVars, readerVars, pipe, ref, ident, out, shown,
                   forwarded>>

(* The newline, or print(end="", flush=True). *)
PrintEnd(p) ==
    /\ at[p] = "end"
    /\ \E s \in {<<NL>>, <<>>} :
          PutBy(p, s, IF ref[p] = "captured" THEN "cut" ELSE "over")
    /\ UNCHANGED <<setupVars, readerVars, ident, buffers, out, forwarded>>

(* print(end=""): the thread ends and its text stays in the buffer. *)
PrintOpen(p) ==
    /\ at[p] = "end" /\ ref[p] = "captured"
    /\ at' = [at EXCEPT ![p] = "over"]
    /\ ref' = [ref EXCEPT ![p] = "none"]
    /\ UNCHANGED <<setupVars, readerVars, pipe, ident, buffers, taken, out,
                   shown, forwarded>>

(* write("\n") and flush() of _CapturedStream both take the buffer of the  *)
(* thread's ident under the lock and emit it outside.                      *)
CutLine(p) ==
    /\ at[p] = "cut"
    /\ out' = [out EXCEPT ![ident[p]] = Append(@, buffers[ident[p]])]
    /\ buffers' = [buffers EXCEPT ![ident[p]] = {}]
    /\ at' = [at EXCEPT ![p] = "emit"]
    /\ UNCHANGED <<setupVars, readerVars, pipe, ref, ident, taken, shown,
                   forwarded>>

EmitLine(p) ==
    /\ at[p] = "emit"
    /\ EmitNext(ident[p])
    /\ at' = [at EXCEPT ![p] = "over"]
    /\ ref' = [ref EXCEPT ![p] = "none"]
    /\ UNCHANGED <<setupVars, readerVars, pipe, ident, buffers, taken, shown>>

(* StreamHandler.emit of another logger: one write, under its own lock. *)
HandlerLogs(h) ==
    /\ at[h] = "new"
    /\ Put(h, other, <<h, NL>>, "over")
    /\ UNCHANGED <<setupVars, readerVars, ref, ident, buffers, out, forwarded>>

(* A subprocess inherits what descriptor 1 leads to and keeps it until it  *)
(* ends, whatever the parent does.                                         *)
ChildSpawn(c) ==
    /\ at[c] = "new"
    /\ ref' = [ref EXCEPT ![c] = fd]
    /\ at' = [at EXCEPT ![c] = "child"]
    /\ UNCHANGED <<setupVars, readerVars, pipe, ident, buffers, taken, out,
                   shown, forwarded>>

ChildWrites(c) ==
    /\ at[c] = "child"
    /\ PutBy(c, <<c, NL>>, "written")
    /\ UNCHANGED <<setupVars, readerVars, ident, buffers, out, forwarded>>

ChildExits(c) ==
    /\ at[c] = "written"
    /\ at' = [at EXCEPT ![c] = "over"]
    /\ ref' = [ref EXCEPT ![c] = "none"]
    /\ UNCHANGED <<setupVars, readerVars, pipe, ident, buffers, taken, out,
                   shown, forwarded>>

-----------------------------------------------------------------------------
(* _read_loop. *)
WriteEnds ==
    \/ fd = "pipe" \/ process
    \/ \E c \in Writers : ref[c] = "pipe" /\ at[c] \in {"child", "written"}

ReadChunk ==
    /\ rd = "read"
    /\ pipe # <<>>
    /\ chunk' = pipe /\ pipe' = <<>>
    /\ rd' = "tee"
    /\ UNCHANGED <<setupVars, writerVars, rest, out, shown, forwarded>>

(* decoder.decode raises on bytes that are not in stdout's encoding: those *)
(* of a subprocess or of os.write(), or the unfinished last ones at the    *)
(* end of file.  The loop ends, and what it has read or buffered and what  *)
(* is left in the pipe are lost.                                           *)
DecodeFails ==
    /\ rd = "read"
    /\ pipe # <<>> \/ ~WriteEnds
    /\ pipe' = <<>> /\ rest' = {}
    /\ rd' = "over"
    /\ gaps' = gaps \cup {"undecoded"}
    /\ UNCHANGED <<callVars, loggerVars, fdVars, writerVars, chunk, out, shown,
                   forwarded>>

(* How many newlines of s come before its place i. *)
Ended(s, i) == Cardinality({j \in 1 .. i - 1 : s[j] = NL})

(* buffered += text; parts = buffered.split("\n"): part k of what is        *)
(* buffered, and of it all the lines that end in the chunk and what stays. *)
Part(s, k) ==
    {s[i] : i \in {j \in DOMAIN s : s[j] # NL /\ Ended(s, j) = k}}
        \cup (IF k = 0 THEN rest ELSE {})

Cut(chunkRead) ==
    LET n == Ended(chunkRead, Len(chunkRead) + 1)
    IN [lines |-> [k \in 1 .. n |-> Part(chunkRead, k - 1)],
        rest |-> Part(chunkRead, n)]

(* Mutation: a chunk is taken to end with a line. *)
SplitDropsRest ==
    /\ out' = [out EXCEPT !["reader"] = Cut(chunk).lines]
    /\ rest' = {}
    /\ chunk' = <<>>
    /\ rd' = "emit"

Split ==
    /\ out' = [out EXCEPT !["reader"] = Cut(chunk).lines]
    /\ rest' = Cut(chunk).rest
    /\ chunk' = <<>>
    /\ rd' = "emit"

(* Text read when bypass_stream is None is forwarded but not shown. *)
TeeCheck ==
    /\ rd = "tee"
    /\ \/ bypass /\ rd' = "write" /\ UNCHANGED <<chunk, rest, out>>
       \/ ~bypass /\ Split
    /\ UNCHANGED <<setupVars, writerVars, pipe, shown, forwarded>>

(* bypass_stream was not None; if it has been closed since, write raises   *)
(* and the loop ends.                                                      *)
TeeWrite ==
    /\ rd = "write"
    /\ \/ /\ bypass
          /\ shown' = shown \cup (ToSet(chunk) \cap Writers)
          /\ Split
       \/ /\ ~bypass
          /\ rd' = "over" /\ chunk' = <<>> /\ rest' = {}
          /\ UNCHANGED <<shown, out>>
    /\ UNCHANGED <<setupVars, writerVars, pipe, forwarded>>

EmitChunk ==
    /\ rd = "emit"
    /\ \/ EmitNext("reader") /\ UNCHANGED rd
       \/ out["reader"] = <<>> /\ rd' = "read" /\ UNCHANGED <<out, forwarded>>
    /\ UNCHANGED <<setupVars, writerVars, pipe, chunk, rest, shown>>

(* End of file once no write end is left: the last, unfinished line. *)
ReadEnd ==
    /\ rd = "read"
    /\ pipe = <<>> /\ ~WriteEnds
    /\ Forward(rest)
    /\ rest' = {}
    /\ rd' = "over"
    /\ UNCHANGED <<setupVars, writerVars, pipe, chunk, out, shown>>

-----------------------------------------------------------------------------
(* _install_system_log_capture, in the constructor. *)
GoInstall(pc) == inst' = pc /\ UNCHANGED <<rs, held>>
InstallUndo == /\ inst' = "undo"
               /\ rs' = [rs EXCEPT !["install"] = "snap"]
               /\ UNCHANGED held

(* The descriptor is saved and replaced, unless the stream has none. *)
Redirect ==
    /\ inst = "redirect"
    /\ \/ /\ remote
          /\ fd' = "pipe" /\ saved' = "open"
          /\ GoInstall("open")
       \/ /\ remote
          /\ InstallUndo
          /\ UNCHANGED <<fd, saved>>
       \/ /\ ~remote
          /\ GoInstall("over")
          /\ UNCHANGED <<fd, saved>>
    /\ UNCHANGED <<flowVars, loggerVars, process, bypass, gaps>>

(* bypass_stream, process_stream and the reading thread; if one of them    *)
(* cannot be had, the descriptor is put back and the pipe given up.        *)
Open ==
    /\ inst = "open"
    /\ process' = TRUE /\ bypass' = TRUE
    /\ rd' = "read"
    /\ cap' = "fd"
    /\ GoInstall("stderr")
    /\ UNCHANGED <<writerVars, handlerVars, fd, saved, sysout, terminal,
                   remote, closed, pipe, chunk, rest, out, shown, forwarded,
                   gaps>>

OpenFails ==
    /\ inst = "open"
    /\ fd' = "terminal" /\ saved' = "none"
    /\ pipe' = <<>>
    /\ rd' = "over"
    /\ gaps' = gaps \cup {"undone"}
    /\ InstallUndo
    /\ UNCHANGED <<loggerVars, writerVars, process, bypass, chunk, rest, out,
                   shown, forwarded>>

(* _terminal_stdout, then stderr's capture, which may fail.  If another    *)
(* thread has undone the capture, its attribute is None and the attempt    *)
(* ends as if it had failed.                                               *)
Stderr ==
    /\ inst = "stderr"
    /\ \/ /\ cap = "fd"
          /\ terminal' = IF bypass THEN "bypass" ELSE "none"
          /\ \/ GoInstall("swap") \/ InstallUndo
       \/ cap = "none" /\ InstallUndo /\ UNCHANGED terminal
    /\ UNCHANGED <<flowVars, fdVars, handlerVars, cap, sysout, remote, closed,
                   gaps>>

SwapSysout ==
    /\ inst = "swap"
    /\ \/ /\ cap = "fd"
          /\ sysout' = IF process THEN "process" ELSE "none"
          /\ GoInstall("retarget")
       \/ cap = "none" /\ InstallUndo /\ UNCHANGED sysout
    /\ UNCHANGED <<flowVars, fdVars, handlerVars, cap, terminal, remote,
                   closed, gaps>>

(* LogMate's own handlers go round the pipe, those of others go through    *)
(* it; a replacement that is None leaves the handler.                      *)
Retarget ==
    /\ inst = "retarget"
    /\ \/ /\ cap = "fd"
          /\ own' = IF terminal = "none" THEN own ELSE terminal
          /\ other' = IF process THEN "process" ELSE other
          /\ retargeted' = {h \in {"own", "other"} :
                               IF h = "own" THEN terminal # "none" ELSE process}
          /\ GoInstall("over")
       \/ cap = "none" /\ InstallUndo /\ UNCHANGED handlerVars
    /\ UNCHANGED <<flowVars, fdVars, cap, sysout, terminal, remote, closed,
                   gaps>>

(* The capture could not be installed: sys.stdout is wrapped instead. *)
Fallback ==
    /\ inst = "undo"
    /\ \/ /\ rs["install"] = "end"
          /\ cap' = "stream" /\ sysout' = "captured"
       \/ rs["install"] = "raised" /\ UNCHANGED <<cap, sysout>>
    /\ GoInstall("over")
    /\ UNCHANGED <<flowVars, fdVars, handlerVars, terminal, remote, closed,
                   gaps>>

-----------------------------------------------------------------------------
(* The two callers of _restore_system_log_capture besides the constructor. *)
DisableBegin ==
    /\ rs["disable"] = "idle"
    /\ remote' = FALSE
    /\ rs' = [rs EXCEPT !["disable"] = "snap"]
    /\ gaps' = IF inst = "over" THEN gaps ELSE gaps \cup {"early"}
    /\ UNCHANGED <<flowVars, fdVars, handlerVars, inst, held, cap, sysout,
                   terminal, closed>>

(* close(), and again at exit when the first call raised. *)
CloseBegin ==
    /\ inst = "over" /\ ~closed
    /\ rs["close"] \in {"idle", "raised"}
    /\ rs' = [rs EXCEPT !["close"] = "snap"]
    /\ UNCHANGED <<flowVars, loggerVars, fdVars, inst, held, gaps>>

(* _closed is set once flush() has returned. *)
CloseMark ==
    /\ rs["close"] = "end" /\ ~closed
    /\ closed' = TRUE
    /\ UNCHANGED <<flowVars, fdVars, callVars, handlerVars, cap, sysout,
                   terminal, remote, gaps>>

GoRestore(r, pc) ==
    /\ rs' = [rs EXCEPT ![r] = pc]
    /\ held' = IF pc \in {"end", "raised"} THEN [held EXCEPT ![r] = "none"] ELSE held
    /\ UNCHANGED inst

(* flush_pending is TRUE for close() only. *)
Snap(r) ==
    /\ rs[r] = "snap"
    /\ held' = [held EXCEPT ![r] = cap]
    /\ rs' = [rs EXCEPT ![r] = IF cap = "none" THEN "end"
                               ELSE IF cap = "stream" /\ r = "close" THEN "drain"
                               ELSE "handlers"]
    /\ UNCHANGED <<flowVars, loggerVars, fdVars, inst, gaps>>

(* Mutation: drain() forgets to clear the buffers. *)
DrainKeeps(r) ==
    /\ rs[r] = "drain"
    /\ out' = [out EXCEPT !["close"] = SetToSeq({buffers[p] : p \in Writers})]
    /\ UNCHANGED buffers
    /\ GoRestore(r, "emit")
    /\ UNCHANGED <<loggerVars, fdVars, readerVars, pipe, at, ref, ident,
                   taken, shown, forwarded, gaps>>

(* _CapturedStream.drain: the unfinished lines of every thread are taken   *)
(* under the lock and emitted outside.                                     *)
Drain(r) ==
    /\ rs[r] = "drain"
    /\ out' = [out EXCEPT !["close"] = SetToSeq({buffers[p] : p \in Writers})]
    /\ buffers' = [p \in Writers |-> {}]
    /\ GoRestore(r, "emit")
    /\ UNCHANGED <<loggerVars, fdVars, readerVars, pipe, at, ref, ident,
                   taken, shown, forwarded, gaps>>

DrainEmit(r) ==
    /\ rs[r] = "emit"
    /\ \/ EmitNext("close") /\ UNCHANGED callVars
       \/ /\ out["close"] = <<>>
          /\ GoRestore(r, "handlers")
          /\ UNCHANGED <<out, forwarded>>
    /\ UNCHANGED <<loggerVars, fdVars, writerVars, readerVars, pipe, shown,
                   gaps>>

(* A handler goes back only if its stream is a _CapturedStream or          *)
(* _terminal_stdout: not one that was sent to process_stream.              *)
RestoreHandlers(r) ==
    /\ rs[r] = "handlers"
    /\ own' = IF "own" \in retargeted /\ own = terminal THEN "original" ELSE own
    /\ other' = IF "other" \in retargeted /\ other = terminal THEN "original" ELSE other
    /\ retargeted' = {}
    /\ GoRestore(r, "sysout")
    /\ UNCHANGED <<flowVars, fdVars, cap, sysout, terminal, remote, closed,
                   gaps>>

RestoreSysout(r) ==
    /\ rs[r] = "sysout"
    /\ sysout' = IF \/ held[r] = "fd" /\ sysout = "process" /\ process
                    \/ held[r] = "stream" /\ sysout = "captured"
                 THEN "original" ELSE sysout
    /\ GoRestore(r, IF held[r] = "fd" THEN "stop" ELSE "forget")
    /\ UNCHANGED <<flowVars, fdVars, handlerVars, cap, terminal, remote,
                   closed, gaps>>

(* Mutation: process_stream stays open. *)
StopKeepsStream(r) ==
    /\ rs[r] = "stop"
    /\ GoRestore(r, IF saved = "none" THEN "forget" ELSE "back")
    /\ UNCHANGED <<flowVars, loggerVars, fdVars, gaps>>

(* _CapturedFileDescriptor.stop: process_stream is closed, *)
Stop(r) ==
    /\ rs[r] = "stop"
    /\ process' = (process /\ saved = "none")
    /\ GoRestore(r, IF saved = "none" THEN "forget" ELSE "back")
    /\ UNCHANGED <<flowVars, loggerVars, fd, saved, bypass, gaps>>

(* Mutation: the bypass is closed before the reader has been waited for. *)
PutBackCloses(r) ==
    /\ rs[r] = "back" /\ saved = "open"
    /\ fd' = "terminal" /\ GoRestore(r, "join")
    /\ bypass' = FALSE
    /\ UNCHANGED <<flowVars, loggerVars, saved, process, gaps>>

(* Mutation: the descriptor is closed instead of being put back. *)
PutBackShuts(r) ==
    /\ rs[r] = "back"
    /\ fd' = "closed"
    /\ GoRestore(r, IF saved = "open" THEN "join" ELSE "raised")
    /\ UNCHANGED <<flowVars, loggerVars, saved, process, bypass, gaps>>

(* the descriptor put back (dup2 raises if another call has released it), *)
PutBack(r) ==
    /\ rs[r] = "back"
    /\ IF saved = "open" THEN fd' = "terminal" /\ GoRestore(r, "join")
                         ELSE UNCHANGED fd /\ GoRestore(r, "raised")
    /\ UNCHANGED <<flowVars, loggerVars, saved, process, bypass, gaps>>

(* the reader waited for, at most two seconds, *)
Join(r) ==
    /\ rs[r] = "join"
    /\ gaps' = IF rd = "over" THEN gaps ELSE gaps \cup {"late"}
    /\ GoRestore(r, "release")
    /\ UNCHANGED <<flowVars, loggerVars, fdVars>>

(* the saved descriptor closed, which raises the second time, *)
Release(r) ==
    /\ rs[r] = "release"
    /\ IF saved = "open" THEN saved' = "closed" /\ GoRestore(r, "clear")
                         ELSE UNCHANGED saved /\ GoRestore(r, "raised")
    /\ UNCHANGED <<flowVars, loggerVars, fd, process, bypass, gaps>>

(* and _saved_fd set to -1. *)
Clear(r) ==
    /\ rs[r] = "clear"
    /\ saved' = "none"
    /\ GoRestore(r, "forget")
    /\ UNCHANGED <<flowVars, loggerVars, fd, process, bypass, gaps>>

Forget(r) ==
    /\ rs[r] = "forget"
    /\ cap' = "none" /\ terminal' = "original"
    /\ GoRestore(r, IF held[r] = "fd" THEN "bypass" ELSE "end")
    /\ UNCHANGED <<flowVars, fdVars, handlerVars, sysout, remote, closed,
                   gaps>>

CloseBypass(r) ==
    /\ rs[r] = "bypass"
    /\ bypass' = FALSE
    /\ GoRestore(r, "end")
    /\ UNCHANGED <<flowVars, loggerVars, fd, saved, process, gaps>>

-----------------------------------------------------------------------------
PrintStep(p) ==
    \/ PrintLookup(p) \/ PrintText(p) \/ KeepText(p) \/ PrintEnd(p)
    \/ PrintOpen(p) \/ CutLine(p) \/ EmitLine(p)
ChildStep(c) == ChildSpawn(c) \/ ChildWrites(c) \/ ChildExits(c)
ReadStep ==
    \/ ReadChunk \/ TeeCheck \/ TeeWrite \/ EmitChunk \/ ReadEnd
InstallStep ==
    \/ Redirect \/ Open \/ OpenFails \/ Stderr \/ SwapSysout \/ Retarget \/ Fallback
RestoreStep(r) ==
    \/ Snap(r) \/ Drain(r) \/ DrainEmit(r) \/ RestoreHandlers(r)
    \/ RestoreSysout(r) \/ Stop(r) \/ PutBack(r) \/ Join(r) \/ Release(r)
    \/ Clear(r) \/ Forget(r) \/ CloseBypass(r)

Next ==
    \/ \E w \in Writers : PrintStep(w) \/ HandlerLogs(w) \/ ChildStep(w)
    \/ ReadStep \/ DecodeFails
    \/ InstallStep
    \/ DisableBegin \/ CloseBegin \/ CloseMark
    \/ \E r \in Restorers : RestoreStep(r)

Spec == Init /\ [][Next]_vars

-----------------------------------------------------------------------------
TextsOf(sequence) == ToSet(sequence) \cap Writers
Forwarded == UNION {l \in Lines : forwarded[l] > 0}

(* Text that went into the pipe reaches the terminal: it is there, or the  *)
(* reader has still to take it or to write it, whatever close() and a      *)
(* permanent failure are doing, unless a join timed out, the pipe was      *)
(* given up at its opening or a chunk could not be decoded.  Hazard: the   *)
(* bypass closed under the reader.                                         *)
TerminalComplete ==
    gaps \subseteq {"early"} =>
        taken \subseteq shown \cup TextsOf(pipe)
                    \cup (IF rd \in {"tee", "write"} THEN TextsOf(chunk) ELSE {})

(* When close() goes on to flush(), every line captured until then has     *)
(* been given to send(), so that flush() waits for it; only a line that a  *)
(* print() has begun after drain() and not ended, or is about to give, is  *)
(* not.  Hazards: lines split across reads, the reader outrun by close(),  *)
(* unfinished lines (close, core.py:286).  A chunk that could not be       *)
(* decoded and a join that timed out are excepted.                         *)
CapturedBeforeFlush ==
    (rs["close"] = "end" /\ remote /\ ~closed /\ gaps = {}) =>
        \A w \in taken \ Forwarded :
            w \in buffers[ident[w]] \/ w \in UNION ToSet(out[ident[w]])

(* No text is given to send() twice, whoever takes it: the write that ends *)
(* its line, a flush(), drain() or the reader.                             *)
ForwardedOnce ==
    \A l, m \in Lines :
        (forwarded[l] > 0 /\ forwarded[m] > 0) =>
            forwarded[l] = 1 /\ (l # m => l \cap m = {})

(* Where sys.stdout is wrapped, a forwarded line has the texts of one      *)
(* ident, however the threads' writes interleave: never those of two       *)
(* threads that live at the same time, and those of an ended thread only   *)
(* before those of one that was given its ident (the buffers of            *)
(* _CapturedStream, capture.py:16); descriptors give no such promise.      *)
LinesOfOneThread ==
    rd = "off" => \A l \in Lines : forwarded[l] > 0 =>
                      \A v, w \in l : ident[v] = ident[w]

(* After close() the capture is gone, even when a permanent failure was    *)
(* undoing it in another thread, or close() is made again at exit after a  *)
(* call that raised: the client holds no write end that would keep the     *)
(* reading thread from the end of its pipe, and sys.stdout, descriptor 1   *)
(* and LogMate's own handlers lead to the terminal, provided that failure  *)
(* did not come before the capture was complete.                           *)
TerminalBack ==
    rs["close"] = "end" =>
        /\ fd = "terminal" /\ ~process
        /\ "early" \notin gaps => sysout = "original" /\ own = "original"
=============================================================================
