# CAPEsolo in TLA+

CAPEsolo runs a Windows sample under the capemon monitor on one machine and turns what the
monitor reports into an analysis. This directory holds TLA+ modules of the parts of it that
are concurrent, TLC configurations that check them on small instances, and TLAPS proofs of
the properties that matter most. Paths below are relative to `src/CAPEsolo/`.

## 1. The system

| Part | State it keeps | Operations | Talks to |
|---|---|---|---|
| Job manager, `mcp_server.py` | job table, active job, debugger session (one each per process) | submit, cancel, status, get_results, render_html_report, debugger tools, uploads | starts one worker thread per job; the worker builds the result server and the analyzer |
| Analysis loop, `analyzer.py` `Analyzer` | process list, `process_lock`, LASTINJECT_TIME, `ANALYSIS_TIMED_OUT` | prepare, run, analysis_loop | package, auxiliary modules, command handlers |
| Command handlers, `analyzer.py` `CommandPipeHandler` | INJECT_LIST, MONITORED_*, ignore list | LOADED, PROCESS, PROCESS2, RESUME, KILL, SHUTDOWN, FILE_*, service and COM requests | capemon, by a pipe for every monitored process (`lib/core/pipe.py`) |
| Dropped files, `analyzer.py` `Files` | paths, the processes that wrote them, what was dumped | add, delete, move, dump | uploads to the result server |
| Debugger session, `capelib/debug_session.py`, `classes/debug_pipe.py` | one command slot, one payload slot, a condition variable | SendCommand, WaitForBreak, BREAK | tool calls on one side, capemon's debug server on the other |
| Log servers, `lib/core/log.py` `LogServer`, `LOGSERVER_POOL` of `lib/api/process.py` | a pipe, a connection and a thread for every injection; the pool of paths | create, run (`handle_logs`) | monitors on one side, result server on the other |
| Result server, `capelib/resultserver.py` | singleton, listener, handlers in flight, upload statistics | build, accept, store, shutdown_server | everything that uploads |
| Frida sessions, `modules/auxiliary/frida_muncher.py`, `lib/common/frida_*.py` | tracked and pending processes, session table, early attach tickets | enrol, attach, set up, detach, stop | Frida, process events |
| Packet capture, `lib/common/pcap_task_client.py`, its agent `../extras/ubuntu_pcap_agent`, and the choice of a capture in `capelib/network_pid.py` | runtime of an attempt; the agent's active capture and records; two files of the analysis directory | start, stop, fetch, status, discover | HTTP between two machines |
| Service tracking, `lib/common/service_graph.py`, `service_runtime.py` | events, graph, the lineage it shares with Frida sessions, a grace period | correlate, reconcile, has_live_related_processes | analysis loop, process watcher |
| Uploads, archive, clock, Sysmon bridge, other auxiliary modules | little | | |
| Report processing, `capelib/*` | none | sequential transformations | |
| GUI, `classes/*` and command line, `cli.py` | windows | start, kill, show | analyzer, job manager |

### What is hard, and what makes each part correct

- *Job manager.* Its lock covers the job table only. A worker sets its job to `completed`,
  which frees the active slot, **before** its `finally` block has stopped the debugger, the
  pipes, the result server and the log handler, so the clean-up of one job and the set-up of
  the next are two threads on the same objects. Correct: one analysis at a time; the slot and
  the table agree; a published state is final; an admitted cancel ends its job and no other;
  a job is handed a result server that listens; nothing outlives a job.
- *Analysis loop and handlers.* A thread per monitored process changes the process list; the
  loop decides from it that the analysis is over. Only some handlers take `process_lock`; the
  loop only looks at it. Correct: no live monitored process is abandoned; the analysis ends;
  the lock is held only by someone who works; nobody is injected twice at once.
- *Debugger session.* Two slots and one condition variable between tool calls, which time
  out, and a target, which breaks when it likes. Correct: a command is carried out at most
  once and not after it was withdrawn; a payload goes to one caller, the one that asked.
- *Dropped files.* The dispatcher threads of all processes change one table, and the list of
  hashes that have been sent, without a lock; an upload is a wait in the middle. Correct: a
  deleted file is sent first; what `files.json` calls a duplicate was sent; an announced file
  is not lost; when the analysis is over all were dumped.
- *Log servers.* A monitor writes its behaviour log to a pipe that is named after its process
  identifier; a thread of the analyzer passes it on. Injections of one process may overlap,
  identifiers are used again, and pool, pipes and threads outlive the job and its result
  server. Correct: the log of a process is its own, whole and in order, and what was written
  to the pipe arrives.
- *Result server.* Handlers are greenlets that share a directory, the shutdown has three
  steps with one deadline, peers break, and files are buffered, so that a full disk may show
  only at the last flush. Correct: `files.json` advertises only what is stored, an uploaded
  file is never overwritten, and the shutdown returns.
- *Frida sessions.* Attach calls cannot be cancelled and may hang, while time-outs, detach
  callbacks, deaths and `stop()` go on. Correct: no session without an owner, never more
  than the limit, no place taken for ever.
- *Packet capture.* Requests and answers are lost or late, the agent dies and its dumpcap
  does not, a download is cut short, a write fails. Correct: one capture at a time; a report
  is made only of the whole capture of its own run; a finished capture does not block the next.
- *Service tracking.* Services are known from events of two channels alone, in any order, by
  process identifiers that are used again, and beside a watcher that enrols children. Correct: what did not come from the sample is not
  enrolled; a live service of the sample keeps the analysis going; graph and watcher do not
  take an entry from each other.

## 2. Modules

| Module | Models | Extended by |
|---|---|---|
| `JobManager` | jobs, their worker threads, and all they share | `MCJobManager`, `JobManager_proofs` |
| `AnalyzerCore` | analysis loop, process list, lock, handlers | `MCAnalyzerCore`, `AnalyzerCore_proofs` |
| `DebugRendezvous` | command and payload slots of the debugger session | `MCDebugRendezvous`, `JobManager_proofs` |
| `FridaSessions` | enrolment, attach calls, workers, session table and stop() of `FridaMuncher` | `MCFridaSessions`, `FridaSessions_proofs` |
| `Capture` | what an analysis may rely on when it asks for a capture (abstract) | implemented by `PcapTask` |
| `PcapTask` | capture client, agent, dumpcap, the network and the files between them | `MCPcapTask`, `PcapTask_proofs` |
| `ResultStore` | result server, the peers of its connections, `shutdown_server()` | `MCResultStore`, `ResultStore_proofs` |
| `LogServer` | monitors, log servers and their pool over several jobs, the logs they bring | `MCLogServer`, `LogServer_proofs` |
| `DroppedFiles` | `Files`, the handlers that use it, the end of an analysis | `MCDroppedFiles`, `DroppedFiles_proofs` |
| `ServiceTracking` | service events, graph, lineage, and the watcher beside them | `MCServiceTracking`, `ServiceTracking_proofs` |

The modules meet where one component hands something to another: `AnalyzerCore` is the loop
that `JobManager` abstracts to five exits; `ResultStore` is the server whose two halves of a
shutdown are `Shutdown` and `Drain` there, and whose behaviour streams are the other
end of `LogServer`; `ServiceTracking` gives the verdict that `AnalyzerCore` takes as a free choice in
`Judge`, and shares the lineage with `FridaSessions`; `DroppedFiles` has the file commands of
the handlers in `AnalyzerCore`.

Definitions named `...Kept`, `...Unchecked`, and so on, each introduced by "Mutant", are
faulty variants of the definition that follows them. `PROJECT.json` pairs each with a
property that the variant breaks; the specifications do not use them.

### JobManager

`state`, `active`, `dbg` and `single` are `_jobs[...]["state"]`, `_active_job_id`,
`_debugger` and `Singleton._instances[ResultServer]`. The last two name the job that
created the object, which is how two workers on one object are told apart. `pc` is the
statement of `_run_job` a worker is at; everything from `dbgCheck` on is its `finally` block.
One action is one stretch of code between two points where another thread can observe or
disturb shared state: `DbgCheck`, `DbgShutdown` and `DbgClear` are three, as the code reads
`self._debugger` three times. `Shutdown` and `Drain` are the two halves of
`shutdown_server`: the listener closes, then handlers drain and the singleton is forgotten.
`dir` is what the one analysis directory holds of each job: its sample copy, the artifacts
of its run, uploads that came after the run; nothing is removed from it. `report` is the cached
report by what of `dir` it was built from.

Abstractions: the analysis is its loop's five exits (`LoopTimeout`, `LoopKilled`,
`LoopFlagged`, `LoopEmpty`, or none, `LoopAgain`); the pre-loop part of `Analyzer.run`, which
may return no result or raise, is `Start` and `Raise`. Validation of submissions has no state
and is left out. The two cached forms of a report are one, and reading the directory is one
step, though the code opens its files one after the other. Post-run uploads and the drain of those in flight are one step, `Drain`, which may
store something or nothing. Every job shares one directory and one termination folder, as in
the code, where all have the default analysis id.

`polite`, chosen once, is a client that submits only when no worker is still running. No tool
tells a client when that is. `prompt` is one that has by then also asked for the report of every
completed job. The properties with `Polite` in their name hold for such a
client; what the docs promise without the condition is in section 4.

### AnalyzerCore

`call[p]` is the command whose handler runs on the dispatcher thread of process `p`, and how
far it is; `pids`, `lock`, `injectList` are the variables of those names; `since`, `emptyFor`
and `expired` abstract three clocks to the comparison the code makes (15 s, 5 s, the
timeout). `loop` is the place in `analysis_loop`, whose shutdown phase is `Tell`,
`Terminate`, `Waited`. The actions under "The environment" are capemon and the sample: a
monitored process announces a child, an existing process, its own start, a kill or a
shutdown, and waits for the answer. `leaving` records the processes a KILL took off the list.

`Host` are the processes of Windows services and of the shell, which run from the start and
which the analyzer injects on request. `Request` is one of INTEROP, WMI, TASKSCHED, BITS,
SERVICE and SHELL; `TestFlag` and `Mark` are the test of the flag `MONITORED_...` and its
assignment, which two threads may pass together; a WMI or BITS request does the same for
DcomLaunch first (`then` of the call). `over` is why the loop is to end: its timeout, or
`do_run`, which a REBOOT unsets.

Abstractions and assumptions: processes of the analyzer itself, the untracked list and
kernel analysis are left out, as are malformed commands, the restart of a service before its
injection, and what the monitor of a service says beyond LOADED. What a malformed number, or an
exception of `dump_files`, does while `process_lock` is held is there: `Raise`, for the commands in
`Raising`, answers and leaves the lock held. A monitor whose LOADED raises is one that has
never reported, so `NoLiveProcessAbandoned` is for runs without it. `Age` assumes that a monitor that
was injected reports LOADED within the 15 seconds the code grants. Termination of a process,
which is repeated without a bound, is assumed to succeed in the end. The verdict of service tracking is a free
choice in every pass, and so is that of `package.check()`. `Scan` removes some and at least
one of the dead processes: the code removes from the list it iterates over.
`in_protected_path` is given a bare file name and never matches, so `Inject` spares nobody;
only `InjectProcess` (PROCESS2) has protected names.

### DebugRendezvous

`pending` and `response` are `pendingCommand` and `debuggerResponse`; commands are numbered
as sent and a payload is named by the command it answers, 0 for an unsolicited break.
`at` is what the debug server's thread does: runs, carries a command out, waits for a command
in `_handle_break`, or got a reply that is no command. A wait on the condition variable is a
guard; the lock of the condition makes each of `_handle_break`, `_TakeResponse` and so on one
step between two waits. `sendLock` serialises `SendCommand`. `taken`, `result` and `handed`
are history. `AskTimeout` is the 6000 s wait of `_handle_break`; it assumes that a caller
whose payload is there has been scheduled by then. With `politeCaller`, a client has one call at
a time and sends only to a halted target. The names of the module (`SessionSpec`, `CarryOut`, ...)
differ from those of `JobManager`, whose jobs start the session: `JobManager_proofs` is about both.

### FridaSessions

A worker is a thread in `_instrument_process`, named by its process and by how the process
was enrolled; `pc` is where it is. `lineage`, `pending` and `sessions` are `self.lineage`,
`self.pending_identities` and `self.sessions`. `rpc[w]` is the attach call that `w` started,
on a thread of its own: `attaching`, `tested` (a session, and `cancel_event` found unset),
and, once `done_event` is set, `session` or `empty`. `cancel` holds the calls whose
`cancel_event` is set, `live` those whose Frida session is attached, `ticket` and `claimed`
the early attach tickets, whose call may be claimed by another worker than the one that
started it. `taken` are the sessions that `stop()` has taken from the table and has still to
detach. `seen` is the watcher between its look-up of a process and its enrolment, which
are two sections of the lock. `stop` and `todo` follow `stop()`, which runs beside everything
and joins no thread.

Abstractions: a process identifier is not used again; a `session.detach()` that raises is taken
for that of a dead session; the decisions of the attach policy and of `_wait_for_capemon` are free choices; a time-out is a
step that is always possible. Scripts, their messages and the enrolment of services
(`lib/common/service_runtime.py`) are left out. Creation of a ticket and the start of its
call are one step, as are the insertion of a session and the registration of its callback,
which may fail.

### PcapTask and Capture

`run`, `pc` and `runtime` are the client: the attempt, the place in `FridaMuncher` and
`PcapTaskClient`, and `PcapTaskClient.runtime` with the hash the agent told. `asked` and
`answers` are requests and answers on the network; either may be lost (`Lose`) and served
after the client gave up, so each client request has a success and a failure, and the failure
is always possible. `active` and `records` are the agent's, `proc` and `len` its dumpcap and
the file it writes. A handler of the agent holds its lock throughout and is one step, with
the refresh it begins with (`Refreshed`). `Restart` kills the agent: its memory is gone, its
dumpcap goes on (`orphans`). `dump`, `bound` and `report` are `dump.pcapng`,
`pcap_runtime.json` and `frida_p3_runtime.json`, which stay from one attempt to the next;
`Usable` is `discover_task_capture()`. The status after a stop is the agent's word, `complete` or
`empty`; a fetch that fails makes it `fetch_failed`. A stop may also end in an error with the
capture still active, when dumpcap survives its kill (`HandleStop`).

Abstractions: a file is its length, and 0 stands for any length without a header; a hash is
the length of the file it was taken of. The clock samples are left out but for the refresh
their requests cause (`HandleStatus`).

`IsCapture` is the refinement: with `Phase` and `Verdict` for its variables, every behaviour
of `PcapTask` is one of `Capture`, its liveness included. The verdict is `complete` when the client has both the
word and the file, which is what `discover_task_capture()` asks for: the word alone may be taken
back. A run that a restart has orphaned
is an `orphan` there only while its dumpcap runs.

### ResultStore

`kind` is what a connection asks for; `peer` and `sent` are the other end, `handler`, `got`
and `pos` the greenlet that serves it. Greenlets give way only where they read, so what a
handler does between two reads is one step. All uploads have one path and all streams one
process, which are the cases where connections meet. `stored` is the content by the
connection that wrote each chunk, `Hole` a chunk of which nobody did. `held` is what is in the
buffer of a handler's file object; a write that fills it, a flush and a close move it to the
file, or fail. A last flush that fails is told to nobody (`unflushed`). A `script` is an upload
whose name ends in `_script.log`: its file is opened to append. `listed` is
`files.json`. `Shutdown`, `Close`, `Drained`, `DrainTimeout`, `JoinTimeout` and `Tell` are
`shutdown_server()` and the server's own `stop`. Headers and BSON streams are not parsed.

### LogServer

`owner[i]`, `place[i]`, `pipe[i]` and `conn[i]` are log server `i`: its process, where its
constructor or its thread is, its instance of the pipe, and its connection. `pool` is
`LOGSERVER_POOL`, looked at and added to in `Process.inject()` with the constructor in between, so
that several injections may make one each. `data` is what is in the pipe. `log` is the file of
the process at the result server, and the connection that opened it: each opens it afresh, and
two that write to it tear it (`Torn`). `crowded` records processes with overlapping
injections, `Polluted` those of which both instances were opened.

Monitors are external: they open a free instance, announce themselves (`Header`), write, and
break. `Forward` and `Lose` are all that leads out of `serve`, as `handle_logs` has no end when
its pipe is broken. Abstractions: messages are numbers; what `sendall` has sent is stored, its
buffering is in `ResultStore`; the log of the analyzer is there too. A thread over a
closed pipe closes its handle again and again (`Miss`), which may be another's by then; that is
left out.

### DroppedFiles

`files`, `orig` and `dumped` are `Files.files`, `files_orig` and `dumped`. `thread` is where
a dispatcher thread is in `dump_file`, `delete_file` or `dump_files`; `stored` and `entries`
are what the result server has got. `told` and `gone` are the files announced and the
contents deleted, `excused` the files announced too late, under a name that was just being
dumped, or given up because they could not be read. `Fail` is an exception: `dump_files` on an
emptied table, or the second look-up of a file's details (`Details`) when another thread has
dropped them. It ends the handler, and `Analyzer.complete()` when it is there (`aborted`).
Abstractions: a file keeps its content as long as it exists; a process uses its own
paths; the process identifiers and metadata of a file are left out; an upload and the
append to `dumped` after it are one step. The phase `completed` is an end by
`Analyzer.complete()`, `cleaned` one by the MCP server or the window.

### ServiceTracking

`past` is the history of process creations and service installations; a process is named by
its place in it, its birth. `seen` are the events delivered, in any order. `Links` is
`correlate()` with `extend_service_descendants()`, as a function of `seen` and the lineage.
`Reconcile`, `Consider`, `Probe` and `Enroll` are `_reconcile_service_lineage()` between its
sections of the lock, `Look` and `Watch` the watcher between its. `NameEntry` gives a lineage entry
the ProcessGuid of an event with its identifier, whichever process that is of: each creation
does it (`_handle_sysmon_process_create`), and any other event if the entry has none (`Learn`).
`Probe` may be denied, and is not repeated. `blind` and `raced` record what the properties
exempt: a graph built while the creation of an installing process was missing; a parent taken
for another because of its identifier, or an entry named after another process; and an
entry written on the ground of one that had changed.

Abstractions: the events of one creation within two seconds are one; an event and the name it
gives are one step, though they take the lock in turn; installations known only from System
7045 or API rows, and the session limit (`FridaSessions`), are left out. So is the third writer
of the lineage, `_schedule_injected_target` (`frida_muncher.py:4714`), with what an injected process
then brings about: the module is about the sample, its children and its services.

## 3. Runs

| Run | Instance | Shows |
|---|---|---|
| `jobs` | 2 jobs | type and safety invariants, what a report is made of, final states, cancels end their job |
| `analyzer_empty` | 3 processes, 1 injection each, none spared, processes not terminated at the end; KILL and SHUTDOWN may raise | no monitored process is abandoned |
| `analyzer_ends` | root, DcomLaunch (protected name) and a service that needs it, interactive, dying in a handler allowed; any of the three may raise | the analysis ends |
| `analyzer_lock` (violated) | 3 processes, one protected; nothing raises | `process_lock` leaks |
| `debugger` | 2 callers, 4 commands | at-most-once commands and payloads, withdrawal, own payload for the polite client |
| `frida` | root, a child, an injected process; one session, one attempt, early attach for the injected one | session limit, no session lost but one, no process pending for ever by a hanging attach |
| `pcap` | 2 attempts, files of length 2, one death of the agent, one fault | whole captures in reports, final records, no false "busy", refinement of `Capture` |
| `store` | 2 connections, 2 chunks, `upload_max_size` of 1, no limit of the pool | `files.json` tells the truth, uploads are kept, the shutdown returns |
| `logs` | 2 process identifiers, 2 log servers, 3 records each, result servers coming and going | whole logs, records arrive |
| `files` | 2 processes, 3 files, 2 contents, 2 writes, 4 requests | deleted files are sent, duplicates were, announced files are kept |
| `files_pending` (violated) | the same | an MCP job does not dump what is pending |
| `services` | 3 process identifiers, 1 service, 4 events | only the sample's services, live services keep the analysis going, entries are kept |

**Bounds.** *Two jobs* are the least with a clean-up beside a set-up. At most one worker is
set up or analysed (proved for any number of jobs), so a third adds only another worker in
its `finally` block. `LogFaults = {TRUE}` lets `analysis.log` fail to open only for the polite client: it
halves the state space, and the impolite client's properties do not speak of the log.
A LOADED that may raise belongs to `analyzer_ends` only, and `analyzer_lock` has none of the
exceptions, so that its counterexample is the protected name alone. *Three processes* are the root, a child, and the child's child or a second announcer of the
child: the least for two handlers on one target beside the loop. `MaxInject = 1` still lets
the environment announce as often as it likes until the injection has happened, so the
concurrent double announcement occurs; a second injection adds no way of being abandoned.
`TerminateProcesses = FALSE` in `analyzer_empty` because the property is about a step before
that phase; `analyzer_ends` has it. There a PROCESS2 for the protected DcomLaunch leaks the
lock, and LOADED of the injected services is blocked behind it. `analyzer_empty` has no
services, which would make it too large beside three processes; with one child and one
service of each kind (`Pid = {r, c1, s}`) its properties hold too. *Two callers* are the least for two waits at once; *four commands* are one that times out,
one that gets its payload, one that is resumed behind it, and a spare.
*One session* for *two processes* besides the root makes every place contended. `MaxAttempts = 1`
lets an attach fail but not be repeated; with two attempts the invariants of `frida` were
checked too, and hold, but its liveness takes too long. No process of `frida` is both a
child and a target, so none is enrolled twice there, and the `Twice` exemption in its
properties excludes nothing. With `Target = {a}` (and two attempts for the invariants) it
does, and they hold: `SessionLimit` is then trivial, as there is only one process to count.

*Two attempts* in one directory with one fault are the least in which a report could be made of
what the other left behind; *length 2* lets a download be cut short and still have a header.
*One crash* separates a capture from its agent. *Two connections* of any kind meet on a path, a
stream or the log, and `Size = 2` over `MaxUpload = 1` cuts an upload. `PoolSize = 0` is the
default of the server; with `PoolSize = 1` the properties hold too. *Two log servers* are
two injections of one process, overlapping or one after the other, or one of each process, and
the result server goes and comes again any number of times. *Two
processes and three files* give one of them a file to move onto another while both dump equal
contents; *four requests* are an announcement and a removal of each, or a move between.
*Four events* are the root's start and three births or installations: a service, its
installation and a descendant, or a process that is given a used identifier. Seven
events were explored by simulation without a violation.

**Symmetry** is used in `debugger` (callers), `files` (contents, and the two files of one
process) and `services` (identifiers but the root's), which check no liveness.
**Deadlock** is checked in `debugger` and `logs`. Jobs, analyses and captures end, so the other runs
switch it off.

**Fairness.** A thread that can run is scheduled (`WF` of `Worker(j)`, `Handler(p)`, `Loop`):
all are threads of one Python process. `CancelSignal` is fair, as it follows without a wait.
No step out of the loop of `JobManager` is fair by itself, so `CancelEndsJob` does not rest
on a sample that exits or a timeout; it rests on the folder being tested in every pass. In
`AnalyzerCore` the timeout is a clock (`WF(Expire)`), and acquiring a lock is strongly fair,
which `threading.Lock` gives in practice; `AnalysisEnds` uses neither the release of the lock
nor the end of any process. In `FridaSessions` the workers are threads and every wait of
theirs ends by its time-out, but for their own calls of Frida - `create_script`, `load`, `unload`,
`detach` - which have none (`WF(~InCall(w) /\ WorkerStep(w))`). So nothing is assumed of Frida: an attach
call may hang for ever, and so may a set-up, which `PendingDrains` then names as the reason
that a process is still pending. In `LogServer` the threads run (`WF(Run(i))`), which includes that
the result server reads what it has not ended; monitors and the result server need do nothing. In `PcapTask` only dumpcap's own duration is fair
(`WF(Expire(r))`), nothing of the client, the agent or the network; in `ResultStore` only the
deadlines of the joins of `shutdown_server()` (`WF(Caller)`), none of its handlers. The other
modules state safety alone. Nothing the sample does is fair.

## 4. Where code and docs disagree

Two disagreements have a run, quoted in `PROJECT.json`:

1. The loop takes a held `process_lock` for a sign of work; `_inject_process` returns without
   a release for a protected name (`analyzer_lock`).
2. `Analyzer.complete()` is to dump all the notified files; the MCP server and the window do
   not call it, and dump a new, empty `Files()` instead (`files_pending`).

The models contain the following, which the properties exempt or are not about:

- *Jobs.* `_forget_instance` promises that a later `ResultServer(...)` works; the next job can
  be accepted before it is called. The termination folder of a cancel has the same name for
  every job and is never removed, so it ends later jobs. "The analysis directory no longer
  changes once a job completes, so the report cannot go stale" (`mcp_server.py:966-968`):
  it does, as all jobs write to one directory that nothing empties. A report read late is made of
  the next job too, and the next job's always of this one; `PoliteReportLooksBack` says what is
  left of the promise. The headless command line
  has the same race: it returns on completion while the worker, a daemon thread, still drains.
- *Handlers.* `_handle_process` says it prevents double injection; it does not, and neither do
  the flags of services. An `IndexError` in `dump_files` (`analyzer.py:1031`), when another
  thread has emptied the table after its test, leaves `process_lock` held in a SHUTDOWN and
  skips the rest of `complete()`; so does the `None[0]` of line 987, and `int(data)` leaves the
  lock held in LOADED and KILL.
- *Debugger.* `SendCommand` says it returns its command's payload; after a time-out it may
  return another's.
- *Frida.* `_attach_rpc_worker` says that a late session is detached at once; it tests the
  cancel event before it publishes the session, and a time-out in between orphans it.
  `stop()` "still performs explicit cleanup" (`frida_muncher.py:3785-3787`); a worker past its attach
  inserts its session into the table that `stop()` has emptied, and nobody detaches it.
- *Files.* A file is dumped before the sample deletes it (`analyzer.py:1514`), but not one that
  cannot be read just then: it is dropped from the table all the same. `upload_to_host` never raises, so a failed upload is remembered as dumped. A
  duplicate in another category is listed under a path that is never stored. `move_file`
  leaves the details of the old name in `files_orig`, where a later file of that name finds them. FILE_NEW under a name that is just being
  dumped is undone by the `pop` after the upload.
- *Uploads.* "`files.json` never advertises an artifact that was never stored" (`resultserver.py:429`): a failing last flush
  is suppressed (313-315, 364-366), and the line of `files.json` has no `incomplete`, though all of
  a small file may be missing. `NetlogConnection.send` means to reconnect after an error; `connect()` does nothing
  while the broken socket is still set.
- *Log servers.* A process is not injected twice (`analyzer.py:1443-1445`, `1471`); it may be, and each
  injection that finds the pool without its path makes a log server. When both have been opened,
  the second truncates the log. `handle_logs` spins for ever on a broken pipe, and its thread
  outlives the job. The path of a process stays in the pool, so that a later process with its
  identifier finds no instance to open and has no log. A connection that fails leaves an
  instance which a monitor may open and nobody reads. A monitor that closes before the thread
  listens leaves a thread that closes one handle number again and again. The `PipeServer` of `PipeForwarder`s
  at `analyzer.py:341` is never started.
- *Capture.* When the answer to a start is lost, the agent records on and refuses the next
  start as busy until the duration has passed. The capture is marked as fetched, and has
  replaced `dump.pcapng`, before its hash is compared; only the status tells.
- *Services.* "A later instance of the same PID must never inherit an earlier instance's
  relationship" (`service_graph.py:69-70`): every process creation
  overwrites `sysmon_guid` of the entry with its identifier (`frida_muncher.py:4282-4292`), so it can, and the
  sample can lose its own. A probe that Windows denies is never repeated
  (`service_runtime.py:111`), and the service does not defer the end. The watcher asks for a service parent and for a parent in two sections of the
  lock, against the comment at `frida_muncher.py:4863`; it knows a parent by its identifier
  alone. The grace period is not renewed for a second unresolved service. Two names with one
  executable are ambiguous and link nothing.

## 5. What is proved

All modules but the abstract `Capture` have theorems, in a `..._proofs` module beside them
(those of `DebugRendezvous` in `JobManager_proofs`). A theorem holds for every value
of the constants - any number of processes, jobs, callers, connections, any bound on the
environment - under the `ASSUME`s of the module, which name null values apart from real ones
and bounds as numbers (`ResultStore` also needs finitely many connections, to count them).
Hypotheses beyond that are written in the theorem.

| Module | Theorem | Property |
|---|---|---|
| `JobManager` | `TypeCorrect` | `TypeOK` |
| | `ActiveJobIsLive` | `ActiveIsLive` |
| | `OneAnalysisAtATime` | `OneAnalysis` |
| | `ResultsAreFinal` | `TerminalIsFinal` |
| | `PoliteClientHasServer` | `PoliteServerWorks` |
| | `PoliteClientLeavesNothing` | `PoliteLeavesNothing` |
| | `PoliteReportsLookBack` | `PoliteReportLooksBack` |
| `AnalyzerCore` | `TypeCorrect` | `TypeOK` |
| | `ListOperationsExclude` | one handler at a time operates on the list |
| | `NoneIsAbandonedAlone` | who may be left behind, whatever dies when, if no LOADED raises |
| | `NoneIsAbandoned` | `NoLiveProcessAbandoned`, if no LOADED raises and `~DieInCall` |
| | `LeaksLast` | a leaked lock stays leaked, and nothing joins the list |
| `DebugRendezvous` | `SessionTypeCorrect` | `SessionTypeOK` |
| | `CommandsAreTakenOnce` | `CommandOnce` |
| | `PayloadsAreHandedOnce` | `PayloadOnce` |
| | `PoliteClientsGetTheirOwn` | `PoliteOwnPayload` |
| | `WithdrawnCommandsAreGone` | `WithdrawnIsGone` |
| `FridaSessions` | `TypeCorrect` | `TypeOK` |
| | `SessionsAreLimited` | `SessionLimit` |
| | `OnlyTwiceExceeds` | the limit without its exemption: for the processes that were enrolled once |
| | `SessionsAreAccounted` | `SessionAccounted` |
| `PcapTask` | `TypeCorrect` | `TypeOK` |
| | `RecordsAreFinal` | `RecordFinal` |
| | `BusyMeansCapturing` | `BusyIsTrue` |
| | `StepsAreCapture` | `IsCapture` without its fairness |
| | `CapturesAreExclusive` | one capture at a time, complete and fetched only when ended |
| | `CompleteCapturesAreThere` | what `pcap_runtime.json` calls complete and fetched is whole, for any number of faults |
| | `ReportsAreWhole` | `ReportIsWhole`, if `MaxFault <= 1` |
| `ResultStore` | `TypeCorrect` | `TypeOK` |
| | `ListedUploadsAreStored` | `ListedIsStored` |
| | `UploadsAreKept` | `UploadKept` |
| `LogServer` | `TypeCorrect` | `TypeOK` |
| | `LogsAreWhole` | `LogWhole` |
| `DroppedFiles` | `TypeCorrect` | `TypeOK` |
| | `DeletedFilesAreSent` | `DeletedIsSent` |
| | `DuplicatesWereSent` | `DuplicateWasSent` |
| | `AnnouncedFilesAreKept` | `AnnouncedIsKept` |
| `ServiceTracking` | `TypeCorrect` | `TypeOK` |
| | `ServicesAreOfSample` | `ServiceIsOfSample` |
| | `LiveServicesDefer` | `LiveServiceDefers` |
| | `EntriesAreKept` | `EntryKept` |

Hardly one of these properties is inductive by itself. Each proof has an invariant in named
parts, which was checked with TLC on the instance of the module's run first; one
lemma or step per action carries it over the step, and the theorems are read off it.

**JobManager.** *The slot.* That `Submit` finds `active = NoJob` says nothing of workers unless
a worker before its `finally` block is known to own the slot. `SlotInv` adds that
(`RunIsActive`; `AbsentIsIdle`: a job that was not submitted has no worker). Two workers in
`InRun` would then both own one slot. `ResultsAreFinal` follows: only `Submit`, `Begin`, `Fail`
and `Finish` write a state, each on a live or an absent job. *The polite client.* `PoliteInv`
says that at most one worker is running, and ties each shared object to its place: the
singleton, the worker's local and the live server are its own between `GetServer` and
`Drain`, the debugger and its pipe exist exactly between `NewDebugger` and the `finally`
block, the root level is lowered exactly while a handler's saved level is there. *Reports.*
`StoredInv` says that a job is completed only by way of its loop, which stores the run while the
server is up (`PoliteInv`), and that nothing after that takes the run away. `PromptInv`
is for a client that reads each report before its next job: one job at a time is unread, and what
a report holds of other jobs is of jobs that were read, whose reports hold nothing of its own.

**AnalyzerCore.** `TrackInv` places every live process: one that can talk is on the list, was
taken off it by a KILL, or is saying LOADED; one that was injected may also have its 15
seconds of grace, or a handler that is about to grant them. Only the last can be lost, when
the loop finds no process on the list and no grace: the handler's own process must then be on the
list too, unless it is gone. That gives `NoneIsAbandonedAlone`, and without deaths in the
middle of a command (`SendersLive`) `NoneIsAbandoned`. The general theorem says what
`~DieInCall` sets aside: a process that dies when its handler has injected its child and not
yet stamped LASTINJECT_TIME may leave the child. `LeaksLast` is the other half of the run
`analyzer_lock`: however the lock was leaked, by a protected name or an exception, no handler
enters its critical section again and the list can only shrink, which is why the loop, which
does not wait for the lock, must be the one to end the analysis. `ListOperationsExclude`
needs `CallInv` (a handler in its critical section has the lock), and holds in spite of the
leak, as nobody takes a leaked lock.

**DebugRendezvous.** `PassInv` is the way of a command: not sent, pending, with the target,
answered in the slot, handed over. It never goes back, and a number is not in two places.
`SendLockInv` ties the command of a waiting caller to `sendLock`. For the polite client,
`OneCallInv` says what the one caller waits for is pending, carried out or answered - no
place is left for an answer to an earlier command. `WithdrawnCommandsAreGone` follows from
`PassInv`: a timed-out command that was withdrawn is not pending, and only the pending one is
taken.

**FridaSessions.** `SoloInv` follows the session of a process with one worker through four
owners - attach call, ticket, worker, table, `stop()` - with the time-outs, `stop()`, Frida's callback and
the end of the process beside it. `EnrolInv` and `LinkInv` say that no worker is started again and
that every call, ticket and wait names the same process. `PendInv` keeps a process in
`pending_identities` until its worker returns, so the place that `Enrol` counted is still its own
when it moves into the table (`LimitInv`, which carries the finiteness of both tables along:
nothing is assumed of the number of processes). The table counts as an owner until `stop()` has emptied it; a session inserted
later (`LeftBehind`) is the one the theorem gives up. The exemption of a process
enrolled twice is that of the runs; `Solo` is where the proofs need it. `OnlyTwiceExceeds`
says how far it reaches: `UsedLimit` counts all processes that were enrolled once, whatever
happens to the others. Those others can be over the limit: with `MaxSessions = 2`, one process
that is both child and target and two more targets, TLC finds three in use, as the first worker
to return gives up the place that the second still needs.

**PcapTask.** `AgentInv` says that a dumpcap which no restart has orphaned is the active record's,
that a stopped record has the length of a file that no longer grows, and that answers in flight
tell the truth. `ClientInv` ties the client's status to its place. From both, `StepsAreCapture`,
in which the fetch and not the stop completes a capture, maps the initial state and each step to `Capture`, most of them to stutters;
`CapturesAreExclusive` is proved of `Capture`'s steps alone and carried over by it. `DiskInv` is about the
two files of the directory. Its first part gives `CompleteCapturesAreThere` whatever fails; with
one fault at most, the bound run is also behind the downloaded one only where an attempt has lost
its first write of `pcap_runtime.json` and has not come to the second. `MaxFault <= 1` is needed: with two faults - the first write lost, and the attempt killed before
the second - TLC finds a usable capture that `pcap_runtime.json` does not speak of.

**ResultStore.** `UploadInv` names the one connection that has created the uploaded file: the
file is what it has written, and no other connection copies to the path or has a complete line
for it. Of a `*_script.log`, to which all append, `ScriptInv` counts the chunks of each connection. `ConnInv` ties what a handler has read, holds and has written to its state, `ListedInv` each line of
`files.json` to a handler that has ended, with all it has got in the file unless its last flush
failed. `CountInv` bounds the statistics by the connections
that can have been counted, which the type of the summary needs.

**LogServer.** `ServerInv` ties the place of a log server to its pipe, its connection and the pool: a
second one of a process is begun only while the first is not in the pool, or has failed, and that
makes the process `crowded` (`CrowdInv`). So of a process that is not polluted only one log server is
ever opened; `StreamInv` says of that one that the log, followed by what is in its pipe, is all that
was written to it. `PollutedStays` and `Lone` carry the case distinction over a step: pollution is
never undone, and without it no other log server has touched the log.

**DroppedFiles.** `Fit` says what a handler relies on between its steps: the file of a FILE_DEL
or FILE_MOVE stays as it is, because its process waits for the answer; the hash it has is that
of what is there; after its upload the content is settled. `KeptInv` is `AnnouncedIsKept`
strengthened for the end: once `Analyzer.complete()` has seen an empty table, being tracked
counts no more.

**ServiceTracking.** *The history.* `OfSample`, `ServiceOfRoot` and the graph's `Family` are
recursive functions over a history that grows. A parent or an installer is older than what it
brings about (`HistoryInv`), so the lemma `Recursion` gives such a function its values: on the
shortest history on which there were none, all values but the last exist. `OfSampleIs`,
`ServiceOfRootIs` and `FamilyIs` are the equations, and `SampleIsKept` says that an event to
come changes none of the old values. All induction is that of the oldest counterexample, from the
well-foundedness of `<`. *What is enrolled.* `EntryInv` says that an entry is of a process
with its identifier. An installer lives when it installs, so no process between them has had its identifier:
the last one known to have had it is the installer itself, if its creation has been delivered.
That is where `~blind` is needed. `AnchorsAreTracked` says so, and by `FamilyIsSample` all that `correlate()` links is
the sample's when the lineage is (`SampleInv`). *The entries.* `LinkInv` says that a link is under
way only for an identifier whose entry is of an ended process; `EntryKept` follows, as the
watcher looks first too (`~raced`). *Who keeps the analysis going.* `RoleInv` says that no process of
a service is an ordinary child: its parent was enrolled by the graph, which the watcher leaves
alone. `RootServicesAreFound` is `correlate()` seen from the other side: with the sample's
own entry in place and one name per executable it finds each live process that a service has
brought about, and `LinkedInv` follows that one through `todo` and `link` into its entry. `OneNameEach`
is needed, as two candidates link nothing.

## 6. What is only model-checked

- *Liveness* under fairness, and ENABLED, are out of reach of TLAPS with its SMT, Zenon and
  LS4 backends: `CancelEndsJob`, `AnalysisEnds`, `PendingDrains`, `ShutdownReturns`, `RecordsArrive`, and the
  fairness of `IsCapture`.
- `LockMeansOperating` with protected names and `NotifiedAreDumped` are what their runs refute.

No module declares a RECURSIVE operator.

## 7. Plan

Proofs: that no handler of `AnalyzerCore` injects a process more often than it is announced at
once; what remains of `SessionAccounted` for a process that was enrolled twice.

Models: service enrolment in `FridaSessions`; uploads through the MCP tools; the life of the
Sysmon bridge; the stop of auxiliary modules, which outlive their analysis in `AUX_ENABLED`.

### Not modelled

- *Report processing* (`capelib/*` but the result server, the debugger session and the choice of
  a capture) is a chain of sequential transformations without state of its own.
- *The GUI and the command line* call the same analyzer and job manager from an event loop;
  what remains is display.
- *Process control and injection, analysis packages, uploads of archives, the other auxiliary
  modules* are Windows calls and I/O; their outcomes are free choices where a module uses them.
- *`PipeForwarder`* and the `PipeServer` made for it (`analyzer.py:341`) are never run.
- *The clock model* and the *life-cycle policies* of Frida are pure arithmetic and decision
  tables with unit tests of their own; `FridaSessions` takes any decision.
- *Kernel analysis*: the driver that sends KPROCESS, KTERMINATE and KSUBVERT is not part of the
  repository and nothing here starts it.
