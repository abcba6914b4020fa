--------------------------- MODULE PrinterDevice ---------------------------
(***************************************************************************)
(* One printer of the gateway: class PrinterDevice of                      *)
(* src/src/devices/printer.py.                                             *)
(*                                                                         *)
(* Three kinds of actor share the device.  HTTP handlers enqueue jobs and  *)
(* wait for an answer; the worker task takes the jobs one by one; a single *)
(* device thread (`_io`) does everything that touches the hardware, first  *)
(* come first served.  `connect()` and `disconnect()` run beside them.     *)
(* Tasks of the event loop interleave only where the code awaits, so every *)
(* action below is the code between two awaits.                            *)
(***************************************************************************)
EXTENDS Naturals, Sequences, FiniteSets

CONSTANTS
  Jobs,          (* the print jobs that are ever submitted                 *)
  Handles,       (* the handles the library can return, each opened once   *)
  NoJob,
  NoHandle

ASSUME NoneAssumption == NoJob \notin Jobs /\ NoHandle \notin Handles

VARIABLES
  spooler,       (* the connection is the Windows spooler (`_is_spooler`)  *)
  handle,        (* `_printer`                                             *)
  opened,        (* what became of each handle in the operating system     *)
  queue,         (* `_queue`: the jobs not taken yet                       *)
  device,        (* tasks of the device thread, its head is running        *)
  worker,        (* where `_worker_task` waits; "absent" is None or done   *)
  cancelled,     (* the worker was cancelled and has not noticed yet       *)
  current,       (* the job the worker took last                           *)
  status,        (* the future of the pre-flight status query              *)
  flush,         (* the future of each job's write                         *)
  callbacks,     (* done-callbacks that a cancelled worker left on flush   *)
  inFlight,      (* `_job_in_flight`                                       *)
  paper,         (* what came out of the printer for each job              *)
  rows,          (* the journal rows written about each job                *)
  answer,        (* what the handler that enqueued the job was told        *)
  lock,          (* who holds `_connect_lock`                              *)
  build,         (* the future `_pending_build`                            *)
  built,         (* the handle that build returned                         *)
  late,          (* connect() gave the build up and left a closing callback*)
  lateHandles,   (* handles such a callback is about to close              *)
  abandoned,     (* handles of builds whose caller was cancelled, NoHandle *)
                 (* for the build that runs; the code keeps no such record *)
  retired,       (* `_retired`                                             *)
  disc           (* how far disconnect() has come                          *)

vars == << spooler, handle, opened, queue, device, worker, cancelled, current,
           status, flush, callbacks, inFlight, paper, rows, answer,
           lock, build, built, late, lateHandles, abandoned, retired, disc >>

workerVars  == << worker, cancelled, current, status, flush, callbacks, inFlight >>
outcomeVars == << rows, answer >>
connectVars == << lock, build, built, late, lateHandles, abandoned >>
discVars    == << retired, disc >>

Task(op, h, j) == [op |-> op, handle |-> h, job |-> j]
DeviceTask == [op : {"build", "status", "write", "close"},
               handle : Handles \union {NoHandle}, job : Jobs \union {NoJob}]
Queued == { queue[i] : i \in DOMAIN queue }
Running(op) == device # << >> /\ Head(device).op = op

Init ==
  /\ spooler \in BOOLEAN
  /\ handle = NoHandle
  /\ opened = [h \in Handles |-> "unopened"]
  /\ queue = << >> /\ device = << >>
  /\ worker = "absent" /\ cancelled = FALSE /\ current = NoJob
  /\ status = "none"
  /\ flush = [j \in Jobs |-> "none"]
  /\ callbacks = {} /\ inFlight = FALSE
  /\ paper = [j \in Jobs |-> "none"]
  /\ rows = [j \in Jobs |-> << >>]
  /\ answer = [j \in Jobs |-> "none"]
  /\ lock = "free" /\ build = "none" /\ built = NoHandle
  /\ late = FALSE /\ lateHandles = {} /\ abandoned = {}
  /\ retired = FALSE /\ disc = "no"

-----------------------------------------------------------------------------
(* What the manager says about a job: one journal row and one answer.      *)

Log(j, outcome) == rows' = [rows EXCEPT ![j] = Append(@, outcome)]

(* A handler that stopped waiting has a cancelled future, which nobody sets. *)
Told(j, verdict) == IF answer[j] = "waiting" THEN verdict ELSE answer[j]
Tell(j, verdict) == answer' = [answer EXCEPT ![j] = Told(j, verdict)]

(* Faulty variant: an error of the write is not looked at.                 *)
AnswerOfUnread(outcome) == "printed"

RowOf(outcome)    == IF outcome = "ok" THEN "ok" ELSE "failed"
AnswerOf(outcome) == IF outcome = "ok" THEN "printed" ELSE "failed"

(* `_fail_queued_jobs`: job j (or none) ends with its own row and verdict, *)
(* and every job still in the queue is cancelled in the same step.         *)
EndWithQueue(j, row, verdict) ==
  /\ rows' = [k \in Jobs |-> IF k = j THEN Append(rows[k], row)
                             ELSE IF k \in Queued THEN Append(rows[k], "cancelled")
                             ELSE rows[k]]
  /\ answer' = [k \in Jobs |-> IF k = j THEN Told(k, verdict)
                               ELSE IF k \in Queued THEN Told(k, "cancelled")
                               ELSE answer[k]]
  /\ queue' = << >>

(* Faulty variant: a job that was taken from the queue is not counted.     *)
PendingQueued == IF worker # "absent" THEN Len(queue) ELSE 0

(* `pending_jobs`: the queue counts only while somebody will serve it.     *)
PendingJobs == (IF worker # "absent" THEN Len(queue) ELSE 0)
               + (IF inFlight THEN 1 ELSE 0)

-----------------------------------------------------------------------------
(* The handlers.                                                           *)

Enqueue(j) ==
  /\ answer[j] = "none"
  /\ IF handle = NoHandle
       THEN /\ Log(j, "failed")
            /\ answer' = [answer EXCEPT ![j] = "failed"]
            /\ UNCHANGED queue
       ELSE /\ queue' = Append(queue, j)
            /\ answer' = [answer EXCEPT ![j] = "waiting"]
            /\ UNCHANGED rows
  /\ UNCHANGED << spooler, handle, opened, device, workerVars, paper,
                  connectVars, discVars >>

(* Faulty variant: the handler records what its own await ended with.      *)
ClientLeavesAndRecords(j) ==
  /\ answer[j] = "waiting"
  /\ answer' = [answer EXCEPT ![j] = "gone"]
  /\ Log(j, "cancelled")
  /\ UNCHANGED << spooler, handle, opened, queue, device, workerVars, paper,
                  connectVars, discVars >>

(* The client goes away: only the handler's own await is cancelled.        *)
ClientLeaves(j) ==
  /\ answer[j] = "waiting"
  /\ answer' = [answer EXCEPT ![j] = "gone"]
  /\ UNCHANGED << spooler, handle, opened, queue, device, workerVars, paper,
                  rows, connectVars, discVars >>

-----------------------------------------------------------------------------
(* connect(): one caller at a time is inside the lock.  Callers that find  *)
(* the device retired, open, or a build still running change nothing.      *)

ConnectBegin ==
  /\ lock = "free" /\ ~retired /\ handle = NoHandle /\ build # "running"
  /\ lock' = "connect"
  /\ build' = "running" /\ built' = NoHandle
  /\ device' = Append(device, Task("build", NoHandle, NoJob))
  /\ UNCHANGED << spooler, handle, opened, queue, workerVars, paper,
                  outcomeVars, late, lateHandles, abandoned, discVars >>

ConnectReturns ==
  /\ lock = "connect" /\ build \in {"ok", "failed"}
  /\ lock' = "free"
  /\ IF build = "ok"
       THEN /\ handle' = built
            /\ worker' = IF worker = "absent" THEN "waiting" ELSE worker
       ELSE UNCHANGED << handle, worker >>
  /\ UNCHANGED << spooler, opened, queue, device, cancelled, current, status,
                  flush, callbacks, inFlight, paper, outcomeVars, build,
                  built, late, lateHandles, abandoned, discVars >>

(* Faulty variant: nobody waits for a handle that comes after the ceiling. *)
ConnectTimesOutForgets ==
  /\ lock = "connect" /\ build \in {"running", "ok"}
  /\ lock' = "free"
  /\ UNCHANGED << spooler, handle, opened, queue, device, workerVars, paper,
                  outcomeVars, build, built, late, lateHandles, abandoned, discVars >>

(* The ten-second ceiling: the handle may still come, so a callback closes it. *)
ConnectTimesOut ==
  /\ lock = "connect" /\ build \in {"running", "ok"}
  /\ lock' = "free"
  /\ IF build = "running"
       THEN late' = TRUE /\ UNCHANGED lateHandles
       ELSE lateHandles' = lateHandles \union {built} /\ UNCHANGED late
  /\ UNCHANGED << spooler, handle, opened, queue, device, workerVars, paper,
                  outcomeVars, build, built, abandoned, discVars >>

(* The caller of connect() is cancelled: neither except clause runs.       *)
ConnectAbandoned ==
  /\ lock = "connect"
  /\ lock' = "free"
  /\ abandoned' = IF build = "failed" THEN abandoned ELSE abandoned \union {built}
  /\ UNCHANGED << spooler, handle, opened, queue, device, workerVars, paper,
                  outcomeVars, build, built, late, lateHandles, discVars >>

(* `_close_late_handle`: on the same thread, or on one of its own when the *)
(* executor has been shut down.                                            *)
CloseLate(h) ==
  /\ h \in lateHandles
  /\ lateHandles' = lateHandles \ {h}
  /\ IF disc = "done"
       THEN opened' = [opened EXCEPT ![h] = "closed"] /\ UNCHANGED device
       ELSE device' = Append(device, Task("close", h, NoJob)) /\ UNCHANGED opened
  /\ UNCHANGED << spooler, handle, queue, workerVars, paper, outcomeVars,
                  lock, build, built, late, abandoned, discVars >>

-----------------------------------------------------------------------------
(* The device thread.                                                      *)

BuildSucceeds(h) ==
  /\ Running("build") /\ opened[h] = "unopened"
  /\ opened' = [opened EXCEPT ![h] = "open"]
  /\ device' = Tail(device)
  /\ build' = "ok" /\ built' = h
  /\ lateHandles' = IF late THEN lateHandles \union {h} ELSE lateHandles
  /\ late' = FALSE
  /\ abandoned' = { IF g = NoHandle THEN h ELSE g : g \in abandoned }
  /\ UNCHANGED << spooler, handle, queue, workerVars, paper, outcomeVars,
                  lock, discVars >>

BuildFails ==
  /\ Running("build")
  /\ device' = Tail(device)
  /\ build' = "failed" /\ late' = FALSE
  /\ abandoned' = abandoned \ {NoHandle}
  /\ UNCHANGED << spooler, handle, opened, queue, workerVars, paper,
                  outcomeVars, lock, built, lateHandles, discVars >>

(* The printer answers, or is silent and counts as healthy ("clear"), or   *)
(* reports no paper or an open cover ("refuses").                          *)
StatusAnswered ==
  /\ Running("status")
  /\ device' = Tail(device)
  /\ status' \in IF worker = "status" THEN {"clear", "refuses"} ELSE {status}
  /\ UNCHANGED << spooler, handle, opened, queue, worker, cancelled, current,
                  flush, callbacks, inFlight, paper, outcomeVars,
                  connectVars, discVars >>

(* The bytes go out; a write that fails may have put some of them on paper. *)
(* That a write that fails never leaves a whole receipt, and one that does *)
(* not fail always does, is taken of the printer and its driver: the code  *)
(* knows only that the call returned.                                      *)
WriteEnds(outcome) ==
  /\ Running("write")
  /\ LET j == Head(device).job IN
       /\ flush' = [flush EXCEPT ![j] = outcome]
       /\ \E out \in IF outcome = "ok" THEN {"full"} ELSE {"none", "part"} :
            paper' = [paper EXCEPT ![j] = out]
  /\ device' = Tail(device)
  /\ UNCHANGED << spooler, handle, opened, queue, worker, cancelled, current,
                  status, callbacks, inFlight, outcomeVars, connectVars, discVars >>

HandleCloses ==
  /\ Running("close")
  /\ opened' = [opened EXCEPT ![Head(device).handle] = "closed"]
  /\ device' = Tail(device)
  /\ UNCHANGED << spooler, handle, queue, workerVars, paper, outcomeVars,
                  connectVars, discVars >>

-----------------------------------------------------------------------------
(* The worker task.                                                        *)

(* Faulty variant: the failure is answered and not recorded.               *)
FailsUnrecorded(j) ==
  /\ Tell(j, "failed") /\ UNCHANGED rows
  /\ worker' = "waiting" /\ inFlight' = FALSE

(* The job ends without touching the paper: no handle, no paper reported,  *)
(* or a rendering error.  The worker stays and takes the next one.         *)
Fails(j) ==
  /\ Log(j, "failed") /\ Tell(j, "failed")
  /\ worker' = "waiting" /\ inFlight' = FALSE

(* The bytes of the job are collected in memory and handed to the thread,  *)
(* or rendering them fails.  No job waits for anything while it renders,   *)
(* so this and the reset of the accumulators that follows are one step.    *)
Render(j) ==
  \/ /\ device' = Append(device, Task("write", handle, j))
     /\ flush' = [flush EXCEPT ![j] = "running"]
     /\ worker' = "writing" /\ inFlight' = TRUE
     /\ UNCHANGED outcomeVars
  \/ Fails(j) /\ UNCHANGED << device, flush >>

Take(j) ==
  /\ worker = "waiting" /\ ~cancelled
  /\ queue # << >> /\ j = Head(queue)
  /\ queue' = Tail(queue)
  /\ current' = j
  /\ IF handle = NoHandle
       THEN Fails(j) /\ UNCHANGED << device, flush, status >>
       ELSE IF spooler
       THEN Render(j) /\ UNCHANGED status
       ELSE /\ device' = Append(device, Task("status", handle, j))
            /\ worker' = "status" /\ status' = "asked" /\ inFlight' = TRUE
            /\ UNCHANGED << flush, outcomeVars >>
  /\ UNCHANGED << spooler, handle, opened, cancelled, callbacks, paper,
                  connectVars, discVars >>

StatusReturns ==
  /\ worker = "status" /\ ~cancelled /\ status \in {"clear", "refuses"}
  /\ status' = "none"
  /\ IF status = "refuses"
       THEN Fails(current) /\ UNCHANGED << device, flush >>
       ELSE Render(current)
  /\ UNCHANGED << spooler, handle, opened, queue, cancelled, current, callbacks,
                  paper, connectVars, discVars >>

(* The write is over and it was not the connection that failed.            *)
WriteReturns ==
  /\ worker = "writing" /\ ~cancelled
  /\ flush[current] \in {"ok", "error"}
  /\ Log(current, RowOf(flush[current]))
  /\ Tell(current, AnswerOf(flush[current]))
  /\ worker' = "waiting" /\ inFlight' = FALSE
  /\ UNCHANGED << spooler, handle, opened, queue, device, cancelled, current,
                  status, flush, callbacks, paper, connectVars, discVars >>

(* The write died with an OSError: the handle is given up, everybody in the *)
(* queue is told, and the worker exits.                                    *)
ConnectionLost ==
  /\ worker = "writing" /\ ~cancelled
  /\ flush[current] = "oserr"
  /\ EndWithQueue(current, "failed", "failed")
  /\ handle' = NoHandle
  /\ device' = Append(device, Task("close", handle, NoJob))
  /\ worker' = "absent" /\ inFlight' = FALSE
  /\ UNCHANGED << spooler, opened, cancelled, current, status, flush, callbacks,
                  paper, connectVars, discVars >>

(* Faulty variant: the cancellation passes by and the answer is never set. *)
CancelVerdictForgotten == "waiting"

(* The verdict for the job whose worker is cancelled, when the write is not *)
(* running: `flush is not None and not flush.done()` is false.             *)
CancelVerdict == "cancelled"

(* `except asyncio.CancelledError` and `finally`: a running write cannot be *)
(* cancelled, so its row, its answer and the flag wait for it.             *)
WorkerCancelled ==
  /\ cancelled /\ worker # "absent"
  /\ cancelled' = FALSE /\ worker' = "absent"
  /\ LET writing == worker = "writing"
         underway == writing /\ flush[current] = "running"
     IN /\ callbacks' = (IF writing THEN {"row"} ELSE {})
                        \union (IF underway THEN {"flag"} ELSE {})
                        \union (IF underway /\ answer[current] = "waiting"
                                THEN {"settle"} ELSE {})
        /\ inFlight' = (inFlight /\ underway)
        /\ IF worker = "status" THEN Log(current, "cancelled") ELSE UNCHANGED rows
        /\ IF worker = "waiting" \/ underway
             THEN UNCHANGED answer
             ELSE Tell(current, CancelVerdict)
  /\ UNCHANGED << spooler, handle, opened, queue, device, current, status, flush,
                  paper, connectVars, discVars >>

(* `_record_when_flushed`, `_settle_from` and `_job_finished` run together, *)
(* in the pass of the loop after the write has ended.                      *)
WriteCallbacks ==
  /\ callbacks # {} /\ flush[current] # "running"
  /\ callbacks' = {}
  /\ IF "row" \in callbacks THEN Log(current, RowOf(flush[current])) ELSE UNCHANGED rows
  /\ IF "settle" \in callbacks THEN Tell(current, AnswerOf(flush[current]))
                               ELSE UNCHANGED answer
  /\ inFlight' = (inFlight /\ "flag" \notin callbacks)
  /\ UNCHANGED << spooler, handle, opened, queue, device, worker, cancelled,
                  current, status, flush, paper, connectVars, discVars >>

-----------------------------------------------------------------------------
(* disconnect(): the registry dropped the device, or the manager stops.    *)

DisconnectBegin ==
  /\ disc = "no"
  /\ disc' = "requested" /\ retired' = TRUE
  /\ UNCHANGED << spooler, handle, opened, queue, device, workerVars, paper,
                  outcomeVars, connectVars >>

CancelWorker ==
  /\ disc = "requested" /\ lock = "free" /\ worker # "absent"
  /\ disc' = "cancelling" /\ lock' = "disconnect"
  /\ cancelled' = TRUE
  /\ UNCHANGED << spooler, handle, opened, queue, device, worker, current, status,
                  flush, callbacks, inFlight, paper, outcomeVars, build,
                  built, late, lateHandles, abandoned, retired >>

(* Faulty variant: the handle is closed at once, under a running write.    *)
DrainAndCloseAtOnce ==
  /\ worker = "absent"
  /\ disc = "cancelling" \/ (disc = "requested" /\ lock = "free")
  /\ EndWithQueue(NoJob, "none", "none")
  /\ handle' = NoHandle
  /\ opened' = IF handle = NoHandle THEN opened ELSE [opened EXCEPT ![handle] = "closed"]
  /\ disc' = "done" /\ lock' = "free"
  /\ UNCHANGED << spooler, device, workerVars, paper, build, built, late,
                  lateHandles, abandoned, retired >>

(* The worker is gone: end the queue and put the closing behind the write. *)
DrainAndClose ==
  /\ worker = "absent"
  /\ disc = "cancelling" \/ (disc = "requested" /\ lock = "free")
  /\ EndWithQueue(NoJob, "none", "none")
  /\ handle' = NoHandle
  /\ IF handle = NoHandle
       THEN /\ UNCHANGED device
            /\ disc' = "done" /\ lock' = "free"
       ELSE /\ device' = Append(device, Task("close", handle, NoJob))
            /\ disc' = "closing" /\ lock' = "disconnect"
  /\ UNCHANGED << spooler, opened, workerVars, paper, build, built, late,
                  lateHandles, abandoned, retired >>

(* The closing ended, or five seconds passed: the executor takes no more.  *)
DisconnectReturns ==
  /\ disc = "closing"
  /\ disc' = "done" /\ lock' = "free"
  /\ UNCHANGED << spooler, handle, opened, queue, device, workerVars, paper,
                  outcomeVars, build, built, late, lateHandles, abandoned, retired >>

-----------------------------------------------------------------------------
WriteEndsSomehow == \E outcome \in {"ok", "oserr", "error"} : WriteEnds(outcome)
TakeNext == \E j \in Jobs : Take(j)

Handlers == \E j \in Jobs : Enqueue(j) \/ ClientLeaves(j)
Connection == \/ ConnectBegin \/ ConnectReturns \/ ConnectTimesOut \/ ConnectAbandoned
              \/ \E h \in Handles : CloseLate(h)
DeviceThread == \/ \E h \in Handles : BuildSucceeds(h)
                \/ BuildFails \/ StatusAnswered \/ WriteEndsSomehow \/ HandleCloses
Worker == TakeNext \/ StatusReturns \/ WriteReturns \/ ConnectionLost
          \/ WorkerCancelled \/ WriteCallbacks
Disconnection == DisconnectBegin \/ CancelWorker \/ DrainAndClose \/ DisconnectReturns

Next == Handlers \/ Connection \/ DeviceThread \/ Worker \/ Disconnection

(* The event loop runs every task that is ready, and every transfer has a  *)
(* time limit (_USB_TIMEOUT_MS, _NETWORK_TIMEOUT_S), so the device thread  *)
(* ends what it started: all but the opening of a handle, which may hang.  *)
Fairness ==
  /\ WF_vars(ConnectReturns \/ ConnectTimesOut)
  /\ \A h \in Handles : WF_vars(CloseLate(h))
  /\ WF_vars(StatusAnswered) /\ WF_vars(WriteEndsSomehow) /\ WF_vars(HandleCloses)
  /\ WF_vars(TakeNext) /\ WF_vars(StatusReturns) /\ WF_vars(WriteReturns)
  /\ WF_vars(ConnectionLost) /\ WF_vars(WorkerCancelled) /\ WF_vars(WriteCallbacks)
  /\ WF_vars(CancelWorker) /\ WF_vars(DrainAndClose) /\ WF_vars(DisconnectReturns)

Spec == Init /\ [][Next]_vars /\ Fairness

-----------------------------------------------------------------------------
HandleTypes ==
  /\ spooler \in BOOLEAN
  /\ handle \in Handles \union {NoHandle}
  /\ opened \in [Handles -> {"unopened", "open", "closed"}]
  /\ lock \in {"free", "connect", "disconnect"}
  /\ build \in {"none", "running", "ok", "failed"}
  /\ built \in Handles \union {NoHandle}
  /\ build = "ok" => built \in Handles
  /\ late \in BOOLEAN
  /\ lateHandles \subseteq Handles
  /\ abandoned \subseteq Handles \union {NoHandle}
  /\ retired \in BOOLEAN
  /\ disc \in {"no", "requested", "cancelling", "closing", "done"}

WorkerTypes ==
  /\ worker \in {"absent", "waiting", "status", "writing"}
  /\ cancelled \in BOOLEAN
  /\ current \in Jobs \union {NoJob}
  /\ status \in {"none", "asked", "clear", "refuses"}
  /\ flush \in [Jobs -> {"none", "running", "ok", "oserr", "error"}]
  /\ callbacks \subseteq {"row", "settle", "flag"}
  /\ inFlight \in BOOLEAN

Row == {"ok", "failed", "cancelled"}
Answer == {"none", "waiting", "printed", "failed", "cancelled", "gone"}

PaperTypes ==
  /\ queue \in Seq(Jobs)
  /\ device \in Seq(DeviceTask)
  /\ paper \in [Jobs -> {"none", "part", "full"}]
  /\ rows \in [Jobs -> Seq(Row)]
  /\ answer \in [Jobs -> Answer]

(* Every variable stays in the set its comment names.                      *)
TypeOK == HandleTypes /\ WorkerTypes /\ PaperTypes

(* The journal tells what the paper shows (PET-1087): at most one row per  *)
(* job, "ok" exactly for a receipt that came out whole, "cancelled" only   *)
(* for one of which nothing ever comes out.                                *)
JournalTellsThePaper ==
  \A j \in Jobs : rows[j] # << >> =>
    /\ Len(rows[j]) = 1
    /\ rows[j][1] = "ok" <=> paper[j] = "full"
    /\ rows[j][1] = "cancelled" => flush[j] = "none"
    /\ flush[j] # "running"

(* A cashier told "printed" has the receipt, and one told "failed" does not *)
(* have a whole one: a retry then never makes a second receipt.            *)
AnswerTellsThePaper ==
  \A j \in Jobs :
    /\ answer[j] = "printed" => paper[j] = "full"
    /\ answer[j] = "failed"  => paper[j] # "full" /\ flush[j] # "running"

(* GET /busy must not say "free" while bytes are on their way to a printer *)
(* (BH-164, BH-168), also when the worker was cancelled under the write.   *)
BusyWhileWriting ==
  (\E i \in DOMAIN device : device[i].op = "write") => PendingJobs > 0

(* A handle is never closed under a write or before one that still needs   *)
(* it: whatever stands before a write in the thread leaves its handle open.*)
NeverClosedUnderWrite ==
  \A i \in DOMAIN device : device[i].op \in {"status", "write"} =>
    /\ opened[device[i].handle] = "open"
    /\ \A k \in DOMAIN device :
         (device[k].op = "close" /\ device[k].handle = device[i].handle)
           => k > i

(* Every open handle has somebody who will close it or is using it: the    *)
(* device, a connect() about to return it, a late callback, or a closing   *)
(* already queued.  The code loses the handles of builds whose caller was  *)
(* cancelled under them, and no others.                                    *)
NoLostHandle ==
  \A h \in Handles : opened[h] = "open" =>
    \/ h = handle
    \/ h = built /\ lock = "connect" /\ build = "ok"
    \/ h \in lateHandles \/ h \in abandoned
    \/ \E i \in DOMAIN device : device[i].op = "close" /\ device[i].handle = h

(* A retired device stays closed: no handle and no worker that nobody will *)
(* ever stop (third review round of BH-168).                               *)
RetiredStaysClosed ==
  disc = "done" => handle = NoHandle /\ worker = "absent" /\ queue = << >>

(* Every handler that waits gets its answer or has left: nobody hangs on a *)
(* queue whose worker is gone.                                             *)
EveryoneAnswered == \A j \in Jobs : answer[j] = "waiting" ~> answer[j] # "waiting"

(* Every job that was submitted leaves a row in the journal.               *)
EveryJobRecorded == \A j \in Jobs : answer[j] # "none" ~> rows[j] # << >>
=============================================================================
