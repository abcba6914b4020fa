------------------------ MODULE PrinterDeviceProofs ------------------------
(***************************************************************************)
(* Proofs about PrinterDevice for any set of jobs and of handles: that     *)
(* what the device says about a job agrees with what came out on paper,    *)
(* that a device that writes is busy and a retired one stays closed, and   *)
(* what the device thread does with the handles.                           *)
(*                                                                         *)
(* The invariant is the life of a job: it is not submitted yet, waits in   *)
(* the queue, is held by the worker, is left to the callbacks of a         *)
(* cancelled worker, or is over.                                           *)
(***************************************************************************)
EXTENDS PrinterDevice, TLAPS

(* A task made of a known operation, a handle or none, and a job or none   *)
(* is a task of the device thread.                                         *)
LEMMA TaskType ==
  ASSUME NEW op \in {"build", "status", "write", "close"},
         NEW h \in Handles \union {NoHandle}, NEW j \in Jobs \union {NoJob}
  PROVE  Task(op, h, j) \in DeviceTask
  BY DEF Task, DeviceTask

(* The head of a non-empty sequence is an element, its tail a sequence.    *)
LEMMA HeadTail ==
  ASSUME NEW S, NEW s \in Seq(S), s # << >>
  PROVE  Head(s) \in S /\ Tail(s) \in Seq(S)
  OBVIOUS

(* Appending an element keeps a sequence over its set.                     *)
LEMMA AppendType ==
  ASSUME NEW S, NEW s \in Seq(S), NEW x \in S
  PROVE  Append(s, x) \in Seq(S)
  OBVIOUS

(* The device thread stays a sequence of tasks when it ends the running    *)
(* one, and when a well-formed one is put behind the others.               *)
LEMMA ThreadType ==
  ASSUME PaperTypes
  PROVE  /\ \A op : Running(op) => Tail(device) \in Seq(DeviceTask)
         /\ \A op \in {"build", "status", "write", "close"},
               h \in Handles \union {NoHandle}, j \in Jobs \union {NoJob} :
              Append(device, Task(op, h, j)) \in Seq(DeviceTask)
  BY TaskType, AppendType, HeadTail DEF PaperTypes, Running

(* Recording a row keeps the journal typed, telling an answer the answers. *)
LEMMA LogType ==
  ASSUME PaperTypes, NEW j, NEW row \in Row, Log(j, row)
  PROVE  rows' \in [Jobs -> Seq(Row)]
<1>1. \A k \in Jobs : Append(rows[k], row) \in Seq(Row)
  BY AppendType DEF PaperTypes
<1>2. QED BY <1>1 DEF Log, PaperTypes

(* Telling an answer keeps the answers typed.                              *)
LEMMA TellType ==
  ASSUME PaperTypes, NEW j, NEW verdict \in Answer, Tell(j, verdict)
  PROVE  answer' \in [Jobs -> Answer]
  BY DEF Tell, Told, PaperTypes

(* What the end of a write is translated to is a row and an answer.        *)
LEMMA OutcomeTypes ==
  \A outcome : RowOf(outcome) \in Row /\ AnswerOf(outcome) \in Answer
  BY DEF RowOf, AnswerOf, Row, Answer

(* Ending the queue keeps the journal, the answers and the queue typed.    *)
LEMMA EndWithQueueType ==
  ASSUME PaperTypes, NEW j, NEW row, NEW verdict,
         j \in Jobs => row \in Row /\ verdict \in Answer,
         EndWithQueue(j, row, verdict)
  PROVE  /\ rows' \in [Jobs -> Seq(Row)]
         /\ answer' \in [Jobs -> Answer]
         /\ queue' \in Seq(Jobs)
<1>1. \A k \in Jobs : /\ k = j => Append(rows[k], row) \in Seq(Row)
                      /\ Append(rows[k], "cancelled") \in Seq(Row)
  BY AppendType DEF PaperTypes, Row
<1>2. rows' \in [Jobs -> Seq(Row)]
  BY <1>1 DEF EndWithQueue, PaperTypes
<1>3. answer' \in [Jobs -> Answer]
  BY DEF EndWithQueue, PaperTypes, Told, Answer
<1>4. queue' \in Seq(Jobs)
  BY DEF EndWithQueue
<1>5. QED BY <1>2, <1>3, <1>4

(* A job that fails or is rendered leaves everything it touches typed.     *)
LEMMA FailsType ==
  ASSUME PaperTypes, NEW j, Fails(j)
  PROVE  /\ rows' \in [Jobs -> Seq(Row)] /\ answer' \in [Jobs -> Answer]
         /\ worker' = "waiting" /\ inFlight' = FALSE
<1>1. "failed" \in Row /\ "failed" \in Answer
  BY DEF Row, Answer
<1>2. QED BY <1>1, LogType, TellType DEF Fails

(* Rendering keeps the rows, the answers and the thread typed.             *)
LEMMA RenderType ==
  ASSUME TypeOK, NEW j \in Jobs \union {NoJob}, Render(j)
  PROVE  /\ rows' \in [Jobs -> Seq(Row)] /\ answer' \in [Jobs -> Answer]
         /\ worker' \in {"waiting", "writing"} /\ inFlight' \in BOOLEAN
         /\ device' \in Seq(DeviceTask)
         /\ flush' \in [Jobs -> {"none", "running", "ok", "oserr", "error"}]
<1> USE DEF TypeOK
<1>1. CASE Fails(j) /\ UNCHANGED << device, flush >>
  BY <1>1, FailsType DEF PaperTypes, WorkerTypes
<1>2. CASE /\ device' = Append(device, Task("write", handle, j))
           /\ flush' = [flush EXCEPT ![j] = "running"]
           /\ worker' = "writing" /\ inFlight' = TRUE /\ UNCHANGED outcomeVars
  <2>1. device' \in Seq(DeviceTask)
    BY <1>2, ThreadType DEF HandleTypes
  <2>2. QED BY <1>2, <2>1 DEF outcomeVars, PaperTypes, WorkerTypes
<1>3. QED BY <1>1, <1>2 DEF Render

(* Every variable keeps its type: PrinterDevice never leaves TypeOK.       *)
THEOREM TypeCorrect == Spec => []TypeOK
<1>1. Init => TypeOK
  <2>1. Init => HandleTypes
    <3>1. Init => spooler \in BOOLEAN /\ late \in BOOLEAN /\ retired \in BOOLEAN
      BY DEF Init
    <3>2. Init => /\ handle = NoHandle /\ built = NoHandle /\ lateHandles = {} /\ abandoned = {}
                  /\ lock = "free" /\ build = "none" /\ disc = "no"
      BY DEF Init
    <3>4. Init => opened \in [Handles -> {"unopened", "open", "closed"}]
      BY DEF Init
    <3>3. QED BY <3>1, <3>2, <3>4 DEF HandleTypes
  <2>2. Init => WorkerTypes
    BY DEF Init, WorkerTypes
  <2>3. Init => PaperTypes
    BY DEF Init, PaperTypes, Answer
  <2>4. QED BY <2>1, <2>2, <2>3 DEF TypeOK
<1>2. TypeOK /\ [Next]_vars => TypeOK'
  <2> SUFFICES ASSUME TypeOK, [Next]_vars PROVE TypeOK'
    OBVIOUS
  <2> USE DEF workerVars, outcomeVars, connectVars, discVars
  <2>t. HandleTypes /\ WorkerTypes /\ PaperTypes
    BY DEF TypeOK
  <2>1. ASSUME NEW j \in Jobs, Enqueue(j) PROVE TypeOK'
    <3>1. HandleTypes'
      BY <2>1, <2>t DEF Enqueue, HandleTypes
    <3>2. WorkerTypes'
      BY <2>1, <2>t DEF Enqueue, WorkerTypes
    <3>3. PaperTypes'
      <4>1. CASE handle = NoHandle
        <5>1. "failed" \in Row /\ "failed" \in Answer
          BY DEF Row, Answer
        <5>2. rows' \in [Jobs -> Seq(Row)]
          BY <2>1, <2>t, <4>1, <5>1, LogType DEF Enqueue
        <5>3. QED BY <2>1, <2>t, <4>1, <5>1, <5>2 DEF Enqueue, PaperTypes
      <4>2. CASE handle # NoHandle
        <5>1. Append(queue, j) \in Seq(Jobs) /\ "waiting" \in Answer
          BY <2>t, AppendType DEF PaperTypes, Answer
        <5>2. QED BY <2>1, <2>t, <4>2, <5>1 DEF Enqueue, PaperTypes
      <4>3. QED BY <4>1, <4>2
    <3>4. QED BY <3>1, <3>2, <3>3 DEF TypeOK
  <2>2. ASSUME NEW j \in Jobs, ClientLeaves(j) PROVE TypeOK'
    <3>1. HandleTypes'
      BY <2>2, <2>t DEF ClientLeaves, HandleTypes
    <3>2. WorkerTypes'
      BY <2>2, <2>t DEF ClientLeaves, WorkerTypes
    <3>3. PaperTypes'
      BY <2>2, <2>t DEF ClientLeaves, PaperTypes, Answer
    <3>4. QED BY <3>1, <3>2, <3>3 DEF TypeOK
  <2>3. CASE ConnectBegin
    <3>1. HandleTypes'
      BY <2>3, <2>t DEF ConnectBegin, HandleTypes
    <3>2. WorkerTypes'
      BY <2>3, <2>t DEF ConnectBegin, WorkerTypes
    <3>3. PaperTypes'
      BY <2>3, <2>t, ThreadType DEF ConnectBegin, PaperTypes
    <3>4. QED BY <3>1, <3>2, <3>3 DEF TypeOK
  <2>4. CASE ConnectReturns
    <3>1. HandleTypes'
      BY <2>4, <2>t DEF ConnectReturns, HandleTypes
    <3>2. WorkerTypes'
      BY <2>4, <2>t DEF ConnectReturns, WorkerTypes
    <3>3. PaperTypes'
      BY <2>4, <2>t DEF ConnectReturns, PaperTypes
    <3>4. QED BY <3>1, <3>2, <3>3 DEF TypeOK
  <2>5. CASE ConnectTimesOut
    <3>1. HandleTypes'
      BY <2>5, <2>t DEF ConnectTimesOut, HandleTypes
    <3>2. WorkerTypes'
      BY <2>5, <2>t DEF ConnectTimesOut, WorkerTypes
    <3>3. PaperTypes'
      BY <2>5, <2>t DEF ConnectTimesOut, PaperTypes
    <3>4. QED BY <3>1, <3>2, <3>3 DEF TypeOK
  <2>6. CASE ConnectAbandoned
    <3>1. HandleTypes'
      BY <2>6, <2>t DEF ConnectAbandoned, HandleTypes
    <3>2. WorkerTypes'
      BY <2>6, <2>t DEF ConnectAbandoned, WorkerTypes
    <3>3. PaperTypes'
      BY <2>6, <2>t DEF ConnectAbandoned, PaperTypes
    <3>4. QED BY <3>1, <3>2, <3>3 DEF TypeOK
  <2>7. ASSUME NEW h \in Handles, CloseLate(h) PROVE TypeOK'
    <3>1. HandleTypes'
      BY <2>7, <2>t DEF CloseLate, HandleTypes
    <3>2. WorkerTypes'
      BY <2>7, <2>t DEF CloseLate, WorkerTypes
    <3>3. PaperTypes'
      <4>1. Append(device, Task("close", h, NoJob)) \in Seq(DeviceTask)
        BY <2>t, ThreadType
      <4>2. QED BY <2>7, <2>t, <4>1 DEF CloseLate, PaperTypes
    <3>4. QED BY <3>1, <3>2, <3>3 DEF TypeOK
  <2>8. ASSUME NEW h \in Handles, BuildSucceeds(h) PROVE TypeOK'
    <3>1. HandleTypes'
      BY <2>8, <2>t DEF BuildSucceeds, HandleTypes
    <3>2. WorkerTypes'
      BY <2>8, <2>t DEF BuildSucceeds, WorkerTypes
    <3>3. PaperTypes'
      BY <2>8, <2>t, ThreadType DEF BuildSucceeds, PaperTypes
    <3>4. QED BY <3>1, <3>2, <3>3 DEF TypeOK
  <2>9. CASE BuildFails
    <3>1. HandleTypes'
      BY <2>9, <2>t DEF BuildFails, HandleTypes
    <3>2. WorkerTypes'
      BY <2>9, <2>t DEF BuildFails, WorkerTypes
    <3>3. PaperTypes'
      BY <2>9, <2>t, ThreadType DEF BuildFails, PaperTypes
    <3>4. QED BY <3>1, <3>2, <3>3 DEF TypeOK
  <2>10. CASE StatusAnswered
    <3>1. HandleTypes'
      BY <2>10, <2>t DEF StatusAnswered, HandleTypes
    <3>2. WorkerTypes'
      BY <2>10, <2>t DEF StatusAnswered, WorkerTypes
    <3>3. PaperTypes'
      BY <2>10, <2>t, ThreadType DEF StatusAnswered, PaperTypes
    <3>4. QED BY <3>1, <3>2, <3>3 DEF TypeOK
  <2>11. ASSUME NEW outcome \in {"ok", "oserr", "error"}, WriteEnds(outcome) PROVE TypeOK'
    <3>1. HandleTypes'
      BY <2>11, <2>t DEF WriteEnds, HandleTypes
    <3>2. WorkerTypes'
      BY <2>11, <2>t DEF WriteEnds, WorkerTypes
    <3>3. PaperTypes'
      BY <2>11, <2>t, ThreadType DEF WriteEnds, PaperTypes
    <3>4. QED BY <3>1, <3>2, <3>3 DEF TypeOK
  <2>12. CASE HandleCloses
    <3>1. HandleTypes'
      BY <2>12, <2>t DEF HandleCloses, HandleTypes
    <3>2. WorkerTypes'
      BY <2>12, <2>t DEF HandleCloses, WorkerTypes
    <3>3. PaperTypes'
      BY <2>12, <2>t, ThreadType DEF HandleCloses, PaperTypes
    <3>4. QED BY <3>1, <3>2, <3>3 DEF TypeOK
  <2>13. ASSUME NEW j \in Jobs, Take(j) PROVE TypeOK'
    <3>1. HandleTypes'
      BY <2>13, <2>t DEF Take, HandleTypes
    <3>2. WorkerTypes'
      BY <2>13, <2>t, FailsType, RenderType DEF Take, WorkerTypes
    <3>3. PaperTypes'
      BY <2>13, <2>t, HeadTail, ThreadType, FailsType, RenderType DEF Take, PaperTypes, HandleTypes
    <3>4. QED BY <3>1, <3>2, <3>3 DEF TypeOK
  <2>14. CASE StatusReturns
    <3>1. HandleTypes'
      BY <2>14, <2>t DEF StatusReturns, HandleTypes
    <3>2. WorkerTypes'
      <4>1. CASE status = "refuses"
        BY <2>14, <2>t, <4>1, FailsType DEF StatusReturns, WorkerTypes
      <4>2. CASE status # "refuses"
        BY <2>14, <2>t, <4>2, RenderType DEF StatusReturns, WorkerTypes
      <4>3. QED BY <4>1, <4>2
    <3>3. PaperTypes'
      <4>1. CASE status = "refuses"
        BY <2>14, <2>t, <4>1, FailsType DEF StatusReturns, PaperTypes
      <4>2. CASE status # "refuses"
        <5>1. current \in Jobs \union {NoJob} /\ Render(current)
          BY <2>14, <2>t, <4>2 DEF StatusReturns, WorkerTypes
        <5>2. QED BY <2>14, <2>t, <5>1, RenderType DEF StatusReturns, PaperTypes
      <4>3. QED BY <4>1, <4>2
    <3>4. QED BY <3>1, <3>2, <3>3 DEF TypeOK
  <2>15. CASE WriteReturns
    <3>1. HandleTypes'
      BY <2>15, <2>t DEF WriteReturns, HandleTypes
    <3>2. WorkerTypes'
      BY <2>15, <2>t DEF WriteReturns, WorkerTypes
    <3>3. PaperTypes'
      BY <2>15, <2>t, LogType, TellType, OutcomeTypes DEF WriteReturns, PaperTypes
    <3>4. QED BY <3>1, <3>2, <3>3 DEF TypeOK
  <2>16. CASE ConnectionLost
    <3>1. HandleTypes'
      BY <2>16, <2>t DEF ConnectionLost, HandleTypes
    <3>2. WorkerTypes'
      BY <2>16, <2>t DEF ConnectionLost, WorkerTypes
    <3>3. PaperTypes'
      BY <2>16, <2>t, ThreadType, EndWithQueueType DEF ConnectionLost, PaperTypes, HandleTypes, Row, Answer
    <3>4. QED BY <3>1, <3>2, <3>3 DEF TypeOK
  <2>17. CASE WorkerCancelled
    <3>1. HandleTypes'
      BY <2>17, <2>t DEF WorkerCancelled, HandleTypes
    <3>2. WorkerTypes'
      BY <2>17, <2>t DEF WorkerCancelled, WorkerTypes
    <3>3. PaperTypes'
      BY <2>17, <2>t, LogType, TellType DEF WorkerCancelled, PaperTypes, CancelVerdict, Row, Answer
    <3>4. QED BY <3>1, <3>2, <3>3 DEF TypeOK
  <2>18. CASE WriteCallbacks
    <3>1. HandleTypes'
      BY <2>18, <2>t DEF WriteCallbacks, HandleTypes
    <3>2. WorkerTypes'
      BY <2>18, <2>t DEF WriteCallbacks, WorkerTypes
    <3>3. PaperTypes'
      BY <2>18, <2>t, LogType, TellType, OutcomeTypes DEF WriteCallbacks, PaperTypes
    <3>4. QED BY <3>1, <3>2, <3>3 DEF TypeOK
  <2>19. CASE DisconnectBegin
    <3>1. HandleTypes'
      BY <2>19, <2>t DEF DisconnectBegin, HandleTypes
    <3>2. WorkerTypes'
      BY <2>19, <2>t DEF DisconnectBegin, WorkerTypes
    <3>3. PaperTypes'
      BY <2>19, <2>t DEF DisconnectBegin, PaperTypes
    <3>4. QED BY <3>1, <3>2, <3>3 DEF TypeOK
  <2>20. CASE CancelWorker
    <3>1. HandleTypes'
      BY <2>20, <2>t DEF CancelWorker, HandleTypes
    <3>2. WorkerTypes'
      BY <2>20, <2>t DEF CancelWorker, WorkerTypes
    <3>3. PaperTypes'
      BY <2>20, <2>t DEF CancelWorker, PaperTypes
    <3>4. QED BY <3>1, <3>2, <3>3 DEF TypeOK
  <2>21. CASE DrainAndClose
    <3>1. HandleTypes'
      BY <2>21, <2>t DEF DrainAndClose, HandleTypes
    <3>2. WorkerTypes'
      BY <2>21, <2>t DEF DrainAndClose, WorkerTypes
    <3>3. PaperTypes'
      <4>1. Append(device, Task("close", handle, NoJob)) \in Seq(DeviceTask)
        BY <2>t, ThreadType DEF HandleTypes
      <4>2. /\ rows' \in [Jobs -> Seq(Row)] /\ answer' \in [Jobs -> Answer]
            /\ queue' \in Seq(Jobs)
        BY <2>21, <2>t, EndWithQueueType, NoneAssumption DEF DrainAndClose
      <4>3. QED BY <2>21, <2>t, <4>1, <4>2 DEF DrainAndClose, PaperTypes
    <3>4. QED BY <3>1, <3>2, <3>3 DEF TypeOK
  <2>22. CASE DisconnectReturns
    <3>1. HandleTypes'
      BY <2>22, <2>t DEF DisconnectReturns, HandleTypes
    <3>2. WorkerTypes'
      BY <2>22, <2>t DEF DisconnectReturns, WorkerTypes
    <3>3. PaperTypes'
      BY <2>22, <2>t DEF DisconnectReturns, PaperTypes
    <3>4. QED BY <3>1, <3>2, <3>3 DEF TypeOK
  <2>23. CASE UNCHANGED vars
    <3>1. HandleTypes'
      BY <2>23, <2>t DEF vars, HandleTypes
    <3>2. WorkerTypes'
      BY <2>23, <2>t DEF vars, WorkerTypes
    <3>3. PaperTypes'
      BY <2>23, <2>t DEF vars, PaperTypes
    <3>4. QED BY <3>1, <3>2, <3>3 DEF TypeOK
  <2>24. QED
    BY <2>1, <2>2, <2>3, <2>4, <2>5, <2>6, <2>7, <2>8, <2>9, <2>10, <2>11, <2>12, <2>13, <2>14, <2>15, <2>16, <2>17, <2>18, <2>19, <2>20, <2>21, <2>22, <2>23
    DEF Next, Handlers, Connection, DeviceThread, Worker, Disconnection,
        WriteEndsSomehow, TakeNext
<1>3. QED
  BY <1>1, <1>2, PTL DEF Spec

-----------------------------------------------------------------------------

Held(j) == j = current /\ worker \in {"status", "writing"}
Left(j) == j = current /\ callbacks # {}

(* Nothing was written or recorded about the job.                          *)
Blank(j) == rows[j] = << >> /\ flush[j] = "none" /\ paper[j] = "none"

(* The write of the job was started, the paper shows how far it came.      *)
Started(j) ==
  /\ rows[j] = << >>
  /\ \/ flush[j] = "running" /\ paper[j] = "none"
     \/ flush[j] = "ok" /\ paper[j] = "full"
     \/ flush[j] \in {"oserr", "error"} /\ paper[j] # "full"

(* Its handler waits, or has left.                                         *)
Awaited(j) == answer[j] \in {"waiting", "gone"}

(* The job has its row and its answer.                                     *)
Over(j) ==
  \/ /\ rows[j] = << "ok" >> /\ flush[j] = "ok" /\ paper[j] = "full"
     /\ answer[j] \in {"printed", "cancelled", "gone"}
  \/ /\ rows[j] = << "failed" >> /\ flush[j] \in {"none", "oserr", "error"}
     /\ paper[j] # "full"
     /\ answer[j] \in {"failed", "cancelled", "gone"}
  \/ /\ rows[j] = << "cancelled" >> /\ flush[j] = "none" /\ paper[j] = "none"
     /\ answer[j] \in {"cancelled", "gone"}

Life(j) ==
  /\ j \in Queued => Blank(j) /\ Awaited(j) /\ ~Held(j) /\ ~Left(j)
  /\ Held(j) => /\ Awaited(j)
                /\ worker = "status" => Blank(j)
                /\ worker = "writing" => Started(j)
  /\ Left(j) => /\ Started(j) /\ "row" \in callbacks
                /\ IF "settle" \in callbacks THEN Awaited(j)
                   ELSE answer[j] \in {"cancelled", "gone"}
  /\ j \notin Queued /\ ~Held(j) /\ ~Left(j) =>
       Over(j) \/ (Blank(j) /\ answer[j] = "none")

LifeInv == \A j \in Jobs : Life(j)

QueueInv == \A a, b \in DOMAIN queue : queue[a] = queue[b] => a = b

(* Who holds a job holds one; callbacks are left by a worker that is gone. *)
HolderInv ==
  /\ worker \in {"status", "writing"} => current \in Jobs /\ inFlight
  /\ callbacks # {} => /\ current \in Jobs /\ worker = "absent"
                       /\ flush[current] = "running" => inFlight /\ "flag" \in callbacks

(* How far disconnect() has come, and what it excludes.                    *)
DiscInv ==
  /\ disc = "no" <=> ~retired
  /\ lock = "connect" => disc \in {"no", "requested"}
  /\ disc \in {"cancelling", "closing"} => lock = "disconnect"
  /\ callbacks # {} => disc \in {"cancelling", "closing", "done"}
  /\ cancelled => disc = "cancelling" /\ worker # "absent"
  /\ worker # "absent" => disc \in {"no", "requested", "cancelling"}
  /\ disc \in {"closing", "done"} => handle = NoHandle /\ queue = << >>

(* At most one write is in the device thread, of a job whose write runs.   *)
OneWrite(tasks) ==
  \A i, k \in DOMAIN tasks : tasks[i].op = "write" /\ tasks[k].op = "write" => i = k
Writing(tasks) == { tasks[i].job : i \in { k \in DOMAIN tasks : tasks[k].op = "write" } }
WriteInv == /\ OneWrite(device)
            /\ \A j \in Writing(device) : j \in Jobs /\ flush[j] = "running"

-----------------------------------------------------------------------------
(* The queue and the device thread as sequences.                           *)
LEMMA QueueAppend ==
  ASSUME queue \in Seq(Jobs), QueueInv, NEW j \in Jobs, j \notin Queued,
         queue' = Append(queue, j)
  PROVE  QueueInv' /\ \A k : k \in Queued' <=> k \in Queued \/ k = j
<1>1. /\ DOMAIN queue' = 1 .. Len(queue) + 1 /\ DOMAIN queue = 1 .. Len(queue)
      /\ Len(queue) \in Nat
      /\ \A a \in 1 .. Len(queue) : queue'[a] = queue[a]
      /\ queue'[Len(queue) + 1] = j
  OBVIOUS
<1>2. \A a \in 1 .. Len(queue) : queue[a] # j BY <1>1 DEF Queued
<1>3. QueueInv' BY <1>1, <1>2 DEF QueueInv
<1>4. \A k : k \in Queued' <=> k \in Queued \/ k = j BY <1>1 DEF Queued
<1>5. QED BY <1>3, <1>4

(* Taking the first job leaves the others, each once.                      *)
LEMMA QueueTail ==
  ASSUME queue \in Seq(Jobs), QueueInv, queue # << >>, queue' = Tail(queue)
  PROVE  /\ QueueInv' /\ Head(queue) \in Queued /\ Head(queue) \in Jobs
         /\ \A k : k \in Queued' <=> k \in Queued /\ k # Head(queue)
<1>1. /\ DOMAIN queue' = 1 .. Len(queue) - 1 /\ DOMAIN queue = 1 .. Len(queue)
      /\ Len(queue) \in Nat /\ Len(queue) >= 1
      /\ \A a \in 1 .. Len(queue) - 1 : queue'[a] = queue[a + 1]
      /\ Head(queue) = queue[1]
  OBVIOUS
<1>2. QueueInv' BY <1>1 DEF QueueInv
<1>3. Head(queue) \in Queued /\ Head(queue) \in Jobs BY <1>1 DEF Queued
<1>4. ASSUME NEW k PROVE k \in Queued' <=> k \in Queued /\ k # Head(queue)
  <2>1. ASSUME k \in Queued' PROVE k \in Queued /\ k # Head(queue)
    <3>1. PICK a \in 1 .. Len(queue) - 1 : k = queue[a + 1] BY <1>1, <2>1 DEF Queued
    <3>2. a + 1 \in DOMAIN queue /\ a + 1 # 1 /\ 1 \in DOMAIN queue BY <1>1, <3>1
    <3>3. QED BY <1>1, <3>1, <3>2 DEF Queued, QueueInv
  <2>2. ASSUME k \in Queued, k # Head(queue) PROVE k \in Queued'
    <3>1. PICK a \in 1 .. Len(queue) : k = queue[a] BY <1>1, <2>2 DEF Queued
    <3>2. a - 1 \in 1 .. Len(queue) - 1 /\ a = (a - 1) + 1 BY <1>1, <2>2, <3>1
    <3>3. k = queue'[a - 1] BY <1>1, <3>1, <3>2
    <3>4. QED BY <1>1, <3>2, <3>3 DEF Queued
  <2>3. QED BY <2>1, <2>2
<1>5. QED BY <1>2, <1>3, <1>4

(* A task put behind the others: a write is then one of that job.          *)
LEMMA WriteAppend ==
  ASSUME NEW tasks \in Seq(DeviceTask), NEW t \in DeviceTask, OneWrite(tasks)
  PROVE  /\ t.op # "write" => /\ OneWrite(Append(tasks, t))
                              /\ Writing(Append(tasks, t)) = Writing(tasks)
         /\ t.op = "write" /\ Writing(tasks) = {} =>
              OneWrite(Append(tasks, t)) /\ Writing(Append(tasks, t)) = {t.job}
<1> DEFINE longer == Append(tasks, t)
<1>1. /\ DOMAIN longer = 1 .. Len(tasks) + 1 /\ DOMAIN tasks = 1 .. Len(tasks)
      /\ Len(tasks) \in Nat
      /\ \A a \in 1 .. Len(tasks) : longer[a] = tasks[a]
      /\ longer[Len(tasks) + 1] = t
  OBVIOUS
<1> HIDE DEF longer
<1>2. ASSUME t.op # "write" PROVE OneWrite(longer) /\ Writing(longer) = Writing(tasks)
  <2>1. \A a \in DOMAIN longer : longer[a].op = "write" =>
          a \in DOMAIN tasks /\ longer[a] = tasks[a]
    BY <1>1, <1>2
  <2>2. \A a \in DOMAIN tasks : a \in DOMAIN longer /\ longer[a] = tasks[a] BY <1>1
  <2>3. OneWrite(longer) BY <2>1 DEF OneWrite
  <2>4. Writing(longer) = Writing(tasks) BY <2>1, <2>2 DEF Writing
  <2>5. QED BY <2>3, <2>4
<1>3. ASSUME t.op = "write", Writing(tasks) = {}
      PROVE  OneWrite(longer) /\ Writing(longer) = {t.job}
  <2>1. \A a \in DOMAIN tasks : tasks[a].op # "write" BY <1>3 DEF Writing
  <2>2. \A a \in DOMAIN longer : longer[a].op = "write" <=> a = Len(tasks) + 1
    BY <1>1, <1>3, <2>1
  <2>3. OneWrite(longer) BY <2>2 DEF OneWrite
  <2>4. Writing(longer) = {t.job}
    BY <1>1, <2>2 DEF Writing
  <2>5. QED BY <2>3, <2>4
<1>4. QED BY <1>2, <1>3 DEF longer

(* Ending the running task, a write or not.                                *)
LEMMA WriteTail ==
  ASSUME NEW tasks \in Seq(DeviceTask), tasks # << >>, OneWrite(tasks)
  PROVE  /\ OneWrite(Tail(tasks)) /\ Writing(Tail(tasks)) \subseteq Writing(tasks)
         /\ Head(tasks).op = "write" =>
              Head(tasks).job \in Writing(tasks) /\ Writing(Tail(tasks)) = {}
<1> DEFINE rest == Tail(tasks)
<1>1. /\ DOMAIN rest = 1 .. Len(tasks) - 1 /\ DOMAIN tasks = 1 .. Len(tasks)
      /\ Len(tasks) \in Nat /\ Len(tasks) >= 1
      /\ \A a \in 1 .. Len(tasks) - 1 : rest[a] = tasks[a + 1]
      /\ Head(tasks) = tasks[1]
  OBVIOUS
<1> HIDE DEF rest
<1>2. \A a \in DOMAIN rest : a + 1 \in DOMAIN tasks /\ a + 1 # 1 /\ rest[a] = tasks[a + 1]
  BY <1>1
<1>3. OneWrite(rest)
  <2>1. ASSUME NEW a \in DOMAIN rest, NEW b \in DOMAIN rest,
               rest[a].op = "write", rest[b].op = "write"
        PROVE  a = b
    <3>1. a + 1 = b + 1 BY <1>2, <2>1 DEF OneWrite
    <3>2. QED BY <1>1, <3>1
  <2>2. QED BY <2>1 DEF OneWrite
<1>4. Writing(rest) \subseteq Writing(tasks) BY <1>2 DEF Writing
<1>5. ASSUME Head(tasks).op = "write"
      PROVE  Head(tasks).job \in Writing(tasks) /\ Writing(rest) = {}
  <2>1. 1 \in DOMAIN tasks /\ tasks[1].op = "write" BY <1>1, <1>5
  <2>2. \A a \in DOMAIN rest : rest[a].op # "write" BY <1>2, <2>1 DEF OneWrite
  <2>3. Writing(rest) = {} BY <2>2 DEF Writing
  <2>4. Head(tasks).job \in Writing(tasks) BY <1>1, <2>1 DEF Writing
  <2>5. QED BY <2>3, <2>4
<1>6. QED BY <1>3, <1>4, <1>5 DEF rest

-----------------------------------------------------------------------------
(* disconnect() keeps its order with connect(), the worker and the queue.  *)
LEMMA DiscStep ==
  ASSUME TypeOK, DiscInv, [Next]_vars
  PROVE  DiscInv'
<1> USE DEF workerVars, outcomeVars, connectVars, discVars, DiscInv
<1>t. worker \in {"absent", "waiting", "status", "writing"} /\ cancelled \in BOOLEAN
  BY DEF TypeOK, WorkerTypes
<1>1. ASSUME NEW j \in Jobs, Enqueue(j) PROVE DiscInv'
  BY <1>1, <1>t DEF Enqueue
<1>2. ASSUME NEW j \in Jobs, ClientLeaves(j) PROVE DiscInv'
  BY <1>2, <1>t DEF ClientLeaves
<1>3. CASE ConnectBegin
  BY <1>3, <1>t DEF ConnectBegin
<1>4. CASE ConnectReturns
  BY <1>4, <1>t DEF ConnectReturns
<1>5. CASE ConnectTimesOut
  BY <1>5, <1>t DEF ConnectTimesOut
<1>6. CASE ConnectAbandoned
  BY <1>6, <1>t DEF ConnectAbandoned
<1>7. ASSUME NEW h \in Handles, CloseLate(h) PROVE DiscInv'
  BY <1>7, <1>t DEF CloseLate
<1>8. ASSUME NEW h \in Handles, BuildSucceeds(h) PROVE DiscInv'
  BY <1>8, <1>t DEF BuildSucceeds
<1>9. CASE BuildFails
  BY <1>9, <1>t DEF BuildFails
<1>10. CASE StatusAnswered
  BY <1>10, <1>t DEF StatusAnswered
<1>11. ASSUME NEW outcome \in {"ok", "oserr", "error"}, WriteEnds(outcome) PROVE DiscInv'
  BY <1>11, <1>t DEF WriteEnds
<1>12. CASE HandleCloses
  BY <1>12, <1>t DEF HandleCloses
<1>13. ASSUME NEW j \in Jobs, Take(j) PROVE DiscInv'
  BY <1>13, <1>t DEF Take, Fails, Render
<1>14. CASE StatusReturns
  BY <1>14, <1>t DEF StatusReturns, Fails, Render
<1>15. CASE WriteReturns
  BY <1>15, <1>t DEF WriteReturns
<1>16. CASE ConnectionLost
  BY <1>16, <1>t DEF ConnectionLost, EndWithQueue
<1>17. CASE WorkerCancelled
  BY <1>17, <1>t DEF WorkerCancelled
<1>18. CASE WriteCallbacks
  BY <1>18, <1>t DEF WriteCallbacks
<1>19. CASE DisconnectBegin
  BY <1>19, <1>t DEF DisconnectBegin
<1>20. CASE CancelWorker
  BY <1>20, <1>t DEF CancelWorker
<1>21. CASE DrainAndClose
  BY <1>21, <1>t DEF DrainAndClose, EndWithQueue
<1>22. CASE DisconnectReturns
  BY <1>22, <1>t DEF DisconnectReturns
<1>23. CASE UNCHANGED vars BY <1>23 DEF vars
<1>24. QED
  BY <1>1, <1>2, <1>3, <1>4, <1>5, <1>6, <1>7, <1>8, <1>9, <1>10, <1>11,
     <1>12, <1>13, <1>14, <1>15, <1>16, <1>17, <1>18, <1>19, <1>20, <1>21, <1>22, <1>23
  DEF Next, Handlers, Connection, DeviceThread, Worker, Disconnection,
      WriteEndsSomehow, TakeNext

-----------------------------------------------------------------------------
(* No write runs while the worker waits for a job or for a status.         *)
LEMMA NothingRuns ==
  ASSUME LifeInv, HolderInv, WriteInv, worker \in {"waiting", "status"}
  PROVE  Writing(device) = {}
<1>1. SUFFICES ASSUME NEW j \in Writing(device) PROVE FALSE OBVIOUS
<1>2. j \in Jobs /\ flush[j] = "running" BY <1>1 DEF WriteInv
<1>3. Life(j) BY <1>2 DEF LifeInv
<1>4. ~Left(j) BY DEF HolderInv, Left
<1>5. j \in Queued => flush[j] = "none" BY <1>3 DEF Life, Blank
<1>6. Held(j) => flush[j] = "none" BY <1>3 DEF Life, Held, Blank
<1>7. j \notin Queued /\ ~Held(j) /\ ~Left(j) => flush[j] # "running"
  BY <1>3 DEF Life, Over, Blank
<1>8. QED BY <1>2, <1>4, <1>5, <1>6, <1>7

(* Putting a task that is no write behind the others, or ending one.       *)
LEMMA WriteKept ==
  ASSUME TypeOK, WriteInv, flush' = flush,
         \/ device' = device
         \/ \E t \in DeviceTask : t.op # "write" /\ device' = Append(device, t)
         \/ device # << >> /\ device' = Tail(device)
  PROVE  WriteInv'
<1>1. device \in Seq(DeviceTask) /\ OneWrite(device) BY DEF TypeOK, PaperTypes, WriteInv
<1>2. OneWrite(device') /\ Writing(device') \subseteq Writing(device)
  <2>1. CASE device' = device BY <1>1, <2>1
  <2>2. ASSUME NEW t \in DeviceTask, t.op # "write", device' = Append(device, t)
        PROVE  OneWrite(device') /\ Writing(device') \subseteq Writing(device)
    <3>1. OneWrite(Append(device, t)) /\ Writing(Append(device, t)) = Writing(device)
      BY <1>1, <2>2, WriteAppend
    <3>2. QED BY <2>2, <3>1
  <2>3. CASE device # << >> /\ device' = Tail(device)
    <3>1. OneWrite(Tail(device)) /\ Writing(Tail(device)) \subseteq Writing(device)
      BY <1>1, <2>3, WriteTail
    <3>2. QED BY <2>3, <3>1
  <2>4. QED BY <2>1, <2>2, <2>3
<1>3. QED BY <1>2 DEF WriteInv

(* Rendering a job while nothing runs.                                     *)
LEMMA WriteRendered ==
  ASSUME TypeOK, WriteInv, NEW j \in Jobs, Render(j), Writing(device) = {}
  PROVE  WriteInv'
<1>1. device \in Seq(DeviceTask) /\ OneWrite(device) BY DEF TypeOK, PaperTypes, WriteInv
<1>2. CASE UNCHANGED << device, flush >> BY <1>1, <1>2, WriteKept
<1>3. CASE /\ device' = Append(device, Task("write", handle, j))
           /\ flush' = [flush EXCEPT ![j] = "running"]
  <2>1. /\ Task("write", handle, j) \in DeviceTask
        /\ Task("write", handle, j).op = "write" /\ Task("write", handle, j).job = j
    BY TaskType DEF TypeOK, HandleTypes, Task
  <2>2. OneWrite(device') /\ Writing(device') = {j} BY <1>1, <1>3, <2>1, WriteAppend
  <2>3. flush'[j] = "running" BY <1>3 DEF TypeOK, WorkerTypes
  <2>4. QED BY <2>2, <2>3 DEF WriteInv
<1>4. QED BY <1>2, <1>3 DEF Render

(* At most one write, of a job whose write runs, in every step.            *)
LEMMA WriteStep ==
  ASSUME TypeOK, LifeInv, HolderInv, WriteInv, [Next]_vars
  PROVE  WriteInv'
<1> USE DEF workerVars, outcomeVars, connectVars, discVars
<1>t. /\ device \in Seq(DeviceTask) /\ OneWrite(device)
      /\ handle \in Handles \union {NoHandle}
  BY DEF TypeOK, PaperTypes, HandleTypes, WriteInv
<1>n. \A op \in {"build", "status", "close"}, h \in Handles \union {NoHandle},
         j \in Jobs \union {NoJob} : Task(op, h, j) \in DeviceTask /\ Task(op, h, j).op # "write"
  BY TaskType DEF Task
<1>1. ASSUME NEW j \in Jobs, Enqueue(j) \/ ClientLeaves(j) PROVE WriteInv'
  BY <1>1, WriteKept DEF Enqueue, ClientLeaves
<1>2. CASE ConnectReturns \/ ConnectTimesOut \/ ConnectAbandoned
  BY <1>2, WriteKept DEF ConnectReturns, ConnectTimesOut, ConnectAbandoned
<1>3. CASE WriteReturns \/ WorkerCancelled \/ WriteCallbacks
  BY <1>3, WriteKept DEF WriteReturns, WorkerCancelled, WriteCallbacks
<1>4. CASE DisconnectBegin \/ CancelWorker \/ DisconnectReturns \/ UNCHANGED vars
  BY <1>4, WriteKept DEF DisconnectBegin, CancelWorker, DisconnectReturns, vars
<1>5. CASE ConnectBegin
  <2>1. flush' = flush /\ device' = Append(device, Task("build", NoHandle, NoJob))
    BY <1>5 DEF ConnectBegin
  <2>2. QED BY <2>1, <1>n, WriteKept
<1>6. ASSUME NEW h \in Handles, CloseLate(h) PROVE WriteInv'
  <2>1. flush' = flush /\ (device' = device \/ device' = Append(device, Task("close", h, NoJob)))
    BY <1>6 DEF CloseLate
  <2>2. QED BY <2>1, <1>n, WriteKept
<1>7. CASE ConnectionLost \/ DrainAndClose
  <2>1. flush' = flush /\ (device' = device \/ device' = Append(device, Task("close", handle, NoJob)))
    BY <1>7 DEF ConnectionLost, DrainAndClose
  <2>2. QED BY <2>1, <1>n, <1>t, WriteKept
<1>8. ASSUME NEW h \in Handles, BuildSucceeds(h) PROVE WriteInv'
  BY <1>8, WriteKept DEF BuildSucceeds, Running
<1>9. CASE BuildFails \/ StatusAnswered \/ HandleCloses
  BY <1>9, WriteKept DEF BuildFails, StatusAnswered, HandleCloses, Running
<1>10. ASSUME NEW outcome, WriteEnds(outcome) PROVE WriteInv'
  <2>1. device # << >> /\ Head(device).op = "write" /\ device' = Tail(device)
    BY <1>10 DEF WriteEnds, Running
  <2>2. OneWrite(device') /\ Writing(device') = {} BY <2>1, <1>t, WriteTail
  <2>3. QED BY <2>2 DEF WriteInv
<1>11. ASSUME NEW j \in Jobs, Take(j) PROVE WriteInv'
  <2>1. Writing(device) = {} BY <1>11, NothingRuns DEF Take
  <2>2. CASE Render(j) BY <2>1, <2>2, WriteRendered
  <2>3. CASE flush' = flush /\ (device' = device \/ device' = Append(device, Task("status", handle, j)))
    BY <2>3, <1>n, <1>t, WriteKept
  <2>4. QED BY <1>11, <2>2, <2>3 DEF Take
<1>12. CASE StatusReturns
  <2>1. Writing(device) = {} BY <1>12, NothingRuns DEF StatusReturns
  <2>2. current \in Jobs BY <1>12 DEF StatusReturns, HolderInv
  <2>3. CASE Render(current) BY <2>1, <2>2, <2>3, WriteRendered
  <2>4. CASE UNCHANGED << device, flush >> BY <2>4, WriteKept
  <2>5. QED BY <1>12, <2>3, <2>4 DEF StatusReturns
<1>13. QED
  BY <1>1, <1>2, <1>3, <1>4, <1>5, <1>6, <1>7, <1>8, <1>9, <1>10, <1>11, <1>12
  DEF Next, Handlers, Connection, DeviceThread, Worker, Disconnection,
      WriteEndsSomehow, TakeNext

-----------------------------------------------------------------------------
(* Who holds a job.                                                        *)
LEMMA HolderStep ==
  ASSUME TypeOK, HolderInv, DiscInv, [Next]_vars
  PROVE  HolderInv'
<1> USE DEF workerVars, outcomeVars, connectVars, discVars, HolderInv
<1>t. /\ worker \in {"absent", "waiting", "status", "writing"}
      /\ flush \in [Jobs -> {"none", "running", "ok", "oserr", "error"}]
  BY DEF TypeOK, WorkerTypes
<1>1. ASSUME NEW j \in Jobs, Enqueue(j) \/ ClientLeaves(j) PROVE HolderInv'
  BY <1>1 DEF Enqueue, ClientLeaves
<1>2. CASE ConnectBegin \/ ConnectTimesOut \/ ConnectAbandoned
  BY <1>2 DEF ConnectBegin, ConnectTimesOut, ConnectAbandoned
<1>3. CASE ConnectReturns
  <2>1. callbacks = {} BY <1>3 DEF ConnectReturns, DiscInv
  <2>2. QED BY <1>3, <2>1 DEF ConnectReturns
<1>4. ASSUME NEW h \in Handles, CloseLate(h) \/ BuildSucceeds(h) PROVE HolderInv'
  BY <1>4 DEF CloseLate, BuildSucceeds
<1>5. CASE BuildFails \/ StatusAnswered \/ HandleCloses
  BY <1>5 DEF BuildFails, StatusAnswered, HandleCloses
<1>6. ASSUME NEW outcome \in {"ok", "oserr", "error"}, WriteEnds(outcome) PROVE HolderInv'
  <2>1. \A k \in Jobs : flush'[k] = "running" => flush[k] = "running"
    BY <1>6, <1>t DEF WriteEnds
  <2>2. QED BY <1>6, <2>1 DEF WriteEnds
<1>7. ASSUME NEW j \in Jobs, Take(j) PROVE HolderInv'
  BY <1>7, <1>t DEF Take, Fails, Render
<1>8. CASE StatusReturns
  BY <1>8, <1>t DEF StatusReturns, Fails, Render
<1>9. CASE WriteReturns \/ ConnectionLost
  BY <1>9 DEF WriteReturns, ConnectionLost
<1>10. CASE WorkerCancelled
  <2>1. worker' = "absent" /\ current' = current /\ flush' = flush
    BY <1>10 DEF WorkerCancelled
  <2>2. ASSUME callbacks' # {}, flush[current] = "running"
        PROVE  inFlight' /\ "flag" \in callbacks'
    BY <1>10, <2>2 DEF WorkerCancelled
  <2>3. callbacks' # {} => worker = "writing" BY <1>10 DEF WorkerCancelled
  <2>4. QED BY <2>1, <2>2, <2>3
<1>11. CASE WriteCallbacks
  BY <1>11 DEF WriteCallbacks
<1>12. CASE DisconnectBegin \/ CancelWorker \/ DrainAndClose \/ DisconnectReturns
  BY <1>12 DEF DisconnectBegin, CancelWorker, DrainAndClose, DisconnectReturns
<1>13. CASE UNCHANGED vars BY <1>13 DEF vars
<1>14. QED
  BY <1>1, <1>2, <1>3, <1>4, <1>5, <1>6, <1>7, <1>8, <1>9, <1>10, <1>11, <1>12, <1>13
  DEF Next, Handlers, Connection, DeviceThread, Worker, Disconnection,
      WriteEndsSomehow, TakeNext

(* No job is in the queue twice.                                           *)
LEMMA QueueStep ==
  ASSUME TypeOK, QueueInv, LifeInv, [Next]_vars
  PROVE  QueueInv'
<1> USE DEF workerVars, outcomeVars, connectVars, discVars
<1>t. queue \in Seq(Jobs) BY DEF TypeOK, PaperTypes
<1>1. CASE queue' = queue BY <1>1 DEF QueueInv
<1>2. CASE queue' = << >> BY <1>2 DEF QueueInv
<1>3. ASSUME NEW j \in Jobs, Enqueue(j) PROVE QueueInv'
  <2>1. j \notin Queued BY <1>3 DEF Enqueue, LifeInv, Life, Awaited
  <2>2. queue' = queue \/ queue' = Append(queue, j) BY <1>3 DEF Enqueue
  <2>3. QED BY <1>t, <1>1, <2>1, <2>2, QueueAppend
<1>4. ASSUME NEW j \in Jobs, Take(j) PROVE QueueInv'
  BY <1>t, <1>4, QueueTail DEF Take
<1>5. CASE \E j \in Jobs : ClientLeaves(j)
  BY <1>1, <1>5 DEF ClientLeaves
<1>6. CASE Connection
  BY <1>1, <1>6 DEF Connection, ConnectBegin, ConnectReturns, ConnectTimesOut,
     ConnectAbandoned, CloseLate
<1>7. CASE DeviceThread
  BY <1>1, <1>7 DEF DeviceThread, BuildSucceeds, BuildFails, StatusAnswered,
     WriteEndsSomehow, WriteEnds, HandleCloses
<1>8. CASE StatusReturns \/ WriteReturns \/ WorkerCancelled \/ WriteCallbacks
  BY <1>1, <1>8 DEF StatusReturns, WriteReturns, WorkerCancelled, WriteCallbacks
<1>9. CASE ConnectionLost \/ DrainAndClose
  BY <1>2, <1>9 DEF ConnectionLost, DrainAndClose, EndWithQueue
<1>10. CASE DisconnectBegin \/ CancelWorker \/ DisconnectReturns
  BY <1>1, <1>10 DEF DisconnectBegin, CancelWorker, DisconnectReturns
<1>11. CASE UNCHANGED vars BY <1>1, <1>11 DEF vars
<1>12. QED
  BY <1>3, <1>4, <1>5, <1>6, <1>7, <1>8, <1>9, <1>10, <1>11
  DEF Next, Handlers, Worker, Disconnection, TakeNext

-----------------------------------------------------------------------------
(* A job nothing happens to goes on living as it did.                      *)
LEMMA LifeFrame ==
  ASSUME NEW k, Life(k),
         rows'[k] = rows[k], answer'[k] = answer[k],
         flush'[k] = flush[k], paper'[k] = paper[k],
         k \in Queued' <=> k \in Queued,
         Held(k)' <=> Held(k), Held(k) => worker' = worker,
         Left(k)' <=> Left(k), Left(k) => callbacks' = callbacks
  PROVE  Life(k)'
<1>1. (Blank(k)' <=> Blank(k)) /\ (Awaited(k)' <=> Awaited(k)) BY DEF Blank, Awaited
<1>2. (Started(k)' <=> Started(k)) /\ (Over(k)' <=> Over(k)) BY DEF Started, Over
<1>3. QED BY <1>1, <1>2 DEF Life

LifeVars == << queue, worker, callbacks, current, flush, paper, rows, answer >>

(* What touches neither jobs nor worker leaves every life as it is.        *)
LEMMA LifeIdle ==
  ASSUME LifeInv, UNCHANGED LifeVars
  PROVE  LifeInv'
<1>1. SUFFICES ASSUME NEW k \in Jobs PROVE Life(k)' BY DEF LifeInv
<1>2. Life(k) BY DEF LifeInv
<1>3. QED BY <1>2, LifeFrame DEF LifeVars, Held, Left, Queued

(* A job whose end is near, and where it is when it is over.               *)
LEMMA LifeOver ==
  ASSUME NEW k, Over(k)', k \notin Queued', ~Held(k)', ~Left(k)'
  PROVE  Life(k)'
  BY DEF Life

(* The first row of a job is its only one.                                 *)
LEMMA FirstRow == \A row : Append(<< >>, row) = << row >>
  OBVIOUS

(* Recording and telling touch one job only.                               *)
LEMMA LogTell ==
  ASSUME PaperTypes, NEW j \in Jobs, NEW row, NEW verdict, Log(j, row), Tell(j, verdict)
  PROVE  /\ rows[j] = << >> => rows'[j] = << row >>
         /\ answer'[j] = IF answer[j] = "waiting" THEN verdict ELSE answer[j]
         /\ \A k \in Jobs : k # j => rows'[k] = rows[k] /\ answer'[k] = answer[k]
  BY FirstRow DEF PaperTypes, Log, Tell, Told

(* A job that fails before it was written is over.                         *)
LEMMA FailsOver ==
  ASSUME TypeOK, NEW j \in Jobs, Blank(j), Awaited(j), Fails(j),
         flush' = flush, paper' = paper
  PROVE  /\ Over(j)' /\ worker' = "waiting"
         /\ \A k \in Jobs : k # j => rows'[k] = rows[k] /\ answer'[k] = answer[k]
<1>1. /\ rows'[j] = << "failed" >> /\ answer'[j] \in {"failed", "gone"}
      /\ \A k \in Jobs : k # j => rows'[k] = rows[k] /\ answer'[k] = answer[k]
  BY LogTell DEF Fails, Blank, Awaited, TypeOK
<1>2. QED BY <1>1 DEF Fails, Over, Blank

(* A job that is rendered is over or has its write started.                *)
LEMMA RenderStarts ==
  ASSUME TypeOK, NEW j \in Jobs, Blank(j), Awaited(j), Render(j), paper' = paper
  PROVE  /\ \/ Over(j)' /\ worker' = "waiting"
            \/ Started(j)' /\ Awaited(j)' /\ worker' = "writing"
         /\ \A k \in Jobs : k # j => /\ rows'[k] = rows[k] /\ answer'[k] = answer[k]
                                    /\ flush'[k] = flush[k]
<1>1. CASE /\ flush' = [flush EXCEPT ![j] = "running"] /\ worker' = "writing"
           /\ UNCHANGED outcomeVars
  BY <1>1 DEF TypeOK, WorkerTypes, Blank, Awaited, Started, outcomeVars
<1>2. CASE Fails(j) /\ flush' = flush BY <1>2, FailsOver
<1>3. QED BY <1>1, <1>2 DEF Render

(* What a write that ended is recorded and answered as.                    *)
LEMMA WriteOver ==
  ASSUME TypeOK, NEW j \in Jobs, Started(j), flush[j] # "running",
         rows'[j] = << RowOf(flush[j]) >>, flush' = flush, paper' = paper,
         answer'[j] \in {AnswerOf(flush[j]), "cancelled", "gone"}
  PROVE  Over(j)'
  BY DEF Started, RowOf, AnswerOf, Over

(* Ending the queue ends every job in it, job j besides, and no other.     *)
LEMMA QueueEnds ==
  ASSUME TypeOK, LifeInv, NEW j, NEW row, NEW verdict, EndWithQueue(j, row, verdict),
         j \notin Queued, flush' = flush, paper' = paper
  PROVE  /\ Queued' = {}
         /\ \A k \in Queued \cap Jobs : Over(k)'
         /\ \A k \in Jobs : k \notin Queued /\ k # j =>
              rows'[k] = rows[k] /\ answer'[k] = answer[k]
         /\ j \in Jobs /\ rows[j] = << >> => rows'[j] = << row >>
         /\ j \in Jobs => answer'[j] = IF answer[j] = "waiting" THEN verdict ELSE answer[j]
<1>1. Queued' = {} BY DEF EndWithQueue, Queued
<1>2. ASSUME NEW k \in Queued \cap Jobs PROVE Over(k)'
  <2>1. Blank(k) /\ Awaited(k) BY <1>2 DEF LifeInv, Life
  <2>2. rows'[k] = Append(rows[k], "cancelled") BY <1>2 DEF EndWithQueue
  <2>3. answer'[k] = Told(k, "cancelled") BY <1>2 DEF EndWithQueue
  <2>4. rows'[k] = << "cancelled" >> BY <2>1, <2>2, FirstRow DEF Blank
  <2>5. QED BY <2>1, <2>3, <2>4 DEF Told, Blank, Awaited, Over
<1>3. \A k \in Jobs : k \notin Queued /\ k # j =>
        rows'[k] = rows[k] /\ answer'[k] = answer[k]
  BY DEF EndWithQueue
<1>4. j \in Jobs /\ rows[j] = << >> => rows'[j] = << row >>
  BY FirstRow DEF EndWithQueue
<1>5. j \in Jobs => answer'[j] = IF answer[j] = "waiting" THEN verdict ELSE answer[j]
  BY DEF EndWithQueue, Told
<1>6. QED BY <1>1, <1>2, <1>3, <1>4, <1>5

-----------------------------------------------------------------------------
(* One lemma per action that moves a job along.                            *)
LEMMA EnqueueLife ==
  ASSUME TypeOK, LifeInv, QueueInv, NEW j \in Jobs, Enqueue(j)
  PROVE  LifeInv'
<1> USE DEF workerVars
<1>t. /\ queue \in Seq(Jobs) /\ rows \in [Jobs -> Seq(Row)] /\ answer \in [Jobs -> Answer]
  BY DEF TypeOK, PaperTypes
<1>1. Blank(j) /\ j \notin Queued /\ ~Held(j) /\ ~Left(j)
  BY DEF Enqueue, LifeInv, Life, Awaited, Over
<1>2. /\ worker' = worker /\ callbacks' = callbacks /\ current' = current
      /\ flush' = flush /\ paper' = paper
      /\ \A k \in Jobs : k # j => rows'[k] = rows[k] /\ answer'[k] = answer[k]
  BY <1>t DEF Enqueue, Log
<1>3. CASE handle = NoHandle
  <2>1. queue' = queue /\ answer'[j] = "failed" /\ rows'[j] = << "failed" >>
    BY <1>3, <1>t, <1>1, FirstRow DEF Enqueue, Log, Blank
  <2>2. Over(j)' BY <2>1, <1>1, <1>2 DEF Over, Blank
  <2>3. Life(j)' BY <2>1, <2>2, <1>1, <1>2, LifeOver DEF Queued, Held, Left
  <2>4. \A k \in Jobs : k # j => Life(k)'
    BY <2>1, <1>2, LifeFrame DEF LifeInv, Queued, Held, Left
  <2>5. QED BY <2>3, <2>4 DEF LifeInv
<1>4. CASE handle # NoHandle
  <2>1. queue' = Append(queue, j) /\ answer'[j] = "waiting" /\ rows' = rows
    BY <1>4, <1>t DEF Enqueue
  <2>2. \A k : k \in Queued' <=> k \in Queued \/ k = j
    BY <1>t, <1>1, <2>1, QueueAppend
  <2>3. Life(j)' BY <2>1, <2>2, <1>1, <1>2 DEF Life, Blank, Awaited, Held, Left
  <2>4. \A k \in Jobs : k # j => Life(k)'
    BY <2>1, <2>2, <1>2, LifeFrame DEF LifeInv, Held, Left
  <2>5. QED BY <2>3, <2>4 DEF LifeInv
<1>5. QED BY <1>3, <1>4

(* A handler that leaves takes its answer with it, not its job.            *)
LEMMA ClientLeavesLife ==
  ASSUME TypeOK, LifeInv, NEW j \in Jobs, ClientLeaves(j)
  PROVE  LifeInv'
<1>1. /\ queue' = queue /\ worker' = worker /\ callbacks' = callbacks /\ current' = current
      /\ flush' = flush /\ paper' = paper /\ rows' = rows
      /\ answer[j] = "waiting" /\ answer'[j] = "gone"
      /\ \A k \in Jobs : k # j => answer'[k] = answer[k]
  BY DEF ClientLeaves, workerVars, TypeOK, PaperTypes
<1>2. \A k \in Jobs : k # j => Life(k)'
  BY <1>1, LifeFrame DEF LifeInv, Queued, Held, Left
<1>3. Life(j)'
  <2>1. Life(j) BY DEF LifeInv
  <2>2. /\ Blank(j)' <=> Blank(j)
        /\ Started(j)' <=> Started(j)
        /\ Awaited(j)' /\ ~Over(j)
    BY <1>1 DEF Blank, Started, Awaited, Over
  <2>3. /\ j \in Queued' <=> j \in Queued
        /\ Held(j)' <=> Held(j)
        /\ Left(j)' <=> Left(j)
    BY <1>1 DEF Queued, Held, Left
  <2>4. QED BY <2>1, <2>2, <2>3, <1>1 DEF Life
<1>4. QED BY <1>2, <1>3 DEF LifeInv

(* The end of a write moves the paper and the future together.             *)
LEMMA WriteEndsLife ==
  ASSUME TypeOK, LifeInv, WriteInv, NEW outcome \in {"ok", "oserr", "error"},
         WriteEnds(outcome)
  PROVE  LifeInv'
<1>1. PICK j \in Jobs : j = Head(device).job /\ flush[j] = "running"
  <2>1. device \in Seq(DeviceTask) /\ device # << >> /\ Head(device).op = "write"
    BY DEF WriteEnds, Running, TypeOK, PaperTypes
  <2>2. Head(device).job \in Writing(device) BY <2>1, WriteTail DEF WriteInv
  <2>3. QED BY <2>2 DEF WriteInv
<1>2. /\ queue' = queue /\ worker' = worker /\ callbacks' = callbacks /\ current' = current
      /\ rows' = rows /\ answer' = answer
  BY DEF WriteEnds, outcomeVars
<1>3. /\ flush' = [flush EXCEPT ![j] = outcome]
      /\ \E out \in IF outcome = "ok" THEN {"full"} ELSE {"none", "part"} :
           paper' = [paper EXCEPT ![j] = out]
  BY <1>1 DEF WriteEnds
<1>t. /\ flush \in [Jobs -> {"none", "running", "ok", "oserr", "error"}]
      /\ paper \in [Jobs -> {"none", "part", "full"}]
  BY DEF TypeOK, WorkerTypes, PaperTypes
<1>4. \A k \in Jobs : k # j => flush'[k] = flush[k] /\ paper'[k] = paper[k]
  BY <1>1, <1>3, <1>t
<1>5. flush'[j] = outcome /\ (outcome = "ok" <=> paper'[j] = "full")
  BY <1>1, <1>3, <1>t
<1>6. \A k \in Jobs : k # j => Life(k)'
  BY <1>2, <1>4, LifeFrame DEF LifeInv, Queued, Held, Left
<1>7. Life(j)'
  <2>1. Life(j) BY <1>1 DEF LifeInv
  <2>2. /\ ~Blank(j) /\ ~Over(j)
        /\ Started(j) => Started(j)'
        /\ Awaited(j)' <=> Awaited(j)
    BY <1>1, <1>2, <1>5 DEF Blank, Started, Awaited, Over
  <2>3. /\ j \in Queued' <=> j \in Queued
        /\ Held(j)' <=> Held(j)
        /\ Left(j)' <=> Left(j)
    BY <1>2 DEF Queued, Held, Left
  <2>4. QED BY <2>1, <2>2, <2>3, <1>2 DEF Life
<1>8. QED BY <1>6, <1>7 DEF LifeInv

(* The job taken leaves the queue for the worker, or is over.              *)
LEMMA TakeLife ==
  ASSUME TypeOK, LifeInv, QueueInv, HolderInv, NEW j \in Jobs, Take(j)
  PROVE  LifeInv'
<1>t. queue \in Seq(Jobs) BY DEF TypeOK, PaperTypes
<1>1. /\ worker = "waiting" /\ callbacks = {} /\ callbacks' = {} /\ current' = j
      /\ paper' = paper /\ queue # << >> /\ j = Head(queue) /\ queue' = Tail(queue)
  BY DEF Take, HolderInv
<1>2. j \in Queued /\ \A k : k \in Queued' <=> k \in Queued /\ k # j
  BY <1>t, <1>1, QueueTail
<1>3. Blank(j) /\ Awaited(j) BY <1>2 DEF LifeInv, Life
<1>4. /\ \/ Over(j)' /\ worker' = "waiting"
         \/ Started(j)' /\ Awaited(j)' /\ worker' = "writing"
         \/ Blank(j)' /\ Awaited(j)' /\ worker' = "status"
      /\ \A k \in Jobs : k # j => /\ rows'[k] = rows[k] /\ answer'[k] = answer[k]
                                /\ flush'[k] = flush[k]
  <2>1. CASE Fails(j) /\ flush' = flush BY <2>1, <1>1, <1>3, FailsOver
  <2>2. CASE Render(j) BY <2>2, <1>1, <1>3, RenderStarts
  <2>3. CASE worker' = "status" /\ flush' = flush /\ rows' = rows /\ answer' = answer
    BY <2>3, <1>1, <1>3 DEF Blank, Awaited
  <2>4. QED BY <2>1, <2>2, <2>3 DEF Take, outcomeVars
<1>5. ASSUME NEW k \in Jobs, k # j PROVE Life(k)'
  <2>1. ~Held(k) /\ ~Held(k)' /\ ~Left(k) /\ ~Left(k)' BY <1>1, <1>5 DEF Held, Left
  <2>2. Life(k) BY DEF LifeInv
  <2>3. paper'[k] = paper[k] BY <1>1
  <2>4. QED BY <2>1, <2>2, <2>3, <1>2, <1>4, <1>5, LifeFrame
<1>6. Life(j)'
  BY <1>1, <1>2, <1>4 DEF Life, Held, Left
<1>7. QED BY <1>5, <1>6 DEF LifeInv

(* After the status the job is over, or its write has started.             *)
LEMMA StatusReturnsLife ==
  ASSUME TypeOK, LifeInv, HolderInv, StatusReturns
  PROVE  LifeInv'
<1>1. /\ worker = "status" /\ current \in Jobs /\ callbacks = {} /\ callbacks' = {}
      /\ current' = current /\ paper' = paper /\ queue' = queue
  BY DEF StatusReturns, HolderInv
<1>2. Held(current) /\ Life(current) BY <1>1 DEF Held, LifeInv
<1>3. Blank(current) /\ Awaited(current) /\ current \notin Queued
  BY <1>1, <1>2 DEF Life
<1>4. /\ \/ Over(current)' /\ worker' = "waiting"
         \/ Started(current)' /\ Awaited(current)' /\ worker' = "writing"
      /\ \A k \in Jobs : k # current => /\ rows'[k] = rows[k] /\ answer'[k] = answer[k]
                                      /\ flush'[k] = flush[k]
  <2>1. CASE Fails(current) /\ flush' = flush BY <2>1, <1>1, <1>3, FailsOver
  <2>2. CASE Render(current) BY <2>2, <1>1, <1>3, RenderStarts
  <2>3. QED BY <2>1, <2>2 DEF StatusReturns
<1>5. ASSUME NEW k \in Jobs, k # current PROVE Life(k)'
  <2>1. ~Held(k) /\ ~Held(k)' /\ ~Left(k) /\ ~Left(k)' BY <1>1, <1>5 DEF Held, Left
  <2>2. Life(k) BY DEF LifeInv
  <2>3. paper'[k] = paper[k] /\ (k \in Queued' <=> k \in Queued) BY <1>1 DEF Queued
  <2>4. QED BY <2>1, <2>2, <2>3, <1>4, <1>5, LifeFrame
<1>6. ASSUME NEW k \in Jobs, k = current PROVE Life(k)'
  BY <1>1, <1>3, <1>4, <1>6 DEF Life, Held, Left, Queued
<1>7. QED BY <1>5, <1>6 DEF LifeInv

(* The worker that sees the write end makes the job over.                  *)
LEMMA WriteReturnsLife ==
  ASSUME TypeOK, LifeInv, HolderInv, WriteReturns
  PROVE  LifeInv'
<1>1. PICK j \in Jobs : j = current BY DEF WriteReturns, HolderInv
<1>2. /\ worker = "writing" /\ callbacks = {} /\ callbacks' = {} /\ worker' = "waiting"
      /\ current' = j /\ flush' = flush /\ paper' = paper /\ queue' = queue
      /\ flush[j] # "running"
      /\ Log(j, RowOf(flush[j])) /\ Tell(j, AnswerOf(flush[j]))
  BY <1>1 DEF WriteReturns, HolderInv
<1>3. Started(j) /\ Awaited(j) /\ j \notin Queued
  BY <1>1, <1>2 DEF LifeInv, Life, Held
<1>4. /\ rows'[j] = << RowOf(flush[j]) >> /\ answer'[j] \in {AnswerOf(flush[j]), "gone"}
      /\ \A k \in Jobs : k # j => rows'[k] = rows[k] /\ answer'[k] = answer[k]
  BY <1>2, <1>3, LogTell DEF Started, Awaited, TypeOK
<1>5. ASSUME NEW k \in Jobs, k # j PROVE Life(k)'
  <2>1. ~Held(k) /\ ~Held(k)' /\ ~Left(k) /\ ~Left(k)' BY <1>1, <1>2, <1>5 DEF Held, Left
  <2>2. Life(k) BY DEF LifeInv
  <2>3. k \in Queued' <=> k \in Queued BY <1>2 DEF Queued
  <2>4. QED BY <2>1, <2>2, <2>3, <1>2, <1>4, <1>5, LifeFrame
<1>6. Over(j)' BY <1>2, <1>3, <1>4, WriteOver
<1>7. Life(j)' BY <1>2, <1>3, <1>6, LifeOver DEF Held, Left, Queued
<1>8. QED BY <1>5, <1>7 DEF LifeInv

(* A lost connection ends the job and everybody in the queue.              *)
LEMMA ConnectionLostLife ==
  ASSUME TypeOK, LifeInv, HolderInv, ConnectionLost
  PROVE  LifeInv'
<1>1. PICK j \in Jobs : j = current BY DEF ConnectionLost, HolderInv
<1>2. /\ worker = "writing" /\ callbacks = {} /\ callbacks' = {} /\ worker' = "absent"
      /\ current' = j /\ flush' = flush /\ paper' = paper
      /\ flush[j] = "oserr" /\ EndWithQueue(j, "failed", "failed")
  BY <1>1 DEF ConnectionLost, HolderInv
<1>3. Started(j) /\ Awaited(j) /\ j \notin Queued
  BY <1>1, <1>2 DEF LifeInv, Life, Held
<1>4. /\ Queued' = {}
      /\ \A k \in Queued \cap Jobs : Over(k)'
      /\ \A k \in Jobs : k \notin Queued /\ k # j =>
           rows'[k] = rows[k] /\ answer'[k] = answer[k]
      /\ rows'[j] = << "failed" >> /\ answer'[j] \in {"failed", "gone"}
  BY <1>2, <1>3, QueueEnds DEF Started, Awaited
<1>5. Over(j)' BY <1>2, <1>3, <1>4 DEF Started, Over
<1>6. ASSUME NEW k \in Jobs PROVE Life(k)'
  <2>1. ~Held(k)' /\ ~Left(k)' /\ k \notin Queued' BY <1>2, <1>4 DEF Held, Left
  <2>2. CASE k = j \/ k \in Queued BY <2>1, <2>2, <1>4, <1>5, LifeOver
  <2>3. CASE k # j /\ k \notin Queued
    <3>1. ~Held(k) /\ ~Left(k) /\ Life(k) BY <1>1, <1>2, <2>3 DEF Held, Left, LifeInv
    <3>2. QED BY <2>1, <2>3, <3>1, <1>2, <1>4, LifeFrame
  <2>4. QED BY <2>2, <2>3
<1>7. QED BY <1>6 DEF LifeInv

(* disconnect() ends everybody in the queue.                               *)
LEMMA DrainAndCloseLife ==
  ASSUME TypeOK, LifeInv, DrainAndClose
  PROVE  LifeInv'
<1>1. /\ worker' = worker /\ callbacks' = callbacks /\ current' = current
      /\ flush' = flush /\ paper' = paper /\ EndWithQueue(NoJob, "none", "none")
  BY DEF DrainAndClose, workerVars
<1>2. NoJob \notin Queued
  BY NoneAssumption DEF TypeOK, PaperTypes, Queued
<1>3. /\ Queued' = {}
      /\ \A k \in Queued \cap Jobs : Over(k)'
      /\ \A k \in Jobs : k \notin Queued =>
           rows'[k] = rows[k] /\ answer'[k] = answer[k]
  BY <1>1, <1>2, QueueEnds, NoneAssumption
<1>4. ASSUME NEW k \in Jobs PROVE Life(k)'
  <2>1. Life(k) BY DEF LifeInv
  <2>2. (Held(k)' <=> Held(k)) /\ (Left(k)' <=> Left(k)) BY <1>1 DEF Held, Left
  <2>3. CASE k \in Queued
    <3>1. ~Held(k) /\ ~Left(k) BY <2>1, <2>3 DEF Life
    <3>2. QED BY <2>2, <2>3, <3>1, <1>3, LifeOver
  <2>4. CASE k \notin Queued BY <2>1, <2>2, <2>4, <1>1, <1>3, LifeFrame
  <2>5. QED BY <2>3, <2>4
<1>5. QED BY <1>4 DEF LifeInv

(* A new worker finds no job in anybody's hands.                           *)
LEMMA ConnectReturnsLife ==
  ASSUME TypeOK, LifeInv, HolderInv, DiscInv, ConnectReturns
  PROVE  LifeInv'
<1>1. /\ queue' = queue /\ callbacks' = callbacks /\ current' = current
      /\ flush' = flush /\ paper' = paper /\ rows' = rows /\ answer' = answer
      /\ worker' = worker \/ (worker = "absent" /\ worker' = "waiting")
  BY DEF ConnectReturns, outcomeVars
<1>2. ASSUME NEW k \in Jobs PROVE Life(k)'
  <2>1. /\ Life(k) /\ (Held(k)' <=> Held(k)) /\ (Left(k)' <=> Left(k))
        /\ Held(k) => worker' = worker
    BY <1>1 DEF LifeInv, Held, Left
  <2>2. QED BY <2>1, <1>1, LifeFrame DEF Queued
<1>3. QED BY <1>2 DEF LifeInv

(* The callbacks make the job they were left over.                         *)
LEMMA WriteCallbacksLife ==
  ASSUME TypeOK, LifeInv, HolderInv, WriteCallbacks
  PROVE  LifeInv'
<1>1. PICK j \in Jobs : j = current BY DEF WriteCallbacks, HolderInv
<1>2. /\ worker = "absent" /\ callbacks # {} /\ callbacks' = {} /\ worker' = worker
      /\ current' = j /\ flush' = flush /\ paper' = paper /\ queue' = queue
      /\ flush[j] # "running"
  BY <1>1 DEF WriteCallbacks, HolderInv
<1>3. /\ Left(j) /\ Started(j) /\ "row" \in callbacks /\ j \notin Queued
      /\ IF "settle" \in callbacks THEN Awaited(j) ELSE answer[j] \in {"cancelled", "gone"}
  BY <1>1, <1>2 DEF LifeInv, Life, Left
<1>t. rows \in [Jobs -> Seq(Row)] /\ answer \in [Jobs -> Answer]
  BY DEF TypeOK, PaperTypes
<1>4. /\ rows'[j] = << RowOf(flush[j]) >>
      /\ \A k \in Jobs : k # j => rows'[k] = rows[k]
  BY <1>1, <1>3, <1>t, FirstRow DEF WriteCallbacks, Log, Started
<1>5. /\ answer'[j] \in {AnswerOf(flush[j]), "cancelled", "gone"}
      /\ \A k \in Jobs : k # j => answer'[k] = answer[k]
  BY <1>1, <1>3, <1>t DEF WriteCallbacks, Tell, Told, Awaited
<1>6. Over(j)' BY <1>2, <1>3, <1>4, <1>5, WriteOver
<1>7. Life(j)' BY <1>2, <1>3, <1>6, LifeOver DEF Held, Left, Queued
<1>8. ASSUME NEW k \in Jobs, k # j PROVE Life(k)'
  <2>1. ~Held(k) /\ ~Held(k)' /\ ~Left(k) /\ ~Left(k)' BY <1>1, <1>2, <1>8 DEF Held, Left
  <2>2. Life(k) BY DEF LifeInv
  <2>3. k \in Queued' <=> k \in Queued BY <1>2 DEF Queued
  <2>4. QED BY <2>1, <2>2, <2>3, <1>2, <1>4, <1>5, <1>8, LifeFrame
<1>9. QED BY <1>7, <1>8 DEF LifeInv

(* The cancelled worker ends its job, or leaves it to callbacks.           *)
LEMMA WorkerCancelledLife ==
  ASSUME TypeOK, LifeInv, HolderInv, WorkerCancelled
  PROVE  LifeInv'
<1>t. /\ worker \in {"waiting", "status", "writing"}
      /\ rows \in [Jobs -> Seq(Row)] /\ answer \in [Jobs -> Answer]
  BY DEF TypeOK, WorkerTypes, PaperTypes, WorkerCancelled
<1>1. /\ callbacks = {} /\ worker' = "absent" /\ queue' = queue /\ current' = current
      /\ flush' = flush /\ paper' = paper
  BY DEF WorkerCancelled, HolderInv
<1>q. \A k : k \in Queued' <=> k \in Queued BY <1>1 DEF Queued
<1>2. CASE worker = "waiting"
  <2>1. callbacks' = {} /\ rows' = rows /\ answer' = answer
    BY <1>2 DEF WorkerCancelled
  <2>2. ASSUME NEW k \in Jobs PROVE Life(k)'
    <3>1. ~Held(k) /\ ~Held(k)' /\ ~Left(k) /\ ~Left(k)' /\ Life(k)
      BY <1>1, <1>2, <2>1 DEF Held, Left, LifeInv
    <3>2. QED BY <3>1, <2>1, <1>1, <1>q, LifeFrame
  <2>3. QED BY <2>2 DEF LifeInv
<1>3. CASE worker \in {"status", "writing"}
  <2>1. PICK j \in Jobs : j = current BY <1>3 DEF HolderInv
  <2>2. Held(j) /\ Awaited(j) /\ j \notin Queued
    BY <1>3, <2>1 DEF Held, LifeInv, Life
  <2>3. \A k \in Jobs : k # j => rows'[k] = rows[k] /\ answer'[k] = answer[k]
    BY <1>t, <2>1 DEF WorkerCancelled, Log, Tell
  <2>4. ASSUME NEW k \in Jobs, k # j PROVE Life(k)'
    <3>1. ~Held(k) /\ ~Held(k)' /\ ~Left(k) /\ ~Left(k)' /\ Life(k)
      BY <1>1, <2>1, <2>4 DEF Held, Left, LifeInv
    <3>2. QED BY <3>1, <2>3, <2>4, <1>1, <1>q, LifeFrame
  <2>5. CASE worker = "status"
    <3>1. Blank(j) BY <2>1, <2>2, <2>5 DEF LifeInv, Life
    <3>2. callbacks' = {} /\ Log(j, "cancelled") /\ Tell(j, "cancelled")
      BY <2>1, <2>5 DEF WorkerCancelled, CancelVerdict
    <3>3. rows'[j] = << "cancelled" >> /\ answer'[j] \in {"cancelled", "gone"}
      BY <3>1, <3>2, <2>2, LogTell DEF Blank, Awaited, TypeOK
    <3>4. Over(j)' BY <3>1, <3>3, <1>1 DEF Over, Blank
    <3>5. Life(j)' BY <3>2, <3>4, <2>2, <1>1, <1>q, LifeOver DEF Held, Left
    <3>6. QED BY <2>4, <3>5 DEF LifeInv
  <2>6. CASE worker = "writing"
    <3>1. Started(j) BY <2>1, <2>2, <2>6 DEF LifeInv, Life
    <3>2. rows' = rows /\ "row" \in callbacks' BY <2>6 DEF WorkerCancelled
    <3>3. IF "settle" \in callbacks' THEN Awaited(j)' ELSE answer'[j] \in {"cancelled", "gone"}
      <4>1. CASE flush[j] = "running"
        <5>1. answer' = answer BY <4>1, <2>1, <2>6 DEF WorkerCancelled
        <5>2. "settle" \in callbacks' <=> answer[j] = "waiting"
          BY <4>1, <2>1, <2>6 DEF WorkerCancelled
        <5>3. QED BY <5>1, <5>2, <2>2 DEF Awaited
      <4>2. CASE flush[j] # "running"
        <5>1. "settle" \notin callbacks' /\ Tell(j, "cancelled")
          BY <4>2, <2>1, <2>6 DEF WorkerCancelled, CancelVerdict
        <5>2. QED BY <5>1, <2>2, <1>t DEF Tell, Told, Awaited
      <4>3. QED BY <4>1, <4>2
    <3>4. Started(j)' BY <3>1, <3>2, <1>1 DEF Started
    <3>5. Left(j)' /\ ~Held(j)' BY <3>2, <2>1, <1>1 DEF Left, Held
    <3>6. Life(j)' BY <3>2, <3>3, <3>4, <3>5, <2>2, <1>q DEF Life
    <3>7. QED BY <2>4, <3>6 DEF LifeInv
  <2>7. QED BY <1>3, <2>5, <2>6
<1>4. QED BY <1>t, <1>2, <1>3

-----------------------------------------------------------------------------
(* The invariant is inductive.                                             *)
IInv == LifeInv /\ QueueInv /\ HolderInv /\ DiscInv /\ WriteInv

(* No job has been submitted at the start.                                 *)
LEMMA IInvInit == Init => IInv
<1>1. SUFFICES ASSUME Init PROVE IInv OBVIOUS
<1>2. Queued = {} /\ QueueInv BY <1>1 DEF Init, Queued, QueueInv
<1>3. LifeInv
  BY <1>1, <1>2 DEF Init, LifeInv, Life, Held, Left, Blank
<1>4. HolderInv /\ DiscInv BY <1>1 DEF Init, HolderInv, DiscInv
<1>5. WriteInv BY <1>1 DEF Init, WriteInv, OneWrite, Writing
<1>6. QED BY <1>2, <1>3, <1>4, <1>5 DEF IInv

(* Every step of the device leaves every job in a legal life.              *)
LEMMA LifeStep ==
  ASSUME TypeOK, IInv, [Next]_vars
  PROVE  LifeInv'
<1> USE DEF LifeVars, workerVars, outcomeVars, connectVars, discVars
<1>i. LifeInv /\ QueueInv /\ HolderInv /\ DiscInv /\ WriteInv BY DEF IInv
<1>1. CASE Handlers BY <1>1, <1>i, EnqueueLife, ClientLeavesLife DEF Handlers
<1>2. CASE ConnectBegin \/ ConnectTimesOut \/ ConnectAbandoned
  BY <1>2, <1>i, LifeIdle DEF ConnectBegin, ConnectTimesOut, ConnectAbandoned
<1>3. ASSUME NEW h \in Handles, CloseLate(h) \/ BuildSucceeds(h) PROVE LifeInv'
  BY <1>3, <1>i, LifeIdle DEF CloseLate, BuildSucceeds
<1>4. CASE BuildFails \/ StatusAnswered \/ HandleCloses
  BY <1>4, <1>i, LifeIdle DEF BuildFails, StatusAnswered, HandleCloses
<1>5. CASE DisconnectBegin \/ CancelWorker \/ DisconnectReturns
  BY <1>5, <1>i, LifeIdle DEF DisconnectBegin, CancelWorker, DisconnectReturns
<1>6. CASE UNCHANGED vars BY <1>6, <1>i, LifeIdle DEF vars
<1>7. CASE ConnectReturns BY <1>7, <1>i, ConnectReturnsLife
<1>8. CASE WriteEndsSomehow BY <1>8, <1>i, WriteEndsLife DEF WriteEndsSomehow
<1>9. CASE TakeNext BY <1>9, <1>i, TakeLife DEF TakeNext
<1>10. CASE StatusReturns \/ WriteReturns \/ ConnectionLost
  BY <1>10, <1>i, StatusReturnsLife, WriteReturnsLife, ConnectionLostLife
<1>11. CASE WorkerCancelled \/ WriteCallbacks \/ DrainAndClose
  BY <1>11, <1>i, WorkerCancelledLife, WriteCallbacksLife, DrainAndCloseLife
<1>12. QED
  BY <1>1, <1>2, <1>3, <1>4, <1>5, <1>6, <1>7, <1>8, <1>9, <1>10, <1>11
  DEF Next, Connection, DeviceThread, Worker, Disconnection

(* Every step keeps the whole invariant.                                   *)
LEMMA IInvStep ==
  ASSUME TypeOK, IInv, [Next]_vars
  PROVE  IInv'
<1>i. LifeInv /\ QueueInv /\ HolderInv /\ DiscInv /\ WriteInv BY DEF IInv
<1>1. LifeInv' BY LifeStep
<1>2. QueueInv' BY <1>i, QueueStep
<1>3. HolderInv' BY <1>i, HolderStep
<1>4. DiscInv' BY <1>i, DiscStep
<1>5. WriteInv' BY <1>i, WriteStep
<1>6. QED BY <1>1, <1>2, <1>3, <1>4, <1>5 DEF IInv

(* The life of a job: at any moment it is fresh, in the queue, with the     *)
(* worker, left to the callbacks of a cancelled worker, or over, and the   *)
(* device, its lock and its thread agree with that.                        *)
THEOREM Inductive == Spec => [](TypeOK /\ IInv)
<1>1. TypeOK /\ IInv /\ [Next]_vars => IInv' BY IInvStep
<1>2. QED BY <1>1, IInvInit, TypeCorrect, PTL DEF Spec

-----------------------------------------------------------------------------
(* A job that is not over has no row; one that is has the row of its paper. *)
LEMMA LifeTells ==
  ASSUME TypeOK, IInv, NEW j \in Jobs
  PROVE  \/ Over(j)
         \/ rows[j] = << >> /\ answer[j] \in {"none", "waiting", "gone", "cancelled"}
<1>1. Life(j) BY DEF IInv, LifeInv
<1>3. Held(j) => rows[j] = << >> /\ Awaited(j)
  BY <1>1 DEF Life, Held, Blank, Started
<1>4. Left(j) => rows[j] = << >> /\ answer[j] \in {"waiting", "gone", "cancelled"}
  BY <1>1 DEF Life, Started, Awaited
<1>5. QED BY <1>1, <1>3, <1>4 DEF Life, Blank, Awaited

(* The journal tells what the paper shows (PET-1087).                      *)
THEOREM JournalAgreesWithPaper == Spec => []JournalTellsThePaper
<1>1. TypeOK /\ IInv => JournalTellsThePaper
  <2>1. SUFFICES ASSUME TypeOK, IInv, NEW j \in Jobs, rows[j] # << >>
                 PROVE  /\ Len(rows[j]) = 1
                        /\ rows[j][1] = "ok" <=> paper[j] = "full"
                        /\ rows[j][1] = "cancelled" => flush[j] = "none"
                        /\ flush[j] # "running"
    BY DEF JournalTellsThePaper
  <2>2. Over(j) BY <2>1, LifeTells
  <2>3. QED BY <2>2 DEF Over
<1>2. QED BY <1>1, Inductive, PTL

(* What a cashier is told agrees with the paper, so that a retry never     *)
(* makes a second receipt.                                                 *)
THEOREM AnswerAgreesWithPaper == Spec => []AnswerTellsThePaper
<1>1. TypeOK /\ IInv => AnswerTellsThePaper
  <2>1. SUFFICES ASSUME TypeOK, IInv, NEW j \in Jobs
                 PROVE  /\ answer[j] = "printed" => paper[j] = "full"
                        /\ answer[j] = "failed"  => paper[j] # "full" /\ flush[j] # "running"
    BY DEF AnswerTellsThePaper
  <2>2. CASE Over(j) BY <2>2 DEF Over
  <2>3. QED BY <2>1, <2>2, LifeTells
<1>2. QED BY <1>1, Inductive, PTL

(* A retired device stays closed (third review round of BH-168).           *)
THEOREM RetiredIsClosed == Spec => []RetiredStaysClosed
<1>1. TypeOK /\ IInv => RetiredStaysClosed
  BY DEF IInv, DiscInv, RetiredStaysClosed, TypeOK, WorkerTypes
<1>2. QED BY <1>1, Inductive, PTL

(* The device is busy while bytes are on their way to it (BH-164, BH-168). *)
THEOREM BusyWhileItWrites == Spec => []BusyWhileWriting
<1>1. TypeOK /\ IInv => BusyWhileWriting
  <2>1. SUFFICES ASSUME TypeOK, IInv, NEW i \in DOMAIN device, device[i].op = "write"
                 PROVE  PendingJobs > 0
    BY DEF BusyWhileWriting
  <2>2. PICK j \in Jobs : flush[j] = "running"
    BY <2>1 DEF IInv, WriteInv, Writing
  <2>3. Life(j) /\ HolderInv BY <2>1 DEF IInv, LifeInv
  <2>4. Held(j) \/ Left(j) BY <2>2, <2>3 DEF Life, Blank, Over
  <2>5. inFlight BY <2>2, <2>3, <2>4 DEF HolderInv, Held, Left
  <2>6. Len(queue) \in Nat BY <2>1 DEF TypeOK, PaperTypes
  <2>7. QED BY <2>5, <2>6 DEF PendingJobs
<1>2. QED BY <1>1, Inductive, PTL
-----------------------------------------------------------------------------
(* The handles.  A handle is with the device, with a connect() about to    *)
(* return it, or with a callback that will close it; and with one of them  *)
(* only, until its closing stands in the thread behind all that needs it.  *)
Used(h) == \E i \in DOMAIN device : device[i].handle = h
Closing(h) == \E i \in DOMAIN device : device[i].op = "close" /\ device[i].handle = h
Arrived == lock = "connect" /\ build = "ok"

HandleInv ==
  /\ worker \in {"status", "writing"} => handle # NoHandle
  /\ lock = "connect" => handle = NoHandle
  /\ late => build = "running" /\ lock # "connect"
  /\ handle # NoHandle => /\ opened[handle] = "open" /\ handle \notin lateHandles
                          /\ ~Closing(handle)
  /\ \A h \in lateHandles : opened[h] = "open" /\ ~Used(h)
  /\ Arrived => opened[built] = "open" /\ built \notin lateHandles /\ ~Used(built)

(* One build at a time, tasks of handles that were opened.                 *)
ThreadInv ==
  /\ \A i, k \in DOMAIN device : device[i].op = "build" /\ device[k].op = "build" => i = k
  /\ \A i \in DOMAIN device :
       IF device[i].op = "build" THEN build = "running" /\ device[i].handle = NoHandle
       ELSE device[i].handle \in Handles /\ opened[device[i].handle] # "unopened"
  /\ NeverClosedUnderWrite

(* A task put behind the others.                                           *)
LEMMA BehindOthers ==
  ASSUME device \in Seq(DeviceTask), NEW t, device' = Append(device, t)
  PROVE  /\ DOMAIN device' = DOMAIN device \union {Len(device) + 1}
         /\ \A i \in DOMAIN device : device'[i] = device[i] /\ i \in Nat /\ i < Len(device) + 1
         /\ device'[Len(device) + 1] = t /\ Len(device) + 1 \in Nat
  OBVIOUS

(* The running task gone.                                                  *)
LEMMA FirstGone ==
  ASSUME device \in Seq(DeviceTask), device # << >>, device' = Tail(device)
  PROVE  /\ \A i \in DOMAIN device' : /\ i \in Nat /\ i + 1 \in DOMAIN device /\ i + 1 # 1
                                      /\ device'[i] = device[i + 1]
         /\ 1 \in DOMAIN device /\ device[1] = Head(device)
         /\ \A i \in DOMAIN device : i # 1 => i - 1 \in DOMAIN device' /\ device[i] = device'[i - 1]
  OBVIOUS

HandleVars == << handle, opened, device, worker, lock, build, built, late, lateHandles >>

(* What touches none of these keeps it.                                    *)
LEMMA HandlesIdle ==
  ASSUME HandleInv, ThreadInv, UNCHANGED HandleVars
  PROVE  HandleInv' /\ ThreadInv'
<1> USE DEF HandleVars
<1>1. HandleInv' BY DEF HandleInv, Used, Closing, Arrived
<1>2. ThreadInv' BY DEF ThreadInv, NeverClosedUnderWrite
<1>3. QED BY <1>1, <1>2

(* A status query or a write of the device's own handle.                   *)
LEMMA HandleAsked ==
  ASSUME TypeOK, HandleInv, ThreadInv, NEW op \in {"status", "write"}, NEW j,
         handle # NoHandle, device' = Append(device, Task(op, handle, j)),
         UNCHANGED << handle, opened, lock, build, built, late, lateHandles >>
  PROVE  HandleInv' /\ ThreadInv'
<1>t. device \in Seq(DeviceTask) /\ handle \in Handles BY DEF TypeOK, PaperTypes, HandleTypes
<1>1. Task(op, handle, j).op = op /\ Task(op, handle, j).handle = handle BY DEF Task
<1>2. \A h : /\ Closing(h)' => Closing(h)
             /\ Used(h)' => Used(h) \/ h = handle
  BY <1>t, <1>1, BehindOthers DEF Closing, Used
<1>3. HandleInv' BY <1>2 DEF HandleInv, Arrived
<1>4. NeverClosedUnderWrite'
  BY <1>t, <1>1, BehindOthers DEF ThreadInv, NeverClosedUnderWrite, HandleInv, Closing
<1>5. ThreadInv' BY <1>t, <1>1, <1>4, BehindOthers DEF ThreadInv, HandleInv
<1>6. QED BY <1>3, <1>5

(* A closing of a handle that its owner gives up.                          *)
LEMMA HandleGivenUp ==
  ASSUME TypeOK, ThreadInv, NEW h \in Handles, opened[h] = "open",
         device' = Append(device, Task("close", h, NoJob)), UNCHANGED << opened, build >>
  PROVE  /\ ThreadInv'
         /\ \A g : g # h => (Used(g)' <=> Used(g)) /\ (Closing(g)' <=> Closing(g))
         /\ Closing(h)'
<1>t. device \in Seq(DeviceTask) BY DEF TypeOK, PaperTypes
<1>1. Task("close", h, NoJob).op = "close" /\ Task("close", h, NoJob).handle = h BY DEF Task
<1>2. \A g : g # h => (Used(g)' <=> Used(g)) /\ (Closing(g)' <=> Closing(g))
  BY <1>t, <1>1, BehindOthers DEF Closing, Used
<1>3. NeverClosedUnderWrite'
  BY <1>t, <1>1, BehindOthers DEF ThreadInv, NeverClosedUnderWrite
<1>4. ThreadInv' BY <1>t, <1>1, <1>3, BehindOthers DEF ThreadInv
<1>5. Closing(h)' BY <1>t, <1>1, BehindOthers DEF Closing
<1>6. QED BY <1>2, <1>4, <1>5

(* The running task ends: what is left keeps its order.                    *)
LEMMA ThreadAdvances ==
  ASSUME TypeOK, ThreadInv, device # << >>, device' = Tail(device)
  PROVE  /\ \A g : (Used(g)' => Used(g)) /\ (Closing(g)' => Closing(g))
         /\ \A i \in DOMAIN device' : device'[i].op = "build" => Head(device).op # "build"
         /\ UNCHANGED << opened, build >> => ThreadInv'
<1>t. device \in Seq(DeviceTask) BY DEF TypeOK, PaperTypes
<1>1. \A g : (Used(g)' => Used(g)) /\ (Closing(g)' => Closing(g))
  BY <1>t, FirstGone DEF Used, Closing
<1>2. \A i \in DOMAIN device' : device'[i].op = "build" => Head(device).op # "build"
  BY <1>t, FirstGone DEF ThreadInv
<1>3. ASSUME UNCHANGED << opened, build >> PROVE ThreadInv'
  <2>1. \A i, k \in DOMAIN device' : device'[i].op = "build" /\ device'[k].op = "build" => i = k
    <3>1. ASSUME NEW i \in DOMAIN device', NEW k \in DOMAIN device',
                 device'[i].op = "build", device'[k].op = "build"
          PROVE  i = k
      <4>1. i + 1 = k + 1 BY <3>1, <1>t, FirstGone DEF ThreadInv
      <4>2. QED BY <4>1, <1>t, FirstGone
    <3>2. QED BY <3>1
  <2>2. NeverClosedUnderWrite'
    <3>1. ASSUME NEW i \in DOMAIN device', device'[i].op \in {"status", "write"}
          PROVE  /\ opened[device'[i].handle] = "open"
                 /\ \A k \in DOMAIN device' :
                      device'[k].op = "close" /\ device'[k].handle = device'[i].handle => k > i
      <4>1. i \in Nat /\ i + 1 \in DOMAIN device /\ device'[i] = device[i + 1]
        BY <1>t, FirstGone
      <4>2. opened[device[i + 1].handle] = "open"
        BY <4>1, <3>1 DEF ThreadInv, NeverClosedUnderWrite
      <4>3. ASSUME NEW k \in DOMAIN device', device'[k].op = "close",
                   device'[k].handle = device'[i].handle
            PROVE  k > i
        <5>1. k \in Nat /\ k + 1 \in DOMAIN device /\ device'[k] = device[k + 1]
          BY <1>t, FirstGone
        <5>2. k + 1 > i + 1 BY <5>1, <4>1, <4>3, <3>1 DEF ThreadInv, NeverClosedUnderWrite
        <5>3. QED BY <5>1, <5>2, <4>1
      <4>4. QED BY <4>1, <4>2, <4>3
    <3>2. QED BY <3>1, <1>3 DEF NeverClosedUnderWrite
  <2>3. \A i \in DOMAIN device' :
          IF device'[i].op = "build" THEN build = "running" /\ device'[i].handle = NoHandle
          ELSE device'[i].handle \in Handles /\ opened[device'[i].handle] # "unopened"
    BY <1>t, FirstGone DEF ThreadInv
  <2>4. QED BY <2>1, <2>2, <2>3, <1>3 DEF ThreadInv
<1>4. QED BY <1>1, <1>2, <1>3
(* One caller opens a handle at a time, and only for a device without one. *)
LEMMA ConnectHandles ==
  ASSUME TypeOK, HandleInv, ThreadInv,
         ConnectBegin \/ ConnectReturns \/ ConnectTimesOut \/ ConnectAbandoned
  PROVE  HandleInv' /\ ThreadInv'
<1> USE DEF workerVars, connectVars
<1>t. /\ device \in Seq(DeviceTask) /\ built \in Handles \union {NoHandle}
      /\ build = "ok" => built \in Handles
  BY DEF TypeOK, PaperTypes, HandleTypes
<1>1. CASE ConnectBegin
  <2>1. /\ UNCHANGED << opened, handle, late, lateHandles, worker >>
        /\ device' = Append(device, Task("build", NoHandle, NoJob))
        /\ build' = "running" /\ lock' = "connect" /\ handle = NoHandle
        /\ build # "running" /\ ~late
    BY <1>1 DEF ConnectBegin, HandleInv
  <2>2. /\ Task("build", NoHandle, NoJob).op = "build"
        /\ Task("build", NoHandle, NoJob).handle = NoHandle
    BY DEF Task
  <2>3. \A h \in Handles : Used(h)' => Used(h)
    BY <1>t, <2>1, <2>2, BehindOthers, NoneAssumption DEF Used
  <2>4. HandleInv'
    BY <2>1, <2>3 DEF HandleInv, Arrived, TypeOK, HandleTypes
  <2>5. NeverClosedUnderWrite'
    BY <1>t, <2>1, <2>2, BehindOthers DEF ThreadInv, NeverClosedUnderWrite
  <2>6. ThreadInv' BY <1>t, <2>1, <2>2, <2>5, BehindOthers DEF ThreadInv
  <2>7. QED BY <2>4, <2>6
<1>2. CASE ConnectReturns
  <2>1. /\ UNCHANGED << opened, device, build, built, late, lateHandles >>
        /\ lock = "connect" /\ lock' = "free" /\ handle = NoHandle
        /\ \/ build = "ok" /\ handle' = built /\ worker' \in {worker, "waiting"}
           \/ handle' = handle /\ worker' = worker
    BY <1>2 DEF ConnectReturns, HandleInv
  <2>2. \A h : (Used(h)' <=> Used(h)) /\ (Closing(h)' => Used(h)) BY <2>1 DEF Used, Closing
  <2>3. ~late BY <2>1 DEF HandleInv
  <2>4. HandleInv'
    BY <1>t, <2>1, <2>2, <2>3, NoneAssumption DEF HandleInv, Arrived
  <2>5. ThreadInv' BY <2>1 DEF ThreadInv, NeverClosedUnderWrite
  <2>6. QED BY <2>4, <2>5
<1>3. CASE ConnectTimesOut \/ ConnectAbandoned
  <2>1. /\ UNCHANGED << opened, device, build, built, handle, worker >>
        /\ lock = "connect" /\ lock' = "free"
        /\ \/ build = "running" /\ late' = TRUE /\ lateHandles' = lateHandles
           \/ build = "ok" /\ late' = late /\ lateHandles' = lateHandles \union {built}
           \/ late' = late /\ lateHandles' = lateHandles
    BY <1>3 DEF ConnectTimesOut, ConnectAbandoned
  <2>2. \A h : (Used(h)' <=> Used(h)) /\ (Closing(h)' <=> Closing(h))
    BY <2>1 DEF Used, Closing
  <2>3. ~late /\ handle = NoHandle BY <2>1 DEF HandleInv
  <2>4. HandleInv' BY <2>1, <2>2, <2>3 DEF HandleInv, Arrived
  <2>5. ThreadInv' BY <2>1 DEF ThreadInv, NeverClosedUnderWrite
  <2>6. QED BY <2>4, <2>5
<1>4. QED BY <1>1, <1>2, <1>3

(* A callback closes the handle that came too late, which nobody uses.     *)
LEMMA CloseLateHandles ==
  ASSUME TypeOK, HandleInv, ThreadInv, NEW h \in Handles, CloseLate(h)
  PROVE  HandleInv' /\ ThreadInv'
<1>1. /\ UNCHANGED << handle, worker, lock, build, built, late >>
      /\ lateHandles' = lateHandles \ {h} /\ opened[h] = "open" /\ ~Used(h)
      /\ handle # h /\ (Arrived => built # h)
  BY NoneAssumption DEF CloseLate, HandleInv, workerVars
<1>t. opened \in [Handles -> {"unopened", "open", "closed"}]
  BY DEF TypeOK, HandleTypes
<1>2. CASE opened' = opened /\ device' = Append(device, Task("close", h, NoJob))
  <2>1. /\ ThreadInv'
        /\ \A g : g # h => (Used(g)' <=> Used(g)) /\ (Closing(g)' <=> Closing(g))
    BY <1>1, <1>2, HandleGivenUp
  <2>2. HandleInv' BY <1>1, <1>2, <2>1 DEF HandleInv, Arrived
  <2>3. QED BY <2>1, <2>2
<1>3. CASE opened' = [opened EXCEPT ![h] = "closed"] /\ device' = device
  <2>1. \A g : g # h => opened'[g] = opened[g] BY <1>t, <1>3
  <2>2. \A g : (Used(g)' <=> Used(g)) /\ (Closing(g)' <=> Closing(g))
    BY <1>3 DEF Used, Closing
  <2>3. HandleInv' BY <1>1, <2>1, <2>2 DEF HandleInv, Arrived
  <2>4. \A i \in DOMAIN device : device[i].handle # h BY <1>1 DEF Used
  <2>5. ThreadInv' BY <1>1, <1>3, <2>1, <2>4 DEF ThreadInv, NeverClosedUnderWrite
  <2>6. QED BY <2>3, <2>5
<1>4. QED BY <1>2, <1>3 DEF CloseLate

(* A handle that is built is a new one: no task names it yet.              *)
LEMMA BuildHandles ==
  ASSUME TypeOK, HandleInv, ThreadInv,
         BuildFails \/ \E h \in Handles : BuildSucceeds(h)
  PROVE  HandleInv' /\ ThreadInv'
<1>t. /\ device \in Seq(DeviceTask)
      /\ opened \in [Handles -> {"unopened", "open", "closed"}]
      /\ lateHandles \subseteq Handles /\ built \in Handles \union {NoHandle}
      /\ handle \in Handles \union {NoHandle} /\ build = "ok" => built \in Handles
  BY DEF TypeOK, PaperTypes, HandleTypes
<1>1. /\ device # << >> /\ device' = Tail(device) /\ Head(device).op = "build"
      /\ late' = FALSE /\ UNCHANGED << handle, worker, lock >>
  BY DEF BuildFails, BuildSucceeds, Running, workerVars
<1>2. /\ \A g : (Used(g)' => Used(g)) /\ (Closing(g)' => Closing(g))
      /\ \A i \in DOMAIN device' : device'[i].op # "build"
  BY <1>1, ThreadAdvances
<1>3. build = "running" BY <1>t, <1>1, FirstGone DEF ThreadInv
<1>4. \A i \in DOMAIN device' : i + 1 \in DOMAIN device /\ device'[i] = device[i + 1] /\ i \in Nat
  BY <1>t, <1>1, FirstGone
<1>5. CASE BuildFails
  <2>1. build' = "failed" /\ UNCHANGED << opened, built, lateHandles >>
    BY <1>5 DEF BuildFails
  <2>2. HandleInv' BY <1>1, <1>2, <2>1 DEF HandleInv, Arrived
  <2>3. NeverClosedUnderWrite'
    BY <1>4, <2>1 DEF ThreadInv, NeverClosedUnderWrite
  <2>4. ThreadInv' BY <1>2, <1>4, <2>1, <2>3 DEF ThreadInv
  <2>5. QED BY <2>2, <2>4
<1>6. ASSUME NEW h \in Handles, BuildSucceeds(h) PROVE HandleInv' /\ ThreadInv'
  <2>1. /\ build' = "ok" /\ built' = h /\ opened[h] = "unopened"
        /\ opened' = [opened EXCEPT ![h] = "open"]
        /\ lateHandles' = IF late THEN lateHandles \union {h} ELSE lateHandles
    BY <1>6 DEF BuildSucceeds
  <2>2. opened'[h] = "open" /\ \A g : g # h => opened'[g] = opened[g] BY <1>t, <2>1
  <2>3. ~Used(h)
    <3>1. \A i \in DOMAIN device : device[i].handle # h
      BY <2>1, NoneAssumption DEF ThreadInv
    <3>2. QED BY <3>1 DEF Used
  <2>4. h # handle /\ h \notin lateHandles BY <2>1, NoneAssumption DEF HandleInv
  <2>5. HandleInv' BY <1>1, <1>2, <2>1, <2>2, <2>3, <2>4 DEF HandleInv, Arrived
  <2>6. NeverClosedUnderWrite'
    <3>1. ASSUME NEW i \in DOMAIN device', device'[i].op \in {"status", "write"}
          PROVE  /\ opened'[device'[i].handle] = "open"
                 /\ \A k \in DOMAIN device' :
                      device'[k].op = "close" /\ device'[k].handle = device'[i].handle => k > i
      <4>1. opened[device'[i].handle] = "open"
        BY <1>4, <3>1 DEF ThreadInv, NeverClosedUnderWrite
      <4>2. opened'[device'[i].handle] = "open" BY <4>1, <2>1, <2>2
      <4>3. \A k \in DOMAIN device' :
              device'[k].op = "close" /\ device'[k].handle = device'[i].handle => k > i
        BY <1>4, <3>1 DEF ThreadInv, NeverClosedUnderWrite
      <4>4. QED BY <4>2, <4>3
    <3>2. QED BY <3>1 DEF NeverClosedUnderWrite
  <2>7. \A i \in DOMAIN device' : /\ device'[i].handle \in Handles
                                  /\ opened'[device'[i].handle] # "unopened"
    BY <1>2, <1>4, <2>2 DEF ThreadInv
  <2>8. ThreadInv' BY <1>2, <2>6, <2>7 DEF ThreadInv
  <2>9. QED BY <2>5, <2>8
<1>7. QED BY <1>5, <1>6

(* The thread ends a query or a write, whose handle stays as it is.        *)
LEMMA TaskEndsHandles ==
  ASSUME TypeOK, HandleInv, ThreadInv,
         StatusAnswered \/ \E outcome \in {"ok", "oserr", "error"} : WriteEnds(outcome)
  PROVE  HandleInv' /\ ThreadInv'
<1>1. /\ device # << >> /\ device' = Tail(device)
      /\ UNCHANGED << handle, opened, worker, lock, build, built, late, lateHandles >>
  BY DEF StatusAnswered, WriteEnds, Running, connectVars
<1>2. /\ \A g : (Used(g)' => Used(g)) /\ (Closing(g)' => Closing(g))
      /\ ThreadInv'
  BY <1>1, ThreadAdvances
<1>3. HandleInv' BY <1>1, <1>2 DEF HandleInv, Arrived
<1>4. QED BY <1>2, <1>3

(* It closes a handle that stands in no other task than closings of it.    *)
LEMMA HandleClosesHandles ==
  ASSUME TypeOK, HandleInv, ThreadInv, HandleCloses
  PROVE  HandleInv' /\ ThreadInv'
<1>t. /\ device \in Seq(DeviceTask)
      /\ opened \in [Handles -> {"unopened", "open", "closed"}]
  BY DEF TypeOK, PaperTypes, HandleTypes
<1> DEFINE h == Head(device).handle
<1>1. /\ device # << >> /\ device' = Tail(device) /\ Head(device).op = "close"
      /\ opened' = [opened EXCEPT ![h] = "closed"]
      /\ UNCHANGED << handle, worker, lock, build, built, late, lateHandles >>
  BY DEF HandleCloses, Running, workerVars, connectVars
<1>2. 1 \in DOMAIN device /\ device[1] = Head(device) BY <1>t, <1>1, FirstGone
<1>3. Closing(h) /\ Used(h) /\ h \in Handles
  BY <1>1, <1>2 DEF Closing, Used, ThreadInv
<1>4. opened'[h] = "closed" /\ \A g : g # h => opened'[g] = opened[g] BY <1>t, <1>1, <1>3
<1>5. \A g : (Used(g)' => Used(g)) /\ (Closing(g)' => Closing(g))
  BY <1>1, ThreadAdvances
<1>6. HandleInv' BY <1>1, <1>3, <1>4, <1>5 DEF HandleInv, Arrived
<1>7. \A i \in DOMAIN device' : i + 1 \in DOMAIN device /\ device'[i] = device[i + 1] /\ i \in Nat
  BY <1>t, <1>1, FirstGone
<1>8. NeverClosedUnderWrite'
  <2>1. ASSUME NEW i \in DOMAIN device', device'[i].op \in {"status", "write"}
        PROVE  /\ opened'[device'[i].handle] = "open"
               /\ \A k \in DOMAIN device' :
                    device'[k].op = "close" /\ device'[k].handle = device'[i].handle => k > i
    <3>1. device'[i].handle # h
      <4>1. SUFFICES ASSUME device[i + 1].handle = device[1].handle PROVE FALSE
        BY <1>2, <1>7
      <4>2. 1 > i + 1
        BY <4>1, <1>1, <1>2, <1>7, <2>1 DEF ThreadInv, NeverClosedUnderWrite
      <4>3. QED BY <4>2, <1>7
    <3>2. opened[device'[i].handle] = "open"
      BY <1>7, <2>1 DEF ThreadInv, NeverClosedUnderWrite
    <3>3. \A k \in DOMAIN device' :
            device'[k].op = "close" /\ device'[k].handle = device'[i].handle => k > i
      BY <1>7, <2>1 DEF ThreadInv, NeverClosedUnderWrite
    <3>4. QED BY <3>1, <3>2, <3>3, <1>4
  <2>2. QED BY <2>1 DEF NeverClosedUnderWrite
<1>9. \A i, k \in DOMAIN device' : device'[i].op = "build" /\ device'[k].op = "build" => i = k
  <2>1. ASSUME NEW i \in DOMAIN device', NEW k \in DOMAIN device',
               device'[i].op = "build", device'[k].op = "build"
        PROVE  i = k
    <3>1. i + 1 = k + 1 BY <2>1, <1>7 DEF ThreadInv
    <3>2. QED BY <3>1, <1>7
  <2>2. QED BY <2>1
<1>10. \A i \in DOMAIN device' :
         IF device'[i].op = "build" THEN build' = "running" /\ device'[i].handle = NoHandle
         ELSE device'[i].handle \in Handles /\ opened'[device'[i].handle] # "unopened"
  BY <1>1, <1>4, <1>7 DEF ThreadInv
<1>11. ThreadInv' BY <1>8, <1>9, <1>10 DEF ThreadInv
<1>12. QED BY <1>6, <1>11

(* A worker that loses the connection, or a disconnect(), gives the handle *)
(* up: its closing is put behind the write that may still be running.      *)
LEMMA GivesUpHandles ==
  ASSUME TypeOK, HandleInv, ThreadInv, DiscInv, ConnectionLost \/ DrainAndClose
  PROVE  HandleInv' /\ ThreadInv'
<1> USE DEF workerVars, connectVars
<1>t. /\ worker \in {"absent", "waiting", "status", "writing"}
      /\ handle \in Handles \union {NoHandle}
  BY DEF TypeOK, WorkerTypes, HandleTypes
<1>1. /\ handle' = NoHandle /\ worker' = "absent"
      /\ UNCHANGED << opened, build, built, late, lateHandles >>
      /\ lock' = "connect" => lock = "connect"
  BY DEF ConnectionLost, DrainAndClose
<1>2. CASE device' = device
  <2>1. \A g : (Used(g)' <=> Used(g)) /\ (Closing(g)' <=> Closing(g))
    BY <1>2 DEF Used, Closing
  <2>2. HandleInv' BY <1>1, <2>1 DEF HandleInv, Arrived
  <2>3. ThreadInv' BY <1>1, <1>2 DEF ThreadInv, NeverClosedUnderWrite
  <2>4. QED BY <2>2, <2>3
<1>3. CASE handle # NoHandle /\ device' = Append(device, Task("close", handle, NoJob))
  <2>1. /\ ThreadInv'
        /\ \A g : g # handle => (Used(g)' <=> Used(g)) /\ (Closing(g)' <=> Closing(g))
    BY <1>1, <1>3, <1>t, HandleGivenUp DEF HandleInv
  <2>2. lock # "connect" BY <1>3 DEF HandleInv
  <2>3. HandleInv' BY <1>1, <1>3, <2>1, <2>2 DEF HandleInv, Arrived
  <2>4. QED BY <2>1, <2>3
<1>4. (ConnectionLost => handle # NoHandle) BY DEF ConnectionLost, HandleInv
<1>5. QED BY <1>2, <1>3, <1>4 DEF ConnectionLost, DrainAndClose

(* The worker asks and writes with the device's own handle.                *)
LEMMA WorkerHandles ==
  ASSUME TypeOK, HandleInv, ThreadInv,
         StatusReturns \/ \E j \in Jobs : Take(j)
  PROVE  HandleInv' /\ ThreadInv'
<1>1. UNCHANGED << handle, opened, lock, build, built, late, lateHandles >>
  BY DEF StatusReturns, Take, connectVars
<1>2. CASE device' = device /\ worker' = "waiting"
  <2>1. \A g : (Used(g)' <=> Used(g)) /\ (Closing(g)' <=> Closing(g))
    BY <1>2 DEF Used, Closing
  <2>2. HandleInv' BY <1>1, <1>2, <2>1 DEF HandleInv, Arrived
  <2>3. ThreadInv' BY <1>1, <1>2 DEF ThreadInv, NeverClosedUnderWrite
  <2>4. QED BY <2>2, <2>3
<1>3. CASE \E op \in {"status", "write"}, j \in Jobs \union {NoJob} :
             handle # NoHandle /\ device' = Append(device, Task(op, handle, j))
  BY <1>1, <1>3, HandleAsked
<1>4. \A j : Render(j) => \/ device' = device /\ worker' = "waiting"
                          \/ device' = Append(device, Task("write", handle, j))
  BY DEF Render, Fails
<1>5. CASE StatusReturns
  <2>1. handle # NoHandle /\ current \in Jobs \union {NoJob}
    BY <1>5 DEF StatusReturns, HandleInv, TypeOK, WorkerTypes
  <2>2. QED BY <1>2, <1>3, <1>4, <1>5, <2>1 DEF StatusReturns, Fails
<1>6. ASSUME NEW j \in Jobs, Take(j) PROVE HandleInv' /\ ThreadInv'
  BY <1>2, <1>3, <1>4, <1>6 DEF Take, Fails
<1>7. QED BY <1>5, <1>6

(* Every step keeps the handles with their owners.                         *)
LEMMA HandleStep ==
  ASSUME TypeOK, DiscInv, HandleInv, ThreadInv, [Next]_vars
  PROVE  HandleInv' /\ ThreadInv'
<1> USE DEF workerVars, outcomeVars, connectVars, discVars
<1>1. CASE Handlers
  BY <1>1, HandlesIdle DEF Handlers, Enqueue, ClientLeaves, HandleVars
<1>2. CASE Connection
  BY <1>2, ConnectHandles, CloseLateHandles DEF Connection
<1>3. CASE DeviceThread
  BY <1>3, BuildHandles, TaskEndsHandles, HandleClosesHandles
  DEF DeviceThread, WriteEndsSomehow
<1>4. CASE TakeNext \/ StatusReturns
  BY <1>4, WorkerHandles DEF TakeNext
<1>5. CASE WriteReturns \/ WorkerCancelled
  <2>1. /\ UNCHANGED << handle, opened, device, lock, build, built, late, lateHandles >>
        /\ worker' \in {"waiting", "absent"}
    BY <1>5 DEF WriteReturns, WorkerCancelled
  <2>2. HandleInv' BY <2>1 DEF HandleInv, Used, Closing, Arrived
  <2>3. ThreadInv' BY <2>1 DEF ThreadInv, NeverClosedUnderWrite
  <2>4. QED BY <2>2, <2>3
<1>6. CASE WriteCallbacks BY <1>6, HandlesIdle DEF WriteCallbacks, HandleVars
<1>7. CASE ConnectionLost \/ DrainAndClose BY <1>7, GivesUpHandles
<1>8. CASE CancelWorker \/ DisconnectReturns
  <2>1. /\ UNCHANGED << handle, opened, device, worker, build, built, late, lateHandles >>
        /\ lock' \in {"disconnect", "free"}
    BY <1>8 DEF CancelWorker, DisconnectReturns
  <2>2. HandleInv' BY <2>1 DEF HandleInv, Used, Closing, Arrived
  <2>3. ThreadInv' BY <2>1 DEF ThreadInv, NeverClosedUnderWrite
  <2>4. QED BY <2>2, <2>3
<1>9. CASE DisconnectBegin \/ UNCHANGED vars
  BY <1>9, HandlesIdle DEF DisconnectBegin, HandleVars, vars
<1>10. QED
  BY <1>1, <1>2, <1>3, <1>4, <1>5, <1>6, <1>7, <1>8, <1>9
  DEF Next, Worker, Disconnection

(* No handle is open at the start.                                         *)
LEMMA HandleInit == Init => HandleInv /\ ThreadInv
<1>1. Init => HandleInv BY DEF Init, HandleInv, Arrived
<1>2. Init => ThreadInv BY DEF Init, ThreadInv, NeverClosedUnderWrite
<1>3. QED BY <1>1, <1>2

(* A query or a write in the device thread finds its handle open, and no   *)
(* closing of that handle stands before it, also when callers of connect() *)
(* leave and when the worker was cancelled under its write.                *)
THEOREM HandleOpenUnderWrite == Spec => []NeverClosedUnderWrite
<1>1. TypeOK /\ IInv /\ HandleInv /\ ThreadInv /\ [Next]_vars => (HandleInv /\ ThreadInv)'
  BY HandleStep DEF IInv
<1>2. ThreadInv => NeverClosedUnderWrite BY DEF ThreadInv
<1>3. QED BY <1>1, <1>2, HandleInit, Inductive, PTL DEF Spec
(* A build that nobody gave up has its caller, and has no handle yet.      *)
KeptInv == build = "running" => /\ late \/ lock = "connect" \/ NoHandle \in abandoned
                                /\ built = NoHandle

(* Who keeps an open handle goes on keeping it when nothing moves.         *)
LEMMA KeptFrame ==
  ASSUME NoLostHandle, UNCHANGED << opened, handle, built, lateHandles, abandoned >>,
         Arrived => Arrived', \A h : Closing(h) => Closing(h)'
  PROVE  NoLostHandle'
  BY DEF NoLostHandle, Arrived, Closing

(* The closings that are queued stay so when another task is put behind    *)
(* them, or when the running one, that is no closing, ends.                *)
LEMMA ClosingStays ==
  ASSUME TypeOK,
         \/ device' = device
         \/ \E t \in DeviceTask : device' = Append(device, t)
         \/ device # << >> /\ Head(device).op # "close" /\ device' = Tail(device)
  PROVE  \A h : Closing(h) => Closing(h)'
<1>t. device \in Seq(DeviceTask) BY DEF TypeOK, PaperTypes
<1>1. CASE device' = device BY <1>1 DEF Closing
<1>2. ASSUME NEW t \in DeviceTask, device' = Append(device, t)
      PROVE  \A h : Closing(h) => Closing(h)'
  BY <1>t, <1>2, BehindOthers DEF Closing
<1>3. CASE device # << >> /\ Head(device).op # "close" /\ device' = Tail(device)
  BY <1>t, <1>3, FirstGone DEF Closing
<1>4. QED BY <1>1, <1>2, <1>3

(* connect() hands its handle on: to the device, or to a callback; when    *)
(* its caller is cancelled, to nobody.                                     *)
LEMMA ConnectKeeps ==
  ASSUME TypeOK, HandleInv, KeptInv, NoLostHandle,
         ConnectBegin \/ ConnectReturns \/ ConnectTimesOut \/ ConnectAbandoned
  PROVE  KeptInv' /\ NoLostHandle'
<1> USE DEF workerVars
<1>1. CASE ConnectBegin
  <2>1. KeptInv' BY <1>1 DEF ConnectBegin, KeptInv
  <2>2. Task("build", NoHandle, NoJob) \in DeviceTask BY TaskType
  <2>3. \A h : Closing(h) => Closing(h)' BY <1>1, <2>2, ClosingStays DEF ConnectBegin
  <2>4. NoLostHandle' BY <1>1, <2>3 DEF ConnectBegin, NoLostHandle, Closing
  <2>5. QED BY <2>1, <2>4
<1>2. CASE ConnectReturns
  <2>1. KeptInv' BY <1>2 DEF ConnectReturns, KeptInv
  <2>2. NoLostHandle'
    BY <1>2, NoneAssumption DEF ConnectReturns, NoLostHandle, HandleInv
  <2>3. QED BY <2>1, <2>2
<1>3. CASE ConnectTimesOut
  <2>1. KeptInv' BY <1>3 DEF ConnectTimesOut, KeptInv
  <2>2. NoLostHandle' BY <1>3 DEF ConnectTimesOut, NoLostHandle
  <2>3. QED BY <2>1, <2>2
<1>4. CASE ConnectAbandoned
  <2>1. KeptInv' BY <1>4 DEF ConnectAbandoned, KeptInv
  <2>2. NoLostHandle' BY <1>4 DEF ConnectAbandoned, NoLostHandle
  <2>3. QED BY <2>1, <2>2
<1>5. QED BY <1>1, <1>2, <1>3, <1>4

(* A handle that is built has its caller, or a callback.                   *)
LEMMA BuildKeeps ==
  ASSUME TypeOK, HandleInv, ThreadInv, KeptInv, NoLostHandle,
         BuildFails \/ \E h \in Handles : BuildSucceeds(h)
  PROVE  KeptInv' /\ NoLostHandle'
<1>t. /\ device \in Seq(DeviceTask)
      /\ opened \in [Handles -> {"unopened", "open", "closed"}]
  BY DEF TypeOK, PaperTypes, HandleTypes
<1>1. /\ device # << >> /\ device' = Tail(device) /\ Head(device).op = "build"
      /\ UNCHANGED << handle, lock >> /\ build' # "running"
  BY DEF BuildFails, BuildSucceeds, Running
<1>2. KeptInv' BY <1>1 DEF KeptInv
<1>3. \A h : Closing(h) => Closing(h)' BY <1>1, ClosingStays
<1>4. build = "running" BY <1>t, <1>1, FirstGone DEF ThreadInv
<1>5. CASE BuildFails
  <2>1. /\ UNCHANGED << opened, handle, lateHandles >>
        /\ abandoned' = abandoned \ {NoHandle}
    BY <1>5 DEF BuildFails
  <2>2. NoLostHandle'
    BY <1>3, <1>4, <2>1, NoneAssumption DEF NoLostHandle, Closing
  <2>3. QED BY <1>2, <2>2
<1>6. ASSUME NEW h \in Handles, BuildSucceeds(h) PROVE NoLostHandle'
  <2>1. /\ build' = "ok" /\ built' = h /\ opened' = [opened EXCEPT ![h] = "open"]
        /\ lateHandles' = IF late THEN lateHandles \union {h} ELSE lateHandles
        /\ abandoned' = { IF g = NoHandle THEN h ELSE g : g \in abandoned }
    BY <1>6 DEF BuildSucceeds
  <2>a. NoHandle \in abandoned => h \in abandoned' BY <2>1
  <2>b. \A g \in abandoned : g # NoHandle => g \in abandoned' BY <2>1
  <2>2. h \in lateHandles' \/ lock = "connect" \/ h \in abandoned'
    BY <1>4, <2>1, <2>a DEF KeptInv
  <2>3. ASSUME NEW g \in Handles, g # h, opened'[g] = "open"
        PROVE  g = handle \/ g \in lateHandles \/ g \in abandoned' \/ Closing(g)
    BY <1>t, <1>4, <2>1, <2>b, <2>3, NoneAssumption DEF NoLostHandle, Closing
  <2>4. QED BY <1>1, <1>3, <2>1, <2>2, <2>3 DEF NoLostHandle, Closing
<1>7. QED BY <1>2, <1>5, <1>6

(* A handle leaves its owner for a closing, and its closing closes it.     *)
LEMMA ClosingKeeps ==
  ASSUME TypeOK, HandleInv, ThreadInv, KeptInv, DiscInv, NoLostHandle,
         \/ ConnectionLost \/ DrainAndClose \/ HandleCloses
         \/ \E h \in Handles : CloseLate(h)
  PROVE  NoLostHandle'
<1> USE DEF workerVars, connectVars
<1>t. /\ device \in Seq(DeviceTask) /\ handle \in Handles \union {NoHandle}
      /\ opened \in [Handles -> {"unopened", "open", "closed"}]
  BY DEF TypeOK, PaperTypes, HandleTypes
<1>c. \A h \in Handles \union {NoHandle} : Task("close", h, NoJob) \in DeviceTask
  BY TaskType
<1>1. CASE ConnectionLost \/ DrainAndClose
  <2>1. /\ handle' = NoHandle
        /\ UNCHANGED << opened, build, built, lateHandles, abandoned >>
        /\ \/ handle = NoHandle /\ device' = device
           \/ device' = Append(device, Task("close", handle, NoJob))
        /\ Arrived => Arrived'
    BY <1>1 DEF ConnectionLost, DrainAndClose, Arrived, DiscInv
  <2>2. \A h : Closing(h) => Closing(h)' BY <1>t, <1>c, <2>1, ClosingStays
  <2>3. ASSUME NEW g \in Handles, g = handle PROVE Closing(g)'
    <3>1. /\ device'[Len(device) + 1] = Task("close", g, NoJob)
          /\ Len(device) + 1 \in DOMAIN device'
      BY <1>t, <2>1, <2>3, BehindOthers, NoneAssumption
    <3>2. Task("close", g, NoJob).op = "close" /\ Task("close", g, NoJob).handle = g
      BY DEF Task
    <3>3. QED BY <3>1, <3>2 DEF Closing
  <2>4. \A h \in Handles : Arrived /\ h = built => Arrived' /\ h = built' BY <2>1
  <2>5. ASSUME NEW h \in Handles, opened'[h] = "open"
        PROVE  \/ (h = built /\ Arrived)' \/ h \in lateHandles' \/ h \in abandoned'
               \/ Closing(h)'
    <3>1. \/ h = handle \/ h \in lateHandles \/ h \in abandoned \/ Closing(h)
          \/ h = built /\ Arrived
      BY <2>1, <2>5 DEF NoLostHandle, Closing, Arrived
    <3>2. QED BY <3>1, <2>1, <2>2, <2>3, <2>4, NoneAssumption
  <2>6. QED BY <2>5 DEF NoLostHandle, Closing, Arrived
<1>2. ASSUME NEW h \in Handles, CloseLate(h) PROVE NoLostHandle'
  <2>1. /\ UNCHANGED << handle, lock, build, built, abandoned >>
        /\ lateHandles' = lateHandles \ {h}
        /\ \/ opened' = [opened EXCEPT ![h] = "closed"] /\ device' = device
           \/ opened' = opened /\ device' = Append(device, Task("close", h, NoJob))
    BY <1>2 DEF CloseLate
  <2>2. \A g : Closing(g) => Closing(g)' BY <1>c, <2>1, ClosingStays
  <2>3. opened'[h] = "closed" \/ Closing(h)'
    BY <1>t, <2>1, BehindOthers DEF Closing, Task
  <2>4. \A g \in Handles : g # h => opened'[g] = opened[g] BY <1>t, <2>1
  <2>5. QED BY <2>1, <2>2, <2>3, <2>4 DEF NoLostHandle, Closing
<1>3. CASE HandleCloses
  <2> DEFINE h == Head(device).handle
  <2>1. /\ device # << >> /\ device' = Tail(device) /\ Head(device).op = "close"
        /\ opened' = [opened EXCEPT ![h] = "closed"]
        /\ UNCHANGED << handle, lock, build, built, lateHandles, abandoned >>
    BY <1>3 DEF HandleCloses, Running
  <2>2. h \in Handles BY <1>t, <2>1, FirstGone DEF ThreadInv
  <2>3. opened'[h] = "closed" /\ \A g \in Handles : g # h => opened'[g] = opened[g]
    BY <1>t, <2>1, <2>2
  <2>4. \A g : g # h /\ Closing(g) => Closing(g)'
    BY <1>t, <2>1, FirstGone DEF Closing
  <2>5. QED BY <2>1, <2>3, <2>4 DEF NoLostHandle, Closing
<1>4. QED BY <1>1, <1>2, <1>3

(* No step loses a handle.                                                 *)
LEMMA KeptStep ==
  ASSUME TypeOK, DiscInv, HandleInv, ThreadInv, KeptInv, NoLostHandle,
         [Next]_vars
  PROVE  KeptInv' /\ NoLostHandle'
<1> USE DEF workerVars, outcomeVars, connectVars, discVars
<1>1. CASE UNCHANGED << opened, handle, device, lock, build, built, late, lateHandles, abandoned >>
  <2>1. KeptInv' BY <1>1 DEF KeptInv
  <2>2. NoLostHandle' BY <1>1, KeptFrame DEF Arrived, Closing
  <2>3. QED BY <2>1, <2>2
<1>2. CASE Handlers BY <1>1, <1>2 DEF Handlers, Enqueue, ClientLeaves
<1>3. CASE Connection
  <2>1. CASE ConnectBegin \/ ConnectReturns \/ ConnectTimesOut \/ ConnectAbandoned
    BY <2>1, ConnectKeeps
  <2>3. ASSUME NEW h \in Handles, CloseLate(h) PROVE KeptInv' /\ NoLostHandle'
    <3>1. KeptInv' BY <2>3 DEF CloseLate, KeptInv
    <3>2. QED BY <2>3, <3>1, ClosingKeeps
  <2>4. QED BY <1>3, <2>1, <2>3 DEF Connection
<1>4. CASE DeviceThread
  <2>1. CASE BuildFails \/ \E h \in Handles : BuildSucceeds(h) BY <2>1, BuildKeeps
  <2>2. CASE HandleCloses
    <3>1. KeptInv' BY <2>2 DEF HandleCloses, KeptInv
    <3>2. QED BY <2>2, <3>1, ClosingKeeps
  <2>3. CASE StatusAnswered \/ WriteEndsSomehow
    <3>1. /\ UNCHANGED << opened, handle, lock, build, built, late, lateHandles, abandoned >>
          /\ device # << >> /\ Head(device).op # "close" /\ device' = Tail(device)
      BY <2>3 DEF StatusAnswered, WriteEndsSomehow, WriteEnds, Running
    <3>2. NoLostHandle' BY <3>1, ClosingStays, KeptFrame DEF Arrived
    <3>3. KeptInv' BY <3>1 DEF KeptInv
    <3>4. QED BY <3>2, <3>3
  <2>4. QED BY <1>4, <2>1, <2>2, <2>3 DEF DeviceThread
<1>5. CASE StatusReturns \/ TakeNext
  <2>1. /\ UNCHANGED << opened, handle, lock, build, built, late, lateHandles, abandoned >>
        /\ device' = device \/ \E t \in DeviceTask : device' = Append(device, t)
    <3>1. \A op \in {"status", "write"}, j \in Jobs \union {NoJob} :
            Task(op, handle, j) \in DeviceTask
      BY TaskType DEF TypeOK, HandleTypes
    <3>2. current \in Jobs \union {NoJob} BY DEF TypeOK, WorkerTypes
    <3>3. QED BY <1>5, <3>1, <3>2 DEF StatusReturns, TakeNext, Take, Render
  <2>2. NoLostHandle' BY <2>1, ClosingStays, KeptFrame DEF Arrived
  <2>3. KeptInv' BY <2>1 DEF KeptInv
  <2>4. QED BY <2>2, <2>3
<1>6. CASE WriteReturns \/ WorkerCancelled \/ WriteCallbacks
  BY <1>1, <1>6 DEF WriteReturns, WorkerCancelled, WriteCallbacks
<1>7. CASE ConnectionLost \/ DrainAndClose
  <2>1. /\ UNCHANGED << build, built, late, abandoned >>
        /\ lock = "connect" => lock' = "connect"
    BY <1>7 DEF ConnectionLost, DrainAndClose, DiscInv
  <2>2. KeptInv' BY <2>1 DEF KeptInv
  <2>3. QED BY <1>7, <2>2, ClosingKeeps
<1>8. CASE CancelWorker \/ DisconnectReturns
  <2>1. /\ UNCHANGED << opened, handle, device, build, built, late, lateHandles, abandoned >>
        /\ lock # "connect"
    BY <1>8 DEF CancelWorker, DisconnectReturns, DiscInv
  <2>2. NoLostHandle' BY <2>1, KeptFrame DEF Arrived, Closing
  <2>3. KeptInv' BY <2>1 DEF KeptInv
  <2>4. QED BY <2>2, <2>3
<1>9. CASE DisconnectBegin \/ UNCHANGED vars
  BY <1>1, <1>9 DEF DisconnectBegin, vars
<1>10. QED
  BY <1>2, <1>3, <1>4, <1>5, <1>6, <1>7, <1>8, <1>9
  DEF Next, Worker, Disconnection

(* Every open handle has somebody who will close it, but for those whose   *)
(* connect() was cancelled under the build: nobody knows of these.         *)
THEOREM HandlesKept == Spec => []NoLostHandle
<1>1. Init => KeptInv /\ NoLostHandle BY DEF Init, KeptInv, NoLostHandle
<1>2. /\ TypeOK /\ IInv /\ HandleInv /\ ThreadInv /\ KeptInv /\ NoLostHandle
      /\ [Next]_vars
      => (HandleInv /\ ThreadInv /\ KeptInv /\ NoLostHandle)'
  BY HandleStep, KeptStep DEF IInv
<1>3. QED BY <1>1, <1>2, HandleInit, Inductive, PTL DEF Spec
=============================================================================
