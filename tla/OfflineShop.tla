---------------------------- MODULE OfflineShop ----------------------------
(***************************************************************************)
(* Offline mode of one shop: the files that make it active                 *)
(* (src/src/services/offline_state.py, offline_secrets.py), the routes     *)
(* that switch it on and off (src/src/routes/offline.py), and the          *)
(* supervisor that keeps the offline service, a child process, alive       *)
(* (src/src/services/offline_service.py).                                  *)
(*                                                                         *)
(* An action is the code between two awaits, or one system call of a       *)
(* thread (`asyncio.to_thread`).  The service itself is Node code outside  *)
(* src/: it keeps the copy of the shop's data under the key it was given,  *)
(* queues sales, sends them, answers /health, and may die or hang.         *)
(***************************************************************************)
EXTENDS Naturals, FiniteSets

CONSTANTS
  Activations,   (* requests that switch on, each with a token of its own  *)
  Children,      (* processes of the service; an ended one is used again   *)
  NoConfig, NoKey, NoChild, NoAnswer,
  Overlapping,   (* a request may come before another one has ended        *)
  MaxSales,      (* bound: sales that wait on the disk                     *)
  MaxFaults      (* bound: crashes and hangs of the service, ends of the   *)
                 (* manager, and files that cannot be read for a while     *)

ASSUME BoundsAssumption ==
  MaxSales \in Nat /\ MaxFaults \in Nat /\ Overlapping \in BOOLEAN
ASSUME NamesAssumption ==
  /\ NoKey \notin Activations /\ NoChild \notin Children /\ NoAnswer \notin Nat
  /\ NoConfig \notin [token : Activations, key : Activations]

(* A data key is named after the activation that made it.                  *)
Secrets == [token : Activations, key : Activations]

VARIABLES
  active,        (* active.json names the shop                             *)
  secrets,       (* secrets.b64                                            *)
  config,        (* config.json is there                                   *)
  data,          (* the key the local copy is encrypted with               *)
  queue,         (* sales in it that have not reached the server           *)
  locked,        (* the shop's files cannot be read now                    *)
  act,           (* where an activation is                                 *)
  made,          (* the key it goes on with                                *)
  off,           (* where the request that switches off is                 *)
  loop,          (* where the supervisor's loop is                         *)
  cfg,           (* `_cfg_key`: what the service was started with          *)
  proc,          (* `_proc`                                                *)
  onPurpose,     (* `_stopped_on_purpose`                                  *)
  extra,         (* `state.extra["queued"]`                                *)
  child,         (* what a process is doing                                *)
  given,         (* the config it was started with                         *)
  ender,         (* who makes it end                                       *)
  old,           (* of these, how many a switch-off that went on had seen  *)
  lost,          (* sales removed unsent: "none", "late" when they were    *)
                 (* made after the queue had been looked at, "early"       *)
  faults

fileVars  == << active, secrets, config >>
copyVars  == << data, queue, old, lost >>
requestVars == << act, made >>
loopVars  == << loop, cfg, onPurpose, extra >>
childVars == << proc, child, given, ender >>
vars == << fileVars, copyVars, locked, requestVars, off, loopVars, childVars, faults >>

Alive(p) == child[p] \in {"starting", "up", "hung"}
Fault == faults < MaxFaults /\ faults' = faults + 1

Init ==
  /\ active = FALSE /\ secrets = NoConfig /\ config = FALSE
  /\ data = NoKey /\ queue = 0 /\ old = 0 /\ lost = "none" /\ locked = FALSE
  /\ act = [a \in Activations |-> "new"] /\ made = [a \in Activations |-> NoKey]
  /\ off = "no"
  /\ loop = "load" /\ cfg = NoConfig /\ proc = NoChild /\ onPurpose = FALSE
  /\ extra = NoAnswer
  /\ child = [p \in Children |-> "exited"] /\ given = [p \in Children |-> NoConfig]
  /\ ender = [p \in Children |-> "nobody"]
  /\ faults = 0

(* The copy goes, with the sales it holds.                                 *)
CopyGoes ==
  /\ data' = NoKey /\ queue' = 0 /\ old' = 0
  /\ lost' = IF old > 0 \/ lost = "early" THEN "early"
             ELSE IF queue > 0 THEN "late" ELSE lost

-----------------------------------------------------------------------------
(* Switching on: `activate`, in a thread.                                  *)

InTurn ==
  Overlapping \/ (off = "no" /\ \A a \in Activations : act[a] \in {"new", "done"})

(* Faulty variant: a new token comes with a new key.                       *)
ActivateLoadsFresh(a) ==
  /\ act[a] = "new" /\ ~locked /\ InTurn
  /\ act' = [act EXCEPT ![a] = "save"]
  /\ made' = [made EXCEPT ![a] = a]
  /\ UNCHANGED << fileVars, copyVars, locked, off, loopVars, childVars, faults >>

(* The key is kept if there is one.  Without one, a copy left from before  *)
(* is moved aside with what it holds: nobody can read it.                  *)
ActivateLoads(a) ==
  /\ act[a] = "new" /\ ~locked /\ InTurn
  /\ act' = [act EXCEPT ![a] = "save"]
  /\ IF secrets # NoConfig
       THEN made' = [made EXCEPT ![a] = secrets.key] /\ UNCHANGED copyVars
       ELSE made' = [made EXCEPT ![a] = a] /\ CopyGoes
  /\ UNCHANGED << fileVars, locked, off, loopVars, childVars, faults >>

(* The secrets are there and cannot be read: nothing is changed.           *)
ActivateRefused(a) ==
  /\ act[a] = "new" /\ locked
  /\ act' = [act EXCEPT ![a] = "done"]
  /\ UNCHANGED << fileVars, copyVars, locked, made, off, loopVars, childVars, faults >>

(* `_write_private`: each file appears whole, or the request fails here.   *)
ActivateSaves(a) ==
  /\ \/ /\ act[a] = "save" /\ act' = [act EXCEPT ![a] = "configure"]
        /\ secrets' = [token |-> a, key |-> made[a]] /\ UNCHANGED << active, config >>
     \/ /\ act[a] = "configure" /\ act' = [act EXCEPT ![a] = "mark"]
        /\ config' = TRUE /\ UNCHANGED << active, secrets >>
     \/ /\ act[a] = "mark" /\ act' = [act EXCEPT ![a] = "done"]
        /\ active' = TRUE /\ UNCHANGED << secrets, config >>
  /\ UNCHANGED << copyVars, locked, made, off, loopVars, childVars, faults >>

ActivateFails(a) ==
  /\ act[a] \in {"save", "configure", "mark"} /\ Fault
  /\ act' = [act EXCEPT ![a] = "done"]
  /\ UNCHANGED << fileVars, copyVars, locked, made, off, loopVars, childVars >>

-----------------------------------------------------------------------------
(* The supervisor's view.                                                  *)

(* `current_config`; that it could not be read is asked separately.        *)
CurrentConfig == IF active /\ config THEN secrets ELSE NoConfig
Unreadable == locked /\ active

(* `_fetch_health`: the process that has the port answers, if any does.    *)
Answering == { p \in Children : child[p] = "up" }

(* Faulty variant: what cannot be read counts as nothing.                  *)
QueuedNowOptimistic == IF Answering # {} \/ ~locked THEN queue ELSE 0

(* The queue, from the service or else from the disk (`queued_on_disk`,    *)
(* `fiscal_owed_on_disk`); no answer when the copy cannot be read.         *)
QueuedNow == IF Answering # {} \/ ~locked THEN queue ELSE NoAnswer

(* Switching off: `deactivate`.  The answer of the service is remembered.  *)
SwitchOffAsks ==
  /\ off = "no" /\ active /\ InTurn
  /\ extra' = IF Answering # {} THEN queue ELSE extra
  /\ off' = IF QueuedNow = 0 THEN "forget" ELSE "no"
  /\ old' = IF QueuedNow = 0 THEN queue ELSE 0
  /\ UNCHANGED << fileVars, data, queue, lost, locked, requestVars, loop, cfg, onPurpose,
                  childVars, faults >>

(* `forget`: the secrets first, then the mark.  If the secrets cannot be   *)
(* removed, nothing else is touched.                                       *)
ForgetSecrets ==
  /\ off = "forget"
  /\ IF ~active THEN UNCHANGED secrets /\ off' = "stop only"
     ELSE IF locked THEN UNCHANGED secrets /\ off' = "no"
     ELSE secrets' = NoConfig /\ off' = "unmark"
  /\ UNCHANGED << active, config, copyVars, locked, requestVars, loopVars,
                  childVars, faults >>

ForgetMark ==
  /\ off = "unmark"
  /\ active' = FALSE /\ off' = "stop"
  /\ UNCHANGED << secrets, config, copyVars, locked, requestVars, loopVars,
                  childVars, faults >>

(* `_stop_process`: the process is taken from the supervisor, and made to  *)
(* end by whoever took it.                                                 *)
TakesProcess(who) ==
  /\ proc' = NoChild
  /\ ender' = [p \in Children |-> IF p = proc /\ Alive(p) THEN who ELSE ender[p]]
  /\ UNCHANGED << child, given >>

Ending(who) == \E p \in Children : Alive(p) /\ ender[p] = who

SwitchOffStops ==
  /\ off \in {"stop", "stop only"}
  /\ onPurpose' = TRUE
  /\ TakesProcess("off")
  /\ off' = IF off = "stop" THEN "stopping" ELSE "stopping only"
  /\ UNCHANGED << fileVars, copyVars, locked, requestVars, loop, cfg, extra, faults >>

(* `remove_data`: the shop's folder, whatever it holds by now, but for     *)
(* files that cannot be removed.                                           *)
SwitchOffEnds ==
  /\ off \in {"stopping", "stopping only"} /\ ~Ending("off")
  /\ off' = "no"
  /\ IF off = "stopping" /\ ~locked
       THEN secrets' = NoConfig /\ config' = FALSE /\ CopyGoes
       ELSE UNCHANGED << secrets, config, copyVars >>
  /\ UNCHANGED << active, locked, requestVars, loopVars, childVars, faults >>

-----------------------------------------------------------------------------
(* The supervisor: `_loop`.                                                *)

(* Faulty variant: without a configuration, the last one is good enough.   *)
LoopLoadsLast ==
  /\ loop = "load" /\ ~Unreadable /\ {CurrentConfig, cfg} # {NoConfig}
  /\ cfg' = IF CurrentConfig # NoConfig THEN CurrentConfig ELSE cfg
  /\ onPurpose' = FALSE /\ loop' = "probe"
  /\ UNCHANGED << fileVars, copyVars, locked, requestVars, off, extra, childVars, faults >>

(* Sleeping until the next round is no state of its own: the loop may be   *)
(* slow.  A configuration that is missing or unreadable starts nothing.    *)
LoopLoads ==
  /\ loop = "load" /\ ~Unreadable /\ CurrentConfig # NoConfig
  /\ cfg' = CurrentConfig /\ onPurpose' = FALSE /\ loop' = "probe"
  /\ UNCHANGED << fileVars, copyVars, locked, requestVars, off, extra, childVars, faults >>

(* A stray: its manager is gone (its pipe has ended), and it still answers.*)
Stray == { p \in Answering : ender[p] = "pipe" }

(* `_start` asks the port first.  What answers there and has a manager is  *)
(* left alone; a stray is stopped; a free port gets a process.             *)
LoopProbes ==
  /\ loop = "probe"
  /\ IF Answering = {} THEN loop' = "spawn" /\ UNCHANGED child
     ELSE IF Answering = Stray
       THEN /\ child' = [p \in Children |-> IF p \in Stray THEN "exited" ELSE child[p]]
            /\ loop' = "spawn"
       ELSE loop' = "stop" /\ UNCHANGED child
  /\ UNCHANGED << fileVars, copyVars, locked, requestVars, off, cfg, onPurpose, extra,
                  proc, given, ender, faults >>

Unused == { p \in Children : child[p] = "exited" }

(* create_subprocess_exec has returned and the config is written.  If the  *)
(* shop was switched off meanwhile, the process has its config and is      *)
(* stopped at the first check after it: it is assumed that this comes      *)
(* before the process is up, which nothing in the code makes certain.      *)
LoopSpawns(p) ==
  /\ loop = "spawn" /\ p \in Unused
  /\ child' = [child EXCEPT ![p] = "starting"]
  /\ given' = [given EXCEPT ![p] = cfg]
  /\ ender' = [ender EXCEPT ![p] = IF onPurpose THEN "loop" ELSE "nobody"]
  /\ proc' = IF onPurpose THEN NoChild ELSE p
  /\ loop' = IF onPurpose THEN "ending" ELSE "start"
  /\ UNCHANGED << fileVars, copyVars, locked, requestVars, off, cfg, onPurpose, extra, faults >>

(* Waiting for /health of the version that was shipped.                    *)
LoopStarted ==
  /\ loop = "start" /\ proc # NoChild /\ ~onPurpose /\ Answering # {}
  /\ loop' = "watch" /\ extra' = queue
  /\ UNCHANGED << fileVars, copyVars, locked, requestVars, off, cfg, onPurpose,
                  childVars, faults >>

(* The process is gone, was taken, or does not answer in thirty seconds.   *)
LoopStartFails ==
  /\ loop = "start"
  /\ proc = NoChild \/ onPurpose \/ Answering = {}
  /\ loop' = "stop"
  /\ UNCHANGED << fileVars, copyVars, locked, requestVars, off, cfg, onPurpose, extra,
                  childVars, faults >>

(* `_watch`: every ten seconds, in this order.                             *)
Switched == onPurpose
Exited == proc \notin { p \in Children : Alive(p) }
Changed == ~Unreadable /\ CurrentConfig # cfg

LoopHears ==
  /\ loop = "watch" /\ ~Switched /\ ~Exited /\ ~Changed /\ Answering # {}
  /\ extra' = queue
  /\ UNCHANGED << fileVars, copyVars, locked, requestVars, off, loop, cfg, onPurpose,
                  childVars, faults >>

(* Faulty variant: a service that is silent is not given up.               *)
LoopGivesUpExited ==
  /\ loop = "watch" /\ (Switched \/ Exited \/ Changed)
  /\ loop' = "stop" /\ onPurpose' = FALSE
  /\ UNCHANGED << fileVars, copyVars, locked, requestVars, off, cfg, extra, childVars, faults >>

(* Three answers missed in a row stand for one silence.                    *)
LoopGivesUp ==
  /\ loop = "watch" /\ (Switched \/ Exited \/ Changed \/ Answering = {})
  /\ loop' = "stop" /\ onPurpose' = FALSE
  /\ UNCHANGED << fileVars, copyVars, locked, requestVars, off, cfg, extra, childVars, faults >>

(* Faulty variant: what is left of the process is forgotten, not ended.    *)
LoopStopsForgetting ==
  /\ loop = "stop"
  /\ proc' = NoChild /\ loop' = "ending"
  /\ UNCHANGED << fileVars, copyVars, locked, requestVars, off, cfg, onPurpose, extra,
                  child, given, ender, faults >>

LoopStops ==
  /\ loop = "stop"
  /\ TakesProcess("loop") /\ loop' = "ending"
  /\ UNCHANGED << fileVars, copyVars, locked, requestVars, off, cfg, onPurpose, extra, faults >>

LoopRests ==
  /\ loop = "ending" /\ ~Ending("loop")
  /\ loop' = "load"
  /\ UNCHANGED << fileVars, copyVars, locked, requestVars, off, cfg, onPurpose, extra,
                  childVars, faults >>

-----------------------------------------------------------------------------
(* The service.  It makes the copy if there is none, and cannot open one   *)
(* that another key encrypts; one of them has the port.                    *)
CanOpen(p) == data \in {NoKey, given[p].key}

ChildComesUp(p) ==
  /\ child[p] = "starting" /\ ender[p] = "nobody" /\ CanOpen(p)
  /\ \A q \in Children : child[q] \notin {"up", "hung"}
  /\ child' = [child EXCEPT ![p] = "up"]
  /\ data' = given[p].key
  /\ UNCHANGED << fileVars, queue, old, lost, locked, requestVars, off, loopVars,
                  proc, given, ender, faults >>

ChildCannot(p) ==
  /\ child[p] = "starting"
  /\ ~CanOpen(p) \/ \E q \in Children : child[q] \in {"up", "hung"}
  /\ child' = [child EXCEPT ![p] = "exited"]
  /\ UNCHANGED << fileVars, copyVars, locked, requestVars, off, loopVars,
                  proc, given, ender, faults >>

(* It is told to end by its pipe, then killed (`_end`), or its pipe ended. *)
ChildEnds(p) ==
  /\ Alive(p) /\ ender[p] # "nobody"
  /\ child' = [child EXCEPT ![p] = "exited"]
  /\ UNCHANGED << fileVars, copyVars, locked, requestVars, off, loopVars,
                  proc, given, ender, faults >>

ChildFails(p) ==
  /\ Alive(p) /\ Fault
  /\ child' \in { [child EXCEPT ![p] = "exited"], [child EXCEPT ![p] = "hung"] }
  /\ UNCHANGED << fileVars, copyVars, locked, requestVars, off, loopVars,
                  proc, given, ender >>

Serving(p) == child[p] = "up" /\ data = given[p].key

Sale(p) ==
  /\ Serving(p) /\ queue < MaxSales
  /\ queue' = queue + 1
  /\ UNCHANGED << fileVars, data, old, lost, locked, requestVars, off, loopVars,
                  childVars, faults >>

Synced(p) ==
  /\ Serving(p) /\ queue > 0
  /\ queue' = queue - 1 /\ old' = IF old = 0 THEN 0 ELSE old - 1
  /\ UNCHANGED << fileVars, data, lost, locked, requestVars, off, loopVars,
                  childVars, faults >>

-----------------------------------------------------------------------------
(* The manager ends, killed or stopped, and starts again; requests go with *)
(* it, and the pipe of its child ends.  A file is locked for a while.      *)
ManagerRestarts ==
  /\ Fault
  /\ act' = [a \in Activations |-> IF act[a] = "new" THEN "new" ELSE "done"]
  /\ off' = "no" /\ old' = 0
  /\ loop' = "load" /\ cfg' = NoConfig /\ onPurpose' = FALSE /\ extra' = NoAnswer
  /\ proc' = NoChild
  /\ ender' = [p \in Children |-> IF Alive(p) THEN "pipe" ELSE ender[p]]
  /\ UNCHANGED << fileVars, data, queue, lost, locked, made, child, given >>

Locks ==
  /\ ~locked /\ Fault /\ locked' = TRUE
  /\ UNCHANGED << fileVars, copyVars, requestVars, off, loopVars, childVars >>

Unlocks ==
  /\ locked /\ locked' = FALSE
  /\ UNCHANGED << fileVars, copyVars, requestVars, off, loopVars, childVars, faults >>

-----------------------------------------------------------------------------
Activates(a) ==
  ActivateLoads(a) \/ ActivateRefused(a) \/ ActivateSaves(a) \/ ActivateFails(a)
SwitchesOff == ForgetSecrets \/ ForgetMark \/ SwitchOffStops \/ SwitchOffEnds
Supervises == \/ LoopLoads \/ LoopProbes \/ LoopStarted \/ LoopStartFails
              \/ LoopHears \/ LoopGivesUp \/ LoopStops \/ LoopRests
              \/ \E p \in Children : LoopSpawns(p)
ChildMoves(p) == ChildComesUp(p) \/ ChildCannot(p) \/ ChildEnds(p)

Next == \/ \E a \in Activations : Activates(a)
        \/ SwitchOffAsks \/ SwitchesOff \/ Supervises
        \/ \E p \in Children : ChildMoves(p) \/ ChildFails(p) \/ Sale(p) \/ Synced(p)
        \/ ManagerRestarts \/ Locks \/ Unlocks

(* Tasks that are ready run, a process told to end ends or is killed, and  *)
(* one that was started comes up.                                          *)
Fairness ==
  /\ WF_vars(Supervises) /\ WF_vars(SwitchesOff) /\ WF_vars(Unlocks)
  /\ \A p \in Children : SF_vars(ChildComesUp(p)) /\ WF_vars(ChildMoves(p))

Spec == Init /\ [][Next]_vars /\ Fairness

-----------------------------------------------------------------------------
FileTypes ==
  /\ active \in BOOLEAN /\ config \in BOOLEAN /\ locked \in BOOLEAN
  /\ secrets \in Secrets \union {NoConfig}
CopyTypes ==
  /\ data \in Activations \union {NoKey}
  /\ queue \in 0 .. MaxSales /\ old \in 0 .. MaxSales
  /\ lost \in {"none", "late", "early"} /\ faults \in 0 .. MaxFaults
RequestTypes ==
  /\ act \in [Activations -> {"new", "save", "configure", "mark", "done"}]
  /\ made \in [Activations -> Activations \union {NoKey}]
  /\ off \in {"no", "forget", "unmark", "stop", "stop only", "stopping", "stopping only"}
LoopTypes ==
  /\ loop \in {"load", "probe", "spawn", "start", "watch", "stop", "ending"}
  /\ cfg \in Secrets \union {NoConfig}
  /\ onPurpose \in BOOLEAN /\ extra \in 0 .. MaxSales \union {NoAnswer}
ChildTypes ==
  /\ proc \in Children \union {NoChild}
  /\ child \in [Children -> {"starting", "up", "hung", "exited"}]
  /\ given \in [Children -> Secrets \union {NoConfig}]
  /\ ender \in [Children -> {"nobody", "off", "loop", "pipe"}]

(* Every variable stays in the set its comment names.                      *)
TypeOK == FileTypes /\ CopyTypes /\ RequestTypes /\ LoopTypes /\ ChildTypes

(* No process of the service runs without somebody to end it: it is the    *)
(* supervisor's, or it is being ended, or its manager has gone.            *)
NobodysChild == \A p \in Children : Alive(p) /\ ender[p] = "nobody" => proc = p

(* The copy of a shop that is switched on can be opened with its key:      *)
(* neither a new token, nor a crash between two files, nor a switch-off    *)
(* while the service starts leaves a key that does not fit.                *)
KeyOpensCopy == active /\ secrets # NoConfig /\ data # NoKey => secrets.key = data

(* No sale is removed that waited when the queue was asked, whoever had to *)
(* be asked.  One made after that is (`lost` = "late").                    *)
LostWereLate == lost # "early"

(* A shop that stays switched on gets its service back, after crashes and  *)
(* hangs of the service, ends of the manager and a new token.              *)
ServiceComesBack ==
  <>[](active /\ CurrentConfig # NoConfig /\ off = "no") => []<>(Answering # {})

(* A shop that stays switched off is left without one, wherever the        *)
(* supervisor was when it was switched off.                                *)
SwitchOffHolds == <>[](~active) => <>[](\A p \in Children : ~Alive(p))
=============================================================================
