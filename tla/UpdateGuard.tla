---------------------------- MODULE UpdateGuard ----------------------------
(***************************************************************************)
(* What keeps an update from killing the manager in the middle of a        *)
(* payment or of a print: the operations in progress and the answer of     *)
(* GET /busy (src/src/services/busy.py, src/src/routes/health.py), the     *)
(* two buttons that start a kill (src/src/routes/system.py), and the       *)
(* installers that ask once more right before it (src/installers/).        *)
(*                                                                         *)
(* Handlers, workers and GET /busy run on one event loop, so an action of  *)
(* theirs is the code between two awaits; installers are other processes.  *)
(* Printers are reduced to what pending_jobs() sees of them: PrinterDevice *)
(* and PrinterRegistry have the rest.                                      *)
(***************************************************************************)
EXTENDS Naturals, FiniteSets

CONSTANTS
  Requests,   (* critical requests: payments, prints, fiscal documents     *)
  Devices,    (* printer objects the registry builds                       *)
  Killers,    (* runs of an installer, presses of a button                 *)
  NoDevice,
  Offline,    (* a shop works offline on this machine                      *)
  Patience    (* bound: looks of a shell at a busy manager                 *)

ASSUME NamesAssumption == NoDevice \notin Devices /\ Patience \in Nat
ASSUME OfflineAssumption == Offline \in BOOLEAN

VARIABLES
  manager,    (* the process; "removed" when it was uninstalled            *)
  silent,     (* its event loop is held by something                       *)
  req,        (* where a critical request is                               *)
  active,     (* BusyTracker._active                                       *)
  job, dev,   (* the print job of a request, and the device it got         *)
  place,      (* what the registry has to do with a device of one printer  *)
  draining,   (* registry._draining                                        *)
  worker,     (* devices whose worker runs                                 *)
  strays,     (* jobs on a device the registry did not give any more when  *)
              (* they were put there, or replaced in the cache under them  *)
  service,    (* the offline service runs                                  *)
  unsent,     (* sales made offline wait on the disk                       *)
  told,       (* what `state.extra` holds of them                          *)
  killer,     (* where a killer is                                         *)
  left,       (* looks a shell still takes                                 *)
  known,      (* what was in progress when a killer was told "free"        *)
  lost        (* what of it was when it killed the manager                 *)

deviceVars == << place, draining, worker >>
workVars == << req, active, job, dev, deviceVars, strays >>
saleVars == << service, unsent, told >>
killVars == << killer, left, known, lost >>
vars == << manager, silent, workVars, saleVars, killVars >>

Init ==
  /\ manager = "up" /\ silent = FALSE
  /\ req = [r \in Requests |-> "new"] /\ active = {}
  /\ job = [r \in Requests |-> "none"] /\ dev = [r \in Requests |-> NoDevice]
  /\ place = [d \in Devices |-> "gone"] /\ draining = {} /\ worker = {}
  /\ strays = {}
  /\ service = FALSE /\ unsent = FALSE /\ told = "unknown"
  /\ killer = [k \in Killers |-> "idle"] /\ left = [k \in Killers |-> 0]
  /\ known = [k \in Killers |-> {}]
  /\ lost = [k \in Killers |-> {}]

-----------------------------------------------------------------------------
(* What is in progress, and what the manager thinks is.                    *)

Queued(d) == { r \in Requests : dev[r] = d /\ job[r] = "queued" }
Writing(d) == { r \in Requests : dev[r] = d /\ job[r] = "writing" }

Working == { r \in Requests : \/ req[r] \in {"held", "connects", "waits"}
                               \/ job[r] \in {"queued", "writing"} }

(* pending_jobs(), as far as it is compared with zero.                     *)
Pending(d) == (d \in worker /\ Queued(d) # {}) \/ Writing(d) # {}

(* registry._devices, of the one printer there is.                         *)
Cached == { d \in Devices : place[d] = "cached" }

(* devices_for_busy(): the devices that have finished are let go.          *)
StillDraining == { d \in draining : Pending(d) }

(* Faulty variant: only the devices that print requests would get.         *)
PrintersPendingCached == \E d \in Cached : Pending(d)

PrintersPending == \E d \in StillDraining \union Cached : Pending(d)

(* The count in the last health answer is used whenever there is one, the  *)
(* disk only when there is none.                                           *)
SalesCounted == IF told = "unknown" THEN unsent ELSE told = "waiting"

(* busy_refusal().                                                         *)
WorkRefused == active # {} \/ PrintersPending
Refused == WorkRefused \/ SalesCounted

-----------------------------------------------------------------------------
(* Critical requests.                                                      *)

Lives == manager \in {"up", "stopping"}
Runs == Lives /\ ~silent

(* guard_critical: held before the handler starts.                         *)
Arrives(r) ==
  /\ Runs /\ manager = "up" /\ req[r] = "new"
  /\ req' = [req EXCEPT ![r] = "held"] /\ active' = active \union {r}
  /\ UNCHANGED << manager, silent, job, dev, deviceVars, strays, saleVars, killVars >>

(* get_device() finds a device that is not connected, and waits for its    *)
(* connect().                                                              *)
Connects(r, d) ==
  /\ Runs /\ req[r] = "held" /\ d \in Cached \ worker
  /\ req' = [req EXCEPT ![r] = "connects"] /\ dev' = [dev EXCEPT ![r] = d]
  /\ UNCHANGED << manager, silent, active, job, deviceVars, strays, saleVars, killVars >>

(* enqueue(), with no await after get_device(): on the cached device, or   *)
(* on the one that was cached when the request began to wait for it.       *)
Submits(r, d) ==
  /\ Runs /\ d \in worker
  /\ \/ req[r] = "held" /\ d \in Cached
     \/ req[r] = "connects" /\ d = dev[r]
  /\ req' = [req EXCEPT ![r] = "waits"]
  /\ job' = [job EXCEPT ![r] = "queued"] /\ dev' = [dev EXCEPT ![r] = d]
  /\ strays' = IF d \in Cached THEN strays ELSE strays \union {r}
  /\ UNCHANGED << manager, silent, active, deviceVars, saleVars, killVars >>

(* Faulty variant: an operation whose client has gone is not taken off.    *)
ReleasedAnswered(r) == IF req[r] = "held" THEN active ELSE active \ {r}

(* The `finally` of hold().                                                *)
Released(r) == active \ {r}

(* The handler returns, or its client leaves and it is cancelled: a job    *)
(* that is in the queue by then stays there.                               *)
Ends(r) ==
  /\ Runs /\ req[r] \in {"held", "connects", "waits"}
  /\ req' = [req EXCEPT ![r] = "over"] /\ active' = Released(r)
  /\ dev' = [dev EXCEPT ![r] = IF req[r] = "connects" THEN NoDevice ELSE @]
  /\ UNCHANGED << manager, silent, job, deviceVars, strays, saleVars, killVars >>

-----------------------------------------------------------------------------
(* Printers.                                                               *)

AreOver(R) ==
  /\ job' = [r \in Requests |-> IF r \in R THEN "over" ELSE job[r]]
  /\ dev' = [r \in Requests |-> IF r \in R THEN NoDevice ELSE dev[r]]
  /\ strays' = strays \ R

(* get_device() misses and builds a device of its own: the cache may well  *)
(* be filled by another one while it connects.  A name is used again once  *)
(* nothing refers to its device.                                           *)
Builds(d) ==
  /\ Runs /\ Cached = {}
  /\ place[d] = "gone" /\ d \notin draining \union worker
  /\ \A r \in Requests : dev[r] # d
  /\ place' = [place EXCEPT ![d] = "built"]
  /\ UNCHANGED << manager, silent, req, active, job, dev, draining, worker, strays,
                  saleVars, killVars >>

(* It goes to the cache, connected or not, over whatever is there: nobody  *)
(* drops or disconnects the device that stood there.                       *)
Stores(d) ==
  /\ Runs /\ place[d] = "built"
  /\ place' = [e \in Devices |-> IF e = d THEN "cached"
                                 ELSE IF e \in Cached THEN "replaced" ELSE place[e]]
  /\ worker' \in {worker, worker \union {d}}
  /\ strays' = strays \union { r \in Requests : job[r] \in {"queued", "writing"}
                                               /\ dev[r] \in Cached }
  /\ UNCHANGED << manager, silent, req, active, job, dev, draining, saleVars, killVars >>

(* Its client left, and get_device() was cancelled with the handler.       *)
BuildAbandoned(d) ==
  /\ Runs /\ place[d] = "built"
  /\ place' = [place EXCEPT ![d] = "gone"]
  /\ UNCHANGED << manager, silent, req, active, job, dev, draining, worker, strays,
                  saleVars, killVars >>

(* connect() of a device that is in the cache, or was when a request began *)
(* to wait for it; disconnect() has not begun (`_retired`).                *)
Opens(d) ==
  /\ Runs /\ d \notin worker
  /\ place[d] \in {"cached", "replaced", "dropped"}
  /\ d \in Cached \/ \E r \in Requests : req[r] = "connects" /\ dev[r] = d
  /\ worker' = worker \union {d}
  /\ UNCHANGED << manager, silent, req, active, job, dev, place, draining, strays,
                  saleVars, killVars >>

Takes(r) ==
  /\ Runs /\ job[r] = "queued" /\ dev[r] \in worker /\ Writing(dev[r]) = {}
  /\ job' = [job EXCEPT ![r] = "writing"]
  /\ UNCHANGED << manager, silent, req, active, dev, deviceVars, strays,
                  saleVars, killVars >>

(* The write ends on its thread.                                           *)
Written(r) ==
  /\ Lives /\ job[r] = "writing"
  /\ AreOver({r})
  /\ UNCHANGED << manager, silent, req, active, deviceVars, saleVars, killVars >>

(* It fails: the worker exits, and fails what waits behind it.             *)
WorkerEnds(d) ==
  /\ Runs /\ d \in worker /\ Writing(d) # {}
  /\ AreOver(Writing(d) \union Queued(d)) /\ worker' = worker \ {d}
  /\ UNCHANGED << manager, silent, req, active, place, draining, saleVars, killVars >>

(* register(), unregister(): the device is dropped from the cache, and     *)
(* disconnect() comes later.                                               *)
Drops(d) ==
  /\ Runs /\ d \in Cached
  /\ draining' = draining \union {d}
  /\ place' = [place EXCEPT ![d] = "dropped"]
  /\ UNCHANGED << manager, silent, req, active, job, dev, worker, strays, saleVars, killVars >>

(* It fails what is queued, and cannot stop a write.                       *)
Disconnects(d) ==
  /\ Runs /\ place[d] = "dropped"
  /\ place' = [place EXCEPT ![d] = "gone"]
  /\ AreOver(Queued(d)) /\ worker' = worker \ {d}
  /\ UNCHANGED << manager, silent, req, active, draining, saleVars, killVars >>

-----------------------------------------------------------------------------
(* Sales made offline, as far as busy_refusal() hears of them: OfflineShop *)
(* has their queue.                                                        *)

Count == IF unsent THEN "waiting" ELSE "empty"

(* It is supervised by the manager, which remembers its first answer.      *)
ServiceStarts ==
  /\ Offline /\ Runs /\ manager = "up" /\ ~service
  /\ service' = TRUE /\ told' = Count
  /\ UNCHANGED << manager, silent, unsent, workVars, killVars >>

(* `_remember`: a health answer of the service.                            *)
HealthHeard ==
  /\ Runs /\ service /\ told' = Count
  /\ UNCHANGED << manager, silent, service, unsent, workVars, killVars >>

(* It crashes or is stopped: what it said last stays in `state.extra`.     *)
ServiceStops ==
  /\ service /\ service' = FALSE
  /\ UNCHANGED << manager, silent, unsent, told, workVars, killVars >>

SaleMade ==
  /\ service /\ ~unsent /\ unsent' = TRUE
  /\ UNCHANGED << manager, silent, service, told, workVars, killVars >>
SalesSent ==
  /\ service /\ unsent /\ unsent' = FALSE
  /\ UNCHANGED << manager, silent, service, told, workVars, killVars >>

-----------------------------------------------------------------------------
(* Killers.                                                                *)

(* Strays whose client has gone: neither the tracker nor the devices of    *)
(* devices_for_busy() show them.                                           *)
Overlooked == { r \in strays : req[r] = "over" }

(* It goes on; what it knows of is what was in progress when it was        *)
(* answered, except what the registry had lost sight of.                   *)
Goes(k, phase, answered) ==
  /\ killer' = [killer EXCEPT ![k] = phase]
  /\ known' = [known EXCEPT ![k] = IF answered THEN Working \ Overlooked ELSE {}]

OthersStay == UNCHANGED << manager, silent, req, active, job, dev, place, worker, strays,
                           saleVars, lost >>

(* POST /system/update: the updater is started; it is a shell that asks    *)
(* later.  On Windows the answer is an address, and nothing is started.    *)
PressUpdate(k) ==
  /\ Runs /\ manager = "up" /\ killer[k] = "idle" /\ ~Refused
  /\ draining' = StillDraining
  /\ killer' = [killer EXCEPT ![k] = "asks"]
  /\ UNCHANGED << left, known >> /\ OthersStay

(* An installer is as well run by hand; on Windows it is a wizard.         *)
RunByHand(k) ==
  /\ killer[k] = "idle"
  /\ killer' \in { [killer EXCEPT ![k] = "asks"], [killer EXCEPT ![k] = "wizard"] }
  /\ UNCHANGED << draining, left, known >> /\ OthersStay

(* POST /system/uninstall asks for itself, and its script never does.      *)
PressUninstall(k) ==
  /\ Runs /\ manager = "up" /\ killer[k] = "idle" /\ ~Refused
  /\ draining' = StillDraining
  /\ Goes(k, "uninstalls", TRUE) /\ UNCHANGED left /\ OthersStay

(* `manager_busy`: no listener is free, a silent one is busy.              *)
LooksBusy == manager = "up" /\ (silent \/ Refused)
Answers == manager = "up" /\ ~silent

(* Looking is what lets devices go that have finished.                     *)
Looks == draining' = IF Answers THEN StillDraining ELSE draining

ShellAsks(k) ==
  /\ killer[k] = "asks" /\ Looks
  /\ IF LooksBusy
       THEN /\ killer' = [killer EXCEPT ![k] = "waits"]
            /\ left' = [left EXCEPT ![k] = Patience]
            /\ UNCHANGED << known >>
       ELSE Goes(k, "kills", manager = "up") /\ UNCHANGED left
  /\ OthersStay

(* Faulty variant: it looks until it finds the manager free.               *)
ShellWaitsOn(k) ==
  /\ killer[k] = "waits" /\ Looks
  /\ IF LooksBusy THEN UNCHANGED << killer, left, known >>
       ELSE Goes(k, "kills", manager = "up") /\ UNCHANGED left
  /\ OthersStay

(* `wait_until_manager_free`: every three seconds, four minutes at most.   *)
ShellWaits(k) ==
  /\ killer[k] = "waits"
  /\ IF left[k] = 0
       THEN Goes(k, "kills", FALSE) /\ UNCHANGED << left, draining >>
     ELSE /\ Looks
          /\ IF LooksBusy
               THEN /\ left' = [left EXCEPT ![k] = left[k] - 1]
                    /\ UNCHANGED << killer, known >>
               ELSE Goes(k, "kills", manager = "up") /\ UNCHANGED left
  /\ OthersStay

(* ManagerBusyReason: no answer, for whatever reason, is free.             *)
WizardAsks(k) ==
  /\ killer[k] = "wizard" /\ Looks
  /\ IF Answers /\ Refused
       THEN killer' = [killer EXCEPT ![k] = "idle"] /\ UNCHANGED << known >>
       ELSE Goes(k, "kills at once", Answers)
  /\ UNCHANGED left /\ OthersStay

Terminators == { k \in Killers : killer[k] \in {"ends", "removes"} }

(* The process ends, by the will of the killers K.                         *)
GoesDown(K) ==
  /\ manager' = IF \E k \in K : killer[k] = "removes" THEN "removed" ELSE "down"
  /\ silent' = FALSE
  /\ service' = FALSE /\ told' = "unknown" /\ UNCHANGED unsent
  /\ lost' = [k \in Killers |-> IF k \in K THEN Working \intersect known[k] ELSE lost[k]]
  /\ killer' = [k \in Killers |-> IF k \in K THEN "done" ELSE killer[k]]
  /\ req' = [r \in Requests |-> IF req[r] = "new" THEN "new" ELSE "over"]
  /\ active' = {} /\ AreOver(Working)
  /\ place' = [d \in Devices |-> "gone"] /\ draining' = {} /\ worker' = {}
  /\ UNCHANGED << left, known >>

(* taskkill /F.                                                            *)
WizardKills(k) == killer[k] = "kills at once" /\ Lives /\ GoesDown(Terminators \union {k})

(* SIGTERM: no new requests, those in progress may end.  A shell goes on   *)
(* to SIGKILL, an uninstall leaves it at that.                             *)
Terminates(k) ==
  /\ killer[k] \in {"kills", "uninstalls"} /\ Lives
  /\ manager' = "stopping"
  /\ killer' = [killer EXCEPT ![k] = IF @ = "kills" THEN "ends" ELSE "removes"]
  /\ UNCHANGED << silent, workVars, saleVars, left, known, lost >>

(* SIGKILL, ten seconds later.                                             *)
ShellKills(k) == killer[k] = "ends" /\ GoesDown(Terminators)

(* The shutdown of the server: requests have ended, jobs without a client  *)
(* are cancelled.                                                          *)
Exits == Runs /\ manager = "stopping" /\ active = {} /\ GoesDown(Terminators)

(* It ends by itself, or the machine does.                                 *)
Crashes == Lives /\ GoesDown(Terminators)

NothingToKill(k) ==
  /\ killer[k] \in {"kills", "kills at once", "uninstalls"} /\ ~Lives
  /\ killer' = [killer EXCEPT ![k] = "done"]
  /\ UNCHANGED << manager, silent, workVars, saleVars, left, known, lost >>

(* The installer, or the system, starts it again.                          *)
Starts ==
  /\ manager = "down" /\ manager' = "up"
  /\ UNCHANGED << silent, workVars, saleVars, killVars >>

(* A call that does not return, on the event loop.                         *)
GoesSilent ==
  /\ Runs /\ silent' = TRUE
  /\ UNCHANGED << manager, workVars, saleVars, killVars >>
SpeaksAgain ==
  /\ silent /\ silent' = FALSE
  /\ UNCHANGED << manager, workVars, saleVars, killVars >>

-----------------------------------------------------------------------------
KillerMoves(k) == \/ ShellAsks(k) \/ ShellWaits(k) \/ ShellKills(k)
                  \/ WizardAsks(k) \/ WizardKills(k)
                  \/ Terminates(k) \/ NothingToKill(k)
Handles(r) == \/ Arrives(r) \/ Ends(r) \/ Takes(r) \/ Written(r)
              \/ \E d \in Devices : Connects(r, d) \/ Submits(r, d)
PrinterMoves(d) == \/ Builds(d) \/ Stores(d) \/ BuildAbandoned(d) \/ Opens(d)
                   \/ WorkerEnds(d) \/ Drops(d) \/ Disconnects(d)
SalesMove == ServiceStarts \/ HealthHeard \/ ServiceStops \/ SaleMade \/ SalesSent

Next == \/ \E r \in Requests : Handles(r)
        \/ \E d \in Devices : PrinterMoves(d)
        \/ \E k \in Killers : \/ PressUpdate(k) \/ PressUninstall(k) \/ RunByHand(k)
                              \/ KillerMoves(k)
        \/ SalesMove \/ GoesSilent \/ SpeaksAgain \/ Exits \/ Crashes \/ Starts

(* Handlers and writes end, nothing holds the loop for ever, and           *)
(* installers run.  Of the offline service nothing is assumed.             *)
Works == \E r \in Requests : Ends(r) \/ Takes(r) \/ Written(r)
Fairness == /\ SF_vars(Works) /\ WF_vars(SpeaksAgain)
            /\ \A k \in Killers : WF_vars(KillerMoves(k))

Spec == Init /\ [][Next]_vars /\ Fairness

-----------------------------------------------------------------------------
(* Every variable stays in the set its comment names.                      *)
TypeOK ==
  /\ manager \in {"up", "stopping", "down", "removed"}
  /\ silent \in BOOLEAN
  /\ service \in BOOLEAN /\ unsent \in BOOLEAN /\ told \in {"unknown", "empty", "waiting"}
  /\ req \in [Requests -> {"new", "held", "connects", "waits", "over"}]
  /\ active \in SUBSET Requests
  /\ job \in [Requests -> {"none", "queued", "writing", "over"}]
  /\ dev \in [Requests -> Devices \union {NoDevice}]
  /\ place \in [Devices -> {"gone", "built", "cached", "replaced", "dropped"}]
  /\ draining \in SUBSET Devices /\ worker \in SUBSET Devices
  /\ strays \in SUBSET Requests
  /\ killer \in [Killers -> {"idle", "asks", "waits", "wizard", "kills", "kills at once",
                             "uninstalls", "ends", "removes", "done"}]
  /\ left \in [Killers -> 0 .. Patience]
  /\ known \in [Killers -> SUBSET Requests] /\ lost \in [Killers -> SUBSET Requests]

(* A killer that was told "free" destroys nothing that was in progress     *)
(* when it asked: no payment, and no print, also when its client has gone  *)
(* or its printer was dropped under it.  Two kinds of print are outside of *)
(* this, those of Overlooked: GET /busy does not see a job whose client    *)
(* has left when the device it is on lost its place in the cache, or was   *)
(* dropped before the job came to it (busy.py:234-237 says that it does).  *)
(* What began after the answer may be lost too.                            *)
LostWasLate == \A k \in Killers : lost[k] = {}

(* What the manager works on does not hold an update up for ever: neither  *)
(* a request that failed, nor a client that left, nor a worker that died.  *)
WorkRefusalEnds == WorkRefused ~> ~WorkRefused

(* An installer that was started gets through, whatever the manager does.  *)
InstallerGetsThrough == \A k \in Killers : killer[k] = "asks" ~> killer[k] = "done"

(* A service that is down is not asked: its queue is on the disk, and an   *)
(* update stays possible when something is broken (busy.py:286-288).  The  *)
(* count of its last health answer is used instead, while it stays down.   *)
StoppedServiceIsRead == manager = "up" /\ ~service => (SalesCounted <=> unsent)
=============================================================================
