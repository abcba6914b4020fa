-------------------------- MODULE PrinterRegistry --------------------------
(***************************************************************************)
(* The registry of printers: class PrinterRegistry of                      *)
(* src/src/devices/registry.py, with its callers: the watcher that opens   *)
(* printers every 15 seconds (src/src/server.py) and the handlers that     *)
(* print, register and ask GET /busy.                                      *)
(*                                                                         *)
(* One printer id, for the registry keeps nothing that relates two of      *)
(* them.  The device objects built for it are abstracted to what the       *)
(* registry sees of PrinterDevice: its lock, its handle, its queue and its *)
(* running write.  An action is the code between two awaits.               *)
(***************************************************************************)
EXTENDS Naturals, Sequences, FiniteSets

CONSTANTS
  Handlers,      (* HTTP requests that print, each one after another       *)
  Watcher,       (* the task `printer-connect`                             *)
  Devices,       (* PrinterDevice objects; an unreachable one is used again*)
  NoDevice,
  Nobody,
  MaxVersion,    (* bound: how often the printer is registered             *)
  Exclusive      (* the printer can be opened by one handle at a time (USB)*)

ASSUME NamesAssumption ==
  Watcher \notin Handlers /\ NoDevice \notin Devices /\ Nobody \notin Handlers \union {Watcher}
ASSUME ParameterAssumption == MaxVersion \in Nat /\ Exclusive \in BOOLEAN

Callers == Handlers \union {Watcher}

VARIABLES
  registered,    (* the id is in `_registrations`                          *)
  version,       (* which registration that is, or was                     *)
  cached,        (* `_devices[id]`                                         *)
  draining,      (* `_draining`                                            *)
  drop,          (* how far disconnect() of a dropped device has come       *)
  built,         (* the registration a device was built from               *)
  conn,          (* the device has a handle: `is_connected()`              *)
  claimed,       (* the operating system has a handle open for the device  *)
  lock,          (* who is in `_connect_lock` or waits for it, in turn     *)
  queue,         (* the requests whose jobs wait in the device             *)
  writing,       (* the request whose bytes are being written              *)
  at,            (* where a caller is                                      *)
  dev,           (* the device it has in its hand                          *)
  fresh,         (* it built that device itself                            *)
  powered        (* the printer is switched on                             *)

vars == << registered, version, cached, draining, drop, built, conn, claimed,
           lock, queue, writing, at, dev, fresh, powered >>

registrationVars == << registered, version >>
cacheVars  == << cached, draining, drop >>
deviceVars == << conn, claimed, lock >>
jobVars    == << queue, writing >>
callerVars == << dev, fresh >>

Init ==
  /\ registered \in BOOLEAN /\ version = 0
  /\ cached = NoDevice /\ draining = {} /\ drop = [d \in Devices |-> "no"]
  /\ built = [d \in Devices |-> 0]
  /\ conn = [d \in Devices |-> FALSE] /\ claimed = [d \in Devices |-> FALSE]
  /\ lock = [d \in Devices |-> << >>]
  /\ queue = [d \in Devices |-> << >>] /\ writing = [d \in Devices |-> Nobody]
  /\ at = [c \in Callers |-> "idle"] /\ dev = [c \in Callers |-> NoDevice]
  /\ fresh = [c \in Callers |-> FALSE]
  /\ powered \in BOOLEAN

-----------------------------------------------------------------------------
(* `pending_jobs() > 0`: a queue somebody serves, or a running write.      *)
Pending(d) == (conn[d] /\ queue[d] # << >>) \/ writing[d] # Nobody

(* `devices_for_busy`: what GET /busy looks at, and the pruning it does.   *)
DevicesForBusy == (IF cached = NoDevice THEN {} ELSE {cached})
                  \union { d \in draining : Pending(d) }

Holds(c, d) == at[c] # "idle" /\ dev[c] = d

(* `_retired`                                                              *)
Retired(d) == drop[d] \in {"retired", "closed"}

(* A device object nothing refers to any more.                             *)
Unreachable(d) ==
  /\ d # cached /\ d \notin draining /\ drop[d] \in {"no", "closed"}
  /\ writing[d] = Nobody /\ queue[d] = << >>
  /\ \A c \in Callers : ~Holds(c, d)

(* Faulty variants: the device is looked up and not taken out; the draining*)
(* device is not remembered; the task that disconnects it is not kept.     *)
DropCachedLeft ==
  /\ UNCHANGED cached
  /\ draining' = draining \union ({cached} \intersect Devices)
  /\ drop' = [d \in Devices |-> IF d = cached THEN "asked" ELSE drop[d]]
DropCachedUnseen ==
  /\ cached' = NoDevice /\ UNCHANGED draining
  /\ drop' = [d \in Devices |-> IF d = cached THEN "asked" ELSE drop[d]]
DropCachedUnkept ==
  /\ cached' = NoDevice /\ UNCHANGED drop
  /\ draining' = draining \union ({cached} \intersect Devices)

(* `_drop_cached_device`                                                   *)
DropCached ==
  /\ cached' = NoDevice
  /\ draining' = draining \union ({cached} \intersect Devices)
  /\ drop' = [d \in Devices |-> IF d = cached THEN "asked" ELSE drop[d]]

-----------------------------------------------------------------------------
(* The operator.                                                           *)

Register ==
  /\ version < MaxVersion
  /\ version' = version + 1 /\ registered' = TRUE
  /\ DropCached
  /\ UNCHANGED << built, deviceVars, jobVars, at, callerVars, powered >>

Unregister ==
  /\ registered
  /\ registered' = FALSE
  /\ DropCached
  /\ UNCHANGED << version, built, deviceVars, jobVars, at, callerVars, powered >>

PollBusy ==
  /\ draining' = draining \intersect DevicesForBusy
  /\ UNCHANGED << registrationVars, cached, drop, built, deviceVars, jobVars, at,
                  callerVars, powered >>

SwitchPower ==
  /\ powered' = ~powered
  /\ UNCHANGED << registrationVars, cacheVars, built, deviceVars, jobVars, at,
                  callerVars >>

-----------------------------------------------------------------------------
(* get_device() and what its caller does next, up to the next await: the   *)
(* watcher goes on, a handler puts its job in the queue, or answers 503.   *)
Granted(c, d, open) ==
  IF c # Watcher /\ open
    THEN /\ queue' = [queue EXCEPT ![d] = Append(@, c)]
         /\ at' = [at EXCEPT ![c] = "waiting"]
         /\ dev' = [dev EXCEPT ![c] = d]
    ELSE /\ at' = [at EXCEPT ![c] = "idle"]
         /\ dev' = [dev EXCEPT ![c] = NoDevice]
         /\ UNCHANGED queue

(* connect() is inside the lock at once, or queues behind those before it. *)
Enters(c, d) ==
  /\ dev' = [dev EXCEPT ![c] = d]
  /\ at' = [at EXCEPT ![c] = IF lock[d] = << >> THEN "opening" ELSE "connecting"]
  /\ lock' = [lock EXCEPT ![d] = Append(@, c)]

(* Faulty variant: a cached device is handed back as it is.                *)
AskCachedAsIs(c) ==
  /\ at[c] = "idle" /\ registered /\ cached # NoDevice
  /\ Granted(c, cached, conn[cached])
  /\ UNCHANGED << registrationVars, cacheVars, built, deviceVars, writing, fresh, powered >>

(* The device is in the cache.                                             *)
AskCached(c) ==
  /\ at[c] = "idle" /\ registered /\ cached # NoDevice
  /\ fresh' = [fresh EXCEPT ![c] = FALSE]
  /\ IF conn[cached]
       THEN Granted(c, cached, TRUE) /\ UNCHANGED lock
       ELSE Enters(c, cached) /\ UNCHANGED queue
  /\ UNCHANGED << registrationVars, cacheVars, built, conn, claimed, writing, powered >>

(* The memory of an unreachable device is used again; which, is no matter. *)
Unbuilt == { d \in Devices : Unreachable(d) /\ ~claimed[d] }
NewDevice == CHOOSE d \in Unbuilt : TRUE

(* It is not: a new one is built, and comes into the cache after connect().*)
AskBuilt(c, d) ==
  /\ at[c] = "idle" /\ registered /\ cached = NoDevice
  /\ Unbuilt # {} /\ d = NewDevice
  /\ built' = [built EXCEPT ![d] = version]
  /\ drop' = [drop EXCEPT ![d] = "no"]
  /\ fresh' = [fresh EXCEPT ![c] = TRUE]
  /\ Enters(c, d)
  /\ UNCHANGED << registrationVars, cached, draining, conn, claimed, jobVars, powered >>

(* connect() has answered: get_device() stores the device it built.        *)
Returns(c, open) ==
  /\ lock' = [lock EXCEPT ![dev[c]] = Tail(@)]
  /\ cached' = IF fresh[c] THEN dev[c] ELSE cached
  /\ fresh' = [fresh EXCEPT ![c] = FALSE]
  /\ Granted(c, dev[c], open)

(* Its turn has come: a retired device stays closed, one that another      *)
(* caller has opened is open.                                              *)
NextInLock(c) == at[c] = "connecting" /\ Head(lock[dev[c]]) = c

ConnectAtOnce(c) ==
  /\ NextInLock(c)
  /\ Retired(dev[c]) \/ conn[dev[c]]
  /\ Returns(c, conn[dev[c]])
  /\ UNCHANGED << registrationVars, draining, drop, built, conn, claimed,
                  writing, powered >>

ConnectBegins(c) ==
  /\ NextInLock(c)
  /\ ~Retired(dev[c]) /\ ~conn[dev[c]]
  /\ at' = [at EXCEPT ![c] = "opening"]
  /\ UNCHANGED << registrationVars, cacheVars, built, deviceVars, jobVars,
                  callerVars, powered >>

(* The printer answers if it is on and, on USB, not held by another handle.*)
CanOpen(d) == powered /\ (Exclusive => \A e \in Devices \ {d} : ~claimed[e])

ConnectEnds(c) ==
  /\ at[c] = "opening"
  /\ LET d == dev[c] IN
       /\ conn' = [conn EXCEPT ![d] = CanOpen(d)]
       /\ claimed' = [claimed EXCEPT ![d] = CanOpen(d)]
       /\ Returns(c, CanOpen(d))
  /\ UNCHANGED << registrationVars, draining, drop, built, writing, powered >>

-----------------------------------------------------------------------------
(* The devices.                                                            *)

QueuedIn(d) == { queue[d][i] : i \in DOMAIN queue[d] }

Answered(cs) ==
  /\ at' = [c \in Callers |-> IF c \in cs THEN "idle" ELSE at[c]]
  /\ dev' = [c \in Callers |-> IF c \in cs THEN NoDevice ELSE dev[c]]

TakeJob(d) ==
  /\ conn[d] /\ writing[d] = Nobody /\ queue[d] # << >>
  /\ writing' = [writing EXCEPT ![d] = Head(queue[d])]
  /\ queue' = [queue EXCEPT ![d] = Tail(@)]
  /\ UNCHANGED << registrationVars, cacheVars, built, deviceVars, at, callerVars,
                  powered >>

(* The write ends.  A handle given up meanwhile is closed behind it.       *)
WriteEnds(d) ==
  /\ writing[d] # Nobody
  /\ writing' = [writing EXCEPT ![d] = Nobody]
  /\ claimed' = [claimed EXCEPT ![d] = conn[d]]
  /\ Answered({writing[d]})
  /\ UNCHANGED << registrationVars, cacheVars, built, conn, lock, queue,
                  fresh, powered >>

(* The write dies with the connection: everybody in the queue is told.     *)
ConnectionLost(d) ==
  /\ writing[d] # Nobody /\ conn[d]
  /\ writing' = [writing EXCEPT ![d] = Nobody]
  /\ queue' = [queue EXCEPT ![d] = << >>]
  /\ conn' = [conn EXCEPT ![d] = FALSE]
  /\ claimed' = [claimed EXCEPT ![d] = FALSE]
  /\ Answered(QueuedIn(d) \union {writing[d]})
  /\ UNCHANGED << registrationVars, cacheVars, built, lock, fresh,
                  powered >>

(* A connect() is inside the lock.  What still waits for it when the device *)
(* is retired changes nothing, before or after disconnect().               *)
Opening(d) == \E c \in Callers : at[c] = "opening" /\ dev[c] = d

(* disconnect() of a dropped device, first up to its lock, then inside it. *)
DropRetires(d) ==
  /\ drop[d] = "asked"
  /\ drop' = [drop EXCEPT ![d] = "retired"]
  /\ UNCHANGED << registrationVars, cached, draining, built, conn, claimed, lock,
                  jobVars, at, callerVars, powered >>

(* Faulty variant: the queue is left to a worker that is gone.             *)
DropClosesQueueLeft(d) ==
  /\ drop[d] = "retired" /\ ~Opening(d)
  /\ drop' = [drop EXCEPT ![d] = "closed"]
  /\ conn' = [conn EXCEPT ![d] = FALSE]
  /\ claimed' = [claimed EXCEPT ![d] = @ /\ writing[d] # Nobody]
  /\ UNCHANGED << registrationVars, cached, draining, built, lock, queue,
                  writing, at, callerVars, powered >>

DropCloses(d) ==
  /\ drop[d] = "retired" /\ ~Opening(d)
  /\ drop' = [drop EXCEPT ![d] = "closed"]
  /\ conn' = [conn EXCEPT ![d] = FALSE]
  /\ claimed' = [claimed EXCEPT ![d] = @ /\ writing[d] # Nobody]
  /\ queue' = [queue EXCEPT ![d] = << >>]
  /\ Answered(QueuedIn(d))
  /\ UNCHANGED << registrationVars, cached, draining, built, lock, writing,
                  fresh, powered >>

(* Python may collect an object nothing refers to, and its handle closes.  *)
Collected(d) ==
  /\ Unreachable(d) /\ claimed[d]
  /\ conn' = [conn EXCEPT ![d] = FALSE]
  /\ claimed' = [claimed EXCEPT ![d] = FALSE]
  /\ UNCHANGED << registrationVars, cacheVars, built, lock, jobVars, at,
                  callerVars, powered >>

-----------------------------------------------------------------------------
Asks(c) == AskCached(c) \/ \E d \in Devices : AskBuilt(c, d)
Connects(c) == ConnectAtOnce(c) \/ ConnectBegins(c) \/ ConnectEnds(c)
Works(d) == TakeJob(d) \/ WriteEnds(d) \/ ConnectionLost(d)
Drops(d) == DropRetires(d) \/ DropCloses(d)

Next == \/ Register \/ Unregister \/ PollBusy \/ SwitchPower
        \/ \E c \in Callers : Asks(c) \/ Connects(c)
        \/ \E d \in Devices : Works(d) \/ Drops(d) \/ Collected(d)

(* Tasks that are ready run, connect() has a ceiling of ten seconds and a  *)
(* write its time limit, and the watcher comes back every 15 seconds.      *)
Fairness ==
  /\ WF_vars(Asks(Watcher))
  /\ \A c \in Callers : WF_vars(Connects(c))
  /\ \A d \in Devices : WF_vars(Works(d)) /\ WF_vars(Drops(d))

Spec == Init /\ [][Next]_vars /\ Fairness

-----------------------------------------------------------------------------
(* Every variable stays in the set its comment names.                      *)
TypeOK ==
  /\ registered \in BOOLEAN /\ version \in 0 .. MaxVersion
  /\ cached \in Devices \union {NoDevice}
  /\ draining \subseteq Devices
  /\ drop \in [Devices -> {"no", "asked", "retired", "closed"}]
  /\ built \in [Devices -> 0 .. MaxVersion]
  /\ conn \in [Devices -> BOOLEAN] /\ claimed \in [Devices -> BOOLEAN]
  /\ lock \in [Devices -> Seq(Callers)]
  /\ queue \in [Devices -> Seq(Handlers)]
  /\ writing \in [Devices -> Handlers \union {Nobody}]
  /\ at \in [Callers -> {"idle", "connecting", "opening", "waiting"}]
  /\ dev \in [Callers -> Devices \union {NoDevice}]
  /\ fresh \in [Callers -> BOOLEAN]
  /\ powered \in BOOLEAN

(* Nobody gets a device from the cache that a registration has dropped:    *)
(* on such a one every print would fail until the manager is restarted.    *)
CachedIsLive == cached # NoDevice => drop[cached] = "no"

(* Neither a registration nor GET /busy itself hides a device that writes: *)
(* one that is looked at stays so until it has written, unless another     *)
(* get_device() puts its own device in its place.                          *)
WriterStaysVisible ==
  [][\A d \in DevicesForBusy :
       (writing[d] # Nobody /\ writing'[d] = writing[d])
         => d \in DevicesForBusy' \/ (d = cached /\ cached' \in Devices)]_vars

(* A request that prints is answered, whoever drops its printer meanwhile. *)
EveryRequestEnds == \A c \in Handlers : at[c] # "idle" ~> at[c] = "idle"

(* A device that was dropped gives its handle back.                        *)
DroppedReleases == \A d \in Devices : d \in draining ~> ~claimed[d]

(* A printer that stays on and registered is opened by the watcher, without*)
(* a print, whatever was registered, dropped or lost before.               *)
WatcherReconnects ==
  <>[](powered /\ registered) => []<>(cached # NoDevice /\ conn[cached])
=============================================================================
