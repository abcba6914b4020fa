---------------------------- MODULE SystemProofs ----------------------------
(***************************************************************************)
(* What the two parts behind the routes of the system page                 *)
(* (src/src/routes/system.py) promise, for any values of the constants.    *)
(*                                                                         *)
(* UpdateGuard: as long as something is in progress that the registry has  *)
(* not lost sight of, the manager refuses, so that whoever was told "free" *)
(* destroys nothing of it.                                                 *)
(*                                                                         *)
(* UplinkSession, as U: an open session is the one that the manager holds, *)
(* that the configuration knows of, and that business events go through;   *)
(* and a log line is lost only with the client it waits at.                *)
(***************************************************************************)
EXTENDS UpdateGuard, SessionState, Sequences, TLAPS

(* Every request in progress is held.                                      *)
HeldInv == \A r \in Requests : req[r] \in {"held", "connects", "waits"} => r \in active

(* A request has no job before it submits one.                             *)
BlankInv == \A r \in Requests : req[r] \in {"new", "held", "connects"} => job[r] = "none"

(* Every job that is no stray is on a device that devices_for_busy()       *)
(* gives, and one that waits has a worker that will take it.               *)
JobInv == \A r \in Requests :
  /\ job[r] \in {"queued", "writing"} =>
       dev[r] \in Devices /\ (r \in strays \/ dev[r] \in draining \union Cached)
  /\ job[r] = "queued" => dev[r] \in worker

(* Nobody knows of anything in progress.                                   *)
KnownInv == \A k \in Killers : known[k] = {} /\ lost[k] = {}

GuardInv == TypeOK /\ HeldInv /\ BlankInv /\ JobInv /\ KnownInv

(* A manager that works on something refuses, unless it overlooks it.      *)
LEMMA FreeIsIdle ==
  ASSUME TypeOK, HeldInv, BlankInv, JobInv, ~WorkRefused
  PROVE  Working \ Overlooked = {}
<1>1. SUFFICES ASSUME NEW r \in Working \ Overlooked PROVE FALSE OBVIOUS
<1>2. r \in Requests /\ active = {} /\ ~PrintersPending BY <1>1 DEF Working, WorkRefused
<1>3. req[r] \in {"new", "over"} BY <1>2 DEF TypeOK, HeldInv
<1>4. job[r] \in {"queued", "writing"} BY <1>1, <1>3 DEF Working
<1>5. r \notin strays
  <2>1. CASE req[r] = "new" BY <1>1, <2>1, <1>4, <1>2 DEF BlankInv
  <2>2. QED BY <1>1, <1>3, <2>1 DEF Overlooked
<1>6. Pending(dev[r]) BY <1>2, <1>4 DEF JobInv, Pending, Queued, Writing
<1>7. dev[r] \in StillDraining \union Cached
  BY <1>2, <1>4, <1>5, <1>6 DEF JobInv, StillDraining
<1>8. QED BY <1>2, <1>6, <1>7 DEF PrintersPending

(* Letting go of the devices that have finished keeps every job in sight.  *)
LEMMA LooksKeeps ==
  ASSUME JobInv, draining' \in {draining, StillDraining},
         UNCHANGED << job, dev, place, worker, strays >>
  PROVE  JobInv'
<1>1. SUFFICES ASSUME NEW r \in Requests, job[r] \in {"queued", "writing"}, r \notin strays
               PROVE  dev[r] \in draining' \union Cached
  BY DEF JobInv, Cached
<1>2. dev[r] \in draining \union Cached BY <1>1 DEF JobInv
<1>3. Pending(dev[r]) BY <1>1 DEF JobInv, Pending, Queued, Writing
<1>4. QED BY <1>2, <1>3 DEF StillDraining

(* Nothing of what the manager works on survives it.                       *)
LEMMA DownIsIdle ==
  ASSUME GuardInv, NEW K \in SUBSET Killers, GoesDown(K)
  PROVE  GuardInv'
<1>1. TypeOK'
  BY NamesAssumption DEF GuardInv, TypeOK, GoesDown, AreOver, Working
<1>2. HeldInv' /\ BlankInv'
  <2>1. HeldInv' BY DEF GuardInv, TypeOK, GoesDown, HeldInv
  <2>2. BlankInv' BY DEF GuardInv, TypeOK, GoesDown, BlankInv, AreOver, Working
  <2>3. QED BY <2>1, <2>2
<1>3. JobInv'
  <2>1. \A r \in Requests : job'[r] \notin {"queued", "writing"}
    BY DEF GuardInv, TypeOK, GoesDown, AreOver, Working
  <2>2. QED BY <2>1 DEF JobInv
<1>4. KnownInv' BY DEF GuardInv, KnownInv, GoesDown, TypeOK
<1>5. QED BY <1>1, <1>2, <1>3, <1>4 DEF GuardInv

(* Nothing is in progress at the start.                                    *)
LEMMA GuardInit == Init => GuardInv
<1>1. SUFFICES ASSUME Init PROVE GuardInv OBVIOUS
<1>2. left \in [Killers -> 0 .. Patience]
  <2>1. 0 \in 0 .. Patience BY NamesAssumption
  <2>2. QED BY <1>1, <2>1 DEF Init
<1>3. TypeOK BY <1>1, <1>2 DEF Init, TypeOK
<1>4. HeldInv /\ BlankInv /\ JobInv /\ KnownInv
  BY <1>1 DEF Init, HeldInv, BlankInv, JobInv, KnownInv
<1>5. QED BY <1>3, <1>4 DEF GuardInv

(* What a killer does before the end leaves the work alone.                *)
LEMMA KillerKeeps ==
  ASSUME GuardInv, NEW k \in Killers,
         UNCHANGED << req, active, job, dev, place, worker, strays, saleVars, lost >>,
         draining' \in {draining, StillDraining},
         manager' \in {"up", "stopping", "down", "removed"}, silent' \in BOOLEAN,
         killer' \in [Killers -> {"idle", "asks", "waits", "wizard", "kills", "kills at once",
                                  "uninstalls", "ends", "removes", "done"}],
         left' \in [Killers -> 0 .. Patience],
         known' \in {known, [known EXCEPT ![k] = {}]}
  PROVE  GuardInv'
<1>1. TypeOK' BY DEF GuardInv, TypeOK, StillDraining, saleVars
<1>2. HeldInv' /\ BlankInv' BY DEF GuardInv, HeldInv, BlankInv
<1>3. JobInv' BY LooksKeeps DEF GuardInv
<1>4. KnownInv' BY DEF GuardInv, TypeOK, KnownInv
<1>5. QED BY <1>1, <1>2, <1>3, <1>4 DEF GuardInv

(* Steps of installers and buttons keep the invariant.                     *)
LEMMA KillerStep ==
  ASSUME GuardInv, NEW k \in Killers,
         PressUpdate(k) \/ PressUninstall(k) \/ RunByHand(k) \/ KillerMoves(k)
  PROVE  GuardInv'
<1>t. /\ killer \in [Killers -> {"idle", "asks", "waits", "wizard", "kills", "kills at once",
                                 "uninstalls", "ends", "removes", "done"}]
      /\ left \in [Killers -> 0 .. Patience] /\ Patience \in Nat
      /\ silent \in BOOLEAN /\ manager \in {"up", "stopping", "down", "removed"}
      /\ killer[k] \in {"idle", "asks", "waits", "wizard", "kills", "kills at once",
                        "uninstalls", "ends", "removes", "done"}
  BY NamesAssumption DEF GuardInv, TypeOK
<1>f. ~Refused => Working \ Overlooked = {} BY FreeIsIdle DEF GuardInv, Refused
<1>1. CASE PressUpdate(k)
  BY <1>1, <1>t, KillerKeeps DEF PressUpdate, OthersStay
<1>2. CASE PressUninstall(k)
  BY <1>2, <1>t, <1>f, KillerKeeps DEF PressUninstall, Goes, OthersStay
<1>3. CASE RunByHand(k)
  BY <1>3, <1>t, KillerKeeps DEF RunByHand, OthersStay
<1>4. CASE ShellAsks(k)
  <2>1. left' \in [Killers -> 0 .. Patience]
    <3>1. Patience \in 0 .. Patience BY NamesAssumption
    <3>2. QED BY <1>4, <1>t, <3>1 DEF ShellAsks
  <2>2. killer' \in {[killer EXCEPT ![k] = "waits"], [killer EXCEPT ![k] = "kills"]}
    BY <1>4 DEF ShellAsks, Goes
  <2>3. known' \in {known, [known EXCEPT ![k] = {}]}
    BY <1>4, <1>f DEF ShellAsks, Goes, LooksBusy
  <2>4. QED BY <1>4, <2>1, <2>2, <2>3, <1>t, KillerKeeps DEF ShellAsks, Looks, OthersStay
<1>5. CASE ShellWaits(k)
  <2>1. left' \in [Killers -> 0 .. Patience]
    <3>1. left[k] \in 0 .. Patience BY <1>t
    <3>2. CASE left[k] = 0 \/ ~LooksBusy BY <1>5, <3>2, <1>t DEF ShellWaits, Goes
    <3>3. CASE left[k] # 0 /\ LooksBusy
      <4>1. left[k] - 1 \in 0 .. Patience BY <3>1, <3>3, NamesAssumption, SMT
      <4>2. left' = [left EXCEPT ![k] = left[k] - 1] BY <1>5, <3>3 DEF ShellWaits
      <4>3. QED BY <4>1, <4>2, <1>t
    <3>4. QED BY <3>2, <3>3
  <2>2. killer' \in {killer, [killer EXCEPT ![k] = "kills"]}
    BY <1>5 DEF ShellWaits, Goes
  <2>3. known' \in {known, [known EXCEPT ![k] = {}]}
    BY <1>5, <1>f DEF ShellWaits, Goes, LooksBusy
  <2>4. /\ draining' \in {draining, StillDraining}
        /\ UNCHANGED << manager, silent, req, active, job, dev, place, worker, strays,
                        saleVars, lost >>
    BY <1>5 DEF ShellWaits, Looks, OthersStay
  <2>5. QED BY <2>1, <2>2, <2>3, <2>4, <1>t, KillerKeeps
<1>6. CASE WizardAsks(k)
  <2>1. known' \in {known, [known EXCEPT ![k] = {}]}
    BY <1>6, <1>f DEF WizardAsks, Goes
  <2>2. killer' \in {[killer EXCEPT ![k] = "idle"], [killer EXCEPT ![k] = "kills at once"]}
    BY <1>6 DEF WizardAsks, Goes
  <2>3. QED BY <1>6, <2>1, <2>2, <1>t, KillerKeeps DEF WizardAsks, Looks, OthersStay
<1>7. CASE Terminates(k)
  BY <1>7, <1>t, KillerKeeps DEF Terminates, workVars, deviceVars
<1>8. CASE NothingToKill(k)
  BY <1>8, <1>t, KillerKeeps DEF NothingToKill, workVars, deviceVars
<1>9. CASE ShellKills(k) \/ WizardKills(k)
  <2>1. Terminators \in SUBSET Killers BY DEF Terminators
  <2>2. QED BY <1>9, <2>1, DownIsIdle DEF ShellKills, WizardKills
<1>10. QED BY <1>1, <1>2, <1>3, <1>4, <1>5, <1>6, <1>7, <1>8, <1>9 DEF KillerMoves

(* Steps of a request keep the invariant.                                  *)
LEMMA RequestStep ==
  ASSUME GuardInv, NEW r \in Requests, Handles(r)
  PROVE  GuardInv'
<1>t. TypeOK /\ HeldInv /\ BlankInv /\ JobInv /\ KnownInv BY DEF GuardInv
<1>k. KnownInv'
  BY <1>t DEF Handles, Arrives, Connects, Submits, Ends, Takes, Written, killVars, KnownInv
<1> USE DEF deviceVars, saleVars, killVars, GuardInv, TypeOK, HeldInv, BlankInv, JobInv, Cached
<1>1. CASE Arrives(r) BY <1>1, <1>t, <1>k DEF Arrives
<1>2. ASSUME NEW d \in Devices, Connects(r, d) PROVE GuardInv'
  BY <1>2, <1>t, <1>k DEF Connects
<1>3. ASSUME NEW d \in Devices, Submits(r, d) PROVE GuardInv'
  BY <1>3, <1>t, <1>k DEF Submits
<1>4. CASE Ends(r) BY <1>4, <1>t, <1>k DEF Ends, Released
<1>5. CASE Takes(r) BY <1>5, <1>t, <1>k DEF Takes
<1>6. CASE Written(r) BY <1>6, <1>t, <1>k DEF Written, AreOver
<1>7. QED BY <1>1, <1>2, <1>3, <1>4, <1>5, <1>6 DEF Handles

(* Steps of the printer and its registry keep the invariant.               *)
LEMMA PrinterStep ==
  ASSUME GuardInv, NEW d \in Devices, PrinterMoves(d)
  PROVE  GuardInv'
<1>t. TypeOK /\ HeldInv /\ BlankInv /\ JobInv /\ KnownInv BY DEF GuardInv
<1>k. KnownInv' /\ HeldInv'
  BY <1>t DEF PrinterMoves, Builds, Stores, BuildAbandoned, Opens, WorkerEnds, Disconnects,
              Drops, killVars, KnownInv, HeldInv
<1> USE DEF saleVars, killVars, GuardInv, TypeOK, BlankInv, JobInv, Cached
<1>1. CASE Builds(d) BY <1>1, <1>t, <1>k DEF Builds
<1>2. CASE Stores(d)
  <2>1. TypeOK' BY <1>2, <1>t DEF Stores
  <2>2. JobInv' BY <1>2, <1>t DEF Stores
  <2>3. QED BY <1>2, <1>t, <1>k, <2>1, <2>2 DEF Stores
<1>3. CASE BuildAbandoned(d) BY <1>3, <1>t, <1>k DEF BuildAbandoned
<1>4. CASE Opens(d) BY <1>4, <1>t, <1>k DEF Opens
<1>5. CASE WorkerEnds(d)
  BY <1>5, <1>t, <1>k DEF WorkerEnds, AreOver, Writing, Queued
<1>6. CASE Drops(d) BY <1>6, <1>t, <1>k DEF Drops
<1>7. CASE Disconnects(d) BY <1>7, <1>t, <1>k DEF Disconnects, AreOver, Queued
<1>8. QED BY <1>1, <1>2, <1>3, <1>4, <1>5, <1>6, <1>7 DEF PrinterMoves

(* Every step keeps the invariant.                                         *)
LEMMA GuardStep ==
  ASSUME GuardInv, [Next]_vars
  PROVE  GuardInv'
<1> USE DEF deviceVars, saleVars, workVars, killVars, Cached,
            GuardInv, TypeOK, HeldInv, BlankInv, JobInv, KnownInv
<1>1. CASE UNCHANGED vars BY <1>1 DEF vars
<1>2. CASE SalesMove
  BY <1>2 DEF SalesMove, ServiceStarts, HealthHeard, ServiceStops, SaleMade, SalesSent, Count
<1>3. CASE GoesSilent \/ SpeaksAgain \/ Starts
  BY <1>3 DEF GoesSilent, SpeaksAgain, Starts
<1>4. CASE Exits \/ Crashes
  <2>1. Terminators \in SUBSET Killers BY DEF Terminators
  <2>2. QED BY <1>4, <2>1, DownIsIdle DEF Exits, Crashes
<1>5. QED
  BY <1>1, <1>2, <1>3, <1>4, RequestStep, PrinterStep, KillerStep DEF Next

(* Every variable of the guard keeps its type.                             *)
THEOREM TypeCorrect == Spec => []TypeOK
<1>1. GuardInv /\ [Next]_vars => GuardInv' BY GuardStep
<1>2. QED BY GuardInit, <1>1, PTL DEF Spec, GuardInv

(* As long as a payment, a print or a job without its client is in         *)
(* progress, GET /busy refuses, unless the registry has lost sight of the  *)
(* device of such a job.                                                   *)
THEOREM BusyIsTrue == Spec => [](Working \ Overlooked # {} => WorkRefused)
<1>1. GuardInv /\ [Next]_vars => GuardInv' BY GuardStep
<1>2. GuardInv => (Working \ Overlooked # {} => WorkRefused) BY FreeIsIdle DEF GuardInv
<1>3. QED BY GuardInit, <1>1, <1>2, PTL DEF Spec

(* No killer that was told "free" destroys what was in progress then.      *)
THEOREM NothingInProgressIsLost == Spec => []LostWasLate
<1>1. GuardInv /\ [Next]_vars => GuardInv' BY GuardStep
<1>2. GuardInv => LostWasLate BY DEF GuardInv, KnownInv, LostWasLate
<1>3. QED BY GuardInit, <1>1, <1>2, PTL DEF Spec
-----------------------------------------------------------------------------
(* The session of the log uplink: its state is SessionState's, its steps   *)
(* are those of U.                                                         *)
CONSTANTS Switches, Orders, BufferLimit, Overlapping, MaxBoots

U == INSTANCE UplinkSession

(* The names of UplinkSession's NamesAssumption.                           *)
SessionNames == Nobody \notin Clients /\ "watch" \notin Switches \union Orders

SessionTypes ==
  /\ client \in [Clients -> {"unused", "on", "stopping", "stopped"}]
  /\ uplink \in Clients \union {Nobody} /\ link \subseteq Clients
  /\ last \in Nat /\ overdue \in Nat /\ at \in Nat /\ overdue <= last
  /\ mine \in [U!Tasks -> Clients \union {Nobody}] /\ asked \in [U!Tasks -> Nat]
  /\ task \in [U!Tasks -> {"new", "replaces", "closes", "done"}]
  /\ on \in BOOLEAN /\ file \in [on : BOOLEAN, at : Nat]

NoneOn == \A c \in Clients : client[c] # "on"
Free == \A q \in U!Tasks \ {U!Watch} : mine[q] = Nobody

(* A switch and an order take turns; what either stops, or the watch, is   *)
(* no open client; and the watch began when the session was a day old.     *)
TurnInv ==
  /\ \A p, q \in U!Tasks \ {U!Watch} : mine[p] # Nobody /\ mine[q] # Nobody => p = q
  /\ \A p \in U!Tasks : /\ task[p] \in {"replaces", "closes"} => mine[p] # Nobody
                        /\ mine[p] # Nobody => client[mine[p]] \in {"stopping", "stopped"}
  /\ task[U!Watch] # "replaces"
  /\ task[U!Watch] = "closes" => asked[U!Watch] <= overdue
  /\ uplink # Nobody => client[uplink] # "unused"

(* While a switch replaces a client none is open, the configuration says   *)
(* that one is to be, and it is of today.                                  *)
ReplaceInv == \A p \in U!Tasks : task[p] = "replaces" =>
  NoneOn /\ on /\ file.on /\ at > overdue

SessionInv ==
  SessionTypes /\ TurnInv /\ ReplaceInv /\ OpenIsHeld /\ EventsGoThroughIt

(* The two properties of the session, of one client at a time.             *)
LEMMA OpenMeans ==
  OpenIsHeld /\ EventsGoThroughIt
    <=> \A c \in Clients : client[c] = "on" => c = uplink /\ on /\ file.on /\ through = c
BY DEF OpenIsHeld, EventsGoThroughIt, Attached

(* The watch is a task of its own.                                         *)
LEMMA TaskNames ==
  ASSUME SessionNames
  PROVE  /\ U!Watch \in U!Tasks /\ \A p \in Switches \union Orders : p \in U!Tasks /\ p # U!Watch
         /\ \A p \in U!Tasks : p = U!Watch \/ p \in Switches \union Orders
BY DEF SessionNames, U!Tasks, U!Watch

(* A client is chosen among the unused ones.                               *)
LEMMA FreshUnused == ASSUME U!Unused # {} PROVE U!Fresh \in Clients /\ client[U!Fresh] = "unused"
BY DEF U!Unused, U!Fresh

(* Nobody replaces a client while it is the turn of another one, nor when  *)
(* the session that is on is a day old.                                    *)
LEMMA NoneReplaces ==
  ASSUME SessionNames, SessionInv,
         \/ \E p \in Switches \union Orders :
              /\ task[p] = "new" /\ \A q \in U!Tasks \ {p, U!Watch} : mine[q] = Nobody
         \/ on /\ at <= overdue
         \/ \E p \in U!Tasks : task[p] = "closes" /\ ~U!SwitchedOnMeanwhile(p)
  PROVE  \A p \in U!Tasks : task[p] # "replaces"
<1>1. SUFFICES ASSUME NEW r \in U!Tasks, task[r] = "replaces" PROVE FALSE OBVIOUS
<1>2. r # U!Watch /\ mine[r] # Nobody /\ at > overdue /\ at \in Nat /\ overdue \in Nat
  BY <1>1 DEF SessionInv, TurnInv, ReplaceInv, SessionTypes
<1>3. CASE on /\ at <= overdue BY <1>2, <1>3
<1>4. ASSUME NEW p \in Switches \union Orders, task[p] = "new",
             \A q \in U!Tasks \ {p, U!Watch} : mine[q] = Nobody
      PROVE  FALSE
  BY <1>1, <1>2, <1>4
<1>5. ASSUME NEW p \in U!Tasks, task[p] = "closes", ~U!SwitchedOnMeanwhile(p) PROVE FALSE
  <2>1. mine[p] # Nobody /\ p # r BY <1>1, <1>5 DEF SessionInv, TurnInv
  <2>2. p = U!Watch BY <1>2, <2>1 DEF SessionInv, TurnInv
  <2>3. asked[p] <= overdue /\ at = asked[p]
    BY <1>5, <2>2 DEF SessionInv, TurnInv, U!SwitchedOnMeanwhile
  <2>4. QED BY <1>2, <2>3
<1>6. QED BY <1>3, <1>4, <1>5

(* A client is opened when none is.                                        *)
LEMMA OpensStep ==
  ASSUME SessionNames, SessionInv, U!Unused # {},
         NEW others \in [Clients -> {"unused", "on", "stopping", "stopped"}],
         \A c \in Clients : others[c] # "on" /\ (client[c] = "unused" <=> others[c] = "unused"),
         U!Opens(others), on' = TRUE, file' \in [on : BOOLEAN, at : Nat], file'.on = TRUE
  PROVE  /\ client' \in [Clients -> {"unused", "on", "stopping", "stopped"}]
         /\ uplink' \in Clients /\ client'[uplink'] # "unused"
         /\ \A c \in Clients : client[c] \in {"stopping", "stopped"} =>
              client'[c] = others[c]
         /\ (OpenIsHeld /\ EventsGoThroughIt)'
<1>1. U!Fresh \in Clients /\ client[U!Fresh] = "unused" BY FreshUnused
<1> DEFINE f == U!Fresh
<1>2. client' = [others EXCEPT ![f] = "on"] /\ uplink' = f /\ through' = f BY DEF U!Opens
<1> HIDE DEF f
<1>3. f \in Clients /\ client[f] = "unused" BY <1>1 DEF f
<1>4. \A c \in Clients : client'[c] = IF c = f THEN "on" ELSE others[c] BY <1>2, <1>3
<1>5. (OpenIsHeld /\ EventsGoThroughIt)'
  BY <1>2, <1>3, <1>4 DEF OpenIsHeld, EventsGoThroughIt, Attached
<1>6. QED BY <1>2, <1>3, <1>4, <1>5

(* The client that is held starts to stop: none is open any more.          *)
LEMMA StopsStep ==
  ASSUME SessionNames, SessionInv, uplink # Nobody, U!StartsToStop(uplink)
  PROVE  /\ client' \in [Clients -> {"unused", "on", "stopping", "stopped"}]
         /\ NoneOn' /\ client'[uplink] \in {"stopping", "stopped"}
         /\ \A c \in Clients : client[c] # "unused" => client'[c] # "unused"
         /\ \A c \in Clients : client[c] \in {"stopping", "stopped"} => client'[c] = client[c]
<1>1. uplink \in Clients /\ client[uplink] # "unused"
  BY DEF SessionInv, SessionTypes, TurnInv
<1>2. client' = [client EXCEPT ![uplink] = IF client[uplink] = "on" THEN "stopping" ELSE client[uplink]]
  BY DEF U!StartsToStop
<1>3. client \in [Clients -> {"unused", "on", "stopping", "stopped"}] BY DEF SessionInv, SessionTypes
<1>4. \A c \in Clients : client[c] = "on" => c = uplink BY OpenMeans DEF SessionInv
<1>5. QED BY <1>1, <1>2, <1>3, <1>4 DEF NoneOn

(* With no open client, there is nothing to hold.                          *)
LEMMA NoneToHold ==
  ASSUME NoneOn' PROVE OpenIsHeld' /\ EventsGoThroughIt'
BY DEF NoneOn, OpenIsHeld, EventsGoThroughIt, Attached
(* A client that stops ends its part in it: a task begins to stop the one  *)
(* that is held, or to wait.                                               *)
LEMMA TakesTurn ==
  ASSUME SessionNames, SessionInv, NEW p \in U!Tasks, NEW where \in {"replaces", "closes"},
         uplink # Nobody, U!StartsToStop(uplink),
         task' = [task EXCEPT ![p] = where], mine' = [mine EXCEPT ![p] = uplink],
         uplink' = uplink,
         p = U!Watch => where = "closes" /\ asked'[p] <= overdue',
         p # U!Watch => /\ \A q \in U!Tasks \ {p, U!Watch} : mine[q] = Nobody
                        /\ asked'[U!Watch] = asked[U!Watch],
         overdue' = overdue
  PROVE  TurnInv'
<1>1. /\ mine \in [U!Tasks -> Clients \union {Nobody}]
      /\ task \in [U!Tasks -> {"new", "replaces", "closes", "done"}]
      /\ uplink \in Clients /\ U!Watch \in U!Tasks
  BY TaskNames DEF SessionInv, SessionTypes
<1>2. /\ client'[uplink] \in {"stopping", "stopped"}
      /\ \A c \in Clients : client[c] \in {"stopping", "stopped"} => client'[c] = client[c]
  BY StopsStep
<1>3. \A q \in U!Tasks : /\ mine'[q] = IF q = p THEN uplink ELSE mine[q]
                         /\ task'[q] = IF q = p THEN where ELSE task[q]
  BY <1>1
<1>4. \A a, b \in U!Tasks \ {U!Watch} : mine'[a] # Nobody /\ mine'[b] # Nobody => a = b
  BY <1>3 DEF SessionInv, TurnInv
<1>5. ASSUME NEW q \in U!Tasks
      PROVE  /\ task'[q] \in {"replaces", "closes"} => mine'[q] # Nobody
             /\ mine'[q] # Nobody => client'[mine'[q]] \in {"stopping", "stopped"}
  <2>1. CASE q = p BY <1>2, <1>3, <2>1
  <2>2. CASE q # p
    <3>1. mine'[q] = mine[q] /\ task'[q] = task[q] /\ mine[q] \in Clients \union {Nobody}
      BY <1>1, <1>3, <2>2
    <3>2. mine[q] # Nobody => client[mine[q]] \in {"stopping", "stopped"}
      BY DEF SessionInv, TurnInv
    <3>3. task[q] \in {"replaces", "closes"} => mine[q] # Nobody BY DEF SessionInv, TurnInv
    <3>4. QED BY <1>2, <3>1, <3>2, <3>3
  <2>3. QED BY <2>1, <2>2
<1>6. task'[U!Watch] # "replaces" /\ (task'[U!Watch] = "closes" => asked'[U!Watch] <= overdue')
  BY <1>1, <1>3 DEF SessionInv, TurnInv
<1>7. uplink' # Nobody => client'[uplink'] # "unused" BY <1>2
<1>8. QED BY <1>4, <1>5, <1>6, <1>7 DEF TurnInv, U!Tasks, U!Watch

(* Switching on, when nothing is open and when something is.               *)
LEMMA SwitchesOnStep ==
  ASSUME SessionNames, ~Overlapping, SessionInv, NEW p \in Switches, U!SwitchesOn(p)
  PROVE  SessionInv'
<1> USE TaskNames
<1>t. SessionTypes /\ TurnInv /\ ReplaceInv BY DEF SessionInv
<1>1. /\ task[p] = "new" /\ \A q \in U!Tasks \ {p, U!Watch} : mine[q] = Nobody
      /\ U!Unused # {} /\ on' = TRUE /\ at' = last' /\ last' \in Nat /\ last' > overdue
      /\ last' >= last /\ file' = [on |-> on', at |-> at'] /\ UNCHANGED << overdue, asked >>
  BY <1>t DEF U!SwitchesOn, U!InTurn, U!Written, SessionTypes
<1>2. file' \in [on : BOOLEAN, at : Nat] /\ file'.on = TRUE BY <1>1
<1>3. \A q \in U!Tasks : task[q] # "replaces" BY <1>1, NoneReplaces
<1>4. p \in U!Tasks /\ p # U!Watch OBVIOUS
<1>5. CASE uplink = Nobody
  <2>1. /\ U!Opens(client) /\ task' = [task EXCEPT ![p] = "done"] /\ UNCHANGED << link, mine >>
    BY <1>5 DEF U!SwitchesOn
  <2>2. \A c \in Clients : client[c] # "on" BY <1>5, OpenMeans DEF SessionInv, SessionNames
  <2>3. /\ client' \in [Clients -> {"unused", "on", "stopping", "stopped"}]
        /\ uplink' \in Clients /\ client'[uplink'] # "unused"
        /\ \A c \in Clients : client[c] \in {"stopping", "stopped"} => client'[c] = client[c]
        /\ (OpenIsHeld /\ EventsGoThroughIt)'
    BY <1>1, <1>2, <1>t, <2>1, <2>2, OpensStep DEF SessionTypes
  <2>4. SessionTypes' BY <1>t, <1>1, <1>2, <2>1, <2>3 DEF SessionTypes, U!Tasks
  <2>5. TurnInv'
    <3>1. \A q \in U!Tasks : task'[q] = IF q = p THEN "done" ELSE task[q]
      BY <1>t, <1>4, <2>1 DEF SessionTypes
    <3>2. \A q \in U!Tasks : mine[q] # Nobody => client'[mine[q]] \in {"stopping", "stopped"}
      BY <1>t, <2>3 DEF SessionTypes, TurnInv
    <3>3. QED BY <1>t, <1>1, <1>4, <2>1, <2>3, <3>1, <3>2 DEF TurnInv, U!Tasks, U!Watch
  <2>6. ReplaceInv' BY <1>t, <1>3, <1>4, <2>1 DEF SessionTypes, ReplaceInv, U!Tasks
  <2>7. QED BY <2>3, <2>4, <2>5, <2>6 DEF SessionInv
<1>6. CASE uplink # Nobody
  <2>1. /\ task' = [task EXCEPT ![p] = "replaces"] /\ mine' = [mine EXCEPT ![p] = uplink]
        /\ U!StartsToStop(uplink) /\ UNCHANGED << uplink, link >>
    BY <1>6 DEF U!SwitchesOn
  <2>2. /\ client' \in [Clients -> {"unused", "on", "stopping", "stopped"}] /\ NoneOn'
    BY <1>6, <2>1, StopsStep
  <2>3. TurnInv' BY <1>1, <1>4, <1>6, <2>1, TakesTurn
  <2>4. SessionTypes' BY <1>t, <1>1, <1>2, <2>1, <2>2 DEF SessionTypes, U!Tasks
  <2>5. ReplaceInv' BY <1>1, <1>2, <2>2 DEF ReplaceInv
  <2>6. QED BY <2>2, <2>3, <2>4, <2>5, NoneToHold DEF SessionInv
<1>7. QED BY <1>5, <1>6

(* Beginning to close the client that is held.                             *)
LEMMA ClosingStarts ==
  ASSUME SessionNames, SessionInv, NEW p \in U!Tasks, uplink # Nobody, U!StartsToClose(p),
         \A q \in U!Tasks : task[q] # "replaces",
         asked' \in [U!Tasks -> Nat], on' \in BOOLEAN, at' \in Nat,
         file' \in [on : BOOLEAN, at : Nat],
         p = U!Watch => asked'[p] <= overdue,
         p # U!Watch => /\ \A q \in U!Tasks \ {p, U!Watch} : mine[q] = Nobody
                        /\ asked'[U!Watch] = asked[U!Watch],
         UNCHANGED << last, overdue >>
  PROVE  SessionInv'
<1>t. SessionTypes /\ TurnInv /\ ReplaceInv BY DEF SessionInv
<1>1. /\ task' = [task EXCEPT ![p] = "closes"] /\ mine' = [mine EXCEPT ![p] = uplink]
      /\ U!StartsToStop(uplink) /\ UNCHANGED << uplink, link >>
  BY DEF U!StartsToClose
<1>2. client' \in [Clients -> {"unused", "on", "stopping", "stopped"}] /\ NoneOn'
  BY <1>1, StopsStep
<1>3. TurnInv' BY <1>1, TakesTurn
<1>4. SessionTypes' BY <1>t, <1>1, <1>2 DEF SessionTypes, U!Tasks
<1>5. ReplaceInv' BY <1>t, <1>1 DEF SessionTypes, ReplaceInv, U!Tasks
<1>6. QED BY <1>2, <1>3, <1>4, <1>5, NoneToHold DEF SessionInv
(* The ways a session is begun to be closed, or found closed.              *)
LEMMA SwitchesOffStep ==
  ASSUME SessionNames, ~Overlapping, SessionInv,
         \/ \E p \in Switches : U!SwitchesOff(p)
         \/ \E p \in Orders : U!IsOrdered(p)
         \/ U!Expires
  PROVE  SessionInv'
<1> USE TaskNames
<1>t. SessionTypes /\ TurnInv /\ ReplaceInv /\ OpenIsHeld /\ EventsGoThroughIt
  BY DEF SessionInv
<1>n. uplink = Nobody => NoneOn BY OpenMeans, <1>t DEF SessionNames, NoneOn
<1>1. ASSUME NEW p \in Switches, U!SwitchesOff(p) PROVE SessionInv'
  <2>1. /\ task[p] = "new" /\ \A q \in U!Tasks \ {p, U!Watch} : mine[q] = Nobody
        /\ on' = FALSE /\ at' = 0 /\ file' = [on |-> FALSE, at |-> 0]
        /\ asked' = [asked EXCEPT ![p] = 0] /\ UNCHANGED << last, overdue >>
    BY <1>1 DEF U!SwitchesOff, U!InTurn, U!Off, U!Written
  <2>2. \A q \in U!Tasks : task[q] # "replaces" BY <2>1, NoneReplaces
  <2>3. p \in U!Tasks /\ p # U!Watch OBVIOUS
  <2>4. /\ asked' \in [U!Tasks -> Nat] /\ file' \in [on : BOOLEAN, at : Nat]
        /\ asked'[U!Watch] = asked[U!Watch]
    BY <1>t, <2>1, <2>3 DEF SessionTypes
  <2>5. CASE uplink # Nobody
    <3>1. U!StartsToClose(p) BY <1>1, <2>5 DEF U!SwitchesOff
    <3>2. QED BY <2>1, <2>2, <2>3, <2>4, <2>5, <3>1, ClosingStarts
  <2>6. CASE uplink = Nobody
    <3>1. /\ task' = [task EXCEPT ![p] = "done"]
          /\ UNCHANGED << uplink, through, client, link, mine >>
      BY <1>1, <2>6 DEF U!SwitchesOff, U!clientVars
    <3>2. \A q \in U!Tasks : task'[q] = IF q = p THEN "done" ELSE task[q]
      BY <1>t, <2>3, <3>1 DEF SessionTypes
    <3>3. SessionTypes' BY <1>t, <2>1, <2>4, <3>1 DEF SessionTypes, U!Tasks
    <3>4. TurnInv' BY <1>t, <2>1, <2>3, <2>4, <3>1, <3>2 DEF TurnInv, U!Tasks, U!Watch
    <3>5. ReplaceInv' BY <2>2, <3>2 DEF ReplaceInv, U!Tasks
    <3>6. NoneOn' BY <1>n, <2>6, <3>1 DEF NoneOn
    <3>7. QED BY <3>3, <3>4, <3>5, <3>6, NoneToHold DEF SessionInv
  <2>7. QED BY <2>5, <2>6
<1>2. ASSUME NEW p \in Orders, U!IsOrdered(p) PROVE SessionInv'
  <2>1. /\ task[p] = "new" /\ \A q \in U!Tasks \ {p, U!Watch} : mine[q] = Nobody
        /\ uplink \in link /\ asked' = [asked EXCEPT ![p] = at] /\ U!StartsToClose(p)
        /\ UNCHANGED << on, at, file, last, overdue >>
    BY <1>2 DEF U!IsOrdered, U!InTurn, U!switchVars
  <2>2. \A q \in U!Tasks : task[q] # "replaces" BY <2>1, NoneReplaces
  <2>3. p \in U!Tasks /\ p # U!Watch OBVIOUS
  <2>4. asked' \in [U!Tasks -> Nat] /\ asked'[U!Watch] = asked[U!Watch]
    BY <1>t, <2>1, <2>3 DEF SessionTypes
  <2>5. uplink # Nobody BY <1>t, <2>1 DEF SessionTypes, SessionNames
  <2>6. on' \in BOOLEAN /\ at' \in Nat /\ file' \in [on : BOOLEAN, at : Nat]
    BY <1>t, <2>1 DEF SessionTypes
  <2>7. QED BY <2>1, <2>2, <2>3, <2>4, <2>5, <2>6, ClosingStarts
<1>3. CASE U!Expires
  <2>1. /\ on /\ at <= overdue /\ asked' = [asked EXCEPT ![U!Watch] = at]
        /\ UNCHANGED << last, overdue >>
    BY <1>3 DEF U!Expires, U!Expired
  <2>2. \A q \in U!Tasks : task[q] # "replaces" BY <2>1, NoneReplaces
  <2>3. asked' \in [U!Tasks -> Nat] /\ asked'[U!Watch] = at
    BY <1>t, <2>1 DEF SessionTypes
  <2>4. CASE uplink # Nobody
    <3>1. U!StartsToClose(U!Watch) /\ UNCHANGED << on, at, file >> BY <1>3, <2>4 DEF U!Expires
    <3>2. on' \in BOOLEAN /\ at' \in Nat /\ file' \in [on : BOOLEAN, at : Nat]
      BY <1>t, <3>1 DEF SessionTypes
    <3>3. QED BY <2>1, <2>2, <2>3, <2>4, <3>1, <3>2, ClosingStarts
  <2>5. CASE uplink = Nobody
    <3>1. /\ on' = FALSE /\ at' = 0 /\ file' = [on |-> FALSE, at |-> 0]
          /\ UNCHANGED << uplink, through, client, link, task, mine >>
      BY <1>3, <2>5 DEF U!Expires, U!Off, U!Written, U!clientVars
    <3>2. SessionTypes' BY <1>t, <2>1, <2>3, <3>1 DEF SessionTypes, U!Tasks
    <3>3. TurnInv' BY <1>t, <2>1, <2>3, <3>1 DEF TurnInv, U!Tasks, U!Watch
    <3>4. ReplaceInv' BY <2>2, <3>1 DEF ReplaceInv, U!Tasks
    <3>5. NoneOn' BY <1>n, <2>5, <3>1 DEF NoneOn
    <3>6. QED BY <3>2, <3>3, <3>4, <3>5, NoneToHold DEF SessionInv
  <2>6. QED BY <2>4, <2>5
<1>4. QED BY <1>1, <1>2, <1>3

(* A task has ended its part: it holds no client any more.                 *)
LEMMA TurnEnds ==
  ASSUME SessionNames, SessionInv, NEW p \in U!Tasks,
         task' = [task EXCEPT ![p] = "done"], mine' = [mine EXCEPT ![p] = Nobody],
         \A c \in Clients : client[c] \in {"stopping", "stopped"}
                              => client'[c] \in {"stopping", "stopped"},
         uplink' # Nobody => client'[uplink'] # "unused", UNCHANGED << asked, overdue >>
  PROVE  TurnInv'
<1> USE TaskNames
<1>t. SessionTypes /\ TurnInv BY DEF SessionInv
<1>1. \A q \in U!Tasks : /\ mine'[q] = IF q = p THEN Nobody ELSE mine[q]
                         /\ task'[q] = IF q = p THEN "done" ELSE task[q]
  BY <1>t DEF SessionTypes
<1>2. \A q \in U!Tasks : mine'[q] # Nobody => client'[mine'[q]] \in {"stopping", "stopped"}
  BY <1>t, <1>1 DEF SessionTypes, TurnInv
<1>3. QED BY <1>t, <1>1, <1>2 DEF TurnInv, U!Tasks, U!Watch

(* stop() has returned.                                                    *)
LEMMA EndsStep ==
  ASSUME SessionNames, ~Overlapping, SessionInv, NEW p \in U!Tasks, U!Ends(p)
  PROVE  SessionInv'
<1> USE TaskNames
<1>t. SessionTypes /\ TurnInv /\ ReplaceInv /\ OpenIsHeld /\ EventsGoThroughIt
  BY DEF SessionInv
<1>m. task[p] \in {"replaces", "closes"} =>
        mine[p] \in Clients /\ client[mine[p]] \in {"stopping", "stopped"}
  BY <1>t DEF SessionTypes, TurnInv
<1> DEFINE others == [client EXCEPT ![mine[p]] = "stopped"]
<1>1. CASE p \in Switches /\ U!Replaces(p)
  <2>1. /\ task[p] = "replaces" /\ U!Unused # {} /\ U!Opens(others)
        /\ task' = [task EXCEPT ![p] = "done"] /\ mine' = [mine EXCEPT ![p] = Nobody]
        /\ UNCHANGED << on, at, file, last, overdue, asked >> /\ link' = link \ {mine[p]}
    BY <1>1 DEF U!Replaces, U!switchVars
  <2>2. NoneOn /\ on /\ file.on BY <1>t, <2>1 DEF ReplaceInv
  <2>3. /\ others \in [Clients -> {"unused", "on", "stopping", "stopped"}]
        /\ \A c \in Clients : others[c] = IF c = mine[p] THEN "stopped" ELSE client[c]
    BY <1>t, <1>m, <2>1 DEF SessionTypes
  <2>4. \A c \in Clients : others[c] # "on" /\ (client[c] = "unused" <=> others[c] = "unused")
    BY <1>m, <2>1, <2>2, <2>3 DEF NoneOn
  <2>5. on' = TRUE /\ file' \in [on : BOOLEAN, at : Nat] /\ file'.on = TRUE
    BY <1>t, <2>1, <2>2 DEF SessionTypes
  <2> HIDE DEF others
  <2>6. /\ client' \in [Clients -> {"unused", "on", "stopping", "stopped"}]
        /\ uplink' \in Clients /\ client'[uplink'] # "unused"
        /\ \A c \in Clients : client[c] \in {"stopping", "stopped"} => client'[c] = others[c]
        /\ (OpenIsHeld /\ EventsGoThroughIt)'
    BY <2>1, <2>3, <2>4, <2>5, OpensStep
  <2>7. \A c \in Clients : client[c] \in {"stopping", "stopped"}
                             => client'[c] \in {"stopping", "stopped"}
    BY <2>3, <2>6
  <2>8. TurnInv' BY <2>1, <2>6, <2>7, TurnEnds
  <2>9. SessionTypes' BY <1>t, <2>1, <2>5, <2>6 DEF SessionTypes, U!Tasks
  <2>10. ReplaceInv'
    <3>1. \A q \in U!Tasks : q # p => task[q] # "replaces"
      BY <1>t, <2>1 DEF TurnInv
    <3>2. QED BY <1>t, <2>1, <3>1 DEF SessionTypes, ReplaceInv, U!Tasks
  <2>11. QED BY <2>6, <2>8, <2>9, <2>10 DEF SessionInv
<1>2. CASE U!Closes(p)
  <2>1. /\ task[p] = "closes" /\ client' = others /\ link' = link \ {mine[p]}
        /\ through' = IF through = mine[p] THEN Nobody ELSE through
        /\ task' = [task EXCEPT ![p] = "done"] /\ mine' = [mine EXCEPT ![p] = Nobody]
        /\ UNCHANGED << last, overdue, asked >>
    BY <1>2 DEF U!Closes
  <2>2. /\ client' \in [Clients -> {"unused", "on", "stopping", "stopped"}]
        /\ \A c \in Clients : client'[c] = IF c = mine[p] THEN "stopped" ELSE client[c]
    BY <1>t, <1>m, <2>1 DEF SessionTypes
  <2>3. \A c \in Clients : client[c] \in {"stopping", "stopped"}
                             => client'[c] \in {"stopping", "stopped"}
    BY <2>2
  <2>4. CASE U!SwitchedOnMeanwhile(p)
    <3>1. UNCHANGED << uplink, on, at, file >> BY <1>2, <2>4 DEF U!Closes
    <3>2. uplink' # Nobody => client'[uplink'] # "unused"
      BY <1>t, <2>2, <3>1 DEF SessionTypes, TurnInv
    <3>3. TurnInv' BY <2>1, <2>3, <3>2, TurnEnds
    <3>4. SessionTypes' BY <1>t, <2>1, <2>2, <3>1 DEF SessionTypes, U!Tasks
    <3>5. \A q \in U!Tasks : task'[q] = "replaces" => task[q] = "replaces"
      BY <1>t, <2>1 DEF SessionTypes
    <3>6. NoneOn => NoneOn' BY <2>2 DEF NoneOn
    <3>7. ReplaceInv' BY <1>t, <2>1, <3>1, <3>5, <3>6 DEF ReplaceInv, U!Tasks
    <3>8. \A c \in Clients : client'[c] = "on" => client[c] = "on" /\ c # mine[p] BY <2>2
    <3>9. (OpenIsHeld /\ EventsGoThroughIt)'
      BY <1>t, <2>1, <3>1, <3>8 DEF OpenIsHeld, EventsGoThroughIt, Attached
    <3>10. QED BY <3>3, <3>4, <3>7, <3>9 DEF SessionInv
  <2>5. CASE ~U!SwitchedOnMeanwhile(p)
    <3>1. /\ uplink = mine[p] /\ uplink' = Nobody /\ on' = FALSE /\ at' = 0
          /\ file' \in {[on |-> FALSE, at |-> 0], file}
      BY <1>2, <2>5 DEF U!Closes, U!SwitchedOnMeanwhile, U!Off
    <3>2. \A q \in U!Tasks : task[q] # "replaces" BY <2>1, <2>5, NoneReplaces
    <3>3. TurnInv' BY <2>1, <2>3, <3>1, TurnEnds
    <3>4. file' \in [on : BOOLEAN, at : Nat]
      <4>1. [on |-> FALSE, at |-> 0] \in [on : BOOLEAN, at : Nat] OBVIOUS
      <4>2. file \in [on : BOOLEAN, at : Nat] BY <1>t DEF SessionTypes
      <4>3. file' = [on |-> FALSE, at |-> 0] \/ file' = file BY <3>1
      <4>4. QED BY <4>1, <4>2, <4>3
    <3>5. SessionTypes' BY <1>t, <2>1, <2>2, <3>1, <3>4 DEF SessionTypes, U!Tasks
    <3>6. ReplaceInv' BY <1>t, <2>1, <3>2 DEF SessionTypes, ReplaceInv, U!Tasks
    <3>7. NoneOn'
      <4>1. \A c \in Clients : client[c] = "on" => c = uplink BY OpenMeans, <1>t
      <4>2. QED BY <2>2, <3>1, <4>1 DEF NoneOn
    <3>8. QED BY <3>3, <3>5, <3>6, <3>7, NoneToHold DEF SessionInv
  <2>6. QED BY <2>4, <2>5
<1>3. QED BY <1>1, <1>2 DEF U!Ends

(* The manager ends and starts again.                                      *)
LEMMA RestartsStep ==
  ASSUME SessionNames, SessionInv, U!Restarts
  PROVE  SessionInv'
<1> USE TaskNames
<1>t. SessionTypes /\ TurnInv BY DEF SessionInv
<1> DEFINE gone == [c \in Clients |-> IF client[c] = "unused" THEN "unused" ELSE "stopped"]
           stays == file.on /\ ~U!Expired(file.on, file.at)
<1>1. /\ on' = stays /\ at' = (IF stays THEN file.at ELSE 0)
      /\ file' = file \/ (~stays /\ file' = [on |-> on', at |-> at'])
      /\ IF stays THEN U!Unused # {} /\ U!Opens(gone)
                  ELSE client' = gone /\ uplink' = Nobody /\ through' = Nobody
      /\ link' = {} /\ mine' = [p \in U!Tasks |-> Nobody]
      /\ task' = [p \in U!Tasks |-> IF task[p] = "new" THEN "new" ELSE "done"]
      /\ UNCHANGED << last, overdue, asked >>
  BY DEF U!Restarts, U!Written
<1>2. on' \in BOOLEAN /\ at' \in Nat /\ file' \in [on : BOOLEAN, at : Nat]
  <2>1. stays \in BOOLEAN BY <1>t DEF SessionTypes, U!Expired
  <2> HIDE DEF stays
  <2>2. file.at \in Nat BY <1>t DEF SessionTypes
  <2>3. on' \in BOOLEAN /\ at' \in Nat BY <1>1, <2>1, <2>2
  <2>4. QED BY <1>t, <1>1, <2>3 DEF SessionTypes
<1>3. /\ gone \in [Clients -> {"unused", "on", "stopping", "stopped"}]
      /\ \A c \in Clients : gone[c] # "on" /\ (client[c] = "unused" <=> gone[c] = "unused")
  OBVIOUS
<1>4. /\ client' \in [Clients -> {"unused", "on", "stopping", "stopped"}]
      /\ uplink' \in Clients \union {Nobody} /\ (uplink' # Nobody => client'[uplink'] # "unused")
      /\ (OpenIsHeld /\ EventsGoThroughIt)'
  <2>1. CASE stays
    <3>1. file.on /\ on' = TRUE BY <1>1, <2>1
    <3>2. file' = file BY <1>1, <2>1
    <3>3. file'.on = TRUE BY <1>t, <3>1, <3>2 DEF SessionTypes
    <3> HIDE DEF gone, stays
    <3>4. U!Unused # {} /\ U!Opens(gone) BY <1>1, <2>1
    <3>5. QED BY <1>2, <1>3, <3>1, <3>3, <3>4, OpensStep
  <2>2. CASE ~stays
    <3>1. client' = gone /\ uplink' = Nobody BY <1>1, <2>2
    <3>2. NoneOn' BY <1>3, <3>1 DEF NoneOn
    <3>3. QED BY <1>3, <3>1, <3>2, NoneToHold
  <2>3. QED BY <2>1, <2>2
<1>5. \A p \in U!Tasks : mine'[p] = Nobody /\ task'[p] \in {"new", "done"} BY <1>1
<1>6. SessionTypes' BY <1>t, <1>1, <1>2, <1>4 DEF SessionTypes, U!Tasks
<1>7. TurnInv' BY <1>4, <1>5 DEF TurnInv, U!Tasks, U!Watch
<1>8. ReplaceInv' BY <1>5 DEF ReplaceInv, U!Tasks
<1>9. QED BY <1>4, <1>6, <1>7, <1>8 DEF SessionInv

(* Every step of the session keeps its invariant.                          *)
LEMMA SessionStep ==
  ASSUME SessionNames, ~Overlapping, SessionInv, [U!Next]_(U!sessionVars)
  PROVE  SessionInv'
<1>t. SessionTypes /\ TurnInv /\ ReplaceInv /\ OpenIsHeld /\ EventsGoThroughIt
  BY DEF SessionInv
<1>k. ASSUME UNCHANGED << on, at, file, last, overdue, uplink, through, client, task, mine, asked >>,
             link' \subseteq Clients
      PROVE  SessionInv'
  BY <1>t, <1>k DEF SessionInv, SessionTypes, TurnInv, ReplaceInv, NoneOn, OpenIsHeld,
     EventsGoThroughIt, Attached, U!Tasks, U!Watch
<1>1. ASSUME NEW c \in Clients, U!Connects(c) \/ U!Disconnects(c) PROVE SessionInv'
  BY <1>t, <1>1, <1>k DEF SessionTypes, U!Connects, U!Disconnects, U!switchVars, U!taskVars
<1>2. ASSUME NEW l \in Lines, NEW c \in Clients,
             U!Logs(l, c) \/ U!Arrives(l, c) \/ U!ComesBack(l, c)
      PROVE  SessionInv'
  BY <1>t, <1>2, <1>k DEF SessionTypes, U!Logs, U!Arrives, U!ComesBack, U!switchVars,
     U!clientVars, U!taskVars
<1>3. CASE U!DayPasses
  <2>1. /\ overdue' = last
        /\ UNCHANGED << on, at, file, last, uplink, through, client, link, task, mine, asked >>
        /\ \A p \in U!Tasks : mine[p] = Nobody
    BY <1>3 DEF U!DayPasses, U!clientVars, U!taskVars
  <2>2. \A p \in U!Tasks : task[p] \notin {"replaces", "closes"} BY <1>t, <2>1 DEF TurnInv
  <2>3. SessionTypes' BY <1>t, <2>1 DEF SessionTypes, U!Tasks
  <2>4. TurnInv'
    <3>1. task[U!Watch] # "closes" BY <2>2 DEF U!Tasks, U!Watch
    <3>2. QED BY <1>t, <2>1, <3>1 DEF TurnInv, U!Tasks, U!Watch
  <2>5. ReplaceInv' BY <2>1, <2>2 DEF ReplaceInv, U!Tasks
  <2>6. (OpenIsHeld /\ EventsGoThroughIt)'
    BY <1>t, <2>1 DEF OpenIsHeld, EventsGoThroughIt, Attached
  <2>7. QED BY <2>3, <2>4, <2>5, <2>6 DEF SessionInv
<1>4. CASE U!IsEdited
  <2>1. /\ file' = [on |-> TRUE, at |-> 0] /\ file'.on = TRUE
        /\ UNCHANGED << on, at, last, overdue, uplink, through, client, link, task, mine, asked >>
    BY <1>4 DEF U!IsEdited, U!clientVars, U!taskVars
  <2>2. SessionTypes' BY <1>t, <2>1 DEF SessionTypes, U!Tasks
  <2>3. TurnInv' BY <1>t, <2>1 DEF TurnInv, U!Tasks, U!Watch
  <2>4. ReplaceInv' BY <1>t, <2>1 DEF ReplaceInv, NoneOn, U!Tasks
  <2>5. (OpenIsHeld /\ EventsGoThroughIt)'
    BY <1>t, <2>1 DEF OpenIsHeld, EventsGoThroughIt, Attached
  <2>6. QED BY <2>2, <2>3, <2>4, <2>5 DEF SessionInv
<1>5. CASE UNCHANGED U!sessionVars
  BY <1>t, <1>5, <1>k DEF SessionTypes, U!sessionVars, U!switchVars, U!clientVars, U!taskVars
<1>6. QED
  BY <1>1, <1>2, <1>3, <1>4, <1>5, SwitchesOnStep, SwitchesOffStep, EndsStep, RestartsStep DEF U!Next

(* No session is open at the start.                                        *)
LEMMA SessionInit == ASSUME SessionNames, U!Init PROVE SessionInv
<1>1. SessionTypes
  <2>1. client \in [Clients -> {"unused", "on", "stopping", "stopped"}] BY DEF U!Init
  <2>2. /\ mine \in [U!Tasks -> Clients \union {Nobody}] /\ asked \in [U!Tasks -> Nat]
        /\ task \in [U!Tasks -> {"new", "replaces", "closes", "done"}]
    BY DEF U!Init
  <2>3. file \in [on : BOOLEAN, at : Nat] BY DEF U!Init
  <2>4. uplink \in Clients \union {Nobody} /\ link \subseteq Clients
    <3>1. uplink = Nobody /\ link = {} BY DEF U!Init
    <3>2. QED BY <3>1
  <2>5. last \in Nat /\ overdue \in Nat /\ at \in Nat /\ overdue <= last
    <3>1. last = 0 /\ overdue = 0 /\ at = 0 BY DEF U!Init
    <3>2. QED BY <3>1
  <2>6. on \in BOOLEAN BY DEF U!Init
  <2>7. QED BY <2>1, <2>2, <2>3, <2>4, <2>5, <2>6 DEF SessionTypes
<1>2. TurnInv /\ ReplaceInv
  BY TaskNames DEF U!Init, TurnInv, ReplaceInv
<1>3. OpenIsHeld /\ EventsGoThroughIt
  BY DEF U!Init, OpenIsHeld, EventsGoThroughIt, Attached
<1>4. QED BY <1>1, <1>2, <1>3 DEF SessionInv

(* The invariant holds when switches and orders take turns.                *)
LEMMA SessionInvariant == SessionNames /\ ~Overlapping => (U!Spec => []SessionInv)
<1>1. SessionNames /\ U!Init => SessionInv BY SessionInit
<1>2. SessionNames /\ ~Overlapping /\ SessionInv /\ [U!Next]_(U!sessionVars) => SessionInv'
  BY SessionStep
<1>3. CASE SessionNames /\ ~Overlapping BY <1>1, <1>2, <1>3, PTL DEF U!Spec
<1>4. QED BY <1>3

(* When a switch or an order waits for another one that stops a client, an *)
(* open session is the one that the manager holds, and the configuration   *)
(* says that it is on: a close that has waited (`shut_down`) never takes   *)
(* away a session that was switched on meanwhile.                          *)
THEOREM SessionIsHeld == SessionNames /\ ~Overlapping => (U!Spec => []OpenIsHeld)
<1>1. SessionInv => OpenIsHeld BY DEF SessionInv
<1>2. QED BY <1>1, SessionInvariant, PTL

(* And business events go through it, not through the one before.          *)
THEOREM EventsAreSeen == SessionNames /\ ~Overlapping => (U!Spec => []EventsGoThroughIt)
<1>1. SessionInv => EventsGoThroughIt BY DEF SessionInv
<1>2. QED BY <1>1, SessionInvariant, PTL

-----------------------------------------------------------------------------
(* Log lines.  None waits at a client that was never opened.               *)
ClientStates == {"unused", "on", "stopping", "stopped"}
LineStates == {"none", "buffered", "in flight", "sent", "evicted", "lost"}

LinesInv ==
  /\ client \in [Clients -> ClientStates] /\ line \in [Lines -> [Clients -> LineStates]]
  /\ \A l \in Lines, c \in Clients : client[c] = "unused" => line[l][c] = "none"

(* What a step may do to clients and lines: a client is used for good, a   *)
(* line changes at a client in use, and is lost at none that goes on.      *)
LineStep ==
  /\ client' \in [Clients -> ClientStates] /\ line' \in [Lines -> [Clients -> LineStates]]
  /\ \A c \in Clients : client'[c] = "unused" => client[c] = "unused"
  /\ \A l \in Lines, c \in Clients : line'[l][c] # line[l][c] =>
       client[c] # "unused" /\ (line'[l][c] = "lost" => client'[c] # "on")

(* A client that stops loses what waits at it, and only that.              *)
LEMMA StopLoses ==
  ASSUME LinesInv, NEW s, U!StartsToStop(s)
  PROVE  LineStep
<1>1. /\ client' = [client EXCEPT ![s] = IF client[s] = "on" THEN "stopping" ELSE client[s]]
      /\ line' = [l \in Lines |-> [line[l] EXCEPT ![s] =
                    IF line[l][s] \in {"buffered", "in flight"} THEN "lost" ELSE line[l][s]]]
  BY DEF U!StartsToStop
<1>2. /\ client' \in [Clients -> ClientStates]
      /\ \A c \in Clients : /\ client'[c] = "unused" => client[c] = "unused"
                            /\ c = s => client'[c] # "on"
  BY <1>1 DEF LinesInv, ClientStates
<1>3. ASSUME NEW l \in Lines
      PROVE  /\ line'[l] \in [Clients -> LineStates]
             /\ \A c \in Clients : line'[l][c] # line[l][c] => c = s /\ line[l][c] # "none"
  <2>1. line[l] \in [Clients -> LineStates] BY DEF LinesInv
  <2>2. line'[l] = [line[l] EXCEPT ![s] =
                      IF line[l][s] \in {"buffered", "in flight"} THEN "lost" ELSE line[l][s]]
    BY <1>1
  <2>3. QED BY <2>1, <2>2 DEF LineStates
<1>4. line' \in [Lines -> [Clients -> LineStates]] BY <1>1, <1>3
<1>5. QED BY <1>2, <1>3, <1>4 DEF LinesInv, LineStep

(* A line that has to wait loses none: the oldest one makes room.          *)
LEMMA BufferLoses ==
  ASSUME LinesInv, NEW l \in Lines, NEW c \in Clients, U!Buffered(l, c),
         client[c] # "unused", client' = client
  PROVE  LineStep
<1> DEFINE new(m) == IF m = l THEN "buffered"
                     ELSE IF Len(buffer[c]) = BufferLimit /\ m = Head(buffer[c])
                       THEN "evicted" ELSE line[m][c]
<1>1. line' = [m \in Lines |-> [line[m] EXCEPT ![c] = new(m)]] BY DEF U!Buffered
<1>2. ASSUME NEW m \in Lines
      PROVE  /\ line'[m] \in [Clients -> LineStates]
             /\ \A d \in Clients : line'[m][d] # line[m][d] => d = c /\ line'[m][d] # "lost"
  <2>1. line[m] \in [Clients -> LineStates] BY DEF LinesInv
  <2>2. line'[m] = [line[m] EXCEPT ![c] = new(m)] BY <1>1
  <2>3. new(m) \in LineStates /\ (new(m) # line[m][c] => new(m) # "lost")
    BY <2>1 DEF LineStates
  <2> HIDE DEF new
  <2>4. QED BY <2>1, <2>2, <2>3
<1> HIDE DEF new
<1>3. line' \in [Lines -> [Clients -> LineStates]] BY <1>1, <1>2
<1>4. QED BY <1>2, <1>3 DEF LinesInv, LineStep

(* Only clients change.                                                    *)
LEMMA ClientsChange ==
  ASSUME LinesInv, line' = line, client' \in [Clients -> ClientStates],
         \A c \in Clients : client'[c] = "unused" => client[c] = "unused"
  PROVE  LineStep
BY DEF LinesInv, LineStep

(* A client that was never used is opened beside the others.               *)
LEMMA OpenedBeside ==
  ASSUME U!Unused # {}, NEW others \in [Clients -> ClientStates], U!Opens(others),
         \A c \in Clients : others[c] = "unused" => client[c] = "unused"
  PROVE  /\ client' \in [Clients -> ClientStates]
         /\ \A c \in Clients : /\ client'[c] = "unused" => client[c] = "unused"
                               /\ client[c] # "unused" => client'[c] = others[c]
<1>1. U!Fresh \in Clients /\ client[U!Fresh] = "unused" BY FreshUnused
<1> DEFINE f == U!Fresh
<1>2. client' = [others EXCEPT ![f] = "on"] BY DEF U!Opens
<1>3. f \in Clients /\ client[f] = "unused" BY <1>1
<1> HIDE DEF f
<1>4. QED BY <1>2, <1>3 DEF ClientStates

(* Another way a client may have become stopped while a task waited.       *)
LEMMA StoppedOne ==
  ASSUME LinesInv, NEW s
  PROVE  /\ [client EXCEPT ![s] = "stopped"] \in [Clients -> ClientStates]
         /\ \A c \in Clients : [client EXCEPT ![s] = "stopped"][c] = "unused"
                                 => client[c] = "unused"
BY DEF LinesInv, ClientStates

(* The steps of the switch, of the server's order and of the watch.        *)
LEMMA SwitchLines ==
  ASSUME LinesInv,
         \/ \E p \in Switches : U!SwitchesOn(p) \/ U!SwitchesOff(p)
         \/ \E p \in Orders : U!IsOrdered(p)
         \/ U!Expires
         \/ \E p \in U!Tasks : U!Ends(p)
  PROVE  LineStep
<1>k. ASSUME UNCHANGED << client, line >> PROVE LineStep
  BY <1>k, ClientsChange DEF LinesInv
<1>1. ASSUME NEW p \in Switches, U!SwitchesOn(p) PROVE LineStep
  <2>1. CASE uplink = Nobody
    <3>1. U!Unused # {} /\ U!Opens(client) /\ line' = line
      BY <1>1, <2>1 DEF U!SwitchesOn, U!lineVars
    <3>2. client \in [Clients -> ClientStates] BY DEF LinesInv
    <3>3. QED BY <3>1, <3>2, OpenedBeside, ClientsChange
  <2>2. CASE uplink # Nobody BY <1>1, <2>2, StopLoses DEF U!SwitchesOn
  <2>3. QED BY <2>1, <2>2
<1>2. ASSUME NEW p \in Switches, U!SwitchesOff(p) PROVE LineStep
  <2>1. UNCHANGED << client, line >> \/ U!StartsToStop(uplink)
    BY <1>2 DEF U!SwitchesOff, U!StartsToClose, U!clientVars, U!lineVars
  <2>2. QED BY <2>1, <1>k, StopLoses
<1>3. ASSUME NEW p \in Orders, U!IsOrdered(p) PROVE LineStep
  BY <1>3, StopLoses DEF U!IsOrdered, U!StartsToClose
<1>4. CASE U!Expires
  <2>1. UNCHANGED << client, line >> \/ U!StartsToStop(uplink)
    BY <1>4 DEF U!Expires, U!StartsToClose, U!clientVars, U!lineVars
  <2>2. QED BY <2>1, <1>k, StopLoses
<1>5. ASSUME NEW p \in U!Tasks, U!Ends(p) PROVE LineStep
  <2> DEFINE others == [client EXCEPT ![mine[p]] = "stopped"]
  <2>1. /\ others \in [Clients -> ClientStates]
        /\ \A c \in Clients : others[c] = "unused" => client[c] = "unused"
    BY StoppedOne
  <2>2. /\ line' = line
        /\ (U!Unused # {} /\ U!Opens(others)) \/ client' = others
    BY <1>5 DEF U!Ends, U!Replaces, U!Closes, U!lineVars
  <2> HIDE DEF others
  <2>3. CASE U!Unused # {} /\ U!Opens(others) BY <2>1, <2>2, <2>3, OpenedBeside, ClientsChange
  <2>4. CASE client' = others BY <2>1, <2>2, <2>4, ClientsChange
  <2>5. QED BY <2>2, <2>3, <2>4
<1>6. QED BY <1>1, <1>2, <1>3, <1>4, <1>5

(* A restart loses what waited, at clients that are no more.               *)
LEMMA RestartLines ==
  ASSUME LinesInv, U!Restarts
  PROVE  LineStep
<1> DEFINE gone == [c \in Clients |-> IF client[c] = "unused" THEN "unused" ELSE "stopped"]
<1>1. /\ (U!Unused # {} /\ U!Opens(gone)) \/ client' = gone
      /\ line' = [l \in Lines |-> [c \in Clients |->
                    IF line[l][c] \in {"buffered", "in flight"} THEN "lost" ELSE line[l][c]]]
  BY DEF U!Restarts
<1>2. /\ gone \in [Clients -> ClientStates]
      /\ \A c \in Clients : /\ gone[c] = "unused" => client[c] = "unused"
                            /\ gone[c] # "on"
  BY DEF ClientStates
<1>3. /\ line' \in [Lines -> [Clients -> LineStates]]
      /\ \A l \in Lines, c \in Clients : line'[l][c] # line[l][c] => line[l][c] # "none"
  BY <1>1 DEF LinesInv, LineStates
<1> HIDE DEF gone
<1>4. /\ client' \in [Clients -> ClientStates]
      /\ \A c \in Clients : /\ client'[c] = "unused" => client[c] = "unused"
                            /\ client[c] # "unused" => client'[c] = gone[c]
  BY <1>1, <1>2, OpenedBeside
<1>5. QED BY <1>2, <1>3, <1>4 DEF LinesInv, LineStep

(* Every step is one that LineStep allows, and keeps the invariant.        *)
LEMMA LinesStep ==
  ASSUME LinesInv, [U!Next]_(U!sessionVars)
  PROVE  LineStep /\ LinesInv'
<1>1. ASSUME NEW c \in Clients, U!Disconnects(c) PROVE LineStep
  BY <1>1, ClientsChange DEF U!Disconnects, U!lineVars, LinesInv
<1>2. ASSUME NEW c \in Clients, U!Connects(c) PROVE LineStep
  <2>1. /\ client[c] = "on" /\ client' = client
        /\ line' = [l \in Lines |-> [line[l] EXCEPT ![c] =
                      IF line[l][c] = "buffered" THEN "in flight" ELSE line[l][c]]]
    BY <1>2 DEF U!Connects
  <2>2. ASSUME NEW l \in Lines
        PROVE  /\ line'[l] \in [Clients -> LineStates]
               /\ \A d \in Clients : line'[l][d] # line[l][d] => d = c /\ line'[l][d] # "lost"
    <3>1. line[l] \in [Clients -> LineStates] BY DEF LinesInv
    <3>2. line'[l] = [line[l] EXCEPT ![c] =
                        IF line[l][c] = "buffered" THEN "in flight" ELSE line[l][c]]
      BY <2>1
    <3>3. QED BY <3>1, <3>2 DEF LineStates
  <2>3. line' \in [Lines -> [Clients -> LineStates]] BY <2>1, <2>2
  <2>4. QED BY <2>1, <2>2, <2>3 DEF LinesInv, LineStep
<1>3. ASSUME NEW l \in Lines, NEW c \in Clients, NEW state \in {"in flight", "sent"},
             client' = client, client[c] # "unused", line' = [line EXCEPT ![l][c] = state]
      PROVE  LineStep
  <2>1. line[l] \in [Clients -> LineStates] BY DEF LinesInv
  <2>2. \A m \in Lines : line'[m] = IF m = l THEN [line[l] EXCEPT ![c] = state] ELSE line[m]
    BY <1>3 DEF LinesInv
  <2>3. [line[l] EXCEPT ![c] = state] \in [Clients -> LineStates] BY <2>1 DEF LineStates
  <2>4. line' \in [Lines -> [Clients -> LineStates]] BY <1>3, <2>3 DEF LinesInv
  <2>5. \A m \in Lines, d \in Clients : line'[m][d] # line[m][d] => d = c /\ line'[m][d] # "lost"
    BY <2>1, <2>2
  <2>6. QED BY <1>3, <2>4, <2>5 DEF LinesInv, LineStep
<1>4. ASSUME NEW l \in Lines, NEW c \in Clients,
             U!Logs(l, c) \/ U!Arrives(l, c) \/ U!ComesBack(l, c)
      PROVE  LineStep
  <2>1. /\ client' = client /\ client[c] # "unused"
        /\ \/ line' = [line EXCEPT ![l][c] = "in flight"]
           \/ line' = [line EXCEPT ![l][c] = "sent"]
           \/ U!Buffered(l, c)
    BY <1>4 DEF U!Logs, U!Arrives, U!ComesBack, U!Attached, U!clientVars, LinesInv
  <2>2. QED BY <2>1, <1>3, BufferLoses
<1>5. ASSUME U!DayPasses \/ U!IsEdited \/ UNCHANGED U!sessionVars PROVE LineStep
  BY <1>5, ClientsChange DEF U!DayPasses, U!IsEdited, U!sessionVars, U!clientVars, U!lineVars, LinesInv
<1>6. LineStep BY <1>1, <1>2, <1>4, <1>5, SwitchLines, RestartLines DEF U!Next
<1>7. LinesInv' BY <1>6 DEF LineStep, LinesInv
<1>8. QED BY <1>6, <1>7

(* A break of the connection loses no line: a line is lost only with the   *)
(* client it waits at (`requeue`, SocketIOLogHandler's buffer), however    *)
(* switches, orders and restarts overlap.                                  *)
THEOREM LinesOutliveBreaks == U!Spec => LinesKept
<1>1. U!Init => LinesInv BY DEF U!Init, LinesInv, ClientStates, LineStates
<1>2. ASSUME LineStep
      PROVE  \A l \in Lines, c \in Clients :
               line'[l][c] = "lost" /\ line[l][c] # "lost" => client'[c] # "on"
  BY <1>2 DEF LineStep
<1>3. LinesInv /\ [U!Next]_(U!sessionVars)
        => LinesInv' /\ [\A l \in Lines, c \in Clients :
             line'[l][c] = "lost" /\ line[l][c] # "lost" => client'[c] # "on"]_sessionVars
  <2> SUFFICES ASSUME LinesInv, [U!Next]_(U!sessionVars)
               PROVE  LinesInv' /\ \A l \in Lines, c \in Clients :
                        line'[l][c] = "lost" /\ line[l][c] # "lost" => client'[c] # "on"
    OBVIOUS
  <2>1. QED BY <1>2, LinesStep
<1>4. QED BY <1>1, <1>3, PTL DEF U!Spec, LinesKept
=============================================================================
