------------------------- MODULE OfflineShopProofs -------------------------
(***************************************************************************)
(* Proofs about OfflineShop for any activations, any number of processes   *)
(* of the service, any number of sales, and of faults: no process is left  *)
(* without somebody to end it; no sale is lost that had been counted; and, *)
(* when requests wait for each other, the key of a shop opens its copy.    *)
(***************************************************************************)
EXTENDS OfflineShop, TLAPS

(* What is known where: the key an activation goes on with, the            *)
(* configuration a process is started with.                                *)
MadeInv ==
  /\ \A a \in Activations : act[a] = "save" => made[a] \in Activations
  /\ loop \in {"probe", "spawn"} => cfg \in Secrets
  /\ \A p \in Children : Alive(p) => given[p] \in Secrets

(* What the constants are.                                                 *)
LEMMA Bounds == /\ MaxSales \in Nat /\ MaxFaults \in Nat
                /\ NoConfig \notin Secrets /\ NoKey \notin Activations
                /\ NoChild \notin Children /\ NoAnswer \notin Nat
  BY BoundsAssumption, NamesAssumption DEF Secrets

(* A secret is a token and a key.                                          *)
LEMMA SecretKey ==
  /\ \A s \in Secrets : s.key \in Activations
  /\ \A a, k \in Activations : /\ [token |-> a, key |-> k] \in Secrets
                               /\ [token |-> a, key |-> k].key = k
  BY DEF Secrets

-----------------------------------------------------------------------------
(* Who moves, and what each of them leaves alone.                          *)
Activating == \E a \in Activations : Activates(a)
SwitchingOff == SwitchOffAsks \/ SwitchesOff
Serves == \E p \in Children : ChildMoves(p) \/ ChildFails(p) \/ Sale(p) \/ Synced(p)
Happens == ManagerRestarts \/ Locks \/ Unlocks

(* An activation moves files and the copy, and no process.                 *)
LEMMA ActivatingFrame ==
  Activating => UNCHANGED << locked, off, loop, cfg, onPurpose, extra, proc, child, given, ender >>
  BY DEF Activating, Activates, ActivateLoads, ActivateRefused, ActivateSaves, ActivateFails,
     fileVars, copyVars, requestVars, loopVars, childVars

(* A switch-off leaves alone where the loop is.                            *)
LEMMA SwitchingOffFrame ==
  SwitchingOff => UNCHANGED << locked, act, made, loop, cfg, child, given, faults >>
  BY DEF SwitchingOff, SwitchesOff, SwitchOffAsks, ForgetSecrets, ForgetMark, SwitchOffStops,
     SwitchOffEnds, TakesProcess, fileVars, copyVars, requestVars, loopVars, childVars

(* The supervisor changes no file and no copy.                             *)
LEMMA SupervisesFrame ==
  Supervises => UNCHANGED << active, secrets, config, data, queue, old, lost, locked, act, made,
                             off, faults >>
<1> USE DEF fileVars, copyVars, requestVars, loopVars, childVars
<1>1. LoopLoads \/ LoopProbes \/ LoopStarted \/ LoopStartFails \/ LoopHears
        => UNCHANGED << active, secrets, config, data, queue, old, lost, locked, act, made,
                        off, faults >>
  BY DEF LoopLoads, LoopProbes, LoopStarted, LoopStartFails, LoopHears
<1>2. LoopGivesUp \/ LoopStops \/ LoopRests \/ (\E p \in Children : LoopSpawns(p))
        => UNCHANGED << active, secrets, config, data, queue, old, lost, locked, act, made,
                        off, faults >>
  BY DEF LoopGivesUp, LoopStops, LoopRests, LoopSpawns
<1>3. QED BY <1>1, <1>2 DEF Supervises

(* A process of the service changes the copy only.                         *)
LEMMA ServesFrame ==
  Serves => UNCHANGED << active, secrets, config, lost, locked, act, made, off, loop, cfg,
                         onPurpose, extra, proc, given, ender >>
  BY DEF Serves, ChildMoves, ChildComesUp, ChildCannot, ChildEnds, ChildFails, Sale, Synced,
     fileVars, copyVars, requestVars, loopVars, childVars

(* What happens from outside changes no file.                              *)
LEMMA HappensFrame ==
  Happens => UNCHANGED << active, secrets, config, data, queue, lost, made, child, given >>
  BY DEF Happens, ManagerRestarts, Locks, Unlocks, fileVars, copyVars, requestVars, loopVars,
     childVars

(* A step is one of theirs, or changes nothing.                            *)
LEMMA WhoMoves ==
  [Next]_vars => \/ Activating \/ SwitchingOff \/ Supervises \/ Serves \/ Happens
                 \/ UNCHANGED << active, secrets, config, data, queue, old, lost, locked, act,
                                 made, off, loop, cfg, onPurpose, extra, proc, child, given,
                                 ender, faults >>
  BY DEF Next, Activating, SwitchingOff, Serves, Happens, vars, fileVars, copyVars,
     requestVars, loopVars, childVars

(* The five together.                                                      *)
LEMMA Frames ==
  /\ Activating => UNCHANGED << locked, off, loop, cfg, onPurpose, extra, proc, child, given, ender >>
  /\ SwitchingOff => UNCHANGED << locked, act, made, loop, cfg, child, given, faults >>
  /\ Supervises => UNCHANGED << active, secrets, config, data, queue, old, lost, locked, act, made,
                                off, faults >>
  /\ Serves => UNCHANGED << active, secrets, config, lost, locked, act, made, off, loop, cfg,
                            onPurpose, extra, proc, given, ender >>
  /\ Happens => UNCHANGED << active, secrets, config, data, queue, lost, made, child, given >>
  BY ActivatingFrame, SwitchingOffFrame, SupervisesFrame, ServesFrame, HappensFrame

-----------------------------------------------------------------------------
(* Each group of variables keeps its type.                                 *)
LEMMA FileTypesStep ==
  ASSUME TypeOK, MadeInv, [Next]_vars PROVE FileTypes'
<1> USE DEF FileTypes
<1>t. FileTypes /\ RequestTypes BY DEF TypeOK
<1>1. ASSUME NEW a \in Activations, Activates(a) PROVE FileTypes'
  <2>1. act[a] = "save" => [token |-> a, key |-> made[a]] \in Secrets
    BY SecretKey DEF MadeInv
  <2>2. CASE ActivateSaves(a) BY <1>t, <2>1, <2>2 DEF ActivateSaves
  <2>3. CASE ActivateLoads(a) \/ ActivateRefused(a) \/ ActivateFails(a)
    BY <1>t, <2>3 DEF ActivateLoads, ActivateRefused, ActivateFails, fileVars
  <2>4. QED BY <1>1, <2>2, <2>3 DEF Activates
<1>2. CASE SwitchOffAsks \/ SwitchOffStops
  BY <1>t, <1>2 DEF SwitchOffAsks, SwitchOffStops, fileVars
<1>3. CASE ForgetSecrets \/ ForgetMark \/ SwitchOffEnds
  BY <1>t, <1>3 DEF ForgetSecrets, ForgetMark, SwitchOffEnds
<1>4. CASE Supervises \/ Serves BY <1>t, <1>4, Frames
<1>5. CASE Happens
  <2>1. locked' \in BOOLEAN
    BY <1>t, <1>5 DEF Happens, ManagerRestarts, Locks, Unlocks
  <2>2. QED BY <1>t, <1>5, <2>1, Frames
<1>6. QED
  BY <1>t, <1>1, <1>2, <1>3, <1>4, <1>5, WhoMoves DEF Activating, SwitchingOff, SwitchesOff

(* The local copy and its sales.                                           *)
LEMMA CopyTypesStep ==
  ASSUME TypeOK, MadeInv, [Next]_vars PROVE CopyTypes'
<1> USE Bounds DEF CopyTypes
<1>t. FileTypes /\ CopyTypes /\ RequestTypes /\ ChildTypes BY DEF TypeOK
<1>c. CopyGoes /\ UNCHANGED faults => CopyTypes' BY <1>t DEF CopyGoes
<1>f. Fault => faults' \in 0 .. MaxFaults BY <1>t DEF Fault
<1>1. ASSUME NEW a \in Activations, Activates(a) PROVE CopyTypes'
  <2>1. CASE ActivateLoads(a) BY <1>t, <1>c, <2>1 DEF ActivateLoads, copyVars
  <2>2. CASE ActivateFails(a) BY <1>t, <1>f, <2>2 DEF ActivateFails, copyVars
  <2>3. CASE ActivateRefused(a) \/ ActivateSaves(a)
    BY <1>t, <2>3 DEF ActivateRefused, ActivateSaves, copyVars
  <2>4. QED BY <1>1, <2>1, <2>2, <2>3 DEF Activates
<1>2. CASE SwitchOffAsks BY <1>t, <1>2 DEF SwitchOffAsks
<1>3. CASE ForgetSecrets \/ ForgetMark \/ SwitchOffStops
  BY <1>t, <1>3 DEF ForgetSecrets, ForgetMark, SwitchOffStops, copyVars
<1>4. CASE SwitchOffEnds BY <1>t, <1>c, <1>4 DEF SwitchOffEnds, copyVars
<1>5. ASSUME NEW p \in Children, ChildMoves(p) \/ ChildFails(p) \/ Sale(p) \/ Synced(p)
      PROVE  CopyTypes'
  <2>1. CASE ChildComesUp(p)
    <3>1. given[p] \in Secrets BY <2>1 DEF ChildComesUp, MadeInv, Alive
    <3>2. given[p].key \in Activations BY <3>1, SecretKey
    <3>3. QED BY <1>t, <2>1, <3>2 DEF ChildComesUp
  <2>2. CASE ChildCannot(p) \/ ChildEnds(p)
    BY <1>t, <2>2 DEF ChildCannot, ChildEnds, copyVars
  <2>3. CASE ChildFails(p) BY <1>t, <1>f, <2>3 DEF ChildFails, copyVars
  <2>4. CASE Sale(p) BY <1>t, <2>4 DEF Sale
  <2>5. CASE Synced(p) BY <1>t, <2>5 DEF Synced
  <2>6. QED BY <1>5, <2>1, <2>2, <2>3, <2>4, <2>5 DEF ChildMoves
<1>6. CASE ManagerRestarts BY <1>t, <1>f, <1>6 DEF ManagerRestarts
<1>7. CASE Locks BY <1>t, <1>f, <1>7 DEF Locks, copyVars
<1>8. CASE Unlocks BY <1>t, <1>8 DEF Unlocks, copyVars
<1>9. CASE Supervises BY <1>t, <1>9, Frames
<1>10. QED
  BY <1>t, <1>1, <1>2, <1>3, <1>4, <1>5, <1>6, <1>7, <1>8, <1>9, WhoMoves
  DEF Activating, SwitchingOff, SwitchesOff, Serves, Happens

(* The requests and the keys they carry.                                   *)
LEMMA RequestTypesStep ==
  ASSUME TypeOK, MadeInv, [Next]_vars
  PROVE  /\ RequestTypes'
         /\ \A a \in Activations : act'[a] = "save" => made'[a] \in Activations
<1> DEFINE Goal == /\ RequestTypes'
                   /\ \A a \in Activations : act'[a] = "save" => made'[a] \in Activations
<1> USE DEF RequestTypes
<1>t. FileTypes /\ RequestTypes /\ \A a \in Activations : act[a] = "save" => made[a] \in Activations
  BY DEF TypeOK, MadeInv
<1>1. ASSUME NEW a \in Activations, Activates(a) PROVE Goal
  <2>1. CASE ActivateLoads(a)
    <3>1. PICK key \in Activations : made' = [made EXCEPT ![a] = key]
      BY <1>t, <2>1, SecretKey DEF ActivateLoads, FileTypes
    <3>2. QED BY <1>t, <2>1, <3>1 DEF ActivateLoads
  <2>2. CASE ActivateRefused(a) \/ ActivateSaves(a) \/ ActivateFails(a)
    BY <1>t, <2>2 DEF ActivateRefused, ActivateSaves, ActivateFails, requestVars
  <2>3. QED BY <1>1, <2>1, <2>2 DEF Activates
<1>2. CASE SwitchingOff
  <2>1. off' \in {"no", "forget", "unmark", "stop", "stop only", "stopping", "stopping only"}
    BY <1>t, <1>2 DEF SwitchingOff, SwitchesOff, SwitchOffAsks, ForgetSecrets, ForgetMark,
       SwitchOffStops, SwitchOffEnds
  <2>2. QED BY <1>t, <1>2, <2>1, Frames
<1>3. CASE Supervises \/ Serves BY <1>t, <1>3, Frames
<1>4. CASE Happens
  BY <1>t, <1>4 DEF Happens, ManagerRestarts, Locks, Unlocks, requestVars
<1>5. QED BY <1>t, <1>1, <1>2, <1>3, <1>4, WhoMoves DEF Activating

(* The supervisor.                                                         *)
LEMMA LoopTypesStep ==
  ASSUME TypeOK, MadeInv, [Next]_vars
  PROVE  LoopTypes' /\ (loop' \in {"probe", "spawn"} => cfg' \in Secrets)
<1> DEFINE Goal == LoopTypes' /\ (loop' \in {"probe", "spawn"} => cfg' \in Secrets)
<1> USE Bounds DEF LoopTypes
<1>t. /\ FileTypes /\ CopyTypes /\ LoopTypes
      /\ loop \in {"probe", "spawn"} => cfg \in Secrets
  BY DEF TypeOK, MadeInv
<1>1. CASE SwitchOffAsks BY <1>t, <1>1 DEF SwitchOffAsks, CopyTypes
<1>2. CASE SwitchesOff
  BY <1>t, <1>2 DEF SwitchesOff, ForgetSecrets, ForgetMark, SwitchOffStops, SwitchOffEnds, loopVars
<1>3. CASE LoopLoads BY <1>t, <1>3 DEF LoopLoads, CurrentConfig, FileTypes
<1>4. CASE LoopProbes BY <1>t, <1>4 DEF LoopProbes
<1>5. CASE LoopStarted \/ LoopHears BY <1>t, <1>5 DEF LoopStarted, LoopHears, CopyTypes
<1>6. CASE LoopStartFails \/ LoopGivesUp \/ LoopStops \/ LoopRests
  BY <1>t, <1>6 DEF LoopStartFails, LoopGivesUp, LoopStops, LoopRests
<1>7. ASSUME NEW p \in Children, LoopSpawns(p) PROVE Goal BY <1>t, <1>7 DEF LoopSpawns
<1>8. CASE Activating \/ Serves BY <1>t, <1>8, Frames
<1>9. CASE Happens BY <1>t, <1>9 DEF Happens, ManagerRestarts, Locks, Unlocks, loopVars
<1>10. QED
  BY <1>t, <1>1, <1>2, <1>3, <1>4, <1>5, <1>6, <1>7, <1>8, <1>9, WhoMoves
  DEF SwitchingOff, Supervises

(* The processes.                                                          *)
LEMMA ChildTypesStep ==
  ASSUME TypeOK, MadeInv, [Next]_vars
  PROVE  ChildTypes' /\ \A p \in Children : Alive(p)' => given'[p] \in Secrets
<1> DEFINE Goal == ChildTypes' /\ \A p \in Children : Alive(p)' => given'[p] \in Secrets
<1> USE Bounds DEF ChildTypes, Alive
<1>t. /\ LoopTypes /\ ChildTypes /\ \A p \in Children : Alive(p) => given[p] \in Secrets
      /\ loop \in {"probe", "spawn"} => cfg \in Secrets
  BY DEF TypeOK, MadeInv
<1>k. \A who \in {"off", "loop"} : TakesProcess(who) => Goal BY <1>t DEF TakesProcess
<1>1. CASE SwitchOffStops BY <1>1, <1>k DEF SwitchOffStops
<1>2. CASE SwitchOffAsks \/ ForgetSecrets \/ ForgetMark \/ SwitchOffEnds
  BY <1>t, <1>2 DEF SwitchOffAsks, ForgetSecrets, ForgetMark, SwitchOffEnds, childVars
<1>3. CASE LoopProbes
  <2>1. \/ child' = child
        \/ child' = [p \in Children |-> IF p \in Stray THEN "exited" ELSE child[p]]
    BY <1>3 DEF LoopProbes
  <2>2. QED BY <1>t, <1>3, <2>1 DEF LoopProbes
<1>4. CASE LoopLoads \/ LoopStarted \/ LoopHears \/ LoopStartFails \/ LoopGivesUp \/ LoopRests
  BY <1>t, <1>4 DEF LoopLoads, LoopStarted, LoopHears, LoopStartFails, LoopGivesUp, LoopRests,
     childVars
<1>5. CASE LoopStops BY <1>5, <1>k DEF LoopStops
<1>6. ASSUME NEW p \in Children, LoopSpawns(p) PROVE Goal BY <1>t, <1>6 DEF LoopSpawns
<1>7. ASSUME NEW p \in Children, ChildMoves(p) \/ ChildFails(p) \/ Sale(p) \/ Synced(p)
      PROVE  Goal
  <2>1. CASE Sale(p) \/ Synced(p) BY <1>t, <2>1 DEF Sale, Synced, childVars
  <2>2. CASE ChildComesUp(p) BY <1>t, <2>2 DEF ChildComesUp
  <2>3. CASE ChildCannot(p) \/ ChildEnds(p) BY <1>t, <2>3 DEF ChildCannot, ChildEnds
  <2>4. CASE ChildFails(p) BY <1>t, <2>4 DEF ChildFails
  <2>5. QED BY <1>7, <2>1, <2>2, <2>3, <2>4 DEF ChildMoves
<1>8. CASE Activating BY <1>t, <1>8, Frames
<1>9. CASE Happens
  BY <1>t, <1>9 DEF Happens, ManagerRestarts, Locks, Unlocks, childVars
<1>10. QED
  BY <1>t, <1>1, <1>2, <1>3, <1>4, <1>5, <1>6, <1>7, <1>8, <1>9, WhoMoves
  DEF SwitchingOff, SwitchesOff, Supervises, Serves

(* Every variable keeps its type, whatever ends, hangs or is locked.       *)
THEOREM TypeCorrect == Spec => [](TypeOK /\ MadeInv)
<1>1. Init => TypeOK /\ MadeInv
  <2>1. Init => FileTypes /\ RequestTypes BY Bounds DEF Init, FileTypes, RequestTypes
  <2>2. Init => CopyTypes BY Bounds DEF Init, CopyTypes
  <2>3. Init => LoopTypes BY Bounds DEF Init, LoopTypes
  <2>4. Init => ChildTypes /\ MadeInv BY Bounds DEF Init, ChildTypes, MadeInv, Alive
  <2>5. QED BY <2>1, <2>2, <2>3, <2>4 DEF TypeOK
<1>2. TypeOK /\ MadeInv /\ [Next]_vars => (TypeOK /\ MadeInv)'
  <2>1. SUFFICES ASSUME TypeOK, MadeInv, [Next]_vars PROVE TypeOK' /\ MadeInv' OBVIOUS
  <2>2. TypeOK'
    BY <2>1, FileTypesStep, CopyTypesStep, RequestTypesStep, LoopTypesStep, ChildTypesStep
    DEF TypeOK
  <2>3. MadeInv' BY <2>1, RequestTypesStep, LoopTypesStep, ChildTypesStep DEF MadeInv
  <2>4. QED BY <2>2, <2>3
<1>3. QED BY <1>1, <1>2, PTL DEF Spec
-----------------------------------------------------------------------------
(* A switch-off goes on only when nothing was queued, so nothing that was  *)
(* queued can go with the copy.                                            *)
CountedInv == old = 0 /\ lost # "early"

(* No sale is removed that waited when the queue was asked: the switch-off *)
(* (`deactivate`) that was refused by an unreadable copy, or by a sale     *)
(* that waits, goes no further.                                            *)
THEOREM CountedNotLost == Spec => []LostWereLate
<1>1. Init => CountedInv BY DEF Init, CountedInv
<1>2. TypeOK /\ CountedInv /\ [Next]_vars => CountedInv'
  <2> SUFFICES ASSUME TypeOK, CountedInv, [Next]_vars PROVE CountedInv' OBVIOUS
  <2> USE DEF CountedInv
  <2>t. queue \in Nat BY Bounds DEF TypeOK, CopyTypes
  <2>c. CopyGoes => CountedInv' BY <2>t DEF CopyGoes
  <2>1. ASSUME NEW a \in Activations, Activates(a) PROVE CountedInv'
    BY <2>1, <2>c DEF Activates, ActivateLoads, ActivateRefused, ActivateSaves, ActivateFails,
       copyVars
  <2>2. CASE SwitchOffAsks
    <3>1. QueuedNow = 0 => queue = 0 BY Bounds DEF QueuedNow
    <3>2. QED BY <2>2, <3>1 DEF SwitchOffAsks
  <2>3. CASE SwitchesOff
    BY <2>3, <2>c DEF SwitchesOff, ForgetSecrets, ForgetMark, SwitchOffStops, SwitchOffEnds,
       copyVars
  <2>4. CASE Serves
    BY <2>4 DEF Serves, ChildMoves, ChildComesUp, ChildCannot, ChildEnds, ChildFails, Sale,
       Synced, copyVars
  <2>5. CASE Happens BY <2>5 DEF Happens, ManagerRestarts, Locks, Unlocks, copyVars
  <2>6. QED
    BY <2>1, <2>2, <2>3, <2>4, <2>5, WhoMoves, Frames DEF Activating, SwitchingOff
<1>3. CountedInv => LostWereLate BY DEF CountedInv, LostWereLate
<1>4. QED BY <1>1, <1>2, <1>3, TypeCorrect, PTL DEF Spec

-----------------------------------------------------------------------------
(* Between its rounds the supervisor has no process.                       *)
ProcInv == loop \in {"load", "probe", "spawn", "ending"} => proc = NoChild

(* Whoever takes the process ends what the supervisor had.                 *)
LEMMA TakesAll ==
  ASSUME ChildTypes, NobodysChild, NEW who \in {"off", "loop"}, TakesProcess(who)
  PROVE  proc' = NoChild /\ \A p \in Children : Alive(p)' => ender'[p] # "nobody"
  BY DEF ChildTypes, NobodysChild, TakesProcess, Alive

(* No step leaves a process that nobody is to end.                         *)
LEMMA NobodysChildStep ==
  ASSUME TypeOK, NobodysChild, ProcInv, [Next]_vars PROVE (NobodysChild /\ ProcInv)'
<1>t. ChildTypes BY DEF TypeOK
<1>k. ASSUME NEW who \in {"off", "loop"}, TakesProcess(who) PROVE (NobodysChild /\ ProcInv)'
  BY <1>k, <1>t, TakesAll DEF NobodysChild, ProcInv
<1>n. proc = NoChild => \A p \in Children : Alive(p) => ender[p] # "nobody"
  BY Bounds DEF NobodysChild
<1>1. CASE SwitchOffStops BY <1>1, <1>k DEF SwitchOffStops
<1>2. CASE SwitchOffAsks \/ ForgetSecrets \/ ForgetMark \/ SwitchOffEnds
  BY <1>2 DEF NobodysChild, ProcInv, Alive, SwitchOffAsks, ForgetSecrets, ForgetMark,
     SwitchOffEnds, childVars, loopVars
<1>3. CASE LoopProbes
  <2>1. \/ child' = child
        \/ child' = [p \in Children |-> IF p \in Stray THEN "exited" ELSE child[p]]
    BY <1>3 DEF LoopProbes
  <2>2. NobodysChild' BY <1>3, <2>1 DEF NobodysChild, LoopProbes, Alive
  <2>3. ProcInv' BY <1>3 DEF ProcInv, LoopProbes
  <2>4. QED BY <2>2, <2>3
<1>4. CASE LoopLoads \/ LoopStarted \/ LoopHears \/ LoopStartFails \/ LoopGivesUp
  BY <1>4 DEF NobodysChild, ProcInv, Alive, LoopLoads, LoopStarted, LoopHears,
     LoopStartFails, LoopGivesUp, childVars, loopVars
<1>5. CASE LoopStops BY <1>5, <1>k DEF LoopStops
<1>6. CASE LoopRests BY <1>6 DEF NobodysChild, ProcInv, Alive, LoopRests, childVars
<1>7. ASSUME NEW p \in Children, LoopSpawns(p) PROVE (NobodysChild /\ ProcInv)'
  <2>1. \A q \in Children : Alive(q) => ender[q] # "nobody"
    BY <1>7, <1>n DEF LoopSpawns, ProcInv
  <2>2. NobodysChild'
    <3>1. SUFFICES ASSUME NEW q \in Children, Alive(q)', ender'[q] = "nobody"
                   PROVE  proc' = q
      BY DEF NobodysChild
    <3>2. CASE q = p BY <1>t, <1>7, <3>1, <3>2 DEF LoopSpawns, ChildTypes
    <3>3. CASE q # p BY <1>t, <1>7, <2>1, <3>1, <3>3 DEF LoopSpawns, ChildTypes, Alive
    <3>4. QED BY <3>2, <3>3
  <2>3. ProcInv' BY <1>7 DEF LoopSpawns, ProcInv
  <2>4. QED BY <2>2, <2>3
<1>8. ASSUME NEW p \in Children, ChildMoves(p) \/ ChildFails(p) \/ Sale(p) \/ Synced(p)
      PROVE  (NobodysChild /\ ProcInv)'
  <2> USE <1>t DEF NobodysChild, Alive, ChildTypes
  <2>1. CASE Sale(p) \/ Synced(p) BY <2>1 DEF Sale, Synced, childVars, loopVars, ProcInv
  <2>2. CASE ChildComesUp(p) BY <2>2 DEF ChildComesUp, loopVars, ProcInv
  <2>3. CASE ChildCannot(p) \/ ChildEnds(p) BY <2>3 DEF ChildCannot, ChildEnds, loopVars, ProcInv
  <2>4. CASE ChildFails(p) BY <2>4 DEF ChildFails, loopVars, ProcInv
  <2>5. QED BY <1>8, <2>1, <2>2, <2>3, <2>4 DEF ChildMoves
<1>9. CASE Activating BY <1>9, Frames DEF NobodysChild, ProcInv, Alive
<1>10. CASE Happens
  <2>1. CASE ManagerRestarts
    BY <1>t, <2>1 DEF ManagerRestarts, NobodysChild, ProcInv, Alive, ChildTypes
  <2>2. CASE Locks \/ Unlocks
    BY <2>2 DEF Locks, Unlocks, childVars, loopVars, NobodysChild, ProcInv, Alive
  <2>3. QED BY <1>10, <2>1, <2>2 DEF Happens
<1>11. CASE UNCHANGED << loop, proc, child, ender >> BY <1>11 DEF NobodysChild, ProcInv, Alive
<1>12. QED
  BY <1>1, <1>2, <1>3, <1>4, <1>5, <1>6, <1>7, <1>8, <1>9, <1>10, <1>11, WhoMoves
  DEF SwitchingOff, SwitchesOff, Supervises, Serves

(* No process of the service runs without somebody to end it, wherever the *)
(* supervisor was when a switch-off took its process (`_stop_process`) or  *)
(* when the manager ended.                                                 *)
THEOREM EveryChildIsSomebodys == Spec => []NobodysChild
<1>1. Init => NobodysChild /\ ProcInv BY DEF Init, NobodysChild, ProcInv, Alive
<1>2. TypeOK /\ NobodysChild /\ ProcInv /\ [Next]_vars => (NobodysChild /\ ProcInv)'
  BY NobodysChildStep
<1>3. QED BY <1>1, <1>2, TypeCorrect, PTL DEF Spec
-----------------------------------------------------------------------------
(* Requests that wait for each other: at most one is on its way.           *)
Busy == { a \in Activations : act[a] \notin {"new", "done"} }
OneRequest ==
  /\ \A a, b \in Busy : a = b
  /\ off # "no" => Busy = {}

(* A process that may still make a copy under this key, or a loop that is  *)
(* about to start one.                                                     *)
Starting(k) ==
  \/ \E p \in Children : child[p] = "starting" /\ ender[p] = "nobody" /\ given[p].key = k
  \/ loop \in {"probe", "spawn"} /\ ~onPurpose /\ cfg.key = k

CopyFits == secrets # NoConfig /\ data # NoKey => secrets.key = data
SaveFits == \A a \in Activations :
  act[a] = "save" => IF secrets # NoConfig THEN made[a] = secrets.key ELSE data \in {NoKey, made[a]}
StartFits == \A k \in Activations :
  Starting(k) => IF secrets = NoConfig THEN off \in {"unmark", "stop"} ELSE secrets.key = k
Forgotten == off \in {"unmark", "stop", "stopping"} => secrets = NoConfig
KeyInv == CopyFits /\ SaveFits /\ StartFits /\ Forgotten

(* Requests that wait for each other come one at a time.                   *)
LEMMA OneRequestStep ==
  ASSUME ~Overlapping, TypeOK, OneRequest, [Next]_vars PROVE OneRequest'
<1> USE DEF OneRequest, Busy
<1>t. act \in [Activations -> {"new", "save", "configure", "mark", "done"}]
  BY DEF TypeOK, RequestTypes
<1>1. ASSUME NEW a \in Activations, Activates(a) PROVE OneRequest'
  <2>1. CASE ActivateLoads(a) BY <1>t, <2>1 DEF ActivateLoads, InTurn
  <2>2. CASE ActivateRefused(a) BY <1>t, <2>2 DEF ActivateRefused
  <2>3. CASE ActivateSaves(a) BY <1>t, <2>3 DEF ActivateSaves
  <2>4. CASE ActivateFails(a) BY <1>t, <2>4 DEF ActivateFails
  <2>5. QED BY <1>1, <2>1, <2>2, <2>3, <2>4 DEF Activates
<1>2. CASE SwitchOffAsks BY <1>2 DEF SwitchOffAsks, InTurn, requestVars
<1>3. CASE SwitchesOff
  BY <1>3 DEF SwitchesOff, ForgetSecrets, ForgetMark, SwitchOffStops, SwitchOffEnds, requestVars
<1>4. CASE ManagerRestarts BY <1>4 DEF ManagerRestarts
<1>5. CASE UNCHANGED << act, off >> BY <1>5
<1>6. CASE Locks \/ Unlocks BY <1>6 DEF Locks, Unlocks, requestVars
<1>7. QED
  BY <1>1, <1>2, <1>3, <1>4, <1>5, <1>6, WhoMoves, Frames DEF Activating, SwitchingOff, Happens

(* While a request that switches on is on its way, none switches off.      *)
LEMMA ActivatesAlone ==
  ASSUME TypeOK, OneRequest, NEW a \in Activations, act[a] \notin {"new", "done"}
  PROVE  off = "no" /\ \A b \in Activations : b # a => act[b] \in {"new", "done"}
  BY DEF OneRequest, Busy

(* An activation keeps the key and the copy together.                      *)
LEMMA KeyKeptActivating ==
  ASSUME ~Overlapping, TypeOK, MadeInv, OneRequest, KeyInv, Activating PROVE KeyInv'
<1> PICK a \in Activations : Activates(a) BY DEF Activating
<1> USE DEF KeyInv
<1>t. /\ act \in [Activations -> {"new", "save", "configure", "mark", "done"}]
      /\ made \in [Activations -> Activations \union {NoKey}]
      /\ secrets \in Secrets \union {NoConfig} /\ data \in Activations \union {NoKey}
  BY DEF TypeOK, RequestTypes, FileTypes, CopyTypes
<1>u. UNCHANGED << off, loop, cfg, onPurpose, child, given, ender >> BY Frames
<1>s. \A k \in Activations : Starting(k)' <=> Starting(k) BY <1>u DEF Starting
<1>1. CASE ActivateLoads(a)
  <2>1. off = "no" /\ \A b \in Activations : act[b] \in {"new", "done"}
    BY <1>1 DEF ActivateLoads, InTurn
  <2>2. secrets' = secrets BY <1>1 DEF ActivateLoads, fileVars
  <2>3. StartFits' /\ Forgotten' BY <2>2, <1>u, <1>s DEF StartFits, Forgotten
  <2>4. CopyFits' BY <1>1, <2>2 DEF CopyFits, ActivateLoads, CopyGoes, copyVars
  <2>5. SaveFits'
    <3>1. SUFFICES ASSUME NEW b \in Activations, act'[b] = "save"
                   PROVE  IF secrets' # NoConfig THEN made'[b] = secrets'.key
                          ELSE data' \in {NoKey, made'[b]}
      BY DEF SaveFits
    <3>2. b = a BY <1>t, <1>1, <2>1, <3>1 DEF ActivateLoads
    <3>3. QED BY <1>t, <1>1, <2>2, <3>2 DEF ActivateLoads, CopyGoes
  <2>6. QED BY <2>3, <2>4, <2>5
<1>2. CASE ActivateSaves(a) /\ act[a] = "save"
  <2>1. off = "no" /\ \A b \in Activations : b # a => act[b] \in {"new", "done"}
    BY <1>2, ActivatesAlone
  <2>2. /\ secrets' = [token |-> a, key |-> made[a]] /\ data' = data
        /\ act' = [act EXCEPT ![a] = "configure"]
    BY <1>2 DEF ActivateSaves, copyVars
  <2>3. secrets' # NoConfig /\ secrets'.key = made[a] /\ made[a] \in Activations
    BY <1>2, <2>2, SecretKey, Bounds DEF MadeInv
  <2>4. CopyFits' BY <1>2, <2>2, <2>3 DEF CopyFits, SaveFits
  <2>5. SaveFits' BY <1>t, <2>1, <2>2 DEF SaveFits
  <2>6. StartFits' BY <1>2, <1>s, <1>u, <2>1, <2>3 DEF StartFits, SaveFits
  <2>7. Forgotten' BY <1>u, <2>1 DEF Forgotten
  <2>8. QED BY <2>4, <2>5, <2>6, <2>7
<1>3. CASE \/ ActivateRefused(a) \/ ActivateFails(a)
           \/ ActivateSaves(a) /\ act[a] # "save"
  <2>1. /\ UNCHANGED << secrets, data, made >>
        /\ \A b \in Activations : act'[b] = "save" => act[b] = "save"
    BY <1>t, <1>3 DEF ActivateRefused, ActivateFails, ActivateSaves, fileVars, copyVars
  <2>2. CopyFits' /\ StartFits' /\ Forgotten'
    BY <1>u, <1>s, <2>1 DEF CopyFits, StartFits, Forgotten
  <2>3. SaveFits' BY <2>1 DEF SaveFits
  <2>4. QED BY <2>2, <2>3
<1>4. QED BY <1>1, <1>2, <1>3 DEF Activates

(* A switch-off forgets the key before the copy.                           *)
LEMMA KeyKeptSwitchingOff ==
  ASSUME TypeOK, NobodysChild, OneRequest, KeyInv, SwitchingOff PROVE KeyInv'
<1> USE DEF KeyInv
<1>t. ChildTypes BY DEF TypeOK
<1>u. UNCHANGED << act, made, loop, cfg, child, given >> BY Frames
<1>1. CASE SwitchOffAsks
  <2>1. /\ UNCHANGED << secrets, data, onPurpose, ender >>
        /\ off' \in {"no", "forget"} /\ off = "no"
    BY <1>1 DEF SwitchOffAsks, fileVars, childVars
  <2>2. \A k \in Activations : Starting(k)' <=> Starting(k) BY <1>u, <2>1 DEF Starting
  <2>3. CopyFits' /\ SaveFits' BY <1>u, <2>1 DEF CopyFits, SaveFits
  <2>4. StartFits' /\ Forgotten' BY <2>1, <2>2 DEF StartFits, Forgotten
  <2>5. QED BY <2>3, <2>4
<1>2. CASE ForgetSecrets \/ ForgetMark
  <2>1. off # "no" /\ UNCHANGED << data, onPurpose, ender >>
    BY <1>2 DEF ForgetSecrets, ForgetMark, copyVars, loopVars, childVars
  <2>2. \A a \in Activations : act'[a] # "save" BY <1>u, <2>1 DEF OneRequest, Busy
  <2>3. \A k \in Activations : Starting(k)' <=> Starting(k) BY <1>u, <2>1 DEF Starting
  <2>4. \/ secrets' = NoConfig /\ off' = "unmark"
        \/ secrets' = secrets /\ off' \in {"stop only", "no"} /\ off = "forget"
        \/ secrets' = secrets /\ off' = "stop" /\ off = "unmark"
    BY <1>2 DEF ForgetSecrets, ForgetMark
  <2>5. CopyFits' BY <2>1, <2>4 DEF CopyFits
  <2>6. SaveFits' BY <2>2 DEF SaveFits
  <2>7. StartFits' /\ Forgotten' BY <2>3, <2>4 DEF StartFits, Forgotten
  <2>8. QED BY <2>5, <2>6, <2>7
<1>3. CASE SwitchOffStops
  <2>1. /\ onPurpose' = TRUE /\ TakesProcess("off") /\ UNCHANGED << secrets, data >>
        /\ off \in {"stop", "stop only"}
        /\ off' = "stopping" => off = "stop"
        /\ off' \in {"stopping", "stopping only"}
    BY <1>3 DEF SwitchOffStops, fileVars, copyVars
  <2>2. \A k \in Activations : ~Starting(k)' BY <1>t, <2>1, TakesAll DEF Starting, Alive
  <2>3. CopyFits' /\ SaveFits' BY <1>u, <2>1 DEF CopyFits, SaveFits
  <2>4. StartFits' /\ Forgotten' BY <2>1, <2>2 DEF StartFits, Forgotten
  <2>5. QED BY <2>3, <2>4
<1>4. CASE SwitchOffEnds
  <2>1. /\ off \in {"stopping", "stopping only"} /\ off' = "no"
        /\ UNCHANGED << onPurpose, ender >>
        /\ \/ off = "stopping" /\ secrets' = NoConfig
           \/ UNCHANGED << secrets, data >>
    BY <1>4 DEF SwitchOffEnds, copyVars, loopVars, childVars
  <2>2. \A a \in Activations : act'[a] # "save" BY <1>u, <2>1 DEF OneRequest, Busy
  <2>3. \A k \in Activations : Starting(k)' <=> Starting(k) BY <1>u, <2>1 DEF Starting
  <2>4. CopyFits' BY <2>1 DEF CopyFits
  <2>5. SaveFits' BY <2>2 DEF SaveFits
  <2>6. StartFits' /\ Forgotten' BY <2>1, <2>3 DEF StartFits, Forgotten
  <2>7. QED BY <2>4, <2>5, <2>6
<1>5. QED BY <1>1, <1>2, <1>3, <1>4 DEF SwitchingOff, SwitchesOff

(* The supervisor starts the service with a key that fits.                 *)
LEMMA KeyKeptSupervises ==
  ASSUME TypeOK, MadeInv, NobodysChild, OneRequest, KeyInv, Supervises PROVE KeyInv'
<1> USE DEF KeyInv
<1>t. ChildTypes BY DEF TypeOK
<1>u. UNCHANGED << secrets, data, act, made, off >> BY Frames
<1>s. SUFFICES \A k \in Activations : Starting(k)' => Starting(k) \/ (secrets # NoConfig /\ secrets.key = k)
  <2>1. CopyFits' /\ SaveFits' /\ Forgotten' BY <1>u DEF CopyFits, SaveFits, Forgotten
  <2>2. StartFits' BY <1>s, <1>u DEF StartFits
  <2>3. QED BY <2>1, <2>2
<1>1. CASE LoopLoads BY <1>1 DEF LoopLoads, CurrentConfig, Starting, childVars
<1>2. CASE LoopProbes
  <2>1. \/ child' = child
        \/ child' = [p \in Children |-> IF p \in Stray THEN "exited" ELSE child[p]]
    BY <1>2 DEF LoopProbes
  <2>2. \A p \in Children : child'[p] = "starting" => child[p] = "starting" BY <2>1
  <2>3. QED BY <1>2, <2>2 DEF LoopProbes, Starting
<1>3. CASE LoopStarted \/ LoopStartFails \/ LoopHears \/ LoopGivesUp \/ LoopRests
  BY <1>3 DEF LoopStarted, LoopStartFails, LoopHears, LoopGivesUp, LoopRests, Starting, childVars
<1>4. CASE LoopStops BY <1>t, <1>4, TakesAll DEF LoopStops, Starting, Alive
<1>5. ASSUME NEW p \in Children, LoopSpawns(p), NEW k \in Activations, Starting(k)'
      PROVE  Starting(k)
  <2>1. PICK q \in Children : child'[q] = "starting" /\ ender'[q] = "nobody" /\ given'[q].key = k
    BY <1>5 DEF LoopSpawns, Starting
  <2>2. CASE q = p BY <1>t, <1>5, <2>1, <2>2 DEF LoopSpawns, Starting, ChildTypes
  <2>3. CASE q # p BY <1>t, <1>5, <2>1, <2>3 DEF LoopSpawns, Starting, ChildTypes
  <2>4. QED BY <2>2, <2>3
<1>6. QED BY <1>1, <1>2, <1>3, <1>4, <1>5 DEF Supervises

(* The service makes a copy with the key it was given.                     *)
LEMMA KeyKeptServing ==
  ASSUME TypeOK, MadeInv, OneRequest, KeyInv, Serves PROVE KeyInv'
<1> USE DEF KeyInv
<1> PICK p \in Children : ChildMoves(p) \/ ChildFails(p) \/ Sale(p) \/ Synced(p) BY DEF Serves
<1>t. ChildTypes BY DEF TypeOK
<1>u. UNCHANGED << secrets, act, made, off, loop, cfg, onPurpose, given, ender >> BY Frames
<1>c. \A q \in Children : child'[q] = "starting" => child[q] = "starting"
  BY <1>t DEF ChildMoves, ChildComesUp, ChildCannot, ChildEnds, ChildFails, Sale, Synced,
     childVars, ChildTypes
<1>s. \A k \in Activations : Starting(k)' => Starting(k) BY <1>u, <1>c DEF Starting
<1>1. StartFits' /\ Forgotten' BY <1>u, <1>s DEF StartFits, Forgotten
<1>2. CASE ChildComesUp(p)
  <2>1. given[p] \in Secrets BY <1>2 DEF ChildComesUp, MadeInv, Alive
  <2>2. PICK k \in Activations : k = given[p].key BY <2>1, SecretKey
  <2>3. Starting(k) BY <1>2, <2>2 DEF ChildComesUp, Starting
  <2>4. data' = k BY <1>2, <2>2 DEF ChildComesUp
  <2>5. IF secrets = NoConfig THEN off \in {"unmark", "stop"} ELSE secrets.key = k
    BY <2>3 DEF StartFits
  <2>6. CopyFits' BY <1>u, <2>4, <2>5 DEF CopyFits
  <2>7. SaveFits'
    BY <1>u, <2>5 DEF SaveFits, OneRequest, Busy
  <2>8. QED BY <1>1, <2>6, <2>7
<1>3. CASE ChildCannot(p) \/ ChildEnds(p) \/ ChildFails(p) \/ Sale(p) \/ Synced(p)
  <2>1. data' = data
    BY <1>3 DEF ChildCannot, ChildEnds, ChildFails, Sale, Synced, copyVars
  <2>2. CopyFits' /\ SaveFits' BY <1>u, <2>1 DEF CopyFits, SaveFits
  <2>3. QED BY <1>1, <2>2
<1>4. QED BY <1>2, <1>3 DEF ChildMoves

(* Ends of the manager and a locked keyring change no key.                 *)
LEMMA KeyKeptHappens ==
  ASSUME TypeOK, NobodysChild, OneRequest, KeyInv, Happens PROVE KeyInv'
<1> USE DEF KeyInv
<1>t. ChildTypes BY DEF TypeOK
<1>u. UNCHANGED << secrets, data, made, child, given >> BY Frames
<1>1. CASE ManagerRestarts
  <2>1. /\ \A a \in Activations : act'[a] # "save"
        /\ off' = "no" /\ loop' = "load"
        /\ \A p \in Children : child[p] = "starting" => ender'[p] # "nobody"
    BY <1>1 DEF ManagerRestarts, Alive
  <2>2. \A k \in Activations : ~Starting(k)' BY <1>u, <2>1 DEF Starting
  <2>3. CopyFits' /\ SaveFits' BY <1>u, <2>1 DEF CopyFits, SaveFits
  <2>4. StartFits' /\ Forgotten' BY <2>1, <2>2 DEF StartFits, Forgotten
  <2>5. QED BY <2>3, <2>4
<1>2. CASE Locks \/ Unlocks
  <2>1. UNCHANGED << act, off, loop, cfg, onPurpose, ender >>
    BY <1>2 DEF Locks, Unlocks, requestVars, loopVars, childVars
  <2>2. QED
    BY <1>u, <2>1 DEF CopyFits, SaveFits, StartFits, Forgotten, Starting
<1>3. QED BY <1>1, <1>2 DEF Happens

(* When requests wait for each other, the key of a shop that is switched   *)
(* on opens its copy: neither a new token, nor a crash between two files,  *)
(* nor a switch-off while the service starts leaves one that does not fit. *)
(* A request that comes in between (`Overlapping`) may leave one.          *)
THEOREM KeyFitsCopy == ~Overlapping => (Spec => []KeyOpensCopy)
<1>1. Init => OneRequest /\ KeyInv
  BY DEF Init, OneRequest, Busy, KeyInv, CopyFits, SaveFits, StartFits, Starting, Forgotten
<1>2. ~Overlapping /\ TypeOK /\ MadeInv /\ NobodysChild /\ OneRequest /\ KeyInv /\ [Next]_vars
        => (OneRequest /\ KeyInv)'
  <2>1. SUFFICES ASSUME ~Overlapping, TypeOK, MadeInv, NobodysChild, OneRequest, KeyInv,
                        [Next]_vars
                 PROVE  OneRequest' /\ KeyInv'
    OBVIOUS
  <2>2. CASE UNCHANGED << active, secrets, config, data, queue, old, lost, locked, act,
                          made, off, loop, cfg, onPurpose, extra, proc, child, given,
                          ender, faults >>
    BY <2>1, <2>2 DEF OneRequest, Busy, KeyInv, CopyFits, SaveFits, StartFits, Starting, Forgotten
  <2>3. KeyInv'
    BY <2>1, <2>2, WhoMoves, KeyKeptActivating, KeyKeptSwitchingOff, KeyKeptSupervises,
       KeyKeptServing, KeyKeptHappens
  <2>4. QED BY <2>1, <2>3, OneRequestStep
<1>3. KeyInv => KeyOpensCopy BY DEF KeyInv, CopyFits, KeyOpensCopy
<1>4. CASE ~Overlapping
  BY <1>1, <1>2, <1>3, <1>4, TypeCorrect, EveryChildIsSomebodys, PTL DEF Spec
<1>5. QED BY <1>4
=============================================================================
