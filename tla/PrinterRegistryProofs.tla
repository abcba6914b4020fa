----------------------- MODULE PrinterRegistryProofs -----------------------
(***************************************************************************)
(* For any requests, devices and number of registrations: the variables of *)
(* PrinterRegistry keep their types, the cache never hands out a dropped   *)
(* device, and neither a registration nor GET /busy hides one that writes. *)
(***************************************************************************)
EXTENDS PrinterRegistry, TLAPS

(* The caller x stands in the line of a lock.                              *)
InLine(x, line) == \E i \in DOMAIN line : line[i] = x

(* A caller that is not idle has a device in its hand, and one in connect()*)
(* stands in the line of its lock, at the head when it opens the handle.   *)
HandInv ==
  \A c \in Callers :
    /\ at[c] # "idle" => dev[c] \in Devices
    /\ at[c] = "connecting" => InLine(c, lock[dev[c]])
    /\ at[c] = "opening" => lock[dev[c]] # << >> /\ Head(lock[dev[c]]) = c

(* In connect() with a device it built itself.                             *)
Brings(c) == fresh[c] /\ at[c] \in {"connecting", "opening"}

(* A device on its way into the cache is its caller's alone, not dropped.  *)
FreshInv ==
  \A c \in Callers : Brings(c) =>
    /\ drop[dev[c]] = "no" /\ dev[c] # cached
    /\ \A b \in Callers \ {c} : Brings(b) => dev[b] # dev[c]

RegistryInv == TypeOK /\ HandInv /\ FreshInv /\ CachedIsLive

-----------------------------------------------------------------------------
(* Sequences: what stands in a line when one comes or goes.                *)
LEMMA LineAppend ==
  ASSUME NEW S, NEW line \in Seq(S), NEW e \in S
  PROVE  /\ Append(line, e) \in Seq(S) /\ Append(line, e) # << >>
         /\ line # << >> => Head(Append(line, e)) = Head(line)
         /\ line = << >> => Head(Append(line, e)) = e
         /\ InLine(e, Append(line, e))
         /\ \A x : InLine(x, line) => InLine(x, Append(line, e))
<1>1. /\ Append(line, e) \in Seq(S) /\ Len(Append(line, e)) = Len(line) + 1
      /\ Append(line, e)[Len(line) + 1] = e
      /\ \A i \in 1 .. Len(line) : Append(line, e)[i] = line[i]
  OBVIOUS
<1>2. DOMAIN line = 1 .. Len(line) /\ Len(line) \in Nat OBVIOUS
<1>3. DOMAIN Append(line, e) = 1 .. Len(line) + 1 BY <1>1
<1>4. line # << >> => Len(line) >= 1 OBVIOUS
<1>5. Append(line, e) # << >> /\ Head(Append(line, e)) = Append(line, e)[1]
  BY <1>1, <1>2
<1>6. line # << >> => Head(Append(line, e)) = Head(line)
  BY <1>1, <1>2, <1>4, <1>5
<1>7. line = << >> => Head(Append(line, e)) = e BY <1>1, <1>2, <1>5
<1>8. QED BY <1>1, <1>2, <1>3, <1>5, <1>6, <1>7 DEF InLine

(* Who is not at the head is still in the line when the head has left.     *)
LEMMA LineTail ==
  ASSUME NEW S, NEW line \in Seq(S), line # << >>
  PROVE  /\ Tail(line) \in Seq(S) /\ Head(line) \in S
         /\ \A x : InLine(x, line) /\ x # Head(line) => InLine(x, Tail(line))
<1>1. /\ Tail(line) \in Seq(S) /\ Head(line) \in S /\ Len(line) \in Nat /\ Len(line) >= 1
      /\ Len(Tail(line)) = Len(line) - 1 /\ Head(line) = line[1]
      /\ \A i \in 1 .. Len(line) - 1 : Tail(line)[i] = line[i + 1]
  OBVIOUS
<1>2. ASSUME NEW x, NEW i \in DOMAIN line, line[i] = x, x # Head(line)
      PROVE  \E k \in DOMAIN Tail(line) : Tail(line)[k] = x
  <2>1. i \in 1 .. Len(line) /\ i # 1 BY <1>1, <1>2
  <2>2. i - 1 \in 1 .. Len(line) - 1 /\ (i - 1) + 1 = i BY <1>1, <2>1
  <2>3. Tail(line)[i - 1] = x BY <1>1, <1>2, <2>2
  <2>4. i - 1 \in DOMAIN Tail(line) BY <1>1, <2>2
  <2>5. QED BY <2>3, <2>4
<1>3. QED BY <1>1, <1>2 DEF InLine

(* Nobody stands in an empty line.                                         *)
LEMMA LineEmpty == ASSUME NEW x, NEW line, InLine(x, line) PROVE line # << >>
BY DEF InLine

(* The first of an idle device's objects.                                  *)
LEMMA NewDeviceType == Unbuilt # {} => NewDevice \in Unbuilt
BY DEF NewDevice

-----------------------------------------------------------------------------
(* A caller that got its device waits with it or is idle; nobody else moves.*)
LEMMA GrantedMoves ==
  ASSUME TypeOK, NEW c \in Callers, NEW d \in Devices, NEW open, Granted(c, d, open)
  PROVE  /\ queue' \in [Devices -> Seq(Handlers)]
         /\ at' \in [Callers -> {"idle", "connecting", "opening", "waiting"}]
         /\ dev' \in [Callers -> Devices \union {NoDevice}]
         /\ \A b \in Callers \ {c} : at'[b] = at[b] /\ dev'[b] = dev[b]
         /\ at'[c] \in {"idle", "waiting"}
         /\ at'[c] # "idle" => dev'[c] = d
<1>1. CASE c # Watcher /\ open
  <2>1. /\ queue' = [queue EXCEPT ![d] = Append(@, c)]
        /\ at' = [at EXCEPT ![c] = "waiting"] /\ dev' = [dev EXCEPT ![c] = d]
    BY <1>1 DEF Granted
  <2>2. c \in Handlers BY <1>1 DEF Callers
  <2>3. Append(queue[d], c) \in Seq(Handlers) BY <2>2 DEF TypeOK
  <2>4. QED BY <2>1, <2>3 DEF TypeOK
<1>2. CASE ~(c # Watcher /\ open)
  BY <1>2 DEF Granted, TypeOK
<1>3. QED BY <1>1, <1>2

(* A caller that enters connect() stands in the line of the lock.          *)
LEMMA EntersMoves ==
  ASSUME TypeOK, NEW c \in Callers, NEW d \in Devices, Enters(c, d)
  PROVE  /\ lock' \in [Devices -> Seq(Callers)]
         /\ at' \in [Callers -> {"idle", "connecting", "opening", "waiting"}]
         /\ dev' \in [Callers -> Devices \union {NoDevice}]
         /\ \A b \in Callers \ {c} : at'[b] = at[b] /\ dev'[b] = dev[b]
         /\ at'[c] \in {"connecting", "opening"} /\ dev'[c] = d
         /\ at'[c] = "opening" <=> lock[d] = << >>
         /\ lock'[d] = Append(lock[d], c)
         /\ \A e \in Devices \ {d} : lock'[e] = lock[e]
BY DEF Enters, TypeOK

(* When connect() answers, its caller leaves the line and nobody else does. *)
LEMMA ReturnsMoves ==
  ASSUME TypeOK, HandInv, NEW c \in Callers, NEW open, Returns(c, open),
         at[c] \in {"connecting", "opening"}, Head(lock[dev[c]]) = c
  PROVE  /\ dev[c] \in Devices /\ lock[dev[c]] # << >>
         /\ lock' \in [Devices -> Seq(Callers)]
         /\ cached' \in Devices \union {NoDevice}
         /\ fresh' \in [Callers -> BOOLEAN]
         /\ fresh'[c] = FALSE /\ \A b \in Callers \ {c} : fresh'[b] = fresh[b]
         /\ lock'[dev[c]] = Tail(lock[dev[c]])
         /\ \A e \in Devices \ {dev[c]} : lock'[e] = lock[e]
<1>1. dev[c] \in Devices BY DEF HandInv
<1>2. lock[dev[c]] # << >> BY LineEmpty DEF HandInv
<1>3. Tail(lock[dev[c]]) \in Seq(Callers) BY <1>1, <1>2, LineTail DEF TypeOK
<1>4. lock' = [lock EXCEPT ![dev[c]] = Tail(@)] /\ fresh' = [fresh EXCEPT ![c] = FALSE]
      /\ cached' = IF fresh[c] THEN dev[c] ELSE cached
  BY DEF Returns
<1>5. QED BY <1>1, <1>2, <1>3, <1>4 DEF TypeOK

(* Those who are answered are idle; nobody else moves.                     *)
LEMMA AnsweredMoves ==
  ASSUME TypeOK, NEW cs, Answered(cs)
  PROVE  /\ at' \in [Callers -> {"idle", "connecting", "opening", "waiting"}]
         /\ dev' \in [Callers -> Devices \union {NoDevice}]
         /\ \A b \in Callers : at'[b] = "idle" \/ (at'[b] = at[b] /\ dev'[b] = dev[b])
BY DEF Answered, TypeOK

-----------------------------------------------------------------------------
(* Every step keeps the types.                                             *)
LEMMA TypeStep ==
  ASSUME TypeOK, HandInv, [Next]_vars
  PROVE  TypeOK'
<1> USE ParameterAssumption
<1>1. CASE Register
  BY <1>1 DEF Register, DropCached, TypeOK, deviceVars, jobVars, callerVars
<1>2. CASE Unregister
  BY <1>2 DEF Unregister, DropCached, TypeOK, deviceVars, jobVars, callerVars
<1>3. CASE PollBusy
  BY <1>3 DEF PollBusy, TypeOK, registrationVars, deviceVars, jobVars, callerVars
<1>4. CASE SwitchPower
  BY <1>4 DEF SwitchPower, TypeOK, registrationVars, cacheVars, deviceVars, jobVars, callerVars
<1>5. ASSUME NEW c \in Callers, AskCached(c) PROVE TypeOK'
  <2>1. cached \in Devices BY <1>5 DEF AskCached, TypeOK
  <2>2. fresh' \in [Callers -> BOOLEAN] BY <1>5 DEF AskCached, TypeOK
  <2>3. CASE Granted(c, cached, TRUE) /\ UNCHANGED lock
    BY <1>5, <2>1, <2>2, <2>3, GrantedMoves
    DEF AskCached, TypeOK, registrationVars, cacheVars
  <2>4. CASE Enters(c, cached) /\ UNCHANGED queue
    BY <1>5, <2>1, <2>2, <2>4, EntersMoves
    DEF AskCached, TypeOK, registrationVars, cacheVars
  <2>5. QED BY <1>5, <2>3, <2>4 DEF AskCached
<1>6. ASSUME NEW c \in Callers, NEW d \in Devices, AskBuilt(c, d) PROVE TypeOK'
  <2>1. Enters(c, d) BY <1>6 DEF AskBuilt
  <2>2. QED BY <1>6, <2>1, EntersMoves DEF AskBuilt, TypeOK, registrationVars, jobVars
<1>7. ASSUME NEW c \in Callers, ConnectAtOnce(c) PROVE TypeOK'
  <2>1. /\ at[c] = "connecting" /\ Head(lock[dev[c]]) = c /\ Returns(c, conn[dev[c]])
    BY <1>7 DEF ConnectAtOnce, NextInLock
  <2>2. dev[c] \in Devices BY <2>1 DEF HandInv
  <2>3. Granted(c, dev[c], conn[dev[c]]) BY <2>1 DEF Returns
  <2>4. QED BY <1>7, <2>1, <2>2, <2>3, ReturnsMoves, GrantedMoves
        DEF ConnectAtOnce, TypeOK, registrationVars
<1>8. ASSUME NEW c \in Callers, ConnectBegins(c) PROVE TypeOK'
  BY <1>8 DEF ConnectBegins, TypeOK, registrationVars, cacheVars, deviceVars, jobVars, callerVars
<1>9. ASSUME NEW c \in Callers, ConnectEnds(c) PROVE TypeOK'
  <2>1. /\ at[c] = "opening" /\ Returns(c, CanOpen(dev[c]))
        /\ conn' = [conn EXCEPT ![dev[c]] = CanOpen(dev[c])]
        /\ claimed' = [claimed EXCEPT ![dev[c]] = CanOpen(dev[c])]
    BY <1>9 DEF ConnectEnds
  <2>2. dev[c] \in Devices /\ Head(lock[dev[c]]) = c BY <2>1 DEF HandInv
  <2>3. Granted(c, dev[c], CanOpen(dev[c])) BY <2>1 DEF Returns
  <2>4. CanOpen(dev[c]) \in BOOLEAN BY DEF CanOpen, TypeOK
  <2>5. conn' \in [Devices -> BOOLEAN] /\ claimed' \in [Devices -> BOOLEAN]
    BY <2>1, <2>4 DEF TypeOK
  <2>6. QED BY <1>9, <2>1, <2>2, <2>3, <2>5, ReturnsMoves, GrantedMoves
        DEF ConnectEnds, TypeOK, registrationVars
<1>10. ASSUME NEW d \in Devices, TakeJob(d) PROVE TypeOK'
  <2>1. Head(queue[d]) \in Handlers /\ Tail(queue[d]) \in Seq(Handlers)
    BY <1>10, LineTail DEF TakeJob, TypeOK
  <2>2. QED BY <1>10, <2>1
        DEF TakeJob, TypeOK, registrationVars, cacheVars, deviceVars, callerVars
<1>11. ASSUME NEW d \in Devices, WriteEnds(d) PROVE TypeOK'
  <2>1. Answered({writing[d]}) BY <1>11 DEF WriteEnds
  <2>2. QED BY <1>11, <2>1, AnsweredMoves DEF WriteEnds, TypeOK, registrationVars, cacheVars
<1>12. ASSUME NEW d \in Devices, ConnectionLost(d) PROVE TypeOK'
  <2>1. Answered(QueuedIn(d) \union {writing[d]}) BY <1>12 DEF ConnectionLost
  <2>2. QED BY <1>12, <2>1, AnsweredMoves DEF ConnectionLost, TypeOK, registrationVars, cacheVars
<1>13. ASSUME NEW d \in Devices, DropRetires(d) PROVE TypeOK'
  BY <1>13 DEF DropRetires, TypeOK, registrationVars, deviceVars, jobVars, callerVars
<1>14. ASSUME NEW d \in Devices, DropCloses(d) PROVE TypeOK'
  <2>1. Answered(QueuedIn(d)) BY <1>14 DEF DropCloses
  <2>2. QED BY <1>14, <2>1, AnsweredMoves DEF DropCloses, TypeOK, registrationVars
<1>15. ASSUME NEW d \in Devices, Collected(d) PROVE TypeOK'
  BY <1>15 DEF Collected, TypeOK, registrationVars, cacheVars, jobVars, callerVars
<1>16. CASE UNCHANGED vars BY <1>16 DEF vars, TypeOK
<1>17. QED BY <1>1, <1>2, <1>3, <1>4, <1>5, <1>6, <1>7, <1>8, <1>9, <1>10, <1>11,
              <1>12, <1>13, <1>14, <1>15, <1>16
       DEF Next, Asks, Connects, Works, Drops

-----------------------------------------------------------------------------
(* Who enters a line leaves the others of it where they are.               *)
LEMMA HandEnters ==
  ASSUME TypeOK, HandInv, NEW c \in Callers, NEW d \in Devices, Enters(c, d)
  PROVE  HandInv'
<1>1. SUFFICES ASSUME NEW b \in Callers
               PROVE /\ at'[b] # "idle" => dev'[b] \in Devices
                     /\ at'[b] = "connecting" => InLine(b, lock'[dev'[b]])
                     /\ at'[b] = "opening" => lock'[dev'[b]] # << >> /\ Head(lock'[dev'[b]]) = b
  BY DEF HandInv
<1>2. lock[d] \in Seq(Callers) BY DEF TypeOK
<1>3. lock'[d] = Append(lock[d], c) BY EntersMoves
<1>4. /\ lock'[d] # << >>
      /\ lock[d] # << >> => Head(lock'[d]) = Head(lock[d])
      /\ lock[d] = << >> => Head(lock'[d]) = c
      /\ InLine(c, lock'[d])
      /\ InLine(b, lock[d]) => InLine(b, lock'[d])
  BY <1>2, <1>3, LineAppend
<1>5. CASE b = c
  <2>1. dev'[c] = d /\ at'[c] \in {"connecting", "opening"} BY EntersMoves
  <2>2. at'[c] = "opening" <=> lock[d] = << >> BY EntersMoves
  <2>3. QED BY <1>4, <1>5, <2>1, <2>2
<1>6. CASE b # c
  <2>1. at'[b] = at[b] /\ dev'[b] = dev[b] BY <1>6, EntersMoves
  <2>2. CASE dev[b] = d BY <1>4, <2>1, <2>2 DEF HandInv
  <2>3. CASE dev[b] # d
    <3>1. at[b] # "idle" => lock'[dev[b]] = lock[dev[b]] BY <2>3, EntersMoves DEF HandInv
    <3>2. QED BY <2>1, <3>1 DEF HandInv
  <2>4. QED BY <2>2, <2>3
<1>7. QED BY <1>5, <1>6

(* Nor does who leaves it, being at its head.                              *)
LEMMA HandReturns ==
  ASSUME TypeOK, HandInv, NEW c \in Callers, NEW open \in BOOLEAN, Returns(c, open),
         at[c] \in {"connecting", "opening"}, Head(lock[dev[c]]) = c
  PROVE  HandInv'
<1>1. SUFFICES ASSUME NEW b \in Callers
               PROVE /\ at'[b] # "idle" => dev'[b] \in Devices
                     /\ at'[b] = "connecting" => InLine(b, lock'[dev'[b]])
                     /\ at'[b] = "opening" => lock'[dev'[b]] # << >> /\ Head(lock'[dev'[b]]) = b
  BY DEF HandInv
<1>2. dev[c] \in Devices /\ lock[dev[c]] \in Seq(Callers) /\ lock[dev[c]] # << >>
  BY ReturnsMoves DEF TypeOK
<1>3. /\ \A a \in Callers \ {c} : at'[a] = at[a] /\ dev'[a] = dev[a]
      /\ at'[c] \in {"idle", "waiting"}
      /\ at'[c] # "idle" => dev'[c] = dev[c]
  <2>1. Granted(c, dev[c], open) BY DEF Returns
  <2>2. QED BY <1>2, <2>1, GrantedMoves
<1>4. InLine(b, lock[dev[c]]) /\ b # c => InLine(b, lock'[dev[c]])
  <2>1. lock'[dev[c]] = Tail(lock[dev[c]]) BY ReturnsMoves
  <2>2. QED BY <1>2, <2>1, LineTail
<1>5. CASE b = c BY <1>2, <1>3, <1>5
<1>6. CASE b # c
  <2>1. at'[b] = at[b] /\ dev'[b] = dev[b] BY <1>3, <1>6
  <2>2. CASE dev[b] = dev[c] BY <1>4, <1>6, <2>1, <2>2 DEF HandInv
  <2>3. CASE dev[b] # dev[c]
    <3>1. at[b] # "idle" => lock'[dev[b]] = lock[dev[b]] BY <2>3, ReturnsMoves DEF HandInv
    <3>2. QED BY <2>1, <3>1 DEF HandInv
  <2>4. QED BY <2>2, <2>3
<1>7. QED BY <1>5, <1>6

(* Every step keeps the lines of the locks.                                *)
LEMMA HandStep ==
  ASSUME TypeOK, HandInv, [Next]_vars
  PROVE  HandInv'
<1>1. CASE UNCHANGED << at, dev, lock >> BY <1>1 DEF HandInv
<1>2. ASSUME NEW c \in Callers, AskCached(c) PROVE HandInv'
  <2>1. cached \in Devices BY <1>2 DEF AskCached, TypeOK
  <2>2. CASE Granted(c, cached, TRUE) /\ UNCHANGED lock
    <3>1. /\ \A b \in Callers \ {c} : at'[b] = at[b] /\ dev'[b] = dev[b]
          /\ at'[c] \in {"idle", "waiting"}
          /\ at'[c] # "idle" => dev'[c] = cached
      BY <2>1, <2>2, GrantedMoves
    <3>2. QED BY <2>1, <2>2, <3>1 DEF HandInv
  <2>3. CASE Enters(c, cached) BY <2>1, <2>3, HandEnters
  <2>4. QED BY <1>2, <2>2, <2>3 DEF AskCached
<1>3. ASSUME NEW c \in Callers, NEW d \in Devices, AskBuilt(c, d) PROVE HandInv'
  BY <1>3, HandEnters DEF AskBuilt
<1>4. ASSUME NEW c \in Callers, ConnectAtOnce(c) PROVE HandInv'
  <2>1. /\ at[c] = "connecting" /\ Head(lock[dev[c]]) = c /\ Returns(c, conn[dev[c]])
    BY <1>4 DEF ConnectAtOnce, NextInLock
  <2>2. conn[dev[c]] \in BOOLEAN BY <2>1 DEF HandInv, TypeOK
  <2>3. QED BY <2>1, <2>2, HandReturns
<1>5. ASSUME NEW c \in Callers, ConnectBegins(c) PROVE HandInv'
  <2>1. /\ at[c] = "connecting" /\ Head(lock[dev[c]]) = c
        /\ at' = [at EXCEPT ![c] = "opening"] /\ UNCHANGED << dev, lock >>
    BY <1>5 DEF ConnectBegins, NextInLock, deviceVars, callerVars
  <2>2. dev[c] \in Devices /\ lock[dev[c]] # << >> BY <2>1, LineEmpty DEF HandInv
  <2>3. QED BY <2>1, <2>2 DEF HandInv, TypeOK
<1>6. ASSUME NEW c \in Callers, ConnectEnds(c) PROVE HandInv'
  <2>1. at[c] = "opening" /\ Returns(c, CanOpen(dev[c])) BY <1>6 DEF ConnectEnds
  <2>2. Head(lock[dev[c]]) = c BY <2>1 DEF HandInv
  <2>3. CanOpen(dev[c]) \in BOOLEAN BY DEF CanOpen, TypeOK
  <2>4. QED BY <2>1, <2>2, <2>3, HandReturns
<1>7. ASSUME NEW cs, Answered(cs), UNCHANGED lock PROVE HandInv'
  BY <1>7, AnsweredMoves DEF HandInv
<1>8. ASSUME NEW d \in Devices, Works(d) \/ Drops(d) \/ Collected(d) PROVE HandInv'
  BY <1>1, <1>7, <1>8
  DEF Works, TakeJob, WriteEnds, ConnectionLost, Drops, DropRetires, DropCloses, Collected,
      deviceVars, callerVars
<1>9. CASE Register \/ Unregister \/ PollBusy \/ SwitchPower \/ UNCHANGED vars
  BY <1>1, <1>9 DEF Register, Unregister, PollBusy, SwitchPower, vars, deviceVars, callerVars
<1>10. QED BY <1>2, <1>3, <1>4, <1>5, <1>6, <1>8, <1>9 DEF Next, Asks, Connects

-----------------------------------------------------------------------------
(* A device comes into the cache not dropped, and leaves it when it is.    *)
LEMMA FreshStep ==
  ASSUME RegistryInv, [Next]_vars
  PROVE  FreshInv' /\ CachedIsLive'
<1> USE NamesAssumption
<1>0. TypeOK /\ HandInv /\ FreshInv /\ CachedIsLive BY DEF RegistryInv
<1>1. CASE UNCHANGED << drop, cached, fresh, at, dev >>
  BY <1>0, <1>1 DEF FreshInv, Brings, CachedIsLive
<1>2. ASSUME DropCached, UNCHANGED << fresh, at, dev >> PROVE FreshInv' /\ CachedIsLive'
  <2>1. \A c \in Callers : Brings(c) => dev[c] \in Devices BY <1>0 DEF Brings, HandInv
  <2>2. \A c \in Callers : Brings(c)' = Brings(c) BY <1>2 DEF Brings
  <2>3. cached' = NoDevice /\ \A d \in Devices \ {cached} : drop'[d] = drop[d]
    BY <1>2 DEF DropCached
  <2>4. QED BY <1>0, <1>2, <2>1, <2>2, <2>3 DEF FreshInv, CachedIsLive
<1>3. ASSUME NEW c \in Callers, AskCached(c) PROVE FreshInv' /\ CachedIsLive'
  <2>1. cached \in Devices /\ UNCHANGED << cached, drop >> BY <1>0, <1>3 DEF AskCached, TypeOK, cacheVars
  <2>2. ~Brings(c)' /\ \A b \in Callers \ {c} : fresh'[b] = fresh[b]
    BY <1>0, <1>3 DEF AskCached, Brings, TypeOK
  <2>3. \A b \in Callers \ {c} : at'[b] = at[b] /\ dev'[b] = dev[b]
    BY <1>0, <1>3, <2>1, GrantedMoves, EntersMoves DEF AskCached
  <2>4. \A b \in Callers \ {c} : Brings(b)' = Brings(b) BY <2>2, <2>3 DEF Brings
  <2>5. QED BY <1>0, <2>1, <2>2, <2>3, <2>4 DEF FreshInv, CachedIsLive
<1>4. ASSUME NEW c \in Callers, NEW d \in Devices, AskBuilt(c, d) PROVE FreshInv' /\ CachedIsLive'
  <2>1. /\ cached = NoDevice /\ cached' = cached /\ drop' = [drop EXCEPT ![d] = "no"]
        /\ fresh' = [fresh EXCEPT ![c] = TRUE] /\ Enters(c, d) /\ d \in Unbuilt
    BY <1>4, NewDeviceType DEF AskBuilt
  <2>2. \A b \in Callers : at[b] # "idle" => dev[b] # d
    BY <2>1 DEF Unbuilt, Unreachable, Holds
  <2>3. /\ dev'[c] = d
        /\ \A b \in Callers \ {c} : at'[b] = at[b] /\ dev'[b] = dev[b]
    BY <1>0, <2>1, EntersMoves
  <2>4. \A b \in Callers \ {c} : Brings(b)' = Brings(b)
    BY <1>0, <2>1, <2>3 DEF Brings, TypeOK
  <2>5. \A b \in Callers \ {c} : Brings(b) => dev[b] \in Devices /\ dev[b] # d
    BY <1>0, <2>2 DEF Brings, HandInv
  <2>6. drop'[d] = "no" /\ \A e \in Devices \ {d} : drop'[e] = drop[e]
    BY <1>0, <2>1 DEF TypeOK
  <2>7. FreshInv'
    BY <1>0, <2>1, <2>3, <2>4, <2>5, <2>6 DEF FreshInv
  <2>8. QED BY <2>1, <2>7 DEF CachedIsLive
<1>5. ASSUME NEW c \in Callers, NEW open \in BOOLEAN, Returns(c, open), UNCHANGED drop,
             at[c] \in {"connecting", "opening"}, Head(lock[dev[c]]) = c
      PROVE  FreshInv' /\ CachedIsLive'
  <2>1. dev[c] \in Devices BY <1>0, <1>5, ReturnsMoves
  <2>2. ~Brings(c)' /\ \A b \in Callers \ {c} : fresh'[b] = fresh[b]
    BY <1>0, <1>5, ReturnsMoves DEF Brings
  <2>3. \A b \in Callers \ {c} : at'[b] = at[b] /\ dev'[b] = dev[b]
    BY <1>0, <1>5, <2>1, GrantedMoves DEF Returns
  <2>4. \A b \in Callers \ {c} : Brings(b)' = Brings(b) BY <2>2, <2>3 DEF Brings
  <2>5. CASE fresh[c]
    <3>1. Brings(c) /\ cached' = dev[c] BY <1>5, <2>5 DEF Brings, Returns
    <3>2. QED BY <1>0, <1>5, <2>2, <2>3, <2>4, <3>1 DEF FreshInv, CachedIsLive
  <2>6. CASE ~fresh[c]
    <3>1. cached' = cached BY <1>5, <2>6 DEF Returns
    <3>2. QED BY <1>0, <1>5, <2>2, <2>3, <2>4, <3>1 DEF FreshInv, CachedIsLive
  <2>7. QED BY <2>5, <2>6
<1>6. ASSUME NEW c \in Callers, ConnectAtOnce(c) PROVE FreshInv' /\ CachedIsLive'
  <2>1. /\ at[c] = "connecting" /\ Head(lock[dev[c]]) = c /\ Returns(c, conn[dev[c]])
        /\ UNCHANGED drop
    BY <1>6 DEF ConnectAtOnce, NextInLock
  <2>2. conn[dev[c]] \in BOOLEAN BY <1>0, <2>1 DEF HandInv, TypeOK
  <2>3. QED BY <1>5, <2>1, <2>2
<1>7. ASSUME NEW c \in Callers, ConnectBegins(c) PROVE FreshInv' /\ CachedIsLive'
  <2>1. /\ at[c] = "connecting" /\ at' = [at EXCEPT ![c] = "opening"]
        /\ UNCHANGED << dev, fresh, drop, cached >>
    BY <1>7 DEF ConnectBegins, NextInLock, cacheVars, callerVars
  <2>2. \A b \in Callers : Brings(b)' = Brings(b) BY <1>0, <2>1 DEF Brings, TypeOK
  <2>3. QED BY <1>0, <2>1, <2>2 DEF FreshInv, CachedIsLive
<1>8. ASSUME NEW c \in Callers, ConnectEnds(c) PROVE FreshInv' /\ CachedIsLive'
  <2>1. at[c] = "opening" /\ Returns(c, CanOpen(dev[c])) /\ UNCHANGED drop BY <1>8 DEF ConnectEnds
  <2>2. Head(lock[dev[c]]) = c BY <1>0, <2>1 DEF HandInv
  <2>3. CanOpen(dev[c]) \in BOOLEAN BY <1>0 DEF CanOpen, TypeOK
  <2>4. QED BY <1>5, <2>1, <2>2, <2>3
<1>9. ASSUME NEW cs, Answered(cs), UNCHANGED << cached, fresh >>,
             \A d \in Devices : drop[d] = "no" => drop'[d] = "no"
      PROVE  FreshInv' /\ CachedIsLive'
  <2>1. \A b \in Callers : Brings(b)' => Brings(b) /\ dev'[b] = dev[b]
    BY <1>0, <1>9, AnsweredMoves DEF Brings
  <2>2. \A b \in Callers : Brings(b) => dev[b] \in Devices BY <1>0 DEF Brings, HandInv
  <2>3. QED BY <1>0, <1>9, <2>1, <2>2 DEF FreshInv, CachedIsLive, TypeOK
<1>10. ASSUME NEW d \in Devices, TakeJob(d) \/ Collected(d) PROVE FreshInv' /\ CachedIsLive'
  BY <1>1, <1>10 DEF TakeJob, Collected, cacheVars, callerVars
<1>11. ASSUME NEW d \in Devices, WriteEnds(d) \/ ConnectionLost(d) PROVE FreshInv' /\ CachedIsLive'
  BY <1>9, <1>11 DEF WriteEnds, ConnectionLost, cacheVars
<1>12. ASSUME NEW d \in Devices, DropRetires(d) PROVE FreshInv' /\ CachedIsLive'
  <2>1. /\ drop[d] # "no" /\ drop' = [drop EXCEPT ![d] = "retired"]
        /\ UNCHANGED << cached, at, dev, fresh >>
    BY <1>12 DEF DropRetires, callerVars
  <2>2. \A c \in Callers : Brings(c) => dev[c] \in Devices BY <1>0 DEF Brings, HandInv
  <2>3. \A c \in Callers : Brings(c)' = Brings(c) BY <2>1 DEF Brings
  <2>4. QED BY <1>0, <2>1, <2>2, <2>3 DEF FreshInv, CachedIsLive, TypeOK
<1>13. ASSUME NEW d \in Devices, DropCloses(d) PROVE FreshInv' /\ CachedIsLive'
  <2>1. drop[d] # "no" /\ drop' = [drop EXCEPT ![d] = "closed"] BY <1>13 DEF DropCloses
  <2>2. \A e \in Devices : drop[e] = "no" => drop'[e] = "no" BY <1>0, <2>1 DEF TypeOK
  <2>3. QED BY <1>9, <1>13, <2>2 DEF DropCloses
<1>14. CASE Register \/ Unregister
  BY <1>2, <1>14 DEF Register, Unregister, callerVars
<1>15. CASE PollBusy \/ SwitchPower \/ UNCHANGED vars
  BY <1>1, <1>15 DEF PollBusy, SwitchPower, vars, cacheVars, callerVars
<1>16. QED BY <1>3, <1>4, <1>6, <1>7, <1>8, <1>10, <1>11, <1>12, <1>13, <1>14, <1>15
        DEF Next, Asks, Connects, Works, Drops

-----------------------------------------------------------------------------
(* The registry starts with an empty cache and nobody in connect().        *)
LEMMA RegistryInit == Init => RegistryInv
<1> SUFFICES ASSUME Init PROVE RegistryInv OBVIOUS
<1> USE NamesAssumption, ParameterAssumption
<1>1. TypeOK BY DEF Init, TypeOK
<1>2. HandInv BY DEF Init, HandInv
<1>3. FreshInv BY DEF Init, FreshInv, Brings
<1>4. CachedIsLive BY DEF Init, CachedIsLive
<1>5. QED BY <1>1, <1>2, <1>3, <1>4 DEF RegistryInv

(* The invariant holds in every state of every behaviour.                  *)
LEMMA RegistryInvariant == Spec => []RegistryInv
<1>1. RegistryInv /\ [Next]_vars => RegistryInv'
  BY TypeStep, HandStep, FreshStep DEF RegistryInv
<1>2. QED BY RegistryInit, <1>1, PTL DEF Spec

(* Every variable stays in its set, for any requests and registrations.    *)
THEOREM TypeCorrect == Spec => []TypeOK
<1>1. RegistryInv => TypeOK BY DEF RegistryInv
<1>2. QED BY RegistryInvariant, <1>1, PTL

(* The cache never hands out a device that a registration has dropped.     *)
THEOREM CacheStaysLive == Spec => []CachedIsLive
<1>1. RegistryInv => CachedIsLive BY DEF RegistryInv
<1>2. QED BY RegistryInvariant, <1>1, PTL

(* A registration and GET /busy leave a device that writes in sight.       *)
LEMMA VisibleStep ==
  ASSUME TypeOK, HandInv, [Next]_vars, NEW d \in DevicesForBusy,
         writing[d] # Nobody, writing'[d] = writing[d]
  PROVE  d \in DevicesForBusy' \/ (d = cached /\ cached' \in Devices)
<1> USE NamesAssumption
<1>0. d \in Devices /\ (d = cached \/ d \in draining)
  BY DEF DevicesForBusy, TypeOK
<1>1. Pending(d)' BY DEF Pending
<1>2. d \in draining' => d \in DevicesForBusy' BY <1>1 DEF DevicesForBusy
<1>3. cached' = d => d \in DevicesForBusy' BY <1>0 DEF DevicesForBusy
<1>4. CASE UNCHANGED << cached, draining >> BY <1>0, <1>2, <1>3, <1>4
<1>5. CASE DropCached BY <1>0, <1>2, <1>5 DEF DropCached
<1>6. CASE PollBusy
  BY <1>0, <1>2, <1>3, <1>6 DEF PollBusy
<1>7. ASSUME NEW c \in Callers, NEW open, Returns(c, open), UNCHANGED draining,
             dev[c] \in Devices
      PROVE  d \in DevicesForBusy' \/ (d = cached /\ cached' \in Devices)
  BY <1>0, <1>2, <1>3, <1>7 DEF Returns
<1>8. ASSUME NEW c \in Callers, ConnectAtOnce(c) \/ ConnectEnds(c)
      PROVE  d \in DevicesForBusy' \/ (d = cached /\ cached' \in Devices)
  BY <1>7, <1>8 DEF ConnectAtOnce, NextInLock, ConnectEnds, HandInv
<1>9. ASSUME NEW c \in Callers, Asks(c) \/ ConnectBegins(c) PROVE UNCHANGED << cached, draining >>
  BY <1>9 DEF Asks, AskCached, AskBuilt, ConnectBegins, cacheVars
<1>10. ASSUME NEW e \in Devices, Works(e) \/ Drops(e) \/ Collected(e)
       PROVE  UNCHANGED << cached, draining >>
  BY <1>10 DEF Works, TakeJob, WriteEnds, ConnectionLost, Drops, DropRetires, DropCloses,
       Collected, cacheVars
<1>11. QED BY <1>4, <1>5, <1>6, <1>8, <1>9, <1>10
       DEF Next, Connects, Register, Unregister, SwitchPower, vars, cacheVars

(* What GET /busy looks at and is writing stays in its sight until it has  *)
(* written, unless another get_device() takes the place of the cached one. *)
THEOREM WriterIsSeen == Spec => WriterStaysVisible
<1>1. RegistryInv /\ [Next]_vars =>
        [\A d \in DevicesForBusy :
           (writing[d] # Nobody /\ writing'[d] = writing[d])
             => d \in DevicesForBusy' \/ (d = cached /\ cached' \in Devices)]_vars
  BY VisibleStep DEF RegistryInv
<1>2. QED BY RegistryInvariant, <1>1, PTL DEF Spec, WriterStaysVisible
=============================================================================
