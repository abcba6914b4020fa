--------------------------- MODULE UplinkSession ---------------------------
(***************************************************************************)
(* Remote diagnostics: the session that lives one day                      *)
(* (src/src/services/uplink_life.py), the switch on the dashboard          *)
(* (src/src/routes/system.py), the order of the server to switch off       *)
(* (src/src/services/diagnostics.py), the start of the manager             *)
(* (src/src/server.py), and the log lines that go through the client of    *)
(* the session (src/src/services/log_uplink.py).                           *)
(*                                                                         *)
(* An action is the code between two awaits.  The one await that matters   *)
(* is that of client.stop(): whatever was checked before it may have       *)
(* changed after it.                                                       *)
(***************************************************************************)
EXTENDS Naturals, Sequences, SequencesExt, SessionState

CONSTANTS
  Switches,     (* requests to switch on or off                            *)
  Orders,       (* orders of the server to switch off                      *)
  BufferLimit,
  Overlapping,  (* a switch or an order may come while another one stops   *)
                (* a client                                                *)
  MaxBoots      (* bound: restarts of the manager                          *)

ASSUME BoundsAssumption ==
  BufferLimit \in Nat \ {0} /\ MaxBoots \in Nat /\ Overlapping \in BOOLEAN
ASSUME NamesAssumption == Nobody \notin Clients /\ "watch" \notin Switches \union Orders

(* What may be stopping a client: a switch, an order, the day's watch.     *)
Watch == "watch"
Tasks == Switches \union Orders \union {Watch}

Init ==
  /\ on = FALSE /\ at = 0 /\ file = [on |-> FALSE, at |-> 0]
  /\ last = 0 /\ overdue = 0
  /\ uplink = Nobody /\ through = Nobody
  /\ client = [c \in Clients |-> "unused"] /\ link = {}
  /\ task = [p \in Tasks |-> "new"]
  /\ mine = [p \in Tasks |-> Nobody] /\ asked = [p \in Tasks |-> 0]
  /\ line = [l \in Lines |-> [c \in Clients |-> "none"]]
  /\ buffer = [c \in Clients |-> << >>]
  /\ boots = 0

-----------------------------------------------------------------------------
(* Clients.                                                                *)

Unused == { c \in Clients : client[c] = "unused" }
Fresh == CHOOSE c \in Unused : TRUE

(* A new client is attached to the root logger and held, and is to connect. *)
(* `others` is what the clients were, or have become, besides.             *)
Opens(others) ==
  /\ client' = [others EXCEPT ![Fresh] = "on"]
  /\ uplink' = Fresh /\ through' = Fresh

(* client.stop(): sends are cancelled and the handler is taken off, with   *)
(* what it holds; the socket is closed later.                              *)
StartsToStop(c) ==
  /\ client' = [client EXCEPT ![c] = IF @ = "on" THEN "stopping" ELSE @]
  /\ line' = [l \in Lines |-> [line[l] EXCEPT ![c] =
                IF @ \in {"buffered", "in flight"} THEN "lost" ELSE @]]
  /\ buffer' = [buffer EXCEPT ![c] = << >>]

(* The library connects, and loses the connection, as it comes.            *)
Disconnects(c) ==
  /\ c \in link /\ link' = link \ {c}
  /\ UNCHANGED << switchVars, uplink, through, client, taskVars, lineVars, boots >>

(* `_on_connect`: the handshake, then everything that was buffered.        *)
Connects(c) ==
  /\ client[c] = "on" /\ c \notin link
  /\ link' = link \union {c}
  /\ line' = [l \in Lines |-> [line[l] EXCEPT ![c] =
                IF @ = "buffered" THEN "in flight" ELSE @]]
  /\ buffer' = [buffer EXCEPT ![c] = << >>]
  /\ UNCHANGED << switchVars, uplink, through, client, taskVars, boots >>

-----------------------------------------------------------------------------
(* Log lines.                                                              *)

(* A deque of bounded length: the oldest one makes room.                   *)
Buffered(l, c) ==
  LET full == Len(buffer[c]) = BufferLimit
      kept == IF full THEN Tail(buffer[c]) ELSE buffer[c]
  IN /\ buffer' = [buffer EXCEPT ![c] = Append(kept, l)]
     /\ line' = [m \in Lines |-> [line[m] EXCEPT ![c] =
                   IF m = l THEN "buffered"
                   ELSE IF full /\ m = Head(buffer[c]) THEN "evicted" ELSE @]]

(* SocketIOLogHandler.emit, for the handler of the one client that is on.  *)
(* A line that is written by a thread takes the same way, by the loop.     *)
Logs(l, c) ==
  /\ Attached = {c} /\ \A d \in Clients : line[l][d] = "none"
  /\ IF c \in link
       THEN line' = [line EXCEPT ![l][c] = "in flight"] /\ UNCHANGED buffer
       ELSE Buffered(l, c)
  /\ UNCHANGED << switchVars, clientVars, taskVars, boots >>

Arrives(l, c) ==
  /\ line[l][c] = "in flight" /\ c \in link
  /\ line' = [line EXCEPT ![l][c] = "sent"]
  /\ UNCHANGED << switchVars, clientVars, taskVars, buffer, boots >>

(* Faulty variant: a line that could not be sent is dropped.               *)
ComesBackNot(l, c) ==
  /\ line[l][c] = "in flight" /\ c \notin link
  /\ line' = [line EXCEPT ![l][c] = "lost"]
  /\ UNCHANGED << switchVars, clientVars, taskVars, buffer, boots >>

(* The connection broke between the check and the send: `requeue`.         *)
ComesBack(l, c) ==
  /\ line[l][c] = "in flight" /\ c \notin link
  /\ Buffered(l, c)
  /\ UNCHANGED << switchVars, clientVars, taskVars, boots >>

-----------------------------------------------------------------------------
(* The switch: `set_uplink`.                                               *)

InTurn(p) == Overlapping \/ \A q \in Tasks \ {p, Watch} : mine[q] = Nobody

Written == file' = [on |-> on', at |-> at']

SwitchesOn(p) ==
  /\ task[p] = "new" /\ InTurn(p)
  /\ Unused # {}
  /\ last' = last + 1 \/ (last' = last /\ last > overdue)
  /\ on' = TRUE /\ at' = last' /\ Written
  /\ IF uplink = Nobody
       THEN /\ Opens(client)
            /\ task' = [task EXCEPT ![p] = "done"]
            /\ UNCHANGED << link, mine, lineVars >>
       ELSE /\ task' = [task EXCEPT ![p] = "replaces"]
            /\ mine' = [mine EXCEPT ![p] = uplink]
            /\ StartsToStop(uplink)
            /\ UNCHANGED << uplink, through, link >>
  /\ UNCHANGED << overdue, asked, boots >>

(* The old client has stopped; nothing is looked at again.                 *)
Replaces(p) ==
  /\ task[p] = "replaces"
  /\ Unused # {} /\ Opens([client EXCEPT ![mine[p]] = "stopped"])
  /\ link' = link \ {mine[p]}
  /\ task' = [task EXCEPT ![p] = "done"] /\ mine' = [mine EXCEPT ![p] = Nobody]
  /\ UNCHANGED << switchVars, asked, lineVars, boots >>

-----------------------------------------------------------------------------
(* `shut_down`, up to its await and after it.                              *)

Off == on' = FALSE /\ at' = 0

StartsToClose(p) ==
  /\ task' = [task EXCEPT ![p] = "closes"]
  /\ mine' = [mine EXCEPT ![p] = uplink]
  /\ StartsToStop(uplink)
  /\ UNCHANGED << uplink, through, link >>

SwitchesOff(p) ==
  /\ task[p] = "new" /\ InTurn(p)
  /\ Off /\ Written
  /\ asked' = [asked EXCEPT ![p] = 0]
  /\ IF uplink = Nobody
       THEN task' = [task EXCEPT ![p] = "done"] /\ UNCHANGED << clientVars, mine, lineVars >>
       ELSE StartsToClose(p)
  /\ UNCHANGED << last, overdue, boots >>

(* `_after_reply` of a command that came over a connection.                *)
IsOrdered(p) ==
  /\ task[p] = "new" /\ InTurn(p) /\ uplink \in link
  /\ asked' = [asked EXCEPT ![p] = at] /\ StartsToClose(p)
  /\ UNCHANGED << switchVars, boots >>

(* Faulty variant: only a session that knows when it began can be old.     *)
ExpiredKnown(cfgOn, cfgAt) == cfgOn /\ cfgAt # 0 /\ cfgAt <= overdue

(* `is_expired`: a start that is not known is a day ago.                   *)
Expired(cfgOn, cfgAt) == cfgOn /\ cfgAt <= overdue

(* `watch`, every minute.                                                  *)
Expires ==
  /\ mine[Watch] = Nobody /\ Expired(on, at)
  /\ asked' = [asked EXCEPT ![Watch] = at]
  /\ IF uplink = Nobody
       THEN Off /\ Written /\ UNCHANGED << clientVars, task, mine, lineVars >>
       ELSE StartsToClose(Watch) /\ UNCHANGED << on, at, file >>
  /\ UNCHANGED << last, overdue, boots >>

SwitchedOnMeanwhile(p) == at # asked[p] \/ uplink # mine[p]

(* Faulty variant: what was checked before the await still holds.          *)
ClosesAnyhow(p) ==
  /\ task[p] = "closes"
  /\ through' = IF through = mine[p] THEN Nobody ELSE through
  /\ client' = [client EXCEPT ![mine[p]] = "stopped"] /\ link' = link \ {mine[p]}
  /\ uplink' = Nobody /\ Off /\ file' \in {[on |-> FALSE, at |-> 0], file}
  /\ task' = [task EXCEPT ![p] = "done"] /\ mine' = [mine EXCEPT ![p] = Nobody]
  /\ UNCHANGED << last, overdue, asked, lineVars, boots >>

(* Faulty variant: events are silenced whoever they go through by now.     *)
ClosesSilencing(p) ==
  /\ task[p] = "closes"
  /\ through' = Nobody
  /\ client' = [client EXCEPT ![mine[p]] = "stopped"] /\ link' = link \ {mine[p]}
  /\ IF SwitchedOnMeanwhile(p) THEN UNCHANGED << uplink, on, at, file >>
       ELSE uplink' = Nobody /\ Off /\ file' \in {[on |-> FALSE, at |-> 0], file}
  /\ task' = [task EXCEPT ![p] = "done"] /\ mine' = [mine EXCEPT ![p] = Nobody]
  /\ UNCHANGED << last, overdue, asked, lineVars, boots >>

(* The client has stopped.  The file may not be writable.                  *)
Closes(p) ==
  /\ task[p] = "closes"
  /\ through' = IF through = mine[p] THEN Nobody ELSE through
  /\ client' = [client EXCEPT ![mine[p]] = "stopped"] /\ link' = link \ {mine[p]}
  /\ IF SwitchedOnMeanwhile(p) THEN UNCHANGED << uplink, on, at, file >>
       ELSE uplink' = Nobody /\ Off /\ file' \in {[on |-> FALSE, at |-> 0], file}
  /\ task' = [task EXCEPT ![p] = "done"] /\ mine' = [mine EXCEPT ![p] = Nobody]
  /\ UNCHANGED << last, overdue, asked, lineVars, boots >>

-----------------------------------------------------------------------------
(* No stop() takes a day: its waits are bounded.                           *)
DayPasses ==
  /\ overdue < last /\ overdue' = last
  /\ \A p \in Tasks : mine[p] = Nobody
  /\ UNCHANGED << on, at, file, last, clientVars, taskVars, lineVars, boots >>

(* config.yaml is edited by hand, or put there by a manager that did not   *)
(* know enabled_at yet: on, since an instant that is empty or no date.     *)
IsEdited ==
  /\ file' = [on |-> TRUE, at |-> 0]
  /\ UNCHANGED << on, at, last, overdue, clientVars, taskVars, lineVars, boots >>

(* The manager ends and starts: clients and tasks go, the file stays, and  *)
(* a session of it is opened again with the instant it has, unless that    *)
(* is a day ago (`expire_if_due`): then the file says so, if it is         *)
(* writable.                                                               *)
Restarts ==
  LET stays == file.on /\ ~Expired(file.on, file.at)
      gone == [c \in Clients |-> IF client[c] = "unused" THEN "unused" ELSE "stopped"]
  IN /\ boots < MaxBoots /\ boots' = boots + 1
     /\ on' = stays /\ at' = IF stays THEN file.at ELSE 0
     /\ IF file.on /\ ~stays THEN Written \/ UNCHANGED file ELSE UNCHANGED file
     /\ IF stays
          THEN Unused # {} /\ Opens(gone)
          ELSE client' = gone /\ uplink' = Nobody /\ through' = Nobody
     /\ link' = {}
     /\ task' = [p \in Tasks |-> IF task[p] = "new" THEN "new" ELSE "done"]
     /\ mine' = [p \in Tasks |-> Nobody]
     /\ line' = [l \in Lines |-> [c \in Clients |->
                   IF line[l][c] \in {"buffered", "in flight"} THEN "lost" ELSE line[l][c]]]
     /\ buffer' = [c \in Clients |-> << >>]
     /\ UNCHANGED << last, overdue, asked >>

-----------------------------------------------------------------------------
Ends(p) == (p \in Switches /\ Replaces(p)) \/ Closes(p)

Next == \/ \E p \in Switches : SwitchesOn(p) \/ SwitchesOff(p)
        \/ \E p \in Orders : IsOrdered(p)
        \/ \E p \in Tasks : Ends(p)
        \/ \E c \in Clients : Connects(c) \/ Disconnects(c)
        \/ \E l \in Lines, c \in Clients : Logs(l, c) \/ Arrives(l, c) \/ ComesBack(l, c)
        \/ Expires \/ DayPasses \/ IsEdited \/ Restarts

(* Time passes, the watch runs, and stop() returns.                        *)
Fairness == /\ WF_sessionVars(DayPasses) /\ WF_sessionVars(Expires)
            /\ WF_sessionVars(\E p \in Tasks : Ends(p))

Spec == Init /\ [][Next]_sessionVars /\ Fairness

-----------------------------------------------------------------------------
(* A session ends within its day, restarts or not.                         *)
SessionEnds == \A c \in Clients : client[c] = "on" ~> client[c] # "on"
=============================================================================
