---------------------------- MODULE SessionState ----------------------------
(***************************************************************************)
(* The state of remote diagnostics, and what has to be true of it in every *)
(* state and step, whoever switches it on or off.  UplinkSession says what *)
(* happens to it.                                                          *)
(***************************************************************************)
CONSTANTS
  Clients,      (* LogUplinkClient objects, each built once                *)
  Lines,        (* log lines                                               *)
  Nobody

VARIABLES
  on, at,       (* config["uplink"]: enabled, and enabled_at (0 is empty); *)
                (* an instant is the number of the switch-on, or that of   *)
                (* the one before when both fell in one second             *)
  file,         (* the same two in config.yaml                             *)
  last, overdue,(* the last instant, the last one more than a day ago      *)
  uplink,       (* app.state.uplink                                        *)
  through,      (* _active of log_uplink: business events go through it    *)
  client,       (* what a client is doing                                  *)
  link,         (* the clients that are connected                          *)
  task,         (* where a task is                                         *)
  mine, asked,  (* the client it stops, and the enabled_at it started from *)
  line,         (* where a log line is, for each client                    *)
  buffer,       (* SocketIOLogHandler._buffer of a client                  *)
  boots

switchVars == << on, at, file, last, overdue >>
clientVars == << uplink, through, client, link >>
taskVars == << task, mine, asked >>
lineVars == << line, buffer >>
sessionVars == << switchVars, clientVars, taskVars, lineVars, boots >>

-----------------------------------------------------------------------------
(* The clients whose handler is on the root logger.                        *)
Attached == { c \in Clients : client[c] = "on" }

(* An open session is the one the manager holds, and the configuration     *)
(* says that it is on: the watch and the switch can find it.               *)
OpenIsHeld == \A c \in Attached : c = uplink /\ on /\ file.on

(* Business events go through the session that is open.                    *)
EventsGoThroughIt == \A c \in Attached : through = c

(* A line is lost only with the client it waits at: a break of the         *)
(* connection loses none.                                                  *)
LinesKept == [][\A l \in Lines, c \in Clients :
                  line'[l][c] = "lost" /\ line[l][c] # "lost" => client'[c] # "on"]_sessionVars
=============================================================================
