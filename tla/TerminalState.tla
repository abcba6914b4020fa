---------------------------- MODULE TerminalState ----------------------------
(***************************************************************************)
(* The state of the registered card terminals, and what has to be true of  *)
(* it in every state and step, whoever registers them.  TerminalRegistry   *)
(* says what happens to it.                                                *)
(*                                                                         *)
(* A dictionary is a function on its keys.                                 *)
(***************************************************************************)
CONSTANTS
  Devices,      (* the terminals, each with its serial number              *)
  Merchants,    (* (merchant_id, terminal_id) pairs                        *)
  Unread,       (* the serial number of a terminal that did not tell it    *)
  None

VARIABLES
  up,           (* the manager runs                                        *)
  regs,         (* _registrations                                          *)
  alias,        (* _legacy_ids                                             *)
  cache,        (* _last_discovery: the terminal and the address of an id  *)
  file,         (* the registrations in terminals.json                     *)
  where,        (* the address a terminal has now                          *)
  refresh,      (* a roster that is being read from a terminal, or None    *)
  moves, operations, boots,
  held          (* identifiers a terminal has been registered under since  *)
                (* it was last unregistered: a till may hold any of them   *)

memory == << regs, alias, cache >>
counters == << moves, operations, boots >>
registryVars == << up, memory, file, where, refresh, counters, held >>

-----------------------------------------------------------------------------
(* An identifier is a digest: of the serial number when the terminal told  *)
(* it, of the address when it did not, and of both in a manager before     *)
(* this one (make_network_terminal_id, legacy_network_terminal_id).        *)
AddressId(a) == << "at", a >>
SerialId(d) == << "serial", d >>
OldId(d, a) == << "old", d, a >>

HasSerial(i) == i[1] # "at"
SerialOf(i) == i[2]

(* `_resolve` and `get_registration`.                                      *)
Resolve(i) == IF i \in DOMAIN regs THEN i
              ELSE IF i \in DOMAIN alias /\ alias[i] \in DOMAIN regs THEN alias[i] ELSE None

Holder(i) == regs[Resolve(i)]

(* A till that holds any identifier the terminal has been registered under *)
(* reaches that terminal, as long as it is registered at all: over address *)
(* changes, re-registrations, failed writes and restarts.                  *)
StillAnswers ==
  up => \A d \in Devices : (\E k \in DOMAIN regs : regs[k].dev = d) =>
          \A i \in held[d] : Resolve(i) # None /\ Holder(i).dev = d

(* An identifier that was made of a serial number never reaches another    *)
(* terminal: no sale is charged on the wrong one, whatever became of the   *)
(* registration, of the address or of the copies in the file since.        *)
ReachesNoOther ==
  \A i \in DOMAIN regs \union DOMAIN alias :
    HasSerial(i) /\ Resolve(i) # None => Holder(i).dev = SerialOf(i)

(* A terminal that told its serial number is registered once.              *)
RegisteredOnce ==
  \A i, k \in DOMAIN regs : regs[i].dev = regs[k].dev /\ regs[i].dev # Unread => i = k

(* One registration has the nickname that the other one has, and what the  *)
(* other one knows of these merchants; both are of one terminal.           *)
Keeps(one, other, merchants) ==
  /\ one.dev = other.dev /\ (one.dev = Unread => one.addr = other.addr)
  /\ other.nick => one.nick
  /\ \A m \in merchants : other.merchants[m] # "absent" =>
       one.merchants[m] \in {other.merchants[m], "named"}

(* The start of the manager loses nothing of what the operator typed,      *)
(* whatever copies it merges; and a roster that comes back from a terminal *)
(* loses only the merchants the bank no longer has.                        *)
WorkKept ==
  [][ /\ ~up /\ up' => \A i \in DOMAIN file : \E k \in DOMAIN regs' :
                         Keeps(regs'[k], file[i], Merchants)
      /\ up /\ up' /\ refresh # None /\ refresh' = None =>
           \A i \in DOMAIN regs : i \in DOMAIN regs' /\ Keeps(regs'[i], regs[i], refresh.roster)
    ]_registryVars
=============================================================================
