-------------------------- MODULE TerminalRegistry --------------------------
(***************************************************************************)
(* The registered card terminals (src/src/devices/terminal_registry.py,    *)
(* the terminal routes of src/src/routes/terminal.py) and the identifiers  *)
(* that the tills hold for them (src/src/models/terminal.py).              *)
(*                                                                         *)
(* A manager before this one had the address in every identifier, so one   *)
(* terminal that DHCP had moved is in its file several times, and tills    *)
(* hold any of these identifiers.                                          *)
(***************************************************************************)
EXTENDS Naturals, FiniteSets, Functions, TerminalState

CONSTANTS
  Addresses,
  OldFiles,     (* what an older manager may have left in terminals.json   *)
  Places,       (* where the terminals may be when the manager starts      *)
  MaxMoves, MaxOperations, MaxBoots  (* bounds                             *)

(* Faulty variant: the address still has a part in the identifier.         *)
NetworkIdMoves(d, a) == IF d = Unread THEN AddressId(a) ELSE OldId(d, a)

(* By its serial number; an unread one by its address (of which the model  *)
(* leaves out the port).                                                   *)
NetworkId(d, a) == IF d = Unread THEN AddressId(a) ELSE SerialId(d)

OldIds(d) == { OldId(d, a) : a \in Addresses }
Ids == { AddressId(a) : a \in Addresses } \union { SerialId(d) : d \in Devices }
         \union UNION { OldIds(d) : d \in Devices }

(* What is known of a merchant: nothing, its name at the bank, or also the *)
(* nickname the operator gave it.                                          *)
Known == {"absent", "listed", "named"}

(* A registration.  `known` are the identifiers it had before; `after` is  *)
(* how many came after it in the file of the older manager, and 0 for what *)
(* this one stored: the order of its own is never looked at.  The default  *)
(* merchant goes the way of the nickname, and the kind that of the winner. *)
Registration == [dev : Devices \union {Unread}, addr : Addresses, nick : BOOLEAN,
                 merchants : [Merchants -> Known], known : SUBSET Ids, after : Nat]

(* The key of a registration is the digest of what it holds, of today or   *)
(* of the older manager; and it was known by digests of the latter kind.   *)
KeyFits(i, e) ==
  IF e.dev = Unread THEN i = AddressId(e.addr) /\ e.known = {}
  ELSE i \in {SerialId(e.dev), OldId(e.dev, e.addr)} /\ e.known \subseteq OldIds(e.dev)

ASSUME BoundsAssumption ==
  MaxMoves \in Nat /\ MaxOperations \in Nat /\ MaxBoots \in Nat /\ IsFiniteSet(Merchants)
ASSUME NamesAssumption == Unread \notin Devices /\ None \notin Ids
ASSUME OldFilesAssumption ==
  \A f \in OldFiles : /\ DOMAIN f \subseteq Ids
                      /\ \A i \in DOMAIN f : f[i] \in Registration /\ KeyFits(i, f[i])
ASSUME PlacesAssumption == Places \subseteq [Devices -> Addresses]

Stored(dict, i, e) == [k \in DOMAIN dict \union {i} |-> IF k = i THEN e ELSE dict[k]]
Without(dict, gone) == Restrict(dict, DOMAIN dict \ gone)
Nothing == [i \in {} |-> {}]

(* The identifiers a terminal has, and had, in a dictionary.               *)
IdsOf(dict, d) ==
  UNION { {i} \union dict[i].known : i \in { k \in DOMAIN dict : dict[k].dev = d } }

Init ==
  /\ up = FALSE /\ regs = Nothing /\ alias = Nothing /\ cache = Nothing
  /\ file \in OldFiles
  /\ where \in Places
  /\ refresh = None /\ moves = 0 /\ operations = 0 /\ boots = 0
  /\ held = [d \in Devices |-> IdsOf(file, d)]

-----------------------------------------------------------------------------
(* `load`.                                                                 *)

Current(e) == NetworkId(e.dev, e.addr)

(* The copies that are stored under the identifier of the older manager,   *)
(* by the identifier they have today; and the one already stored under it. *)
OldCopies(dict) ==
  { i \in DOMAIN dict : LET e == dict[i]
                        IN e.dev # Unread /\ i = OldId(e.dev, e.addr) /\ i # Current(e) }

Group(dict, c) == { i \in OldCopies(dict) : Current(dict[i]) = c }
Rekeyed(dict) == { Current(dict[i]) : i \in OldCopies(dict) }
Copies(dict, c) == Group(dict, c) \union ({c} \intersect DOMAIN dict)

Least(S, score) == { i \in S : \A k \in S : score[i] <= score[k] }

(* Which copy is kept: the one with most of the operator's work, and of    *)
(* those the last in the file.  (Before the place in the file the code     *)
(* looks whether a default merchant was chosen: here every copy is alike   *)
(* in that.)                                                               *)
First(dict, S) ==
  LET Lacks(has) == [i \in DOMAIN dict |->
                       Cardinality({ m \in Merchants : dict[i].merchants[m] \notin has })]
      nickless == [i \in DOMAIN dict |-> IF dict[i].nick THEN 0 ELSE 1]
      position == [i \in DOMAIN dict |-> dict[i].after]
  IN CHOOSE i \in Least(Least(Least(Least(S, nickless), Lacks({"named"})),
                              Lacks({"listed", "named"})), position) : TRUE

Winner(dict, c) == IF c \in DOMAIN dict THEN c ELSE First(dict, Group(dict, c))

(* Faulty variant: the winner is stored over the others.                   *)
MerchantsOfWinner(dict, c) == dict[Winner(dict, c)].merchants

(* The winner's own are never overwritten.                                 *)
MerchantsOfAll(dict, c) ==
  [m \in Merchants |->
     LET ours == dict[Winner(dict, c)].merchants[m]
         all == { dict[i].merchants[m] : i \in Copies(dict, c) }
     IN IF "named" \in all THEN "named"
        ELSE IF ours = "absent" /\ "listed" \in all THEN "listed" ELSE ours]

(* Faulty variant: the winner does not carry what it was stored under.     *)
PastOfLosers(dict, c) ==
  UNION { {i} \union dict[i].known : i \in Copies(dict, c) \ {Winner(dict, c)} }

PastOfAll(dict, c) == UNION { {i} \union dict[i].known : i \in Copies(dict, c) }

(* What is left of the copies of a terminal: the winner, with the address  *)
(* of the copy that is last in the file, and what it lacked of the others. *)
Newest(dict, c) ==
  CHOOSE i \in Least(Copies(dict, c), [k \in DOMAIN dict |-> dict[k].after]) : TRUE

Survivor(dict, c) ==
  [dev |-> dict[Winner(dict, c)].dev, addr |-> dict[Newest(dict, c)].addr,
   nick |-> \E i \in Copies(dict, c) : dict[i].nick,
   merchants |-> MerchantsOfAll(dict, c), known |-> PastOfAll(dict, c) \ {c}, after |-> 0]

(* The old copies of each terminal give way to the survivor.               *)
Loaded(dict) ==
  [c \in (DOMAIN dict \ OldCopies(dict)) \union Rekeyed(dict) |->
     IF c \in Rekeyed(dict) THEN Survivor(dict, c) ELSE dict[c]]

(* The identifiers a registration carries from its past come before those  *)
(* that are derived from the addresses of the file; of two registrations   *)
(* that claim one, the lower identifier always gets it.                    *)
Claims(now, i) == { k \in DOMAIN now : i \in now[k].known }
Derived(dict, i) ==
  { Current(dict[k]) : k \in { x \in DOMAIN dict : /\ dict[x].dev # Unread
                                                   /\ i = OldId(dict[x].dev, dict[x].addr) } }

Aliases(dict) ==
  LET now == Loaded(dict)
  IN [i \in { k \in Ids \ DOMAIN now : Claims(now, k) \union Derived(dict, k) # {} } |->
        IF Claims(now, i) # {} THEN CHOOSE k \in Claims(now, i) : TRUE
                               ELSE CHOOSE k \in Derived(dict, i) : TRUE]

(* The file is written only when something moved; that may fail.           *)
Loads ==
  /\ ~up /\ up' = TRUE
  /\ regs' = Loaded(file) /\ alias' = Aliases(file)
  /\ file' \in {file, Loaded(file)}
  /\ held' = [d \in Devices |-> held[d] \union IdsOf(file, d) \union IdsOf(Loaded(file), d)]
  /\ UNCHANGED << cache, where, refresh, counters >>

Stops ==
  /\ up /\ boots < MaxBoots /\ up' = FALSE /\ boots' = boots + 1
  /\ regs' = Nothing /\ alias' = Nothing /\ cache' = Nothing /\ refresh' = None
  /\ UNCHANGED << file, where, moves, operations, held >>

-----------------------------------------------------------------------------
Operates == /\ up /\ operations < MaxOperations /\ operations' = operations + 1
            /\ UNCHANGED << up, where, moves, boots >>

(* `save` replaces the file in one step, or fails and leaves it.           *)
Saves == file' \in {file, regs'}

Moves(d, a) ==
  /\ moves < MaxMoves /\ moves' = moves + 1
  /\ a \notin { where[x] : x \in Devices }
  /\ where' = [where EXCEPT ![d] = a]
  /\ UNCHANGED << up, memory, file, refresh, operations, boots, held >>

(* A sweep: of the terminals that answered, some told the serial number.   *)
Discovers(answered, told) ==
  /\ Operates
  /\ LET seen(d) == [dev |-> IF d \in told THEN d ELSE Unread, addr |-> where[d]]
     IN cache' = [i \in { Current(seen(d)) : d \in answered } |->
                    seen(CHOOSE d \in answered : Current(seen(d)) = i)]
  /\ UNCHANGED << regs, alias, file, refresh, held >>

(* `register`.  The descriptor is the one a sweep filed under this         *)
(* identifier, or under the one it stands for now, or the stored one.      *)
DescriptorId(i) == IF i \in DOMAIN cache THEN i ELSE Resolve(i)

Descriptor(i) == IF DescriptorId(i) \in DOMAIN cache
                   THEN cache[DescriptorId(i)]
                   ELSE [dev |-> Holder(i).dev, addr |-> Holder(i).addr]

Put(i, id, descriptor, nick, merchants) ==
  LET r == Resolve(i)
      moved == r # None /\ r # id
      past == (IF r = None THEN {} ELSE Holder(i).known) \union (IF moved THEN {r} ELSE {})
      e == [dev |-> descriptor.dev, addr |-> descriptor.addr, nick |-> nick,
            merchants |-> merchants, known |-> past \ {id}, after |-> 0]
  IN /\ regs' = Stored(IF moved THEN Without(regs, {r}) ELSE regs, id, e)
     /\ alias' = IF moved
                   THEN Stored([k \in DOMAIN alias |-> IF alias[k] = r THEN id ELSE alias[k]], r, id)
                   ELSE alias
     /\ held' = IF e.dev \in Devices THEN [held EXCEPT ![e.dev] = @ \union {id}] ELSE held

MerchantsOf(i) == IF Resolve(i) # None THEN Holder(i).merchants ELSE [m \in Merchants |-> "absent"]

Registers(i, nick) ==
  /\ Operates /\ (i \in DOMAIN cache \/ Resolve(i) # None)
  /\ \E merchants \in { MerchantsOf(i), [m \in Merchants |-> "named"] } :
       Put(i, DescriptorId(i), Descriptor(i), nick, merchants)
  /\ Saves /\ UNCHANGED << cache, refresh >>

(* `register_manual`: by its address, without having asked the terminal.   *)
RegistersManually(a, nick) ==
  LET i == AddressId(a)
      descriptor == [dev |-> Unread, addr |-> a]
  IN /\ Operates
     /\ cache' = Stored(cache, i, descriptor)
     /\ Put(i, i, descriptor, nick, MerchantsOf(i))
     /\ Saves /\ UNCHANGED refresh

Unregisters(i) ==
  /\ Operates /\ Resolve(i) # None
  /\ regs' = Without(regs, {Resolve(i)})
  /\ alias' = Without(alias, { k \in DOMAIN alias : alias[k] = Resolve(i) })
  /\ held' = [d \in Devices |-> IF d = Holder(i).dev THEN {} ELSE held[d]]
  /\ Saves /\ UNCHANGED << cache, refresh >>

SetMerchants(i, merchants) ==
  regs' = [regs EXCEPT ![Resolve(i)] = [@ EXCEPT !.merchants = merchants]]

UpdatesMerchants(i, merchants) ==
  /\ Operates /\ Resolve(i) # None /\ SetMerchants(i, merchants)
  /\ Saves /\ UNCHANGED << alias, cache, refresh, held >>

(* `list_merchants`: the roster is read from the terminal, which takes its *)
(* time, and is then merged with what is stored by then.                   *)
StartsRefresh(i, roster) ==
  /\ Operates /\ refresh = None /\ Resolve(i) # None
  /\ refresh' = [id |-> i, roster |-> roster]
  /\ UNCHANGED << memory, file, held >>

Merged(stored, roster) ==
  [m \in Merchants |-> IF m \notin roster THEN "absent"
                       ELSE IF stored[m] = "named" THEN "named" ELSE "listed"]

EndsRefresh ==
  /\ up /\ refresh # None /\ refresh' = None
  /\ IF Resolve(refresh.id) = None THEN UNCHANGED << regs, file >>
       ELSE /\ SetMerchants(refresh.id, Merged(Holder(refresh.id).merchants, refresh.roster))
            /\ Saves
  /\ UNCHANGED << up, alias, cache, where, counters, held >>

-----------------------------------------------------------------------------
Next == \/ Loads \/ Stops \/ EndsRefresh
        \/ \E d \in Devices, a \in Addresses : Moves(d, a)
        \/ \E answered \in SUBSET Devices : \E told \in SUBSET answered : Discovers(answered, told)
        \/ \E i \in Ids, nick \in BOOLEAN : Registers(i, nick)
        \/ \E a \in Addresses, nick \in BOOLEAN : RegistersManually(a, nick)
        \/ \E i \in Ids : Unregisters(i)
        \/ \E i \in Ids, merchants \in [Merchants -> Known] : UpdatesMerchants(i, merchants)
        \/ \E i \in Ids, roster \in SUBSET Merchants : StartsRefresh(i, roster)

Spec == Init /\ [][Next]_registryVars
=============================================================================
