--------------------------- MODULE TerminalProofs ---------------------------
(***************************************************************************)
(* What the two parts behind the terminal routes                           *)
(* (src/src/routes/terminal.py) promise, for any values of the constants.  *)
(*                                                                         *)
(* TerminalRegistry, as R: a till reaches its terminal by any identifier   *)
(* the terminal was registered under, a terminal is registered once, and   *)
(* neither a start nor a roster loses what the operator typed.             *)
(*                                                                         *)
(* BankTerminal: what a charge is answered with is the truth about this    *)
(* charge.  Over TCP it always is; over a COM port when one thread at a    *)
(* time has the port open and a terminal says nothing after it was given   *)
(* up.                                                                     *)
(***************************************************************************)
EXTENDS BankTerminal, TerminalState, FiniteSetTheorems, WellFoundedInduction, TLAPS

-----------------------------------------------------------------------------
(* The registered terminals.                                               *)
CONSTANTS Addresses, OldFiles, Places, MaxMoves, MaxOperations, MaxBoots

R == INSTANCE TerminalRegistry

(* The named assumptions of TerminalRegistry.                              *)
RegistryConstants ==
  /\ Unread \notin Devices /\ None \notin R!Ids /\ IsFiniteSet(Merchants)
  /\ \A f \in OldFiles : /\ DOMAIN f \subseteq R!Ids
                         /\ \A i \in DOMAIN f : f[i] \in R!Registration /\ R!KeyFits(i, f[i])
  /\ Places \subseteq [Devices -> Addresses]

Dictionary(dict) ==
  /\ DOMAIN dict \subseteq R!Ids
  /\ \A i \in DOMAIN dict : dict[i] \in R!Registration /\ R!KeyFits(i, dict[i])

(* Every registration is under the identifier it has today.                *)
Today(dict) == \A i \in DOMAIN dict : i = R!Current(dict[i])

(* Identifiers of the three kinds differ.                                  *)
LEMMA IdsDiffer ==
  /\ \A d, e : R!SerialId(d) = R!SerialId(e) => d = e
  /\ \A d, e, a, b : R!OldId(d, a) = R!OldId(e, b) => d = e /\ a = b
  /\ \A a, b : R!AddressId(a) = R!AddressId(b) => a = b
  /\ \A d, e, a, b : /\ R!SerialId(d) # R!OldId(e, a) /\ R!SerialId(d) # R!AddressId(b)
                     /\ R!AddressId(b) # R!OldId(e, a)
<1>1. \A d, e, a, b : /\ R!SerialId(d)[1] = "serial" /\ R!SerialId(d)[2] = d
                      /\ R!AddressId(a)[1] = "at" /\ R!AddressId(a)[2] = a
                      /\ R!OldId(e, b)[1] = "old" /\ R!OldId(e, b)[2] = e /\ R!OldId(e, b)[3] = b
  BY DEF R!SerialId, R!OldId, R!AddressId
<1>2. \A d, e : R!SerialId(d) = R!SerialId(e) => d = e BY <1>1
<1>3. \A d, e, a, b : R!OldId(d, a) = R!OldId(e, b) => d = e /\ a = b BY <1>1
<1>4. \A a, b : R!AddressId(a) = R!AddressId(b) => a = b BY <1>1
<1>5. \A d, e, a, b : /\ R!SerialId(d) # R!OldId(e, a) /\ R!SerialId(d) # R!AddressId(b)
                     /\ R!AddressId(b) # R!OldId(e, a)
  BY <1>1
<1>6. QED BY <1>2, <1>3, <1>4, <1>5

(* Among natural scores there is a least one.                              *)
LEMMA LeastExists ==
  ASSUME NEW S, S # {}, NEW score, \A i \in S : score[i] \in Nat
  PROVE  R!Least(S, score) # {} /\ R!Least(S, score) \subseteq S
<1> DEFINE values == { score[i] : i \in S }
           less == { ss \in Nat \X Nat : ss[1] < ss[2] }
<1>1. values \subseteq Nat /\ values # {} OBVIOUS
<1>2. IsWellFoundedOn(less, Nat) BY NatLessThanWellFounded DEF OpToRel
<1>3. \E x \in values : \A y \in values : x <= y
  <2>1. PICK x \in values : \A y \in values : ~ (<< y, x >> \in less)
    <3> HIDE DEF values, less
    <3>1. QED BY <1>1, <1>2, WFMin
  <2>2. \A y \in values : y \in Nat /\ x \in Nat /\ ~ (y < x) BY <1>1, <2>1
  <2>3. QED BY <2>2
<1>r. PICK x \in values : \A y \in values : x <= y BY <1>3
<1>4. PICK i \in S : score[i] = x BY <1>r
<1>5. i \in R!Least(S, score) BY <1>r, <1>4 DEF R!Least
<1>6. QED BY <1>5 DEF R!Least

-----------------------------------------------------------------------------
(* What a key tells of the registration under it.                          *)
LEMMA KeysTell ==
  ASSUME RegistryConstants, NEW e \in R!Registration
  PROVE  /\ \A i : R!KeyFits(i, e) /\ i # R!Current(e) =>
               e.dev \in Devices /\ i = R!OldId(e.dev, e.addr)
         /\ \A d \in Devices : e.dev = d <=> R!Current(e) = R!SerialId(d)
         /\ e.dev = Unread => R!Current(e) = R!AddressId(e.addr)
<1>1. Unread \notin Devices /\ e.dev \in Devices \union {Unread}
  BY DEF RegistryConstants, R!Registration
<1>2. R!Current(e) = IF e.dev = Unread THEN R!AddressId(e.addr) ELSE R!SerialId(e.dev)
  BY DEF R!Current, R!NetworkId
<1>3. QED BY <1>1, <1>2, IdsDiffer DEF R!KeyFits

(* The first of some registrations is one of them.                         *)
LEMMA FirstIsOne ==
  ASSUME RegistryConstants, NEW dict, Dictionary(dict), NEW S \in SUBSET DOMAIN dict, S # {}
  PROVE  R!First(dict, S) \in S
<1> DEFINE Lacks(has) == [i \in DOMAIN dict |->
                            R!Cardinality({ m \in Merchants : dict[i].merchants[m] \notin has })]
           nickless == [i \in DOMAIN dict |-> IF dict[i].nick THEN 0 ELSE 1]
           position == [i \in DOMAIN dict |-> dict[i].after]
           S1 == R!Least(S, nickless)
           S2 == R!Least(S1, Lacks({"named"}))
           S3 == R!Least(S2, Lacks({"listed", "named"}))
           S4 == R!Least(S3, position)
<1>1. ASSUME NEW has PROVE \A i \in S : Lacks(has)[i] \in Nat
  <2>1. ASSUME NEW M \in SUBSET Merchants PROVE R!Cardinality(M) \in Nat
    <3>1. Cardinality(M) \in Nat BY FS_Subset, FS_CardinalityType DEF RegistryConstants
    <3>2. R!Cardinality(M) = Cardinality(M) BY DEF R!Cardinality, Cardinality
    <3>3. QED BY <3>1, <3>2
  <2>2. QED BY <2>1
<1>2. \A i \in S : nickless[i] \in Nat OBVIOUS
<1>3. \A i \in S : position[i] \in Nat BY DEF Dictionary, R!Registration
<1>4. R!First(dict, S) = CHOOSE i \in S4 : TRUE BY DEF R!First
<1> HIDE DEF Lacks, nickless, position
<1>5. S1 # {} /\ S1 \subseteq S BY <1>2, LeastExists
<1>6. S2 # {} /\ S2 \subseteq S
  <2> HIDE DEF S1
  <2>1. \A i \in S1 : Lacks({"named"})[i] \in Nat BY <1>1, <1>5
  <2>2. QED BY <1>5, <2>1, LeastExists
<1>7. S3 # {} /\ S3 \subseteq S
  <2> HIDE DEF S2
  <2>1. \A i \in S2 : Lacks({"listed", "named"})[i] \in Nat BY <1>1, <1>6
  <2>2. QED BY <1>6, <2>1, LeastExists
<1>8. S4 # {} /\ S4 \subseteq S
  <2> HIDE DEF S3
  <2>1. \A i \in S3 : position[i] \in Nat BY <1>3, <1>7
  <2>2. QED BY <1>7, <2>1, LeastExists
<1> HIDE DEF S4
<1>9. QED BY <1>4, <1>8

(* The copies that are merged are all the registrations of one terminal,   *)
(* and what is taken from one of them is taken from one of them.           *)
LEMMA CopiesAreOfOne ==
  ASSUME RegistryConstants, NEW dict, Dictionary(dict), NEW c \in R!Rekeyed(dict)
  PROVE  /\ \E d \in Devices : /\ c = R!SerialId(d)
                               /\ R!Copies(dict, c) = { i \in DOMAIN dict : dict[i].dev = d }
         /\ R!Winner(dict, c) \in R!Copies(dict, c) /\ R!Newest(dict, c) \in R!Copies(dict, c)
<1>1. PICK o \in R!OldCopies(dict) : c = R!Current(dict[o]) BY DEF R!Rekeyed
<1>2. o \in R!Group(dict, c) BY <1>1 DEF R!Group
<1>3. \A i \in DOMAIN dict : dict[i] \in R!Registration /\ R!KeyFits(i, dict[i]) BY DEF Dictionary
<1>4. o \in DOMAIN dict /\ o # R!Current(dict[o]) BY <1>1 DEF R!OldCopies
<1>5. dict[o].dev \in Devices BY <1>3, <1>4, KeysTell
<1> DEFINE d == dict[o].dev
<1>6. c = R!SerialId(d) BY <1>1, <1>3, <1>4, <1>5, KeysTell
<1>7. \A i \in DOMAIN dict : R!Current(dict[i]) = c <=> dict[i].dev = d
  BY <1>3, <1>5, <1>6, KeysTell
<1>8. R!Copies(dict, c) = { i \in DOMAIN dict : dict[i].dev = d }
  <2>1. ASSUME NEW i \in DOMAIN dict, i # c
        PROVE  i \in R!Group(dict, c) <=> dict[i].dev = d
    <3>1. i \in R!Group(dict, c) => dict[i].dev = d BY <1>7, <2>1 DEF R!Group
    <3>2. ASSUME dict[i].dev = d PROVE i \in R!Group(dict, c)
      <4>1. R!Current(dict[i]) = c BY <1>7, <3>2
      <4>2. dict[i].dev \in Devices /\ i = R!OldId(dict[i].dev, dict[i].addr)
        BY <1>3, <2>1, <4>1, KeysTell
      <4>3. dict[i].dev # Unread BY <4>2 DEF RegistryConstants
      <4>4. QED BY <2>1, <4>1, <4>2, <4>3 DEF R!Group, R!OldCopies
    <3>3. QED BY <3>1, <3>2
  <2>2. c \in DOMAIN dict => dict[c].dev = d
    <3>1. SUFFICES ASSUME c \in DOMAIN dict PROVE R!Current(dict[c]) = c BY <1>7
    <3>2. dict[c] \in R!Registration /\ R!KeyFits(c, dict[c]) BY <1>3, <3>1
    <3>3. ~ (c = R!OldId(dict[c].dev, dict[c].addr)) BY <1>6, IdsDiffer
    <3>4. QED BY <3>2, <3>3, KeysTell
  <2>3. R!Group(dict, c) \subseteq DOMAIN dict BY DEF R!Group, R!OldCopies
  <2>4. c \notin R!Group(dict, c) BY DEF R!Group, R!OldCopies
  <2>5. QED BY <2>1, <2>2, <2>3, <2>4 DEF R!Copies
<1>9. R!Winner(dict, c) \in R!Copies(dict, c)
  <2>1. R!Group(dict, c) \in SUBSET DOMAIN dict BY DEF R!Group, R!OldCopies
  <2>2. R!First(dict, R!Group(dict, c)) \in R!Group(dict, c) BY <1>2, <2>1, FirstIsOne
  <2>3. QED BY <2>2 DEF R!Winner, R!Copies
<1>10. R!Newest(dict, c) \in R!Copies(dict, c)
  <2> DEFINE position == [k \in DOMAIN dict |-> dict[k].after]
  <2>1. R!Copies(dict, c) # {} BY <1>2 DEF R!Copies
  <2>2. \A i \in R!Copies(dict, c) : position[i] \in Nat BY <1>3, <1>8 DEF R!Registration
  <2>3. R!Newest(dict, c) = CHOOSE i \in R!Least(R!Copies(dict, c), position) : TRUE
    BY DEF R!Newest
  <2> HIDE DEF position
  <2>4. QED BY <2>1, <2>2, <2>3, LeastExists
<1>11. QED BY <1>5, <1>6, <1>8, <1>9, <1>10

(* The survivor of some copies has what each of them had.                  *)
LEMMA SurvivorHasAll ==
  ASSUME RegistryConstants, NEW dict, Dictionary(dict), NEW c \in R!Rekeyed(dict),
         NEW d \in Devices, c = R!SerialId(d)
  PROVE  /\ R!Survivor(dict, c) \in R!Registration /\ R!Survivor(dict, c).dev = d
         /\ R!KeyFits(c, R!Survivor(dict, c))
         /\ R!IdsOf(dict, d) \union {c} = R!Survivor(dict, c).known \union {c}
         /\ \A i \in DOMAIN dict : dict[i].dev = d =>
              Keeps(R!Survivor(dict, c), dict[i], Merchants)
<1> DEFINE e == R!Survivor(dict, c)
           copies == R!Copies(dict, c)
<1>1. copies = { i \in DOMAIN dict : dict[i].dev = d }
  BY CopiesAreOfOne, IdsDiffer
<1>2. PICK w \in copies : w = R!Winner(dict, c) BY CopiesAreOfOne
<1>3. PICK n \in copies : n = R!Newest(dict, c) BY CopiesAreOfOne
<1>4. \A i \in copies : /\ i \in R!Ids /\ dict[i] \in R!Registration /\ dict[i].dev = d
                        /\ i = c \/ i \in R!OldIds(d)
                        /\ dict[i].known \subseteq R!OldIds(d)
  <2> SUFFICES ASSUME NEW i \in copies
               PROVE  /\ i \in R!Ids /\ dict[i] \in R!Registration /\ dict[i].dev = d
                      /\ i = c \/ i \in R!OldIds(d)
                      /\ dict[i].known \subseteq R!OldIds(d)
    OBVIOUS
  <2>1. i \in R!Ids /\ dict[i] \in R!Registration /\ R!KeyFits(i, dict[i]) /\ dict[i].dev = d
    BY <1>1 DEF Dictionary
  <2>2. d # Unread BY DEF RegistryConstants
  <2>3. dict[i].addr \in Addresses BY <2>1 DEF R!Registration
  <2>4. QED BY <2>1, <2>2, <2>3 DEF R!KeyFits, R!OldIds
<1>5. e = [dev |-> dict[w].dev, addr |-> dict[n].addr, nick |-> \E i \in copies : dict[i].nick,
           merchants |-> R!MerchantsOfAll(dict, c), known |-> R!PastOfAll(dict, c) \ {c},
           after |-> 0]
  BY <1>2, <1>3 DEF R!Survivor
<1>6. R!PastOfAll(dict, c) = R!IdsOf(dict, d) BY <1>1 DEF R!PastOfAll, R!IdsOf
<1>7. R!PastOfAll(dict, c) \subseteq R!OldIds(d) \union {c} BY <1>4 DEF R!PastOfAll
<1>8. R!OldIds(d) \subseteq R!Ids BY DEF R!Ids
<1>9. e.known \subseteq R!OldIds(d) BY <1>5, <1>7
<1>m. \A m \in Merchants :
        /\ e.merchants[m] \in R!Known
        /\ \A i \in copies : dict[i].merchants[m] # "absent" =>
             e.merchants[m] \in {dict[i].merchants[m], "named"}
  <2> SUFFICES ASSUME NEW m \in Merchants
               PROVE  /\ e.merchants[m] \in R!Known
                      /\ \A i \in copies : dict[i].merchants[m] # "absent" =>
                           e.merchants[m] \in {dict[i].merchants[m], "named"}
    OBVIOUS
  <2> DEFINE ours == dict[w].merchants[m]
             all == { dict[i].merchants[m] : i \in copies }
  <2>1. e.merchants[m] = IF "named" \in all THEN "named"
                         ELSE IF ours = "absent" /\ "listed" \in all THEN "listed" ELSE ours
    BY <1>2, <1>5 DEF R!MerchantsOfAll
  <2>2. \A i \in copies : dict[i].merchants[m] \in {"absent", "listed", "named"}
    BY <1>4 DEF R!Registration, R!Known
  <2>3. ours \in all BY <1>2
  <2>4. QED BY <2>1, <2>2, <2>3 DEF R!Known
<1>10. e.merchants \in [Merchants -> R!Known]
  <2>1. e.merchants = R!MerchantsOfAll(dict, c) BY <1>5
  <2>2. DOMAIN e.merchants = Merchants /\ e.merchants = [m \in Merchants |-> e.merchants[m]]
    BY <2>1 DEF R!MerchantsOfAll
  <2> HIDE DEF e
  <2>3. QED BY <1>m, <2>2
<1>11. e \in R!Registration
  <2>1. dict[w].dev \in Devices \union {Unread} /\ dict[n].addr \in Addresses
    BY <1>2, <1>3, <1>4 DEF R!Registration
  <2>2. R!MerchantsOfAll(dict, c) \in [Merchants -> R!Known] BY <1>5, <1>10
  <2>3. R!PastOfAll(dict, c) \ {c} \in SUBSET R!Ids BY <1>7, <1>8
  <2>4. (\E i \in copies : dict[i].nick) \in BOOLEAN OBVIOUS
  <2>5. QED BY <1>5, <2>1, <2>2, <2>3, <2>4 DEF R!Registration
<1>12. e.dev = d BY <1>4, <1>5
<1>13. R!KeyFits(c, e) BY <1>9, <1>12 DEF R!KeyFits, RegistryConstants
<1>14. \A i \in DOMAIN dict : dict[i].dev = d => Keeps(e, dict[i], Merchants)
  <2>1. ASSUME NEW i \in copies PROVE dict[i].nick => e.nick BY <1>5
  <2>2. d # Unread BY DEF RegistryConstants
  <2> HIDE DEF e
  <2>3. QED BY <1>1, <1>m, <1>12, <2>1, <2>2 DEF Keeps
<1>15. R!IdsOf(dict, d) \union {c} = e.known \union {c} BY <1>5, <1>6
<1>16. QED BY <1>11, <1>12, <1>13, <1>14, <1>15

(* What a start makes of a file: a registration of each terminal under the *)
(* identifier of today, with all that the file has of it.                  *)
LEMMA LoadedIsWell ==
  ASSUME RegistryConstants, NEW dict, Dictionary(dict)
  PROVE  /\ Dictionary(R!Loaded(dict)) /\ Today(R!Loaded(dict))
         /\ \A i \in DOMAIN dict : \E k \in DOMAIN R!Loaded(dict) :
              Keeps(R!Loaded(dict)[k], dict[i], Merchants)
         /\ \A d \in Devices : R!IdsOf(dict, d) # {} =>
              /\ R!SerialId(d) \in DOMAIN R!Loaded(dict)
              /\ R!IdsOf(dict, d) \union {R!SerialId(d)}
                   = R!Loaded(dict)[R!SerialId(d)].known \union {R!SerialId(d)}
<1> DEFINE now == R!Loaded(dict)
           kept == DOMAIN dict \ R!OldCopies(dict)
<1>1. /\ DOMAIN now = kept \union R!Rekeyed(dict)
      /\ \A c \in R!Rekeyed(dict) : now[c] = R!Survivor(dict, c)
      /\ \A c \in kept : c \notin R!Rekeyed(dict) => now[c] = dict[c]
  BY DEF R!Loaded
<1> HIDE DEF now
<1>2. \A i \in DOMAIN dict : dict[i] \in R!Registration /\ R!KeyFits(i, dict[i]) /\ i \in R!Ids
  BY DEF Dictionary
<1>3. \A c \in kept : c = R!Current(dict[c])
  <2>1. SUFFICES ASSUME NEW c \in DOMAIN dict, c # R!Current(dict[c])
                 PROVE  c \in R!OldCopies(dict)
    OBVIOUS
  <2>2. dict[c].dev \in Devices /\ c = R!OldId(dict[c].dev, dict[c].addr)
    BY <1>2, <2>1, KeysTell
  <2>3. dict[c].dev # Unread BY <2>2 DEF RegistryConstants
  <2>4. QED BY <2>1, <2>2, <2>3 DEF R!OldCopies
<1>4. ASSUME NEW c \in R!Rekeyed(dict)
      PROVE  \E d \in Devices : c = R!SerialId(d) /\ c \in R!Ids
  BY CopiesAreOfOne DEF R!Ids
<1>5. Dictionary(now)
  <2>1. DOMAIN now \subseteq R!Ids BY <1>1, <1>2, <1>4
  <2>2. ASSUME NEW c \in DOMAIN now PROVE now[c] \in R!Registration /\ R!KeyFits(c, now[c])
    <3>1. CASE c \in R!Rekeyed(dict) BY <1>1, <1>4, <3>1, SurvivorHasAll
    <3>2. CASE c \notin R!Rekeyed(dict) BY <1>1, <1>2, <3>2
    <3>3. QED BY <3>1, <3>2
  <2>3. QED BY <2>1, <2>2 DEF Dictionary
<1>6. Today(now)
  <2>1. SUFFICES ASSUME NEW c \in DOMAIN now PROVE c = R!Current(now[c]) BY DEF Today
  <2>2. CASE c \in R!Rekeyed(dict)
    <3>1. PICK d \in Devices : c = R!SerialId(d) BY <1>4, <2>2
    <3>2. now[c] \in R!Registration /\ now[c].dev = d BY <1>1, <2>2, <3>1, SurvivorHasAll
    <3>3. QED BY <3>1, <3>2, KeysTell
  <2>3. CASE c \notin R!Rekeyed(dict) BY <1>1, <1>3, <2>1, <2>3
  <2>4. QED BY <2>2, <2>3
<1>7. ASSUME NEW i \in DOMAIN dict
      PROVE  \E k \in DOMAIN now : Keeps(now[k], dict[i], Merchants)
  <2>1. CASE \E c \in R!Rekeyed(dict) : i \in R!Copies(dict, c)
    <3>1. PICK c \in R!Rekeyed(dict) : i \in R!Copies(dict, c) BY <2>1
    <3>2. PICK d \in Devices : c = R!SerialId(d) /\ dict[i].dev = d BY <3>1, CopiesAreOfOne
    <3>3. Keeps(now[c], dict[i], Merchants) BY <1>1, <3>1, <3>2, SurvivorHasAll
    <3>4. QED BY <1>1, <3>1, <3>3
  <2>2. CASE ~ \E c \in R!Rekeyed(dict) : i \in R!Copies(dict, c)
    <3>1. i \notin R!OldCopies(dict)
      <4>1. SUFFICES ASSUME i \in R!OldCopies(dict) PROVE FALSE OBVIOUS
      <4>2. R!Current(dict[i]) \in R!Rekeyed(dict) BY <4>1 DEF R!Rekeyed
      <4>3. i \in R!Copies(dict, R!Current(dict[i])) BY <4>1 DEF R!Copies, R!Group
      <4>4. QED BY <2>2, <4>2, <4>3
    <3>2. i \notin R!Rekeyed(dict) BY <2>2 DEF R!Copies
    <3>3. i \in DOMAIN now /\ now[i] = dict[i] BY <1>1, <3>1, <3>2
    <3>4. Keeps(dict[i], dict[i], Merchants) BY DEF Keeps
    <3>5. QED BY <3>3, <3>4
  <2>3. QED BY <2>1, <2>2
<1>8. ASSUME NEW d \in Devices, R!IdsOf(dict, d) # {}
      PROVE  /\ R!SerialId(d) \in DOMAIN now
             /\ R!IdsOf(dict, d) \union {R!SerialId(d)}
                  = now[R!SerialId(d)].known \union {R!SerialId(d)}
  <2> DEFINE c == R!SerialId(d)
  <2>1. CASE c \in R!Rekeyed(dict) BY <1>1, <2>1, SurvivorHasAll
  <2>2. CASE c \notin R!Rekeyed(dict)
    <3>1. \A i \in DOMAIN dict : dict[i].dev = d => i = c
      <4>1. SUFFICES ASSUME NEW i \in DOMAIN dict, dict[i].dev = d PROVE i = c OBVIOUS
      <4>2. R!Current(dict[i]) = c BY <1>2, <4>1, KeysTell
      <4>3. i \notin R!OldCopies(dict) BY <2>2, <4>2 DEF R!Rekeyed
      <4>4. QED BY <1>3, <4>2, <4>3
    <3>2. PICK i \in DOMAIN dict : dict[i].dev = d BY <1>8 DEF R!IdsOf
    <3>3. c \in DOMAIN dict /\ dict[c].dev = d BY <3>1, <3>2
    <3>4. R!IdsOf(dict, d) = {c} \union dict[c].known BY <3>1, <3>3 DEF R!IdsOf
    <3>5. c \in kept
      <4>1. dict[c] \in R!Registration /\ R!Current(dict[c]) = c BY <1>2, <3>3, KeysTell
      <4>2. QED BY <3>3, <4>1 DEF R!OldCopies
    <3>6. c \in DOMAIN now /\ now[c] = dict[c] BY <1>1, <2>2, <3>5
    <3>7. QED BY <3>4, <3>6
  <2>3. QED BY <2>1, <2>2
<1>9. QED BY <1>5, <1>6, <1>7, <1>8 DEF now

(* The identifiers of the past lead to the registration that was known by  *)
(* them.                                                                   *)
AliasesFit(dict) ==
  \A i \in DOMAIN dict : \E d \in Devices : i \in R!OldIds(d) /\ dict[i] = R!SerialId(d)

(* Each of those a registration carries is among them.                     *)
LEMMA AliasesAreWell ==
  ASSUME RegistryConstants, NEW dict, Dictionary(dict)
  PROVE  /\ AliasesFit(R!Aliases(dict))
         /\ \A k \in DOMAIN R!Loaded(dict) : R!Loaded(dict)[k].known \subseteq DOMAIN R!Aliases(dict)
<1> DEFINE now == R!Loaded(dict)
           Claimed(i) == R!Claims(now, i) \union R!Derived(dict, i)
<1>1. Dictionary(now) /\ Today(now) BY LoadedIsWell
<1>2. R!Aliases(dict) = [i \in { k \in R!Ids \ DOMAIN now : Claimed(k) # {} } |->
        IF R!Claims(now, i) # {} THEN CHOOSE k \in R!Claims(now, i) : TRUE
                                 ELSE CHOOSE k \in R!Derived(dict, i) : TRUE]
  BY DEF R!Aliases
<1> HIDE DEF now
<1>3. ASSUME NEW i, NEW k \in R!Claims(now, i)
      PROVE  \E d \in Devices : i \in R!OldIds(d) /\ k = R!SerialId(d)
  <2>1. k \in DOMAIN now /\ i \in now[k].known BY <1>3 DEF R!Claims
  <2>2. now[k] \in R!Registration /\ R!KeyFits(k, now[k]) /\ k = R!Current(now[k])
    BY <1>1, <2>1 DEF Dictionary, Today
  <2>3. now[k].dev # Unread /\ i \in R!OldIds(now[k].dev) BY <2>1, <2>2 DEF R!KeyFits
  <2>4. now[k].dev \in Devices BY <2>2, <2>3 DEF R!Registration
  <2>5. QED BY <2>2, <2>3, <2>4, KeysTell
<1>4. ASSUME NEW i, NEW k \in R!Derived(dict, i)
      PROVE  \E d \in Devices : i \in R!OldIds(d) /\ k = R!SerialId(d)
  <2>1. PICK x \in DOMAIN dict : /\ dict[x].dev # Unread
                                 /\ i = R!OldId(dict[x].dev, dict[x].addr)
                                 /\ k = R!Current(dict[x])
    BY <1>4 DEF R!Derived
  <2>2. dict[x] \in R!Registration BY DEF Dictionary
  <2>3. dict[x].dev \in Devices /\ dict[x].addr \in Addresses BY <2>1, <2>2 DEF R!Registration
  <2>4. QED BY <2>1, <2>2, <2>3, KeysTell DEF R!OldIds
<1>5. AliasesFit(R!Aliases(dict))
  <2>1. SUFFICES ASSUME NEW i \in DOMAIN R!Aliases(dict)
                 PROVE  \E d \in Devices : i \in R!OldIds(d) /\ R!Aliases(dict)[i] = R!SerialId(d)
    BY DEF AliasesFit
  <2>2. R!Aliases(dict)[i] \in R!Claims(now, i) \/ R!Aliases(dict)[i] \in R!Derived(dict, i)
    BY <1>2, <2>1
  <2>3. QED BY <1>3, <1>4, <2>2
<1>6. ASSUME NEW k \in DOMAIN now, NEW i \in now[k].known PROVE i \in DOMAIN R!Aliases(dict)
  <2>1. k \in R!Claims(now, i) BY <1>6 DEF R!Claims
  <2>2. PICK d \in Devices : i \in R!OldIds(d) BY <1>3, <2>1
  <2>3. i \in R!Ids BY <2>2 DEF R!Ids
  <2>4. i \notin DOMAIN now
    <3>1. SUFFICES ASSUME i \in DOMAIN now PROVE FALSE OBVIOUS
    <3>2. i = R!Current(now[i]) BY <1>1, <3>1 DEF Today
    <3>3. QED BY <2>2, <3>2, IdsDiffer DEF R!OldIds, R!Current, R!NetworkId
  <2>5. QED BY <1>2, <2>1, <2>3, <2>4
<1>7. QED BY <1>5, <1>6 DEF now

(* The registrations of a terminal after a start come from its file.       *)
LEMMA LoadedIsOfFile ==
  ASSUME RegistryConstants, NEW dict, Dictionary(dict), NEW d \in Devices,
         R!IdsOf(R!Loaded(dict), d) # {}
  PROVE  R!IdsOf(dict, d) # {}
<1>1. PICK k \in DOMAIN R!Loaded(dict) : R!Loaded(dict)[k].dev = d BY DEF R!IdsOf
<1>2. SUFFICES \E i \in DOMAIN dict : dict[i].dev = d BY DEF R!IdsOf
<1>3. CASE k \in R!Rekeyed(dict)
  <2>1. PICK x \in Devices : /\ k = R!SerialId(x)
                             /\ R!Copies(dict, k) = { i \in DOMAIN dict : dict[i].dev = x }
                             /\ R!Winner(dict, k) \in R!Copies(dict, k)
    BY <1>3, CopiesAreOfOne
  <2>2. R!Loaded(dict)[k] = R!Survivor(dict, k) BY <1>1, <1>3 DEF R!Loaded
  <2>3. x = d BY <1>1, <1>3, <2>1, <2>2, SurvivorHasAll
  <2>4. QED BY <2>1, <2>3
<1>4. CASE k \notin R!Rekeyed(dict)
  <2>1. k \in DOMAIN dict /\ R!Loaded(dict)[k] = dict[k] BY <1>1, <1>4 DEF R!Loaded
  <2>2. QED BY <1>1, <2>1
<1>5. QED BY <1>3, <1>4

(* Under the identifiers of today there is one of each terminal.           *)
LEMMA OneOfEach ==
  ASSUME RegistryConstants, NEW dict, Dictionary(dict), Today(dict), NEW d \in Devices
  PROVE  /\ \A k \in DOMAIN dict : dict[k].dev = d <=> k = R!SerialId(d)
         /\ R!SerialId(d) \in DOMAIN dict =>
              /\ dict[R!SerialId(d)].known \subseteq R!OldIds(d)
              /\ R!IdsOf(dict, d) = {R!SerialId(d)} \union dict[R!SerialId(d)].known
         /\ R!SerialId(d) \notin DOMAIN dict => R!IdsOf(dict, d) = {}
<1> DEFINE c == R!SerialId(d)
<1>1. \A k \in DOMAIN dict : dict[k] \in R!Registration /\ R!KeyFits(k, dict[k]) /\ k = R!Current(dict[k])
  BY DEF Dictionary, Today
<1>2. \A k \in DOMAIN dict : dict[k].dev = d <=> k = c BY <1>1, KeysTell
<1>3. d # Unread BY DEF RegistryConstants
<1>4. c \in DOMAIN dict => dict[c].known \subseteq R!OldIds(d) BY <1>1, <1>2, <1>3 DEF R!KeyFits
<1>5. c \in DOMAIN dict => R!IdsOf(dict, d) = {c} \union dict[c].known
  <2>1. SUFFICES ASSUME c \in DOMAIN dict PROVE R!IdsOf(dict, d) = {c} \union dict[c].known
    OBVIOUS
  <2>2. { k \in DOMAIN dict : dict[k].dev = d } = {c} BY <1>2, <2>1
  <2>3. QED BY <2>2 DEF R!IdsOf
<1>6. c \notin DOMAIN dict => R!IdsOf(dict, d) = {}
  <2>1. SUFFICES ASSUME c \notin DOMAIN dict PROVE R!IdsOf(dict, d) = {} OBVIOUS
  <2>2. { k \in DOMAIN dict : dict[k].dev = d } = {} BY <1>2, <2>1
  <2>3. QED BY <2>2 DEF R!IdsOf
<1>7. QED BY <1>2, <1>4, <1>5, <1>6

-----------------------------------------------------------------------------
(* The inductive invariant.  In memory every registration is under its     *)
(* identifier of today; what a terminal was known by before is carried by  *)
(* its registration and leads to it.  In the file the same identifiers are *)
(* carried by some copy, whichever write was the last that succeeded.      *)
Described == [dev : Devices \union {Unread}, addr : Addresses]

StateInv ==
  /\ Dictionary(regs) /\ Today(regs) /\ Dictionary(file)
  /\ AliasesFit(alias)
  /\ \A i \in DOMAIN cache : cache[i] \in Described /\ i = R!Current(cache[i])
  /\ where \in [Devices -> Addresses]
  /\ refresh # None => refresh \in [id : R!Ids, roster : SUBSET Merchants]
  /\ held = [d \in Devices |-> held[d]]

Carried(dict, past) ==
  \A d \in Devices : \A i \in held[d] : i # R!SerialId(d) =>
    /\ R!SerialId(d) \in DOMAIN dict /\ i \in dict[R!SerialId(d)].known
    /\ i \in DOMAIN past

Filed(dict) == \A d \in Devices : \A i \in held[d] : i # R!SerialId(d) => i \in R!IdsOf(dict, d)

RegistryInv == StateInv /\ Filed(file) /\ (up => Carried(regs, alias))

(* Where an identifier leads.                                              *)
LEMMA ResolveIs ==
  ASSUME RegistryConstants, StateInv, NEW i
  PROVE  /\ i \in DOMAIN regs => R!Resolve(i) = i
         /\ (\A d \in Devices : i \notin R!OldIds(d)) => R!Resolve(i) \in {None, i}
         /\ \A d \in Devices : /\ R!SerialId(d) \in DOMAIN regs /\ i \in DOMAIN alias /\ i \in R!OldIds(d)
                               => R!Resolve(i) = R!SerialId(d)
         /\ R!Resolve(i) # None => R!Resolve(i) \in DOMAIN regs
         /\ R!Resolve(i) = Resolve(i)
         /\ None \notin DOMAIN regs
<1>1. None \notin DOMAIN regs BY DEF RegistryConstants, StateInv, Dictionary
<1>2. i \in DOMAIN regs => \A d \in Devices : i \notin R!OldIds(d)
  <2>1. \A x : \A d \in Devices : R!Current(x) \notin R!OldIds(d)
    BY IdsDiffer DEF R!Current, R!NetworkId, R!OldIds
  <2>2. i \in DOMAIN regs => i = R!Current(regs[i]) BY DEF StateInv, Today
  <2>3. QED BY <2>1, <2>2
<1>3. \A d \in Devices : i \in DOMAIN alias /\ i \in R!OldIds(d) => alias[i] = R!SerialId(d)
  BY IdsDiffer DEF StateInv, AliasesFit, R!OldIds
<1>4. i \in DOMAIN alias => \E d \in Devices : i \in R!OldIds(d) BY DEF StateInv, AliasesFit
<1>5. R!Resolve(i) = IF i \in DOMAIN regs THEN i
                     ELSE IF i \in DOMAIN alias /\ alias[i] \in DOMAIN regs THEN alias[i] ELSE None
  BY DEF R!Resolve
<1>6. Resolve(i) = R!Resolve(i) BY <1>5 DEF Resolve
<1>7. QED BY <1>1, <1>2, <1>3, <1>4, <1>5, <1>6

(* A write that succeeds stores all that is held, one that fails leaves    *)
(* what was stored: nothing new can be held but the identifier of today.   *)
LEMMA SavesFile ==
  ASSUME RegistryConstants, StateInv, Filed(file), R!Saves, Dictionary(regs'), Today(regs'),
         Carried(regs, alias)', \A d \in Devices : held'[d] \subseteq held[d] \union {R!SerialId(d)}
  PROVE  Dictionary(file') /\ Filed(file)'
<1>1. CASE file' = file BY <1>1 DEF StateInv, Filed
<1>2. CASE file' = regs'
  <2>1. SUFFICES ASSUME NEW d \in Devices, NEW i \in held'[d], i # R!SerialId(d)
                 PROVE  i \in R!IdsOf(regs', d)
    BY <1>2 DEF Filed
  <2>2. R!SerialId(d) \in DOMAIN regs' /\ i \in regs'[R!SerialId(d)].known BY <2>1 DEF Carried
  <2>3. QED BY <2>2, OneOfEach
<1>3. QED BY <1>1, <1>2 DEF R!Saves

-----------------------------------------------------------------------------
(* Whatever file an older manager left.                                    *)
LEMMA RegistryInitially == RegistryConstants /\ R!Init => RegistryInv
<1> SUFFICES ASSUME RegistryConstants, R!Init PROVE RegistryInv OBVIOUS
<1>1. DOMAIN regs = {} /\ DOMAIN alias = {} /\ DOMAIN cache = {} BY DEF R!Init, R!Nothing
<1>2. file \in OldFiles /\ where \in Places /\ refresh = None /\ up = FALSE
      /\ held = [d \in Devices |-> R!IdsOf(file, d)]
  BY DEF R!Init
<1>3. Dictionary(file) BY <1>2 DEF RegistryConstants, Dictionary
<1>4. StateInv
  <2>1. where \in [Devices -> Addresses] BY <1>2 DEF RegistryConstants
  <2>2. held = [d \in Devices |-> held[d]] BY <1>2
  <2>3. QED BY <1>1, <1>2, <1>3, <2>1, <2>2 DEF StateInv, Dictionary, Today, AliasesFit
<1>5. Filed(file) BY <1>2 DEF Filed
<1>6. QED BY <1>2, <1>4, <1>5 DEF RegistryInv

(* A start: what was held is carried by the survivors and leads to them,   *)
(* whether or not the file could be written.                               *)
LEMMA LoadsKeep ==
  ASSUME RegistryConstants, RegistryInv, R!Loads
  PROVE  /\ RegistryInv'
         /\ \A i \in DOMAIN file : \E k \in DOMAIN regs' : Keeps(regs'[k], file[i], Merchants)
<1> DEFINE now == R!Loaded(file)
<1>1. /\ regs' = now /\ alias' = R!Aliases(file) /\ file' \in {file, now}
      /\ held' = [d \in Devices |-> held[d] \union R!IdsOf(file, d) \union R!IdsOf(now, d)]
      /\ UNCHANGED << cache, where, refresh >>
  BY DEF R!Loads
<1>2. Dictionary(file) BY DEF RegistryInv, StateInv
<1>3. Dictionary(now) /\ Today(now) BY <1>2, LoadedIsWell
<1>4. /\ AliasesFit(alias')
      /\ \A k \in DOMAIN now : now[k].known \subseteq DOMAIN alias'
  BY <1>1, <1>2, AliasesAreWell
<1>5. \A d \in Devices : R!IdsOf(file, d) # {} =>
        /\ R!SerialId(d) \in DOMAIN now
        /\ R!IdsOf(file, d) \union {R!SerialId(d)} = now[R!SerialId(d)].known \union {R!SerialId(d)}
  BY <1>2, LoadedIsWell
<1>6. \A d \in Devices : R!IdsOf(now, d) # {} => R!IdsOf(file, d) # {} BY <1>2, LoadedIsOfFile
<1>7. \A d \in Devices : R!IdsOf(now, d) # {} =>
        R!IdsOf(now, d) = {R!SerialId(d)} \union now[R!SerialId(d)].known
  BY <1>3, OneOfEach
<1>8. \A i \in DOMAIN file : \E k \in DOMAIN now : Keeps(now[k], file[i], Merchants)
  BY <1>2, LoadedIsWell
<1> HIDE DEF now
<1>9. ASSUME NEW d \in Devices, NEW i \in held'[d], i # R!SerialId(d)
      PROVE  /\ i \in R!IdsOf(file, d)
             /\ R!SerialId(d) \in DOMAIN now /\ i \in now[R!SerialId(d)].known
             /\ i \in R!IdsOf(now, d)
  <2>1. i \in held[d] \/ i \in R!IdsOf(file, d) \/ i \in R!IdsOf(now, d) BY <1>1, <1>9
  <2>2. i \in held[d] => i \in R!IdsOf(file, d) BY <1>9 DEF RegistryInv, Filed
  <2>3. R!IdsOf(file, d) # {} BY <1>6, <2>1, <2>2
  <2>4. R!SerialId(d) \in DOMAIN now BY <1>5, <2>3
  <2>5. R!IdsOf(now, d) = {R!SerialId(d)} \union now[R!SerialId(d)].known BY <1>3, <2>4, OneOfEach
  <2>6. R!IdsOf(file, d) \union {R!SerialId(d)} = now[R!SerialId(d)].known \union {R!SerialId(d)}
    BY <1>5, <2>3
  <2>7. i \in R!IdsOf(file, d) \union {R!SerialId(d)} BY <2>1, <2>2, <2>5, <2>6
  <2>8. QED BY <1>9, <2>4, <2>5, <2>6, <2>7
<1>10. StateInv'
  <2>1. Dictionary(file)' BY <1>1, <1>2, <1>3
  <2>2. held' = [d \in Devices |-> held'[d]] BY <1>1
  <2>3. /\ \A i \in DOMAIN cache' : cache'[i] \in Described /\ i = R!Current(cache'[i])
        /\ where' \in [Devices -> Addresses]
        /\ refresh' # None => refresh' \in [id : R!Ids, roster : SUBSET Merchants]
    BY <1>1 DEF RegistryInv, StateInv
  <2>4. QED BY <1>1, <1>3, <1>4, <2>1, <2>2, <2>3 DEF StateInv
<1>11. Filed(file)' BY <1>1, <1>9 DEF Filed
<1>12. Carried(regs, alias)' BY <1>1, <1>4, <1>9 DEF Carried
<1>13. QED BY <1>1, <1>8, <1>10, <1>11, <1>12 DEF RegistryInv

(* What a terminal was known by outlives the manager in the file.          *)
LEMMA StopsKeeps == ASSUME RegistryInv, R!Stops PROVE RegistryInv'
<1>1. /\ DOMAIN regs' = {} /\ DOMAIN alias' = {} /\ DOMAIN cache' = {} /\ ~ up'
      /\ refresh' = None /\ UNCHANGED << file, where, held >>
  BY DEF R!Stops, R!Nothing
<1>2. StateInv' BY <1>1 DEF RegistryInv, StateInv, Dictionary, Today, AliasesFit
<1>3. Filed(file)' BY <1>1 DEF RegistryInv, Filed
<1>4. QED BY <1>1, <1>2, <1>3 DEF RegistryInv

(* A new address changes no identifier that was given.                     *)
LEMMA MovesKeeps ==
  ASSUME RegistryInv, NEW x \in Devices, NEW a \in Addresses, R!Moves(x, a) PROVE RegistryInv'
<1>1. where' = [where EXCEPT ![x] = a] /\ UNCHANGED << up, regs, alias, cache, file, refresh, held >>
  BY DEF R!Moves, R!memory
<1>2. where' \in [Devices -> Addresses] BY <1>1 DEF RegistryInv, StateInv
<1>3. QED BY <1>1, <1>2 DEF RegistryInv, StateInv, Dictionary, Today, AliasesFit, Filed, Carried

(* A sweep files each terminal under its identifier of today.              *)
LEMMA DiscoversKeeps ==
  ASSUME RegistryConstants, RegistryInv, NEW answered \in SUBSET Devices,
         NEW read \in SUBSET answered, R!Discovers(answered, read)
  PROVE  RegistryInv'
<1> DEFINE seen(d) == [dev |-> IF d \in read THEN d ELSE Unread, addr |-> where[d]]
<1>1. /\ UNCHANGED << up, regs, alias, file, where, refresh, held >>
      /\ cache' = [i \in { R!Current(seen(d)) : d \in answered } |->
                     seen(CHOOSE d \in answered : R!Current(seen(d)) = i)]
  BY DEF R!Discovers, R!Operates
<1>2. \A d \in answered : seen(d) \in Described BY DEF RegistryInv, StateInv, Described
<1> HIDE DEF seen
<1>3. \A i \in DOMAIN cache' : cache'[i] \in Described /\ i = R!Current(cache'[i]) BY <1>1, <1>2
<1>4. QED BY <1>1, <1>3 DEF RegistryInv, StateInv, Dictionary, Today, AliasesFit, Filed, Carried

(* A roster that is being read is for some identifier.                     *)
LEMMA StartsRefreshKeeps ==
  ASSUME RegistryInv, NEW i \in R!Ids, NEW roster \in SUBSET Merchants, R!StartsRefresh(i, roster)
  PROVE  RegistryInv'
<1>1. refresh' = [id |-> i, roster |-> roster] /\ UNCHANGED << up, regs, alias, cache, file, where, held >>
  BY DEF R!StartsRefresh, R!Operates, R!memory
<1>2. QED BY <1>1 DEF RegistryInv, StateInv, Dictionary, Today, AliasesFit, Filed, Carried

-----------------------------------------------------------------------------
(* A descriptor that is stored under its own identifier replaces at most   *)
(* the registration of the same terminal: nothing moves to another key.    *)
LEMMA PutKeeps ==
  ASSUME RegistryConstants, RegistryInv, up, up', NEW i, NEW id \in R!Ids,
         NEW descriptor \in Described, id = R!Current(descriptor),
         R!Resolve(i) \in {None, id}, id \in DOMAIN regs => R!Resolve(i) = id,
         NEW nick \in BOOLEAN, NEW merchants \in [Merchants -> R!Known],
         R!Put(i, id, descriptor, nick, merchants), R!Saves,
         \A k \in DOMAIN cache' : cache'[k] \in Described /\ k = R!Current(cache'[k]),
         UNCHANGED << where, refresh >>
  PROVE  RegistryInv'
<1> DEFINE past == IF R!Resolve(i) = None THEN {} ELSE R!Holder(i).known
           e == [dev |-> descriptor.dev, addr |-> descriptor.addr, nick |-> nick,
                 merchants |-> merchants, known |-> past \ {id}, after |-> 0]
<1>1. ~ (R!Resolve(i) # None /\ R!Resolve(i) # id) OBVIOUS
<1>2. /\ regs' = R!Stored(regs, id, e) /\ alias' = alias
      /\ held' = IF e.dev \in Devices THEN [held EXCEPT ![e.dev] = @ \union {id}] ELSE held
  BY <1>1 DEF R!Put
<1>3. /\ DOMAIN regs' = DOMAIN regs \union {id} /\ regs'[id] = e
      /\ \A k \in DOMAIN regs : k # id => regs'[k] = regs[k]
  BY <1>2 DEF R!Stored
<1>4. /\ e.dev = descriptor.dev /\ e.addr = descriptor.addr /\ e.known = past \ {id}
      /\ e.dev \in Devices \union {Unread} /\ e.addr \in Addresses
      /\ R!Current(e) = id
  BY DEF Described, R!Current
<1>5. /\ id \in DOMAIN regs => past = regs[id].known
      /\ id \notin DOMAIN regs => past = {}
  <2>1. id # None BY DEF RegistryConstants
  <2>2. id \in DOMAIN regs => R!Holder(i) = regs[id] BY DEF R!Holder
  <2>3. id \notin DOMAIN regs => R!Resolve(i) = None BY ResolveIs DEF RegistryInv
  <2>4. QED BY <2>1, <2>2, <2>3
<1>6. \A k \in DOMAIN regs : regs[k] \in R!Registration /\ R!KeyFits(k, regs[k]) /\ k = R!Current(regs[k])
  BY DEF RegistryInv, StateInv, Dictionary, Today
<1>7. Unread \notin Devices BY DEF RegistryConstants
<1>8. R!Current(e) = IF e.dev = Unread THEN R!AddressId(e.addr) ELSE R!SerialId(e.dev)
  BY DEF R!Current, R!NetworkId
<1>9. /\ e.dev = Unread => past = {}
      /\ e.dev \in Devices => past \subseteq R!OldIds(e.dev)
  <2>1. CASE id \notin DOMAIN regs BY <1>5, <2>1
  <2>2. CASE id \in DOMAIN regs
    <3>1. e.dev = Unread => regs[id].dev = Unread
      <4>1. SUFFICES ASSUME e.dev = Unread, regs[id].dev # Unread PROVE FALSE OBVIOUS
      <4>2. regs[id].dev \in Devices BY <1>6, <2>2, <4>1 DEF R!Registration
      <4>3. id = R!SerialId(regs[id].dev) BY <1>6, <2>2, <4>2, KeysTell
      <4>4. QED BY <1>4, <1>8, <4>1, <4>3, IdsDiffer
    <3>2. e.dev \in Devices => regs[id].dev = e.dev
      BY <1>4, <1>6, <1>7, <1>8, <2>2, KeysTell
    <3>3. R!KeyFits(id, regs[id]) BY <1>6, <2>2
    <3>4. QED BY <1>5, <1>7, <2>2, <3>1, <3>2, <3>3 DEF R!KeyFits
  <2>3. QED BY <2>1, <2>2
<1> HIDE DEF past
<1>10. e \in R!Registration /\ R!KeyFits(id, e)
  <2>1. \A d \in Devices : R!OldIds(d) \subseteq R!Ids BY DEF R!Ids
  <2>2. past \ {id} \subseteq R!Ids BY <1>4, <1>9, <2>1
  <2>3. e \in R!Registration BY <1>4, <2>2 DEF R!Registration
  <2>4. R!KeyFits(id, e) BY <1>4, <1>8, <1>9 DEF R!KeyFits
  <2>5. QED BY <2>3, <2>4
<1> HIDE DEF e
<1>11. Dictionary(regs')
  <2>1. DOMAIN regs' \subseteq R!Ids BY <1>3 DEF RegistryInv, StateInv, Dictionary
  <2>2. QED BY <1>3, <1>6, <1>10, <2>1 DEF Dictionary
<1>12. Today(regs') BY <1>3, <1>4, <1>6 DEF Today
<1>13. /\ held' = [d \in Devices |-> held'[d]]
       /\ \A d \in Devices : held'[d] \subseteq held[d] \union {R!SerialId(d)}
  <2>1. held = [d \in Devices |-> held[d]] BY DEF RegistryInv, StateInv
  <2>2. e.dev \in Devices => id = R!SerialId(e.dev) BY <1>4, <1>7, <1>8
  <2>3. CASE e.dev \in Devices BY <1>2, <2>1, <2>2, <2>3
  <2>4. CASE e.dev \notin Devices BY <1>2, <2>1, <2>4
  <2>5. QED BY <2>3, <2>4
<1>14. Carried(regs, alias)'
  <2>1. SUFFICES ASSUME NEW d \in Devices, NEW j \in held[d], j # R!SerialId(d)
                 PROVE  /\ R!SerialId(d) \in DOMAIN regs' /\ j \in regs'[R!SerialId(d)].known
                        /\ j \in DOMAIN alias'
    BY <1>13 DEF Carried
  <2>2. R!SerialId(d) \in DOMAIN regs /\ j \in regs[R!SerialId(d)].known /\ j \in DOMAIN alias
    BY <2>1 DEF RegistryInv, Carried
  <2>3. CASE R!SerialId(d) # id BY <1>2, <1>3, <2>2, <2>3
  <2>4. CASE R!SerialId(d) = id BY <1>2, <1>3, <1>4, <1>5, <2>1, <2>2, <2>4
  <2>5. QED BY <2>3, <2>4
<1>15. Dictionary(file') /\ Filed(file)'
  BY <1>11, <1>12, <1>13, <1>14, SavesFile DEF RegistryInv
<1>16. StateInv' BY <1>2, <1>11, <1>12, <1>13, <1>15 DEF RegistryInv, StateInv, AliasesFit
<1>17. QED BY <1>14, <1>15, <1>16 DEF RegistryInv

(* An identifier that a sweep filed is one of today, and so is what any    *)
(* identifier leads to.                                                    *)
LEMMA RegistersKeeps ==
  ASSUME RegistryConstants, RegistryInv, NEW i \in R!Ids, NEW nick \in BOOLEAN, R!Registers(i, nick)
  PROVE  RegistryInv'
<1> DEFINE id == R!DescriptorId(i)
           descriptor == R!Descriptor(i)
<1>1. /\ up /\ up' /\ UNCHANGED << cache, where, refresh >> /\ R!Saves
      /\ i \in DOMAIN cache \/ R!Resolve(i) # None
  BY DEF R!Registers, R!Operates
<1>2. PICK merchants \in { R!MerchantsOf(i), [m \in Merchants |-> "named"] } :
        R!Put(i, id, descriptor, nick, merchants)
  BY DEF R!Registers
<1>3. \A k \in DOMAIN cache : cache[k] \in Described /\ k = R!Current(cache[k])
  BY DEF RegistryInv, StateInv
<1>4. \A k \in DOMAIN regs : /\ k \in R!Ids /\ regs[k] \in R!Registration
                             /\ k = R!Current(regs[k])
  BY DEF RegistryInv, StateInv, Dictionary, Today
<1>5. /\ R!Resolve(i) # None => R!Resolve(i) \in DOMAIN regs
      /\ i \in DOMAIN regs => R!Resolve(i) = i
  BY ResolveIs DEF RegistryInv
<1>6. i \in DOMAIN cache => R!Resolve(i) \in {None, i}
  <2>1. \A x : \A d \in Devices : R!Current(x) \notin R!OldIds(d)
    BY IdsDiffer DEF R!Current, R!NetworkId, R!OldIds
  <2>2. QED BY <1>3, <2>1, ResolveIs DEF RegistryInv
<1>7. /\ id \in R!Ids /\ R!Resolve(i) \in {None, id}
      /\ id \in DOMAIN regs => R!Resolve(i) = id
  BY <1>1, <1>4, <1>5, <1>6 DEF R!DescriptorId
<1>8. descriptor \in Described /\ id = R!Current(descriptor)
  <2>1. CASE id \in DOMAIN cache BY <1>3, <2>1 DEF R!Descriptor
  <2>2. CASE id \notin DOMAIN cache
    <3>1. id = R!Resolve(i) /\ id \in DOMAIN regs BY <1>1, <1>5, <2>2 DEF R!DescriptorId
    <3>2. descriptor = [dev |-> regs[id].dev, addr |-> regs[id].addr]
      BY <2>2, <3>1 DEF R!Descriptor, R!Holder
    <3>3. regs[id].dev \in Devices \union {Unread} /\ regs[id].addr \in Addresses
      BY <1>4, <3>1 DEF R!Registration
    <3>4. R!Current(descriptor) = R!Current(regs[id]) BY <3>2 DEF R!Current
    <3>5. QED BY <1>4, <3>1, <3>2, <3>3, <3>4 DEF Described
  <2>3. QED BY <2>1, <2>2
<1>9. merchants \in [Merchants -> R!Known]
  <2>1. R!Resolve(i) # None => R!Holder(i).merchants \in [Merchants -> R!Known]
    BY <1>4, <1>5 DEF R!Holder, R!Registration
  <2>2. QED BY <1>2, <2>1 DEF R!MerchantsOf, R!Known
<1> HIDE DEF id, descriptor
<1>10. PICK k \in R!Ids, x \in Described : k = id /\ x = descriptor BY <1>7, <1>8
<1>11. /\ R!Put(i, k, x, nick, merchants) /\ k = R!Current(x)
       /\ R!Resolve(i) \in {None, k}
       /\ k \in DOMAIN regs => R!Resolve(i) = k
  BY <1>2, <1>7, <1>8, <1>10
<1>12. \A j \in DOMAIN cache' : cache'[j] \in Described /\ j = R!Current(cache'[j])
  BY <1>1, <1>3
<1>13. QED BY <1>1, <1>9, <1>11, <1>12, PutKeeps

(* An address is registered under its own identifier.                      *)
LEMMA RegistersManuallyKeeps ==
  ASSUME RegistryConstants, RegistryInv, NEW a \in Addresses, NEW nick \in BOOLEAN,
         R!RegistersManually(a, nick)
  PROVE  RegistryInv'
<1> DEFINE i == R!AddressId(a)
           descriptor == [dev |-> Unread, addr |-> a]
<1>1. /\ up /\ up' /\ UNCHANGED << where, refresh >> /\ R!Saves
      /\ cache' = R!Stored(cache, i, descriptor)
      /\ R!Put(i, i, descriptor, nick, R!MerchantsOf(i))
  BY DEF R!RegistersManually, R!Operates
<1>2. descriptor \in Described /\ i = R!Current(descriptor) /\ i \in R!Ids
  BY DEF Described, R!Current, R!NetworkId, R!Ids
<1>3. \A d \in Devices : i \notin R!OldIds(d) BY IdsDiffer DEF R!OldIds
<1>4. /\ R!Resolve(i) \in {None, i}
      /\ i \in DOMAIN regs => R!Resolve(i) = i
      /\ R!Resolve(i) # None => R!Resolve(i) \in DOMAIN regs
  BY <1>3, ResolveIs DEF RegistryInv
<1>5. \A k \in DOMAIN cache' : cache'[k] \in Described /\ k = R!Current(cache'[k])
  BY <1>1, <1>2 DEF RegistryInv, StateInv, R!Stored
<1>6. R!MerchantsOf(i) \in [Merchants -> R!Known]
  <2>1. R!Resolve(i) # None => R!Holder(i).merchants \in [Merchants -> R!Known]
    BY <1>4 DEF R!Holder, R!Registration, RegistryInv, StateInv, Dictionary
  <2>2. QED BY <2>1 DEF R!MerchantsOf, R!Known
<1> HIDE DEF i, descriptor
<1>7. PICK merchants \in [Merchants -> R!Known] : merchants = R!MerchantsOf(i) BY <1>6
<1>8. R!Put(i, i, descriptor, nick, merchants) BY <1>1, <1>7
<1>9. QED BY <1>1, <1>2, <1>4, <1>5, <1>8, PutKeeps

(* A registration that is dropped takes the identifiers of its terminal,   *)
(* and of no other, along.                                                 *)
LEMMA UnregistersKeeps ==
  ASSUME RegistryConstants, RegistryInv, NEW i \in R!Ids, R!Unregisters(i)
  PROVE  RegistryInv'
<1> DEFINE r == R!Resolve(i)
<1>1. /\ up /\ up' /\ UNCHANGED << cache, where, refresh >> /\ R!Saves
      /\ r # None
      /\ regs' = R!Without(regs, {r})
      /\ alias' = R!Without(alias, { k \in DOMAIN alias : alias[k] = r })
      /\ held' = [d \in Devices |-> IF d = regs[r].dev THEN {} ELSE held[d]]
  BY DEF R!Unregisters, R!Operates, R!Holder
<1>2. r \in DOMAIN regs BY <1>1, ResolveIs DEF RegistryInv
<1> HIDE DEF r
<1>3. /\ DOMAIN regs' = DOMAIN regs \ {r}
      /\ \A k \in DOMAIN regs' : regs'[k] = regs[k]
  BY <1>1 DEF R!Without, R!Restrict
<1>4. /\ DOMAIN alias' = { k \in DOMAIN alias : alias[k] # r }
      /\ \A k \in DOMAIN alias' : alias'[k] = alias[k]
  BY <1>1 DEF R!Without, R!Restrict
<1>5. Dictionary(regs') /\ Today(regs')
  BY <1>3 DEF RegistryInv, StateInv, Dictionary, Today
<1>6. AliasesFit(alias') BY <1>4 DEF RegistryInv, StateInv, AliasesFit
<1>7. /\ held' = [d \in Devices |-> held'[d]]
      /\ \A d \in Devices : held'[d] \subseteq held[d] \union {R!SerialId(d)}
  BY <1>1
<1>8. Carried(regs, alias)'
  <2>1. SUFFICES ASSUME NEW d \in Devices, NEW j \in held'[d], j # R!SerialId(d)
                 PROVE  /\ R!SerialId(d) \in DOMAIN regs' /\ j \in regs'[R!SerialId(d)].known
                        /\ j \in DOMAIN alias'
    BY DEF Carried
  <2>2. j \in held[d] /\ d # regs[r].dev BY <1>1, <2>1
  <2>3. R!SerialId(d) \in DOMAIN regs /\ j \in regs[R!SerialId(d)].known /\ j \in DOMAIN alias
    BY <1>1, <2>1, <2>2 DEF RegistryInv, Carried
  <2>4. R!SerialId(d) # r BY <2>2, <2>3, OneOfEach DEF RegistryInv, StateInv
  <2>5. j \in R!OldIds(d) BY <2>3, OneOfEach DEF RegistryInv, StateInv
  <2>6. alias[j] = R!SerialId(d)
    BY <2>3, <2>5, IdsDiffer DEF RegistryInv, StateInv, AliasesFit, R!OldIds
  <2>7. QED BY <1>3, <1>4, <2>3, <2>4, <2>6
<1>9. Dictionary(file') /\ Filed(file)' BY <1>1, <1>5, <1>7, <1>8, SavesFile DEF RegistryInv
<1>10. StateInv' BY <1>1, <1>5, <1>6, <1>7, <1>9 DEF RegistryInv, StateInv
<1>11. QED BY <1>8, <1>9, <1>10 DEF RegistryInv

(* Other merchants leave a registration where it is.                       *)
LEMMA SetMerchantsKeeps ==
  ASSUME RegistryConstants, RegistryInv, up, NEW i, R!Resolve(i) # None,
         NEW merchants \in [Merchants -> R!Known], R!SetMerchants(i, merchants), R!Saves,
         UNCHANGED << up, alias, cache, where, held >>, refresh' \in {refresh, None}
  PROVE  RegistryInv'
<1> DEFINE r == R!Resolve(i)
<1>1. r \in DOMAIN regs BY ResolveIs DEF RegistryInv
<1>2. regs' = [regs EXCEPT ![r] = [@ EXCEPT !.merchants = merchants]] BY DEF R!SetMerchants
<1> HIDE DEF r
<1>3. DOMAIN regs' = DOMAIN regs /\ \A k \in DOMAIN regs : k # r => regs'[k] = regs[k]
  BY <1>2
<1>4. regs'[r] = [regs[r] EXCEPT !.merchants = merchants] BY <1>1, <1>2
<1>5. regs[r] \in R!Registration BY <1>1 DEF RegistryInv, StateInv, Dictionary
<1>6. /\ regs'[r] \in R!Registration /\ regs'[r].dev = regs[r].dev
      /\ regs'[r].addr = regs[r].addr /\ regs'[r].known = regs[r].known
  BY <1>4, <1>5 DEF R!Registration
<1>7. \A k \in DOMAIN regs : /\ regs'[k] \in R!Registration /\ regs'[k].dev = regs[k].dev
                             /\ regs'[k].addr = regs[k].addr /\ regs'[k].known = regs[k].known
  BY <1>3, <1>6 DEF RegistryInv, StateInv, Dictionary
<1>8. \A k \in DOMAIN regs : /\ R!Current(regs'[k]) = R!Current(regs[k])
                             /\ R!KeyFits(k, regs'[k]) <=> R!KeyFits(k, regs[k])
  BY <1>7 DEF R!Current, R!KeyFits
<1>9. Dictionary(regs') /\ Today(regs')
  BY <1>3, <1>7, <1>8 DEF RegistryInv, StateInv, Dictionary, Today
<1>10. Carried(regs, alias)' BY <1>3, <1>7 DEF RegistryInv, Carried
<1>11. Dictionary(file') /\ Filed(file)' BY <1>9, <1>10, SavesFile DEF RegistryInv
<1>12. StateInv'
  <2>1. refresh' # None => refresh' \in [id : R!Ids, roster : SUBSET Merchants]
    BY DEF RegistryInv, StateInv
  <2>2. QED BY <1>9, <1>11, <2>1 DEF RegistryInv, StateInv, AliasesFit
<1>13. QED BY <1>10, <1>11, <1>12 DEF RegistryInv

(* What the operator types of merchants does not move a registration.      *)
LEMMA UpdatesMerchantsKeeps ==
  ASSUME RegistryConstants, RegistryInv, NEW i \in R!Ids,
         NEW merchants \in [Merchants -> R!Known], R!UpdatesMerchants(i, merchants)
  PROVE  RegistryInv'
<1>1. /\ up /\ UNCHANGED << up, alias, cache, where, held >> /\ refresh' \in {refresh, None}
      /\ R!Resolve(i) # None /\ R!SetMerchants(i, merchants) /\ R!Saves
  BY DEF R!UpdatesMerchants, R!Operates
<1>2. QED BY <1>1, SetMerchantsKeeps

(* A roster that comes back drops the merchants the bank no longer has,    *)
(* and nothing else, of the registration it is for by then.                *)
LEMMA EndsRefreshKeeps ==
  ASSUME RegistryConstants, RegistryInv, R!EndsRefresh
  PROVE  /\ RegistryInv'
         /\ \A i \in DOMAIN regs : i \in DOMAIN regs' /\ Keeps(regs'[i], regs[i], refresh.roster)
<1>1. /\ up /\ refresh # None /\ refresh' = None /\ UNCHANGED << up, alias, cache, where, held >>
  BY DEF R!EndsRefresh
<1>2. refresh.roster \in SUBSET Merchants BY <1>1 DEF RegistryInv, StateInv
<1>3. CASE R!Resolve(refresh.id) = None
  <2>1. UNCHANGED << regs, file >> BY <1>3 DEF R!EndsRefresh
  <2>2. RegistryInv'
    BY <1>1, <2>1 DEF RegistryInv, StateInv, Dictionary, Today, AliasesFit, Filed, Carried
  <2>3. QED BY <2>1, <2>2 DEF Keeps
<1>4. CASE R!Resolve(refresh.id) # None
  <2> DEFINE r == R!Resolve(refresh.id)
             merged == R!Merged(regs[r].merchants, refresh.roster)
  <2>1. R!SetMerchants(refresh.id, merged) /\ R!Saves
    BY <1>4 DEF R!EndsRefresh, R!Holder
  <2>2. r \in DOMAIN regs BY <1>4, ResolveIs DEF RegistryInv
  <2>3. merged \in [Merchants -> R!Known] BY DEF R!Merged, R!Known
  <2>4. \A m \in refresh.roster : regs[r].merchants[m] # "absent" =>
          merged[m] \in {regs[r].merchants[m], "named"}
    <3>1. SUFFICES ASSUME NEW m \in refresh.roster, regs[r].merchants[m] # "absent"
                   PROVE  merged[m] \in {regs[r].merchants[m], "named"}
      OBVIOUS
    <3>2. regs[r].merchants[m] \in {"absent", "listed", "named"}
      BY <1>2, <2>2 DEF RegistryInv, StateInv, Dictionary, R!Registration, R!Known
    <3>3. QED BY <1>2, <3>1, <3>2 DEF R!Merged
  <2>5. regs' = [regs EXCEPT ![r] = [@ EXCEPT !.merchants = merged]] BY <2>1 DEF R!SetMerchants
  <2>6. regs[r] \in R!Registration BY <2>2 DEF RegistryInv, StateInv, Dictionary
  <2> HIDE DEF r, merged
  <2>7. /\ regs'[r].dev = regs[r].dev /\ regs'[r].addr = regs[r].addr
        /\ regs'[r].nick = regs[r].nick /\ regs'[r].merchants = merged
    BY <2>2, <2>5, <2>6 DEF R!Registration
  <2>8. Keeps(regs'[r], regs[r], refresh.roster) BY <2>4, <2>7 DEF Keeps
  <2>9. \A i \in DOMAIN regs : i # r => regs'[i] = regs[i] BY <2>5
  <2>10. \A i \in DOMAIN regs : i \in DOMAIN regs' /\ Keeps(regs'[i], regs[i], refresh.roster)
    BY <2>5, <2>8, <2>9 DEF Keeps
  <2>11. PICK merchants \in [Merchants -> R!Known] : merchants = merged BY <2>3
  <2>12. PICK i : i = refresh.id OBVIOUS
  <2>13. R!SetMerchants(i, merchants) /\ R!Resolve(i) # None BY <1>4, <2>1, <2>11, <2>12
  <2>14. RegistryInv' BY <1>1, <2>1, <2>13, SetMerchantsKeeps
  <2>15. QED BY <2>10, <2>14
<1>5. QED BY <1>3, <1>4

-----------------------------------------------------------------------------
(* Every step, one lemma per action.                                       *)
LEMMA RegistryStep ==
  ASSUME RegistryConstants, RegistryInv, [R!Next]_registryVars PROVE RegistryInv'
<1>1. CASE UNCHANGED registryVars
  BY <1>1 DEF registryVars, memory, RegistryInv, StateInv, Dictionary, Today, AliasesFit, Filed, Carried
<1>2. CASE R!Loads BY <1>2, LoadsKeep
<1>3. CASE R!Stops BY <1>3, StopsKeeps
<1>4. CASE R!EndsRefresh BY <1>4, EndsRefreshKeeps
<1>5. ASSUME NEW d \in Devices, NEW a \in Addresses, R!Moves(d, a) PROVE RegistryInv'
  BY <1>5, MovesKeeps
<1>6. ASSUME NEW answered \in SUBSET Devices, NEW read \in SUBSET answered, R!Discovers(answered, read)
      PROVE  RegistryInv'
  BY <1>6, DiscoversKeeps
<1>7. ASSUME NEW i \in R!Ids, NEW nick \in BOOLEAN, R!Registers(i, nick) PROVE RegistryInv'
  BY <1>7, RegistersKeeps
<1>8. ASSUME NEW a \in Addresses, NEW nick \in BOOLEAN, R!RegistersManually(a, nick) PROVE RegistryInv'
  BY <1>8, RegistersManuallyKeeps
<1>9. ASSUME NEW i \in R!Ids, R!Unregisters(i) PROVE RegistryInv' BY <1>9, UnregistersKeeps
<1>10. ASSUME NEW i \in R!Ids, NEW merchants \in [Merchants -> R!Known], R!UpdatesMerchants(i, merchants)
       PROVE  RegistryInv'
  BY <1>10, UpdatesMerchantsKeeps
<1>11. ASSUME NEW i \in R!Ids, NEW roster \in SUBSET Merchants, R!StartsRefresh(i, roster)
       PROVE  RegistryInv'
  BY <1>11, StartsRefreshKeeps
<1>12. QED
  BY <1>1, <1>2, <1>3, <1>4, <1>5, <1>6, <1>7, <1>8, <1>9, <1>10, <1>11 DEF R!Next, registryVars, memory,
     counters, R!registryVars, R!memory, R!counters

(* The invariant holds from every file an older manager may have left.     *)
LEMMA RegistryInvariant == RegistryConstants => (R!Spec => []RegistryInv)
<1>1. RegistryConstants /\ R!Init => RegistryInv BY RegistryInitially
<1>2. RegistryConstants /\ RegistryInv /\ [R!Next]_(R!registryVars) => RegistryInv'
  BY RegistryStep DEF registryVars, memory, counters, R!registryVars, R!memory, R!counters
<1>3. CASE RegistryConstants BY <1>1, <1>2, <1>3, PTL DEF R!Spec
<1>4. QED BY <1>3

(* A till that holds any identifier its terminal was registered under      *)
(* reaches that terminal: TerminalRegistry.get_registration over load,     *)
(* register, unregister and the writes that fail.                          *)
THEOREM TillsAreAnswered == RegistryConstants => (R!Spec => []StillAnswers)
<1>1. RegistryConstants /\ RegistryInv => StillAnswers
  <2> SUFFICES ASSUME RegistryConstants, RegistryInv PROVE StillAnswers OBVIOUS
  <2>1. SUFFICES ASSUME up, NEW d \in Devices, NEW k \in DOMAIN regs, regs[k].dev = d, NEW i \in held[d]
                 PROVE  Resolve(i) # None /\ Holder(i).dev = d
    BY DEF StillAnswers
  <2>2. Dictionary(regs) /\ Today(regs) /\ StateInv BY DEF RegistryInv, StateInv
  <2>3. R!SerialId(d) \in DOMAIN regs /\ regs[R!SerialId(d)].dev = d BY <2>1, <2>2, OneOfEach
  <2>4. Resolve(i) = R!SerialId(d)
    <3>1. CASE i = R!SerialId(d) BY <2>2, <2>3, <3>1, ResolveIs
    <3>2. CASE i # R!SerialId(d)
      <4>1. i \in regs[R!SerialId(d)].known /\ i \in DOMAIN alias
        BY <2>1, <3>2 DEF RegistryInv, Carried
      <4>2. i \in R!OldIds(d) BY <2>2, <2>3, <4>1, OneOfEach
      <4>3. QED BY <2>2, <2>3, <4>1, <4>2, ResolveIs
    <3>3. QED BY <3>1, <3>2
  <2>5. QED BY <2>2, <2>3, <2>4, ResolveIs DEF Holder
<1>2. CASE RegistryConstants BY <1>1, <1>2, RegistryInvariant, PTL
<1>3. QED BY <1>2

(* An identifier made of a serial number reaches the terminal that has it, *)
(* or none: `_resolve` after load, `_claim_legacy_id` and unregister.      *)
THEOREM NoOtherTerminal == RegistryConstants => (R!Spec => []ReachesNoOther)
<1>1. RegistryConstants /\ RegistryInv => ReachesNoOther
  <2> SUFFICES ASSUME RegistryConstants, RegistryInv PROVE ReachesNoOther OBVIOUS
  <2>1. SUFFICES ASSUME NEW i \in DOMAIN regs \union DOMAIN alias, HasSerial(i), Resolve(i) # None
                 PROVE  Holder(i).dev = SerialOf(i)
    BY DEF ReachesNoOther
  <2>2. Dictionary(regs) /\ Today(regs) /\ StateInv BY DEF RegistryInv, StateInv
  <2>3. \A d, a : /\ HasSerial(R!SerialId(d)) /\ SerialOf(R!SerialId(d)) = d
                  /\ SerialOf(R!OldId(d, a)) = d /\ ~ HasSerial(R!AddressId(a))
    BY DEF HasSerial, SerialOf, R!SerialId, R!OldId, R!AddressId
  <2>4. CASE i \in DOMAIN regs
    <3>1. i = R!Current(regs[i]) /\ Resolve(i) = i BY <2>2, <2>4, ResolveIs DEF Today
    <3>2. i = R!SerialId(regs[i].dev) BY <2>1, <2>3, <3>1 DEF R!Current, R!NetworkId
    <3>3. QED BY <2>3, <3>1, <3>2 DEF Holder
  <2>5. CASE i \notin DOMAIN regs
    <3>1. PICK d \in Devices : i \in R!OldIds(d) /\ alias[i] = R!SerialId(d)
      BY <2>1, <2>5 DEF RegistryInv, StateInv, AliasesFit
    <3>2. Resolve(i) = R!SerialId(d) /\ R!SerialId(d) \in DOMAIN regs BY <2>1, <2>5, <3>1 DEF Resolve
    <3>3. regs[R!SerialId(d)].dev = d BY <2>2, <3>2, OneOfEach
    <3>4. SerialOf(i) = d BY <2>3, <3>1 DEF R!OldIds
    <3>5. QED BY <3>2, <3>3, <3>4 DEF Holder
  <2>6. QED BY <2>4, <2>5
<1>2. CASE RegistryConstants BY <1>1, <1>2, RegistryInvariant, PTL
<1>3. QED BY <1>2

(* A terminal that told its serial number has one registration, whatever   *)
(* addresses it is found at and whatever file the manager started from.    *)
THEOREM TerminalsAreRegisteredOnce == RegistryConstants => (R!Spec => []RegisteredOnce)
<1>1. RegistryConstants /\ RegistryInv => RegisteredOnce
  <2> SUFFICES ASSUME RegistryConstants, RegistryInv PROVE RegisteredOnce OBVIOUS
  <2>1. SUFFICES ASSUME NEW i \in DOMAIN regs, NEW k \in DOMAIN regs,
                        regs[i].dev = regs[k].dev, regs[i].dev # Unread
                 PROVE  i = k
    BY DEF RegisteredOnce
  <2>2. Dictionary(regs) /\ Today(regs) BY DEF RegistryInv, StateInv
  <2>3. regs[i].dev \in Devices BY <2>1, <2>2 DEF Dictionary, R!Registration
  <2>4. QED BY <2>1, <2>2, <2>3, OneOfEach
<1>2. CASE RegistryConstants BY <1>1, <1>2, RegistryInvariant, PTL
<1>3. QED BY <1>2

(* No start loses a nickname or a merchant that is in the file, whatever   *)
(* copies are merged; no roster loses one that the bank still has.         *)
THEOREM WorkIsKept == RegistryConstants => (R!Spec => WorkKept)
<1> DEFINE Step ==
      /\ ~up /\ up' => \A i \in DOMAIN file : \E k \in DOMAIN regs' :
                         Keeps(regs'[k], file[i], Merchants)
      /\ up /\ up' /\ refresh # None /\ refresh' = None =>
           \A i \in DOMAIN regs : i \in DOMAIN regs' /\ Keeps(regs'[i], regs[i], refresh.roster)
<1>1. ASSUME RegistryConstants, RegistryInv, R!Next PROVE Step
  <2>1. CASE R!Loads BY <1>1, <2>1, LoadsKeep DEF R!Loads
  <2>2. CASE R!EndsRefresh BY <1>1, <2>2, EndsRefreshKeeps DEF R!EndsRefresh
  <2>3. CASE R!Stops BY <2>3 DEF R!Stops
  <2>4. ASSUME ~ R!Loads, ~ R!EndsRefresh, ~ R!Stops
        PROVE  UNCHANGED up /\ (refresh' = refresh \/ refresh = None)
    BY <1>1, <2>4 DEF R!Next, R!Moves, R!Operates, R!Discovers, R!Registers, R!RegistersManually,
                      R!Unregisters, R!UpdatesMerchants, R!StartsRefresh
  <2>5. QED BY <2>1, <2>2, <2>3, <2>4
<1>2. RegistryConstants /\ RegistryInv /\ [R!Next]_(R!registryVars) => [Step]_registryVars
  BY <1>1 DEF registryVars, memory, counters, R!registryVars, R!memory, R!counters
<1>3. WorkKept <=> [][Step]_registryVars BY DEF WorkKept
<1>4. CASE RegistryConstants BY <1>2, <1>3, <1>4, RegistryInvariant, PTL DEF R!Spec
<1>5. QED BY <1>4

-----------------------------------------------------------------------------
(* The terminals of the banks.                                             *)

ShapeInv ==
  /\ bank \in Banks /\ wire \in {"tcp", "com"}
  /\ caller \in [Operations -> {"new", "waits", "done"}]
  /\ DOMAIN told = Operations /\ DOMAIN mail = Operations
  /\ sent \subseteq Operations /\ terminal \in Charges \union {NoOp}

(* Nothing is known of a charge that was not begun.                        *)
NewInv == \A c \in Charges : caller[c] = "new" =>
  told[c] = "nothing" /\ mail[c] = NoOp /\ c \notin paid \union sent \union thread /\ terminal # c

(* A charge is on its way, or worked on, or paid.                          *)
OnceInv == \A c \in Charges :
  /\ c \in sent => c \notin paid /\ terminal # c
  /\ terminal = c => c \notin paid

(* What may be said of a charge without being untrue of it.                *)
Believable(c) == {Garbled, Shapeless} \union
  IF c \in paid THEN Says("approved")
  ELSE IF c \in sent \/ terminal = c THEN {}
  ELSE Says("declined") \union Says("cancelled") \union Says("reversed")

MailInv == \A c \in Charges : mail[c] # NoOp => mail[c] \in Believable(c)

(* The one thread that has the COM port is that of the request the         *)
(* terminal has, and an answer on the line is an answer to it.             *)
PortInv ==
  /\ wire = "tcp" => thread = {}
  /\ wire = "com" =>
       /\ \A a, b \in thread : a = b
       /\ sent \subseteq thread /\ (terminal # NoOp => terminal \in thread)
       /\ \/ line = << >>
          \/ /\ sent = {} /\ terminal = NoOp
             /\ \E m : line = << m >> /\ \A c \in thread \intersect Charges : m \in Believable(c)

BankInv == ShapeInv /\ NewInv /\ OnceInv /\ MailInv /\ PortInv /\ AnswerIsOwn

(* The wires whose answers are told apart.                                 *)
Sane == wire = "tcp" \/ (Exclusive /\ ~Late)

-----------------------------------------------------------------------------
(* An answer alone on a line.                                              *)
LEMMA OneAnswer ==
  ASSUME NEW m
  PROVE  Append(<< >>, m) = << m >> /\ Head(<< m >>) = m /\ Tail(<< m >>) = << >> /\ << m >> # << >>
OBVIOUS

(* What the constants are.                                                 *)
LEMMA Names == /\ Charges \intersect Queries = {} /\ NoOp \notin Charges
               /\ Operations = Charges \union Queries
  BY NamesAssumption DEF Operations

(* What the adapters make of the messages of a terminal.                   *)
LEMMA VerdictsAreTrue ==
  ASSUME bank \in Banks, NEW m
  PROVE  /\ m \in Says("approved") => Read(m).purchase = "ok"
         /\ m \in Says("declined") \union Says("cancelled") \union Says("reversed")
              => Spoke(m) /\ Read(m).purchase \in {"declined", "cancelled"}
<1>1. ASSUME m \in Says("approved") PROVE Read(m).purchase = "ok"
  <2>1. m = [code |-> "ok", status |-> "approved", error |-> FALSE]
    BY <1>1 DEF Says, Answer
  <2>2. m.code = "ok" /\ m.status = "approved" /\ m.error = FALSE BY <2>1
  <2>3. Privat(m).purchase = "ok" /\ PosApi(m).purchase = "ok"
    BY <2>2 DEF Privat, PrivatPurchase, PosApi, Verdict
  <2>4. Bpos(m).purchase = "ok" /\ Oschad(m).purchase = "ok" BY <2>2 DEF Bpos, Oschad, Verdict
  <2>5. QED BY <2>3, <2>4 DEF Read, Banks
<1>2. ASSUME m \in Says("declined") \union Says("cancelled") \union Says("reversed")
      PROVE  Spoke(m) /\ Read(m).purchase \in {"declined", "cancelled"}
  <2>1. \/ m.code = "other" /\ m.status = "declined" /\ m.error = FALSE
        \/ m.code = "other" /\ m.status = "none" /\ m.error = TRUE
        \/ m.code = "cancelled" /\ m.status = "none" /\ m.error = TRUE
        \/ bank = "privat" /\ m.code = "other" /\ m.status = "cancelled" /\ m.error = FALSE
        \/ bank = "privat" /\ m.code = "ok" /\ m.status = "reversed" /\ m.error = FALSE
    BY <1>2 DEF Says, Answer
  <2>2. Privat(m).purchase \in {"declined", "cancelled"}
    BY <2>1 DEF Privat, PrivatPurchase, Verdict
  <2>3. bank # "privat" => m.code # "ok" BY <2>1
  <2>4. bank # "privat" => /\ PosApi(m).purchase \in {"declined", "cancelled"}
                           /\ Bpos(m).purchase \in {"declined", "cancelled"}
                           /\ Oschad(m).purchase \in {"declined", "cancelled"}
    BY <2>3 DEF PosApi, Bpos, Oschad, Verdict
  <2>5. Spoke(m) BY <2>1 DEF Spoke
  <2>6. QED BY <2>2, <2>4, <2>5 DEF Read, Banks
<1>3. QED BY <1>1, <1>2

(* What is no answer to a purchase is taken for none.                      *)
LEMMA NoVerdict ==
  ASSUME bank \in Banks, NEW c \in Charges, NEW m \in {Garbled, Shapeless}
  PROVE  Result(c, m) \in {"failed", "unheard"}
<1>1. CASE ~IsFrame(m) BY <1>1 DEF Result, Failure
<1>2. CASE IsFrame(m)
  <2>1. m = Shapeless /\ bank = "privat" BY <1>2 DEF IsFrame
  <2>2. m = [code |-> "shapeless", status |-> "none", error |-> FALSE]
    BY <2>1 DEF Shapeless, Answer
  <2>3. m.code = "shapeless" /\ m.status = "none" /\ m.error = FALSE BY <2>2
  <2>4. Read(m).purchase = "declined" BY <2>1, <2>3 DEF Read, Privat, PrivatPurchase, Verdict
  <2>5. ~Spoke(m) BY <2>3 DEF Spoke
  <2>6. QED BY <1>2, <2>4, <2>5 DEF Result, Purchase
<1>3. QED BY <1>1, <1>2

(* What a terminal says of a purchase can be read.                         *)
LEMMA SaysIsFrame ==
  ASSUME NEW m, m \notin {Garbled, Shapeless}, NEW c \in Charges,
         Read(m).purchase = "declined" => Spoke(m)
  PROVE  Result(c, m) = Read(m).purchase
BY DEF IsFrame, Result, Purchase

(* A charge answered with a message that may be believed is answered with  *)
(* the truth.                                                              *)
TrueOf(c, what) ==
  /\ what \in {"ok", "declined", "cancelled", "unheard", "failed", "unknown"}
  /\ what = "ok" => c \in paid
  /\ what \in {"declined", "cancelled"} => c \notin paid \union sent /\ terminal # c

(* What is believable of a charge is no lie about it.                      *)
LEMMA BelievedIsTrue ==
  ASSUME bank \in Banks, NEW c \in Charges, NEW m \in Believable(c)
  PROVE  TrueOf(c, Result(c, m))
<1>1. CASE m \in {Garbled, Shapeless} BY <1>1, NoVerdict DEF TrueOf
<1>2. CASE m \notin {Garbled, Shapeless}
  <2>1. CASE c \in paid
    <3>1. Read(m).purchase = "ok" BY <1>2, <2>1, VerdictsAreTrue DEF Believable
    <3>2. QED BY <1>2, <2>1, <3>1, SaysIsFrame DEF TrueOf
  <2>2. CASE c \notin paid
    <3>1. c \notin sent /\ terminal # c BY <1>2, <2>2 DEF Believable
    <3>2. Spoke(m) /\ Read(m).purchase \in {"declined", "cancelled"}
      BY <1>2, <2>2, <3>1, VerdictsAreTrue DEF Believable
    <3>3. QED BY <1>2, <2>2, <3>1, <3>2, SaysIsFrame DEF TrueOf
  <2>3. QED BY <2>1, <2>2
<1>3. QED BY <1>1, <1>2

(* What may be believed of a charge stays so, unless it is begun.          *)
LEMMA BelievableKept ==
  ASSUME NEW c \in Charges, bank' = bank, paid \subseteq paid',
         paid' \subseteq paid \union {terminal},
         c \in sent' => c \in sent, terminal' = c => terminal = c \/ c \in sent
  PROVE  Believable(c) \subseteq Believable(c)'
<1>1. /\ Says("approved")' = Says("approved") /\ Says("declined")' = Says("declined")
      /\ Says("cancelled")' = Says("cancelled") /\ Says("reversed")' = Says("reversed")
      /\ Garbled' = Garbled /\ Shapeless' = Shapeless
  BY DEF Says, Answer, Garbled, Shapeless
<1>2. QED BY <1>1 DEF Believable

-----------------------------------------------------------------------------
(* An operation is answered, or was given up: the terminal does nothing.   *)
LEMMA AnswersStep ==
  ASSUME BankInv, NEW o \in Operations, NEW what,
         Told(o, what) \/ UNCHANGED << told, caller >>,
         Told(o, what) /\ o \in Charges => TrueOf(o, what),
         UNCHANGED << bank, wire, sent, terminal, paid, mail >>, thread' \subseteq thread
  PROVE  ShapeInv' /\ NewInv' /\ OnceInv' /\ MailInv' /\ AnswerIsOwn'
<1>0. ShapeInv /\ NewInv /\ OnceInv /\ MailInv /\ AnswerIsOwn BY DEF BankInv
<1>1. ShapeInv' BY <1>0 DEF ShapeInv, Told
<1>2. ASSUME NEW c \in Charges
      PROVE  \/ told'[c] = told[c] /\ caller'[c] = caller[c]
             \/ TrueOf(c, told'[c]) /\ caller'[c] = "done"
  <2>1. c \in Operations BY Names
  <2>2. CASE c = o /\ Told(o, what)
    <3>1. TrueOf(c, what) BY <2>2
    <3>2. told'[c] = what BY <1>0, <2>1, <2>2 DEF ShapeInv, Told
    <3>3. caller'[c] = "done" BY <1>0, <2>1, <2>2, <3>1 DEF ShapeInv, Told, TrueOf
    <3>4. QED BY <3>1, <3>2, <3>3
  <2>3. CASE c # o /\ Told(o, what) BY <1>0, <2>1, <2>3 DEF ShapeInv, Told
  <2>4. QED BY <2>2, <2>3
<1>3. NewInv' BY <1>0, <1>2 DEF NewInv
<1>4. OnceInv' BY <1>0 DEF OnceInv
<1>5. MailInv' BY <1>0, BelievableKept DEF MailInv
<1>6. AnswerIsOwn' BY <1>0, <1>2 DEF AnswerIsOwn, TrueOf
<1>7. QED BY <1>1, <1>3, <1>4, <1>5, <1>6

(* An operation is begun.                                                  *)
LEMMA BeginsStep ==
  ASSUME BankInv, NEW o \in Operations, MayBegin(o), Waits(o),
         UNCHANGED << bank, wire, told, terminal, paid >>, thread' \subseteq thread \union {o},
         mail' = mail \/ mail' = [mail EXCEPT ![o] = NoOp]
  PROVE  ShapeInv' /\ NewInv' /\ OnceInv' /\ MailInv' /\ AnswerIsOwn'
<1>0. ShapeInv /\ NewInv /\ OnceInv /\ MailInv /\ AnswerIsOwn BY DEF BankInv
<1>1. ShapeInv' BY <1>0 DEF ShapeInv, Waits
<1>2. caller[o] = "new" /\ sent' = sent \union {o} /\ caller' = [caller EXCEPT ![o] = "waits"]
  BY DEF MayBegin, Waits
<1>3. \A c \in Charges : c \in Operations BY Names
<1>4. ASSUME NEW c \in Charges, c # o
      PROVE  caller'[c] = caller[c] /\ mail'[c] = mail[c]
  BY <1>0, <1>2, <1>3, <1>4 DEF ShapeInv
<1>5. o \in Charges => caller'[o] = "waits" /\ mail'[o] = NoOp
  BY <1>0, <1>2 DEF ShapeInv, NewInv
<1>6. o \in Charges => told[o] = "nothing" /\ o \notin paid /\ terminal # o
  BY <1>0, <1>2 DEF NewInv
<1>7. NewInv' BY <1>0, <1>2, <1>4, <1>5 DEF NewInv
<1>8. OnceInv' BY <1>0, <1>2, <1>6 DEF OnceInv
<1>9. MailInv' BY <1>0, <1>2, <1>4, <1>5, BelievableKept DEF MailInv
<1>10. AnswerIsOwn' BY <1>0, <1>2, <1>6 DEF AnswerIsOwn
<1>11. QED BY <1>1, <1>7, <1>8, <1>9, <1>10

(* The terminal takes a request, or ends what it works on.                 *)
LEMMA TerminalStep ==
  ASSUME BankInv, NEW o \in Operations, Takes(o) \/ (Ends /\ o = terminal)
  PROVE  /\ ShapeInv' /\ NewInv' /\ OnceInv' /\ MailInv' /\ AnswerIsOwn'
         /\ \A c \in Charges : Believable(c) \subseteq Believable(c)'
         /\ UNCHANGED << wire, thread >>
         /\ sent' \subseteq sent
         /\ \/ /\ o \in sent /\ terminal = NoOp /\ terminal' = o /\ o \in Charges
               /\ line' = line /\ sent' = sent \ {o}
            \/ /\ o \in sent /\ sent' = sent \ {o} /\ terminal' = terminal
               /\ o \in Charges => terminal # NoOp
               /\ line' = line \/ \E m : line' = Append(line, m)
            \/ /\ terminal # NoOp /\ o = terminal /\ terminal' = NoOp
               /\ line' = line \/ \E m \in Believable(o)' : line' = Append(line, m)
<1>0. ShapeInv /\ NewInv /\ OnceInv /\ MailInv /\ AnswerIsOwn BY DEF BankInv
<1>n. \A c \in Charges : c \in Operations BY Names
<1>u. UNCHANGED << bank, wire, caller, told >>
  BY DEF Takes, Ends, registration
<1> DEFINE Kept == \A c \in Charges : Believable(c) \subseteq Believable(c)'
           Heard == \A c \in Charges : mail'[c] # mail[c] => mail'[c] \in Believable(c)'
<1>k. ASSUME /\ paid \subseteq paid' /\ paid' \subseteq paid \union {terminal}
             /\ sent' \subseteq sent
             /\ \A c \in Charges : terminal' = c => terminal = c \/ c \in sent
      PROVE  Kept
  BY <1>k, <1>u, BelievableKept
<1>a. ASSUME Kept, Heard,
             \A c \in Charges : caller[c] = "new" => mail'[c] = NoOp,
             DOMAIN mail' = Operations, thread' = thread, sent' \subseteq sent,
             terminal' \in Charges \union {NoOp},
             paid \subseteq paid', \A c \in Charges : c \in paid' => c \in paid \/ terminal = c,
             \A c \in Charges : terminal' = c => c \in sent \/ terminal = c
      PROVE  ShapeInv' /\ NewInv' /\ MailInv' /\ AnswerIsOwn'
  <2>1. ShapeInv' BY <1>0, <1>u, <1>a DEF ShapeInv
  <2>2. NewInv' BY <1>0, <1>u, <1>a DEF NewInv
  <2>3. MailInv' BY <1>0, <1>a DEF MailInv
  <2>4. AnswerIsOwn' BY <1>0, <1>u, <1>a DEF AnswerIsOwn
  <2>5. QED BY <2>1, <2>2, <2>3, <2>4
<1>s. ASSUME NEW said, Sends(o, said)
      PROVE  /\ thread' = thread /\ DOMAIN mail' = Operations
             /\ \A c \in Charges : c # o => mail'[c] = mail[c]
             /\ mail'[o] = mail[o] \/ mail'[o] \in said \union {Garbled, Shapeless}
             /\ line' = line \/ \E m \in said \union {Garbled, Shapeless} : line' = Append(line, m)
  <2>1. PICK m \in said \union {Garbled, Shapeless} :
           \/ wire = "tcp" /\ mail' = [mail EXCEPT ![o] = m] /\ UNCHANGED << conn, com >>
           \/ wire = "com" /\ thread # {} /\ line' = Append(line, m) /\ UNCHANGED << tcp, thread >>
           \/ UNCHANGED << tcp, com >>
    BY <1>s DEF Sends
  <2>2. \/ mail' = [mail EXCEPT ![o] = m] /\ UNCHANGED << thread, line >>
        \/ line' = Append(line, m) /\ UNCHANGED << mail, thread >>
        \/ UNCHANGED << mail, thread, line >>
    BY <2>1 DEF tcp, com
  <2>3. QED BY <1>0, <1>n, <2>2 DEF ShapeInv
<1>1. CASE Takes(o)
  <2>1. o \in sent /\ sent' = sent \ {o} /\ paid' = paid BY <1>1 DEF Takes
  <2>2. CASE o \in Charges /\ terminal = NoOp
    <3>1. terminal' = o /\ UNCHANGED << mail, thread, line >> BY <1>1, <2>2 DEF Takes, tcp, com
    <3>2. Kept BY <1>k, <2>1, <3>1
    <3>3. ShapeInv' /\ NewInv' /\ MailInv' /\ AnswerIsOwn'
      BY <1>0, <1>a, <2>1, <2>2, <3>1, <3>2 DEF ShapeInv, NewInv
    <3>4. OnceInv' BY <1>0, <2>1, <2>2, <3>1 DEF OnceInv
    <3>5. QED BY <1>u, <2>1, <2>2, <3>1, <3>2, <3>3, <3>4
  <2>3. CASE ~(o \in Charges /\ terminal = NoOp)
    <3> DEFINE said == IF o \in Charges THEN Says("declined") ELSE Reply(o)
    <3>1. terminal' = terminal /\ Sends(o, said) BY <1>1, <2>3 DEF Takes
    <3>2. Kept BY <1>k, <2>1, <3>1
    <3>3. OnceInv' BY <1>0, <2>1, <3>1 DEF OnceInv
    <3>4. ASSUME o \in Charges PROVE Says("declined") \union {Garbled, Shapeless} \subseteq Believable(o)'
      <4>1. o \notin paid' /\ o \notin sent' /\ terminal' # o BY <1>0, <2>1, <3>1, <3>4 DEF OnceInv
      <4>2. Says("declined")' = Says("declined") /\ Garbled' = Garbled /\ Shapeless' = Shapeless
        BY <1>u DEF Says, Answer, Garbled, Shapeless
      <4>3. QED BY <4>1, <4>2 DEF Believable
    <3>5. Heard BY <1>s, <3>1, <3>4
    <3>6. \A c \in Charges : caller[c] = "new" => mail'[c] = NoOp
      BY <1>0, <1>s, <2>1, <3>1 DEF NewInv
    <3>7. ShapeInv' /\ NewInv' /\ MailInv' /\ AnswerIsOwn'
      BY <1>0, <1>a, <1>s, <2>1, <3>1, <3>2, <3>5, <3>6 DEF ShapeInv
    <3>8. line' = line \/ \E m : line' = Append(line, m) BY <1>s, <3>1
    <3>9. thread' = thread BY <1>s, <3>1
    <3> HIDE DEF said
    <3>10. QED BY <1>u, <2>1, <2>3, <3>1, <3>2, <3>3, <3>7, <3>8, <3>9
  <2>4. QED BY <2>2, <2>3
<1>2. CASE Ends /\ o = terminal
  <2>1. /\ terminal # NoOp /\ terminal' = NoOp /\ sent' = sent /\ o = terminal
    BY <1>2 DEF Ends
  <2>2. PICK outcome \in Outcomes :
          /\ paid' = IF outcome = "approved" THEN paid \union {o} ELSE paid
          /\ Sends(o, Says(outcome))
    BY <1>2 DEF Ends
  <2>3. o \in Charges /\ o \notin sent /\ o \notin paid BY <1>0, <2>1 DEF ShapeInv, OnceInv
  <2>4. Kept BY <1>k, <2>1, <2>2, Names
  <2>5. OnceInv' BY <1>0, <2>1, <2>2, Names DEF OnceInv
  <2>6. Says(outcome) \union {Garbled, Shapeless} \subseteq Believable(o)'
    <3>1. /\ Says("approved")' = Says("approved") /\ Says("declined")' = Says("declined")
          /\ Says("cancelled")' = Says("cancelled") /\ Says("reversed")' = Says("reversed")
          /\ Garbled' = Garbled /\ Shapeless' = Shapeless
      BY <1>u DEF Says, Answer, Garbled, Shapeless
    <3>2. CASE outcome = "approved" BY <2>2, <3>1, <3>2 DEF Believable
    <3>3. CASE outcome # "approved"
      <4>1. o \notin paid' /\ o \notin sent' /\ terminal' # o BY <2>1, <2>2, <2>3, <3>3, Names
      <4>2. outcome \in {"declined", "cancelled", "reversed"} BY <3>3 DEF Outcomes
      <4>3. QED BY <3>1, <4>1, <4>2 DEF Believable
    <3>4. QED BY <3>2, <3>3
  <2>7. Heard BY <1>s, <2>2, <2>6
  <2>8. \A c \in Charges : caller[c] = "new" => mail'[c] = NoOp
    BY <1>0, <1>s, <2>1, <2>2 DEF NewInv
  <2>9. ShapeInv' /\ NewInv' /\ MailInv' /\ AnswerIsOwn'
    BY <1>0, <1>a, <1>s, <2>1, <2>2, <2>4, <2>7, <2>8, Names DEF ShapeInv
  <2>10. line' = line \/ \E m \in Believable(o)' : line' = Append(line, m) BY <1>s, <2>2, <2>6
  <2>11. thread' = thread BY <1>s, <2>2
  <2>12. QED BY <1>u, <2>1, <2>4, <2>5, <2>9, <2>10, <2>11
<1>3. QED BY <1>1, <1>2

-----------------------------------------------------------------------------
(* On a COM port, the terminal speaks only to the thread that is there.    *)
LEMMA PortSpoken ==
  ASSUME BankInv, NEW o \in Operations, Takes(o) \/ (Ends /\ o = terminal)
  PROVE  PortInv'
<1>0. PortInv /\ OnceInv /\ ShapeInv BY DEF BankInv
<1>1. /\ \A c \in Charges : Believable(c) \subseteq Believable(c)'
      /\ UNCHANGED << wire, thread >> /\ sent' \subseteq sent
      /\ \/ /\ o \in sent /\ terminal = NoOp /\ terminal' = o /\ o \in Charges
            /\ line' = line /\ sent' = sent \ {o}
         \/ /\ o \in sent /\ sent' = sent \ {o} /\ terminal' = terminal
            /\ o \in Charges => terminal # NoOp
            /\ line' = line \/ \E m : line' = Append(line, m)
         \/ /\ terminal # NoOp /\ o = terminal /\ terminal' = NoOp
            /\ line' = line \/ \E m \in Believable(o)' : line' = Append(line, m)
  BY TerminalStep
<1>2. CASE wire = "tcp" BY <1>0, <1>1, <1>2 DEF PortInv
<1>3. CASE wire = "com"
  <2>1. o \in thread /\ thread = {o} /\ sent \subseteq {o} /\ line = << >>
    BY <1>0, <1>1, <1>3 DEF PortInv
  <2>2. terminal \in {o, NoOp} /\ terminal' \in {o, NoOp}
    BY <1>0, <1>1, <1>3, <2>1 DEF PortInv
  <2>3. CASE o \in sent /\ terminal = NoOp /\ terminal' = o /\ o \in Charges /\ line' = line
    BY <1>1, <1>3, <2>1, <2>3 DEF PortInv
  <2>4. CASE /\ o \in sent /\ sent' = sent \ {o} /\ terminal' = terminal
             /\ o \in Charges => terminal # NoOp
             /\ line' = line \/ \E m : line' = Append(line, m)
    <3>1. o \notin Charges /\ terminal' = NoOp
      BY <1>0, <2>2, <2>4, Names DEF OnceInv, ShapeInv
    <3>2. sent' = {} /\ thread' = {o} BY <1>1, <2>1, <2>4
    <3>3. line' = << >> \/ \E m : line' = << m >> BY <2>1, <2>4, OneAnswer
    <3>4. QED BY <1>1, <1>3, <3>1, <3>2, <3>3 DEF PortInv
  <2>5. CASE /\ terminal # NoOp /\ o = terminal /\ terminal' = NoOp
             /\ line' = line \/ \E m \in Believable(o)' : line' = Append(line, m)
    <3>1. sent' = {} /\ thread' = {o}
      BY <1>0, <1>1, <2>1, <2>5 DEF OnceInv, ShapeInv
    <3>2. line' = << >> \/ \E m \in Believable(o)' : line' = << m >> BY <2>1, <2>5, OneAnswer
    <3>3. CASE line' = << >> BY <1>1, <1>3, <2>5, <3>1, <3>3 DEF PortInv
    <3>4. CASE \E m \in Believable(o)' : line' = << m >>
      BY <1>1, <1>3, <2>5, <3>1, <3>4 DEF PortInv
    <3>5. QED BY <3>2, <3>3, <3>4
  <2>6. QED BY <1>1, <2>3, <2>4, <2>5
<1>4. QED BY <1>0, <1>2, <1>3 DEF ShapeInv

(* What is on the line stays to be believed when nothing is begun.         *)
LEMMA PortKept ==
  ASSUME BankInv,
         UNCHANGED << bank, wire, sent, terminal, paid, line >>, thread' \subseteq thread,
         \A o \in thread \ thread' : wire = "com" => o \notin sent /\ terminal # o
  PROVE  PortInv'
<1>1. \A c \in Charges : Believable(c) \subseteq Believable(c)' BY BelievableKept
<1>2. QED BY <1>1 DEF BankInv, PortInv

(* Every step, by whom it is made.                                         *)
LEMMA BankStep ==
  ASSUME Sane, BankInv, [Next]_vars
  PROVE  Sane' /\ BankInv'
<1>0. ShapeInv /\ NewInv /\ OnceInv /\ MailInv /\ PortInv /\ AnswerIsOwn BY DEF BankInv
<1>w. Sane' /\ UNCHANGED << bank, wire >>
  <2>1. UNCHANGED registration
    BY DEF Next, vars, CannotRefund, Connects, Unreachable, OpensPort, ReadsConnection, ReadsPort,
       ConnectionEnds, PortSilent, Abandons, Takes, Ends
  <2>2. QED BY <2>1 DEF registration, Sane
<1>f. \A o \in Charges : TrueOf(o, "failed") /\ TrueOf(o, "unknown") BY DEF TrueOf
<1>t. \A o \in Charges : Failure(o) = "failed" BY DEF Failure
<1>1. ASSUME NEW o \in Operations, CannotRefund(o) PROVE BankInv'
  <2>1. /\ Told(o, "failed")
        /\ UNCHANGED << bank, wire, sent, terminal, paid, mail, thread, line >>
    BY <1>1 DEF CannotRefund, registration, pos, tcp, com
  <2>2. QED BY <1>f, <2>1, AnswersStep, PortKept DEF BankInv
<1>2. ASSUME NEW o \in Operations, Unreachable(o) PROVE BankInv'
  <2>1. /\ Told(o, Failure(o))
        /\ UNCHANGED << bank, wire, sent, terminal, paid, mail, thread, line >>
    BY <1>2 DEF Unreachable, registration, pos, tcp, com
  <2>2. QED BY <1>f, <1>t, <2>1, AnswersStep, PortKept DEF BankInv
<1>3. ASSUME NEW o \in Operations, Connects(o) PROVE BankInv'
  <2>1. /\ wire = "tcp" /\ MayBegin(o) /\ Waits(o) /\ mail' = [mail EXCEPT ![o] = NoOp]
        /\ UNCHANGED << bank, wire, told, terminal, paid, thread >>
    BY <1>3 DEF Connects, registration, pos, com
  <2>2. PortInv' BY <1>0, <2>1 DEF PortInv
  <2>3. QED BY <2>1, <2>2, BeginsStep DEF BankInv
<1>4. ASSUME NEW o \in Operations, OpensPort(o) PROVE BankInv'
  <2>1. /\ wire = "com" /\ MayBegin(o) /\ Waits(o) /\ line' = << >> /\ thread' = thread \union {o}
        /\ UNCHANGED << bank, wire, told, terminal, paid, mail >>
        /\ Exclusive => thread = {}
    BY <1>4 DEF OpensPort, registration, pos, tcp
  <2>2. thread = {} BY <2>1 DEF Sane
  <2>3. sent' = sent \union {o} BY <2>1 DEF Waits
  <2>4. PortInv' BY <1>0, <2>1, <2>2, <2>3 DEF PortInv
  <2>5. QED BY <2>1, <2>4, BeginsStep DEF BankInv
<1>5. ASSUME NEW o \in Operations, ReadsConnection(o) PROVE BankInv'
  <2>1. /\ mail[o] # NoOp /\ Answers(o, Result(o, mail[o]))
        /\ UNCHANGED << bank, wire, sent, terminal, paid, mail, thread, line >>
    BY <1>5 DEF ReadsConnection, registration, pos, com
  <2>2. o \in Charges => TrueOf(o, Result(o, mail[o]))
    BY <1>0, <2>1, BelievedIsTrue DEF ShapeInv, MailInv
  <2>3. QED BY <2>1, <2>2, AnswersStep, PortKept DEF BankInv, Answers
<1>6. ASSUME NEW o \in Operations, ReadsPort(o) PROVE BankInv'
  <2>1. /\ o \in thread /\ line # << >> /\ Answers(o, Result(o, Head(line)))
        /\ thread' = thread \ {o} /\ line' = Tail(line)
        /\ UNCHANGED << bank, wire, sent, terminal, paid, mail >>
    BY <1>6 DEF ReadsPort, registration, pos, tcp
  <2>2. wire = "com" BY <1>0, <2>1 DEF PortInv, ShapeInv
  <2>3. PICK m : line = << m >> /\ \A c \in thread \intersect Charges : m \in Believable(c)
    BY <1>0, <2>1, <2>2 DEF PortInv
  <2>4. Head(line) = m /\ line' = << >> BY <2>1, <2>3, OneAnswer
  <2>5. o \in Charges => TrueOf(o, Result(o, Head(line)))
    BY <1>0, <2>1, <2>3, <2>4, BelievedIsTrue DEF ShapeInv
  <2>6. PortInv'
    <3>1. sent = {} /\ terminal = NoOp BY <1>0, <2>1, <2>2 DEF PortInv
    <3>2. QED BY <1>0, <2>1, <2>2, <2>4, <3>1 DEF PortInv
  <2>7. QED BY <2>1, <2>5, <2>6, AnswersStep DEF BankInv, Answers
<1>7. ASSUME NEW o \in Operations, ConnectionEnds(o) PROVE BankInv'
  <2>1. /\ Answers(o, Failure(o))
        /\ UNCHANGED << bank, wire, sent, terminal, paid, mail, thread, line >>
    BY <1>7 DEF ConnectionEnds, registration, pos, com
  <2>2. QED BY <1>f, <1>t, <2>1, AnswersStep, PortKept DEF BankInv, Answers
<1>8. ASSUME NEW o \in Operations, PortSilent(o) PROVE BankInv'
  <2>1. /\ Answers(o, Failure(o)) /\ Silent(o) /\ thread' = thread \ {o}
        /\ UNCHANGED << bank, wire, sent, terminal, paid, mail, line >>
    BY <1>8 DEF PortSilent, registration, pos, tcp
  <2>2. wire = "com" => o \notin sent /\ terminal # o BY <2>1 DEF Sane, Silent
  <2>3. PortInv' BY <2>1, <2>2, PortKept
  <2>4. QED BY <1>f, <1>t, <2>1, <2>3, AnswersStep DEF BankInv, Answers
<1>9. ASSUME NEW o \in Operations, Abandons(o) PROVE BankInv'
  <2>1. PICK what \in {"unknown", "failed"} : Told(o, what) BY <1>9 DEF Abandons
  <2>2. UNCHANGED << bank, wire, sent, terminal, paid, mail, thread, line >>
    BY <1>9 DEF Abandons, registration, pos, com
  <2>3. QED BY <1>f, <2>1, <2>2, AnswersStep, PortKept DEF BankInv
<1>10. ASSUME NEW o \in Operations, Takes(o) PROVE BankInv'
  BY <1>10, TerminalStep, PortSpoken DEF BankInv
<1>11. CASE Ends
  <2>1. terminal \in Operations BY <1>0, <1>11, Names DEF Ends, ShapeInv
  <2>2. PICK o \in Operations : o = terminal BY <2>1
  <2>3. QED BY <1>w, <1>11, <2>2, TerminalStep, PortSpoken DEF BankInv
<1>12. CASE UNCHANGED vars
  <2>1. UNCHANGED << bank, wire, caller, told, sent, terminal, paid, mail, thread, line >>
    BY <1>12 DEF vars, registration, pos, tcp, com
  <2>2. MailInv' BY <1>0, <2>1, BelievableKept DEF MailInv
  <2>3. PortInv' BY <2>1, PortKept
  <2>4. ShapeInv' /\ NewInv' /\ OnceInv' /\ AnswerIsOwn'
    BY <1>0, <2>1 DEF ShapeInv, NewInv, OnceInv, AnswerIsOwn
  <2>5. QED BY <1>w, <2>2, <2>3, <2>4 DEF BankInv
<1>13. QED
  BY <1>w, <1>1, <1>2, <1>3, <1>4, <1>5, <1>6, <1>7, <1>8, <1>9, <1>10, <1>11, <1>12 DEF Next

(* Nothing has been said or sent at the start.                             *)
LEMMA BankInit == Init => BankInv
<1> SUFFICES ASSUME Init PROVE BankInv OBVIOUS
<1>1. ShapeInv BY DEF Init, ShapeInv, Banks
<1>2. NewInv /\ MailInv BY Names DEF Init, NewInv, MailInv
<1>3. OnceInv /\ PortInv /\ AnswerIsOwn BY Names DEF Init, OnceInv, PortInv, AnswerIsOwn, Operations
<1>4. QED BY <1>1, <1>2, <1>3 DEF BankInv

(* What a charge is answered with is the truth about it, on any wire, when *)
(* one thread at a time has the COM port open and no terminal speaks after *)
(* it was given up.                                                        *)
THEOREM AnswersAreOwn == Exclusive /\ ~Late => (Spec => []AnswerIsOwn)
<1>1. Exclusive /\ ~Late /\ Init => Sane /\ BankInv BY BankInit DEF Sane
<1>2. Sane /\ BankInv /\ [Next]_vars => (Sane /\ BankInv)' BY BankStep
<1>3. BankInv => AnswerIsOwn BY DEF BankInv
<1>4. CASE Exclusive /\ ~Late BY <1>1, <1>2, <1>3, <1>4, PTL DEF Spec
<1>5. QED BY <1>4

(* Over TCP it is the truth whenever a terminal answers, and however many  *)
(* operations run: each has a connection of its own.                       *)
THEOREM AnswersOverTcp == Spec => [](wire = "tcp" => AnswerIsOwn)
<1>1. Init => (Sane => BankInv) BY BankInit
<1>2. (Sane => BankInv) /\ [Next]_vars => (Sane => BankInv)'
  <2>1. [Next]_vars /\ Sane' => Sane
    <3>1. [Next]_vars => UNCHANGED registration
      BY DEF Next, vars, CannotRefund, Connects, Unreachable, OpensPort, ReadsConnection,
         ReadsPort, ConnectionEnds, PortSilent, Abandons, Takes, Ends
    <3>2. QED BY <3>1 DEF registration, Sane
  <2>2. QED BY <2>1, BankStep
<1>3. (Sane => BankInv) => (wire = "tcp" => AnswerIsOwn) BY DEF Sane, BankInv
<1>4. QED BY <1>1, <1>2, <1>3, PTL DEF Spec
=============================================================================
