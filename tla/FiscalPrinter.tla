--------------------------- MODULE FiscalPrinter ---------------------------
(***************************************************************************)
(* The Italian fiscal printer (src/src/services/fiscal_it.py, the routes   *)
(* /fiscal/it of src/src/routes/fiscal_it.py, and the printer as its       *)
(* emulator, src/emulator/fiscal_epos.py, has it).  A request is turned    *)
(* into one document, posted by a thread of its own, carried out by the    *)
(* printer, and answered with what the printer says.                       *)
(*                                                                         *)
(* What a till sends is a number with as many places as it likes: here it  *)
(* is counted in thousandths.  What is posted is counted in cents.  The    *)
(* lines of goods are their sum.                                           *)
(***************************************************************************)
EXTENDS Integers, Sequences, FiniteSets, SequencesExt, TLC

CONSTANTS
  Documents,    (* requests to print a document                            *)
  Reports,      (* other requests: z, x, reprint, status                   *)
  Totals,       (* what the goods of a document may come to                *)
  Amounts,      (* what a tender of a till may be                          *)
  Upwards,      (* the amounts that are rounded up when they are half way: *)
                (* it is the binary fraction that decides                  *)
  Types         (* the types of payment a till may map its own key to      *)

ASSUME MoneyAssumption == Totals \subseteq Nat /\ Amounts \subseteq Nat /\ Types \subseteq Nat
ASSUME NamesAssumption == Documents \intersect Reports = {}

Requests == Documents \union Reports
Cash == 0
Card == 2

VARIABLES
  printer,      (* what is registered: "rt", "usb" (no address), "none"    *)
  want,         (* what a report asks for                                  *)
  phase,        (* where a request is                                      *)
  told,         (* what it was answered with                               *)
  id,           (* the identifier a document was answered with, and the    *)
                (* fields it was made of                                   *)
  posted,       (* what is on its way to the printer: the document, with   *)
                (* the price and the types of payment that the till meant  *)
  reply,        (* what the printer has answered                           *)
  zNumber, receiptNumber,  (* the printer's counters                       *)
  memory        (* what it has issued                                      *)

requests == << phase, told, id >>
wire == << posted, reply >>
fiscal == << zNumber, receiptNumber, memory >>
vars == << printer, want, requests, wire, fiscal >>

None == << >>

-----------------------------------------------------------------------------
(* Orders of a till.                                                       *)

Tender(key, amount) == [key |-> key, amount |-> amount]
Tenders == { Tender(k, a) : k \in {"cash", "card", "voucher"}, a \in Amounts }

(* The till's own map of its keys: a voucher may be known, or not.         *)
Maps == { [k \in {} |-> Cash] } \union [ {"voucher"} -> Types ]

(* The single `payment` of an old server, or the list of `payments`: an    *)
(* absent list and an empty one are the same.                              *)
Payments == [payment : Tenders, payments : {None}]
              \union { [payment |-> Head(ts), payments |-> ts] : ts \in BoundedSeq(Tenders, 2) \ {None} }

TendersOf(o) == IF o.payments = None THEN << o.payment >> ELSE o.payments

(* An entry of the map for a key that is not used makes no difference.     *)
Orders == { o \in { [total |-> t, map |-> m, payment |-> p.payment, payments |-> p.payments] :
                      t \in Totals, m \in Maps, p \in Payments } :
              DOMAIN o.map \subseteq { t.key : t \in ToSet(TendersOf(o)) } }

KnownType(t, map) ==
  IF t.key \in DOMAIN map THEN {map[t.key]}
  ELSE IF t.key \in {"cash", "card"} THEN {IF t.key = "card" THEN Card ELSE Cash} ELSE {}

(* A tender nobody knows is cash.                                          *)
Resolved(t, map) == IF KnownType(t, map) = {} THEN Cash ELSE CHOOSE y \in KnownType(t, map) : TRUE

(* Thousandths to the nearest multiple of a unit.                          *)
Nearest(n, unit) ==
  IF 2 * (n % unit) > unit \/ (2 * (n % unit) = unit /\ n \in Upwards)
    THEN n \div unit + 1 ELSE n \div unit

(* Thousandths to cents, and to cents that coins can make.                 *)
Cents(n) == Nearest(n, 10)
Round5(n) == 5 * Nearest(n, 50)

(* There are at most two of them.                                          *)
Sum(tenders) ==
  IF Len(tenders) = 2 THEN tenders[1].amount + tenders[2].amount ELSE tenders[1].amount

(* More than a cent apart.                                                 *)
Apart(m, n) == m > n + 1 \/ n > m + 1

(* What the till means by a tender: one type, or none that is known.       *)
Meant(t, map) ==
  IF t.key \in DOMAIN map THEN {map[t.key]}
  ELSE CASE t.key = "card" -> {Card} [] t.key = "cash" -> {Cash} [] OTHER -> {}

(* Faulty variant: only the sum of a split is looked at.                   *)
ProblemOfSum(o) ==
  IF Len(TendersOf(o)) > 1 /\ Apart(Cents(Sum(TendersOf(o))), Cents(o.total))
    THEN "payments_sum_mismatch" ELSE "none"

(* `validate_tenders`: only a split is checked, as it was sent.            *)
Problem(o) ==
  LET split == ToSet(TendersOf(o))
  IN IF Len(TendersOf(o)) < 2 THEN "none"
     ELSE IF \E t \in split : t.amount = 0 \/ KnownType(t, o.map) = {} THEN "bad_tender"
     ELSE IF Apart(Cents(Sum(TendersOf(o))), Cents(o.total)) THEN "payments_sum_mismatch"
     ELSE IF \E t \in split : Resolved(t, o.map) = Cash /\ Round5(t.amount) # Cents(t.amount)
       THEN "cash_not_rounded"
     ELSE "none"

Line(type, amount) == [type |-> type, amount |-> amount]

(* The document: a line for each tender, in cents.  Cash is rounded to     *)
(* what coins can make when it is all.                                     *)
Document(o) ==
  LET ts == TendersOf(o)
  IN [i \in 1..Len(ts) |->
        LET type == Resolved(ts[i], o.map)
        IN Line(type, IF type = Cash /\ Len(ts) = 1 THEN Round5(ts[i].amount)
                        ELSE Cents(ts[i].amount))]

(* What a till's order comes to: a document, or a refusal.                 *)
Prepared == { [price |-> Cents(o.total), lines |-> Document(o),
               meant |-> [i \in DOMAIN TendersOf(o) |-> Meant(TendersOf(o)[i], o.map)]]
              : o \in { o \in Orders : Problem(o) = "none" } }

Problems == { Problem(o) : o \in Orders } \ {"none"}

-----------------------------------------------------------------------------
Init ==
  /\ printer \in {"rt", "usb", "none"}
  /\ want \in [Reports -> {"z", "x", "reprint", "status"}]
  /\ phase = [r \in Requests |-> "new"] /\ told = [r \in Requests |-> "nothing"]
  /\ id = [r \in Requests |-> None]
  /\ posted = [r \in Requests |-> None] /\ reply = [r \in Requests |-> "none"]
  /\ zNumber = 0 /\ receiptNumber = 0
  /\ memory = {}

Says(r, what) == told' = [told EXCEPT ![r] = what] /\ phase' = [phase EXCEPT ![r] = "answered"]

(* `_resolve_rt_host`: 503 when nothing is registered, 404 for an id that  *)
(* is not, 422 when the printer has no address.                            *)
NotThere(r) ==
  /\ phase[r] = "new"
  /\ \/ printer = "none" /\ Says(r, "unregistered")
     \/ Says(r, "unknown")
     \/ printer = "usb" /\ Says(r, "no_address")
  /\ UNCHANGED << printer, want, id, wire, fiscal >>

Refuses(d) ==
  /\ printer = "rt" /\ phase[d] = "new" /\ \E what \in Problems : Says(d, what)
  /\ UNCHANGED << printer, want, id, wire, fiscal >>

Posts(r, what) ==
  /\ printer = "rt" /\ phase[r] = "new"
  /\ phase' = [phase EXCEPT ![r] = "waits"] /\ posted' = [posted EXCEPT ![r] = << what >>]
  /\ UNCHANGED << printer, want, told, id, reply, fiscal >>

PostsDocument(d) == \E document \in Prepared : Posts(d, document)

(* A document copy is asked for by its number alone.                       *)
PostsReport(r) == Posts(r, want[r])

-----------------------------------------------------------------------------
(* The answer.                                                             *)

(* The fields of an answer: the day (zRepNumber) and the number, each of   *)
(* which it may have or not.                                               *)
Fields(m) == [z : {<< m.z >>, << >>}, number : {<< m.number >>, << >>}]

(* Faulty variant: a receipt is known by its number.                       *)
NumberOnly(fields) == fields.number

(* `_extract_receipt_ids`: what there is of the two.                       *)
ReceiptId(fields) == fields.z \o fields.number

Answers(r) ==
  /\ phase[r] = "waits" /\ reply[r] # "none"
  /\ Says(r, reply[r])
  /\ IF r \in Documents /\ reply[r] = "ok"
       THEN \E m \in memory : /\ m.of = r
                              /\ \E fields \in Fields(m) :
                                   id' = [id EXCEPT ![r] = << ReceiptId(fields), fields >>]
       ELSE UNCHANGED id
  /\ UNCHANGED << printer, want, wire, fiscal >>

(* What comes back is not an answer of a fiscal printer.                   *)
AnswerIsSpoiled(r) ==
  /\ phase[r] = "waits" /\ reply[r] # "none" /\ Says(r, "bad_response")
  /\ UNCHANGED << printer, want, id, wire, fiscal >>

(* Faulty variant: a failed transport is an error of the printer.          *)
LostIsRefused(r) ==
  /\ phase[r] = "waits" /\ Says(r, "rt_error")
  /\ \E arrives \in BOOLEAN : posted' = [posted EXCEPT ![r] = IF arrives THEN @ ELSE None]
  /\ UNCHANGED << printer, want, id, reply, fiscal >>

(* No connection, or no answer in time: the document may have arrived.     *)
Unreachable(r) ==
  /\ phase[r] = "waits" /\ Says(r, "printer_unreachable")
  /\ \E arrives \in BOOLEAN : posted' = [posted EXCEPT ![r] = IF arrives THEN @ ELSE None]
  /\ UNCHANGED << printer, want, id, reply, fiscal >>

(* The till leaves; the thread goes on.                                    *)
Leaves(r) ==
  /\ phase[r] = "waits" /\ Says(r, "left")
  /\ UNCHANGED << printer, want, id, wire, fiscal >>

-----------------------------------------------------------------------------
(* The printer: one command at a time.                                     *)

Done(r, what) ==
  /\ posted[r] # None /\ posted' = [posted EXCEPT ![r] = None]
  /\ reply' = [reply EXCEPT ![r] = what]
  /\ UNCHANGED << printer, want, requests >>

RecordsSale(d) ==
  /\ Done(d, "ok")
  /\ receiptNumber' = receiptNumber + 1
  /\ memory' = memory \union { [of |-> d, z |-> zNumber, number |-> receiptNumber + 1] }
  /\ UNCHANGED zNumber

(* Error 17 before the first Z, a day that is too long, an open cover...   *)
Rejects(r) == Done(r, "rt_error") /\ UNCHANGED fiscal

RunsZ(r) ==
  /\ want[r] = "z" /\ Done(r, "ok")
  /\ zNumber' = zNumber + 1 /\ receiptNumber' = 0
  /\ UNCHANGED memory

(* A reading or a copy changes nothing.                                    *)
Reads(r) == want[r] \in {"x", "reprint", "status"} /\ Done(r, "ok") /\ UNCHANGED fiscal

-----------------------------------------------------------------------------
Next == \/ \E r \in Requests : \/ NotThere(r) \/ Answers(r) \/ AnswerIsSpoiled(r) \/ Unreachable(r)
                               \/ Leaves(r) \/ Rejects(r)
        \/ \E d \in Documents : RecordsSale(d) \/ Refuses(d) \/ PostsDocument(d)
        \/ \E r \in Reports : PostsReport(r) \/ RunsZ(r) \/ Reads(r)

Spec == Init /\ [][Next]_vars

-----------------------------------------------------------------------------
(* A document that was paid in parts says what was paid and how: a line for *)
(* each part, of the type the till meant, and cash that can be handed over *)
(* in coins.  Together they are the price but for two cents: the cent that *)
(* `validate_tenders` allows, and one for the rounding of each part after  *)
(* it, which can also make a part 0.00.  Otherwise the cash of the day     *)
(* differs from the Z (fiscal_it.py, BH-171).                              *)
SplitIsTrue ==
  \A d \in Documents : posted[d] # None =>
    LET document == posted[d][1]
        lines == document.lines
    IN Len(lines) > 1 =>
         /\ Sum(lines) \in document.price - 2 .. document.price + 2
         /\ \A i \in DOMAIN lines :
              /\ document.meant[i] = {lines[i].type}
              /\ lines[i].type = Cash => lines[i].amount % 5 = 0

(* A till that is refused may print again: nothing was issued, and nothing *)
(* is on its way.  (It may not after "printer_unreachable".)               *)
RefusedMeansNoReceipt ==
  \A d \in Documents :
    told[d] \in {"unregistered", "unknown", "no_address", "bad_tender", "payments_sum_mismatch",
                 "cash_not_rounded", "rt_error"}
      => posted[d] = None /\ \A m \in memory : m.of # d

(* A till finds its receipt again: of the receipts whose answers carried   *)
(* both the day and the number, no two, of any days, have one identifier.  *)
(* (Without the day the identifier is the number alone, which begins again *)
(* every day: "best-effort", says the code.)                               *)
Whole(fields) == fields.z # << >> /\ fields.number # << >>

ReceiptIdIsOwn ==
  \A d, e \in Documents :
    d # e /\ id[d] # None /\ id[e] # None /\ Whole(id[d][2]) /\ Whole(id[e][2]) => id[d][1] # id[e][1]

=============================================================================
