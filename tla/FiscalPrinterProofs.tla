------------------------ MODULE FiscalPrinterProofs ------------------------
(***************************************************************************)
(* What a till may rely on, for any requests and any goods: a document     *)
(* that was refused was not issued and will not be, the identifier made of *)
(* the day and the number of a receipt is that of no other one, and a      *)
(* payment in parts is posted as it was meant.                             *)
(***************************************************************************)
EXTENDS FiscalPrinter, SequenceTheorems, TLAPS

(* What is said of every request, and how the printer counts.              *)
ShapeInv ==
  /\ phase \in [Requests -> {"new", "waits", "answered"}]
  /\ reply \in [Requests -> {"none", "ok", "rt_error"}]
  /\ DOMAIN told = Requests /\ DOMAIN id = Requests /\ DOMAIN posted = Requests
  /\ zNumber \in Nat /\ receiptNumber \in Nat
  /\ memory \subseteq [of : Documents, z : Nat, number : Nat]

Refusal == {"unregistered", "unknown", "no_address", "bad_tender", "payments_sum_mismatch",
            "cash_not_rounded", "rt_error"}

Issued(d) == \E m \in memory : m.of = d

(* No document is issued before its request has been posted, nor while it  *)
(* is on its way, nor if the printer rejects it.                           *)
WayInv == \A d \in Documents :
  /\ phase[d] # "answered" => told[d] = "nothing"
  /\ phase[d] = "new" => posted[d] = None /\ reply[d] = "none" /\ ~Issued(d)
  /\ posted[d] # None => reply[d] = "none" /\ ~Issued(d)
  /\ reply[d] = "rt_error" => posted[d] = None /\ ~Issued(d)
  /\ told[d] \in Refusal => posted[d] = None /\ ~Issued(d)

(* The counters stand above everything issued; a document is issued once,  *)
(* and no two are under one number of one day.                             *)
MemoryInv ==
  /\ \A m \in memory : m.z <= zNumber /\ (m.z = zNumber => m.number <= receiptNumber)
  /\ \A m, n \in memory : m.z = n.z /\ m.number = n.number => m.of = n.of

(* An identifier that was given out was made of fields of a receipt in the *)
(* memory of the printer.                                                  *)
IdInv == \A d \in Documents :
  id[d] # None => \E m \in memory : m.of = d /\ \E fields \in Fields(m) :
                                     id[d] = << ReceiptId(fields), fields >>

FiscalInv == ShapeInv /\ WayInv /\ MemoryInv /\ IdInv

(* Two pairs are equal in both places.                                     *)
LEMMA PairsEqual ==
  ASSUME NEW a, NEW b, NEW c, NEW d, << a, b >> = << c, d >>
  PROVE  a = c /\ b = d
OBVIOUS

(* One value after another makes the pair of them.                         *)
LEMMA PairOfTwo ==
  ASSUME NEW a, NEW b
  PROVE  << a >> \o << b >> = << a, b >>
<1> DEFINE s == << a >> \o << b >>
           p == << a, b >>
<1>1. << a >> \in Seq({a, b}) /\ << b >> \in Seq({a, b}) /\ p \in Seq({a, b}) OBVIOUS
<1>2. Len(<< a >>) = 1 /\ Len(<< b >>) = 1 /\ Len(p) = 2 OBVIOUS
<1>3. s \in Seq({a, b}) /\ Len(s) = 2 /\ s[1] = a /\ s[2] = b
  <2>1. /\ s \in Seq({a, b}) /\ Len(s) = 1 + 1
        /\ \A i \in 1 .. 1 + 1 : s[i] = IF i <= 1 THEN << a >>[i] ELSE << b >>[i - 1]
    BY <1>1, <1>2, ConcatProperties
  <2>2. s[1] = << a >>[1] /\ s[2] = << b >>[1] BY <2>1
  <2>3. QED BY <2>1, <2>2
<1>4. p[1] = a /\ p[2] = b OBVIOUS
<1>5. s = p
  <2>1. Len(s) = Len(p) BY <1>2, <1>3
  <2>2. \A i \in 1 .. Len(s) : s[i] = p[i]
    <3>1. \A i \in 1 .. Len(s) : i = 1 \/ i = 2 BY <1>3
    <3>2. QED BY <1>3, <1>4, <3>1
  <2> HIDE DEF s, p
  <2>3. QED BY <1>1, <1>3, <2>1, <2>2, SeqEqual
<1>6. QED BY <1>5

(* The identifier of an answer with both fields is the pair of them.       *)
LEMMA WholeIdentifier ==
  ASSUME NEW m, NEW fields \in Fields(m), NEW pair, pair = << ReceiptId(fields), fields >>,
         Whole(pair[2])
  PROVE  pair[1] = << m.z, m.number >>
<1>1. pair[1] = ReceiptId(fields) /\ pair[2] = fields OBVIOUS
<1>2. fields.z = << m.z >> /\ fields.number = << m.number >> BY <1>1 DEF Whole, Fields
<1>3. << m.z >> \o << m.number >> = << m.z, m.number >> BY PairOfTwo
<1>4. QED BY <1>1, <1>2, <1>3 DEF ReceiptId

(* Nothing has been issued at the start.                                   *)
LEMMA FiscalInit == Init => FiscalInv
BY DEF Init, FiscalInv, ShapeInv, WayInv, MemoryInv, IdInv, Issued, Refusal, Requests, None

(* Saying something to a request that is not answered yet.                 *)
LEMMA SaysStep ==
  ASSUME FiscalInv, NEW r \in Requests, NEW what, Says(r, what),
         phase[r] \in {"new", "waits"},
         what \in Refusal => posted'[r] = None /\ ~Issued(r),
         DOMAIN posted' = Requests,
         \A d \in Requests : posted'[d] \in {posted[d], None},
         UNCHANGED << id, reply, fiscal >>
  PROVE  FiscalInv'
<1>1. ShapeInv' BY DEF FiscalInv, ShapeInv, Says, fiscal
<1>2. WayInv'
  <2>1. SUFFICES ASSUME NEW d \in Documents
                 PROVE  /\ phase'[d] # "answered" => told'[d] = "nothing"
                        /\ phase'[d] = "new" => posted'[d] = None /\ reply[d] = "none" /\ ~Issued(d)
                        /\ posted'[d] # None => reply[d] = "none" /\ ~Issued(d)
                        /\ reply[d] = "rt_error" => posted'[d] = None /\ ~Issued(d)
                        /\ told'[d] \in Refusal => posted'[d] = None /\ ~Issued(d)
    BY DEF WayInv, Issued, fiscal
  <2>2. d \in Requests /\ posted'[d] \in {posted[d], None} BY DEF Requests
  <2>3. CASE d = r
    BY <2>2, <2>3 DEF FiscalInv, ShapeInv, WayInv, Says
  <2>4. CASE d # r
    <3>1. phase'[d] = phase[d] /\ told'[d] = told[d]
      BY <2>2, <2>4 DEF FiscalInv, ShapeInv, Says
    <3>2. QED BY <2>2, <3>1 DEF FiscalInv, WayInv
  <2>5. QED BY <2>3, <2>4
<1>3. MemoryInv' /\ IdInv' BY DEF FiscalInv, MemoryInv, IdInv, fiscal
<1>4. QED BY <1>1, <1>2, <1>3 DEF FiscalInv

(* The answer of the printer, with the identifier of the receipt.          *)
LEMMA AnswerStep ==
  ASSUME FiscalInv, NEW r \in Requests, Answers(r)
  PROVE  FiscalInv'
<1>0. ShapeInv /\ WayInv /\ MemoryInv /\ IdInv BY DEF FiscalInv
<1>1. /\ phase[r] = "waits" /\ reply[r] \in {"ok", "rt_error"} /\ Says(r, reply[r])
      /\ UNCHANGED << posted, reply, zNumber, receiptNumber, memory >>
  BY <1>0 DEF Answers, ShapeInv, wire, fiscal
<1>2. DOMAIN id' = Requests BY <1>0 DEF Answers, ShapeInv
<1>3. ShapeInv' BY <1>0, <1>1, <1>2 DEF ShapeInv, Says
<1>4. WayInv'
  <2>1. SUFFICES ASSUME NEW d \in Documents
                 PROVE  /\ phase'[d] # "answered" => told'[d] = "nothing"
                        /\ phase'[d] = "new" => posted[d] = None /\ reply[d] = "none" /\ ~Issued(d)
                        /\ told'[d] \in Refusal => posted[d] = None /\ ~Issued(d)
    BY <1>0, <1>1 DEF WayInv, Issued
  <2>2. d \in Requests BY DEF Requests
  <2>3. CASE d = r BY <1>0, <1>1, <2>2, <2>3 DEF ShapeInv, WayInv, Says, Refusal
  <2>4. CASE d # r BY <1>0, <1>1, <2>2, <2>4 DEF ShapeInv, WayInv, Says
  <2>5. QED BY <2>3, <2>4
<1>5. MemoryInv' BY <1>0, <1>1 DEF MemoryInv
<1>6. IdInv'
  <2>1. CASE UNCHANGED id BY <1>0, <1>1, <2>1 DEF IdInv
  <2>2. CASE \E m \in memory : m.of = r /\ \E fields \in Fields(m) :
               id' = [id EXCEPT ![r] = << ReceiptId(fields), fields >>]
    <3>0. PICK m \in memory : m.of = r /\ \E fields \in Fields(m) :
            id' = [id EXCEPT ![r] = << ReceiptId(fields), fields >>]
      BY <2>2
    <3>1. PICK fields \in Fields(m) :
            m.of = r /\ id' = [id EXCEPT ![r] = << ReceiptId(fields), fields >>]
      BY <3>0
    <3>2. \A d \in Documents :
            id'[d] = IF d = r THEN << ReceiptId(fields), fields >> ELSE id[d]
      BY <3>1, <1>0 DEF ShapeInv, Requests
    <3>3. QED BY <3>1, <3>2, <1>0, <1>1 DEF IdInv
  <2>3. QED BY <2>1, <2>2 DEF Answers
<1>7. QED BY <1>3, <1>4, <1>5, <1>6 DEF FiscalInv

(* A request is posted.                                                    *)
LEMMA PostStep ==
  ASSUME FiscalInv, NEW r \in Requests, NEW what, Posts(r, what)
  PROVE  FiscalInv'
<1>0. ShapeInv /\ WayInv /\ MemoryInv /\ IdInv BY DEF FiscalInv
<1>1. /\ phase[r] = "new" /\ phase' = [phase EXCEPT ![r] = "waits"]
      /\ posted' = [posted EXCEPT ![r] = << what >>]
      /\ UNCHANGED << told, id, reply, zNumber, receiptNumber, memory >>
  BY DEF Posts, fiscal
<1>2. ShapeInv' BY <1>0, <1>1 DEF ShapeInv
<1>3. WayInv'
  <2>1. SUFFICES ASSUME NEW d \in Documents
                 PROVE  /\ phase'[d] # "answered" => told[d] = "nothing"
                        /\ phase'[d] = "new" => posted'[d] = None /\ reply[d] = "none" /\ ~Issued(d)
                        /\ posted'[d] # None => reply[d] = "none" /\ ~Issued(d)
                        /\ reply[d] = "rt_error" => posted'[d] = None /\ ~Issued(d)
                        /\ told[d] \in Refusal => posted'[d] = None /\ ~Issued(d)
    BY <1>1 DEF WayInv, Issued
  <2>2. d \in Requests BY DEF Requests
  <2>3. CASE d = r BY <1>0, <1>1, <2>2, <2>3 DEF ShapeInv, WayInv, Refusal
  <2>4. CASE d # r BY <1>0, <1>1, <2>2, <2>4 DEF ShapeInv, WayInv
  <2>5. QED BY <2>3, <2>4
<1>4. MemoryInv' /\ IdInv' BY <1>0, <1>1 DEF MemoryInv, IdInv
<1>5. QED BY <1>2, <1>3, <1>4 DEF FiscalInv

(* The printer does what it was asked and issues nothing.                  *)
LEMMA DoneStep ==
  ASSUME FiscalInv, NEW r \in Requests, NEW what \in {"ok", "rt_error"}, Done(r, what),
         memory' = memory, zNumber' \in Nat, receiptNumber' \in Nat,
         \/ zNumber' = zNumber /\ receiptNumber' = receiptNumber
         \/ zNumber' = zNumber + 1
  PROVE  FiscalInv'
<1>0. ShapeInv /\ WayInv /\ MemoryInv /\ IdInv BY DEF FiscalInv
<1>1. /\ posted[r] # None /\ posted' = [posted EXCEPT ![r] = None]
      /\ reply' = [reply EXCEPT ![r] = what]
      /\ UNCHANGED << phase, told, id >>
  BY DEF Done, requests
<1>2. ShapeInv' BY <1>0, <1>1 DEF ShapeInv
<1>3. WayInv'
  <2>1. SUFFICES ASSUME NEW d \in Documents
                 PROVE  /\ phase[d] # "answered" => told[d] = "nothing"
                        /\ phase[d] = "new" => posted'[d] = None /\ reply'[d] = "none" /\ ~Issued(d)
                        /\ posted'[d] # None => reply'[d] = "none" /\ ~Issued(d)
                        /\ reply'[d] = "rt_error" => posted'[d] = None /\ ~Issued(d)
                        /\ told[d] \in Refusal => posted'[d] = None /\ ~Issued(d)
    BY <1>1 DEF WayInv, Issued
  <2>2. d \in Requests BY DEF Requests
  <2>3. CASE d = r BY <1>0, <1>1, <2>2, <2>3 DEF ShapeInv, WayInv
  <2>4. CASE d # r BY <1>0, <1>1, <2>2, <2>4 DEF ShapeInv, WayInv
  <2>5. QED BY <2>3, <2>4
<1>4. MemoryInv'
  <2>1. \A m \in memory : m.z \in Nat /\ m.z <= zNumber BY <1>0 DEF ShapeInv, MemoryInv
  <2>2. QED BY <1>0, <2>1 DEF ShapeInv, MemoryInv
<1>5. IdInv' BY <1>0, <1>1 DEF IdInv
<1>6. QED BY <1>2, <1>3, <1>4, <1>5 DEF FiscalInv

(* The printer issues a receipt.                                           *)
LEMMA SaleStep ==
  ASSUME FiscalInv, NEW r \in Documents, RecordsSale(r)
  PROVE  FiscalInv'
<1>0. ShapeInv /\ WayInv /\ MemoryInv /\ IdInv BY DEF FiscalInv
<1>r. r \in Requests BY DEF Requests
<1> DEFINE new == [of |-> r, z |-> zNumber, number |-> receiptNumber + 1]
<1>1. /\ posted[r] # None /\ posted' = [posted EXCEPT ![r] = None]
      /\ reply' = [reply EXCEPT ![r] = "ok"]
      /\ receiptNumber' = receiptNumber + 1 /\ memory' = memory \union {new}
      /\ UNCHANGED << phase, told, id, zNumber >>
  BY DEF RecordsSale, Done, requests
<1>2. /\ new.of = r /\ new.z = zNumber /\ new.number = receiptNumber + 1
      /\ zNumber \in Nat /\ receiptNumber \in Nat
      /\ new \in [of : Documents, z : Nat, number : Nat]
  BY <1>0 DEF ShapeInv
<1> HIDE DEF new
<1>3. ShapeInv' BY <1>0, <1>1, <1>2 DEF ShapeInv
<1>4. WayInv'
  <2>1. SUFFICES ASSUME NEW d \in Documents
                 PROVE  /\ phase[d] # "answered" => told[d] = "nothing"
                        /\ phase[d] = "new" => posted'[d] = None /\ reply'[d] = "none" /\ ~Issued(d)'
                        /\ posted'[d] # None => reply'[d] = "none" /\ ~Issued(d)'
                        /\ reply'[d] = "rt_error" => posted'[d] = None /\ ~Issued(d)'
                        /\ told[d] \in Refusal => posted'[d] = None /\ ~Issued(d)'
    BY <1>1 DEF WayInv
  <2>2. d \in Requests BY DEF Requests
  <2>3. CASE d = r BY <1>0, <1>1, <1>r, <2>3 DEF ShapeInv, WayInv
  <2>4. CASE d # r
    <3>1. Issued(d)' <=> Issued(d) BY <1>1, <1>2, <2>4 DEF Issued
    <3>2. posted'[d] = posted[d] /\ reply'[d] = reply[d]
      BY <1>0, <1>1, <2>2, <2>4 DEF ShapeInv
    <3>3. QED BY <1>0, <3>1, <3>2 DEF WayInv
  <2>5. QED BY <2>3, <2>4
<1>5. MemoryInv'
  <2>0. \A m \in memory : m.z \in Nat /\ m.number \in Nat BY <1>0 DEF ShapeInv
  <2>1. \A m \in memory' : m.z <= zNumber' /\ (m.z = zNumber' => m.number <= receiptNumber')
    BY <1>0, <1>1, <1>2, <2>0 DEF MemoryInv
  <2>2. ASSUME NEW m \in memory', NEW n \in memory', m.z = n.z, m.number = n.number
        PROVE  m.of = n.of
    BY <1>0, <1>1, <1>2, <2>0, <2>2 DEF MemoryInv
  <2>3. QED BY <2>1, <2>2 DEF MemoryInv
<1>6. IdInv' BY <1>0, <1>1 DEF IdInv
<1>7. QED BY <1>3, <1>4, <1>5, <1>6 DEF FiscalInv

(* Steps that a document and a report have in common.                      *)
LEMMA RequestStep ==
  ASSUME FiscalInv, NEW r \in Requests,
         NotThere(r) \/ Answers(r) \/ AnswerIsSpoiled(r) \/ Unreachable(r) \/ Leaves(r) \/ Rejects(r)
  PROVE  FiscalInv'
<1>0. DOMAIN posted = Requests BY DEF FiscalInv, ShapeInv
<1>1. CASE NotThere(r)
  <2>1. PICK what : Says(r, what) BY <1>1 DEF NotThere
  <2>2. phase[r] = "new" /\ UNCHANGED << id, reply, posted, fiscal >> BY <1>1 DEF NotThere, wire
  <2>3. r \in Documents => posted[r] = None /\ ~Issued(r) BY <2>2 DEF FiscalInv, WayInv
  <2>4. CASE r \in Documents BY <2>1, <2>2, <2>3, <2>4, <1>0, SaysStep
  <2>5. CASE r \notin Documents
    BY <1>0, <2>1, <2>2, <2>5 DEF FiscalInv, ShapeInv, WayInv, MemoryInv, IdInv, Issued, Says, fiscal
  <2>6. QED BY <2>4, <2>5
<1>2. CASE Answers(r) BY <1>2, AnswerStep
<1>3. CASE AnswerIsSpoiled(r)
  BY <1>0, <1>3, SaysStep DEF AnswerIsSpoiled, Refusal, wire
<1>4. CASE Unreachable(r)
  <2>1. DOMAIN posted' = Requests /\ \A d \in Requests : posted'[d] \in {posted[d], None}
    BY <1>0, <1>4 DEF Unreachable
  <2>2. QED BY <1>4, <2>1, SaysStep DEF Unreachable, Refusal
<1>5. CASE Leaves(r)
  BY <1>0, <1>5, SaysStep DEF Leaves, Refusal, wire
<1>6. CASE Rejects(r)
  BY <1>6, DoneStep DEF Rejects, fiscal, FiscalInv, ShapeInv
<1>7. QED BY <1>1, <1>2, <1>3, <1>4, <1>5, <1>6

(* Every step keeps the invariant.                                         *)
LEMMA FiscalStep ==
  ASSUME FiscalInv, [Next]_vars
  PROVE  FiscalInv'
<1>0. DOMAIN posted = Requests BY DEF FiscalInv, ShapeInv
<1>1. CASE UNCHANGED vars
  BY <1>1 DEF vars, requests, wire, fiscal, FiscalInv, ShapeInv, WayInv, MemoryInv, IdInv, Issued
<1>2. ASSUME NEW d \in Documents, Refuses(d) PROVE FiscalInv'
  <2>1. d \in Requests BY DEF Requests
  <2>2. PICK what : Says(d, what) BY <1>2 DEF Refuses
  <2>3. phase[d] = "new" /\ UNCHANGED << id, reply, posted, fiscal >> BY <1>2 DEF Refuses, wire
  <2>4. posted[d] = None /\ ~Issued(d) BY <2>3 DEF FiscalInv, WayInv
  <2>5. QED BY <1>0, <2>1, <2>2, <2>3, <2>4, SaysStep
<1>3. ASSUME NEW d \in Documents, PostsDocument(d) PROVE FiscalInv'
  <2>1. d \in Requests BY DEF Requests
  <2>2. QED BY <1>3, <2>1, PostStep DEF PostsDocument
<1>4. ASSUME NEW r \in Reports, PostsReport(r) \/ RunsZ(r) \/ Reads(r) PROVE FiscalInv'
  <2>1. r \in Requests BY DEF Requests
  <2>2. CASE PostsReport(r) BY <2>1, <2>2, PostStep DEF PostsReport
  <2>3. CASE RunsZ(r) BY <2>1, <2>3, DoneStep DEF RunsZ, FiscalInv, ShapeInv
  <2>4. CASE Reads(r) BY <2>1, <2>4, DoneStep DEF Reads, fiscal, FiscalInv, ShapeInv
  <2>5. QED BY <1>4, <2>2, <2>3, <2>4
<1>5. QED BY <1>1, <1>2, <1>3, <1>4, RequestStep, SaleStep DEF Next

(* A document that was refused was not issued, and is not on its way.      *)
THEOREM RefusedWasNotIssued == Spec => []RefusedMeansNoReceipt
<1>1. FiscalInv /\ [Next]_vars => FiscalInv' BY FiscalStep
<1>2. FiscalInv => RefusedMeansNoReceipt
  BY DEF FiscalInv, WayInv, Refusal, Issued, RefusedMeansNoReceipt
<1>3. QED BY FiscalInit, <1>1, <1>2, PTL DEF Spec

(* Two documents whose answers carried the day and the number are never    *)
(* answered with one identifier.                                           *)
THEOREM IdentifiersDiffer == Spec => []ReceiptIdIsOwn
<1>1. FiscalInv /\ [Next]_vars => FiscalInv' BY FiscalStep
<1>2. FiscalInv => ReceiptIdIsOwn
  <2>1. SUFFICES ASSUME FiscalInv, NEW d \in Documents, NEW e \in Documents,
                        id[d] # None, id[e] # None, Whole(id[d][2]), Whole(id[e][2]),
                        id[d][1] = id[e][1]
                 PROVE  d = e
    BY DEF ReceiptIdIsOwn
  <2>0. ASSUME NEW f \in Documents, id[f] # None, Whole(id[f][2])
        PROVE  \E m \in memory : m.of = f /\ id[f][1] = << m.z, m.number >>
    <3>1. PICK m \in memory : m.of = f /\ \E fields \in Fields(m) :
                                 id[f] = << ReceiptId(fields), fields >>
      BY <2>0, <2>1 DEF FiscalInv, IdInv
    <3>2. PICK fields \in Fields(m) : id[f] = << ReceiptId(fields), fields >> BY <3>1
    <3>3. id[f][1] = << m.z, m.number >> BY <2>0, <3>2, WholeIdentifier
    <3>4. QED BY <3>1, <3>3
  <2>2. PICK m \in memory : m.of = d /\ id[d][1] = << m.z, m.number >> BY <2>0, <2>1
  <2>3. PICK n \in memory : n.of = e /\ id[e][1] = << n.z, n.number >> BY <2>0, <2>1
  <2>4. m.z = n.z /\ m.number = n.number
    <3>1. << m.z, m.number >> = << n.z, n.number >> BY <2>1, <2>2, <2>3
    <3>2. QED BY <3>1, PairsEqual
  <2>5. m.of = n.of
    <3>1. MemoryInv BY <2>1 DEF FiscalInv
    <3>2. QED BY <2>4, <3>1 DEF MemoryInv
  <2>6. QED BY <2>2, <2>3, <2>5
<1>3. QED BY FiscalInit, <1>1, <1>2, PTL DEF Spec
-----------------------------------------------------------------------------
(* What the documents that a till's order may come to have in common.      *)
IsTrue(document) ==
  LET lines == document.lines
  IN Len(lines) > 1 =>
       /\ Sum(lines) \in document.price - 2 .. document.price + 2
       /\ \A i \in DOMAIN lines :
            /\ document.meant[i] = {lines[i].type}
            /\ lines[i].type = Cash => lines[i].amount % 5 = 0

(* An order has a sequence of tenders, of keys a till has, and no more     *)
(* than two; and a price.                                                  *)
LEMMA OrderTenders ==
  ASSUME NEW o \in Orders
  PROVE  TendersOf(o) \in Seq(Tenders) /\ Len(TendersOf(o)) <= 2 /\ o.total \in Nat
<1>0. PICK t \in Totals, m \in Maps, p \in Payments :
        o = [total |-> t, map |-> m, payment |-> p.payment, payments |-> p.payments]
  BY DEF Orders
<1>1. o.payment = p.payment /\ o.payments = p.payments /\ o.total \in Nat
  BY <1>0, MoneyAssumption
<1>2. CASE p \in [payment : Tenders, payments : {None}]
  <2>1. TendersOf(o) = << p.payment >> /\ p.payment \in Tenders BY <1>1, <1>2 DEF TendersOf
  <2>2. QED BY <1>1, <2>1
<1>3. CASE p \in { [payment |-> Head(ts), payments |-> ts] :
                   ts \in BoundedSeq(Tenders, 2) \ {None} }
  <2>1. PICK ts \in BoundedSeq(Tenders, 2) \ {None} : p.payments = ts BY <1>3
  <2>2. PICK n \in 0 .. 2 : ts \in [1 .. n -> Tenders] BY <2>1 DEF BoundedSeq, SeqOf
  <2>3. ts \in Seq(Tenders) /\ Len(ts) <= 2 BY <2>2
  <2>4. QED BY <1>1, <2>1, <2>3 DEF TendersOf
<1>4. QED BY <1>2, <1>3 DEF Payments

(* A tender is of a key, and of an amount.                                 *)
LEMMA TenderType ==
  ASSUME NEW t \in Tenders
  PROVE  t.key \in {"cash", "card", "voucher"} /\ t.amount \in Nat
BY MoneyAssumption DEF Tenders, Tender

(* What is known of a tender is what the till means by it.                 *)
LEMMA KnownIsMeant ==
  ASSUME NEW t \in Tenders, NEW map, KnownType(t, map) # {}
  PROVE  Meant(t, map) = {Resolved(t, map)}
<1>1. t.key \in {"cash", "card", "voucher"} BY TenderType
<1>2. PICK y : KnownType(t, map) = {y} /\ Meant(t, map) = {y}
  <2>1. CASE t.key \in DOMAIN map
    <3>1. KnownType(t, map) = {map[t.key]} /\ Meant(t, map) = {map[t.key]}
      BY <2>1 DEF KnownType, Meant
    <3>2. QED BY <3>1
  <2>2. CASE t.key \notin DOMAIN map
    <3>1. t.key = "card" \/ t.key = "cash" BY <1>1, <2>2 DEF KnownType
    <3>2. \/ KnownType(t, map) = {Card} /\ Meant(t, map) = {Card}
          \/ KnownType(t, map) = {Cash} /\ Meant(t, map) = {Cash}
      BY <2>2, <3>1 DEF KnownType, Meant
    <3>3. QED BY <3>2
  <2>3. QED BY <2>1, <2>2
<1>3. Resolved(t, map) = CHOOSE x \in {y} : TRUE BY <1>2 DEF Resolved
<1>4. (CHOOSE x \in {y} : TRUE) = y OBVIOUS
<1>5. QED BY <1>2, <1>3, <1>4

(* The nearest multiple is within half a unit, and a whole number.         *)
LEMMA NearestIsNear ==
  ASSUME NEW n \in Nat, NEW unit \in {10, 50}
  PROVE  /\ Nearest(n, unit) \in Nat
         /\ 2 * unit * Nearest(n, unit) <= 2 * n + unit
         /\ 2 * n <= 2 * unit * Nearest(n, unit) + unit
<1>1. CASE unit = 10
  <2>1. PICK q \in Nat, k \in 0 .. 9 : n = 10 * q + k /\ q = n \div 10 /\ k = n % 10 OBVIOUS
  <2>2. QED BY <1>1, <2>1 DEF Nearest
<1>2. CASE unit = 50
  <2>1. PICK q \in Nat, k \in 0 .. 49 : n = 50 * q + k /\ q = n \div 50 /\ k = n % 50 OBVIOUS
  <2>2. QED BY <1>2, <2>1 DEF Nearest
<1>3. QED BY <1>1, <1>2

(* Amounts in cents.                                                       *)
LEMMA CentsAreNear ==
  ASSUME NEW n \in Nat
  PROVE  Cents(n) \in Nat /\ 20 * Cents(n) <= 2 * n + 10 /\ 2 * n <= 20 * Cents(n) + 10
BY NearestIsNear DEF Cents

(* Two parts that are rounded each come within a cent of their sum that is *)
(* rounded once.                                                           *)
LEMMA PartsInCents ==
  ASSUME NEW m \in Nat, NEW n \in Nat
  PROVE  Cents(m) + Cents(n) \in Cents(m + n) - 1 .. Cents(m + n) + 1
<1>1. m + n \in Nat OBVIOUS
<1>2. /\ Cents(m) \in Nat /\ Cents(n) \in Nat /\ Cents(m + n) \in Nat
      /\ 20 * Cents(m) <= 2 * m + 10 /\ 2 * m <= 20 * Cents(m) + 10
      /\ 20 * Cents(n) <= 2 * n + 10 /\ 2 * n <= 20 * Cents(n) + 10
      /\ 20 * Cents(m + n) <= 2 * (m + n) + 10 /\ 2 * (m + n) <= 20 * Cents(m + n) + 10
  BY <1>1, CentsAreNear
<1>3. ASSUME NEW a \in Nat, NEW b \in Nat, NEW c \in Nat,
             20 * a <= 2 * m + 10, 2 * m <= 20 * a + 10,
             20 * b <= 2 * n + 10, 2 * n <= 20 * b + 10,
             20 * c <= 2 * (m + n) + 10, 2 * (m + n) <= 20 * c + 10
      PROVE  a + b \in c - 1 .. c + 1
  BY <1>3
<1>4. QED BY <1>2, <1>3

(* Cash that rounding leaves alone can be handed over in coins.            *)
LEMMA RoundedInCoins ==
  ASSUME NEW n \in Nat, Round5(n) = Cents(n)
  PROVE  Cents(n) % 5 = 0
<1>1. Nearest(n, 50) \in Nat BY NearestIsNear
<1>2. QED BY <1>1 DEF Round5

(* The lines of a split are its two tenders, in cents.                     *)
LEMMA SplitLines ==
  ASSUME NEW o \in Orders, Len(TendersOf(o)) > 1
  PROVE  /\ DOMAIN Document(o) = 1 .. 2 /\ DOMAIN TendersOf(o) = 1 .. 2
         /\ Len(Document(o)) = 2 /\ Len(TendersOf(o)) = 2
         /\ \A i \in 1 .. 2 :
              /\ TendersOf(o)[i] \in Tenders
              /\ Document(o)[i].type = Resolved(TendersOf(o)[i], o.map)
              /\ Document(o)[i].amount = Cents(TendersOf(o)[i].amount)
<1> DEFINE ts == TendersOf(o)
<1>1. ts \in Seq(Tenders) /\ Len(ts) <= 2 BY OrderTenders
<1>2. DOMAIN ts = 1 .. 2 /\ Len(ts) = 2 /\ \A i \in 1 .. 2 : ts[i] \in Tenders
  <2>1. DOMAIN ts = 1 .. Len(ts) /\ Len(ts) \in Nat /\ \A i \in 1 .. Len(ts) : ts[i] \in Tenders
    BY <1>1
  <2>2. Len(ts) > 1 OBVIOUS
  <2>3. Len(ts) = 2 BY <1>1, <2>1, <2>2
  <2>4. QED BY <2>1, <2>3
<1>3. Document(o) =
        [i \in 1 .. 2 |-> LET type == Resolved(ts[i], o.map) IN Line(type, Cents(ts[i].amount))]
  BY <1>2 DEF Document
<1>4. DOMAIN Document(o) = 1 .. 2 /\ Len(Document(o)) = 2 BY <1>3
<1>5. QED BY <1>2, <1>3, <1>4 DEF Line

(* `validate_tenders` lets through what is true, and nothing else is       *)
(* prepared.                                                               *)
LEMMA PreparedIsTrue ==
  ASSUME NEW document \in Prepared
  PROVE  IsTrue(document)
<1>1. PICK o \in Orders : /\ Problem(o) = "none" /\ document.price = Cents(o.total)
                          /\ document.lines = Document(o)
                          /\ document.meant = [i \in DOMAIN TendersOf(o) |->
                                                 Meant(TendersOf(o)[i], o.map)]
  <2>1. PICK o \in { x \in Orders : Problem(x) = "none" } :
           document = [price |-> Cents(o.total), lines |-> Document(o),
                       meant |-> [i \in DOMAIN TendersOf(o) |-> Meant(TendersOf(o)[i], o.map)]]
    BY DEF Prepared
  <2>2. QED BY <2>1
<1> DEFINE ts == TendersOf(o)
<1>2. ts \in Seq(Tenders) /\ Len(ts) <= 2 /\ o.total \in Nat BY OrderTenders
<1>3. SUFFICES ASSUME Len(Document(o)) > 1
               PROVE  /\ Sum(Document(o)) \in Cents(o.total) - 2 .. Cents(o.total) + 2
                      /\ \A i \in DOMAIN Document(o) :
                           /\ document.meant[i] = {Document(o)[i].type}
                           /\ Document(o)[i].type = Cash => Document(o)[i].amount % 5 = 0
  BY <1>1 DEF IsTrue
<1>4. Len(ts) > 1
  <2>1. DOMAIN Document(o) = 1 .. Len(ts) /\ Len(ts) \in Nat BY <1>2 DEF Document
  <2>2. Len(Document(o)) = Len(ts) BY <2>1
  <2>3. QED BY <1>3, <2>2
<1>5. /\ \A t \in ToSet(ts) : KnownType(t, o.map) # {}
      /\ ~Apart(Cents(Sum(ts)), Cents(o.total))
      /\ \A t \in ToSet(ts) : Resolved(t, o.map) = Cash => Round5(t.amount) = Cents(t.amount)
  <2>1. ~(Len(ts) < 2) BY <1>2, <1>4
  <2>2. QED BY <1>1, <2>1 DEF Problem
<1>6. /\ DOMAIN Document(o) = 1 .. 2 /\ DOMAIN ts = 1 .. 2
      /\ Len(Document(o)) = 2 /\ Len(ts) = 2
      /\ \A i \in 1 .. 2 : /\ ts[i] \in Tenders
                            /\ Document(o)[i].type = Resolved(ts[i], o.map)
                            /\ Document(o)[i].amount = Cents(ts[i].amount)
  BY <1>4, SplitLines
<1>7. Sum(Document(o)) \in Cents(o.total) - 2 .. Cents(o.total) + 2
  <2>1. ts[1].amount \in Nat /\ ts[2].amount \in Nat BY <1>6, TenderType
  <2>2. Sum(ts) = ts[1].amount + ts[2].amount BY <1>6 DEF Sum
  <2>3. Sum(Document(o)) = Cents(ts[1].amount) + Cents(ts[2].amount) BY <1>6 DEF Sum
  <2>4. Sum(Document(o)) \in Cents(Sum(ts)) - 1 .. Cents(Sum(ts)) + 1
    BY <2>1, <2>2, <2>3, PartsInCents
  <2>5. Cents(Sum(ts)) \in Nat /\ Cents(o.total) \in Nat
    <3>1. Sum(ts) \in Nat BY <2>1, <2>2
    <3>2. QED BY <3>1, <1>2, CentsAreNear
  <2>6. Cents(Sum(ts)) \in Cents(o.total) - 1 .. Cents(o.total) + 1
    BY <1>5, <2>5 DEF Apart
  <2>7. QED BY <2>4, <2>5, <2>6
<1>8. ASSUME NEW i \in DOMAIN Document(o)
      PROVE  /\ document.meant[i] = {Document(o)[i].type}
             /\ Document(o)[i].type = Cash => Document(o)[i].amount % 5 = 0
  <2>1. i \in 1 .. 2 BY <1>6, <1>8
  <2>2. ts[i] \in Tenders /\ ts[i] \in ToSet(ts) BY <1>6, <2>1 DEF ToSet
  <2>3. ts[i].amount \in Nat BY <2>2, TenderType
  <2>4. document.meant[i] = {Resolved(ts[i], o.map)}
    BY <1>1, <1>5, <1>6, <2>1, <2>2, KnownIsMeant
  <2>5. Resolved(ts[i], o.map) = Cash => Cents(ts[i].amount) % 5 = 0
    BY <1>5, <2>2, <2>3, RoundedInCoins
  <2>6. QED BY <1>6, <2>1, <2>4, <2>5
<1>9. QED BY <1>7, <1>8

(* Only what was prepared is on its way.                                   *)
PostedInv == \A d \in Documents : posted[d] # None => posted[d][1] \in Prepared

(* No step puts anything else on the way.                                  *)
LEMMA PostedStep ==
  ASSUME FiscalInv, PostedInv, [Next]_vars
  PROVE  PostedInv'
<1>0. DOMAIN posted = Requests /\ \A d \in Documents : d \in Requests
  BY DEF FiscalInv, ShapeInv, Requests
<1>k. ASSUME \A d \in Documents : posted'[d] \in {posted[d], None} PROVE PostedInv'
  BY <1>k DEF PostedInv
<1>1. CASE UNCHANGED posted BY <1>1, <1>k
<1>2. ASSUME NEW d \in Documents, PostsDocument(d) PROVE PostedInv'
  <2>1. PICK document \in Prepared : posted' = [posted EXCEPT ![d] = << document >>]
    BY <1>2 DEF PostsDocument, Posts
  <2>2. \A e \in Documents : posted'[e] = IF e = d THEN << document >> ELSE posted[e]
    BY <1>0, <2>1
  <2>3. << document >>[1] = document OBVIOUS
  <2>4. QED BY <2>2, <2>3 DEF PostedInv
<1>3. ASSUME NEW r \in Reports, PostsReport(r) PROVE PostedInv'
  <2>1. \A d \in Documents : d # r BY NamesAssumption
  <2>2. QED BY <1>0, <1>3, <1>k, <2>1 DEF PostsReport, Posts
<1>4. ASSUME NEW r \in Requests, NEW what, Done(r, what) PROVE PostedInv'
  BY <1>0, <1>4, <1>k DEF Done
<1>5. ASSUME NEW r \in Requests, Unreachable(r) PROVE PostedInv'
  BY <1>0, <1>5, <1>k DEF Unreachable
<1>6. ASSUME NEW r \in Requests,
             NotThere(r) \/ Answers(r) \/ AnswerIsSpoiled(r) \/ Leaves(r) \/ Refuses(r)
      PROVE  UNCHANGED posted
  BY <1>6 DEF NotThere, Answers, AnswerIsSpoiled, Leaves, Refuses, wire
<1>7. CASE \E r \in Requests : \/ NotThere(r) \/ Answers(r) \/ AnswerIsSpoiled(r)
                               \/ Unreachable(r) \/ Leaves(r) \/ Rejects(r)
  BY <1>1, <1>4, <1>5, <1>6, <1>7 DEF Rejects
<1>8. CASE \E d \in Documents : RecordsSale(d) \/ Refuses(d) \/ PostsDocument(d)
  BY <1>0, <1>1, <1>2, <1>4, <1>6, <1>8 DEF RecordsSale
<1>9. CASE \E r \in Reports : PostsReport(r) \/ RunsZ(r) \/ Reads(r)
  BY <1>1, <1>3, <1>4, <1>9 DEF RunsZ, Reads, Requests
<1>10. CASE UNCHANGED vars BY <1>1, <1>10 DEF vars, wire
<1>11. QED BY <1>7, <1>8, <1>9, <1>10 DEF Next

(* A document that is on its way and was paid in parts says what was paid  *)
(* and how, whatever orders a till may send: a line for each part, of the  *)
(* type that was meant, together the price but for two cents, and cash     *)
(* that can be handed over in coins.                                       *)
THEOREM SplitsAreTrue == Spec => []SplitIsTrue
<1>1. Init => PostedInv BY DEF Init, PostedInv, Requests
<1>2. FiscalInv /\ PostedInv /\ [Next]_vars => PostedInv' BY PostedStep
<1>3. PostedInv => SplitIsTrue
  BY PreparedIsTrue DEF PostedInv, SplitIsTrue, IsTrue
<1>4. FiscalInv /\ [Next]_vars => FiscalInv' BY FiscalStep
<1>5. QED BY FiscalInit, <1>1, <1>2, <1>3, <1>4, PTL DEF Spec
=============================================================================
