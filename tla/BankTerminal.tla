---------------------------- MODULE BankTerminal ----------------------------
(***************************************************************************)
(* The banks whose terminal answers a purchase with one message            *)
(* (src/src/services/terminals): PrivatBank over TCP or over a COM port    *)
(* (privatbank.py), and the bridges of Printec, BPOS and Oschadbank over   *)
(* TCP (bridge.py, posapi.py, bpos.py, oschad.py).                         *)
(*                                                                         *)
(* Over TCP an operation has a connection of its own.  Over a COM port the *)
(* exchange runs in a thread, which goes on when nobody waits for it any   *)
(* more; and what it reads is whatever the terminal sends next.            *)
(***************************************************************************)
EXTENDS Naturals, Sequences, SequencesExt

CONSTANTS
  Charges,      (* purchases and refunds                                   *)
  Refunds,      (* the refunds among them                                  *)
  Queries,      (* what a terminal answers at once: ping, info (and the    *)
                (* merchants), cancel, the last result, a probe of the LAN *)
  NoOp,
  Exclusive,    (* a COM port is opened by one thread only, as on Windows  *)
  Late          (* a terminal may answer after it was given up             *)

ASSUME FlagsAssumption == Exclusive \in BOOLEAN /\ Late \in BOOLEAN
ASSUME NamesAssumption == /\ Charges \intersect Queries = {} /\ NoOp \notin Charges
                          /\ Refunds \subseteq Charges

Operations == Charges \union Queries

Banks == {"privat", "posapi", "bpos", "oschad"}

VARIABLES
  bank, wire,   (* the registration: the bank, and "tcp" or "com"          *)
  asks,         (* what each query asks for                                *)
  caller,       (* where the request behind an operation is                *)
  told,         (* what it was answered with                               *)
  sent,         (* requests on their way to the terminal                   *)
  terminal,     (* the charge the terminal works on                        *)
  paid,         (* charges whose money moved                               *)
  conn,         (* operations with an open connection                      *)
  mail,         (* the answer that has come over a connection, or NoOp     *)
  thread,       (* operations whose thread has the COM port open           *)
  line          (* answers on the serial line                              *)

registration == << bank, wire, asks >>
pos == << terminal, paid >>
tcp == << conn, mail >>
com == << thread, line >>
vars == << registration, caller, told, sent, pos, tcp, com >>

(* The LAN is probed over TCP only.                                        *)
Init ==
  /\ bank \in Banks /\ wire \in (IF bank = "privat" THEN {"tcp", "com"} ELSE {"tcp"})
  /\ asks \in [Queries -> {"ping", "info", "cancel", "last"}
                            \union (IF wire = "tcp" THEN {"probe"} ELSE {})]
  /\ caller = [o \in Operations |-> "new"] /\ told = [o \in Operations |-> "nothing"]
  /\ sent = {} /\ terminal = NoOp /\ paid = {}
  /\ conn = {} /\ mail = [o \in Operations |-> NoOp]
  /\ thread = {} /\ line = << >>

-----------------------------------------------------------------------------
(* Messages of the terminal, by the fields the adapters look at.           *)

Answer(code, status, error) == [code |-> code, status |-> status, error |-> error]

(* What a terminal may say of an operation that ended in this way.         *)
Says(outcome) ==
  CASE outcome = "approved"  -> { Answer("ok", "approved", FALSE) }
    [] outcome = "declined"  -> { Answer("other", "declined", FALSE), Answer("other", "none", TRUE) }
    [] outcome = "cancelled" -> { Answer("cancelled", "none", TRUE) }
                                  \union (IF bank = "privat"
                                            THEN { Answer("other", "cancelled", FALSE) } ELSE {})
    [] outcome = "reversed"  -> IF bank = "privat" THEN { Answer("ok", "reversed", FALSE) } ELSE {}

Outcomes == {"approved", "declined", "cancelled", "reversed"}

(* Well, or an error.  The answer of PrivatBank to a query has none of the *)
(* fields of a purchase.                                                   *)
Information == IF bank = "privat" THEN { Answer("none", "none", FALSE), Answer("other", "none", TRUE) }
                                  ELSE { Answer("ok", "none", FALSE), Answer("other", "none", TRUE) }

Reply(q) == IF asks[q] = "last" /\ bank # "privat" THEN UNION { Says(w) : w \in Outcomes }
                                                   ELSE Information

(* A frame that is cut short or too long, or holds no JSON.                *)
Garbled == Answer("garbled", "none", FALSE)

(* JSON, but not an object: the adapter of PrivatBank is handed it.        *)
Shapeless == Answer("shapeless", "none", FALSE)

IsFrame(m) == m # Garbled /\ (m = Shapeless => bank = "privat")

-----------------------------------------------------------------------------
(* What each adapter reads in a message: is somebody there, is the request *)
(* refused, how did the purchase end.                                      *)

Verdict(m) == CASE m.code = "cancelled" -> "cancelled" [] m.code = "ok" -> "ok" [] OTHER -> "declined"

PosApiAlive(m) == m.code = "ok"
BposAlive(m) == m.code # "none"
OschadAlive(m) == m.code = "ok"
PrivatAlive(m) == m # Shapeless /\ ~m.error

PosApi(m) == [alive    |-> PosApiAlive(m),
              refused  |-> m.code \notin {"none", "ok"},
              purchase |-> IF m.code = "ok" /\ m.status # "approved" THEN "declined" ELSE Verdict(m)]

Bpos(m) == [alive    |-> BposAlive(m),
            refused  |-> m.code \notin {"none", "ok"},
            purchase |-> Verdict(m)]

Oschad(m) == [alive    |-> OschadAlive(m),
              refused  |-> m.code \notin {"none", "ok"},
              purchase |-> Verdict(m)]

PrivatPurchase(m) ==
  IF m.code = "cancelled" THEN "cancelled"
  ELSE IF m.error /\ m.code # "ok" THEN "declined"
  ELSE IF m.status \in {"declined", "reversed"} THEN "declined"
  ELSE IF m.status = "cancelled" THEN "cancelled"
  ELSE Verdict(m)

Privat(m) == [alive |-> PrivatAlive(m), refused |-> ~PrivatAlive(m), purchase |-> PrivatPurchase(m)]

Read(m) == CASE bank = "privat" -> Privat(m) [] bank = "posapi" -> PosApi(m)
             [] bank = "bpos" -> Bpos(m)     [] bank = "oschad" -> Oschad(m)

(* A failed exchange: `ping` answers no, and `cancel` is as good as done.  *)
Failure(o) == IF o \in Charges THEN "failed"
              ELSE CASE asks[o] = "ping" -> "no" [] asks[o] = "cancel" -> "fired"
                     [] asks[o] = "probe" /\ told[o] = "greeted" -> "nameless"
                     [] OTHER -> "failed"

(* PrivatBank tells of the last purchase only whether it is "0".           *)
LastPurchase(m) == IF bank = "privat" THEN IF Read(m).refused THEN "failed" ELSE "guess"
                                      ELSE Read(m).purchase

(* The terminal said how the purchase ended: there is a code or a result.  *)
Spoke(m) == m.code \notin {"none", "shapeless"} \/ m.status # "none"

(* `_journal_operation`: what the adapter calls declined, though the       *)
(* terminal did not speak, is a row "failed" beside an answer "declined".  *)
Purchase(m) == IF Read(m).purchase = "declined" /\ ~Spoke(m) THEN "unheard" ELSE Read(m).purchase

Result(o, m) ==
  IF ~IsFrame(m) THEN Failure(o)
  ELSE IF o \in Charges THEN Purchase(m)
  ELSE CASE asks[o] = "ping"   -> IF Read(m).alive THEN "yes" ELSE "no"
         [] asks[o] = "info"   -> IF Read(m).refused THEN "failed" ELSE "seen"
         [] asks[o] = "cancel" -> "fired"
         [] asks[o] = "last"   -> LastPurchase(m)
         [] asks[o] = "probe"  -> IF told[o] = "greeted" THEN IF m = Shapeless THEN "nameless" ELSE "named"
                                  ELSE IF Read(m).alive THEN "greeted" ELSE "nobody"

-----------------------------------------------------------------------------
(* The adapter.                                                            *)

Told(o, what) == /\ told' = [told EXCEPT ![o] = what]
                 /\ caller' = [caller EXCEPT ![o] = IF what = "greeted" THEN "new" ELSE "done"]

(* An answer is of use only to a request that still waits for it.          *)
Answers(o, what) == IF caller[o] = "waits" THEN Told(o, what) ELSE UNCHANGED << told, caller >>

Waits(o) == caller' = [caller EXCEPT ![o] = "waits"] /\ sent' = sent \union {o}

(* Only PrivatBank refunds, and only with the reference of the payment.    *)
CannotRefund(o) ==
  /\ o \in Refunds /\ caller[o] = "new" /\ Told(o, "failed")
  /\ UNCHANGED << registration, sent, pos, tcp, com >>

MayBegin(o) == caller[o] = "new" /\ (o \in Refunds => bank = "privat")

(* `open_connection`, and the request is written.  A probe has a second    *)
(* connection for the name of the terminal.                                *)
Connects(o) ==
  /\ wire = "tcp" /\ MayBegin(o)
  /\ Waits(o) /\ conn' = conn \union {o} /\ mail' = [mail EXCEPT ![o] = NoOp]
  /\ UNCHANGED << registration, told, pos, com >>

Unreachable(o) ==
  /\ MayBegin(o) /\ Told(o, Failure(o))
  /\ wire = "tcp" \/ (Exclusive /\ thread # {})
  /\ UNCHANGED << registration, sent, pos, tcp, com >>

(* The thread of `send_serial`: open, forget what came before, write.      *)
OpensPort(o) ==
  /\ wire = "com" /\ MayBegin(o) /\ (Exclusive => thread = {})
  /\ Waits(o) /\ thread' = thread \union {o} /\ line' = << >>
  /\ UNCHANGED << registration, told, pos, tcp >>

ReadsConnection(o) ==
  /\ mail[o] # NoOp /\ o \in conn
  /\ Answers(o, Result(o, mail[o])) /\ conn' = conn \ {o}
  /\ UNCHANGED << registration, sent, pos, mail, com >>

ReadsPort(o) ==
  /\ o \in thread /\ line # << >>
  /\ Answers(o, Result(o, Head(line)))
  /\ thread' = thread \ {o} /\ line' = Tail(line)
  /\ UNCHANGED << registration, sent, pos, tcp >>

(* The terminal has said nothing for the length of the time-out.  Its own  *)
(* limits are shorter: unless Late, nothing more is to come.  The port has *)
(* this time-out for each byte and no other: a terminal is assumed to end  *)
(* the answers it begins.                                                  *)
Silent(o) == Late \/ (o \notin sent /\ terminal # o)

(* A connection has also an end when the bridge closes it.                 *)
ConnectionEnds(o) ==
  /\ o \in conn /\ mail[o] = NoOp /\ Answers(o, Failure(o)) /\ conn' = conn \ {o}
  /\ UNCHANGED << registration, sent, pos, mail, com >>

(* Faulty variant: the port is read without a time-out.                    *)
PortNeverSilent(o) == FALSE /\ UNCHANGED vars

PortSilent(o) ==
  /\ o \in thread /\ line = << >> /\ Silent(o)
  /\ Answers(o, Failure(o)) /\ thread' = thread \ {o}
  /\ UNCHANGED << registration, sent, pos, tcp, line >>

(* Faulty variant: the port is closed under the thread.                    *)
AbandonsAll(o) ==
  /\ caller[o] = "waits" /\ \E what \in {"unknown", "failed"} : Told(o, what)
  /\ conn' = conn \ {o} /\ thread' = thread \ {o}
  /\ UNCHANGED << registration, sent, pos, mail, line >>

(* The client leaves, or the wait for the thread ends before the thread:   *)
(* a connection is closed, a thread goes on.                               *)
Abandons(o) ==
  /\ caller[o] = "waits" /\ \E what \in {"unknown", "failed"} : Told(o, what)
  /\ conn' = conn \ {o}
  /\ UNCHANGED << registration, sent, pos, mail, com >>

-----------------------------------------------------------------------------
(* The terminal.                                                           *)

(* An answer may be lost or spoiled, and one that nobody listens for is.   *)
Sends(o, said) == \E m \in said \union {Garbled, Shapeless} :
  \/ wire = "tcp" /\ mail' = [mail EXCEPT ![o] = m] /\ UNCHANGED << conn, com >>
  \/ wire = "com" /\ thread # {} /\ line' = Append(line, m) /\ UNCHANGED << tcp, thread >>
  \/ UNCHANGED << tcp, com >>

(* A terminal works on one charge, and refuses another one meanwhile.      *)
Takes(o) ==
  /\ o \in sent /\ sent' = sent \ {o}
  /\ IF o \in Charges /\ terminal = NoOp
       THEN terminal' = o /\ UNCHANGED << tcp, com >>
       ELSE /\ Sends(o, IF o \in Charges THEN Says("declined") ELSE Reply(o))
            /\ UNCHANGED terminal
  /\ UNCHANGED << registration, caller, told, paid >>

Ends ==
  /\ terminal # NoOp /\ terminal' = NoOp
  /\ \E outcome \in Outcomes :
       /\ paid' = IF outcome = "approved" THEN paid \union {terminal} ELSE paid
       /\ Sends(terminal, Says(outcome))
  /\ UNCHANGED << registration, caller, told, sent >>

-----------------------------------------------------------------------------
Next == \/ \E o \in Operations : \/ CannotRefund(o) \/ Connects(o) \/ Unreachable(o) \/ OpensPort(o)
                                 \/ ReadsConnection(o) \/ ReadsPort(o)
                                 \/ ConnectionEnds(o) \/ PortSilent(o) \/ Abandons(o) \/ Takes(o)
        \/ Ends

(* Threads run, time passes, and the terminal ends what it works on.       *)
Fairness == /\ WF_vars(\E o \in Operations : ReadsPort(o) \/ PortSilent(o))
            /\ WF_vars(\E o \in Operations : Takes(o)) /\ WF_vars(Ends)

Spec == Init /\ [][Next]_vars /\ Fairness

-----------------------------------------------------------------------------
(* What a charge is answered with is the truth about this charge, and not  *)
(* about another one that was left on the line: "ok" means that its money  *)
(* moved, "declined" and "cancelled" that it did not and will not.  A      *)
(* "declined" of which the terminal said nothing is none of them: it is    *)
(* recorded as "failed", as is an answer that could not be read.           *)
AnswerIsOwn ==
  \A c \in Charges :
    /\ told[c] = "ok" => c \in paid
    /\ told[c] \in {"declined", "cancelled"} => c \notin paid \union sent /\ terminal # c

(* The COM port is free again for the next charge, whoever has left.       *)
PortIsFreed == \A o \in Operations : o \in thread ~> o \notin thread

=============================================================================
