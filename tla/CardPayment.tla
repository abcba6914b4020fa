----------------------------- MODULE CardPayment -----------------------------
(***************************************************************************)
(* Card operations on one SSI terminal: charge() and refund() of           *)
(* src/src/services/terminals/ssi.py, the routes of                        *)
(* src/src/routes/terminal.py that run them and write one journal row per  *)
(* attempt, and the terminal itself, as this code speaks to it.            *)
(*                                                                         *)
(* Nothing serialises the operations: each handler talks to the terminal   *)
(* with one short connection per request, and other handlers may come in   *)
(* between.  A request and its answer are one action; an answer that is    *)
(* lost is the same action followed by Fails.                              *)
(***************************************************************************)
EXTENDS Naturals, Sequences

CONSTANTS
  Charges,       (* the payments the cashiers start                        *)
  Refunds,       (* the refunds                                            *)
  WithUid,       (* those that carry a transaction_uid                     *)
  NoOp

ASSUME OpsAssumption ==
  /\ Charges \intersect Refunds = {} /\ NoOp \notin Charges \union Refunds
  /\ WithUid \subseteq Charges \union Refunds

Ops == Charges \union Refunds

VARIABLES
  status,        (* S00 idle, card (S02, S03), bank (other busy), S08      *)
  current,       (* the operation on the terminal                          *)
  last,          (* the operation of its last result                       *)
  outcome,       (* what the terminal can say of each operation            *)
  moved,         (* the operations whose money moved                       *)
  at,            (* where the handler of each operation is                 *)
  rows,          (* the journal rows about it                              *)
  recovered      (* what GET last-result told about one, asked by its uid  *)

vars == << status, current, last, outcome, moved, at, rows, recovered >>
terminalVars == << status, current, last, outcome, moved >>

Init ==
  /\ status = "S00" /\ current = NoOp /\ last = NoOp
  /\ outcome = [p \in Ops |-> "none"] /\ moved = {}
  /\ at = [p \in Ops |-> "idle"]
  /\ rows = [p \in Ops |-> << >>]
  /\ recovered = [p \in WithUid |-> "nothing"]

-----------------------------------------------------------------------------
(* The terminal.                                                           *)

(* The operation on the terminal is over.                                  *)
Finish(result) ==
  /\ status' = "S00" /\ current' = NoOp /\ last' = current
  /\ outcome' = [outcome EXCEPT ![current] = result]
  /\ moved' = IF result = "approved" THEN moved \union {current} ELSE moved

(* It waits for a second step, with an intermediate result.                *)
Park ==
  /\ status' = "S08" /\ last' = current
  /\ outcome' = [outcome EXCEPT ![current] = "first"]
  /\ UNCHANGED << current, moved >>

(* A one-step terminal goes on to the bank, a two-step one waits; the card *)
(* cannot be read, or its holder gives up.                                 *)
CardRead ==
  /\ status = "card"
  /\ \/ Park
     \/ status' = "bank" /\ UNCHANGED << current, last, outcome, moved >>
     \/ \E result \in {"declined", "cancelled"} : Finish(result)
  /\ UNCHANGED << at, rows, recovered >>

(* The bank answers; a refund may hang as if it had a second step.         *)
BankAnswers ==
  /\ status = "bank"
  /\ \/ \E result \in {"approved", "declined"} : Finish(result)
     \/ current \in Refunds /\ Park
  /\ UNCHANGED << at, rows, recovered >>

(* Nobody sends the second step.                                           *)
WaitsNoLonger ==
  /\ status = "S08" /\ Finish("cancelled")
  /\ UNCHANGED << at, rows, recovered >>

(* Interrupt works while the terminal waits for a card or a second step.   *)
Interrupted ==
  IF status \in {"card", "S08"} THEN Finish("cancelled") ELSE UNCHANGED terminalVars

(* POST cancel: an Interrupt that does not name an operation.              *)
CancelRequested ==
  /\ status \in {"card", "S08"} /\ Interrupted
  /\ UNCHANGED << at, rows, recovered >>

-----------------------------------------------------------------------------
(* What a result is told as: an intermediate one is none of the known ones *)
(* and hence declined.                                                     *)
Told(result) ==
  CASE result = "approved"  -> "ok"
    [] result = "cancelled" -> "cancelled"
    [] OTHER                -> "declined"

RowsFor(result) == {Told(result)} \union IF result = "declined" THEN {"failed"} ELSE {}

(* Faulty variant: the last result is taken for one's own.                 *)
AskedLast(p) == IF last = NoOp THEN "none" ELSE outcome[last]

(* get_last_result(): by its uid if it has one, else the last result.      *)
Asked(p) ==
  IF p \in WithUid THEN outcome[p] ELSE IF last = NoOp THEN "none" ELSE outcome[last]

(* The handler of p moves on, or ends with its row.                        *)
Goes(p, stage) == at' = [at EXCEPT ![p] = stage] /\ UNCHANGED << rows, recovered >>
Ends(p, row) ==
  /\ at' = [at EXCEPT ![p] = "done"]
  /\ rows' = [rows EXCEPT ![p] = Append(@, row)]
  /\ UNCHANGED recovered

-----------------------------------------------------------------------------
(* The handlers.                                                           *)

(* The request arrives and its merchant is found.                          *)
Begin(p) == at[p] = "idle" /\ Goes(p, "send") /\ UNCHANGED terminalVars

(* The terminal starts the operation, or refuses it because it is busy or  *)
(* with an error that stands for the outcome.                              *)
Started(p, next) ==
  /\ status = "S00" /\ current' = p /\ status' = next
  /\ Goes(p, "wait")
  /\ UNCHANGED << last, outcome, moved >>
Refused(p) == (\E row \in {"failed", "cancelled"} : Ends(p, row)) /\ UNCHANGED terminalVars

(* Purchase, step 1; a refund has one step and reads no card.              *)
Purchase(p) ==
  at[p] = "send" /\ p \in Charges /\ (Started(p, "card") \/ Refused(p))
Refund(p) ==
  at[p] = "send" /\ p \in Refunds /\ (Started(p, "bank") \/ Refused(p))

Idle == status \in {"S00", "S08"}

(* _wait_idle(): GetStatus says S00 or S08.                                *)
Poll(p) ==
  /\ at[p] \in {"wait", "wait2"} /\ Idle
  /\ Goes(p, IF at[p] = "wait2" THEN "result"
             ELSE IF p \in Charges THEN (IF status = "S08" THEN "parked" ELSE "first")
             ELSE (IF status = "S08" THEN "stuck" ELSE "result"))
  /\ UNCHANGED terminalVars

(* Three minutes are over: an Interrupt, if it arrives, and an error.      *)
PollTimesOut(p) ==
  /\ at[p] \in {"wait", "wait2"} /\ ~Idle
  /\ Interrupted \/ UNCHANGED terminalVars
  /\ Ends(p, "failed")

(* Nothing is known of the operation, or its row is what was told.         *)
EndsAsTold(p) ==
  IF Asked(p) = "none" THEN Ends(p, "failed")
  ELSE \E row \in RowsFor(Asked(p)) : Ends(p, row)

(* The result of the first step: the second one is due, or that was all.   *)
FirstResult(p) ==
  /\ at[p] \in {"parked", "first"}
  /\ IF Asked(p) = "first" \/ (at[p] = "parked" /\ Asked(p) # "none")
       THEN Goes(p, "send2") ELSE EndsAsTold(p)
  /\ UNCHANGED terminalVars

(* Purchase step 2: the terminal goes on with the operation it has parked, *)
(* or answers with an error.  That it refuses a step 2 of an operation it  *)
(* is not working on is taken of the terminal: the emulator accepts any.   *)
SendSecond(p) ==
  /\ at[p] = "send2"
  /\ IF status = "S08" /\ current = p
       THEN \/ /\ status' = "bank" /\ Goes(p, "wait2")
               /\ UNCHANGED << current, last, outcome, moved >>
            \/ Finish("declined") /\ Ends(p, "failed")
            \/ Finish("cancelled") /\ Ends(p, "cancelled")
       ELSE Ends(p, "failed") /\ UNCHANGED terminalVars

(* The final result; after a charge that went through, the slip is fetched.*)
Result(p) ==
  /\ at[p] = "result" /\ p \in Charges
  /\ IF Asked(p) = "approved" THEN Goes(p, "slip") ELSE EndsAsTold(p)
  /\ UNCHANGED terminalVars
RefundResult(p) ==
  /\ at[p] = "result" /\ p \in Refunds
  /\ EndsAsTold(p)
  /\ UNCHANGED terminalVars

(* With or without the slip, the charge is done.                           *)
Slip(p) == at[p] = "slip" /\ Ends(p, "ok") /\ UNCHANGED terminalVars

(* A refund with a second step: the terminal is released, if it hears it,  *)
(* and the outcome given up.                                               *)
Stuck(p) ==
  /\ at[p] = "stuck"
  /\ Interrupted \/ UNCHANGED terminalVars
  /\ Ends(p, "failed")

(* A request is about to be sent or to be answered, and may not be.        *)
Unanswered(p) ==
  at[p] \in {"send", "wait", "wait2", "parked", "first", "send2", "result"}

(* Faulty variant: a lost connection is filed as a cancelled payment.      *)
FailsAsCancelled(p) ==
  /\ Unanswered(p)
  /\ Ends(p, "cancelled")
  /\ UNCHANGED terminalVars

(* TerminalUnavailable: no connection, no answer in time, a broken frame.  *)
Fails(p) ==
  /\ Unanswered(p)
  /\ Ends(p, "failed")
  /\ UNCHANGED terminalVars

(* Faulty variant: a cancelled request leaves without its row.             *)
ClientGoneUnrecorded(p) ==
  /\ at[p] \notin {"idle", "done"}
  /\ Goes(p, "done")
  /\ UNCHANGED terminalVars

(* The browser is closed and the request cancelled, at any await.          *)
ClientGone(p) ==
  /\ at[p] \notin {"idle", "done"}
  /\ Ends(p, "unknown")
  /\ UNCHANGED terminalVars

(* GET last-result with the uid of p, for a cashier who did not get the    *)
(* answer; without a uid the answer is about no operation in particular.   *)
LastResult(p) ==
  /\ p \in WithUid /\ at[p] # "idle" /\ Asked(p) # "none"
  /\ recovered' = [recovered EXCEPT ![p] = Told(Asked(p))]
  /\ UNCHANGED << terminalVars, at, rows >>

-----------------------------------------------------------------------------
Terminal == CardRead \/ BankAnswers \/ WaitsNoLonger \/ CancelRequested
Handler(p) == Purchase(p) \/ Refund(p) \/ Poll(p) \/ PollTimesOut(p) \/ FirstResult(p)
              \/ SendSecond(p) \/ Result(p) \/ RefundResult(p) \/ Slip(p) \/ Stuck(p)
Outside(p) == Begin(p) \/ Fails(p) \/ ClientGone(p) \/ LastResult(p)

Next == Terminal \/ \E p \in Ops : Handler(p) \/ Outside(p)

(* Every request has a time limit, and the polling as a whole too.         *)
Fairness == \A p \in Ops : WF_vars(Handler(p))

Spec == Init /\ [][Next]_vars /\ Fairness

-----------------------------------------------------------------------------
Row == {"ok", "cancelled", "declined", "failed", "unknown"}

(* Every variable stays in the set its comment names.                      *)
TypeOK ==
  /\ status \in {"S00", "card", "bank", "S08"}
  /\ current \in Ops \union {NoOp} /\ (status # "S00" => current \in Ops)
  /\ last \in Ops \union {NoOp}
  /\ outcome \in [Ops -> {"none", "first", "approved", "declined", "cancelled"}]
  /\ moved \subseteq Ops
  /\ at \in [Ops -> {"idle", "send", "wait", "parked", "first", "send2", "wait2",
                     "result", "slip", "stuck", "done"}]
  /\ rows \in [Ops -> Seq(Row)]
  /\ recovered \in [WithUid -> Row \union {"nothing"}]

(* What the rows say about an operation, in the words of PaymentOutcome;   *)
(* two rows, or a row of another kind, are no word of it.                  *)
Said(p) ==
  CASE rows[p] = << >> -> "nothing"
    [] rows[p] = << "ok" >> -> "done"
    [] rows[p] \in { << "cancelled" >>, << "declined" >> } -> "refused"
    [] rows[p] \in { << "failed" >>, << "unknown" >> } -> "open"
    [] OTHER -> "contradiction"

(* An operation that names itself gets one row, which says "ok" only if its*)
(* money moved and refuses only if it never does, whoever else works with  *)
(* the terminal in between.                                                *)
Outcome == INSTANCE PaymentOutcome
             WITH Ops <- WithUid, moved <- moved \intersect WithUid,
                  said <- [p \in WithUid |-> Said(p)]
OutcomeKept == Outcome!Spec

(* What GET last-result calls paid is paid, and what it calls cancelled    *)
(* stays unpaid: a cashier may act on either.                              *)
RecoveryIsTrue ==
  \A p \in WithUid :
    /\ recovered[p] = "ok" => p \in moved
    /\ recovered[p] = "cancelled" => p \notin moved

(* Every attempt ends, with its row, also when the terminal is silent or   *)
(* the client leaves (PET-1087).                                           *)
EveryAttemptRecorded == \A p \in Ops : at[p] # "idle" ~> rows[p] # << >>

(* "failed" is not said of money that may have moved: that would be a      *)
(* guess (STATUS_UNKNOWN).                                                 *)
FailedIsNoGuess == \A p \in Ops : rows[p] = << "failed" >> => p \notin moved
=============================================================================
