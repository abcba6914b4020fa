------------------------- MODULE CardPaymentProofs -------------------------
(***************************************************************************)
(* For any number of charges and refunds: the variables of CardPayment     *)
(* keep their types, its rows keep the promise of PaymentOutcome, and what *)
(* GET last-result tells by a uid is true.                                 *)
(***************************************************************************)
EXTENDS CardPayment, TLAPS

Charged == {"parked", "first", "send2", "wait2", "slip"}

(* The operation on the terminal has no result yet, and its handler has    *)
(* sent it and not seen the terminal idle again since.                     *)
SessionInv ==
  /\ status = "S00" <=> current = NoOp
  /\ \A p \in Ops :
       /\ at[p] \in Charged => p \in Charges
       /\ current = p =>
            /\ outcome[p] \in {"none", "first"}
            /\ at[p] \notin {"idle", "send", "first", "result", "slip"}
            /\ at[p] = "wait2" => status = "bank"

(* Money moves with an approval; an intermediate result is no past one.    *)
ResultInv ==
  \A p \in Ops :
    /\ outcome[p] = "approved" <=> p \in moved
    /\ outcome[p] = "first" => current = p
    /\ at[p] \in {"idle", "send"} => outcome[p] = "none"

Stages == {"idle", "send", "wait", "parked", "first", "send2", "wait2",
           "result", "slip", "stuck", "done"}

(* The row is written when the handler ends, and only then.                *)
RowInv ==
  \A p \in Ops : IF at[p] = "done" THEN \E row \in Row : rows[p] = << row >>
                                   ELSE rows[p] = << >>

(* What is said of an operation that names itself rests on its own result. *)
WordInv ==
  \A p \in WithUid :
    /\ at[p] = "slip" => outcome[p] = "approved"
    /\ rows[p] = << "ok" >> => outcome[p] = "approved"
    /\ rows[p] \in { << "cancelled" >>, << "declined" >> } =>
         outcome[p] # "approved" /\ current # p
    /\ recovered[p] = "ok" => outcome[p] = "approved"
    /\ recovered[p] = "cancelled" => outcome[p] = "cancelled"

PaymentInv == TypeOK /\ SessionInv /\ ResultInv /\ RowInv /\ WordInv

-----------------------------------------------------------------------------
(* A journal with a row is not empty.                                      *)
LEMMA OneIsNotNone == \A row : << row >> # << >>
<1>1. TAKE row
<1>2. Len(<< row >>) = 1 /\ Len(<< >>) = 0 OBVIOUS
<1>3. QED BY <1>2

(* What the handlers do to the rows.                                       *)
LEMMA RowsGrow ==
  ASSUME TypeOK, RowInv, NEW p \in Ops, NEW row \in Row, at[p] # "done", Ends(p, row)
  PROVE  /\ at' \in [Ops -> Stages] /\ rows' \in [Ops -> Seq(Row)]
         /\ recovered' = recovered
         /\ at'[p] = "done" /\ rows'[p] = << row >>
         /\ \A q \in Ops \ {p} : at'[q] = at[q] /\ rows'[q] = rows[q]
         /\ RowInv'
<1>1. rows[p] = << >> BY DEF RowInv
<1>2. Append(<< >>, row) = << row >> /\ << row >> \in Seq(Row) OBVIOUS
<1>3. /\ at' = [at EXCEPT ![p] = "done"]
      /\ rows' = [rows EXCEPT ![p] = << row >>] /\ recovered' = recovered
  BY <1>1, <1>2 DEF Ends, TypeOK
<1>4. /\ at'[p] = "done" /\ rows'[p] = << row >>
      /\ \A q \in Ops \ {p} : at'[q] = at[q] /\ rows'[q] = rows[q]
  BY <1>3 DEF TypeOK
<1>5. at' \in [Ops -> Stages] /\ rows' \in [Ops -> Seq(Row)]
  BY <1>2, <1>3 DEF TypeOK, Stages
<1>6. RowInv' BY <1>4 DEF RowInv
<1>7. QED BY <1>3, <1>4, <1>5, <1>6

(* What the row about a result says.                                       *)
LEMMA RowTells ==
  ASSUME TypeOK, NEW p \in Ops, Asked(p) # "none", NEW row \in RowsFor(Asked(p))
  PROVE  /\ row \in Row
         /\ p \in WithUid =>
              /\ row = "ok" => outcome[p] = "approved"
              /\ row = "cancelled" => outcome[p] = "cancelled"
              /\ row = "declined" => outcome[p] \in {"declined", "first"}
<1>1. Asked(p) \in {"first", "approved", "declined", "cancelled"}
  BY OpsAssumption DEF Asked, TypeOK
<1>2. p \in WithUid => Asked(p) = outcome[p] BY DEF Asked
<1>3. QED BY <1>1, <1>2 DEF RowsFor, Told, Row

(* A handler moves on, and leaves the terminal alone.                      *)
LEMMA GoesKeeps ==
  ASSUME PaymentInv, NEW p \in Ops, at[p] # "done", UNCHANGED terminalVars,
         NEW stage \in Stages \ {"idle", "send", "done"}, Goes(p, stage),
         stage \in Charged => p \in Charges,
         current = p => stage \notin {"first", "result", "slip"} /\ stage # "wait2",
         p \in WithUid /\ stage = "slip" => outcome[p] = "approved"
  PROVE  PaymentInv'
<1>1. /\ at' = [at EXCEPT ![p] = stage] /\ at' \in [Ops -> Stages]
      /\ UNCHANGED << status, current, last, outcome, moved, rows, recovered >>
  BY DEF Goes, terminalVars, PaymentInv, TypeOK, Stages
<1>2. TypeOK' BY <1>1 DEF PaymentInv, TypeOK, Stages
<1>3. SessionInv' BY <1>1 DEF PaymentInv, SessionInv, Stages
<1>4. ResultInv' BY <1>1 DEF PaymentInv, ResultInv
<1>5. RowInv' BY <1>1 DEF PaymentInv, RowInv
<1>6. WordInv' BY <1>1, OpsAssumption DEF PaymentInv, WordInv, Ops
<1>7. QED BY <1>2, <1>3, <1>4, <1>5, <1>6 DEF PaymentInv

(* A handler ends with a row that is true, and leaves the terminal alone.  *)
LEMMA EndsKeeps ==
  ASSUME PaymentInv, NEW p \in Ops, at[p] # "done", UNCHANGED terminalVars,
         NEW row \in Row, Ends(p, row),
         p \in WithUid => /\ row = "ok" => outcome[p] = "approved"
                          /\ row \in {"cancelled", "declined"} =>
                               outcome[p] # "approved" /\ current # p
  PROVE  PaymentInv'
<1>1. /\ at' \in [Ops -> Stages] /\ rows' \in [Ops -> Seq(Row)]
      /\ UNCHANGED << status, current, last, outcome, moved, recovered >>
      /\ at'[p] = "done" /\ rows'[p] = << row >>
      /\ \A q \in Ops \ {p} : at'[q] = at[q] /\ rows'[q] = rows[q]
      /\ RowInv'
  BY RowsGrow DEF terminalVars, PaymentInv
<1>2. TypeOK' BY <1>1 DEF PaymentInv, TypeOK, Stages
<1>3. SessionInv' BY <1>1 DEF PaymentInv, SessionInv, Charged
<1>4. ResultInv' BY <1>1 DEF PaymentInv, ResultInv
<1>5. WordInv'
  <2>1. SUFFICES ASSUME NEW q \in WithUid PROVE WordInv!(q)'
    BY DEF WordInv
  <2>2. q \in Ops BY OpsAssumption DEF Ops
  <2>3. CASE q = p BY <1>1, <2>2, <2>3 DEF PaymentInv, WordInv
  <2>4. CASE q # p BY <1>1, <2>2, <2>4 DEF PaymentInv, WordInv
  <2>5. QED BY <2>3, <2>4
<1>6. QED BY <1>1, <1>2, <1>3, <1>4, <1>5 DEF PaymentInv

(* The terminal ends its operation; at most one handler ends with it, and  *)
(* says "cancelled" only of the operation that was.                        *)
LEMMA FinishKeeps ==
  ASSUME PaymentInv, current \in Ops,
         NEW result \in {"approved", "declined", "cancelled"}, Finish(result),
         at' \in [Ops -> Stages], rows' \in [Ops -> Seq(Row)], recovered' = recovered,
         RowInv',
         \A q \in Ops : \/ at'[q] = at[q] /\ rows'[q] = rows[q]
                        \/ /\ at'[q] = "done"
                           /\ \/ rows'[q] = << "failed" >>
                              \/ rows'[q] = << "cancelled" >> /\ q = current /\ result # "approved"
  PROVE  PaymentInv'
<1>1. /\ status' = "S00" /\ current' = NoOp /\ last' = current
      /\ outcome' = [outcome EXCEPT ![current] = result]
      /\ moved' = IF result = "approved" THEN moved \union {current} ELSE moved
  BY DEF Finish
<1>2. NoOp \notin Ops /\ WithUid \subseteq Ops BY OpsAssumption DEF Ops
<1>3. outcome'[current] = result /\ \A q \in Ops \ {current} : outcome'[q] = outcome[q]
  BY <1>1 DEF PaymentInv, TypeOK
<1>4. TypeOK' BY <1>1, <1>2 DEF PaymentInv, TypeOK, Stages
<1>5. SessionInv' BY <1>1, <1>2 DEF PaymentInv, SessionInv, Charged
<1>6. ResultInv' BY <1>1, <1>2, <1>3 DEF PaymentInv, ResultInv, SessionInv
<1>7. WordInv'
  <2>1. SUFFICES ASSUME NEW q \in WithUid PROVE WordInv!(q)'
    BY DEF WordInv
  <2>2. q \in Ops /\ current' # q BY <1>1, <1>2
  <2>3. CASE q = current
    <3>1. outcome[q] \in {"none", "first"} /\ at[q] # "slip"
      BY <2>2, <2>3 DEF PaymentInv, SessionInv
    <3>2. QED BY <1>3, <2>2, <2>3, <3>1 DEF PaymentInv, WordInv
  <2>4. CASE q # current BY <1>3, <2>2, <2>4 DEF PaymentInv, WordInv
  <2>5. QED BY <2>3, <2>4
<1>8. QED BY <1>4, <1>5, <1>6, <1>7 DEF PaymentInv

(* The terminal waits for a second step.                                   *)
LEMMA ParkKeeps ==
  ASSUME PaymentInv, current \in Ops, at[current] # "wait2", Park,
         UNCHANGED << at, rows, recovered >>
  PROVE  PaymentInv'
<1>1. /\ status' = "S08" /\ last' = current /\ current' = current /\ moved' = moved
      /\ outcome'[current] = "first"
      /\ \A q \in Ops \ {current} : outcome'[q] = outcome[q]
  BY DEF Park, PaymentInv, TypeOK
<1>2. NoOp \notin Ops /\ WithUid \subseteq Ops BY OpsAssumption DEF Ops
<1>3. outcome[current] \in {"none", "first"} /\ at[current] \notin {"idle", "send", "slip"}
  BY DEF PaymentInv, SessionInv
<1>4. TypeOK' BY <1>1 DEF PaymentInv, TypeOK, Park
<1>5. SessionInv' BY <1>1, <1>2 DEF PaymentInv, SessionInv, Charged
<1>6. ResultInv' BY <1>1, <1>3 DEF PaymentInv, ResultInv
<1>7. RowInv' BY DEF PaymentInv, RowInv
<1>8. WordInv' BY <1>1, <1>2, <1>3 DEF PaymentInv, WordInv
<1>9. QED BY <1>4, <1>5, <1>6, <1>7, <1>8 DEF PaymentInv

(* Nothing has happened at the start.                                      *)
LEMMA InitPayment == Init => PaymentInv
BY OpsAssumption
DEF Init, PaymentInv, TypeOK, SessionInv, ResultInv, RowInv, WordInv, Charged, Ops, Row

-----------------------------------------------------------------------------
(* Steps of the terminal keep the invariant.                               *)
LEMMA TerminalKeeps == ASSUME PaymentInv, Terminal PROVE PaymentInv'
<1>1. status # "S00" => current \in Ops BY DEF PaymentInv, TypeOK
<1>2. UNCHANGED << at, rows, recovered >> =>
        /\ at' \in [Ops -> Stages] /\ rows' \in [Ops -> Seq(Row)] /\ recovered' = recovered
        /\ RowInv'
        /\ \A q \in Ops : at'[q] = at[q] /\ rows'[q] = rows[q]
  BY DEF PaymentInv, TypeOK, RowInv, Stages
<1>3. ASSUME NEW result \in {"approved", "declined", "cancelled"}, Finish(result),
             status # "S00", UNCHANGED << at, rows, recovered >>
      PROVE  PaymentInv'
  BY <1>1, <1>2, <1>3, FinishKeeps
<1>4. CASE CardRead
  <2>1. status = "card" /\ UNCHANGED << at, rows, recovered >> BY <1>4 DEF CardRead
  <2>2. CASE Park
    <3>1. at[current] # "wait2" BY <1>1, <2>1 DEF PaymentInv, SessionInv
    <3>2. QED BY <1>1, <2>1, <2>2, <3>1, ParkKeeps
  <2>3. CASE status' = "bank" /\ UNCHANGED << current, last, outcome, moved >>
    BY <2>1, <2>3, OpsAssumption
    DEF PaymentInv, TypeOK, SessionInv, ResultInv, RowInv, WordInv, Charged, Ops
  <2>4. CASE \E result \in {"declined", "cancelled"} : Finish(result)
    BY <2>1, <2>4, <1>3
  <2>5. QED BY <1>4, <2>2, <2>3, <2>4 DEF CardRead
<1>5. CASE BankAnswers
  <2>1. status = "bank" /\ UNCHANGED << at, rows, recovered >> BY <1>5 DEF BankAnswers
  <2>2. CASE current \in Refunds /\ Park
    <3>1. current \in Ops /\ current \notin Charges
      BY <1>1, <2>1, <2>2, OpsAssumption
    <3>2. at[current] # "wait2" BY <3>1 DEF PaymentInv, SessionInv, Charged
    <3>3. QED BY <2>1, <2>2, <3>1, <3>2, ParkKeeps
  <2>3. CASE \E result \in {"approved", "declined"} : Finish(result)
    BY <2>1, <2>3, <1>3
  <2>4. QED BY <1>5, <2>2, <2>3 DEF BankAnswers
<1>6. CASE WaitsNoLonger BY <1>3, <1>6 DEF WaitsNoLonger
<1>7. CASE CancelRequested BY <1>3, <1>7 DEF CancelRequested, Interrupted
<1>8. QED BY <1>4, <1>5, <1>6, <1>7 DEF Terminal

(* A handler gives up with an Interrupt that may or may not arrive.        *)
LEMMA GivesUpKeeps ==
  ASSUME PaymentInv, NEW p \in Ops, at[p] # "done",
         Interrupted \/ UNCHANGED terminalVars, Ends(p, "failed")
  PROVE  PaymentInv'
<1>1. "failed" \in Row BY DEF Row
<1>2. CASE UNCHANGED terminalVars BY <1>1, <1>2, EndsKeeps
<1>3. CASE Finish("cancelled") /\ status # "S00"
  <2>1. current \in Ops BY <1>3 DEF PaymentInv, TypeOK
  <2>2. /\ at' \in [Ops -> Stages] /\ rows' \in [Ops -> Seq(Row)]
        /\ recovered' = recovered /\ RowInv'
        /\ at'[p] = "done" /\ rows'[p] = << "failed" >>
        /\ \A q \in Ops \ {p} : at'[q] = at[q] /\ rows'[q] = rows[q]
    BY <1>1, RowsGrow DEF PaymentInv
  <2>3. QED BY <1>3, <2>1, <2>2, FinishKeeps
<1>4. QED BY <1>2, <1>3 DEF Interrupted

(* A handler takes the result it was told for the row.                     *)
LEMMA ToldKeeps ==
  ASSUME PaymentInv, NEW p \in Ops, at[p] \in {"first", "result"}, UNCHANGED terminalVars,
         Asked(p) # "none", NEW row \in RowsFor(Asked(p)), Ends(p, row)
  PROVE  PaymentInv'
<1>1. current # p BY DEF PaymentInv, SessionInv
<1>2. outcome[p] # "first" BY <1>1 DEF PaymentInv, ResultInv
<1>3. /\ row \in Row
      /\ p \in WithUid => /\ row = "ok" => outcome[p] = "approved"
                          /\ row \in {"cancelled", "declined"} => outcome[p] # "approved"
  BY <1>2, RowTells DEF PaymentInv
<1>4. QED BY <1>1, <1>3, EndsKeeps

-----------------------------------------------------------------------------
(* One step for each thing a handler, or somebody outside, can do.         *)
LEMMA HandlerKeeps == ASSUME PaymentInv, NEW p \in Ops, Handler(p) PROVE PaymentInv'
<1>1. {"failed", "cancelled", "ok"} \subseteq Row BY DEF Row
<1>2. CASE Purchase(p) \/ Refund(p)
  <2>1. at[p] = "send" /\ current # p /\ outcome[p] = "none"
    BY <1>2 DEF Purchase, Refund, PaymentInv, SessionInv, ResultInv
  <2>2. CASE Refused(p) BY <1>1, <2>1, <2>2, EndsKeeps DEF Refused
  <2>3. ASSUME NEW next \in {"card", "bank"}, Started(p, next) PROVE PaymentInv'
    <3>1. /\ status = "S00" /\ current' = p /\ status' = next
          /\ at' = [at EXCEPT ![p] = "wait"]
          /\ UNCHANGED << rows, recovered, last, outcome, moved >>
      BY <2>3 DEF Started, Goes
    <3>2. NoOp \notin Ops /\ WithUid \subseteq Ops /\ current = NoOp
      BY <3>1, OpsAssumption DEF Ops, PaymentInv, SessionInv
    <3>3. TypeOK' BY <2>3, <3>1 DEF PaymentInv, TypeOK
    <3>4. SessionInv' BY <2>1, <2>3, <3>1, <3>2 DEF PaymentInv, TypeOK, SessionInv, Charged
    <3>5. ResultInv' BY <2>1, <2>3, <3>1, <3>2 DEF PaymentInv, TypeOK, ResultInv
    <3>6. RowInv' BY <2>1, <3>1 DEF PaymentInv, TypeOK, RowInv
    <3>7. rows[p] \notin {<< "ok" >>, << "cancelled" >>, << "declined" >>}
      BY <2>1, OneIsNotNone DEF PaymentInv, RowInv
    <3>8. WordInv' BY <2>1, <2>3, <3>1, <3>2, <3>7 DEF PaymentInv, TypeOK, WordInv
    <3>9. QED BY <3>3, <3>4, <3>5, <3>6, <3>8 DEF PaymentInv
  <2>4. QED BY <1>2, <2>2, <2>3 DEF Purchase, Refund
<1>3. CASE Poll(p)
  <2>1. at[p] \in {"wait", "wait2"} /\ Idle /\ UNCHANGED terminalVars BY <1>3 DEF Poll
  <2>2. status = "S00" => current # p
    BY OpsAssumption DEF PaymentInv, SessionInv, Ops
  <2>3. at[p] = "wait2" => p \in Charges /\ current # p
    BY <2>1, <2>2 DEF PaymentInv, SessionInv, Charged, Idle
  <2>4. PICK stage \in {"result", "parked", "first", "stuck"} :
          /\ Goes(p, stage)
          /\ stage \in {"parked", "first"} => p \in Charges
          /\ stage \in {"result", "first"} => current # p
    BY <1>3, <2>1, <2>2, <2>3 DEF Poll, Idle
  <2>5. stage \in Stages \ {"idle", "send", "done"} BY DEF Stages
  <2>6. QED BY <2>1, <2>4, <2>5, GoesKeeps DEF Charged
<1>4. CASE PollTimesOut(p) BY <1>4, GivesUpKeeps DEF PollTimesOut
<1>5. CASE FirstResult(p)
  <2>1. at[p] \in {"parked", "first"} /\ UNCHANGED terminalVars /\ p \in Charges
    BY <1>5 DEF FirstResult, PaymentInv, SessionInv, Charged
  <2>2. CASE Ends(p, "failed") BY <1>1, <2>1, <2>2, EndsKeeps
  <2>3. CASE Goes(p, "send2") BY <2>1, <2>3, GoesKeeps DEF Stages
  <2>4. CASE /\ at[p] = "first" /\ Asked(p) # "none"
             /\ \E row \in RowsFor(Asked(p)) : Ends(p, row)
    BY <2>1, <2>4, ToldKeeps
  <2>5. QED BY <1>5, <2>1, <2>2, <2>3, <2>4 DEF FirstResult, EndsAsTold
<1>6. CASE SendSecond(p)
  <2>1. at[p] = "send2" /\ p \in Charges
    BY <1>6 DEF SendSecond, PaymentInv, SessionInv, Charged
  <2>2. CASE Ends(p, "failed") /\ UNCHANGED terminalVars
    BY <1>1, <2>1, <2>2, EndsKeeps
  <2>3. CASE /\ status = "S08" /\ current = p /\ status' = "bank" /\ Goes(p, "wait2")
             /\ UNCHANGED << current, last, outcome, moved >>
    <3>1. at' = [at EXCEPT ![p] = "wait2"] /\ UNCHANGED << rows, recovered >>
      BY <2>3 DEF Goes
    <3>2. NoOp \notin Ops /\ WithUid \subseteq Ops BY OpsAssumption DEF Ops
    <3>3. TypeOK' BY <2>3, <3>1 DEF PaymentInv, TypeOK
    <3>4. SessionInv' BY <2>1, <2>3, <3>1, <3>2 DEF PaymentInv, TypeOK, SessionInv, Charged
    <3>5. ResultInv' /\ RowInv' /\ WordInv'
      BY <2>1, <2>3, <3>1, <3>2 DEF PaymentInv, TypeOK, ResultInv, RowInv, WordInv
    <3>6. QED BY <3>3, <3>4, <3>5 DEF PaymentInv
  <2>4. ASSUME NEW result \in {"declined", "cancelled"}, NEW row \in {"failed", "cancelled"},
               current = p, Finish(result), Ends(p, row)
        PROVE  PaymentInv'
    <3>1. /\ at' \in [Ops -> Stages] /\ rows' \in [Ops -> Seq(Row)]
          /\ recovered' = recovered /\ RowInv'
          /\ at'[p] = "done" /\ rows'[p] = << row >>
          /\ \A q \in Ops \ {p} : at'[q] = at[q] /\ rows'[q] = rows[q]
      BY <1>1, <2>1, <2>4, RowsGrow DEF PaymentInv
    <3>2. QED BY <2>4, <3>1, FinishKeeps
  <2>5. QED BY <1>6, <2>2, <2>3, <2>4 DEF SendSecond
<1>7. CASE Result(p) \/ RefundResult(p)
  <2>1. at[p] = "result" /\ UNCHANGED terminalVars BY <1>7 DEF Result, RefundResult
  <2>2. CASE Ends(p, "failed") BY <1>1, <2>1, <2>2, EndsKeeps
  <2>3. CASE Asked(p) = "approved" /\ p \in Charges /\ Goes(p, "slip")
    <3>1. current # p BY <2>1 DEF PaymentInv, SessionInv
    <3>2. p \in WithUid => outcome[p] = "approved" BY <2>3 DEF Asked
    <3>3. QED BY <2>1, <2>3, <3>1, <3>2, GoesKeeps DEF Stages
  <2>4. CASE Asked(p) # "none" /\ \E row \in RowsFor(Asked(p)) : Ends(p, row)
    BY <2>1, <2>4, ToldKeeps
  <2>5. QED BY <1>7, <2>1, <2>2, <2>3, <2>4 DEF Result, RefundResult, EndsAsTold
<1>8. CASE Slip(p)
  <2>1. p \in WithUid => outcome[p] = "approved"
    BY <1>8 DEF Slip, PaymentInv, WordInv
  <2>2. QED BY <1>1, <1>8, <2>1, EndsKeeps DEF Slip
<1>9. CASE Stuck(p) BY <1>9, GivesUpKeeps DEF Stuck
<1>10. QED BY <1>2, <1>3, <1>4, <1>5, <1>6, <1>7, <1>8, <1>9 DEF Handler

(* Steps of clients and of other requests keep the invariant.              *)
LEMMA OutsideKeeps == ASSUME PaymentInv, NEW p \in Ops, Outside(p) PROVE PaymentInv'
<1>1. CASE Begin(p)
  <2>1. at' = [at EXCEPT ![p] = "send"] /\ at[p] = "idle"
        /\ UNCHANGED << status, current, last, outcome, moved, rows, recovered >>
    BY <1>1 DEF Begin, Goes, terminalVars
  <2>2. WithUid \subseteq Ops BY OpsAssumption DEF Ops
  <2>3. TypeOK' /\ RowInv' BY <2>1 DEF PaymentInv, TypeOK, RowInv
  <2>4. SessionInv' /\ ResultInv' /\ WordInv'
    BY <2>1, <2>2 DEF PaymentInv, TypeOK, SessionInv, ResultInv, WordInv, Charged
  <2>5. QED BY <2>3, <2>4 DEF PaymentInv
<1>2. CASE Fails(p) \/ ClientGone(p)
  <2>1. at[p] # "done" /\ UNCHANGED terminalVars
        /\ \E row \in {"failed", "unknown"} : Ends(p, row)
    BY <1>2 DEF Fails, Unanswered, ClientGone
  <2>2. {"failed", "unknown"} \subseteq Row BY DEF Row
  <2>3. QED BY <2>1, <2>2, EndsKeeps
<1>3. CASE LastResult(p)
  <2>1. p \in WithUid /\ outcome[p] # "none"
        /\ recovered' = [recovered EXCEPT ![p] = Told(outcome[p])]
        /\ UNCHANGED << status, current, last, outcome, moved, at, rows >>
    BY <1>3 DEF LastResult, Asked, terminalVars
  <2>2. outcome[p] \in {"first", "approved", "declined", "cancelled"}
    BY <2>1 DEF PaymentInv, TypeOK
  <2>3. /\ Told(outcome[p]) \in Row
        /\ Told(outcome[p]) = "ok" => outcome[p] = "approved"
        /\ Told(outcome[p]) = "cancelled" => outcome[p] = "cancelled"
    BY <2>2 DEF Told, Row
  <2>4. TypeOK' BY <2>1, <2>3 DEF PaymentInv, TypeOK
  <2>5. SessionInv' /\ ResultInv' /\ RowInv'
    BY <2>1 DEF PaymentInv, SessionInv, ResultInv, RowInv
  <2>6. WordInv' BY <2>1, <2>3 DEF PaymentInv, TypeOK, WordInv
  <2>7. QED BY <2>4, <2>5, <2>6 DEF PaymentInv
<1>4. QED BY <1>1, <1>2, <1>3 DEF Outside

(* The invariant holds in every behaviour.                                 *)
LEMMA PaymentAlways == Spec => []PaymentInv
<1>1. PaymentInv /\ [Next]_vars => PaymentInv'
  <2>1. PaymentInv /\ UNCHANGED vars => PaymentInv'
    BY DEF vars, PaymentInv, TypeOK, SessionInv, ResultInv, RowInv, WordInv
  <2>2. PaymentInv /\ Next => PaymentInv'
    BY TerminalKeeps, HandlerKeeps, OutsideKeeps DEF Next
  <2>3. QED BY <2>1, <2>2
<1>2. QED BY <1>1, InitPayment, PTL DEF Spec

-----------------------------------------------------------------------------
(* Every variable of the model keeps its type, for any charges and refunds.*)
THEOREM TypeCorrect == Spec => []TypeOK
<1>1. PaymentInv => TypeOK BY DEF PaymentInv
<1>2. QED BY <1>1, PaymentAlways, PTL

(* What GET last-result calls paid is paid, and what it calls cancelled    *)
(* stays unpaid.                                                           *)
THEOREM RecoveryTellsTheTruth == Spec => []RecoveryIsTrue
<1>1. PaymentInv => RecoveryIsTrue
  BY OpsAssumption DEF PaymentInv, WordInv, ResultInv, RecoveryIsTrue, Ops
<1>2. QED BY <1>1, PaymentAlways, PTL

(* A step of the code either leaves the rows alone, and moves the money of *)
(* the operation on the terminal at most, or writes one row, and moves none.*)
LEMMA MovesOrWrites ==
  ASSUME PaymentInv, Next
  PROVE  \/ rows' = rows /\ moved' = moved
         \/ /\ rows' = rows /\ moved' = moved \union {current}
            /\ current \in Ops
         \/ /\ moved' = moved
            /\ \E p \in Ops, row \in Row :
                 rows[p] = << >> /\ rows' = [rows EXCEPT ![p] = << row >>]
<1>1. status # "S00" => current \in Ops BY DEF PaymentInv, TypeOK
<1>2. CASE Terminal
  BY <1>1, <1>2 DEF Terminal, CardRead, BankAnswers, WaitsNoLonger, CancelRequested,
                    Interrupted, Park, Finish
<1>3. ASSUME NEW p \in Ops, Handler(p) \/ Outside(p)
      PROVE  /\ moved' = moved
             /\ \/ rows' = rows
                \/ at[p] # "done" /\ \E row \in Row : Ends(p, row)
  <2>1. Interrupted \/ UNCHANGED terminalVars => moved' = moved
    BY DEF Interrupted, Finish, terminalVars
  <2>2. {"ok", "failed", "cancelled", "unknown"} \subseteq Row BY DEF Row
  <2>3. CASE Begin(p) \/ LastResult(p) \/ Poll(p)
    BY <2>3 DEF Begin, LastResult, Poll, Goes, terminalVars
  <2>4. CASE Fails(p) \/ ClientGone(p) \/ Slip(p)
    BY <2>2, <2>4 DEF Fails, Unanswered, ClientGone, Slip, terminalVars
  <2>5. CASE PollTimesOut(p) \/ Stuck(p)
    BY <2>1, <2>2, <2>5 DEF PollTimesOut, Stuck
  <2>6. CASE Purchase(p) \/ Refund(p)
    BY <2>2, <2>6 DEF Purchase, Refund, Started, Refused, Goes, terminalVars
  <2>7. CASE SendSecond(p) BY <2>2, <2>7 DEF SendSecond, Goes, Finish, terminalVars
  <2>8. CASE FirstResult(p) \/ Result(p) \/ RefundResult(p)
    <3>1. at[p] # "done" /\ moved' = moved
      BY <2>8 DEF FirstResult, Result, RefundResult, terminalVars
    <3>2. Asked(p) # "none" => RowsFor(Asked(p)) \subseteq Row
      BY RowTells DEF PaymentInv
    <3>3. QED BY <2>2, <2>8, <3>1, <3>2
      DEF FirstResult, Result, RefundResult, EndsAsTold, Goes
  <2>9. QED BY <1>3, <2>3, <2>4, <2>5, <2>6, <2>7, <2>8 DEF Handler, Outside
<1>4. ASSUME NEW p \in Ops, NEW row \in Row, at[p] # "done", Ends(p, row)
      PROVE  rows[p] = << >> /\ rows' = [rows EXCEPT ![p] = << row >>]
  <2>1. rows[p] = << >> BY <1>4 DEF PaymentInv, RowInv
  <2>2. Append(<< >>, row) = << row >> OBVIOUS
  <2>3. QED BY <1>4, <2>1, <2>2 DEF Ends
<1>5. QED BY <1>2, <1>3, <1>4 DEF Next

(* What the rows say in the words of PaymentOutcome.                       *)
SaidInv ==
  \A p \in Ops :
    /\ rows[p] = << >> => Said(p) = "nothing"
    /\ rows[p] # << >> => Said(p) \in {"done", "refused", "open"}
    /\ p \in WithUid =>
         /\ Said(p) = "done" => p \in moved
         /\ Said(p) = "refused" => p \notin moved /\ current # p

(* What a row says is what the invariant says of its operation.            *)
LEMMA SaidOfRows == PaymentInv => SaidInv
<1>1. SUFFICES ASSUME PaymentInv, NEW p \in Ops PROVE SaidInv!(p)
  BY DEF SaidInv
<1>2. rows[p] = << >> \/ \E row \in Row : rows[p] = << row >>
  BY <1>1 DEF PaymentInv, RowInv
<1>3. ASSUME NEW row \in Row, rows[p] = << row >>
      PROVE  /\ Said(p) \in {"done", "refused", "open"}
             /\ Said(p) = "done" => rows[p] = << "ok" >>
             /\ Said(p) = "refused" => rows[p] \in {<< "cancelled" >>, << "declined" >>}
  BY <1>3 DEF Said, Row
<1>4. rows[p] = << >> => Said(p) = "nothing" BY DEF Said
<1>5. QED BY <1>1, <1>2, <1>3, <1>4 DEF PaymentInv, WordInv, ResultInv

(* Every step of the code moves, says, or changes nothing the shop sees.   *)
LEMMA OutcomeStep ==
  ASSUME PaymentInv, SaidInv, SaidInv', [Next]_vars
  PROVE  [Outcome!Next]_<< moved \intersect WithUid, [p \in WithUid |-> Said(p)] >>
<1> DEFINE paid == moved \intersect WithUid
           said == [p \in WithUid |-> Said(p)]
<1>1. WithUid \subseteq Ops BY OpsAssumption DEF Ops
<1>2. rows' = rows => said' = said BY DEF Said
<1>3. CASE UNCHANGED << rows, moved >> BY <1>2, <1>3
<1>4. CASE rows' = rows /\ moved' = moved \union {current} /\ current \in Ops
  <2>1. CASE current \notin WithUid \/ current \in moved BY <1>2, <1>4, <2>1
  <2>2. CASE current \in WithUid /\ current \notin moved
    <3>1. said[current] # "refused" BY <1>4, <2>2 DEF SaidInv
    <3>2. Outcome!Move(current) BY <1>2, <1>4, <2>2, <3>1 DEF Outcome!Move
    <3>3. QED BY <2>2, <3>2 DEF Outcome!Next
  <2>3. QED BY <2>1, <2>2
<1>5. ASSUME moved' = moved, NEW p \in Ops, NEW row \in Row,
             rows[p] = << >>, rows' = [rows EXCEPT ![p] = << row >>]
      PROVE  [Outcome!Next]_<< paid, said >>
  <2>1. rows'[p] = << row >> /\ \A q \in Ops \ {p} : rows'[q] = rows[q]
    BY <1>5 DEF PaymentInv, TypeOK
  <2>2. \A q \in WithUid \ {p} : said'[q] = said[q] BY <1>1, <2>1 DEF Said
  <2>3. CASE p \notin WithUid
    <3>1. said' = said BY <2>2, <2>3
    <3>2. QED BY <1>5, <3>1
  <2>4. CASE p \in WithUid
    <3>1. said[p] = "nothing" BY <1>5, <2>4 DEF SaidInv
    <3>2. << row >> # << >> OBVIOUS
    <3>3. Said(p)' \in {"done", "refused", "open"}
          /\ (Said(p)' = "done" => p \in moved) /\ (Said(p)' = "refused" => p \notin moved)
      <4>1. /\ rows'[p] # << >> => Said(p)' \in {"done", "refused", "open"}
            /\ Said(p)' = "done" => p \in moved'
            /\ Said(p)' = "refused" => p \notin moved'
        BY <1>5, <2>4 DEF SaidInv
      <4>2. QED BY <1>5, <2>1, <3>2, <4>1
    <3>4. said' = [said EXCEPT ![p] = Said(p)'] BY <2>2, <2>4
    <3>5. Outcome!Say(p, Said(p)')
      BY <1>5, <2>4, <3>1, <3>3, <3>4 DEF Outcome!Say
    <3>6. QED BY <2>4, <3>3, <3>5 DEF Outcome!Next
  <2>5. QED BY <2>3, <2>4
<1>6. CASE Next BY <1>3, <1>4, <1>5, <1>6, MovesOrWrites
<1>7. CASE UNCHANGED vars BY <1>3, <1>7 DEF vars
<1>8. QED BY <1>6, <1>7

(* CardPayment implements PaymentOutcome: one row about each attempt, which*)
(* says "ok" only of money that moved and refuses only what never does.    *)
THEOREM OutcomeIsKept == Spec => OutcomeKept
<1>1. Init => Outcome!Init
  BY OpsAssumption DEF Init, Outcome!Init, Said, Ops
<1>2. PaymentInv /\ SaidInv /\ SaidInv' /\ [Next]_vars
        => [Outcome!Next]_<< moved \intersect WithUid, [p \in WithUid |-> Said(p)] >>
  BY OutcomeStep
<1>3. QED BY <1>1, <1>2, SaidOfRows, PaymentAlways, PTL DEF Spec, OutcomeKept, Outcome!Spec

=============================================================================
