--------------------------- MODULE PaymentOutcome ---------------------------
(***************************************************************************)
(* What the manager owes the shop about a card operation, without terminals *)
(* or connections: it says "done" only of money that moved, "refused" only *)
(* of money that never does, and speaks once; it may leave the case open.  *)
(***************************************************************************)
CONSTANT Ops             (* payments and refunds                           *)

VARIABLES moved,         (* the operations whose money moved               *)
          said           (* what was said about each                       *)

Init == moved = {} /\ said = [p \in Ops |-> "nothing"]

Move(p) ==
  /\ p \notin moved /\ said[p] # "refused"
  /\ moved' = moved \union {p}
  /\ UNCHANGED said

Say(p, word) ==
  /\ said[p] = "nothing"
  /\ word = "done" => p \in moved
  /\ word = "refused" => p \notin moved
  /\ said' = [said EXCEPT ![p] = word]
  /\ UNCHANGED moved

Next == \E p \in Ops : Move(p) \/ \E word \in {"done", "refused", "open"} : Say(p, word)

Spec == Init /\ [][Next]_<< moved, said >>
=============================================================================
