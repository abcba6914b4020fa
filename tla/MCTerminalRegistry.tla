------------------------- MODULE MCTerminalRegistry -------------------------
(***************************************************************************)
(* Instances of TerminalRegistry for TLC, and the files an older manager   *)
(* may have left: one terminal stored up to twice, in either order, with   *)
(* the operator's work on any of the copies and an even older identifier   *)
(* on the later one, and another terminal.                                 *)
(***************************************************************************)
EXTENDS TerminalRegistry

CONSTANTS d1, d2, a1, a2, a3

Empty == [m \in Merchants |-> "absent"]

(* Nothing, a nickname, a merchant, a merchant with a nickname.            *)
Works == { w \in BOOLEAN \X [Merchants -> Known] : w[1] => w[2] = Empty }

Copy(d, a, w, known, after) ==
  [dev |-> d, addr |-> a, nick |-> w[1], merchants |-> w[2], known |-> known, after |-> after]

(* A key and the address of the copy it holds.                             *)
Keyed == { << SerialId(d1), a1 >>, << SerialId(d1), a2 >>,
           << OldId(d1, a1), a1 >>, << OldId(d1, a2), a2 >> }

Other(after) == Copy(d2, a3, << TRUE, Empty >>, {}, after)

Pair(p, q, w, v) ==
  [i \in {p[1], q[1], OldId(d2, a3)} |->
     IF i = p[1] THEN Copy(d1, p[2], w, {}, 1)
     ELSE IF i = q[1] THEN Copy(d1, q[2], v, {OldId(d1, a3)}, 0) ELSE Other(2)]

MCOldFiles ==
  { [i \in {p[1], OldId(d2, a3)} |-> IF i = p[1] THEN Copy(d1, p[2], w, {}, 1) ELSE Other(0)] :
      p \in Keyed, w \in Works }
    \union { Pair(pq[1], pq[2], w, v) :
               pq \in { x \in Keyed \X Keyed : x[1][1] # x[2][1] }, w \in Works, v \in Works }

(* The terminal is where one of its copies says; the other one has moved.  *)
MCPlaces == { [d \in Devices |-> IF d = d1 THEN a2 ELSE a1] }
=============================================================================
