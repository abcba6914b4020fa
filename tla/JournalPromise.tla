--------------------------- MODULE JournalPromise ---------------------------
(***************************************************************************)
(* What the work journal owes the shop's server, without files, restarts   *)
(* or clocks: rows are numbered upwards, no number is ever used again, and *)
(* the server gets each row at most once, in the order of the numbers.     *)
(***************************************************************************)
EXTENDS Naturals

CONSTANTS Deeds,       (* what the rows are about                          *)
          Numbers      (* the numbers a row may have, a set of naturals    *)

VARIABLES issued,      (* rows that ever got a number                      *)
          carried,     (* rows the server has                              *)
          cursor       (* the number the server asks from next time        *)

Row == [seq : Numbers, deed : Deeds]

Init == issued = {} /\ carried = {} /\ cursor = 0

Above(n, rows) == \A r \in rows : r.seq < n

Issue(r) ==
  /\ Above(r.seq, issued) /\ cursor < r.seq
  /\ issued' = issued \union {r}
  /\ UNCHANGED << carried, cursor >>

Carry(rows, last) ==
  /\ \A r \in rows : r \in issued /\ cursor < r.seq /\ r.seq <= last
  /\ carried' = carried \union rows
  /\ cursor' = last /\ cursor <= last
  /\ UNCHANGED issued

Next == \/ \E r \in Row : Issue(r)
        \/ \E rows \in SUBSET issued : \E last \in {cursor} \union { r.seq : r \in rows } :
             Carry(rows, last)

Spec == Init /\ [][Next]_<< issued, carried, cursor >>
=============================================================================
