----------------------------- MODULE ResultView -----------------------------
(***************************************************************************)
(* What the result grid and the export promise to a user who lets one query *)
(* end before starting the next: the grid shows the whole answer of one     *)
(* query, and a file that an export wrote holds rows of one query, in the   *)
(* server's order and from the first one on.                                *)
(***************************************************************************)
EXTENDS Naturals

CONSTANTS Queries, Count, NoTable, NoFile, Torn

VARIABLES view, file

Rows(q, n) == [i \in 1..n |-> [query |-> q, nr |-> i]]

Init == view = NoTable /\ file = NoFile

Show(q) ==
  /\ view' = Rows(q, Count[q])
  /\ UNCHANGED file

Write(q, n) ==
  /\ view # NoTable
  /\ file' = Rows(q, n)
  /\ UNCHANGED view

Tear ==
  /\ view # NoTable
  /\ file' = Torn
  /\ UNCHANGED view

Next ==
  \/ Tear
  \/ \E q \in Queries : Show(q) \/ \E n \in 0..Count[q] : Write(q, n)

Spec == Init /\ [][Next]_<<view, file>>
=============================================================================
