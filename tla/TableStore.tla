----------------------------- MODULE TableStore -----------------------------
(***************************************************************************)
(* What an editor of tables promises.  A file holds a table, is missing, or *)
(* was lost by a failed save.  A tab has a table of its own, which nothing  *)
(* but a change in that tab alters.  Opening a file shows its table, and a  *)
(* lost file cannot be opened.  A save puts the table of one tab into one   *)
(* file, with the blank record the grid offers at its end, or loses that    *)
(* file; nothing else touches a file.                                       *)
(***************************************************************************)
EXTENDS Naturals, SequencesExt

CONSTANTS Paths, Missing, Lost

VARIABLES
  stored,         \* the table in each file
  open            \* the tabs: the file each names, and its table

Table == [width : Nat, records : Seq(Seq(Nat))]

WithBlank(table) ==
  [table EXCEPT !.records = Append(@, [j \in 1..table.width |-> 0])]

Init ==
  /\ stored \in [Paths -> Table \cup {Missing}]
  /\ open = <<>>

Open(path) ==
  /\ stored[path] \notin {Missing, Lost}
  /\ open' = Append(open, [path |-> path, table |-> stored[path]])
  /\ UNCHANGED stored

Change(i) ==
  /\ DOMAIN open' = DOMAIN open
  /\ open'[i].path = open[i].path
  /\ \A k \in DOMAIN open \ {i} : open'[k] = open[k]
  /\ UNCHANGED stored

Close(i) ==
  /\ open' = RemoveAt(open, i)
  /\ UNCHANGED stored

Save(i, path) ==
  /\ stored' = [stored EXCEPT ![path] = WithBlank(open[i].table)]
  /\ UNCHANGED open

FailToSave(path) ==
  /\ open # <<>>
  /\ stored' = [stored EXCEPT ![path] = Lost]
  /\ open' \in {open, <<>>}

CloseAll ==
  /\ open' = <<>>
  /\ UNCHANGED stored

Next ==
  \/ \E path \in Paths : Open(path) \/ FailToSave(path)
  \/ \E i \in DOMAIN open : Change(i) \/ Close(i)
  \/ \E i \in DOMAIN open, path \in Paths : Save(i, path)
  \/ CloseAll

Spec == Init /\ [][Next]_<<stored, open>>
=============================================================================
