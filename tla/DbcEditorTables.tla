--------------------------- MODULE DbcEditorTables ---------------------------
(***************************************************************************)
(* DbcEditor as an implementation of TableStore, for tables all of whose    *)
(* fields are unsigned and definitions with as many fields as the files.    *)
(***************************************************************************)
EXTENDS DbcEditor

CONSTANTS Missing, Lost

Unsigned(width) == [j \in 1..width |-> "uint"]

TableIn(file) ==
  IF file = NoFile THEN Missing
  ELSE IF Whole(file)
  THEN [width |-> file.fields, records |-> Records(file, Unsigned(file.fields))]
  ELSE Lost

ShownTable(tab) ==
  [width |-> tab.width,
   records |-> LET shown == Shown(tab)
               IN  [i \in DOMAIN shown |->
                      [j \in 1..tab.width |-> ToWord(shown[i][j])]]]

OpenTab(tab) == [path |-> tab.path, table |-> ShownTable(tab)]

StoredTables == [path \in Paths |-> TableIn(disk[path])]

OpenTabs == [i \in DOMAIN tabs |-> OpenTab(tabs[i])]

Store == INSTANCE TableStore WITH stored <- StoredTables, open <- OpenTabs

(* Whatever is edited, filtered, saved, torn or saved under another name,   *)
(* in whatever tabs: a file opened again shows what the tab showed that was *)
(* last saved there, and the blank record; what a failed save left of a     *)
(* file is never opened; and no file changes but by a save.                 *)
ImplementsTableStore == Store!Spec

(* Every file has the same number of fields, and so has every definition of *)
(* its table, all of them unsigned; what stands for a file without a table  *)
(* is no table.                                                             *)
OneWidth(width) ==
  /\ \A file \in Files : file.fields = width
  /\ \A version \in Versions, path \in Paths :
       Definitions[version][path] \in {<<>>, Unsigned(width)}

UnsignedTables ==
  /\ \E width \in Nat : OneWidth(width)
  /\ Missing \notin Store!Table /\ Lost \notin Store!Table

(* Saving keeps the width: every file that has a header and every tab has it. *)
WidthInv(width) ==
  /\ \A path \in Paths :
       disk[path] # NoFile /\ disk[path].magic => disk[path].fields = width
  /\ \A i \in DOMAIN tabs : tabs[i].width = width
=============================================================================
