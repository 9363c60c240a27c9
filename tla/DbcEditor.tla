----------------------------- MODULE DbcEditor -----------------------------
(***************************************************************************)
(* The editor of client tables (DBC files): DBCEditor and DBCLogic.         *)
(*                                                                          *)
(* A file is a header and a body of 32-bit words: the records, then the     *)
(* string block.  Opening it puts a tab with a grid over a DataTable, whose  *)
(* columns are all of type string, so a cell is a text: the number it       *)
(* spells, Prose when it spells none, or Null.  A save writes the rows the  *)
(* grid shows, and the placeholder the grid offers for a new row.           *)
(*                                                                          *)
(* Everything runs on the UI thread and a handler runs to its end, so it is *)
(* one step; the loop of SaveAll is a step per tab, because the process may *)
(* end between two of them.  Client tables have at least one record and one *)
(* field, so that a grid always has columns.                                *)
(***************************************************************************)
EXTENDS Integers, FiniteSets, SequencesExt

CONSTANTS
  Paths, Versions, \* files, and the client versions offered when one is opened
  Definitions,    \* the types of a table's fields by version and path; <<>>
                  \* when the version's XML does not define the table
  WordSize, ByteSize, \* how many values a word (2^32) and a byte (2^8) have
  FloatText,      \* the text of the float that a word encodes
  StringText,     \* the text that begins at a word of the string block
  Prose,          \* any text that is no number, the empty one included
  Null,           \* DBNull, a cell that was left empty
  NoFile,         \* there is no file
  Files,          \* what the files may hold before the editor is started
  Typed,          \* what the user types into cells
  Queries,        \* the filters the user makes
  NoFilter,       \* a table whose default view has no RowFilter
  DiskFaults,     \* how a save may fail: "denied" before the file is opened,
                  \* "torn" while it is written, "late" when the stream's
                  \* buffer is flushed on Dispose
  MaxTabs, MaxRows \* bounds on the tabs and on the rows of a table

FieldTypes == {"uint", "int", "byte", "float", "string"}

Word == 0..(WordSize - 1)

Text == (-WordSize)..WordSize \cup {Prose, Null}

File == [magic : BOOLEAN, count : Nat, fields : Nat, block : Nat,
         body : Seq(Word)]

(* Size of a whole file's body.                                             *)
Whole(file) ==
  file.magic /\ Len(file.body) = file.count * file.fields + file.block

Query == [column : Nat \ {0}, value : Text,
          op : {"Equals", "Does Not Equal", "Contains", "Does Not Contain",
                "Greater Than", "Is Null", "Is Not Null"}]

Tab == [path : Paths, width : Nat \ {0}, rows : Seq(Seq(Text)),
        filter : Query \cup {NoFilter}, bound : {"DataTable", "BindingSource"}]

(* The grid has the columns of the table.                                   *)
Fits(tab) ==
  /\ \A i \in DOMAIN tab.rows : Len(tab.rows[i]) = tab.width
  /\ tab.filter # NoFilter => tab.filter.column <= tab.width

ASSUME DbcAssumption ==
  /\ WordSize \in Nat \ {0} /\ ByteSize \in Nat \ {0}
  /\ Definitions \in [Versions -> [Paths -> Seq(FieldTypes)]]
  /\ FloatText \in [Word -> Text]
  /\ StringText \in [Word -> Text]
  /\ Files \subseteq File
  /\ \A file \in Files : Whole(file) /\ file.count > 0 /\ file.fields > 0
  /\ NoFile \notin File
  /\ Typed \subseteq Text
  /\ Queries \subseteq Query
  /\ NoFilter \notin Query
  /\ DiskFaults \subseteq {"denied", "torn", "late"}
  /\ MaxTabs \in Nat /\ MaxRows \in Nat

VARIABLES
  disk,           \* the files
  tabs,           \* dbc_tab_control.TabPages
  selected,       \* SelectedTab by number, 0 when there is none
  job,            \* the loop of SaveAll and its locals
  status,         \* message_text, the status bar
  box             \* the last message box

vars == <<disk, tabs, selected, job, status, box>>

Says(text, n) == [text |-> text, count |-> n]

NoJob == [next |-> 0, saved |-> 0, failed |-> 0]

Waiting == job = NoJob

TypeOK ==
  /\ disk \in [Paths -> File \cup {NoFile}]
  /\ tabs \in Seq(Tab) /\ \A i \in DOMAIN tabs : Fits(tabs[i])
  /\ selected \in 0..Len(tabs)
  /\ tabs # <<>> => selected # 0
  /\ job \in [next : 0..(Len(tabs) + 1), saved : Nat, failed : Nat]
  /\ status \in [count : Nat, text : {"none", "loaded", "saved", "filtered",
                                      "cleared", "all_saved", "some_failed"}]
  /\ box \in {"none", "no_file", "invalid", "not_saved", "bad_filter",
              "no_filter"}

Init ==
  /\ disk \in [Paths -> Files \cup {NoFile}]
  /\ tabs = <<>>
  /\ selected = 0
  /\ job = NoJob
  /\ status = Says("none", 0)
  /\ box = "none"

-----------------------------------------------------------------------------
(* Reading                                                                  *)

(* LoadFieldDefinitionsFromXml, and its stand-in when it finds nothing.     *)
FieldDefinitions(path, version, file) ==
  IF Definitions[version][path] = <<>>
  THEN [j \in 1..file.fields |-> "uint"]
  ELSE Definitions[version][path]

ResolveStringOffset(offset, block) ==
  IF offset >= Len(block) THEN Prose ELSE StringText[block[offset + 1]]

(* Of the field types, only these are told apart: all others (short, long,  *)
(* bool, ...) are taken as uint.                                            *)
FieldValue(type, word, block) ==
  CASE type = "uint"   -> word
    [] type = "int"    -> IF 2 * word < WordSize THEN word ELSE word - WordSize
    [] type = "byte"   -> word % ByteSize
    [] type = "float"  -> FloatText[word]
    [] type = "string" -> ResolveStringOffset(word, block)

(* The file has its magic and does not end within a record.                 *)
Readable(file, types) ==
  file.magic /\ file.count * Len(types) <= Len(file.body)

(* As many words are read of each record as there are definitions, whatever *)
(* the header's fieldCount; what follows the last of them is taken for the  *)
(* string block.                                                            *)
StringBlock(file, types) ==
  LET read == file.count * Len(types)
  IN  [n \in 1..(IF read + file.block <= Len(file.body) THEN file.block
                  ELSE Len(file.body) - read) |-> file.body[read + n]]

Records(file, types) ==
  LET width == Len(types)
      block == StringBlock(file, types)
  IN  [i \in 1..file.count |-> [j \in 1..width |->
        FieldValue(types[j], file.body[(i - 1) * width + j], block)]]

-----------------------------------------------------------------------------
(* The grid                                                                 *)

(* DataView.RowFilter.  On one-digit numbers and one Prose, LIKE with       *)
(* wildcards on any side is equality.  Null compares to nothing.            *)
Accepts(query, text) ==
  CASE query.op \in {"Equals", "Contains"} -> text = query.value
    [] query.op \in {"Does Not Equal", "Does Not Contain"} ->
         text \notin {query.value, Null}
    [] query.op = "Greater Than" -> FALSE
    [] query.op = "Is Null" -> text = Null
    [] query.op = "Is Not Null" -> text # Null

Visible(tab, row) ==
  tab.filter = NoFilter \/ Accepts(tab.filter, row[tab.filter.column])

ShownPlaces(tab) == {i \in DOMAIN tab.rows : Visible(tab, tab.rows[i])}

NthShown(tab, n) ==
  CHOOSE i \in ShownPlaces(tab) :
    Cardinality({k \in ShownPlaces(tab) : k <= i}) = n

(* The rows on show, in the order of the table.                             *)
Shown(tab) ==
  [n \in 1..Cardinality(ShownPlaces(tab)) |-> tab.rows[NthShown(tab, n)]]

-----------------------------------------------------------------------------
(* Writing                                                                  *)

(* uint.TryParse of a cell's text, 0 if it fails.                           *)
ToWord(text) == IF text \in Word THEN text ELSE 0

(* dataGridView.Rows: the rows on show and the placeholder.                 *)
GridRows(tab) ==
  LET shown == Shown(tab)
  IN  [i \in 1..(Len(shown) + 1) |-> [j \in 1..tab.width |->
        IF i <= Len(shown) THEN ToWord(shown[i][j]) ELSE 0]]

(* The words of the records, one record after the other.                    *)
ColumnWise_Body(rows, width) ==
  [k \in 1..(Len(rows) * width) |->
     rows[((k - 1) % Len(rows)) + 1][((k - 1) \div Len(rows)) + 1]]

Body(rows, width) ==
  [k \in 1..(Len(rows) * width) |->
     rows[((k - 1) \div width) + 1][((k - 1) % width) + 1]]

ShortCount_Written(tab) ==
  LET rows == GridRows(tab)
  IN  [magic |-> TRUE, count |-> Len(rows) - 1, fields |-> tab.width,
       block |-> 0, body |-> Body(rows, tab.width)]

Written(tab) ==
  LET rows == GridRows(tab)
  IN  [magic |-> TRUE, count |-> Len(rows), fields |-> tab.width, block |-> 0,
       body |-> Body(rows, tab.width)]

NoHeader == [magic |-> FALSE, count |-> 0, fields |-> 0, block |-> 0,
             body |-> <<>>]

(* FileMode.Create empties the file; then its bytes come in order, and an   *)
(* exception or the end of the process leaves the first of them.            *)
Torn(file) ==
  {NoHeader} \cup
  {[file EXCEPT !.body = SubSeq(file.body, 1, n)] :
     n \in 0..(Len(file.body) - 1)}

(* `success' tells whether the code past the last write was reached.        *)
Write(path, file, success, exception) ==
  \/ /\ success /\ ~exception
     /\ disk' = [disk EXCEPT ![path] = file]
  \/ /\ ~success /\ exception
     /\ "denied" \in DiskFaults
     /\ UNCHANGED disk
  \/ /\ exception
     /\ IF success THEN "late" \in DiskFaults ELSE "torn" \in DiskFaults
     /\ \E rest \in Torn(file) : disk' = [disk EXCEPT ![path] = rest]

(* All but the files is gone: the process ended and was started again.      *)
NewProcess ==
  /\ tabs' = <<>>
  /\ selected' = 0
  /\ job' = NoJob
  /\ status' = Says("none", 0)
  /\ box' = "none"

DiesInWrite(path, file) ==
  /\ NewProcess
  /\ "torn" \in DiskFaults
  /\ \E rest \in Torn(file) : disk' = [disk EXCEPT ![path] = rest]

Restart == NewProcess /\ UNCHANGED disk

-----------------------------------------------------------------------------
(* Opening                                                                  *)

NewTab(path, types, file) ==
  [path |-> path, width |-> Len(types), rows |-> Records(file, types),
   filter |-> NoFilter, bound |-> "DataTable"]

(* SelectFile, for a file the user picks in the dialog and a version in the *)
(* prompt: the dialog stays open after an error.                            *)
SelectFile(path, version) ==
  /\ Waiting
  /\ disk[path] # NoFile
  /\ Len(tabs) < MaxTabs /\ disk[path].count <= MaxRows
  /\ LET types == FieldDefinitions(path, version, disk[path])
     IN  IF Readable(disk[path], types)
         THEN /\ tabs' = Append(tabs, NewTab(path, types, disk[path]))
              /\ selected' = Len(tabs) + 1
              /\ status' = Says("loaded", 0)
              /\ UNCHANGED box
         ELSE /\ box' = "invalid"
              /\ UNCHANGED <<tabs, selected, status>>
  /\ UNCHANGED <<disk, job>>

-----------------------------------------------------------------------------
(* What the user does in the grid and with the tabs                         *)

GridPlaces == IF selected = 0 THEN {} ELSE ShownPlaces(tabs[selected])

GridColumns == IF selected = 0 THEN {} ELSE 1..tabs[selected].width

EditCell(i, j, text) ==
  /\ Waiting
  /\ tabs' = [tabs EXCEPT ![selected].rows[i][j] = text]
  /\ UNCHANGED <<disk, selected, job, status, box>>

AddRow(j, text) ==
  /\ Waiting
  /\ Len(tabs[selected].rows) < MaxRows
  /\ LET row == [k \in 1..tabs[selected].width |->
                   IF k = j THEN text ELSE Null]
     IN  tabs' = [tabs EXCEPT ![selected].rows = Append(@, row)]
  /\ UNCHANGED <<disk, selected, job, status, box>>

DeleteRow(i) ==
  /\ Waiting
  /\ tabs' = [tabs EXCEPT ![selected].rows = RemoveAt(@, i)]
  /\ UNCHANGED <<disk, selected, job, status, box>>

SelectTab(i) ==
  /\ Waiting
  /\ selected' = i
  /\ UNCHANGED <<disk, tabs, job, status, box>>

NoReset_CloseCurrentTab(i) ==
  /\ Waiting
  /\ tabs' = RemoveAt(tabs, i)
  /\ UNCHANGED <<disk, selected, job, status, box>>

(* A right click selects a tab and offers to close it or all of them.  A    *)
(* TabControl selects its first tab when the selected one is removed.       *)
CloseCurrentTab(i) ==
  /\ Waiting
  /\ tabs' = RemoveAt(tabs, i)
  /\ selected' = IF Len(tabs) = 1 THEN 0 ELSE 1
  /\ UNCHANGED <<disk, job, status, box>>

CloseAllTabs ==
  /\ Waiting /\ tabs # <<>>
  /\ tabs' = <<>>
  /\ selected' = 0
  /\ UNCHANGED <<disk, job, status, box>>

(* The start menu comes back, and opens a new DBCEditor.                    *)
DBCEditor_FormClosed == Waiting /\ NewProcess /\ UNCHANGED disk

-----------------------------------------------------------------------------
(* Filters                                                                  *)

IsNumber(text) == text \notin {Prose, Null}

(* BuildFilterExpression.  A number is not quoted by (Does Not) Equal, and  *)
(* nothing is by Greater Than and its kind; the columns being strings, the  *)
(* comparison with a number throws at the first text.  Anything else after  *)
(* Greater Than is no operand.                                              *)
Unquoted(query) ==
  \/ query.op \in {"Equals", "Does Not Equal"} /\ IsNumber(query.value)
  \/ query.op = "Greater Than"

(* CreateNewFilter and ApplyFilterToTable.  BindingSource.Filter sets the   *)
(* RowFilter of the table's default view; if that throws, the rows on show  *)
(* stay the same.  A comparison of a column of nothing but Null, which does *)
(* not throw, is left out.                                                  *)
CreateNewFilter(query) ==
  /\ Waiting
  /\ IF selected = 0
     THEN /\ box' = "no_file"
          /\ UNCHANGED <<tabs, status>>
     ELSE LET tab == tabs[selected]
          IN  /\ query.column <= tab.width
              /\ IF Unquoted(query)
                 THEN /\ \E i \in DOMAIN tab.rows :
                           tab.rows[i][query.column] # Null
                      /\ box' = "bad_filter"
                      /\ UNCHANGED <<tabs, status>>
                 ELSE /\ tabs' = [tabs EXCEPT
                                    ![selected].filter = query,
                                    ![selected].bound = "BindingSource"]
                      /\ status' = Says("filtered", 0)
                      /\ UNCHANGED box
  /\ UNCHANGED <<disk, selected, job>>

(* The grid is bound to the DataTable again, and so to its default view,    *)
(* whose RowFilter nobody resets.                                           *)
ClearFilter ==
  /\ Waiting
  /\ IF selected = 0
     THEN /\ box' = "no_file"
          /\ UNCHANGED <<tabs, status>>
     ELSE IF tabs[selected].bound = "BindingSource"
     THEN /\ tabs' = [tabs EXCEPT ![selected].bound = "DataTable"]
          /\ status' = Says("cleared", 0)
          /\ UNCHANGED box
     ELSE /\ box' = "no_filter"
          /\ UNCHANGED <<tabs, status>>
  /\ UNCHANGED <<disk, selected, job>>

-----------------------------------------------------------------------------
(* Saving                                                                   *)

(* The message of success is set before the stream is disposed of.          *)
SaveTo(path, file) ==
  \/ /\ \E success, exception \in BOOLEAN :
          /\ Write(path, file, success, exception)
          /\ IF success THEN status' = Says("saved", 0) ELSE UNCHANGED status
          /\ IF exception THEN box' = "not_saved" ELSE UNCHANGED box
     /\ UNCHANGED <<tabs, selected, job>>
  \/ DiesInWrite(path, file)

NothingLoaded ==
  /\ box' = "no_file"
  /\ UNCHANGED <<disk, tabs, selected, job, status>>

SaveFile ==
  /\ Waiting
  /\ IF selected = 0 THEN NothingLoaded
     ELSE SaveTo(tabs[selected].path, Written(tabs[selected]))

(* The tab goes on naming the file it was opened from.                      *)
SaveFileAs(path) ==
  /\ Waiting
  /\ IF selected = 0 THEN NothingLoaded
     ELSE SaveTo(path, Written(tabs[selected]))

SaveAll ==
  /\ Waiting
  /\ IF tabs = <<>> THEN NothingLoaded
     ELSE /\ job' = [NoJob EXCEPT !.next = 1]
          /\ UNCHANGED <<disk, tabs, selected, status, box>>

(* A turn of the loop.  A failure late in it is counted with both.          *)
SavedOnly_Counted(success, exception) ==
  [job EXCEPT !.next = @ + 1,
              !.saved = IF success THEN @ + 1 ELSE @,
              !.failed = IF exception /\ ~success THEN @ + 1 ELSE @]

Counted(success, exception) ==
  [job EXCEPT !.next = @ + 1,
              !.saved = IF success THEN @ + 1 ELSE @,
              !.failed = IF exception THEN @ + 1 ELSE @]

SaveNext ==
  /\ job.next \in DOMAIN tabs
  /\ LET tab == tabs[job.next]
     IN  \/ /\ \E success, exception \in BOOLEAN :
                 /\ Write(tab.path, Written(tab), success, exception)
                 /\ job' = Counted(success, exception)
            /\ UNCHANGED <<tabs, selected, status, box>>
         \/ DiesInWrite(tab.path, Written(tab))

FinishSaveAll ==
  /\ job.next = Len(tabs) + 1
  /\ job' = NoJob
  /\ status' = IF job.failed > 0 THEN Says("some_failed", job.failed)
               ELSE Says("all_saved", job.saved)
  /\ UNCHANGED <<disk, tabs, selected, box>>

-----------------------------------------------------------------------------

Next ==
  \/ Restart
  \/ \E path \in Paths, version \in Versions : SelectFile(path, version)
  \/ \E i \in GridPlaces, j \in GridColumns, text \in Typed :
       EditCell(i, j, text)
  \/ \E j \in GridColumns, text \in Typed : AddRow(j, text)
  \/ \E i \in GridPlaces : DeleteRow(i)
  \/ \E i \in DOMAIN tabs : SelectTab(i) \/ CloseCurrentTab(i)
  \/ CloseAllTabs
  \/ DBCEditor_FormClosed
  \/ \E query \in Queries : CreateNewFilter(query)
  \/ ClearFilter
  \/ SaveFile
  \/ \E path \in Paths : SaveFileAs(path)
  \/ SaveAll
  \/ SaveNext
  \/ FinishSaveAll

Spec == Init /\ [][Next]_vars

-----------------------------------------------------------------------------
(* Properties                                                               *)

(* What the file of a tab holds when it was saved as the tab is now.        *)
UpToDate(i) == disk[tabs[i].path] = Written(tabs[i])

(* The last tab that names a file is the last one SaveAll writes there.     *)
LastOfItsFile(i) == \A k \in DOMAIN tabs : k > i => tabs[k].path # tabs[i].path

Behind == {i \in DOMAIN tabs : LastOfItsFile(i) /\ ~UpToDate(i)}

(* The report of SaveAll is true: when it says that all files were saved,   *)
(* every file holds what the last tab that names it shows, as many as there *)
(* are tabs; and when it counts failures, no more files than that are       *)
(* behind their tabs.  The loop goes on after a failure, and one turn may   *)
(* undo what an earlier one wrote.                                          *)
SaveAllReport ==
  [][FinishSaveAll =>
       IF status'.text = "all_saved"
       THEN Behind = {} /\ status'.count = Len(tabs)
       ELSE Cardinality(Behind) <= status'.count]_vars

(* What a failed save left of a file is never opened with as many fields as *)
(* the save wrote, or more: it ends within a record.                        *)
TornRefused ==
  [][\A path \in Paths, version \in Versions :
       /\ SelectFile(path, version)
       /\ Len(FieldDefinitions(path, version, disk[path])) >= disk[path].fields
       /\ tabs' # tabs
       => Whole(disk[path])]_vars
=============================================================================
