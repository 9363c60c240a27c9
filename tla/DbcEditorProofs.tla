--------------------------- MODULE DbcEditorProofs ---------------------------
(* For any files, definitions, texts, filters and faults: the variables of   *)
(* the table editor keep their types, and what a failed save left of a file  *)
(* is never opened as a table.                                               *)
EXTENDS DbcEditorTables, SequenceLemmas, FiniteSetTheorems

-----------------------------------------------------------------------------
(* Reading *)

(* What a word stands for is a text, whatever the type of its field.         *)
LEMMA FieldValueType ==
  ASSUME NEW type \in FieldTypes, NEW word \in Word, NEW block \in Seq(Word)
  PROVE  FieldValue(type, word, block) \in Text
<1> USE DbcAssumption
<1>1. CASE type = "uint"
  BY <1>1 DEF FieldValue, Word, Text
<1>2. CASE type = "int"
  BY <1>2 DEF FieldValue, Word, Text
<1>3. CASE type = "byte"
  <2>1. word % ByteSize \in 0..word
    <3>1. word \in Nat
      BY DEF Word
    <3> QED BY <3>1, Remainder
  <2>2. FieldValue(type, word, block) = word % ByteSize
    BY <1>3 DEF FieldValue
  <2> QED BY <2>1, <2>2 DEF Word, Text
<1>4. CASE type = "float"
  BY <1>4 DEF FieldValue
<1>5. CASE type = "string"
  <2>1. CASE word >= Len(block)
    BY <1>5, <2>1 DEF FieldValue, ResolveStringOffset, Text
  <2>2. CASE ~ (word >= Len(block))
    <3>1. word + 1 \in 1..Len(block)
      BY <2>2 DEF Word
    <3>2. block[word + 1] \in Word
      BY <3>1
    <3> QED BY <1>5, <2>2, <3>2 DEF FieldValue, ResolveStringOffset
  <2> QED BY <2>1, <2>2
<1> QED BY <1>1, <1>2, <1>3, <1>4, <1>5 DEF FieldTypes

(* The definitions found for a file are field types.                         *)
LEMMA FieldDefinitionsType ==
  ASSUME NEW path \in Paths, NEW version \in Versions, NEW file \in File
  PROVE  /\ FieldDefinitions(path, version, file) \in Seq(FieldTypes)
         /\ file.fields > 0 =>
              Len(FieldDefinitions(path, version, file)) > 0
<1>1. Definitions[version][path] \in Seq(FieldTypes)
  BY DbcAssumption
<1> DEFINE uints == [j \in 1..file.fields |-> "uint"]
<1>2. file.fields \in Nat
  BY DEF File
<1>3. uints \in Seq(FieldTypes) /\ Len(uints) = file.fields
  BY <1>2 DEF FieldTypes
<1> HIDE DEF uints
<1>4. CASE Definitions[version][path] = <<>>
  BY <1>3, <1>4 DEF FieldDefinitions, uints
<1>5. CASE Definitions[version][path] # <<>>
  <2>1. Len(Definitions[version][path]) > 0
    BY <1>1, <1>5
  <2> QED BY <1>1, <1>5, <2>1 DEF FieldDefinitions
<1> QED BY <1>4, <1>5

(* A readable file gives rows of texts, each as long as the definitions.     *)
LEMMA RecordsType ==
  ASSUME NEW file \in File, NEW types \in Seq(FieldTypes),
         Readable(file, types)
  PROVE  /\ Records(file, types) \in Seq(Seq(Text))
         /\ \A i \in DOMAIN Records(file, types) :
              Len(Records(file, types)[i]) = Len(types)
<1> DEFINE width == Len(types)
           block == StringBlock(file, types)
           value(i, j) ==
             FieldValue(types[j], file.body[(i - 1) * width + j], block)
           row(i) == [j \in 1..width |-> value(i, j)]
<1>1. /\ file.count \in Nat /\ file.block \in Nat
      /\ file.body \in Seq(Word)
      /\ width \in Nat
      /\ file.count * width \in Nat
      /\ file.count * width <= Len(file.body)
  BY DEF File, Readable
<1>2. block \in Seq(Word)
  <2> DEFINE read == file.count * width
             size == IF read + file.block <= Len(file.body) THEN file.block
                     ELSE Len(file.body) - read
  <2>1. read \in Nat /\ read <= Len(file.body)
    BY <1>1
  <2> HIDE DEF read
  <2>2. size \in Nat /\ read + size <= Len(file.body)
    BY <1>1, <2>1
  <2> HIDE DEF size
  <2>3. \A n \in 1..size : file.body[read + n] \in Word
    <3> SUFFICES ASSUME NEW n \in 1..size PROVE file.body[read + n] \in Word
      OBVIOUS
    <3>1. read + n \in 1..Len(file.body)
      BY <1>1, <2>1, <2>2
    <3> QED BY <1>1, <3>1
  <2>4. [n \in 1..size |-> file.body[read + n]] \in Seq(Word)
    BY <2>2, <2>3
  <2> QED BY <2>4 DEF StringBlock, read, size
<1> HIDE DEF block
<1>3. \A i \in 1..file.count, j \in 1..width : value(i, j) \in Text
  <2> SUFFICES ASSUME NEW i \in 1..file.count, NEW j \in 1..width
               PROVE  value(i, j) \in Text
    OBVIOUS
  <2>1. (i - 1) * width + j \in 1..(file.count * width)
    BY <1>1, PlaceOf
  <2>2. (i - 1) * width + j \in 1..Len(file.body)
    BY <1>1, <2>1
  <2>3. file.body[(i - 1) * width + j] \in Word
    BY <1>1, <2>2
  <2>4. types[j] \in FieldTypes
    OBVIOUS
  <2> QED BY <1>2, <2>3, <2>4, FieldValueType
<1> HIDE DEF value
<1>4. \A i \in 1..file.count : row(i) \in Seq(Text) /\ Len(row(i)) = width
  <2> SUFFICES ASSUME NEW i \in 1..file.count
               PROVE  row(i) \in Seq(Text) /\ Len(row(i)) = width
    OBVIOUS
  <2>1. \A j \in 1..width : value(i, j) \in Text
    BY <1>3
  <2> QED BY <1>1, <2>1
<1> HIDE DEF row
<1>5. [i \in 1..file.count |-> row(i)] \in Seq(Seq(Text))
  <2>1. \A i \in 1..file.count : row(i) \in Seq(Text)
    BY <1>4
  <2>2. [i \in 1..file.count |-> row(i)] \in [1..file.count -> Seq(Text)]
    BY <2>1
  <2>3. file.count \in Nat
    BY <1>1
  <2> QED BY ONLY <2>2, <2>3, FunctionIsSequence
<1>6. Records(file, types) = [i \in 1..file.count |-> row(i)]
  BY DEF Records, row, value, block
<1> QED BY <1>1, <1>4, <1>5, <1>6

-----------------------------------------------------------------------------
(* Writing *)

(* The grid shows a number of rows.                                          *)
LEMMA ShownCount ==
  ASSUME NEW tab \in Tab
  PROVE  Cardinality(ShownPlaces(tab)) \in Nat
<1>1. tab.rows \in Seq(Seq(Text))
  BY DEF Tab
<1>2. IsFiniteSet(1..Len(tab.rows))
  BY <1>1, FS_Interval
<1>3. ShownPlaces(tab) \subseteq 1..Len(tab.rows)
  BY <1>1 DEF ShownPlaces
<1>4. IsFiniteSet(ShownPlaces(tab))
  BY <1>2, <1>3, FS_Subset
<1> QED BY <1>4, FS_CardinalityType

(* A save writes a whole file, with the tab's columns as its fields.         *)
LEMMA WrittenType ==
  ASSUME NEW tab \in Tab
  PROVE  /\ Written(tab) \in File
         /\ Whole(Written(tab))
         /\ Written(tab).magic
         /\ Written(tab).fields > 0
         /\ Written(tab).block = 0
<1> DEFINE shown == Shown(tab)
           n == Len(shown) + 1
           w == tab.width
           rows == GridRows(tab)
<1>1. Cardinality(ShownPlaces(tab)) \in Nat
  BY ShownCount
<1>2. Len(shown) \in Nat
  BY <1>1 DEF Shown
<1>3. w \in Nat \ {0}
  BY DEF Tab
<1>4. 0 \in Word /\ \A text : ToWord(text) \in Word
  BY DbcAssumption DEF ToWord, Word
<1>5. rows = [i \in 1..n |-> [j \in 1..w |->
                IF i <= Len(shown) THEN ToWord(shown[i][j]) ELSE 0]]
  BY DEF GridRows
<1> HIDE DEF shown, rows
<1>6. n \in Nat
  BY <1>2
<1> HIDE DEF n
<1>7. Len(rows) = n
  BY <1>5, <1>6
<1>8. \A i \in 1..n, j \in 1..w : rows[i][j] \in Word
  <2> SUFFICES ASSUME NEW i \in 1..n, NEW j \in 1..w
               PROVE  rows[i][j] \in Word
    OBVIOUS
  <2>1. rows[i] = [k \in 1..w |->
                     IF i <= Len(shown) THEN ToWord(shown[i][k]) ELSE 0]
    BY <1>5
  <2>2. rows[i][j] = IF i <= Len(shown) THEN ToWord(shown[i][j]) ELSE 0
    BY <2>1
  <2> QED BY <1>4, <2>2
<1>9. n * w \in Nat
  BY <1>3, <1>6
<1>10. \A k \in 1..(n * w) :
         rows[((k - 1) \div w) + 1][((k - 1) % w) + 1] \in Word
  <2> SUFFICES ASSUME NEW k \in 1..(n * w)
               PROVE  rows[((k - 1) \div w) + 1][((k - 1) % w) + 1] \in Word
    OBVIOUS
  <2>1. /\ ((k - 1) \div w) + 1 \in 1..n
        /\ ((k - 1) % w) + 1 \in 1..w
    BY <1>3, <1>6, RowAndColumn
  <2> QED BY <1>8, <2>1
<1>11. Body(rows, w) \in Seq(Word) /\ Len(Body(rows, w)) = n * w
  BY <1>7, <1>9, <1>10 DEF Body
<1>12. Written(tab) = [magic |-> TRUE, count |-> n, fields |-> w,
                       block |-> 0, body |-> Body(rows, w)]
  BY <1>7 DEF Written, rows
<1> QED BY <1>3, <1>6, <1>9, <1>11, <1>12 DEF File, Whole

(* A file is whole, has no magic, or ends within a record.                   *)
WholeOrCut(file) ==
  file.magic =>
    /\ file.fields > 0
    /\ Whole(file) \/ Len(file.body) < file.count * file.fields

(* What a failed save leaves is a file, and it is cut.                       *)
LEMMA TornType ==
  ASSUME NEW tab \in Tab, NEW rest \in Torn(Written(tab))
  PROVE  rest \in File /\ WholeOrCut(rest)
<1> DEFINE file == Written(tab)
<1>1. /\ file \in File
      /\ Whole(file)
      /\ file.fields > 0
      /\ file.block = 0
  BY WrittenType
<1> HIDE DEF file
<1>2. CASE rest = NoHeader
  BY <1>2 DEF NoHeader, File, WholeOrCut
<1>3. CASE rest \in {[file EXCEPT !.body = SubSeq(file.body, 1, n)] :
                       n \in 0..(Len(file.body) - 1)}
  <2>1. PICK n \in 0..(Len(file.body) - 1) :
          rest = [file EXCEPT !.body = SubSeq(file.body, 1, n)]
    BY <1>3
  <2>2. file.body \in Seq(Word) /\ file.count \in Nat /\ file.fields \in Nat
    BY <1>1 DEF File
  <2>3. n \in Nat /\ n < Len(file.body)
    BY <2>2
  <2>4. /\ SubSeq(file.body, 1, n) \in Seq(Word)
        /\ Len(SubSeq(file.body, 1, n)) = n
    BY <2>2, <2>3
  <2>5. Len(file.body) = file.count * file.fields
    BY <1>1, <2>2 DEF Whole
  <2>6. rest \in File
    BY <1>1, <2>1, <2>4 DEF File
  <2>7. /\ rest.count = file.count /\ rest.fields = file.fields
        /\ Len(rest.body) = n
    BY <1>1, <2>1, <2>4 DEF File
  <2> QED BY <1>1, <2>3, <2>5, <2>6, <2>7 DEF WholeOrCut
<1> QED BY <1>2, <1>3 DEF Torn, file

-----------------------------------------------------------------------------
(* The inductive invariant *)

(* Every file on the disk is whole or cut.                                   *)
FilesKnown ==
  \A path \in Paths : disk[path] # NoFile => WholeOrCut(disk[path])

IInv == TypeOK /\ FilesKnown

(* A file that is whole or cut may be put on the disk.                       *)
LEMMA FilePut ==
  ASSUME IInv, NEW path \in Paths, NEW file \in File, WholeOrCut(file),
         disk' = [disk EXCEPT ![path] = file]
  PROVE  disk' \in [Paths -> File \cup {NoFile}] /\ FilesKnown'
<1>1. disk \in [Paths -> File \cup {NoFile}]
  BY DEF IInv, TypeOK
<1>2. disk' \in [Paths -> File \cup {NoFile}]
  BY <1>1
<1>3. \A p \in Paths : disk'[p] = IF p = path THEN file ELSE disk[p]
  BY <1>1
<1>4. FilesKnown'
  BY <1>3 DEF IInv, FilesKnown, WholeOrCut, Whole
<1> QED BY <1>2, <1>4

(* Torn files may.                                                           *)
LEMMA TornPut ==
  ASSUME IInv, NEW path \in Paths, NEW tab \in Tab,
         \E rest \in Torn(Written(tab)) : disk' = [disk EXCEPT ![path] = rest]
  PROVE  disk' \in [Paths -> File \cup {NoFile}] /\ FilesKnown'
<1>1. PICK rest \in Torn(Written(tab)) : disk' = [disk EXCEPT ![path] = rest]
  OBVIOUS
<1>2. rest \in File /\ WholeOrCut(rest)
  BY TornType
<1> QED BY <1>1, <1>2, FilePut

(* However a save ends.                                                      *)
LEMMA WritePut ==
  ASSUME IInv, NEW path \in Paths, NEW tab \in Tab,
         NEW success \in BOOLEAN, NEW exception \in BOOLEAN,
         Write(path, Written(tab), success, exception)
  PROVE  disk' \in [Paths -> File \cup {NoFile}] /\ FilesKnown'
<1>1. Written(tab) \in File /\ WholeOrCut(Written(tab))
  BY WrittenType DEF WholeOrCut
<1>2. CASE disk' = [disk EXCEPT ![path] = Written(tab)]
  BY <1>1, <1>2, FilePut
<1>3. CASE UNCHANGED disk
  BY <1>3 DEF IInv, TypeOK, FilesKnown
<1>4. CASE \E rest \in Torn(Written(tab)) :
             disk' = [disk EXCEPT ![path] = rest]
  BY <1>4, TornPut
<1> QED BY <1>2, <1>3, <1>4 DEF Write

(* The state after a start of the process.                                   *)
LEMMA NewProcessInv ==
  ASSUME NewProcess, disk' \in [Paths -> File \cup {NoFile}], FilesKnown'
  PROVE  IInv'
BY DEF NewProcess, IInv, TypeOK, NoJob, Says

(* A tab may be replaced by one that fits its grid.                          *)
LEMMA TabChanged ==
  ASSUME TypeOK, NEW i \in DOMAIN tabs, NEW tab \in Tab, Fits(tab),
         tabs' = [tabs EXCEPT ![i] = tab]
  PROVE  /\ tabs' \in Seq(Tab) /\ Len(tabs') = Len(tabs)
         /\ \A k \in DOMAIN tabs' : Fits(tabs'[k])
<1>1. tabs \in Seq(Tab) /\ \A k \in DOMAIN tabs : Fits(tabs[k])
  BY DEF TypeOK
<1>2. tabs' \in Seq(Tab) /\ Len(tabs') = Len(tabs)
  BY <1>1
<1>3. \A k \in 1..Len(tabs) : tabs'[k] = IF k = i THEN tab ELSE tabs[k]
  BY <1>1
<1>4. \A k \in DOMAIN tabs' : Fits(tabs'[k])
  <2> SUFFICES ASSUME NEW k \in DOMAIN tabs' PROVE Fits(tabs'[k])
    OBVIOUS
  <2>1. k \in 1..Len(tabs)
    BY <1>2
  <2>2. CASE k = i
    BY <1>3, <2>1, <2>2
  <2>3. CASE k # i
    BY <1>1, <1>3, <2>1, <2>3
  <2> QED BY <2>2, <2>3
<1> QED BY <1>2, <1>4

(* A step that changes tabs only, and their number not at all.               *)
LEMMA SameNumber ==
  ASSUME IInv, Waiting, UNCHANGED <<disk, selected, job>>,
         tabs' \in Seq(Tab), Len(tabs') = Len(tabs),
         \A k \in DOMAIN tabs' : Fits(tabs'[k]),
         status' \in [count : Nat, text : {"none", "loaded", "saved",
                                           "filtered", "cleared", "all_saved",
                                           "some_failed"}],
         box' \in {"none", "no_file", "invalid", "not_saved", "bad_filter",
                   "no_filter"}
  PROVE  IInv'
<1>1. tabs' # <<>> => tabs # <<>>
  BY DEF IInv, TypeOK
<1> QED BY <1>1 DEF IInv, TypeOK, FilesKnown

(* The selected tab.                                                         *)
LEMMA SelectedTab ==
  ASSUME TypeOK, selected # 0
  PROVE  /\ selected \in DOMAIN tabs
         /\ tabs[selected] \in Tab
         /\ Fits(tabs[selected])
BY DEF TypeOK

-----------------------------------------------------------------------------
(* The steps *)

(* An opened file becomes the last tab, and the selected one.                *)
LEMMA SelectFileInv ==
  ASSUME IInv, NEW path \in Paths, NEW version \in Versions,
         SelectFile(path, version)
  PROVE  IInv'
<1> DEFINE file == disk[path]
           types == FieldDefinitions(path, version, file)
           tab == NewTab(path, types, file)
<1>1. /\ UNCHANGED <<disk, job>> /\ file # NoFile
      /\ IF Readable(file, types)
         THEN /\ tabs' = Append(tabs, tab)
              /\ selected' = Len(tabs) + 1
              /\ status' = Says("loaded", 0)
              /\ UNCHANGED box
         ELSE /\ box' = "invalid"
              /\ UNCHANGED <<tabs, selected, status>>
  BY DEF SelectFile
<1>2. TypeOK /\ FilesKnown /\ Waiting
  BY DEF IInv, SelectFile
<1>3. file \in File /\ WholeOrCut(file)
  BY <1>1, <1>2 DEF TypeOK, FilesKnown
<1>4. CASE Readable(file, types)
  <2>1. file.fields > 0
    BY <1>3, <1>4 DEF Readable, WholeOrCut
  <2>2. types \in Seq(FieldTypes) /\ Len(types) > 0
    BY <1>3, <2>1, FieldDefinitionsType
  <2>3. /\ Records(file, types) \in Seq(Seq(Text))
        /\ \A i \in DOMAIN Records(file, types) :
             Len(Records(file, types)[i]) = Len(types)
    BY <1>3, <1>4, <2>2, RecordsType
  <2>4. tab \in Tab /\ Fits(tab)
    <3> HIDE DEF file, types
    <3>1. tab = [path |-> path, width |-> Len(types),
                 rows |-> Records(file, types), filter |-> NoFilter,
                 bound |-> "DataTable"]
      BY DEF NewTab
    <3>2. Len(types) \in Nat \ {0}
      BY <2>2
    <3> QED BY ONLY <2>3, <3>1, <3>2, path \in Paths DEF Tab, Fits
  <2> HIDE DEF tab
  <2>5. tabs \in Seq(Tab) /\ \A i \in DOMAIN tabs : Fits(tabs[i])
    BY <1>2 DEF TypeOK
  <2>6. /\ tabs' \in Seq(Tab) /\ Len(tabs') = Len(tabs) + 1
        /\ \A i \in 1..Len(tabs) : tabs'[i] = tabs[i]
        /\ tabs'[Len(tabs) + 1] = tab
    BY <1>1, <1>4, <2>4, <2>5
  <2>7. \A i \in DOMAIN tabs' : Fits(tabs'[i])
    <3> SUFFICES ASSUME NEW i \in DOMAIN tabs' PROVE Fits(tabs'[i])
      OBVIOUS
    <3>1. i \in 1..Len(tabs) \/ i = Len(tabs) + 1
      BY <2>5, <2>6
    <3>2. CASE i \in 1..Len(tabs)
      BY <2>5, <2>6, <3>2
    <3>3. CASE i = Len(tabs) + 1
      BY <2>4, <2>6, <3>3
    <3> QED BY <3>1, <3>2, <3>3
  <2>8. TypeOK'
    BY <1>1, <1>2, <1>4, <2>5, <2>6, <2>7 DEF TypeOK, Waiting, NoJob, Says
  <2> QED BY <1>1, <1>2, <2>8 DEF IInv, FilesKnown
<1>5. CASE ~ Readable(file, types)
  BY <1>1, <1>2, <1>5 DEF IInv, TypeOK, FilesKnown
<1> QED BY <1>4, <1>5

(* The cell is one of the grid's.                                            *)
LEMMA EditCellInv ==
  ASSUME IInv, NEW i \in GridPlaces, NEW j \in GridColumns,
         NEW text \in Typed, EditCell(i, j, text)
  PROVE  IInv'
<1> DEFINE old == tabs[selected]
           rows == [old.rows EXCEPT ![i] = [old.rows[i] EXCEPT ![j] = text]]
           tab == [old EXCEPT !.rows = rows]
<1>1. selected # 0 /\ i \in DOMAIN old.rows /\ j \in 1..old.width
  BY DEF GridPlaces, GridColumns, ShownPlaces
<1>2. TypeOK
  BY DEF IInv
<1>3. selected \in DOMAIN tabs /\ old \in Tab /\ Fits(old)
  BY <1>1, <1>2, SelectedTab
<1>4. tabs' = [tabs EXCEPT ![selected] = tab]
  BY <1>1, <1>3 DEF EditCell
<1> HIDE DEF old
<1>5. text \in Text
  BY DbcAssumption
<1>6. /\ old.rows \in Seq(Seq(Text))
      /\ \A k \in DOMAIN old.rows : Len(old.rows[k]) = old.width
  BY <1>3 DEF Tab, Fits
<1>7. old.rows[i] \in Seq(Text) /\ Len(old.rows[i]) = old.width
  BY <1>1, <1>6
<1>8. /\ [old.rows[i] EXCEPT ![j] = text] \in Seq(Text)
      /\ Len([old.rows[i] EXCEPT ![j] = text]) = old.width
  BY <1>1, <1>5, <1>7
<1>9. /\ rows \in Seq(Seq(Text))
      /\ DOMAIN rows = DOMAIN old.rows
      /\ \A k \in DOMAIN rows : Len(rows[k]) = old.width
  BY <1>1, <1>6, <1>8
<1> HIDE DEF rows
<1>10. tab \in Tab /\ Fits(tab)
  BY <1>3, <1>9 DEF Tab, Fits
<1> HIDE DEF tab
<1>11. /\ tabs' \in Seq(Tab) /\ Len(tabs') = Len(tabs)
       /\ \A k \in DOMAIN tabs' : Fits(tabs'[k])
  BY <1>2, <1>3, <1>4, <1>10, TabChanged
<1>12. Waiting /\ UNCHANGED <<disk, selected, job, status, box>>
  BY DEF EditCell
<1> QED BY <1>2, <1>11, <1>12, SameNumber DEF TypeOK

(* The new row has a cell in each column.                                    *)
LEMMA AddRowInv ==
  ASSUME IInv, NEW j \in GridColumns, NEW text \in Typed, AddRow(j, text)
  PROVE  IInv'
<1> DEFINE old == tabs[selected]
           row == [k \in 1..old.width |-> IF k = j THEN text ELSE Null]
           rows == Append(old.rows, row)
           tab == [old EXCEPT !.rows = rows]
<1>1. selected # 0
  BY DEF GridColumns
<1>2. TypeOK
  BY DEF IInv
<1>3. selected \in DOMAIN tabs /\ old \in Tab /\ Fits(old)
  BY <1>1, <1>2, SelectedTab
<1>4. tabs' = [tabs EXCEPT ![selected] = tab]
  BY <1>3 DEF AddRow
<1> HIDE DEF old
<1>5. text \in Text /\ Null \in Text
  BY DbcAssumption DEF Text
<1>6. /\ old.rows \in Seq(Seq(Text)) /\ old.width \in Nat
      /\ \A k \in DOMAIN old.rows : Len(old.rows[k]) = old.width
  BY <1>3 DEF Tab, Fits
<1>7. row \in Seq(Text) /\ Len(row) = old.width
  BY <1>5, <1>6
<1> HIDE DEF row
<1>8. /\ rows \in Seq(Seq(Text)) /\ Len(rows) = Len(old.rows) + 1
      /\ \A k \in 1..Len(old.rows) : rows[k] = old.rows[k]
      /\ rows[Len(old.rows) + 1] = row
  BY <1>6, <1>7
<1> HIDE DEF rows
<1>9. \A k \in DOMAIN rows : Len(rows[k]) = old.width
  <2> SUFFICES ASSUME NEW k \in DOMAIN rows PROVE Len(rows[k]) = old.width
    OBVIOUS
  <2>1. k \in 1..Len(old.rows) \/ k = Len(old.rows) + 1
    <3>1. Len(old.rows) \in Nat
      BY <1>6
    <3>2. k \in 1..Len(rows)
      BY <1>8
    <3>3. Len(rows) = Len(old.rows) + 1
      BY <1>8
    <3> QED BY <3>1, <3>2, <3>3
  <2>2. CASE k \in 1..Len(old.rows)
    <3>1. rows[k] = old.rows[k]
      BY <1>8, <2>2
    <3>2. k \in DOMAIN old.rows
      BY <1>6, <2>2
    <3> QED BY <1>6, <3>1, <3>2
  <2>3. CASE k = Len(old.rows) + 1
    BY <1>7, <1>8, <2>3
  <2> QED BY <2>1, <2>2, <2>3
<1>10. tab \in Tab /\ Fits(tab)
  BY <1>3, <1>8, <1>9 DEF Tab, Fits
<1> HIDE DEF tab
<1>11. /\ tabs' \in Seq(Tab) /\ Len(tabs') = Len(tabs)
       /\ \A k \in DOMAIN tabs' : Fits(tabs'[k])
  BY <1>2, <1>3, <1>4, <1>10, TabChanged
<1>12. Waiting /\ UNCHANGED <<disk, selected, job, status, box>>
  BY DEF AddRow
<1> QED BY <1>2, <1>11, <1>12, SameNumber DEF TypeOK

(* The rows that stay have the tab's width.                                  *)
LEMMA DeleteRowInv ==
  ASSUME IInv, NEW i \in GridPlaces, DeleteRow(i)
  PROVE  IInv'
<1> DEFINE old == tabs[selected]
           rows == RemoveAt(old.rows, i)
           tab == [old EXCEPT !.rows = rows]
<1>1. selected # 0 /\ i \in DOMAIN old.rows
  BY DEF GridPlaces, ShownPlaces
<1>2. TypeOK
  BY DEF IInv
<1>3. selected \in DOMAIN tabs /\ old \in Tab /\ Fits(old)
  BY <1>1, <1>2, SelectedTab
<1>4. tabs' = [tabs EXCEPT ![selected] = tab]
  BY <1>3 DEF DeleteRow
<1> HIDE DEF old
<1>5. /\ old.rows \in Seq(Seq(Text))
      /\ \A k \in DOMAIN old.rows : Len(old.rows[k]) = old.width
  BY <1>3 DEF Tab, Fits
<1>6. i \in 1..Len(old.rows)
  BY <1>1, <1>5
<1>7. /\ rows \in Seq(Seq(Text)) /\ Len(rows) = Len(old.rows) - 1
      /\ \A k \in 1..Len(old.rows) - 1 :
           rows[k] = IF k < i THEN old.rows[k] ELSE old.rows[k + 1]
  BY <1>5, <1>6, RemoveAtProperties
<1> HIDE DEF rows
<1>8. \A k \in DOMAIN rows : Len(rows[k]) = old.width
  <2> SUFFICES ASSUME NEW k \in DOMAIN rows PROVE Len(rows[k]) = old.width
    OBVIOUS
  <2>1. /\ k \in 1..Len(old.rows) - 1
        /\ k \in DOMAIN old.rows /\ k + 1 \in DOMAIN old.rows
    BY <1>5, <1>7
  <2> QED BY <1>5, <1>7, <2>1
<1>9. tab \in Tab /\ Fits(tab)
  BY <1>3, <1>7, <1>8 DEF Tab, Fits
<1> HIDE DEF tab
<1>10. /\ tabs' \in Seq(Tab) /\ Len(tabs') = Len(tabs)
       /\ \A k \in DOMAIN tabs' : Fits(tabs'[k])
  BY <1>2, <1>3, <1>4, <1>9, TabChanged
<1>11. Waiting /\ UNCHANGED <<disk, selected, job, status, box>>
  BY DEF DeleteRow
<1> QED BY <1>2, <1>10, <1>11, SameNumber DEF TypeOK

(* A tab is selected as long as there is one.                                *)
LEMMA CloseCurrentTabInv ==
  ASSUME IInv, NEW i \in DOMAIN tabs, CloseCurrentTab(i)
  PROVE  IInv'
<1>1. TypeOK /\ FilesKnown /\ Waiting
  BY DEF IInv, CloseCurrentTab
<1>2. tabs \in Seq(Tab) /\ \A k \in DOMAIN tabs : Fits(tabs[k])
  BY <1>1 DEF TypeOK
<1>3. /\ tabs' = RemoveAt(tabs, i)
      /\ selected' = IF Len(tabs) = 1 THEN 0 ELSE 1
      /\ UNCHANGED <<disk, job, status, box>>
  BY DEF CloseCurrentTab
<1>4. i \in 1..Len(tabs)
  BY <1>2
<1>5. /\ tabs' \in Seq(Tab) /\ Len(tabs') = Len(tabs) - 1
      /\ \A k \in 1..Len(tabs) - 1 :
           tabs'[k] = IF k < i THEN tabs[k] ELSE tabs[k + 1]
  BY <1>2, <1>3, <1>4, RemoveAtProperties
<1>6. \A k \in DOMAIN tabs' : Fits(tabs'[k])
  <2> SUFFICES ASSUME NEW k \in DOMAIN tabs' PROVE Fits(tabs'[k])
    OBVIOUS
  <2>1. /\ k \in 1..Len(tabs) - 1
        /\ k \in DOMAIN tabs /\ k + 1 \in DOMAIN tabs
    BY <1>2, <1>5
  <2>2. CASE k < i
    BY <1>2, <1>5, <2>1, <2>2
  <2>3. CASE ~ (k < i)
    BY <1>2, <1>5, <2>1, <2>3
  <2> QED BY <2>2, <2>3
<1>7. selected' \in 0..Len(tabs') /\ (tabs' # <<>> => selected' # 0)
  BY <1>2, <1>3, <1>4, <1>5
<1>8. job' \in [next : 0..(Len(tabs') + 1), saved : Nat, failed : Nat]
  BY <1>1, <1>3, <1>4, <1>5 DEF Waiting, NoJob
<1>9. TypeOK'
  BY <1>1, <1>3, <1>5, <1>6, <1>7, <1>8 DEF TypeOK
<1> QED BY <1>1, <1>3, <1>9 DEF IInv, FilesKnown

(* A filter is for a column of the selected grid.                            *)
LEMMA CreateNewFilterInv ==
  ASSUME IInv, NEW query \in Queries, CreateNewFilter(query)
  PROVE  IInv'
<1>1. TypeOK /\ FilesKnown /\ Waiting /\ UNCHANGED <<disk, selected, job>>
  BY DEF IInv, CreateNewFilter
<1>2. CASE UNCHANGED <<tabs, status>> /\ box' \in {"no_file", "bad_filter"}
  BY <1>1, <1>2 DEF IInv, TypeOK, FilesKnown
<1>3. CASE /\ selected # 0 /\ query.column <= tabs[selected].width
           /\ tabs' = [tabs EXCEPT ![selected].filter = query,
                                   ![selected].bound = "BindingSource"]
           /\ status' = Says("filtered", 0)
           /\ UNCHANGED box
  <2> DEFINE old == tabs[selected]
             tab == [old EXCEPT !.filter = query, !.bound = "BindingSource"]
  <2>1. selected \in DOMAIN tabs /\ old \in Tab /\ Fits(old)
    BY <1>1, <1>3, SelectedTab
  <2>2. tabs' = [tabs EXCEPT ![selected] = tab]
    BY <1>3, <2>1
  <2> HIDE DEF old
  <2>3. query \in Query /\ query.column <= old.width
    BY <1>3, DbcAssumption DEF old
  <2>4. tab \in Tab /\ Fits(tab)
    BY <2>1, <2>3 DEF Tab, Fits
  <2> HIDE DEF tab
  <2>5. /\ tabs' \in Seq(Tab) /\ Len(tabs') = Len(tabs)
        /\ \A k \in DOMAIN tabs' : Fits(tabs'[k])
    BY <1>1, <2>1, <2>2, <2>4, TabChanged
  <2> QED BY <1>1, <1>3, <2>5, SameNumber DEF TypeOK, Says
<1> QED BY <1>2, <1>3 DEF CreateNewFilter

(* Clearing a filter binds the grid, and does nothing else to the tab.       *)
LEMMA ClearFilterInv ==
  ASSUME IInv, ClearFilter
  PROVE  IInv'
<1>1. TypeOK /\ FilesKnown /\ Waiting /\ UNCHANGED <<disk, selected, job>>
  BY DEF IInv, ClearFilter
<1>2. CASE UNCHANGED <<tabs, status>> /\ box' \in {"no_file", "no_filter"}
  BY <1>1, <1>2 DEF IInv, TypeOK, FilesKnown
<1>3. CASE /\ selected # 0
           /\ tabs' = [tabs EXCEPT ![selected].bound = "DataTable"]
           /\ status' = Says("cleared", 0)
           /\ UNCHANGED box
  <2> DEFINE old == tabs[selected]
             tab == [old EXCEPT !.bound = "DataTable"]
  <2>1. selected \in DOMAIN tabs /\ old \in Tab /\ Fits(old)
    BY <1>1, <1>3, SelectedTab
  <2>2. tabs' = [tabs EXCEPT ![selected] = tab]
    BY <1>3, <2>1
  <2> HIDE DEF old
  <2>3. tab \in Tab /\ Fits(tab)
    BY <2>1 DEF Tab, Fits
  <2> HIDE DEF tab
  <2>4. /\ tabs' \in Seq(Tab) /\ Len(tabs') = Len(tabs)
        /\ \A k \in DOMAIN tabs' : Fits(tabs'[k])
    BY <1>1, <2>1, <2>2, <2>3, TabChanged
  <2> QED BY <1>1, <1>3, <2>4, SameNumber DEF TypeOK, Says
<1> QED BY <1>2, <1>3 DEF ClearFilter

(* However a save of a tab ends, the disk and the messages keep their types. *)
LEMMA SaveToInv ==
  ASSUME IInv, NEW path \in Paths, NEW tab \in Tab,
         SaveTo(path, Written(tab))
  PROVE  IInv'
<1>1. TypeOK
  BY DEF IInv
<1>2. CASE /\ \E success, exception \in BOOLEAN :
                /\ Write(path, Written(tab), success, exception)
                /\ IF success THEN status' = Says("saved", 0)
                   ELSE UNCHANGED status
                /\ IF exception THEN box' = "not_saved" ELSE UNCHANGED box
           /\ UNCHANGED <<tabs, selected, job>>
  <2>1. PICK success \in BOOLEAN, exception \in BOOLEAN :
          /\ Write(path, Written(tab), success, exception)
          /\ IF success THEN status' = Says("saved", 0) ELSE UNCHANGED status
          /\ IF exception THEN box' = "not_saved" ELSE UNCHANGED box
    BY <1>2
  <2>2. disk' \in [Paths -> File \cup {NoFile}] /\ FilesKnown'
    BY <2>1, WritePut
  <2> QED BY <1>1, <1>2, <2>1, <2>2 DEF IInv, TypeOK, Says
<1>3. CASE DiesInWrite(path, Written(tab))
  BY <1>3, TornPut, NewProcessInv DEF DiesInWrite
<1> QED BY <1>2, <1>3 DEF SaveTo

(* Both saves write the selected tab, or say that there is none.             *)
LEMMA SaveFileInv ==
  ASSUME IInv,
         SaveFile \/ (\E path \in Paths : SaveFileAs(path))
  PROVE  IInv'
<1>1. TypeOK /\ FilesKnown
  BY DEF IInv
<1>2. CASE NothingLoaded
  BY <1>1, <1>2 DEF NothingLoaded, IInv, TypeOK, FilesKnown
<1>3. CASE /\ selected # 0
           /\ \E path \in Paths : SaveTo(path, Written(tabs[selected]))
  BY <1>1, <1>3, SelectedTab, SaveToInv
<1>4. selected # 0 => tabs[selected].path \in Paths
  BY <1>1, SelectedTab DEF Tab
<1> QED BY <1>2, <1>3, <1>4 DEF SaveFile, SaveFileAs

(* A turn of the loop of SaveAll.                                            *)
LEMMA SaveNextInv ==
  ASSUME IInv, SaveNext
  PROVE  IInv'
<1> DEFINE tab == tabs[job.next]
<1>1. TypeOK
  BY DEF IInv
<1>2. job.next \in DOMAIN tabs /\ tab \in Tab /\ tab.path \in Paths
  <2>1. job.next \in DOMAIN tabs
    BY DEF SaveNext
  <2>2. tabs \in Seq(Tab)
    BY <1>1 DEF TypeOK
  <2>3. tab \in Tab
    BY <2>1, <2>2
  <2> QED BY <2>1, <2>3 DEF Tab
<1>3. CASE /\ \E success, exception \in BOOLEAN :
                /\ Write(tab.path, Written(tab), success, exception)
                /\ job' = Counted(success, exception)
           /\ UNCHANGED <<tabs, selected, status, box>>
  <2>1. PICK success \in BOOLEAN, exception \in BOOLEAN :
          /\ Write(tab.path, Written(tab), success, exception)
          /\ job' = Counted(success, exception)
    BY <1>3
  <2>2. disk' \in [Paths -> File \cup {NoFile}] /\ FilesKnown'
    BY <1>2, <2>1, WritePut
  <2>3. job' \in [next : 0..(Len(tabs') + 1), saved : Nat, failed : Nat]
    <3>1. /\ job \in [next : 0..(Len(tabs) + 1), saved : Nat, failed : Nat]
          /\ tabs \in Seq(Tab) /\ job.next \in 1..Len(tabs)
      BY <1>1, <1>2 DEF TypeOK
    <3>2. /\ job.next + 1 \in 0..(Len(tabs) + 1)
          /\ job.saved + 1 \in Nat /\ job.failed + 1 \in Nat
      BY <3>1
    <3> QED BY <1>3, <2>1, <3>1, <3>2 DEF Counted
  <2> QED BY <1>1, <1>3, <2>2, <2>3 DEF IInv, TypeOK
<1>4. CASE DiesInWrite(tab.path, Written(tab))
  BY <1>2, <1>4, TornPut, NewProcessInv DEF DiesInWrite
<1> QED BY <1>3, <1>4 DEF SaveNext

(* The invariant is inductive.                                               *)
LEMMA Step ==
  IInv /\ [Next]_vars => IInv'
<1> SUFFICES ASSUME IInv, [Next]_vars PROVE IInv'
  OBVIOUS
<1>1. TypeOK /\ FilesKnown
  BY DEF IInv
<1>2. CASE NewProcess /\ UNCHANGED disk
  BY <1>1, <1>2, NewProcessInv DEF TypeOK, FilesKnown
<1>3. CASE Restart \/ DBCEditor_FormClosed
  BY <1>2, <1>3 DEF Restart, DBCEditor_FormClosed
<1>4. CASE \E path \in Paths, version \in Versions : SelectFile(path, version)
  BY <1>4, SelectFileInv
<1>5. CASE \E i \in GridPlaces, j \in GridColumns, text \in Typed :
             EditCell(i, j, text)
  BY <1>5, EditCellInv
<1>6. CASE \E j \in GridColumns, text \in Typed : AddRow(j, text)
  BY <1>6, AddRowInv
<1>7. CASE \E i \in GridPlaces : DeleteRow(i)
  BY <1>7, DeleteRowInv
<1>8. CASE \E i \in DOMAIN tabs : SelectTab(i)
  <2>1. PICK i \in DOMAIN tabs : SelectTab(i)
    BY <1>8
  <2> QED BY <1>1, <2>1 DEF SelectTab, IInv, TypeOK, FilesKnown
<1>9. CASE \E i \in DOMAIN tabs : CloseCurrentTab(i)
  BY <1>9, CloseCurrentTabInv
<1>10. CASE CloseAllTabs
  BY <1>1, <1>10 DEF CloseAllTabs, Waiting, NoJob, IInv, TypeOK, FilesKnown
<1>11. CASE \E query \in Queries : CreateNewFilter(query)
  BY <1>11, CreateNewFilterInv
<1>12. CASE ClearFilter
  BY <1>12, ClearFilterInv
<1>13. CASE SaveFile \/ \E path \in Paths : SaveFileAs(path)
  BY <1>13, SaveFileInv
<1>14. CASE SaveAll
  <2>1. CASE NothingLoaded
    BY <1>1, <2>1 DEF NothingLoaded, IInv, TypeOK, FilesKnown
  <2>2. CASE /\ tabs # <<>>
             /\ job' = [NoJob EXCEPT !.next = 1]
             /\ UNCHANGED <<disk, tabs, selected, status, box>>
    BY <1>1, <2>2 DEF NoJob, IInv, TypeOK, FilesKnown
  <2> QED BY <1>14, <2>1, <2>2 DEF SaveAll
<1>15. CASE SaveNext
  BY <1>15, SaveNextInv
<1>16. CASE FinishSaveAll
  BY <1>1, <1>16 DEF FinishSaveAll, NoJob, Says, IInv, TypeOK, FilesKnown
<1>17. CASE UNCHANGED vars
  BY <1>1, <1>17 DEF vars, IInv, TypeOK, FilesKnown
<1> QED BY <1>3, <1>4, <1>5, <1>6, <1>7, <1>8, <1>9, <1>10, <1>11, <1>12,
           <1>13, <1>14, <1>15, <1>16, <1>17 DEF Next

(* It holds at the start: a file is there whole or not at all.               *)
LEMMA Start ==
  Init => IInv
<1> SUFFICES ASSUME Init PROVE IInv
  OBVIOUS
<1>1. Files \subseteq File /\ NoFile \notin File
      /\ \A file \in Files : Whole(file) /\ file.fields > 0
  BY DbcAssumption
<1>2. TypeOK
  BY <1>1 DEF Init, TypeOK, NoJob, Says
<1>3. FilesKnown
  BY <1>1 DEF Init, FilesKnown, WholeOrCut
<1> QED BY <1>2, <1>3 DEF IInv

(* In every behaviour.                                                       *)
LEMMA Always ==
  Spec => []IInv
BY Start, Step, PTL DEF Spec

-----------------------------------------------------------------------------
(* The theorems *)

(* The variables of the editor keep their types: in every tab each row is as *)
(* long as the grid is wide, a filter is for one of its columns, a tab is    *)
(* selected as long as there is one, and the loop of SaveAll stays within    *)
(* the tabs.                                                                 *)
THEOREM TypeCorrect ==
  Spec => []TypeOK
<1>1. IInv => TypeOK
  BY DEF IInv
<1> QED BY <1>1, Always, PTL

(* What SelectFile opens with at least the fields of the header is a whole   *)
(* file, whatever a save that failed or a process that ended left on the     *)
(* disk before.                                                              *)
THEOREM TornStaysClosed ==
  Spec => TornRefused
<1>1. ASSUME IInv, NEW path \in Paths, NEW version \in Versions,
             SelectFile(path, version),
             Len(FieldDefinitions(path, version, disk[path])) >=
               disk[path].fields,
             tabs' # tabs
      PROVE  Whole(disk[path])
  <2> DEFINE file == disk[path]
             types == FieldDefinitions(path, version, file)
  <2>1. file # NoFile /\ Readable(file, types)
    BY <1>1 DEF SelectFile
  <2>2. file \in File /\ WholeOrCut(file)
    BY <1>1, <2>1 DEF IInv, TypeOK, FilesKnown
  <2>3. types \in Seq(FieldTypes)
    BY <2>2, FieldDefinitionsType
  <2> DEFINE width == Len(types)
  <2>4. /\ file.count \in Nat /\ file.fields \in Nat
        /\ width \in Nat /\ width >= file.fields
        /\ Len(file.body) \in Nat
    BY <1>1, <2>2, <2>3 DEF File
  <2>5. file.magic /\ file.count * width <= Len(file.body)
    BY <2>1 DEF Readable
  <2> HIDE DEF width
  <2>6. file.count * file.fields <= file.count * width
    <3> HIDE DEF file
    <3> QED BY <2>4
  <2>7. ~ (Len(file.body) < file.count * file.fields)
    <3>1. file.count * file.fields \in Nat /\ file.count * width \in Nat
      BY <2>4
    <3> QED BY <2>4, <2>5, <2>6, <3>1
  <2> QED BY <2>2, <2>5, <2>7 DEF WholeOrCut
<1>2. IInv =>
        \A path \in Paths, version \in Versions :
          /\ SelectFile(path, version)
          /\ Len(FieldDefinitions(path, version, disk[path])) >=
               disk[path].fields
          /\ tabs' # tabs
          => Whole(disk[path])
  BY <1>1
<1> QED BY <1>2, Always, PTL DEF TornRefused

-----------------------------------------------------------------------------
(* The report of SaveAll *)

(* Of the tabs that had their turn, those that are behind their files though *)
(* no later one that had its turn names the same file.                       *)
Stale ==
  {i \in 1..(job.next - 1) :
     /\ \A k \in 1..(job.next - 1) : k > i => tabs[k].path # tabs[i].path
     /\ ~UpToDate(i)}

(* The loop counted a failure for each of them, and what did not fail it     *)
(* saved.                                                                    *)
JobInv ==
  job.next # 0 =>
    /\ Cardinality(Stale) <= job.failed
    /\ job.failed = 0 => job.saved = job.next - 1

(* They are finitely many.                                                   *)
LEMMA StaleFinite ==
  ASSUME TypeOK
  PROVE  IsFiniteSet(Stale) /\ Cardinality(Stale) \in Nat
<1>1. job.next - 1 \in Int
  BY DEF TypeOK
<1>2. IsFiniteSet(1..(job.next - 1))
  BY <1>1, FS_Interval
<1>3. Stale \subseteq 1..(job.next - 1)
  BY DEF Stale
<1> QED BY <1>2, <1>3, FS_Subset, FS_CardinalityType

(* A turn adds no tab but its own, and this one only if it counts a failure. *)
LEMMA TurnStale ==
  ASSUME IInv, IInv', NEW success \in BOOLEAN, NEW exception \in BOOLEAN,
         job.next \in DOMAIN tabs,
         Write(tabs[job.next].path, Written(tabs[job.next]), success,
               exception),
         job' = Counted(success, exception),
         UNCHANGED tabs
  PROVE  /\ Stale' \subseteq Stale \cup {job.next}
         /\ ~exception => success /\ Stale' \subseteq Stale
<1> DEFINE n == job.next
           p == tabs[n].path
<1>1. /\ TypeOK /\ tabs \in Seq(Tab) /\ n \in 1..Len(tabs) /\ n \in Nat
      /\ disk \in [Paths -> File \cup {NoFile}]
      /\ job \in [next : 0..(Len(tabs) + 1), saved : Nat, failed : Nat]
  BY DEF IInv, TypeOK
<1>2. job'.next = n + 1
  BY <1>1 DEF Counted
<1>3. \A i \in 1..Len(tabs) : tabs[i].path \in Paths
  <2>1. \A i \in 1..Len(tabs) : tabs[i] \in Tab
    BY <1>1
  <2> QED BY <2>1 DEF Tab
<1>4. \A path \in Paths : path # p => disk'[path] = disk[path]
  BY <1>1, <1>3 DEF Write
<1>5. ~exception => success /\ disk'[p] = Written(tabs[n])
  BY <1>1, <1>3 DEF Write
<1>6. ASSUME NEW i \in Stale', i # n
      PROVE  i \in Stale
  <2>1. /\ i \in 1..n
        /\ \A k \in 1..n : k > i => tabs[k].path # tabs[i].path
        /\ disk'[tabs[i].path] # Written(tabs[i])
    <3>1. /\ i \in 1..(job'.next - 1)
          /\ \A k \in 1..(job'.next - 1) :
               k > i => tabs'[k].path # tabs'[i].path
          /\ disk'[tabs'[i].path] # Written(tabs'[i])
      BY <1>6 DEF Stale, UpToDate
    <3>2. job'.next - 1 = n
      BY <1>1, <1>2
    <3> QED BY <3>1, <3>2
  <2>2. i \in 1..(n - 1) /\ n > i /\ i \in 1..Len(tabs) /\ n \in 1..n
    BY <1>1, <1>6, <2>1
  <2>3. tabs[i].path # p
    BY <2>1, <2>2
  <2>4. disk[tabs[i].path] # Written(tabs[i])
    BY <1>3, <1>4, <2>1, <2>2, <2>3
  <2>5. \A k \in 1..(n - 1) : k \in 1..n
    BY <1>1
  <2> QED BY <2>1, <2>2, <2>4, <2>5 DEF Stale, UpToDate
<1>7. ASSUME ~exception
      PROVE  n \notin Stale'
  <2> SUFFICES ASSUME n \in Stale' PROVE FALSE
    OBVIOUS
  <2>1. disk'[tabs'[n].path] # Written(tabs'[n])
    BY DEF Stale, UpToDate
  <2> QED BY <1>5, <1>7, <2>1
<1> QED BY <1>5, <1>6, <1>7

(* A turn of the loop keeps the count.                                       *)
LEMMA TurnKeepsJob ==
  ASSUME IInv, IInv', JobInv, SaveNext
  PROVE  JobInv'
<1>1. /\ TypeOK /\ TypeOK' /\ job.next \in DOMAIN tabs /\ job.next \in Nat \ {0}
      /\ job \in [next : 0..(Len(tabs) + 1), saved : Nat, failed : Nat]
  <2>1. TypeOK /\ TypeOK' /\ job.next \in DOMAIN tabs
    BY DEF IInv, SaveNext
  <2>2. /\ tabs \in Seq(Tab)
        /\ job \in [next : 0..(Len(tabs) + 1), saved : Nat, failed : Nat]
    BY <2>1 DEF TypeOK
  <2> QED BY <2>1, <2>2
<1>2. CASE DiesInWrite(tabs[job.next].path, Written(tabs[job.next]))
  BY <1>2 DEF DiesInWrite, NewProcess, NoJob, JobInv
<1>3. CASE /\ \E success, exception \in BOOLEAN :
                /\ Write(tabs[job.next].path, Written(tabs[job.next]),
                         success, exception)
                /\ job' = Counted(success, exception)
           /\ UNCHANGED <<tabs, selected, status, box>>
  <2>1. PICK success \in BOOLEAN, exception \in BOOLEAN :
          /\ Write(tabs[job.next].path, Written(tabs[job.next]),
                   success, exception)
          /\ job' = Counted(success, exception)
    BY <1>3
  <2>2. /\ Stale' \subseteq Stale \cup {job.next}
        /\ ~exception => success /\ Stale' \subseteq Stale
    BY <1>1, <1>3, <2>1, TurnStale
  <2>3. /\ IsFiniteSet(Stale) /\ Cardinality(Stale) \in Nat
        /\ IsFiniteSet(Stale') /\ Cardinality(Stale') \in Nat
    <3>1. IsFiniteSet(Stale) /\ Cardinality(Stale) \in Nat
      BY <1>1, StaleFinite
    <3>2. IsFiniteSet(Stale \cup {job.next})
      BY <3>1, FS_AddElement
    <3>3. IsFiniteSet(Stale')
      BY <2>2, <3>2, FS_Subset
    <3> QED BY <3>1, <3>3, FS_CardinalityType
  <2>4. /\ Cardinality(Stale) <= job.failed
        /\ job.failed = 0 => job.saved = job.next - 1
    BY <1>1 DEF JobInv
  <2>5. /\ job'.next = job.next + 1
        /\ job'.saved = IF success THEN job.saved + 1 ELSE job.saved
        /\ job'.failed = IF exception THEN job.failed + 1 ELSE job.failed
    BY <1>1, <2>1 DEF Counted
  <2>6. CASE exception
    <3>1. /\ IsFiniteSet(Stale \cup {job.next})
          /\ Cardinality(Stale \cup {job.next}) \in Nat
          /\ Cardinality(Stale \cup {job.next}) <= Cardinality(Stale) + 1
      <4>1. /\ IsFiniteSet(Stale \cup {job.next})
            /\ Cardinality(Stale \cup {job.next}) =
                 IF job.next \in Stale THEN Cardinality(Stale)
                 ELSE Cardinality(Stale) + 1
        BY <2>3, FS_AddElement
      <4> QED BY <2>3, <4>1
    <3>2. Cardinality(Stale') <= Cardinality(Stale \cup {job.next})
      BY <2>2, <3>1, FS_Subset
    <3>3. /\ Cardinality(Stale') <= job'.failed /\ job'.failed # 0
      BY <1>1, <2>3, <2>4, <2>5, <2>6, <3>1, <3>2
    <3> QED BY <3>3 DEF JobInv
  <2>7. CASE ~exception
    <3>1. Cardinality(Stale') <= Cardinality(Stale)
      BY <2>2, <2>3, <2>7, FS_Subset
    <3>2. /\ Cardinality(Stale') <= job'.failed
          /\ job'.failed = 0 => job'.saved = job'.next - 1
      BY <1>1, <2>2, <2>3, <2>4, <2>5, <2>7, <3>1
    <3> QED BY <3>2 DEF JobInv
  <2> QED BY <2>6, <2>7
<1> QED BY <1>2, <1>3 DEF SaveNext

(* So does every other step, for the loop lets nothing else run.             *)
LEMMA JobStep ==
  IInv /\ IInv' /\ JobInv /\ [Next]_vars => JobInv'
<1> SUFFICES ASSUME IInv, IInv', JobInv, [Next]_vars PROVE JobInv'
  OBVIOUS
<1>1. CASE SaveNext
  BY <1>1, TurnKeepsJob
<1>2. CASE job'.next = 0
  BY <1>2 DEF JobInv
<1>3. CASE NewProcess \/ FinishSaveAll
  BY <1>2, <1>3 DEF NewProcess, FinishSaveAll, NoJob
<1>4. CASE Waiting /\ UNCHANGED job
  BY <1>2, <1>4 DEF Waiting, NoJob
<1>5. CASE SaveAll
  <2>1. CASE NothingLoaded
    BY <1>4, <1>5, <2>1 DEF SaveAll, NothingLoaded
  <2>2. CASE job' = [NoJob EXCEPT !.next = 1]
    <3>1. job'.next = 1 /\ job'.saved = 0 /\ job'.failed = 0
      BY <2>2 DEF NoJob
    <3>2. Stale' = {}
      BY <3>1 DEF Stale
    <3>3. Cardinality(Stale') = 0
      BY <3>2, FS_EmptySet
    <3> QED BY <3>1, <3>3 DEF JobInv
  <2> QED BY <1>5, <2>1, <2>2 DEF SaveAll
<1>6. CASE SaveFile \/ \E path \in Paths : SaveFileAs(path)
  <2>1. Waiting /\ (UNCHANGED job \/ NewProcess)
    BY <1>6 DEF SaveFile, SaveFileAs, NothingLoaded, SaveTo, DiesInWrite
  <2> QED BY <1>3, <1>4, <2>1
<1>7. CASE UNCHANGED vars
  BY <1>7 DEF vars, JobInv, Stale, UpToDate
<1>8. CASE /\ Next
           /\ ~SaveNext /\ ~FinishSaveAll /\ ~SaveAll /\ ~SaveFile
           /\ ~ \E path \in Paths : SaveFileAs(path)
  <2>1. NewProcess \/ (Waiting /\ UNCHANGED job)
    BY <1>8 DEF Next, Restart, SelectFile, EditCell, AddRow, DeleteRow,
       SelectTab, CloseCurrentTab, CloseAllTabs, DBCEditor_FormClosed,
       CreateNewFilter, ClearFilter
  <2> QED BY <1>3, <1>4, <2>1
<1> QED BY <1>1, <1>3, <1>5, <1>6, <1>7, <1>8

(* The report of SaveAll is true, with any tabs and faults: if it says that  *)
(* all was saved, each file holds what its last tab shows; if it counts      *)
(* failures, no more files than that are behind their tabs.                  *)
THEOREM SaveAllReportTrue ==
  Spec => SaveAllReport
<1>1. Init => JobInv
  BY DEF Init, NoJob, JobInv
<1>2. Spec => []JobInv
  BY <1>1, Always, JobStep, PTL DEF Spec
<1>3. ASSUME IInv, JobInv, FinishSaveAll
      PROVE  IF status'.text = "all_saved"
             THEN Behind = {} /\ status'.count = Len(tabs)
             ELSE Cardinality(Behind) <= status'.count
  <2>1. /\ tabs \in Seq(Tab) /\ Len(tabs) \in Nat /\ job.next = Len(tabs) + 1
        /\ job.failed \in Nat /\ TypeOK
    BY <1>3 DEF IInv, TypeOK, FinishSaveAll
  <2>2. /\ Cardinality(Stale) <= job.failed
        /\ job.failed = 0 => job.saved = Len(tabs)
    BY <1>3, <2>1 DEF JobInv
  <2>3. Behind = Stale
    <3>1. DOMAIN tabs = 1..(job.next - 1)
      BY <2>1
    <3> QED BY <3>1 DEF Behind, Stale, LastOfItsFile
  <2>4. IsFiniteSet(Stale) /\ Cardinality(Stale) \in Nat
    BY <2>1, StaleFinite
  <2>5. CASE job.failed > 0
    <3>1. status' = [text |-> "some_failed", count |-> job.failed]
      BY <1>3, <2>5 DEF FinishSaveAll, Says
    <3> QED BY <2>2, <2>3, <3>1
  <2>6. CASE ~(job.failed > 0)
    <3>1. status' = [text |-> "all_saved", count |-> job.saved]
      BY <1>3, <2>6 DEF FinishSaveAll, Says
    <3>2. job.failed = 0 /\ Cardinality(Stale) = 0
      BY <2>1, <2>2, <2>4, <2>6
    <3>3. Stale = {}
      BY <2>4, <3>2, FS_EmptySet
    <3> QED BY <2>2, <2>3, <3>1, <3>2, <3>3
  <2> QED BY <2>5, <2>6
<1> QED BY <1>2, <1>3, Always, PTL DEF SaveAllReport

-----------------------------------------------------------------------------
(* The tables that files hold and tabs show. *)

(* Without a filter the grid shows the rows as they are.                     *)
LEMMA ShownAll ==
  ASSUME NEW tab \in Tab, tab.filter = NoFilter
  PROVE  Shown(tab) = tab.rows
<1> DEFINE n == Len(tab.rows)
           before(i) == {k \in ShownPlaces(tab) : k <= i}
<1>1. tab.rows \in Seq(Seq(Text)) /\ n \in Nat
  BY DEF Tab
<1>2. ShownPlaces(tab) = 1..n
  BY <1>1 DEF ShownPlaces, Visible
<1> HIDE DEF n
<1>3. \A i \in 1..n : before(i) = 1..i
  BY <1>1, <1>2
<1>4. \A i \in 1..n : Cardinality(before(i)) = i
  <2> SUFFICES ASSUME NEW i \in 1..n PROVE Cardinality(1..i) = i
    BY <1>3
  <2>1. Cardinality(1..i) = IF 1 > i THEN 0 ELSE i - 1 + 1
    BY <1>1, FS_Interval
  <2> QED BY <1>1, <2>1
<1>5. Cardinality(ShownPlaces(tab)) = n
  <2>1. Cardinality(1..n) = IF 1 > n THEN 0 ELSE n - 1 + 1
    BY <1>1, FS_Interval
  <2> QED BY <1>1, <1>2, <2>1
<1>6. \A i \in 1..n : NthShown(tab, i) = i
  BY <1>2, <1>4 DEF NthShown
<1>7. Shown(tab) = [i \in 1..n |-> tab.rows[i]]
  BY <1>5, <1>6 DEF Shown
<1>8. tab.rows = [i \in 1..n |-> tab.rows[i]]
  BY <1>1 DEF n
<1> QED BY <1>7, <1>8

(* The table in a whole file: its words, a row per record.                   *)
LEMMA WholeTable ==
  ASSUME NEW file \in File, Whole(file)
  PROVE  /\ TableIn(file) =
              [width |-> file.fields,
               records |-> [i \in 1..file.count |-> [j \in 1..file.fields |->
                              file.body[(i - 1) * file.fields + j]]]]
         /\ \A i \in 1..file.count, j \in 1..file.fields :
              file.body[(i - 1) * file.fields + j] \in Word
<1> DEFINE w == file.fields
           types == Unsigned(w)
<1>1. /\ file.count \in Nat /\ w \in Nat /\ file.block \in Nat
      /\ file.body \in Seq(Word)
      /\ Len(file.body) = file.count * w + file.block
  BY DEF File, Whole
<1>2. file # NoFile
  BY DbcAssumption
<1>3. Len(types) = w /\ \A j \in 1..w : types[j] = "uint"
  BY <1>1 DEF Unsigned
<1> HIDE DEF w, types
<1>4. \A i \in 1..file.count, j \in 1..w :
        FieldValue(types[j], file.body[(i - 1) * w + j], StringBlock(file, types))
          = file.body[(i - 1) * w + j]
  BY <1>3 DEF FieldValue
<1>5. Records(file, types) =
        [i \in 1..file.count |-> [j \in 1..w |-> file.body[(i - 1) * w + j]]]
  BY <1>3, <1>4 DEF Records
<1>6. \A i \in 1..file.count, j \in 1..w : file.body[(i - 1) * w + j] \in Word
  <2> SUFFICES ASSUME NEW i \in 1..file.count, NEW j \in 1..w
               PROVE  file.body[(i - 1) * w + j] \in Word
    OBVIOUS
  <2>1. (i - 1) * w + j \in 1..(file.count * w)
    BY <1>1, PlaceOf
  <2>2. (i - 1) * w + j \in 1..Len(file.body)
    <3>1. file.count * w \in Nat
      BY <1>1
    <3> QED BY <1>1, <2>1, <3>1
  <2> QED BY <1>1, <2>2
<1> QED BY <1>2, <1>5, <1>6 DEF TableIn, w, types

(* ... which is a table.                                                     *)
LEMMA TableType ==
  ASSUME NEW file \in File, Whole(file)
  PROVE  TableIn(file) \in Store!Table
<1> DEFINE w == file.fields
           row(i) == [j \in 1..w |-> file.body[(i - 1) * w + j]]
<1>1. file.count \in Nat /\ w \in Nat
  BY DEF File
<1>2. \A i \in 1..file.count : row(i) \in Seq(Nat)
  <2> SUFFICES ASSUME NEW i \in 1..file.count PROVE row(i) \in Seq(Nat)
    OBVIOUS
  <2>1. \A j \in 1..w : file.body[(i - 1) * w + j] \in Nat
    BY WholeTable DEF Word
  <2> QED BY <1>1, <2>1, FunctionIsSequence
<1> HIDE DEF row
<1>3. [i \in 1..file.count |-> row(i)] \in Seq(Seq(Nat))
  BY <1>1, <1>2, FunctionIsSequence
<1>4. TableIn(file) = [width |-> w, records |-> [i \in 1..file.count |-> row(i)]]
  BY WholeTable DEF row
<1> QED BY <1>1, <1>3, <1>4 DEF Store!Table

(* A tab that was just opened shows the table of the file.                   *)
LEMMA TableOpened ==
  ASSUME NEW path \in Paths, NEW file \in File, Whole(file),
         file.fields > 0
  PROVE  ShownTable(NewTab(path, Unsigned(file.fields), file)) = TableIn(file)
<1> DEFINE w == file.fields
           types == Unsigned(w)
           tab == NewTab(path, types, file)
           rows == [i \in 1..file.count |-> [j \in 1..w |->
                      file.body[(i - 1) * w + j]]]
<1>1. /\ file.count \in Nat /\ w \in Nat /\ file.block \in Nat
      /\ Len(file.body) = file.count * w + file.block
  BY DEF File, Whole
<1>2. Len(types) = w /\ types \in Seq(FieldTypes)
  BY <1>1 DEF Unsigned, FieldTypes
<1>3. Readable(file, types)
  <2>1. file.count * w \in Nat
    BY <1>1
  <2> QED BY <1>1, <1>2, <2>1 DEF Readable, Whole
<1>4. Records(file, types) = rows
  <2>1. TableIn(file) = [width |-> w, records |-> Records(file, types)]
    BY DbcAssumption DEF TableIn
  <2>2. TableIn(file) = [width |-> w, records |-> rows]
    BY WholeTable
  <2>3. TableIn(file).records = Records(file, types)
    BY <2>1
  <2>4. TableIn(file).records = rows
    BY <2>2
  <2> QED BY <2>3, <2>4
<1>5. Records(file, types) \in Seq(Seq(Text))
  BY <1>2, <1>3, RecordsType
<1>6. /\ tab.filter = NoFilter /\ tab.rows = Records(file, types)
      /\ tab.width = w
  BY <1>2 DEF NewTab
<1>7. tab \in Tab
  BY <1>1, <1>2, <1>5 DEF NewTab, Tab
<1> HIDE DEF w, types, tab, rows
<1>8. Shown(tab) = rows
  BY <1>4, <1>6, <1>7, ShownAll
<1>9. DOMAIN rows = 1..file.count
  BY DEF rows
<1>10. \A i \in 1..file.count : [j \in 1..w |-> ToWord(rows[i][j])] = rows[i]
  <2> SUFFICES ASSUME NEW i \in 1..file.count
               PROVE  [j \in 1..w |-> ToWord(rows[i][j])] = rows[i]
    OBVIOUS
  <2>1. rows[i] = [j \in 1..w |-> file.body[(i - 1) * w + j]]
    BY DEF rows
  <2>2. \A j \in 1..w : file.body[(i - 1) * w + j] \in Word
    BY WholeTable DEF w
  <2> QED BY <2>1, <2>2 DEF ToWord
<1>11. [i \in DOMAIN rows |-> [j \in 1..w |-> ToWord(rows[i][j])]] = rows
  BY <1>9, <1>10 DEF rows
<1>12. ShownTable(tab) = [width |-> w, records |-> rows]
  BY <1>6, <1>8, <1>11 DEF ShownTable
<1> QED BY <1>12, WholeTable DEF tab, types, w, rows

(* The blank record of a table.                                              *)
Blank(width) == [j \in 1..width |-> 0]

(* What a tab shows is a table, of as many records as rows are on show.      *)
LEMMA ShownTableIs ==
  ASSUME NEW tab \in Tab
  PROVE  /\ Len(Shown(tab)) \in Nat
         /\ ShownTable(tab) =
              [width |-> tab.width,
               records |-> [i \in 1..Len(Shown(tab)) |->
                              [j \in 1..tab.width |-> ToWord(Shown(tab)[i][j])]]]
<1>1. Cardinality(ShownPlaces(tab)) \in Nat
  BY ShownCount
<1>2. /\ Len(Shown(tab)) = Cardinality(ShownPlaces(tab))
      /\ DOMAIN Shown(tab) = 1..Cardinality(ShownPlaces(tab))
  BY <1>1 DEF Shown
<1> QED BY <1>1, <1>2 DEF ShownTable

(* A file that was saved holds the table of the tab and the blank record.    *)
LEMMA WrittenTable ==
  ASSUME NEW tab \in Tab
  PROVE  TableIn(Written(tab)) = Store!WithBlank(ShownTable(tab))
<1> DEFINE shown == Shown(tab)
           n == Len(shown)
           w == tab.width
           rows == GridRows(tab)
           file == Written(tab)
           words(i) == [j \in 1..w |-> ToWord(shown[i][j])]
<1>1. n \in Nat /\ w \in Nat \ {0}
  BY ShownTableIs DEF Tab
<1>2. rows = [i \in 1..(n + 1) |-> [j \in 1..w |->
                IF i <= n THEN ToWord(shown[i][j]) ELSE 0]]
  BY DEF GridRows
<1>3. ShownTable(tab) =
        [width |-> w, records |-> [i \in 1..n |-> words(i)]]
  BY ShownTableIs
<1>4. Len(rows) = n + 1
  BY <1>1, <1>2
<1>5. /\ file.count = n + 1 /\ file.fields = w
      /\ file.body = Body(rows, w)
  BY <1>4 DEF Written
<1>6. file \in File /\ Whole(file)
  BY WrittenType
<1> HIDE DEF rows, file
<1>7. \A i \in 1..(n + 1) : rows[i] = IF i <= n THEN words(i) ELSE Blank(w)
  BY <1>1, <1>2 DEF Blank
<1> HIDE DEF shown, n, w, words
<1>8. \A i \in 1..(n + 1) :
        [j \in 1..w |-> file.body[(i - 1) * w + j]] = rows[i]
  <2> SUFFICES ASSUME NEW i \in 1..(n + 1)
               PROVE  [j \in 1..w |-> file.body[(i - 1) * w + j]] = rows[i]
    OBVIOUS
  <2>1. \A j \in 1..w : file.body[(i - 1) * w + j] = rows[i][j]
    <3> SUFFICES ASSUME NEW j \in 1..w
                 PROVE  file.body[(i - 1) * w + j] = rows[i][j]
      OBVIOUS
    <3> DEFINE k == (i - 1) * w + j
    <3>1. k \in 1..((n + 1) * w)
      BY <1>1, PlaceOf
    <3>2. (k - 1) \div w = i - 1 /\ (k - 1) % w = j - 1
      BY <1>1, RowAndColumnOf
    <3> HIDE DEF k
    <3>3. Body(rows, w)[k] = rows[((k - 1) \div w) + 1][((k - 1) % w) + 1]
      BY <1>4, <3>1 DEF Body
    <3>4. ((k - 1) \div w) + 1 = i /\ ((k - 1) % w) + 1 = j
      BY <1>1, <3>2
    <3> QED BY <1>5, <3>3, <3>4 DEF k
  <2>2. rows[i] = [j \in 1..w |-> rows[i][j]]
    BY <1>2
  <2> QED BY <2>1, <2>2
<1>9. TableIn(file) =
        [width |-> w,
         records |-> [i \in 1..(n + 1) |->
                        [j \in 1..w |-> file.body[(i - 1) * w + j]]]]
  BY <1>5, <1>6, WholeTable
<1>10. TableIn(file) =
         [width |-> w,
          records |-> [i \in 1..(n + 1) |->
                         IF i <= n THEN words(i) ELSE Blank(w)]]
  BY <1>7, <1>8, <1>9
<1>11. Append([i \in 1..n |-> words(i)], Blank(w)) =
         [i \in 1..(n + 1) |-> IF i <= n THEN words(i) ELSE Blank(w)]
  BY <1>1
<1>12. Store!WithBlank(ShownTable(tab)) =
         [width |-> w, records |-> Append([i \in 1..n |-> words(i)], Blank(w))]
  <2> DEFINE recs == [i \in 1..n |-> words(i)]
             t == ShownTable(tab)
  <2>1. t = [width |-> w, records |-> recs]
    BY <1>3
  <2> HIDE DEF recs, t
  <2>2. Store!WithBlank(t) =
          [t EXCEPT !.records = Append(t.records, [j \in 1..t.width |-> 0])]
    BY DEF Store!WithBlank
  <2>3. t.records = recs /\ t.width = w
    BY <2>1
  <2>4. Store!WithBlank(t) = [t EXCEPT !.records = Append(recs, Blank(w))]
    BY <2>2, <2>3 DEF Blank
  <2>5. Store!WithBlank(t) = [width |-> w, records |-> Append(recs, Blank(w))]
    BY <2>1, <2>4
  <2> QED BY <2>5 DEF recs, t
<1> QED BY <1>10, <1>11, <1>12 DEF file

(* What a failed save leaves is lost.                                        *)
LEMMA TornTable ==
  ASSUME NEW tab \in Tab, NEW rest \in Torn(Written(tab))
  PROVE  TableIn(rest) = Lost
<1> DEFINE file == Written(tab)
<1>1. file \in File /\ Whole(file)
  BY WrittenType
<1> HIDE DEF file
<1>2. rest # NoFile
  BY TornType, DbcAssumption
<1>3. ~Whole(rest)
  <2>1. CASE rest = NoHeader
    BY <2>1 DEF NoHeader, Whole
  <2>2. CASE rest \in {[file EXCEPT !.body = SubSeq(file.body, 1, n)] :
                         n \in 0..(Len(file.body) - 1)}
    <3>1. PICK n \in 0..(Len(file.body) - 1) :
            rest = [file EXCEPT !.body = SubSeq(file.body, 1, n)]
      BY <2>2
    <3>2. /\ file.body \in Seq(Word) /\ file.count \in Nat
          /\ file.fields \in Nat /\ file.block \in Nat
      BY <1>1 DEF File
    <3>3. n \in Nat /\ n < Len(file.body)
      BY <3>2
    <3>4. Len(SubSeq(file.body, 1, n)) = n
      BY <3>2, <3>3
    <3>5. /\ rest.count = file.count /\ rest.fields = file.fields
          /\ rest.block = file.block /\ Len(rest.body) = n
      BY <1>1, <3>1, <3>4 DEF File
    <3> QED BY <1>1, <3>3, <3>5 DEF Whole
  <2> QED BY <2>1, <2>2 DEF Torn, file
<1> QED BY <1>2, <1>3 DEF TableIn

-----------------------------------------------------------------------------
(* The refinement *)

(* The tables after a step, in the names of the tables before it.            *)
LEMMA TablesAfter ==
  /\ StoredTables' = [path \in Paths |-> TableIn(disk'[path])]
  /\ OpenTabs' = [i \in DOMAIN tabs' |-> OpenTab(tabs'[i])]
<1>1. StoredTables' = [path \in Paths |-> TableIn(disk'[path])]
  BY DEF StoredTables
<1>2. OpenTabs' = [i \in DOMAIN tabs' |-> OpenTab(tabs'[i])]
  BY DEF OpenTabs
<1> QED BY <1>1, <1>2

(* The tabs as the store sees them.                                          *)
LEMMA OpenTabsAre ==
  ASSUME NEW ts \in Seq(Tab)
  PROVE  LET open == [i \in DOMAIN ts |-> OpenTab(ts[i])]
         IN  /\ open \in Seq({OpenTab(tab) : tab \in Tab})
             /\ Len(open) = Len(ts) /\ DOMAIN open = DOMAIN ts
             /\ \A i \in DOMAIN ts : open[i] = OpenTab(ts[i])
<1>1. Len(ts) \in Nat /\ DOMAIN ts = 1..Len(ts)
  OBVIOUS
<1>2. \A i \in 1..Len(ts) : OpenTab(ts[i]) \in {OpenTab(tab) : tab \in Tab}
  <2>1. \A i \in 1..Len(ts) : ts[i] \in Tab
    OBVIOUS
  <2> QED BY <2>1
<1>3. [i \in 1..Len(ts) |-> OpenTab(ts[i])]
        \in [1..Len(ts) -> {OpenTab(tab) : tab \in Tab}]
  BY <1>2
<1>4. /\ [i \in 1..Len(ts) |-> OpenTab(ts[i])] \in Seq({OpenTab(tab) : tab \in Tab})
      /\ Len([i \in 1..Len(ts) |-> OpenTab(ts[i])]) = Len(ts)
  BY <1>1, <1>3, FunctionIsSequence
<1> QED BY <1>1, <1>4

(* Without a change of files or tabs nothing happens in the store.           *)
LEMMA NothingInStore ==
  ASSUME UNCHANGED <<disk, tabs>>
  PROVE  UNCHANGED <<StoredTables, OpenTabs>>
BY TablesAfter DEF StoredTables, OpenTabs

(* All tabs are closed.                                                      *)
LEMMA ClosesAll ==
  ASSUME UNCHANGED disk, tabs' = <<>>
  PROVE  Store!CloseAll
<1>1. OpenTabs' = <<>>
  BY TablesAfter
<1>2. UNCHANGED StoredTables
  BY TablesAfter DEF StoredTables
<1> QED BY <1>1, <1>2 DEF Store!CloseAll

(* A tab is changed, which goes on naming its file.                          *)
LEMMA ChangesTab ==
  ASSUME NEW i \in DOMAIN tabs, UNCHANGED disk, DOMAIN tabs' = DOMAIN tabs,
         tabs'[i].path = tabs[i].path,
         \A k \in DOMAIN tabs \ {i} : tabs'[k] = tabs[k]
  PROVE  Store!Next
<1>1. UNCHANGED StoredTables
  BY TablesAfter DEF StoredTables
<1>2. /\ DOMAIN OpenTabs = DOMAIN tabs /\ DOMAIN OpenTabs' = DOMAIN tabs
      /\ \A k \in DOMAIN tabs : /\ OpenTabs[k] = OpenTab(tabs[k])
                                /\ OpenTabs'[k] = OpenTab(tabs'[k])
  BY TablesAfter DEF OpenTabs
<1>3. OpenTabs'[i].path = OpenTabs[i].path
  BY <1>2 DEF OpenTab
<1>4. \A k \in DOMAIN OpenTabs \ {i} : OpenTabs'[k] = OpenTabs[k]
  BY <1>2
<1>5. Store!Change(i)
  BY <1>1, <1>2, <1>3, <1>4 DEF Store!Change
<1> QED BY <1>2, <1>5 DEF Store!Next

(* A tab is closed: the others stay in their order.                          *)
LEMMA ClosesTab ==
  ASSUME tabs \in Seq(Tab), NEW i \in DOMAIN tabs, UNCHANGED disk,
         tabs' = RemoveAt(tabs, i)
  PROVE  Store!Next
<1> DEFINE Open == {OpenTab(tab) : tab \in Tab}
           n == Len(tabs)
<1>1. n \in Nat /\ i \in 1..n /\ DOMAIN tabs = 1..n
  <2>1. n \in Nat /\ DOMAIN tabs = 1..n
    BY ONLY tabs \in Seq(Tab)
  <2> QED BY ONLY <2>1, i \in DOMAIN tabs
<1>2. /\ tabs' \in Seq(Tab) /\ Len(tabs') = n - 1
      /\ \A k \in 1..(n - 1) : tabs'[k] = IF k < i THEN tabs[k] ELSE tabs[k + 1]
  <2>1. i \in 1..Len(tabs)
    BY <1>1
  <2> QED BY ONLY tabs \in Seq(Tab), tabs' = RemoveAt(tabs, i), <2>1,
                  RemoveAtProperties
<1>3. /\ OpenTabs \in Seq(Open) /\ Len(OpenTabs) = n
      /\ \A k \in 1..n : OpenTabs[k] = OpenTab(tabs[k])
  BY <1>1, OpenTabsAre DEF OpenTabs
<1>4. /\ OpenTabs' \in Seq(Open) /\ Len(OpenTabs') = n - 1
      /\ \A k \in 1..(n - 1) : OpenTabs'[k] = OpenTab(tabs'[k])
  <2>1. DOMAIN tabs' = 1..(n - 1)
    BY <1>2
  <2> QED BY <1>2, <2>1, OpenTabsAre, TablesAfter
<1> HIDE DEF Open, n
<1>5. /\ RemoveAt(OpenTabs, i) \in Seq(Open)
      /\ Len(RemoveAt(OpenTabs, i)) = n - 1
      /\ \A k \in 1..(n - 1) : RemoveAt(OpenTabs, i)[k] =
           IF k < i THEN OpenTabs[k] ELSE OpenTabs[k + 1]
  BY <1>1, <1>3, RemoveAtProperties
<1>6. \A k \in 1..(n - 1) : OpenTabs'[k] = RemoveAt(OpenTabs, i)[k]
  <2> SUFFICES ASSUME NEW k \in 1..(n - 1)
               PROVE  OpenTabs'[k] = RemoveAt(OpenTabs, i)[k]
    OBVIOUS
  <2>1. k \in 1..n /\ k + 1 \in 1..n
    BY <1>1
  <2> QED BY <1>2, <1>3, <1>4, <1>5, <2>1
<1>7. OpenTabs' = RemoveAt(OpenTabs, i)
  BY <1>4, <1>5, <1>6
<1>8. UNCHANGED StoredTables
  BY TablesAfter DEF StoredTables
<1>9. i \in DOMAIN OpenTabs
  BY <1>1, <1>3
<1>10. Store!Close(i)
  BY <1>7, <1>8 DEF Store!Close, Store!RemoveAt, RemoveAt
<1> QED BY <1>9, <1>10 DEF Store!Next

(* One file gets another content, and so another table.                      *)
LEMMA PutsTable ==
  ASSUME IInv, NEW path \in Paths, NEW file,
         disk' = [disk EXCEPT ![path] = file]
  PROVE  StoredTables' = [StoredTables EXCEPT ![path] = TableIn(file)]
<1>1. disk \in [Paths -> File \cup {NoFile}]
  BY DEF IInv, TypeOK
<1>2. \A p \in Paths : disk'[p] = IF p = path THEN file ELSE disk[p]
  BY <1>1
<1>3. \A p \in Paths :
        TableIn(disk'[p]) = IF p = path THEN TableIn(file) ELSE TableIn(disk[p])
  BY <1>2
<1> QED BY <1>3, TablesAfter DEF StoredTables

(* Closing nothing or all of the tabs, a failed save loses the file.         *)
LEMMA LosesFile ==
  ASSUME IInv, NEW path \in Paths, NEW i \in DOMAIN tabs,
         \E rest \in Torn(Written(tabs[i])) :
           disk' = [disk EXCEPT ![path] = rest],
         UNCHANGED tabs \/ tabs' = <<>>
  PROVE  Store!Next
<1>1. PICK rest \in Torn(Written(tabs[i])) : disk' = [disk EXCEPT ![path] = rest]
  OBVIOUS
<1>2. tabs \in Seq(Tab) /\ tabs[i] \in Tab
  BY DEF IInv, TypeOK
<1>3. StoredTables' = [StoredTables EXCEPT ![path] = Lost]
  <2>1. TableIn(rest) = Lost
    BY <1>2, TornTable
  <2> QED BY <1>1, <2>1, PutsTable
<1>4. OpenTabs # <<>>
  BY <1>2 DEF OpenTabs
<1>5. OpenTabs' \in {OpenTabs, <<>>}
  BY TablesAfter DEF OpenTabs
<1>6. Store!FailToSave(path)
  BY <1>3, <1>4, <1>5 DEF Store!FailToSave
<1> QED BY <1>6 DEF Store!Next

(* However a save of a tab ends, the store sees it saved, sees the file lost *)
(* or sees nothing.                                                          *)
LEMMA SavesTab ==
  ASSUME IInv, NEW path \in Paths, NEW i \in DOMAIN tabs,
         NEW success \in BOOLEAN, NEW exception \in BOOLEAN,
         Write(path, Written(tabs[i]), success, exception), UNCHANGED tabs
  PROVE  [Store!Next]_<<StoredTables, OpenTabs>>
<1>1. tabs \in Seq(Tab) /\ tabs[i] \in Tab
  BY DEF IInv, TypeOK
<1>2. CASE disk' = [disk EXCEPT ![path] = Written(tabs[i])]
  <2>1. OpenTabs' = OpenTabs /\ DOMAIN OpenTabs = DOMAIN tabs
    BY TablesAfter DEF OpenTabs
  <2>2. OpenTabs[i].table = ShownTable(tabs[i])
    BY DEF OpenTabs, OpenTab
  <2>3. StoredTables' =
          [StoredTables EXCEPT ![path] = Store!WithBlank(OpenTabs[i].table)]
    <3>1. StoredTables' = [StoredTables EXCEPT ![path] = TableIn(Written(tabs[i]))]
      BY <1>2, PutsTable
    <3>2. TableIn(Written(tabs[i])) = Store!WithBlank(ShownTable(tabs[i]))
      BY <1>1, WrittenTable
    <3> QED BY <2>2, <3>1, <3>2
  <2>4. Store!Save(i, path)
    BY <2>1, <2>3 DEF Store!Save
  <2> QED BY <2>1, <2>4 DEF Store!Next
<1>3. CASE UNCHANGED disk
  BY <1>3, NothingInStore
<1>4. CASE \E rest \in Torn(Written(tabs[i])) :
             disk' = [disk EXCEPT ![path] = rest]
  BY <1>4, LosesFile
<1> QED BY <1>2, <1>3, <1>4 DEF Write

(* So does the end of the process within it, with all tabs.                  *)
LEMMA DiesSavingTab ==
  ASSUME IInv, NEW path \in Paths, NEW i \in DOMAIN tabs,
         DiesInWrite(path, Written(tabs[i]))
  PROVE  Store!Next
BY LosesFile DEF DiesInWrite, NewProcess

(* A file of one width, if it is readable at all, is whole.                  *)
LEMMA OpensWhole ==
  ASSUME IInv, NEW width \in Nat, OneWidth(width), WidthInv(width),
         NEW path \in Paths, NEW version \in Versions, disk[path] # NoFile,
         Readable(disk[path], FieldDefinitions(path, version, disk[path]))
  PROVE  /\ disk[path] \in File /\ Whole(disk[path])
         /\ disk[path].fields = width /\ width > 0
         /\ FieldDefinitions(path, version, disk[path]) = Unsigned(width)
<1> DEFINE file == disk[path]
           types == FieldDefinitions(path, version, file)
<1>1. file \in File /\ WholeOrCut(file)
  BY DEF IInv, TypeOK, FilesKnown
<1>2. file.magic /\ file.fields = width /\ width > 0
  BY <1>1 DEF Readable, WidthInv, WholeOrCut
<1>3. types = Unsigned(width)
  <2>1. Definitions[version][path] \in {<<>>, Unsigned(width)}
    BY DEF OneWidth
  <2>2. [j \in 1..file.fields |-> "uint"] = Unsigned(width)
    BY <1>2 DEF Unsigned
  <2>3. types = IF Definitions[version][path] = <<>>
                THEN Unsigned(width) ELSE Definitions[version][path]
    BY <2>2 DEF FieldDefinitions
  <2> QED BY ONLY <2>1, <2>3
<1>4. Len(types) = width
  BY <1>3 DEF Unsigned
<1>5. file.count * width <= Len(file.body)
  BY <1>4 DEF Readable
<1>6. /\ file.count * width \in Nat /\ Len(file.body) \in Nat
  BY <1>1 DEF File
<1>7. Whole(file)
  BY <1>1, <1>2, <1>5, <1>6 DEF WholeOrCut
<1> QED BY <1>1, <1>2, <1>3, <1>7

(* A tab is opened with the table of its file, or nothing happens.           *)
LEMMA OpensFile ==
  ASSUME IInv, UnsignedTables, NEW width \in Nat, OneWidth(width),
         WidthInv(width), NEW path \in Paths, NEW version \in Versions,
         SelectFile(path, version)
  PROVE  [Store!Next]_<<StoredTables, OpenTabs>>
<1> DEFINE file == disk[path]
           types == FieldDefinitions(path, version, file)
           tab == NewTab(path, types, file)
<1>1. CASE ~Readable(file, types)
  <2>1. UNCHANGED <<disk, tabs>>
    BY <1>1 DEF SelectFile
  <2> QED BY <2>1, NothingInStore
<1>2. CASE Readable(file, types)
  <2>1. UNCHANGED disk /\ file # NoFile /\ tabs' = Append(tabs, tab)
    BY <1>2 DEF SelectFile
  <2>2. /\ file \in File /\ Whole(file) /\ file.fields = width /\ width > 0
        /\ types = Unsigned(width)
    BY <1>2, <2>1, OpensWhole
  <2>3. tab.path = path /\ ShownTable(tab) = TableIn(file)
    <3>1. tab.path = path
      BY DEF NewTab
    <3> QED BY <2>2, <3>1, TableOpened
  <2>4. OpenTab(tab) = [path |-> path, table |-> StoredTables[path]]
    BY <2>3 DEF OpenTab, StoredTables
  <2> HIDE DEF file, types, tab
  <2>5. tabs \in Seq(Tab)
    BY DEF IInv, TypeOK
  <2>6. OpenTabs' = Append(OpenTabs, OpenTab(tab))
    <3>1. /\ Len(OpenTabs) = Len(tabs) /\ Len(tabs) \in Nat
          /\ OpenTabs = [i \in 1..Len(tabs) |-> OpenTab(tabs[i])]
      BY <2>5, OpenTabsAre DEF OpenTabs
    <3>2. /\ DOMAIN tabs' = 1..(Len(tabs) + 1)
          /\ \A i \in 1..(Len(tabs) + 1) :
               tabs'[i] = IF i <= Len(tabs) THEN tabs[i] ELSE tab
      BY <2>1, <2>5
    <3>3. OpenTabs' = [i \in 1..(Len(tabs) + 1) |->
                         IF i <= Len(tabs) THEN OpenTab(tabs[i]) ELSE OpenTab(tab)]
      <4>1. \A i \in 1..(Len(tabs) + 1) : OpenTab(tabs'[i]) =
              IF i <= Len(tabs) THEN OpenTab(tabs[i]) ELSE OpenTab(tab)
        BY <3>2
      <4> QED BY <3>2, <4>1, TablesAfter
    <3> HIDE DEF OpenTab
    <3> QED BY <3>1, <3>3
  <2>7. UNCHANGED StoredTables
    BY <2>1, TablesAfter DEF StoredTables
  <2>8. StoredTables[path] \notin {Missing, Lost}
    <3>1. TableIn(file) \in Store!Table
      BY <2>2, TableType
    <3> QED BY <3>1 DEF UnsignedTables, StoredTables, file
  <2>9. Store!Open(path)
    BY <2>4, <2>6, <2>7, <2>8 DEF Store!Open
  <2> QED BY <2>9 DEF Store!Next
<1> QED BY <1>1, <1>2

(* Every file that has a header has this many fields.                        *)
WidthOnDisk(width) ==
  \A path \in Paths :
    disk[path] # NoFile /\ disk[path].magic => disk[path].fields = width

(* A save gives a file as many fields as the tab has columns.                *)
LEMMA SavesWidth ==
  ASSUME IInv, NEW width \in Nat, WidthInv(width), NEW path \in Paths,
         NEW i \in DOMAIN tabs,
         \/ disk' = [disk EXCEPT ![path] = Written(tabs[i])]
         \/ UNCHANGED disk
         \/ \E rest \in Torn(Written(tabs[i])) :
              disk' = [disk EXCEPT ![path] = rest]
  PROVE  WidthOnDisk(width)'
<1> DEFINE file == Written(tabs[i])
<1>1. tabs[i].width = width /\ WidthOnDisk(width)
  BY DEF WidthInv, WidthOnDisk
<1>2. file.fields = width
  BY <1>1 DEF Written
<1>3. file \in File
  <2>1. tabs[i] \in Tab
    BY DEF IInv, TypeOK
  <2> QED BY <2>1, WrittenType
<1> HIDE DEF file
<1>4. ASSUME NEW rest, rest.magic => rest.fields = width,
             disk' = [disk EXCEPT ![path] = rest]
      PROVE  WidthOnDisk(width)'
  <2>1. disk \in [Paths -> File \cup {NoFile}]
    BY DEF IInv, TypeOK
  <2>2. \A p \in Paths : disk'[p] = IF p = path THEN rest ELSE disk[p]
    BY <1>4, <2>1
  <2> QED BY <1>1, <1>4, <2>2 DEF WidthOnDisk
<1>5. CASE disk' = [disk EXCEPT ![path] = file]
  BY <1>2, <1>4, <1>5
<1>6. CASE UNCHANGED disk
  BY <1>1, <1>6 DEF WidthOnDisk
<1>7. CASE \E rest \in Torn(file) : disk' = [disk EXCEPT ![path] = rest]
  <2>1. PICK rest \in Torn(file) : disk' = [disk EXCEPT ![path] = rest]
    BY <1>7
  <2>2. rest.magic => rest.fields = width
    <3>1. CASE rest = NoHeader
      BY <3>1 DEF NoHeader
    <3>2. CASE rest \in {[file EXCEPT !.body = SubSeq(file.body, 1, n)] :
                           n \in 0..(Len(file.body) - 1)}
      BY <1>2, <1>3, <3>2 DEF File
    <3> QED BY <2>1, <3>1, <3>2 DEF Torn
  <2> QED BY <1>4, <2>1, <2>2
<1> QED BY <1>5, <1>6, <1>7 DEF file

(* At the start no tab is open and every file is one of Files.               *)
LEMMA StartsStore ==
  ASSUME NEW width \in Nat, OneWidth(width), Init
  PROVE  WidthInv(width) /\ Store!Init
<1>1. /\ disk \in [Paths -> Files \cup {NoFile}] /\ tabs = <<>>
      /\ Files \subseteq File /\ \A file \in Files : Whole(file)
  BY DbcAssumption DEF Init
<1>2. WidthInv(width)
  BY <1>1 DEF WidthInv, OneWidth
<1>3. \A path \in Paths : TableIn(disk[path]) \in Store!Table \cup {Missing}
  <2> SUFFICES ASSUME NEW path \in Paths
               PROVE  TableIn(disk[path]) \in Store!Table \cup {Missing}
    OBVIOUS
  <2>1. CASE disk[path] = NoFile
    BY <2>1 DEF TableIn
  <2>2. CASE disk[path] \in Files
    BY <1>1, <2>2, TableType
  <2> QED BY <1>1, <2>1, <2>2
<1>4. StoredTables \in [Paths -> Store!Table \cup {Missing}]
  BY <1>3 DEF StoredTables
<1>5. OpenTabs = <<>>
  BY <1>1 DEF OpenTabs
<1> QED BY <1>2, <1>4, <1>5 DEF Store!Init

(* A change in the selected tab only.                                        *)
LEMMA ChangesSelected ==
  ASSUME IInv, NEW width, WidthInv(width), selected # 0, UNCHANGED disk,
         DOMAIN tabs' = DOMAIN tabs,
         tabs'[selected].path = tabs[selected].path,
         tabs'[selected].width = tabs[selected].width,
         \A k \in DOMAIN tabs \ {selected} : tabs'[k] = tabs[k]
  PROVE  WidthInv(width)' /\ Store!Next
<1>1. selected \in DOMAIN tabs
  BY SelectedTab DEF IInv
<1>2. Store!Next
  BY <1>1, ChangesTab
<1>3. \A k \in DOMAIN tabs : tabs'[k].width = tabs[k].width
  OBVIOUS
<1> QED BY <1>2, <1>3 DEF WidthInv

(* Every step is one of the store or none, and keeps the width.              *)
LEMMA StepsInStore ==
  ASSUME UnsignedTables, NEW width \in Nat, OneWidth(width), IInv,
         WidthInv(width), [Next]_vars
  PROVE  WidthInv(width)' /\ [Store!Next]_<<StoredTables, OpenTabs>>
<1> DEFINE Goal == WidthInv(width)' /\ [Store!Next]_<<StoredTables, OpenTabs>>
<1> SUFFICES Goal
  OBVIOUS
<1>1. TypeOK /\ tabs \in Seq(Tab) /\ disk \in [Paths -> File \cup {NoFile}]
  BY DEF IInv, TypeOK
<1>2. CASE UNCHANGED <<disk, tabs>>
  BY <1>2, NothingInStore DEF WidthInv
<1>3. CASE UNCHANGED disk /\ tabs' = <<>>
  <2>1. WidthInv(width)'
    BY <1>3 DEF WidthInv
  <2>2. Store!CloseAll
    BY <1>3, ClosesAll
  <2> QED BY <2>1, <2>2 DEF Store!Next
<1>4. ASSUME NEW path \in Paths, NEW version \in Versions,
             SelectFile(path, version)
      PROVE  Goal
  <2>1. [Store!Next]_<<StoredTables, OpenTabs>>
    BY <1>4, OpensFile
  <2>2. WidthInv(width)'
    <3> DEFINE file == disk[path]
               types == FieldDefinitions(path, version, file)
    <3>1. CASE ~Readable(file, types)
      BY <1>4, <3>1 DEF SelectFile, WidthInv
    <3>2. CASE Readable(file, types)
      <4>1. /\ UNCHANGED disk /\ file # NoFile
            /\ tabs' = Append(tabs, NewTab(path, types, file))
        BY <1>4, <3>2 DEF SelectFile
      <4>2. types = Unsigned(width)
        BY <3>2, <4>1, OpensWhole
      <4>3. NewTab(path, types, file).width = width
        BY <4>2 DEF NewTab, Unsigned
      <4> HIDE DEF file, types
      <4>4. \A i \in DOMAIN tabs' : tabs'[i].width = width
        BY <1>1, <4>1, <4>3 DEF WidthInv
      <4> QED BY <4>1, <4>4 DEF WidthInv
    <3> QED BY <3>1, <3>2
  <2> QED BY <2>1, <2>2
<1>5. ASSUME selected # 0, UNCHANGED disk,
             NEW tab, tab.path = tabs[selected].path,
             tab.width = tabs[selected].width,
             tabs' = [tabs EXCEPT ![selected] = tab]
      PROVE  Goal
  <2>1. selected \in DOMAIN tabs
    BY <1>1, <1>5, SelectedTab
  <2>2. /\ DOMAIN tabs' = DOMAIN tabs /\ tabs'[selected] = tab
        /\ \A k \in DOMAIN tabs \ {selected} : tabs'[k] = tabs[k]
    BY <1>1, <1>5, <2>1
  <2> QED BY <1>5, <2>2, ChangesSelected
<1>6. ASSUME NEW i \in DOMAIN tabs, CloseCurrentTab(i)
      PROVE  Goal
  <2>1. UNCHANGED disk /\ tabs' = RemoveAt(tabs, i)
    BY <1>6 DEF CloseCurrentTab
  <2>2. Store!Next
    BY <1>1, <1>6, <2>1, ClosesTab
  <2>3. \A k \in DOMAIN tabs' : tabs'[k].width = width
    <3>1. i \in 1..Len(tabs)
      BY <1>1, <1>6
    <3>2. /\ tabs' \in Seq(Tab) /\ Len(tabs') = Len(tabs) - 1
          /\ \A k \in 1..(Len(tabs) - 1) :
               tabs'[k] = IF k < i THEN tabs[k] ELSE tabs[k + 1]
      BY ONLY <1>1, <2>1, <3>1, RemoveAtProperties
    <3>3. \A k \in 1..Len(tabs) : tabs[k].width = width
      BY <1>1 DEF WidthInv
    <3> QED BY <1>1, <3>2, <3>3
  <2> QED BY <2>1, <2>2, <2>3 DEF WidthInv
<1>7. ASSUME NEW path \in Paths, NEW i \in DOMAIN tabs,
             NEW success \in BOOLEAN, NEW exception \in BOOLEAN,
             Write(path, Written(tabs[i]), success, exception),
             UNCHANGED tabs
      PROVE  Goal
  <2>1. WidthOnDisk(width)'
    BY <1>7, SavesWidth DEF Write
  <2>2. WidthInv(width)'
    BY <1>7, <2>1 DEF WidthInv, WidthOnDisk
  <2> QED BY <1>7, <2>2, SavesTab
<1>8. ASSUME NEW path \in Paths, NEW i \in DOMAIN tabs,
             DiesInWrite(path, Written(tabs[i]))
      PROVE  Goal
  <2>1. WidthOnDisk(width)' /\ tabs' = <<>>
    BY <1>8, SavesWidth DEF DiesInWrite, NewProcess
  <2>2. WidthInv(width)'
    BY <2>1 DEF WidthInv, WidthOnDisk
  <2> QED BY <1>8, <2>2, DiesSavingTab
<1>9. ASSUME NEW path \in Paths, NEW i \in DOMAIN tabs,
             SaveTo(path, Written(tabs[i]))
      PROVE  Goal
  BY <1>7, <1>8, <1>9 DEF SaveTo
<1> HIDE DEF Goal
<1>10. CASE Restart \/ CloseAllTabs \/ DBCEditor_FormClosed
  BY <1>3, <1>10 DEF Restart, CloseAllTabs, DBCEditor_FormClosed, NewProcess
<1>11. ASSUME NEW i \in GridPlaces, NEW j \in GridColumns, NEW text \in Typed,
              EditCell(i, j, text)
       PROVE  Goal
  <2> DEFINE old == tabs[selected]
             tab == [old EXCEPT !.rows = [old.rows EXCEPT ![i] =
                       [old.rows[i] EXCEPT ![j] = text]]]
  <2>1. selected # 0 /\ UNCHANGED disk
    BY <1>11 DEF EditCell, GridPlaces
  <2>2. old \in Tab
    BY <1>1, <2>1, SelectedTab
  <2>3. tabs' = [tabs EXCEPT ![selected] = tab]
    BY <1>11 DEF EditCell
  <2>4. tab.path = old.path /\ tab.width = old.width
    BY <2>2 DEF Tab
  <2> HIDE DEF tab
  <2> QED BY <1>5, <2>1, <2>3, <2>4
<1>12. ASSUME NEW j \in GridColumns, NEW text \in Typed, AddRow(j, text)
       PROVE  Goal
  <2> DEFINE old == tabs[selected]
             row == [k \in 1..old.width |-> IF k = j THEN text ELSE Null]
             tab == [old EXCEPT !.rows = Append(old.rows, row)]
  <2>1. selected # 0 /\ UNCHANGED disk
    BY <1>12 DEF AddRow, GridColumns
  <2>2. old \in Tab
    BY <1>1, <2>1, SelectedTab
  <2>3. tabs' = [tabs EXCEPT ![selected] = tab]
    BY <1>12 DEF AddRow
  <2>4. tab.path = old.path /\ tab.width = old.width
    BY <2>2 DEF Tab
  <2> HIDE DEF tab
  <2> QED BY <1>5, <2>1, <2>3, <2>4
<1>13. ASSUME NEW i \in GridPlaces, DeleteRow(i)
       PROVE  Goal
  <2> DEFINE old == tabs[selected]
             tab == [old EXCEPT !.rows = RemoveAt(old.rows, i)]
  <2>1. selected # 0 /\ UNCHANGED disk
    BY <1>13 DEF DeleteRow, GridPlaces
  <2>2. old \in Tab
    BY <1>1, <2>1, SelectedTab
  <2>3. tabs' = [tabs EXCEPT ![selected] = tab]
    BY <1>13 DEF DeleteRow
  <2>4. tab.path = old.path /\ tab.width = old.width
    BY <2>2 DEF Tab
  <2> HIDE DEF tab
  <2> QED BY <1>5, <2>1, <2>3, <2>4
<1>14. ASSUME NEW query \in Queries, CreateNewFilter(query)
       PROVE  Goal
  <2>1. CASE UNCHANGED tabs
    BY <1>2, <1>14, <2>1 DEF CreateNewFilter
  <2>2. CASE tabs' # tabs
    <3> DEFINE old == tabs[selected]
               tab == [old EXCEPT !.filter = query, !.bound = "BindingSource"]
    <3>1. /\ selected # 0 /\ UNCHANGED disk
          /\ tabs' = [tabs EXCEPT ![selected].filter = query,
                                  ![selected].bound = "BindingSource"]
      BY <1>14, <2>2 DEF CreateNewFilter
    <3>2. old \in Tab /\ selected \in DOMAIN tabs
      BY <1>1, <3>1, SelectedTab
    <3>3. tabs' = [tabs EXCEPT ![selected] = tab]
      BY <1>1, <3>1, <3>2
    <3>4. tab.path = old.path /\ tab.width = old.width
      BY <3>2 DEF Tab
    <3> HIDE DEF tab
    <3> QED BY <1>5, <3>1, <3>3, <3>4
  <2> QED BY <2>1, <2>2
<1>15. CASE ClearFilter
  <2>1. CASE UNCHANGED tabs
    BY <1>2, <1>15, <2>1 DEF ClearFilter
  <2>2. CASE tabs' # tabs
    <3> DEFINE old == tabs[selected]
               tab == [old EXCEPT !.bound = "DataTable"]
    <3>1. /\ selected # 0 /\ UNCHANGED disk
          /\ tabs' = [tabs EXCEPT ![selected].bound = "DataTable"]
      BY <1>15, <2>2 DEF ClearFilter
    <3>2. old \in Tab
      BY <1>1, <3>1, SelectedTab
    <3>3. tabs' = [tabs EXCEPT ![selected] = tab]
      BY <3>1
    <3>4. tab.path = old.path /\ tab.width = old.width
      BY <3>2 DEF Tab
    <3> HIDE DEF tab
    <3> QED BY <1>5, <3>1, <3>3, <3>4
  <2> QED BY <2>1, <2>2
<1>16. CASE SaveFile \/ \E path \in Paths : SaveFileAs(path)
  <2>1. CASE NothingLoaded
    BY <1>2, <2>1 DEF NothingLoaded
  <2>2. CASE ~NothingLoaded
    <3>1. /\ selected # 0
          /\ \/ SaveTo(tabs[selected].path, Written(tabs[selected]))
             \/ \E path \in Paths : SaveTo(path, Written(tabs[selected]))
      BY <1>16, <2>2 DEF SaveFile, SaveFileAs
    <3>2. selected \in DOMAIN tabs /\ tabs[selected].path \in Paths
      BY <1>1, <3>1, SelectedTab DEF Tab
    <3> QED BY <1>9, <3>1, <3>2
  <2> QED BY <2>1, <2>2
<1>17. CASE SaveNext
  <2>1. job.next \in DOMAIN tabs
    BY <1>17 DEF SaveNext
  <2>2. tabs[job.next].path \in Paths
    <3>1. tabs[job.next] \in Tab
      BY ONLY <1>1, <2>1
    <3> QED BY <3>1 DEF Tab
  <2> QED BY <1>7, <1>8, <1>17, <2>1, <2>2 DEF SaveNext
<1>18. CASE SaveAll \/ FinishSaveAll \/ (\E i \in DOMAIN tabs : SelectTab(i))
             \/ UNCHANGED vars
  BY <1>2, <1>18 DEF SaveAll, FinishSaveAll, SelectTab, NothingLoaded, vars
<1> QED BY <1>4, <1>6, <1>10, <1>11, <1>12, <1>13, <1>14, <1>15, <1>16, <1>17,
           <1>18 DEF Next

(* The editor implements the store of tables, for any files, tabs, filters   *)
(* and faults, where all fields are unsigned and the definitions have as     *)
(* many as the files: a file opened again shows what the tab showed that was *)
(* last saved there, and what a failed save left is never opened.            *)
THEOREM EditorImplementsStore ==
  ASSUME UnsignedTables
  PROVE  Spec => ImplementsTableStore
<1>1. PICK width \in Nat : OneWidth(width)
  BY DEF UnsignedTables
<1>2. Init => WidthInv(width) /\ Store!Init
  BY <1>1, StartsStore
<1>3. IInv /\ WidthInv(width) /\ [Next]_vars =>
        WidthInv(width)' /\ [Store!Next]_<<StoredTables, OpenTabs>>
  BY <1>1, StepsInStore
<1> QED BY <1>2, <1>3, Always, PTL DEF Spec, ImplementsTableStore, Store!Spec

=============================================================================
