----------------------------- MODULE MCDbcEditor -----------------------------
(***************************************************************************)
(* Instances of DbcEditor: one path, which two tabs may share, and words of *)
(* two bits.                                                                *)
(***************************************************************************)
EXTENDS DbcEditorTables

CONSTANTS p1, v1, v2

OnePath == {p1}

(* A version that does not know the table, and one that does.               *)
MCUnsigned ==
  v1 :> [path \in Paths |-> <<>>] @@ v2 :> [path \in Paths |-> <<"uint", "uint">>]

(* Two versions that read the same record as fields of every type.          *)
MCMixed ==
  v1 :> [path \in Paths |-> <<"int", "string">>]
  @@ v2 :> [path \in Paths |-> <<"float", "byte">>]

(* The float 0.0 shows as 0, all others as a text with a point in it.       *)
MCFloatText == [word \in Word |-> IF word = 0 THEN 0 ELSE Prose]
MCStringText == [word \in Word |-> IF word = 3 THEN 3 ELSE Prose]

Table(count, fields, body) ==
  [magic |-> TRUE, count |-> count, fields |-> fields, block |-> 0,
   body |-> body]

(* A record of two fields with a string block behind it.                    *)
OneWithStrings == {[Table(1, 2, <<3, 2, 3>>) EXCEPT !.block = 1]}
OneByTwo == {Table(1, 2, <<2, 1>>)}

(* Hides the rows with a 1 or with nothing in the first column.             *)
HidesBlanks == {[column |-> 1, op |-> "Does Not Contain", value |-> 1]}
=============================================================================
