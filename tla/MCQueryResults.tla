--------------------------- MODULE MCQueryResults ---------------------------
(* Instances of QueryResults for TLC: an empty answer, and answers of one   *)
(* and two rows with different columns.                                     *)
EXTENDS QueryResults, TLC

SizeOf == "none" :> 0 @@ "one" :> 1 @@ "two" :> 2
ColumnsOf == "none" :> {} @@ "one" :> {"name", "cost"} @@ "two" :> {"name"}

MCCount == [q \in Queries |-> SizeOf[q]]
MCColumns == [q \in Queries |-> ColumnsOf[q]]
=============================================================================
