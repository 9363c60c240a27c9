-------------------------- MODULE MCConnectionTree --------------------------
(* Small catalogues for ConnectionTree.  The names of different servers are *)
(* different, so that a node shows where it came from.                      *)
EXTENDS ConnectionTree

CONSTANTS c1, c2

Table(t, cols) == [name |-> t, columns |-> cols]
Schema(s, tables) == [name |-> s, tables |-> tables]

MCNames == {"s1", "s2", "s3", "t1", "t2", "t3", "k1", "k2", "k3"}

(* c1 has a schema with one table, c2 two schemas, one without a table.     *)
MCCatalog ==
  c1 :> <<Schema("s1", <<Table("t1", <<"k1", "k2">>)>>)>> @@
  c2 :> <<Schema("s2", <<>>), Schema("s3", <<Table("t2", <<"k3">>),
                                             Table("t3", <<>>)>>)>>

(* Two empty schemas, so that a read may fail between them.                 *)
MCTwoSchemas ==
  c1 :> <<Schema("s1", <<>>), Schema("s2", <<>>)>> @@
  c2 :> <<>>

(* One empty schema.                                                        *)
MCBareCatalog ==
  c1 :> <<Schema("s1", <<>>)>> @@
  c2 :> <<>>

MCSaved == {<<c1, c2>>, <<>>, NoFile}
MCSavedOne == {<<c1>>, <<>>, NoFile}

LoadSymmetry == Permutations(Loads)
=============================================================================
