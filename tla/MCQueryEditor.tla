---------------------------- MODULE MCQueryEditor ----------------------------
(* QueryEditor over two connections: a schema of one, which has no query    *)
(* and needs no columns, and a column of the other.                         *)
EXTENDS QueryEditor

CONSTANTS c1, c2, s1, t1, k1

MCNames == {c1, c2, s1, t1, k1}

At(connection, schema, table, column) ==
  [connection |-> connection, schema |-> schema, table |-> table,
   column |-> column]

(* A table behaves as a column does before a connection is chosen.          *)
MCNodes == {At(c1, s1, NoName, NoName), At(c2, s1, t1, k1)}
=============================================================================
