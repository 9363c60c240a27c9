------------------------------ MODULE TreeView ------------------------------
(* What the tree of the SQL editor promises to whoever looks at it while it *)
(* is loaded: starting from an empty tree the connections of one list are   *)
(* shown, each once and in the order of the list.  A connection is shown    *)
(* with its schemas, tables and columns under their own parent, in the      *)
(* order of the server's answer; where a fetch failed the children end      *)
(* early.                                                                   *)
EXTENDS Naturals, SequencesExt

CONSTANTS Connections, Catalog

VARIABLES
  view,   \* the tree that is shown
  todo    \* the connections that are still to be shown

vars == <<view, todo>>

Init == view = <<>> /\ todo = <<>>

(* Children that match the first ones of the server's answer. *)
Matches(shown, all, Below(_, _)) ==
  /\ Len(shown) <= Len(all)
  /\ \A i \in 1..Len(shown) :
       shown[i].name = all[i].name /\ Below(shown[i], all[i])

TableShown(t, table) == IsPrefix(t.columns, table.columns)
TablesShown(tables, all) == Matches(tables, all, TableShown)
SchemaShown(s, schema) == TablesShown(s.tables, schema.tables)
SchemasShown(schemas, all) == Matches(schemas, all, SchemaShown)
Shown(n, c) == n.name = c /\ SchemasShown(n.schemas, Catalog[c])

Start ==
  /\ todo = <<>>
  /\ view' = <<>>
  /\ todo' \in Seq(Connections)

Show ==
  /\ todo # <<>>
  /\ Len(view') = Len(view) + 1
  /\ Front(view') = view
  /\ Shown(Last(view'), Head(todo))
  /\ todo' = Tail(todo)

Next == Start \/ Show

Spec == Init /\ [][Next]_vars
=============================================================================
