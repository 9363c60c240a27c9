------------------------ MODULE ConnectionTreeSerial ------------------------
(* One load of the connections tree at a time implements TreeView.          *)
EXTENDS ConnectionTree

(* A single activation, and no connection that is refused before its list   *)
(* is emptied.                                                              *)
OneLoad ==
  /\ \E l \in Loads : Loads = {l}
  /\ Rejected = {}

TheLoad == CHOOSE l \in Loads : TRUE

View == INSTANCE TreeView WITH view <- nodes, todo <- load[TheLoad].conns

(* With a single activation and no refused connection, every step of        *)
(* PopulateTreeViewFromDatabase and its fetches, failed ones included, shows *)
(* the next connection as the server describes it, or nothing.              *)
ImplementsTreeView == View!Spec

-----------------------------------------------------------------------------
(* The inductive invariant behind it: what is hung up and what is left of   *)
(* the list of a loop are the first children of the server's answer, in its *)
(* order; and the shared list is empty until a fetch reads into it.         *)
Continues(hung, left, all) ==
  /\ Len(hung) + Len(left) <= Len(all)
  /\ \A i \in 1..Len(left) : left[i] = all[Len(hung) + i].name

SchemasInOrder(a) ==
  LET all == Catalog[Head(a.conns)] IN
  IF InSchemas(a)
    THEN View!SchemasShown(a.dbNode, all) /\ Continues(a.dbNode, a.schemas, all)
    ELSE a.dbNode = <<>>

TablesInOrder(a) ==
  LET all == Catalog[Head(a.conns)][Len(a.dbNode) + 1].tables IN
  IF InTables(a)
    THEN /\ View!TablesShown(a.schemaNode, all)
         /\ Continues(a.schemaNode, a.tables, all)
    ELSE a.schemaNode = <<>>

ListInOrder(a) ==
  /\ a.at \in {"open", "fetch_box"} => internal_list[a.level] = <<>>
  /\ a.at = "copy" => IsPrefix(internal_list[a.level], Rows(a))

Ended(a) ==
  a.at \in {"idle", "details_box", "loaded_box"} => a.conns = <<>>

OrderInv ==
  /\ \A l \in Loads :
       /\ SchemasInOrder(load[l])
       /\ TablesInOrder(load[l])
       /\ ListInOrder(load[l])
       /\ Ended(load[l])
  /\ \A n \in ToSet(nodes) : View!Shown(n, n.name)

(* ... and behind LoadedMeansAll: once the form is loaded login_list is what *)
(* the file holds, and a connection of a tick's load is in the tree or left. *)
InConfig == login_config \notin {NoFile, <<>>}

ListedInv ==
  /\ timer \/ (\E l \in Loads : load[l].at # "idle") => shown
  /\ \A l \in Loads : load[l].at = "details_box" => NoConnectionsBox
  /\ shown /\ InConfig =>
       \/ login_list = login_config
       \/ \E l \in Loads : load[l].by = "form_load" /\ load[l].at # "idle"
  /\ \A l \in Loads : load[l].by = "timer" /\ login_config # NoFile =>
       ToSet(login_config) \subseteq
         ToSet(NamesOf(nodes)) \cup ToSet(load[l].conns)
=============================================================================
