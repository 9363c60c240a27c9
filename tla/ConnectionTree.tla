--------------------------- MODULE ConnectionTree ---------------------------
(***************************************************************************)
(* The loading of the connections tree of the SQL editor:                   *)
(* HelperFunctions.PopulateTreeViewFromDatabase, the three Get*Info fetches *)
(* of DataRequest it awaits, and the four handlers of AppForm that start    *)
(* it (form load, timer tick, the refresh button and the refresh menu).     *)
(*                                                                          *)
(* All of this code runs on the one UI thread of the process.  A handler    *)
(* keeps the thread until it returns or awaits; `stack' holds the handlers  *)
(* that are on the thread, the last one on top.  Everything below the top   *)
(* is inside MessageBox.Show, whose nested message loop goes on delivering  *)
(* timer ticks and continuations, but no user input for the form.  Each     *)
(* activation of PopulateTreeViewFromDatabase is an element of Loads, and   *)
(* the cardinality of Loads bounds how many are in progress at once.        *)
(***************************************************************************)
EXTENDS Naturals, SequencesExt

CONSTANTS
  Connections,    \* the connections that loginconfig.xml may hold
  Names,          \* names of schemas, tables and columns
  Catalog,        \* what INFORMATION_SCHEMA of each server answers
  Rejected,       \* connections whose string or credentials are not usable
  Saved,          \* the possible contents of loginconfig.xml
  NoFile,         \* ... one of which may be: there is no such file
  Loads,          \* activations of PopulateTreeViewFromDatabase
  Faults,         \* what may go wrong: "open" throws a SqlException, "read"
                  \* (or any other exception) ends a fetch before its last row
  LoginWindow     \* a frame for the message box of a refused login

Levels == {"schemas", "tables", "columns"}
Starters == {"form_load", "timer", "refresh_button", "refresh_menu"}

TableNode == [name : Names, columns : Seq(Names)]
SchemaNode == [name : Names, tables : Seq(TableNode)]
ConnectionNode == [name : Connections, schemas : Seq(SchemaNode)]

ASSUME TreeAssumption ==
  /\ Catalog \in [Connections -> Seq(SchemaNode)]
  /\ Rejected \subseteq Connections
  /\ Saved \subseteq Seq(Connections) \cup {NoFile}
  /\ NoFile \notin Seq(Connections)
  /\ Faults \subseteq {"open", "read"}
  /\ LoginWindow \notin Loads

VARIABLES
  login_config,   \* contents of loginconfig.xml
  login_list,     \* Globals.login_list
  internal_list,  \* Globals.internal_{schemas,tables,columns}_list
  is_loading,     \* Globals.is_loading
  shown,          \* the form has been loaded
  timer,          \* update_timer.Enabled
  nodes,          \* connections_tree_view.Nodes
  load,           \* the locals of each activation, and where it is
  stack           \* the handlers on the UI thread

vars == <<login_config, login_list, internal_list, is_loading, shown, timer,
          nodes, load, stack>>

-----------------------------------------------------------------------------
(* What the servers answer. *)

NamesOf(children) == [i \in DOMAIN children |-> children[i].name]

(* INFORMATION_SCHEMA has a row per schema and, for each, a row per table.  *)
ASSUME CatalogAssumption ==
  \A c \in Connections :
    /\ IsInjective(NamesOf(Catalog[c]))
    /\ \A s \in ToSet(Catalog[c]) : IsInjective(NamesOf(s.tables))

Named(children, n) == CHOOSE x \in ToSet(children) : x.name = n

TablesOf(c, s) ==
  IF \E x \in ToSet(Catalog[c]) : x.name = s
    THEN Named(Catalog[c], s).tables ELSE <<>>

ColumnsOf(c, s, t) ==
  IF \E x \in ToSet(TablesOf(c, s)) : x.name = t
    THEN Named(TablesOf(c, s), t).columns ELSE <<>>

-----------------------------------------------------------------------------
(* The locals of an activation: the rest of its snapshot of login_list and  *)
(* of its copies of the schemas and tables lists (the heads are the loop    *)
(* variables), the children already hung under the current connection and   *)
(* schema node.  `clean' remembers that every fetch so far succeeded.       *)

Places == {"idle", "connection", "schema", "table", "open", "copy",
           "fetch_box", "details_box", "loaded_box"}

Boxes == {"fetch_box", "details_box", "loaded_box"}

Running == Places \ (Boxes \cup {"idle", "open"})

Activation ==
  [by : Starters, at : Places, level : Levels, conns : Seq(Connections),
   schemas : Seq(Names), tables : Seq(Names), dbNode : Seq(SchemaNode),
   schemaNode : Seq(TableNode), clean : BOOLEAN]

Fresh(starter, place, list) ==
  [by |-> starter, at |-> place, level |-> "schemas", conns |-> list,
   schemas |-> <<>>, tables |-> <<>>, dbNode |-> <<>>, schemaNode |-> <<>>,
   clean |-> TRUE]

Idle == Fresh("form_load", "idle", <<>>)

Rows(a) ==
  CASE a.level = "schemas" -> NamesOf(Catalog[Head(a.conns)])
    [] a.level = "tables" -> NamesOf(TablesOf(Head(a.conns), Head(a.schemas)))
    [] a.level = "columns" ->
         ColumnsOf(Head(a.conns), Head(a.schemas), Head(a.tables))

-----------------------------------------------------------------------------
(* The UI thread. *)

InLoop ==
  \A l \in Loads \cap ToSet(stack) : load[l].at \in Boxes

OnTop(l, place) ==
  /\ stack # <<>>
  /\ Last(stack) = l
  /\ load[l].at = place

MoveTo(l, place) == load' = [load EXCEPT ![l].at = place]

Return(l) ==
  /\ load' = [load EXCEPT ![l] = Idle]
  /\ stack' = Front(stack)

TypeOK ==
  /\ login_config \in Saved
  /\ login_list \in Seq(Connections)
  /\ internal_list \in [Levels -> Seq(Names)]
  /\ is_loading \in BOOLEAN
  /\ shown \in BOOLEAN
  /\ timer \in BOOLEAN
  /\ nodes \in Seq(ConnectionNode)
  /\ load \in [Loads -> Activation]
  /\ stack \in Seq(Loads \cup {LoginWindow})

(* The form is not shown yet.  login_list is static: it is empty in a new   *)
(* process, and still holds the connections when the form is opened again.  *)
Init ==
  /\ login_config \in Saved
  /\ login_list \in {<<>>} \cup (Saved \ {NoFile})
  /\ internal_list = [level \in Levels |-> <<>>]
  /\ is_loading = FALSE
  /\ shown = FALSE
  /\ timer = FALSE
  /\ nodes = <<>>
  /\ load = [l \in Loads |-> Idle]
  /\ stack = <<>>

-----------------------------------------------------------------------------
(* The handlers that start an activation.  Each runs to the start of the    *)
(* loop over the connections.                                               *)

Begin(l, starter, list) ==
  /\ nodes' = <<>>
  /\ load' = [load EXCEPT ![l] = Fresh(starter, "connection", list)]
  /\ stack' = Append(stack, l)

NoFileCheck_LoadConnectionDetails ==
  /\ timer' = (login_config \notin {NoFile, <<>>})
  /\ login_list' = login_config

TimerOff_LoadConnectionDetails ==
  /\ timer' = FALSE
  /\ login_list' = IF login_config \in {NoFile, <<>>}
                     THEN login_list ELSE login_config

LoadConnectionDetails ==
  /\ timer' = (login_config \notin {NoFile, <<>>})
  /\ login_list' = IF login_config \in {NoFile, <<>>}
                     THEN login_list ELSE login_config

NoConnectionsBox == login_config = <<>>

AppForm_Load(l) ==
  /\ ~shown
  /\ stack = <<>>
  /\ load[l].at = "idle"
  /\ shown' = TRUE
  /\ timer' = TRUE
  /\ Begin(l, "form_load", login_list)
  /\ UNCHANGED <<login_config, login_list, internal_list, is_loading>>

(* A tick that finds is_loading, no file or a node in the tree changes      *)
(* nothing.                                                                 *)
NoGuard_TickLoads == login_config # NoFile /\ nodes = <<>>

TickLoads == ~is_loading /\ login_config # NoFile /\ nodes = <<>>

update_timer_Tick(l) ==
  /\ InLoop
  /\ timer
  /\ TickLoads
  /\ load[l].at = "idle"
  /\ is_loading' = TRUE
  /\ Begin(l, "timer", login_list)
  /\ UNCHANGED <<login_config, login_list, internal_list, shown, timer>>

refresh_connections_Click(l) ==
  /\ shown
  /\ stack = <<>>
  /\ load[l].at = "idle"
  /\ LoadConnectionDetails
  /\ IF NoConnectionsBox
       THEN /\ load' = [load EXCEPT ![l] =
                          Fresh("refresh_button", "details_box", <<>>)]
            /\ stack' = Append(stack, l)
            /\ UNCHANGED nodes
       ELSE Begin(l, "refresh_button", login_list')
  /\ UNCHANGED <<login_config, internal_list, is_loading, shown>>

refreshToolStripMenuItem_Click(l) ==
  /\ shown
  /\ stack = <<>>
  /\ load[l].at = "idle"
  /\ Begin(l, "refresh_menu", login_list)
  /\ UNCHANGED <<login_config, login_list, internal_list, is_loading, shown,
                 timer>>

-----------------------------------------------------------------------------
(* PopulateTreeViewFromDatabase, one step for the head of each loop.        *)

Unchanged_but_load ==
  UNCHANGED <<login_config, login_list, internal_list, is_loading, shown,
              timer, nodes, stack>>

(* connections_tree_view.Nodes.Add(dbNode) ends the turn of a connection.   *)
SkipEmpty_AddConnection(l) ==
  LET a == load[l] IN
  /\ OnTop(l, "schema")
  /\ a.schemas = <<>>
  /\ nodes' = IF a.dbNode = <<>> THEN nodes ELSE
                Append(nodes, [name |-> Head(a.conns), schemas |-> a.dbNode])
  /\ load' = [load EXCEPT ![l] = [a EXCEPT !.at = "connection",
                                           !.conns = Tail(a.conns),
                                           !.dbNode = <<>>]]
  /\ UNCHANGED <<login_config, login_list, internal_list, is_loading, shown,
                 timer, stack>>

AddConnection(l) ==
  LET a == load[l] IN
  /\ OnTop(l, "schema")
  /\ a.schemas = <<>>
  /\ nodes' = Append(nodes, [name |-> Head(a.conns), schemas |-> a.dbNode])
  /\ load' = [load EXCEPT ![l] = [a EXCEPT !.at = "connection",
                                           !.conns = Tail(a.conns),
                                           !.dbNode = <<>>]]
  /\ UNCHANGED <<login_config, login_list, internal_list, is_loading, shown,
                 timer, stack>>

AddSchema(l) ==
  LET a == load[l]
      node == [name |-> Head(a.schemas), tables |-> a.schemaNode]
  IN
  /\ OnTop(l, "table")
  /\ a.tables = <<>>
  /\ load' = [load EXCEPT ![l] = [a EXCEPT !.at = "schema",
                                           !.schemas = Tail(a.schemas),
                                           !.schemaNode = <<>>,
                                           !.dbNode = Append(a.dbNode, node)]]
  /\ Unchanged_but_load

(* The ToList() that follows each fetch: the activation's copy is whatever  *)
(* the shared list holds at that moment.                                    *)
CopyList(l) ==
  LET a == load[l]
      list == internal_list[a.level]
  IN
  /\ OnTop(l, "copy")
  /\ load' = [load EXCEPT ![l] =
       CASE a.level = "schemas" -> [a EXCEPT !.at = "schema", !.schemas = list]
         [] a.level = "tables" -> [a EXCEPT !.at = "table", !.tables = list]
         [] a.level = "columns" ->
              [a EXCEPT !.at = "table", !.tables = Tail(a.tables),
                 !.schemaNode = Append(a.schemaNode, [name |-> Head(a.tables),
                                                      columns |-> list])]]
  /\ Unchanged_but_load

-----------------------------------------------------------------------------
(* The fetches.  The three functions differ in the list they fill and in    *)
(* the query they run.                                                      *)

(* Up to the await of Open: a connection that is refused gets a message box *)
(* and returns with the list untouched, any other empties the list.         *)
NoClear_Cleared(level) == internal_list

Cleared(level) == [internal_list EXCEPT ![level] = <<>>]

Call(l, level) ==
  /\ IF Head(load[l].conns) \in Rejected
       THEN /\ load' = [load EXCEPT ![l].at = "fetch_box", ![l].level = level,
                                    ![l].clean = FALSE]
            /\ UNCHANGED <<internal_list, stack>>
       ELSE /\ internal_list' = Cleared(level)
            /\ load' = [load EXCEPT ![l].at = "open", ![l].level = level]
            /\ stack' = Front(stack)
  /\ UNCHANGED <<login_config, login_list, is_loading, shown, timer, nodes>>

(* After Open, on the UI thread: the reader appends its rows, all of them   *)
(* or those it read before an exception (none when Open itself threw).      *)
IfEmpty_Added(level, rows) ==
  IF internal_list[level] = <<>>
    THEN [internal_list EXCEPT ![level] = rows] ELSE internal_list

Added(level, rows) == [internal_list EXCEPT ![level] = @ \o rows]

Read(l, level) ==
  LET rows == Rows(load[l]) IN
  /\ \E k \in 0..Len(rows), complete \in BOOLEAN :
       /\ IF complete THEN k = Len(rows) ELSE "read" \in Faults
       /\ internal_list' = Added(level, SubSeq(rows, 1, k))
       /\ load' = [load EXCEPT ![l].at = "copy",
                               ![l].clean = @ /\ complete]
  /\ stack' = Append(stack, l)
  /\ UNCHANGED <<login_config, login_list, is_loading, shown, timer, nodes>>

(* Open threw a SqlException: a message box, then return.                   *)
OpenFails(l) ==
  /\ "open" \in Faults
  /\ load' = [load EXCEPT ![l].at = "fetch_box", ![l].clean = FALSE]
  /\ stack' = Append(stack, l)
  /\ UNCHANGED <<login_config, login_list, internal_list, is_loading, shown,
                 timer, nodes>>

DismissFetchBox(l) ==
  /\ OnTop(l, "fetch_box")
  /\ MoveTo(l, "copy")
  /\ Unchanged_but_load

(* The await of Open resumes where the thread's message loop runs.          *)
Resumes(l) == load[l].at = "open" /\ InLoop

Answer(l, level) ==
  /\ load[l].level = level
  /\ \/ Resumes(l) /\ (Read(l, level) \/ OpenFails(l))
     \/ DismissFetchBox(l)

GetSchemasInfo(l) ==
  \/ OnTop(l, "connection") /\ load[l].conns # <<>> /\ Call(l, "schemas")
  \/ Answer(l, "schemas")

GetTablesInfo(l) ==
  \/ OnTop(l, "schema") /\ load[l].schemas # <<>> /\ Call(l, "tables")
  \/ Answer(l, "tables")

GetColumnsInfo(l) ==
  \/ OnTop(l, "table") /\ load[l].tables # <<>> /\ Call(l, "columns")
  \/ Answer(l, "columns")

PopulateTreeViewFromDatabase(l) ==
  AddConnection(l) \/ AddSchema(l) \/ CopyList(l)

-----------------------------------------------------------------------------
(* What the handlers do when the await of an activation returns.            *)

Populated(l) == OnTop(l, "connection") /\ load[l].conns = <<>>

FinishRefresh(l) ==
  /\ Populated(l)
  /\ load[l].by \in {"refresh_button", "refresh_menu"}
  /\ Return(l)
  /\ UNCHANGED <<login_config, login_list, internal_list, is_loading, shown,
                 timer, nodes>>

FinishFormLoad(l) ==
  /\ Populated(l)
  /\ load[l].by = "form_load"
  /\ LoadConnectionDetails
  /\ IF NoConnectionsBox
       THEN MoveTo(l, "details_box") /\ UNCHANGED stack
       ELSE Return(l)
  /\ UNCHANGED <<login_config, internal_list, is_loading, shown, nodes>>

(* MessageBox.Show("Loaded all connections!")                               *)
ShowLoaded(l) ==
  /\ Populated(l)
  /\ load[l].by = "timer"
  /\ MoveTo(l, "loaded_box")
  /\ Unchanged_but_load

(* ... and the finally block of the tick.                                   *)
DismissLoaded(l) ==
  /\ OnTop(l, "loaded_box")
  /\ is_loading' = FALSE
  /\ Return(l)
  /\ UNCHANGED <<login_config, login_list, internal_list, shown, timer, nodes>>

(* "No connections found in configuration file!": the refresh button goes   *)
(* on to populate the tree, the form load is over.                          *)
AskAgain_DismissDetails(l) ==
  /\ OnTop(l, "details_box")
  /\ ~NoConnectionsBox
  /\ Return(l)
  /\ UNCHANGED <<login_config, login_list, internal_list, is_loading, shown,
                 timer, nodes>>

DismissDetails(l) ==
  /\ OnTop(l, "details_box")
  /\ IF load[l].by = "refresh_button"
       THEN /\ nodes' = <<>>
            /\ load' = [load EXCEPT ![l] =
                          Fresh("refresh_button", "connection", login_list)]
            /\ UNCHANGED stack
       ELSE Return(l) /\ UNCHANGED nodes
  /\ UNCHANGED <<login_config, login_list, internal_list, is_loading, shown,
                 timer>>

(* App.AuthenticateUser with an empty field: login_list is emptied before   *)
(* the fields are looked at, a message box names the field, and the file is *)
(* not touched.                                                             *)
RefuseLogin ==
  /\ shown
  /\ stack = <<>>
  /\ login_list' = <<>>
  /\ stack' = <<LoginWindow>>
  /\ UNCHANGED <<login_config, internal_list, is_loading, shown, timer, nodes,
                 load>>

DismissRefusal ==
  /\ stack # <<>>
  /\ Last(stack) = LoginWindow
  /\ stack' = Front(stack)
  /\ UNCHANGED <<login_config, login_list, internal_list, is_loading, shown,
                 timer, nodes, load>>

Finish(l) ==
  \/ FinishRefresh(l) \/ FinishFormLoad(l) \/ ShowLoaded(l)
  \/ DismissLoaded(l) \/ DismissDetails(l)

Progress(l) ==
  \/ PopulateTreeViewFromDatabase(l)
  \/ GetSchemasInfo(l) \/ GetTablesInfo(l) \/ GetColumnsInfo(l)
  \/ Finish(l)

(* The loads alone, and the loads with a login window beside them.         *)
LoadNext ==
  \E l \in Loads :
    \/ AppForm_Load(l)
    \/ update_timer_Tick(l)
    \/ refresh_connections_Click(l)
    \/ refreshToolStripMenuItem_Click(l)
    \/ Progress(l)

Next == LoadNext \/ RefuseLogin \/ DismissRefusal

Spec == Init /\ [][Next]_vars

(* Fairness.  A handler that has the UI thread runs on, every Open ends     *)
(* (the client has a connection timeout), its continuation and the          *)
(* dismissal of a box get their turn though other handlers come in between, *)
(* and the timer ticks.  Nothing makes the user start a load.               *)
Fairness ==
  /\ \A l \in Loads : SF_vars(Progress(l))
  /\ WF_vars(\E l \in Loads : update_timer_Tick(l))
  /\ WF_vars(\E l \in Loads : AppForm_Load(l))

LoadSpec == Init /\ [][LoadNext]_vars /\ Fairness

-----------------------------------------------------------------------------
(* Safety. *)

(* The re-entry guard of update_timer_Tick (AppForm.cs:56): is_loading is   *)
(* set exactly while a load that a tick started is in progress, its closing *)
(* message box included, and there is never a second one.                   *)
TickGuard ==
  /\ is_loading <=> \E l \in Loads : load[l].by = "timer" /\ load[l].at # "idle"
  /\ \A l, m \in Loads :
       (load[l].by = "timer" /\ load[m].by = "timer") => l = m

(* The inductive invariant behind it: a place implies which loops the       *)
(* activation is in, a handler on the stack is running or shows a box, only *)
(* the top one may be running, and none is on the stack twice.              *)
Fetching == {"open", "copy", "fetch_box"}

Entered(a) ==
  /\ a.at \in Fetching \cup {"schema", "table"} => a.conns # <<>>
  /\ a.at = "table" => a.schemas # <<>>
  /\ a.at \in Fetching /\ a.level # "schemas" => a.schemas # <<>>
  /\ a.at \in Fetching /\ a.level = "columns" => a.tables # <<>>
  /\ a.at \in {"idle", "details_box"} => a.by # "timer"
  /\ a.at = "loaded_box" => a.by = "timer"

LoopsEntered == \A l \in Loads : Entered(load[l])

StackInv ==
  /\ \A i \in 1..Len(stack) :
       /\ stack[i] \in Loads => load[stack[i]].at \in Boxes \cup Running
       /\ stack[i] \in Loads /\ i # Len(stack) => load[stack[i]].at \in Boxes
  /\ \A i, j \in 1..Len(stack) : stack[i] = stack[j] => i = j
  /\ \A l \in Loads :
       load[l].at \in Running => stack # <<>> /\ stack[Len(stack)] = l

IInv == TypeOK /\ LoopsEntered /\ StackInv /\ TickGuard

(* Every schema, table and column in the tree hangs under the connection,   *)
(* schema and table it belongs to on the server ("Fetch tables for this     *)
(* schema", HelperFunctions.cs:203).                                        *)
EachUnderItsParent ==
  \A n \in ToSet(nodes) : \A s \in ToSet(n.schemas) :
    /\ s.name \in ToSet(NamesOf(Catalog[n.name]))
    /\ \A t \in ToSet(s.tables) :
         /\ t.name \in ToSet(NamesOf(TablesOf(n.name, s.name)))
         /\ ToSet(t.columns) \subseteq ToSet(ColumnsOf(n.name, s.name, t.name))

(* When "Loaded all connections!" (AppForm.cs:70) is on the screen, every   *)
(* connection of loginconfig.xml is in the tree.                            *)
LoadedMeansAll ==
  \A l \in Loads :
    (load[l].at = "loaded_box" /\ login_config # NoFile) =>
      ToSet(login_config) \subseteq ToSet(NamesOf(nodes))

(* However loads overlap, an activation whose fetches all succeeded hangs   *)
(* every schema, table and column of the connection into its node: the      *)
(* shared lists may hand it rows of another activation, and rows twice, but *)
(* it never loses its own.                                                  *)
TableHung(t, tables) ==
  \E y \in ToSet(tables) :
    y.name = t.name /\ ToSet(t.columns) \subseteq ToSet(y.columns)

SchemaHung(s, schemas) ==
  \E x \in ToSet(schemas) :
    x.name = s.name /\ \A t \in ToSet(s.tables) : TableHung(t, x.tables)

Complete(n) == \A s \in ToSet(Catalog[n.name]) : SchemaHung(s, n.schemas)

NothingLost ==
  [][\A l \in Loads :
       AddConnection(l) /\ load[l].clean => Complete(Last(nodes'))]_vars

(* The inductive invariant behind it.  While every fetch has succeeded, each *)
(* schema of the connection is hung up or still in the copied list, and so   *)
(* is each table of the schema that the loop is at; and what a fetch has     *)
(* read is in the shared list until it is copied.                            *)
InTables(a) ==
  \/ a.at = "table"
  \/ a.at \in Fetching /\ a.level = "columns"

InSchemas(a) ==
  \/ a.at = "schema"
  \/ a.at \in Fetching /\ a.level = "tables"
  \/ InTables(a)

NoneDropped(a) ==
  /\ InSchemas(a) =>
       \A s \in ToSet(Catalog[Head(a.conns)]) :
         SchemaHung(s, a.dbNode) \/ s.name \in ToSet(a.schemas)
  /\ InTables(a) =>
       \A s \in ToSet(Catalog[Head(a.conns)]) : s.name = Head(a.schemas) =>
         \A t \in ToSet(s.tables) :
           TableHung(t, a.schemaNode) \/ t.name \in ToSet(a.tables)

CleanInv ==
  \A l \in Loads : load[l].clean =>
    /\ load[l].at # "fetch_box"
    /\ NoneDropped(load[l])
    /\ load[l].at = "copy" =>
         ToSet(Rows(load[l])) \subseteq ToSet(internal_list[load[l].level])

(* Liveness. *)

(* Every load that is started ends: the fetches of the other loads, their   *)
(* boxes and the ticks in between cannot keep it from finishing.            *)
EveryLoadEnds ==
  \A l \in Loads : load[l].at # "idle" ~> load[l].at = "idle"

(* Once the form is shown and there are saved connections, the tree comes   *)
(* to show something without the user doing anything ("force refresh if not *)
(* loaded yet", AppForm.cs:64).                                             *)
TreeAppears ==
  (shown /\ login_config \notin {NoFile, <<>>}) ~> (nodes # <<>>)
=============================================================================
