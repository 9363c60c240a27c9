------------------------ MODULE ConnectionTreeProofs ------------------------
(* Type correctness of ConnectionTree and the two guards it relies on, for  *)
(* any catalogue, any file and any number of overlapping loads.             *)
EXTENDS ConnectionTreeSerial, SequenceTheorems, TLAPS

-----------------------------------------------------------------------------
(* Sequences. *)

(* The names of children are names.                                          *)
LEMMA NamesOfType ==
  ASSUME NEW S, NEW children \in Seq(S), \A x \in S : x.name \in Names
  PROVE  NamesOf(children) \in Seq(Names)
BY DEF NamesOf

(* What is left when the top frame returns.                                  *)
LEMMA FrontType ==
  ASSUME NEW S, NEW s \in Seq(S), s # <<>>
  PROVE  /\ Front(s) \in Seq(S)
         /\ Len(Front(s)) = Len(s) - 1
         /\ \A i \in 1..Len(Front(s)) : Front(s)[i] = s[i]
<1> DEFINE n == Len(s) - 1
<1>1. n \in Nat /\ n <= Len(s)
  OBVIOUS
<1>2. Front(s) = SubSeq(s, 1, n)
  BY DEF Front
<1> HIDE DEF n
<1>3. \A i \in 1..n : s[i] \in S
  BY <1>1
<1>4. /\ SubSeq(s, 1, n) \in Seq(S)
      /\ Len(SubSeq(s, 1, n)) = IF 1 <= n THEN n - 1 + 1 ELSE 0
      /\ \A i \in 1..(n - 1 + 1) : SubSeq(s, 1, n)[i] = s[1 + i - 1]
  BY ONLY <1>1, <1>3, SubSeqProperties
<1>5. Len(SubSeq(s, 1, n)) = n
  BY ONLY <1>1, <1>4
<1>6. \A i \in 1..n : SubSeq(s, 1, n)[i] = s[i]
  BY ONLY <1>1, <1>4
<1> QED BY <1>2, <1>4, <1>5, <1>6 DEF n

(* What a new frame on top makes of the stack.                               *)
LEMMA AppendType ==
  ASSUME NEW S, NEW s \in Seq(S), NEW e \in S
  PROVE  /\ Append(s, e) \in Seq(S)
         /\ Len(Append(s, e)) = Len(s) + 1
         /\ \A i \in 1..Len(s) : Append(s, e)[i] = s[i]
         /\ Append(s, e)[Len(s) + 1] = e
OBVIOUS

(* What the servers answer are names. *)
LEMMA CatalogTypes ==
  ASSUME NEW c \in Connections, NEW s, NEW t
  PROVE  /\ NamesOf(Catalog[c]) \in Seq(Names)
         /\ NamesOf(TablesOf(c, s)) \in Seq(Names)
         /\ ColumnsOf(c, s, t) \in Seq(Names)
<1>1. Catalog[c] \in Seq(SchemaNode)
  BY TreeAssumption
<1>2. NamesOf(Catalog[c]) \in Seq(Names)
  <2>1. \A x \in SchemaNode : x.name \in Names
    BY DEF SchemaNode
  <2> QED BY <1>1, <2>1, NamesOfType
<1>3. TablesOf(c, s) \in Seq(TableNode)
  <2>1. CASE \E x \in ToSet(Catalog[c]) : x.name = s
    <3>1. Named(Catalog[c], s) \in ToSet(Catalog[c])
      BY <2>1 DEF Named
    <3>2. Named(Catalog[c], s) \in SchemaNode
      BY <1>1, <3>1 DEF ToSet
    <3> QED BY <2>1, <3>2 DEF TablesOf, SchemaNode
  <2>2. CASE ~ \E x \in ToSet(Catalog[c]) : x.name = s
    BY <2>2 DEF TablesOf
  <2> QED BY <2>1, <2>2
<1>4. NamesOf(TablesOf(c, s)) \in Seq(Names)
  <2>1. \A x \in TableNode : x.name \in Names
    BY DEF TableNode
  <2> QED BY <1>3, <2>1, NamesOfType
<1>5. ColumnsOf(c, s, t) \in Seq(Names)
  <2>1. CASE \E x \in ToSet(TablesOf(c, s)) : x.name = t
    <3>1. Named(TablesOf(c, s), t) \in ToSet(TablesOf(c, s))
      BY <2>1 DEF Named
    <3>2. Named(TablesOf(c, s), t) \in TableNode
      BY <1>3, <3>1 DEF ToSet
    <3> QED BY <2>1, <3>2 DEF ColumnsOf, TableNode
  <2>2. CASE ~ \E x \in ToSet(TablesOf(c, s)) : x.name = t
    BY <2>2 DEF ColumnsOf
  <2> QED BY <2>1, <2>2
<1> QED BY <1>2, <1>4, <1>5

(* A fresh activation has the type of one.                                   *)
LEMMA FreshType ==
  ASSUME NEW starter \in Starters, NEW place \in Places,
         NEW list \in Seq(Connections)
  PROVE  Fresh(starter, place, list) \in Activation
BY DEF Fresh, Activation, Levels

(* Whatever a fetch reads are names.                                         *)
LEMMA RowsType ==
  ASSUME TypeOK, LoopsEntered, NEW l \in Loads, load[l].at = "open"
  PROVE  Rows(load[l]) \in Seq(Names)
<1> DEFINE a == load[l]
<1>1. a \in Activation /\ a.conns # <<>>
  BY DEF TypeOK, LoopsEntered, Entered, Fetching
<1>2. Head(a.conns) \in Connections
  BY <1>1 DEF Activation
<1>3. a.level \in {"schemas", "tables", "columns"}
  BY <1>1 DEF Activation, Levels
<1> QED BY <1>2, <1>3, CatalogTypes DEF Rows

-----------------------------------------------------------------------------
(* Type correctness.  One lemma for the handlers that start an activation,  *)
(* one for the loops, one for the fetches, one for the end of a load.       *)

(* Begin keeps the types of what it assigns.                                 *)
LEMMA BeginType ==
  ASSUME TypeOK, NEW l \in Loads, NEW starter \in Starters,
         NEW list \in Seq(Connections), Begin(l, starter, list)
  PROVE  /\ nodes' \in Seq(ConnectionNode)
         /\ load' \in [Loads -> Activation]
         /\ stack' \in Seq(Loads \cup {LoginWindow})
<1>1. Fresh(starter, "connection", list) \in Activation
  BY FreshType DEF Places
<1> QED BY <1>1 DEF TypeOK, Begin

(* LoadConnectionDetails keeps the types of what it assigns.                 *)
LEMMA DetailsType ==
  ASSUME TypeOK, LoadConnectionDetails
  PROVE  timer' \in BOOLEAN /\ login_list' \in Seq(Connections)
BY TreeAssumption DEF TypeOK, LoadConnectionDetails

(* Return keeps the types of what it assigns.                                *)
LEMMA ReturnType ==
  ASSUME TypeOK, NEW l \in Loads, stack # <<>>, Return(l)
  PROVE  /\ load' \in [Loads -> Activation]
         /\ stack' \in Seq(Loads \cup {LoginWindow})
<1>1. Idle \in Activation
  <2>1. <<>> \in Seq(Connections)
    OBVIOUS
  <2>2. "form_load" \in Starters /\ "idle" \in Places
    BY DEF Starters, Places
  <2> QED BY <2>1, <2>2, FreshType DEF Idle
<1>2. Front(stack) \in Seq(Loads \cup {LoginWindow})
  BY FrontType DEF TypeOK
<1> QED BY <1>1, <1>2 DEF TypeOK, Return

(* The handlers that start an activation keep the types.                     *)
LEMMA StartType ==
  ASSUME TypeOK, NEW l \in Loads,
         \/ AppForm_Load(l)
         \/ update_timer_Tick(l)
         \/ refresh_connections_Click(l)
         \/ refreshToolStripMenuItem_Click(l)
  PROVE  TypeOK'
<1>1. CASE AppForm_Load(l)
  <2>1. /\ nodes' \in Seq(ConnectionNode)
        /\ load' \in [Loads -> Activation]
        /\ stack' \in Seq(Loads \cup {LoginWindow})
    BY <1>1, BeginType DEF AppForm_Load, TypeOK, Starters
  <2> QED BY <1>1, <2>1 DEF AppForm_Load, TypeOK
<1>2. CASE update_timer_Tick(l)
  <2>1. /\ nodes' \in Seq(ConnectionNode)
        /\ load' \in [Loads -> Activation]
        /\ stack' \in Seq(Loads \cup {LoginWindow})
    BY <1>2, BeginType DEF update_timer_Tick, TypeOK, Starters
  <2> QED BY <1>2, <2>1 DEF update_timer_Tick, TypeOK
<1>3. CASE refresh_connections_Click(l)
  <2>1. timer' \in BOOLEAN /\ login_list' \in Seq(Connections)
    BY <1>3, DetailsType DEF refresh_connections_Click
  <2>2. /\ nodes' \in Seq(ConnectionNode)
        /\ load' \in [Loads -> Activation]
        /\ stack' \in Seq(Loads \cup {LoginWindow})
    <3>1. CASE NoConnectionsBox
      <4>1. <<>> \in Seq(Connections)
        OBVIOUS
      <4>2. "refresh_button" \in Starters /\ "details_box" \in Places
        BY DEF Starters, Places
      <4>3. Fresh("refresh_button", "details_box", <<>>) \in Activation
        BY <4>1, <4>2, FreshType
      <4>4. load' = [load EXCEPT ![l] =
                       Fresh("refresh_button", "details_box", <<>>)]
            /\ stack' = Append(stack, l) /\ nodes' = nodes
        BY <1>3, <3>1 DEF refresh_connections_Click
      <4> QED BY <4>3, <4>4 DEF TypeOK
    <3>2. CASE ~NoConnectionsBox
      BY <1>3, <2>1, <3>2, BeginType DEF refresh_connections_Click, Starters
    <3> QED BY <3>1, <3>2
  <2> QED BY <1>3, <2>1, <2>2 DEF refresh_connections_Click, TypeOK
<1>4. CASE refreshToolStripMenuItem_Click(l)
  <2>1. /\ nodes' \in Seq(ConnectionNode)
        /\ load' \in [Loads -> Activation]
        /\ stack' \in Seq(Loads \cup {LoginWindow})
    BY <1>4, BeginType DEF refreshToolStripMenuItem_Click, TypeOK, Starters
  <2> QED BY <1>4, <2>1 DEF refreshToolStripMenuItem_Click, TypeOK
<1> QED BY <1>1, <1>2, <1>3, <1>4

(* The steps of the loops keep the types.                                    *)
LEMMA LoopType ==
  ASSUME TypeOK, LoopsEntered, NEW l \in Loads, PopulateTreeViewFromDatabase(l)
  PROVE  TypeOK'
<1> DEFINE a == load[l]
<1>0. a \in Activation
  BY DEF TypeOK
<1>1. CASE AddConnection(l)
  <2>1. a.conns # <<>>
    BY <1>1 DEF AddConnection, OnTop, LoopsEntered, Entered
  <2>2. Head(a.conns) \in Connections /\ Tail(a.conns) \in Seq(Connections)
    BY <1>0, <2>1 DEF Activation
  <2>3. [name |-> Head(a.conns), schemas |-> a.dbNode] \in ConnectionNode
    BY <1>0, <2>2 DEF Activation, ConnectionNode
  <2>4. [a EXCEPT !.at = "connection", !.conns = Tail(a.conns),
                  !.dbNode = <<>>] \in Activation
    <3>1. <<>> \in Seq(SchemaNode) /\ "connection" \in Places
      BY DEF Places
    <3> QED BY <1>0, <2>2, <3>1 DEF Activation
  <2> QED BY <1>1, <2>3, <2>4 DEF AddConnection, TypeOK
<1>2. CASE AddSchema(l)
  <2>1. a.schemas # <<>>
    BY <1>2 DEF AddSchema, OnTop, LoopsEntered, Entered
  <2>2. Head(a.schemas) \in Names /\ Tail(a.schemas) \in Seq(Names)
    BY <1>0, <2>1 DEF Activation
  <2>3. [name |-> Head(a.schemas), tables |-> a.schemaNode] \in SchemaNode
    BY <1>0, <2>2 DEF Activation, SchemaNode
  <2>4. Append(a.dbNode, [name |-> Head(a.schemas), tables |-> a.schemaNode])
          \in Seq(SchemaNode)
    BY <1>0, <2>3 DEF Activation
  <2>5. [a EXCEPT !.at = "schema", !.schemas = Tail(a.schemas),
                  !.schemaNode = <<>>,
                  !.dbNode = Append(a.dbNode, [name |-> Head(a.schemas),
                                               tables |-> a.schemaNode])]
          \in Activation
    <3>1. <<>> \in Seq(TableNode) /\ "schema" \in Places
      BY DEF Places
    <3> QED BY <1>0, <2>2, <2>4, <3>1 DEF Activation
  <2> QED BY <1>2, <2>5 DEF AddSchema, TypeOK, Unchanged_but_load
<1>3. CASE CopyList(l)
  <2> DEFINE list == internal_list[a.level]
  <2>1. list \in Seq(Names) /\ a.level \in {"schemas", "tables", "columns"}
    BY <1>0 DEF TypeOK, Activation, Levels
  <2>2. [a EXCEPT !.at = "schema", !.schemas = list] \in Activation
    BY <1>0, <2>1 DEF Activation, Places
  <2>3. [a EXCEPT !.at = "table", !.tables = list] \in Activation
    BY <1>0, <2>1 DEF Activation, Places
  <2>4. ASSUME a.level = "columns"
        PROVE  [a EXCEPT !.at = "table", !.tables = Tail(a.tables),
                         !.schemaNode = Append(a.schemaNode,
                           [name |-> Head(a.tables), columns |-> list])]
                 \in Activation
    <3>1. a.tables # <<>>
      BY <1>3, <2>4 DEF CopyList, OnTop, LoopsEntered, Entered, Fetching
    <3>2. Head(a.tables) \in Names /\ Tail(a.tables) \in Seq(Names)
      BY <1>0, <3>1 DEF Activation
    <3>3. [name |-> Head(a.tables), columns |-> list] \in TableNode
      BY <2>1, <3>2 DEF TableNode
    <3>4. Append(a.schemaNode, [name |-> Head(a.tables), columns |-> list])
            \in Seq(TableNode)
      BY <1>0, <3>3 DEF Activation
    <3> QED BY <1>0, <3>2, <3>4 DEF Activation, Places
  <2>5. load' \in [Loads -> Activation]
    BY <1>3, <2>1, <2>2, <2>3, <2>4 DEF CopyList, TypeOK
  <2> QED BY <1>3, <2>5 DEF CopyList, TypeOK, Unchanged_but_load
<1> QED BY <1>1, <1>2, <1>3 DEF PopulateTreeViewFromDatabase

(* The fetches keep the types.                                               *)
LEMMA FetchType ==
  ASSUME TypeOK, LoopsEntered, NEW l \in Loads,
         GetSchemasInfo(l) \/ GetTablesInfo(l) \/ GetColumnsInfo(l)
  PROVE  TypeOK'
<1> DEFINE a == load[l]
<1>0. a \in Activation
  BY DEF TypeOK
<1>1. ASSUME NEW level \in Levels, OnTop(l, a.at), Call(l, level)
      PROVE  TypeOK'
  <2>1. CASE Head(a.conns) \in Rejected
    <3>1. load' = [load EXCEPT ![l] = [a EXCEPT !.at = "fetch_box",
                                                !.level = level,
                                                !.clean = FALSE]]
      BY <1>1, <2>1 DEF Call, TypeOK
    <3>2. [a EXCEPT !.at = "fetch_box", !.level = level, !.clean = FALSE]
            \in Activation
      BY <1>0 DEF Activation, Places
    <3> QED BY <1>1, <2>1, <3>1, <3>2 DEF Call, TypeOK
  <2>2. CASE Head(a.conns) \notin Rejected
    <3>1. load' = [load EXCEPT ![l] = [a EXCEPT !.at = "open",
                                                !.level = level]]
      BY <1>1, <2>2 DEF Call, TypeOK
    <3>2. [a EXCEPT !.at = "open", !.level = level] \in Activation
      BY <1>0 DEF Activation, Places
    <3>3. Front(stack) \in Seq(Loads \cup {LoginWindow})
      BY <1>1, FrontType DEF OnTop, TypeOK
    <3>4. internal_list' \in [Levels -> Seq(Names)]
      <4>1. <<>> \in Seq(Names)
        OBVIOUS
      <4> QED BY <1>1, <2>2, <4>1 DEF Call, Cleared, TypeOK
    <3> QED BY <1>1, <2>2, <3>1, <3>2, <3>3, <3>4 DEF Call, TypeOK
  <2> QED BY <2>1, <2>2
<1>2. ASSUME NEW level \in Levels, a.at = "open", a.level = level,
             Read(l, level)
      PROVE  TypeOK'
  <2>1. PICK k \in 0..Len(Rows(a)), complete \in BOOLEAN :
          /\ internal_list' = Added(level, SubSeq(Rows(a), 1, k))
          /\ load' = [load EXCEPT ![l].at = "copy",
                                  ![l].clean = @ /\ complete]
    BY <1>2 DEF Read
  <2>2. Rows(a) \in Seq(Names)
    BY <1>2, RowsType
  <2>3. SubSeq(Rows(a), 1, k) \in Seq(Names)
    <3>1. \A i \in 1..k : Rows(a)[i] \in Names
      BY <2>2
    <3> QED BY <3>1, SubSeqProperties
  <2>4. internal_list' \in [Levels -> Seq(Names)]
    <3>1. internal_list[level] \o SubSeq(Rows(a), 1, k) \in Seq(Names)
      BY <2>3 DEF TypeOK
    <3> QED BY <2>1, <3>1 DEF Added, TypeOK
  <2>5. load' = [load EXCEPT ![l] = [a EXCEPT !.at = "copy",
                                              !.clean = @ /\ complete]]
    BY <2>1 DEF TypeOK
  <2>6. [a EXCEPT !.at = "copy", !.clean = @ /\ complete] \in Activation
    <3>1. (a.clean /\ complete) \in BOOLEAN
      OBVIOUS
    <3> QED BY <1>0, <3>1 DEF Activation, Places
  <2>7. /\ stack' = Append(stack, l)
        /\ UNCHANGED <<login_config, login_list, is_loading, shown, timer,
                       nodes>>
    BY <1>2 DEF Read
  <2> QED BY <2>4, <2>5, <2>6, <2>7 DEF TypeOK
<1>3. ASSUME OpenFails(l)
      PROVE  TypeOK'
  <2>1. load' = [load EXCEPT ![l] = [a EXCEPT !.at = "fetch_box",
                                              !.clean = FALSE]]
    BY <1>3 DEF OpenFails, TypeOK
  <2>2. [a EXCEPT !.at = "fetch_box", !.clean = FALSE] \in Activation
    BY <1>0 DEF Activation, Places
  <2> QED BY <1>3, <2>1, <2>2 DEF OpenFails, TypeOK
<1>4. ASSUME DismissFetchBox(l)
      PROVE  TypeOK'
  <2>1. [a EXCEPT !.at = "copy"] \in Activation
    BY <1>0 DEF Activation, Places
  <2> QED BY <1>4, <2>1 DEF DismissFetchBox, MoveTo, Unchanged_but_load, TypeOK
<1>5. ASSUME NEW level \in Levels, Answer(l, level)
      PROVE  TypeOK'
  BY <1>2, <1>3, <1>4, <1>5 DEF Answer, Resumes
<1>6. CASE GetSchemasInfo(l)
  BY <1>1, <1>5, <1>6 DEF GetSchemasInfo, OnTop, Levels
<1>7. CASE GetTablesInfo(l)
  BY <1>1, <1>5, <1>7 DEF GetTablesInfo, OnTop, Levels
<1>8. CASE GetColumnsInfo(l)
  BY <1>1, <1>5, <1>8 DEF GetColumnsInfo, OnTop, Levels
<1> QED BY <1>6, <1>7, <1>8

(* The ends of the handlers keep the types.                                  *)
LEMMA FinishType ==
  ASSUME TypeOK, NEW l \in Loads, Finish(l)
  PROVE  TypeOK'
<1> DEFINE a == load[l]
<1>0. ASSUME NEW place \in Places, MoveTo(l, place)
      PROVE  load' \in [Loads -> Activation]
  <2>1. [a EXCEPT !.at = place] \in Activation
    BY DEF TypeOK, Activation
  <2> QED BY <1>0, <2>1 DEF MoveTo, TypeOK
<1>1. CASE FinishRefresh(l)
  BY <1>1, ReturnType DEF FinishRefresh, Populated, OnTop, TypeOK
<1>2. CASE FinishFormLoad(l)
  <2>1. timer' \in BOOLEAN /\ login_list' \in Seq(Connections)
    BY <1>2, DetailsType DEF FinishFormLoad
  <2>2. /\ load' \in [Loads -> Activation]
        /\ stack' \in Seq(Loads \cup {LoginWindow})
    <3>1. CASE NoConnectionsBox
      BY <1>0, <1>2, <3>1 DEF FinishFormLoad, TypeOK, Places
    <3>2. CASE ~NoConnectionsBox
      BY <1>2, <3>2, ReturnType DEF FinishFormLoad, Populated, OnTop
    <3> QED BY <3>1, <3>2
  <2> QED BY <1>2, <2>1, <2>2 DEF FinishFormLoad, TypeOK
<1>3. CASE ShowLoaded(l)
  <2>1. load' \in [Loads -> Activation]
    BY <1>0, <1>3 DEF ShowLoaded, Places
  <2> QED BY <1>3, <2>1 DEF ShowLoaded, Unchanged_but_load, TypeOK
<1>4. CASE DismissLoaded(l)
  BY <1>4, ReturnType DEF DismissLoaded, OnTop, TypeOK
<1>5. CASE DismissDetails(l)
  <2>1. CASE a.by = "refresh_button"
    <3>1. Fresh("refresh_button", "connection", login_list) \in Activation
      BY FreshType DEF Starters, Places, TypeOK
    <3>2. <<>> \in Seq(ConnectionNode)
      OBVIOUS
    <3> QED BY <1>5, <2>1, <3>1, <3>2 DEF DismissDetails, TypeOK
  <2>2. CASE a.by # "refresh_button"
    BY <1>5, <2>2, ReturnType DEF DismissDetails, OnTop, TypeOK
  <2> QED BY <2>1, <2>2
<1> QED BY <1>1, <1>2, <1>3, <1>4, <1>5 DEF Finish

(* Every step keeps the types.                                               *)
LEMMA TypeStep ==
  ASSUME TypeOK, LoopsEntered, [Next]_vars
  PROVE  TypeOK'
<1>1. ASSUME NEW l \in Loads,
             \/ AppForm_Load(l)
             \/ update_timer_Tick(l)
             \/ refresh_connections_Click(l)
             \/ refreshToolStripMenuItem_Click(l)
      PROVE  TypeOK'
  BY <1>1, StartType
<1>2. ASSUME NEW l \in Loads, Progress(l)
      PROVE  TypeOK'
  BY <1>2, LoopType, FetchType, FinishType DEF Progress
<1>3. CASE RefuseLogin
  <2>1. <<>> \in Seq(Connections)
    OBVIOUS
  <2>2. <<LoginWindow>> \in Seq(Loads \cup {LoginWindow})
    OBVIOUS
  <2> QED BY <1>3, <2>1, <2>2 DEF RefuseLogin, TypeOK
<1>4. CASE DismissRefusal
  <2>1. Front(stack) \in Seq(Loads \cup {LoginWindow})
    BY <1>4, FrontType DEF DismissRefusal, TypeOK
  <2> QED BY <1>4, <2>1 DEF DismissRefusal, TypeOK
<1>5. CASE UNCHANGED vars
  BY <1>5 DEF vars, TypeOK
<1> QED BY <1>1, <1>2, <1>3, <1>4, <1>5 DEF Next, LoadNext

-----------------------------------------------------------------------------
(* The stack of handlers: a handler is pushed when it is not yet on it and  *)
(* the message loop runs, only the top one is popped or goes on.            *)

Goes(l, place) ==
  \A m \in Loads : load'[m].at = IF m = l THEN place ELSE load[m].at

(* No place is at once running and in a message box.                         *)
LEMMA RunningNotBoxes ==
  /\ Running \cap Boxes = {}
  /\ Running \cup Boxes = Places \ {"idle", "open"}
BY DEF Running, Boxes, Places

(* A frame pushed within message loops keeps the discipline of the stack.    *)
LEMMA Push ==
  ASSUME TypeOK, StackInv, InLoop, NEW l \in Loads, NEW place \in Places,
         load[l].at \in {"idle", "open"}, place \notin {"idle", "open"},
         Goes(l, place), stack' = Append(stack, l)
  PROVE  StackInv'
<1>1. /\ stack \in Seq(Loads \cup {LoginWindow})
      /\ Len(stack) \in Nat
  BY DEF TypeOK
<1>2. /\ Len(stack') = Len(stack) + 1
      /\ \A i \in 1..Len(stack) : stack'[i] = stack[i]
      /\ stack'[Len(stack) + 1] = l
  BY <1>1, AppendType
<1>3. \A i \in 1..Len(stack) :
        stack[i] # l /\ (stack[i] \in Loads => load[stack[i]].at \in Boxes)
  <2>1. \A i \in 1..Len(stack) : stack[i] # l
    BY RunningNotBoxes DEF StackInv
  <2>2. \A i \in 1..Len(stack) : stack[i] \in ToSet(stack)
    BY <1>1 DEF ToSet
  <2> QED BY <2>1, <2>2 DEF InLoop
<1>4. \A m \in Loads : load[m].at \notin Running
  BY <1>1, <1>3, RunningNotBoxes DEF StackInv
<1>5. \A i \in 1..Len(stack') :
        /\ stack'[i] \in Loads => load'[stack'[i]].at \in Boxes \cup Running
        /\ stack'[i] \in Loads /\ i # Len(stack') => load'[stack'[i]].at \in Boxes
  BY <1>1, <1>2, <1>3, RunningNotBoxes DEF Goes
<1>6. \A i, j \in 1..Len(stack') : stack'[i] = stack'[j] => i = j
  BY <1>1, <1>2, <1>3 DEF StackInv
<1>7. \A m \in Loads : load'[m].at \in Running =>
        stack' # <<>> /\ stack'[Len(stack')] = m
  BY <1>1, <1>2, <1>4 DEF Goes
<1> QED BY <1>5, <1>6, <1>7 DEF StackInv

(* The top activation is on the stack once, and it alone may be running.     *)
LEMMA OnTopFacts ==
  ASSUME TypeOK, StackInv, NEW l \in Loads, stack # <<>>, Last(stack) = l
  PROVE  /\ Len(stack) \in Nat /\ Len(stack) > 0
         /\ stack[Len(stack)] = l
         /\ \A i \in 1..(Len(stack) - 1) :
              stack[i] # l /\ (stack[i] \in Loads => load[stack[i]].at \in Boxes)
         /\ \A m \in Loads \ {l} : load[m].at \notin Running
<1>1. Len(stack) \in Nat /\ Len(stack) > 0
  BY DEF TypeOK
<1>2. stack[Len(stack)] = l
  BY DEF Last
<1> QED BY <1>1, <1>2 DEF StackInv

(* The discipline of the stack survives the return of its top frame.         *)
LEMMA Pop ==
  ASSUME TypeOK, StackInv, NEW l \in Loads, stack # <<>>, Last(stack) = l,
         NEW place \in {"idle", "open"}, Goes(l, place), stack' = Front(stack)
  PROVE  StackInv'
<1>1. /\ stack \in Seq(Loads \cup {LoginWindow})
      /\ Len(stack) \in Nat /\ Len(stack) > 0
  BY OnTopFacts DEF TypeOK
<1>2. /\ Len(stack') = Len(stack) - 1
      /\ \A i \in 1..Len(stack') : stack'[i] = stack[i]
  BY <1>1, FrontType
<1>3. \A i \in 1..Len(stack') :
        stack'[i] # l /\ (stack'[i] \in Loads => load'[stack'[i]].at \in Boxes)
  BY <1>1, <1>2, OnTopFacts DEF Goes
<1>4. \A m \in Loads : load'[m].at \notin Running
  BY OnTopFacts DEF Goes, Running
<1>5. \A i, j \in 1..Len(stack') : stack'[i] = stack'[j] => i = j
  BY <1>1, <1>2 DEF StackInv
<1> QED BY <1>3, <1>4, <1>5 DEF StackInv

(* ... and a step of the top frame that stays on top.                        *)
LEMMA Stay ==
  ASSUME TypeOK, StackInv, NEW l \in Loads, stack # <<>>, Last(stack) = l,
         NEW place \in Places, place \notin {"idle", "open"},
         Goes(l, place), stack' = stack
  PROVE  StackInv'
<1>1. Len(stack) \in Nat /\ Len(stack) > 0 /\ stack[Len(stack)] = l
  BY OnTopFacts
<1>2. \A i \in 1..Len(stack) :
        /\ stack[i] \in Loads => load'[stack[i]].at \in Boxes \cup Running
        /\ stack[i] \in Loads /\ i # Len(stack) => load'[stack[i]].at \in Boxes
  BY <1>1, OnTopFacts, RunningNotBoxes DEF Goes
<1>3. \A m \in Loads : load'[m].at \in Running =>
        stack # <<>> /\ stack[Len(stack)] = m
  BY <1>1, OnTopFacts DEF Goes
<1> QED BY <1>2, <1>3 DEF StackInv

(* Each action pushes, pops or stays. *)

(* With nothing on the thread the message loop runs.                         *)
LEMMA InLoopWhenEmpty ==
  ASSUME stack = <<>>
  PROVE  InLoop
BY DEF InLoop, ToSet

(* The handlers that start an activation keep the stack in order.            *)
LEMMA StartStack ==
  ASSUME TypeOK, StackInv, NEW l \in Loads,
         \/ AppForm_Load(l)
         \/ update_timer_Tick(l)
         \/ refresh_connections_Click(l)
         \/ refreshToolStripMenuItem_Click(l)
  PROVE  StackInv'
<1>1. InLoop /\ load[l].at = "idle"
  BY InLoopWhenEmpty DEF AppForm_Load, update_timer_Tick,
     refresh_connections_Click, refreshToolStripMenuItem_Click
<1>2. ASSUME NEW starter, NEW list, Begin(l, starter, list)
      PROVE  Goes(l, "connection") /\ stack' = Append(stack, l)
  BY <1>2 DEF Begin, Fresh, Goes, TypeOK
<1>3. \/ Goes(l, "connection") /\ stack' = Append(stack, l)
      \/ Goes(l, "details_box") /\ stack' = Append(stack, l)
  <2>1. CASE AppForm_Load(l)
    BY <1>2, <2>1 DEF AppForm_Load
  <2>2. CASE update_timer_Tick(l)
    BY <1>2, <2>2 DEF update_timer_Tick
  <2>3. CASE refresh_connections_Click(l)
    <3>1. CASE NoConnectionsBox
      BY <2>3, <3>1 DEF refresh_connections_Click, Fresh, Goes, TypeOK
    <3>2. CASE ~NoConnectionsBox
      BY <1>2, <2>3, <3>2 DEF refresh_connections_Click
    <3> QED BY <3>1, <3>2
  <2>4. CASE refreshToolStripMenuItem_Click(l)
    BY <1>2, <2>4 DEF refreshToolStripMenuItem_Click
  <2> QED BY <2>1, <2>2, <2>3, <2>4
<1>4. "connection" \in Places /\ "details_box" \in Places
  BY DEF Places
<1> QED BY <1>1, <1>3, <1>4, Push

(* The steps of the loops keep the stack in order.                           *)
LEMMA LoopStack ==
  ASSUME TypeOK, StackInv, NEW l \in Loads, PopulateTreeViewFromDatabase(l)
  PROVE  StackInv'
<1>1. stack # <<>> /\ Last(stack) = l /\ stack' = stack
  BY DEF PopulateTreeViewFromDatabase, AddConnection, AddSchema, CopyList,
     OnTop, Unchanged_but_load
<1>2. \E place \in {"connection", "schema", "table"} : Goes(l, place)
  <2>1. CASE AddConnection(l)
    BY <2>1 DEF AddConnection, Goes, TypeOK, Activation
  <2>2. CASE AddSchema(l)
    BY <2>2 DEF AddSchema, Goes, TypeOK, Activation
  <2>3. CASE CopyList(l)
    <3>1. load[l].level \in {"schemas", "tables", "columns"}
      BY DEF TypeOK, Activation, Levels
    <3> QED BY <2>3, <3>1 DEF CopyList, Goes, TypeOK, Activation
  <2> QED BY <2>1, <2>2, <2>3 DEF PopulateTreeViewFromDatabase
<1> QED BY <1>1, <1>2, Stay DEF Places

(* The fetches keep the stack in order.                                      *)
LEMMA FetchStack ==
  ASSUME TypeOK, StackInv, NEW l \in Loads,
         GetSchemasInfo(l) \/ GetTablesInfo(l) \/ GetColumnsInfo(l)
  PROVE  StackInv'
<1>1. ASSUME NEW level, stack # <<>>, Last(stack) = l, Call(l, level)
      PROVE  StackInv'
  <2>1. \/ Goes(l, "fetch_box") /\ stack' = stack
        \/ Goes(l, "open") /\ stack' = Front(stack)
    <3>1. CASE Head(load[l].conns) \in Rejected
      BY <1>1, <3>1, SMTT(30) DEF Call, Goes, TypeOK, Activation
    <3>2. CASE Head(load[l].conns) \notin Rejected
      BY <1>1, <3>2, SMTT(30) DEF Call, Goes, TypeOK, Activation
    <3> QED BY <3>1, <3>2
  <2> QED BY <1>1, <2>1, Stay, Pop DEF Places
<1>2. ASSUME NEW level, Answer(l, level)
      PROVE  StackInv'
  <2>1. CASE Resumes(l) /\ Read(l, level)
    <3>1. Goes(l, "copy") /\ stack' = Append(stack, l)
      BY <2>1 DEF Read, Goes, TypeOK, Activation
    <3> QED BY <2>1, <3>1, Push DEF Resumes, Places
  <2>2. CASE Resumes(l) /\ OpenFails(l)
    <3>1. Goes(l, "fetch_box") /\ stack' = Append(stack, l)
      BY <2>2 DEF OpenFails, Goes, TypeOK, Activation
    <3> QED BY <2>2, <3>1, Push DEF Resumes, Places
  <2>3. CASE DismissFetchBox(l)
    <3>1. Goes(l, "copy") /\ stack' = stack /\ stack # <<>> /\ Last(stack) = l
      BY <2>3 DEF DismissFetchBox, MoveTo, OnTop, Unchanged_but_load, Goes,
         TypeOK, Activation
    <3> QED BY <3>1, Stay DEF Places
  <2> QED BY <1>2, <2>1, <2>2, <2>3 DEF Answer
<1> QED BY <1>1, <1>2 DEF GetSchemasInfo, GetTablesInfo, GetColumnsInfo, OnTop

(* The ends of the handlers keep the stack in order.                         *)
LEMMA FinishStack ==
  ASSUME TypeOK, StackInv, NEW l \in Loads, Finish(l)
  PROVE  StackInv'
<1>1. stack # <<>> /\ Last(stack) = l
  BY DEF Finish, FinishRefresh, FinishFormLoad, ShowLoaded, DismissLoaded,
     DismissDetails, Populated, OnTop
<1>2. ASSUME Return(l)
      PROVE  Goes(l, "idle") /\ stack' = Front(stack)
  BY <1>2 DEF Return, Idle, Fresh, Goes, TypeOK
<1>3. ASSUME NEW place, MoveTo(l, place)
      PROVE  Goes(l, place)
  BY <1>3 DEF MoveTo, Goes, TypeOK, Activation
<1>4. \/ Goes(l, "idle") /\ stack' = Front(stack)
      \/ Goes(l, "details_box") /\ stack' = stack
      \/ Goes(l, "loaded_box") /\ stack' = stack
      \/ Goes(l, "connection") /\ stack' = stack
  <2>1. CASE FinishRefresh(l)
    BY <1>2, <2>1 DEF FinishRefresh
  <2>2. CASE FinishFormLoad(l)
    BY <1>2, <1>3, <2>2 DEF FinishFormLoad
  <2>3. CASE ShowLoaded(l)
    BY <1>3, <2>3 DEF ShowLoaded, Unchanged_but_load
  <2>4. CASE DismissLoaded(l)
    BY <1>2, <2>4 DEF DismissLoaded
  <2>5. CASE DismissDetails(l)
    <3>1. CASE load[l].by = "refresh_button"
      BY <2>5, <3>1 DEF DismissDetails, Fresh, Goes, TypeOK
    <3>2. CASE load[l].by # "refresh_button"
      BY <1>2, <2>5, <3>2 DEF DismissDetails
    <3> QED BY <3>1, <3>2
  <2> QED BY <2>1, <2>2, <2>3, <2>4, <2>5 DEF Finish
<1> QED BY <1>1, <1>4, Pop, Stay DEF Places

(* Every step keeps the stack in order.                                      *)
LEMMA StackStep ==
  ASSUME TypeOK, StackInv, [Next]_vars
  PROVE  StackInv'
<1>1. ASSUME NEW l \in Loads,
             \/ AppForm_Load(l)
             \/ update_timer_Tick(l)
             \/ refresh_connections_Click(l)
             \/ refreshToolStripMenuItem_Click(l)
      PROVE  StackInv'
  BY <1>1, StartStack
<1>2. ASSUME NEW l \in Loads, Progress(l)
      PROVE  StackInv'
  BY <1>2, LoopStack, FetchStack, FinishStack DEF Progress
<1>3. CASE RefuseLogin
  <2>1. Len(stack') = 1 /\ stack'[1] = LoginWindow /\ load' = load
    BY <1>3 DEF RefuseLogin
  <2>2. \A l \in Loads : load[l].at \notin Running
    BY <1>3 DEF RefuseLogin, StackInv
  <2> QED BY <2>1, <2>2, TreeAssumption DEF StackInv
<1>4. CASE DismissRefusal
  <2>1. /\ Len(stack) \in Nat /\ Len(stack) > 0
        /\ stack[Len(stack)] = LoginWindow
        /\ load' = load
    BY <1>4 DEF DismissRefusal, Last, TypeOK
  <2>2. /\ Len(stack') = Len(stack) - 1
        /\ \A i \in 1..Len(stack') : stack'[i] = stack[i]
    BY <1>4, FrontType DEF DismissRefusal, TypeOK
  <2>3. \A l \in Loads : load[l].at \notin Running
    BY <2>1, TreeAssumption DEF StackInv
  <2> QED BY <2>1, <2>2, <2>3 DEF StackInv
<1>5. CASE UNCHANGED vars
  BY <1>5 DEF vars, StackInv
<1> QED BY <1>1, <1>2, <1>3, <1>4, <1>5 DEF Next, LoadNext

-----------------------------------------------------------------------------
(* The loops an activation is in, and the guard of the tick.  A step keeps  *)
(* the guard when it leaves is_loading and the activations of ticks alone.  *)

Kept ==
  /\ is_loading' = is_loading
  /\ \A m \in Loads :
       /\ load'[m].by = "timer" <=> load[m].by = "timer"
       /\ load[m].by = "timer" =>
            (load'[m].at = "idle" <=> load[m].at = "idle")

(* The tick guard depends on is_loading and on who runs only.                *)
LEMMA KeptGuard ==
  ASSUME TickGuard, Kept
  PROVE  TickGuard'
BY DEF TickGuard, Kept

(* LoopsEntered for one activation that changed its place.                   *)
LEMMA EnteredOne ==
  ASSUME TypeOK, LoopsEntered, NEW l \in Loads, NEW a, Entered(a),
         load' = [load EXCEPT ![l] = a]
  PROVE  LoopsEntered'
BY DEF TypeOK, LoopsEntered

(* A step of one activation that leaves the tick guard alone.                *)
LEMMA KeptOne ==
  ASSUME TypeOK, NEW l \in Loads, NEW a, load' = [load EXCEPT ![l] = a],
         is_loading' = is_loading,
         a.by = "timer" <=> load[l].by = "timer",
         load[l].by = "timer" => (a.at = "idle" <=> load[l].at = "idle")
  PROVE  Kept
BY DEF TypeOK, Kept

(* A fresh activation satisfies what LoopsEntered asks.                      *)
LEMMA FreshEntered ==
  ASSUME NEW starter, NEW list,
         NEW place \in {"connection", "details_box", "idle"},
         starter = "timer" => place = "connection"
  PROVE  Entered(Fresh(starter, place, list))
BY DEF Entered, Fresh, Fetching

(* The handlers that start an activation keep the two guards.                *)
LEMMA StartGuards ==
  ASSUME TypeOK, LoopsEntered, TickGuard, NEW l \in Loads,
         \/ AppForm_Load(l)
         \/ update_timer_Tick(l)
         \/ refresh_connections_Click(l)
         \/ refreshToolStripMenuItem_Click(l)
  PROVE  LoopsEntered' /\ TickGuard'
<1>1. load[l].by # "timer"
  BY DEF LoopsEntered, Entered, AppForm_Load, update_timer_Tick,
     refresh_connections_Click, refreshToolStripMenuItem_Click
<1>2. PICK starter \in Starters :
        \E place \in {"connection", "details_box"} : \E list :
          /\ load' = [load EXCEPT ![l] = Fresh(starter, place, list)]
          /\ starter = "timer" => place = "connection" /\ update_timer_Tick(l)
          /\ starter # "timer" => is_loading' = is_loading
  <2>1. CASE AppForm_Load(l)
    BY <2>1 DEF AppForm_Load, Begin, Starters
  <2>2. CASE update_timer_Tick(l)
    BY <2>2 DEF update_timer_Tick, Begin, Starters
  <2>3. CASE refresh_connections_Click(l)
    <3>1. CASE NoConnectionsBox
      BY <2>3, <3>1 DEF refresh_connections_Click, Starters
    <3>2. CASE ~NoConnectionsBox
      BY <2>3, <3>2 DEF refresh_connections_Click, Begin, Starters
    <3> QED BY <3>1, <3>2
  <2>4. CASE refreshToolStripMenuItem_Click(l)
    BY <2>4 DEF refreshToolStripMenuItem_Click, Begin, Starters
  <2> QED BY <2>1, <2>2, <2>3, <2>4
<1>3. PICK place \in {"connection", "details_box"} : \E list :
        /\ load' = [load EXCEPT ![l] = Fresh(starter, place, list)]
        /\ starter = "timer" => place = "connection" /\ update_timer_Tick(l)
        /\ starter # "timer" => is_loading' = is_loading
  BY <1>2
<1>4. PICK list :
        /\ load' = [load EXCEPT ![l] = Fresh(starter, place, list)]
        /\ starter = "timer" => place = "connection" /\ update_timer_Tick(l)
        /\ starter # "timer" => is_loading' = is_loading
  BY <1>3
<1>5. LoopsEntered'
  BY <1>4, FreshEntered, EnteredOne
<1>6. CASE starter # "timer"
  <2>1. Fresh(starter, place, list).by # "timer"
    BY <1>6 DEF Fresh
  <2> QED BY <1>1, <1>4, <1>5, <1>6, <2>1, KeptOne, KeptGuard
<1>7. CASE starter = "timer"
  <2>1. ~is_loading /\ is_loading'
    BY <1>4, <1>7 DEF update_timer_Tick, TickLoads
  <2>2. \A m \in Loads : load[m].by # "timer"
    BY <2>1 DEF TickGuard, LoopsEntered, Entered
  <2>3. load'[l].by = "timer" /\ load'[l].at # "idle"
    BY <1>4, <1>7 DEF Fresh, TypeOK
  <2>4. \A m \in Loads \ {l} : load'[m] = load[m]
    BY <1>4 DEF TypeOK
  <2> QED BY <1>5, <2>1, <2>2, <2>3, <2>4 DEF TickGuard
<1> QED BY <1>6, <1>7

(* The steps of the loops keep the two guards.                               *)
LEMMA LoopGuards ==
  ASSUME TypeOK, LoopsEntered, TickGuard, NEW l \in Loads,
         PopulateTreeViewFromDatabase(l)
  PROVE  LoopsEntered' /\ TickGuard'
<1> DEFINE a == load[l]
<1>0. a \in Activation /\ Entered(a)
  BY DEF TypeOK, LoopsEntered
<1>1. PICK b \in Activation :
        /\ load' = [load EXCEPT ![l] = b]
        /\ is_loading' = is_loading
        /\ Entered(b)
        /\ b.by = a.by
        /\ b.at # "idle" /\ a.at # "idle"
  <2>1. load' \in [Loads -> Activation] /\ load'[l] \in Activation
    BY LoopType DEF TypeOK
  <2>2. CASE AddConnection(l)
    BY <1>0, <2>1, <2>2 DEF AddConnection, OnTop, TypeOK, Activation, Entered,
       Fetching
  <2>3. CASE AddSchema(l)
    BY <1>0, <2>1, <2>3 DEF AddSchema, OnTop, TypeOK, Activation, Entered,
       Fetching, Unchanged_but_load
  <2>4. CASE CopyList(l)
    <3>1. a.level \in {"schemas", "tables", "columns"}
      BY <1>0 DEF Activation, Levels
    <3>2. a.at = "copy" /\ is_loading' = is_loading
      BY <2>4 DEF CopyList, OnTop, Unchanged_but_load
    <3>3. /\ load' = [load EXCEPT ![l] = load'[l]]
          /\ load'[l].by = a.by /\ load'[l].conns = a.conns
          /\ \/ load'[l].at = "schema"
             \/ load'[l].at = "table" /\ load'[l].schemas = a.schemas
                                     /\ a.level # "schemas"
      <4>1. CASE a.level = "schemas"
        BY <1>0, <2>4, <4>1 DEF CopyList, TypeOK, Activation
      <4>2. CASE a.level = "tables"
        BY <1>0, <2>4, <4>2 DEF CopyList, TypeOK, Activation
      <4>3. CASE a.level = "columns"
        BY <1>0, <2>4, <4>3 DEF CopyList, TypeOK, Activation
      <4> QED BY <3>1, <4>1, <4>2, <4>3
    <3>4. Entered(load'[l])
      BY <1>0, <3>2, <3>3 DEF Entered, Fetching
    <3> QED BY <2>1, <3>2, <3>3, <3>4
  <2> QED BY <2>2, <2>3, <2>4 DEF PopulateTreeViewFromDatabase
<1>2. LoopsEntered'
  BY <1>1, EnteredOne
<1> QED BY <1>1, <1>2, KeptOne, KeptGuard

(* The fetches keep the two guards.                                          *)
LEMMA FetchGuards ==
  ASSUME TypeOK, LoopsEntered, TickGuard, NEW l \in Loads,
         GetSchemasInfo(l) \/ GetTablesInfo(l) \/ GetColumnsInfo(l)
  PROVE  LoopsEntered' /\ TickGuard'
<1> DEFINE a == load[l]
<1>0. a \in Activation /\ Entered(a)
  BY DEF TypeOK, LoopsEntered
<1>1. ASSUME NEW level \in Levels, Call(l, level), a.at # "idle",
             a.conns # <<>>,
             level # "schemas" => a.schemas # <<>>,
             level = "columns" => a.tables # <<>>
      PROVE  LoopsEntered' /\ TickGuard'
  <2>1. PICK place \in Fetching, b \in {TRUE, FALSE} :
          load' = [load EXCEPT ![l] = [a EXCEPT !.at = place, !.level = level,
                                                !.clean = b]]
    <3>1. CASE Head(a.conns) \in Rejected
      BY <1>0, <1>1, <3>1 DEF Call, TypeOK, Activation, Fetching
    <3>2. CASE Head(a.conns) \notin Rejected
      <4>1. load' = [load EXCEPT ![l] = [a EXCEPT !.at = "open",
                                                  !.level = level]]
        BY <1>1, <3>2 DEF Call, TypeOK
      <4>2. [a EXCEPT !.at = "open", !.level = level] =
              [a EXCEPT !.at = "open", !.level = level, !.clean = a.clean]
        BY <1>0 DEF Activation
      <4>3. a.clean \in {TRUE, FALSE} /\ "open" \in Fetching
        BY <1>0 DEF Activation, Fetching
      <4> QED BY <4>1, <4>2, <4>3
    <3> QED BY <3>1, <3>2
  <2> DEFINE c == [a EXCEPT !.at = place, !.level = level, !.clean = b]
  <2>2. /\ Entered(c)
        /\ c.by = a.by /\ c.at # "idle"
    BY <1>0, <1>1 DEF Activation, Entered, Fetching
  <2>3. is_loading' = is_loading
    BY <1>1 DEF Call
  <2> QED BY <1>1, <2>1, <2>2, <2>3, EnteredOne, KeptOne, KeptGuard
<1>2. ASSUME NEW level, Answer(l, level)
      PROVE  LoopsEntered' /\ TickGuard'
  <2>1. a.at \in {"open", "fetch_box"} /\ is_loading' = is_loading
    BY <1>2 DEF Answer, Resumes, Read, OpenFails, DismissFetchBox, OnTop,
       Unchanged_but_load
  <2>2. PICK place \in {"copy", "fetch_box"}, b \in BOOLEAN :
          load' = [load EXCEPT ![l] = [a EXCEPT !.at = place, !.clean = b]]
    <3>1. CASE Read(l, level)
      BY <1>0, <3>1 DEF Read, TypeOK, Activation
    <3>2. CASE OpenFails(l)
      BY <1>0, <3>2 DEF OpenFails, TypeOK, Activation
    <3>3. CASE DismissFetchBox(l)
      BY <1>0, <3>3 DEF DismissFetchBox, MoveTo, TypeOK, Activation
    <3> QED BY <1>2, <3>1, <3>2, <3>3 DEF Answer
  <2> DEFINE c == [a EXCEPT !.at = place, !.clean = b]
  <2>3. /\ Entered(c)
        /\ c.by = a.by /\ c.at # "idle"
    BY <1>0, <2>1 DEF Activation, Entered, Fetching
  <2> QED BY <2>1, <2>2, <2>3, EnteredOne, KeptOne, KeptGuard
<1>3. CASE GetSchemasInfo(l)
  BY <1>1, <1>2, <1>3 DEF GetSchemasInfo, OnTop, Levels
<1>4. CASE GetTablesInfo(l)
  BY <1>0, <1>1, <1>2, <1>4 DEF GetTablesInfo, OnTop, Levels, Entered
<1>5. CASE GetColumnsInfo(l)
  BY <1>0, <1>1, <1>2, <1>5 DEF GetColumnsInfo, OnTop, Levels, Entered
<1> QED BY <1>3, <1>4, <1>5

(* The ends of the handlers keep the two guards.                             *)
LEMMA FinishGuards ==
  ASSUME TypeOK, LoopsEntered, TickGuard, NEW l \in Loads, Finish(l)
  PROVE  LoopsEntered' /\ TickGuard'
<1> DEFINE a == load[l]
<1>0. a \in Activation /\ Entered(a)
  BY DEF TypeOK, LoopsEntered
<1>1. Entered(Idle) /\ Idle.by # "timer" /\ Idle.at = "idle"
  BY FreshEntered DEF Idle, Fresh
<1>2. ASSUME Return(l), a.by # "timer", is_loading' = is_loading
      PROVE  LoopsEntered' /\ TickGuard'
  <2>1. load' = [load EXCEPT ![l] = Idle]
    BY <1>2 DEF Return
  <2> QED BY <1>1, <1>2, <2>1, EnteredOne, KeptOne, KeptGuard
<1>3. ASSUME NEW place \in {"details_box", "loaded_box"}, MoveTo(l, place),
             place = "loaded_box" <=> a.by = "timer",
             a.at # "idle", is_loading' = is_loading
      PROVE  LoopsEntered' /\ TickGuard'
  <2> DEFINE c == [a EXCEPT !.at = place]
  <2>1. load' = [load EXCEPT ![l] = c]
    BY <1>3 DEF MoveTo, TypeOK
  <2>2. Entered(c) /\ c.by = a.by /\ c.at # "idle"
    BY <1>0, <1>3 DEF Activation, Entered, Fetching
  <2> QED BY <1>3, <2>1, <2>2, EnteredOne, KeptOne, KeptGuard
<1>4. CASE FinishRefresh(l)
  BY <1>2, <1>4 DEF FinishRefresh
<1>5. CASE FinishFormLoad(l)
  <2>1. a.by = "form_load" /\ a.at # "idle" /\ is_loading' = is_loading
    BY <1>5 DEF FinishFormLoad, Populated, OnTop
  <2>2. MoveTo(l, "details_box") \/ Return(l)
    BY <1>5 DEF FinishFormLoad
  <2> QED BY <1>2, <1>3, <2>1, <2>2
<1>6. CASE ShowLoaded(l)
  <2>1. /\ a.by = "timer" /\ a.at # "idle" /\ is_loading' = is_loading
        /\ MoveTo(l, "loaded_box")
    BY <1>6 DEF ShowLoaded, Populated, OnTop, Unchanged_but_load
  <2> QED BY <1>3, <2>1
<1>7. CASE DismissLoaded(l)
  <2>1. /\ a.at = "loaded_box"
        /\ a.by = "timer"
        /\ load' = [load EXCEPT ![l] = Idle]
        /\ is_loading' = FALSE
    BY <1>0, <1>7 DEF DismissLoaded, OnTop, Return, Entered
  <2>2. LoopsEntered'
    BY <1>1, <2>1, EnteredOne
  <2>3. \A m \in Loads : load'[m].by # "timer"
    BY <1>1, <2>1 DEF TickGuard, TypeOK
  <2> QED BY <2>1, <2>2, <2>3 DEF TickGuard
<1>8. CASE DismissDetails(l)
  <2>1. a.at = "details_box" /\ a.by # "timer" /\ is_loading' = is_loading
    BY <1>0, <1>8 DEF DismissDetails, OnTop, Entered
  <2>2. CASE a.by = "refresh_button"
    <3> DEFINE c == Fresh("refresh_button", "connection", login_list)
    <3>1. load' = [load EXCEPT ![l] = c]
      BY <1>8, <2>2 DEF DismissDetails
    <3>2. Entered(c) /\ c.by # "timer"
      BY FreshEntered DEF Fresh
    <3> QED BY <2>1, <3>1, <3>2, EnteredOne, KeptOne, KeptGuard
  <2>3. CASE a.by # "refresh_button"
    BY <1>2, <1>8, <2>1, <2>3 DEF DismissDetails
  <2> QED BY <2>2, <2>3
<1> QED BY <1>4, <1>5, <1>6, <1>7, <1>8 DEF Finish

(* Every step keeps the two guards.                                          *)
LEMMA GuardsStep ==
  ASSUME TypeOK, LoopsEntered, TickGuard, [Next]_vars
  PROVE  LoopsEntered' /\ TickGuard'
<1>1. ASSUME NEW l \in Loads,
             \/ AppForm_Load(l)
             \/ update_timer_Tick(l)
             \/ refresh_connections_Click(l)
             \/ refreshToolStripMenuItem_Click(l)
      PROVE  LoopsEntered' /\ TickGuard'
  BY <1>1, StartGuards
<1>2. ASSUME NEW l \in Loads, Progress(l)
      PROVE  LoopsEntered' /\ TickGuard'
  BY <1>2, LoopGuards, FetchGuards, FinishGuards DEF Progress
<1>3. CASE RefuseLogin \/ DismissRefusal \/ UNCHANGED vars
  <2>1. load' = load /\ is_loading' = is_loading
    BY <1>3 DEF RefuseLogin, DismissRefusal, vars
  <2> QED BY <2>1 DEF LoopsEntered, TickGuard
<1> QED BY <1>1, <1>2, <1>3 DEF Next, LoadNext

-----------------------------------------------------------------------------
(* The inductive invariant, and what follows from it. *)

(* Before the form is shown nothing runs.                                    *)
LEMMA InitInv == Init => IInv
<1> SUFFICES ASSUME Init PROVE IInv
  OBVIOUS
<1>1. Idle \in Activation
  <2>1. <<>> \in Seq(Connections)
    OBVIOUS
  <2>2. "form_load" \in Starters /\ "idle" \in Places
    BY DEF Starters, Places
  <2> QED BY <2>1, <2>2, FreshType DEF Idle
<1>2. TypeOK
  <2>1. /\ <<>> \in Seq(Connections) /\ <<>> \in Seq(Names)
        /\ <<>> \in Seq(ConnectionNode)
        /\ <<>> \in Seq(Loads \cup {LoginWindow})
    OBVIOUS
  <2> QED BY <1>1, <2>1, TreeAssumption DEF Init, TypeOK
<1>3. Entered(Idle) /\ Idle.at = "idle" /\ Idle.by = "form_load"
  BY FreshEntered DEF Idle, Fresh
<1>4. LoopsEntered /\ TickGuard
  BY <1>3 DEF Init, LoopsEntered, TickGuard
<1>5. StackInv
  <2>1. Len(stack) = 0
    BY DEF Init
  <2> QED BY <1>3, <2>1 DEF Init, StackInv, Running
<1> QED BY <1>2, <1>4, <1>5 DEF IInv

(* Every step keeps the invariant.                                           *)
LEMMA NextInv == IInv /\ [Next]_vars => IInv'
BY TypeStep, StackStep, GuardsStep DEF IInv

(* Every variable keeps its type: in particular the fetches only read the   *)
(* catalogue of a connection, schema and table that the loops are at.       *)
THEOREM TypeCorrect == Spec => []TypeOK
<1>1. IInv => TypeOK
  BY DEF IInv
<1> QED BY InitInv, NextInv, <1>1, PTL DEF Spec

(* The re-entry guard of the tick works, however loads overlap and however  *)
(* long message boxes stay open.                                            *)
THEOREM TickGuardHolds == Spec => []TickGuard
<1>1. IInv => TickGuard
  BY DEF IInv
<1> QED BY InitInv, NextInv, <1>1, PTL DEF Spec

-----------------------------------------------------------------------------
(* Nothing is lost, however loads overlap. *)

(* With unique names the child of a name is the one that has it.             *)
LEMMA NamedIs ==
  ASSUME NEW children, IsInjective(NamesOf(children)),
         NEW x \in ToSet(children)
  PROVE  Named(children, x.name) = x
<1> DEFINE y == Named(children, x.name)
<1>1. y \in ToSet(children) /\ y.name = x.name
  BY DEF Named
<1> HIDE DEF y
<1>2. PICK i \in DOMAIN children : children[i] = x
  BY DEF ToSet
<1>3. PICK j \in DOMAIN children : children[j] = y
  BY <1>1 DEF ToSet
<1>4. i = j
  BY <1>1, <1>2, <1>3 DEF IsInjective, NamesOf
<1> QED BY <1>2, <1>3, <1>4 DEF y

(* What the fetches of tables and columns ask the server for.                *)
LEMMA ServerAnswers ==
  ASSUME NEW c \in Connections, NEW s \in ToSet(Catalog[c])
  PROVE  /\ TablesOf(c, s.name) = s.tables
         /\ \A t \in ToSet(s.tables) : ColumnsOf(c, s.name, t.name) = t.columns
<1>1. IsInjective(NamesOf(Catalog[c])) /\ IsInjective(NamesOf(s.tables))
  BY CatalogAssumption
<1>2. Named(Catalog[c], s.name) = s
  BY <1>1, NamedIs
<1>3. TablesOf(c, s.name) = s.tables
  BY <1>2 DEF TablesOf
<1>4. ASSUME NEW t \in ToSet(s.tables)
      PROVE  ColumnsOf(c, s.name, t.name) = t.columns
  BY <1>1, <1>3, <1>4, NamedIs DEF ColumnsOf
<1> QED BY <1>3, <1>4

(* The names of children are the names of the children.                      *)
LEMMA NamesIn ==
  ASSUME NEW children, NEW x \in ToSet(children)
  PROVE  x.name \in ToSet(NamesOf(children))
BY DEF ToSet, NamesOf

(* What is in a list is its head or in its tail.                             *)
LEMMA HeadOrTail ==
  ASSUME NEW S, NEW s \in Seq(S), NEW x \in ToSet(s), x # Head(s)
  PROVE  x \in ToSet(Tail(s))
<1>1. PICK i \in DOMAIN s : s[i] = x
  BY DEF ToSet
<1>2. i # 1
  BY <1>1
<1>3. i - 1 \in DOMAIN Tail(s) /\ Tail(s)[i - 1] = x
  BY <1>1, <1>2
<1> QED BY <1>3 DEF ToSet

(* A node that is hung up stays, and the new one is there.                   *)
LEMMA AppendHas ==
  ASSUME NEW S, NEW s \in Seq(S), NEW e \in S
  PROVE  ToSet(Append(s, e)) = ToSet(s) \cup {e}
<1>1. \A i \in DOMAIN Append(s, e) :
        IF i = Len(s) + 1 THEN Append(s, e)[i] = e
                          ELSE i \in DOMAIN s /\ Append(s, e)[i] = s[i]
  OBVIOUS
<1>2. \A i \in DOMAIN s : i \in DOMAIN Append(s, e) /\ Append(s, e)[i] = s[i]
  OBVIOUS
<1>3. Len(s) + 1 \in DOMAIN Append(s, e) /\ Append(s, e)[Len(s) + 1] = e
  OBVIOUS
<1> HIDE DEF ToSet
<1>4. ToSet(Append(s, e)) \subseteq ToSet(s) \cup {e}
  BY <1>1 DEF ToSet
<1>5. ToSet(s) \cup {e} \subseteq ToSet(Append(s, e))
  BY <1>2, <1>3 DEF ToSet
<1> QED BY <1>4, <1>5

(* While one activation is running no other takes a step, so none but the    *)
(* one that steps is between its fetch and the copy of the shared list.      *)
LEMMA NoneElseCopies ==
  ASSUME TypeOK, StackInv, NEW l \in Loads,
         \/ AppForm_Load(l)
         \/ update_timer_Tick(l)
         \/ refresh_connections_Click(l)
         \/ refreshToolStripMenuItem_Click(l)
         \/ Progress(l)
  PROVE  \A m \in Loads \ {l} : load[m].at # "copy"
<1>1. \/ stack = <<>>
      \/ InLoop
      \/ stack # <<>> /\ Last(stack) = l
  BY DEF AppForm_Load, update_timer_Tick, refresh_connections_Click,
     refreshToolStripMenuItem_Click, Progress, PopulateTreeViewFromDatabase,
     AddConnection, AddSchema, CopyList, GetSchemasInfo, GetTablesInfo,
     GetColumnsInfo, Answer, Resumes, DismissFetchBox, Finish, FinishRefresh,
     FinishFormLoad, ShowLoaded, DismissLoaded, DismissDetails, Populated,
     OnTop
<1> SUFFICES ASSUME NEW m \in Loads \ {l}, load[m].at = "copy"
             PROVE  FALSE
  OBVIOUS
<1>2. load[m].at \in Running /\ load[m].at \notin Boxes
  BY DEF Running, Boxes, Places
<1>3. stack # <<>> /\ stack[Len(stack)] = m
  BY <1>2 DEF StackInv
<1>4. ~ InLoop
  <2>1. Len(stack) \in DOMAIN stack
    BY <1>3 DEF TypeOK
  <2>2. m \in ToSet(stack)
    BY <1>3, <2>1 DEF ToSet
  <2> QED BY <1>2, <2>2 DEF InLoop
<1>5. Last(stack) = m
  BY <1>3 DEF Last
<1> QED BY <1>1, <1>3, <1>4, <1>5

(* CleanInv for the one activation that changed.                             *)
CleanAfter(a) ==
  a.clean =>
    /\ a.at # "fetch_box"
    /\ NoneDropped(a)
    /\ a.at = "copy" => ToSet(Rows(a)) \subseteq ToSet(internal_list'[a.level])

(* CleanInv after a step is that of the activations after it.                *)
LEMMA CleanAll == CleanInv' <=> \A m \in Loads : CleanAfter(load'[m])
BY DEF CleanInv, CleanAfter, NoneDropped, InSchemas, InTables, SchemaHung,
   TableHung, Rows, ToSet, NamesOf, TablesOf, ColumnsOf, Named

(* CleanInv after a step of one activation.                                  *)
LEMMA CleanStep ==
  ASSUME TypeOK, CleanInv, NEW l \in Loads, NEW a,
         \A m \in Loads \ {l} : load[m].at # "copy",
         load' = [load EXCEPT ![l] = a], CleanAfter(a)
  PROVE  CleanInv'
<1>1. load'[l] = a /\ \A m \in Loads \ {l} : load'[m] = load[m]
  BY DEF TypeOK
<1>2. \A m \in Loads \ {l} : CleanAfter(load'[m])
  BY <1>1 DEF CleanInv, CleanAfter
<1>3. \A m \in Loads : CleanAfter(load'[m])
  BY <1>1, <1>2
<1> QED BY <1>3, CleanAll

(* None of the loops of another connection are under way.                    *)
LEMMA CleanBetween ==
  ASSUME NEW a, a.at \in {"idle", "connection", "details_box", "loaded_box"}
  PROVE  CleanAfter(a)
BY DEF CleanAfter, NoneDropped, InSchemas, InTables, Fetching

(* Handing an activation from one place to another drops nothing.            *)
LEMMA CleanMoved ==
  ASSUME NEW a, NEW c, a.clean => NoneDropped(a), c.clean => a.clean,
         c.at # "fetch_box", c.at = "copy" => ~c.clean,
         InSchemas(c) => InSchemas(a), InTables(c) => InTables(a),
         c.conns = a.conns, c.schemas = a.schemas, c.tables = a.tables,
         c.dbNode = a.dbNode, c.schemaNode = a.schemaNode
  PROVE  CleanAfter(c)
BY DEF CleanAfter, NoneDropped

(* The steps of the loops drop nothing.                                      *)
LEMMA CleanLoop ==
  ASSUME TypeOK, LoopsEntered, StackInv, CleanInv, NEW l \in Loads,
         PopulateTreeViewFromDatabase(l)
  PROVE  CleanInv'
<1> DEFINE a == load[l]
<1>0. a \in Activation /\ Entered(a)
  BY DEF TypeOK, LoopsEntered
<1>1. \A m \in Loads \ {l} : load[m].at # "copy"
  BY NoneElseCopies DEF Progress
<1>2. a.clean => NoneDropped(a)
  BY DEF CleanInv
<1>3. CASE AddConnection(l)
  <2> DEFINE c == [a EXCEPT !.at = "connection", !.conns = Tail(a.conns),
                            !.dbNode = <<>>]
  <2>1. load' = [load EXCEPT ![l] = c]
    BY <1>3 DEF AddConnection
  <2>2. c.at = "connection"
    BY <1>0 DEF Activation
  <2> HIDE DEF c
  <2>3. CleanAfter(c)
    BY <2>2, CleanBetween
  <2> QED BY <1>1, <2>1, <2>3, CleanStep
<1>4. CASE AddSchema(l)
  <2> DEFINE node == [name |-> Head(a.schemas), tables |-> a.schemaNode]
             c == [a EXCEPT !.at = "schema", !.schemas = Tail(a.schemas),
                            !.schemaNode = <<>>,
                            !.dbNode = Append(a.dbNode, node)]
  <2>1. load' = [load EXCEPT ![l] = c]
    BY <1>4 DEF AddSchema
  <2>2. /\ c.at = "schema" /\ c.schemas = Tail(a.schemas)
        /\ c.dbNode = Append(a.dbNode, node)
        /\ c.conns = a.conns /\ c.clean = a.clean
    BY <1>0 DEF Activation
  <2>3. /\ a.at = "table" /\ a.tables = <<>> /\ a.schemas # <<>>
        /\ a.schemas \in Seq(Names) /\ a.dbNode \in Seq(SchemaNode)
    BY <1>0, <1>4 DEF AddSchema, OnTop, Entered, Activation
  <2>4. node \in SchemaNode
    BY <1>0, <2>3 DEF Activation, SchemaNode
  <2>5. ToSet(c.dbNode) = ToSet(a.dbNode) \cup {node}
    BY <2>2, <2>3, <2>4, AppendHas
  <2>6. node.name = Head(a.schemas) /\ node.tables = a.schemaNode
    OBVIOUS
  <2> HIDE DEF c, node
  <2>7. ASSUME a.clean, NEW s \in ToSet(Catalog[Head(a.conns)])
        PROVE  SchemaHung(s, c.dbNode) \/ s.name \in ToSet(c.schemas)
    <3>1. SchemaHung(s, a.dbNode) \/ s.name \in ToSet(a.schemas)
      BY <1>2, <2>3, <2>7 DEF NoneDropped, InSchemas, InTables
    <3>2. CASE SchemaHung(s, a.dbNode)
      BY <2>5, <3>2 DEF SchemaHung
    <3>3. CASE s.name = Head(a.schemas)
      <4>1. ToSet(a.tables) = {}
        BY <2>3 DEF ToSet
      <4>2. \A t \in ToSet(s.tables) : TableHung(t, a.schemaNode)
        BY <1>2, <2>3, <2>7, <3>3, <4>1 DEF NoneDropped, InTables
      <4> QED BY <2>5, <2>6, <3>3, <4>2 DEF SchemaHung
    <3>4. CASE s.name \in ToSet(a.schemas) /\ s.name # Head(a.schemas)
      BY <2>2, <2>3, <3>4, HeadOrTail
    <3> QED BY <3>1, <3>2, <3>3, <3>4
  <2>8. CleanAfter(c)
    BY <2>2, <2>7 DEF CleanAfter, NoneDropped, InTables, Fetching
  <2> QED BY <1>1, <2>1, <2>8, CleanStep
<1>5. CASE CopyList(l)
  <2> DEFINE list == internal_list[a.level]
             conn == Head(a.conns)
  <2>1. /\ a.at = "copy" /\ a.level \in {"schemas", "tables", "columns"}
        /\ a.conns # <<>>
    BY <1>0, <1>5 DEF CopyList, OnTop, Activation, Levels, Entered, Fetching
  <2>2. conn \in Connections
    BY <1>0, <2>1 DEF Activation
  <2>3. a.clean => ToSet(Rows(a)) \subseteq ToSet(list)
    BY <2>1 DEF CleanInv
  <2> HIDE DEF list
  <2>4. CASE a.level = "schemas"
    <3> DEFINE c == [a EXCEPT !.at = "schema", !.schemas = list]
    <3>1. load' = [load EXCEPT ![l] = c]
      BY <1>5, <2>4 DEF CopyList, list
    <3>2. c.at = "schema" /\ c.schemas = list /\ c.conns = a.conns
          /\ c.clean = a.clean
      BY <1>0 DEF Activation
    <3> HIDE DEF c
    <3>3. Rows(a) = NamesOf(Catalog[conn])
      BY <2>4 DEF Rows
    <3>4. CleanAfter(c)
      <4>1. \A s \in ToSet(Catalog[conn]) :
              s.name \in ToSet(NamesOf(Catalog[conn]))
        BY NamesIn
      <4>2. c.clean => \A s \in ToSet(Catalog[conn]) : s.name \in ToSet(list)
        BY <2>3, <3>2, <3>3, <4>1
      <4> HIDE DEF conn
      <4>3. Head(c.conns) = conn
        BY <3>2 DEF conn
      <4>4. c.clean => NoneDropped(c)
        BY <3>2, <4>2, <4>3 DEF NoneDropped, InTables, Fetching
      <4> QED BY <3>2, <4>4 DEF CleanAfter
    <3> QED BY <1>1, <3>1, <3>4, CleanStep
  <2>5. CASE a.level = "tables"
    <3> DEFINE c == [a EXCEPT !.at = "table", !.tables = list]
    <3>1. load' = [load EXCEPT ![l] = c]
      BY <1>5, <2>5 DEF CopyList, list
    <3>2. c.at = "table" /\ c.tables = list /\ c.conns = a.conns
          /\ c.schemas = a.schemas /\ c.dbNode = a.dbNode
          /\ c.schemaNode = a.schemaNode /\ c.clean = a.clean
      BY <1>0 DEF Activation
    <3> HIDE DEF c
    <3>3. Rows(a) = NamesOf(TablesOf(conn, Head(a.schemas)))
      BY <2>5 DEF Rows
    <3>4. ASSUME a.clean, NEW s \in ToSet(Catalog[conn]),
                 s.name = Head(a.schemas), NEW t \in ToSet(s.tables)
          PROVE  t.name \in ToSet(list)
      BY <2>2, <2>3, <3>3, <3>4, ServerAnswers, NamesIn
    <3>5. a.clean => \A s \in ToSet(Catalog[conn]) :
            SchemaHung(s, a.dbNode) \/ s.name \in ToSet(a.schemas)
      BY <1>2, <2>1, <2>5 DEF NoneDropped, InSchemas, Fetching
    <3> HIDE DEF conn
    <3>6. Head(c.conns) = conn
      BY <3>2 DEF conn
    <3>7. c.clean => NoneDropped(c)
      BY <3>2, <3>4, <3>5, <3>6 DEF NoneDropped
    <3>8. CleanAfter(c)
      BY <3>2, <3>7 DEF CleanAfter
    <3> QED BY <1>1, <3>1, <3>8, CleanStep
  <2>6. CASE a.level = "columns"
    <3> DEFINE node == [name |-> Head(a.tables), columns |-> list]
               c == [a EXCEPT !.at = "table", !.tables = Tail(a.tables),
                              !.schemaNode = Append(a.schemaNode, node)]
    <3>1. load' = [load EXCEPT ![l] = c]
      BY <1>5, <2>6 DEF CopyList, list
    <3>2. c.at = "table" /\ c.tables = Tail(a.tables) /\ c.conns = a.conns
          /\ c.schemas = a.schemas /\ c.dbNode = a.dbNode
          /\ c.schemaNode = Append(a.schemaNode, node) /\ c.clean = a.clean
      BY <1>0 DEF Activation
    <3>3. a.tables # <<>> /\ a.tables \in Seq(Names)
          /\ a.schemaNode \in Seq(TableNode)
      BY <1>0, <2>1, <2>6 DEF Entered, Fetching, Activation
    <3>4. node \in TableNode
      <4>1. list \in Seq(Names)
        BY <1>0 DEF list, TypeOK, Activation
      <4> QED BY <3>3, <4>1 DEF TableNode
    <3>5. ToSet(c.schemaNode) = ToSet(a.schemaNode) \cup {node}
      BY <3>2, <3>3, <3>4, AppendHas
    <3>6. node.name = Head(a.tables) /\ node.columns = list
      OBVIOUS
    <3> HIDE DEF c, node
    <3>7. ASSUME a.clean, NEW s \in ToSet(Catalog[conn]),
                 s.name = Head(a.schemas), NEW t \in ToSet(s.tables)
          PROVE  TableHung(t, c.schemaNode) \/ t.name \in ToSet(c.tables)
      <4>1. TableHung(t, a.schemaNode) \/ t.name \in ToSet(a.tables)
        BY <1>2, <2>1, <2>6, <3>7 DEF NoneDropped, InTables, Fetching
      <4>2. CASE TableHung(t, a.schemaNode)
        BY <3>5, <4>2 DEF TableHung
      <4>3. CASE t.name = Head(a.tables)
        <5>1. Rows(a) = ColumnsOf(conn, s.name, t.name)
          BY <2>6, <3>7, <4>3 DEF Rows
        <5>2. Rows(a) = t.columns
          BY <2>2, <3>7, <5>1, ServerAnswers
        <5>3. ToSet(t.columns) \subseteq ToSet(list)
          BY <2>3, <3>7, <5>2
        <5> QED BY <3>5, <3>6, <4>3, <5>3 DEF TableHung
      <4>4. CASE t.name \in ToSet(a.tables) /\ t.name # Head(a.tables)
        BY <3>2, <3>3, <4>4, HeadOrTail
      <4> QED BY <4>1, <4>2, <4>3, <4>4
    <3>8. a.clean => \A s \in ToSet(Catalog[conn]) :
            SchemaHung(s, a.dbNode) \/ s.name \in ToSet(a.schemas)
      BY <1>2, <2>1, <2>6 DEF NoneDropped, InSchemas, InTables, Fetching
    <3> HIDE DEF conn
    <3>9. Head(c.conns) = conn
      BY <3>2 DEF conn
    <3>10. c.clean => NoneDropped(c)
      BY <3>2, <3>7, <3>8, <3>9 DEF NoneDropped
    <3>11. CleanAfter(c)
      BY <3>2, <3>10 DEF CleanAfter
    <3> QED BY <1>1, <3>1, <3>11, CleanStep
  <2> QED BY <2>1, <2>4, <2>5, <2>6
<1> QED BY <1>3, <1>4, <1>5 DEF PopulateTreeViewFromDatabase

(* The fetches drop nothing: what they read is in the list until the copy.   *)
LEMMA CleanFetch ==
  ASSUME TypeOK, LoopsEntered, StackInv, CleanInv, NEW l \in Loads,
         GetSchemasInfo(l) \/ GetTablesInfo(l) \/ GetColumnsInfo(l)
  PROVE  CleanInv'
<1> DEFINE a == load[l]
<1>0. a \in Activation /\ Entered(a)
  BY DEF TypeOK, LoopsEntered
<1>1. \A m \in Loads \ {l} : load[m].at # "copy"
  BY NoneElseCopies DEF Progress
<1>2. a.clean => NoneDropped(a) /\ a.at # "fetch_box"
  BY DEF CleanInv
<1>3. ASSUME NEW level \in Levels, Call(l, level),
             \/ level = "schemas"
             \/ level = "tables" /\ a.at = "schema"
             \/ level = "columns" /\ a.at = "table"
      PROVE  CleanInv'
  <2>1. CASE Head(a.conns) \in Rejected
    <3> DEFINE c == [a EXCEPT !.at = "fetch_box", !.level = level,
                              !.clean = FALSE]
    <3>1. load' = [load EXCEPT ![l] = c]
      BY <1>3, <2>1 DEF Call, TypeOK
    <3>2. ~ c.clean
      BY <1>0 DEF Activation
    <3> HIDE DEF c
    <3> QED BY <1>1, <3>1, <3>2, CleanStep DEF CleanAfter
  <2>2. CASE Head(a.conns) \notin Rejected
    <3> DEFINE c == [a EXCEPT !.at = "open", !.level = level]
    <3>1. load' = [load EXCEPT ![l] = c]
      BY <1>3, <2>2 DEF Call, TypeOK
    <3>2. /\ c.at = "open" /\ c.level = level /\ c.clean = a.clean
          /\ c.conns = a.conns /\ c.schemas = a.schemas
          /\ c.tables = a.tables /\ c.dbNode = a.dbNode
          /\ c.schemaNode = a.schemaNode
      BY <1>0 DEF Activation
    <3> HIDE DEF c
    <3>3. /\ InSchemas(c) => InSchemas(a)
          /\ InTables(c) => InTables(a)
      BY <1>3, <3>2 DEF InSchemas, InTables
    <3>4. CleanAfter(c)
      BY <1>2, <3>2, <3>3, CleanMoved
    <3> QED BY <1>1, <3>1, <3>4, CleanStep
  <2> QED BY <2>1, <2>2
<1>4. ASSUME NEW level \in Levels, a.at = "open", a.level = level,
             Read(l, level)
      PROVE  CleanInv'
  <2> DEFINE rows == Rows(a)
  <2>1. PICK k \in 0..Len(rows), complete \in BOOLEAN :
          /\ complete => k = Len(rows)
          /\ internal_list' = Added(level, SubSeq(rows, 1, k))
          /\ load' = [load EXCEPT ![l].at = "copy",
                                  ![l].clean = @ /\ complete]
    BY <1>4 DEF Read
  <2> DEFINE c == [a EXCEPT !.at = "copy", !.clean = @ /\ complete]
  <2>2. load' = [load EXCEPT ![l] = c]
    BY <2>1 DEF TypeOK
  <2>3. /\ c.at = "copy" /\ c.level = a.level
        /\ c.clean = (a.clean /\ complete)
        /\ c.conns = a.conns /\ c.schemas = a.schemas
        /\ c.tables = a.tables /\ c.dbNode = a.dbNode
        /\ c.schemaNode = a.schemaNode
    BY <1>0 DEF Activation
  <2>4. rows \in Seq(Names)
    BY <1>4, RowsType
  <2>5. internal_list[level] \in Seq(Names) /\ level \in DOMAIN internal_list
    BY DEF TypeOK
  <2> HIDE DEF c, rows
  <2>6. complete => ToSet(rows) \subseteq ToSet(internal_list'[level])
    <3>1. SUFFICES ASSUME complete, NEW i \in 1..Len(rows)
                   PROVE  rows[i] \in ToSet(internal_list'[level])
      BY <2>4 DEF ToSet
    <3> DEFINE old == internal_list[level]
    <3>2. SubSeq(rows, 1, k) = rows
      BY <2>1, <2>4, <3>1, SubSeqFull
    <3>3. internal_list'[level] = old \o rows
      BY <2>1, <2>5, <3>2 DEF Added
    <3>4. Len(old) + i \in DOMAIN (old \o rows)
          /\ (old \o rows)[Len(old) + i] = rows[i]
      BY <2>4, <2>5
    <3> QED BY <3>3, <3>4 DEF ToSet
  <2>7. Rows(c) = rows
    BY <2>3 DEF Rows, rows
  <2>8. InSchemas(c) = InSchemas(a) /\ InTables(c) = InTables(a)
    BY <1>4, <2>3 DEF InSchemas, InTables, Fetching
  <2>9. c.clean => NoneDropped(c)
    BY <1>2, <2>3, <2>8 DEF NoneDropped
  <2>10. CleanAfter(c)
    BY <1>4, <2>3, <2>6, <2>7, <2>9 DEF CleanAfter
  <2> QED BY <1>1, <2>2, <2>10, CleanStep
<1>5. ASSUME OpenFails(l)
      PROVE  CleanInv'
  <2> DEFINE c == [a EXCEPT !.at = "fetch_box", !.clean = FALSE]
  <2>1. load' = [load EXCEPT ![l] = c]
    BY <1>5 DEF OpenFails, TypeOK
  <2>2. ~ c.clean
    BY <1>0 DEF Activation
  <2> HIDE DEF c
  <2> QED BY <1>1, <2>1, <2>2, CleanStep DEF CleanAfter
<1>6. ASSUME DismissFetchBox(l)
      PROVE  CleanInv'
  <2> DEFINE c == [a EXCEPT !.at = "copy"]
  <2>1. load' = [load EXCEPT ![l] = c]
    BY <1>6 DEF DismissFetchBox, MoveTo, TypeOK
  <2>2. ~ c.clean
    BY <1>0, <1>2, <1>6 DEF Activation, DismissFetchBox, OnTop
  <2> HIDE DEF c
  <2> QED BY <1>1, <2>1, <2>2, CleanStep DEF CleanAfter
<1>7. ASSUME NEW level \in Levels, Answer(l, level)
      PROVE  CleanInv'
  BY <1>4, <1>5, <1>6, <1>7 DEF Answer, Resumes
<1>8. CASE GetSchemasInfo(l)
  BY <1>3, <1>7, <1>8 DEF GetSchemasInfo, OnTop, Levels
<1>9. CASE GetTablesInfo(l)
  BY <1>3, <1>7, <1>9 DEF GetTablesInfo, OnTop, Levels
<1>10. CASE GetColumnsInfo(l)
  BY <1>3, <1>7, <1>10 DEF GetColumnsInfo, OnTop, Levels
<1> QED BY <1>8, <1>9, <1>10

(* A fresh activation has dropped nothing.                                   *)
LEMMA CleanFresh ==
  ASSUME NEW starter, NEW list,
         NEW place \in {"idle", "connection", "details_box"}
  PROVE  CleanAfter(Fresh(starter, place, list))
<1> DEFINE c == Fresh(starter, place, list)
<1>1. c.at = place
  BY DEF Fresh
<1> HIDE DEF c
<1>2. CleanAfter(c)
  BY <1>1, CleanBetween
<1> QED BY <1>2 DEF c

(* The starts and the ends of the handlers drop nothing.                     *)
LEMMA CleanHandlers ==
  ASSUME TypeOK, LoopsEntered, StackInv, CleanInv, NEW l \in Loads,
         \/ AppForm_Load(l)
         \/ update_timer_Tick(l)
         \/ refresh_connections_Click(l)
         \/ refreshToolStripMenuItem_Click(l)
         \/ Finish(l)
  PROVE  CleanInv'
<1> DEFINE a == load[l]
<1>0. a \in Activation
  BY DEF TypeOK
<1>1. \A m \in Loads \ {l} : load[m].at # "copy"
  BY NoneElseCopies DEF Progress
<1>2. ASSUME NEW starter, NEW place \in {"idle", "connection", "details_box"},
             NEW list, load' = [load EXCEPT ![l] = Fresh(starter, place, list)]
      PROVE  CleanInv'
  BY <1>1, <1>2, CleanFresh, CleanStep
<1>3. ASSUME NEW place \in {"details_box", "loaded_box"}, MoveTo(l, place)
      PROVE  CleanInv'
  <2> DEFINE c == [a EXCEPT !.at = place]
  <2>1. load' = [load EXCEPT ![l] = c]
    BY <1>3 DEF MoveTo, TypeOK
  <2>2. c.at = place
    BY <1>0 DEF Activation
  <2> HIDE DEF c
  <2>3. CleanAfter(c)
    BY <2>2, CleanBetween
  <2> QED BY <1>1, <2>1, <2>3, CleanStep
<1>4. ASSUME Return(l)
      PROVE  CleanInv'
  BY <1>2, <1>4 DEF Return, Idle
<1>5. CASE AppForm_Load(l) \/ update_timer_Tick(l)
           \/ refreshToolStripMenuItem_Click(l)
  BY <1>2, <1>5 DEF AppForm_Load, update_timer_Tick,
     refreshToolStripMenuItem_Click, Begin
<1>6. CASE refresh_connections_Click(l)
  BY <1>2, <1>6 DEF refresh_connections_Click, Begin
<1>7. CASE Finish(l)
  <2>1. CASE FinishRefresh(l) \/ FinishFormLoad(l) \/ ShowLoaded(l)
             \/ DismissLoaded(l)
    BY <1>3, <1>4, <2>1 DEF FinishRefresh, FinishFormLoad, ShowLoaded,
       DismissLoaded
  <2>2. CASE DismissDetails(l)
    BY <1>2, <1>4, <2>2 DEF DismissDetails
  <2> QED BY <1>7, <2>1, <2>2 DEF Finish
<1> QED BY <1>5, <1>6, <1>7

(* Every step keeps what nothing is lost rests on.                           *)
LEMMA CleanNext ==
  ASSUME IInv, CleanInv, [Next]_vars
  PROVE  CleanInv'
<1> USE DEF IInv
<1>1. ASSUME NEW l \in Loads,
             \/ AppForm_Load(l)
             \/ update_timer_Tick(l)
             \/ refresh_connections_Click(l)
             \/ refreshToolStripMenuItem_Click(l)
      PROVE  CleanInv'
  BY <1>1, CleanHandlers
<1>2. ASSUME NEW l \in Loads, Progress(l)
      PROVE  CleanInv'
  BY <1>2, CleanHandlers, CleanLoop, CleanFetch DEF Progress
<1>3. CASE RefuseLogin \/ DismissRefusal \/ UNCHANGED vars
  <2>1. load' = load /\ internal_list' = internal_list
    BY <1>3 DEF RefuseLogin, DismissRefusal, vars
  <2>2. \A m \in Loads : CleanAfter(load'[m])
    BY <2>1 DEF CleanInv, CleanAfter
  <2> QED BY <2>2, CleanAll
<1> QED BY <1>1, <1>2, <1>3 DEF Next, LoadNext

(* Before the form is shown nothing was dropped.                             *)
LEMMA CleanInit == Init => CleanInv
<1> SUFFICES ASSUME Init, NEW l \in Loads
             PROVE  /\ load[l].at # "fetch_box"
                    /\ NoneDropped(load[l])
                    /\ load[l].at # "copy"
  BY DEF CleanInv
<1>1. load[l].at = "idle"
  BY DEF Init, Idle, Fresh
<1> QED BY <1>1 DEF NoneDropped, InSchemas, InTables, Fetching

(* However loads overlap, the node that an activation adds after clean       *)
(* fetches holds all that the server answered.                               *)
LEMMA AddedComplete ==
  ASSUME IInv, CleanInv, NEW l \in Loads, AddConnection(l), load[l].clean
  PROVE  Complete(Last(nodes'))
<1> DEFINE a == load[l]
           node == [name |-> Head(a.conns), schemas |-> a.dbNode]
<1>1. a.at = "schema" /\ a.schemas = <<>> /\ nodes' = Append(nodes, node)
  BY DEF AddConnection, OnTop
<1>2. nodes \in Seq(ConnectionNode)
  BY DEF IInv, TypeOK
<1>3. node.name = Head(a.conns) /\ node.schemas = a.dbNode
  OBVIOUS
<1> HIDE DEF node
<1>4. Last(nodes') = node
  BY <1>1, <1>2 DEF Last
<1>5. ToSet(a.schemas) = {}
  BY <1>1 DEF ToSet
<1>6. \A s \in ToSet(Catalog[Head(a.conns)]) : SchemaHung(s, a.dbNode)
  BY <1>1, <1>5 DEF CleanInv, NoneDropped, InSchemas
<1>7. Complete(node)
  BY <1>3, <1>6 DEF Complete
<1> QED BY <1>4, <1>7

(* The shared lists may mix the rows of loads that overlap, but no load      *)
(* loses its own (HelperFunctions.PopulateTreeViewFromDatabase).             *)
THEOREM NoneLost == Spec => NothingLost
<1>1. Init => IInv /\ CleanInv
  BY InitInv, CleanInit
<1>2. IInv /\ CleanInv /\ [Next]_vars => (IInv /\ CleanInv)'
  BY NextInv, CleanNext
<1>3. IInv /\ CleanInv =>
        [\A l \in Loads : AddConnection(l) /\ load[l].clean =>
                            Complete(Last(nodes'))]_vars
  BY AddedComplete
<1> QED BY <1>1, <1>2, <1>3, PTL DEF Spec, NothingLost

-----------------------------------------------------------------------------
(* One load at a time: the tree is what the servers answer, in their order. *)

(* The next name of a list is that of the next child of the answer.          *)
LEMMA ContinuesAt ==
  ASSUME NEW S, NEW hung \in Seq(S), NEW left \in Seq(Names), left # <<>>,
         NEW R, NEW all \in Seq(R), Continues(hung, left, all)
  PROVE  /\ Len(hung) + 1 \in 1..Len(all)
         /\ Head(left) = all[Len(hung) + 1].name
<1>1. Len(left) \in Nat /\ Len(left) >= 1 /\ Len(hung) \in Nat
      /\ Len(all) \in Nat
  OBVIOUS
<1> QED BY <1>1 DEF Continues

(* ... and the others are still left once that one is hung up.               *)
LEMMA ContinuesNext ==
  ASSUME NEW S, NEW hung \in Seq(S), NEW left \in Seq(Names), left # <<>>,
         NEW R, NEW all \in Seq(R), Continues(hung, left, all), NEW e \in S
  PROVE  Continues(Append(hung, e), Tail(left), all)
<1>1. Len(left) \in Nat /\ Len(left) >= 1 /\ Len(hung) \in Nat
      /\ Len(all) \in Nat
  OBVIOUS
<1>2. /\ Len(Append(hung, e)) = Len(hung) + 1
      /\ Len(Tail(left)) = Len(left) - 1
      /\ \A i \in 1..Len(Tail(left)) : Tail(left)[i] = left[i + 1]
  OBVIOUS
<1>3. \A i \in 1..Len(Tail(left)) :
        Tail(left)[i] = all[Len(Append(hung, e)) + i].name
  <2> TAKE i \in 1..Len(Tail(left))
  <2>1. i + 1 \in 1..Len(left) /\ Tail(left)[i] = left[i + 1]
    BY <1>1, <1>2
  <2>2. left[i + 1] = all[Len(hung) + (i + 1)].name
    BY <2>1 DEF Continues
  <2>3. Len(hung) + (i + 1) = Len(Append(hung, e)) + i
    BY <1>1, <1>2
  <2> QED BY <2>1, <2>2, <2>3
<1> QED BY <1>1, <1>2, <1>3 DEF Continues

(* A copy of the first rows of an answer has all of it before it.            *)
LEMMA ContinuesCopy ==
  ASSUME NEW R, NEW all \in Seq(R), NEW list \in Seq(Names),
         IsPrefix(list, NamesOf(all)), NEW hung, hung = <<>>
  PROVE  Continues(hung, list, all)
<1>1. Len(NamesOf(all)) = Len(all)
      /\ \A i \in 1..Len(all) : NamesOf(all)[i] = all[i].name
  BY DEF NamesOf
<1>2. Len(list) <= Len(all)
  BY <1>1 DEF IsPrefix
<1>3. \A i \in 1..Len(list) : list[i] = NamesOf(all)[i]
  <2>1. SubSeq(list, 1, Len(list)) = SubSeq(NamesOf(all), 1, Len(list))
    BY DEF IsPrefix
  <2>2. \A i \in 1..Len(list) : SubSeq(list, 1, Len(list))[i] = list[i]
    OBVIOUS
  <2>3. \A i \in 1..Len(list) :
          SubSeq(NamesOf(all), 1, Len(list))[i] = NamesOf(all)[i]
    BY <1>2
  <2> QED BY <2>1, <2>2, <2>3
<1> QED BY <1>1, <1>2, <1>3 DEF Continues

(* A list that ends early has only what the whole one has.                   *)
LEMMA PrefixIn ==
  ASSUME NEW S, NEW s \in Seq(S), NEW all \in Seq(S), IsPrefix(s, all)
  PROVE  ToSet(s) \subseteq ToSet(all)
<1>1. Len(s) \in Nat /\ Len(all) \in Nat /\ Len(s) <= Len(all)
  BY DEF IsPrefix
<1>2. \A i \in 1..Len(s) : s[i] = all[i]
  <2>1. SubSeq(s, 1, Len(s)) = SubSeq(all, 1, Len(s))
    BY DEF IsPrefix
  <2>2. \A i \in 1..Len(s) : SubSeq(s, 1, Len(s))[i] = s[i]
    OBVIOUS
  <2>3. \A i \in 1..Len(s) : SubSeq(all, 1, Len(s))[i] = all[i]
    BY <1>1
  <2> QED BY <2>1, <2>2, <2>3
<1> QED BY <1>1, <1>2 DEF ToSet

(* A child hung up after those that match matches too.                       *)
LEMMA ShownTables ==
  ASSUME NEW hung \in Seq(TableNode), NEW all \in Seq(TableNode),
         View!TablesShown(hung, all), NEW e \in TableNode,
         Len(hung) + 1 \in 1..Len(all), e.name = all[Len(hung) + 1].name,
         IsPrefix(e.columns, all[Len(hung) + 1].columns)
  PROVE  View!TablesShown(Append(hung, e), all)
<1>1. /\ Len(Append(hung, e)) = Len(hung) + 1
      /\ \A i \in 1..(Len(hung) + 1) :
           IF i = Len(hung) + 1 THEN Append(hung, e)[i] = e
             ELSE i \in 1..Len(hung) /\ Append(hung, e)[i] = hung[i]
  OBVIOUS
<1>2. \A i \in 1..Len(hung) :
        hung[i].name = all[i].name /\ View!TableShown(hung[i], all[i])
  BY DEF View!TablesShown, View!Matches
<1>3. View!TableShown(e, all[Len(hung) + 1])
  BY DEF View!TableShown, View!IsPrefix, IsPrefix
<1> QED BY <1>1, <1>2, <1>3 DEF View!TablesShown, View!Matches

(* ... a schema as well as a table.                                          *)
LEMMA ShownSchemas ==
  ASSUME NEW hung \in Seq(SchemaNode), NEW all \in Seq(SchemaNode),
         View!SchemasShown(hung, all), NEW e \in SchemaNode,
         Len(hung) + 1 \in 1..Len(all), e.name = all[Len(hung) + 1].name,
         View!TablesShown(e.tables, all[Len(hung) + 1].tables)
  PROVE  View!SchemasShown(Append(hung, e), all)
<1>1. /\ Len(Append(hung, e)) = Len(hung) + 1
      /\ \A i \in 1..(Len(hung) + 1) :
           IF i = Len(hung) + 1 THEN Append(hung, e)[i] = e
             ELSE i \in 1..Len(hung) /\ Append(hung, e)[i] = hung[i]
  OBVIOUS
<1>2. \A i \in 1..Len(hung) :
        hung[i].name = all[i].name /\ View!SchemaShown(hung[i], all[i])
  BY DEF View!SchemasShown, View!Matches
<1>3. View!SchemaShown(e, all[Len(hung) + 1])
  BY DEF View!SchemaShown
<1> QED BY <1>1, <1>2, <1>3 DEF View!SchemasShown, View!Matches

(* Nothing hung up matches any answer.                                       *)
LEMMA ShownNone ==
  ASSUME NEW R, NEW all \in Seq(R), NEW hung, hung = <<>>
  PROVE  View!TablesShown(hung, all) /\ View!SchemasShown(hung, all)
<1>1. Len(hung) = 0 /\ Len(all) \in Nat
  OBVIOUS
<1> QED BY <1>1 DEF View!TablesShown, View!SchemasShown, View!Matches

(* What OrderInv says of an activation after a step.                         *)
OrderAfter(a) ==
  /\ SchemasInOrder(a)
  /\ TablesInOrder(a)
  /\ a.at \in {"open", "fetch_box"} => internal_list'[a.level] = <<>>
  /\ a.at = "copy" => IsPrefix(internal_list'[a.level], Rows(a))
  /\ Ended(a)

ShownAfter == \A n \in ToSet(nodes') : View!Shown(n, n.name)

(* OrderInv after a step is that of the activations and the nodes after it.  *)
LEMMA OrderAll ==
  OrderInv' <=> (\A m \in Loads : OrderAfter(load'[m])) /\ ShownAfter
<1>1. ASSUME NEW m \in Loads
      PROVE  /\ SchemasInOrder(load[m])' <=> SchemasInOrder(load'[m])
             /\ TablesInOrder(load[m])' <=> TablesInOrder(load'[m])
             /\ Ended(load[m])' <=> Ended(load'[m])
             /\ Rows(load[m])' = Rows(load'[m])
  <2>1. SchemasInOrder(load[m])' <=> SchemasInOrder(load'[m])
    BY DEF SchemasInOrder, InSchemas, InTables, View!SchemasShown,
       View!Matches, View!SchemaShown, View!TablesShown, View!TableShown,
       IsPrefix, Continues
  <2>2. TablesInOrder(load[m])' <=> TablesInOrder(load'[m])
    BY DEF TablesInOrder, InTables, View!TablesShown, View!Matches,
       View!TableShown, IsPrefix, Continues
  <2>3. Ended(load[m])' <=> Ended(load'[m])
    BY DEF Ended
  <2>4. Rows(load[m])' = Rows(load'[m])
    BY DEF Rows, NamesOf, TablesOf, ColumnsOf, Named, ToSet
  <2> QED BY <2>1, <2>2, <2>3, <2>4
<1>2. (\A n \in ToSet(nodes) : View!Shown(n, n.name))' <=> ShownAfter
  BY DEF ShownAfter, ToSet, View!Shown, View!SchemasShown, View!Matches,
     View!SchemaShown, View!TablesShown, View!TableShown, IsPrefix
<1>3. ASSUME NEW m \in Loads
      PROVE  ListInOrder(load[m])' <=>
               /\ load'[m].at \in {"open", "fetch_box"} =>
                    internal_list'[load'[m].level] = <<>>
               /\ load'[m].at = "copy" =>
                    IsPrefix(internal_list'[load'[m].level], Rows(load'[m]))
  BY <1>1 DEF ListInOrder, IsPrefix
<1> QED BY <1>1, <1>2, <1>3 DEF OrderInv, OrderAfter

(* OrderInv after a step of the one activation that leaves the tree alone.   *)
LEMMA OrderStep ==
  ASSUME OneLoad, TypeOK, OrderInv, NEW l \in Loads, NEW a,
         load' = [load EXCEPT ![l] = a], OrderAfter(a),
         nodes' = nodes \/ nodes' = <<>>
  PROVE  OrderInv'
<1>1. load'[l] = a /\ \A m \in Loads : m = l
  BY DEF TypeOK, OneLoad
<1>2. \A m \in Loads : OrderAfter(load'[m])
  BY <1>1
<1>3. ToSet(nodes') \subseteq ToSet(nodes)
  BY DEF ToSet
<1>4. ShownAfter
  BY <1>3 DEF OrderInv, ShownAfter
<1> QED BY <1>2, <1>4, OrderAll

(* Nothing is hung up under an activation that is in no loop.                *)
LEMMA OrderBetween ==
  ASSUME NEW a, a.at \in {"idle", "connection", "details_box", "loaded_box"},
         a.dbNode = <<>>, a.schemaNode = <<>>, Ended(a)
  PROVE  OrderAfter(a)
BY DEF OrderAfter, SchemasInOrder, TablesInOrder, InSchemas, InTables, Fetching

(* The schema and the table that the loops are at, and what the server       *)
(* answers to the fetches about them.                                        *)
LEMMA SchemaAt ==
  ASSUME NEW a \in Activation, SchemasInOrder(a), InSchemas(a),
         a.conns # <<>>, a.schemas # <<>>
  PROVE  LET all == Catalog[Head(a.conns)]
             s == all[Len(a.dbNode) + 1]
         IN /\ Head(a.conns) \in Connections
            /\ all \in Seq(SchemaNode)
            /\ Len(a.dbNode) + 1 \in 1..Len(all)
            /\ s \in SchemaNode /\ s \in ToSet(all)
            /\ Head(a.schemas) = s.name
            /\ TablesOf(Head(a.conns), Head(a.schemas)) = s.tables
<1> DEFINE conn == Head(a.conns)
           all == Catalog[conn]
           k == Len(a.dbNode) + 1
           s == all[k]
<1>1. /\ a.conns \in Seq(Connections) /\ a.schemas \in Seq(Names)
      /\ a.dbNode \in Seq(SchemaNode)
  BY DEF Activation
<1>2. conn \in Connections
  BY <1>1
<1>3. all \in Seq(SchemaNode)
  BY <1>2, TreeAssumption
<1>4. Continues(a.dbNode, a.schemas, all)
  BY DEF SchemasInOrder
<1> HIDE DEF conn, all
<1>5. k \in 1..Len(all) /\ Head(a.schemas) = s.name
  BY <1>1, <1>3, <1>4, ContinuesAt
<1>6. s \in SchemaNode /\ s \in ToSet(all)
  BY <1>3, <1>5 DEF ToSet
<1>7. TablesOf(conn, Head(a.schemas)) = s.tables
  BY <1>2, <1>5, <1>6, ServerAnswers, SMTT(30) DEF all
<1> QED BY <1>2, <1>3, <1>5, <1>6, <1>7 DEF conn, all

(* ... the same of the table.                                                *)
LEMMA TableAt ==
  ASSUME NEW a \in Activation, SchemasInOrder(a), TablesInOrder(a),
         InTables(a), a.conns # <<>>, a.schemas # <<>>, a.tables # <<>>
  PROVE  LET all == Catalog[Head(a.conns)][Len(a.dbNode) + 1].tables
             t == all[Len(a.schemaNode) + 1]
         IN /\ all \in Seq(TableNode)
            /\ Len(a.schemaNode) + 1 \in 1..Len(all)
            /\ t \in TableNode
            /\ Head(a.tables) = t.name
            /\ ColumnsOf(Head(a.conns), Head(a.schemas), Head(a.tables))
                 = t.columns
<1> DEFINE conn == Head(a.conns)
           s == Catalog[conn][Len(a.dbNode) + 1]
           all == s.tables
           k == Len(a.schemaNode) + 1
           t == all[k]
<1>1. /\ conn \in Connections /\ s \in SchemaNode
      /\ s \in ToSet(Catalog[conn]) /\ Head(a.schemas) = s.name
  BY SchemaAt DEF InSchemas
<1>2. a.tables \in Seq(Names) /\ a.schemaNode \in Seq(TableNode)
  BY DEF Activation
<1>3. all \in Seq(TableNode)
  BY <1>1 DEF SchemaNode
<1>4. Continues(a.schemaNode, a.tables, all)
  BY DEF TablesInOrder
<1> HIDE DEF conn, s, all
<1>5. k \in 1..Len(all) /\ Head(a.tables) = t.name
  BY <1>2, <1>3, <1>4, ContinuesAt
<1>6. t \in TableNode /\ t \in ToSet(all)
  BY <1>3, <1>5 DEF ToSet
<1>7. ColumnsOf(conn, Head(a.schemas), Head(a.tables)) = t.columns
  BY <1>1, <1>5, <1>6, ServerAnswers DEF all
<1> QED BY <1>3, <1>5, <1>6, <1>7 DEF conn, s, all

(* The step that adds a connection shows it as the server describes it.      *)
LEMMA OrderAdd ==
  ASSUME OneLoad, IInv, OrderInv, NEW l \in Loads, AddConnection(l)
  PROVE  /\ OrderInv'
         /\ View!Shown(Last(nodes'), Head(load[l].conns))
<1> DEFINE a == load[l]
           node == [name |-> Head(a.conns), schemas |-> a.dbNode]
           c == [a EXCEPT !.at = "connection", !.conns = Tail(a.conns),
                          !.dbNode = <<>>]
<1>0. a \in Activation
  BY DEF IInv, TypeOK
<1>1. /\ a.at = "schema" /\ nodes' = Append(nodes, node)
      /\ load' = [load EXCEPT ![l] = c]
  BY DEF AddConnection, OnTop
<1>2. SchemasInOrder(a) /\ TablesInOrder(a)
  BY DEF OrderInv
<1>3. View!SchemasShown(a.dbNode, Catalog[Head(a.conns)])
      /\ a.schemaNode = <<>>
  BY <1>1, <1>2 DEF SchemasInOrder, TablesInOrder, InSchemas, InTables, Fetching
<1>4. node.name = Head(a.conns) /\ node.schemas = a.dbNode
  OBVIOUS
<1>5. node \in ConnectionNode /\ nodes \in Seq(ConnectionNode)
  <2>1. a.conns # <<>>
    BY <1>1 DEF IInv, LoopsEntered, Entered
  <2> QED BY <1>0, <2>1 DEF Activation, ConnectionNode, IInv, TypeOK
<1>6. c.at = "connection" /\ c.dbNode = <<>> /\ c.schemaNode = <<>>
  BY <1>0, <1>3 DEF Activation
<1> HIDE DEF node, c
<1>7. View!Shown(node, node.name) /\ View!Shown(node, Head(a.conns))
  BY <1>3, <1>4 DEF View!Shown
<1>8. Last(nodes') = node /\ ToSet(nodes') = ToSet(nodes) \cup {node}
  <2>1. Last(Append(nodes, node)) = node
    BY <1>5 DEF Last
  <2> QED BY <1>1, <1>5, <2>1, AppendHas
<1>9. ShownAfter
  BY <1>7, <1>8 DEF ShownAfter, OrderInv
<1>10. OrderAfter(c)
  BY <1>6, OrderBetween DEF Ended
<1>11. \A m \in Loads : OrderAfter(load'[m])
  BY <1>1, <1>10 DEF OneLoad, IInv, TypeOK
<1> QED BY <1>7, <1>8, <1>9, <1>11, OrderAll

(* The other steps of the loops keep the order of the server's answer.       *)
LEMMA OrderLoop ==
  ASSUME OneLoad, IInv, OrderInv, NEW l \in Loads,
         AddSchema(l) \/ CopyList(l)
  PROVE  OrderInv'
<1> DEFINE a == load[l]
           conn == Head(a.conns)
<1>0. a \in Activation /\ Entered(a) /\ TypeOK
  BY DEF IInv, TypeOK, LoopsEntered
<1>1. SchemasInOrder(a) /\ TablesInOrder(a) /\ ListInOrder(a)
  BY DEF OrderInv
<1>2. nodes' = nodes
  BY DEF AddSchema, CopyList, Unchanged_but_load
<1>3. CASE AddSchema(l)
  <2> DEFINE node == [name |-> Head(a.schemas), tables |-> a.schemaNode]
             c == [a EXCEPT !.at = "schema", !.schemas = Tail(a.schemas),
                            !.schemaNode = <<>>,
                            !.dbNode = Append(a.dbNode, node)]
             all == Catalog[conn]
             k == Len(a.dbNode) + 1
  <2>1. load' = [load EXCEPT ![l] = c]
    BY <1>3 DEF AddSchema
  <2>2. /\ c.at = "schema" /\ c.schemas = Tail(a.schemas)
        /\ c.dbNode = Append(a.dbNode, node) /\ c.schemaNode = <<>>
        /\ c.conns = a.conns
    BY <1>0 DEF Activation
  <2>3. a.at = "table" /\ a.conns # <<>> /\ a.schemas # <<>>
    BY <1>0, <1>3 DEF AddSchema, OnTop, Entered
  <2>4. InTables(a) /\ InSchemas(a)
    BY <2>3 DEF InTables, InSchemas
  <2>5. /\ a.dbNode \in Seq(SchemaNode) /\ a.schemas \in Seq(Names)
        /\ node \in SchemaNode
        /\ node.name = Head(a.schemas) /\ node.tables = a.schemaNode
    BY <1>0, <2>3 DEF Activation, SchemaNode
  <2>6. /\ all \in Seq(SchemaNode) /\ k \in 1..Len(all)
        /\ Head(a.schemas) = all[k].name
    BY <1>0, <1>1, <2>3, <2>4, SchemaAt, SMTT(30)
  <2>7. /\ View!SchemasShown(a.dbNode, all)
        /\ Continues(a.dbNode, a.schemas, all)
        /\ View!TablesShown(a.schemaNode, all[k].tables)
    BY <1>1, <2>4 DEF SchemasInOrder, TablesInOrder
  <2> HIDE DEF node, c, all
  <2>8. View!SchemasShown(c.dbNode, all)
    BY <2>2, <2>5, <2>6, <2>7, ShownSchemas
  <2>9. Continues(c.dbNode, c.schemas, all)
    BY <2>2, <2>3, <2>5, <2>6, <2>7, ContinuesNext
  <2>10. OrderAfter(c)
    <3>1. Catalog[Head(c.conns)] = all
      BY <2>2 DEF all
    <3>2. SchemasInOrder(c)
      BY <2>2, <2>8, <2>9, <3>1 DEF SchemasInOrder, InSchemas
    <3>3. TablesInOrder(c) /\ Ended(c)
      BY <2>2 DEF TablesInOrder, InTables, Fetching, Ended
    <3> QED BY <2>2, <3>2, <3>3 DEF OrderAfter
  <2> QED BY <1>0, <1>2, <2>1, <2>10, OrderStep
<1>4. CASE CopyList(l)
  <2> DEFINE list == internal_list[a.level]
  <2>1. /\ a.at = "copy" /\ a.level \in {"schemas", "tables", "columns"}
        /\ a.conns # <<>>
    BY <1>0, <1>4 DEF CopyList, OnTop, Activation, Levels, Entered, Fetching
  <2>2. conn \in Connections /\ list \in Seq(Names)
    BY <1>0, <2>1 DEF Activation, TypeOK, Levels
  <2>3. IsPrefix(list, Rows(a))
    BY <1>1, <2>1 DEF ListInOrder
  <2> HIDE DEF list
  <2>4. CASE a.level = "schemas"
    <3> DEFINE c == [a EXCEPT !.at = "schema", !.schemas = list]
               all == Catalog[conn]
    <3>1. load' = [load EXCEPT ![l] = c]
      BY <1>4, <2>4 DEF CopyList, list
    <3>2. c.at = "schema" /\ c.schemas = list /\ c.conns = a.conns
          /\ c.dbNode = a.dbNode /\ c.schemaNode = a.schemaNode
      BY <1>0 DEF Activation
    <3>3. a.dbNode = <<>> /\ a.schemaNode = <<>>
      BY <1>1, <2>1, <2>4 DEF SchemasInOrder, TablesInOrder, InSchemas,
         InTables, Fetching
    <3>4. all \in Seq(SchemaNode)
      BY <2>2, TreeAssumption
    <3>5. IsPrefix(list, NamesOf(all))
      BY <2>3, <2>4 DEF Rows
    <3> HIDE DEF c, all
    <3>6. View!SchemasShown(c.dbNode, all) /\ Continues(c.dbNode, c.schemas, all)
      BY <2>2, <3>2, <3>3, <3>4, <3>5, ShownNone, ContinuesCopy
    <3>7. Catalog[Head(c.conns)] = all
      BY <3>2 DEF all
    <3>8. SchemasInOrder(c) /\ TablesInOrder(c) /\ Ended(c)
      BY <3>2, <3>3, <3>6, <3>7 DEF SchemasInOrder, TablesInOrder, InSchemas,
         InTables, Fetching, Ended
    <3>9. OrderAfter(c)
      BY <3>2, <3>8 DEF OrderAfter
    <3> QED BY <1>0, <1>2, <3>1, <3>9, OrderStep
  <2>5. CASE a.level = "tables"
    <3> DEFINE c == [a EXCEPT !.at = "table", !.tables = list]
               s == Catalog[conn][Len(a.dbNode) + 1]
    <3>1. load' = [load EXCEPT ![l] = c]
      BY <1>4, <2>5 DEF CopyList, list
    <3>2. c.at = "table" /\ c.tables = list /\ c.conns = a.conns
          /\ c.schemas = a.schemas
          /\ c.dbNode = a.dbNode /\ c.schemaNode = a.schemaNode
      BY <1>0 DEF Activation
    <3>3. InSchemas(a) /\ ~ InTables(a) /\ a.schemas # <<>>
      BY <1>0, <2>1, <2>5 DEF InSchemas, InTables, Fetching, Entered
    <3>4. a.schemaNode = <<>>
      BY <1>1, <3>3 DEF TablesInOrder
    <3>5. s \in SchemaNode /\ TablesOf(conn, Head(a.schemas)) = s.tables
      BY <1>0, <1>1, <2>1, <3>3, SchemaAt
    <3>6. IsPrefix(list, NamesOf(s.tables)) /\ s.tables \in Seq(TableNode)
      BY <2>3, <2>5, <3>5 DEF Rows, SchemaNode
    <3> HIDE DEF c, s
    <3>7. View!TablesShown(c.schemaNode, s.tables)
          /\ Continues(c.schemaNode, c.tables, s.tables)
      BY <2>2, <3>2, <3>4, <3>6, ShownNone, ContinuesCopy
    <3>8. Catalog[Head(c.conns)][Len(c.dbNode) + 1] = s
      BY <3>2 DEF s
    <3>9. TablesInOrder(c) /\ Ended(c)
      BY <3>2, <3>7, <3>8 DEF TablesInOrder, InTables, Ended
    <3>10. SchemasInOrder(c)
      BY <1>1, <3>2, <3>3 DEF SchemasInOrder, InSchemas, InTables
    <3>11. OrderAfter(c)
      BY <3>2, <3>9, <3>10 DEF OrderAfter
    <3> QED BY <1>0, <1>2, <3>1, <3>11, OrderStep
  <2>6. CASE a.level = "columns"
    <3> DEFINE node == [name |-> Head(a.tables), columns |-> list]
               c == [a EXCEPT !.at = "table", !.tables = Tail(a.tables),
                              !.schemaNode = Append(a.schemaNode, node)]
               all == Catalog[conn][Len(a.dbNode) + 1].tables
               k == Len(a.schemaNode) + 1
    <3>1. load' = [load EXCEPT ![l] = c]
      BY <1>4, <2>6 DEF CopyList, list
    <3>2. c.at = "table" /\ c.tables = Tail(a.tables) /\ c.conns = a.conns
          /\ c.schemas = a.schemas /\ c.dbNode = a.dbNode
          /\ c.schemaNode = Append(a.schemaNode, node)
      BY <1>0 DEF Activation
    <3>3. /\ InSchemas(a) /\ InTables(a)
          /\ a.schemas # <<>> /\ a.tables # <<>>
      BY <1>0, <2>1, <2>6 DEF InSchemas, InTables, Fetching, Entered
    <3>4. /\ a.tables \in Seq(Names) /\ a.schemaNode \in Seq(TableNode)
          /\ node \in TableNode
          /\ node.name = Head(a.tables) /\ node.columns = list
      BY <1>0, <2>2, <3>3, SMTT(30) DEF Activation, TableNode
    <3>5. /\ all \in Seq(TableNode) /\ k \in 1..Len(all)
          /\ Head(a.tables) = all[k].name
          /\ ColumnsOf(conn, Head(a.schemas), Head(a.tables)) = all[k].columns
      BY <1>0, <1>1, <2>1, <3>3, TableAt, ZenonT(40)
    <3>6. IsPrefix(list, all[k].columns)
      BY <2>3, <2>6, <3>5, ZenonT(40) DEF Rows
    <3>7. /\ View!TablesShown(a.schemaNode, all)
          /\ Continues(a.schemaNode, a.tables, all)
      BY <1>1, <3>3 DEF TablesInOrder
    <3> HIDE DEF c, node, all
    <3>8. View!TablesShown(c.schemaNode, all)
      BY <3>2, <3>4, <3>5, <3>6, <3>7, ShownTables
    <3>9. Continues(c.schemaNode, c.tables, all)
      BY <3>2, <3>3, <3>4, <3>5, <3>7, ContinuesNext
    <3>10. Catalog[Head(c.conns)][Len(c.dbNode) + 1].tables = all
      BY <3>2 DEF all
    <3>11. TablesInOrder(c) /\ Ended(c)
      BY <3>2, <3>8, <3>9, <3>10 DEF TablesInOrder, InTables, Ended
    <3>12. SchemasInOrder(c)
      BY <1>1, <3>2, <3>3 DEF SchemasInOrder, InSchemas, InTables
    <3>13. OrderAfter(c)
      BY <3>2, <3>11, <3>12 DEF OrderAfter
    <3> QED BY <1>0, <1>2, <3>1, <3>13, OrderStep
  <2> QED BY <2>1, <2>4, <2>5, <2>6
<1> QED BY <1>3, <1>4

(* The fetches keep it: an answer that ends early is the start of it.        *)
LEMMA OrderFetch ==
  ASSUME OneLoad, IInv, OrderInv, NEW l \in Loads,
         GetSchemasInfo(l) \/ GetTablesInfo(l) \/ GetColumnsInfo(l)
  PROVE  OrderInv'
<1> DEFINE a == load[l]
<1>0. a \in Activation /\ Entered(a) /\ TypeOK /\ LoopsEntered
  BY DEF IInv, TypeOK, LoopsEntered
<1>1. SchemasInOrder(a) /\ TablesInOrder(a) /\ ListInOrder(a)
  BY DEF OrderInv
<1>2. ASSUME NEW c, c.at \in Fetching, c.conns = a.conns,
             c.schemas = a.schemas, c.tables = a.tables,
             c.dbNode = a.dbNode, c.schemaNode = a.schemaNode,
             InSchemas(c) = InSchemas(a), InTables(c) = InTables(a)
      PROVE  SchemasInOrder(c) /\ TablesInOrder(c) /\ Ended(c)
  BY <1>1, <1>2 DEF SchemasInOrder, TablesInOrder, Ended, Fetching
<1>3. ASSUME NEW level \in Levels, Call(l, level),
             \/ level = "schemas" /\ a.at = "connection"
             \/ level = "tables" /\ a.at = "schema"
             \/ level = "columns" /\ a.at = "table",
             Head(a.conns) \in Connections
      PROVE  OrderInv'
  <2>1. Head(a.conns) \notin Rejected
    BY DEF OneLoad
  <2> DEFINE c == [a EXCEPT !.at = "open", !.level = level]
  <2>2. /\ load' = [load EXCEPT ![l] = c]
        /\ internal_list' = Cleared(level) /\ nodes' = nodes
    BY <1>0, <1>3, <2>1 DEF Call, TypeOK
  <2>3. /\ c.at = "open" /\ c.level = level
        /\ c.conns = a.conns /\ c.schemas = a.schemas
        /\ c.tables = a.tables /\ c.dbNode = a.dbNode
        /\ c.schemaNode = a.schemaNode
    BY <1>0 DEF Activation
  <2> HIDE DEF c
  <2>4. InSchemas(c) = InSchemas(a) /\ InTables(c) = InTables(a)
    BY <1>3, <2>3 DEF InSchemas, InTables, Fetching
  <2>5. internal_list'[c.level] = <<>>
    BY <1>0, <2>2, <2>3 DEF Cleared, TypeOK
  <2>6. SchemasInOrder(c) /\ TablesInOrder(c) /\ Ended(c)
    BY <1>2, <2>3, <2>4 DEF Fetching
  <2>7. OrderAfter(c)
    BY <2>3, <2>5, <2>6 DEF OrderAfter
  <2> QED BY <1>0, <2>2, <2>7, OrderStep
<1>4. ASSUME NEW level \in Levels, a.at = "open", a.level = level,
             Read(l, level)
      PROVE  OrderInv'
  <2> DEFINE rows == Rows(a)
  <2>1. PICK k \in 0..Len(rows), complete \in BOOLEAN :
          /\ internal_list' = Added(level, SubSeq(rows, 1, k))
          /\ load' = [load EXCEPT ![l].at = "copy",
                                  ![l].clean = @ /\ complete]
    BY <1>4 DEF Read
  <2> DEFINE c == [a EXCEPT !.at = "copy", !.clean = @ /\ complete]
  <2>2. load' = [load EXCEPT ![l] = c] /\ nodes' = nodes
    BY <1>0, <1>4, <2>1 DEF TypeOK, Read
  <2>3. /\ c.at = "copy" /\ c.level = a.level
        /\ c.conns = a.conns /\ c.schemas = a.schemas
        /\ c.tables = a.tables /\ c.dbNode = a.dbNode
        /\ c.schemaNode = a.schemaNode
    BY <1>0 DEF Activation
  <2>4. rows \in Seq(Names)
    BY <1>0, <1>4, RowsType
  <2> HIDE DEF c, rows
  <2>5. SubSeq(rows, 1, k) \in Seq(Names) /\ Len(SubSeq(rows, 1, k)) = k
    BY <2>4
  <2>6. internal_list'[level] = SubSeq(rows, 1, k)
    <3>1. internal_list[level] = <<>>
      BY <1>1, <1>4 DEF ListInOrder
    <3>2. internal_list'[level] = <<>> \o SubSeq(rows, 1, k)
      BY <1>0, <2>1, <3>1 DEF Added, TypeOK
    <3> QED BY <2>5, <3>2
  <2>7. SubSeq(SubSeq(rows, 1, k), 1, k) = SubSeq(rows, 1, k)
    BY <2>5, SubSeqFull
  <2>8. IsPrefix(SubSeq(rows, 1, k), rows)
    BY <2>5, <2>7 DEF IsPrefix
  <2>9. Rows(c) = rows
    BY <2>3 DEF Rows, rows
  <2>10. InSchemas(c) = InSchemas(a) /\ InTables(c) = InTables(a)
    BY <1>4, <2>3 DEF InSchemas, InTables, Fetching
  <2>11. SchemasInOrder(c) /\ TablesInOrder(c) /\ Ended(c)
    BY <1>2, <2>3, <2>10 DEF Fetching
  <2>12. OrderAfter(c)
    BY <1>4, <2>3, <2>6, <2>8, <2>9, <2>11 DEF OrderAfter
  <2> QED BY <1>0, <2>2, <2>12, OrderStep
<1>5. ASSUME OpenFails(l), a.at = "open"
      PROVE  OrderInv'
  <2> DEFINE c == [a EXCEPT !.at = "fetch_box", !.clean = FALSE]
  <2>1. /\ load' = [load EXCEPT ![l] = c]
        /\ internal_list' = internal_list /\ nodes' = nodes
    BY <1>0, <1>5 DEF OpenFails, TypeOK
  <2>2. /\ c.at = "fetch_box" /\ c.level = a.level
        /\ c.conns = a.conns /\ c.schemas = a.schemas
        /\ c.tables = a.tables /\ c.dbNode = a.dbNode
        /\ c.schemaNode = a.schemaNode
    BY <1>0 DEF Activation
  <2> HIDE DEF c
  <2>3. InSchemas(c) = InSchemas(a) /\ InTables(c) = InTables(a)
    BY <1>5, <2>2 DEF InSchemas, InTables, Fetching
  <2>4. SchemasInOrder(c) /\ TablesInOrder(c) /\ Ended(c)
    BY <1>2, <2>2, <2>3 DEF Fetching
  <2>5. OrderAfter(c)
    BY <1>1, <1>5, <2>1, <2>2, <2>4 DEF OrderAfter, ListInOrder
  <2> QED BY <1>0, <2>1, <2>5, OrderStep
<1>6. ASSUME DismissFetchBox(l)
      PROVE  OrderInv'
  <2> DEFINE c == [a EXCEPT !.at = "copy"]
  <2>1. /\ load' = [load EXCEPT ![l] = c] /\ a.at = "fetch_box"
        /\ internal_list' = internal_list /\ nodes' = nodes
    BY <1>0, <1>6 DEF DismissFetchBox, MoveTo, OnTop, Unchanged_but_load, TypeOK
  <2>2. /\ c.at = "copy" /\ c.level = a.level
        /\ c.conns = a.conns /\ c.schemas = a.schemas
        /\ c.tables = a.tables /\ c.dbNode = a.dbNode
        /\ c.schemaNode = a.schemaNode
    BY <1>0 DEF Activation
  <2> HIDE DEF c
  <2>3. InSchemas(c) = InSchemas(a) /\ InTables(c) = InTables(a)
    BY <2>1, <2>2 DEF InSchemas, InTables, Fetching
  <2>4. SchemasInOrder(c) /\ TablesInOrder(c) /\ Ended(c)
    BY <1>2, <2>2, <2>3 DEF Fetching
  <2>5. IsPrefix(internal_list'[c.level], Rows(c))
    <3>1. internal_list'[c.level] = <<>>
      BY <1>1, <2>1, <2>2 DEF ListInOrder
    <3>2. Len(<<>>) = 0 /\ SubSeq(<<>>, 1, 0) = <<>>
      OBVIOUS
    <3>3. Rows(c) \in Seq(Names)
      <4>1. a.conns # <<>> /\ a.conns \in Seq(Connections)
        BY <1>0, <2>1 DEF Entered, Activation, Fetching
      <4>2. Head(c.conns) \in Connections
        BY <2>2, <4>1
      <4>3. c.level \in {"schemas", "tables", "columns"}
        BY <1>0, <2>2 DEF Activation, Levels
      <4> QED BY <4>2, <4>3, CatalogTypes DEF Rows
    <3> QED BY <3>1, <3>2, <3>3 DEF IsPrefix
  <2>6. OrderAfter(c)
    BY <2>2, <2>4, <2>5 DEF OrderAfter
  <2> QED BY <1>0, <2>1, <2>6, OrderStep
<1>7. ASSUME NEW level \in Levels, Answer(l, level)
      PROVE  OrderInv'
  BY <1>4, <1>5, <1>6, <1>7 DEF Answer, Resumes
<1>8. a.conns # <<>> => Head(a.conns) \in Connections
  BY <1>0 DEF Activation
<1>9. CASE GetSchemasInfo(l)
  BY <1>3, <1>7, <1>8, <1>9 DEF GetSchemasInfo, OnTop, Levels
<1>10. CASE GetTablesInfo(l)
  BY <1>0, <1>3, <1>7, <1>8, <1>10 DEF GetTablesInfo, OnTop, Levels, Entered
<1>11. CASE GetColumnsInfo(l)
  BY <1>0, <1>3, <1>7, <1>8, <1>11 DEF GetColumnsInfo, OnTop, Levels, Entered
<1> QED BY <1>9, <1>10, <1>11

(* The view of the one activation, before and after a step.                  *)
LEMMA ViewIs ==
  ASSUME OneLoad, NEW l \in Loads
  PROVE  /\ load[TheLoad].conns = load[l].conns
         /\ (load[TheLoad].conns)' = load'[l].conns
<1>1. TheLoad = l
  BY DEF TheLoad, OneLoad
<1>2. (load[TheLoad].conns)' = load'[TheLoad].conns
  BY DEF TheLoad
<1> QED BY <1>1, <1>2

(* The starts and the ends of the handlers keep the order: they start the    *)
(* view over when it has shown all its connections, or leave it alone.       *)
LEMMA OrderHandlers ==
  ASSUME OneLoad, IInv, OrderInv, NEW l \in Loads,
         \/ AppForm_Load(l)
         \/ update_timer_Tick(l)
         \/ refresh_connections_Click(l)
         \/ refreshToolStripMenuItem_Click(l)
         \/ Finish(l)
  PROVE  OrderInv' /\ [View!Start]_(View!vars)
<1> DEFINE a == load[l]
<1>0. a \in Activation /\ TypeOK
  BY DEF IInv, TypeOK
<1>1. SchemasInOrder(a) /\ TablesInOrder(a) /\ Ended(a)
  BY DEF OrderInv
<1>2. ASSUME load'[l].conns \in Seq(Connections), a.conns = <<>>,
             nodes' = <<>> \/ (nodes' = nodes /\ load'[l].conns = <<>>)
      PROVE  [View!Start]_(View!vars)
  <2>1. /\ load[TheLoad].conns = <<>>
        /\ (load[TheLoad].conns)' = load'[l].conns
    BY <1>2, ViewIs
  <2> QED BY <1>2, <2>1 DEF View!Start, View!vars
<1>3. ASSUME NEW starter, NEW place \in {"idle", "connection", "details_box"},
             NEW list \in Seq(Connections), a.conns = <<>>,
             load' = [load EXCEPT ![l] = Fresh(starter, place, list)],
             \/ nodes' = <<>> /\ place = "connection"
             \/ nodes' = nodes /\ list = <<>>
      PROVE  OrderInv' /\ [View!Start]_(View!vars)
  <2> DEFINE c == Fresh(starter, place, list)
  <2>1. /\ c.at = place /\ c.conns = list
        /\ c.dbNode = <<>> /\ c.schemaNode = <<>>
    BY DEF Fresh
  <2>2. load' = [load EXCEPT ![l] = c] /\ load'[l] = c
    BY <1>0, <1>3 DEF TypeOK
  <2> HIDE DEF c
  <2>3. OrderAfter(c)
    BY <1>3, <2>1, OrderBetween DEF Ended
  <2>4. OrderInv'
    BY <1>0, <1>3, <2>2, <2>3, OrderStep
  <2>5. load'[l].conns = list
    BY <2>1, <2>2
  <2>6. [View!Start]_(View!vars)
    <3>1. load'[l].conns \in Seq(Connections)
      BY <1>3, <2>5
    <3>2. nodes' = <<>> \/ (nodes' = nodes /\ load'[l].conns = <<>>)
      BY <1>3, <2>5
    <3> QED BY <1>2, <1>3, <3>1, <3>2
  <2> QED BY <2>4, <2>6
<1>4. ASSUME NEW place \in {"details_box", "loaded_box"}, MoveTo(l, place),
             a.at = "connection", a.conns = <<>>, nodes' = nodes
      PROVE  OrderInv' /\ [View!Start]_(View!vars)
  <2> DEFINE c == [a EXCEPT !.at = place]
  <2>1. load' = [load EXCEPT ![l] = c] /\ load'[l] = c
    BY <1>0, <1>4 DEF MoveTo, TypeOK
  <2>2. /\ c.at = place /\ c.conns = <<>>
        /\ c.dbNode = a.dbNode /\ c.schemaNode = a.schemaNode
    BY <1>0, <1>4 DEF Activation
  <2>3. a.dbNode = <<>> /\ a.schemaNode = <<>>
    BY <1>1, <1>4 DEF SchemasInOrder, TablesInOrder, InSchemas, InTables,
       Fetching
  <2> HIDE DEF c
  <2>4. OrderAfter(c)
    BY <2>2, <2>3, OrderBetween DEF Ended
  <2>5. OrderInv'
    BY <1>0, <1>4, <2>1, <2>4, OrderStep
  <2>6. [View!Start]_(View!vars)
    <3>1. <<>> \in Seq(Connections)
      OBVIOUS
    <3> QED BY <1>2, <1>4, <2>1, <2>2, <3>1
  <2> QED BY <2>5, <2>6
<1>5. ASSUME Return(l), a.conns = <<>>, nodes' = nodes
      PROVE  OrderInv' /\ [View!Start]_(View!vars)
  <2>1. <<>> \in Seq(Connections)
    OBVIOUS
  <2> QED BY <1>3, <1>5, <2>1 DEF Return, Idle
<1>6. a.at \in {"idle", "details_box", "loaded_box"} => a.conns = <<>>
  BY <1>1 DEF Ended
<1>7. login_list \in Seq(Connections)
  BY <1>0 DEF TypeOK
<1>8. CASE AppForm_Load(l) \/ update_timer_Tick(l)
           \/ refreshToolStripMenuItem_Click(l)
  BY <1>3, <1>6, <1>7, <1>8 DEF AppForm_Load, update_timer_Tick,
     refreshToolStripMenuItem_Click, Begin
<1>9. CASE refresh_connections_Click(l)
  <2>1. login_list' \in Seq(Connections) /\ a.conns = <<>>
    BY <1>0, <1>6, <1>9, DetailsType DEF refresh_connections_Click
  <2>2. CASE NoConnectionsBox
    <3>1. <<>> \in Seq(Connections)
      OBVIOUS
    <3> QED BY <1>3, <1>9, <2>1, <2>2, <3>1 DEF refresh_connections_Click
  <2>3. CASE ~NoConnectionsBox
    BY <1>3, <1>9, <2>1, <2>3 DEF refresh_connections_Click, Begin
  <2> QED BY <2>2, <2>3
<1>10. CASE Finish(l)
  <2>1. CASE FinishRefresh(l) \/ FinishFormLoad(l) \/ ShowLoaded(l)
    BY <1>4, <1>5, <2>1 DEF FinishRefresh, FinishFormLoad, ShowLoaded,
       Populated, OnTop, Unchanged_but_load
  <2>2. CASE DismissLoaded(l)
    BY <1>5, <1>6, <2>2 DEF DismissLoaded, OnTop
  <2>3. CASE DismissDetails(l)
    BY <1>3, <1>5, <1>6, <1>7, <2>3 DEF DismissDetails, OnTop
  <2> QED BY <1>10, <2>1, <2>2, <2>3 DEF Finish
<1> QED BY <1>8, <1>9, <1>10

(* Every step keeps the order, and is a step of TreeView or none of it.      *)
LEMMA OrderNext ==
  ASSUME OneLoad, IInv, OrderInv, [Next]_vars
  PROVE  OrderInv' /\ [View!Next]_(View!vars)
<1>1. ASSUME NEW l \in Loads,
             \/ AppForm_Load(l)
             \/ update_timer_Tick(l)
             \/ refresh_connections_Click(l)
             \/ refreshToolStripMenuItem_Click(l)
             \/ Finish(l)
      PROVE  OrderInv' /\ [View!Next]_(View!vars)
  <2>1. OrderInv' /\ [View!Start]_(View!vars)
    BY <1>1, OrderHandlers
  <2> QED BY <2>1 DEF View!Next
<1>2. ASSUME NEW l \in Loads, AddConnection(l)
      PROVE  OrderInv' /\ [View!Next]_(View!vars)
  <2> DEFINE a == load[l]
  <2>1. OrderInv' /\ View!Shown(Last(nodes'), Head(a.conns))
    BY <1>2, OrderAdd
  <2>2. /\ nodes' = Append(nodes, [name |-> Head(a.conns), schemas |-> a.dbNode])
        /\ load'[l].conns = Tail(a.conns) /\ a.conns # <<>>
    BY <1>2 DEF AddConnection, OnTop, IInv, TypeOK, Activation, LoopsEntered,
       Entered
  <2>3. [name |-> Head(a.conns), schemas |-> a.dbNode] \in ConnectionNode
    BY <2>2 DEF IInv, TypeOK, Activation, ConnectionNode
  <2>4. /\ Len(nodes') = Len(nodes) + 1
        /\ View!Front(nodes') = nodes
        /\ View!Last(nodes') = Last(nodes')
    BY <2>2, <2>3 DEF View!Front, View!Last, Last, IInv, TypeOK
  <2>5. /\ load[TheLoad].conns = a.conns
        /\ (load[TheLoad].conns)' = load'[l].conns
    BY ViewIs
  <2>6. View!Show
    BY <2>1, <2>2, <2>4, <2>5 DEF View!Show
  <2> QED BY <2>1, <2>6 DEF View!Next
<1>3. ASSUME NEW l \in Loads, nodes' = nodes, load'[l].conns = load[l].conns
      PROVE  [View!Next]_(View!vars)
  BY <1>3, ViewIs DEF View!vars
<1>4. ASSUME NEW l \in Loads, AddSchema(l) \/ CopyList(l)
      PROVE  OrderInv' /\ [View!Next]_(View!vars)
  <2>1. nodes' = nodes /\ load'[l].conns = load[l].conns
    <3> DEFINE a == load[l]
    <3>1. a \in Activation /\ load \in [Loads -> Activation]
      BY DEF IInv, TypeOK
    <3>2. nodes' = nodes
      BY <1>4 DEF AddSchema, CopyList, Unchanged_but_load
    <3>3. CASE AddSchema(l)
      BY <3>1, <3>2, <3>3 DEF AddSchema, Activation
    <3>4. CASE CopyList(l) /\ a.level = "schemas"
      BY <3>1, <3>2, <3>4 DEF CopyList, Activation
    <3>5. CASE CopyList(l) /\ a.level = "tables"
      BY <3>1, <3>2, <3>5 DEF CopyList, Activation
    <3>6. CASE CopyList(l) /\ a.level = "columns"
      BY <3>1, <3>2, <3>6 DEF CopyList, Activation
    <3>7. a.level \in {"schemas", "tables", "columns"}
      BY <3>1 DEF Activation, Levels
    <3> QED BY <1>4, <3>3, <3>4, <3>5, <3>6, <3>7
  <2> QED BY <1>3, <1>4, <2>1, OrderLoop
<1>5. ASSUME NEW l \in Loads,
             GetSchemasInfo(l) \/ GetTablesInfo(l) \/ GetColumnsInfo(l)
      PROVE  OrderInv' /\ [View!Next]_(View!vars)
  <2>1. ASSUME NEW level, Call(l, level) \/ Answer(l, level)
        PROVE  nodes' = nodes /\ load'[l].conns = load[l].conns
    BY <2>1 DEF Call, Answer, Read, OpenFails, DismissFetchBox, MoveTo,
       Unchanged_but_load, IInv, TypeOK, Activation
  <2>2. nodes' = nodes /\ load'[l].conns = load[l].conns
    BY <1>5, <2>1 DEF GetSchemasInfo, GetTablesInfo, GetColumnsInfo
  <2> QED BY <1>3, <1>5, <2>2, OrderFetch
<1>6. CASE RefuseLogin \/ DismissRefusal \/ UNCHANGED vars
  <2>1. load' = load /\ internal_list' = internal_list /\ nodes' = nodes
    BY <1>6 DEF RefuseLogin, DismissRefusal, vars
  <2>2. /\ \A m \in Loads : OrderAfter(load'[m])
        /\ ShownAfter
    BY <2>1 DEF OrderInv, OrderAfter, ListInOrder, ShownAfter
  <2>3. OrderInv'
    BY <2>2, OrderAll
  <2>4. \E l \in Loads : TRUE
    BY DEF OneLoad
  <2> QED BY <1>3, <2>1, <2>3, <2>4
<1> QED BY <1>1, <1>2, <1>4, <1>5, <1>6 DEF Next, LoadNext, Progress,
     PopulateTreeViewFromDatabase

(* Before the form is shown the tree is empty and nothing is to be shown.    *)
LEMMA OrderInit ==
  ASSUME OneLoad, Init
  PROVE  OrderInv /\ View!Init
<1>1. \A l \in Loads :
        /\ load[l].at = "idle" /\ load[l].conns = <<>>
        /\ load[l].dbNode = <<>> /\ load[l].schemaNode = <<>>
  BY DEF Init, Idle, Fresh
<1>2. nodes = <<>> /\ ToSet(nodes) = {}
  BY DEF Init, ToSet
<1>3. OrderInv
  BY <1>1, <1>2 DEF OrderInv, SchemasInOrder, TablesInOrder, ListInOrder, Ended,
     InSchemas, InTables, Fetching
<1>4. \E l \in Loads : TRUE
  BY DEF OneLoad
<1>5. load[TheLoad].conns = <<>>
  BY <1>1, <1>4, ViewIs
<1> QED BY <1>2, <1>3, <1>5 DEF View!Init

(* A tree that is in the order of the answers has every row under its own    *)
(* parent.                                                                   *)
LEMMA ShownUnderParent ==
  ASSUME IInv, OrderInv
  PROVE  EachUnderItsParent
<1> SUFFICES ASSUME NEW n \in ToSet(nodes), NEW s \in ToSet(n.schemas)
             PROVE  /\ s.name \in ToSet(NamesOf(Catalog[n.name]))
                    /\ \A t \in ToSet(s.tables) :
                         /\ t.name \in ToSet(NamesOf(TablesOf(n.name, s.name)))
                         /\ ToSet(t.columns) \subseteq
                              ToSet(ColumnsOf(n.name, s.name, t.name))
  BY DEF EachUnderItsParent
<1>1. n \in ConnectionNode /\ View!SchemasShown(n.schemas, Catalog[n.name])
  BY DEF IInv, TypeOK, ToSet, OrderInv, View!Shown
<1> DEFINE all == Catalog[n.name]
<1>2. n.name \in Connections /\ n.schemas \in Seq(SchemaNode)
  BY <1>1 DEF ConnectionNode
<1>3. all \in Seq(SchemaNode)
  BY <1>2, TreeAssumption
<1>4. PICK i \in 1..Len(n.schemas) : n.schemas[i] = s
  BY <1>2 DEF ToSet
<1>5. /\ i \in 1..Len(all) /\ s.name = all[i].name
      /\ View!TablesShown(s.tables, all[i].tables)
  BY <1>1, <1>2, <1>3, <1>4 DEF View!SchemasShown, View!Matches, View!SchemaShown
<1>6. all[i] \in ToSet(all) /\ all[i] \in SchemaNode /\ s \in SchemaNode
  BY <1>2, <1>3, <1>4, <1>5 DEF ToSet
<1>7. s.name \in ToSet(NamesOf(all))
  BY <1>5, <1>6, NamesIn
<1>8. TablesOf(n.name, s.name) = all[i].tables
      /\ \A y \in ToSet(all[i].tables) :
           ColumnsOf(n.name, s.name, y.name) = y.columns
  BY <1>2, <1>5, <1>6, ServerAnswers
<1>9. all[i].tables \in Seq(TableNode) /\ s.tables \in Seq(TableNode)
  BY <1>6 DEF SchemaNode
<1> DEFINE tables == all[i].tables
<1> HIDE DEF all
<1>10. ASSUME NEW t \in ToSet(s.tables)
       PROVE  /\ t.name \in ToSet(NamesOf(tables))
              /\ ToSet(t.columns) \subseteq ToSet(ColumnsOf(n.name, s.name, t.name))
  <2>1. PICK j \in 1..Len(s.tables) : s.tables[j] = t
    BY <1>9 DEF ToSet
  <2>2. /\ j \in 1..Len(tables) /\ t.name = tables[j].name
        /\ IsPrefix(t.columns, tables[j].columns)
    BY <1>5, <1>9, <2>1 DEF View!TablesShown, View!Matches, View!TableShown,
       View!IsPrefix, IsPrefix
  <2>3. tables[j] \in ToSet(tables) /\ tables[j] \in TableNode
        /\ t \in TableNode
    BY <1>9, <2>1, <2>2 DEF ToSet
  <2>4. t.name \in ToSet(NamesOf(tables))
    BY <2>2, <2>3, NamesIn
  <2>5. ColumnsOf(n.name, s.name, t.name) = tables[j].columns
    BY <1>8, <2>2, <2>3
  <2>6. t.columns \in Seq(Names) /\ tables[j].columns \in Seq(Names)
    BY <2>3 DEF TableNode
  <2>7. ToSet(t.columns) \subseteq ToSet(tables[j].columns)
    BY <2>2, <2>6, PrefixIn
  <2> QED BY <2>4, <2>5, <2>7
<1> QED BY <1>7, <1>8, <1>10 DEF all

(* With one load at a time the tree is shown as TreeView promises, whatever  *)
(* fetches fail.                                                             *)
THEOREM LoadsImplementView ==
  ASSUME OneLoad
  PROVE  Spec => ImplementsTreeView
<1>1. Init => IInv /\ OrderInv /\ View!Init
  BY InitInv, OrderInit
<1>2. IInv /\ OrderInv /\ [Next]_vars =>
        (IInv /\ OrderInv)' /\ [View!Next]_(View!vars)
  BY NextInv, OrderNext
<1> QED BY <1>1, <1>2, PTL DEF Spec, ImplementsTreeView, View!Spec

(* With one load at a time no row hangs under a parent of another.           *)
THEOREM UnderItsParent ==
  ASSUME OneLoad
  PROVE  Spec => []EachUnderItsParent
<1>1. Init => IInv /\ OrderInv
  BY InitInv, OrderInit
<1>2. IInv /\ OrderInv /\ [Next]_vars => (IInv /\ OrderInv)'
  BY NextInv, OrderNext
<1>3. IInv /\ OrderInv => EachUnderItsParent
  BY ShownUnderParent
<1> QED BY <1>1, <1>2, <1>3, PTL DEF Spec

-----------------------------------------------------------------------------
(* "Loaded all connections!" is true. *)

(* ListedInv for the one activation there is.                                *)
Listed(a) ==
  /\ timer \/ a.at # "idle" => shown
  /\ a.at = "details_box" => NoConnectionsBox
  /\ shown /\ InConfig =>
       login_list = login_config \/ (a.by = "form_load" /\ a.at # "idle")
  /\ a.by = "timer" /\ login_config # NoFile =>
       ToSet(login_config) \subseteq ToSet(NamesOf(nodes)) \cup ToSet(a.conns)

(* With one activation the two are the same, before a step and after it.     *)
LEMMA ListedOne ==
  ASSUME OneLoad, NEW l \in Loads
  PROVE  /\ ListedInv <=> Listed(load[l])
         /\ ListedInv' <=> Listed(load[l])'
<1>1. \A m \in Loads : m = l
  BY DEF OneLoad
<1> QED BY <1>1 DEF ListedInv, Listed, NoConnectionsBox, InConfig, NamesOf, ToSet

(* While a tick's load loops on, what it takes off its list it hangs up.     *)
LEMMA ListedLoop ==
  ASSUME OneLoad, IInv, ListedInv, NEW l \in Loads, AddConnection(l)
  PROVE  ListedInv'
<1> DEFINE a == load[l]
           node == [name |-> Head(a.conns), schemas |-> a.dbNode]
<1>0. a \in Activation /\ Listed(a)
  BY ListedOne DEF IInv, TypeOK
<1>1. /\ nodes' = Append(nodes, node) /\ a.at = "schema" /\ a.conns # <<>>
      /\ load'[l].conns = Tail(a.conns) /\ load'[l].by = a.by
      /\ load'[l].at = "connection"
      /\ login_config' = login_config /\ login_list' = login_list
      /\ shown' = shown /\ timer' = timer
  BY <1>0 DEF AddConnection, OnTop, IInv, TypeOK, LoopsEntered, Entered,
     Activation
<1>2. node \in ConnectionNode /\ nodes \in Seq(ConnectionNode)
      /\ a.conns \in Seq(Connections)
  BY <1>0, <1>1 DEF Activation, ConnectionNode, IInv, TypeOK
<1>3. node.name = Head(a.conns)
  OBVIOUS
<1> HIDE DEF node
<1>4. ToSet(NamesOf(nodes')) = ToSet(NamesOf(nodes)) \cup {Head(a.conns)}
  <2>1. /\ DOMAIN nodes' = 1..(Len(nodes) + 1) /\ DOMAIN nodes = 1..Len(nodes)
        /\ \A i \in 1..Len(nodes) : nodes'[i] = nodes[i]
        /\ nodes'[Len(nodes) + 1] = node /\ Len(nodes) \in Nat
    BY <1>1, <1>2
  <2>2. /\ \A x : x \in ToSet(NamesOf(nodes')) <=>
                   \E i \in 1..(Len(nodes) + 1) : x = nodes'[i].name
        /\ \A x : x \in ToSet(NamesOf(nodes)) <=>
                   \E i \in 1..Len(nodes) : x = nodes[i].name
    BY <2>1 DEF ToSet, NamesOf
  <2> HIDE DEF ToSet, NamesOf
  <2>3. \A x : x \in ToSet(NamesOf(nodes')) <=>
               x \in ToSet(NamesOf(nodes)) \/ x = Head(a.conns)
    <3> TAKE x
    <3>1. ASSUME NEW i \in 1..(Len(nodes) + 1), x = nodes'[i].name
          PROVE  x \in ToSet(NamesOf(nodes)) \/ x = Head(a.conns)
      BY <1>3, <2>1, <2>2, <3>1
    <3>2. ASSUME NEW i \in 1..Len(nodes), x = nodes[i].name
          PROVE  x \in ToSet(NamesOf(nodes'))
      BY <2>1, <2>2, <3>2
    <3>3. Len(nodes) + 1 \in 1..(Len(nodes) + 1)
      BY <2>1
    <3>4. Head(a.conns) \in ToSet(NamesOf(nodes'))
      BY <1>3, <2>1, <2>2, <3>3
    <3> QED BY <2>2, <3>1, <3>2, <3>4
  <2> QED BY <2>3
<1>5. \A c \in ToSet(a.conns) : c = Head(a.conns) \/ c \in ToSet(Tail(a.conns))
  BY <1>2, HeadOrTail
<1>6. Listed(load[l])'
  BY <1>0, <1>1, <1>4, <1>5 DEF Listed, InConfig, NoConnectionsBox
<1> QED BY <1>6, ListedOne

(* A step that neither hangs up a connection nor ends the load.              *)
LEMMA ListedSame ==
  ASSUME OneLoad, ListedInv, NEW l \in Loads,
         load'[l].by = load[l].by, load'[l].conns = load[l].conns,
         load[l].at # "idle", load'[l].at # "idle",
         load'[l].at = "details_box" => NoConnectionsBox,
         UNCHANGED <<login_config, login_list, shown, timer, nodes>>
  PROVE  ListedInv'
<1>1. Listed(load[l])
  BY ListedOne
<1>2. /\ login_config' = login_config /\ login_list' = login_list
      /\ shown' = shown /\ timer' = timer /\ nodes' = nodes
  OBVIOUS
<1>3. /\ ToSet(login_config)' = ToSet(login_config)
      /\ ToSet(NamesOf(nodes))' = ToSet(NamesOf(nodes))
      /\ ToSet(load[l].conns)' = ToSet(load[l].conns)
  BY <1>2
<1>4. Listed(load[l])'
  BY <1>1, <1>2, <1>3 DEF Listed, InConfig, NoConnectionsBox
<1> QED BY <1>4, ListedOne

(* The starts of a load: only a tick's has to show all of the file, and it   *)
(* starts from what the file holds.                                          *)
LEMMA ListedStarts ==
  ASSUME OneLoad, IInv, ListedInv, NEW l \in Loads,
         \/ AppForm_Load(l)
         \/ update_timer_Tick(l)
         \/ refresh_connections_Click(l)
         \/ refreshToolStripMenuItem_Click(l)
  PROVE  ListedInv'
<1> DEFINE a == load[l]
<1>0. Listed(a) /\ a.at = "idle" /\ login_config' = login_config
  BY ListedOne DEF AppForm_Load, update_timer_Tick, refresh_connections_Click,
     refreshToolStripMenuItem_Click
<1>1. ASSUME NEW starter, NEW place, NEW list,
             load' = [load EXCEPT ![l] = Fresh(starter, place, list)]
      PROVE  /\ load'[l].by = starter /\ load'[l].at = place
             /\ load'[l].conns = list
  BY <1>1 DEF IInv, TypeOK, Fresh
<1>2. CASE AppForm_Load(l)
  <2>1. load'[l].by = "form_load" /\ load'[l].at = "connection" /\ shown'
    BY <1>1, <1>2 DEF AppForm_Load, Begin
  <2>2. Listed(load[l])'
    BY <2>1 DEF Listed
  <2> QED BY <2>2, ListedOne
<1>3. CASE update_timer_Tick(l)
  <2>1. /\ load'[l].by = "timer" /\ load'[l].at = "connection"
        /\ load'[l].conns = login_list
        /\ timer /\ timer' = timer /\ shown' = shown
        /\ login_list' = login_list
    BY <1>1, <1>3 DEF update_timer_Tick, Begin
  <2>2. shown /\ (InConfig => login_list = login_config)
    BY <1>0, <2>1 DEF Listed
  <2>3. login_config = <<>> => ToSet(login_config) = {}
    BY DEF ToSet
  <2>4. login_config # NoFile => ToSet(login_config) \subseteq ToSet(login_list)
    BY <2>2, <2>3 DEF InConfig
  <2>5. ToSet(login_config') = ToSet(login_config)
        /\ ToSet(load'[l].conns) = ToSet(login_list)
    BY <1>0, <2>1
  <2>6. Listed(load[l])'
    BY <1>0, <2>1, <2>2, <2>4, <2>5 DEF Listed, InConfig, NoConnectionsBox
  <2> QED BY <2>6, ListedOne
<1>4. CASE refresh_connections_Click(l)
  <2>1. /\ shown /\ shown' = shown
        /\ InConfig => login_list' = login_config
    BY <1>4 DEF refresh_connections_Click, LoadConnectionDetails, InConfig
  <2>2. /\ load'[l].by = "refresh_button"
        /\ load'[l].at = "details_box" => NoConnectionsBox
    BY <1>1, <1>4 DEF refresh_connections_Click, Begin
  <2>3. Listed(load[l])'
    BY <1>0, <2>1, <2>2 DEF Listed, InConfig, NoConnectionsBox
  <2> QED BY <2>3, ListedOne
<1>5. CASE refreshToolStripMenuItem_Click(l)
  <2>1. /\ load'[l].by = "refresh_menu" /\ load'[l].at = "connection"
        /\ shown /\ shown' = shown /\ login_list' = login_list
    BY <1>1, <1>5 DEF refreshToolStripMenuItem_Click, Begin
  <2>2. Listed(load[l])'
    BY <1>0, <2>1 DEF Listed, InConfig, NoConnectionsBox
  <2> QED BY <2>2, ListedOne
<1> QED BY <1>2, <1>3, <1>4, <1>5

(* The ends of a load: that of the form load has read the file.              *)
LEMMA ListedEnds ==
  ASSUME OneLoad, IInv, ListedInv, NEW l \in Loads, Finish(l)
  PROVE  ListedInv'
<1> DEFINE a == load[l]
<1>0. /\ Listed(a) /\ login_config' = login_config
      /\ a.at # "idle" /\ shown' = shown /\ a \in Activation
  BY ListedOne DEF Finish, FinishRefresh, FinishFormLoad, ShowLoaded,
     DismissLoaded, DismissDetails, Populated, OnTop, Unchanged_but_load,
     IInv, TypeOK
<1>1. shown
  BY <1>0 DEF Listed
<1>2. ASSUME Return(l), InConfig => login_list' = login_config
      PROVE  ListedInv'
  <2>1. load'[l].at = "idle" /\ load'[l].by = "form_load"
    BY <1>2 DEF Return, Idle, Fresh, IInv, TypeOK
  <2>2. Listed(load[l])'
    BY <1>0, <1>1, <1>2, <2>1 DEF Listed, InConfig
  <2> QED BY <2>2, ListedOne
<1>3. ASSUME NEW place, MoveTo(l, place)
      PROVE  /\ load'[l].by = a.by /\ load'[l].conns = a.conns
             /\ load'[l].at = place
  BY <1>0, <1>3 DEF MoveTo, IInv, TypeOK, Activation
<1>4. a.by # "form_load" => (InConfig => login_list = login_config)
  BY <1>0, <1>1 DEF Listed
<1>5. CASE FinishRefresh(l)
  BY <1>2, <1>4, <1>5 DEF FinishRefresh
<1>6. CASE FinishFormLoad(l)
  <2>1. /\ InConfig => login_list' = login_config
        /\ a.by = "form_load"
    BY <1>6 DEF FinishFormLoad, LoadConnectionDetails, InConfig
  <2>2. CASE NoConnectionsBox
    <3>1. /\ load'[l].by = "form_load" /\ load'[l].at = "details_box"
      BY <1>3, <1>6, <2>1, <2>2 DEF FinishFormLoad
    <3>2. Listed(load[l])'
      BY <1>0, <1>1, <2>2, <3>1 DEF Listed, NoConnectionsBox
    <3> QED BY <3>2, ListedOne
  <2>3. CASE ~NoConnectionsBox
    BY <1>2, <1>6, <2>1, <2>3 DEF FinishFormLoad
  <2> QED BY <2>2, <2>3
<1>7. CASE ShowLoaded(l)
  BY <1>0, <1>3, <1>7, ListedSame DEF ShowLoaded, Unchanged_but_load
<1>8. CASE DismissLoaded(l)
  <2>1. a.by = "timer"
    BY <1>8 DEF DismissLoaded, OnTop, IInv, LoopsEntered, Entered
  <2> QED BY <1>2, <1>4, <1>8, <2>1 DEF DismissLoaded
<1>9. CASE DismissDetails(l)
  <2>1. ~ InConfig /\ login_list' = login_list
    BY <1>0, <1>9 DEF DismissDetails, OnTop, Listed, NoConnectionsBox, InConfig
  <2>2. CASE a.by = "refresh_button"
    <3>1. load'[l].by = "refresh_button" /\ load'[l].at = "connection"
      BY <1>9, <2>2 DEF DismissDetails, Fresh, IInv, TypeOK
    <3>2. Listed(load[l])'
      BY <1>0, <1>1, <2>1, <3>1 DEF Listed, InConfig
    <3> QED BY <3>2, ListedOne
  <2>3. CASE a.by # "refresh_button"
    BY <1>2, <1>9, <2>1, <2>3 DEF DismissDetails
  <2> QED BY <2>2, <2>3
<1> QED BY <1>5, <1>6, <1>7, <1>8, <1>9 DEF Finish

(* Every step of the loads keeps what "Loaded all connections!" rests on.    *)
LEMMA ListedNext ==
  ASSUME OneLoad, IInv, ListedInv, [LoadNext]_vars
  PROVE  ListedInv'
<1>1. ASSUME NEW l \in Loads,
             \/ AppForm_Load(l)
             \/ update_timer_Tick(l)
             \/ refresh_connections_Click(l)
             \/ refreshToolStripMenuItem_Click(l)
      PROVE  ListedInv'
  BY <1>1, ListedStarts
<1>2. ASSUME NEW l \in Loads, AddSchema(l) \/ CopyList(l)
      PROVE  ListedInv'
  <2> DEFINE a == load[l]
  <2>1. /\ a \in Activation /\ load \in [Loads -> Activation]
        /\ a.level \in {"schemas", "tables", "columns"}
    BY DEF IInv, TypeOK, Activation, Levels
  <2>2. a.at # "idle"
        /\ UNCHANGED <<login_config, login_list, shown, timer, nodes>>
    BY <1>2 DEF AddSchema, CopyList, OnTop, Unchanged_but_load
  <2>3. /\ load'[l].by = a.by /\ load'[l].conns = a.conns
        /\ load'[l].at \in {"schema", "table"}
    <3>1. CASE AddSchema(l)
      BY <2>1, <3>1 DEF AddSchema, Activation
    <3>2. CASE CopyList(l) /\ a.level = "schemas"
      BY <2>1, <3>2 DEF CopyList, Activation
    <3>3. CASE CopyList(l) /\ a.level = "tables"
      BY <2>1, <3>3 DEF CopyList, Activation
    <3>4. CASE CopyList(l) /\ a.level = "columns"
      BY <2>1, <3>4 DEF CopyList, Activation
    <3> QED BY <1>2, <2>1, <3>1, <3>2, <3>3, <3>4
  <2> QED BY <2>2, <2>3, ListedSame
<1>3. ASSUME NEW l \in Loads,
             GetSchemasInfo(l) \/ GetTablesInfo(l) \/ GetColumnsInfo(l)
      PROVE  ListedInv'
  <2> DEFINE a == load[l]
  <2>1. ASSUME NEW level, Call(l, level) \/ Answer(l, level)
        PROVE  /\ load'[l].by = a.by /\ load'[l].conns = a.conns
               /\ load'[l].at \in Fetching
               /\ UNCHANGED <<login_config, login_list, shown, timer, nodes>>
    BY <2>1 DEF Call, Answer, Read, OpenFails, DismissFetchBox, MoveTo,
       Unchanged_but_load, IInv, TypeOK, Activation, Fetching
  <2>2. a.at # "idle"
    BY <1>3 DEF GetSchemasInfo, GetTablesInfo, GetColumnsInfo, Answer,
       Resumes, DismissFetchBox, OnTop
  <2>3. /\ load'[l].by = a.by /\ load'[l].conns = a.conns
        /\ load'[l].at \in Fetching
        /\ UNCHANGED <<login_config, login_list, shown, timer, nodes>>
    BY <1>3, <2>1 DEF GetSchemasInfo, GetTablesInfo, GetColumnsInfo
  <2> QED BY <2>2, <2>3, ListedSame DEF Fetching
<1>4. ASSUME NEW l \in Loads, AddConnection(l) \/ Finish(l)
      PROVE  ListedInv'
  BY <1>4, ListedLoop, ListedEnds
<1>5. CASE UNCHANGED vars
  <2>1. /\ login_config' = login_config /\ login_list' = login_list
        /\ shown' = shown /\ timer' = timer /\ nodes' = nodes /\ load' = load
    BY <1>5 DEF vars
  <2> QED BY <2>1 DEF ListedInv, InConfig, NoConnectionsBox, NamesOf, ToSet
<1> QED BY <1>1, <1>2, <1>3, <1>4, <1>5 DEF LoadNext, Progress,
     PopulateTreeViewFromDatabase

(* Before the form is shown no tick has started a load.                      *)
LEMMA ListedInit == Init => ListedInv
<1> SUFFICES ASSUME Init PROVE ListedInv
  OBVIOUS
<1>1. \A l \in Loads : load[l].at = "idle" /\ load[l].by = "form_load"
  BY DEF Init, Idle, Fresh
<1> QED BY <1>1 DEF Init, ListedInv

(* While the loads have the window to themselves, and one at a time, the box *)
(* that says "Loaded all connections!" is true (AppForm.update_timer_Tick).  *)
THEOREM LoadedAll ==
  ASSUME OneLoad
  PROVE  LoadSpec => []LoadedMeansAll
<1>1. Init => IInv /\ OrderInv /\ ListedInv
  BY InitInv, OrderInit, ListedInit
<1>2. IInv /\ OrderInv /\ ListedInv /\ [LoadNext]_vars =>
        (IInv /\ OrderInv /\ ListedInv)'
  <2>1. [LoadNext]_vars => [Next]_vars
    BY DEF Next
  <2> QED BY <2>1, NextInv, OrderNext, ListedNext
<1>3. IInv /\ OrderInv /\ ListedInv => LoadedMeansAll
  <2> SUFFICES ASSUME IInv, OrderInv, ListedInv, NEW l \in Loads,
                      load[l].at = "loaded_box", login_config # NoFile
               PROVE  ToSet(login_config) \subseteq ToSet(NamesOf(nodes))
    BY DEF LoadedMeansAll
  <2>1. load[l].conns = <<>>
    BY DEF OrderInv, Ended
  <2>2. load[l].by = "timer"
    BY DEF IInv, LoopsEntered, Entered
  <2>3. ToSet(load[l].conns) = {}
    BY <2>1 DEF ToSet
  <2>4. ToSet(login_config) \subseteq
          ToSet(NamesOf(nodes)) \cup ToSet(load[l].conns)
    BY <2>2 DEF ListedInv
  <2> QED BY <2>3, <2>4
<1> QED BY <1>1, <1>2, <1>3, PTL DEF LoadSpec

=============================================================================
