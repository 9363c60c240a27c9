----------------------------- MODULE QueryEditor -----------------------------
(***************************************************************************)
(* The query tabs of AppForm and the selection of a node in the tree, which *)
(* writes a query into one of them.                                         *)
(*                                                                          *)
(* Globals.box_list holds the text boxes of the tabs; the code finds the    *)
(* box of a tab by the tab's index, in a list that is static and outlives   *)
(* the form.  Selecting a column asks the server for columns first: the     *)
(* handler awaits the answer while tabs are closed and nodes selected, and  *)
(* then writes into the box it took before.  All code runs on the UI        *)
(* thread; a message box or dialog takes the user's input away and goes on  *)
(* delivering answers.                                                      *)
(*                                                                          *)
(* Left out: the titles of tabs, the messages log, a refresh of the tree    *)
(* and the end of the form while a selection waits (see README.md).         *)
(***************************************************************************)
EXTENDS Naturals, Sequences, FiniteSets, SequencesExt

CONSTANTS
  Boxes,      \* the RichTextBoxes that may be created
  Names,      \* nicknames, schemas, tables and columns
  Nodes,      \* the nodes of the tree, each with the names above it
  Typed,      \* what the user types, and the content of query files
  Selects,    \* activations of AfterSelect
  Import,     \* the activation of ImportQuery
  NoBox, NoName, Blank

Node == [connection : Names, schema : Names \cup {NoName},
         table : Names \cup {NoName}, column : Names \cup {NoName}]

NoNode == [connection |-> NoName, schema |-> NoName, table |-> NoName,
           column |-> NoName]

(* Only tables and columns have a query; SetQuery leaves before.            *)
Schema_HasQuery(node) == node.schema # NoName

HasQuery(node) == node.table # NoName

(* SELECT [column] FROM [schema].[table], without the connection.           *)
Query(node) ==
  [schema |-> node.schema, table |-> node.table, column |-> node.column]

Text ==
  Typed \cup {Blank} \cup {Query(n) : n \in {n \in Nodes : n.table # NoName}}

ASSUME EditorAssumption ==
  /\ Nodes \subseteq Node
  /\ \A n \in Nodes : n.column # NoName => n.table # NoName
  /\ Blank \notin Typed
  /\ NoName \notin Names
  /\ NoBox \notin Boxes
  /\ Import \notin Selects

Jobs == Selects \cup {Import}
Job == [at : {"idle", "awaiting", "dialog", "box"}, box : Boxes \cup {NoBox},
        node : Nodes \cup {NoNode}]
Idle == [at |-> "idle", box |-> NoBox, node |-> NoNode]

VARIABLES
  open,              \* whether AppForm is open
  tabs,              \* query_tab_control.TabPages, by the boxes they show
  selected,          \* query_tab_control.SelectedIndex, 0 for none
  box_list,          \* Globals.box_list
  text,              \* the text of every box
  custom_sql_query,  \* Globals.custom_sql_query, what Run Query runs
  SelectedNode,      \* connections_tree_view.SelectedNode
  globals,           \* Globals' credentials, schema, table and column
  job,               \* the activations that wait, and what they hold
  stack              \* the message boxes and dialogs, the last on top

tabVars == <<open, tabs, selected, box_list>>
vars == <<tabVars, text, custom_sql_query, SelectedNode, globals, job, stack>>

Init ==
  /\ open = FALSE
  /\ tabs = <<>>
  /\ selected = 0
  /\ box_list = <<>>
  /\ text = [b \in Boxes |-> Blank]
  /\ custom_sql_query = Blank
  /\ SelectedNode = NoNode
  /\ globals = NoNode
  /\ job = [j \in Jobs |-> Idle]
  /\ stack = <<>>

Input == open /\ stack = <<>>
-----------------------------------------------------------------------------
(* The tabs                                                                 *)

(* GetActiveQueryTextBox, for lists as they are after the step.             *)
BoxAt(list, index) ==
  IF index \in DOMAIN list THEN list[index] ELSE NoBox

Active == BoxAt(box_list, selected)

(* SelectedIndexChanged and TextChanged: the query is that of the active    *)
(* box, if there is one.                                                    *)
Shown(list, index, texts) ==
  IF BoxAt(list, index) = NoBox THEN custom_sql_query
  ELSE texts[BoxAt(list, index)]

InUse == ToSet(tabs) \cup ToSet(box_list) \cup {job[j].box : j \in Jobs}

Once_Added(box) == IF box_list = <<>> THEN <<box>> ELSE box_list

Added(box) == Append(box_list, box)

NewBox == CHOOSE box \in Boxes : box \notin InUse

(* AddNewTab; the first tab of a control may be selected without an event.  *)
AddNewTab ==
  /\ Boxes \ InUse # {}
  /\ tabs' = Append(tabs, NewBox)
  /\ selected' = Len(tabs) + 1
  /\ box_list' = Added(NewBox)
  /\ text' = [text EXCEPT ![NewBox] = Blank]
  /\ \/ custom_sql_query' = Shown(box_list', selected', text')
     \/ (tabs = <<>> /\ UNCHANGED custom_sql_query)
  /\ UNCHANGED <<globals, job, stack>>

AppForm_Load ==
  /\ ~open
  /\ open' = TRUE
  /\ AddNewTab
  /\ UNCHANGED SelectedNode

new_query_button_Click ==
  /\ Input
  /\ AddNewTab
  /\ UNCHANGED <<open, SelectedNode>>

(* The form is not closed while a selection waits for its answer, nor when  *)
(* Boxes has none left for its next opening.                                *)
AppForm_FormClosed ==
  /\ Input
  /\ \A j \in Jobs : job[j] = Idle
  /\ Boxes \ InUse # {}
  /\ open' = FALSE
  /\ tabs' = <<>>
  /\ selected' = 0
  /\ SelectedNode' = NoNode
  /\ UNCHANGED <<box_list, text, custom_sql_query, globals, job, stack>>

SelectTab(i) ==
  /\ Input
  /\ i \in DOMAIN tabs \ {selected}
  /\ selected' = i
  /\ custom_sql_query' = Shown(box_list, i, text)
  /\ UNCHANGED <<open, tabs, box_list, text, SelectedNode, globals, job, stack>>

(* TabPages without the page at i: the control selects its first page when  *)
(* it loses the selected one, and says so.                                  *)
WithoutPage(i) ==
  /\ tabs' = RemoveAt(tabs, i)
  /\ selected' = IF selected # i THEN selected - (IF i < selected THEN 1 ELSE 0)
                 ELSE IF tabs' = <<>> THEN 0 ELSE 1
  /\ custom_sql_query' = IF selected # i \/ tabs' = <<>> THEN custom_sql_query
                         ELSE Shown(box_list', 1, text)
  /\ UNCHANGED <<open, text, SelectedNode, globals, job, stack>>

First_Unlisted(i) == IF box_list = <<>> THEN <<>> ELSE Tail(box_list)

Unlisted(i) ==
  IF i \in DOMAIN box_list THEN RemoveAt(box_list, i) ELSE box_list

(* The cross on a tab.  Pressing the mouse there selects the tab first.     *)
query_tab_control_MouseDown ==
  /\ Input
  /\ selected # 0
  /\ box_list' = Unlisted(selected)
  /\ WithoutPage(selected)

(* `using' disposes of the painted page, which leaves the control by that.  *)
query_tab_control_DrawItem(i) ==
  /\ open
  /\ i \in DOMAIN tabs
  /\ UNCHANGED box_list
  /\ WithoutPage(i)

-----------------------------------------------------------------------------
(* The texts                                                                *)

(* A box whose tab is gone may have lost its window, and raises no event.   *)
Own_SetText(box, content) ==
  /\ text' = [text EXCEPT ![box] = content]
  /\ custom_sql_query' = content

SetText(box, content) ==
  /\ text' = [text EXCEPT ![box] = content]
  /\ \/ custom_sql_query' = Shown(box_list, selected, text')
     \/ (box \notin ToSet(tabs) /\ UNCHANGED custom_sql_query)

TypeText(content) ==
  /\ Input
  /\ selected # 0
  /\ SetText(tabs[selected], content)
  /\ UNCHANGED <<tabVars, SelectedNode, globals, job, stack>>

toolStripButton1_Click ==
  /\ Input
  /\ Active # NoBox
  /\ job' = [job EXCEPT ![Import] = [Idle EXCEPT !.at = "dialog", !.box = Active]]
  /\ stack' = <<Import>>
  /\ UNCHANGED <<tabVars, text, custom_sql_query, SelectedNode, globals>>

OnTop(j) == stack # <<>> /\ stack[Len(stack)] = j

(* A file is picked: it is read, or it is not, and a message box says so.   *)
ImportQuery ==
  /\ OnTop(Import) /\ job[Import].at = "dialog"
  /\ job' = [job EXCEPT ![Import].at = "box"]
  /\ \/ \E content \in Typed : SetText(job[Import].box, content)
     \/ UNCHANGED <<text, custom_sql_query>>
  /\ UNCHANGED <<tabVars, SelectedNode, globals, stack>>

(* Cancel, or OK in the message box.                                        *)
EndImport ==
  /\ OnTop(Import)
  /\ job' = [job EXCEPT ![Import] = Idle]
  /\ stack' = Front(stack)
  /\ UNCHANGED <<tabVars, text, custom_sql_query, SelectedNode, globals>>

-----------------------------------------------------------------------------
(* The selection                                                            *)

(* The rest of SetQuery, after the columns have come or failed to.          *)
SetQuery(box, node) ==
  IF HasQuery(node) THEN SetText(box, Query(node))
  ELSE UNCHANGED text /\ custom_sql_query' = Blank

(* What SetQuery makes of the globals.                                      *)
Named(node) ==
  [connection |-> globals.connection,
   schema |-> IF node.schema # NoName THEN node.schema ELSE globals.schema,
   table |-> IF node.table # NoName THEN node.table ELSE globals.table,
   column |-> IF node.column # NoName THEN node.column ELSE globals.column]

(* SelectItemsFromSelectedTable, for the node that is selected by then.     *)
Skip_SelectItems(set, node) == set

SelectItems(set, node) == IF node = NoNode THEN set ELSE node

(* An unset connection string does not get as far as the await.             *)
Awaits(node) == node.column # NoName /\ globals.connection # NoName

(* The user selects a node, with at most as many waiting as Selects has.    *)
AfterSelect(node) ==
  /\ Input
  /\ node # SelectedNode
  /\ SelectedNode' = node
  /\ IF Active = NoBox
     THEN UNCHANGED <<text, custom_sql_query, globals, job>>
     ELSE IF Awaits(node)
     THEN /\ \E j \in Selects :
               /\ job[j] = Idle
               /\ job' = [job EXCEPT ![j] =
                            [at |-> "awaiting", box |-> Active, node |-> node]]
          /\ custom_sql_query' = Blank
          /\ UNCHANGED <<text, globals>>
     ELSE /\ SetQuery(Active, node)
          /\ globals' = SelectItems(Named(node), node)
          /\ UNCHANGED job
  /\ UNCHANGED <<tabVars, stack>>

(* current_query_textbox                                                    *)
Live_BoxOf(j) == IF Active = NoBox THEN job[j].box ELSE Active

BoxOf(j) == job[j].box

Resume(j) ==
  /\ SetQuery(BoxOf(j), job[j].node)
  /\ globals' = SelectItems(Named(job[j].node), SelectedNode)
  /\ job' = [job EXCEPT ![j] = Idle]

(* GetColumnsInfo after the await, whether or not it reads columns.         *)
Answer(j) ==
  /\ job[j].at = "awaiting"
  /\ Resume(j)
  /\ UNCHANGED <<tabVars, SelectedNode, stack>>

(* OpenAsync fails and a message box says why.                              *)
OpenFails(j) ==
  /\ job[j].at = "awaiting"
  /\ job' = [job EXCEPT ![j].at = "box"]
  /\ stack' = Append(stack, j)
  /\ UNCHANGED <<tabVars, text, custom_sql_query, SelectedNode, globals>>

Retry_DismissBox(j) ==
  /\ OnTop(j) /\ job[j].at = "box"
  /\ job' = [job EXCEPT ![j].at = "awaiting"]
  /\ stack' = Front(stack)
  /\ UNCHANGED <<tabVars, text, custom_sql_query, SelectedNode, globals>>

DismissBox(j) ==
  /\ OnTop(j) /\ job[j].at = "box"
  /\ Resume(j)
  /\ stack' = Front(stack)
  /\ UNCHANGED <<tabVars, SelectedNode>>

-----------------------------------------------------------------------------
Next ==
  \/ AppForm_Load
  \/ new_query_button_Click
  \/ AppForm_FormClosed
  \/ \E i \in DOMAIN tabs : SelectTab(i)
  \/ query_tab_control_MouseDown
  \/ \E i \in DOMAIN tabs : query_tab_control_DrawItem(i)
  \/ \E content \in Typed : TypeText(content)
  \/ toolStripButton1_Click
  \/ ImportQuery
  \/ EndImport
  \/ \E node \in Nodes : AfterSelect(node)
  \/ \E j \in Selects : Answer(j)
  \/ \E j \in Selects : OpenFails(j)
  \/ \E j \in Selects : DismissBox(j)

Spec == Init /\ [][Next]_vars

(* A server answers or refuses, and the user closes what asks for it.       *)
Fairness ==
  /\ WF_vars(EndImport)
  /\ \A j \in Selects :
       WF_vars(Answer(j) \/ OpenFails(j)) /\ WF_vars(DismissBox(j))

FairSpec == Spec /\ Fairness

-----------------------------------------------------------------------------
(* Properties                                                               *)

(* The variables have their types, and a tab is selected as long as there   *)
(* is one.                                                                  *)
TypeOK ==
  /\ open \in BOOLEAN
  /\ tabs \in Seq(Boxes)
  /\ selected \in DOMAIN tabs \/ (selected = 0 /\ tabs = <<>>)
  /\ box_list \in Seq(Boxes)
  /\ text \in [Boxes -> Text]
  /\ custom_sql_query \in Text
  /\ SelectedNode \in Nodes \cup {NoNode}
  /\ globals \in Nodes \cup {NoNode}
  /\ job \in [Jobs -> Job]
  /\ \A j \in Jobs : job[j].at = "idle" \/ job[j].box \in Boxes
  /\ \A j \in Selects : job[j].at = "idle" \/ job[j].node \in Nodes
  /\ stack \in Seq(Jobs)

(* A selection that waits is of a node with a query, and began with a       *)
(* selected node; the tree still has one when it ends.                      *)
WaitingHasSelection ==
  \A j \in Selects :
    job[j].at # "idle" => HasQuery(job[j].node) /\ SelectedNode # NoNode

(* Every tab's index addresses a box (HelperFunctions.cs:372,               *)
(* AppForm.cs:323), also after pages were disposed of and the form was      *)
(* opened again: box_list may have too many boxes, but never too few.       *)
EveryTabHasABox == Len(tabs) <= Len(box_list)

IInv == TypeOK /\ WaitingHasSelection /\ EveryTabHasABox

(* The text boxes of the list are those of the tabs, in their order.        *)
Paired == tabs = box_list

(* Only the painting of a tab and the closing of the form part the tabs     *)
(* from box_list: opening, switching and closing tabs in any order, with    *)
(* selections and imports under way, does not.                              *)
KeepsPaired ==
  [][Paired => \/ Paired'
               \/ AppForm_FormClosed
               \/ \E i \in DOMAIN tabs : query_tab_control_DrawItem(i)]_vars

InStep ==
  Paired /\ selected # 0 /\ custom_sql_query = text[tabs[selected]]

(* While the tabs are paired, Run Query runs the text on the screen         *)
(* (AppForm.cs:46, 215), also when an answer comes for another tab.  Only a *)
(* selection without a query, or that still waits for its columns, the      *)
(* closing of the last tab, and what parts the tabs from box_list bring     *)
(* them apart.                                                              *)
RunsWhatIsShown ==
  [][InStep => \/ InStep'
               \/ ~Paired' \/ selected' = 0
               \/ \E n \in Nodes :
                    AfterSelect(n) /\ (~HasQuery(n) \/ Awaits(n))]_vars

(* Whatever is selected while columns are asked for, and in whatever order  *)
(* the answers come: credentials, schema, table and column change together, *)
(* and to those of the node selected then (HelperFunctions.cs:135-137,      *)
(* DataRequest.cs:876-881).                                                 *)
GlobalsFollowSelection == [][globals' # globals => globals' = SelectedNode']_vars

(* The end of a selection changes the text of no tab but the one that was   *)
(* active when the node was selected (AppForm.cs:106-109).                  *)
LateTextInItsTab ==
  [][\A j \in Selects, b \in Boxes :
       job[j].at # "idle" /\ job'[j] = Idle /\ text'[b] # text[b] =>
         b = job[j].box]_vars

(* A selection ends, whatever is selected, closed, imported or refused.     *)
SelectionsEnd == \A j \in Selects : job[j].at # "idle" ~> job[j].at = "idle"
=============================================================================
