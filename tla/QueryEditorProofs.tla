-------------------------- MODULE QueryEditorProofs --------------------------
(* For any tree, any number of text boxes and of selections under way: the  *)
(* types, a box for every tab, the tabs paired with their boxes, and        *)
(* globals that describe the selected node.                                 *)
EXTENDS QueryEditor, SequenceLemmas

-----------------------------------------------------------------------------
(* Boxes and texts. *)

(* The root is no node.                                                      *)
LEMMA RootIsNoNode == NoNode \notin Nodes
<1> SUFFICES ASSUME NoNode \in Node PROVE FALSE
  BY EditorAssumption
<1> QED BY EditorAssumption DEF Node, NoNode

(* A list addresses one of the boxes, or none.                               *)
LEMMA BoxAtType ==
  ASSUME NEW list \in Seq(Boxes), NEW index
  PROVE  BoxAt(list, index) \in Boxes \cup {NoBox}
BY DEF BoxAt

(* What becomes the query when the active box is asked for its text.         *)
LEMMA ShownType ==
  ASSUME custom_sql_query \in Text, NEW list \in Seq(Boxes), NEW index,
         NEW texts \in [Boxes -> Text]
  PROVE  Shown(list, index, texts) \in Text
<1>1. BoxAt(list, index) \in Boxes \cup {NoBox}
  BY BoxAtType
<1> QED BY <1>1 DEF Shown

(* The text of a new tab, and of a cleared query, is one of the texts.       *)
LEMMA BlankIsText == Blank \in Text
BY DEF Text

(* A changed text box.                                                       *)
LEMMA SetTextType ==
  ASSUME TypeOK, NEW box \in Boxes, NEW content \in Text, SetText(box, content)
  PROVE  text' \in [Boxes -> Text] /\ custom_sql_query' \in Text
<1>1. text' \in [Boxes -> Text]
  BY DEF SetText, TypeOK
<1>2. Shown(box_list, selected, text') \in Text
  BY <1>1, ShownType DEF TypeOK
<1> QED BY <1>1, <1>2 DEF SetText, TypeOK

(* The query of a node.                                                      *)
LEMMA SetQueryType ==
  ASSUME TypeOK, NEW box \in Boxes, NEW node \in Nodes, SetQuery(box, node)
  PROVE  text' \in [Boxes -> Text] /\ custom_sql_query' \in Text
<1>1. CASE HasQuery(node)
  <2>1. Query(node) \in Text
    BY <1>1 DEF HasQuery, Text
  <2>2. SetText(box, Query(node))
    BY <1>1 DEF SetQuery
  <2> QED BY <2>1, <2>2, SetTextType
<1>2. CASE ~HasQuery(node)
  BY <1>2, BlankIsText DEF SetQuery, TypeOK
<1> QED BY <1>1, <1>2

(* The windows under the top one.                                            *)
LEMMA FrontType ==
  ASSUME TypeOK, stack # <<>>
  PROVE  Front(stack) \in Seq(Jobs)
<1>1. stack \in Seq(Jobs) /\ Len(stack) \in Nat /\ Len(stack) >= 1
  BY DEF TypeOK
<1> DEFINE n == Len(stack) - 1
<1>2. n \in Int /\ \A i \in 1..n : stack[i] \in Jobs
  BY <1>1
<1> HIDE DEF n
<1>3. SubSeq(stack, 1, n) \in Seq(Jobs)
  BY <1>2, SubSeqProperties
<1> QED BY <1>3 DEF n, Front

(* A selection that goes on, with its box and node still there, makes the    *)
(* globals those of the selected node.                                       *)
LEMMA ResumeTypes ==
  ASSUME IInv, NEW j \in Selects, job[j].at # "idle", Resume(j)
  PROVE  /\ text' \in [Boxes -> Text] /\ custom_sql_query' \in Text
         /\ globals' = SelectedNode /\ SelectedNode \in Nodes
         /\ job' = [job EXCEPT ![j] = Idle]
         /\ \A k \in Selects : job'[k] = IF k = j THEN Idle ELSE job[k]
<1>1. job[j].box \in Boxes /\ job[j].node \in Nodes /\ j \in Jobs
  BY DEF IInv, TypeOK, Jobs
<1>2. text' \in [Boxes -> Text] /\ custom_sql_query' \in Text
  BY <1>1, SetQueryType DEF Resume, BoxOf, IInv
<1>3. SelectedNode # NoNode /\ SelectedNode \in Nodes
  BY DEF IInv, WaitingHasSelection, TypeOK
<1>4. job' = [job EXCEPT ![j] = Idle]
  BY DEF Resume
<1>5. \A k \in Selects : job'[k] = IF k = j THEN Idle ELSE job[k]
  BY <1>4 DEF IInv, TypeOK, Jobs
<1> QED BY <1>2, <1>3, <1>4, <1>5 DEF Resume, SelectItems

(* The job of an idle activation, and what an activation becomes.            *)
LEMMA JobType ==
  ASSUME TypeOK, NEW j \in Jobs, NEW value \in Job,
         value.at = "idle" \/ value.box \in Boxes,
         j \in Selects => value.at = "idle" \/ value.node \in Nodes,
         job' = [job EXCEPT ![j] = value]
  PROVE  /\ job' \in [Jobs -> Job]
         /\ \A k \in Jobs : job'[k].at = "idle" \/ job'[k].box \in Boxes
         /\ \A k \in Selects : job'[k].at = "idle" \/ job'[k].node \in Nodes
<1>1. \A k \in Jobs : job'[k] = IF k = j THEN value ELSE job[k]
  BY DEF TypeOK
<1>2. Selects \subseteq Jobs
  BY DEF Jobs
<1> QED BY <1>1, <1>2 DEF TypeOK

(* An activation that has ended.                                             *)
LEMMA IdleType == Idle \in Job /\ Idle.at = "idle"
BY DEF Idle, Job

-----------------------------------------------------------------------------
(* Types. *)

(* A new tab is the last one, and it is selected.                            *)
LEMMA AddNewTabTypes ==
  ASSUME TypeOK, AddNewTab
  PROVE  /\ tabs' \in Seq(Boxes) /\ selected' \in DOMAIN tabs'
         /\ box_list' \in Seq(Boxes)
         /\ text' \in [Boxes -> Text] /\ custom_sql_query' \in Text
         /\ Len(tabs') = Len(tabs) + 1 /\ Len(box_list') = Len(box_list) + 1
<1>1. PICK box \in Boxes : box = NewBox
  BY DEF AddNewTab, NewBox
<1>2. tabs \in Seq(Boxes) /\ box_list \in Seq(Boxes)
  BY DEF TypeOK
<1>3. tabs' = Append(tabs, box) /\ box_list' = Append(box_list, box)
  BY <1>1 DEF AddNewTab, Added
<1>4. /\ tabs' \in Seq(Boxes) /\ box_list' \in Seq(Boxes)
      /\ Len(tabs') = Len(tabs) + 1 /\ Len(box_list') = Len(box_list) + 1
  BY <1>2, <1>3
<1>5. selected' \in DOMAIN tabs'
  BY <1>2, <1>4 DEF AddNewTab
<1>6. text' = [text EXCEPT ![box] = Blank]
  BY <1>1 DEF AddNewTab
<1>7. text' \in [Boxes -> Text]
  BY <1>6, BlankIsText DEF TypeOK
<1>8. Shown(box_list', selected', text') \in Text
  BY <1>4, <1>7, ShownType DEF TypeOK
<1>9. custom_sql_query' \in Text
  BY <1>8 DEF AddNewTab, TypeOK
<1> QED BY <1>4, <1>5, <1>7, <1>9

(* A page that leaves the control, by its cross or by being painted.         *)
LEMMA WithoutPageTypes ==
  ASSUME TypeOK, NEW i \in DOMAIN tabs, WithoutPage(i),
         box_list' \in Seq(Boxes)
  PROVE  /\ tabs' \in Seq(Boxes)
         /\ selected' \in DOMAIN tabs' \/ (selected' = 0 /\ tabs' = <<>>)
         /\ custom_sql_query' \in Text
         /\ Len(tabs') = Len(tabs) - 1
<1>1. tabs \in Seq(Boxes) /\ i \in 1..Len(tabs) /\ selected \in 1..Len(tabs)
  BY DEF TypeOK
<1>2. tabs' \in Seq(Boxes) /\ Len(tabs') = Len(tabs) - 1
  BY <1>1, RemoveAtProperties DEF WithoutPage
<1>3. selected' \in DOMAIN tabs' \/ (selected' = 0 /\ tabs' = <<>>)
  <2>1. CASE selected # i
    <3>1. selected' = selected - (IF i < selected THEN 1 ELSE 0)
      BY <2>1 DEF WithoutPage
    <3>2. selected' \in 1..(Len(tabs) - 1)
      BY <1>1, <2>1, <3>1
    <3> QED BY <1>2, <3>2
  <2>2. CASE selected = i /\ tabs' = <<>>
    BY <2>2 DEF WithoutPage
  <2>3. CASE selected = i /\ tabs' # <<>>
    <3>1. selected' = 1
      BY <2>3 DEF WithoutPage
    <3>2. Len(tabs') >= 1
      BY <1>2, <2>3
    <3> QED BY <1>2, <3>1, <3>2
  <2> QED BY <2>1, <2>2, <2>3
<1>4. Shown(box_list', 1, text) \in Text
  BY ShownType DEF TypeOK
<1>5. custom_sql_query' \in Text
  BY <1>4 DEF WithoutPage, TypeOK
<1> QED BY <1>2, <1>3, <1>5

(* The box that leaves the list with its tab.                                *)
LEMMA UnlistedType ==
  ASSUME NEW i \in Nat, box_list \in Seq(Boxes)
  PROVE  /\ Unlisted(i) \in Seq(Boxes)
         /\ i \in DOMAIN box_list => Len(Unlisted(i)) = Len(box_list) - 1
<1>1. CASE i \in DOMAIN box_list
  <2>1. i \in 1..Len(box_list)
    BY <1>1
  <2> QED BY <1>1, <2>1, RemoveAtProperties DEF Unlisted
<1>2. CASE i \notin DOMAIN box_list
  BY <1>2 DEF Unlisted
<1> QED BY <1>1, <1>2

(* Opening, switching, closing and painting tabs.                            *)
LEMMA TabStepsKeep ==
  ASSUME IInv,
         \/ AppForm_Load
         \/ new_query_button_Click
         \/ AppForm_FormClosed
         \/ \E i \in DOMAIN tabs : SelectTab(i)
         \/ query_tab_control_MouseDown
         \/ \E i \in DOMAIN tabs : query_tab_control_DrawItem(i)
  PROVE  IInv'
<1> USE DEF IInv
<1>0. Len(tabs) \in Nat /\ Len(box_list) \in Nat
  BY DEF TypeOK
<1>1. CASE AppForm_Load
  BY <1>0, <1>1, AddNewTabTypes
     DEF AppForm_Load, AddNewTab, TypeOK, WaitingHasSelection, EveryTabHasABox
<1>2. CASE new_query_button_Click
  BY <1>0, <1>2, AddNewTabTypes
     DEF new_query_button_Click, AddNewTab, TypeOK, WaitingHasSelection,
         EveryTabHasABox
<1>3. CASE AppForm_FormClosed
  <2>1. /\ open' = FALSE /\ tabs' = <<>> /\ selected' = 0
        /\ SelectedNode' = NoNode
        /\ UNCHANGED <<box_list, text, custom_sql_query, globals, job, stack>>
    BY <1>3 DEF AppForm_FormClosed
  <2>3. <<>> \in Seq(Boxes) /\ Len(tabs') = 0
    BY <2>1
  <2>4. TypeOK'
    BY <2>1, <2>3 DEF TypeOK
  <2>5. EveryTabHasABox'
    BY <1>0, <2>1, <2>3 DEF EveryTabHasABox
  <2>2. WaitingHasSelection'
    BY <1>3 DEF AppForm_FormClosed, WaitingHasSelection, Idle, Jobs
  <2> QED BY <2>2, <2>4, <2>5
<1>4. ASSUME NEW i \in DOMAIN tabs, SelectTab(i) PROVE IInv'
  <2>1. Shown(box_list, i, text) \in Text
    BY ShownType DEF TypeOK
  <2> QED
    BY <1>4, <2>1 DEF SelectTab, TypeOK, WaitingHasSelection, EveryTabHasABox
<1>5. CASE query_tab_control_MouseDown
  <2>1. selected \in DOMAIN tabs /\ selected \in 1..Len(tabs)
    BY <1>5 DEF query_tab_control_MouseDown, TypeOK
  <2>2. /\ box_list' \in Seq(Boxes) /\ Len(box_list') = Len(box_list) - 1
    <3>1. box_list' = Unlisted(selected)
      BY <1>5 DEF query_tab_control_MouseDown
    <3>2. selected \in Nat /\ selected \in DOMAIN box_list
      BY <1>0, <2>1 DEF EveryTabHasABox, TypeOK
    <3> QED BY <3>1, <3>2, UnlistedType DEF TypeOK
  <2>3. WithoutPage(selected)
    BY <1>5 DEF query_tab_control_MouseDown
  <2>4. PICK i \in DOMAIN tabs : i = selected
    BY <2>1
  <2>5. /\ tabs' \in Seq(Boxes)
        /\ selected' \in DOMAIN tabs' \/ (selected' = 0 /\ tabs' = <<>>)
        /\ custom_sql_query' \in Text
        /\ Len(tabs') = Len(tabs) - 1
    BY <2>2, <2>3, <2>4, WithoutPageTypes
  <2>6. UNCHANGED <<open, text, SelectedNode, globals, job, stack>>
    BY <2>3 DEF WithoutPage
  <2> QED
    BY <1>0, <2>2, <2>5, <2>6 DEF TypeOK, WaitingHasSelection, EveryTabHasABox
<1>6. ASSUME NEW i \in DOMAIN tabs, query_tab_control_DrawItem(i) PROVE IInv'
  <2>1. box_list' = box_list /\ WithoutPage(i)
    BY <1>6 DEF query_tab_control_DrawItem
  <2>2. /\ tabs' \in Seq(Boxes)
        /\ selected' \in DOMAIN tabs' \/ (selected' = 0 /\ tabs' = <<>>)
        /\ custom_sql_query' \in Text
        /\ Len(tabs') = Len(tabs) - 1
    BY <2>1, WithoutPageTypes DEF TypeOK
  <2>3. UNCHANGED <<open, text, SelectedNode, globals, job, stack>>
    BY <2>1 DEF WithoutPage
  <2> QED
    BY <1>0, <2>1, <2>2, <2>3 DEF TypeOK, WaitingHasSelection, EveryTabHasABox
<1> QED BY <1>1, <1>2, <1>3, <1>4, <1>5, <1>6

(* Typing and importing.                                                     *)
LEMMA TextStepsKeep ==
  ASSUME IInv,
         \/ \E content \in Typed : TypeText(content)
         \/ toolStripButton1_Click
         \/ ImportQuery
         \/ EndImport
  PROVE  IInv'
<1> USE DEF IInv
<1>0. Import \in Jobs /\ Import \notin Selects /\ Typed \subseteq Text
  BY EditorAssumption DEF Jobs, Text
<1>1. ASSUME NEW content \in Typed, TypeText(content) PROVE IInv'
  <2>1. PICK box \in Boxes : box = tabs[selected]
    BY <1>1 DEF TypeText, TypeOK
  <2>2. SetText(box, content)
    BY <1>1, <2>1 DEF TypeText
  <2>3. text' \in [Boxes -> Text] /\ custom_sql_query' \in Text
    BY <1>0, <2>2, SetTextType
  <2> QED
    BY <1>1, <2>3
       DEF TypeText, tabVars, TypeOK, WaitingHasSelection, EveryTabHasABox
<1>2. CASE toolStripButton1_Click
  <2>1. PICK box \in Boxes : box = Active
    <3>1. Active \in Boxes \cup {NoBox}
      BY BoxAtType DEF Active, TypeOK
    <3> QED BY <1>2, <3>1 DEF toolStripButton1_Click
  <2> DEFINE value == [Idle EXCEPT !.at = "dialog", !.box = box]
  <2>2. value \in Job /\ value.box \in Boxes
    BY DEF Idle, Job
  <2>3. job' = [job EXCEPT ![Import] = value]
    BY <1>2, <2>1 DEF toolStripButton1_Click
  <2> HIDE DEF value
  <2>4. /\ job' \in [Jobs -> Job]
        /\ \A k \in Jobs : job'[k].at = "idle" \/ job'[k].box \in Boxes
        /\ \A k \in Selects : job'[k].at = "idle" \/ job'[k].node \in Nodes
    BY <1>0, <2>2, <2>3, JobType
  <2>5. \A k \in Selects : job'[k] = job[k]
    BY <1>0, <2>3 DEF TypeOK, Jobs
  <2>6. stack' \in Seq(Jobs)
    BY <1>0, <1>2 DEF toolStripButton1_Click
  <2> QED
    BY <1>2, <2>4, <2>5, <2>6
       DEF toolStripButton1_Click, tabVars, TypeOK, WaitingHasSelection,
           EveryTabHasABox
<1>3. CASE ImportQuery
  <2>1. PICK box \in Boxes : box = job[Import].box
    BY <1>0, <1>3 DEF ImportQuery, TypeOK
  <2>2. text' \in [Boxes -> Text] /\ custom_sql_query' \in Text
    <3>1. ASSUME NEW content \in Typed, SetText(job[Import].box, content)
          PROVE  text' \in [Boxes -> Text] /\ custom_sql_query' \in Text
      BY <1>0, <2>1, <3>1, SetTextType
    <3> QED BY <1>3, <3>1 DEF ImportQuery, TypeOK
  <2> DEFINE value == [job[Import] EXCEPT !.at = "box"]
  <2>3. value \in Job /\ value.box \in Boxes
    BY <1>0, <2>1 DEF Job, TypeOK
  <2>4. job' = [job EXCEPT ![Import] = value]
    BY <1>3 DEF ImportQuery
  <2> HIDE DEF value
  <2>5. /\ job' \in [Jobs -> Job]
        /\ \A k \in Jobs : job'[k].at = "idle" \/ job'[k].box \in Boxes
        /\ \A k \in Selects : job'[k].at = "idle" \/ job'[k].node \in Nodes
    BY <1>0, <2>3, <2>4, JobType
  <2>6. \A k \in Selects : job'[k] = job[k]
    BY <1>0, <2>4 DEF TypeOK, Jobs
  <2> QED
    BY <1>3, <2>2, <2>5, <2>6
       DEF ImportQuery, tabVars, TypeOK, WaitingHasSelection, EveryTabHasABox
<1>4. CASE EndImport
  <2>1. /\ job' \in [Jobs -> Job]
        /\ \A k \in Jobs : job'[k].at = "idle" \/ job'[k].box \in Boxes
        /\ \A k \in Selects : job'[k].at = "idle" \/ job'[k].node \in Nodes
    BY <1>0, <1>4, IdleType, JobType DEF EndImport
  <2>2. \A k \in Selects : job'[k] = job[k]
    BY <1>0, <1>4 DEF EndImport, TypeOK, Jobs
  <2>3. stack' \in Seq(Jobs)
    BY <1>4, FrontType DEF EndImport, OnTop
  <2> QED
    BY <1>4, <2>1, <2>2, <2>3
       DEF EndImport, tabVars, TypeOK, WaitingHasSelection, EveryTabHasABox
<1> QED BY <1>1, <1>2, <1>3, <1>4

(* What the selection of a node does at once.                                *)
LEMMA AfterSelectTypes ==
  ASSUME IInv, NEW node \in Nodes, AfterSelect(node)
  PROVE  /\ text' \in [Boxes -> Text] /\ custom_sql_query' \in Text
         /\ globals' = globals \/ globals' = node
         /\ job' \in [Jobs -> Job]
         /\ \A k \in Jobs : job'[k].at = "idle" \/ job'[k].box \in Boxes
         /\ \A k \in Selects : job'[k].at = "idle" \/ job'[k].node \in Nodes
         /\ \A k \in Selects : job'[k].at = "idle" \/ HasQuery(job'[k].node)
<1> USE DEF IInv
<1>0. \A k \in Selects : job[k].at = "idle" \/ HasQuery(job[k].node)
  BY DEF WaitingHasSelection
<1>1. CASE Active = NoBox
  BY <1>0, <1>1 DEF AfterSelect, TypeOK
<1>2. CASE Active # NoBox
  <2>1. PICK box \in Boxes : box = Active
    <3>1. Active \in Boxes \cup {NoBox}
      BY BoxAtType DEF Active, TypeOK
    <3> QED BY <1>2, <3>1
  <2>2. CASE Awaits(node)
    <3>1. PICK j \in Selects :
            job' = [job EXCEPT ![j] =
                      [at |-> "awaiting", box |-> box, node |-> node]]
      BY <1>2, <2>1, <2>2 DEF AfterSelect
    <3> DEFINE value == [at |-> "awaiting", box |-> box, node |-> node]
    <3>2. value \in Job /\ value.box \in Boxes /\ value.node \in Nodes
      BY DEF Job
    <3>3. job' = [job EXCEPT ![j] = value] /\ j \in Jobs
      BY <3>1 DEF Jobs
    <3> HIDE DEF value
    <3>4. /\ job' \in [Jobs -> Job]
          /\ \A k \in Jobs : job'[k].at = "idle" \/ job'[k].box \in Boxes
          /\ \A k \in Selects : job'[k].at = "idle" \/ job'[k].node \in Nodes
      BY <3>2, <3>3, JobType
    <3>5. custom_sql_query' = Blank /\ UNCHANGED <<text, globals>>
      BY <1>2, <2>2 DEF AfterSelect
    <3>6. HasQuery(node)
      BY <2>2, EditorAssumption DEF Awaits, HasQuery
    <3>7. value.node = node
      BY DEF value
    <3>8. \A k \in Selects : job'[k].at = "idle" \/ HasQuery(job'[k].node)
      <4>1. \A k \in Jobs : job'[k] = IF k = j THEN value ELSE job[k]
        BY <3>3 DEF TypeOK
      <4> QED BY <1>0, <3>6, <3>7, <4>1 DEF Jobs
    <3> QED BY <3>4, <3>5, <3>8, BlankIsText DEF TypeOK
  <2>3. CASE ~Awaits(node)
    <3>1. SetQuery(box, node) /\ globals' = SelectItems(Named(node), node)
          /\ UNCHANGED job
      BY <1>2, <2>1, <2>3 DEF AfterSelect
    <3>2. globals' = node
      BY <3>1, RootIsNoNode DEF SelectItems
    <3> QED BY <1>0, <3>1, <3>2, SetQueryType DEF TypeOK
  <2> QED BY <2>2, <2>3
<1> QED BY <1>1, <1>2

(* Selections that begin, are refused and end.                               *)
LEMMA SelectionStepsKeep ==
  ASSUME IInv,
         \/ \E node \in Nodes : AfterSelect(node)
         \/ \E j \in Selects : Answer(j)
         \/ \E j \in Selects : OpenFails(j)
         \/ \E j \in Selects : DismissBox(j)
  PROVE  IInv'
<1> USE DEF IInv
<1>1. ASSUME NEW node \in Nodes, AfterSelect(node) PROVE IInv'
  <2>1. SelectedNode' = node /\ UNCHANGED <<tabVars, stack>>
    BY <1>1 DEF AfterSelect
  <2>2. node # NoNode
    BY RootIsNoNode
  <2> QED
    BY <1>1, <2>1, <2>2, AfterSelectTypes
       DEF tabVars, TypeOK, WaitingHasSelection, EveryTabHasABox
<1>2. ASSUME NEW j \in Selects, job[j].at # "idle", Resume(j),
             UNCHANGED <<tabVars, SelectedNode>>, stack' \in Seq(Jobs)
      PROVE  IInv'
  <2>1. /\ text' \in [Boxes -> Text] /\ custom_sql_query' \in Text
        /\ globals' \in Nodes
        /\ job' = [job EXCEPT ![j] = Idle]
    BY <1>2, ResumeTypes
  <2>2. /\ job' \in [Jobs -> Job]
        /\ \A k \in Jobs : job'[k].at = "idle" \/ job'[k].box \in Boxes
        /\ \A k \in Selects : job'[k].at = "idle" \/ job'[k].node \in Nodes
    BY <2>1, IdleType, JobType DEF Jobs
  <2>3. WaitingHasSelection'
    <3>1. SelectedNode' # NoNode
      BY <1>2 DEF WaitingHasSelection
    <3> QED BY <1>2, <3>1, IdleType, ResumeTypes DEF WaitingHasSelection
  <2> QED
    BY <1>2, <2>1, <2>2, <2>3
       DEF tabVars, TypeOK, WaitingHasSelection, EveryTabHasABox
<1>3. ASSUME NEW j \in Selects, Answer(j) PROVE IInv'
  BY <1>2, <1>3 DEF Answer, TypeOK
<1>4. ASSUME NEW j \in Selects, OpenFails(j) PROVE IInv'
  <2>1. j \in Jobs
    BY DEF Jobs
  <2> DEFINE value == [job[j] EXCEPT !.at = "box"]
  <2>2. value \in Job /\ value.box \in Boxes /\ value.node \in Nodes
    BY <1>4, <2>1 DEF OpenFails, TypeOK, Job
  <2>3. job' = [job EXCEPT ![j] = value]
    BY <1>4 DEF OpenFails
  <2> HIDE DEF value
  <2>4. /\ job' \in [Jobs -> Job]
        /\ \A k \in Jobs : job'[k].at = "idle" \/ job'[k].box \in Boxes
        /\ \A k \in Selects : job'[k].at = "idle" \/ job'[k].node \in Nodes
    BY <2>1, <2>2, <2>3, JobType
  <2>5. WaitingHasSelection'
    <3>1. SelectedNode' # NoNode /\ HasQuery(job[j].node)
      BY <1>4 DEF OpenFails, WaitingHasSelection
    <3>2. value.node = job[j].node
      BY <2>1 DEF value, TypeOK, Job
    <3>3. \A k \in Jobs : job'[k] = IF k = j THEN value ELSE job[k]
      BY <2>3 DEF TypeOK
    <3> QED
      BY <1>4, <3>1, <3>2, <3>3 DEF OpenFails, WaitingHasSelection, Jobs
  <2>6. stack' \in Seq(Jobs)
    BY <1>4, <2>1 DEF OpenFails, TypeOK
  <2> QED
    BY <1>4, <2>4, <2>5, <2>6
       DEF OpenFails, tabVars, TypeOK, WaitingHasSelection, EveryTabHasABox
<1>5. ASSUME NEW j \in Selects, DismissBox(j) PROVE IInv'
  <2>1. stack' \in Seq(Jobs)
    BY <1>5, FrontType DEF DismissBox, OnTop
  <2> QED BY <1>2, <1>5, <2>1 DEF DismissBox
<1> QED BY <1>1, <1>3, <1>4, <1>5

(* Before the form is first opened.                                          *)
LEMMA InitIInv == Init => IInv
<1> SUFFICES ASSUME Init PROVE IInv
  OBVIOUS
<1>1. TypeOK
  <2>1. job \in [Jobs -> Job] /\ \A j \in Jobs : job[j] = Idle
    BY IdleType DEF Init
  <2>2. /\ <<>> \in Seq(Boxes) /\ <<>> \in Seq(Jobs)
        /\ text \in [Boxes -> Text] /\ custom_sql_query \in Text
    BY BlankIsText DEF Init
  <2>3. \A j \in Jobs : job[j].at = "idle"
    BY <2>1, IdleType
  <2>4. /\ open = FALSE /\ tabs = <<>> /\ selected = 0 /\ box_list = <<>>
        /\ SelectedNode = NoNode /\ globals = NoNode /\ stack = <<>>
    BY DEF Init
  <2>5. Selects \subseteq Jobs
    BY DEF Jobs
  <2> QED BY <2>1, <2>2, <2>3, <2>4, <2>5 DEF TypeOK
<1>2. WaitingHasSelection
  BY IdleType DEF Init, WaitingHasSelection, Jobs
<1>3. EveryTabHasABox
  BY DEF Init, EveryTabHasABox
<1> QED BY <1>1, <1>2, <1>3 DEF IInv

(* Every step keeps the invariant.                                           *)
LEMMA NextIInv == IInv /\ [Next]_vars => IInv'
<1> SUFFICES ASSUME IInv, [Next]_vars PROVE IInv'
  OBVIOUS
<1>1. CASE Next
  BY <1>1, TabStepsKeep, TextStepsKeep, SelectionStepsKeep, Zenon DEF Next
<1>2. CASE UNCHANGED vars
  BY <1>2 DEF vars, tabVars, IInv, TypeOK, WaitingHasSelection, EveryTabHasABox
<1> QED BY <1>1, <1>2

(* It therefore always holds.                                                *)
LEMMA AlwaysIInv == Spec => []IInv
BY InitIInv, NextIInv, PTL DEF Spec

(* Every variable of the query editor keeps its type, and a tab is selected  *)
(* as long as there is one.                                                  *)
THEOREM TypeCorrect == Spec => []TypeOK
<1>1. IInv => TypeOK
  BY DEF IInv
<1> QED BY <1>1, AlwaysIInv, PTL

(* box_list never has fewer boxes than there are tabs (AppForm.cs:323).      *)
THEOREM TabsHaveBoxes == Spec => []EveryTabHasABox
<1>1. IInv => EveryTabHasABox
  BY DEF IInv
<1> QED BY <1>1, AlwaysIInv, PTL

-----------------------------------------------------------------------------
(* Globals. *)

(* One step changes the globals to those of the selected node, or not.       *)
LEMMA GlobalsStep ==
  ASSUME IInv, [Next]_vars
  PROVE  globals' # globals => globals' = SelectedNode'
<1>1. ASSUME NEW node \in Nodes, AfterSelect(node)
      PROVE  globals' # globals => globals' = SelectedNode'
  <2>1. SelectedNode' = node
    BY <1>1 DEF AfterSelect
  <2> QED BY <1>1, <2>1, AfterSelectTypes
<1>2. ASSUME NEW j \in Selects, Answer(j) \/ DismissBox(j)
      PROVE  globals' = SelectedNode'
  <2>1. Resume(j) /\ job[j].at # "idle" /\ SelectedNode' = SelectedNode
    BY <1>2 DEF Answer, DismissBox
  <2> QED BY <2>1, ResumeTypes
<1>3. ASSUME \/ AppForm_Load
             \/ new_query_button_Click
             \/ AppForm_FormClosed
             \/ \E i \in DOMAIN tabs : SelectTab(i)
             \/ query_tab_control_MouseDown
             \/ \E i \in DOMAIN tabs : query_tab_control_DrawItem(i)
             \/ \E content \in Typed : TypeText(content)
             \/ toolStripButton1_Click
             \/ ImportQuery
             \/ EndImport
             \/ \E j \in Selects : OpenFails(j)
             \/ UNCHANGED vars
      PROVE  globals' = globals
  BY <1>3
     DEF AppForm_Load, new_query_button_Click, AddNewTab, AppForm_FormClosed,
         SelectTab, query_tab_control_MouseDown, query_tab_control_DrawItem,
         WithoutPage, TypeText, toolStripButton1_Click, ImportQuery, EndImport,
         OpenFails, vars
<1> QED BY <1>1, <1>2, <1>3, Zenon DEF Next

(* However selections and late answers interleave, the globals change only   *)
(* together, and to those of the node that is selected then.                 *)
THEOREM GlobalsAreOfTheSelection == Spec => GlobalsFollowSelection
<1>1. IInv /\ [Next]_vars => [globals' # globals => globals' = SelectedNode']_vars
  BY GlobalsStep
<1> QED BY <1>1, AlwaysIInv, PTL DEF Spec, GlobalsFollowSelection

-----------------------------------------------------------------------------
(* Tabs and boxes. *)

(* One step keeps the tabs paired with the boxes, or paints or closes.       *)
LEMMA PairedStep ==
  ASSUME IInv, [Next]_vars, Paired
  PROVE  \/ Paired'
         \/ AppForm_FormClosed
         \/ \E i \in DOMAIN tabs : query_tab_control_DrawItem(i)
<1>1. CASE AddNewTab
  BY <1>1 DEF AddNewTab, Added, Paired
<1>2. CASE query_tab_control_MouseDown
  <2>1. selected \in DOMAIN box_list
    BY <1>2 DEF query_tab_control_MouseDown, IInv, TypeOK, Paired
  <2> QED
    BY <1>2, <2>1
       DEF query_tab_control_MouseDown, WithoutPage, Unlisted, Paired
<1>3. ASSUME \/ \E i \in DOMAIN tabs : SelectTab(i)
             \/ \E content \in Typed : TypeText(content)
             \/ toolStripButton1_Click
             \/ ImportQuery
             \/ EndImport
             \/ \E node \in Nodes : AfterSelect(node)
             \/ \E j \in Selects : Answer(j)
             \/ \E j \in Selects : OpenFails(j)
             \/ \E j \in Selects : DismissBox(j)
             \/ UNCHANGED vars
      PROVE  Paired'
  BY <1>3
     DEF SelectTab, TypeText, toolStripButton1_Click, ImportQuery, EndImport,
         AfterSelect, Answer, OpenFails, DismissBox, vars, tabVars, Paired
<1> QED
  BY <1>1, <1>2, <1>3, Zenon
     DEF Next, AppForm_Load, new_query_button_Click

(* Opening, switching and closing tabs keeps tab i and box i of the list the *)
(* same, whatever selections and imports are under way.                      *)
THEOREM TabsStayPaired == Spec => KeepsPaired
<1>1. IInv /\ [Next]_vars =>
        [Paired => \/ Paired'
                   \/ AppForm_FormClosed
                   \/ \E i \in DOMAIN tabs : query_tab_control_DrawItem(i)]_vars
  BY PairedStep
<1> QED BY <1>1, AlwaysIInv, PTL DEF Spec, KeepsPaired

-----------------------------------------------------------------------------
(* Texts. *)

(* One step that ends a selection writes into its box and no other.          *)
LEMMA LateTextStep ==
  ASSUME IInv, [Next]_vars, NEW j \in Selects, NEW b \in Boxes,
         job[j].at # "idle", job'[j] = Idle, text'[b] # text[b]
  PROVE  b = job[j].box
<1>1. ASSUME NEW k \in Selects, job[k].at # "idle", Resume(k)
      PROVE  b = job[j].box
  <2>1. k = j
    <3>1. \A l \in Selects : job'[l] = IF l = k THEN Idle ELSE job[l]
      BY <1>1, ResumeTypes
    <3> QED BY <3>1, IdleType
  <2>2. text' = text \/ text' = [text EXCEPT ![job[j].box] = Query(job[j].node)]
    BY <1>1, <2>1 DEF Resume, BoxOf, SetQuery, SetText
  <2> QED BY <2>2 DEF IInv, TypeOK
<1>2. ASSUME NEW k \in Selects, Answer(k) \/ DismissBox(k)
      PROVE  b = job[j].box
  BY <1>1, <1>2 DEF Answer, DismissBox
<1>3. ASSUME \/ \E node \in Nodes : AfterSelect(node)
             \/ toolStripButton1_Click
             \/ ImportQuery
             \/ EndImport
             \/ \E k \in Selects : OpenFails(k)
      PROVE  job'[j].at # "idle"
  <2>1. j # Import /\ j \in Jobs
    BY EditorAssumption DEF Jobs
  <2>2. ASSUME NEW node \in Nodes, AfterSelect(node)
        PROVE  job'[j].at # "idle"
    <3>1. \/ job' = job
          \/ \E k \in Selects :
               job' = [job EXCEPT ![k] =
                         [at |-> "awaiting", box |-> Active, node |-> node]]
      BY <2>2 DEF AfterSelect
    <3> QED BY <2>1, <3>1, SMTT(30) DEF IInv, TypeOK
  <2>3. ASSUME toolStripButton1_Click \/ ImportQuery \/ EndImport
        PROVE  job'[j] = job[j]
    BY <2>1, <2>3
       DEF toolStripButton1_Click, ImportQuery, EndImport, IInv, TypeOK
  <2>4. ASSUME NEW k \in Selects, OpenFails(k) PROVE job'[j].at # "idle"
    BY <2>1, <2>4 DEF OpenFails, IInv, TypeOK, Job
  <2> QED BY <1>3, <2>2, <2>3, <2>4
<1>4. ASSUME \/ AppForm_Load
             \/ new_query_button_Click
             \/ AppForm_FormClosed
             \/ \E i \in DOMAIN tabs : SelectTab(i)
             \/ query_tab_control_MouseDown
             \/ \E i \in DOMAIN tabs : query_tab_control_DrawItem(i)
             \/ \E content \in Typed : TypeText(content)
             \/ UNCHANGED vars
      PROVE  job'[j] = job[j]
  BY <1>4
     DEF AppForm_Load, new_query_button_Click, AddNewTab, AppForm_FormClosed,
         SelectTab, query_tab_control_MouseDown, query_tab_control_DrawItem,
         WithoutPage, TypeText, vars
<1>5. Idle.at = "idle"
  BY IdleType
<1> QED BY <1>2, <1>3, <1>4, <1>5, Zenon DEF Next

(* The end of a selection changes the text of the tab it was made for, even  *)
(* if that tab is closed by then or another one is active.                   *)
THEOREM LateTextStaysInItsTab == Spec => LateTextInItsTab
<1>1. IInv /\ [Next]_vars =>
        [\A j \in Selects, b \in Boxes :
           job[j].at # "idle" /\ job'[j] = Idle /\ text'[b] # text[b] =>
             b = job[j].box]_vars
  BY LateTextStep
<1> QED BY <1>1, AlwaysIInv, PTL DEF Spec, LateTextInItsTab

(* The query of the active box, when the tabs are paired with the boxes.     *)
LEMMA ShownWhenPaired ==
  ASSUME NEW list \in Seq(Boxes), NEW index \in DOMAIN list, NEW texts
  PROVE  Shown(list, index, texts) = texts[list[index]]
<1>1. list[index] \in Boxes
  OBVIOUS
<1> QED BY <1>1, EditorAssumption DEF Shown, BoxAt

(* A changed text leaves the query that of the tab on the screen.            *)
LEMMA SetTextInStep ==
  ASSUME TypeOK, InStep, NEW box \in Boxes, NEW content, SetText(box, content)
  PROVE  custom_sql_query' = text'[tabs[selected]]
<1>1. selected \in DOMAIN tabs /\ tabs = box_list /\ tabs \in Seq(Boxes)
  BY DEF InStep, Paired, TypeOK
<1>2. Shown(box_list, selected, text') = text'[tabs[selected]]
  BY <1>1, ShownWhenPaired
<1>3. CASE custom_sql_query' = Shown(box_list, selected, text')
  BY <1>2, <1>3
<1>4. CASE box \notin ToSet(tabs) /\ UNCHANGED custom_sql_query
  <2>1. tabs[selected] # box /\ tabs[selected] \in Boxes
    BY <1>1, <1>4 DEF ToSet
  <2> QED BY <1>4, <2>1 DEF SetText, TypeOK, InStep
<1> QED BY <1>3, <1>4 DEF SetText

(* One step keeps Run Query on the text on the screen, with the exceptions   *)
(* the property names.                                                       *)
LEMMA InStepStep ==
  ASSUME IInv, [Next]_vars, InStep
  PROVE  \/ InStep'
         \/ ~Paired' \/ selected' = 0
         \/ \E n \in Nodes : AfterSelect(n) /\ (~HasQuery(n) \/ Awaits(n))
<1>0. /\ selected \in DOMAIN tabs /\ tabs = box_list /\ tabs \in Seq(Boxes)
      /\ TypeOK
  BY DEF IInv, InStep, Paired, TypeOK
<1>1. ASSUME AddNewTab PROVE InStep' \/ ~Paired'
  <2>1. box_list' \in Seq(Boxes) /\ selected' \in DOMAIN tabs'
    BY <1>0, <1>1, AddNewTabTypes
  <2>2. tabs # <<>>
    BY <1>0
  <2>3. selected' # 0
    BY <1>0, <1>1 DEF AddNewTab
  <2>4. custom_sql_query' = Shown(box_list', selected', text')
    BY <1>1, <2>2 DEF AddNewTab
  <2> QED BY <2>1, <2>3, <2>4, ShownWhenPaired DEF InStep, Paired
<1>2. ASSUME NEW i \in DOMAIN tabs, SelectTab(i) PROVE InStep'
  <2>1. Shown(box_list, i, text) = text[tabs[i]]
    BY <1>0, ShownWhenPaired
  <2>2. i # 0
    BY <1>0
  <2> QED BY <1>0, <1>2, <2>1, <2>2 DEF SelectTab, InStep, Paired
<1>3. ASSUME query_tab_control_MouseDown
      PROVE  InStep' \/ ~Paired' \/ selected' = 0
  <2> SUFFICES ASSUME Paired', selected' # 0 PROVE InStep'
    OBVIOUS
  <2>1. WithoutPage(selected)
    BY <1>3 DEF query_tab_control_MouseDown
  <2>2. selected' = 1 /\ tabs' # <<>>
    BY <2>1 DEF WithoutPage
  <2>3. custom_sql_query' = Shown(box_list', 1, text) /\ text' = text
    BY <2>1, <2>2 DEF WithoutPage
  <2>4. box_list' \in Seq(Boxes) /\ box_list' = tabs'
    <3>1. tabs' \in Seq(Boxes)
      <4>1. tabs' = RemoveAt(tabs, selected) /\ selected \in 1..Len(tabs)
        BY <1>0, <2>1 DEF WithoutPage
      <4> QED BY <1>0, <4>1, RemoveAtProperties
    <3> QED BY <3>1 DEF Paired
  <2>5. 1 \in DOMAIN box_list'
    BY <2>2, <2>4
  <2>6. Shown(box_list', 1, text) = text[box_list'[1]]
    BY <2>4, <2>5, ShownWhenPaired
  <2> QED BY <2>2, <2>3, <2>4, <2>6 DEF InStep, Paired
<1>4. ASSUME NEW i \in DOMAIN tabs, query_tab_control_DrawItem(i)
      PROVE  ~Paired'
  <2>1. tabs' = RemoveAt(tabs, i) /\ box_list' = box_list /\ i \in 1..Len(tabs)
    BY <1>0, <1>4 DEF query_tab_control_DrawItem, WithoutPage
  <2>2. Len(tabs') = Len(tabs) - 1 /\ Len(tabs) \in Nat
    BY <1>0, <2>1, RemoveAtProperties
  <2> QED BY <1>0, <2>1, <2>2 DEF Paired
<1>5. ASSUME AppForm_FormClosed PROVE selected' = 0
  BY <1>5 DEF AppForm_FormClosed
<1>6. ASSUME NEW box \in Boxes, NEW content, SetText(box, content),
             UNCHANGED tabVars
      PROVE  InStep'
  <2>1. custom_sql_query' = text'[tabs[selected]]
    BY <1>0, <1>6, SetTextInStep
  <2> QED BY <1>6, <2>1 DEF InStep, Paired, tabVars
<1>7. ASSUME NEW content \in Typed, TypeText(content) PROVE InStep'
  <2>1. PICK box \in Boxes : box = tabs[selected]
    BY <1>0
  <2> QED BY <1>6, <1>7, <2>1 DEF TypeText
<1>8. ASSUME UNCHANGED <<tabVars, text, custom_sql_query>> PROVE InStep'
  BY <1>8 DEF InStep, Paired, tabVars
<1>9. ASSUME ImportQuery PROVE InStep'
  <2>1. PICK box \in Boxes : box = job[Import].box
    BY <1>0, <1>9 DEF ImportQuery, TypeOK, Jobs
  <2>2. ASSUME NEW content \in Typed, SetText(job[Import].box, content)
        PROVE  InStep'
    BY <1>6, <1>9, <2>1, <2>2 DEF ImportQuery
  <2> QED BY <1>8, <1>9, <2>2 DEF ImportQuery
<1>10. ASSUME NEW n \in Nodes, AfterSelect(n), HasQuery(n), ~Awaits(n)
       PROVE  InStep'
  <2>1. PICK box \in Boxes : box = Active
    BY <1>0, EditorAssumption DEF Active, BoxAt
  <2>2. SetText(box, Query(n)) /\ UNCHANGED tabVars
    BY <1>10, <2>1, EditorAssumption DEF AfterSelect, SetQuery
  <2> QED BY <1>6, <2>2
<1>11. ASSUME NEW j \in Selects, Answer(j) \/ DismissBox(j) PROVE InStep'
  <2>1. job[j].at # "idle" /\ Resume(j) /\ UNCHANGED tabVars
    BY <1>11 DEF Answer, DismissBox
  <2>2. HasQuery(job[j].node)
    BY <2>1 DEF IInv, WaitingHasSelection
  <2>3. PICK box \in Boxes : box = job[j].box
    BY <1>0, <2>1 DEF TypeOK, Jobs
  <2>4. SetText(box, Query(job[j].node))
    BY <2>1, <2>2, <2>3 DEF Resume, BoxOf, SetQuery
  <2> QED BY <1>6, <2>1, <2>4
<1>12. ASSUME \/ toolStripButton1_Click
              \/ EndImport
              \/ \E j \in Selects : OpenFails(j)
              \/ UNCHANGED vars
       PROVE  InStep'
  BY <1>8, <1>12 DEF toolStripButton1_Click, EndImport, OpenFails, vars
<1>13. AppForm_Load \/ new_query_button_Click => AddNewTab
  BY DEF AppForm_Load, new_query_button_Click
<1> QED
  BY <1>1, <1>2, <1>3, <1>4, <1>5, <1>7, <1>9, <1>10, <1>11, <1>12, <1>13,
     Zenon DEF Next

(* While the tabs are paired with their boxes, Run Query runs the text on    *)
(* the screen, whatever is typed, imported, switched, closed and answered.   *)
THEOREM RunQueryRunsTheScreen == Spec => RunsWhatIsShown
<1>1. IInv /\ [Next]_vars =>
        [InStep =>
           \/ InStep'
           \/ ~Paired' \/ selected' = 0
           \/ \E n \in Nodes :
                AfterSelect(n) /\ (~HasQuery(n) \/ Awaits(n))]_vars
  BY InStepStep
<1> QED BY <1>1, AlwaysIInv, PTL DEF Spec, RunsWhatIsShown
=============================================================================
