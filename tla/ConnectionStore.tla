-------------------------- MODULE ConnectionStore --------------------------
(***************************************************************************)
(* The saved connections of the SQL editor: loginconfig.xml on the disk,    *)
(* its copy Globals.login_list, and the windows that change them, AppLogin  *)
(* (App.AuthenticateUser) and AppDelete.                                    *)
(*                                                                          *)
(* Only the UI thread of the one process touches the file.  A handler runs  *)
(* to its end before the next one starts, and a message box at its end      *)
(* keeps the user away from every window, so a handler is one step, with    *)
(* its last message in `message'.  The loop of delete_selected_Click is a   *)
(* step per turn, during which `job' keeps everything else waiting.         *)
(* AppDelete windows are modeless: several may be open, each with the list  *)
(* it was opened with.                                                      *)
(***************************************************************************)
EXTENDS Naturals, SequencesExt

CONSTANTS
  Nicknames,      \* the names users give to connections (never empty)
  Windows,        \* AppDelete windows
  MaxID,          \* bound on the IDs handed out, and so on the file
  DiskFaults,     \* what XDocument.Save may do instead of saving: "denied"
                  \* leaves the file alone, "torn" leaves half a document
  NoFile,         \* loginconfig.xml does not exist
  Corrupt,        \* loginconfig.xml is no XML document
  Closed          \* a window that is not open

Connection == [ID : 1..MaxID, Nickname : Nicknames]
Item == [name : Nicknames, selected : BOOLEAN]

ASSUME StoreAssumption ==
  /\ MaxID \in Nat
  /\ DiskFaults \subseteq {"denied", "torn"}
  /\ NoFile # Corrupt
  /\ NoFile \notin Seq(Connection)
  /\ Corrupt \notin Seq(Connection)
  /\ Closed \notin Seq(Item) \cup Windows

VARIABLES
  login_config,   \* contents of loginconfig.xml
  login_list,     \* Globals.login_list, by nickname
  window,         \* connection_deletion_selection.Items of each AppDelete
  job,            \* the loop of delete_selected_Click and its locals
  message         \* the last message box, or the last entry of error.log

vars == <<login_config, login_list, window, job, message>>

-----------------------------------------------------------------------------

Stored(file) == IF file \in {NoFile, Corrupt} THEN <<>> ELSE file

NicknamesOf(doc) == [i \in DOMAIN doc |-> doc[i].Nickname]

Listed_SelectedNames(items) == {items[i].name : i \in DOMAIN items}

SelectedNames(items) ==
  {items[i].name : i \in {j \in DOMAIN items : items[j].selected}}

(* Items.IndexOf: the first item with that text, or 0.                      *)
IndexOf(items, name) == SelectInSeq(items, LAMBDA item : item.name = name)

Texts == {"none", "logged", "field", "no_connections", "nothing_to_select",
          "nothing_to_delete", "not_found", "removed", "error"}

Says(text, n) == [text |-> text, count |-> n]

Silent == Says("none", 0)

(* Program.LogException: the handler threw, and nobody is told.             *)
Logged == Says("logged", 0)

Jobs ==
  [window : Windows, rest : Seq(Nicknames), doc : Seq(Connection),
   removed : Nat, asked : Seq(Item)]

NoJob == [window |-> Closed, rest |-> <<>>, doc |-> <<>>, removed |-> 0,
          asked |-> <<>>]

Waiting == job = NoJob

TypeOK ==
  /\ login_config \in Seq(Connection) \cup {NoFile, Corrupt}
  /\ login_list \in Seq(Nicknames)
  /\ window \in [Windows -> Seq(Item) \cup {Closed}]
  /\ job \in Jobs \cup {NoJob}
  /\ message \in [text : Texts, count : Nat]

NoWindows == [w \in Windows |-> Closed]

Init ==
  /\ login_config = NoFile
  /\ login_list = <<>>
  /\ window = NoWindows
  /\ job = NoJob
  /\ message = Silent

-----------------------------------------------------------------------------
(* XDocument.Load throws.                                                   *)
Repair_Unreadable == FALSE

Unreadable == login_config = Corrupt

(* The process ends, between two handlers or in the middle of one, and is   *)
(* started again: all but the file is gone.                                 *)
NewProcess ==
  /\ login_list' = <<>>
  /\ window' = NoWindows
  /\ job' = NoJob
  /\ message' = Silent

Restart == NewProcess /\ UNCHANGED login_config

(* XDocument.Save truncates the file and then writes it.                    *)
Save(doc) == login_config' = doc

SaveFails ==
  \/ "denied" \in DiskFaults /\ UNCHANGED login_config
  \/ "torn" \in DiskFaults /\ login_config' = Corrupt

DiesInSave ==
  /\ NewProcess
  /\ "torn" \in DiskFaults
  /\ login_config' = Corrupt

-----------------------------------------------------------------------------
(* App.cs                                                                   *)

CountPlusOne_NewID(doc) == Len(doc) + 1

FromZero_NewID(doc) ==
  IF doc = <<>> THEN 0 ELSE Max({doc[i].ID : i \in DOMAIN doc}) + 1

NewID(doc) ==
  IF doc = <<>> THEN 1 ELSE Max({doc[i].ID : i \in DOMAIN doc}) + 1

NoClear_Loaded(file) == login_list \o NicknamesOf(Stored(file))

Loaded(file) == NicknamesOf(Stored(file))

(* The reload at the end of AppForm_Load and in refresh_connections_Click.  *)
(* A file without connections and a missing file leave login_list alone.    *)
LoadConnectionDetails ==
  /\ Waiting
  /\ CASE Unreadable ->
            message' = Logged /\ UNCHANGED login_list
       [] login_config = NoFile ->
            UNCHANGED <<login_list, message>>
       [] login_config = <<>> ->
            message' = Says("no_connections", 0) /\ UNCHANGED login_list
       [] OTHER ->
            login_list' = Loaded(login_config) /\ UNCHANGED message
  /\ UNCHANGED <<login_config, window, job>>

(* A login with an empty field is refused, but login_list was emptied first. *)
RefuseLogin ==
  /\ Waiting
  /\ login_list' = <<>>
  /\ message' = Says("field", 0)
  /\ UNCHANGED <<login_config, window, job>>

AuthenticateUser(nickname) ==
  LET doc == Stored(login_config)
      new == [ID |-> NewID(doc), Nickname |-> nickname]
  IN
  /\ Waiting
  /\ IF Unreadable
       THEN /\ login_list' = <<nickname>>
            /\ message' = Logged
            /\ UNCHANGED <<login_config, window, job>>
       ELSE /\ new.ID <= MaxID
            /\ \/ /\ Save(Append(doc, new))
                  /\ login_list' = Loaded(login_config')
                  /\ message' = Silent
                  /\ UNCHANGED <<window, job>>
               \/ /\ SaveFails
                  /\ login_list' = <<nickname>>
                  /\ message' = Logged
                  /\ UNCHANGED <<window, job>>
               \/ DiesInSave

-----------------------------------------------------------------------------
(* AppDelete.cs                                                             *)

delete_connection_Click(w) ==
  /\ Waiting
  /\ window[w] = Closed
  /\ window' = [window EXCEPT ![w] =
       [i \in DOMAIN login_list |->
          [name |-> login_list[i], selected |-> FALSE]]]
  /\ UNCHANGED <<login_config, login_list, job, message>>

confirm_button_Click(w) ==
  /\ Waiting
  /\ window[w] # Closed
  /\ window' = [window EXCEPT ![w] = Closed]
  /\ UNCHANGED <<login_config, login_list, job, message>>

(* The user clicks an item of the list box.                                 *)
SelectItem(w) ==
  /\ Waiting
  /\ window[w] # Closed
  /\ \E i \in DOMAIN window[w] :
       window' = [window EXCEPT ![w][i].selected = ~@]
  /\ UNCHANGED <<login_config, login_list, job, message>>

(* SetSelected for the first item of every nickname in login_list.          *)
SetSelected(items, value) ==
  [i \in DOMAIN items |->
     IF /\ items[i].name \in ToSet(login_list)
        /\ i = IndexOf(items, items[i].name)
       THEN [items[i] EXCEPT !.selected = value]
       ELSE items[i]]

select_all_Click(w) ==
  /\ Waiting
  /\ window[w] # Closed
  /\ window' = [window EXCEPT ![w] = SetSelected(@, TRUE)]
  /\ message' = IF window[w] = <<>>
                   THEN Says("nothing_to_select", 0) ELSE message
  /\ UNCHANGED <<login_config, login_list, job>>

deselect_all_Click(w) ==
  /\ Waiting
  /\ window[w] # Closed
  /\ window' = [window EXCEPT ![w] = SetSelected(@, FALSE)]
  /\ UNCHANGED <<login_config, login_list, job, message>>

(* delete_selected_Click, up to its loop over a copy of login_list.         *)
delete_selected_Click(w) ==
  /\ Waiting
  /\ window[w] # Closed
  /\ CASE login_config = NoFile ->
            message' = Says("not_found", 0) /\ UNCHANGED job
       [] Unreadable ->
            message' = Logged /\ UNCHANGED job
       [] OTHER ->
            /\ job' = [window |-> w, rest |-> login_list,
                       doc |-> Stored(login_config), removed |-> 0,
                       asked |-> window[w]]
            /\ UNCHANGED message
  /\ UNCHANGED <<login_config, login_list, window>>

(* root.Elements("Connection").FirstOrDefault(...)?.Remove()                *)
All_NodeRemoved(doc, nickname) ==
  SelectSeq(doc, LAMBDA c : c.Nickname # nickname)

ByPlace_NodeRemoved(doc, nickname) == IF doc = <<>> THEN doc ELSE Tail(doc)

NodeRemoved(doc, nickname) ==
  IF \E i \in DOMAIN doc : doc[i].Nickname = nickname
    THEN RemoveAt(doc, SelectInSeq(doc, LAMBDA c : c.Nickname = nickname))
    ELSE doc

(* The loop goes over login_list.ToList(): removing an entry skips none.     *)
Live_RestOfLoop(removing) ==
  IF removing /\ Len(job.rest) > 1 THEN Tail(Tail(job.rest)) ELSE Tail(job.rest)

RestOfLoop(removing) == Tail(job.rest)

(* A turn of the loop.  Earlier turns have removed from login_list what     *)
(* they found selected, so this turn's entry is the Len(rest)-th from the   *)
(* end.                                                                     *)
DeleteNext ==
  LET w == job.window
      nickname == Head(job.rest)
      turn == Len(login_list) - Len(job.rest) + 1
  IN
  /\ ~Waiting
  /\ job.rest # <<>>
  /\ IF nickname \in SelectedNames(window[w])
       THEN /\ window' = [window EXCEPT ![w] =
                 RemoveAt(@, IndexOf(@, nickname))]
            /\ login_list' = RemoveAt(login_list, turn)
            /\ job' = [job EXCEPT !.rest = RestOfLoop(TRUE),
                                  !.doc = NodeRemoved(@, nickname),
                                  !.removed = @ + 1]
       ELSE /\ job' = [job EXCEPT !.rest = RestOfLoop(FALSE)]
            /\ UNCHANGED <<window, login_list>>
  /\ UNCHANGED <<login_config, message>>

(* ... and the save at the end.                                             *)
FinishDelete ==
  /\ ~Waiting
  /\ job.rest = <<>>
  /\ \/ /\ Save(job.doc)
        /\ message' = Says("removed", job.removed)
        /\ job' = NoJob
        /\ UNCHANGED <<login_list, window>>
     \/ /\ SaveFails
        /\ message' = Logged
        /\ job' = NoJob
        /\ UNCHANGED <<login_list, window>>
     \/ DiesInSave

(* The list box and login_list are emptied before the file is looked at.    *)
delete_all_Click(w) ==
  /\ Waiting
  /\ window[w] # Closed
  /\ CASE login_list = <<>> ->
            /\ message' = Says("nothing_to_delete", 0)
            /\ UNCHANGED <<login_config, login_list, window, job>>
       [] login_list # <<>> /\ login_config = NoFile ->
            /\ message' = Says("not_found", 0)
            /\ UNCHANGED <<login_config, login_list, window, job>>
       [] OTHER ->
            \/ /\ window' = [window EXCEPT ![w] = <<>>]
               /\ login_list' = <<>>
               /\ UNCHANGED job
               /\ \/ /\ ~Unreadable
                     /\ Save(<<>>)
                     /\ message' = Says("removed", Len(login_list))
                  \/ /\ IF Unreadable THEN UNCHANGED login_config
                                      ELSE SaveFails
                     /\ message' = Says("error", 0)
            \/ ~Unreadable /\ DiesInSave

Next ==
  \/ Restart
  \/ LoadConnectionDetails
  \/ RefuseLogin
  \/ \E nickname \in Nicknames : AuthenticateUser(nickname)
  \/ \E w \in Windows :
       \/ delete_connection_Click(w)
       \/ confirm_button_Click(w)
       \/ SelectItem(w)
       \/ select_all_Click(w)
       \/ deselect_all_Click(w)
       \/ delete_selected_Click(w)
       \/ delete_all_Click(w)
  \/ DeleteNext
  \/ FinishDelete

Spec == Init /\ [][Next]_vars

-----------------------------------------------------------------------------
(* Properties.                                                              *)

Increasing(doc) ==
  \A i, j \in DOMAIN doc : i < j => doc[i].ID < doc[j].ID

(* No two saved connections ever have the same ID: the IDs in the file      *)
(* increase from its first to its last entry (App.cs:76-85), whatever was   *)
(* deleted in between and whatever saves failed.                            *)
IDsIncrease == Increasing(Stored(login_config))

(* What holds within the loop of Delete Selected: the file is the readable  *)
(* one it started from, the copy of login_list is not longer than the list, *)
(* and what is selected, or gone from the document, was asked for.          *)
JobInv ==
  ~Waiting =>
    /\ login_config \in Seq(Connection)
    /\ Len(job.rest) <= Len(login_list)
    /\ window[job.window] \in Seq(Item)
    /\ SelectedNames(window[job.window]) \subseteq SelectedNames(job.asked)
    /\ Increasing(job.doc)
    /\ \A c \in ToSet(login_config) \ ToSet(job.doc) :
         c.Nickname \in SelectedNames(job.asked)

IInv == TypeOK /\ IDsIncrease /\ JobInv

Distinct(items) == IsInjective([i \in DOMAIN items |-> items[i].name])

Copies(list, name) == Cardinality({i \in DOMAIN list : list[i] = name})

NotMoreThan(list, doc) ==
  \A n \in Nicknames : Copies(list, n) <= Copies(NicknamesOf(doc), n)

Stranger(list, doc) ==
  Len(list) <= 1 /\ ToSet(list) \cap ToSet(NicknamesOf(doc)) = {}

Matched(list, doc, file, removed) ==
  \/ /\ NotMoreThan(list, doc)
     /\ NotMoreThan(NicknamesOf(doc), file)
     /\ removed + Len(doc) = Len(file)
  \/ Stranger(list, doc) /\ doc = file

(* Between two turns of the loop login_list is what its turns have kept and  *)
(* then what they have still to look at; what they kept is not selected, and *)
(* if the window lists no nickname twice, each removal used up one selected  *)
(* item.                                                                     *)
TurnInv ==
  ~Waiting =>
    LET items == window[job.window]
        kept == Len(login_list) - Len(job.rest)
    IN
    /\ \A i \in DOMAIN job.rest : job.rest[i] = login_list[kept + i]
    /\ \A i \in 1..kept : login_list[i] \notin SelectedNames(items)
    /\ Distinct(job.asked) =>
         /\ Distinct(items)
         /\ job.removed + Cardinality(SelectedNames(items))
              <= Cardinality(SelectedNames(job.asked))

(* login_list holds no nickname more often than the file does, or, after a   *)
(* login that could not save, only one that is not in the file; and but for  *)
(* that one, each removal takes one connection from the document.            *)
ListInv ==
  IF Waiting
    THEN login_config # Corrupt =>
           \/ NotMoreThan(login_list, Stored(login_config))
           \/ Stranger(login_list, Stored(login_config))
    ELSE Matched(login_list, job.doc, login_config, job.removed)

SInv == IInv /\ TurnInv /\ ListInv

(* A connection leaves the file in no other way than by Delete All, or by   *)
(* Delete Selected when its nickname was selected as the button was clicked *)
(* (AppDelete.cs:65-153), or because a save was torn: no login, restart,    *)
(* stale window or failed save loses one.                                   *)
RemovedOnRequest ==
  [][\A c \in ToSet(Stored(login_config)) \ ToSet(Stored(login_config')) :
       \/ ~Waiting /\ c.Nickname \in SelectedNames(job.asked)
       \/ \E w \in Windows : delete_all_Click(w)
       \/ login_config' = Corrupt]_vars

(* What a torn save left on the disk is never overwritten: every operation  *)
(* that saves has read the file before (App.cs:67, AppDelete.cs:76, 139),   *)
(* so the user may still repair it by hand.                                 *)
UnreadableKept == [][login_config = Corrupt => login_config' = Corrupt]_vars

(* login_list is either empty or holds the nicknames of the file in the     *)
(* file's order; within Delete Selected, those of the document.             *)
InStep ==
  \/ login_list = <<>>
  \/ login_list = NicknamesOf(IF Waiting THEN Stored(login_config) ELSE job.doc)

(* Nothing but a login or a deletion that could not save brings login_list  *)
(* and the file apart: the two loops that remove from the list and from the *)
(* document by different keys (AppDelete.cs:93-100) stay in step, also with *)
(* two windows open, with equal nicknames and after earlier failures.       *)
KeepsInStep ==
  [][InStep => \/ InStep'
               \/ /\ message' = Logged
                  /\ FinishDelete \/ \E n \in Nicknames : AuthenticateUser(n)]_vars

(* As long as they are in step, "Removed n connection(s)" (AppDelete.cs:110,*)
(* 147) counts the connections that left the file.                          *)
CountsAreTrue ==
  [][InStep /\ login_config' # login_config /\ message'.text = "removed" =>
       message'.count = Len(login_config) - Len(login_config')]_vars

(* After Delete Selected no item is left selected in its window whose       *)
(* nickname is still in login_list (AppDelete.cs:82-104): the loop shrinks  *)
(* the list and the items it iterates by and skips none.                    *)
NoneLeftSelected ==
  ~Waiting /\ job.rest = <<>> =>
    SelectedNames(window[job.window]) \cap ToSet(login_list) = {}

(* "Delete Selected" (AppDelete.Designer.cs:65) removes at most as many     *)
(* connections as are selected when it is clicked, if the window lists no   *)
(* nickname twice, and whatever has been added or removed since it was      *)
(* opened.                                                                  *)
AsManyAsSelected ==
  ~Waiting /\ Distinct(job.asked) =>
    job.removed <= Cardinality({i \in DOMAIN job.asked : job.asked[i].selected})
=============================================================================
