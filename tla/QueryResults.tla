---------------------------- MODULE QueryResults ----------------------------
(***************************************************************************)
(* Running queries and exporting what they answer: FetchItems and           *)
(* PartialFetchItems, the list and the grid they fill, the status line, the *)
(* progress bar and its tasks, and the four exports, which differ in the    *)
(* text they write only.                                                    *)
(*                                                                          *)
(* All of it runs on the user interface's thread except the opening of a    *)
(* connection and the progress tasks, so a step is what happens between two *)
(* awaits or boxes.  While a box is open the user cannot do anything but    *)
(* answer it, but what awaited something goes on underneath, and a box it   *)
(* opens comes on top.                                                      *)
(*                                                                          *)
(* The tree loader writes its own counts into the same status label and     *)
(* uses the same progress bar; what it does to them is left out.            *)
(***************************************************************************)
EXTENDS Integers, Sequences

CONSTANTS
  Queries,        \* query texts; each has one answer
  Count,          \* the number of rows of each answer
  Columns,        \* the columns of each answer
  MaxActive,      \* how many queries the user lets run at the same time
  Full,           \* the progress bar's maximum, 100
  Enough,         \* where the progress tasks stop, 90
  MaxTasks,       \* bound: progress tasks that have not ended
  NoTable, NoStatus, NoFile, Torn

Row == [query : Queries, nr : Nat]

ASSUME ResultsAssumption ==
  /\ Count \in [Queries -> Nat]
  /\ NoTable \notin Seq(Row)
  /\ MaxActive \in Nat /\ MaxTasks \in Nat
  /\ Full \in Nat /\ Enough \in Nat /\ Enough <= Full

VARIABLES
  items,          \* Globals.internal_items_list
  grid,           \* data_viewer.DataSource
  status,         \* the count in fetch_status
  fetch,          \* how far each running FetchItems is
  boxes,          \* the open boxes and dialogs, the top one last
  bar,            \* connection_process
  checking,       \* progress tasks that are about to look at the bar
  bumping,        \* progress tasks that have, and want it to go on
  file            \* what the last export wrote

vars ==
  <<items, grid, status, fetch, boxes, bar, checking, bumping, file>>

-----------------------------------------------------------------------------

Rows(q, n) == [i \in 1..n |-> [query |-> q, nr |-> i]]

Slots == 1..MaxActive

Idle == [at |-> "none"]

Fetch == {Idle} \cup [at : {"opening", "failed"}, query : Queries]

Message == [kind |-> "message"]

Failure(s) == [kind |-> "failed", slot |-> s]

SaveDialog(rows) == [kind |-> "save", rows |-> rows]

Boxes ==
  {Message} \cup [kind : {"failed"}, slot : Slots]
            \cup [kind : {"save"}, rows : Seq(Row)]

TypeOK ==
  /\ items \in Seq(Row)
  /\ grid = NoTable \/ grid \in Seq(Row)
  /\ status = NoStatus \/ status \in Nat
  /\ fetch \in [Slots -> Fetch]
  /\ boxes \in Seq(Boxes)
  /\ bar \in [visible : BOOLEAN, value : 0..Full]
  /\ checking \in Nat /\ bumping \in Nat
  /\ file \in {NoFile, Torn} \/ file \in Seq(Row)

Init ==
  /\ items = <<>>
  /\ grid = NoTable
  /\ status = NoStatus
  /\ fetch = [s \in Slots |-> Idle]
  /\ boxes = <<>>
  /\ bar = [visible |-> FALSE, value |-> 0]
  /\ checking = 0 /\ bumping = 0
  /\ file = NoFile

UserFree == boxes = <<>>

Open(box) == boxes' = Append(boxes, box)

Top == boxes[Len(boxes)]

Below == SubSeq(boxes, 1, Len(boxes) - 1)

(* ToDataTable takes the columns of the first row and throws when a later   *)
(* row has another one.                                                     *)
Fits(list) ==
  \A i \in 1..Len(list) : Columns[list[i].query] \subseteq Columns[list[1].query]

-----------------------------------------------------------------------------
(* FetchItems and PartialFetchItems up to the opening of the connection.    *)

(* A connection string that ValidateConnectionString refuses, no selected   *)
(* text; without credentials the status is cleared first.                   *)
RefuseQuery ==
  /\ UserFree
  /\ Open(Message)
  /\ status' \in {status, NoStatus}
  /\ UNCHANGED <<items, grid, fetch, bar, checking, bumping, file>>

Uncleared_Cleared == items

Cleared == <<>>

(* A connection string that SqlConnection refuses: logged, and no more.     *)
BadConnectionString ==
  /\ UserFree
  /\ items' = Cleared
  /\ status' = NoStatus
  /\ UNCHANGED <<grid, fetch, boxes, bar, checking, bumping, file>>

StartFetch(s, q) ==
  /\ UserFree
  /\ fetch[s] = Idle
  /\ checking + bumping < MaxTasks
  /\ items' = Cleared
  /\ status' = NoStatus
  /\ bar' = [visible |-> TRUE, value |-> 0]
  /\ checking' = checking + 1
  /\ fetch' = [fetch EXCEPT ![s] = [at |-> "opening", query |-> q]]
  /\ UNCHANGED <<grid, boxes, bumping, file>>

-----------------------------------------------------------------------------
(* The connection is open, or not.                                          *)

Visible_Opened == [bar EXCEPT !.value = Full]

Opened == [visible |-> FALSE, value |-> Full]

(* The whole answer is read and shown, without another await.  When the     *)
(* rows do not fit each other the exception goes to the application's       *)
(* exception box.                                                           *)
ReadAnswer(s) ==
  LET q == fetch[s].query
      all == items \o Rows(q, Count[q])
  IN /\ fetch[s].at = "opening"
     /\ bar' = Opened
     /\ items' = all
     /\ status' = Count[q]
     /\ IF Fits(all) THEN grid' = all /\ UNCHANGED boxes
                     ELSE Open(Message) /\ UNCHANGED grid
     /\ fetch' = [fetch EXCEPT ![s] = Idle]
     /\ UNCHANGED <<checking, bumping, file>>

(* The command or the reader throws after some rows.                        *)
ReadFails(s) ==
  /\ fetch[s].at = "opening"
  /\ bar' = Opened
  /\ \E n \in 0..Count[fetch[s].query] :
       items' = items \o Rows(fetch[s].query, n)
  /\ fetch' = [fetch EXCEPT ![s] = Idle]
  /\ UNCHANGED <<grid, status, boxes, checking, bumping, file>>

(* A SqlException is shown before the bar is hidden.                        *)
OpenRefused(s) ==
  /\ fetch[s].at = "opening"
  /\ Open(Failure(s))
  /\ fetch' = [fetch EXCEPT ![s].at = "failed"]
  /\ UNCHANGED <<items, grid, status, bar, checking, bumping, file>>

(* After another exception the command runs on the closed connection, and   *)
(* throws.                                                                  *)
OpenThrows(s) ==
  /\ fetch[s].at = "opening"
  /\ bar' = [visible |-> FALSE, value |-> 0]
  /\ fetch' = [fetch EXCEPT ![s] = Idle]
  /\ UNCHANGED <<items, grid, status, boxes, checking, bumping, file>>

Answered(s) ==
  ReadAnswer(s) \/ ReadFails(s) \/ OpenRefused(s) \/ OpenThrows(s)

-----------------------------------------------------------------------------
(* The progress tasks.  Nothing stops them but the bar.                     *)

ProgressCheck ==
  /\ checking > 0
  /\ checking' = checking - 1
  /\ bumping' = IF bar.value < Enough THEN bumping + 1 ELSE bumping
  /\ UNCHANGED <<items, grid, status, fetch, boxes, bar, file>>

Stuck_Bumped == bar.value

PastFull_Bumped == bar.value + 1

Bumped == IF bar.value < Full THEN bar.value + 1 ELSE bar.value

ProgressBump ==
  /\ bumping > 0
  /\ bumping' = bumping - 1
  /\ bar' = [bar EXCEPT !.value = Bumped]
  /\ checking' = checking + 1
  /\ UNCHANGED <<items, grid, status, fetch, boxes, file>>

-----------------------------------------------------------------------------
(* Exports and boxes. *)

(* The rows are taken before the dialog is shown.                           *)
Export ==
  /\ UserFree
  /\ Open(IF grid # NoTable /\ Fits(items) THEN SaveDialog(items) ELSE Message)
  /\ UNCHANGED <<items, grid, status, fetch, bar, checking, bumping, file>>

Saved ==
  /\ boxes # <<>> /\ Top.kind = "save"
  /\ boxes' = Append(Below, Message)
  /\ file' \in {Top.rows, file, Torn}
  /\ UNCHANGED <<items, grid, status, fetch, bar, checking, bumping>>

CloseBox ==
  /\ boxes # <<>> /\ Top.kind = "message"
  /\ boxes' = Below
  /\ UNCHANGED <<items, grid, status, fetch, bar, checking, bumping, file>>

(* The finally after a failed opening, and the return.                      *)
CloseFailure ==
  /\ boxes # <<>> /\ Top.kind = "failed"
  /\ boxes' = Below
  /\ bar' = [bar EXCEPT !.visible = FALSE]
  /\ fetch' = [fetch EXCEPT ![Top.slot] = Idle]
  /\ UNCHANGED <<items, grid, status, checking, bumping, file>>

-----------------------------------------------------------------------------

FetchStep ==
  \/ RefuseQuery
  \/ BadConnectionString
  \/ \E s \in Slots : Answered(s) \/ \E q \in Queries : StartFetch(s, q)

ProgressStep == ProgressCheck \/ ProgressBump

BoxStep == Export \/ Saved \/ CloseBox \/ CloseFailure

Next == FetchStep \/ ProgressStep \/ BoxStep

Spec == Init /\ [][Next]_vars

(* Opening a connection ends, if only by its timeout, the progress tasks    *)
(* run on the thread pool, and the thread that shows the boxes serves both. *)
(* Nothing makes the user run queries or answer boxes.                      *)
FairSpec ==
  /\ Spec
  /\ \A s \in Slots : WF_vars(Answered(s))
  /\ WF_vars(ProgressCheck) /\ WF_vars(ProgressBump)

-----------------------------------------------------------------------------
(* Properties. *)

(* For a user who waits for the answer: while the status says "Fetched      *)
(* entries" (DataRequest.cs:616), it says how many rows the grid shows, and *)
(* the list that an export would write holds just these rows.               *)
StatusIsTrue ==
  status # NoStatus => items = grid /\ status = Len(grid)

(* The progress bar is visible exactly while a query waits for its          *)
(* connection or for the user to see that there is none.                    *)
BarIsTrue == bar.visible <=> \E s \in Slots : fetch[s] # Idle

(* The progress tasks of queries that have ended come to an end, whatever   *)
(* became of the queries and whatever boxes are left open.                  *)
ProgressEnds ==
  <>[](\A s \in Slots : fetch[s].at # "opening") => <>[](checking + bumping = 0)

View == INSTANCE ResultView WITH view <- grid

(* The grid goes from one whole answer to the next, and an export never     *)
(* mixes two.                                                               *)
ImplementsResultView == View!Spec
=============================================================================
