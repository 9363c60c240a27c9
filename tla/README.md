# Teron SQL Database Editor in TLA+

A verification project for the Windows Forms program in `src/`: a browser and
query editor for SQL Server databases, with an editor for game client tables
(DBC files) behind the same start menu.  The program is about 3800 lines of
hand-written C# and has no tests.  Beside it lies the source of a vendored C++
database connector, of which the connection pool is modelled.

Six parts are modelled: `ConnectionTree`, what the user sees of the saved
connections; `ConnectionStore`, what is saved of them; `DbcEditor`, the editor
of client tables; `QueryResults`, queries, their answers, the progress bar and
the exports; `QueryEditor`, the query tabs and the selections that write into
them; and `ConnectionPool`, the pool of the connector.  All are model-checked,
and all have their type correctness and main safety properties proved for all
values of the constants.

## The system

| Component | Source | State | Operations |
|---|---|---|---|
| Connections tree loader | `HelperFunctions.PopulateTreeViewFromDatabase`, `DataRequest.Get*Info`, handlers of `AppForm` | `connections_tree_view.Nodes`, `Globals.internal_{schemas,tables,columns}_list`, `is_loading`, `update_timer` | form load, tick, refresh button, refresh menu |
| Saved connections store | `App`, `AppDelete`, `AppLogin` | `loginconfig.xml`, `Globals.login_list`, the list boxes of the delete windows | login, reload, select, delete selected, delete all |
| DBC editor | `DBCEditor` | tabs, tables, filters, files | open, edit, filter, save, save as, save all |
| Query results | `DataRequest.FetchItems`, `PartialFetchItems` | `Globals.internal_items_list`, the grid, the status line | run, run selection |
| Query result export | `ExportQueryResults` | none of its own | CSV, SQL, XML, JSON |
| Progress bar | tasks inside each fetch | `connection_process` | start, tick, stop |
| Query tabs | `AddNewTab`, `NameQueryTabs`, mouse handlers of `AppForm` | tabs, `Globals.box_list`, `custom_sql_query` | add, close, switch, paint, type |
| Selection query | `AppForm.AfterSelect`, `SetQuery`, `SelectItemsFromSelectedTable` | `Globals.schema`, `table`, `column`, the current credentials | select a node |
| Query files | `ExportQuery`, `ImportQuery` | one text box | save, load |
| Connection pool | `Pool`, `MariaDbConnection::close`, `ThreadPoolExecutor` of the connector | `totalConnection`, `pendingRequestNumber`, the deque, the task queue | get, close, append, check idle ones, close the pool |
| Rest of the connector | protocol, statements, result sets, metadata | one connection's | not modelled |
| Application shell | `Program`, `Startup` | the single-instance mutex, `error.log`, the forms | not modelled |
| Version order | `VersionComparer` | none | not modelled |

Designer files are generated, and `Resources/Definitions` is data.  No project
file of the repository references the connector in `redist/`.

**How they interact.**  Everything in the application but the animation of the
progress bar and `SqlConnection.Open` runs on the one UI thread.  Components
share the static fields of `Globals` and nothing guards these but the thread
itself.  A handler keeps the thread until it returns, awaits, or shows a
message box; the box runs a message loop in which ticks and continuations of
awaits go on arriving, while the user's input to every other window is blocked.
An exception in a handler is written to `error.log` (`Program.LogException`)
and the program goes on.  The store fills `login_list`; the loader takes a
snapshot of it; both enable or disable the timer through
`App.LoadConnectionDetails`.  A selection sets the credentials, and the text
that Run Query runs; a query fills the list that an export writes.  The pool is
the one part where several threads work on shared state.

**What is hard.**  Loads that overlap, each with lists of its own that are
copied from shared ones after an await; message boxes in the middle of a load;
a fetch that fails at any of its steps; a login that is refused half way; saves
that truncate before they write; a delete loop that removes from three
collections by three keys; windows that show an older list; connections of the
same nickname; queries and their progress tasks that overlap; answers that come
after the tab they were for was closed; tabs addressed by their index in
another list; five places that change one counter of the pool outside its lock.
`PROJECT.json` lists each at its line.

**What makes each correct.**  The tree: every schema, table and column hangs
under the node it was read for, nothing that was read is lost, each load ends,
and the messages are true.  The store: IDs are unique, no connection is lost
unasked, list and file agree.  The DBC editor: what is saved is what was opened
and edited.  Results and export: rows of one query, and the rows on show.
Selection and tabs: a query is written into the tab it was meant for, with the
credentials of the connection it was selected in, and what runs is what is
shown.  The pool: each connection is counted once and is in the hands of one
thread, there are never more than the maximum, and the minimum comes back.

## Modules

| Module | What it is |
|---|---|
| `ConnectionTree` | the loader: one action per handler, fetch phase and loop step |
| `TreeView` | abstract: a load replaces the tree by one node per connection, each with an intact or a cut-short answer |
| `ConnectionTreeSerial` | `ConnectionTree` with one load at a time, and its refinement of `TreeView` |
| `ConnectionTreeProofs` | theorems about `ConnectionTree`, and its refinement of `TreeView` |
| `ConnectionStore` | the file, the list and the delete windows |
| `ConnectionStoreProofs` | theorems about `ConnectionStore` |
| `DbcEditor` | the table editor: reading, tabs, grids, filters, the three saves |
| `TableStore` | abstract: files of tables, tabs with a table of their own, saves that put one into the other or lose the file |
| `DbcEditorTables` | the refinement of `TableStore` by `DbcEditor` |
| `DbcEditorProofs` | theorems about `DbcEditor`, and its refinement of `TableStore` |
| `QueryResults` | queries in flight, the list, the grid, the status, the bar and its tasks, exports |
| `ResultView` | abstract: the grid shows one whole answer, a file holds rows of one |
| `QueryResultsProofs` | theorems about `QueryResults` |
| `QueryEditor` | tabs and text boxes, selections that wait for columns, imports |
| `QueryEditorProofs` | theorems about `QueryEditor` |
| `ConnectionPool` | the pool: a step per access to what the threads share |
| `ConnectionLeases` | abstract: a connection is available or leased to one thread |
| `ConnectionPoolProofs`, `ConnectionLeasesProofs` | theorems about `ConnectionPool`, and its refinement of `ConnectionLeases` |
| `SequenceLemmas` | facts about removing an element and about row-by-row places, for the proofs |
| `MC...` | instances for TLC |

### ConnectionTree

`stack` is the UI thread: the handlers that are on it, the running one on top.
A handler that awaits `Open` leaves the stack and comes back on top when it
resumes, which needs a message loop: an empty stack, or a box on top of it
(`InLoop`).  User actions need an empty stack.  `load[l]` holds the locals of
an activation of `PopulateTreeViewFromDatabase`: the rest of its snapshot of
`login_list`, the rest of the schemas and tables it copied, and the children it
has hung up.  A fetch is `Call` (clear the list, or refuse before that),
`Read` (any number of rows if it may fail, all of them if not) or `OpenFails`
with its box, then `CopyList`, the `ToList()` in the caller.  The text log,
the progress bar and the credentials are left out; what a server answers is the
constant `Catalog`, and which connections a fetch refuses is `Rejected`.
Code between two awaits or boxes cannot be interrupted, so splitting it into
steps adds no behaviour: nothing else is enabled while it is on top.

The login window appears as `RefuseLogin` only: a login that succeeds acts on
an `AppForm` of its own that is never shown (`AppLogin.cs:23`).  That hidden
form has a timer too, which the login enables; its loads are not modelled.

### ConnectionStore

The file is a sequence of `[ID, Nickname]` records, missing, or `Corrupt`; the
credentials are carried along by the code and are left out.  Nicknames are
never empty, because `AuthenticateUser` refuses that.  `Save` may fail in the
ways `DiskFaults` names: *denied* leaves the file alone, *torn* leaves half a
document (`XDocument.Save` truncates first), each with the exception that
follows, and a torn save may take the process down (`DiesInSave`).  `Restart`
ends the process at any moment.  A handler is one step, but for
`delete_selected_Click`, whose loop is a step per entry under `job`; it shows
no box inside the loop, so nothing else happens meanwhile.  `job.asked`, the
items at the click, is there for the properties only.

### DbcEditor

A file is its header (`magic`, record and field count, size of the string
block) and a body of 32-bit words, of which the constant `WordSize` says how
many values they have; the header's record size is never used by the code and
left out.  `Definitions` says which field types a version's XML gives for a
file, none if it has none.  Reading is translated word by word (`Records`):
as many words per record as there are definitions, whatever the header says,
and the string block from wherever that ends.  Of a cell's text only three
things are told apart: the number it spells, `Prose` (spells none) and `Null`
(left empty), which is what `uint.TryParse` and the filters see of it.

A save (`Written`) takes the rows of the *grid*: those the default view's
filter lets through, in the table's order, and the placeholder for a new row,
because `AllowUserToAddRows` is on.  `Write` has the outcomes of the code:
written; *denied*, before the file is opened; *torn*, an exception or the end
of the process with a prefix on the disk; *late*, an exception when `using`
disposes of the stream, after the message of success was set.  `SaveFile` and
`SaveFileAs` are one step; `SaveAll` is a step per tab with its counters in
`job`, because the process may end between two.  It shows its boxes after the
loop, so nothing else happens meanwhile.  A filter is set on the table's default
view (`filter`), and `bound` says what the grid's `DataSource` is, which is all
that `ClearFilter` looks at and changes.

Left out: sorting by a column, a cell that is still being edited when a save
begins, tables without records or fields, and a rejected filter that is tried
again on the same binding source.

### QueryResults

`fetch[s]` is how far a running `FetchItems` or `PartialFetchItems` is; the two
differ in where the query's text comes from, which is left out.  What happens
between the opening of the connection and the return is one step, because the
code reads the whole answer without another await: `ReadAnswer`, `ReadFails`
after any number of rows, `OpenRefused` (a `SqlException`, whose box is shown
before the bar is hidden) or `OpenThrows`.  An answer is a sequence of numbered
rows of its query, and `Fits` says when `ToDataTable` accepts the list: mixed
rows whose columns are not all the first row's throw.  `boxes` are the open
message boxes and save dialogs; under a box queries go on being answered.
`checking` and `bumping` count the progress tasks that are about to look at the
bar's value or to raise it: these are the two messages a task sends to the UI
thread, and no task knows which query started it.  The four exports are one
action, because they take the rows the same way and differ in format only.

`MaxActive` is how many queries the user lets run at once.  Nothing in the code
keeps it at one; `MaxActive = 1` is a user who waits, and the properties that
need one say so.  The tree loader and `SetQuery` write into the same status
label and move the same bar: what they do to them is left out.

### QueryEditor

A tab page is the text box it shows, so that `tabs` and `box_list` are two
sequences of boxes, and the code's way from one to the other is the index
(`BoxAt`).  `box_list` is static and survives the form; `AppForm_Load` adds to
what is left of an earlier life.  The mouse selects a tab when it is pressed on
its cross, so the tab that is closed is the selected one.  `DrawItem` disposes
of the page it paints, at any moment that Windows chooses to paint.  Where the
framework leaves open whether an event is raised (the first tab of a control,
the text of a box that has no page), the model has both.

A column asks for columns first: `AfterSelect` awaits with the text box and the
node it began with in `job`, and `Resume` is the rest of the handler, which
then reads `SelectedNode` again.  `OpenFails` shows a message box on top of
whatever box or dialog is open; `stack` is the windows that block the user, and
only the top one may be closed.  A selection that needs no columns is one step.
`globals` are the credentials, of which the connection's name is enough, and
`schema`, `table` and `column`.

Left out: the tabs' titles, the save of a query to a file, a refresh of the
tree and the end of the form while a selection waits, and a `login_list` that
has lost the selected connection.

### ConnectionPool

A step is what a thread does between two accesses to what the threads share:
the atomics `totalConnection`, `pendingRequestNumber` and `poolState`, the
deque under its lock, and the task queue.  `user[u]` is an application thread
in `getPoolConnection` and `close`, `appender` the one thread that opens
connections, `checker` the scheduled `removeIdleTimeoutConnection`, which holds
the deque's lock over a whole pass (`Locked`), and `closer` is `Pool::close`.
Asking for a connection reads the count and queues the task in one step; a
thread between the two would be one whose request is on its way, which `ask`
is.  Time is not modelled: any idle connection may be found to be too old, and
a poll that has asked may end by its timeout whenever the deque is empty.

`Faults` says what the server does: refuse a connection (the appender swallows
that), fail a ping or a reset, or drop a connection so that the rollback in
`close` throws, after which nothing tells the pool.  `lost` counts these for
the properties.  The map of pools and connections for another user are left
out.

## Runs

| Run | Instance | Shows |
|---|---|---|
| `tree_faults` | two connections, one of them refused, two loads, every fault | types and the tick guard under every failure; a load with no failed fetch loses no row of its own |
| `tree_serial` | two connections, one load, faults | implements `TreeView`; each row under its parent; "Loaded all connections!" is true |
| `tree_live` | one connection, two loads, fairness | every load ends; the tree appears by itself |
| `store` | two windows, two nicknames, IDs to 3, both disk faults | unique IDs, no loss unasked, unreadable file kept; list, file, items and reported counts agree |
| `dbc` | one file with a string block, two tabs of it, two versions that read it as different fields, all faults | types; a torn file is never opened as a table; the report of Save All is true |
| `dbc_tables` | one file of two unsigned fields, edits, a filter that hides rows, torn saves | implements `TableStore`: reading undoes writing |
| `results` | three queries, one at a time, two progress tasks, fairness | implements `ResultView`; status and bar are true; the tasks end |
| `results_overlap` | *violation*: two queries at a time | the grid shows both answers, the status counts one |
| `editor` | two boxes, two nodes of two connections, two selections, an import, fairness | tabs and boxes stay paired, what runs is shown, globals and texts of late answers, selections end |
| `pool_faults` | two threads, four connections, sizes 1 to 2, every fault | counts agree; implements `ConnectionLeases` |
| `pool_live` | two threads, two connections, failing pings, fairness | while connects and resets succeed, the minimum is asked for and comes back |
| `pool_waiter` | *violation*: three threads, sizes 1 to 3, no fault | a thread waits and no request is on its way |

**Bounds.**  *Tree.* `Loads` bounds the loads in progress at once: two are
enough for one to clear or fill a list between another's clearing and copying,
which is the only way they meet.  The three levels are the same code over three
lists, so `tree_faults` has rows at the first only, two of them, between which a
read may fail; `tree_serial` has rows at every level and goes through each loop
more than once.  *Store.* `MaxID` bounds the logins without a deletion in
between: three connections with two nicknames give an equal pair with another
before, between or after it.  Two windows make one of them stale.  *DBC.*
`WordSize` 4 has a zero, a word with the sign bit and two without; two fields
tell the order of a record's words from that of its columns.  Two tabs, of one
path, are enough to overwrite each other's file; `dbc_tables` has one, since
tabs share nothing but files.  The two versions' definitions and those of
`dbc_tables` have every field type.  `MaxRows` and `MaxTabs` bound what is
opened and added, not what is saved.  *Results.* Answers of no, one and two
rows, so that a read may fail before, between and after rows; two tasks, one of
which may be left over from an earlier query; a bar of three values that stops
at two.  *Editor.* Two boxes give two tabs, of which one is not selected, a form
that is opened again with a box left over, and an index beyond the tabs; a
schema of one connection, which needs no columns, and a column of another tell
whose credentials are set by a late answer; two selections may be answered in
either order.  *Pool.* One connection more than `maxPoolSize` lets the appender
open one too many, four let one come while others are dropped; `pool_live` has
two, so that a new one waits for the dropped one to be closed; `MaxTasks` stops
a call that may ask for a connection from starting while so many requests are
queued, and changes nothing that has begun.

All runs check for deadlock but the three of the pool, where everything stops
after `close()`.

**Fairness.**  `tree_live`: weak fairness of every step of an activation that is
on the stack or waits for `Open`: the thread goes on by itself, `Open` returns or
throws (it has a connection timeout), and the user closes a message box, which
is assumed because nothing else can be done; and of the tick, because the timer
fires every second while it is enabled.  `results`: weak fairness of the end of
each `OpenAsync` and of the progress tasks, which run on the thread pool; none
of what the user does, boxes included.  `editor`: weak fairness of the answers,
and of closing the boxes and the dialog, without which a selection under them
cannot return.  `pool_live`: weak fairness of the appender, of a pass of the idle
check once it has begun, and of a thread that is inside the pool's code; strong
fairness of the appender's push, because the idle check takes the deque's lock
for milliseconds once in a second.  Nowhere is fairness assumed of what a user
or an application starts.

## Proofs

For any values of the constants that satisfy the stated assumptions:

| Theorem | Statement |
|---|---|
| `ConnectionTreeProofs!TypeCorrect` | `Spec => []TypeOK` |
| `ConnectionTreeProofs!TickGuardHolds` | `Spec => []TickGuard` |
| `ConnectionTreeProofs!NoneLost` | `Spec => NothingLost` |
| `ConnectionTreeProofs!LoadsImplementView` | `Spec => ImplementsTreeView`, if `OneLoad` |
| `ConnectionTreeProofs!UnderItsParent` | `Spec => []EachUnderItsParent`, if `OneLoad` |
| `ConnectionTreeProofs!LoadedAll` | `LoadSpec => []LoadedMeansAll`, if `OneLoad` |
| `ConnectionStoreProofs!TypeCorrect` | `Spec => []TypeOK` |
| `ConnectionStoreProofs!IDsStayUnique` | `Spec => []IDsIncrease` |
| `ConnectionStoreProofs!NoneLostUnasked` | `Spec => RemovedOnRequest` |
| `ConnectionStoreProofs!NothingRepairs` | `Spec => UnreadableKept` |
| `ConnectionStoreProofs!NoneSkipped` | `Spec => []NoneLeftSelected` |
| `ConnectionStoreProofs!NoMoreThanSelected` | `Spec => []AsManyAsSelected` |
| `ConnectionStoreProofs!StaysInStep` | `Spec => KeepsInStep` |
| `ConnectionStoreProofs!CountsStayTrue` | `Spec => CountsAreTrue` |
| `DbcEditorProofs!TypeCorrect` | `Spec => []TypeOK` |
| `DbcEditorProofs!TornStaysClosed` | `Spec => TornRefused` |
| `DbcEditorProofs!SaveAllReportTrue` | `Spec => SaveAllReport` |
| `DbcEditorProofs!EditorImplementsStore` | `Spec => ImplementsTableStore`, if `UnsignedTables` |
| `QueryResultsProofs!TypeCorrect` | `Spec => []TypeOK` |
| `QueryResultsProofs!WaitingStatusIsTrue` | `Spec => []StatusIsTrue`, if `MaxActive = 1` |
| `QueryResultsProofs!WaitingBarIsTrue` | `Spec => []BarIsTrue`, if `MaxActive = 1` |
| `QueryResultsProofs!WaitingShowsAnswers` | `Spec => ImplementsResultView`, if `MaxActive = 1` |
| `QueryEditorProofs!TypeCorrect` | `Spec => []TypeOK` |
| `QueryEditorProofs!TabsHaveBoxes` | `Spec => []EveryTabHasABox` |
| `QueryEditorProofs!TabsStayPaired` | `Spec => KeepsPaired` |
| `QueryEditorProofs!GlobalsAreOfTheSelection` | `Spec => GlobalsFollowSelection` |
| `QueryEditorProofs!LateTextStaysInItsTab` | `Spec => LateTextInItsTab` |
| `QueryEditorProofs!RunQueryRunsTheScreen` | `Spec => RunsWhatIsShown` |
| `ConnectionPoolProofs!TypeCorrect` | `Spec => []TypeOK` |
| `ConnectionPoolProofs!EveryConnectionCounted` | `Spec => []CountsAgree` |
| `ConnectionPoolProofs!MissingIsAskedFor` | `Spec => []MinimumWanted`, if connects and resets succeed |
| `ConnectionLeasesProofs!PoolImplementsLeases` | `Spec => ImplementsLeases` |

*ConnectionTree.*  `TickGuard` says that `is_loading` is set exactly while the
one load that a tick started is in progress.  It is not inductive: a step of
the top of the stack must not be a step of a load that has ended.  `IInv` adds
`StackInv` (an activation is on the stack once, exactly when it is running or
in a box, and all but the top are in boxes) and `LoopsEntered` (a place inside a
loop means its head exists, so `Head` and `Tail` are taken of non-empty
sequences).  The assumption is that answers, files and faults are of their
types.

`NothingLost` holds for any number of loads that overwrite each other's lists.
`CleanInv` says of a load none of whose fetches has failed what the property
says of its end: each schema of the server's answer is hung up or still in the
copied list, each table of the schema that the loop is at likewise, and at
`copy` the shared list holds at least what this load has read.  Another load
cannot take that away, because reading and copying happen on top of the stack
with nothing between them: `IInv` knows that an activation at `copy` is on top.
A fetch asks for children by their parent's name, and of two schemas of one name
it would find the tables of one only; so `CatalogAssumption` says what
`INFORMATION_SCHEMA` guarantees: names are unique among the schemas of a
connection and the tables of a schema.

*ConnectionTreeSerial.*  `OneLoad` says that there is one activation and that
no fetch refuses its connection; with two, or with a refusal, the properties are
false (see the findings).  `OrderInv` is the invariant: what is hung up is a
prefix of the server's answer, what is left of a copied list are the names that
follow in it (`Continues`), and the shared list is empty between a clear and the
read.  It gives both `EachUnderItsParent` and that the step that adds a
connection is the `Show` of `TreeView`: every row of the node is in the order of
the answer, and complete up to where a fetch failed.  `LoadedMeansAll` needs
`ListedInv` instead: once the form is shown `login_list` is what the file holds,
but for the load of the form itself, and each connection of a tick's load is in
the tree or still before it.  That is a theorem of `LoadSpec`, the loads without
the logins, since a refused login empties the list.

*ConnectionStore.*  The file's IDs increase because a login appends one above
the maximum and deletions keep the order; during the loop this must hold of the
document in memory, which is what is saved.  `JobInv` says that, and that the
file is still the readable one the loop began with, that the copy of the list
is not longer than the list (so that the entry the loop removes exists), and
that whatever is selected or gone from the document was selected at the click.
The last two parts give `NoneLostUnasked` and `NothingRepairs`.  The
assumptions are that the three sentinels differ from sequences, and that a
closed window is none of the windows.

`NoneLeftSelected` and `AsManyAsSelected` rest on `TurnInv`, which says where
the loop is: `login_list` is what the turns so far have kept, none of it
selected, and then what is still to be looked at, although each removal shortens
the list it walks along; and, if the window listed no nickname twice, removals
and selected items together are no more than the selected items at the click.
`CountsAreTrue` and `KeepsInStep` need `ListInv` as well, which compares three
collections by how often a nickname occurs in each: `login_list` has no nickname
more often than the file, unless a login that could not save put one there that
the file does not have (`Stranger`); within the loop the same holds of list and
document, and document and removals together are as long as the file.  That is
why a removal by nickname always finds a connection to remove, and why the
count that is reported is the number that left.

*DbcEditor.*  That a grid's rows are all as wide as its columns rests on
reading (`RecordsType`): a record's words are within the body because the file
does not end within a record, which is arithmetic on places (`PlaceOf`,
`RowAndColumn` in `SequenceLemmas`).  `TypeOK` alone is not inductive, because a
file with a header but no fields would open as a grid without columns.  `IInv`
adds that every file on the disk is `WholeOrCut`: it has no magic, is whole, or
is shorter than its records.  A torn save leaves only such files, since what is
written has no string block, so that cutting anything cuts a record.  This
gives `TornRefused`: with at least as many definitions as fields, a cut file
ends within a record.  (With fewer it may be opened, and the property excludes
that.)  For `SaveAllReport`, `JobInv` counts:
among the tabs that had their turn, those that are behind their file and have no
later one for it are at most `failed`; a turn adds at most its own tab, and this
one only with an exception, and can undo earlier tabs' files only by being the
later one.  The assumptions: initial files are whole with at least one record
and one field, and the constants are of their types.

*DbcEditorTables.*  The refinement of `TableStore` maps a whole file to its
words, row by row, and a tab to the numbers of the rows on show.  `UnsignedTables`
says for which definitions it is claimed: all fields unsigned, as many
definitions as fields, and the two values that stand for a missing and a lost
file no tables.  A save undoes a read because place and row-and-column are
inverse to each other (`RowAndColumnOf`), and without a filter the grid shows
every row at its place (`ShownAll`).  `WidthInv` is the invariant: every file
with a header has as many fields, and every tab as many columns, as the files
had at the start.  With `WholeOrCut` it makes any file that opens a whole one
(`OpensWhole`), so that `SelectFile` is `Open` and never of a lost file.
Edits, new and deleted rows, filters made and cleared are `Change` of the
selected tab.

*QueryResults.*  The types hold for any number of queries at once.  The others
are proved together under `MaxActive = 1`, with `Waited`: the list, and what an
open dialog would save, are empty or the first rows of one query, and while a
query waits the list is empty and the status cleared.  A refused query may
leave the status standing, which is sound because it leaves the list alone too.

*QueryEditor.*  `IInv` adds to the types that a waiting selection has a query
and began with a selected node (`WaitingHasSelection`), and that there are as
many boxes as tabs (`EveryTabHasABox`).  That one is inductive although pages
vanish and forms are closed, because every step that takes a box from the list
takes a page too, from a list that is not shorter.  The assumption is that a
node with a column has a table.  `TabsStayPaired` and `RunQueryRunsTheScreen`
compare two states of one step: the cross removes the same index from both
lists, and the framework's choice of the next tab is read from the same place as
the text.

*ConnectionPool.*  `CountsAgree` is not inductive by itself: it needs that who
is at a place that holds a connection has one (`Handed`), and that the appender
opens only when there is room, which no other step can take away (`Room`): only
the appender raises the count, so that between its look at the count and its own
increment the count can only fall.  The cardinality of the threads at a place
changes by the one thread that moves (`OneMoves`).  `MinimumWanted` is inductive
with `Handed`: each step that lowers the count leaves its thread at a place that
the sum counts, until it has asked.  That theorem assumes that the server
accepts and resets connections: a refused connect is swallowed with its request,
and a failed reset is counted out without one.

*ConnectionLeases.*  That nothing is in two places (`Apart`): no connection is
twice in the deque, in two threads' hands, or in the deque and in a hand.

**Only model-checked:** the liveness properties `EveryLoadEnds`, `TreeAppears`,
`ProgressEnds`, `SelectionsEnd` and `MinimumRestored`, which are out of the
prover's reach: they need fairness and `ENABLED`.  Every other property of a
passing run is a theorem, under the condition the table names if any.

## Findings

The two violation runs are disagreements between the code and its own messages
or comments; `PROJECT.json` quotes both sides.  `results_overlap`: two clicks on
Run Query show the rows of both answers and count one.  `pool_waiter`: a
thread that has asked for a connection may see another take it and wait for its
whole timeout although the pool may grow.  The models show more, which have no
run of their own:

*The tree and the store*

- Two overlapping loads hang schemas under the wrong connection: the timer's
  load and that of `AppForm_Load` when the form is opened again
  (`AppForm.cs:30`, `71`).  `EachUnderItsParent` holds for one load at a time
  and fails for two.
- A fetch that refuses its connection returns before it clears its list, so
  that even a single load hangs the rows of the connection before it under the
  refused one (`DataRequest.cs:18`, `HelperFunctions.cs:197`).
- A refused login has emptied `Globals.login_list` (`App.cs:15`), so that "Loaded
  all connections!" and "No connections to delete!" are said of a file that
  has some (`AppForm.cs:72`, `AppDelete.cs:117`).
- With equal nicknames Delete Selected may remove more than is selected, because
  it takes the first item of that text and asks for the selection again
  (`AppDelete.cs:85`); `AsManyAsSelected` holds for windows without them.
- "Select All" selects the first of several equal nicknames as often as there
  are (`AppDelete.cs:33`).

*The DBC editor*

- Clear Filter says "Showing all rows" and leaves rows hidden, because the
  filter is on the view that the grid is bound to again (`DBCEditor.cs:1042`).
- Saving turns negative numbers into 0: every cell is parsed as an unsigned
  number (`DBCEditor.cs:453`, against the comment at 437).
- Two tabs of one file: Save All reports "2 file(s) saved", and the file holds the
  second (`DBCEditor.cs:629`).  `SaveAllReport` says what the report does mean.
- A filter that compares with a number throws in every table, because all
  columns are strings (`DBCEditor.cs:132`, `1384`).
- "No data to save" is never said: the placeholder row counts (`DBCEditor.cs:400`),
  and a table without rows is saved as one record of zeros.
- When the flush of the stream fails, the status still says "File saved
  successfully" (`DBCEditor.cs:467`).
- Definitions with fewer fields than the file has words per record cut the
  records at the wrong words, and a save drops the rest (`DBCEditor.cs:211`).

*Queries*

- An export while a query connects writes an empty file, and one after a failed
  read the rows that came, beside a grid that shows the answer before
  (`ExportQueryResults.cs:27`).
- The text of an older selection overwrites that of a newer one when it is
  answered later, while the globals are the newer one's
  (`HelperFunctions.cs:163`).
- The columns of a node are asked from the connection that was selected before,
  since the credentials are set afterwards (`HelperFunctions.cs:128`).
- After a connection or a schema was selected, Run Query runs nothing, although
  the tab still shows a query (`HelperFunctions.cs:92`).
- Painting a tab's title disposes of the page (`AppForm.cs:229`), and opening the
  form again leaves the boxes of its last life in front (`AppForm.cs:324`):
  from then on a tab's index addresses another box.

*The pool*

- A failed reset or a refused connect leaves an open pool below `minPoolSize` until
  something asks for a connection again (`Pool.cpp:683`, `135`).
- A rollback that throws in `close` costs a place of `maxPoolSize` for ever
  (`MariaDbConnection.cpp:811`).

## Plan

What is left, in this order:

1. `AppForms`: several `AppForm`s, among them the hidden one of a login, with
   one timer each and one `is_loading`.
2. A refresh of the tree while a selection waits, once it is settled which events
   `Nodes.Clear` raises; the loader's and `SetQuery`'s use of the progress bar
   composed with that of the queries.
3. The map of pools with its timer and lock; `AppShell`: mutex, start menu, log;
   `VersionComparer` as an operator against a total order.

## Not modelled

Layout, logging and the wording of messages, unless a property is about them;
the SQL driver and the server beyond what a fetch may answer; changes another
program makes to `loginconfig.xml` (the mutex keeps a second instance of this
one out); the life of the application shell; generated and data files.

By lines most of the repository is the vendored connector, and most of the
project is about the program that the repository is for.  Of the connector only
the pool is modelled: it is the part with shared state and several threads.
The rest (wire protocol, statements, result sets, metadata: over 50 000 lines)
is sequential code of one connection, conversions of bytes and texts and SQL
strings, whose properties are about data and not about order, and which the
repository neither calls nor changes.
