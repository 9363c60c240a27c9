--------------------------- MODULE ConnectionPool ---------------------------
(***************************************************************************)
(* The connection pool of the MariaDB connector: Pool with its deque of     *)
(* idle connections, the one appender thread that opens connections, the    *)
(* scheduled thread that removes idle ones, the application threads that    *)
(* take connections and give them back, and the thread that closes it.      *)
(*                                                                          *)
(* A step is what a thread does between two accesses to what the threads    *)
(* share: the atomics totalConnection, pendingRequestNumber and poolState,  *)
(* the deque (each access under its lock) and the appender's task queue.    *)
(* Opening, validating and resetting a connection take time, so what comes  *)
(* before and after them are different steps.  Asking for a connection      *)
(* reads the count and queues the task in one step: a thread between the    *)
(* two is a thread whose request is on its way.                             *)
(***************************************************************************)
EXTENDS Integers, FiniteSets, SequencesExt

CONSTANTS
  Users,          \* the application's threads
  Conns,          \* physical connections
  minPoolSize,
  maxPoolSize,
  MaxTasks,       \* bound: nobody starts a call that may ask for another
                  \* connection while so many requests are queued
  Faults,         \* what the server does: "connect" refuses a connection,
                  \* "validate" fails a ping, "reset" fails a reset, "gone"
                  \* drops the connection under a rollback
  NoConn

ASSUME PoolAssumption ==
  /\ IsFiniteSet(Users)
  /\ minPoolSize \in Nat /\ maxPoolSize \in Nat /\ MaxTasks \in Nat
  /\ 1 <= minPoolSize /\ minPoolSize <= maxPoolSize
  /\ Faults \subseteq {"connect", "validate", "reset", "gone"}
  /\ NoConn \notin Conns

VARIABLES
  total,          \* totalConnection
  pending,        \* pendingRequestNumber
  idle,           \* idleConnections, the end that pollFirst takes from first
  tasks,          \* number of tasks in connectionAppenderQueue
  user,           \* where each application thread is, and what it holds
  appender,       \* the same of the appender thread
  checker,        \* the same of removeIdleTimeoutConnection
  closer,         \* how far Pool::close is; "open" is POOL_STATE_OK
  lost            \* connections that left by an exception, still counted

vars == <<total, pending, idle, tasks, user, appender, checker, closer, lost>>

-----------------------------------------------------------------------------

UserPlaces == {"out", "poll", "check", "drop", "ask", "got", "using", "return"}

(* A thread at one of these has taken a connection that the pool counts.    *)
Holding == {"check", "got", "using", "return"}

User(place, conn, asked) == [at |-> place, conn |-> conn, asked |-> asked]

Out == User("out", NoConn, FALSE)

AppenderPlaces ==
  {"pop", "decide", "connect", "built", "count", "push", "ended"}

Appender(place, conn) == [at |-> place, conn |-> conn]

CloserPlaces ==
  {"open", "pending", "shutdown", "closeAll", "waiting", "leftovers", "last",
   "removed"}

(* POOL_STATE_CLOSING is stored first, the other threads are told later.    *)
Closing == closer # "open"

ShutDown == closer \notin {"open", "pending", "shutdown"}

(* The deque's lock is held over a whole pass of the idle check.            *)
Locked == checker.at \in {"scan", "release"}

TypeOK ==
  /\ total \in Int
  /\ pending \in Int
  /\ idle \in Seq(Conns)
  /\ tasks \in Nat
  /\ user \in [Users -> [at : UserPlaces, conn : Conns \cup {NoConn},
                         asked : BOOLEAN]]
  /\ appender \in [at : AppenderPlaces, conn : Conns \cup {NoConn}]
  /\ checker \in [at : {"off", "due", "scan", "release"}, pos : Nat]
  /\ closer \in CloserPlaces
  /\ lost \in Nat

(* After the constructor: one connection is open and the others of          *)
(* minPoolSize have been asked for.                                         *)
Init ==
  /\ \E c \in Conns : idle = <<c>>
  /\ total = 1
  /\ pending = 0
  /\ tasks = minPoolSize - 1
  /\ user = [u \in Users |-> Out]
  /\ appender = Appender("pop", NoConn)
  /\ checker = [at |-> "off", pos |-> 1]
  /\ closer = "open"
  /\ lost = 0

-----------------------------------------------------------------------------
(* Pool::addConnectionRequest; a closed queue takes no more tasks.          *)
Unasked_addConnectionRequest == UNCHANGED tasks

addConnectionRequest ==
  tasks' = IF total < maxPoolSize /\ ~Closing THEN tasks + 1 ELSE tasks

MayAsk == tasks < MaxTasks

-----------------------------------------------------------------------------
(* An application thread in getPoolConnection.  It polls once, asks for a   *)
(* connection, and polls again until connectTimeout.                        *)

getPoolConnection(u) ==
  /\ user[u].at = "out"
  /\ MayAsk
  /\ closer # "removed"
  /\ pending' = pending + 1
  /\ user' = [user EXCEPT ![u] = User("poll", NoConn, FALSE)]
  /\ UNCHANGED <<total, idle, tasks, appender, checker, closer, lost>>

Peek_AfterPoll == idle

AfterPoll == Tail(idle)

pollFirst(u) ==
  /\ user[u].at = "poll"
  /\ ~Locked
  /\ idle # <<>>
  /\ user' = [user EXCEPT ![u].at = "check", ![u].conn = Head(idle)]
  /\ idle' = AfterPoll
  /\ UNCHANGED <<total, pending, tasks, appender, checker, closer, lost>>

NothingIdle(u) ==
  /\ user[u].at = "poll"
  /\ ~user[u].asked
  /\ ~Locked
  /\ idle = <<>>
  /\ user' = [user EXCEPT ![u].at = "ask"]
  /\ UNCHANGED <<total, pending, idle, tasks, appender, checker, closer, lost>>

AskForConnection(u) ==
  /\ user[u].at = "ask"
  /\ addConnectionRequest
  /\ user' = [user EXCEPT ![u] = User("poll", NoConn, TRUE)]
  /\ UNCHANGED <<total, pending, idle, appender, checker, closer, lost>>

ConnectTimeout(u) ==
  /\ user[u].at = "poll"
  /\ user[u].asked
  /\ ~Locked
  /\ idle = <<>>
  /\ pending' = pending - 1
  /\ user' = [user EXCEPT ![u] = Out]
  /\ UNCHANGED <<total, idle, tasks, appender, checker, closer, lost>>

IsValid(u) ==
  /\ user[u].at = "check"
  /\ user' = [user EXCEPT ![u].at = "got"]
  /\ UNCHANGED <<total, pending, idle, tasks, appender, checker, closer, lost>>

NotValid(u) ==
  /\ user[u].at = "check"
  /\ "validate" \in Faults
  /\ total' = total - 1
  /\ user' = [user EXCEPT ![u].at = "drop"]
  /\ UNCHANGED <<pending, idle, tasks, appender, checker, closer, lost>>

DropInvalid(u) ==
  /\ user[u].at = "drop"
  /\ addConnectionRequest
  /\ user' = [user EXCEPT ![u].at = "poll", ![u].conn = NoConn]
  /\ UNCHANGED <<total, pending, idle, appender, checker, closer, lost>>

Served(u) ==
  /\ user[u].at = "got"
  /\ pending' = pending - 1
  /\ user' = [user EXCEPT ![u].at = "using"]
  /\ UNCHANGED <<total, idle, tasks, appender, checker, closer, lost>>

-----------------------------------------------------------------------------
(* MariaDbConnection::close and Pool::connectionClosed.  A connection that  *)
(* is broken when its thread closes it may throw in the rollback, and then  *)
(* nothing tells the pool.                                                  *)

Forgotten_Returning(u) == User("return", NoConn, FALSE)

Returning(u) == [user[u] EXCEPT !.at = "return"]

Close(u) ==
  /\ user[u].at = "using"
  /\ IF Closing
       THEN total' = total - 1 /\ user' = [user EXCEPT ![u] = Out]
       ELSE user' = [user EXCEPT ![u] = Returning(u)] /\ UNCHANGED total
  /\ UNCHANGED <<pending, idle, tasks, appender, checker, closer, lost>>

RollbackThrows(u) ==
  /\ user[u].at = "using"
  /\ "gone" \in Faults
  /\ lost' = lost + 1
  /\ user' = [user EXCEPT ![u] = Out]
  /\ UNCHANGED <<total, pending, idle, tasks, appender, checker, closer>>

(* The connection is reset before it is put into the deque.                 *)
Reset(u) ==
  /\ user[u].at = "return"
  /\ ~Locked
  /\ idle' = Append(idle, user[u].conn)
  /\ user' = [user EXCEPT ![u] = Out]
  /\ UNCHANGED <<total, pending, tasks, appender, checker, closer, lost>>

Uncounted_AfterFailedReset == total

AfterFailedReset == total - 1

ResetFails(u) ==
  /\ user[u].at = "return"
  /\ "reset" \in Faults
  /\ total' = AfterFailedReset
  /\ user' = [user EXCEPT ![u] = Out]
  /\ UNCHANGED <<pending, idle, tasks, appender, checker, closer, lost>>

UserStep(u) ==
  \/ getPoolConnection(u)
  \/ pollFirst(u)
  \/ NothingIdle(u)
  \/ AskForConnection(u)
  \/ ConnectTimeout(u)
  \/ IsValid(u)
  \/ NotValid(u)
  \/ DropInvalid(u)
  \/ Served(u)
  \/ Close(u)
  \/ RollbackThrows(u)
  \/ Reset(u)
  \/ ResetFails(u)

-----------------------------------------------------------------------------
(* The appender thread: ThreadPoolExecutor::workerFunction, the task and    *)
(* Pool::addConnection.                                                     *)

PopTask ==
  /\ appender.at = "pop"
  /\ IF ShutDown
       THEN appender' = Appender("ended", NoConn) /\ UNCHANGED tasks
       ELSE /\ tasks > 0
            /\ tasks' = tasks - 1
            /\ appender' = Appender("decide", NoConn)
  /\ UNCHANGED <<total, pending, idle, user, checker, closer, lost>>

PendingOnly_ConnectionWanted == pending > 0 /\ total < maxPoolSize

ConnectionWanted ==
  (total < minPoolSize \/ pending > 0) /\ total < maxPoolSize

Decide ==
  /\ appender.at = "decide"
  /\ appender' = Appender(IF ConnectionWanted THEN "connect" ELSE "pop", NoConn)
  /\ UNCHANGED <<total, pending, idle, tasks, user, checker, closer, lost>>

InHand == {appender.conn} \cup {user[u].conn : u \in Users}

Connect ==
  /\ appender.at = "connect"
  /\ \E c \in Conns \ (InHand \cup ToSet(idle)) :
       appender' = Appender("built", c)
  /\ UNCHANGED <<total, pending, idle, tasks, user, checker, closer, lost>>

ConnectFails ==
  /\ appender.at = "connect"
  /\ "connect" \in Faults
  /\ appender' = Appender("pop", NoConn)
  /\ UNCHANGED <<total, pending, idle, tasks, user, checker, closer, lost>>

CheckState ==
  /\ appender.at = "built"
  /\ appender' = IF Closing THEN Appender("pop", NoConn)
                            ELSE [appender EXCEPT !.at = "count"]
  /\ UNCHANGED <<total, pending, idle, tasks, user, checker, closer, lost>>

(* The count is not taken back when it comes out too high.                  *)
Count ==
  /\ appender.at = "count"
  /\ total' = total + 1
  /\ appender' = IF total + 1 <= maxPoolSize
                   THEN [appender EXCEPT !.at = "push"]
                   ELSE Appender("pop", NoConn)
  /\ UNCHANGED <<pending, idle, tasks, user, checker, closer, lost>>

Push ==
  /\ appender.at = "push"
  /\ ~Locked
  /\ idle' = <<appender.conn>> \o idle
  /\ appender' = Appender("pop", NoConn)
  /\ UNCHANGED <<total, pending, tasks, user, checker, closer, lost>>

AppenderStep ==
  PopTask \/ Decide \/ Connect \/ ConnectFails \/ CheckState \/ Count \/ Push

-----------------------------------------------------------------------------
(* Pool::removeIdleTimeoutConnection.  Any connection may be found to have  *)
(* been idle for too long.                                                  *)

StartCheck ==
  /\ checker.at = "off"
  /\ ~ShutDown
  /\ MayAsk
  /\ checker' = [at |-> "due", pos |-> 1]
  /\ UNCHANGED <<total, pending, idle, tasks, user, appender, closer, lost>>

LockIdles ==
  /\ checker.at = "due"
  /\ checker' = [checker EXCEPT !.at = "scan"]
  /\ UNCHANGED <<total, pending, idle, tasks, user, appender, closer, lost>>

KeepIdle ==
  /\ checker.at = "scan"
  /\ checker.pos <= Len(idle)
  /\ checker' = [checker EXCEPT !.pos = @ + 1]
  /\ UNCHANGED <<total, pending, idle, tasks, user, appender, closer, lost>>

ReleaseIdle ==
  /\ checker.at = "scan"
  /\ checker.pos <= Len(idle)
  /\ total' = total - 1
  /\ checker' = [checker EXCEPT !.at = "release"]
  /\ UNCHANGED <<pending, idle, tasks, user, appender, closer, lost>>

EraseIdle ==
  /\ checker.at = "release"
  /\ idle' = RemoveAt(idle, checker.pos)
  /\ addConnectionRequest
  /\ checker' = [checker EXCEPT !.at = "scan"]
  /\ UNCHANGED <<total, pending, user, appender, closer, lost>>

EndCheck ==
  /\ checker.at = "scan"
  /\ checker.pos > Len(idle)
  /\ checker' = [at |-> "off", pos |-> 1]
  /\ UNCHANGED <<total, pending, idle, tasks, user, appender, closer, lost>>

CheckPass == LockIdles \/ KeepIdle \/ ReleaseIdle \/ EraseIdle \/ EndCheck

CheckerStep == StartCheck \/ CheckPass

-----------------------------------------------------------------------------
(* Pool::close.  It shuts the appender and the checker down without waiting *)
(* for them, and for ten seconds closes what comes back.                    *)

BeginClose ==
  /\ ~Closing
  /\ closer' = "pending"
  /\ UNCHANGED <<total, pending, idle, tasks, user, appender, checker, lost>>

ForgetRequests ==
  /\ closer = "pending"
  /\ pending' = 0
  /\ closer' = "shutdown"
  /\ UNCHANGED <<total, idle, tasks, user, appender, checker, lost>>

CancelAndShutdown ==
  /\ closer = "shutdown"
  /\ closer' = "closeAll"
  /\ UNCHANGED <<total, pending, idle, tasks, user, appender, checker, lost>>

closeAll ==
  /\ ~Locked
  /\ total' = total - Len(idle)
  /\ idle' = <<>>

CloseIdle ==
  /\ closer = "closeAll"
  /\ closeAll
  /\ closer' = "waiting"
  /\ UNCHANGED <<pending, tasks, user, appender, checker, lost>>

WaitForUsers ==
  /\ closer = "waiting"
  /\ \/ total > 0 /\ closer' = "closeAll"
     \/ closer' = "leftovers"
  /\ UNCHANGED <<total, pending, idle, tasks, user, appender, checker, lost>>

LookForLeftovers ==
  /\ closer = "leftovers"
  /\ closer' = IF total > 0 \/ idle = <<>> THEN "last" ELSE "removed"
  /\ UNCHANGED <<total, pending, idle, tasks, user, appender, checker, lost>>

CloseLeftovers ==
  /\ closer = "last"
  /\ closeAll
  /\ closer' = "removed"
  /\ UNCHANGED <<pending, tasks, user, appender, checker, lost>>

CloserStep ==
  \/ BeginClose \/ ForgetRequests \/ CancelAndShutdown
  \/ CloseIdle \/ WaitForUsers \/ LookForLeftovers \/ CloseLeftovers

-----------------------------------------------------------------------------

Next ==
  \/ \E u \in Users : UserStep(u)
  \/ AppenderStep
  \/ CheckerStep
  \/ CloserStep

Spec == Init /\ [][Next]_vars

(* The appender and the checker are threads that run, and what the          *)
(* application's threads do inside the pool's code ends.  The scheduled     *)
(* thread sleeps for a second between two passes, so whoever waits for the  *)
(* deque's lock gets it (SF).  Nothing makes an application ask for a       *)
(* connection, or close one or the pool.                                    *)
Fairness ==
  /\ WF_vars(AppenderStep)
  /\ SF_vars(Push)
  /\ WF_vars(CheckPass)
  /\ \A u \in Users :
       WF_vars(AskForConnection(u) \/ DropInvalid(u))

FairSpec == Spec /\ Fairness

-----------------------------------------------------------------------------
(* Properties.                                                              *)

Holders == {u \in Users : user[u].at \in Holding}

One(condition) == IF condition THEN 1 ELSE 0

(* totalConnection counts every connection of the pool exactly once,        *)
(* wherever the threads are: in the deque, in a thread's hands or on its    *)
(* way into the deque (Pool.cpp:185, 232, 294, 541, 683, 700), and never    *)
(* exceeds maxPoolSize.  What is lost stays counted for ever.               *)
CountsAgree ==
  /\ total + One(checker.at = "release") =
       Len(idle) + Cardinality(Holders) + One(appender.at = "push") + lost
  /\ total <= maxPoolSize

(* An open pool never forgets that it is below minPoolSize: what is missing *)
(* has been asked for, or is being asked for by the thread that found it    *)
(* missing.  Whoever removes a connection asks for another one after it     *)
(* has counted it out, and the appender looks at the count after that.      *)
Droppers == {u \in Users : user[u].at = "drop"}

MinimumWanted ==
  ~Closing =>
    total + tasks + Cardinality(Droppers) + One(checker.at = "release")
      + One(appender.at \in {"decide", "connect", "built", "count"})
    >= minPoolSize

(* "minPoolSize indicates the number of physical connections the pool       *)
(* should keep available at all times" (DefaultOptions.cpp:591): while the  *)
(* pool is open and the server accepts and resets connections, it gets back *)
(* to that number whatever times out or fails its validation.               *)
MinimumRestored == []<>(Closing \/ total - lost >= minPoolSize)

(* A thread has its connection to itself from the moment it takes it out of *)
(* the deque until the connection is back in it: the lease passes from one  *)
(* thread to another only by way of the pool.                               *)
Leases ==
  INSTANCE ConnectionLeases WITH
    lease <- [c \in Conns |-> {u \in Users : user[u].conn = c}],
    available <- ToSet(idle)

ImplementsLeases == Leases!Spec

(* "If possible return idle connection, if not, stack connection query, ask *)
(* for a connection creation, and loop until a connection become idle / a   *)
(* new connection is created" (Pool.cpp:387-389): whoever waits while the   *)
(* pool may still grow has a request on its way.                            *)
WaiterHasRequest ==
  \A u \in Users :
    /\ user[u].at = "poll"
    /\ user[u].asked
    /\ idle = <<>>
    /\ total < maxPoolSize
    /\ ~Closing
    => \/ tasks > 0
       \/ appender.at # "pop"
       \/ Droppers # {}
       \/ checker.at = "release"
=============================================================================
