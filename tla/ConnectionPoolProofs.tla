------------------------ MODULE ConnectionPoolProofs -------------------------
(* For any number of threads and connections, any sizes of the pool and any  *)
(* faults of the server: every connection of the pool is counted once, there *)
(* are never more than maxPoolSize, and none is in two threads' hands.       *)
EXTENDS ConnectionPool, SequenceLemmas, FiniteSetTheorems, TLAPS

UserType == [at : UserPlaces, conn : Conns \cup {NoConn}, asked : BOOLEAN]

-----------------------------------------------------------------------------
(* How many threads are at some place. *)

At(f, places) == {u \in Users : f[u].at \in places}

(* When one thread moves, the number of threads at some places changes by    *)
(* that thread alone.                                                        *)
LEMMA OneMoves ==
  ASSUME NEW S, NEW f \in [Users -> S], NEW places, NEW u \in Users, NEW x,
         NEW g, g = [f EXCEPT ![u] = x]
  PROVE  /\ Cardinality(At(f, places)) \in Nat
         /\ Cardinality(At(g, places)) \in Nat
         /\ Cardinality(At(g, places)) =
              Cardinality(At(f, places)) + One(x.at \in places)
                - One(f[u].at \in places)
<1> DEFINE Rest == At(f, places) \ {u}
<1>1. IsFiniteSet(Users)
  BY PoolAssumption
<1>2. IsFiniteSet(Rest) /\ Cardinality(Rest) \in Nat
  <2>1. Rest \subseteq Users
    BY DEF At
  <2> QED BY <1>1, <2>1, FS_Subset, FS_CardinalityType
<1>3. g[u] = x /\ \A v \in Users \ {u} : g[v] = f[v]
  OBVIOUS
<1>4. IF f[u].at \in places THEN At(f, places) = Rest \cup {u}
                            ELSE At(f, places) = Rest
  BY DEF At
<1>5. IF x.at \in places THEN At(g, places) = Rest \cup {u}
                         ELSE At(g, places) = Rest
  BY <1>3 DEF At
<1>6. Cardinality(Rest \cup {u}) = Cardinality(Rest) + 1
  <2>1. u \notin Rest
    OBVIOUS
  <2> QED BY <1>2, <2>1, FS_AddElement
<1>7. Cardinality(At(f, places)) =
        Cardinality(Rest) + One(f[u].at \in places)
  <2>1. CASE f[u].at \in places
    BY <1>4, <1>6, <2>1 DEF One
  <2>2. CASE f[u].at \notin places
    BY <1>2, <1>4, <2>2 DEF One
  <2> QED BY <2>1, <2>2
<1>8. Cardinality(At(g, places)) = Cardinality(Rest) + One(x.at \in places)
  <2>1. CASE x.at \in places
    BY <1>5, <1>6, <2>1 DEF One
  <2>2. CASE x.at \notin places
    <3>1. At(g, places) = Rest
      BY <1>5, <2>2
    <3>2. One(x.at \in places) = 0
      BY <2>2 DEF One
    <3> HIDE DEF Rest
    <3> QED BY <1>2, <3>1, <3>2
  <2> QED BY <2>1, <2>2
<1>9. One(f[u].at \in places) \in Nat /\ One(x.at \in places) \in Nat
  BY DEF One
<1> HIDE DEF Rest
<1> QED BY <1>2, <1>7, <1>8, <1>9

(* The same of the threads of the pool, before and after a step.             *)
LEMMA ThreadMoves ==
  ASSUME NEW u \in Users, NEW x, NEW places,
         user \in [Users -> UserType], user' = [user EXCEPT ![u] = x]
  PROVE  /\ Cardinality(At(user, places)) \in Nat
         /\ Cardinality(At(user', places)) \in Nat
         /\ Cardinality(At(user', places)) =
              Cardinality(At(user, places)) + One(x.at \in places)
                - One(user[u].at \in places)
BY OneMoves

-----------------------------------------------------------------------------
(* Types. *)

(* Whoever is said to have a connection has one, and the place of the        *)
(* connection that the idle check releases is in the deque.                  *)
Handed ==
  /\ \A u \in Users : user[u].at \in Holding => user[u].conn \in Conns
  /\ appender.at \in {"built", "count", "push"} => appender.conn \in Conns
  /\ checker.pos >= 1
  /\ checker.at = "release" => checker.pos <= Len(idle)

(* What a user's step leaves of the types.                                   *)
LEMMA UserTypes ==
  ASSUME TypeOK, Handed, NEW u \in Users, UserStep(u)
  PROVE  /\ total' \in Int /\ pending' \in Int /\ tasks' \in Nat
         /\ lost' \in Nat /\ idle' \in Seq(Conns)
         /\ user' \in [Users -> UserType]
         /\ \A v \in Users : user'[v].at \in Holding => user'[v].conn \in Conns
         /\ UNCHANGED <<appender, checker, closer>>
<1>0. UNCHANGED <<appender, checker, closer>>
  BY Zenon DEF UserStep, getPoolConnection, pollFirst, NothingIdle, AskForConnection,
         ConnectTimeout, IsValid, NotValid, DropInvalid, Served, Close,
         RollbackThrows, Reset, ResetFails
<1>5. total' = total \/ total' = total - 1
  BY Zenon DEF UserStep, getPoolConnection, pollFirst, NothingIdle, AskForConnection,
         ConnectTimeout, IsValid, NotValid, DropInvalid, Served, Close,
         RollbackThrows, Reset, ResetFails, AfterFailedReset
<1>6. pending' = pending \/ pending' = pending + 1 \/ pending' = pending - 1
  BY Zenon DEF UserStep, getPoolConnection, pollFirst, NothingIdle, AskForConnection,
         ConnectTimeout, IsValid, NotValid, DropInvalid, Served, Close,
         RollbackThrows, Reset, ResetFails
<1>7. tasks' = tasks \/ tasks' = tasks + 1
  BY Zenon DEF UserStep, getPoolConnection, pollFirst, NothingIdle, AskForConnection,
         ConnectTimeout, IsValid, NotValid, DropInvalid, Served, Close,
         RollbackThrows, Reset, ResetFails,
         addConnectionRequest
<1>8. lost' = lost \/ lost' = lost + 1
  BY Zenon DEF UserStep, getPoolConnection, pollFirst, NothingIdle, AskForConnection,
         ConnectTimeout, IsValid, NotValid, DropInvalid, Served, Close,
         RollbackThrows, Reset, ResetFails
<1> USE DEF TypeOK, Handed
<1>1. total' \in Int /\ pending' \in Int /\ tasks' \in Nat /\ lost' \in Nat
  BY <1>5, <1>6, <1>7, <1>8
<1>2. idle' \in Seq(Conns)
  <2>1. CASE pollFirst(u)
    BY <2>1 DEF pollFirst, AfterPoll
  <2>2. CASE Reset(u)
    <3>1. user[u].conn \in Conns
      BY <2>2 DEF Reset, Holding
    <3> QED BY <2>2, <3>1 DEF Reset
  <2>3. CASE ~ pollFirst(u) /\ ~ Reset(u)
    BY <2>3 DEF UserStep, getPoolConnection, NothingIdle, AskForConnection,
         ConnectTimeout, IsValid, NotValid, DropInvalid, Served, Close,
         RollbackThrows, ResetFails
  <2> QED BY <2>1, <2>2, <2>3
<1>3. \E x \in UserType :
        /\ user' = [user EXCEPT ![u] = x]
        /\ x.at \in Holding => x.conn \in Conns
  <2>0. user[u] \in UserType
    BY DEF UserType
  <2>1. CASE pollFirst(u)
    <3>1. Head(idle) \in Conns
      BY <2>1 DEF pollFirst
    <3>2. user' = [user EXCEPT ![u] = [user[u] EXCEPT !.at = "check",
                                                     !.conn = Head(idle)]]
      BY <2>1 DEF pollFirst
    <3>3. [user[u] EXCEPT !.at = "check", !.conn = Head(idle)] \in UserType
      BY <2>0, <3>1 DEF UserType, UserPlaces
    <3> QED BY <2>0, <3>1, <3>2, <3>3 DEF UserType
  <2>2. CASE ConnectTimeout(u) \/ RollbackThrows(u) \/ Reset(u) \/ ResetFails(u)
    <3>1. Out \in UserType /\ Out.at \notin Holding
      BY DEF Out, User, UserType, UserPlaces, Holding
    <3>2. user' = [user EXCEPT ![u] = Out]
      BY <2>2 DEF ConnectTimeout, RollbackThrows, Reset, ResetFails
    <3> QED BY <3>1, <3>2
  <2>6. CASE getPoolConnection(u) \/ AskForConnection(u)
    <3> DEFINE p(asked) == User("poll", NoConn, asked)
    <3>1. \A asked \in BOOLEAN : p(asked) \in UserType /\ p(asked).at \notin Holding
      BY DEF User, UserType, UserPlaces, Holding
    <3>2. \E asked \in BOOLEAN : user' = [user EXCEPT ![u] = p(asked)]
      BY <2>6 DEF getPoolConnection, AskForConnection
    <3> HIDE DEF p
    <3> QED BY <3>1, <3>2
  <2>3. CASE NothingIdle(u) \/ NotValid(u) \/ DropInvalid(u)
    BY <2>0, <2>3 DEF NothingIdle, NotValid, DropInvalid, UserType, UserPlaces,
         Holding
  <2>4. CASE IsValid(u) \/ Served(u)
    BY <2>0, <2>4 DEF IsValid, Served, UserType, UserPlaces, Holding
  <2>5. CASE Close(u)
    <3>1. Out \in UserType /\ Out.at \notin Holding
      BY DEF Out, User, UserType, UserPlaces, Holding
    <3>2. /\ Returning(u) \in UserType
          /\ Returning(u).conn = user[u].conn
      BY <2>0 DEF Returning, UserType, UserPlaces
    <3>3. user[u].conn \in Conns
      BY <2>5 DEF Close, Holding
    <3>4. \/ user' = [user EXCEPT ![u] = Out]
          \/ user' = [user EXCEPT ![u] = Returning(u)]
      BY <2>5 DEF Close
    <3> QED BY <3>1, <3>2, <3>3, <3>4
  <2> QED BY <2>1, <2>2, <2>3, <2>4, <2>5, <2>6 DEF UserStep
<1>4. /\ user' \in [Users -> UserType]
      /\ \A v \in Users : user'[v].at \in Holding => user'[v].conn \in Conns
  BY <1>3 DEF UserType
<1> QED BY <1>0, <1>1, <1>2, <1>4

(* The appender's.                                                           *)
LEMMA AppenderTypes ==
  ASSUME TypeOK, Handed, AppenderStep
  PROVE  /\ total' \in Int /\ tasks' \in Nat /\ idle' \in Seq(Conns)
         /\ appender' \in [at : AppenderPlaces, conn : Conns \cup {NoConn}]
         /\ appender'.at \in {"built", "count", "push"} =>
              appender'.conn \in Conns
         /\ UNCHANGED <<pending, user, checker, closer, lost>>
<1>0. UNCHANGED <<pending, user, checker, closer, lost>>
  BY Zenon DEF AppenderStep, PopTask, Decide, Connect, ConnectFails, CheckState,
         Count, Push
<1> DEFINE A == [at : AppenderPlaces, conn : Conns \cup {NoConn}]
<1>1. /\ appender \in A /\ total \in Int /\ tasks \in Nat /\ idle \in Seq(Conns)
      /\ appender.at \in {"built", "count", "push"} => appender.conn \in Conns
  BY DEF TypeOK, Handed
<1>2. \A p \in AppenderPlaces : Appender(p, NoConn) \in A
  BY DEF Appender
<1>3. CASE PopTask
  BY <1>1, <1>2, <1>3 DEF PopTask, AppenderPlaces, Appender
<1>4. CASE Decide \/ ConnectFails
  BY <1>1, <1>2, <1>4 DEF Decide, ConnectFails, AppenderPlaces, Appender
<1>5. CASE Connect
  BY <1>1, <1>5 DEF Connect, AppenderPlaces, Appender
<1>6. CASE CheckState
  BY <1>1, <1>2, <1>6 DEF CheckState, AppenderPlaces, Appender
<1>7. CASE Count
  BY <1>1, <1>2, <1>7 DEF Count, AppenderPlaces, Appender
<1>8. CASE Push
  <2>1. appender.conn \in Conns
    BY <1>1, <1>8 DEF Push
  <2> QED BY <1>1, <1>2, <1>8, <2>1 DEF Push, AppenderPlaces, Appender
<1> QED BY <1>0, <1>3, <1>4, <1>5, <1>6, <1>7, <1>8 DEF AppenderStep

(* The idle check's.                                                         *)
LEMMA CheckerTypes ==
  ASSUME TypeOK, Handed, CheckerStep
  PROVE  /\ total' \in Int /\ tasks' \in Nat /\ idle' \in Seq(Conns)
         /\ checker' \in [at : {"off", "due", "scan", "release"}, pos : Nat]
         /\ checker'.pos >= 1
         /\ checker'.at = "release" => checker'.pos <= Len(idle')
         /\ UNCHANGED <<pending, user, appender, closer, lost>>
<1>0. UNCHANGED <<pending, user, appender, closer, lost>>
  BY Zenon DEF CheckerStep, StartCheck, CheckPass, LockIdles, KeepIdle,
         ReleaseIdle, EraseIdle, EndCheck
<1>1. /\ checker \in [at : {"off", "due", "scan", "release"}, pos : Nat]
      /\ total \in Int /\ tasks \in Nat /\ idle \in Seq(Conns)
      /\ checker.pos >= 1
      /\ checker.at = "release" => checker.pos <= Len(idle)
  BY DEF TypeOK, Handed
<1>2. CASE StartCheck \/ LockIdles \/ EndCheck
  BY <1>1, <1>2 DEF StartCheck, LockIdles, EndCheck
<1>3. CASE KeepIdle \/ ReleaseIdle
  BY <1>1, <1>3 DEF KeepIdle, ReleaseIdle
<1>4. CASE EraseIdle
  <2>1. checker.pos \in 1..Len(idle)
    BY <1>1, <1>4 DEF EraseIdle
  <2>2. RemoveAt(idle, checker.pos) \in Seq(Conns)
    BY <1>1, <2>1, RemoveAtProperties
  <2> QED BY <1>1, <1>4, <2>2 DEF EraseIdle, addConnectionRequest
<1> QED BY <1>0, <1>2, <1>3, <1>4 DEF CheckerStep, CheckPass

(* And the closing thread's.                                                 *)
LEMMA CloserTypes ==
  ASSUME TypeOK, Handed, CloserStep
  PROVE  /\ total' \in Int /\ pending' \in Int /\ idle' \in Seq(Conns)
         /\ closer' \in CloserPlaces
         /\ idle' = idle \/ ~Locked
         /\ UNCHANGED <<tasks, user, appender, checker, lost>>
<1>0. UNCHANGED <<tasks, user, appender, checker, lost>>
  BY Zenon DEF CloserStep, BeginClose, ForgetRequests, CancelAndShutdown,
         CloseIdle, WaitForUsers, LookForLeftovers, CloseLeftovers
<1>1. total \in Int /\ pending \in Int /\ idle \in Seq(Conns)
  BY DEF TypeOK
<1>2. CASE \/ BeginClose \/ ForgetRequests \/ CancelAndShutdown
           \/ WaitForUsers \/ LookForLeftovers
  BY <1>1, <1>2 DEF BeginClose, ForgetRequests, CancelAndShutdown,
         WaitForUsers, LookForLeftovers, CloserPlaces
<1>3. CASE CloseIdle \/ CloseLeftovers
  <2>1. closeAll /\ UNCHANGED pending /\ closer' \in {"waiting", "removed"}
    BY <1>3 DEF CloseIdle, CloseLeftovers
  <2> QED BY <1>0, <1>1, <2>1 DEF closeAll, CloserPlaces
<1> QED BY <1>0, <1>2, <1>3 DEF CloserStep

(* Every step keeps the types, and so does no step.                          *)
LEMMA TypesKept ==
  ASSUME TypeOK, Handed, [Next]_vars
  PROVE  TypeOK' /\ Handed'
<1>1. ASSUME NEW u \in Users, UserStep(u)
      PROVE  TypeOK' /\ Handed'
  <2>1. checker.at = "release" => idle' = idle
    BY <1>1, Zenon DEF UserStep, getPoolConnection, pollFirst, NothingIdle,
         AskForConnection, ConnectTimeout, IsValid, NotValid, DropInvalid,
         Served, Close, RollbackThrows, Reset, ResetFails, Locked
  <2>2. checker'.at = "release" => checker'.pos <= Len(idle')
    BY <1>1, <2>1, UserTypes DEF Handed
  <2>3. TypeOK'
    BY <1>1, UserTypes DEF TypeOK, UserType
  <2> QED BY <1>1, <2>2, <2>3, UserTypes DEF Handed
<1>2. CASE AppenderStep
  <2>1. checker.at = "release" => idle' = idle
    BY <1>2, Zenon DEF AppenderStep, PopTask, Decide, Connect, ConnectFails,
         CheckState, Count, Push, Locked
  <2>2. checker'.at = "release" => checker'.pos <= Len(idle')
    BY <1>2, <2>1, AppenderTypes DEF Handed
  <2>3. TypeOK'
    BY <1>2, AppenderTypes DEF TypeOK
  <2> QED BY <1>2, <2>2, <2>3, AppenderTypes DEF Handed
<1>3. CASE CheckerStep
  <2>1. TypeOK'
    BY <1>3, CheckerTypes DEF TypeOK
  <2> QED BY <1>3, <2>1, CheckerTypes DEF Handed
<1>4. CASE CloserStep
  <2>1. checker'.at = "release" => checker'.pos <= Len(idle')
    BY <1>4, CloserTypes DEF Handed, Locked
  <2>2. TypeOK'
    BY <1>4, CloserTypes DEF TypeOK
  <2> QED BY <1>4, <2>1, <2>2, CloserTypes DEF Handed
<1>5. CASE UNCHANGED vars
  BY <1>5 DEF vars, TypeOK, Handed
<1> QED BY <1>1, <1>2, <1>3, <1>4, <1>5 DEF Next

(* They hold when the pool has been built.                                   *)
LEMMA TypesAtFirst ==
  ASSUME Init
  PROVE  TypeOK /\ Handed
<1>1. PICK c \in Conns : idle = <<c>>
  BY DEF Init
<1>2. idle \in Seq(Conns)
  BY <1>1
<1>3. tasks \in Nat
  BY PoolAssumption DEF Init
<1>4. user \in [Users -> UserType]
  BY DEF Init, Out, User, UserType, UserPlaces
<1>5. TypeOK
  BY <1>2, <1>3, <1>4 DEF Init, TypeOK, UserType, Appender, AppenderPlaces,
                       CloserPlaces
<1> QED BY <1>5 DEF Init, Handed, Out, User, Holding, Appender

(* Every variable of the pool keeps its type, and whoever is said to hold a  *)
(* connection holds one.                                                     *)
THEOREM TypeCorrect == Spec => [](TypeOK /\ Handed)
<1>1. Init => TypeOK /\ Handed
  BY TypesAtFirst
<1>2. TypeOK /\ Handed /\ [Next]_vars => (TypeOK /\ Handed)'
  BY TypesKept
<1> QED BY <1>1, <1>2, PTL DEF Spec

-----------------------------------------------------------------------------
(* Counting. *)

(* What a user's step does to the count, it does to what is counted.         *)
LEMMA UserCounts ==
  ASSUME TypeOK, Handed, NEW u \in Users, UserStep(u)
  PROVE  /\ total' + Len(idle) + Cardinality(Holders) + lost =
              total + Len(idle') + Cardinality(Holders') + lost'
         /\ total' <= total
         /\ Cardinality(Holders) \in Nat /\ Cardinality(Holders') \in Nat
<1> DEFINE n == Cardinality(Holders)
           m == Cardinality(Holders)'
<1>0. user \in [Users -> UserType] /\ user[u] \in UserType
  BY DEF TypeOK, UserType
<1>1. /\ total \in Int /\ lost \in Nat /\ idle \in Seq(Conns) /\ Len(idle) \in Nat
  BY DEF TypeOK
<1>2. ASSUME NEW x, user' = [user EXCEPT ![u] = x]
      PROVE  /\ n \in Nat /\ m \in Nat
             /\ (x.at \in Holding <=> user[u].at \in Holding) => m = n
             /\ x.at \in Holding /\ user[u].at \notin Holding => m = n + 1
             /\ x.at \notin Holding /\ user[u].at \in Holding => m = n - 1
  <2>1. Holders = At(user, Holding) /\ Holders' = At(user', Holding)
    BY DEF Holders, At
  <2>2. /\ Cardinality(At(user, Holding)) \in Nat
        /\ Cardinality(At(user', Holding)) \in Nat
        /\ Cardinality(At(user', Holding)) =
             Cardinality(At(user, Holding)) + One(x.at \in Holding)
               - One(user[u].at \in Holding)
    BY <1>0, <1>2, ThreadMoves
  <2>3. n \in Nat /\ m \in Nat
         /\ m = n + One(x.at \in Holding) - One(user[u].at \in Holding)
    BY <2>1, <2>2
  <2> HIDE DEF n, m
  <2> QED BY <2>3 DEF One
<1> HIDE DEF n, m
<1> SUFFICES /\ n \in Nat /\ m \in Nat
             /\ total' + Len(idle) + n + lost = total + Len(idle') + m + lost'
             /\ total' <= total
  BY DEF n, m
<1>3. CASE \/ getPoolConnection(u) \/ NothingIdle(u) \/ AskForConnection(u)
           \/ ConnectTimeout(u) \/ DropInvalid(u)
  <2>1. UNCHANGED <<total, idle, lost>>
    BY <1>3 DEF getPoolConnection, NothingIdle, AskForConnection,
                ConnectTimeout, DropInvalid
  <2>2. PICK x : /\ user' = [user EXCEPT ![u] = x]
                 /\ x.at \in {"poll", "ask", "out"}
    BY <1>0, <1>3 DEF getPoolConnection, NothingIdle, AskForConnection,
         ConnectTimeout, DropInvalid, User, Out, UserType
  <2>3. user[u].at \in {"out", "poll", "ask", "drop"}
    BY <1>3 DEF getPoolConnection, NothingIdle, AskForConnection,
         ConnectTimeout, DropInvalid
  <2>4. n \in Nat /\ m \in Nat /\ m = n
    BY <1>2, <2>2, <2>3 DEF Holding
  <2> QED BY <1>1, <2>1, <2>4
<1>4. CASE pollFirst(u)
  <2>1. UNCHANGED <<total, lost>> /\ idle' = Tail(idle) /\ idle # <<>>
    BY <1>4 DEF pollFirst, AfterPoll
  <2>2. Len(idle') = Len(idle) - 1
    BY <1>1, <2>1
  <2> DEFINE x == [user[u] EXCEPT !.at = "check", !.conn = Head(idle)]
  <2>3. user' = [user EXCEPT ![u] = x] /\ user[u].at = "poll"
    BY <1>4 DEF pollFirst
  <2>4. x.at = "check"
    BY <1>0 DEF UserType
  <2> HIDE DEF x
  <2>5. n \in Nat /\ m \in Nat /\ m = n + 1
    BY <1>2, <2>3, <2>4 DEF Holding
  <2> QED BY <1>1, <2>1, <2>2, <2>5
<1>5. CASE IsValid(u) \/ Served(u)
  <2>1. UNCHANGED <<total, idle, lost>> /\ user[u].at \in {"check", "got"}
    BY <1>5 DEF IsValid, Served
  <2>2. PICK x : user' = [user EXCEPT ![u] = x] /\ x.at \in {"got", "using"}
    BY <1>0, <1>5 DEF IsValid, Served, UserType
  <2>3. n \in Nat /\ m \in Nat /\ m = n
    BY <1>2, <2>1, <2>2 DEF Holding
  <2> QED BY <1>1, <2>1, <2>3
<1>6. CASE NotValid(u) \/ ResetFails(u)
  <2>1. /\ total' = total - 1 /\ UNCHANGED <<idle, lost>>
        /\ user[u].at \in {"check", "return"}
    BY <1>6 DEF NotValid, ResetFails, AfterFailedReset
  <2>2. PICK x : user' = [user EXCEPT ![u] = x] /\ x.at \in {"drop", "out"}
    BY <1>0, <1>6 DEF NotValid, ResetFails, Out, User, UserType
  <2>3. n \in Nat /\ m \in Nat /\ m = n - 1
    BY <1>2, <2>1, <2>2 DEF Holding
  <2> QED BY <1>1, <2>1, <2>3
<1>7. CASE Close(u)
  <2>1. UNCHANGED <<idle, lost>> /\ user[u].at = "using"
    BY <1>7 DEF Close
  <2>2. CASE Closing
    <3>1. total' = total - 1 /\ user' = [user EXCEPT ![u] = Out]
      BY <1>7, <2>2 DEF Close
    <3>2. Out.at = "out"
      BY DEF Out, User
    <3>3. n \in Nat /\ m \in Nat /\ m = n - 1
      BY <1>2, <2>1, <3>1, <3>2 DEF Holding
    <3> QED BY <1>1, <2>1, <3>1, <3>3
  <2>3. CASE ~ Closing
    <3>1. total' = total /\ user' = [user EXCEPT ![u] = Returning(u)]
      BY <1>7, <2>3 DEF Close
    <3>2. Returning(u).at = "return"
      BY <1>0 DEF Returning, UserType
    <3>3. n \in Nat /\ m \in Nat /\ m = n
      BY <1>2, <2>1, <3>1, <3>2 DEF Holding
    <3> QED BY <1>1, <2>1, <3>1, <3>3
  <2> QED BY <2>2, <2>3
<1>8. CASE RollbackThrows(u)
  <2>1. /\ lost' = lost + 1 /\ UNCHANGED <<idle, total>> /\ user[u].at = "using"
        /\ user' = [user EXCEPT ![u] = Out]
    BY <1>8 DEF RollbackThrows
  <2>2. Out.at = "out"
    BY DEF Out, User
  <2>3. n \in Nat /\ m \in Nat /\ m = n - 1
    BY <1>2, <2>1, <2>2 DEF Holding
  <2> QED BY <1>1, <2>1, <2>3
<1>9. CASE Reset(u)
  <2>1. /\ idle' = Append(idle, user[u].conn) /\ UNCHANGED <<total, lost>>
        /\ user[u].at = "return" /\ user' = [user EXCEPT ![u] = Out]
    BY <1>9 DEF Reset
  <2>2. Out.at = "out"
    BY DEF Out, User
  <2>3. Len(idle') = Len(idle) + 1
    BY <1>1, <2>1
  <2>4. n \in Nat /\ m \in Nat /\ m = n - 1
    BY <1>2, <2>1, <2>2 DEF Holding
  <2> QED BY <1>1, <2>1, <2>3, <2>4
<1> QED BY <1>3, <1>4, <1>5, <1>6, <1>7, <1>8, <1>9 DEF UserStep

(* Between the decision to open a connection and counting it nobody takes    *)
(* the room it was decided on: only the appender adds to the count.          *)
Room ==
  appender.at \in {"connect", "built", "count"} => total < maxPoolSize

(* Every step moves the count as it moves connections.                       *)
LEMMA CountsKept ==
  ASSUME TypeOK, Handed, CountsAgree, Room, [Next]_vars
  PROVE  CountsAgree' /\ Room'
<1>1. /\ total \in Int /\ lost \in Nat /\ idle \in Seq(Conns) /\ Len(idle) \in Nat
      /\ maxPoolSize \in Nat
  BY PoolAssumption DEF TypeOK
<1>2. Cardinality(Holders) \in Nat
  <2>1. IsFiniteSet(Holders)
    BY PoolAssumption, FS_Subset DEF Holders
  <2> QED BY <2>1, FS_CardinalityType
<1> DEFINE n == Cardinality(Holders)
<1>3. ASSUME UNCHANGED user
      PROVE  n' = n
  BY <1>3 DEF Holders
<1> HIDE DEF n
<1>4. ASSUME NEW u \in Users, UserStep(u)
      PROVE  CountsAgree' /\ Room'
  <2>1. UNCHANGED <<appender, checker>>
    BY <1>4, UserTypes
  <2>2. total' \in Int /\ lost' \in Nat /\ Len(idle') \in Nat
    BY <1>4, UserTypes
  <2>3. /\ total' + Len(idle) + Cardinality(Holders) + lost =
             total + Len(idle') + Cardinality(Holders') + lost'
        /\ total' <= total
        /\ Cardinality(Holders) \in Nat /\ Cardinality(Holders') \in Nat
    BY <1>4, UserCounts
  <2> DEFINE m == Cardinality(Holders)'
             k == One(checker.at = "release")
             j == One(appender.at = "push")
  <2>4. k \in Int /\ j \in Int
    BY DEF One
  <2>5. total + k = Len(idle) + n + j + lost /\ total <= maxPoolSize
    BY DEF CountsAgree, n
  <2>6. One(checker.at = "release")' = k /\ One(appender.at = "push")' = j
    BY <2>1
  <2>7. total' + Len(idle) + n + lost = total + Len(idle') + m + lost'
        /\ n \in Nat /\ m \in Nat
    BY <2>3 DEF n
  <2> HIDE DEF m, k, j
  <2>11. total' <= maxPoolSize
    BY <1>1, <2>2, <2>3, <2>5
  <2>12. total' + k = Len(idle') + m + j + lost'
    <3> DEFINE d == Len(idle)
               e == Len(idle')
               t == total'
               z == lost'
    <3>1. t + d + n + lost = total + e + m + z /\ total + k = d + n + j + lost
      BY <2>5, <2>7
    <3>2. /\ t \in Int /\ d \in Int /\ e \in Int /\ z \in Int
          /\ n \in Int /\ m \in Int /\ total \in Int /\ lost \in Int
      BY <1>1, <2>2, <2>7
    <3> HIDE DEF d, e, t, z
    <3>3. t + k = e + m + j + z
      BY <2>4, <3>1, <3>2
    <3> QED BY <3>3 DEF d, e, t, z
  <2>8. total' + k = Len(idle') + m + j + lost' /\ total' <= maxPoolSize
    BY <2>11, <2>12
  <2>9. CountsAgree'
    BY <2>6, <2>8 DEF CountsAgree, m
  <2>10. Room'
    BY <1>1, <2>1, <2>2, <2>3 DEF Room
  <2> QED BY <2>9, <2>10
<1>5. CASE AppenderStep
  <2>0. UNCHANGED <<user, checker, lost>>
    BY <1>5, AppenderTypes
  <2>1. n' = n /\ n \in Nat
    BY <1>2, <1>3, <2>0 DEF n
  <2>2. /\ total + One(checker.at = "release") =
             Len(idle) + n + One(appender.at = "push") + lost
        /\ total <= maxPoolSize
    BY DEF CountsAgree, n
  <2> SUFFICES /\ total' + One(checker.at = "release") =
                    Len(idle') + n + One(appender'.at = "push") + lost
               /\ total' <= maxPoolSize
               /\ Room'
    BY <2>0, <2>1 DEF CountsAgree, n
  <2>3. CASE PopTask \/ ConnectFails
    BY <1>1, <2>2, <2>3 DEF PopTask, ConnectFails, Appender, One, Room
  <2>4. CASE Decide
    <3>1. total < maxPoolSize \/ appender' = Appender("pop", NoConn)
      BY <2>4 DEF Decide, ConnectionWanted
    <3> QED BY <1>1, <2>2, <2>4, <3>1 DEF Decide, Appender, One, Room
  <2>5. CASE Connect
    BY <1>1, <2>2, <2>5 DEF Connect, Appender, One, Room
  <2>6. CASE CheckState
    <3>1. appender \in [at : AppenderPlaces, conn : Conns \cup {NoConn}]
      BY DEF TypeOK
    <3>2. appender'.at \in {"pop", "count"}
      BY <2>6, <3>1 DEF CheckState, Appender
    <3> QED BY <1>1, <2>2, <2>6, <3>2 DEF CheckState, One, Room
  <2>7. CASE Count
    <3>1. total < maxPoolSize
      BY <2>7 DEF Count, Room
    <3>2. total' = total + 1 /\ UNCHANGED idle /\ appender.at = "count"
      BY <2>7 DEF Count
    <3>3. appender' = [appender EXCEPT !.at = "push"]
      BY <1>1, <2>7, <3>1 DEF Count
    <3>4. appender'.at = "push"
      BY <3>3 DEF TypeOK
    <3> QED BY <1>1, <2>1, <2>2, <3>1, <3>2, <3>4 DEF One, Room
  <2>8. CASE Push
    <3>1. appender.at = "push" /\ appender'.at = "pop" /\ UNCHANGED total
      BY <2>8 DEF Push, Appender
    <3>2. appender.conn \in Conns
      BY <3>1 DEF Handed
    <3>3. idle' = <<appender.conn>> \o idle
      BY <2>8 DEF Push
    <3>4. Len(idle') = Len(idle) + 1
      BY <1>1, <3>2, <3>3
    <3> QED BY <1>1, <2>1, <2>2, <3>1, <3>4 DEF One, Room
  <2> QED BY <1>5, <2>3, <2>4, <2>5, <2>6, <2>7, <2>8 DEF AppenderStep
<1>6. CASE CheckerStep
  <2>0. UNCHANGED <<user, appender, lost>>
    BY <1>6, CheckerTypes
  <2>1. n' = n /\ n \in Nat
    BY <1>2, <1>3, <2>0 DEF n
  <2>2. /\ total + One(checker.at = "release") =
             Len(idle) + n + One(appender.at = "push") + lost
        /\ total <= maxPoolSize
    BY DEF CountsAgree, n
  <2>3. checker \in [at : {"off", "due", "scan", "release"}, pos : Nat]
    BY DEF TypeOK
  <2> SUFFICES /\ total' + One(checker'.at = "release") =
                    Len(idle') + n + One(appender.at = "push") + lost
               /\ total' <= total
    BY <1>1, <2>0, <2>1, <2>2, CheckerTypes, <1>6 DEF CountsAgree, n, Room
  <2>4. CASE StartCheck \/ LockIdles \/ KeepIdle \/ EndCheck
    <3>1. checker.at # "release" /\ checker'.at # "release"
      BY <2>3, <2>4 DEF StartCheck, LockIdles, KeepIdle, EndCheck
    <3> QED BY <1>1, <2>2, <2>4, <3>1 DEF StartCheck, LockIdles, KeepIdle,
                                          EndCheck, One
  <2>5. CASE ReleaseIdle
    <3>1. checker.at = "scan" /\ checker'.at = "release"
      BY <2>3, <2>5 DEF ReleaseIdle
    <3>2. total' = total - 1 /\ UNCHANGED idle
      BY <2>5 DEF ReleaseIdle
    <3> QED BY <1>1, <2>1, <2>2, <3>1, <3>2 DEF One
  <2>6. CASE EraseIdle
    <3>1. checker.at = "release" /\ checker'.at = "scan" /\ UNCHANGED total
      BY <2>3, <2>6 DEF EraseIdle
    <3>2. checker.pos \in 1..Len(idle)
      BY <1>1, <2>3, <3>1 DEF Handed
    <3>3. idle' = RemoveAt(idle, checker.pos)
      BY <2>6 DEF EraseIdle
    <3>4. Len(idle') = Len(idle) - 1
      BY <1>1, <3>2, <3>3, RemoveAtProperties
    <3> QED BY <1>1, <2>1, <2>2, <3>1, <3>4 DEF One
  <2> QED BY <1>6, <2>4, <2>5, <2>6 DEF CheckerStep, CheckPass
<1>7. CASE CloserStep
  <2>0. UNCHANGED <<user, appender, checker, lost>>
    BY <1>7, CloserTypes
  <2>1. n' = n /\ n \in Nat
    BY <1>2, <1>3, <2>0 DEF n
  <2>2. \/ UNCHANGED <<total, idle>>
        \/ total' = total - Len(idle) /\ idle' = <<>>
    BY <1>7, Zenon DEF CloserStep, BeginClose, ForgetRequests, CancelAndShutdown,
       CloseIdle, WaitForUsers, LookForLeftovers, CloseLeftovers, closeAll
  <2>3. total' - Len(idle') = total - Len(idle) /\ total' <= total
    BY <1>1, <2>2
  <2>4. total' \in Int /\ Len(idle') \in Nat
    BY <1>7, CloserTypes
  <2> DEFINE k == One(checker.at = "release")
             j == One(appender.at = "push")
  <2>5. k \in Int /\ j \in Int
    BY DEF One
  <2>6. total + k = Len(idle) + n + j + lost /\ total <= maxPoolSize
    BY DEF CountsAgree, n
  <2>7. k' = k /\ j' = j
    BY <2>0
  <2> HIDE DEF k, j
  <2>8. total' + k = Len(idle') + n + j + lost /\ total' <= maxPoolSize
    BY <1>1, <2>1, <2>3, <2>4, <2>5, <2>6
  <2>9. CountsAgree'
    BY <2>0, <2>1, <2>7, <2>8 DEF CountsAgree, n, k, j
  <2>10. Room'
    BY <1>1, <2>0, <2>3, <2>4 DEF Room
  <2> QED BY <2>9, <2>10
<1>8. CASE UNCHANGED vars
  BY <1>8 DEF vars, CountsAgree, Room, Holders
<1> QED BY <1>4, <1>5, <1>6, <1>7, <1>8 DEF Next

(* A new pool counts its first connection.                                   *)
LEMMA CountsAtFirst ==
  ASSUME Init
  PROVE  CountsAgree /\ Room
<1>1. PICK c \in Conns : idle = <<c>>
  BY DEF Init
<1>2. Len(idle) = 1
  BY <1>1
<1>3. Holders = {}
  BY DEF Init, Holders, Out, User, Holding
<1>4. Cardinality(Holders) = 0
  BY <1>3, FS_EmptySet
<1> QED BY <1>2, <1>4, PoolAssumption DEF Init, CountsAgree, Room, One, Appender

(* totalConnection counts every connection once wherever it is, and is never *)
(* above maxPoolSize, whatever the server refuses and whenever the pool is   *)
(* closed.                                                                   *)
THEOREM EveryConnectionCounted == Spec => []CountsAgree
<1> DEFINE Inv == TypeOK /\ Handed /\ CountsAgree /\ Room
<1>1. Init => Inv
  BY TypesAtFirst, CountsAtFirst
<1>2. Inv /\ [Next]_vars => Inv'
  BY TypesKept, CountsKept
<1>3. Inv => CountsAgree
  OBVIOUS
<1> QED BY <1>1, <1>2, <1>3, PTL DEF Spec

-----------------------------------------------------------------------------
(* The minimum that is asked for. *)

Busy == {"decide", "connect", "built", "count"}

(* While the pool is open, a thread that takes a connection out of the count *)
(* is a dropper until it has asked for another one.                          *)
LEMMA UserKeepsWanted ==
  ASSUME TypeOK, Handed, NEW u \in Users, UserStep(u), ~ Closing,
         Faults \subseteq {"validate", "gone"}
  PROVE  /\ Cardinality(Droppers) \in Nat /\ Cardinality(Droppers') \in Nat
         /\ \/ total' + tasks' + Cardinality(Droppers') >=
                  total + tasks + Cardinality(Droppers)
            \/ total' >= maxPoolSize
<1> DEFINE n == Cardinality(Droppers)
           m == Cardinality(Droppers)'
           T == total'
           S == tasks'
<1>1. user \in [Users -> UserType] /\ user[u] \in UserType
  BY DEF TypeOK, UserType
<1>2. total \in Int /\ tasks \in Nat
  BY DEF TypeOK
<1>3. ASSUME NEW x, user' = [user EXCEPT ![u] = x]
      PROVE  /\ n \in Nat /\ m \in Nat
             /\ (x.at = "drop" <=> user[u].at = "drop") => m = n
             /\ x.at = "drop" /\ user[u].at # "drop" => m = n + 1
             /\ x.at # "drop" /\ user[u].at = "drop" => m = n - 1
  <2>1. Droppers = At(user, {"drop"}) /\ Droppers' = At(user', {"drop"})
    BY DEF Droppers, At
  <2>2. /\ Cardinality(At(user, {"drop"})) \in Nat
        /\ Cardinality(At(user', {"drop"})) \in Nat
        /\ Cardinality(At(user', {"drop"})) =
             Cardinality(At(user, {"drop"})) + One(x.at \in {"drop"})
               - One(user[u].at \in {"drop"})
    BY <1>1, <1>3, ThreadMoves
  <2>3. n \in Nat /\ m \in Nat
         /\ m = n + One(x.at \in {"drop"}) - One(user[u].at \in {"drop"})
    BY <2>1, <2>2
  <2> HIDE DEF n, m
  <2> QED BY <2>3 DEF One
<1> HIDE DEF n, m, T, S
<1> SUFFICES /\ n \in Nat /\ m \in Nat
             /\ T + S + m >= total + tasks + n \/ T >= maxPoolSize
  BY DEF n, m, T, S
<1>4. CASE \/ getPoolConnection(u) \/ NothingIdle(u) \/ ConnectTimeout(u)
           \/ IsValid(u) \/ Served(u) \/ RollbackThrows(u) \/ Reset(u)
  <2>1. T = total /\ S = tasks /\ user[u].at # "drop"
    BY <1>4 DEF T, S, getPoolConnection, NothingIdle, ConnectTimeout, IsValid,
                Served, RollbackThrows, Reset
  <2>2. PICK x : user' = [user EXCEPT ![u] = x] /\ x.at # "drop"
    BY <1>1, <1>4 DEF getPoolConnection, NothingIdle, ConnectTimeout, IsValid,
         Served, RollbackThrows, Reset, User, Out, UserType
  <2>3. n \in Nat /\ m = n
    BY <1>3, <2>1, <2>2
  <2> QED BY <1>2, <2>1, <2>3
<1>5. CASE pollFirst(u)
  <2> DEFINE x == [user[u] EXCEPT !.at = "check", !.conn = Head(idle)]
  <2>1. /\ user' = [user EXCEPT ![u] = x] /\ user[u].at = "poll"
        /\ T = total /\ S = tasks
    BY <1>5 DEF T, S, pollFirst
  <2>2. x.at = "check"
    BY <1>1 DEF UserType
  <2> HIDE DEF x
  <2>3. n \in Nat /\ m = n
    BY <1>3, <2>1, <2>2
  <2> QED BY <1>2, <2>1, <2>3
<1>6. CASE AskForConnection(u)
  <2>1. /\ T = total
        /\ S = tasks \/ S = tasks + 1
        /\ user[u].at = "ask" /\ user' = [user EXCEPT ![u] = User("poll", NoConn, TRUE)]
    BY <1>6 DEF T, S, AskForConnection, addConnectionRequest
  <2>2. User("poll", NoConn, TRUE).at = "poll"
    BY DEF User
  <2>3. n \in Nat /\ m = n
    BY <1>3, <2>1, <2>2
  <2> QED BY <1>2, <2>1, <2>3
<1>7. CASE NotValid(u)
  <2> DEFINE x == [user[u] EXCEPT !.at = "drop"]
  <2>1. /\ user' = [user EXCEPT ![u] = x] /\ user[u].at = "check"
        /\ S = tasks /\ T = total - 1
    BY <1>7 DEF T, S, NotValid
  <2>2. x.at = "drop"
    BY <1>1 DEF UserType
  <2> HIDE DEF x
  <2>3. n \in Nat /\ m = n + 1
    BY <1>3, <2>1, <2>2
  <2> QED BY <1>2, <2>1, <2>3
<1>8. CASE DropInvalid(u)
  <2> DEFINE x == [user[u] EXCEPT !.at = "poll", !.conn = NoConn]
  <2>1. /\ user' = [user EXCEPT ![u] = x] /\ user[u].at = "drop"
        /\ T = total
        /\ total < maxPoolSize => S = tasks + 1
        /\ S = tasks \/ S = tasks + 1
    BY <1>8 DEF T, S, DropInvalid, addConnectionRequest
  <2>2. x.at = "poll"
    BY <1>1 DEF UserType
  <2> HIDE DEF x
  <2>3. n \in Nat /\ m \in Nat /\ m = n - 1
    BY <1>3, <2>1, <2>2
  <2>4. CASE total < maxPoolSize
    BY <1>2, <2>1, <2>3, <2>4
  <2>5. CASE ~ (total < maxPoolSize)
    BY <1>2, <2>1, <2>3, <2>5, PoolAssumption
  <2> QED BY <2>4, <2>5
<1>9. CASE Close(u)
  <2>1. /\ user' = [user EXCEPT ![u] = Returning(u)] /\ user[u].at = "using"
        /\ T = total /\ S = tasks
    BY <1>9 DEF T, S, Close
  <2>2. Returning(u).at = "return"
    BY <1>1 DEF Returning, UserType
  <2>3. n \in Nat /\ m = n
    BY <1>3, <2>1, <2>2
  <2> QED BY <1>2, <2>1, <2>3
<1>10. ~ ResetFails(u)
  BY DEF ResetFails
<1> QED BY <1>4, <1>5, <1>6, <1>7, <1>8, <1>9, <1>10 DEF UserStep

(* Every step that takes a connection out of the count leaves a request.     *)
LEMMA WantedKept ==
  ASSUME TypeOK, Handed, MinimumWanted, [Next]_vars,
         Faults \subseteq {"validate", "gone"}
  PROVE  MinimumWanted'
<1> SUFFICES ASSUME ~ Closing'
             PROVE  MinimumWanted'
  BY DEF MinimumWanted
<1>1. ~ Closing /\ UNCHANGED closer
  <2>1. CASE CloserStep
    BY <2>1 DEF CloserStep, BeginClose, ForgetRequests, CancelAndShutdown,
       CloseIdle, WaitForUsers, LookForLeftovers, CloseLeftovers, Closing
  <2>2. CASE ~ CloserStep
    BY <2>2, UserTypes, AppenderTypes, CheckerTypes DEF Next, vars, Closing
  <2> QED BY <2>1, <2>2
<1> DEFINE k == One(checker.at = "release")
           j == One(appender.at \in Busy)
           n == Cardinality(Droppers)
<1>2. total \in Int /\ tasks \in Nat
      /\ minPoolSize \in Nat /\ maxPoolSize \in Nat /\ minPoolSize <= maxPoolSize
  BY PoolAssumption DEF TypeOK
<1>3. k \in Nat /\ j \in Nat /\ k' \in Nat /\ j' \in Nat
  BY DEF One
<1>4. n \in Nat
  <2>1. IsFiniteSet(Droppers)
    BY PoolAssumption, FS_Subset DEF Droppers
  <2> QED BY <2>1, FS_CardinalityType
<1>5. total + tasks + n + k + j >= minPoolSize
  BY <1>1 DEF MinimumWanted, Busy
<1>6. ASSUME UNCHANGED user
      PROVE  n' = n
  BY <1>6 DEF Droppers
<1>7. ASSUME UNCHANGED checker
      PROVE  k' = k
  BY <1>7
<1>8. ASSUME UNCHANGED appender
      PROVE  j' = j
  BY <1>8
<1> DEFINE T == total'
           S == tasks'
           m == n'
           p == k'
           q == j'
<1>14. p \in Nat /\ q \in Nat
  BY <1>3
<1> HIDE DEF n, k, j, T, S, m, p, q
<1> SUFFICES T + S + m + p + q >= minPoolSize
  BY DEF MinimumWanted, Busy, n, k, j, T, S, m, p, q
<1>9. ASSUME NEW u \in Users, UserStep(u)
      PROVE  T + S + m + p + q >= minPoolSize
  <2>1. p = k /\ q = j /\ T \in Int /\ S \in Nat
    BY <1>7, <1>8, <1>9, UserTypes DEF p, q, T, S
  <2>2. /\ n \in Nat /\ m \in Nat
        /\ T + S + m >= total + tasks + n \/ T >= maxPoolSize
    BY <1>1, <1>9, UserKeepsWanted DEF n, m, T, S
  <2> QED BY <1>2, <1>3, <1>5, <2>1, <2>2
<1>10. CASE AppenderStep
  <2>1. m = n /\ p = k /\ T \in Int /\ S \in Nat
    BY <1>6, <1>7, <1>10, AppenderTypes DEF m, p, T, S
  <2>2. appender \in [at : AppenderPlaces, conn : Conns \cup {NoConn}]
    BY DEF TypeOK
  <2>3. CASE PopTask
    <3>1. /\ S = tasks - 1 /\ T = total
          /\ appender.at = "pop" /\ appender'.at = "decide"
      BY <1>1, <2>3 DEF T, S, PopTask, ShutDown, Closing, Appender
    <3>2. j = 0 /\ q = 1
      BY <3>1 DEF j, q, One, Busy
    <3> QED BY <1>2, <1>3, <1>4, <1>5, <1>14, <2>1, <3>1, <3>2
  <2>4. CASE Decide
    <3>1. T = total /\ S = tasks /\ appender.at = "decide"
      BY <2>4 DEF T, S, Decide
    <3>2. CASE ConnectionWanted
      <4>1. appender'.at = "connect"
        BY <2>4, <3>2 DEF Decide, Appender
      <4>2. q = j
        BY <3>1, <4>1 DEF j, q, One, Busy
      <4> QED BY <1>2, <1>3, <1>4, <1>5, <2>1, <3>1, <4>2
    <3>3. CASE ~ ConnectionWanted
      <4>1. total >= minPoolSize
        BY <1>2, <3>3 DEF ConnectionWanted
      <4> QED BY <1>2, <1>3, <1>4, <2>1, <3>1, <4>1, <1>14
    <3> QED BY <3>2, <3>3
  <2>5. CASE Connect
    <3>1. /\ T = total /\ S = tasks /\ appender.at = "connect"
          /\ appender'.at = "built"
      BY <2>5 DEF T, S, Connect, Appender
    <3>2. q = j
      BY <3>1 DEF j, q, One, Busy
    <3> QED BY <1>2, <1>3, <1>4, <1>5, <1>14, <2>1, <3>1, <3>2
  <2>6. CASE ConnectFails
    BY <2>6 DEF ConnectFails
  <2>7. CASE CheckState
    <3>1. /\ T = total /\ S = tasks /\ appender.at = "built"
          /\ appender'.at = "count"
      BY <1>1, <2>2, <2>7 DEF T, S, CheckState
    <3>2. q = j
      BY <3>1 DEF j, q, One, Busy
    <3> QED BY <1>2, <1>3, <1>4, <1>5, <1>14, <2>1, <3>1, <3>2
  <2>8. CASE Count
    <3>1. /\ S = tasks /\ appender.at = "count" /\ T = total + 1
      BY <2>8 DEF T, S, Count
    <3>2. j = 1
      BY <3>1 DEF j, q, One, Busy
    <3> QED BY <1>2, <1>3, <1>4, <1>5, <1>14, <2>1, <3>1, <3>2
  <2>9. CASE Push
    <3>1. /\ T = total /\ S = tasks /\ appender.at = "push"
          /\ appender'.at = "pop"
      BY <2>9 DEF T, S, Push, Appender
    <3>2. q = j
      BY <3>1 DEF j, q, One, Busy
    <3> QED BY <1>2, <1>3, <1>4, <1>5, <1>14, <2>1, <3>1, <3>2
  <2> QED BY <1>10, <2>3, <2>4, <2>5, <2>6, <2>7, <2>8, <2>9 DEF AppenderStep
<1>11. CASE CheckerStep
  <2>1. m = n /\ q = j /\ T \in Int /\ S \in Nat
    BY <1>6, <1>8, <1>11, CheckerTypes DEF m, q, T, S
  <2>2. checker \in [at : {"off", "due", "scan", "release"}, pos : Nat]
    BY DEF TypeOK
  <2>3. CASE StartCheck \/ LockIdles \/ KeepIdle \/ EndCheck
    <3>1. /\ T = total /\ S = tasks
          /\ checker.at # "release" /\ checker'.at # "release"
      BY <2>2, <2>3 DEF T, S, StartCheck, LockIdles, KeepIdle, EndCheck
    <3>2. p = k
      BY <3>1 DEF k, p, One
    <3> QED BY <1>2, <1>3, <1>4, <1>5, <1>14, <2>1, <3>1, <3>2
  <2>4. CASE ReleaseIdle
    <3>1. /\ S = tasks /\ T = total - 1
          /\ checker.at = "scan" /\ checker'.at = "release"
      BY <2>2, <2>4 DEF T, S, ReleaseIdle
    <3>2. k = 0 /\ p = 1
      BY <3>1 DEF k, p, One
    <3> QED BY <1>2, <1>3, <1>4, <1>5, <1>14, <2>1, <3>1, <3>2
  <2>5. CASE EraseIdle
    <3>1. /\ T = total
          /\ total < maxPoolSize => S = tasks + 1
          /\ checker.at = "release" /\ checker'.at = "scan"
      BY <1>1, <2>2, <2>5 DEF T, S, EraseIdle, addConnectionRequest
    <3>2. k = 1 /\ p = 0
      BY <3>1 DEF k, p, One
    <3> QED BY <1>2, <1>3, <1>4, <1>5, <1>14, <2>1, <3>1, <3>2
  <2> QED BY <1>11, <2>3, <2>4, <2>5 DEF CheckerStep, CheckPass
<1>12. CASE CloserStep
  <2>1. T = total /\ S = tasks /\ UNCHANGED <<user, appender, checker>>
    BY <1>1, <1>12 DEF T, S, CloserStep, BeginClose, ForgetRequests, CancelAndShutdown,
       CloseIdle, WaitForUsers, LookForLeftovers, CloseLeftovers, Closing
  <2>2. m = n /\ p = k /\ q = j
    BY <1>6, <1>7, <1>8, <2>1 DEF m, p, q
  <2> QED BY <1>2, <1>3, <1>4, <1>5, <2>1, <2>2
<1>13. CASE UNCHANGED vars
  <2>1. T = total /\ S = tasks /\ UNCHANGED <<user, appender, checker>>
    BY <1>13 DEF T, S, vars
  <2>2. m = n /\ p = k /\ q = j
    BY <1>6, <1>7, <1>8, <2>1 DEF m, p, q
  <2> QED BY <1>2, <1>3, <1>4, <1>5, <2>1, <2>2
<1> QED BY <1>9, <1>10, <1>11, <1>12, <1>13 DEF Next

(* With a server that accepts and resets connections, an open pool below     *)
(* minPoolSize always has a request on its way for each connection that is   *)
(* missing.                                                                  *)
THEOREM MissingIsAskedFor ==
  ASSUME Faults \subseteq {"validate", "gone"}
  PROVE  Spec => []MinimumWanted
<1> DEFINE Inv == TypeOK /\ Handed /\ MinimumWanted
<1>1. Init => Inv
  <2> SUFFICES ASSUME Init PROVE Inv
    OBVIOUS
  <2>1. Droppers = {}
    BY DEF Init, Droppers, Out, User
  <2>2. Cardinality(Droppers) = 0
    BY <2>1, FS_EmptySet
  <2>3. MinimumWanted
    BY <2>2, PoolAssumption DEF Init, MinimumWanted, One, Appender
  <2> QED BY <2>3, TypesAtFirst
<1>2. Inv /\ [Next]_vars => Inv'
  BY TypesKept, WantedKept
<1>3. Inv => MinimumWanted
  OBVIOUS
<1> QED BY <1>1, <1>2, <1>3, PTL DEF Spec

=============================================================================
