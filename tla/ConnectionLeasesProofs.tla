------------------------ MODULE ConnectionLeasesProofs ------------------------
(* For any number of threads and connections and any faults of the server:   *)
(* the pool implements ConnectionLeases.                                     *)
EXTENDS ConnectionPoolProofs

-----------------------------------------------------------------------------
(* The deque as a set. *)

NoTwice(s) == \A i, j \in 1..Len(s) : s[i] = s[j] => i = j

(* Taking the first one leaves the others.                                   *)
LEMMA TailAsSet ==
  ASSUME NEW S, NEW s \in Seq(S), s # <<>>, NoTwice(s)
  PROVE  /\ Head(s) \in ToSet(s)
         /\ ToSet(Tail(s)) = ToSet(s) \ {Head(s)}
         /\ NoTwice(Tail(s))
<1>1. /\ Len(s) \in Nat /\ Len(s) >= 1 /\ Head(s) = s[1]
      /\ Len(Tail(s)) = Len(s) - 1
      /\ \A i \in 1..Len(s) - 1 : Tail(s)[i] = s[i + 1]
  OBVIOUS
<1>2. Head(s) \in ToSet(s)
  BY <1>1 DEF ToSet
<1>3. NoTwice(Tail(s))
  BY <1>1 DEF NoTwice
<1>4. ASSUME NEW c \in ToSet(Tail(s))
      PROVE  c \in ToSet(s) \ {Head(s)}
  <2>1. PICK i \in 1..Len(s) - 1 : Tail(s)[i] = c
    BY <1>1 DEF ToSet
  <2>2. i + 1 \in 1..Len(s) /\ s[i + 1] = c /\ i + 1 # 1
    BY <1>1, <2>1
  <2>3. c # s[1]
    BY <1>1, <2>2 DEF NoTwice
  <2>4. s[i + 1] \in ToSet(s)
    BY <2>2 DEF ToSet
  <2> QED BY <1>1, <2>2, <2>3, <2>4
<1>5. ASSUME NEW c \in ToSet(s), c # Head(s)
      PROVE  c \in ToSet(Tail(s))
  <2>1. PICK i \in 1..Len(s) : s[i] = c
    BY DEF ToSet
  <2>2. i - 1 \in 1..Len(s) - 1 /\ (i - 1) + 1 = i
    BY <1>1, <1>5, <2>1
  <2>3. Tail(s)[i - 1] = c
    BY <1>1, <2>1, <2>2
  <2>4. i - 1 \in DOMAIN Tail(s)
    BY <1>1, <2>2
  <2> QED BY <2>3, <2>4 DEF ToSet
<1> QED BY <1>2, <1>3, <1>4, <1>5

(* Putting one behind the others adds it.                                    *)
LEMMA AppendAsSet ==
  ASSUME NEW S, NEW s \in Seq(S), NEW x \in S, x \notin ToSet(s), NoTwice(s)
  PROVE  /\ ToSet(Append(s, x)) = ToSet(s) \cup {x}
         /\ NoTwice(Append(s, x))
<1>1. /\ Len(s) \in Nat /\ Append(s, x) \in Seq(S)
      /\ Len(Append(s, x)) = Len(s) + 1
      /\ Append(s, x)[Len(s) + 1] = x
      /\ \A i \in 1..Len(s) : Append(s, x)[i] = s[i]
  OBVIOUS
<1>2. \A i \in 1..Len(s) : s[i] \in ToSet(s)
  BY DEF ToSet
<1> DEFINE a == Append(s, x)
<1> HIDE DEF a
<1>3. NoTwice(a)
  <2> SUFFICES ASSUME NEW i \in 1..Len(s) + 1, NEW j \in 1..Len(s) + 1,
                      a[i] = a[j]
               PROVE  i = j
    BY <1>1 DEF NoTwice, a
  <2>1. CASE i \in 1..Len(s) /\ j \in 1..Len(s)
    BY <1>1, <2>1 DEF NoTwice, a
  <2>2. CASE i = Len(s) + 1 /\ j \in 1..Len(s)
    BY <1>1, <1>2, <2>2 DEF a
  <2>3. CASE j = Len(s) + 1 /\ i \in 1..Len(s)
    BY <1>1, <1>2, <2>3 DEF a
  <2> QED BY <1>1, <2>1, <2>2, <2>3
<1>4. ASSUME NEW c \in ToSet(a)
      PROVE  c \in ToSet(s) \cup {x}
  <2>1. PICK i \in 1..Len(s) + 1 : a[i] = c
    BY <1>1 DEF ToSet, a
  <2>2. CASE i = Len(s) + 1
    BY <1>1, <2>1, <2>2 DEF a
  <2>3. CASE i \in 1..Len(s)
    BY <1>1, <1>2, <2>1, <2>3 DEF a
  <2> QED BY <1>1, <2>2, <2>3
<1>5. ASSUME NEW c \in ToSet(s) \cup {x}
      PROVE  c \in ToSet(a)
  <2>1. \A i \in 1..Len(s) + 1 : a[i] \in ToSet(a)
    BY <1>1 DEF ToSet, a
  <2>2. CASE c = x
    <3>1. Len(s) + 1 \in 1..Len(s) + 1
      BY <1>1
    <3> QED BY <1>1, <2>1, <2>2, <3>1 DEF a
  <2>3. CASE c \in ToSet(s)
    <3>1. PICK i \in 1..Len(s) : s[i] = c
      BY <2>3 DEF ToSet
    <3>2. i \in 1..Len(s) + 1 /\ a[i] = c
      BY <1>1, <3>1 DEF a
    <3> QED BY <2>1, <3>2
  <2> QED BY <2>2, <2>3
<1> QED BY <1>3, <1>4, <1>5 DEF a

(* So does putting one before them.                                          *)
LEMMA PrependAsSet ==
  ASSUME NEW S, NEW s \in Seq(S), NEW x \in S, x \notin ToSet(s), NoTwice(s)
  PROVE  /\ ToSet(<<x>> \o s) = ToSet(s) \cup {x}
         /\ NoTwice(<<x>> \o s)
<1> DEFINE a == <<x>> \o s
<1>1. /\ Len(s) \in Nat /\ a \in Seq(S)
      /\ Len(a) = Len(s) + 1
      /\ a[1] = x
      /\ \A i \in 1..Len(s) : a[i + 1] = s[i]
  OBVIOUS
<1>2. \A i \in 1..Len(s) : s[i] \in ToSet(s)
  BY DEF ToSet
<1> HIDE DEF a
<1>0. \A i \in 1..Len(s) + 1 :
        i # 1 => i - 1 \in 1..Len(s) /\ a[i] = s[i - 1]
  <2> SUFFICES ASSUME NEW i \in 1..Len(s) + 1, i # 1
               PROVE  i - 1 \in 1..Len(s) /\ a[i] = s[i - 1]
    OBVIOUS
  <2>1. i - 1 \in 1..Len(s) /\ (i - 1) + 1 = i
    BY <1>1
  <2> QED BY <1>1, <2>1
<1>3. NoTwice(a)
  <2> SUFFICES ASSUME NEW i \in 1..Len(s) + 1, NEW j \in 1..Len(s) + 1,
                      a[i] = a[j]
               PROVE  i = j
    BY <1>1 DEF NoTwice
  <2>1. CASE i # 1 /\ j # 1
    <3>1. i - 1 \in 1..Len(s) /\ j - 1 \in 1..Len(s) /\ s[i - 1] = s[j - 1]
      BY <1>0, <2>1
    <3>2. i - 1 = j - 1
      BY <3>1 DEF NoTwice
    <3> QED BY <3>2
  <2>2. CASE i = 1 /\ j # 1
    BY <1>0, <1>1, <1>2, <2>2
  <2>3. CASE i # 1 /\ j = 1
    BY <1>0, <1>1, <1>2, <2>3
  <2> QED BY <2>1, <2>2, <2>3
<1>4. ASSUME NEW c \in ToSet(a)
      PROVE  c \in ToSet(s) \cup {x}
  <2>1. PICK i \in 1..Len(s) + 1 : a[i] = c
    BY <1>1 DEF ToSet
  <2> QED BY <1>0, <1>1, <1>2, <2>1
<1>5. ASSUME NEW c \in ToSet(s) \cup {x}
      PROVE  c \in ToSet(a)
  <2>1. \A i \in 1..Len(s) + 1 : a[i] \in ToSet(a)
    BY <1>1 DEF ToSet
  <2>2. CASE c = x
    <3>1. 1 \in 1..Len(s) + 1
      BY <1>1
    <3> QED BY <1>1, <2>1, <2>2, <3>1
  <2>3. CASE c \in ToSet(s)
    <3>1. PICK i \in 1..Len(s) : s[i] = c
      BY <2>3 DEF ToSet
    <3>2. i + 1 \in 1..Len(s) + 1 /\ a[i + 1] = c
      BY <1>1, <3>1
    <3> QED BY <2>1, <3>2
  <2> QED BY <2>2, <2>3
<1> QED BY <1>3, <1>4, <1>5 DEF a

(* Taking one out anywhere leaves the others.                                *)
LEMMA RemoveAtAsSet ==
  ASSUME NEW S, NEW s \in Seq(S), NEW k \in 1..Len(s), NoTwice(s)
  PROVE  /\ s[k] \in ToSet(s)
         /\ ToSet(RemoveAt(s, k)) = ToSet(s) \ {s[k]}
         /\ NoTwice(RemoveAt(s, k))
<1> DEFINE a == RemoveAt(s, k)
<1>1. /\ a \in Seq(S)
      /\ Len(a) = Len(s) - 1
      /\ \A i \in 1..Len(s) - 1 : a[i] = IF i < k THEN s[i] ELSE s[i + 1]
  BY RemoveAtProperties
<1> HIDE DEF a
<1>2. s[k] \in ToSet(s)
  BY DEF ToSet
<1> DEFINE at(i) == IF i < k THEN i ELSE i + 1
<1>3. \A i \in 1..Len(s) - 1 : at(i) \in 1..Len(s) /\ at(i) # k /\ a[i] = s[at(i)]
  BY <1>1
<1>4. \A i, j \in 1..Len(s) - 1 : at(i) = at(j) => i = j
  OBVIOUS
<1>5. \A j \in 1..Len(s) : j # k => \E i \in 1..Len(s) - 1 : at(i) = j
  <2> SUFFICES ASSUME NEW j \in 1..Len(s), j # k
               PROVE  \E i \in 1..Len(s) - 1 : at(i) = j
    OBVIOUS
  <2>1. CASE j < k
    <3>1. j \in 1..Len(s) - 1 /\ at(j) = j
      BY <2>1
    <3> QED BY <3>1
  <2>2. CASE j > k
    <3>1. j - 1 \in 1..Len(s) - 1 /\ at(j - 1) = j
      BY <2>2
    <3> QED BY <3>1
  <2> QED BY <2>1, <2>2
<1> HIDE DEF at
<1>6. NoTwice(a)
  <2> SUFFICES ASSUME NEW i \in 1..Len(s) - 1, NEW j \in 1..Len(s) - 1,
                      a[i] = a[j]
               PROVE  i = j
    BY <1>1 DEF NoTwice
  <2>1. at(i) = at(j)
    BY <1>3 DEF NoTwice
  <2> QED BY <1>4, <2>1
<1>7. ASSUME NEW c \in ToSet(a)
      PROVE  c \in ToSet(s) \ {s[k]}
  <2>1. PICK i \in 1..Len(s) - 1 : a[i] = c
    BY <1>1 DEF ToSet
  <2>2. at(i) \in 1..Len(s) /\ at(i) # k /\ s[at(i)] = c
    BY <1>3, <2>1
  <2>3. c # s[k]
    BY <2>2 DEF NoTwice
  <2> QED BY <2>2, <2>3 DEF ToSet
<1>8. ASSUME NEW c \in ToSet(s), c # s[k]
      PROVE  c \in ToSet(a)
  <2>1. PICK j \in 1..Len(s) : s[j] = c
    BY DEF ToSet
  <2>2. PICK i \in 1..Len(s) - 1 : at(i) = j
    BY <1>5, <1>8, <2>1
  <2>3. a[i] = c
    BY <1>3, <2>1, <2>2
  <2> QED BY <1>1, <2>3 DEF ToSet
<1> QED BY <1>2, <1>6, <1>7, <1>8 DEF a

-----------------------------------------------------------------------------
(* Nobody shares a connection. *)

Bare == {"out", "poll", "ask"}

Apart ==
  /\ NoTwice(idle)
  /\ \A u \in Users : user[u].at \in Bare => user[u].conn = NoConn
  /\ \A u \in Users : user[u].conn # NoConn =>
       /\ user[u].conn \notin ToSet(idle)
       /\ user[u].conn # appender.conn
       /\ \A v \in Users : user[v].conn = user[u].conn => v = u
  /\ appender.conn # NoConn => appender.conn \notin ToSet(idle)

lease == [c \in Conns |-> {u \in Users : user[u].conn = c}]

(* A thread that keeps what it has changes nothing of this.                  *)
LEMMA Keeps ==
  ASSUME TypeOK, Handed, Apart, NEW u \in Users, NEW x,
         user' = [user EXCEPT ![u] = x], x.conn = user[u].conn,
         x.at \in Bare => x.conn = NoConn,
         UNCHANGED <<idle, appender>>
  PROVE  Apart' /\ UNCHANGED <<lease, idle>>
<1>1. user \in [Users -> UserType]
  BY DEF TypeOK, UserType
<1>2. \A v \in Users : user'[v].conn = user[v].conn
  BY <1>1
<1>3. lease' = lease
  BY <1>2 DEF lease
<1>4. \A v \in Users : user'[v].at \in Bare => user'[v].conn = NoConn
  BY <1>1 DEF Apart
<1>5. Apart'
  BY <1>2, <1>4 DEF Apart
<1> QED BY <1>3, <1>5

(* A thread that gives up a connection without returning it retires it.      *)
LEMMA LetsGo ==
  ASSUME TypeOK, Handed, Apart, NEW u \in Users, NEW x,
         user' = [user EXCEPT ![u] = x], x.conn = NoConn,
         user[u].conn \in Conns, UNCHANGED <<idle, appender>>
  PROVE  /\ Apart'
         /\ lease' = [lease EXCEPT ![user[u].conn] = {}]
<1>1. user \in [Users -> UserType]
  BY DEF TypeOK, UserType
<1>2. \A v \in Users : user'[v] = IF v = u THEN x ELSE user[v]
  BY <1>1
<1>3. user[u].conn # NoConn
  BY PoolAssumption
<1>4. \A v \in Users \ {u} : user[v].conn # user[u].conn
  BY <1>3 DEF Apart
<1>5. Apart'
  BY <1>2 DEF Apart
<1>6. ASSUME NEW c \in Conns
      PROVE  lease'[c] = IF c = user[u].conn THEN {} ELSE lease[c]
  <2>1. CASE c = user[u].conn
    BY <1>2, <1>4, <2>1, PoolAssumption DEF lease
  <2>2. CASE c # user[u].conn
    BY <1>2, <2>2, PoolAssumption DEF lease
  <2> QED BY <2>1, <2>2
<1>7. lease' = [lease EXCEPT ![user[u].conn] = {}]
  BY <1>6 DEF lease
<1> QED BY <1>5, <1>7

(* What a thread does, it does to one connection.                            *)
LEMMA UserLeases ==
  ASSUME TypeOK, Handed, Apart, NEW u \in Users, UserStep(u)
  PROVE  Apart' /\ [Leases!Next]_<<lease, ToSet(idle)>>
<1>1. user \in [Users -> UserType] /\ user[u] \in UserType /\ idle \in Seq(Conns)
  BY DEF TypeOK, UserType
<1>2. UNCHANGED appender
  BY UserTypes
<1>3. CASE \/ NothingIdle(u) \/ IsValid(u) \/ NotValid(u) \/ Served(u)
           \/ Close(u) /\ ~ Closing
  <2>1. PICK x : /\ user' = [user EXCEPT ![u] = x] /\ UNCHANGED idle
                 /\ x.conn = user[u].conn
                 /\ x.at \in Bare => user[u].at \in Bare
    BY <1>1, <1>3 DEF NothingIdle, IsValid, NotValid, Served, Close, Returning,
       UserType, Bare
  <2>2. x.at \in Bare => x.conn = NoConn
    BY <2>1 DEF Apart
  <2> QED BY <1>2, <2>1, <2>2, Keeps
<1>4. CASE getPoolConnection(u) \/ AskForConnection(u) \/ ConnectTimeout(u)
  <2>1. user[u].at \in Bare /\ UNCHANGED idle
    BY <1>4, Zenon DEF getPoolConnection, AskForConnection, ConnectTimeout, Bare
  <2>2. user[u].conn = NoConn
    BY <2>1 DEF Apart
  <2>3. PICK x \in {User("poll", NoConn, FALSE), User("poll", NoConn, TRUE), Out} :
          user' = [user EXCEPT ![u] = x]
    BY <1>4, Zenon DEF getPoolConnection, AskForConnection, ConnectTimeout
  <2>4. x.conn = NoConn
    BY <2>3 DEF User, Out
  <2> QED BY <1>2, <2>1, <2>2, <2>3, <2>4, Keeps
<1>5. CASE \/ RollbackThrows(u) \/ ResetFails(u) \/ DropInvalid(u)
           \/ Close(u) /\ Closing
  <2>1. PICK x : user' = [user EXCEPT ![u] = x] /\ x.conn = NoConn
    BY <1>1, <1>5 DEF RollbackThrows, ResetFails, DropInvalid, Close, Out, User,
       UserType
  <2>2. UNCHANGED idle
    BY <1>5 DEF RollbackThrows, ResetFails, DropInvalid, Close
  <2>3. CASE user[u].conn \in Conns
    <3>0. PICK c \in Conns : c = user[u].conn
      BY <2>3
    <3>1. Apart' /\ lease' = [lease EXCEPT ![c] = {}]
      BY <1>2, <2>1, <2>2, <2>3, <3>0, LetsGo
    <3>2. Leases!Retire(c)
      BY <2>2, <3>1 DEF Leases!Retire, lease
    <3>3. Leases!Next
      BY <3>2, Zenon DEF Leases!Next
    <3> QED BY <3>1, <3>3, Zenon DEF lease
  <2>4. CASE user[u].conn \notin Conns
    <3>1. user[u].conn = NoConn
      BY <1>1, <2>4 DEF UserType
    <3>2. Apart' /\ UNCHANGED <<lease, idle>>
      BY <1>2, <2>1, <2>2, <3>1, Keeps
    <3> QED BY <3>2
  <2> QED BY <2>3, <2>4
<1>6. CASE pollFirst(u)
  <2>0. PICK c \in Conns : c = Head(idle)
    BY <1>1, <1>6 DEF pollFirst
  <2> DEFINE x == [user[u] EXCEPT !.at = "check", !.conn = c]
  <2>1. /\ user' = [user EXCEPT ![u] = x] /\ idle' = Tail(idle) /\ idle # <<>>
        /\ user[u].at = "poll"
    BY <1>6, <2>0 DEF pollFirst, AfterPoll
  <2>2. x.conn = c /\ x.at = "check"
    BY <1>1 DEF UserType
  <2>3. c \in Conns
    OBVIOUS
  <2>4. /\ c \in ToSet(idle) /\ ToSet(idle') = ToSet(idle) \ {c}
        /\ NoTwice(idle')
    BY <1>1, <2>0, <2>1, TailAsSet DEF Apart
  <2> HIDE DEF x
  <2>5. \A v \in Users : user'[v] = IF v = u THEN x ELSE user[v]
    BY <1>1, <2>1
  <2>6. \A v \in Users : user[v].conn # c
    BY <2>3, <2>4, PoolAssumption DEF Apart
  <2>7. user[u].conn = NoConn /\ c # NoConn /\ c # appender.conn
    BY <2>1, <2>3, <2>4, PoolAssumption DEF Apart, Bare
  <2>8. Apart'
    BY <1>2, <2>2, <2>4, <2>5, <2>6, <2>7 DEF Apart, Bare
  <2>9. ASSUME NEW d \in Conns
        PROVE  lease'[d] = IF d = c THEN {u} ELSE lease[d]
    <3>1. CASE d = c
      BY <2>2, <2>5, <2>6, <3>1 DEF lease
    <3>2. CASE d # c
      <4>1. user[u].conn # d
        BY <2>7, PoolAssumption
      <4> QED BY <2>2, <2>5, <3>2, <4>1 DEF lease
    <3> QED BY <3>1, <3>2
  <2>10. lease' = [lease EXCEPT ![c] = {u}]
    BY <2>9 DEF lease
  <2>11. lease[c] = {}
    BY <2>3, <2>6 DEF lease
  <2>12. Leases!Lease(c, u)
    BY <2>4, <2>10, <2>11 DEF Leases!Lease, lease
  <2>13. Leases!Next
    BY <2>3, <2>12, Zenon DEF Leases!Next
  <2> QED BY <2>8, <2>13, Zenon DEF lease
<1>7. CASE Reset(u)
  <2>0. PICK c \in Conns : c = user[u].conn
    BY <1>7 DEF Reset, Handed, Holding
  <2>1. /\ user' = [user EXCEPT ![u] = Out] /\ idle' = Append(idle, c)
        /\ user[u].at = "return"
    BY <1>7, <2>0 DEF Reset
  <2>2. Out.conn = NoConn
    BY DEF Out, User
  <2>3. c \in Conns /\ c # NoConn
    BY PoolAssumption
  <2>4. /\ c \notin ToSet(idle) /\ c # appender.conn
        /\ \A v \in Users \ {u} : user[v].conn # c
    BY <2>0, <2>3 DEF Apart
  <2>5. ToSet(idle') = ToSet(idle) \cup {c} /\ NoTwice(idle')
    BY <1>1, <2>1, <2>3, <2>4, AppendAsSet DEF Apart
  <2>6. \A v \in Users : user'[v] = IF v = u THEN Out ELSE user[v]
    BY <1>1, <2>1
  <2>7. /\ \A v \in Users : user'[v].at \in Bare => user'[v].conn = NoConn
        /\ \A v \in Users : user'[v].conn # NoConn =>
             v # u /\ user'[v] = user[v]
    BY <2>2, <2>6 DEF Apart
  <2>8. Apart'
    BY <1>2, <2>4, <2>5, <2>7 DEF Apart
  <2>9. ASSUME NEW d \in Conns
        PROVE  lease'[d] = IF d = c THEN {} ELSE lease[d]
    <3>1. CASE d = c
      BY <2>2, <2>3, <2>4, <2>6, <3>1 DEF lease
    <3>2. CASE d # c
      BY <2>0, <2>2, <2>6, <3>2, PoolAssumption DEF lease
    <3> QED BY <3>1, <3>2
  <2>10. lease' = [lease EXCEPT ![c] = {}]
    BY <2>9 DEF lease
  <2>11. lease[c] = {u}
    BY <2>0, <2>3, <2>4 DEF lease
  <2>12. Leases!GiveBack(c, u)
    BY <2>4, <2>5, <2>10, <2>11 DEF Leases!GiveBack, lease
  <2>13. Leases!Next
    BY <2>3, <2>12, Zenon DEF Leases!Next
  <2> QED BY <2>8, <2>13, Zenon DEF lease
<1> QED BY <1>3, <1>4, <1>5, <1>6, <1>7 DEF UserStep

(* The appender makes a connection available when it pushes it, and whatever *)
(* else it does goes unnoticed.                                              *)
LEMMA AppenderLeases ==
  ASSUME TypeOK, Handed, Apart, AppenderStep
  PROVE  Apart' /\ [Leases!Next]_<<lease, ToSet(idle)>>
<1>1. idle \in Seq(Conns)
  BY DEF TypeOK
<1>2. UNCHANGED user
  BY Zenon DEF AppenderStep, PopTask, Decide, Connect, ConnectFails, CheckState,
     Count, Push
<1>3. UNCHANGED lease
  BY <1>2 DEF lease
<1>4. CASE \/ PopTask \/ Decide \/ ConnectFails \/ CheckState \/ Count
  <2>1. UNCHANGED idle
    BY <1>4, Zenon DEF PopTask, Decide, ConnectFails, CheckState, Count
  <2>2. appender'.conn \in {appender.conn, NoConn}
    BY <1>4 DEF PopTask, Decide, ConnectFails, CheckState, Count, Appender, TypeOK
  <2>3. Apart'
    BY <1>2, <2>1, <2>2 DEF Apart
  <2> QED BY <1>3, <2>1, <2>3
<1>5. CASE Connect
  <2>1. PICK c \in Conns \ (InHand \cup ToSet(idle)) : appender' = Appender("built", c)
    BY <1>5 DEF Connect
  <2>2. UNCHANGED idle
    BY <1>5 DEF Connect
  <2>3. /\ appender'.conn = c /\ c \notin ToSet(idle)
        /\ \A v \in Users : user[v].conn # c
    BY <2>1 DEF Appender, InHand
  <2>4. Apart'
    BY <1>2, <2>2, <2>3 DEF Apart
  <2> QED BY <1>3, <2>2, <2>4
<1>6. CASE Push
  <2>1. PICK c \in Conns : c = appender.conn
    BY <1>6 DEF Push, Handed
  <2>2. idle' = <<c>> \o idle /\ appender'.conn = NoConn
    BY <1>6, <2>1 DEF Push, Appender
  <2>3. c # NoConn
    BY PoolAssumption
  <2>4. c \notin ToSet(idle) /\ \A v \in Users : user[v].conn # c
    BY <2>1, <2>3 DEF Apart
  <2>5. ToSet(idle') = ToSet(idle) \cup {c} /\ NoTwice(idle')
    BY <1>1, <2>2, <2>4, PrependAsSet DEF Apart
  <2>6. Apart'
    BY <1>2, <2>2, <2>4, <2>5 DEF Apart
  <2>7. lease[c] = {}
    BY <2>4 DEF lease
  <2>8. Leases!Open(c)
    BY <1>3, <2>4, <2>5, <2>7 DEF Leases!Open, lease
  <2>9. Leases!Next
    BY <2>8, Zenon DEF Leases!Next
  <2> QED BY <2>6, <2>9, Zenon DEF lease
<1> QED BY <1>4, <1>5, <1>6 DEF AppenderStep

(* When connections leave the deque, nobody comes to share one.              *)
LEMMA Removed ==
  ASSUME Apart, NoTwice(idle'), ToSet(idle') \subseteq ToSet(idle),
         UNCHANGED <<user, appender>>
  PROVE  Apart' /\ [Leases!Next]_<<lease, ToSet(idle)>>
<1>1. Apart'
  BY DEF Apart
<1>2. PICK gone : gone = ToSet(idle) \ ToSet(idle')
  OBVIOUS
<1>3. UNCHANGED lease
  BY DEF lease
<1>4. gone \in SUBSET ToSet(idle) /\ ToSet(idle') = ToSet(idle) \ gone
  BY <1>2
<1>5. Leases!RetireAvailable(gone)
  BY <1>3, <1>4 DEF Leases!RetireAvailable, lease
<1>6. Leases!Next
  BY <1>4, <1>5, Zenon DEF Leases!Next
<1> QED BY <1>1, <1>6, Zenon DEF lease

(* The idle check takes connections out of the deque, one at a time.         *)
LEMMA CheckerLeases ==
  ASSUME TypeOK, Handed, Apart, CheckerStep
  PROVE  Apart' /\ [Leases!Next]_<<lease, ToSet(idle)>>
<1>1. idle \in Seq(Conns) /\ checker.pos \in Nat
  BY DEF TypeOK
<1>2. UNCHANGED <<user, appender>>
  BY Zenon DEF CheckerStep, CheckPass, StartCheck, LockIdles, KeepIdle,
     ReleaseIdle, EraseIdle, EndCheck
<1>3. CASE EraseIdle
  <2>1. checker.pos \in 1..Len(idle)
    BY <1>1, <1>3 DEF EraseIdle, Handed
  <2>2. idle' = RemoveAt(idle, checker.pos)
    BY <1>3 DEF EraseIdle
  <2>3. NoTwice(idle') /\ ToSet(idle') \subseteq ToSet(idle)
    BY <1>1, <2>1, <2>2, RemoveAtAsSet DEF Apart
  <2> QED BY <1>2, <2>3, Removed
<1>4. CASE ~ EraseIdle
  <2>1. UNCHANGED idle
    BY <1>4, Zenon DEF CheckerStep, CheckPass, StartCheck, LockIdles, KeepIdle,
       ReleaseIdle, EndCheck
  <2>2. NoTwice(idle') /\ ToSet(idle') \subseteq ToSet(idle)
    BY <2>1 DEF Apart
  <2> QED BY <1>2, <2>2, Removed
<1> QED BY <1>3, <1>4

(* Closing the pool empties the deque.                                       *)
LEMMA CloserLeases ==
  ASSUME TypeOK, Handed, Apart, CloserStep
  PROVE  Apart' /\ [Leases!Next]_<<lease, ToSet(idle)>>
<1>1. UNCHANGED <<user, appender>>
  BY Zenon DEF CloserStep, BeginClose, ForgetRequests, CancelAndShutdown,
     CloseIdle, WaitForUsers, LookForLeftovers, CloseLeftovers
<1>2. UNCHANGED idle \/ idle' = <<>>
  BY Zenon DEF CloserStep, BeginClose, ForgetRequests, CancelAndShutdown,
     CloseIdle, WaitForUsers, LookForLeftovers, CloseLeftovers, closeAll
<1>3. CASE UNCHANGED idle
  <2>1. NoTwice(idle') /\ ToSet(idle') \subseteq ToSet(idle)
    BY <1>3 DEF Apart
  <2> QED BY <1>1, <2>1, Removed
<1>4. CASE idle' = <<>>
  <2>1. NoTwice(<<>>) /\ ToSet(<<>>) = {}
    BY DEF NoTwice, ToSet
  <2>2. NoTwice(idle') /\ ToSet(idle') \subseteq ToSet(idle)
    BY <1>4, <2>1
  <2> QED BY <1>1, <2>2, Removed
<1> QED BY <1>2, <1>3, <1>4

(* Every step of the pool is a step of its leases.                           *)
LEMMA StepLeases ==
  ASSUME TypeOK, Handed, Apart, [Next]_vars
  PROVE  Apart' /\ [Leases!Next]_<<lease, ToSet(idle)>>
<1>1. CASE UNCHANGED vars
  <2>1. UNCHANGED <<user, appender, idle>>
    BY <1>1 DEF vars
  <2>2. NoTwice(idle') /\ ToSet(idle') \subseteq ToSet(idle)
    BY <2>1 DEF Apart
  <2> QED BY <2>1, <2>2, Removed
<1>2. CASE Next
  BY <1>2, UserLeases, AppenderLeases, CheckerLeases, CloserLeases DEF Next
<1> QED BY <1>1, <1>2

(* A new pool has its first connection available and none leased.            *)
LEMMA LeasesAtFirst ==
  ASSUME Init
  PROVE  Apart /\ Leases!Init
<1>1. PICK c \in Conns : idle = <<c>>
  BY DEF Init
<1>2. ToSet(idle) = {c} /\ NoTwice(idle)
  BY <1>1 DEF ToSet, NoTwice
<1>3. \A u \in Users : user[u].conn = NoConn
  BY DEF Init, Out, User
<1>4. appender.conn = NoConn
  BY DEF Init, Appender
<1>5. Apart
  BY <1>2, <1>3, <1>4 DEF Apart
<1>6. \A d \in Conns : {u \in Users : user[u].conn = d} = {}
  BY <1>3, PoolAssumption
<1>7. Leases!Init
  BY <1>2, <1>6 DEF Leases!Init
<1> QED BY <1>5, <1>7

(* A thread has its connection to itself from pollFirst until the reset      *)
(* connection is back in the deque, whatever the server does and whoever     *)
(* closes the pool meanwhile.                                                *)
THEOREM PoolImplementsLeases == Spec => ImplementsLeases
<1> DEFINE Inv == TypeOK /\ Handed /\ Apart
<1>1. Init => Inv /\ Leases!Init
  BY TypesAtFirst, LeasesAtFirst
<1>2. Inv /\ [Next]_vars => Inv'
  BY TypesKept, StepLeases
<1>3. Inv /\ [Next]_vars => [Leases!Next]_<<lease, ToSet(idle)>>
  BY StepLeases
<1> QED BY <1>1, <1>2, <1>3, PTL DEF Spec, ImplementsLeases, Leases!Spec, lease
=============================================================================
