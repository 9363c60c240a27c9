-------------------------- MODULE ConnectionLeases --------------------------
(***************************************************************************)
(* What a connection pool promises: a physical connection is either         *)
(* available or leased to one thread, and passes from one thread to another *)
(* only by becoming available in between.                                   *)
(***************************************************************************)
CONSTANTS Users, Conns

VARIABLES
  lease,          \* the threads that have each connection
  available       \* the connections that a thread may be given

Init ==
  /\ \E c \in Conns : available = {c}
  /\ lease = [c \in Conns |-> {}]

Open(c) ==
  /\ lease[c] = {}
  /\ c \notin available
  /\ available' = available \cup {c}
  /\ UNCHANGED lease

Lease(c, u) ==
  /\ c \in available
  /\ lease[c] = {}
  /\ available' = available \ {c}
  /\ lease' = [lease EXCEPT ![c] = {u}]

GiveBack(c, u) ==
  /\ lease[c] = {u}
  /\ c \notin available
  /\ available' = available \cup {c}
  /\ lease' = [lease EXCEPT ![c] = {}]

Retire(c) ==
  /\ lease' = [lease EXCEPT ![c] = {}]
  /\ UNCHANGED available

RetireAvailable(gone) ==
  /\ gone \subseteq available
  /\ available' = available \ gone
  /\ UNCHANGED lease

Next ==
  \/ \E c \in Conns :
       \/ Open(c)
       \/ Retire(c)
       \/ \E u \in Users : Lease(c, u) \/ GiveBack(c, u)
  \/ \E gone \in SUBSET available : RetireAvailable(gone)

Spec == Init /\ [][Next]_<<lease, available>>
=============================================================================
