------------------------ MODULE ConnectionStoreProofs ------------------------
(* For any nicknames, windows, bound on the IDs and disk faults: the IDs in  *)
(* loginconfig.xml stay unique, a connection leaves it only on request, and  *)
(* a file that cannot be read is never overwritten.                          *)
EXTENDS ConnectionStore, SequenceLemmas, SequenceTheorems, FiniteSetTheorems,
        WellFoundedInduction, TLAPS

-----------------------------------------------------------------------------
(* Sequences. *)

(* A set of naturals has its minimum.                                        *)
LEMMA MinProperties ==
  ASSUME NEW I \in SUBSET Nat, I # {}
  PROVE  Min(I) \in I /\ \A y \in I : Min(I) =< y
<1>1. \E x \in I : \A y \in I : <<y, x>> \notin OpToRel(<, Nat)
  BY WFMin, NatLessThanWellFounded, Zenon
<1>2. \E x \in I : \A y \in I : x =< y
  <2>1. PICK x \in I : \A y \in I : <<y, x>> \notin OpToRel(<, Nat)
    BY <1>1
  <2>2. \A y \in I : ~ (y < x)
    BY <2>1, Zenon DEF OpToRel
  <2>3. \A y \in I : x =< y
    BY <2>2
  <2> QED BY <2>3
<1> QED BY <1>2 DEF Min

(* SelectInSeq finds the first index, when there is one.                     *)
LEMMA IndexOfProperties ==
  ASSUME NEW items \in Seq(Item), NEW name \in SelectedNames(items)
  PROVE  /\ IndexOf(items, name) \in 1..Len(items)
         /\ items[IndexOf(items, name)].name = name
<1> DEFINE I == {i \in 1..Len(items) : items[i].name = name}
<1>1. I # {}
  BY DEF SelectedNames
<1>2. I \in SUBSET Nat
  OBVIOUS
<1>3. Min(I) \in I
  BY <1>1, <1>2, MinProperties
<1>4. IndexOf(items, name) = Min(I)
  BY <1>1 DEF IndexOf, SelectInSeq
<1> QED BY <1>3, <1>4

(* The entries of a list without one of its elements were in it before.      *)
LEMMA RemoveAtSelected ==
  ASSUME NEW items \in Seq(Item), NEW k \in 1..Len(items)
  PROVE  SelectedNames(RemoveAt(items, k)) \subseteq SelectedNames(items)
<1> DEFINE r == RemoveAt(items, k)
<1>1. /\ r \in Seq(Item)
      /\ Len(r) = Len(items) - 1
      /\ \A i \in 1..Len(items) - 1 :
           r[i] = IF i < k THEN items[i] ELSE items[i + 1]
  BY RemoveAtProperties
<1> HIDE DEF r
<1>2. \A i \in DOMAIN r : \E j \in DOMAIN items : r[i] = items[j]
  <2> SUFFICES ASSUME NEW i \in DOMAIN r
               PROVE  \E j \in DOMAIN items : r[i] = items[j]
    OBVIOUS
  <2>1. i \in 1..Len(items) - 1
    BY <1>1
  <2>2. CASE i < k
    BY <1>1, <2>1, <2>2
  <2>3. CASE ~ (i < k)
    BY <1>1, <2>1, <2>3
  <2> QED BY <2>2, <2>3
<1>3. SelectedNames(r) \subseteq SelectedNames(items)
  BY <1>2 DEF SelectedNames
<1> QED BY <1>3 DEF r

(* NodeRemoved keeps the type and the order of the IDs, and takes away no    *)
(* connection of another nickname.                                           *)
LEMMA NodeRemovedProperties ==
  ASSUME NEW doc \in Seq(Connection), NEW nickname, Increasing(doc)
  PROVE  /\ NodeRemoved(doc, nickname) \in Seq(Connection)
         /\ Increasing(NodeRemoved(doc, nickname))
         /\ \A c \in ToSet(doc) \ ToSet(NodeRemoved(doc, nickname)) :
              c.Nickname = nickname
<1>1. CASE \A i \in DOMAIN doc : doc[i].Nickname # nickname
  BY <1>1 DEF NodeRemoved
<1>2. CASE \E i \in DOMAIN doc : doc[i].Nickname = nickname
  <2> DEFINE I == {i \in 1..Len(doc) : doc[i].Nickname = nickname}
             k == Min(I)
             r == RemoveAt(doc, k)
  <2>1. I # {} /\ I \in SUBSET Nat
    BY <1>2
  <2>2. k \in I
    BY <2>1, MinProperties
  <2>3. NodeRemoved(doc, nickname) = r
    BY <1>2, <2>1 DEF NodeRemoved, SelectInSeq
  <2>4. k \in 1..Len(doc) /\ doc[k].Nickname = nickname
    BY <2>2
  <2> HIDE DEF k
  <2>5. /\ r \in Seq(Connection)
        /\ Len(r) = Len(doc) - 1
        /\ \A i \in 1..Len(doc) - 1 :
             r[i] = IF i < k THEN doc[i] ELSE doc[i + 1]
    BY <2>4, RemoveAtProperties
  <2> HIDE DEF r, I
  <2>6. Increasing(r)
    <3> SUFFICES ASSUME NEW i \in 1..Len(doc) - 1, NEW j \in 1..Len(doc) - 1,
                        i < j
                 PROVE  r[i].ID < r[j].ID
      BY <2>5 DEF Increasing
    <3> DEFINE p == IF i < k THEN i ELSE i + 1
               q == IF j < k THEN j ELSE j + 1
    <3>1. r[i] = doc[p] /\ r[j] = doc[q]
      BY <2>5
    <3>2. p \in 1..Len(doc) /\ q \in 1..Len(doc) /\ p < q
      BY <2>4
    <3> HIDE DEF p, q
    <3> QED BY <3>1, <3>2 DEF Increasing
  <2>7. ASSUME NEW c \in ToSet(doc), c \notin ToSet(r)
        PROVE  c.Nickname = nickname
    <3>1. PICK i \in 1..Len(doc) : doc[i] = c
      BY DEF ToSet
    <3>2. CASE i < k
      <4>1. i \in DOMAIN r /\ r[i] = c
        BY <2>4, <2>5, <3>1, <3>2
      <4> QED BY <2>7, <4>1 DEF ToSet
    <3>3. CASE i = k
      BY <2>4, <3>1, <3>3
    <3>4. CASE i > k
      <4>1. i - 1 \in 1..Len(doc) - 1 /\ ~ (i - 1 < k) /\ (i - 1) + 1 = i
        BY <2>4, <3>4
      <4>2. i - 1 \in DOMAIN r /\ r[i - 1] = c
        BY <2>5, <3>1, <4>1
      <4> QED BY <2>7, <4>2 DEF ToSet
    <3> QED BY <2>4, <3>2, <3>3, <3>4
  <2> QED BY <2>3, <2>5, <2>6, <2>7
<1> QED BY <1>1, <1>2

(* The ID of a new connection is above all others.                           *)
LEMMA NewIDProperties ==
  ASSUME NEW doc \in Seq(Connection), Increasing(doc)
  PROVE  /\ NewID(doc) \in Nat \ {0}
         /\ \A i \in DOMAIN doc : doc[i].ID < NewID(doc)
<1>1. CASE doc = <<>>
  BY <1>1 DEF NewID
<1>2. CASE doc # <<>>
  <2> DEFINE I == {doc[i].ID : i \in DOMAIN doc}
             last == doc[Len(doc)].ID
  <2>0. \A i \in DOMAIN doc : doc[i].ID \in Nat \ {0}
    <3>1. \A c \in Connection : c.ID \in 1..MaxID
      BY DEF Connection
    <3>2. MaxID \in Nat
      BY StoreAssumption
    <3> QED BY <3>1, <3>2
  <2>1. last \in I /\ I \in SUBSET (Nat \ {0})
    BY <1>2, <2>0
  <2>2. \A i \in DOMAIN doc : last >= doc[i].ID
    <3> SUFFICES ASSUME NEW i \in DOMAIN doc
                 PROVE  last >= doc[i].ID
      OBVIOUS
    <3>1. i = Len(doc) \/ i < Len(doc)
      OBVIOUS
    <3>2. CASE i < Len(doc)
      <4>1. Len(doc) \in DOMAIN doc
        BY <1>2
      <4>2. doc[i].ID < last
        BY <3>2, <4>1 DEF Increasing
      <4> QED BY <2>0, <4>1, <4>2
    <3>3. CASE i = Len(doc)
      BY <2>0, <3>3
    <3> QED BY <3>1, <3>2, <3>3
  <2>3. \E x \in I : \A y \in I : x >= y
    BY <2>1, <2>2
  <2>4. Max(I) \in I /\ \A y \in I : Max(I) >= y
    BY <2>3 DEF Max
  <2>5. NewID(doc) = Max(I) + 1
    BY <1>2 DEF NewID
  <2> HIDE DEF I
  <2>6. \A i \in DOMAIN doc : doc[i].ID \in I
    BY DEF I
  <2>7. Max(I) \in Nat \ {0}
    BY <2>1, <2>4
  <2>8. \A i \in DOMAIN doc : Max(I) >= doc[i].ID
    BY <2>4, <2>6
  <2> HIDE DEF last
  <2> QED BY <2>0, <2>5, <2>7, <2>8
<1> QED BY <1>1, <1>2

(* A name that is removed where it first occurs leaves the first connection  *)
(* of that nickname out, or nothing.                                         *)
LEMMA NodeRemovedWhere ==
  ASSUME NEW doc \in Seq(Connection), NEW nickname
  PROVE  \/ /\ \A i \in DOMAIN doc : doc[i].Nickname # nickname
            /\ NodeRemoved(doc, nickname) = doc
         \/ \E k \in DOMAIN doc :
              /\ doc[k].Nickname = nickname
              /\ \A i \in DOMAIN doc : i < k => doc[i].Nickname # nickname
              /\ NodeRemoved(doc, nickname) = RemoveAt(doc, k)
<1>1. CASE \A i \in DOMAIN doc : doc[i].Nickname # nickname
  BY <1>1 DEF NodeRemoved
<1>2. CASE \E i \in DOMAIN doc : doc[i].Nickname = nickname
  <2> DEFINE I == {i \in 1..Len(doc) : doc[i].Nickname = nickname}
  <2>1. I # {} /\ I \in SUBSET Nat
    BY <1>2
  <2>2. Min(I) \in I /\ \A i \in I : Min(I) =< i
    BY <2>1, MinProperties
  <2>3. NodeRemoved(doc, nickname) = RemoveAt(doc, Min(I))
    BY <1>2, <2>1 DEF NodeRemoved, SelectInSeq
  <2> DEFINE k == Min(I)
  <2>4. k \in DOMAIN doc /\ doc[k].Nickname = nickname
    BY <2>2
  <2>5. \A i \in DOMAIN doc : i < k => doc[i].Nickname # nickname
    BY <2>1, <2>2
  <2>6. NodeRemoved(doc, nickname) = RemoveAt(doc, k)
    BY <2>3
  <2> HIDE DEF k
  <2> QED BY <2>4, <2>5, <2>6
<1> QED BY <1>1, <1>2

(* The nicknames of a document, and of what the file holds.                  *)
LEMMA NicknamesOfType ==
  ASSUME NEW doc \in Seq(Connection)
  PROVE  NicknamesOf(doc) \in Seq(Nicknames)
<1>1. \A c \in Connection : c.Nickname \in Nicknames
  BY DEF Connection
<1>2. \A i \in DOMAIN doc : doc[i].Nickname \in Nicknames
  BY <1>1
<1> QED BY <1>2 DEF NicknamesOf

(* The nicknames of a document without one of its entries.                   *)
LEMMA NicknamesWithout ==
  ASSUME NEW doc \in Seq(Connection), NEW k \in DOMAIN doc
  PROVE  NicknamesOf(RemoveAt(doc, k)) = RemoveAt(NicknamesOf(doc), k)
<1> DEFINE r == RemoveAt(doc, k)
           names == NicknamesOf(doc)
           s == RemoveAt(names, k)
<1>1. /\ r \in Seq(Connection)
      /\ Len(r) = Len(doc) - 1
      /\ \A i \in 1..Len(doc) - 1 :
           r[i] = IF i < k THEN doc[i] ELSE doc[i + 1]
  BY RemoveAtProperties
<1>2. /\ names \in Seq(Nicknames)
      /\ Len(names) = Len(doc)
      /\ \A i \in 1..Len(doc) : names[i] = doc[i].Nickname
  BY NicknamesOfType DEF NicknamesOf
<1>3. /\ s \in Seq(Nicknames)
      /\ Len(s) = Len(doc) - 1
      /\ \A i \in 1..Len(doc) - 1 :
           s[i] = IF i < k THEN names[i] ELSE names[i + 1]
  <2> HIDE DEF names
  <2>1. k \in 1..Len(names)
    BY <1>2
  <2>2. names \in Seq(Nicknames)
    BY <1>2
  <2> QED BY <1>2, <2>1, <2>2, RemoveAtProperties
<1> HIDE DEF r, s, names
<1>4. /\ NicknamesOf(r) \in Seq(Nicknames)
      /\ Len(NicknamesOf(r)) = Len(doc) - 1
      /\ \A i \in 1..Len(doc) - 1 : NicknamesOf(r)[i] = r[i].Nickname
  BY <1>1, NicknamesOfType DEF NicknamesOf
<1>5. \A i \in 1..Len(doc) - 1 : NicknamesOf(r)[i] = s[i]
  <2> SUFFICES ASSUME NEW i \in 1..Len(doc) - 1
               PROVE  NicknamesOf(r)[i] = s[i]
    OBVIOUS
  <2>1. i \in 1..Len(doc) /\ i + 1 \in 1..Len(doc)
    OBVIOUS
  <2>2. CASE i < k
    BY <1>1, <1>2, <1>3, <1>4, <2>1, <2>2
  <2>3. CASE ~ (i < k)
    BY <1>1, <1>2, <1>3, <1>4, <2>1, <2>3
  <2> QED BY <2>2, <2>3
<1>6. NicknamesOf(r) = s
  BY <1>3, <1>4, <1>5
<1> QED BY <1>6 DEF r, s, names

(* The copies of a name in a list can be counted.                            *)
LEMMA CopiesType ==
  ASSUME NEW S, NEW list \in Seq(S), NEW name
  PROVE  /\ IsFiniteSet({i \in DOMAIN list : list[i] = name})
         /\ Copies(list, name) \in Nat
         /\ Copies(list, name) >= 1 <=> name \in ToSet(list)
<1> DEFINE I == {i \in DOMAIN list : list[i] = name}
<1>1. IsFiniteSet(1..Len(list))
  BY FS_Interval
<1>2. I \in SUBSET (1..Len(list))
  OBVIOUS
<1>3. IsFiniteSet(I)
  BY <1>1, <1>2, FS_Subset
<1>4. Cardinality(I) \in Nat
  BY <1>3, FS_CardinalityType
<1>5. name \in ToSet(list) <=> I # {}
  BY DEF ToSet
<1>6. I # {} <=> Cardinality(I) # 0
  BY <1>3, FS_EmptySet
<1> QED BY <1>3, <1>4, <1>5, <1>6 DEF Copies

(* Without one of its entries a list has one copy less of its name, and as   *)
(* many as before of the others.                                             *)
LEMMA CopiesWithout ==
  ASSUME NEW S, NEW list \in Seq(S), NEW k \in DOMAIN list, NEW name
  PROVE  Copies(RemoveAt(list, k), name) =
           IF name = list[k] THEN Copies(list, name) - 1
                             ELSE Copies(list, name)
<1> DEFINE r == RemoveAt(list, k)
           I == {i \in DOMAIN list : list[i] = name}
           J == {i \in DOMAIN r : r[i] = name}
           f == [i \in J |-> IF i < k THEN i ELSE i + 1]
<1>1. /\ r \in Seq(S)
      /\ Len(r) = Len(list) - 1
      /\ \A i \in 1..Len(list) - 1 :
           r[i] = IF i < k THEN list[i] ELSE list[i + 1]
  BY RemoveAtProperties
<1> HIDE DEF r
<1>2. f \in [J -> I \ {k}]
  <2> SUFFICES ASSUME NEW i \in J PROVE f[i] \in I \ {k}
    OBVIOUS
  <2>1. i \in 1..Len(list) - 1 /\ r[i] = name
    BY <1>1
  <2>2. CASE i < k
    BY <1>1, <2>1, <2>2
  <2>3. CASE ~ (i < k)
    BY <1>1, <2>1, <2>3
  <2> QED BY <2>2, <2>3
<1>3. \A i, j \in J : f[i] = f[j] => i = j
  BY <1>1
<1>4. \A j \in I \ {k} : \E i \in J : f[i] = j
  <2> SUFFICES ASSUME NEW j \in I \ {k}
               PROVE  \E i \in J : f[i] = j
    OBVIOUS
  <2>1. CASE j < k
    <3>1. j \in 1..Len(list) - 1 /\ r[j] = list[j]
      BY <1>1, <2>1
    <3>2. j \in J
      BY <1>1, <3>1
    <3> QED BY <2>1, <3>2
  <2>2. CASE j > k
    <3>1. j - 1 \in 1..Len(list) - 1 /\ ~ (j - 1 < k) /\ (j - 1) + 1 = j
      BY <1>1, <2>2
    <3>2. r[j - 1] = list[j]
      BY <1>1, <3>1
    <3>3. j - 1 \in J
      BY <1>1, <3>1, <3>2
    <3> QED BY <3>1, <3>3
  <2> QED BY <2>1, <2>2
<1>5. f \in Bijection(J, I \ {k})
  BY <1>2, <1>3, <1>4 DEF Bijection, Injection, Surjection, IsInjective
<1>6. ExistsBijection(J, I \ {k})
  BY <1>5 DEF ExistsBijection
<1>7. IsFiniteSet(J) /\ IsFiniteSet(I)
  BY <1>1, CopiesType DEF r
<1>8. Cardinality(I \ {k}) = Cardinality(J)
  BY <1>6, <1>7, FS_Bijection
<1>9. Cardinality(I \ {k}) =
        IF k \in I THEN Cardinality(I) - 1 ELSE Cardinality(I)
  BY <1>7, FS_RemoveElement
<1> QED BY <1>8, <1>9 DEF Copies, r

-----------------------------------------------------------------------------
(* The inductive invariant: one lemma per action.                            *)

(* The messages a handler ends with are messages.                            *)
LEMMA SaysType ==
  ASSUME NEW text \in Texts, NEW n \in Nat
  PROVE  Says(text, n) \in [text : Texts, count : Nat]
BY DEF Says

(* What LogException and a silent end leave in message are messages.         *)
LEMMA LoggedType == Logged \in [text : Texts, count : Nat]
BY DEF Logged, Says, Texts

(* ... likewise for a handler that ends without a box.                       *)
LEMMA SilentType == Silent \in [text : Texts, count : Nat]
BY DEF Silent, Says, Texts

(* What the file holds is a document, also when it cannot be read.           *)
LEMMA StoredType ==
  ASSUME TypeOK
  PROVE  /\ Stored(login_config) \in Seq(Connection)
         /\ NicknamesOf(Stored(login_config)) \in Seq(Nicknames)
<1>1. Stored(login_config) \in Seq(Connection)
  BY DEF TypeOK, Stored
<1> QED BY <1>1, NicknamesOfType

(* A failed save leaves no IDs that were not there.                          *)
LEMMA FileKept ==
  ASSUME IDsIncrease, login_config' \in {login_config, Corrupt}
  PROVE  IDsIncrease'
<1>1. CASE login_config' = login_config
  BY <1>1 DEF IDsIncrease
<1>2. CASE login_config' = Corrupt
  BY <1>2 DEF IDsIncrease, Stored, Increasing
<1> QED BY <1>1, <1>2

(* A new process over a file whose IDs increase.                             *)
LEMMA NewProcessStep ==
  ASSUME IInv, NewProcess,
         login_config' \in {login_config, Corrupt}
  PROVE  IInv'
<1>1. TypeOK'
  <2>1. login_config' \in Seq(Connection) \cup {NoFile, Corrupt}
    BY DEF IInv, TypeOK
  <2>2. login_list' \in Seq(Nicknames)
    BY DEF NewProcess
  <2>3. window' \in [Windows -> Seq(Item) \cup {Closed}]
    BY DEF NewProcess, NoWindows
  <2>4. message' \in [text : Texts, count : Nat]
    BY DEF NewProcess, Silent, Says, Texts
  <2> QED BY <2>1, <2>2, <2>3, <2>4 DEF TypeOK, NewProcess
<1>2. IDsIncrease'
  BY FileKept DEF IInv
<1>3. JobInv'
  BY DEF NewProcess, JobInv, Waiting
<1> QED BY <1>1, <1>2, <1>3 DEF IInv

(* A reload takes the nicknames of the file or changes nothing.              *)
LEMMA LoadStep ==
  ASSUME IInv, LoadConnectionDetails
  PROVE  IInv'
<1> USE DEF LoadConnectionDetails
<1>1. login_list' \in Seq(Nicknames)
  BY StoredType DEF IInv, TypeOK, Loaded
<1>2. message' \in [text : Texts, count : Nat]
  BY SaysType, LoggedType DEF IInv, TypeOK, Texts
<1>3. TypeOK'
  BY <1>1, <1>2 DEF IInv, TypeOK
<1>4. IDsIncrease' /\ JobInv'
  BY DEF IInv, IDsIncrease, JobInv, Waiting
<1> QED BY <1>3, <1>4 DEF IInv

(* A refused login empties the list and leaves the file.                     *)
LEMMA RefuseStep ==
  ASSUME IInv, RefuseLogin
  PROVE  IInv'
<1>1. message' \in [text : Texts, count : Nat]
  BY SaysType DEF RefuseLogin, Texts
<1>2. login_list' \in Seq(Nicknames)
  BY DEF RefuseLogin
<1>3. TypeOK'
  BY <1>1, <1>2 DEF RefuseLogin, IInv, TypeOK
<1>4. IDsIncrease' /\ JobInv'
  BY DEF RefuseLogin, IInv, IDsIncrease, JobInv, Waiting
<1> QED BY <1>3, <1>4 DEF IInv

(* A login appends an ID above all those in the file.                        *)
LEMMA LoginStep ==
  ASSUME IInv, NEW nickname \in Nicknames, AuthenticateUser(nickname)
  PROVE  IInv'
<1> DEFINE doc == Stored(login_config)
           new == [ID |-> NewID(doc), Nickname |-> nickname]
<1>1. doc \in Seq(Connection) /\ Increasing(doc)
  BY StoredType DEF IInv, IDsIncrease
<1>2. <<nickname>> \in Seq(Nicknames)
  OBVIOUS
<1>3. CASE DiesInSave
  BY <1>3, NewProcessStep DEF DiesInSave
<1>4. CASE /\ login_config' \in {login_config, Corrupt}
           /\ login_list' = <<nickname>>
           /\ message' = Logged
           /\ UNCHANGED <<window, job>>
  <2>1. TypeOK'
    BY <1>2, <1>4, LoggedType DEF IInv, TypeOK
  <2>2. IDsIncrease'
    BY <1>4, FileKept DEF IInv
  <2>3. JobInv'
    BY <1>4 DEF AuthenticateUser, JobInv, Waiting
  <2> QED BY <2>1, <2>2, <2>3 DEF IInv
<1>5. CASE /\ new.ID <= MaxID
           /\ Save(Append(doc, new))
           /\ login_list' = Loaded(login_config')
           /\ message' = Silent
           /\ UNCHANGED <<window, job>>
  <2>1. /\ NewID(doc) \in Nat \ {0}
        /\ \A i \in DOMAIN doc : doc[i].ID < NewID(doc)
    BY <1>1, NewIDProperties
  <2>2. new \in Connection
    BY <1>5, <2>1, StoreAssumption DEF Connection
  <2> DEFINE longer == Append(doc, new)
  <2>3. login_config' = longer
    BY <1>5 DEF Save
  <2>4. longer \in Seq(Connection)
    BY <1>1, <2>2
  <2>5. Increasing(longer)
    <3> SUFFICES ASSUME NEW i \in DOMAIN longer, NEW j \in DOMAIN longer,
                        i < j
                 PROVE  longer[i].ID < longer[j].ID
      BY DEF Increasing
    <3>1. i \in DOMAIN doc /\ longer[i] = doc[i]
      BY <1>1, <2>2
    <3>2. CASE j \in DOMAIN doc
      <4>1. longer[j] = doc[j]
        BY <1>1, <2>2, <3>2
      <4> QED BY <1>1, <3>1, <3>2, <4>1 DEF Increasing
    <3>3. CASE j \notin DOMAIN doc
      <4>1. longer[j] = new
        BY <1>1, <2>2, <3>3
      <4>2. new.ID = NewID(doc)
        OBVIOUS
      <4> QED BY <2>1, <3>1, <4>1, <4>2
    <3> QED BY <3>2, <3>3
  <2> HIDE DEF longer
  <2>6. Stored(longer) = longer
    BY <2>4, StoreAssumption DEF Stored
  <2>7. login_list' \in Seq(Nicknames)
    BY <1>5, <2>3, <2>4, <2>6, NicknamesOfType DEF Loaded
  <2>8. TypeOK'
    BY <1>5, <2>3, <2>4, <2>7, SilentType DEF IInv, TypeOK
  <2>9. IDsIncrease'
    BY <2>3, <2>5, <2>6 DEF IDsIncrease
  <2>10. JobInv'
    BY <1>5 DEF AuthenticateUser, JobInv, Waiting
  <2> QED BY <2>8, <2>9, <2>10 DEF IInv
<1> QED BY <1>3, <1>4, <1>5 DEF AuthenticateUser, SaveFails

(* The handlers that change a window only.                                   *)
LEMMA WindowStep ==
  ASSUME IInv, Waiting, NEW w \in Windows,
         UNCHANGED <<login_config, login_list, job>>,
         message' \in [text : Texts, count : Nat],
         NEW value \in Seq(Item) \cup {Closed},
         window' = [window EXCEPT ![w] = value]
  PROVE  IInv'
<1>1. TypeOK'
  BY DEF IInv, TypeOK
<1>2. IDsIncrease' /\ JobInv'
  BY DEF IInv, IDsIncrease, JobInv, Waiting
<1> QED BY <1>1, <1>2 DEF IInv

(* A delete window opens with an item for each entry of the list.            *)
LEMMA OpenStep ==
  ASSUME IInv, NEW w \in Windows, delete_connection_Click(w)
  PROVE  IInv'
<1> DEFINE items == [i \in DOMAIN login_list |->
                       [name |-> login_list[i], selected |-> FALSE]]
<1>1. login_list \in Seq(Nicknames) /\ message \in [text : Texts, count : Nat]
  BY DEF IInv, TypeOK
<1>2. \A i \in DOMAIN login_list :
        [name |-> login_list[i], selected |-> FALSE] \in Item
  BY <1>1 DEF Item
<1>3. items \in Seq(Item)
  BY <1>1, <1>2
<1> HIDE DEF items
<1>4. window' = [window EXCEPT ![w] = items]
  BY DEF delete_connection_Click, items
<1> QED BY <1>1, <1>3, <1>4, WindowStep DEF delete_connection_Click

(* A delete window is closed.                                                *)
LEMMA CloseStep ==
  ASSUME IInv, NEW w \in Windows, confirm_button_Click(w)
  PROVE  IInv'
<1>1. message' \in [text : Texts, count : Nat]
  BY DEF confirm_button_Click, IInv, TypeOK
<1> QED BY <1>1, WindowStep DEF confirm_button_Click

(* A click on an item turns its selection over.                              *)
LEMMA SelectStep ==
  ASSUME IInv, NEW w \in Windows, SelectItem(w)
  PROVE  IInv'
<1>1. message' \in [text : Texts, count : Nat]
  BY DEF SelectItem, IInv, TypeOK
<1>2. window[w] \in Seq(Item) /\ window \in [Windows -> Seq(Item) \cup {Closed}]
  BY DEF SelectItem, IInv, TypeOK
<1>3. PICK i \in DOMAIN window[w] :
        window' = [window EXCEPT ![w][i].selected = ~@]
  BY DEF SelectItem
<1> DEFINE item == [window[w][i] EXCEPT !.selected = ~@]
           items == [window[w] EXCEPT ![i] = item]
<1>4. item \in Item
  <2>1. window[w][i] \in Item
    BY <1>2
  <2> QED BY <2>1 DEF Item
<1>5. window' = [window EXCEPT ![w] = items]
  BY <1>3
<1> HIDE DEF item
<1>6. items \in Seq(Item)
  BY <1>2, <1>4
<1> HIDE DEF items
<1> QED BY <1>1, <1>5, <1>6, WindowStep DEF SelectItem

(* SetSelected changes no more than the selection.                           *)
LEMMA SetSelectedType ==
  ASSUME NEW items \in Seq(Item), NEW value \in BOOLEAN
  PROVE  SetSelected(items, value) \in Seq(Item)
<1>1. \A item \in Item : [item EXCEPT !.selected = value] \in Item
  BY DEF Item
<1>2. \A i \in DOMAIN items : items[i] \in Item
  OBVIOUS
<1>3. \A i \in DOMAIN items :
        (IF /\ items[i].name \in ToSet(login_list)
            /\ i = IndexOf(items, items[i].name)
           THEN [items[i] EXCEPT !.selected = value]
           ELSE items[i]) \in Item
  BY <1>1, <1>2
<1> QED BY <1>3 DEF SetSelected

(* Select All and Deselect All touch nothing but the selection.              *)
LEMMA SelectAllStep ==
  ASSUME IInv, NEW w \in Windows,
         select_all_Click(w) \/ deselect_all_Click(w)
  PROVE  IInv'
<1>1. message' \in [text : Texts, count : Nat]
  <2>1. message \in [text : Texts, count : Nat]
    BY DEF IInv, TypeOK
  <2>2. Says("nothing_to_select", 0) \in [text : Texts, count : Nat]
    BY SaysType DEF Texts
  <2>3. message' \in {message, Says("nothing_to_select", 0)}
    BY DEF select_all_Click, deselect_all_Click
  <2> QED BY <2>1, <2>2, <2>3
<1>2. window[w] \in Seq(Item)
  BY DEF select_all_Click, deselect_all_Click, IInv, TypeOK
<1>3. PICK value \in BOOLEAN :
        window' = [window EXCEPT ![w] = SetSelected(window[w], value)]
  BY DEF select_all_Click, deselect_all_Click
<1>4. SetSelected(window[w], value) \in Seq(Item)
  BY <1>2, SetSelectedType
<1> QED BY <1>1, <1>3, <1>4, WindowStep DEF select_all_Click, deselect_all_Click

(* Delete Selected starts from the file, the list and the items as they are. *)
LEMMA StartStep ==
  ASSUME IInv, NEW w \in Windows, delete_selected_Click(w)
  PROVE  IInv'
<1>1. Waiting /\ window[w] \in Seq(Item) /\ login_list \in Seq(Nicknames)
  BY DEF delete_selected_Click, IInv, TypeOK
<1>2. UNCHANGED <<login_config, login_list, window>>
  BY DEF delete_selected_Click
<1>3. CASE UNCHANGED job /\ message' \in {Says("not_found", 0), Logged}
  <2>1. Says("not_found", 0) \in [text : Texts, count : Nat]
    BY SaysType DEF Texts
  <2>2. message' \in [text : Texts, count : Nat]
    BY <1>3, <2>1, LoggedType
  <2>3. TypeOK'
    BY <1>2, <1>3, <2>2 DEF IInv, TypeOK
  <2>4. IDsIncrease' /\ JobInv'
    BY <1>1, <1>2, <1>3 DEF IInv, IDsIncrease, JobInv, Waiting
  <2> QED BY <2>3, <2>4 DEF IInv
<1>4. CASE /\ login_config \notin {NoFile, Corrupt}
           /\ UNCHANGED message
           /\ job' = [window |-> w, rest |-> login_list,
                      doc |-> Stored(login_config), removed |-> 0,
                      asked |-> window[w]]
  <2>1. login_config \in Seq(Connection) /\ Stored(login_config) = login_config
    BY <1>4 DEF IInv, TypeOK, Stored
  <2>2. job' \in Jobs
    BY <1>1, <1>4, <2>1 DEF Jobs
  <2>3. TypeOK'
    BY <1>2, <1>4, <2>2 DEF IInv, TypeOK
  <2>4. IDsIncrease'
    BY <1>2 DEF IInv, IDsIncrease
  <2>5. JobInv'
    <3>1. /\ job'.rest = login_list
          /\ job'.doc = login_config
          /\ job'.window = w
          /\ job'.asked = window[w]
      BY <1>4, <2>1
    <3>2. Increasing(login_config)
      BY <2>1 DEF IInv, IDsIncrease
    <3>3. Len(login_list) \in Nat
      BY <1>1
    <3> QED BY <1>1, <1>2, <2>1, <3>1, <3>2, <3>3 DEF JobInv, Increasing, SelectedNames
  <2> QED BY <2>3, <2>4, <2>5 DEF IInv
<1> QED BY <1>3, <1>4 DEF delete_selected_Click, Unreadable

(* A turn removes one entry of each or none.                                 *)
LEMMA DeleteNextStep ==
  ASSUME IInv, DeleteNext
  PROVE  IInv'
<1> DEFINE w == job.window
           nickname == Head(job.rest)
           turn == Len(login_list) - Len(job.rest) + 1
<1>1. /\ job # NoJob
      /\ job \in Jobs
      /\ job.rest # <<>>
      /\ UNCHANGED <<login_config, message>>
  BY DEF DeleteNext, Waiting, IInv, TypeOK
<1>2. /\ w \in Windows
      /\ job.rest \in Seq(Nicknames)
      /\ job.doc \in Seq(Connection)
      /\ job.removed \in Nat
      /\ login_list \in Seq(Nicknames)
      /\ window \in [Windows -> Seq(Item) \cup {Closed}]
  BY <1>1 DEF Jobs, IInv, TypeOK
<1>3. /\ login_config \in Seq(Connection)
      /\ Len(job.rest) <= Len(login_list)
      /\ window[w] \in Seq(Item)
      /\ SelectedNames(window[w]) \subseteq SelectedNames(job.asked)
      /\ Increasing(job.doc)
      /\ \A c \in ToSet(login_config) \ ToSet(job.doc) :
           c.Nickname \in SelectedNames(job.asked)
  BY <1>1 DEF IInv, JobInv, Waiting
<1>4. /\ Tail(job.rest) \in Seq(Nicknames)
      /\ Len(Tail(job.rest)) = Len(job.rest) - 1
      /\ turn \in 1..Len(login_list)
  BY <1>1, <1>2, <1>3
<1>5. IDsIncrease'
  BY <1>1 DEF IInv, IDsIncrease
<1>6. CASE nickname \notin SelectedNames(window[w])
  <2>1. /\ job' = [job EXCEPT !.rest = Tail(job.rest)]
        /\ UNCHANGED <<window, login_list>>
    BY <1>6 DEF DeleteNext, RestOfLoop
  <2>2. job' \in Jobs
    BY <1>1, <1>4, <2>1 DEF Jobs
  <2>3. TypeOK'
    BY <1>1, <2>1, <2>2 DEF IInv, TypeOK
  <2>4. /\ job'.rest = Tail(job.rest)
        /\ job'.doc = job.doc
        /\ job'.window = w
        /\ job'.asked = job.asked
    BY <1>1, <2>1 DEF Jobs
  <2>5. Len(job'.rest) <= Len(login_list')
    BY <1>2, <1>3, <1>4, <2>1, <2>4
  <2>6. JobInv'
    <3>1. /\ login_config' \in Seq(Connection)
          /\ window'[job'.window] = window[w]
          /\ Increasing(job'.doc)
      BY <1>1, <1>3, <2>1, <2>4
    <3>2. /\ SelectedNames(window'[job'.window]) \subseteq SelectedNames(job'.asked)
          /\ \A c \in ToSet(login_config') \ ToSet(job'.doc) :
               c.Nickname \in SelectedNames(job'.asked)
      BY <1>1, <1>3, <2>4, <3>1
    <3> QED BY <1>3, <2>5, <3>1, <3>2 DEF JobInv, Increasing, SelectedNames
  <2> QED BY <1>5, <2>3, <2>6 DEF IInv
<1>7. CASE nickname \in SelectedNames(window[w])
  <2> DEFINE k == IndexOf(window[w], nickname)
             items == RemoveAt(window[w], k)
             doc == NodeRemoved(job.doc, nickname)
  <2>1. /\ window' = [window EXCEPT ![w] = items]
        /\ login_list' = RemoveAt(login_list, turn)
        /\ job' = [job EXCEPT !.rest = Tail(job.rest), !.doc = doc,
                              !.removed = job.removed + 1]
    BY <1>7 DEF DeleteNext, RestOfLoop
  <2>2. k \in 1..Len(window[w])
    BY <1>3, <1>7, IndexOfProperties
  <2>3. /\ items \in Seq(Item)
        /\ SelectedNames(items) \subseteq SelectedNames(window[w])
    BY <1>3, <2>2, RemoveAtProperties, RemoveAtSelected
  <2>4. /\ doc \in Seq(Connection)
        /\ Increasing(doc)
        /\ \A c \in ToSet(job.doc) \ ToSet(doc) : c.Nickname = nickname
    BY <1>2, <1>3, NodeRemovedProperties
  <2>5. /\ login_list' \in Seq(Nicknames)
        /\ Len(login_list') = Len(login_list) - 1
    BY <1>2, <1>4, <2>1, RemoveAtProperties
  <2> HIDE DEF items, doc, turn, k
  <2>6. job' \in Jobs
    <3>1. job.removed + 1 \in Nat
      BY <1>2
    <3>2. ASSUME NEW r \in Seq(Nicknames), NEW d \in Seq(Connection), NEW n \in Nat
          PROVE  [job EXCEPT !.rest = r, !.doc = d, !.removed = n] \in Jobs
      BY <1>1 DEF Jobs
    <3> QED BY <1>4, <2>1, <2>4, <3>1, <3>2
  <2>7. /\ job'.rest = Tail(job.rest)
        /\ job'.doc = doc
        /\ job'.window = w
        /\ job'.asked = job.asked
    BY <1>1, <2>1 DEF Jobs
  <2>8. /\ window' \in [Windows -> Seq(Item) \cup {Closed}]
        /\ window'[w] = items
    BY <1>2, <2>1, <2>3
  <2>9. TypeOK'
    BY <1>1, <2>5, <2>6, <2>8 DEF IInv, TypeOK
  <2>10. Len(job'.rest) <= Len(login_list')
    BY <1>2, <1>3, <1>4, <2>5, <2>7
  <2>11. SelectedNames(items) \subseteq SelectedNames(job.asked)
    BY <1>3, <2>3
  <2>12. \A c \in ToSet(login_config) \ ToSet(doc) :
           c.Nickname \in SelectedNames(job.asked)
    <3> SUFFICES ASSUME NEW c \in ToSet(login_config), c \notin ToSet(doc)
                 PROVE  c.Nickname \in SelectedNames(job.asked)
      OBVIOUS
    <3>1. CASE c \in ToSet(job.doc)
      BY <1>3, <1>7, <2>4, <3>1
    <3>2. CASE c \notin ToSet(job.doc)
      BY <1>3, <3>2
    <3> QED BY <3>1, <3>2
  <2>13. JobInv'
    <3>1. /\ login_config' \in Seq(Connection)
          /\ window'[job'.window] = items
          /\ Increasing(job'.doc)
      BY <1>1, <1>3, <2>4, <2>7, <2>8
    <3>2. /\ SelectedNames(window'[job'.window]) \subseteq SelectedNames(job'.asked)
          /\ \A c \in ToSet(login_config') \ ToSet(job'.doc) :
               c.Nickname \in SelectedNames(job'.asked)
      BY <1>1, <2>7, <2>11, <2>12, <3>1
    <3> QED BY <2>3, <2>10, <3>1, <3>2 DEF JobInv, Increasing, SelectedNames
  <2> QED BY <1>5, <2>9, <2>13 DEF IInv
<1> QED BY <1>6, <1>7

(* The save of the loop's document.                                          *)
LEMMA FinishStep ==
  ASSUME IInv, FinishDelete
  PROVE  IInv'
<1>1. /\ job # NoJob
      /\ job \in Jobs
      /\ Increasing(job.doc)
  BY DEF FinishDelete, Waiting, IInv, TypeOK, JobInv
<1>2. job.doc \in Seq(Connection) /\ job.removed \in Nat
  BY <1>1 DEF Jobs
<1>3. CASE DiesInSave
  BY <1>3, NewProcessStep DEF DiesInSave
<1>4. CASE /\ SaveFails
           /\ message' = Logged
           /\ job' = NoJob
           /\ UNCHANGED <<login_list, window>>
  <2>1. login_config' \in {login_config, Corrupt}
    BY <1>4 DEF SaveFails
  <2>2. TypeOK'
    BY <1>4, <2>1, LoggedType DEF IInv, TypeOK
  <2>3. IDsIncrease'
    BY <2>1, FileKept DEF IInv
  <2>4. JobInv'
    BY <1>4 DEF JobInv, Waiting
  <2> QED BY <2>2, <2>3, <2>4 DEF IInv
<1>5. CASE /\ Save(job.doc)
           /\ message' = Says("removed", job.removed)
           /\ job' = NoJob
           /\ UNCHANGED <<login_list, window>>
  <2>1. login_config' = job.doc
    BY <1>5 DEF Save
  <2>2. message' \in [text : Texts, count : Nat]
    BY <1>2, <1>5, SaysType DEF Texts
  <2>3. TypeOK'
    BY <1>2, <1>5, <2>1, <2>2 DEF IInv, TypeOK
  <2>4. Stored(job.doc) = job.doc
    BY <1>2, StoreAssumption DEF Stored
  <2>5. IDsIncrease'
    BY <1>1, <2>1, <2>4 DEF IDsIncrease
  <2>6. JobInv'
    BY <1>5 DEF JobInv, Waiting
  <2> QED BY <2>3, <2>5, <2>6 DEF IInv
<1> QED BY <1>3, <1>4, <1>5 DEF FinishDelete

(* Delete All leaves the file empty, as it was, or torn.                     *)
LEMMA DeleteAllStep ==
  ASSUME IInv, NEW w \in Windows, delete_all_Click(w)
  PROVE  IInv'
<1>1. Waiting /\ window \in [Windows -> Seq(Item) \cup {Closed}]
      /\ login_list \in Seq(Nicknames)
  BY DEF delete_all_Click, IInv, TypeOK
<1>2. CASE DiesInSave
  BY <1>2, NewProcessStep DEF DiesInSave
<1>3. CASE /\ UNCHANGED <<login_config, login_list, window, job>>
           /\ message' \in {Says("nothing_to_delete", 0), Says("not_found", 0)}
  <2>1. message' \in [text : Texts, count : Nat]
    BY <1>3, SaysType DEF Texts
  <2>2. TypeOK'
    BY <1>3, <2>1 DEF IInv, TypeOK
  <2>3. IDsIncrease' /\ JobInv'
    BY <1>1, <1>3 DEF IInv, IDsIncrease, JobInv, Waiting
  <2> QED BY <2>2, <2>3 DEF IInv
<1>4. CASE /\ window' = [window EXCEPT ![w] = <<>>]
           /\ login_list' = <<>>
           /\ UNCHANGED job
           /\ login_config' \in {login_config, Corrupt, <<>>}
           /\ message' \in {Says("removed", Len(login_list)), Says("error", 0)}
  <2>1. message' \in [text : Texts, count : Nat]
    <3>1. Len(login_list) \in Nat
      BY <1>1
    <3>2. Says("removed", Len(login_list)) \in [text : Texts, count : Nat]
      BY <3>1, SaysType DEF Texts
    <3>3. Says("error", 0) \in [text : Texts, count : Nat]
      BY SaysType DEF Texts
    <3> QED BY <1>4, <3>2, <3>3
  <2>2. window' \in [Windows -> Seq(Item) \cup {Closed}]
    <3>1. <<>> \in Seq(Item)
      OBVIOUS
    <3> QED BY <1>1, <1>4, <3>1
  <2>3. login_config' \in Seq(Connection) \cup {NoFile, Corrupt}
    <3>1. <<>> \in Seq(Connection)
      OBVIOUS
    <3> QED BY <1>4, <3>1 DEF IInv, TypeOK
  <2>4. login_list' \in Seq(Nicknames)
    BY <1>4
  <2>5. TypeOK'
    BY <1>4, <2>1, <2>2, <2>3, <2>4 DEF IInv, TypeOK
  <2>6. IDsIncrease'
    <3>1. CASE login_config' = <<>>
      BY <3>1 DEF IDsIncrease, Stored, Increasing
    <3>2. CASE login_config' \in {login_config, Corrupt}
      BY <3>2, FileKept DEF IInv
    <3> QED BY <1>4, <3>1, <3>2
  <2>7. JobInv'
    BY <1>1, <1>4 DEF JobInv, Waiting
  <2> QED BY <2>5, <2>6, <2>7 DEF IInv
<1> QED BY <1>2, <1>3, <1>4 DEF delete_all_Click, Unreadable, Save, SaveFails

-----------------------------------------------------------------------------
(* The invariant holds at the start and in every step.                       *)

(* A first start has no file, no windows and no job.                         *)
LEMMA InitInv == Init => IInv
<1> SUFFICES ASSUME Init PROVE IInv
  OBVIOUS
<1>1. TypeOK
  <2>1. window \in [Windows -> Seq(Item) \cup {Closed}]
    BY DEF Init, NoWindows
  <2>2. login_list \in Seq(Nicknames)
    BY DEF Init
  <2> QED BY <2>1, <2>2, SilentType DEF Init, TypeOK
<1>2. IDsIncrease
  BY DEF Init, IDsIncrease, Stored, Increasing
<1>3. JobInv
  BY DEF Init, JobInv, Waiting
<1> QED BY <1>1, <1>2, <1>3 DEF IInv

(* Every step keeps the invariant.                                           *)
LEMMA NextInv == IInv /\ [Next]_vars => IInv'
<1> SUFFICES ASSUME IInv, [Next]_vars PROVE IInv'
  OBVIOUS
<1>1. CASE UNCHANGED vars
  BY <1>1 DEF vars, IInv, TypeOK, IDsIncrease, JobInv, Waiting
<1>2. CASE Restart
  BY <1>2, NewProcessStep DEF Restart
<1>3. CASE LoadConnectionDetails
  BY <1>3, LoadStep
<1>4. CASE RefuseLogin
  BY <1>4, RefuseStep
<1>5. CASE \E nickname \in Nicknames : AuthenticateUser(nickname)
  BY <1>5, LoginStep
<1>6. ASSUME NEW w \in Windows,
             \/ delete_connection_Click(w)
             \/ confirm_button_Click(w)
             \/ SelectItem(w)
             \/ select_all_Click(w)
             \/ deselect_all_Click(w)
             \/ delete_selected_Click(w)
             \/ delete_all_Click(w)
      PROVE  IInv'
  BY <1>6, OpenStep, CloseStep, SelectStep, SelectAllStep, StartStep,
     DeleteAllStep
<1>7. CASE DeleteNext
  BY <1>7, DeleteNextStep
<1>8. CASE FinishDelete
  BY <1>8, FinishStep
<1> QED BY <1>1, <1>2, <1>3, <1>4, <1>5, <1>6, <1>7, <1>8 DEF Next

(* Every variable keeps its type.                                            *)
THEOREM TypeCorrect == Spec => []TypeOK
<1>1. IInv => TypeOK
  BY DEF IInv
<1> QED BY <1>1, InitInv, NextInv, PTL DEF Spec

(* The IDs in loginconfig.xml increase and so differ, after any sequence of  *)
(* logins, deletions, failed saves and restarts.                             *)
THEOREM IDsStayUnique == Spec => []IDsIncrease
<1>1. IInv => IDsIncrease
  BY DEF IInv
<1> QED BY <1>1, InitInv, NextInv, PTL DEF Spec

-----------------------------------------------------------------------------
(* The loop of Delete Selected: what its turns have in common.               *)

(* The names of the selected items are finitely many, and not more than the  *)
(* selected items.                                                           *)
LEMMA SelectedFinite ==
  ASSUME NEW items \in Seq(Item)
  PROVE  LET I == {i \in DOMAIN items : items[i].selected}
         IN  /\ IsFiniteSet(I)
             /\ IsFiniteSet(SelectedNames(items))
             /\ Cardinality(I) \in Nat
             /\ Cardinality(SelectedNames(items)) \in Nat
             /\ Cardinality(SelectedNames(items)) <= Cardinality(I)
<1> DEFINE I == {i \in DOMAIN items : items[i].selected}
           T == SelectedNames(items)
           f == [i \in I |-> items[i].name]
<1>1. IsFiniteSet(1..Len(items))
  BY FS_Interval
<1>2. I \in SUBSET (1..Len(items))
  OBVIOUS
<1>3. IsFiniteSet(I)
  BY <1>1, <1>2, FS_Subset
<1>4. T = {items[i].name : i \in I}
  BY DEF SelectedNames
<1> HIDE DEF T, I
<1>5. f \in Surjection(I, T)
  BY <1>4 DEF Surjection
<1>6. IsFiniteSet(T) /\ Cardinality(T) <= Cardinality(I)
  BY <1>3, <1>5, FS_Surjection
<1>7. Cardinality(I) \in Nat /\ Cardinality(T) \in Nat
  BY <1>3, <1>6, FS_CardinalityType
<1> QED BY <1>3, <1>6, <1>7 DEF T, I

(* In a window that lists no nickname twice the item that IndexOf finds is   *)
(* the only one of its name.                                                 *)
LEMMA DistinctWithout ==
  ASSUME NEW items \in Seq(Item), Distinct(items),
         NEW name \in SelectedNames(items)
  PROVE  LET r == RemoveAt(items, IndexOf(items, name))
         IN  /\ Distinct(r)
             /\ SelectedNames(r) \subseteq SelectedNames(items) \ {name}
<1> DEFINE k == IndexOf(items, name)
           r == RemoveAt(items, k)
<1>1. k \in 1..Len(items) /\ items[k].name = name
  BY IndexOfProperties
<1> HIDE DEF k
<1>2. /\ r \in Seq(Item)
      /\ Len(r) = Len(items) - 1
      /\ \A i \in 1..Len(items) - 1 :
           r[i] = IF i < k THEN items[i] ELSE items[i + 1]
  BY <1>1, RemoveAtProperties
<1>3. SelectedNames(r) \subseteq SelectedNames(items)
  BY <1>1, RemoveAtSelected
<1> HIDE DEF r
<1>4. \A i, j \in 1..Len(items) : items[i].name = items[j].name => i = j
  BY DEF Distinct, IsInjective
<1>5. \A i \in 1..Len(r) : r[i].name # name
  <2> SUFFICES ASSUME NEW i \in 1..Len(r), r[i].name = name
               PROVE  FALSE
    OBVIOUS
  <2> DEFINE p == IF i < k THEN i ELSE i + 1
  <2>1. p \in 1..Len(items) /\ p # k /\ r[i] = items[p]
    BY <1>1, <1>2
  <2> HIDE DEF p
  <2> QED BY <1>1, <1>4, <2>1
<1>6. \A i, j \in 1..Len(r) : r[i].name = r[j].name => i = j
  <2> SUFFICES ASSUME NEW i \in 1..Len(r), NEW j \in 1..Len(r),
                      r[i].name = r[j].name
               PROVE  i = j
    OBVIOUS
  <2> DEFINE p == IF i < k THEN i ELSE i + 1
             q == IF j < k THEN j ELSE j + 1
  <2>1. r[i] = items[p] /\ r[j] = items[q]
    BY <1>2
  <2>2. /\ p \in 1..Len(items) /\ q \in 1..Len(items)
        /\ p = q => i = j
    BY <1>1, <1>2
  <2> HIDE DEF p, q
  <2> QED BY <1>4, <2>1, <2>2
<1>7. Distinct(r)
  BY <1>2, <1>6 DEF Distinct, IsInjective
<1>8. name \notin SelectedNames(r)
  BY <1>2, <1>5 DEF SelectedNames
<1> QED BY <1>3, <1>7, <1>8 DEF r, k

(* What a turn reads and what it leaves.                                     *)
LEMMA TurnFacts ==
  ASSUME IInv, TurnInv, DeleteNext
  PROVE  LET items == window[job.window]
             nickname == Head(job.rest)
             turn == Len(login_list) - Len(job.rest) + 1
         IN
         /\ ~Waiting /\ ~Waiting'
         /\ login_list \in Seq(Nicknames)
         /\ job.rest \in Seq(Nicknames) /\ job.rest # <<>>
         /\ job.doc \in Seq(Connection) /\ job.removed \in Nat
         /\ items \in Seq(Item)
         /\ login_config \in Seq(Connection)
         /\ turn \in 1..Len(login_list) /\ login_list[turn] = nickname
         /\ UNCHANGED <<login_config, message>>
         /\ job'.window = job.window /\ job'.asked = job.asked
         /\ job'.rest = Tail(job.rest)
         /\ \/ /\ nickname \notin SelectedNames(items)
               /\ UNCHANGED <<window, login_list>>
               /\ job'.doc = job.doc /\ job'.removed = job.removed
            \/ /\ nickname \in SelectedNames(items)
               /\ window'[job.window] =
                    RemoveAt(items, IndexOf(items, nickname))
               /\ login_list' = RemoveAt(login_list, turn)
               /\ job'.doc = NodeRemoved(job.doc, nickname)
               /\ job'.removed = job.removed + 1
<1> DEFINE items == window[job.window]
           nickname == Head(job.rest)
           turn == Len(login_list) - Len(job.rest) + 1
<1>1. /\ ~Waiting
      /\ job \in Jobs
      /\ job.rest # <<>>
      /\ UNCHANGED <<login_config, message>>
  BY DEF DeleteNext, Waiting, IInv, TypeOK
<1>2. /\ job.window \in Windows
      /\ job.rest \in Seq(Nicknames)
      /\ job.doc \in Seq(Connection)
      /\ job.removed \in Nat
      /\ login_list \in Seq(Nicknames)
      /\ window \in [Windows -> Seq(Item) \cup {Closed}]
  BY <1>1 DEF Jobs, IInv, TypeOK
<1>3. /\ login_config \in Seq(Connection)
      /\ Len(job.rest) <= Len(login_list)
      /\ items \in Seq(Item)
  BY <1>1 DEF IInv, JobInv
<1>4. turn \in 1..Len(login_list)
  BY <1>1, <1>2, <1>3
<1>5. login_list[turn] = nickname
  <2>1. \A i \in DOMAIN job.rest :
          job.rest[i] = login_list[Len(login_list) - Len(job.rest) + i]
    BY <1>1 DEF TurnInv
  <2>2. 1 \in DOMAIN job.rest
    BY <1>1, <1>2
  <2>3. job.rest[1] = login_list[turn]
    BY <2>1, <2>2
  <2>4. Head(job.rest) = job.rest[1]
    BY <1>1, <1>2
  <2> QED BY <2>3, <2>4
<1>6. CASE nickname \notin SelectedNames(items)
  <2>1. /\ job' = [job EXCEPT !.rest = Tail(job.rest)]
        /\ UNCHANGED <<window, login_list>>
    BY <1>6 DEF DeleteNext, RestOfLoop
  <2>2. /\ job'.rest = Tail(job.rest)
        /\ job'.doc = job.doc /\ job'.removed = job.removed
        /\ job'.window = job.window /\ job'.asked = job.asked
    BY <1>1, <2>1 DEF Jobs
  <2>3. ~Waiting'
    BY <1>2, <2>2, StoreAssumption DEF Waiting, NoJob
  <2> QED BY <1>1, <1>2, <1>3, <1>4, <1>5, <1>6, <2>1, <2>2, <2>3
<1>7. CASE nickname \in SelectedNames(items)
  <2> DEFINE left == RemoveAt(items, IndexOf(items, nickname))
             doc == NodeRemoved(job.doc, nickname)
  <2>1. /\ window' = [window EXCEPT ![job.window] = left]
        /\ login_list' = RemoveAt(login_list, turn)
        /\ job' = [job EXCEPT !.rest = Tail(job.rest), !.doc = doc,
                              !.removed = job.removed + 1]
    BY <1>7 DEF DeleteNext, RestOfLoop
  <2> HIDE DEF left, doc
  <2>2. /\ job'.rest = Tail(job.rest)
        /\ job'.doc = doc /\ job'.removed = job.removed + 1
        /\ job'.window = job.window /\ job'.asked = job.asked
    BY <1>1, <2>1 DEF Jobs
  <2>3. ~Waiting'
    BY <1>2, <2>2, StoreAssumption DEF Waiting, NoJob
  <2>4. window'[job.window] = left
    BY <1>2, <2>1
  <2> QED BY <1>1, <1>2, <1>3, <1>4, <1>5, <1>7, <2>1, <2>2, <2>3, <2>4
       DEF left, doc
<1> QED BY <1>6, <1>7

(* The loop is started by delete_selected_Click, from the file as it is, and *)
(* it is under way during its turns only.                                    *)
LEMMA StartFacts ==
  ASSUME IInv, [Next]_vars
  PROVE  \/ Waiting'
         \/ UNCHANGED vars
         \/ DeleteNext
         \/ /\ Waiting
            /\ UNCHANGED <<login_config, login_list, window>>
            /\ login_config \in Seq(Connection)
            /\ \E w \in Windows :
                 /\ window[w] \in Seq(Item)
                 /\ job' = [window |-> w, rest |-> login_list,
                            doc |-> login_config, removed |-> 0,
                            asked |-> window[w]]
<1>1. ASSUME NEW w \in Windows, delete_selected_Click(w)
      PROVE  \/ Waiting'
             \/ /\ UNCHANGED <<login_config, login_list, window>>
                /\ login_config \in Seq(Connection)
                /\ window[w] \in Seq(Item)
                /\ job' = [window |-> w, rest |-> login_list,
                           doc |-> login_config, removed |-> 0,
                           asked |-> window[w]]
  <2>1. /\ Waiting /\ window[w] \in Seq(Item)
        /\ UNCHANGED <<login_config, login_list, window>>
    BY <1>1 DEF delete_selected_Click, IInv, TypeOK
  <2>2. CASE UNCHANGED job
    BY <2>1, <2>2 DEF Waiting
  <2>3. CASE /\ login_config \notin {NoFile, Corrupt}
             /\ job' = [window |-> w, rest |-> login_list,
                        doc |-> Stored(login_config), removed |-> 0,
                        asked |-> window[w]]
    <3>1. login_config \in Seq(Connection) /\ Stored(login_config) = login_config
      BY <2>3 DEF IInv, TypeOK, Stored
    <3> QED BY <2>1, <2>3, <3>1
  <2> QED BY <1>1, <2>2, <2>3 DEF delete_selected_Click, Unreadable
<1>2. ASSUME NEW w \in Windows, delete_selected_Click(w)
      PROVE  Waiting
  BY <1>2 DEF delete_selected_Click
<1> QED BY <1>1, <1>2 DEF Next, vars, Restart, LoadConnectionDetails,
     RefuseLogin, AuthenticateUser, delete_connection_Click,
     confirm_button_Click, SelectItem, select_all_Click, deselect_all_Click,
     delete_all_Click, FinishDelete, DiesInSave, NewProcess, Waiting

(* Each turn keeps TurnInv, and the loop starts with it.                     *)
LEMMA TurnNext ==
  ASSUME IInv, TurnInv, [Next]_vars
  PROVE  TurnInv'
<1>1. CASE Waiting'
  BY <1>1 DEF TurnInv
<1>2. CASE UNCHANGED vars
  BY <1>2 DEF vars, TurnInv, Waiting
<1>3. ASSUME NEW w \in Windows,
             UNCHANGED <<login_config, login_list, window>>,
             window[w] \in Seq(Item),
             job' = [window |-> w, rest |-> login_list,
                     doc |-> login_config, removed |-> 0,
                     asked |-> window[w]]
      PROVE  TurnInv'
  <2>1. /\ job'.window = w /\ job'.rest = login_list
        /\ job'.removed = 0 /\ job'.asked = window[w]
    BY <1>3
  <2>2. login_list \in Seq(Nicknames)
    BY DEF IInv, TypeOK
  <2>3. /\ \A i \in DOMAIN login_list :
             login_list[i] = login_list[Len(login_list) - Len(login_list) + i]
        /\ 1..Len(login_list) - Len(login_list) = {}
    BY <2>2
  <2>4. 0 + Cardinality(SelectedNames(window[w]))
          <= Cardinality(SelectedNames(window[w]))
    <3>1. Cardinality(SelectedNames(window[w])) \in Nat
      BY <1>3, SelectedFinite
    <3> QED BY <3>1
  <2> QED BY <1>3, <2>1, <2>3, <2>4 DEF TurnInv, Distinct, SelectedNames
<1>4. CASE DeleteNext
  <2> DEFINE items == window[job.window]
             nickname == Head(job.rest)
             turn == Len(login_list) - Len(job.rest) + 1
             kept == Len(login_list) - Len(job.rest)
             after == window'[job.window]
  <2>1. /\ login_list \in Seq(Nicknames)
        /\ job.rest \in Seq(Nicknames) /\ job.rest # <<>>
        /\ items \in Seq(Item) /\ job.removed \in Nat
        /\ turn \in 1..Len(login_list) /\ login_list[turn] = nickname
        /\ job'.window = job.window /\ job'.asked = job.asked
        /\ job'.rest = Tail(job.rest)
    BY <1>4, TurnFacts
  <2>2. \/ /\ nickname \notin SelectedNames(items)
           /\ UNCHANGED <<window, login_list>>
           /\ job'.removed = job.removed
        \/ /\ nickname \in SelectedNames(items)
           /\ after = RemoveAt(items, IndexOf(items, nickname))
           /\ login_list' = RemoveAt(login_list, turn)
           /\ job'.removed = job.removed + 1
    BY <1>4, TurnFacts
  <2>3. /\ \A i \in DOMAIN job.rest : job.rest[i] = login_list[kept + i]
        /\ \A i \in 1..kept : login_list[i] \notin SelectedNames(items)
        /\ Distinct(job.asked) =>
             /\ Distinct(items)
             /\ job.removed + Cardinality(SelectedNames(items))
                  <= Cardinality(SelectedNames(job.asked))
    BY <1>4 DEF DeleteNext, TurnInv
  <2>4. /\ Tail(job.rest) \in Seq(Nicknames)
        /\ Len(Tail(job.rest)) = Len(job.rest) - 1
        /\ \A i \in 1..Len(job.rest) - 1 : Tail(job.rest)[i] = job.rest[i + 1]
    BY <2>1
  <2>5. /\ kept \in Nat /\ turn = kept + 1
        /\ kept + Len(job.rest) = Len(login_list)
    BY <2>1
  <2>6. Len(login_list) - (Len(job.rest) - 1) = kept + 1
    BY <2>1
  <2> HIDE DEF items, nickname, turn, kept, after
  <2>7. /\ Distinct(job.asked)' <=> Distinct(job'.asked)
        /\ Distinct(window[job.window])' <=> Distinct(window'[job'.window])
        /\ SelectedNames(job.asked)' = SelectedNames(job'.asked)
        /\ SelectedNames(window[job.window])' =
             SelectedNames(window'[job'.window])
    BY DEF Distinct, SelectedNames
  <2>8. CASE /\ nickname \notin SelectedNames(items)
             /\ UNCHANGED <<window, login_list>>
             /\ job'.removed = job.removed
    <3>0. login_list' = login_list /\ window' = window
      BY <2>8
    <3>1. Len(login_list') - Len(job'.rest) = kept + 1
      <4>1. Len(login_list') = Len(login_list)
        BY <3>0
      <4>2. Len(job'.rest) = Len(job.rest) - 1
        BY <2>1, <2>4
      <4> QED BY <2>6, <4>1, <4>2
    <3>2. \A i \in DOMAIN job'.rest : job'.rest[i] = login_list'[kept + 1 + i]
      <4>1. ASSUME NEW i \in 1..Len(job.rest) - 1
            PROVE  job.rest[i + 1] = login_list[kept + 1 + i]
        <5>1. i + 1 \in DOMAIN job.rest /\ kept + (i + 1) = kept + 1 + i
          BY <2>1, <2>5
        <5> QED BY <2>3, <5>1
      <4> QED BY <2>1, <2>4, <3>0, <4>1
    <3>3. \A i \in 1..kept + 1 : login_list'[i] \notin SelectedNames(items)
      BY <2>1, <2>3, <2>5, <2>8
    <3>4. window'[job'.window] = items
      BY <2>1, <3>0 DEF items
    <3> QED BY <2>1, <2>3, <2>8, <2>7, <3>1, <3>2, <3>3, <3>4 DEF TurnInv
  <2>9. CASE /\ nickname \in SelectedNames(items)
             /\ after = RemoveAt(items, IndexOf(items, nickname))
             /\ login_list' = RemoveAt(login_list, turn)
             /\ job'.removed = job.removed + 1
    <3>1. /\ login_list' \in Seq(Nicknames)
          /\ Len(login_list') = Len(login_list) - 1
          /\ \A i \in 1..Len(login_list) - 1 :
               login_list'[i] = IF i < turn THEN login_list[i]
                                            ELSE login_list[i + 1]
      BY <2>1, <2>9, RemoveAtProperties
    <3>2. Len(login_list') - Len(job'.rest) = kept
      BY <2>1, <2>4, <2>5, <3>1
    <3>3. \A i \in DOMAIN job'.rest : job'.rest[i] = login_list'[kept + i]
      <4>1. ASSUME NEW i \in 1..Len(job.rest) - 1
            PROVE  job.rest[i + 1] = login_list'[kept + i]
        <5>1. i + 1 \in DOMAIN job.rest /\ kept + (i + 1) = (kept + i) + 1
          BY <2>1, <2>5
        <5>2. kept + i \in 1..Len(login_list) - 1 /\ ~ (kept + i < turn)
          BY <2>1, <2>5
        <5>3. login_list'[kept + i] = login_list[(kept + i) + 1]
          BY <3>1, <5>2
        <5> QED BY <2>3, <5>1, <5>3
      <4> QED BY <2>1, <2>4, <4>1
    <3>4. SelectedNames(after) \subseteq SelectedNames(items)
      BY <2>1, <2>9, IndexOfProperties, RemoveAtSelected
    <3>5. \A i \in 1..kept : login_list'[i] \notin SelectedNames(after)
      <4>1. ASSUME NEW i \in 1..kept
            PROVE  login_list'[i] = login_list[i]
        <5>1. i \in 1..Len(login_list) - 1 /\ i < turn
          BY <2>1, <2>5
        <5> QED BY <3>1, <5>1
      <4> QED BY <2>3, <3>4, <4>1
    <3>6. ASSUME Distinct(job.asked)
          PROVE  /\ Distinct(after)
                 /\ job'.removed + Cardinality(SelectedNames(after))
                      <= Cardinality(SelectedNames(job.asked))
      <4>1. /\ Distinct(items)
            /\ job.removed + Cardinality(SelectedNames(items))
                  <= Cardinality(SelectedNames(job.asked))
        BY <2>3, <3>6
      <4>2. /\ Distinct(after)
            /\ SelectedNames(after) \subseteq SelectedNames(items) \ {nickname}
        BY <2>1, <2>9, <4>1, DistinctWithout
      <4>3. /\ IsFiniteSet(SelectedNames(items))
            /\ Cardinality(SelectedNames(items)) \in Nat
        BY <2>1, SelectedFinite
      <4> DEFINE less == SelectedNames(items) \ {nickname}
      <4>4. /\ IsFiniteSet(less)
            /\ Cardinality(less) = Cardinality(SelectedNames(items)) - 1
        BY <2>9, <4>3, FS_RemoveElement
      <4> HIDE DEF less
      <4>5. Cardinality(SelectedNames(after)) <= Cardinality(less)
        BY <4>2, <4>4, FS_Subset DEF less
      <4>6. /\ after \in Seq(Item)
            /\ Cardinality(SelectedNames(after)) \in Nat
        BY <2>1, <2>9, IndexOfProperties, RemoveAtProperties, SelectedFinite
      <4>7. Cardinality(SelectedNames(job.asked)) \in Nat
        <5>1. job.asked \in Seq(Item)
          BY <1>4 DEF DeleteNext, Waiting, Jobs, IInv, TypeOK
        <5> QED BY <5>1, SelectedFinite
      <4> QED BY <2>1, <2>9, <4>1, <4>2, <4>3, <4>4, <4>5, <4>6, <4>7
    <3>7. window'[job'.window] = after
      BY <2>1 DEF after
    <3> QED BY <2>1, <2>7, <3>2, <3>3, <3>5, <3>6, <3>7 DEF TurnInv
  <2> QED BY <2>2, <2>8, <2>9
<1> QED BY <1>1, <1>2, <1>3, <1>4, StartFacts

(* What a step may do to the file and to login_list: nothing, empty the list,*)
(* reload it, leave a nickname that could not be saved, start the loop, take *)
(* a turn, or end it.                                                        *)
LEMMA StepKinds ==
  ASSUME IInv, [Next]_vars
  PROVE  \/ UNCHANGED <<login_config, login_list, job>>
         \/ /\ Waiting' /\ login_list' = <<>>
            /\ \/ login_config' = login_config
               \/ message'.text # "removed"
               \/ /\ Waiting
                  /\ login_config \in Seq(Connection) /\ login_config' = <<>>
                  /\ login_list # <<>>
                  /\ message' = Says("removed", Len(login_list))
         \/ /\ Waiting'
            /\ login_list' = NicknamesOf(Stored(login_config'))
            /\ login_config' = login_config \/ message' = Silent
         \/ /\ Waiting /\ Waiting'
            /\ \E n \in Nicknames : AuthenticateUser(n) /\ login_list' = <<n>>
            /\ login_config' \in {login_config, Corrupt} /\ message' = Logged
         \/ /\ Waiting
            /\ UNCHANGED <<login_config, login_list>>
            /\ login_config \in Seq(Connection)
            /\ job'.doc = login_config /\ job'.removed = 0
         \/ DeleteNext
         \/ /\ FinishDelete /\ ~Waiting /\ Waiting' /\ UNCHANGED login_list
            /\ \/ /\ login_config' = job.doc
                  /\ message' = Says("removed", job.removed)
               \/ /\ login_config' \in {login_config, Corrupt}
                  /\ message' = Logged
<1> DEFINE Emptied ==
      /\ Waiting' /\ login_list' = <<>>
      /\ \/ login_config' = login_config
         \/ message'.text # "removed"
         \/ /\ Waiting
            /\ login_config \in Seq(Connection) /\ login_config' = <<>>
            /\ login_list # <<>>
            /\ message' = Says("removed", Len(login_list))
<1>1. CASE NewProcess
  <2>1. message'.text # "removed"
    BY <1>1 DEF NewProcess, Silent, Says
  <2> QED BY <1>1, <2>1 DEF NewProcess, Waiting
<1>2. CASE LoadConnectionDetails
  BY <1>2 DEF LoadConnectionDetails, Loaded, Waiting
<1>3. CASE RefuseLogin
  BY <1>3 DEF RefuseLogin, Waiting
<1>4. ASSUME NEW n \in Nicknames, AuthenticateUser(n), ~ NewProcess
      PROVE  \/ /\ Waiting'
                /\ login_list' = NicknamesOf(Stored(login_config'))
                /\ message' = Silent
             \/ /\ Waiting /\ Waiting'
                /\ AuthenticateUser(n) /\ login_list' = <<n>>
                /\ login_config' \in {login_config, Corrupt}
                /\ message' = Logged
  BY <1>4 DEF AuthenticateUser, SaveFails, DiesInSave, Loaded, Waiting
<1>5. ASSUME NEW w \in Windows, delete_all_Click(w), ~ NewProcess
      PROVE  UNCHANGED <<login_config, login_list, job>> \/ Emptied
  <2>1. Waiting
    BY <1>5 DEF delete_all_Click
  <2>2. CASE UNCHANGED <<login_config, login_list, window, job>>
    BY <2>2
  <2>3. CASE /\ login_list # <<>> /\ login_config # NoFile
             /\ login_list' = <<>>
             /\ UNCHANGED job
             /\ \/ /\ ~Unreadable
                   /\ Save(<<>>)
                   /\ message' = Says("removed", Len(login_list))
                \/ message' = Says("error", 0)
    <3>1. Waiting'
      BY <2>1, <2>3 DEF Waiting
    <3>2. CASE message' = Says("error", 0)
      <4>1. message'.text # "removed"
        BY <3>2 DEF Says
      <4> QED BY <2>3, <3>1, <4>1
    <3>3. CASE /\ ~Unreadable
               /\ Save(<<>>)
               /\ message' = Says("removed", Len(login_list))
      <4>1. login_config \in Seq(Connection)
        BY <2>3, <3>3 DEF Unreadable, IInv, TypeOK
      <4> QED BY <2>1, <2>3, <3>1, <3>3, <4>1 DEF Save
    <3> QED BY <2>3, <3>2, <3>3
  <2> QED BY <1>5, <2>2, <2>3 DEF delete_all_Click, DiesInSave
<1>6. CASE FinishDelete /\ ~ NewProcess
  BY <1>6 DEF FinishDelete, SaveFails, Save, DiesInSave, Waiting
<1>7. ASSUME NEW w \in Windows, delete_selected_Click(w)
      PROVE  \/ UNCHANGED <<login_config, login_list, job>>
             \/ /\ Waiting
                /\ UNCHANGED <<login_config, login_list>>
                /\ login_config \in Seq(Connection)
                /\ job'.doc = login_config /\ job'.removed = 0
  <2>1. login_config \notin {NoFile, Corrupt} =>
          /\ login_config \in Seq(Connection)
          /\ Stored(login_config) = login_config
    BY DEF IInv, TypeOK, Stored
  <2> QED BY <1>7, <2>1 DEF delete_selected_Click, Unreadable
<1>8. ASSUME NEW w \in Windows,
             \/ delete_connection_Click(w)
             \/ confirm_button_Click(w)
             \/ SelectItem(w)
             \/ select_all_Click(w)
             \/ deselect_all_Click(w)
      PROVE  UNCHANGED <<login_config, login_list, job>>
  BY <1>8 DEF delete_connection_Click, confirm_button_Click, SelectItem,
     select_all_Click, deselect_all_Click
<1>9. CASE UNCHANGED vars
  BY <1>9 DEF vars
<1> QED BY <1>1, <1>2, <1>3, <1>4, <1>5, <1>6, <1>7, <1>8, <1>9
     DEF Next, Restart

(* A list whose names are not more than a document's.                        *)
LEMMA NotMoreThanProperties ==
  ASSUME NEW doc \in Seq(Connection)
  PROVE  /\ NotMoreThan(<<>>, doc)
         /\ NotMoreThan(NicknamesOf(doc), doc)
         /\ \A n \in Nicknames :
              NotMoreThan(<<n>>, doc) \/ Stranger(<<n>>, doc)
<1> DEFINE names == NicknamesOf(doc)
<1>1. names \in Seq(Nicknames)
  BY NicknamesOfType
<1> HIDE DEF names
<1>2. \A n : /\ Copies(names, n) \in Nat
             /\ n \in ToSet(names) => Copies(names, n) >= 1
  BY <1>1, CopiesType
<1>3. ASSUME NEW n PROVE Copies(<<>>, n) = 0
  <2>1. {i \in DOMAIN <<>> : <<>>[i] = n} = {}
    OBVIOUS
  <2> QED BY <2>1, FS_EmptySet DEF Copies
<1>4. NotMoreThan(<<>>, doc)
  BY <1>2, <1>3 DEF NotMoreThan, names
<1>5. NotMoreThan(names, doc)
  BY <1>2 DEF NotMoreThan, names
<1>6. ASSUME NEW n \in Nicknames
      PROVE  NotMoreThan(<<n>>, doc) \/ Stranger(<<n>>, doc)
  <2>1. ASSUME NEW m PROVE Copies(<<n>>, m) = IF m = n THEN 1 ELSE 0
    <3> DEFINE I == {i \in DOMAIN <<n>> : <<n>>[i] = m}
    <3>1. I = IF m = n THEN {1} ELSE {}
      OBVIOUS
    <3>2. Cardinality({1}) = 1 /\ Cardinality({}) = 0
      BY FS_Singleton, FS_EmptySet
    <3> QED BY <3>1, <3>2 DEF Copies
  <2>2. CASE n \in ToSet(names)
    BY <1>2, <2>1, <2>2 DEF NotMoreThan, names
  <2>3. CASE n \notin ToSet(names)
    <3>1. Len(<<n>>) <= 1 /\ ToSet(<<n>>) = {n}
      BY DEF ToSet
    <3> QED BY <2>3, <3>1 DEF Stranger, names
  <2> QED BY <2>2, <2>3
<1> QED BY <1>4, <1>5, <1>6 DEF names

(* A turn that removes a name from the list removes it from the document, if *)
(* it is there, and what the list and the document have in common stays.     *)
LEMMA ListTurn ==
  ASSUME NEW list \in Seq(Nicknames), NEW turn \in DOMAIN list,
         NEW doc \in Seq(Connection), NEW file \in Seq(Connection),
         NEW removed \in Nat, Matched(list, doc, file, removed)
  PROVE  Matched(RemoveAt(list, turn), NodeRemoved(doc, list[turn]), file,
                 removed + 1)
<1> DEFINE less == RemoveAt(list, turn)
           name == list[turn]
           left == NodeRemoved(doc, name)
           names == NicknamesOf(doc)
<1>1. name \in Nicknames /\ name \in ToSet(list)
  BY DEF ToSet
<1>2. /\ names \in Seq(Nicknames)
      /\ Len(names) = Len(doc)
      /\ \A i \in DOMAIN doc : names[i] = doc[i].Nickname
  BY NicknamesOfType DEF NicknamesOf
<1>3. /\ less \in Seq(Nicknames)
      /\ Len(less) = Len(list) - 1
  BY RemoveAtProperties
<1>4. \A n : /\ Copies(list, n) \in Nat
             /\ Copies(less, n) = IF n = name THEN Copies(list, n) - 1
                                              ELSE Copies(list, n)
  BY CopiesType, CopiesWithout
<1>5. \A n : /\ Copies(names, n) \in Nat
             /\ Copies(names, n) >= 1 <=> n \in ToSet(names)
  BY <1>2, CopiesType
<1>6. Copies(list, name) >= 1
  BY <1>1, CopiesType
<1> HIDE DEF less, name, left, names
<1>7. CASE /\ \A i \in DOMAIN doc : doc[i].Nickname # name
           /\ left = doc
  <2>1. name \notin ToSet(names)
    <3>1. DOMAIN names = DOMAIN doc
      BY <1>2
    <3>2. \A i \in DOMAIN names : names[i] # name
      BY <1>2, <1>7, <3>1
    <3> QED BY <3>2 DEF ToSet
  <2>2. Copies(names, name) = 0
    BY <1>5, <2>1
  <2>3. ~ NotMoreThan(list, doc)
    BY <1>1, <1>4, <1>6, <2>2 DEF NotMoreThan, names
  <2>4. Stranger(list, doc) /\ doc = file
    BY <2>3 DEF Matched
  <2>5. Len(list) \in Nat /\ Len(list) <= 1
    BY <2>4 DEF Stranger
  <2>6. Len(less) <= 1 /\ ToSet(less) = {}
    BY <1>3, <2>5 DEF ToSet
  <2>7. Stranger(less, left)
    BY <2>6 DEF Stranger
  <2> QED BY <1>7, <2>4, <2>7 DEF Matched, less, left, name
<1>8. ASSUME NEW k \in DOMAIN doc,
             doc[k].Nickname = name, left = RemoveAt(doc, k)
      PROVE  /\ NotMoreThan(less, left)
             /\ NotMoreThan(NicknamesOf(left), file)
             /\ removed + 1 + Len(left) = Len(file)
  <2>1. k \in DOMAIN names /\ names[k] = name
    BY <1>2, <1>8
  <2>2. name \in ToSet(names)
    BY <2>1 DEF ToSet
  <2>3. ~ Stranger(list, doc)
    BY <1>1, <2>2 DEF Stranger, names
  <2>4. /\ NotMoreThan(list, doc)
        /\ NotMoreThan(names, file)
        /\ removed + Len(doc) = Len(file)
    BY <2>3 DEF Matched, names
  <2>5. NicknamesOf(left) = RemoveAt(names, k)
    BY <1>8, NicknamesWithout DEF names
  <2>6. \A n : Copies(NicknamesOf(left), n) =
                 IF n = name THEN Copies(names, n) - 1 ELSE Copies(names, n)
    BY <1>2, <2>1, <2>5, CopiesWithout
  <2>7. \A n \in Nicknames : Copies(list, n) <= Copies(names, n)
    BY <2>4 DEF NotMoreThan, names
  <2>8. NotMoreThan(less, left)
    BY <1>4, <1>5, <2>6, <2>7, SMTT(30) DEF NotMoreThan
  <2>9. \A n \in Nicknames :
          /\ Copies(names, n) <= Copies(NicknamesOf(file), n)
          /\ Copies(NicknamesOf(file), n) \in Nat
    BY <2>4, NicknamesOfType, CopiesType DEF NotMoreThan
  <2>10. NotMoreThan(NicknamesOf(left), file)
    BY <1>5, <2>6, <2>9, SMTT(30) DEF NotMoreThan
  <2>11. Len(left) = Len(doc) - 1
    BY <1>8, RemoveAtProperties
  <2>12. removed + 1 + Len(left) = Len(file)
    BY <2>4, <2>11, SMTT(30)
  <2> QED BY <2>8, <2>10, <2>12
<1>9. \/ /\ \A i \in DOMAIN doc : doc[i].Nickname # name
         /\ left = doc
      \/ \E k \in DOMAIN doc :
           doc[k].Nickname = name /\ left = RemoveAt(doc, k)
  BY NodeRemovedWhere DEF left
<1> QED BY <1>7, <1>8, <1>9 DEF Matched, less, left, name

(* Every step keeps ListInv.                                                 *)
LEMMA ListNext ==
  ASSUME IInv, TurnInv, ListInv, [Next]_vars
  PROVE  ListInv'
<1> DEFINE Fewer(list, file) == NotMoreThan(list, file) \/ Stranger(list, file)
<1>1. ListInv =
        IF Waiting
          THEN login_config # Corrupt =>
                 Fewer(login_list, Stored(login_config))
          ELSE Matched(login_list, job.doc, login_config, job.removed)
  BY DEF ListInv
<1>2. ListInv' =
        IF Waiting'
          THEN login_config' # Corrupt =>
                 Fewer(login_list', Stored(login_config'))
          ELSE Matched(login_list', job'.doc, login_config', job'.removed)
  BY DEF ListInv, Matched, NotMoreThan, Stranger, Stored, NicknamesOf, ToSet, Copies
<1> HIDE DEF Fewer
<1>3. TypeOK'
  BY NextInv DEF IInv
<1>4. /\ Stored(login_config) \in Seq(Connection)
      /\ Stored(login_config') \in Seq(Connection)
  BY <1>3, StoredType DEF IInv, TypeOK, Stored
<1>5. CASE UNCHANGED <<login_config, login_list, job>>
  <2>1. /\ login_config' = login_config /\ login_list' = login_list
        /\ job' = job
    BY <1>5
  <2>2. Waiting' <=> Waiting
    BY <2>1 DEF Waiting
  <2> QED BY <1>1, <1>2, <2>1, <2>2
<1>6. CASE /\ Waiting'
           /\ login_list' = <<>>
  BY <1>2, <1>4, <1>6, NotMoreThanProperties DEF Fewer
<1>7. CASE /\ Waiting'
           /\ login_list' = NicknamesOf(Stored(login_config'))
  BY <1>2, <1>4, <1>7, NotMoreThanProperties DEF Fewer
<1>8. CASE /\ Waiting'
           /\ \E n \in Nicknames : login_list' = <<n>>
           /\ login_config' \in {login_config, Corrupt}
  BY <1>2, <1>4, <1>8, NotMoreThanProperties DEF Fewer
<1>9. CASE /\ Waiting /\ ~Waiting'
           /\ UNCHANGED <<login_config, login_list>>
           /\ login_config \in Seq(Connection)
           /\ job'.doc = login_config /\ job'.removed = 0
  <2>1. login_config # Corrupt /\ Stored(login_config) = login_config
    BY <1>9, StoreAssumption DEF Stored
  <2>2. Fewer(login_list, login_config)
    BY <1>1, <1>9, <2>1
  <2>3. NotMoreThan(NicknamesOf(login_config), login_config)
    BY <1>9, NotMoreThanProperties
  <2>4. 0 + Len(login_config) = Len(login_config)
    BY <1>9
  <2>5. Matched(login_list, login_config, login_config, 0)
    BY <2>2, <2>3, <2>4 DEF Fewer, Matched
  <2> QED BY <1>2, <1>9, <2>5
<1>10. CASE DeleteNext
  <2> DEFINE turn == Len(login_list) - Len(job.rest) + 1
             nickname == Head(job.rest)
             name == login_list[turn]
  <2>1. /\ ~Waiting /\ ~Waiting'
        /\ login_list \in Seq(Nicknames)
        /\ job.doc \in Seq(Connection) /\ job.removed \in Nat
        /\ login_config \in Seq(Connection)
        /\ turn \in 1..Len(login_list) /\ login_list[turn] = nickname
        /\ UNCHANGED <<login_config, message>>
    BY <1>10, TurnFacts
  <2>2. \/ /\ UNCHANGED <<window, login_list>>
           /\ job'.doc = job.doc /\ job'.removed = job.removed
        \/ /\ login_list' = RemoveAt(login_list, turn)
           /\ job'.doc = NodeRemoved(job.doc, nickname)
           /\ job'.removed = job.removed + 1
    BY <1>10, TurnFacts
  <2>3. Matched(login_list, job.doc, login_config, job.removed)
    BY <1>1, <2>1
  <2> HIDE DEF turn, nickname
  <2>4. turn \in DOMAIN login_list
    BY <2>1
  <2>5. Matched(RemoveAt(login_list, turn), NodeRemoved(job.doc, name),
               login_config, job.removed + 1)
    BY <2>1, <2>3, <2>4, ListTurn
  <2>6. name = nickname /\ login_config' = login_config
    BY <2>1
  <2>7. CASE UNCHANGED <<window, login_list>> /\ UNCHANGED <<job.doc, job.removed>>
    <3>1. login_list' = login_list
      BY <2>7
    <3> QED BY <1>2, <2>1, <2>3, <2>6, <2>7, <3>1
  <2>8. CASE /\ login_list' = RemoveAt(login_list, turn)
             /\ job'.doc = NodeRemoved(job.doc, nickname)
             /\ job'.removed = job.removed + 1
    BY <1>2, <2>1, <2>5, <2>6, <2>8
  <2> QED BY <2>2, <2>7, <2>8
<1>11. CASE /\ FinishDelete /\ ~Waiting /\ Waiting' /\ UNCHANGED login_list
            /\ \/ login_config' = job.doc
               \/ login_config' \in {login_config, Corrupt}
  <2>1. /\ job.doc \in Seq(Connection)
        /\ login_list \in Seq(Nicknames)
        /\ login_config \in Seq(Connection)
    BY <1>11 DEF Waiting, Jobs, IInv, TypeOK, JobInv
  <2>2. Matched(login_list, job.doc, login_config, job.removed)
    BY <1>1, <1>11
  <2>3. Stored(job.doc) = job.doc /\ Stored(login_config) = login_config
    BY <2>1, StoreAssumption DEF Stored
  <2>4. CASE login_config' = job.doc
    BY <1>2, <1>11, <2>2, <2>3, <2>4 DEF Matched, Fewer
  <2>5. CASE login_config' = login_config
    <3>1. CASE NotMoreThan(login_list, job.doc) /\
               NotMoreThan(NicknamesOf(job.doc), login_config)
      <4>1. \A n \in Nicknames :
              /\ Copies(login_list, n) \in Nat
              /\ Copies(NicknamesOf(job.doc), n) \in Nat
              /\ Copies(NicknamesOf(login_config), n) \in Nat
        BY <2>1, NicknamesOfType, CopiesType
      <4>2. NotMoreThan(login_list, login_config)
        BY <3>1, <4>1 DEF NotMoreThan
      <4> QED BY <1>2, <1>11, <2>3, <2>5, <4>2 DEF Fewer
    <3>2. CASE Stranger(login_list, job.doc) /\ job.doc = login_config
      BY <1>2, <1>11, <2>3, <2>5, <3>2 DEF Fewer
    <3> QED BY <2>2, <3>1, <3>2 DEF Matched
  <2>6. CASE login_config' = Corrupt
    BY <1>2, <1>11, <2>6
  <2> QED BY <1>11, <2>4, <2>5, <2>6
<1>12. CASE /\ Waiting /\ Waiting'
            /\ UNCHANGED <<login_config, login_list>>
  <2>1. login_config' = login_config /\ login_list' = login_list
    BY <1>12
  <2> QED BY <1>1, <1>2, <1>12, <2>1
<1> QED BY <1>5, <1>6, <1>7, <1>8, <1>9, <1>10, <1>11, <1>12, StepKinds

(* All that is known within the loop holds at the start and in every step.   *)
LEMMA LoopInvariant ==
  /\ Init => SInv
  /\ SInv /\ [Next]_vars => SInv'
<1>1. ASSUME Init PROVE SInv
  <2>1. TurnInv
    BY <1>1 DEF Init, TurnInv, Waiting
  <2>2. ListInv
    <3>1. Stored(login_config) = <<>> /\ Waiting
      BY <1>1 DEF Init, Stored, Waiting
    <3>2. NotMoreThan(<<>>, <<>>)
      <4>1. <<>> \in Seq(Connection)
        OBVIOUS
      <4> QED BY <4>1, NotMoreThanProperties
    <3> QED BY <1>1, <3>1, <3>2 DEF Init, ListInv
  <2> QED BY <1>1, <2>1, <2>2, InitInv DEF SInv
<1>2. ASSUME SInv, [Next]_vars PROVE SInv'
  BY <1>2, NextInv, TurnNext, ListNext DEF SInv
<1> QED BY <1>1, <1>2

(* The loop skips no entry: when it is done nothing in login_list is still   *)
(* selected.                                                                 *)
THEOREM NoneSkipped == Spec => []NoneLeftSelected
<1>1. ASSUME SInv PROVE NoneLeftSelected
  <2> SUFFICES ASSUME ~Waiting, job.rest = <<>>
               PROVE  SelectedNames(window[job.window]) \cap ToSet(login_list)
                        = {}
    BY DEF NoneLeftSelected
  <2>1. login_list \in Seq(Nicknames)
    BY <1>1 DEF SInv, IInv, TypeOK
  <2>2. Len(login_list) - Len(job.rest) = Len(login_list)
    BY <2>1
  <2>3. \A i \in 1..Len(login_list) :
          login_list[i] \notin SelectedNames(window[job.window])
    BY <1>1, <2>2 DEF SInv, TurnInv
  <2> QED BY <2>1, <2>3 DEF ToSet
<1> QED BY <1>1, LoopInvariant, PTL DEF Spec

(* Delete Selected removes no more connections than were selected, unless    *)
(* its window lists a nickname twice.                                        *)
THEOREM NoMoreThanSelected == Spec => []AsManyAsSelected
<1>1. ASSUME SInv PROVE AsManyAsSelected
  <2> DEFINE I == {i \in DOMAIN job.asked : job.asked[i].selected}
             names == SelectedNames(job.asked)
             left == SelectedNames(window[job.window])
  <2> SUFFICES ASSUME ~Waiting, Distinct(job.asked)
               PROVE  job.removed <= Cardinality(I)
    BY DEF AsManyAsSelected
  <2>1. job.removed \in Nat /\ job.asked \in Seq(Item)
    BY <1>1 DEF SInv, IInv, TypeOK, Waiting, Jobs
  <2>2. window[job.window] \in Seq(Item)
    BY <1>1 DEF SInv, IInv, JobInv
  <2>3. job.removed + Cardinality(left) <= Cardinality(names)
    BY <1>1 DEF SInv, TurnInv
  <2>4. Cardinality(left) \in Nat
    BY <2>2, SelectedFinite
  <2>5. /\ Cardinality(names) \in Nat /\ Cardinality(I) \in Nat
        /\ Cardinality(names) <= Cardinality(I)
    BY <2>1, SelectedFinite
  <2> HIDE DEF I, names, left
  <2> QED BY <2>1, <2>3, <2>4, <2>5
<1> QED BY <1>1, LoopInvariant, PTL DEF Spec

-----------------------------------------------------------------------------
(* Action properties.                                                        *)

(* Once loginconfig.xml is unreadable no step writes it.                     *)
THEOREM NothingRepairs == Spec => UnreadableKept
<1>1. ASSUME IInv, [Next]_vars, login_config = Corrupt
      PROVE  login_config' = Corrupt
  <2>1. Waiting
    BY <1>1, StoreAssumption DEF IInv, JobInv
  <2>2. Unreadable
    BY <1>1 DEF Unreadable
  <2> QED BY <1>1, <2>1, <2>2 DEF Next, vars, Restart, LoadConnectionDetails,
       RefuseLogin, AuthenticateUser, delete_connection_Click,
       confirm_button_Click, SelectItem, select_all_Click, deselect_all_Click,
       delete_selected_Click, delete_all_Click, DeleteNext, FinishDelete,
       DiesInSave
<1>2. IInv /\ [Next]_vars => (login_config = Corrupt => login_config' = Corrupt)
  BY <1>1
<1> QED BY <1>2, InitInv, NextInv, PTL DEF Spec, UnreadableKept

(* No connection leaves the file but by Delete All, by a Delete Selected its *)
(* nickname was selected for, or in a torn save.                             *)
THEOREM NoneLostUnasked == Spec => RemovedOnRequest
<1> DEFINE Asked(c) ==
      \/ ~Waiting /\ c.Nickname \in SelectedNames(job.asked)
      \/ \E w \in Windows : delete_all_Click(w)
      \/ login_config' = Corrupt
<1>1. ASSUME IInv, [Next]_vars,
             NEW c \in ToSet(Stored(login_config)) \ ToSet(Stored(login_config'))
      PROVE  Asked(c)
  <2>1. login_config' # login_config
    OBVIOUS
  <2>2. CASE \E nickname \in Nicknames : AuthenticateUser(nickname)
    <3>1. PICK nickname \in Nicknames : AuthenticateUser(nickname)
      BY <2>2
    <3> DEFINE doc == Stored(login_config)
               new == [ID |-> NewID(doc), Nickname |-> nickname]
    <3>2. CASE login_config' = Corrupt
      BY <3>2
    <3>3. CASE new.ID <= MaxID /\ login_config' = Append(doc, new)
      <4>1. doc \in Seq(Connection) /\ Increasing(doc)
        BY <1>1, StoredType DEF IInv, IDsIncrease
      <4>2. new \in Connection
        <5>1. NewID(doc) \in Nat \ {0}
          BY <4>1, NewIDProperties
        <5> QED BY <3>3, <5>1, StoreAssumption DEF Connection
      <4> HIDE DEF new, doc
      <4>3. Append(doc, new) \in Seq(Connection)
        BY <4>1, <4>2
      <4>4. Stored(login_config') = Append(doc, new)
        BY <3>3, <4>3, StoreAssumption DEF Stored
      <4>5. ToSet(doc) \subseteq ToSet(Append(doc, new))
        BY <4>1, <4>2 DEF ToSet
      <4> QED BY <1>1, <4>4, <4>5 DEF doc
    <3> QED BY <2>1, <3>1, <3>2, <3>3 DEF AuthenticateUser, Save, SaveFails,
         DiesInSave
  <2>3. CASE FinishDelete
    <3>1. /\ job # NoJob
          /\ job \in Jobs
          /\ login_config \in Seq(Connection)
          /\ \A d \in ToSet(login_config) \ ToSet(job.doc) :
               d.Nickname \in SelectedNames(job.asked)
      BY <1>1, <2>3 DEF FinishDelete, Waiting, IInv, TypeOK, JobInv
    <3>2. CASE login_config' = Corrupt
      BY <3>2
    <3>3. CASE login_config' = job.doc
      <4>1. job.doc \in Seq(Connection)
        BY <3>1 DEF Jobs
      <4>2. /\ Stored(login_config) = login_config
            /\ Stored(login_config') = job.doc
        BY <3>1, <3>3, <4>1, StoreAssumption DEF Stored
      <4> QED BY <1>1, <3>1, <4>2 DEF Waiting
    <3> QED BY <2>1, <2>3, <3>2, <3>3 DEF FinishDelete, Save, SaveFails,
         DiesInSave
  <2>4. CASE \E w \in Windows : delete_all_Click(w)
    BY <2>4
  <2> QED BY <1>1, <2>1, <2>2, <2>3, <2>4 DEF Next, vars, Restart,
       LoadConnectionDetails, RefuseLogin, delete_connection_Click,
       confirm_button_Click, SelectItem, select_all_Click, deselect_all_Click,
       delete_selected_Click, DeleteNext
<1>2. IInv /\ [Next]_vars =>
        \A c \in ToSet(Stored(login_config)) \ ToSet(Stored(login_config')) :
          Asked(c)
  BY <1>1
<1> QED BY <1>2, InitInv, NextInv, PTL DEF Spec, RemovedOnRequest

(* A turn that removes a selected name removes the same place from the list  *)
(* and, while they are in step, from the document: it is the name's first    *)
(* place in both, as no earlier entry that was kept is selected.             *)
LEMMA TurnInStep ==
  ASSUME SInv, InStep, DeleteNext
  PROVE  InStep'
<1> DEFINE nickname == Head(job.rest)
           turn == Len(login_list) - Len(job.rest) + 1
           items == window[job.window]
<1>1. /\ ~Waiting /\ ~Waiting'
      /\ login_list \in Seq(Nicknames)
      /\ job.doc \in Seq(Connection)
      /\ turn \in 1..Len(login_list) /\ login_list[turn] = nickname
  BY TurnFacts DEF SInv
<1>2. \/ /\ UNCHANGED <<window, login_list>>
         /\ job'.doc = job.doc
      \/ /\ nickname \in SelectedNames(items)
         /\ login_list' = RemoveAt(login_list, turn)
         /\ job'.doc = NodeRemoved(job.doc, nickname)
  BY TurnFacts DEF SInv
<1>3. login_list = NicknamesOf(job.doc)
  <2>1. login_list # <<>>
    BY <1>1
  <2> QED BY <1>1, <2>1 DEF InStep
<1>4. \A i \in 1..turn - 1 : login_list[i] \notin SelectedNames(items)
  <2>1. turn - 1 = Len(login_list) - Len(job.rest)
    <3>1. job.rest \in Seq(Nicknames)
      BY TurnFacts DEF SInv
    <3> QED BY <1>1, <3>1
  <2>2. \A i \in 1..Len(login_list) - Len(job.rest) :
          login_list[i] \notin SelectedNames(items)
    BY <1>1 DEF SInv, TurnInv
  <2> HIDE DEF turn
  <2> QED BY <2>1, <2>2
<1>5. InStep' <=> login_list' = <<>> \/ login_list' = NicknamesOf(job'.doc)
  BY <1>1 DEF InStep, NicknamesOf, Stored
<1> HIDE DEF nickname, turn, items
<1>6. CASE UNCHANGED <<window, login_list>> /\ job'.doc = job.doc
  <2>1. login_list' = login_list
    BY <1>6
  <2> QED BY <1>3, <1>5, <1>6, <2>1
<1>7. CASE /\ nickname \in SelectedNames(items)
           /\ login_list' = RemoveAt(login_list, turn)
           /\ job'.doc = NodeRemoved(job.doc, nickname)
  <2>1. /\ Len(login_list) = Len(job.doc)
        /\ \A i \in DOMAIN job.doc : login_list[i] = job.doc[i].Nickname
    BY <1>1, <1>3 DEF NicknamesOf
  <2>2. turn \in DOMAIN job.doc /\ job.doc[turn].Nickname = nickname
    BY <1>1, <2>1
  <2>3. PICK k \in DOMAIN job.doc :
          /\ job.doc[k].Nickname = nickname
          /\ \A i \in DOMAIN job.doc : i < k => job.doc[i].Nickname # nickname
          /\ NodeRemoved(job.doc, nickname) = RemoveAt(job.doc, k)
    BY <1>1, <2>2, NodeRemovedWhere
  <2>4. ~ (turn < k)
    BY <2>2, <2>3
  <2>5. ~ (k < turn)
    <3> SUFFICES ASSUME k < turn PROVE FALSE
      OBVIOUS
    <3>1. k \in 1..turn - 1 /\ login_list[k] = nickname
      BY <1>1, <2>1, <2>3
    <3> QED BY <1>4, <1>7, <3>1
  <2>6. k = turn
    BY <1>1, <2>1, <2>4, <2>5
  <2>7. job'.doc = RemoveAt(job.doc, turn)
    BY <1>7, <2>3, <2>6
  <2>8. NicknamesOf(RemoveAt(job.doc, turn)) = RemoveAt(login_list, turn)
    BY <1>1, <1>3, <2>2, NicknamesWithout
  <2> QED BY <1>5, <1>7, <2>7, <2>8
<1> QED BY <1>2, <1>6, <1>7

(* Only a save that failed, in a login or at the end of Delete Selected,     *)
(* brings login_list and the file apart.                                     *)
THEOREM StaysInStep == Spec => KeepsInStep
<1> DEFINE Failed == /\ message' = Logged
                     /\ FinishDelete \/ \E n \in Nicknames : AuthenticateUser(n)
<1>1. ASSUME SInv, [Next]_vars, InStep
      PROVE  InStep' \/ Failed
  <2>0. InStep' <=>
          \/ login_list' = <<>>
          \/ login_list' =
               NicknamesOf(IF Waiting' THEN Stored(login_config') ELSE job'.doc)
    BY DEF InStep, NicknamesOf, Stored
  <2>1. CASE UNCHANGED <<login_config, login_list, job>>
    <3>1. /\ login_config' = login_config /\ login_list' = login_list
          /\ job' = job
      BY <2>1
    <3>2. Waiting' <=> Waiting
      BY <3>1 DEF Waiting
    <3> QED BY <1>1, <2>0, <3>1, <3>2 DEF InStep
  <2>2. CASE login_list' = <<>>
    BY <2>0, <2>2
  <2>3. CASE Waiting' /\ login_list' = NicknamesOf(Stored(login_config'))
    BY <2>0, <2>3
  <2>4. CASE /\ message' = Logged
             /\ \E n \in Nicknames : AuthenticateUser(n)
    BY <2>4
  <2>5. CASE /\ Waiting
             /\ UNCHANGED <<login_config, login_list>>
             /\ login_config \in Seq(Connection)
             /\ job'.doc = login_config
    <3>1. login_config' = login_config /\ login_list' = login_list
      BY <2>5
    <3>2. Stored(login_config) = login_config
      BY <2>5, StoreAssumption DEF Stored
    <3> QED BY <1>1, <2>0, <2>5, <3>1, <3>2 DEF InStep
  <2>6. CASE DeleteNext
    BY <1>1, <2>6, TurnInStep
  <2>7. CASE /\ FinishDelete /\ ~Waiting /\ Waiting' /\ UNCHANGED login_list
             /\ login_config' = job.doc
    <3>1. job.doc \in Seq(Connection)
      BY <1>1, <2>7 DEF Waiting, Jobs, SInv, IInv, TypeOK
    <3>2. Stored(job.doc) = job.doc
      BY <3>1, StoreAssumption DEF Stored
    <3> QED BY <1>1, <2>0, <2>7, <3>2 DEF InStep
  <2>8. CASE FinishDelete /\ message' = Logged
    BY <2>8
  <2> QED BY <1>1, <2>1, <2>2, <2>3, <2>4, <2>5, <2>6, <2>7, <2>8, StepKinds
       DEF SInv
<1>2. SInv /\ [Next]_vars => (InStep => InStep' \/ Failed)
  BY <1>1
<1> QED BY <1>2, LoopInvariant, PTL DEF Spec, KeepsInStep

(* The counts that the two delete buttons report are those of the            *)
(* connections that left the file.                                           *)
THEOREM CountsStayTrue == Spec => CountsAreTrue
<1> DEFINE Counted == message'.count = Len(login_config) - Len(login_config')
<1>1. ASSUME SInv, [Next]_vars, InStep, login_config' # login_config,
             message'.text = "removed"
      PROVE  Counted
  <2>1. CASE /\ Waiting
             /\ login_config \in Seq(Connection) /\ login_config' = <<>>
             /\ login_list # <<>>
             /\ message' = Says("removed", Len(login_list))
    <3>1. Stored(login_config) = login_config
      BY <2>1, StoreAssumption DEF Stored
    <3>2. login_list = NicknamesOf(login_config)
      BY <1>1, <2>1, <3>1 DEF InStep
    <3>3. Len(login_list) = Len(login_config)
      BY <2>1, <3>2 DEF NicknamesOf
    <3>4. message'.count = Len(login_list)
      BY <2>1 DEF Says
    <3>5. Len(login_config) \in Nat /\ Len(login_config') = 0
      BY <2>1
    <3> QED BY <3>3, <3>4, <3>5
  <2>2. CASE /\ ~Waiting
             /\ login_config' = job.doc
             /\ message' = Says("removed", job.removed)
    <3>1. /\ job.doc \in Seq(Connection) /\ job.removed \in Nat
          /\ login_config \in Seq(Connection)
      BY <1>1, <2>2 DEF Waiting, Jobs, SInv, IInv, TypeOK, JobInv
    <3>2. job.removed + Len(job.doc) = Len(login_config)
      BY <1>1, <2>2 DEF SInv, ListInv, Matched
    <3>3. message'.count = job.removed
      BY <2>2 DEF Says
    <3>4. job.removed = Len(login_config) - Len(job.doc)
      BY <3>1, <3>2
    <3>5. Len(login_config') = Len(job.doc)
      BY <2>2
    <3> QED BY <3>3, <3>4, <3>5
  <2>3. Silent.text # "removed" /\ Logged.text # "removed"
    BY DEF Silent, Logged, Says
  <2>4. DeleteNext => UNCHANGED login_config
    BY DEF DeleteNext
  <2> QED BY <1>1, <2>1, <2>2, <2>3, <2>4, StepKinds DEF SInv
<1>2. SInv /\ [Next]_vars =>
        (InStep /\ login_config' # login_config /\ message'.text = "removed"
           => Counted)
  BY <1>1
<1> QED BY <1>2, LoopInvariant, PTL DEF Spec, CountsAreTrue
=============================================================================
