------------------------- MODULE QueryResultsProofs --------------------------
(* For any queries and answers, any number of queries at a time and any      *)
(* speed of the progress bar: the types.  For a user who waits for each      *)
(* answer: the status line, the bar, and ResultView.                         *)
EXTENDS QueryResults, SequenceTheorems, TLAPS

(* An answer is a sequence of its rows.                                      *)
LEMMA RowsType ==
  ASSUME NEW q \in Queries, NEW n \in Nat
  PROVE  Rows(q, n) \in Seq(Row) /\ Len(Rows(q, n)) = n
<1>1. \A i \in 1..n : [query |-> q, nr |-> i] \in Row
  BY DEF Row
<1>2. Rows(q, n) \in [1..n -> Row]
  BY <1>1 DEF Rows
<1> QED BY <1>2

-----------------------------------------------------------------------------
(* Types. *)

(* What a running query is of, and what the box of a failed one belongs to.  *)
LEMMA FetchTypes ==
  ASSUME TypeOK, NEW s \in Slots
  PROVE  /\ fetch[s] # Idle => fetch[s].query \in Queries
         /\ fetch[s].at = "opening" => fetch[s] # Idle
BY DEF TypeOK, Fetch, Idle

(* The open boxes without the top one.                                       *)
LEMMA BelowType ==
  ASSUME TypeOK, boxes # <<>>
  PROVE  /\ Below \in Seq(Boxes)
         /\ Len(Below) = Len(boxes) - 1
         /\ \A i \in 1..Len(boxes) - 1 : Below[i] = boxes[i]
         /\ Top \in Boxes
<1>1. boxes \in Seq(Boxes) /\ Len(boxes) \in Nat /\ Len(boxes) >= 1
  BY DEF TypeOK
<1>2. Top \in Boxes
  BY <1>1 DEF Top
<1>3. Below = SubSeq(boxes, 1, Len(boxes) - 1)
  BY DEF Below
<1> DEFINE n == Len(boxes) - 1
<1>4. n \in Int /\ \A i \in 1..n : boxes[i] \in Boxes
  BY <1>1
<1> HIDE DEF n
<1>5. /\ SubSeq(boxes, 1, n) \in Seq(Boxes)
      /\ Len(SubSeq(boxes, 1, n)) = IF 1 <= n THEN n - 1 + 1 ELSE 0
      /\ \A i \in 1..n - 1 + 1 : SubSeq(boxes, 1, n)[i] = boxes[1 + i - 1]
  BY <1>4, SubSeqProperties
<1>6. /\ n - 1 + 1 = n /\ n \in Nat
      /\ \A i \in Nat : 1 + i - 1 = i
  BY <1>1, <1>4 DEF n
<1>7. Len(SubSeq(boxes, 1, n)) = n /\ \A i \in 1..n : SubSeq(boxes, 1, n)[i] = boxes[i]
  BY <1>5, <1>6
<1> QED BY <1>2, <1>3, <1>5, <1>7 DEF n

(* The steps that open a query, answer one or refuse it.                     *)
LEMMA FetchTypesKept ==
  ASSUME TypeOK, FetchStep
  PROVE  TypeOK'
<1> USE ResultsAssumption
<1>1. /\ items \in Seq(Row) /\ boxes \in Seq(Boxes) /\ fetch \in [Slots -> Fetch]
      /\ grid = NoTable \/ grid \in Seq(Row)
      /\ status = NoStatus \/ status \in Nat
      /\ bar \in [visible : BOOLEAN, value : 0..Full]
      /\ checking \in Nat /\ bumping \in Nat
      /\ file \in {NoFile, Torn} \/ file \in Seq(Row)
  BY DEF TypeOK
<1>2. Message \in Boxes /\ Append(boxes, Message) \in Seq(Boxes)
  BY <1>1 DEF Boxes
<1>3. <<>> \in Seq(Row)
  OBVIOUS
<1>4. CASE RefuseQuery
  BY <1>1, <1>2, <1>4 DEF RefuseQuery, Open, TypeOK
<1>5. CASE BadConnectionString
  BY <1>1, <1>3, <1>5 DEF BadConnectionString, Cleared, TypeOK
<1>6. ASSUME NEW s \in Slots, NEW q \in Queries, StartFetch(s, q)
      PROVE  TypeOK'
  <2>1. [at |-> "opening", query |-> q] \in Fetch
    BY DEF Fetch
  <2>2. fetch' \in [Slots -> Fetch]
    BY <1>1, <1>6, <2>1 DEF StartFetch
  <2>3. bar' \in [visible : BOOLEAN, value : 0..Full]
    BY <1>6 DEF StartFetch
  <2>4. items' \in Seq(Row) /\ checking' \in Nat
    BY <1>1, <1>3, <1>6 DEF StartFetch, Cleared
  <2> QED BY <1>1, <1>6, <2>2, <2>3, <2>4 DEF StartFetch, TypeOK
<1>7. ASSUME NEW s \in Slots, Answered(s)
      PROVE  TypeOK'
  <2> DEFINE q == fetch[s].query
  <2>1. fetch[s].at = "opening"
    BY <1>7 DEF Answered, ReadAnswer, ReadFails, OpenRefused, OpenThrows
  <2>2. q \in Queries /\ Count[q] \in Nat
    BY <2>1, FetchTypes
  <2>3. \A n \in Nat : items \o Rows(q, n) \in Seq(Row)
    BY <1>1, <2>2, RowsType
  <2>0. fetch[s] \in [at : {"opening", "failed"}, query : Queries]
    BY <1>1, <2>1 DEF Fetch, Idle
  <2>4. Idle \in Fetch /\ [fetch[s] EXCEPT !.at = "failed"] \in Fetch
    BY <2>0 DEF Fetch
  <2>5. fetch' \in [Slots -> Fetch]
    BY <1>1, <1>7, <2>4 DEF Answered, ReadAnswer, ReadFails, OpenRefused, OpenThrows
  <2>6. bar' \in [visible : BOOLEAN, value : 0..Full]
    <3>1. Opened \in [visible : BOOLEAN, value : 0..Full]
      BY DEF Opened
    <3>2. [visible |-> FALSE, value |-> 0] \in [visible : BOOLEAN, value : 0..Full]
      OBVIOUS
    <3>3. bar' \in {bar, Opened, [visible |-> FALSE, value |-> 0]}
      BY <1>7, Zenon DEF Answered, ReadAnswer, ReadFails, OpenRefused, OpenThrows
    <3> QED BY <1>1, <3>1, <3>2, <3>3
  <2>7. UNCHANGED <<checking, bumping, file>>
    BY <1>7 DEF Answered, ReadAnswer, ReadFails, OpenRefused, OpenThrows
  <2>8. CASE ReadAnswer(s)
    <3>1. items' = items \o Rows(q, Count[q]) /\ status' = Count[q]
      BY <2>8 DEF ReadAnswer
    <3>2. grid' = items' \/ UNCHANGED grid
      BY <2>8 DEF ReadAnswer
    <3>3. boxes' = Append(boxes, Message) \/ UNCHANGED boxes
      BY <2>8 DEF ReadAnswer, Open
    <3> QED BY <1>1, <1>2, <2>2, <2>3, <2>5, <2>6, <2>7, <3>1, <3>2, <3>3 DEF TypeOK
  <2>9. CASE ReadFails(s)
    <3>1. PICK n \in 0..Count[q] : items' = items \o Rows(q, n)
      BY <2>9 DEF ReadFails
    <3>2. items' \in Seq(Row)
      BY <2>2, <2>3, <3>1
    <3>3. UNCHANGED <<grid, status, boxes>>
      BY <2>9 DEF ReadFails
    <3> QED BY <1>1, <2>5, <2>6, <2>7, <3>2, <3>3 DEF TypeOK
  <2>10. CASE OpenRefused(s)
    <3>1. Failure(s) \in Boxes
      BY DEF Failure, Boxes
    <3>2. boxes' \in Seq(Boxes) /\ UNCHANGED <<items, grid, status>>
      BY <1>1, <2>10, <3>1 DEF OpenRefused, Open
    <3> QED BY <1>1, <2>5, <2>6, <2>7, <3>2 DEF TypeOK
  <2>11. CASE OpenThrows(s)
    BY <1>1, <2>5, <2>6, <2>7, <2>11 DEF OpenThrows, TypeOK
  <2> QED BY <1>7, <2>8, <2>9, <2>10, <2>11 DEF Answered
<1> QED BY <1>4, <1>5, <1>6, <1>7 DEF FetchStep

(* The progress tasks.                                                       *)
LEMMA ProgressTypesKept ==
  ASSUME TypeOK, ProgressStep
  PROVE  TypeOK'
<1> USE ResultsAssumption
<1>1. bar \in [visible : BOOLEAN, value : 0..Full] /\ checking \in Nat /\ bumping \in Nat
  BY DEF TypeOK
<1>2. CASE ProgressCheck
  <2>1. checking' \in Nat /\ bumping' \in Nat
    BY <1>1, <1>2 DEF ProgressCheck
  <2> QED BY <1>2, <2>1 DEF ProgressCheck, TypeOK
<1>3. CASE ProgressBump
  <2>1. Bumped \in 0..Full
    BY <1>1 DEF Bumped
  <2>2. checking' \in Nat /\ bumping' \in Nat
    BY <1>1, <1>3 DEF ProgressBump
  <2>3. bar' \in [visible : BOOLEAN, value : 0..Full]
    BY <1>1, <1>3, <2>1 DEF ProgressBump
  <2> QED BY <1>3, <2>2, <2>3 DEF ProgressBump, TypeOK
<1> QED BY <1>2, <1>3 DEF ProgressStep

(* Exports and boxes.                                                        *)
LEMMA BoxTypesKept ==
  ASSUME TypeOK, BoxStep
  PROVE  TypeOK'
<1>1. /\ items \in Seq(Row) /\ boxes \in Seq(Boxes) /\ fetch \in [Slots -> Fetch]
      /\ bar \in [visible : BOOLEAN, value : 0..Full]
      /\ file \in {NoFile, Torn} \/ file \in Seq(Row)
  BY DEF TypeOK
<1>2. Message \in Boxes /\ SaveDialog(items) \in Boxes
  BY <1>1 DEF Boxes, Message, SaveDialog
<1>3. CASE Export
  <2>1. boxes' \in Seq(Boxes)
    BY <1>1, <1>2, <1>3 DEF Export, Open
  <2> QED BY <1>3, <2>1 DEF Export, TypeOK
<1>4. CASE Saved
  <2>1. boxes # <<>> /\ Top.kind = "save"
    BY <1>4 DEF Saved
  <2>2. Top \in Boxes /\ Below \in Seq(Boxes)
    BY <2>1, BelowType
  <2>3. Top.rows \in Seq(Row)
    BY <2>1, <2>2 DEF Boxes, Message
  <2>4. boxes' \in Seq(Boxes) /\ (file' \in {NoFile, Torn} \/ file' \in Seq(Row))
    BY <1>1, <1>2, <1>4, <2>2, <2>3 DEF Saved
  <2> QED BY <1>4, <2>4 DEF Saved, TypeOK
<1>5. CASE CloseBox
  <2>1. boxes' \in Seq(Boxes)
    BY <1>5, BelowType DEF CloseBox
  <2> QED BY <1>5, <2>1 DEF CloseBox, TypeOK
<1>6. CASE CloseFailure
  <2>1. boxes' \in Seq(Boxes)
    BY <1>6, BelowType DEF CloseFailure
  <2>2. Idle \in Fetch
    BY DEF Fetch
  <2>3. fetch' \in [Slots -> Fetch]
    BY <1>1, <1>6, <2>2 DEF CloseFailure
  <2>4. bar' \in [visible : BOOLEAN, value : 0..Full]
    BY <1>1, <1>6 DEF CloseFailure
  <2> QED BY <1>6, <2>1, <2>3, <2>4 DEF CloseFailure, TypeOK
<1> QED BY <1>3, <1>4, <1>5, <1>6 DEF BoxStep

(* Every step keeps the types, and so does no step.                          *)
LEMMA TypesKept ==
  ASSUME TypeOK, [Next]_vars
  PROVE  TypeOK'
<1>1. CASE UNCHANGED vars
  BY <1>1 DEF vars, TypeOK
<1> QED BY <1>1, FetchTypesKept, ProgressTypesKept, BoxTypesKept DEF Next

(* They hold when the form has been loaded.                                  *)
LEMMA TypesAtFirst == Init => TypeOK
<1> SUFFICES ASSUME Init PROVE TypeOK
  OBVIOUS
<1>1. Idle \in Fetch
  BY DEF Fetch
<1>2. fetch \in [Slots -> Fetch]
  BY <1>1 DEF Init
<1>3. bar \in [visible : BOOLEAN, value : 0..Full]
  BY ResultsAssumption DEF Init
<1> QED BY <1>2, <1>3 DEF Init, TypeOK

(* However many queries and progress tasks run at once, the progress bar     *)
(* stays in its range and a failed query's box belongs to a query.           *)
THEOREM TypeCorrect == Spec => []TypeOK
BY TypesAtFirst, TypesKept, PTL DEF Spec

-----------------------------------------------------------------------------
(* A user who waits for each answer. *)

Part(rows) == \E q \in Queries : \E n \in 0..Count[q] : rows = Rows(q, n)

(* The list is empty while a query waits for its connection, and holds rows  *)
(* of one query at most otherwise; so does what an open dialog would save.   *)
Waited ==
  /\ items # <<>> => Part(items)
  /\ grid # NoTable => Queries # {}
  /\ \A i \in 1..Len(boxes) :
       boxes[i].kind = "save" =>
         grid # NoTable /\ (boxes[i].rows # <<>> => Part(boxes[i].rows))
  /\ \A s \in Slots :
       fetch[s].at = "opening" => items = <<>> /\ status = NoStatus

Serial == Waited /\ StatusIsTrue /\ BarIsTrue

shown == <<grid, file>>

(* Rows of one query fit each other.                                         *)
LEMMA OneQueryFits ==
  ASSUME NEW q \in Queries, NEW n \in Nat
  PROVE  Fits(Rows(q, n))
<1>1. Len(Rows(q, n)) = n
  BY RowsType
<1>2. \A i \in 1..n : Rows(q, n)[i].query = q
  BY DEF Rows
<1>3. \A i \in 1..n : 1 \in 1..n
  OBVIOUS
<1> QED BY <1>1, <1>2, <1>3 DEF Fits

(* A box on top of the others leaves them as they are.                       *)
LEMMA BoxOnTop ==
  ASSUME TypeOK, NEW box \in Boxes,
         boxes' = Append(boxes, box),
         \A i \in 1..Len(boxes) :
           boxes[i].kind = "save" =>
             grid' # NoTable /\ (boxes[i].rows # <<>> => Part(boxes[i].rows)),
         box.kind = "save" =>
           grid' # NoTable /\ (box.rows # <<>> => Part(box.rows))
  PROVE  \A i \in 1..Len(boxes') :
           boxes'[i].kind = "save" =>
             grid' # NoTable /\ (boxes'[i].rows # <<>> => Part(boxes'[i].rows))
<1>1. boxes \in Seq(Boxes) /\ Len(boxes) \in Nat
  BY DEF TypeOK
<1>2. /\ Len(boxes') = Len(boxes) + 1
      /\ boxes'[Len(boxes) + 1] = box
      /\ \A i \in 1..Len(boxes) : boxes'[i] = boxes[i]
  BY <1>1
<1>3. \A i \in 1..Len(boxes) + 1 : i \in 1..Len(boxes) \/ i = Len(boxes) + 1
  BY <1>1
<1> QED BY <1>2, <1>3

(* So does closing the top one.                                              *)
LEMMA BoxClosed ==
  ASSUME TypeOK, Waited, boxes # <<>>, UNCHANGED grid,
         boxes' = Below \/ boxes' = Append(Below, Message)
  PROVE  \A i \in 1..Len(boxes') :
           boxes'[i].kind = "save" =>
             grid' # NoTable /\ (boxes'[i].rows # <<>> => Part(boxes'[i].rows))
<1> DEFINE n == Len(boxes) - 1
<1>1. /\ Below \in Seq(Boxes) /\ Len(Below) = n
      /\ \A i \in 1..n : Below[i] = boxes[i]
  BY BelowType
<1>2. n \in Nat /\ \A i \in 1..n : i \in 1..Len(boxes)
  BY DEF TypeOK
<1> HIDE DEF n
<1>3. \A i \in 1..n :
        Below[i].kind = "save" =>
          grid' # NoTable /\ (Below[i].rows # <<>> => Part(Below[i].rows))
  BY <1>1, <1>2 DEF Waited
<1>4. CASE boxes' = Below
  BY <1>1, <1>3, <1>4
<1>5. CASE boxes' = Append(Below, Message)
  <2>1. Message \in Boxes /\ Message.kind # "save"
    BY DEF Message, Boxes
  <2>2. /\ Len(boxes') = n + 1 /\ boxes'[n + 1] = Message
        /\ \A i \in 1..n : boxes'[i] = Below[i]
    BY <1>1, <1>2, <1>5, <2>1
  <2>3. \A i \in 1..n + 1 : i \in 1..n \/ i = n + 1
    BY <1>2
  <2> QED BY <1>3, <2>1, <2>2, <2>3
<1> QED BY <1>4, <1>5

(* Starting a query, or not.                                                 *)
LEMMA StartSerial ==
  ASSUME MaxActive = 1, TypeOK, Serial,
         \/ RefuseQuery
         \/ BadConnectionString
         \/ \E s \in Slots : \E q \in Queries : StartFetch(s, q)
  PROVE  Serial' /\ UNCHANGED shown
<1>1. Slots = {1} /\ fetch \in [Slots -> Fetch]
  BY DEF Slots, TypeOK
<1>2. UNCHANGED shown
  BY DEF RefuseQuery, BadConnectionString, StartFetch, shown
<1>3. CASE RefuseQuery
  <2>1. Message \in Boxes /\ Message.kind # "save"
    BY DEF Message, Boxes
  <2>2. boxes' = Append(boxes, Message) /\ UNCHANGED <<items, grid, fetch, bar>>
    BY <1>3 DEF RefuseQuery, Open
  <2>3. status' \in {status, NoStatus}
    BY <1>3 DEF RefuseQuery
  <2>4. Waited'
    BY <2>1, <2>2, <2>3, BoxOnTop DEF Waited, Serial
  <2>5. StatusIsTrue' /\ BarIsTrue'
    BY <2>2, <2>3 DEF StatusIsTrue, BarIsTrue, Serial
  <2> QED BY <1>2, <2>4, <2>5 DEF Serial
<1>4. CASE BadConnectionString
  <2>1. items' = <<>> /\ status' = NoStatus /\ UNCHANGED <<grid, fetch, boxes, bar>>
    BY <1>4 DEF BadConnectionString, Cleared
  <2> QED BY <1>2, <2>1 DEF Waited, StatusIsTrue, BarIsTrue, Serial
<1>5. ASSUME NEW s \in Slots, NEW q \in Queries, StartFetch(s, q)
      PROVE  Serial'
  <2>1. /\ items' = <<>> /\ status' = NoStatus /\ bar'.visible = TRUE
        /\ UNCHANGED <<grid, boxes>>
    BY <1>5 DEF StartFetch, Cleared
  <2>2. fetch'[s] # Idle
    BY <1>1, <1>5 DEF StartFetch, Idle
  <2>3. Waited'
    BY <2>1 DEF Waited, Serial
  <2> QED BY <2>1, <2>2, <2>3 DEF StatusIsTrue, BarIsTrue, Serial
<1> QED BY <1>2, <1>3, <1>4, <1>5

(* The end of a query.                                                       *)
LEMMA AnswerSerial ==
  ASSUME MaxActive = 1, TypeOK, Serial, NEW s \in Slots, Answered(s)
  PROVE  Serial' /\ [View!Next]_shown
<1>1. Slots = {s} /\ fetch \in [Slots -> Fetch]
  BY DEF Slots, TypeOK
<1>2. fetch[s].at = "opening"
  BY DEF Answered, ReadAnswer, ReadFails, OpenRefused, OpenThrows
<1>3. items = <<>> /\ status = NoStatus /\ bar.visible /\ fetch[s] # Idle
  BY <1>2 DEF Serial, Waited, BarIsTrue, Idle
<1>4. PICK q \in Queries : q = fetch[s].query
  BY <1>2, FetchTypes
<1>5. Count[q] \in Nat
  BY ResultsAssumption
<1>6. \A n \in Nat : items \o Rows(q, n) = Rows(q, n) /\ Rows(q, n) \in Seq(Row)
  BY <1>3, RowsType
<1>7. UNCHANGED file
  BY DEF Answered, ReadAnswer, ReadFails, OpenRefused, OpenThrows
<1>8. CASE ReadAnswer(s)
  <2> DEFINE all == Rows(q, Count[q])
  <2>1. Fits(all) /\ Len(all) = Count[q] /\ all \in Seq(Row)
    BY <1>5, OneQueryFits, RowsType
  <2>2. items' = all /\ status' = Count[q]
    BY <1>4, <1>5, <1>6, <1>8 DEF ReadAnswer
  <2>3. grid' = all /\ UNCHANGED boxes
    BY <1>4, <1>5, <1>6, <1>8, <2>1 DEF ReadAnswer
  <2>4. bar'.visible = FALSE /\ fetch' = [fetch EXCEPT ![s] = Idle]
    BY <1>8 DEF ReadAnswer, Opened
  <2>5. fetch'[s] = Idle /\ Idle.at # "opening"
    BY <1>1, <2>4 DEF Idle
  <2>6. grid' # NoTable
    BY <2>1, <2>3, ResultsAssumption
  <2>7. Part(all)
    BY <1>5 DEF Part
  <2> HIDE DEF all
  <2>8. Waited'
    BY <1>1, <2>2, <2>3, <2>5, <2>6, <2>7 DEF Waited, Serial
  <2>9. StatusIsTrue' /\ BarIsTrue'
    BY <1>1, <2>1, <2>2, <2>3, <2>4, <2>5 DEF StatusIsTrue, BarIsTrue
  <2>10. View!Show(q)
    BY <1>7, <2>3 DEF View!Show, View!Rows, Rows, all
  <2>11. View!Next
    BY <2>10, Zenon DEF View!Next
  <2> QED BY <2>8, <2>9, <2>11 DEF Serial
<1>9. CASE ReadFails(s)
  <2>0. PICK n \in 0..Count[q] : items' = items \o Rows(q, n)
    BY <1>4, <1>9 DEF ReadFails
  <2>9. n \in Nat
    BY <1>5
  <2>1. items' = Rows(q, n)
    BY <1>6, <2>0, <2>9
  <2>2. Part(items')
    BY <2>1 DEF Part
  <2>3. /\ bar'.visible = FALSE /\ fetch' = [fetch EXCEPT ![s] = Idle]
        /\ UNCHANGED <<grid, status, boxes>>
    BY <1>9 DEF ReadFails, Opened
  <2>4. fetch'[s] = Idle /\ Idle.at # "opening"
    BY <1>1, <2>3 DEF Idle
  <2>5. Waited'
    BY <1>1, <2>2, <2>3, <2>4 DEF Waited, Serial
  <2>6. StatusIsTrue' /\ BarIsTrue'
    BY <1>1, <1>3, <2>3, <2>4 DEF StatusIsTrue, BarIsTrue
  <2> QED BY <1>7, <2>3, <2>5, <2>6 DEF Serial, shown
<1>10. CASE OpenRefused(s)
  <2>1. Failure(s) \in Boxes /\ Failure(s).kind # "save"
    BY DEF Failure, Boxes
  <2>2. boxes' = Append(boxes, Failure(s)) /\ UNCHANGED <<items, grid, status, bar>>
    BY <1>10 DEF OpenRefused, Open
  <2>3. fetch' = [fetch EXCEPT ![s].at = "failed"]
    BY <1>10 DEF OpenRefused
  <2>4. fetch[s] \in [at : {"opening", "failed"}, query : Queries]
    BY <1>1, <1>3 DEF Fetch
  <2>5. fetch'[s].at = "failed"
    BY <1>1, <2>3, <2>4
  <2>6. fetch'[s] # Idle
    BY <2>5 DEF Idle
  <2>7. Waited'
    BY <1>1, <2>1, <2>2, <2>5, BoxOnTop DEF Waited, Serial
  <2>8. StatusIsTrue' /\ BarIsTrue'
    BY <1>3, <2>2, <2>6 DEF StatusIsTrue, BarIsTrue
  <2> QED BY <1>7, <2>2, <2>7, <2>8 DEF Serial, shown
<1>11. CASE OpenThrows(s)
  <2>1. /\ bar'.visible = FALSE /\ fetch' = [fetch EXCEPT ![s] = Idle]
        /\ UNCHANGED <<items, grid, status, boxes>>
    BY <1>11 DEF OpenThrows
  <2>2. fetch'[s] = Idle /\ Idle.at # "opening"
    BY <1>1, <2>1 DEF Idle
  <2>3. Waited'
    BY <1>1, <2>1, <2>2 DEF Waited, Serial
  <2>4. StatusIsTrue' /\ BarIsTrue'
    BY <1>1, <1>3, <2>1, <2>2 DEF StatusIsTrue, BarIsTrue
  <2> QED BY <1>7, <2>1, <2>3, <2>4 DEF Serial, shown
<1> QED BY <1>8, <1>9, <1>10, <1>11 DEF Answered

(* The progress tasks change nothing that is shown but the bar's value.      *)
LEMMA ProgressSerial ==
  ASSUME TypeOK, Serial, ProgressStep
  PROVE  Serial' /\ UNCHANGED shown
<1>1. UNCHANGED <<items, grid, status, fetch, boxes, file>>
  BY DEF ProgressStep, ProgressCheck, ProgressBump
<1>2. bar \in [visible : BOOLEAN, value : 0..Full]
  BY DEF TypeOK
<1>3. bar'.visible = bar.visible
  BY <1>2 DEF ProgressStep, ProgressCheck, ProgressBump
<1>4. Waited' /\ StatusIsTrue'
  BY <1>1 DEF Waited, StatusIsTrue, Serial
<1>5. BarIsTrue'
  BY <1>1, <1>3, Zenon DEF BarIsTrue, Serial
<1> QED BY <1>1, <1>4, <1>5 DEF Serial, shown

(* Exports and boxes.                                                        *)
LEMMA BoxSerial ==
  ASSUME MaxActive = 1, TypeOK, Serial, BoxStep
  PROVE  Serial' /\ [View!Next]_shown
<1>1. UNCHANGED <<items, grid, status>>
  BY DEF BoxStep, Export, Saved, CloseBox, CloseFailure
<1>2. StatusIsTrue'
  BY <1>1 DEF StatusIsTrue, Serial
<1>3. CASE Export
  <2> DEFINE box == IF grid # NoTable /\ Fits(items) THEN SaveDialog(items) ELSE Message
  <2>1. boxes' = Append(boxes, box) /\ UNCHANGED <<fetch, bar, file>>
    BY <1>3 DEF Export, Open
  <2>2. box \in Boxes
    BY DEF Boxes, Message, SaveDialog, TypeOK
  <2>3. box.kind = "save" =>
          grid' # NoTable /\ (box.rows # <<>> => Part(box.rows))
    BY <1>1 DEF Message, SaveDialog, Serial, Waited
  <2> HIDE DEF box
  <2>4. Waited'
    BY <1>1, <2>1, <2>2, <2>3, BoxOnTop DEF Waited, Serial
  <2>5. BarIsTrue'
    BY <2>1 DEF BarIsTrue, Serial
  <2> QED BY <1>1, <1>2, <2>1, <2>4, <2>5 DEF Serial, shown
<1>4. CASE Saved
  <2>1. /\ boxes # <<>> /\ Top.kind = "save" /\ boxes' = Append(Below, Message)
        /\ file' \in {Top.rows, file, Torn} /\ UNCHANGED <<fetch, bar>>
    BY <1>4 DEF Saved
  <2>2. Waited' /\ BarIsTrue'
    BY <1>1, <2>1, BoxClosed DEF Waited, BarIsTrue, Serial
  <2>3. grid # NoTable /\ (Top.rows # <<>> => Part(Top.rows))
    <3>1. Len(boxes) \in 1..Len(boxes)
      BY <2>1 DEF TypeOK
    <3> QED BY <2>1, <3>1 DEF Top, Serial, Waited
  <2>4. CASE file' = file
    BY <1>1, <1>2, <2>2, <2>4 DEF Serial, shown
  <2>5. CASE file' = Torn
    <3>1. View!Tear
      BY <1>1, <2>3, <2>5 DEF View!Tear
    <3>2. View!Next
      BY <3>1, Zenon DEF View!Next
    <3> QED BY <1>2, <2>2, <3>2 DEF Serial
  <2>6. CASE file' = Top.rows
    <3>0. Part(Top.rows)
      <4>1. CASE Top.rows = <<>>
        <5>1. PICK q \in Queries : TRUE
          BY <2>3 DEF Serial, Waited
        <5>2. 0 \in 0..Count[q] /\ Rows(q, 0) = <<>>
          BY ResultsAssumption DEF Rows
        <5> QED BY <4>1, <5>2 DEF Part
      <4>2. CASE Top.rows # <<>>
        BY <2>3, <4>2
      <4> QED BY <4>1, <4>2
    <3>4. PICK q \in Queries : \E n \in 0..Count[q] : Top.rows = Rows(q, n)
      BY <3>0 DEF Part
    <3>1. PICK n \in 0..Count[q] : Top.rows = Rows(q, n)
      BY <3>4
    <3>2. View!Write(q, n)
      BY <1>1, <2>3, <2>6, <3>1 DEF View!Write, View!Rows, Rows
    <3>3. View!Next
      BY <3>2, Zenon DEF View!Next
    <3> QED BY <1>2, <2>2, <3>3 DEF Serial
  <2> QED BY <2>1, <2>4, <2>5, <2>6
<1>5. CASE CloseBox
  <2>1. boxes # <<>> /\ boxes' = Below /\ UNCHANGED <<fetch, bar, file>>
    BY <1>5 DEF CloseBox
  <2>2. Waited' /\ BarIsTrue'
    BY <1>1, <2>1, BoxClosed DEF Waited, BarIsTrue, Serial
  <2> QED BY <1>1, <1>2, <2>1, <2>2 DEF Serial, shown
<1>6. CASE CloseFailure
  <2>1. boxes # <<>> /\ boxes' = Below /\ UNCHANGED file /\ Top.kind = "failed"
    BY <1>6 DEF CloseFailure
  <2>2. Slots = {1} /\ fetch \in [Slots -> Fetch] /\ bar \in [visible : BOOLEAN, value : 0..Full]
    BY DEF Slots, TypeOK
  <2>3. Top.slot = 1
    <3>1. Top \in Boxes
      BY <2>1, BelowType
    <3> QED BY <2>1, <2>2, <3>1 DEF Boxes, Message
  <2>4. bar'.visible = FALSE /\ fetch' = [fetch EXCEPT ![1] = Idle]
    BY <1>6, <2>2, <2>3 DEF CloseFailure
  <2>5. fetch'[1] = Idle /\ Idle.at # "opening"
    BY <2>2, <2>4 DEF Idle
  <2>6. BarIsTrue'
    BY <2>2, <2>4, <2>5 DEF BarIsTrue
  <2>7. Waited'
    BY <1>1, <2>1, <2>2, <2>5, BoxClosed DEF Waited, Serial
  <2> QED BY <1>1, <1>2, <2>1, <2>6, <2>7 DEF Serial, shown
<1> QED BY <1>3, <1>4, <1>5, <1>6 DEF BoxStep

(* Every step of a user who waits.                                           *)
LEMMA StepSerial ==
  ASSUME MaxActive = 1, TypeOK, Serial, [Next]_vars
  PROVE  Serial' /\ [View!Next]_shown
<1>1. CASE UNCHANGED vars
  <2>1. UNCHANGED <<items, grid, status, fetch, boxes, bar, file>>
    BY <1>1 DEF vars
  <2> QED BY <2>1 DEF Serial, Waited, StatusIsTrue, BarIsTrue, shown
<1>2. CASE FetchStep
  BY <1>2, StartSerial, AnswerSerial DEF FetchStep
<1> QED BY <1>1, <1>2, ProgressSerial, BoxSerial DEF Next

(* The form has been loaded: no list, no table, no query.                    *)
LEMMA SerialAtFirst ==
  ASSUME Init
  PROVE  Serial /\ View!Init
BY DEF Init, Serial, Waited, StatusIsTrue, BarIsTrue, Idle, View!Init

(* "Fetched entries" (DataRequest.cs:616) is what the grid shows and what an *)
(* export would write, after any sequence of queries, failures, exports and  *)
(* boxes.                                                                    *)
THEOREM WaitingStatusIsTrue ==
  ASSUME MaxActive = 1
  PROVE  Spec => []StatusIsTrue
<1>1. Init => TypeOK /\ Serial
  BY TypesAtFirst, SerialAtFirst
<1>2. TypeOK /\ Serial /\ [Next]_vars => (TypeOK /\ Serial)'
  BY TypesKept, StepSerial
<1>3. Serial => StatusIsTrue
  BY DEF Serial
<1> QED BY <1>1, <1>2, <1>3, PTL DEF Spec

(* The progress bar is visible exactly while the query waits.                *)
THEOREM WaitingBarIsTrue ==
  ASSUME MaxActive = 1
  PROVE  Spec => []BarIsTrue
<1>1. Init => TypeOK /\ Serial
  BY TypesAtFirst, SerialAtFirst
<1>2. TypeOK /\ Serial /\ [Next]_vars => (TypeOK /\ Serial)'
  BY TypesKept, StepSerial
<1>3. Serial => BarIsTrue
  BY DEF Serial
<1> QED BY <1>1, <1>2, <1>3, PTL DEF Spec

(* The grid goes from one whole answer to the next, and no file mixes two.   *)
THEOREM WaitingShowsAnswers ==
  ASSUME MaxActive = 1
  PROVE  Spec => ImplementsResultView
<1>1. Init => TypeOK /\ Serial /\ View!Init
  BY TypesAtFirst, SerialAtFirst
<1>2. TypeOK /\ Serial /\ [Next]_vars
        => (TypeOK /\ Serial)' /\ [View!Next]_shown
  BY TypesKept, StepSerial
<1> QED BY <1>1, <1>2, PTL DEF Spec, ImplementsResultView, View!Spec, shown

=============================================================================
