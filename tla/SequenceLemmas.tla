--------------------------- MODULE SequenceLemmas ---------------------------
(* Facts about sequences and places in them that several proofs rest on.    *)
EXTENDS Integers, SequencesExt, SequenceTheorems, TLAPS

(* RemoveAt takes one element away and keeps the others in their order.      *)
LEMMA RemoveAtProperties ==
  ASSUME NEW S, NEW s \in Seq(S), NEW i \in 1..Len(s)
  PROVE  /\ RemoveAt(s, i) \in Seq(S)
         /\ Len(RemoveAt(s, i)) = Len(s) - 1
         /\ \A k \in 1..Len(s) - 1 :
              RemoveAt(s, i)[k] = IF k < i THEN s[k] ELSE s[k + 1]
<1> DEFINE a == SubSeq(s, 1, i - 1)
           b == SubSeq(s, i + 1, Len(s))
<1>1. RemoveAt(s, i) = a \o b
  BY DEF RemoveAt
<1>2. /\ a \in Seq(S)
      /\ Len(a) = i - 1
      /\ \A k \in 1..i - 1 : a[k] = s[k]
  OBVIOUS
<1>3. /\ b \in Seq(S)
      /\ Len(b) = Len(s) - i
      /\ \A k \in 1..Len(s) - i : b[k] = s[i + k]
  OBVIOUS
<1> HIDE DEF a, b
<1>4. /\ a \o b \in Seq(S)
      /\ Len(a \o b) = Len(a) + Len(b)
  BY <1>2, <1>3, ConcatProperties
<1>5. ASSUME NEW k \in 1..Len(s) - 1
      PROVE  (a \o b)[k] = IF k < i THEN s[k] ELSE s[k + 1]
  <2>1. CASE k < i
    BY <1>2, <1>3, <2>1
  <2>2. CASE ~ (k < i)
    <3>1. (a \o b)[k] = b[k - (i - 1)]
      BY <1>2, <1>3, <2>2
    <3>2. k - (i - 1) \in 1..Len(s) - i
      BY <2>2
    <3>3. b[k - (i - 1)] = s[i + (k - (i - 1))]
      BY <1>3, <3>2
    <3> QED BY <2>2, <3>1, <3>3
  <2> QED BY <2>1, <2>2
<1>6. Len(a \o b) = Len(s) - 1
  BY <1>2, <1>3, <1>4
<1> QED BY <1>1, <1>4, <1>5, <1>6

(* A function on 1..n is a sequence.                                         *)
LEMMA FunctionIsSequence ==
  ASSUME NEW S, NEW n \in Nat, NEW f \in [1..n -> S]
  PROVE  f \in Seq(S) /\ Len(f) = n
OBVIOUS

(* A remainder is not greater than what was divided.                        *)
LEMMA Remainder ==
  ASSUME NEW a \in Nat, NEW b \in Nat \ {0}
  PROVE  a % b \in 0..a
<1> DEFINE q == a \div b
           r == a % b
<1>1. q \in Int /\ r \in 0..(b - 1) /\ a = b * q + r
  OBVIOUS
<1> HIDE DEF q, r
<1>2. q >= 0
  <2> SUFFICES ASSUME q < 0 PROVE FALSE
    BY <1>1
  <2>1. b * q <= b * (-1)
    BY <1>1
  <2> QED BY <1>1, <2>1
<1>3. b * q >= 0
  BY <1>1, <1>2
<1>4. r \in 0..a
  BY <1>1, <1>3
<1> QED BY <1>4 DEF r

(* Place k of a table that is written row by row is in row (k-1) \div w.     *)
LEMMA RowAndColumn ==
  ASSUME NEW n \in Nat, NEW w \in Nat, NEW k \in 1..(n * w)
  PROVE  /\ w > 0
         /\ ((k - 1) \div w) + 1 \in 1..n
         /\ ((k - 1) % w) + 1 \in 1..w
<1>1. w > 0
  <2>1. CASE w = 0
    <3>1. n * w = 0
      BY <2>1
    <3> QED BY <3>1
  <2> QED BY <2>1
<1> DEFINE q == (k - 1) \div w
           r == (k - 1) % w
<1>2. q \in Int /\ r \in 0..(w - 1) /\ k - 1 = w * q + r
  BY <1>1
<1> HIDE DEF q, r
<1>3. q >= 0
  <2> SUFFICES ASSUME q < 0 PROVE FALSE
    BY <1>2
  <2>1. w * q <= w * (-1)
    BY <1>1, <1>2
  <2> QED BY <1>1, <1>2, <2>1
<1>4. q < n
  <2> SUFFICES ASSUME q >= n PROVE FALSE
    BY <1>2
  <2>1. w * n <= w * q
    BY <1>1, <1>2
  <2>2. w * n = n * w
    OBVIOUS
  <2> QED BY <1>1, <1>2, <2>1, <2>2
<1> QED BY <1>1, <1>2, <1>3, <1>4 DEF q, r

(* And column j of row i is at place (i-1)*w+j.                              *)
LEMMA PlaceOf ==
  ASSUME NEW n \in Nat, NEW w \in Nat, NEW i \in 1..n, NEW j \in 1..w
  PROVE  (i - 1) * w + j \in 1..(n * w)
<1>1. (i - 1) * w >= 0
  OBVIOUS
<1>2. (i - 1) * w <= (n - 1) * w
  OBVIOUS
<1>3. (n - 1) * w + w = n * w
  OBVIOUS
<1>4. (i - 1) * w \in Int /\ n * w \in Int
  OBVIOUS
<1> QED BY <1>1, <1>2, <1>3, <1>4

(* ... which gives back the row and the column.                              *)
LEMMA RowAndColumnOf ==
  ASSUME NEW w \in Nat, NEW i \in Nat \ {0}, NEW j \in 1..w
  PROVE  /\ (((i - 1) * w + j) - 1) \div w = i - 1
         /\ (((i - 1) * w + j) - 1) % w = j - 1
<1> DEFINE k == ((i - 1) * w + j) - 1
           q == k \div w
           r == k % w
           d == q - (i - 1)
<1>1. w > 0 /\ k \in Int
  OBVIOUS
<1>2. q \in Int /\ r \in 0..(w - 1) /\ k = w * q + r
  <2> HIDE DEF k
  <2> QED BY <1>1
<1>3. w * q + r = w * (i - 1) + (j - 1)
  BY <1>2
<1> HIDE DEF k, q, r
<1>4. d \in Int /\ w * d = (j - 1) - r
  <2>1. w * (q - (i - 1)) = w * q - w * (i - 1)
    BY <1>2
  <2>2. w * q \in Int /\ w * (i - 1) \in Int
    BY <1>2
  <2> QED BY <1>2, <1>3, <2>1, <2>2
<1> HIDE DEF d
<1>5. w * d \in Int /\ w * d < w /\ w * d > 0 - w
  BY <1>2, <1>4
<1>6. d = 0
  <2>1. CASE d >= 1
    <3>1. w * d >= w * 1
      BY <1>1, <1>4, <2>1
    <3> QED BY <1>5, <3>1
  <2>2. CASE d <= -1
    <3>1. w * d <= w * (-1)
      BY <1>1, <1>4, <2>2
    <3> QED BY <1>5, <3>1
  <2> QED BY <1>4, <2>1, <2>2
<1>7. w * d = 0
  BY <1>6
<1>8. q = i - 1 /\ r = j - 1
  BY <1>2, <1>4, <1>6, <1>7 DEF d
<1> QED BY <1>8 DEF k, q, r

=============================================================================
