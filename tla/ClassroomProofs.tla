---------------------------- MODULE ClassroomProofs ----------------------------
(***************************************************************************)
(* Proofs about ClassroomWindow.tla, for any files, hashes, tags, ratings  *)
(* and numbers of steps: the table of the songs follows the library        *)
(* (TableFollowsLibrary), the dialog of the properties shows the file of   *)
(* its current row (FieldsOfSelectedRow), and removing removes the songs   *)
(* that were asked about (RemovesTheChosen).                               *)
(*                                                                         *)
(* Lists are changed one element at a time, by loops that look a row up    *)
(* again after each change.  The lemmas say what an insertion and a        *)
(* removal do to a list in which nothing is twice; a loop is the recursive *)
(* function that the module defines it by, which exists and keeps in its   *)
(* values what each of its steps keeps (RecursionExists, LoopStays).       *)
(* Agree relates the table to the library after every such step, and       *)
(* DialogRight the rows of the other dialog to its fields and to the       *)
(* library; they are the invariant, with what the user is being asked.     *)
(***************************************************************************)
EXTENDS ClassroomWindow, SequenceTheorems, FiniteSetTheorems, TLAPS

(* Induction over a range of numbers, for sets of them. *)
LEMMA RangeInduction ==
  ASSUME NEW lo \in Int, NEW hi \in Int, NEW P, lo \in P,
         \A k \in (lo + 1)..hi : k - 1 \in P => k \in P
  PROVE  \A k \in lo..hi : k \in P
<1> SUFFICES ASSUME NEW k \in lo..hi, k \notin P
             PROVE  FALSE
  OBVIOUS
<1> DEFINE Failing == {m \in Nat : lo + m \in (lo..hi) \ P}
           R == {x \in Nat \X Nat : x[1] < x[2]}
<1>1. k - lo \in Nat /\ lo + (k - lo) = k
  OBVIOUS
<1>2. k - lo \in Failing
  BY <1>1
<1>3. IsWellFoundedOn(R, Nat)
  BY NatLessThanWellFounded DEF OpToRel
<1>4. PICK m \in Failing : \A y \in Failing : ~(<<y, m>> \in R)
  <2>1. Failing \subseteq Nat /\ Failing # {}
    BY <1>2
  <2> HIDE DEF R, Failing
  <2> QED
    BY <1>3, <2>1, WFMin
<1>5. m \in Nat /\ lo + m \in lo..hi /\ lo + m \notin P
  BY <1>4
<1>6. m # 0
  BY <1>5
<1>7. m - 1 \in Nat /\ lo + (m - 1) = (lo + m) - 1 /\ lo + m \in (lo + 1)..hi /\ lo + (m - 1) \in lo..hi
  BY <1>5, <1>6
<1>8. lo + (m - 1) \notin P
  BY <1>5, <1>7
<1>9. m - 1 \in Failing /\ <<m - 1, m>> \in R
  BY <1>5, <1>7, <1>8
<1> QED
  BY <1>4, <1>9

(* A function given by its first value and a step from each value to the next exists. *)
Recursion(V, lo, hi, base, step) ==
  /\ lo \in Int /\ hi \in Int /\ lo <= hi
  /\ base \in V
  /\ step \in [((lo + 1)..hi) \X V -> V]

(* f is the function with the first value base and the given step. *)
Follows(f, V, lo, hi, base, step) ==
  /\ f \in [lo..hi -> V]
  /\ \A k \in lo..hi : f[k] = IF k = lo THEN base ELSE step[<<k, f[k - 1]>>]

(* By induction on the range: f follows up to k for each k. *)
LEMMA RecursionExists ==
  ASSUME NEW V, NEW lo, NEW hi, NEW base, NEW step, Recursion(V, lo, hi, base, step)
  PROVE  \E f : Follows(f, V, lo, hi, base, step)
<1> USE DEF Recursion
<1> DEFINE Steps(f, m) == \A k \in lo..m : f[k] = IF k = lo THEN base ELSE step[<<k, f[k - 1]>>]
           Defined == {m \in lo..hi : \E f \in [lo..m -> V] : Steps(f, m)}
<1>1. lo \in Defined
  <2> DEFINE f == [k \in lo..lo |-> base]
  <2>1. f \in [lo..lo -> V] /\ Steps(f, lo) /\ lo \in lo..hi
    OBVIOUS
  <2> QED
    BY <2>1
<1>2. ASSUME NEW m \in (lo + 1)..hi, m - 1 \in Defined
      PROVE  m \in Defined
  <2>1. PICK f \in [lo..(m - 1) -> V] : Steps(f, m - 1)
    BY <1>2
  <2> DEFINE g == [k \in lo..m |-> IF k = m THEN step[<<m, f[m - 1]>>] ELSE f[k]]
  <2>2. m \in Int /\ m - 1 \in lo..(m - 1) /\ \A k \in lo..m : k = m \/ k \in lo..(m - 1)
    OBVIOUS
  <2>3. step[<<m, f[m - 1]>>] \in V
    BY <2>2
  <2>4. g \in [lo..m -> V]
    BY <2>2, <2>3
  <2>5. ASSUME NEW k \in lo..m
        PROVE  g[k] = IF k = lo THEN base ELSE step[<<k, g[k - 1]>>]
    <3>1. CASE k = m
      <4>1. g[k] = step[<<m, f[m - 1]>>] /\ g[k - 1] = f[m - 1] /\ k # lo
        BY <2>2, <3>1
      <4> QED
        BY <3>1, <4>1
    <3>2. CASE k # m
      <4>1. k \in lo..(m - 1) /\ g[k] = f[k]
        BY <2>2, <3>2
      <4>2. k # lo => k - 1 \in lo..m /\ k - 1 # m /\ g[k - 1] = f[k - 1]
        BY <2>2, <4>1
      <4> HIDE DEF g
      <4> QED
        BY <2>1, <4>1, <4>2
    <3> QED
      BY <3>1, <3>2
  <2>6. m \in lo..hi
    OBVIOUS
  <2> HIDE DEF g
  <2> QED
    BY <2>4, <2>5, <2>6
<1> HIDE DEF Defined
<1>3. \A m \in lo..hi : m \in Defined
  BY <1>1, <1>2, RangeInduction
<1>4. hi \in Defined
  BY <1>3
<1> QED
  BY <1>4 DEF Defined, Follows

(* The same from 0 on. *)
LEMMA CountInduction ==
  ASSUME NEW n \in Nat, NEW P, 0 \in P, \A k \in 1..n : k - 1 \in P => k \in P
  PROVE  \A k \in 0..n : k \in P
<1>1. 0 \in Int /\ n \in Int /\ (0 + 1)..n = 1..n
  OBVIOUS
<1> QED
  BY <1>1, RangeInduction

-----------------------------------------------------------------------------
(* Lists of songs. *)

(* No element is in the list twice. *)
Once(s) == \A i, j \in DOMAIN s : s[i] = s[j] => i = j

(* An element that is new to a list is appended to it. *)
LEMMA Appended ==
  ASSUME NEW T, NEW s \in Seq(T), Once(s), NEW e \in T, e \notin ToSet(s)
  PROVE  /\ Append(s, e) \in Seq(T)
         /\ Once(Append(s, e))
         /\ ToSet(Append(s, e)) = ToSet(s) \cup {e}
<1> DEFINE r == Append(s, e)
           n == Len(s)
<1>1. n \in Nat /\ DOMAIN s = 1..n /\ DOMAIN r = 1..(n + 1) /\ r \in Seq(T)
  OBVIOUS
<1>2. r[n + 1] = e /\ \A j \in 1..n : r[j] = s[j]
  OBVIOUS
<1>3. \A j \in 1..n : s[j] \in ToSet(s) /\ s[j] # e
  BY <1>1 DEF ToSet
<1> HIDE DEF r, n
<1>4. 1..(n + 1) = 1..n \cup {n + 1}
  BY <1>1
<1>5. Once(r)
  BY <1>1, <1>2, <1>3, <1>4 DEF Once
<1>6. ToSet(r) = ToSet(s) \cup {e}
  <2>1. \A j \in DOMAIN r : r[j] \in ToSet(s) \cup {e}
    BY <1>1, <1>2, <1>3, <1>4
  <2>2. \A x \in ToSet(s) : x \in ToSet(r)
    <3> TAKE x \in ToSet(s)
    <3>1. PICK j \in 1..n : s[j] = x
      BY <1>1 DEF ToSet
    <3>2. r[j] = x /\ j \in DOMAIN r
      BY <1>1, <1>2, <1>4, <3>1
    <3> QED
      BY <3>2 DEF ToSet
  <2>3. e \in ToSet(r)
    <3>1. n + 1 \in DOMAIN r
      BY <1>1, <1>4
    <3> QED
      BY <1>2, <3>1 DEF ToSet
  <2> QED
    BY <2>1, <2>2, <2>3 DEF ToSet
<1> QED
  BY <1>1, <1>5, <1>6 DEF r

(* The element at a place is taken out of a list. *)
LEMMA TakenOut ==
  ASSUME NEW T, NEW s \in Seq(T), NEW i \in 1..Len(s)
  PROVE  /\ RemoveAt(s, i) \in Seq(T)
         /\ Len(RemoveAt(s, i)) = Len(s) - 1
         /\ \A j \in 1..(Len(s) - 1) : RemoveAt(s, i)[j] = IF j < i THEN s[j] ELSE s[j + 1]
<1> DEFINE n == Len(s)
           a == SubSeq(s, 1, i - 1)
           b == SubSeq(s, i + 1, n)
<1>1. n \in Nat /\ i \in Nat /\ i >= 1 /\ i <= n /\ \A j \in 1..n : s[j] \in T
  OBVIOUS
<1>2. a \in Seq(T) /\ Len(a) = i - 1 /\ \A j \in 1..(i - 1) : a[j] = s[j]
  <2>1. \A j \in 1..(i - 1) : s[j] \in T
    BY <1>1
  <2>2. /\ SubSeq(s, 1, i - 1) \in Seq(T)
        /\ Len(SubSeq(s, 1, i - 1)) = IF 1 <= i - 1 THEN (i - 1) - 1 + 1 ELSE 0
        /\ \A j \in 1..((i - 1) - 1 + 1) : SubSeq(s, 1, i - 1)[j] = s[1 + j - 1]
    BY <1>1, <2>1, SubSeqProperties
  <2> QED
    BY <1>1, <2>2
<1>3. b \in Seq(T) /\ Len(b) = n - i /\ \A j \in 1..(n - i) : b[j] = s[j + i]
  <2> HIDE DEF n
  <2>1. \A j \in (i + 1)..n : s[j] \in T
    BY <1>1
  <2>2. /\ SubSeq(s, i + 1, n) \in Seq(T)
        /\ Len(SubSeq(s, i + 1, n)) = IF i + 1 <= n THEN n - (i + 1) + 1 ELSE 0
        /\ \A j \in 1..(n - (i + 1) + 1) : SubSeq(s, i + 1, n)[j] = s[(i + 1) + j - 1]
    BY <1>1, <2>1, SubSeqProperties
  <2> QED
    BY <1>1, <2>2
<1>4. RemoveAt(s, i) = a \o b
  BY DEF RemoveAt
<1> HIDE DEF a, b, n
<1>5. /\ a \o b \in Seq(T) /\ Len(a \o b) = Len(a) + Len(b)
      /\ \A j \in 1..Len(a) + Len(b) : (a \o b)[j] = IF j <= Len(a) THEN a[j] ELSE b[j - Len(a)]
  BY <1>2, <1>3, ConcatProperties
<1>6. Len(a) + Len(b) = n - 1
  BY <1>1, <1>2, <1>3
<1>7. ASSUME NEW j \in 1..(n - 1)
      PROVE  (a \o b)[j] = IF j < i THEN s[j] ELSE s[j + 1]
  <2>1. CASE j < i
    BY <1>1, <1>2, <1>5, <1>6, <2>1
  <2>2. CASE ~(j < i)
    <3>1. ~(j <= Len(a)) /\ j - Len(a) \in 1..(n - i) /\ (j - Len(a)) + i = j + 1
      BY <1>1, <1>2, <2>2
    <3> QED
      BY <1>3, <1>5, <1>6, <2>2, <3>1
  <2> QED
    BY <2>1, <2>2
<1> QED
  BY <1>4, <1>5, <1>6, <1>7 DEF n

(* Where no element is twice, it is then gone. *)
LEMMA GoneAfter ==
  ASSUME NEW T, NEW s \in Seq(T), Once(s), NEW i \in 1..Len(s)
  PROVE  /\ Once(RemoveAt(s, i))
         /\ ToSet(RemoveAt(s, i)) = ToSet(s) \ {s[i]}
<1> DEFINE n == Len(s)
           r == RemoveAt(s, i)
<1>1. /\ n \in Nat /\ i \in 1..n /\ DOMAIN s = 1..n /\ DOMAIN r = 1..(n - 1)
      /\ \A j \in 1..(n - 1) : r[j] = IF j < i THEN s[j] ELSE s[j + 1]
  <2>1. /\ r \in Seq(T) /\ Len(r) = n - 1
        /\ \A j \in 1..(n - 1) : r[j] = IF j < i THEN s[j] ELSE s[j + 1]
    BY TakenOut
  <2> HIDE DEF r
  <2>2. DOMAIN r = 1..(n - 1)
    BY <2>1
  <2> QED
    BY <2>1, <2>2
<1>2. \A j, k \in 1..n : s[j] = s[k] => j = k
  BY <1>1 DEF Once
<1> HIDE DEF n, r
<1> DEFINE At(j) == IF j < i THEN j ELSE j + 1
<1>3. \A j \in 1..(n - 1) : At(j) \in 1..n /\ At(j) # i /\ r[j] = s[At(j)]
  BY <1>1
<1>4. \A j, k \in 1..(n - 1) : At(j) = At(k) => j = k
  BY <1>1
<1>5. \A j \in 1..n : j # i => \E k \in 1..(n - 1) : At(k) = j
  <2> TAKE j \in 1..n
  <2> HAVE j # i
  <2>1. CASE j < i
    <3>1. j \in 1..(n - 1) /\ At(j) = j
      BY <1>1, <2>1
    <3> QED
      BY <3>1
  <2>2. CASE ~(j < i)
    <3>1. j - 1 \in 1..(n - 1) /\ At(j - 1) = j
      BY <1>1, <2>2
    <3> QED
      BY <3>1
  <2> QED
    BY <2>1, <2>2
<1> HIDE DEF At
<1>6. Once(r)
  BY <1>1, <1>2, <1>3, <1>4 DEF Once
<1>7. \A x \in ToSet(r) : x \in ToSet(s) \ {s[i]}
  <2> TAKE x \in ToSet(r)
  <2>1. PICK j \in 1..(n - 1) : x = r[j]
    BY <1>1 DEF ToSet
  <2>2. x = s[At(j)] /\ At(j) \in 1..n /\ At(j) # i
    BY <1>3, <2>1
  <2> QED
    BY <1>1, <1>2, <2>2 DEF ToSet
<1>8. \A x \in ToSet(s) \ {s[i]} : x \in ToSet(r)
  <2> TAKE x \in ToSet(s) \ {s[i]}
  <2>1. PICK j \in 1..n : x = s[j]
    BY <1>1 DEF ToSet
  <2>2. PICK k \in 1..(n - 1) : At(k) = j
    BY <1>5, <2>1
  <2>3. r[k] = x /\ k \in DOMAIN r
    BY <1>1, <1>3, <2>1, <2>2
  <2> QED
    BY <2>3 DEF ToSet
<1> QED
  BY <1>6, <1>7, <1>8 DEF r

(* An element is put at a place of a list. *)
LEMMA PutIn ==
  ASSUME NEW T, NEW s \in Seq(T), NEW i \in 1..(Len(s) + 1), NEW e \in T
  PROVE  /\ InsertAt(s, i, e) \in Seq(T)
         /\ Len(InsertAt(s, i, e)) = Len(s) + 1
         /\ \A j \in 1..(Len(s) + 1) : InsertAt(s, i, e)[j] = IF j < i THEN s[j] ELSE IF j = i THEN e ELSE s[j - 1]
<1> DEFINE n == Len(s)
           a == SubSeq(s, 1, i - 1)
           b == SubSeq(s, i, n)
           c == a \o <<e>>
           r == c \o b
<1>1. /\ n \in Nat /\ i \in Nat /\ i >= 1 /\ i <= n + 1 /\ DOMAIN s = 1..n
      /\ \A j \in 1..n : s[j] \in T
  OBVIOUS
<1>2. a \in Seq(T) /\ Len(a) = i - 1 /\ \A j \in 1..(i - 1) : a[j] = s[j]
  <2> HIDE DEF n
  <2>1. \A j \in 1..(i - 1) : s[j] \in T
    BY <1>1
  <2>2. /\ SubSeq(s, 1, i - 1) \in Seq(T)
        /\ Len(SubSeq(s, 1, i - 1)) = IF 1 <= i - 1 THEN (i - 1) - 1 + 1 ELSE 0
        /\ \A j \in 1..((i - 1) - 1 + 1) : SubSeq(s, 1, i - 1)[j] = s[1 + j - 1]
    BY <1>1, <2>1, SubSeqProperties
  <2> QED
    BY <1>1, <2>2
<1>3. b \in Seq(T) /\ Len(b) = (n + 1) - i /\ \A j \in 1..((n + 1) - i) : b[j] = s[(j + i) - 1]
  <2> HIDE DEF n
  <2>1. \A j \in i..n : s[j] \in T
    BY <1>1
  <2>2. /\ SubSeq(s, i, n) \in Seq(T)
        /\ Len(SubSeq(s, i, n)) = IF i <= n THEN n - i + 1 ELSE 0
        /\ \A j \in 1..(n - i + 1) : SubSeq(s, i, n)[j] = s[i + j - 1]
    BY <1>1, <2>1, SubSeqProperties
  <2> QED
    BY <1>1, <2>2
<1>4. InsertAt(s, i, e) = r
  BY DEF InsertAt
<1>5. <<e>> \in Seq(T) /\ Len(<<e>>) = 1 /\ <<e>>[1] = e
  OBVIOUS
<1> HIDE DEF n, a, b
<1>6. c \in Seq(T) /\ Len(c) = i /\ \A j \in 1..i : c[j] = IF j < i THEN s[j] ELSE e
  <2> DEFINE d == <<e>>
  <2> HIDE DEF d
  <2>1. d \in Seq(T) /\ Len(d) = 1 /\ d[1] = e
    BY <1>5 DEF d
  <2>2. /\ a \o d \in Seq(T) /\ Len(a \o d) = Len(a) + Len(d)
        /\ \A j \in 1..Len(a) + Len(d) : (a \o d)[j] = IF j <= Len(a) THEN a[j] ELSE d[j - Len(a)]
    BY <1>2, <2>1, ConcatProperties
  <2>3. a \o d \in Seq(T) /\ Len(a \o d) = i /\ \A j \in 1..i : (a \o d)[j] = IF j < i THEN s[j] ELSE e
    BY <1>1, <1>2, <2>1, <2>2
  <2> QED
    BY <2>3 DEF d
<1> HIDE DEF c
<1>7. /\ c \o b \in Seq(T) /\ Len(c \o b) = Len(c) + Len(b)
      /\ \A j \in 1..Len(c) + Len(b) : (c \o b)[j] = IF j <= Len(c) THEN c[j] ELSE b[j - Len(c)]
  <2>1. c \in Seq(T) /\ b \in Seq(T)
    BY <1>3, <1>6
  <2> QED
    BY <2>1, ConcatProperties
<1>8. r \in Seq(T) /\ Len(r) = n + 1 /\ DOMAIN r = 1..(n + 1)
  BY <1>1, <1>3, <1>6, <1>7
<1>9. \A j \in 1..(n + 1) : r[j] = IF j < i THEN s[j] ELSE IF j = i THEN e ELSE s[j - 1]
  <2> TAKE j \in 1..(n + 1)
  <2>1. CASE j <= i
    BY <1>1, <1>3, <1>6, <1>7, <2>1
  <2>2. CASE ~(j <= i)
    <3>1. j - i \in 1..((n + 1) - i) /\ ((j - i) + i) - 1 = j - 1 /\ ~(j < i) /\ j # i
      BY <1>1, <2>2
    <3>2. j \in 1..(Len(c) + Len(b)) /\ ~(j <= Len(c)) /\ Len(c) = i
      BY <1>1, <1>3, <1>6, <2>2
    <3>3. r[j] = b[j - i]
      BY <1>7, <3>2
    <3>4. b[j - i] = s[j - 1]
      BY <1>3, <3>1
    <3> QED
      BY <3>1, <3>3, <3>4
  <2> QED
    BY <2>1, <2>2
<1> QED
  BY <1>4, <1>8, <1>9 DEF n

(* Where it is new, it is then there as well. *)
LEMMA ThereAfter ==
  ASSUME NEW T, NEW s \in Seq(T), Once(s), NEW i \in 1..(Len(s) + 1), NEW e \in T, e \notin ToSet(s)
  PROVE  /\ Once(InsertAt(s, i, e))
         /\ ToSet(InsertAt(s, i, e)) = ToSet(s) \cup {e}
<1> DEFINE n == Len(s)
           r == InsertAt(s, i, e)
<1>1. n \in Nat /\ i \in Nat /\ i >= 1 /\ i <= n + 1 /\ DOMAIN s = 1..n
  OBVIOUS
<1>2. r \in Seq(T) /\ Len(r) = n + 1
  BY PutIn
<1>3. \A j \in 1..(n + 1) : r[j] = IF j < i THEN s[j] ELSE IF j = i THEN e ELSE s[j - 1]
  BY PutIn
<1> HIDE DEF r, n
<1>4. DOMAIN r = 1..(n + 1)
  BY <1>2
<1>5. \A j \in 1..n : s[j] \in ToSet(s) /\ s[j] # e
  BY <1>1 DEF ToSet
<1>6. \A j, k \in 1..n : s[j] = s[k] => j = k
  BY <1>1 DEF Once
<1>7. Once(r)
  <2> SUFFICES ASSUME NEW j \in 1..(n + 1), NEW k \in 1..(n + 1), r[j] = r[k]
               PROVE  j = k
    BY <1>4 DEF Once
  <2> DEFINE From(x) == IF x < i THEN x ELSE x - 1
  <2>1. \A x \in 1..(n + 1) : x # i => From(x) \in 1..n /\ r[x] = s[From(x)]
    BY <1>1, <1>3
  <2>2. \A x, y \in 1..(n + 1) : x # i /\ y # i /\ From(x) = From(y) => x = y
    BY <1>1
  <2>3. r[i] = e
    BY <1>1, <1>3
  <2> HIDE DEF From
  <2> QED
    BY <1>5, <1>6, <2>1, <2>2, <2>3
<1>8. \A x \in ToSet(r) : x \in ToSet(s) \cup {e}
  <2> TAKE x \in ToSet(r)
  <2>1. PICK j \in 1..(n + 1) : x = r[j]
    BY <1>4 DEF ToSet
  <2>2. j < i => j \in 1..n
    BY <1>1
  <2>3. ~(j < i) /\ j # i => j - 1 \in 1..n
    BY <1>1
  <2> QED
    BY <1>3, <1>5, <2>1, <2>2, <2>3
<1>9. \A x \in ToSet(s) \cup {e} : x \in ToSet(r)
  <2> TAKE x \in ToSet(s) \cup {e}
  <2>1. CASE x = e
    <3>1. i \in DOMAIN r /\ r[i] = e
      BY <1>1, <1>4, <1>3
    <3> QED
      BY <2>1, <3>1 DEF ToSet
  <2>2. CASE x \in ToSet(s)
    <3>1. PICK j \in 1..n : x = s[j]
      BY <1>1, <2>2 DEF ToSet
    <3> DEFINE k == IF j < i THEN j ELSE j + 1
    <3>2. k \in 1..(n + 1) /\ (k < i => k = j) /\ (~(k < i) => k # i /\ k - 1 = j)
      BY <1>1
    <3> HIDE DEF k
    <3>3. r[k] = x /\ k \in DOMAIN r
      BY <1>4, <1>3, <3>1, <3>2
    <3> QED
      BY <3>3 DEF ToSet
  <2> QED
    BY <2>1, <2>2
<1> QED
  BY <1>7, <1>8, <1>9 DEF r

(* The elements of a list that are in a set. *)
LEMMA AmongElements ==
  ASSUME NEW T, NEW s \in Seq(T), Once(s), NEW S
  PROVE  /\ Among(s, S) \in Seq(T)
         /\ Once(Among(s, S))
         /\ \A x : x \in ToSet(Among(s, S)) <=> x \in ToSet(s) /\ x \in S
<1> DEFINE N == Len(s)
           V == Seq(T)
           After(k, v) == IF s[k] \in S THEN Append(v, s[k]) ELSE v
           F(f) == [n \in 0..N |-> IF n = 0 THEN <<>> ELSE IF s[n] \in S THEN Append(f[n - 1], s[n]) ELSE f[n - 1]]
           Kept == CHOOSE f : f = F(f)
<1>1. Among(s, S) = Kept[N]
  BY DEF Among
<1>2. N \in Nat /\ (\A k \in 1..N : s[k] \in T) /\ ToSet(s) = {s[j] : j \in 1..N}
  BY DEF ToSet
<1>3. \A k \in 1..N, v \in V : After(k, v) \in V
  BY <1>2
<1>9. \A i, j \in 1..N : s[i] = s[j] => i = j
  BY DEF Once
<1> HIDE DEF N
<1>4. \E f : f = F(f)
  <2> DEFINE step == [x \in (1..N) \X V |-> After(x[1], x[2])]
  <2>1. step \in [(1..N) \X V -> V] /\ \A k \in 1..N, v \in V : step[<<k, v>>] = After(k, v)
    BY <1>3
  <2>2. <<>> \in V
    OBVIOUS
  <2> HIDE DEF step, V
  <2>3. Recursion(V, 0, N, <<>>, step)
    BY <1>2, <2>1, <2>2 DEF Recursion
  <2>4. PICK f : Follows(f, V, 0, N, <<>>, step)
    BY <2>3, RecursionExists
  <2>5. f \in [0..N -> V] /\ \A k \in 0..N : f[k] = IF k = 0 THEN <<>> ELSE step[<<k, f[k - 1]>>]
    BY <2>4 DEF Follows
  <2>6. \A k \in 0..N : k # 0 => k \in 1..N /\ k - 1 \in 0..N
    BY <1>2
  <2>7. \A k \in 0..N : f[k] = IF k = 0 THEN <<>> ELSE After(k, f[k - 1])
    BY <2>1, <2>5, <2>6
  <2>8. f = F(f)
    BY <2>5, <2>7
  <2> QED
    BY <2>8
<1>5. Kept = F(Kept)
  BY <1>4
<1> HIDE DEF Kept
<1>6. Kept[0] = <<>> /\ \A k \in 1..N : Kept[k] = After(k, Kept[k - 1])
  <2>1. 0 \in 0..N /\ \A k \in 1..N : k \in 0..N /\ k # 0
    BY <1>2
  <2>2. \A k \in 0..N : Kept[k] = IF k = 0 THEN <<>> ELSE After(k, Kept[k - 1])
    BY <1>5
  <2> QED
    BY <2>1, <2>2
<1> DEFINE Ok(k) == /\ Kept[k] \in V /\ Once(Kept[k])
                    /\ ToSet(Kept[k]) = {s[j] : j \in 1..k} \cap S
           P == {k \in 0..N : Ok(k)}
<1>7. 0 \in P
  <2>1. 1..0 = {} /\ 0 \in 0..N
    BY <1>2
  <2>2. Ok(0)
    BY <1>6, <2>1 DEF Once, ToSet
  <2> QED
    BY <2>1, <2>2
<1>8. \A k \in 1..N : k - 1 \in P => k \in P
  <2> SUFFICES ASSUME NEW k \in 1..N, Ok(k - 1)
               PROVE  Ok(k)
    <3> HIDE DEF Ok
    <3>1. \A k \in 1..N : k \in 0..N
      BY <1>2
    <3> QED
      BY <3>1
  <2> DEFINE v == Kept[k - 1]
             r == Kept[k]
  <2>1. k \in Nat /\ 1..k = 1..(k - 1) \cup {k} /\ k \notin 1..(k - 1) /\ s[k] \in T
        /\ 1..k \subseteq 1..N
    BY <1>2
  <2>2. v \in V /\ Once(v) /\ ToSet(v) = {s[j] : j \in 1..(k - 1)} \cap S /\ r = After(k, v)
    BY <1>6
  <2>3. {s[j] : j \in 1..k} = {s[j] : j \in 1..(k - 1)} \cup {s[k]}
    BY <2>1
  <2>4. CASE s[k] \in S
    <3>1. r = Append(v, s[k])
      BY <2>2, <2>4
    <3>2. s[k] \notin ToSet(v)
      BY <1>9, <2>1, <2>2
    <3>3. r \in V /\ Once(r) /\ ToSet(r) = ToSet(v) \cup {s[k]}
      <4> HIDE DEF r, v
      <4> QED
        BY <2>1, <2>2, <3>1, <3>2, Appended
    <3> QED
      BY <2>3, <2>4, <2>2, <3>3
  <2>5. CASE s[k] \notin S
    <3>1. r = v
      BY <2>1, <2>2, <2>5
    <3> QED
      BY <2>2, <2>3, <2>5, <3>1
  <2> QED
    BY <2>4, <2>5
<1>10. Ok(N)
  <2> HIDE DEF P
  <2>1. \A k \in 0..N : k \in P
    BY <1>2, <1>7, <1>8, CountInduction
  <2>2. N \in 0..N
    BY <1>2
  <2> QED
    BY <2>1, <2>2 DEF P
<1> QED
  BY <1>1, <1>2, <1>10

(* The place of an element in a list. *)
PlaceIn(s, e) == LET places == {i \in 1..Len(s) : s[i] = e} IN IF places # {} THEN Min(places) ELSE 0

(* A list in which no element is twice has an element at one place at most. *)
LEMMA PlaceOfElement ==
  ASSUME NEW T, NEW s \in Seq(T), Once(s), NEW e
  PROVE  /\ PlaceIn(s, e) \in 0..Len(s)
         /\ \A i \in 1..Len(s) : s[i] = e => PlaceIn(s, e) = i
<1> DEFINE I == {i \in 1..Len(s) : s[i] = e}
           at == PlaceIn(s, e)
<1>1. at = IF I # {} THEN Min(I) ELSE 0
  BY DEF PlaceIn
<1>2. Len(s) \in Nat /\ \A i, j \in I : i = j
  BY DEF Once
<1>3. ASSUME NEW i \in I
      PROVE  at = i
  <2>1. I = {i}
    BY <1>2
  <2>2. i \in Nat /\ i <= i
    BY <1>2
  <2>3. Min({i}) = i
    BY <2>2 DEF Min
  <2> HIDE DEF I, at
  <2> QED
    BY <1>1, <2>1, <2>3
<1>4. I \subseteq 0..Len(s) /\ 0 \in 0..Len(s)
  BY <1>2
<1>5. at \in 0..Len(s)
  <2> HIDE DEF I, at
  <2> QED
    BY <1>1, <1>3, <1>4
<1> QED
  BY <1>3, <1>5

(* An element is taken out of a list, if it is there. *)
LEMMA WithoutElement ==
  ASSUME NEW T, NEW s \in Seq(T), Once(s), NEW e
  PROVE  /\ Without(s, e) \in Seq(T)
         /\ Once(Without(s, e))
         /\ \A x : x \in ToSet(Without(s, e)) <=> x \in ToSet(s) /\ x # e
<1>1. Without(s, e) = IF \E i \in 1..Len(s) : s[i] = e
                      THEN RemoveAt(s, PlaceIn(s, e)) ELSE s
  BY DEF Without, RemoveFirst, SelectInSeq, PlaceIn
<1>2. CASE \E i \in 1..Len(s) : s[i] = e
  <2>1. PICK i \in 1..Len(s) : s[i] = e
    BY <1>2
  <2>2. PlaceIn(s, e) = i
    BY <2>1, PlaceOfElement
  <2>3. Without(s, e) = RemoveAt(s, i)
    BY <1>1, <1>2, <2>2
  <2>4. RemoveAt(s, i) \in Seq(T) /\ Once(RemoveAt(s, i)) /\ ToSet(RemoveAt(s, i)) = ToSet(s) \ {s[i]}
    BY TakenOut, GoneAfter
  <2> QED
    BY <2>1, <2>3, <2>4
<1>3. CASE ~\E i \in 1..Len(s) : s[i] = e
  <2>1. Without(s, e) = s
    BY <1>1, <1>3
  <2>2. e \notin ToSet(s)
    BY <1>3 DEF ToSet
  <2> QED
    BY <2>1, <2>2
<1> QED
  BY <1>2, <1>3

(* A song gets a place among the rows, whatever their order is. *)
LEMMA PlaceAmongRows ==
  ASSUME NEW l, NEW t, NEW rows \in Seq(Files), NEW f
  PROVE  \E i \in 1..(Len(rows) + 1) : Placed(l, t, rows, f) = InsertAt(rows, i, f)
<1> DEFINE above == {i \in DOMAIN rows : Before(l, t, rows[i], f)}
           n == Len(rows)
<1>1. n \in Nat /\ above \in SUBSET (1..n) /\ Placed(l, t, rows, f) = InsertAt(rows, 1 + Cardinality(above), f)
  BY DEF Placed
<1> HIDE DEF above, n
<1>2. IsFiniteSet(1..n) /\ Cardinality(1..n) = n
  BY <1>1, FS_Interval
<1>3. IsFiniteSet(above) /\ Cardinality(above) <= Cardinality(1..n)
  BY <1>1, <1>2, FS_Subset
<1>4. Cardinality(above) \in Nat
  BY <1>3, FS_CardinalityType
<1>5. 1 + Cardinality(above) \in 1..(n + 1)
  BY <1>1, <1>2, <1>3, <1>4
<1> QED
  BY <1>1, <1>5 DEF n

(* A song that is not among the rows is then among them. *)
LEMMA SongIsPlaced ==
  ASSUME NEW l, NEW t, NEW rows \in Seq(Files), Once(rows), NEW f \in Files, f \notin ToSet(rows)
  PROVE  /\ Placed(l, t, rows, f) \in Seq(Files)
         /\ Once(Placed(l, t, rows, f))
         /\ \A x : x \in ToSet(Placed(l, t, rows, f)) <=> x \in ToSet(rows) \/ x = f
<1>1. PICK i \in 1..(Len(rows) + 1) : Placed(l, t, rows, f) = InsertAt(rows, i, f)
  BY PlaceAmongRows
<1> DEFINE r == InsertAt(rows, i, f)
<1>2. r \in Seq(Files) /\ Once(r) /\ ToSet(r) = ToSet(rows) \cup {f}
  BY PutIn, ThereAfter
<1> HIDE DEF r
<1>3. \A x : x \in ToSet(r) <=> x \in ToSet(rows) \/ x = f
  BY <1>2
<1> QED
  BY <1>1, <1>2, <1>3 DEF r

(* So do several, one after another. *)
LEMMA AllArePlaced ==
  ASSUME NEW l, NEW t, NEW rows \in Seq(Files), Once(rows), NEW list \in Seq(Files), Once(list),
         \A x : ~(x \in ToSet(rows) /\ x \in ToSet(list))
  PROVE  /\ AllPlaced(l, t, rows, list) \in Seq(Files)
         /\ Once(AllPlaced(l, t, rows, list))
         /\ \A x : x \in ToSet(AllPlaced(l, t, rows, list)) <=> x \in ToSet(rows) \/ x \in ToSet(list)
<1> DEFINE N == Len(list)
           V == Seq(Files)
           Listed(k) == {list[j] : j \in 1..k}
           F(f) == [n \in 0..N |-> IF n = 0 THEN rows ELSE Placed(l, t, f[n - 1], list[n])]
           Placing == CHOOSE f : f = F(f)
           Ok(k, v) == v \in V /\ Once(v) /\ \A x : x \in ToSet(v) <=> x \in ToSet(rows) \/ x \in Listed(k)
<1>1. AllPlaced(l, t, rows, list) = Placing[N]
  BY DEF AllPlaced
<1>2. N \in Nat /\ (\A k \in 1..N : list[k] \in Files) /\ ToSet(list) = Listed(N)
  BY DEF ToSet
<1>3. \A i, j \in 1..N : list[i] = list[j] => i = j
  BY DEF Once
<1>4. \A k \in 1..N : list[k] \in ToSet(list)
  BY DEF ToSet
<1> HIDE DEF N
<1>5. ASSUME NEW k \in 1..N, NEW v, Ok(k - 1, v)
      PROVE  Ok(k, Placed(l, t, v, list[k]))
  <2>1. k \in Nat /\ 1..k = 1..(k - 1) \cup {k} /\ k \notin 1..(k - 1) /\ 1..k \subseteq 1..N /\ list[k] \in Files
    BY <1>2
  <2>2. \A x : x \in Listed(k) <=> x \in Listed(k - 1) \/ x = list[k]
    BY <2>1
  <2>3. list[k] \notin Listed(k - 1)
    BY <1>3, <2>1
  <2>4. list[k] \notin ToSet(v)
    BY <1>4, <1>5, <2>3
  <2> HIDE DEF Listed
  <2> DEFINE r == Placed(l, t, v, list[k])
  <2>5. r \in Seq(Files) /\ Once(r) /\ \A x : x \in ToSet(r) <=> x \in ToSet(v) \/ x = list[k]
    BY <1>5, <2>1, <2>4, SongIsPlaced
  <2> HIDE DEF r
  <2>6. Ok(k, r)
    BY <1>5, <2>2, <2>5
  <2> QED
    BY <2>6 DEF r
<1>6. Ok(0, rows)
  <2>1. Listed(0) = {}
    OBVIOUS
  <2> QED
    BY <2>1
<1> HIDE DEF Ok
<1>7. \E f : f = F(f)
  <2> DEFINE step == [x \in (1..N) \X V |-> Placed(l, t, x[2], list[x[1]])]
  <2>1. ASSUME NEW k \in 1..N, NEW v \in V
        PROVE  Placed(l, t, v, list[k]) \in V
    <3>1. list[k] \in Files
      BY <1>2
    <3>2. PICK i \in 1..(Len(v) + 1) : Placed(l, t, v, list[k]) = InsertAt(v, i, list[k])
      BY PlaceAmongRows
    <3> QED
      BY <3>1, <3>2, PutIn
  <2>2. step \in [(1..N) \X V -> V] /\ \A k \in 1..N, v \in V : step[<<k, v>>] = Placed(l, t, v, list[k])
    BY <2>1
  <2> HIDE DEF step, V
  <2>3. Recursion(V, 0, N, rows, step)
    BY <1>2, <2>2 DEF Recursion, V
  <2>4. PICK f : Follows(f, V, 0, N, rows, step)
    BY <2>3, RecursionExists
  <2>5. f \in [0..N -> V] /\ \A k \in 0..N : f[k] = IF k = 0 THEN rows ELSE step[<<k, f[k - 1]>>]
    BY <2>4 DEF Follows
  <2>6. \A k \in 0..N : k # 0 => k \in 1..N /\ k - 1 \in 0..N
    BY <1>2
  <2>7. \A k \in 0..N : f[k] = IF k = 0 THEN rows ELSE Placed(l, t, f[k - 1], list[k])
    BY <2>2, <2>5, <2>6
  <2>8. f = F(f)
    BY <2>5, <2>7
  <2> QED
    BY <2>8
<1>8. Placing = F(Placing)
  BY <1>7
<1> HIDE DEF Placing
<1> DEFINE P == {k \in 0..N : Ok(k, Placing[k])}
<1>9. \A k \in 0..N : k \in P
  <2>1. 0 \in P
    BY <1>2, <1>6, <1>8
  <2>2. ASSUME NEW k \in 1..N, k - 1 \in P
        PROVE  k \in P
    <3>1. k \in 0..N /\ k # 0
      BY <1>2
    <3>2. Placing[k] = Placed(l, t, Placing[k - 1], list[k])
      BY <1>8, <3>1
    <3> QED
      BY <1>5, <2>2, <3>1, <3>2
  <2> HIDE DEF P
  <2> QED
    BY <1>2, <2>1, <2>2, CountInduction
<1>10. Ok(N, Placing[N])
  BY <1>2, <1>9
<1> QED
  BY <1>1, <1>2, <1>10 DEF Ok

-----------------------------------------------------------------------------
(* The table. *)

LibStates ==
  [songs : Seq(Files), id3 : [Files -> Tags], disk : [Files -> Tags \cup {Gone}],
   manual : [Hashes -> Tags], rating : [Hashes -> 0..MaxRating]]

TableFilters == {"all", "noId3", "noGenre", "duplicates"}

TableStates ==
  [open : BOOLEAN, flt : TableFilters, search : Tags, typed : Tags, ticks : Nat,
   sort : {"name", "rating"}, rows : Seq(Files), total : Nat, written : SUBSET Files]

(* The rows are songs of the library, each once, and what is shown when the dialog is open. *)
RowsAreSongs(l, t) == Once(t.rows) /\ \A f : f \in ToSet(t.rows) => f \in ToSet(l.songs)

ShowsLibrary(l, t) == t.open =>
  /\ t.total = Len(l.songs)
  /\ t.flt = "all" /\ t.search = 0 => \A f : f \in ToSet(l.songs) => f \in ToSet(t.rows)
  /\ t.flt = "noId3" => \A f \in Files : f \in t.written /\ f \in ToSet(t.rows) => l.id3[f] = 0

(* The library and the table agree. *)
Agree(l, t) ==
  /\ l \in LibStates /\ Once(l.songs)
  /\ t \in TableStates
  /\ RowsAreSongs(l, t) /\ ShowsLibrary(l, t)

(* What the filters let through, as far as the table's promises are about it. *)
LEMMA AcceptedSongs ==
  ASSUME NEW l, NEW t, NEW f
  PROVE  /\ t.flt = "all" /\ t.search = 0 => Accepts(l, t, f)
         /\ t.flt = "noId3" /\ Accepts(l, t, f) => l.id3[f] = 0
BY DEF Accepts, MatchesSearch

(* The row of a saved song leaves the table or has its place in it; the others stay. *)
LEMMA RefreshedRow ==
  ASSUME NEW l, NEW t \in TableStates, Once(t.rows), NEW f \in Files
  PROVE  \E r \in Seq(Files) :
           /\ Refreshed(l, t, f) = [t EXCEPT !.rows = r]
           /\ Once(r)
           /\ \A x : x \in ToSet(r) <=> (x \in ToSet(t.rows) /\ x # f) \/ (x = f /\ Accepts(l, t, f))
<1> DEFINE rows == t.rows
           others == Without(rows, f)
           r == IF Accepts(l, t, f) THEN Placed(l, t, others, f) ELSE others
<1>1. rows \in Seq(Files) /\ Once(rows)
  BY DEF TableStates
<1>2. Refreshed(l, t, f) = [t EXCEPT !.rows = r]
  BY DEF Refreshed
<1> HIDE DEF rows
<1>3. others \in Seq(Files) /\ Once(others) /\ \A x : x \in ToSet(others) <=> x \in ToSet(rows) /\ x # f
  BY <1>1, WithoutElement
<1> HIDE DEF others
<1>4. f \notin ToSet(others)
  BY <1>3
<1> DEFINE p == Placed(l, t, others, f)
<1>5. p \in Seq(Files) /\ Once(p) /\ \A x : x \in ToSet(p) <=> x \in ToSet(others) \/ x = f
  BY <1>3, <1>4, SongIsPlaced
<1> HIDE DEF p
<1>6. r = IF Accepts(l, t, f) THEN p ELSE others
  BY DEF p
<1> HIDE DEF r
<1>7. r \in Seq(Files) /\ Once(r)
      /\ \A x : x \in ToSet(r) <=> (x \in ToSet(rows) /\ x # f) \/ (x = f /\ Accepts(l, t, f))
  BY <1>3, <1>5, <1>6
<1> QED
  BY <1>2, <1>7 DEF rows

(* The library l2 has the songs of l, and the ID3 tags of all but f. *)
SameBut(l, l2, f) == l2.songs = l.songs /\ \A g \in Files : g # f => l2.id3[g] = l.id3[g]

(* The table t2 is t, but f may have been written to. *)
WrittenOnly(t, t2, f) ==
  /\ t2.open = t.open /\ t2.flt = t.flt /\ t2.search = t.search
  /\ t2.rows = t.rows /\ t2.total = t.total
  /\ \A g : g \in t2.written => g \in t.written \/ g = f

(* A song that was changed and saved: the table agrees with the library again. *)
LEMMA SavedAgrees ==
  ASSUME NEW l, NEW t, Agree(l, t), NEW f \in Files,
         NEW l2 \in LibStates, SameBut(l, l2, f),
         NEW t2 \in TableStates, WrittenOnly(t, t2, f)
  PROVE  Agree(l2, Saved(l2, t2, f)) /\ Saved(l2, t2, f).open = t.open
<1>1. l \in LibStates /\ Once(l.songs) /\ t \in TableStates /\ RowsAreSongs(l, t) /\ ShowsLibrary(l, t)
  BY DEF Agree
<1>2. Once(l2.songs) /\ Once(t2.rows) /\ l2.songs = l.songs /\ t2.rows = t.rows
  BY <1>1 DEF SameBut, WrittenOnly, RowsAreSongs
<1>3. CASE ~(t2.open /\ f \in ToSet(l2.songs))
  <2>1. Saved(l2, t2, f) = t2
    BY <1>3 DEF Saved
  <2>2. RowsAreSongs(l2, t2)
    BY <1>1, <1>2 DEF RowsAreSongs
  <2>3. ShowsLibrary(l2, t2)
    <3>1. SUFFICES ASSUME t2.open
                   PROVE  /\ t2.total = Len(l2.songs)
                          /\ t2.flt = "all" /\ t2.search = 0 => \A g : g \in ToSet(l2.songs) => g \in ToSet(t2.rows)
                          /\ t2.flt = "noId3" => \A g \in Files : g \in t2.written /\ g \in ToSet(t2.rows) => l2.id3[g] = 0
      BY DEF ShowsLibrary
    <3>2. f \notin ToSet(t2.rows)
      BY <1>1, <1>2, <1>3, <3>1 DEF RowsAreSongs
    <3>3. \A g \in Files : g \in t2.written /\ g \in ToSet(t2.rows) => g \in t.written /\ l2.id3[g] = l.id3[g]
      BY <3>2 DEF SameBut, WrittenOnly
    <3> QED
      BY <1>1, <1>2, <3>1, <3>3 DEF ShowsLibrary, WrittenOnly
  <2> QED
    BY <1>2, <2>1, <2>2, <2>3 DEF Agree, WrittenOnly
<1>4. CASE t2.open /\ f \in ToSet(l2.songs)
  <2>1. Saved(l2, t2, f) = Refreshed(l2, t2, f)
    BY <1>4 DEF Saved
  <2>2. PICK r \in Seq(Files) :
          /\ Refreshed(l2, t2, f) = [t2 EXCEPT !.rows = r]
          /\ Once(r)
          /\ \A x : x \in ToSet(r) <=> (x \in ToSet(t2.rows) /\ x # f) \/ (x = f /\ Accepts(l2, t2, f))
    BY <1>2, RefreshedRow
  <2> DEFINE t3 == [t2 EXCEPT !.rows = r]
  <2>3. /\ t3 \in TableStates /\ t3.rows = r /\ t3.open = t2.open /\ t3.flt = t2.flt
        /\ t3.search = t2.search /\ t3.total = t2.total /\ t3.written = t2.written
    BY <2>2 DEF TableStates
  <2> HIDE DEF t3
  <2>4. RowsAreSongs(l2, t3)
    BY <1>1, <1>2, <1>4, <2>2, <2>3 DEF RowsAreSongs
  <2>5. t3.total = Len(l2.songs)
    BY <1>1, <1>2, <1>4, <2>3 DEF ShowsLibrary, WrittenOnly
  <2>6. t3.flt = "all" /\ t3.search = 0 => \A g : g \in ToSet(l2.songs) => g \in ToSet(t3.rows)
    <3> SUFFICES ASSUME t3.flt = "all", t3.search = 0, NEW g, g \in ToSet(l2.songs)
                 PROVE  g \in ToSet(r)
      BY <2>3
    <3>1. Accepts(l2, t2, f)
      BY <2>3, AcceptedSongs
    <3>2. g \in ToSet(t2.rows)
      BY <1>1, <1>2, <1>4, <2>3 DEF ShowsLibrary, WrittenOnly
    <3> QED
      BY <2>2, <3>1, <3>2
  <2>7. t3.flt = "noId3" => \A g \in Files : g \in t3.written /\ g \in ToSet(t3.rows) => l2.id3[g] = 0
    <3> SUFFICES ASSUME t3.flt = "noId3", NEW g \in Files, g \in t3.written, g \in ToSet(r)
                 PROVE  l2.id3[g] = 0
      BY <2>3
    <3>1. CASE g = f
      <4>1. Accepts(l2, t2, f)
        BY <2>2, <3>1
      <4> QED
        BY <2>3, <3>1, <4>1, AcceptedSongs
    <3>2. CASE g # f
      <4>1. g \in ToSet(t.rows) /\ g \in t.written /\ l2.id3[g] = l.id3[g]
        BY <1>2, <2>2, <2>3, <3>2 DEF SameBut, WrittenOnly
      <4> QED
        BY <1>1, <1>4, <2>3, <4>1 DEF ShowsLibrary, WrittenOnly
    <3> QED
      BY <3>1, <3>2
  <2>8. ShowsLibrary(l2, t3)
    BY <2>5, <2>6, <2>7 DEF ShowsLibrary
  <2>9. Agree(l2, t3)
    BY <1>2, <2>3, <2>4, <2>8 DEF Agree
  <2> QED
    BY <2>1, <2>2, <2>3, <2>9 DEF t3, WrittenOnly
<1> QED
  BY <1>3, <1>4

(* After another filter or search text has been applied, they agree. *)
LEMMA RefilteredAgrees ==
  ASSUME NEW l \in LibStates, Once(l.songs), NEW t \in TableStates, RowsAreSongs(l, t)
  PROVE  Agree(l, Refiltered(l, t)) /\ Refiltered(l, t).open = t.open
<1> DEFINE songs == l.songs
           rows == t.rows
           accepted == {f \in Files : Accepts(l, t, f)}
           kept == Among(rows, accepted)
           new == Among(songs, accepted \ ToSet(rows))
           r == AllPlaced(l, t, kept, new)
           t2 == [t EXCEPT !.rows = r, !.written = {}]
           t3 == [t2 EXCEPT !.total = Len(songs)]
<1>1. songs \in Seq(Files) /\ Once(songs) /\ rows \in Seq(Files) /\ Once(rows)
      /\ \A f : f \in ToSet(rows) => f \in ToSet(songs)
  BY DEF LibStates, TableStates, RowsAreSongs
<1>2. Refiltered(l, t) = t3
  BY DEF Refiltered, WithStats
<1>3. Len(songs) \in Nat /\ \A f : f \in ToSet(songs) => f \in Files
  BY <1>1 DEF ToSet
<1>4. \A f : f \in accepted <=> f \in Files /\ Accepts(l, t, f)
  OBVIOUS
<1> HIDE DEF songs, rows, accepted
<1>5. kept \in Seq(Files) /\ Once(kept) /\ \A f : f \in ToSet(kept) <=> f \in ToSet(rows) /\ f \in accepted
  BY <1>1, AmongElements
<1>6. new \in Seq(Files) /\ Once(new)
      /\ \A f : f \in ToSet(new) <=> f \in ToSet(songs) /\ f \in accepted \ ToSet(rows)
  BY <1>1, AmongElements
<1> HIDE DEF kept, new
<1>7. \A f : ~(f \in ToSet(kept) /\ f \in ToSet(new))
  BY <1>5, <1>6
<1>8. r \in Seq(Files) /\ Once(r) /\ \A f : f \in ToSet(r) <=> f \in ToSet(kept) \/ f \in ToSet(new)
  BY <1>5, <1>6, <1>7, AllArePlaced
<1> HIDE DEF r
<1>9. /\ t3 \in TableStates /\ t3.rows = r /\ t3.open = t.open /\ t3.flt = t.flt /\ t3.search = t.search
      /\ t3.total = Len(songs) /\ t3.written = {}
  BY <1>3, <1>8 DEF TableStates
<1> HIDE DEF t3
<1>10. \A f : f \in ToSet(r) => f \in ToSet(songs)
  BY <1>1, <1>5, <1>6, <1>8
<1>11. t.flt = "all" /\ t.search = 0 => \A f : f \in ToSet(songs) => f \in ToSet(r)
  <2> SUFFICES ASSUME t.flt = "all", t.search = 0, NEW f, f \in ToSet(songs)
               PROVE  f \in ToSet(r)
    OBVIOUS
  <2>1. f \in accepted
    BY <1>3, <1>4, AcceptedSongs
  <2> QED
    BY <1>5, <1>6, <1>8, <2>1
<1>12. Agree(l, t3)
  BY <1>1, <1>8, <1>9, <1>10, <1>11 DEF Agree, RowsAreSongs, ShowsLibrary, songs
<1> QED
  BY <1>2, <1>9, <1>12

(* Sorting the table changes the order of the rows only. *)
LEMMA ResortedAgrees ==
  ASSUME NEW l, NEW t, Agree(l, t)
  PROVE  Agree(l, Resorted(l, t)) /\ Resorted(l, t).open = t.open
<1> DEFINE rows == t.rows
           r == AllPlaced(l, t, <<>>, rows)
           t2 == [t EXCEPT !.rows = r]
<1>1. rows \in Seq(Files) /\ Once(rows) /\ t \in TableStates
  BY DEF Agree, TableStates, RowsAreSongs
<1>2. Resorted(l, t) = t2
  BY DEF Resorted
<1> DEFINE none == <<>>
<1>3. none \in Seq(Files) /\ Once(none) /\ \A f : f \notin ToSet(none)
  BY DEF Once, ToSet
<1> HIDE DEF none, rows
<1> DEFINE q == AllPlaced(l, t, none, rows)
<1>4. q \in Seq(Files) /\ Once(q) /\ \A f : f \in ToSet(q) <=> f \in ToSet(none) \/ f \in ToSet(rows)
  BY <1>1, <1>3, AllArePlaced
<1>5. r = q
  BY DEF none
<1> HIDE DEF q
<1>6. r \in Seq(Files) /\ Once(r) /\ \A f : f \in ToSet(r) <=> f \in ToSet(rows)
  BY <1>3, <1>4, <1>5
<1> HIDE DEF r
<1>7. /\ t2 \in TableStates /\ t2.rows = r /\ t2.open = t.open /\ t2.flt = t.flt /\ t2.search = t.search
      /\ t2.total = t.total /\ t2.written = t.written
  BY <1>1, <1>6 DEF TableStates
<1> HIDE DEF t2
<1>8. RowsAreSongs(l, t2)
  BY <1>6, <1>7 DEF Agree, RowsAreSongs, rows
<1>9. ShowsLibrary(l, t2)
  BY <1>6, <1>7 DEF Agree, ShowsLibrary, rows
<1> QED
  BY <1>2, <1>7, <1>8, <1>9 DEF Agree

-----------------------------------------------------------------------------
(* The loops over songs and rows. *)

(* A loop that starts in V and whose steps stay there ends in V. *)
LEMMA LoopStays ==
  ASSUME NEW V, NEW n \in Nat, NEW f, f[0] \in V, \A k \in 1..n : f[k - 1] \in V => f[k] \in V
  PROVE  f[n] \in V
<1> DEFINE P == {k \in 0..n : f[k] \in V}
<1>1. 0 \in P /\ \A k \in 1..n : k - 1 \in P => k \in P
  OBVIOUS
<1> HIDE DEF P
<1>2. \A k \in 0..n : k \in P
  BY <1>1, CountInduction
<1> QED
  BY <1>2 DEF P

(* One song leaves the library and the table. *)
SongRemoved(s, l, t, f, deleted) ==
  /\ s = [l |-> s.l, t |-> s.t]
  /\ Agree(s.l, s.t) /\ s.t.open = t.open
  /\ \A x : x \in ToSet(s.l.songs) <=> x \in ToSet(l.songs) /\ x # f
  /\ \A g \in Files : s.l.disk[g] = IF g \in deleted /\ g = f THEN Gone ELSE l.disk[g]

LEMMA RemovedSong ==
  ASSUME NEW l, NEW t, Agree(l, t), NEW f \in Files, NEW deleted
  PROVE  SongRemoved(RemoveSong([l |-> l, t |-> t], f, deleted), l, t, f, deleted)
<1> DEFINE songs == Without(l.songs, f)
           rows == Without(t.rows, f)
           l2 == [l EXCEPT !.songs = songs, !.disk[f] = IF f \in deleted THEN Gone ELSE @]
           t1 == [t EXCEPT !.rows = rows]
           t2 == IF t.open THEN [t1 EXCEPT !.total = Len(songs)] ELSE t1
<1>1. l \in LibStates /\ Once(l.songs) /\ t \in TableStates /\ RowsAreSongs(l, t) /\ ShowsLibrary(l, t)
  BY DEF Agree
<1>2. songs \in Seq(Files) /\ Once(songs) /\ \A x : x \in ToSet(songs) <=> x \in ToSet(l.songs) /\ x # f
  <2>1. l.songs \in Seq(Files) /\ Once(l.songs)
    BY <1>1 DEF LibStates
  <2> QED
    BY <2>1, WithoutElement
<1>3. rows \in Seq(Files) /\ Once(rows) /\ \A x : x \in ToSet(rows) <=> x \in ToSet(t.rows) /\ x # f
  <2>1. t.rows \in Seq(Files) /\ Once(t.rows)
    BY <1>1 DEF TableStates, RowsAreSongs
  <2> QED
    BY <2>1, WithoutElement
<1> HIDE DEF songs, rows
<1>4. /\ l2 \in LibStates /\ l2.songs = songs /\ l2.id3 = l.id3
      /\ \A g \in Files : l2.disk[g] = IF g \in deleted /\ g = f THEN Gone ELSE l.disk[g]
  BY <1>1, <1>2 DEF LibStates
<1> HIDE DEF l2
<1>5. t1 \in TableStates /\ t1.open = t.open
  BY <1>1, <1>3 DEF TableStates
<1>6. /\ t2 \in TableStates /\ t2.rows = rows /\ t2.open = t.open /\ t2.flt = t.flt /\ t2.search = t.search
      /\ t2.written = t.written /\ (t.open => t2.total = Len(songs))
  <2>1. Len(songs) \in Nat
    BY <1>2
  <2> QED
    BY <1>1, <1>3, <2>1 DEF TableStates
<1>7. RemoveSong([l |-> l, t |-> t], f, deleted) = [l |-> l2, t |-> t2]
  <2>1. [l |-> l, t |-> t].l = l /\ [l |-> l, t |-> t].t = t
    OBVIOUS
  <2>2. l2.songs = songs
    BY <1>4
  <2> QED
    BY <1>5, <2>1, <2>2 DEF RemoveSong, WithStats, l2, songs, rows
<1> HIDE DEF t2
<1>8. RowsAreSongs(l2, t2)
  BY <1>1, <1>2, <1>3, <1>4, <1>6 DEF RowsAreSongs
<1>9. ShowsLibrary(l2, t2)
  BY <1>1, <1>2, <1>3, <1>4, <1>6 DEF ShowsLibrary
<1>10. Agree(l2, t2)
  BY <1>2, <1>4, <1>6, <1>8, <1>9 DEF Agree
<1> QED
  BY <1>2, <1>4, <1>6, <1>7, <1>10 DEF SongRemoved

(* The songs that were asked about leave the library, one after another, and no other does. *)
LEMMA RemovedSongs ==
  ASSUME NEW l, NEW t, Agree(l, t), NEW fs \in Seq(Files), NEW deleted
  PROVE  LET s == RemoveAll([l |-> l, t |-> t], fs, deleted)
         IN  /\ Agree(s.l, s.t) /\ s.t.open = t.open
             /\ \A x : x \in ToSet(s.l.songs) <=> x \in ToSet(l.songs) /\ x \notin ToSet(fs)
             /\ \A g \in Files : s.l.disk[g] = IF g \in deleted /\ g \in ToSet(fs) THEN Gone ELSE l.disk[g]
<1> DEFINE base == [l |-> l, t |-> t]
           N == Len(fs)
           V == {s \in [l : LibStates, t : TableStates] : Agree(s.l, s.t)}
           F(f) == [n \in 0..N |-> IF n = 0 THEN base ELSE RemoveSong(f[n - 1], fs[n], deleted)]
           Removed == CHOOSE f : f = F(f)
           First(k) == {fs[j] : j \in 1..k}
           Ok(k, s) == /\ s \in V /\ s.t.open = t.open
                       /\ \A x : x \in ToSet(s.l.songs) <=> x \in ToSet(l.songs) /\ x \notin First(k)
                       /\ \A g \in Files : s.l.disk[g] = IF g \in deleted /\ g \in First(k) THEN Gone ELSE l.disk[g]
<1>1. RemoveAll([l |-> l, t |-> t], fs, deleted) = Removed[N]
  BY DEF RemoveAll
<1>2. N \in Nat /\ (\A k \in 1..N : fs[k] \in Files) /\ ToSet(fs) = First(N)
  BY DEF ToSet
<1> HIDE DEF N
<1>3. base \in V /\ base.l = l /\ base.t = t
  BY DEF Agree
<1>4. ASSUME NEW s \in V, NEW f \in Files
      PROVE  LET r == RemoveSong(s, f, deleted)
             IN  /\ r \in V /\ r.t.open = s.t.open
                 /\ \A x : x \in ToSet(r.l.songs) <=> x \in ToSet(s.l.songs) /\ x # f
                 /\ \A g \in Files : r.l.disk[g] = IF g \in deleted /\ g = f THEN Gone ELSE s.l.disk[g]
  <2> DEFINE r == RemoveSong(s, f, deleted)
  <2>1. s = [l |-> s.l, t |-> s.t] /\ Agree(s.l, s.t)
    OBVIOUS
  <2> DEFINE sl == s.l  st == s.t  q == RemoveSong([l |-> sl, t |-> st], f, deleted)
  <2>2. q = r
    BY <2>1
  <2>3. Agree(sl, st)
    BY <2>1
  <2> HIDE DEF sl, st
  <2>4. SongRemoved(q, sl, st, f, deleted)
    BY <2>3, RemovedSong
  <2> USE DEF SongRemoved
  <2> HIDE DEF q, r
  <2>5. q.l \in LibStates /\ q.t \in TableStates
    BY <2>4 DEF Agree
  <2>6. q \in V
    BY <2>4, <2>5
  <2> HIDE DEF V
  <2> QED
    BY <2>2, <2>4, <2>6 DEF r, sl, st
<1> HIDE DEF V, base
<1>5. \E f : f = F(f)
  <2> DEFINE step == [x \in (1..N) \X V |-> RemoveSong(x[2], fs[x[1]], deleted)]
  <2>1. step \in [(1..N) \X V -> V]
    BY <1>2, <1>4
  <2>2. \A k \in 1..N, s \in V : step[<<k, s>>] = RemoveSong(s, fs[k], deleted)
    OBVIOUS
  <2> HIDE DEF step
  <2>3. Recursion(V, 0, N, base, step)
    BY <1>2, <1>3, <2>1 DEF Recursion
  <2>4. PICK f : Follows(f, V, 0, N, base, step)
    BY <2>3, RecursionExists
  <2>5. f \in [0..N -> V] /\ \A k \in 0..N : f[k] = IF k = 0 THEN base ELSE step[<<k, f[k - 1]>>]
    BY <2>4 DEF Follows
  <2>6. \A k \in 0..N : k # 0 => k \in 1..N /\ k - 1 \in 0..N
    BY <1>2
  <2>7. \A k \in 0..N : f[k] = IF k = 0 THEN base ELSE RemoveSong(f[k - 1], fs[k], deleted)
    BY <2>5, <2>6, <2>2
  <2>8. f = F(f)
    BY <2>5, <2>7
  <2> QED
    BY <2>8
<1>6. Removed = F(Removed)
  BY <1>5
<1> HIDE DEF Removed
<1>7. Removed[0] = base /\ \A k \in 1..N : Removed[k] = RemoveSong(Removed[k - 1], fs[k], deleted)
  <2>1. 0 \in 0..N /\ \A k \in 1..N : k \in 0..N /\ k # 0
    BY <1>2
  <2>2. \A k \in 0..N : Removed[k] = IF k = 0 THEN base ELSE RemoveSong(Removed[k - 1], fs[k], deleted)
    BY <1>6
  <2> QED
    BY <2>1, <2>2
<1> DEFINE P == {k \in 0..N : Ok(k, Removed[k])}
<1>8. 0 \in P
  <2>1. First(0) = {} /\ 0 \in 0..N
    BY <1>2
  <2> QED
    BY <1>3, <1>7, <2>1
<1>9. ASSUME NEW k \in 1..N, k - 1 \in P
      PROVE  k \in P
  <2>1. k \in 0..N /\ k \in Nat /\ 1..k = 1..(k - 1) \cup {k} /\ fs[k] \in Files
    BY <1>2
  <2>2. \A x : x \in First(k) <=> x \in First(k - 1) \/ x = fs[k]
    BY <2>1
  <2> HIDE DEF First
  <2> DEFINE s == Removed[k - 1]
             r == RemoveSong(s, fs[k], deleted)
  <2>3. Ok(k - 1, s) /\ Removed[k] = r
    BY <1>7, <1>9
  <2> HIDE DEF s
  <2>4. /\ r \in V /\ r.t.open = s.t.open
        /\ \A x : x \in ToSet(r.l.songs) <=> x \in ToSet(s.l.songs) /\ x # fs[k]
        /\ \A g \in Files : r.l.disk[g] = IF g \in deleted /\ g = fs[k] THEN Gone ELSE s.l.disk[g]
    BY <1>4, <2>1, <2>3
  <2> HIDE DEF r
  <2>5. Ok(k, r)
    BY <2>2, <2>3, <2>4
  <2> QED
    BY <2>1, <2>3, <2>5
<1>10. Ok(N, Removed[N])
  <2> HIDE DEF P
  <2>1. \A k \in 0..N : k \in P
    BY <1>2, <1>8, <1>9, CountInduction
  <2>2. N \in 0..N
    BY <1>2
  <2> QED
    BY <2>1, <2>2 DEF P
<1>11. Removed[N] \in V => Agree(Removed[N].l, Removed[N].t)
  BY DEF V
<1> QED
  BY <1>1, <1>2, <1>10, <1>11

(* What is being done to the selected rows, or to the duplicates, leaves the songs of the    *)
(* library and the files on the disk there, and the table agrees with the library after each *)
(* of them.                                                                                  *)
SameSongs(s, l, t) ==
  /\ Agree(s.l, s.t) /\ s.l.songs = l.songs /\ s.t.open = t.open
  /\ \A g \in Files : s.l.disk[g] = Gone => l.disk[g] = Gone

(* What is left of a loop, once its end is known. *)
LoopEnds(l, t) ==
  /\ Agree(l, t) /\ l.songs = lib.songs /\ t.open = tbl.open
  /\ \A g \in Files : l.disk[g] = Gone => lib.disk[g] = Gone

(* A row that is rated, and saved. *)
LEMMA RatedRow ==
  ASSUME NEW l, NEW t, NEW s \in [l : LibStates, t : TableStates], SameSongs(s, l, t),
         NEW row \in Nat \ {0}, NEW rating \in 0..MaxRating
  PROVE  RateRow(s, row, rating) \in [l : LibStates, t : TableStates] /\ SameSongs(RateRow(s, row, rating), l, t)
<1>1. CASE row > Len(s.t.rows)
  BY <1>1 DEF RateRow
<1>2. CASE ~(row > Len(s.t.rows))
  <2> DEFINE f == s.t.rows[row]
             l2 == [s.l EXCEPT !.rating[HashOf[f]] = rating]
             t2 == Saved(l2, s.t, f)
  <2>1. s.l \in LibStates /\ s.t \in TableStates /\ s.t.rows \in Seq(Files) /\ Agree(s.l, s.t)
    BY DEF TableStates, SameSongs
  <2>2. f \in Files /\ HashOf[f] \in Hashes
    BY <1>2, <2>1 DEF Hashes
  <2> HIDE DEF f
  <2>3. l2 \in LibStates /\ l2.songs = s.l.songs /\ l2.id3 = s.l.id3 /\ l2.disk = s.l.disk
    BY <2>1, <2>2 DEF LibStates
  <2> HIDE DEF l2
  <2>4. Agree(l2, t2) /\ t2.open = s.t.open
    <3>1. SameBut(s.l, l2, f) /\ WrittenOnly(s.t, s.t, f)
      BY <2>3 DEF SameBut, WrittenOnly
    <3> QED
      BY <2>1, <2>2, <2>3, <3>1, SavedAgrees
  <2> HIDE DEF t2
  <2>5. RateRow(s, row, rating) = [s EXCEPT !.l = l2, !.t = t2]
    BY <1>2 DEF RateRow, l2, t2, f
  <2>6. t2 \in TableStates
    BY <2>4 DEF Agree
  <2> DEFINE r == [s EXCEPT !.l = l2, !.t = t2]
  <2>7. r \in [l : LibStates, t : TableStates] /\ r.l = l2 /\ r.t = t2
    BY <2>3, <2>6
  <2> HIDE DEF r
  <2> QED
    BY <2>3, <2>4, <2>5, <2>7 DEF SameSongs, r
<1> QED
  BY <1>1, <1>2

LEMMA RatedRows ==
  ASSUME Agree(lib, tbl), NEW sel \in Seq(Nat \ {0}), NEW rating \in 0..MaxRating, RateSelected(sel, rating)
  PROVE  LoopEnds(lib', tbl')
<1> DEFINE base == [l |-> lib, t |-> tbl]
           N == Len(sel)
           V == {s \in [l : LibStates, t : TableStates] : SameSongs(s, lib, tbl)}
           F(f) == [n \in 0..N |-> IF n = 0 THEN base ELSE RateRow(f[n - 1], sel[n], rating)]
           Loop == CHOOSE f : f = F(f)
<1>1. lib' = Loop[N].l /\ tbl' = Loop[N].t
  BY DEF RateSelected
<1>2. N \in Nat /\ \A k \in 1..N : sel[k] \in Nat \ {0}
  OBVIOUS
<1> HIDE DEF N
<1>3. base \in V
  BY DEF Agree, SameSongs
<1>4. \A s \in V, row \in Nat \ {0} : RateRow(s, row, rating) \in V
  BY RatedRow
<1>5. \A s \in V : SameSongs(s, lib, tbl)
  OBVIOUS
<1> HIDE DEF V, base
<1>6. \E f : f = F(f)
  <2> DEFINE step == [x \in (1..N) \X V |-> RateRow(x[2], sel[x[1]], rating)]
  <2>1. step \in [(1..N) \X V -> V]
    BY <1>2, <1>4
  <2>2. \A k \in 1..N, s \in V : step[<<k, s>>] = RateRow(s, sel[k], rating)
    OBVIOUS
  <2> HIDE DEF step
  <2>3. Recursion(V, 0, N, base, step)
    BY <1>2, <1>3, <2>1 DEF Recursion
  <2>4. PICK f : Follows(f, V, 0, N, base, step)
    BY <2>3, RecursionExists
  <2>5. f \in [0..N -> V] /\ \A k \in 0..N : f[k] = IF k = 0 THEN base ELSE step[<<k, f[k - 1]>>]
    BY <2>4 DEF Follows
  <2>6. \A k \in 0..N : k # 0 => k \in 1..N /\ k - 1 \in 0..N
    BY <1>2
  <2>7. \A k \in 0..N : f[k] = IF k = 0 THEN base ELSE RateRow(f[k - 1], sel[k], rating)
    BY <2>2, <2>5, <2>6
  <2>8. f = F(f)
    BY <2>5, <2>7
  <2> QED
    BY <2>8
<1>7. Loop = F(Loop)
  BY <1>6
<1> HIDE DEF Loop
<1>8. Loop[0] = base /\ \A k \in 1..N : Loop[k] = RateRow(Loop[k - 1], sel[k], rating)
  <2>1. 0 \in 0..N /\ \A k \in 1..N : k \in 0..N /\ k # 0
    BY <1>2
  <2>2. \A k \in 0..N : Loop[k] = IF k = 0 THEN base ELSE RateRow(Loop[k - 1], sel[k], rating)
    BY <1>7
  <2> QED
    BY <2>1, <2>2
<1>9. Loop[N] \in V
  <2>1. Loop[0] \in V /\ \A k \in 1..N : Loop[k - 1] \in V => Loop[k] \in V
    BY <1>2, <1>3, <1>4, <1>8
  <2> QED
    BY <1>2, <2>1, LoopStays
<1> QED
  BY <1>1, <1>9, <1>5 DEF SameSongs, LoopEnds

(* A row whose manual tag is moved to its file, and saved. *)
LEMMA MovedRow ==
  ASSUME NEW l, NEW t, NEW s \in [l : LibStates, t : TableStates, bad : BOOLEAN], SameSongs(s, l, t),
         NEW row \in Nat \ {0}, NEW writable
  PROVE  /\ MoveRow(s, row, writable) \in [l : LibStates, t : TableStates, bad : BOOLEAN]
         /\ SameSongs(MoveRow(s, row, writable), l, t)
<1>1. CASE s.bad \/ row > Len(s.t.rows)
  BY <1>1 DEF MoveRow, SameSongs
<1>2. CASE ~(s.bad \/ row > Len(s.t.rows))
  <2> DEFINE f == s.t.rows[row]
             manual == s.l.manual[HashOf[f]]
             tag == IF manual # 0 THEN manual ELSE s.l.disk[f]
             l2 == [s.l EXCEPT !.id3[f] = tag, !.manual[HashOf[f]] = 0,
                               !.disk[f] = IF f \in writable THEN tag ELSE @]
             t1 == [s.t EXCEPT !.written = @ \cup {f}]
             t2 == Saved(l2, t1, f)
  <2>1. s.l \in LibStates /\ s.t \in TableStates /\ s.t.rows \in Seq(Files) /\ Agree(s.l, s.t)
    BY DEF TableStates, SameSongs
  <2>2. f \in Files /\ HashOf[f] \in Hashes
    BY <1>2, <2>1 DEF Hashes
  <2> HIDE DEF f
  <2>3. CASE s.l.disk[f] = Gone
    BY <1>2, <2>3 DEF MoveRow, f
  <2>4. CASE s.l.disk[f] # Gone
    <3>1. tag \in Tags
      BY <2>1, <2>2, <2>4 DEF LibStates
    <3> HIDE DEF tag
    <3>2. 0 \in Tags
      BY SongTableAssumption DEF Tags
    <3>3. /\ l2 \in LibStates /\ l2.songs = s.l.songs /\ \A g \in Files : g # f => l2.id3[g] = s.l.id3[g]
          /\ \A g \in Files : l2.disk[g] = Gone => s.l.disk[g] = Gone
      <4>1. tag # Gone
        BY <3>1 DEF Tags, Gone
      <4> QED
        BY <2>1, <2>2, <3>1, <3>2, <4>1 DEF LibStates
    <3>4. t1 \in TableStates /\ WrittenOnly(s.t, t1, f)
      BY <2>1, <2>2 DEF TableStates, WrittenOnly
    <3>5. MoveRow(s, row, writable) = [s EXCEPT !.l = l2, !.t = t2]
      BY <1>2, <2>4 DEF MoveRow, f, tag
    <3> HIDE DEF l2, t1
    <3>6. Agree(l2, t2) /\ t2.open = s.t.open
      <4>1. SameBut(s.l, l2, f)
        BY <3>3 DEF SameBut
      <4> QED
        BY <2>1, <2>2, <3>3, <3>4, <4>1, SavedAgrees
    <3> HIDE DEF t2
    <3>7. t2 \in TableStates
      BY <3>6 DEF Agree
    <3> DEFINE r == [s EXCEPT !.l = l2, !.t = t2]
    <3>8. r \in [l : LibStates, t : TableStates, bad : BOOLEAN] /\ r.l = l2 /\ r.t = t2
      BY <3>3, <3>7
    <3> HIDE DEF r
    <3> QED
      BY <3>3, <3>5, <3>6, <3>8 DEF SameSongs, r
  <2> QED
    BY <2>3, <2>4
<1> QED
  BY <1>1, <1>2

LEMMA MovedRows ==
  ASSUME Agree(lib, tbl), NEW sel \in Seq(Nat \ {0}), NEW writable, MoveManualToId3(sel, writable)
  PROVE  LoopEnds(lib', tbl')
<1> DEFINE base == [l |-> lib, t |-> tbl, bad |-> FALSE]
           N == Len(sel)
           V == {s \in [l : LibStates, t : TableStates, bad : BOOLEAN] : SameSongs(s, lib, tbl)}
           F(f) == [n \in 0..N |-> IF n = 0 THEN base ELSE MoveRow(f[n - 1], sel[n], writable)]
           Loop == CHOOSE f : f = F(f)
<1>1. lib' = Loop[N].l /\ tbl' = Loop[N].t
  BY DEF MoveManualToId3
<1>2. N \in Nat /\ \A k \in 1..N : sel[k] \in Nat \ {0}
  OBVIOUS
<1> HIDE DEF N
<1>3. base \in V
  BY DEF Agree, SameSongs
<1>4. \A s \in V, row \in Nat \ {0} : MoveRow(s, row, writable) \in V
  BY MovedRow
<1>5. \A s \in V : SameSongs(s, lib, tbl)
  OBVIOUS
<1> HIDE DEF V, base
<1>6. \E f : f = F(f)
  <2> DEFINE step == [x \in (1..N) \X V |-> MoveRow(x[2], sel[x[1]], writable)]
  <2>1. step \in [(1..N) \X V -> V]
    BY <1>2, <1>4
  <2>2. \A k \in 1..N, s \in V : step[<<k, s>>] = MoveRow(s, sel[k], writable)
    OBVIOUS
  <2> HIDE DEF step
  <2>3. Recursion(V, 0, N, base, step)
    BY <1>2, <1>3, <2>1 DEF Recursion
  <2>4. PICK f : Follows(f, V, 0, N, base, step)
    BY <2>3, RecursionExists
  <2>5. f \in [0..N -> V] /\ \A k \in 0..N : f[k] = IF k = 0 THEN base ELSE step[<<k, f[k - 1]>>]
    BY <2>4 DEF Follows
  <2>6. \A k \in 0..N : k # 0 => k \in 1..N /\ k - 1 \in 0..N
    BY <1>2
  <2>7. \A k \in 0..N : f[k] = IF k = 0 THEN base ELSE MoveRow(f[k - 1], sel[k], writable)
    BY <2>2, <2>5, <2>6
  <2>8. f = F(f)
    BY <2>5, <2>7
  <2> QED
    BY <2>8
<1>7. Loop = F(Loop)
  BY <1>6
<1> HIDE DEF Loop
<1>8. Loop[0] = base /\ \A k \in 1..N : Loop[k] = MoveRow(Loop[k - 1], sel[k], writable)
  <2>1. 0 \in 0..N /\ \A k \in 1..N : k \in 0..N /\ k # 0
    BY <1>2
  <2>2. \A k \in 0..N : Loop[k] = IF k = 0 THEN base ELSE MoveRow(Loop[k - 1], sel[k], writable)
    BY <1>7
  <2> QED
    BY <2>1, <2>2
<1>9. Loop[N] \in V
  <2>1. Loop[0] \in V /\ \A k \in 1..N : Loop[k - 1] \in V => Loop[k] \in V
    BY <1>2, <1>3, <1>4, <1>8
  <2> QED
    BY <1>2, <2>1, LoopStays
<1> QED
  BY <1>1, <1>9, <1>5 DEF SameSongs, LoopEnds

-----------------------------------------------------------------------------
(* The dialog of the properties. *)

Messages == {"none", "readOnly", "damaged", "noBackup"}

Dialogs ==
  [open : BOOLEAN, song : Files \cup {0}, shown : Files \cup {0}, dups : Seq(Files), list : Seq(Files), row : Nat,
   orig : {<<>>} \cup [Files -> Tags \cup {Gone}], changes : {<<>>} \cup [Files -> Tags \cup {NoChange}],
   manual : Tags, hash : Hashes \cup {0}, rowLost : BOOLEAN, message : Messages, at : Nat]

(* The widget's list is the dialog's, its files are songs of the library, and unless the     *)
(* row was lost in a deletion, the file in the current row is the current one and shown.  A  *)
(* message is shown over the open dialog only, one about damage is about one of its rows.    *)
DialogRight(l, p) ==
  /\ p.message # "none" => p.open
  /\ p.open =>
     /\ p.orig \in [Files -> Tags \cup {Gone}] /\ p.changes \in [Files -> Tags \cup {NoChange}] /\ p.hash \in Hashes
     /\ p.list = p.dups /\ Once(p.dups) /\ \A f : f \in ToSet(p.dups) => f \in ToSet(l.songs)
     /\ p.row \in 0..Len(p.dups)
     /\ ~p.rowLost /\ p.row # 0 => p.song = p.list[p.row] /\ p.shown = p.song
     /\ p.message = "damaged" => p.at \in 1..Len(p.dups)

(* In the dialog q only another file than in p is selected. *)
SelectedOnly(p, q) ==
  /\ q.open = p.open /\ q.dups = p.dups /\ q.list = p.list /\ q.orig = p.orig /\ q.changes = p.changes
  /\ q.manual = p.manual /\ q.hash = p.hash /\ q.rowLost = p.rowLost
  /\ q.message = p.message /\ q.at = p.at

(* Selecting a song. *)
LEMMA SelectedSong ==
  ASSUME NEW p \in Dialogs, Once(p.list), NEW song \in Files
  PROVE  LET q == SelectSong(p, song)
         IN  /\ q \in Dialogs /\ SelectedOnly(p, q) /\ q.song = song
             /\ q.row \in 0..Len(p.list)
             /\ \A i \in 1..Len(p.list) : p.list[i] = song => q.row = i
<1>1. p.list \in Seq(Files)
  BY DEF Dialogs
<1> DEFINE at == PlaceIn(p.list, song)
<1>2. SelectSong(p, song) = [p EXCEPT !.song = song, !.row = at]
  BY DEF SelectSong, RowOf, SelectInSeq, PlaceIn
<1>3. at \in 0..Len(p.list) /\ \A i \in 1..Len(p.list) : p.list[i] = song => at = i
  BY <1>1, PlaceOfElement
<1>4. Len(p.list) \in Nat
  BY <1>1
<1> HIDE DEF at
<1>5. at \in Nat
  BY <1>3, <1>4
<1> DEFINE q == [p EXCEPT !.song = song, !.row = at]
<1>6. q \in Dialogs /\ SelectedOnly(p, q) /\ q.song = song /\ q.row = at
  BY <1>5 DEF Dialogs, SelectedOnly
<1> HIDE DEF q
<1> QED
  BY <1>2, <1>3, <1>6 DEF q

(* Whatever the nested calls keep holds after them. *)
LEMMA CallsKeep ==
  ASSUME NEW p, p.list \in Seq(Files), NEW V, p \in V,
         \A q \in V : q.row \in Rows(q) => SelectSong(q, q.dups[q.row]) \in V
  PROVE  NestedCalls(p) \in V
<1> DEFINE base == p
           N == Len(p.list)
           Call(q) == IF q.row \in Rows(q) THEN SelectSong(q, q.dups[q.row]) ELSE q
           F(f) == [n \in 0..N |-> IF n = 0 THEN base ELSE LET q == f[n - 1] IN IF q.row \in Rows(q) THEN SelectSong(q, q.dups[q.row]) ELSE q]
           Loop == CHOOSE f : f = F(f)
<1>1. NestedCalls(p) = Loop[N]
  BY DEF NestedCalls
<1>2. N \in Nat
  OBVIOUS
<1> HIDE DEF N
<1>3. base \in V
  OBVIOUS
<1>4. \A q \in V : Call(q) \in V
  OBVIOUS
<1>5. \A f : F(f) = [n \in 0..N |-> IF n = 0 THEN base ELSE Call(f[n - 1])]
  OBVIOUS
<1> HIDE DEF base, Call, F
<1>6. \E f : f = F(f)
  <2> DEFINE step == [x \in (1..N) \X V |-> Call(x[2])]
  <2>1. step \in [(1..N) \X V -> V]
    BY <1>2, <1>4
  <2>2. \A k \in 1..N, s \in V : step[<<k, s>>] = Call(s)
    OBVIOUS
  <2> HIDE DEF step
  <2>3. Recursion(V, 0, N, base, step)
    BY <1>2, <1>3, <2>1 DEF Recursion
  <2>4. PICK f : Follows(f, V, 0, N, base, step)
    BY <2>3, RecursionExists
  <2>5. f \in [0..N -> V] /\ \A k \in 0..N : f[k] = IF k = 0 THEN base ELSE step[<<k, f[k - 1]>>]
    BY <2>4 DEF Follows
  <2>6. \A k \in 0..N : k # 0 => k \in 1..N /\ k - 1 \in 0..N
    BY <1>2
  <2>7. \A k \in 0..N : f[k] = IF k = 0 THEN base ELSE Call(f[k - 1])
    BY <2>2, <2>5, <2>6
  <2>8. f = F(f)
    BY <1>5, <2>5, <2>7
  <2> QED
    BY <2>8
<1>7. Loop = F(Loop)
  BY <1>6
<1> HIDE DEF Loop
<1>8. Loop[0] = base /\ \A k \in 1..N : Loop[k] = Call(Loop[k - 1])
  <2>1. 0 \in 0..N /\ \A k \in 1..N : k \in 0..N /\ k # 0
    BY <1>2
  <2>2. \A k \in 0..N : Loop[k] = IF k = 0 THEN base ELSE Call(Loop[k - 1])
    BY <1>7, <1>5
  <2> QED
    BY <2>1, <2>2
<1>9. Loop[N] \in V
  <2>1. Loop[0] \in V /\ \A k \in 1..N : Loop[k - 1] \in V => Loop[k] \in V
    BY <1>2, <1>3, <1>4, <1>8
  <2> QED
    BY <1>2, <2>1, LoopStays
<1> QED
  BY <1>1, <1>9

(* A row that becomes current: its file is shown, and if the widget has the same file in     *)
(* this row it is the current one.                                                           *)
LEMMA SwitchedDuplicate ==
  ASSUME NEW p \in Dialogs, Once(p.list), NEW row \in Rows(p)
  PROVE  LET q == SwitchDuplicate(p, row)
         IN  /\ q \in Dialogs /\ SelectedOnly(p, q) /\ q.row \in 0..Len(p.list)
             /\ q.shown = p.dups[row]
             /\ row <= Len(p.list) /\ p.list[row] = p.dups[row] => q.row = row /\ q.song = p.dups[row]
<1> DEFINE song == p.dups[row]
           selected == SelectSong(p, song)
           called == IF selected.row = p.row THEN selected ELSE NestedCalls(selected)
           q == [called EXCEPT !.shown = song]
<1>1. song \in Files /\ p.list \in Seq(Files) /\ Len(p.list) \in Nat /\ row \in Nat /\ row >= 1 /\ row <= Len(p.dups)
  BY DEF Dialogs, Rows
<1>2. SwitchDuplicate(p, row) = q
  BY DEF SwitchDuplicate
<1> HIDE DEF song
<1>3. /\ selected \in Dialogs /\ SelectedOnly(p, selected) /\ selected.song = song
      /\ selected.row \in 0..Len(p.list)
      /\ \A i \in 1..Len(p.list) : p.list[i] = song => selected.row = i
  BY <1>1, SelectedSong
<1> HIDE DEF selected
<1> DEFINE V == {d \in Dialogs : SelectedOnly(p, d) /\ d.row \in 0..Len(p.list)}
           W == {d \in V : d.row = row /\ d.song = song}
<1>4. \A d \in V : d.row \in Rows(d) => SelectSong(d, d.dups[d.row]) \in V
  <2> SUFFICES ASSUME NEW d \in V, d.row \in Rows(d)
               PROVE  SelectSong(d, d.dups[d.row]) \in V
    OBVIOUS
  <2>1. d \in Dialogs /\ SelectedOnly(p, d) /\ d.list = p.list /\ Once(d.list)
    BY DEF SelectedOnly
  <2>2. d.dups[d.row] \in Files
    BY DEF Rows, Dialogs
  <2> DEFINE x == d.dups[d.row]
             r == SelectSong(d, x)
  <2> HIDE DEF x
  <2>3. r \in Dialogs /\ SelectedOnly(d, r) /\ r.row \in 0..Len(d.list)
    BY <2>1, <2>2, SelectedSong DEF x
  <2> HIDE DEF r
  <2>4. r \in V
    BY <2>1, <2>3 DEF SelectedOnly
  <2> QED
    BY <2>4 DEF r, x
<1>5. called \in V
  <2>1. selected \in V
    BY <1>3
  <2>2. selected.list \in Seq(Files)
    BY <1>3 DEF Dialogs
  <2> HIDE DEF V
  <2> QED
    BY <1>4, <2>1, <2>2, CallsKeep
<1>6. ASSUME row <= Len(p.list), p.list[row] = song
      PROVE  called \in W
  <2>1. selected.row = row
    BY <1>1, <1>3, <1>6
  <2>2. selected \in W
    BY <1>3, <2>1
  <2>3. ASSUME NEW d \in W, d.row \in Rows(d)
        PROVE  SelectSong(d, d.dups[d.row]) \in W
    <3>1. d \in Dialogs /\ SelectedOnly(p, d) /\ d.list = p.list /\ Once(d.list) /\ d.row = row /\ d.song = song
      BY DEF SelectedOnly
    <3>2. d.dups[d.row] = song
      BY <3>1 DEF SelectedOnly, song
    <3> DEFINE r == SelectSong(d, song)
    <3>3. /\ r \in Dialogs /\ SelectedOnly(d, r) /\ r.song = song
          /\ \A i \in 1..Len(d.list) : d.list[i] = song => r.row = i
      BY <1>1, <3>1, SelectedSong
    <3> HIDE DEF r
    <3>4. row \in 1..Len(d.list) /\ d.list[row] = song
      BY <1>1, <1>6, <3>1
    <3>5. r.row = row /\ row \in 0..Len(p.list)
      BY <1>1, <1>6, <3>3, <3>4
    <3>6. r \in W
      BY <3>1, <3>3, <3>5 DEF SelectedOnly
    <3> QED
      BY <3>2, <3>6 DEF r
  <2>4. selected.list \in Seq(Files)
    BY <1>3 DEF Dialogs
  <2> HIDE DEF W
  <2> QED
    BY <2>2, <2>3, <2>4, CallsKeep
<1> HIDE DEF called
<1>7. q \in Dialogs /\ SelectedOnly(p, q) /\ q.row = called.row /\ q.song = called.song /\ q.shown = song
  BY <1>1, <1>5 DEF Dialogs, SelectedOnly
<1> HIDE DEF q
<1> QED
  BY <1>2, <1>5, <1>6, <1>7 DEF song

(* The user or the widget makes another row the current one. *)
LEMMA CurrentRowSet ==
  ASSUME NEW p \in Dialogs, Once(p.list), NEW row \in 0..Len(p.list), row # p.row
  PROVE  LET q == SetCurrentRow(p, row)
         IN  /\ q \in Dialogs /\ SelectedOnly(p, q) /\ q.row \in 0..Len(p.list)
             /\ row \notin Rows(p) => q.row = row
             /\ row \in Rows(p) /\ p.list[row] = p.dups[row] => q.row = row /\ q.song = p.dups[row] /\ q.shown = p.dups[row]
<1> DEFINE p1 == [p EXCEPT !.row = row]
           q == SwitchDuplicate(p1, row)
<1>1. SetCurrentRow(p, row) = q
  BY DEF SetCurrentRow
<1>2. Len(p.list) \in Nat /\ row \in Nat /\ row <= Len(p.list)
  BY DEF Dialogs
<1>3. p1 \in Dialogs /\ SelectedOnly(p, p1) /\ p1.row = row
  BY <1>2 DEF Dialogs, SelectedOnly
<1> HIDE DEF p1
<1>4. p1.list = p.list /\ p1.dups = p.dups /\ Rows(p1) = Rows(p) /\ Once(p1.list)
  BY <1>3 DEF SelectedOnly, Rows
<1>5. CASE row \notin Rows(p)
  <2>1. q = p1
    BY <1>4, <1>5 DEF SwitchDuplicate
  <2> HIDE DEF q
  <2> QED
    BY <1>1, <1>2, <1>3, <1>5, <2>1
<1>6. CASE row \in Rows(p)
  <2>1. /\ q \in Dialogs /\ SelectedOnly(p1, q) /\ q.row \in 0..Len(p1.list)
        /\ q.shown = p1.dups[row]
        /\ row <= Len(p1.list) /\ p1.list[row] = p1.dups[row] => q.row = row /\ q.song = p1.dups[row]
    BY <1>3, <1>4, <1>6, SwitchedDuplicate
  <2> HIDE DEF q
  <2>2. SelectedOnly(p, q)
    BY <1>3, <2>1 DEF SelectedOnly
  <2> QED
    BY <1>1, <1>2, <1>4, <1>6, <2>1, <2>2
<1> QED
  BY <1>5, <1>6

(* The current row is removed: in spite of the calls in between, what is left is a dialog    *)
(* without this file whose fields are those of its current row.                              *)
LEMMA RowRemoved ==
  ASSUME NEW l, NEW l2, NEW p \in Dialogs, p.open, p.message = "none", DialogRight(l, p), p.row \in Rows(p),
         NEW delete \in BOOLEAN,
         \A f : f \in ToSet(l2.songs) <=> f \in ToSet(l.songs) /\ f # p.dups[p.row]
  PROVE  LET q == WithoutRow(p, delete) IN q \in Dialogs /\ DialogRight(l2, q)
<1> DEFINE r == p.row
           n == Len(p.list)
           less == RemoveAt(p.list, r)
           p1 == [p EXCEPT !.dups = less]
           next == IF r < n THEN r + 1 ELSE r - 1
           q1 == SetCurrentRow(p1, next)
           at == IF q1.row > r THEN q1.row - 1 ELSE q1.row
           q2 == [q1 EXCEPT !.list = less, !.row = at]
           q3 == [q2 EXCEPT !.rowLost = TRUE]
           q4 == SwitchDuplicate(q2, 1)
<1>1. /\ p.list = p.dups /\ Once(p.dups) /\ p.list \in Seq(Files)
      /\ p.orig \in [Files -> Tags \cup {Gone}] /\ p.changes \in [Files -> Tags \cup {NoChange}] /\ p.hash \in Hashes
      /\ \A f : f \in ToSet(p.dups) => f \in ToSet(l.songs)
  BY DEF DialogRight, Dialogs
<1>2. r \in Nat /\ n \in Nat /\ 1 <= r /\ r <= n
  BY <1>1 DEF Rows
<1>3. less \in Seq(Files) /\ Len(less) = n - 1 /\ \A j \in 1..(n - 1) : less[j] = IF j < r THEN p.list[j] ELSE p.list[j + 1]
  <2> DEFINE s == p.list
  <2>1. s \in Seq(Files) /\ r \in 1..Len(s)
    BY <1>1, <1>2
  <2> HIDE DEF s, r
  <2>2. /\ RemoveAt(s, r) \in Seq(Files) /\ Len(RemoveAt(s, r)) = Len(s) - 1
        /\ \A j \in 1..(Len(s) - 1) : RemoveAt(s, r)[j] = IF j < r THEN s[j] ELSE s[j + 1]
    BY <2>1, TakenOut
  <2> QED
    BY <2>2 DEF s
<1>4. Once(less) /\ \A f : f \in ToSet(less) <=> f \in ToSet(p.list) /\ f # p.list[r]
  <2> DEFINE s == p.list
  <2>1. s \in Seq(Files) /\ Once(s) /\ r \in 1..Len(s)
    BY <1>1, <1>2
  <2> HIDE DEF s, r
  <2>2. Once(RemoveAt(s, r)) /\ ToSet(RemoveAt(s, r)) = ToSet(s) \ {s[r]}
    BY <2>1, GoneAfter
  <2>3. \A f : f \in ToSet(RemoveAt(s, r)) <=> f \in ToSet(s) /\ f # s[r]
    BY <2>2
  <2> QED
    BY <2>2, <2>3 DEF s
<1>5. WithoutRow(p, delete) = IF delete THEN q3 ELSE q4
  <2>1. [p EXCEPT !.dups = RemoveAt(@, p.row)] = p1
    BY <1>1
  <2>2. p1.list = p.list
    BY DEF Dialogs
  <2>3. WithoutRow(p, delete) = LET t == TakeItem(p1, r) IN IF delete THEN [t EXCEPT !.rowLost = TRUE] ELSE SwitchDuplicate(t, 1)
    BY <2>1 DEF WithoutRow
  <2> HIDE DEF p1
  <2>4. TakeItem(p1, r) = [q1 EXCEPT !.list = RemoveAt(@, r), !.row = IF @ > r THEN @ - 1 ELSE @]
    BY <2>2 DEF TakeItem
  <2>5. q1.list = p.list
    <3>1. p1 \in Dialogs
      BY <1>3 DEF Dialogs, p1
    <3>2. next \in 0..n /\ next # r
      BY <1>2
    <3>3. p1.row = r
      BY DEF p1, Dialogs
    <3> HIDE DEF q1, r, next
    <3>4. SelectedOnly(p1, SetCurrentRow(p1, next))
      BY <1>1, <2>2, <3>1, <3>2, <3>3, CurrentRowSet
    <3> QED
      BY <2>2, <3>4 DEF SelectedOnly, q1
  <2> HIDE DEF q1
  <2>6. TakeItem(p1, r) = q2
    BY <2>4, <2>5
  <2> HIDE DEF q2
  <2> QED
    BY <2>3, <2>6
<1> HIDE DEF less, n, r
<1>6. /\ p1 \in Dialogs /\ p1.dups = less /\ p1.list = p.list /\ p1.row = r /\ p1.open
      /\ p1.orig = p.orig /\ p1.changes = p.changes /\ p1.hash = p.hash /\ p1.message = "none"
  BY <1>3 DEF Dialogs, r
<1> HIDE DEF p1
<1>7. next \in 0..n /\ next # r /\ (r = n => next = n - 1) /\ Rows(p1) = 1..(n - 1)
  BY <1>2, <1>3, <1>6 DEF Rows
<1> HIDE DEF next
<1>8. /\ q1 \in Dialogs /\ SelectedOnly(p1, q1) /\ q1.row \in 0..n
      /\ next \notin Rows(p1) => q1.row = next
      /\ next \in Rows(p1) /\ p1.list[next] = p1.dups[next] => q1.row = next
  <2>1. next \in 0..Len(p1.list) /\ next # p1.row /\ Once(p1.list)
    BY <1>1, <1>6, <1>7 DEF n
  <2> QED
    BY <1>6, <2>1, CurrentRowSet DEF n
<1> HIDE DEF q1
<1>9. r = n => q1.row = n - 1
  <2> SUFFICES ASSUME r = n
               PROVE  q1.row = n - 1
    OBVIOUS
  <2>1. next = n - 1
    BY <1>7
  <2>2. next \in Rows(p1) => p1.list[next] = p1.dups[next]
    <3> SUFFICES ASSUME next \in Rows(p1)
                 PROVE  p1.list[next] = p1.dups[next]
      OBVIOUS
    <3>1. next \in 1..(n - 1) /\ next < r
      BY <1>2, <1>7, <2>1
    <3>2. less[next] = p.list[next]
      BY <1>3, <3>1
    <3> QED
      BY <1>6, <3>2
  <2> QED
    BY <1>8, <2>1, <2>2
<1>10. at \in 0..(n - 1)
  BY <1>2, <1>8, <1>9
<1> HIDE DEF at
<1>11. /\ q2 \in Dialogs /\ q2.list = less /\ q2.dups = less /\ q2.row = at /\ q2.open
       /\ q2.orig = p.orig /\ q2.changes = p.changes /\ q2.hash = p.hash /\ q2.message = "none"
  <2>1. at \in Nat
    BY <1>2, <1>10
  <2>2. /\ q1 \in Dialogs /\ q1.dups = less /\ q1.open /\ q1.orig = p.orig /\ q1.changes = p.changes
        /\ q1.hash = p.hash /\ q1.message = "none"
    BY <1>6, <1>8 DEF SelectedOnly
  <2> QED
    BY <1>3, <2>1, <2>2 DEF Dialogs
<1> HIDE DEF q2
<1>12. \A f : f \in ToSet(less) => f \in ToSet(l2.songs)
  BY <1>1, <1>4 DEF r
<1>13. CASE delete
  <2>1. /\ q3 \in Dialogs /\ q3.list = less /\ q3.dups = less /\ q3.row = at /\ q3.rowLost
        /\ q3.orig = p.orig /\ q3.changes = p.changes /\ q3.hash = p.hash /\ q3.message = "none"
    BY <1>11 DEF Dialogs
  <2> HIDE DEF q3
  <2>2. DialogRight(l2, q3)
    BY <1>1, <1>3, <1>4, <1>10, <1>12, <2>1 DEF DialogRight
  <2> QED
    BY <1>5, <1>13, <2>1, <2>2
<1>14. CASE ~delete
  <2>1. CASE n = 1
    <3>1. Rows(q2) = 1..0
      BY <1>3, <1>11, <2>1 DEF Rows
    <3>2. q4 = q2
      BY <3>1 DEF SwitchDuplicate
    <3>3. q2.row = 0
      BY <1>10, <1>11, <2>1
    <3>4. DialogRight(l2, q2)
      BY <1>1, <1>3, <1>4, <1>10, <1>11, <1>12, <3>3 DEF DialogRight
    <3> QED
      BY <1>5, <1>11, <1>14, <3>2, <3>4
  <2>2. CASE n # 1
    <3>1. 1 \in Rows(q2) /\ 1 <= Len(q2.list) /\ q2.list[1] = q2.dups[1] /\ Once(q2.list)
      BY <1>2, <1>3, <1>4, <1>11, <2>2 DEF Rows
    <3>2. /\ q4 \in Dialogs /\ SelectedOnly(q2, q4) /\ q4.shown = q2.dups[1]
          /\ q4.row = 1 /\ q4.song = q2.dups[1]
      BY <1>11, <3>1, SwitchedDuplicate
    <3> HIDE DEF q4
    <3>3. /\ q4.list = less /\ q4.dups = less /\ q4.song = less[1] /\ q4.shown = less[1]
          /\ q4.orig = p.orig /\ q4.changes = p.changes /\ q4.hash = p.hash /\ q4.message = "none"
      BY <1>11, <3>2 DEF SelectedOnly
    <3>4. 1 \in 0..Len(less)
      BY <1>11, <3>1
    <3>5. DialogRight(l2, q4)
      BY <1>1, <1>4, <1>12, <3>2, <3>3, <3>4 DEF DialogRight
    <3> QED
      BY <1>5, <1>14, <3>2, <3>5
  <2> QED
    BY <2>1, <2>2
<1> QED
  BY <1>13, <1>14

FilesOf(h) == {f \in Files : HashOf[f] = h}

(* The duplicates of a hash are songs of the library, each once. *)
LEMMA DuplicatesAreSongs ==
  ASSUME NEW l \in LibStates, Once(l.songs), NEW h
  PROVE  /\ Duplicates(l, h) \in Seq(Files) /\ Once(Duplicates(l, h))
         /\ \A f : f \in ToSet(Duplicates(l, h)) <=> f \in ToSet(l.songs) /\ f \in FilesOf(h)
<1> DEFINE S == FilesOf(h)
           d == Among(l.songs, S)
<1>1. l.songs \in Seq(Files)
  BY DEF LibStates
<1> HIDE DEF S
<1>2. d \in Seq(Files) /\ Once(d) /\ \A f : f \in ToSet(d) <=> f \in ToSet(l.songs) /\ f \in S
  BY <1>1, AmongElements
<1> HIDE DEF d
<1> QED
  BY <1>2 DEF Duplicates, FilesOf, S, d

(* The dialog opens for a song of the library. *)
LEMMA DialogOpens ==
  ASSUME lib \in LibStates, Once(lib.songs), NEW song, song \in ToSet(lib.songs)
  PROVE  OpenProps(song) \in Dialogs /\ DialogRight(lib, OpenProps(song)) /\ OpenProps(song).open
<1> DEFINE h == HashOf[song]
           dups == Duplicates(lib, h)
           p == [NoProps EXCEPT !.open = TRUE, !.dups = dups, !.list = dups, !.hash = h,
                   !.orig = lib.disk, !.changes = [f \in Files |-> NoChange], !.manual = lib.manual[h]]
           row == RowOf(p, song)
           q == SwitchDuplicate(p, row)
<1>1. song \in Files /\ h \in Hashes
  BY DEF LibStates, ToSet, Hashes
<1>2. dups \in Seq(Files) /\ Once(dups) /\ \A f : f \in ToSet(dups) <=> f \in ToSet(lib.songs) /\ f \in FilesOf(h)
  BY DuplicatesAreSongs
<1>3. OpenProps(song) = q
  BY DEF OpenProps
<1>4. lib.disk \in [Files -> Tags \cup {Gone}] /\ lib.manual[h] \in Tags /\ 0 \in Tags
  BY <1>1, SongTableAssumption DEF LibStates, Tags
<1>5. song \in FilesOf(h)
  BY <1>1 DEF FilesOf
<1> HIDE DEF dups, h
<1>6. PICK i \in 1..Len(dups) : dups[i] = song
  BY <1>2, <1>5 DEF ToSet
<1>7. /\ p \in Dialogs /\ p.open /\ p.dups = dups /\ p.list = dups /\ p.hash = h /\ p.orig = lib.disk
      /\ p.changes \in [Files -> Tags \cup {NoChange}] /\ p.message = "none"
  BY <1>1, <1>2, <1>4 DEF Dialogs, Messages, NoProps
<1> HIDE DEF p
<1>8. row = i
  <2>1. row = PlaceIn(dups, song)
    BY <1>7 DEF RowOf, SelectInSeq, PlaceIn
  <2> HIDE DEF row
  <2> QED
    BY <1>2, <1>6, <2>1, PlaceOfElement
<1> HIDE DEF row
<1>9. row \in Rows(p) /\ row <= Len(p.list) /\ p.list[row] = p.dups[row] /\ p.dups[row] = song /\ Once(p.list)
  BY <1>2, <1>6, <1>7, <1>8 DEF Rows
<1>10. /\ q \in Dialogs /\ SelectedOnly(p, q) /\ q.row \in 0..Len(p.list)
       /\ q.shown = song /\ q.row = row /\ q.song = song
  BY <1>7, <1>9, SwitchedDuplicate
<1> HIDE DEF q
<1>11. DialogRight(lib, q) /\ q.open
  <2>1. /\ q.open /\ q.list = dups /\ q.dups = dups /\ q.orig = lib.disk /\ q.hash = h
        /\ q.changes \in [Files -> Tags \cup {NoChange}] /\ dups[q.row] = song /\ q.message = "none"
    BY <1>7, <1>9, <1>10 DEF SelectedOnly
  <2> QED
    BY <1>1, <1>2, <1>4, <1>7, <1>10, <2>1 DEF DialogRight
<1> QED
  BY <1>3, <1>10, <1>11

-----------------------------------------------------------------------------
(* What is applied. *)

(* What a loop over the duplicates carries along. *)
AppliedStates == [l : LibStates, t : TableStates, message : Messages, at : Nat]

AppliedRight(s, l, t) == SameSongs(s, l, t) /\ (s.message = "damaged" => s.at \in 1..Len(props.dups))

(* A changed tag that is written, taken back or not saved, and stored in its song. *)
LEMMA AppliedTag ==
  ASSUME NEW l, NEW t, NEW s \in AppliedStates, AppliedRight(s, l, t), props \in Dialogs,
         props.changes \in [Files -> Tags \cup {NoChange}], NEW n \in 1..Len(props.dups), NEW outcome
  PROVE  ApplyTo(s, n, outcome) \in AppliedStates /\ AppliedRight(ApplyTo(s, n, outcome), l, t)
<1> DEFINE f == props.dups[n]
           tag == props.changes[f]
           l2 == [s.l EXCEPT !.id3[f] = tag, !.disk[f] = IF outcome[f] = "written" THEN tag ELSE @]
           t1 == [s.t EXCEPT !.written = @ \cup {f}]
           t2 == Saved(l2, t1, f)
           t3 == [s.t EXCEPT !.written = @ \ {f}]
           over == s.message # "none" \/ f \notin Changed
           halts == s.l.disk[f] = Gone \/ outcome[f] = "noBackup"
           backed == outcome[f] = "reverted"
           stopped == [s EXCEPT !.message = "noBackup"]
           damaged == [s EXCEPT !.l = l2, !.t = t3, !.message = "damaged", !.at = n]
           saved == [s EXCEPT !.l = l2, !.t = t2]
<1>0. s.l \in LibStates /\ s.t \in TableStates /\ s.message \in Messages /\ s.at \in Nat /\ f \in Files /\ n \in Nat
  BY DEF AppliedStates, Dialogs
<1>1. ApplyTo(s, n, outcome) = IF over THEN s ELSE IF halts THEN stopped ELSE IF backed THEN damaged ELSE saved
  <2>1. [s EXCEPT !.l = l2, !.t.written = @ \ {f}, !.message = "damaged", !.at = n] = damaged
    BY DEF AppliedStates
  <2> QED
    BY <2>1 DEF ApplyTo, SavedAfterWrite
<1> HIDE DEF stopped, damaged, saved
<1>2. SameSongs(s, l, t) /\ Agree(s.l, s.t) /\ "noBackup" \in Messages /\ "damaged" \in Messages
  BY DEF AppliedRight, SameSongs, Messages
<1>3. /\ stopped \in AppliedStates /\ stopped.l = s.l /\ stopped.t = s.t /\ stopped.message = "noBackup"
  BY <1>2 DEF stopped, AppliedStates
<1>4. AppliedRight(stopped, l, t)
  BY <1>2, <1>3 DEF AppliedRight, SameSongs
<1>5. ASSUME ~over, ~halts
      PROVE  /\ l2 \in LibStates /\ l2.songs = s.l.songs /\ \A g \in Files : g # f => l2.id3[g] = s.l.id3[g]
             /\ \A g \in Files : l2.disk[g] = Gone => s.l.disk[g] = Gone
  <2>1. tag \in Tags
    BY <1>0, <1>5 DEF Changed
  <2>2. tag # Gone
    BY <2>1 DEF Tags, Gone
  <2> HIDE DEF tag, f, over, halts
  <2> QED
    BY <1>0, <2>1, <2>2 DEF LibStates
<1>6. ASSUME l2 \in LibStates, l2.songs = s.l.songs, \A g \in Files : g # f => l2.id3[g] = s.l.id3[g],
             \A g \in Files : l2.disk[g] = Gone => s.l.disk[g] = Gone
      PROVE  /\ damaged \in AppliedStates /\ AppliedRight(damaged, l, t)
             /\ saved \in AppliedStates /\ AppliedRight(saved, l, t)
  <2> HIDE DEF l2, f
  <2>1. t1 \in TableStates /\ WrittenOnly(s.t, t1, f)
    BY <1>0 DEF TableStates, WrittenOnly
  <2> HIDE DEF t1
  <2>2. Agree(l2, t2) /\ t2.open = s.t.open
    <3>1. SameBut(s.l, l2, f)
      BY <1>6 DEF SameBut
    <3> QED
      BY <1>0, <1>2, <1>6, <2>1, <3>1, SavedAgrees
  <2>3. t2 \in TableStates
    BY <2>2 DEF Agree
  <2> HIDE DEF t2
  <2>4. /\ t3 \in TableStates /\ t3.rows = s.t.rows /\ t3.open = s.t.open /\ t3.flt = s.t.flt
        /\ t3.search = s.t.search /\ t3.total = s.t.total
        /\ \A g : g \in t3.written => g \in s.t.written /\ g # f
    BY <1>0 DEF TableStates
  <2> HIDE DEF t3
  <2>5. Agree(l2, t3)
    BY <1>2, <1>6, <2>4 DEF Agree, RowsAreSongs, ShowsLibrary
  <2>6. damaged \in AppliedStates /\ damaged.l = l2 /\ damaged.t = t3 /\ damaged.at = n
    BY <1>0, <1>2, <1>6, <2>4 DEF damaged, AppliedStates
  <2>7. saved \in AppliedStates /\ saved.l = l2 /\ saved.t = t2 /\ saved.message = s.message /\ saved.at = s.at
    BY <1>6, <2>3 DEF saved, AppliedStates
  <2>8. AppliedRight(damaged, l, t)
    BY <1>2, <1>6, <2>4, <2>5, <2>6 DEF AppliedRight, SameSongs
  <2>9. AppliedRight(saved, l, t)
    BY <1>2, <1>6, <2>2, <2>7 DEF AppliedRight, SameSongs
  <2> QED
    BY <2>6, <2>7, <2>8, <2>9
<1> HIDE DEF over, halts, backed, l2
<1> QED
  BY <1>1, <1>3, <1>4, <1>5, <1>6

(* The shared tag is stored before the loop. *)
LEMMA ManualStored ==
  ASSUME Agree(lib, tbl), NEW h \in Hashes, NEW tag \in Tags
  PROVE  /\ [lib EXCEPT !.manual[h] = tag] \in LibStates
         /\ Agree([lib EXCEPT !.manual[h] = tag], tbl)
         /\ [lib EXCEPT !.manual[h] = tag].songs = lib.songs
         /\ [lib EXCEPT !.manual[h] = tag].disk = lib.disk
<1> DEFINE l == [lib EXCEPT !.manual[h] = tag]
<1>1. l \in LibStates /\ l.songs = lib.songs /\ l.id3 = lib.id3 /\ l.disk = lib.disk
  BY DEF Agree, LibStates
<1> HIDE DEF l
<1>2. Agree(l, tbl)
  BY <1>1 DEF Agree, RowsAreSongs, ShowsLibrary
<1> QED
  BY <1>1, <1>2 DEF l

LEMMA NoDialog == NoProps \in Dialogs /\ \A l : DialogRight(l, NoProps)
<1>1. 0 \in Tags
  BY SongTableAssumption DEF Tags
<1>2. NoProps \in Dialogs
  <2>1. <<>> \in Seq(Files) /\ <<>> \in {<<>>} /\ 0 \in Nat
    OBVIOUS
  <2> QED
    BY <1>1, <2>1 DEF Dialogs, Messages, NoProps
<1>3. NoProps.open = FALSE /\ NoProps.message = "none"
  BY DEF NoProps
<1> QED
  BY <1>2, <1>3 DEF DialogRight

(* The dialog q differs from p in the message over it only. *)
SameFields(p, q) ==
  /\ q.open = p.open /\ q.song = p.song /\ q.shown = p.shown /\ q.dups = p.dups /\ q.list = p.list /\ q.row = p.row
  /\ q.orig = p.orig /\ q.changes = p.changes /\ q.hash = p.hash /\ q.rowLost = p.rowLost

LEMMA MessageOver ==
  ASSUME NEW l, l.songs = lib.songs, NEW q, SameFields(props, q), props.open, DialogRight(lib, props),
         q.message = "damaged" => q.at \in 1..Len(props.dups)
  PROVE  DialogRight(l, q)
BY DEF DialogRight, SameFields

(* The duplicates behind the first ones are gone through: the dialog closes, or a message is *)
(* shown over it.                                                                            *)
LEMMA AppliedTags ==
  ASSUME Agree(lib, tbl), props \in Dialogs, props.open, DialogRight(lib, props),
         NEW l \in LibStates, NEW t \in TableStates, LoopEnds(l, t),
         NEW outcome, NEW first \in Nat, ApplyBehind(first, l, t, outcome)
  PROVE  LoopEnds(lib', tbl') /\ props' \in Dialogs /\ DialogRight(lib', props')
<1> DEFINE base == [l |-> l, t |-> t, message |-> "none", at |-> 0]
           N == Len(props.dups)
           V == {s \in AppliedStates : AppliedRight(s, lib, tbl)}
           Step(s, n) == IF n <= first THEN base ELSE ApplyTo(s, n, outcome)
           F(f) == [n \in 0..N |-> IF n <= first THEN base ELSE ApplyTo(f[n - 1], n, outcome)]
           Loop == CHOOSE f : f = F(f)
           end == Loop[N]
<1>1. /\ lib' = end.l /\ tbl' = end.t
      /\ props' = IF end.message = "none" THEN NoProps ELSE [props EXCEPT !.message = end.message, !.at = end.at]
  BY DEF ApplyBehind
<1>2. N \in Nat
  BY DEF Dialogs
<1>3. base \in V
  <2>1. base \in AppliedStates
    BY DEF AppliedStates, Messages
  <2>2. SameSongs(base, lib, tbl)
    BY DEF LoopEnds, SameSongs
  <2> QED
    BY <2>1, <2>2 DEF AppliedRight
<1>4. \A s \in V, n \in 1..N : ApplyTo(s, n, outcome) \in V
  <2>1. props.changes \in [Files -> Tags \cup {NoChange}]
    BY DEF DialogRight
  <2> QED
    BY <2>1, AppliedTag
<1>9. \A s \in V : s \in AppliedStates /\ AppliedRight(s, lib, tbl)
  OBVIOUS
<1> HIDE DEF V, base, N
<1>10. \A s \in V, n \in 1..N : Step(s, n) \in V
  BY <1>3, <1>4
<1>5. \E f : f = F(f)
  <2> DEFINE step == [x \in (1..N) \X V |-> Step(x[2], x[1])]
  <2>1. step \in [(1..N) \X V -> V]
    BY <1>2, <1>10
  <2>2. \A k \in 1..N, s \in V : step[<<k, s>>] = Step(s, k)
    OBVIOUS
  <2> HIDE DEF step
  <2>3. Recursion(V, 0, N, base, step)
    BY <1>2, <1>3, <2>1 DEF Recursion
  <2>4. PICK f : Follows(f, V, 0, N, base, step)
    BY <2>3, RecursionExists
  <2>5. f \in [0..N -> V] /\ \A k \in 0..N : f[k] = IF k = 0 THEN base ELSE step[<<k, f[k - 1]>>]
    BY <2>4 DEF Follows
  <2>6. \A k \in 0..N : (k # 0 => k \in 1..N /\ k - 1 \in 0..N) /\ (k = 0 => k <= first)
    BY <1>2
  <2>7. \A k \in 0..N : f[k] = IF k <= first THEN base ELSE ApplyTo(f[k - 1], k, outcome)
    BY <2>2, <2>5, <2>6
  <2>8. f = F(f)
    BY <2>5, <2>7
  <2> QED
    BY <2>8
<1>6. Loop = F(Loop)
  BY <1>5
<1> HIDE DEF Loop
<1>7. Loop[0] = base /\ \A k \in 1..N : Loop[k] = Step(Loop[k - 1], k)
  <2>1. 0 \in 0..N /\ 0 <= first /\ \A k \in 1..N : k \in 0..N
    BY <1>2
  <2>2. \A k \in 0..N : Loop[k] = IF k <= first THEN base ELSE ApplyTo(Loop[k - 1], k, outcome)
    BY <1>6
  <2> QED
    BY <2>1, <2>2
<1> HIDE DEF Step
<1>8. end \in V
  <2>1. Loop[0] \in V /\ \A k \in 1..N : Loop[k - 1] \in V => Loop[k] \in V
    BY <1>2, <1>3, <1>7, <1>10
  <2> QED
    BY <1>2, <2>1, LoopStays
<1>11. end \in AppliedStates /\ AppliedRight(end, lib, tbl)
  BY <1>8, <1>9
<1> HIDE DEF end
<1>12. LoopEnds(lib', tbl') /\ lib'.songs = lib.songs
  BY <1>1, <1>11 DEF AppliedRight, SameSongs, LoopEnds
<1>13. CASE end.message = "none"
  BY <1>1, <1>12, <1>13, NoDialog
<1>14. CASE end.message # "none"
  <2> DEFINE q == [props EXCEPT !.message = end.message, !.at = end.at]
  <2>1. /\ q \in Dialogs /\ SameFields(props, q) /\ q.message = end.message /\ q.at = end.at
    BY <1>11 DEF AppliedStates, Dialogs, SameFields
  <2>2. props' = q
    BY <1>1, <1>14
  <2> HIDE DEF q
  <2>3. q.message = "damaged" => q.at \in 1..Len(props.dups)
    BY <1>11, <2>1 DEF AppliedRight
  <2>4. DialogRight(lib', q)
    BY <1>12, <2>1, <2>3, MessageOver
  <2> QED
    BY <1>12, <2>1, <2>2, <2>4
<1> QED
  BY <1>13, <1>14

-----------------------------------------------------------------------------
(* The inductive invariant. *)

Questions == [from : {"nowhere", "table", "classroom", "properties"}, songs : Seq(Files), delete : BOOLEAN]

(* The songs that the user is asked about are still there, and the dialog that asked is as   *)
(* it was: no other one can be worked in while the question stands.                          *)
AskedRight == ask # NoAsk =>
  /\ \A f : f \in ToSet(ask.songs) => f \in ToSet(lib.songs)
  /\ ask.from = "properties" =>
       props.open /\ props.message = "none" /\ props.row \in Rows(props) /\ ask.songs = <<props.dups[props.row]>>
  /\ ask.from # "properties" => ~props.open

WindowsInvariant ==
  /\ Agree(lib, tbl)
  /\ scans \in [Files -> Tags \cup {Idle, Queued}]
  /\ ask \in Questions /\ props \in Dialogs
  /\ DialogRight(lib, props) /\ AskedRight

(* The songs stay, and their files: what every step but one does. *)
SongsStay ==
  /\ \A f : f \in ToSet(lib.songs) => f \in ToSet(lib'.songs)
  /\ \A f \in Files : lib'.disk[f] = Gone => lib.disk[f] = Gone

Keeps == WindowsInvariant' /\ SongsStay

(* A step that leaves no song out and the question alone, and that changes the dialog of the *)
(* properties only while nothing is asked.                                                   *)
LEMMA StepKeeps ==
  ASSUME WindowsInvariant, Agree(lib', tbl'), scans' \in [Files -> Tags \cup {Idle, Queued}], SongsStay,
         ask' = ask, props' = props \/ (ask = NoAsk /\ props' \in Dialogs /\ DialogRight(lib', props'))
  PROVE  Keeps
<1>1. props' \in Dialogs /\ DialogRight(lib', props')
  <2>1. CASE props' = props
    <3>1. DialogRight(lib', props)
      BY DEF WindowsInvariant, DialogRight, SongsStay
    <3> QED
      BY <2>1, <3>1 DEF WindowsInvariant
  <2>2. CASE ask = NoAsk /\ props' \in Dialogs /\ DialogRight(lib', props')
    BY <2>2
  <2> QED
    BY <2>1, <2>2
<1>2. ask' \in Questions
  BY DEF WindowsInvariant
<1>3. AskedRight'
  <2>1. CASE ask = NoAsk
    BY <2>1 DEF AskedRight, NoAsk
  <2>2. CASE ask # NoAsk
    <3>1. props' = props
      BY <2>2
    <3> QED
      BY <2>2, <3>1 DEF WindowsInvariant, AskedRight, SongsStay, Rows, NoAsk
  <2> QED
    BY <2>1, <2>2
<1> QED
  BY <1>1, <1>2, <1>3 DEF Keeps, WindowsInvariant

(* A song that is created: the table takes it in if the filter does. *)
LEMMA SongAddedKeeps ==
  ASSUME WindowsInvariant, NEW f \in Files, SongAdded(f), props' = props
  PROVE  Keeps
<1> DEFINE l == [lib EXCEPT !.songs = Append(@, f), !.id3[f] = 0]
           t1 == IF Accepts(l, tbl, f) THEN Refreshed(l, tbl, f) ELSE tbl
<1>1. /\ lib \in LibStates /\ Once(lib.songs) /\ lib.songs \in Seq(Files) /\ tbl \in TableStates
      /\ RowsAreSongs(lib, tbl) /\ ShowsLibrary(lib, tbl) /\ f \notin ToSet(lib.songs)
  BY DEF WindowsInvariant, Agree, SongAdded, LibStates
<1>2. lib' = l /\ tbl' = IF tbl.open THEN WithStats(l, t1) ELSE tbl
  BY DEF SongAdded
<1>3. /\ Append(lib.songs, f) \in Seq(Files) /\ Once(Append(lib.songs, f))
      /\ \A x : x \in ToSet(Append(lib.songs, f)) <=> x \in ToSet(lib.songs) \/ x = f
  <2> DEFINE s == lib.songs
  <2>1. s \in Seq(Files) /\ Once(s) /\ f \notin ToSet(s)
    BY <1>1
  <2> HIDE DEF s
  <2>2. Append(s, f) \in Seq(Files) /\ Once(Append(s, f)) /\ ToSet(Append(s, f)) = ToSet(s) \cup {f}
    BY <2>1, Appended
  <2>3. \A x : x \in ToSet(Append(s, f)) <=> x \in ToSet(s) \/ x = f
    BY <2>2
  <2> QED
    BY <2>2, <2>3 DEF s
<1>4. /\ l \in LibStates /\ l.songs = Append(lib.songs, f) /\ l.id3[f] = 0 /\ l.disk = lib.disk
      /\ \A g \in Files : g # f => l.id3[g] = lib.id3[g]
  <2>1. 0 \in Tags
    BY SongTableAssumption DEF Tags
  <2> QED
    BY <1>1, <1>3, <2>1 DEF LibStates
<1> HIDE DEF l
<1>5. SongsStay /\ \A x : x \in ToSet(l.songs) <=> x \in ToSet(lib.songs) \/ x = f
  BY <1>2, <1>3, <1>4 DEF SongsStay
<1>6. Agree(l, tbl')
  <2>1. CASE ~tbl.open
    BY <1>1, <1>2, <1>3, <1>4, <1>5, <2>1 DEF Agree, RowsAreSongs, ShowsLibrary
  <2>2. CASE tbl.open
    <3>1. \E r \in Seq(Files) :
            /\ t1 = [tbl EXCEPT !.rows = r]
            /\ Once(r)
            /\ \A x : x \in ToSet(r) <=> (x \in ToSet(tbl.rows) /\ x # f) \/ (x = f /\ Accepts(l, tbl, f))
      <4>1. Once(tbl.rows) /\ f \notin ToSet(tbl.rows) /\ tbl.rows \in Seq(Files)
        BY <1>1 DEF RowsAreSongs, TableStates
      <4>2. CASE Accepts(l, tbl, f)
        <5>1. PICK r \in Seq(Files) :
                /\ Refreshed(l, tbl, f) = [tbl EXCEPT !.rows = r]
                /\ Once(r)
                /\ \A x : x \in ToSet(r) <=> (x \in ToSet(tbl.rows) /\ x # f) \/ (x = f /\ Accepts(l, tbl, f))
          BY <1>1, <4>1, RefreshedRow
        <5>2. t1 = [tbl EXCEPT !.rows = r]
          BY <4>2, <5>1
        <5> HIDE DEF t1
        <5> QED
          BY <5>1, <5>2
      <4>3. CASE ~Accepts(l, tbl, f)
        <5>1. tbl = [tbl EXCEPT !.rows = tbl.rows]
          BY <1>1 DEF TableStates
        <5>2. t1 = [tbl EXCEPT !.rows = tbl.rows]
          BY <4>3, <5>1
        <5>3. \A x : x \in ToSet(tbl.rows) <=> (x \in ToSet(tbl.rows) /\ x # f) \/ (x = f /\ Accepts(l, tbl, f))
          BY <4>1, <4>3
        <5> QED
          BY <4>1, <5>2, <5>3
      <4> QED
        BY <4>2, <4>3
    <3>2. PICK r \in Seq(Files) :
            /\ t1 = [tbl EXCEPT !.rows = r]
            /\ Once(r)
            /\ \A x : x \in ToSet(r) <=> (x \in ToSet(tbl.rows) /\ x # f) \/ (x = f /\ Accepts(l, tbl, f))
      BY <3>1
    <3> HIDE DEF t1
    <3> DEFINE t2 == WithStats(l, t1)
    <3>3. /\ t2 \in TableStates /\ t2.rows = r /\ t2.open = tbl.open /\ t2.flt = tbl.flt
          /\ t2.search = tbl.search /\ t2.total = Len(l.songs) /\ t2.written = tbl.written
      <4>1. Len(l.songs) \in Nat
        BY <1>4 DEF LibStates
      <4> QED
        BY <1>1, <3>2, <4>1 DEF TableStates, WithStats
    <3> HIDE DEF t2
    <3>4. RowsAreSongs(l, t2)
      BY <1>1, <1>5, <3>2, <3>3 DEF RowsAreSongs
    <3>5. t2.flt = "all" /\ t2.search = 0 => \A g : g \in ToSet(l.songs) => g \in ToSet(t2.rows)
      <4> SUFFICES ASSUME t2.flt = "all", t2.search = 0, NEW g, g \in ToSet(l.songs)
                   PROVE  g \in ToSet(r)
        BY <3>3
      <4>1. Accepts(l, tbl, f)
        BY <3>3, AcceptedSongs
      <4>2. g # f => g \in ToSet(tbl.rows)
        BY <1>1, <1>5, <2>2, <3>3 DEF ShowsLibrary
      <4> QED
        BY <3>2, <4>1, <4>2
    <3>6. t2.flt = "noId3" => \A g \in Files : g \in t2.written /\ g \in ToSet(t2.rows) => l.id3[g] = 0
      <4> SUFFICES ASSUME t2.flt = "noId3", NEW g \in Files, g \in t2.written, g \in ToSet(r), g # f
                   PROVE  l.id3[g] = 0
        BY <1>4, <3>3
      <4>1. g \in ToSet(tbl.rows)
        BY <3>2
      <4> QED
        BY <1>1, <1>4, <2>2, <3>3, <4>1 DEF ShowsLibrary
    <3>7. ShowsLibrary(l, t2)
      BY <3>3, <3>5, <3>6 DEF ShowsLibrary
    <3> QED
      BY <1>2, <1>3, <1>4, <2>2, <3>3, <3>4, <3>7 DEF Agree, t2
  <2> QED
    BY <2>1, <2>2
<1>7. scans' \in [Files -> Tags \cup {Idle, Queued}] /\ ask' = ask
  BY DEF SongAdded, WindowsInvariant
<1> QED
  BY <1>2, <1>5, <1>6, <1>7, StepKeeps

(* A scan reads a tag and stores it: the song is not one of the written ones any more. *)
LEMMA ScanKeeps ==
  ASSUME WindowsInvariant, NEW f \in Files, ScanReads(f) \/ ScanStores(f), props' = props
  PROVE  Keeps
<1>1. lib \in LibStates /\ tbl \in TableStates /\ Agree(lib, tbl) /\ scans \in [Files -> Tags \cup {Idle, Queued}]
  BY DEF WindowsInvariant, Agree
<1>2. CASE ScanReads(f)
  <2>1. lib' = lib /\ tbl' = tbl /\ ask' = ask
    BY <1>2 DEF ScanReads
  <2>2. scans' \in [Files -> Tags \cup {Idle, Queued}]
    <3>1. lib.disk[f] \in Tags \cup {Gone}
      BY <1>1 DEF LibStates
    <3> DEFINE v == IF lib.disk[f] = Gone THEN Idle ELSE lib.disk[f]
    <3>2. v \in Tags \cup {Idle, Queued} /\ scans' = [scans EXCEPT ![f] = v]
      BY <1>2, <3>1 DEF ScanReads
    <3> HIDE DEF v
    <3> QED
      BY <1>1, <3>2
  <2> QED
    BY <1>1, <2>1, <2>2, StepKeeps DEF SongsStay
<1>3. CASE ScanStores(f)
  <2>1. /\ scans[f] \in Tags /\ ask' = ask /\ lib' = [lib EXCEPT !.id3[f] = scans[f]]
        /\ scans' = [scans EXCEPT ![f] = Idle] /\ tbl' = [tbl EXCEPT !.written = @ \ {f}]
    BY <1>1, <1>3 DEF ScanStores
  <2>2. /\ lib' \in LibStates /\ lib'.songs = lib.songs /\ lib'.disk = lib.disk
        /\ \A g \in Files : g # f => lib'.id3[g] = lib.id3[g]
    BY <1>1, <2>1 DEF LibStates
  <2>3. /\ tbl' \in TableStates /\ tbl'.rows = tbl.rows /\ tbl'.open = tbl.open /\ tbl'.flt = tbl.flt
        /\ tbl'.search = tbl.search /\ tbl'.total = tbl.total
        /\ \A g : g \in tbl'.written => g \in tbl.written /\ g # f
    BY <1>1, <2>1 DEF TableStates
  <2>4. Agree(lib', tbl')
    BY <1>1, <2>2, <2>3 DEF Agree, RowsAreSongs, ShowsLibrary
  <2>5. scans' \in [Files -> Tags \cup {Idle, Queued}]
    BY <1>1, <2>1
  <2> QED
    BY <2>1, <2>2, <2>4, <2>5, StepKeeps DEF SongsStay
<1> QED
  BY <1>2, <1>3

(* The selected rows are rows of the table. *)
LEMMA SelectedRows ==
  ASSUME tbl \in TableStates, NEW sel \in Selections
  PROVE  sel \in Seq(Nat \ {0}) /\ \A i \in DOMAIN sel : sel[i] \in DOMAIN tbl.rows
<1>1. PICK S \in SUBSET (DOMAIN tbl.rows) : sel \in SetToSeqs(S)
  BY DEF Selections
<1>2. tbl.rows \in Seq(Files) /\ Len(tbl.rows) \in Nat /\ DOMAIN tbl.rows = 1..Len(tbl.rows)
  BY DEF TableStates
<1>3. IsFiniteSet(S) /\ Cardinality(S) \in Nat
  <2>1. IsFiniteSet(1..Len(tbl.rows))
    BY <1>2, FS_Interval
  <2>2. IsFiniteSet(S)
    BY <1>2, <2>1, FS_Subset
  <2> QED
    BY <2>2, FS_CardinalityType
<1>4. sel \in [1..Cardinality(S) -> S]
  BY <1>1 DEF SetToSeqs
<1>5. S \subseteq Nat \ {0}
  BY <1>2
<1> HIDE DEF Selections
<1>6. sel \in Seq(Nat \ {0})
  BY <1>3, <1>4, <1>5
<1> QED
  BY <1>4, <1>6

(* Steps of which only the table hears. *)
LEMMA TableChangesKeep ==
  ASSUME WindowsInvariant, lib' = lib, Agree(lib, tbl'), UNCHANGED <<scans, ask, props>>
  PROVE  Keeps
BY StepKeeps DEF WindowsInvariant, SongsStay

LEMMA LoopKeeps ==
  ASSUME WindowsInvariant, LoopEnds(lib', tbl'), UNCHANGED <<scans, ask, props>>
  PROVE  Keeps
BY StepKeeps DEF WindowsInvariant, SongsStay, LoopEnds

(* Another filter, or another search text that is due. *)
LEMMA RefilteringKeeps ==
  ASSUME WindowsInvariant, lib' = lib, UNCHANGED <<scans, ask, props>>,
         NEW t \in TableStates, t.rows = tbl.rows \/ t.rows = <<>>, tbl' = Refiltered(lib, t)
  PROVE  Keeps
<1>1. lib \in LibStates /\ Once(lib.songs) /\ RowsAreSongs(lib, tbl)
  BY DEF WindowsInvariant, Agree
<1>2. RowsAreSongs(lib, t)
  <2>1. CASE t.rows = tbl.rows
    BY <1>1, <2>1 DEF RowsAreSongs
  <2>2. CASE t.rows = <<>>
    BY <2>2 DEF RowsAreSongs, Once, ToSet
  <2> QED
    BY <2>1, <2>2
<1>3. Agree(lib, tbl')
  BY <1>1, <1>2, RefilteredAgrees
<1> QED
  BY <1>3, TableChangesKeep

LEMMA NoTableAgrees ==
  ASSUME NEW l \in LibStates, Once(l.songs)
  PROVE  NoTable \in TableStates /\ Agree(l, NoTable) /\ [NoTable EXCEPT !.open = TRUE] \in TableStates
<1>1. 0 \in Tags
  BY SongTableAssumption DEF Tags
<1>2. 0 \in Nat /\ <<>> \in Seq(Files) /\ {} \in SUBSET Files /\ "all" \in TableFilters /\ "name" \in {"name", "rating"}
  BY DEF TableFilters
<1>3. NoTable \in TableStates
  BY <1>1, <1>2 DEF TableStates, NoTable
<1>4. [NoTable EXCEPT !.open = TRUE] \in TableStates
  BY <1>3 DEF TableStates
<1>5. NoTable.rows = <<>> /\ NoTable.open = FALSE
  BY DEF NoTable
<1> HIDE DEF NoTable
<1>6. RowsAreSongs(l, NoTable) /\ ShowsLibrary(l, NoTable)
  BY <1>5 DEF RowsAreSongs, ShowsLibrary, Once, ToSet
<1> QED
  BY <1>3, <1>4, <1>6 DEF Agree

(* The table's ticks: the last one before the search text is used. *)
LEMMA TableTickKeeps ==
  ASSUME WindowsInvariant, TableTick, props' = props
  PROVE  Keeps
<1>1. lib \in LibStates /\ tbl \in TableStates /\ Agree(lib, tbl)
  BY DEF WindowsInvariant, Agree
<1> DEFINE t == [tbl EXCEPT !.ticks = @ - 1]
<1>2. /\ lib' = lib /\ scans' = scans /\ ask' = ask /\ tbl.ticks > 0
      /\ tbl' = IF t.ticks = 0 THEN Refiltered(lib, [t EXCEPT !.search = t.typed]) ELSE t
  BY DEF TableTick
<1>3. /\ t \in TableStates /\ t.rows = tbl.rows /\ t.open = tbl.open /\ t.flt = tbl.flt
      /\ t.search = tbl.search /\ t.total = tbl.total /\ t.written = tbl.written
  BY <1>1, <1>2 DEF TableStates
<1> HIDE DEF t
<1>4. CASE t.ticks = 0
  <2>1. [t EXCEPT !.search = t.typed] \in TableStates /\ [t EXCEPT !.search = t.typed].rows = tbl.rows
    BY <1>3 DEF TableStates
  <2> QED
    BY <1>2, <1>4, <2>1, RefilteringKeeps
<1>5. CASE t.ticks # 0
  <2>1. Agree(lib, t)
    BY <1>1, <1>3 DEF Agree, RowsAreSongs, ShowsLibrary
  <2> QED
    BY <1>2, <1>5, <2>1, TableChangesKeep
<1> QED
  BY <1>4, <1>5

(* A cell is edited, and its song saved. *)
LEMMA EditCellKeeps ==
  ASSUME WindowsInvariant, NEW f \in Files, NEW tag \in Tags, EditCell(f, tag), props' = props
  PROVE  Keeps
<1> DEFINE l == [lib EXCEPT !.manual[HashOf[f]] = tag]
<1>1. lib \in LibStates /\ tbl \in TableStates /\ Agree(lib, tbl) /\ HashOf[f] \in Hashes
  BY DEF WindowsInvariant, Agree, Hashes
<1>2. lib' = l /\ tbl' = Saved(l, tbl, f) /\ UNCHANGED <<scans, ask>>
  BY DEF EditCell
<1>3. l \in LibStates /\ Agree(l, tbl) /\ l.songs = lib.songs /\ l.disk = lib.disk
  BY <1>1, ManualStored
<1> HIDE DEF l
<1>4. SameBut(l, l, f) /\ WrittenOnly(tbl, tbl, f)
  BY DEF SameBut, WrittenOnly
<1>5. Agree(l, Saved(l, tbl, f)) /\ Saved(l, tbl, f).open = tbl.open
  BY <1>1, <1>3, <1>4, SavedAgrees
<1> QED
  BY <1>2, <1>3, <1>5, LoopKeeps DEF LoopEnds

(* The rows that are selected are asked about. *)
LEMMA AskingKeeps ==
  ASSUME WindowsInvariant, UNCHANGED <<lib, scans, tbl, props>>, NEW songs \in Seq(Files), NEW delete \in BOOLEAN,
         \A f : f \in ToSet(songs) => f \in ToSet(lib.songs), NEW from,
         ask' = [from |-> from, songs |-> songs, delete |-> delete],
         \/ from \in {"table", "classroom"} /\ ~props.open
         \/ /\ from = "properties" /\ props.open /\ props.message = "none"
            /\ props.row \in Rows(props) /\ songs = <<props.dups[props.row]>>
  PROVE  Keeps
<1>1. ask' \in Questions /\ ask'.from = from /\ ask'.songs = songs
  BY DEF Questions
<1>2. AskedRight'
  BY <1>1 DEF AskedRight, Rows
<1> QED
  BY <1>1, <1>2 DEF Keeps, WindowsInvariant, SongsStay

(* What the user does in the table. *)
LEMMA TableActionKeeps ==
  ASSUME WindowsInvariant, TableAction, props' = props, ~props.open
  PROVE  Keeps
<1>1. lib \in LibStates /\ tbl \in TableStates /\ Agree(lib, tbl) /\ tbl.rows \in Seq(Files) /\ RowsAreSongs(lib, tbl)
  BY DEF WindowsInvariant, Agree, TableStates
<1>2. ASSUME NEW flt \in TableFilters, ChooseFilter(flt)
      PROVE  Keeps
  <2>1. [tbl EXCEPT !.flt = flt] \in TableStates /\ [tbl EXCEPT !.flt = flt].rows = tbl.rows
    BY <1>1 DEF TableStates
  <2>2. tbl' = Refiltered(lib, [tbl EXCEPT !.flt = flt]) /\ lib' = lib /\ UNCHANGED <<scans, ask>>
    BY <1>2 DEF ChooseFilter
  <2> QED
    BY <2>1, <2>2, RefilteringKeeps
<1>3. ASSUME NEW text \in Tags, TypeSearch(text)
      PROVE  Keeps
  <2>1. tbl' = [tbl EXCEPT !.typed = text, !.ticks = SearchTicks] /\ lib' = lib /\ UNCHANGED <<scans, ask>>
    BY <1>3 DEF TypeSearch
  <2>2. /\ tbl' \in TableStates /\ tbl'.rows = tbl.rows /\ tbl'.open = tbl.open /\ tbl'.flt = tbl.flt
        /\ tbl'.search = tbl.search /\ tbl'.total = tbl.total /\ tbl'.written = tbl.written
    BY <1>1, <2>1, SongTableAssumption DEF TableStates
  <2>3. Agree(lib, tbl')
    BY <1>1, <2>2 DEF Agree, RowsAreSongs, ShowsLibrary
  <2> QED
    BY <2>1, <2>3, TableChangesKeep
<1>4. ASSUME NEW column \in {"name", "rating"}, SortBy(column)
      PROVE  Keeps
  <2> DEFINE t == [tbl EXCEPT !.sort = column]
  <2>1. tbl' = Resorted(lib, t) /\ lib' = lib /\ UNCHANGED <<scans, ask>>
    BY <1>4 DEF SortBy
  <2>2. /\ t \in TableStates /\ t.rows = tbl.rows /\ t.open = tbl.open /\ t.flt = tbl.flt
        /\ t.search = tbl.search /\ t.total = tbl.total /\ t.written = tbl.written
    BY <1>1 DEF TableStates
  <2> HIDE DEF t
  <2>3. Agree(lib, t)
    BY <1>1, <2>2 DEF Agree, RowsAreSongs, ShowsLibrary
  <2>4. Agree(lib, tbl')
    BY <2>1, <2>3, ResortedAgrees
  <2> QED
    BY <2>1, <2>4, TableChangesKeep
<1>5. ASSUME NEW f \in Files, NEW tag \in Tags, EditCell(f, tag)
      PROVE  Keeps
  BY <1>5, EditCellKeeps
<1>6. ASSUME NEW sel \in Selections, NEW rating \in 0..MaxRating, RateSelected(sel, rating)
      PROVE  Keeps
  <2>1. sel \in Seq(Nat \ {0})
    BY <1>1, SelectedRows
  <2>2. LoopEnds(lib', tbl')
    BY <1>1, <1>6, <2>1, RatedRows
  <2>3. UNCHANGED <<scans, ask>>
    BY <1>6 DEF RateSelected
  <2> QED
    BY <2>2, <2>3, LoopKeeps
<1>7. ASSUME NEW sel \in Selections, NEW writable, MoveManualToId3(sel, writable)
      PROVE  Keeps
  <2>1. sel \in Seq(Nat \ {0})
    BY <1>1, SelectedRows
  <2>2. LoopEnds(lib', tbl')
    BY <1>1, <1>7, <2>1, MovedRows
  <2>3. UNCHANGED <<scans, ask>>
    BY <1>7 DEF MoveManualToId3
  <2> QED
    BY <2>2, <2>3, LoopKeeps
<1>8. ASSUME NEW sel \in Selections, RescanMetadata(sel)
      PROVE  Keeps
  <2>1. UNCHANGED <<lib, tbl, ask>> /\ scans' \in [Files -> Tags \cup {Idle, Queued}]
    BY <1>8 DEF RescanMetadata, WindowsInvariant
  <2> QED
    BY <1>1, <2>1, StepKeeps DEF SongsStay
<1>9. ASSUME NEW sel \in Selections, NEW delete \in BOOLEAN, AskToRemove(sel, delete)
      PROVE  Keeps
  <2> DEFINE songs == [i \in DOMAIN sel |-> tbl.rows[sel[i]]]
  <2>1. sel \in Seq(Nat \ {0}) /\ \A i \in DOMAIN sel : sel[i] \in DOMAIN tbl.rows
    BY <1>1, SelectedRows
  <2>2. songs \in Seq(Files)
    BY <1>1, <2>1
  <2>3. \A f : f \in ToSet(songs) => f \in ToSet(tbl.rows)
    BY <2>1 DEF ToSet
  <2>4. ask' = [from |-> "table", songs |-> songs, delete |-> delete] /\ UNCHANGED <<lib, scans, tbl>>
    BY <1>9 DEF AskToRemove
  <2> HIDE DEF songs
  <2>5. \A f : f \in ToSet(songs) => f \in ToSet(lib.songs)
    BY <1>1, <2>3 DEF RowsAreSongs
  <2> QED
    BY <2>2, <2>4, <2>5, AskingKeeps
<1> QED
  BY <1>2, <1>3, <1>4, <1>5, <1>6, <1>7, <1>8, <1>9 DEF TableAction, TableFilters

(* What the user does in the dialog of the properties. *)
LEMMA DialogChangesKeep ==
  ASSUME WindowsInvariant, UNCHANGED <<lib, scans, tbl, ask>>, ask = NoAsk, props' \in Dialogs, DialogRight(lib, props')
  PROVE  Keeps
<1>1. Agree(lib', tbl') /\ scans' \in [Files -> Tags \cup {Idle, Queued}]
  BY DEF WindowsInvariant
<1>2. DialogRight(lib', props')
  OBVIOUS
<1> QED
  BY <1>1, <1>2, StepKeeps DEF SongsStay

LEMMA SelectDuplicateKeeps ==
  ASSUME WindowsInvariant, ask = NoAsk, props.open, NEW row, SelectDuplicate(row)
  PROVE  Keeps
<1> DEFINE q == SetCurrentRow(props, row)
           r == [q EXCEPT !.rowLost = FALSE]
<1>1. props \in Dialogs /\ DialogRight(lib, props) /\ props.list = props.dups /\ Once(props.list) /\ props.list \in Seq(Files)
  BY DEF WindowsInvariant, DialogRight, Dialogs
<1>2. row \in 1..Len(props.list) /\ row # props.row /\ props' = r /\ UNCHANGED <<lib, scans, tbl, ask>>
  BY DEF SelectDuplicate
<1>3. row \in 0..Len(props.list) /\ row \in Rows(props) /\ Len(props.list) \in Nat
  BY <1>1, <1>2 DEF Rows
<1>4. /\ q \in Dialogs /\ SelectedOnly(props, q)
      /\ q.row = row /\ q.song = props.dups[row] /\ q.shown = props.dups[row]
  BY <1>1, <1>2, <1>3, CurrentRowSet
<1> HIDE DEF q
<1>5. /\ r \in Dialogs /\ r.open /\ r.row = row /\ r.song = props.dups[row] /\ r.shown = props.dups[row]
      /\ r.dups = props.dups /\ r.list = props.list /\ r.orig = props.orig /\ r.changes = props.changes /\ r.hash = props.hash
      /\ r.message = props.message /\ r.at = props.at
  BY <1>4 DEF Dialogs, SelectedOnly
<1> HIDE DEF r
<1>6. DialogRight(lib, r)
  BY <1>1, <1>3, <1>5 DEF DialogRight
<1> QED
  BY <1>2, <1>5, <1>6, DialogChangesKeep

LEMMA EditKeeps ==
  ASSUME WindowsInvariant, ask = NoAsk, props.open, NEW tag \in Tags, EditId3(tag) \/ EditManual(tag)
  PROVE  Keeps
<1>1. props \in Dialogs /\ DialogRight(lib, props) /\ props.changes \in [Files -> Tags \cup {NoChange}]
  BY DEF WindowsInvariant, DialogRight
<1>2. /\ props' \in Dialogs /\ props'.open /\ props'.changes \in [Files -> Tags \cup {NoChange}]
      /\ props'.row = props.row /\ props'.song = props.song /\ props'.shown = props.shown
      /\ props'.dups = props.dups /\ props'.list = props.list /\ props'.orig = props.orig
      /\ props'.hash = props.hash /\ props'.rowLost = props.rowLost
      /\ props'.message = props.message /\ props'.at = props.at
  <2>1. CASE EditId3(tag)
    <3>1. props.song \in Files /\ props' = [props EXCEPT !.changes[props.song] = tag]
      BY <1>1, <2>1 DEF EditId3, Dialogs
    <3> DEFINE c == [props.changes EXCEPT ![props.song] = tag]
    <3>2. c \in [Files -> Tags \cup {NoChange}] /\ props' = [props EXCEPT !.changes = c]
      BY <1>1, <3>1
    <3> HIDE DEF c
    <3> QED
      BY <1>1, <3>2 DEF Dialogs
  <2>2. CASE EditManual(tag)
    <3>1. props' = [props EXCEPT !.manual = tag]
      BY <2>2 DEF EditManual
    <3> QED
      BY <1>1, <3>1 DEF Dialogs
  <2> QED
    BY <2>1, <2>2
<1>3. DialogRight(lib, props')
  BY <1>1, <1>2 DEF DialogRight
<1>4. UNCHANGED <<lib, scans, tbl, ask>>
  BY DEF EditId3, EditManual
<1> QED
  BY <1>2, <1>3, <1>4, DialogChangesKeep

LEMMA PropsActionKeeps ==
  ASSUME WindowsInvariant, ask = NoAsk, props.open, props.message = "none", PropsAction
  PROVE  Keeps
<1>1. ASSUME NEW row, SelectDuplicate(row)
      PROVE  Keeps
  BY <1>1, SelectDuplicateKeeps
<1>2. ASSUME NEW tag \in Tags, EditId3(tag) \/ EditManual(tag)
      PROVE  Keeps
  BY <1>2, EditKeeps
<1>3. ASSUME NEW delete \in BOOLEAN, AskToRemoveDuplicate(delete)
      PROVE  Keeps
  <2> DEFINE songs == <<props.dups[props.row]>>
  <2>1. /\ UNCHANGED <<lib, scans, tbl, props>> /\ props.row \in Rows(props)
        /\ ask' = [from |-> "properties", songs |-> songs, delete |-> delete]
    BY <1>3 DEF AskToRemoveDuplicate
  <2>2. props.dups \in Seq(Files) /\ \A f : f \in ToSet(props.dups) => f \in ToSet(lib.songs)
    BY DEF WindowsInvariant, DialogRight, Dialogs
  <2>3. props.dups[props.row] \in Files /\ props.dups[props.row] \in ToSet(props.dups)
    BY <2>1, <2>2 DEF Rows, ToSet
  <2> DEFINE song == props.dups[props.row]
  <2>4. song \in Files /\ song \in ToSet(lib.songs) /\ songs = <<song>>
    BY <2>2, <2>3
  <2> HIDE DEF song, songs
  <2>5. songs \in Seq(Files) /\ ToSet(songs) = {song}
    <3>1. DOMAIN songs = {1} /\ songs[1] = song
      BY <2>4
    <3> QED
      BY <2>4, <3>1 DEF ToSet
  <2>6. \A f : f \in ToSet(songs) => f \in ToSet(lib.songs)
    BY <2>4, <2>5
  <2> QED
    BY <2>1, <2>4, <2>5, <2>6, AskingKeeps DEF song
<1> QED
  BY <1>1, <1>2, <1>3 DEF PropsAction

(* Applying stores the tags, and closes the dialog or shows a message. *)
LEMMA LoopsKeep ==
  ASSUME WindowsInvariant, ask = NoAsk, UNCHANGED <<scans, ask>>, LoopEnds(lib', tbl'),
         props' \in Dialogs, DialogRight(lib', props')
  PROVE  Keeps
BY StepKeeps DEF WindowsInvariant, SongsStay, LoopEnds

LEMMA ApplyKeeps ==
  ASSUME WindowsInvariant, ask = NoAsk, props.open, NEW outcome, Apply(outcome)
  PROVE  Keeps
<1> DEFINE manual == [lib EXCEPT !.manual[props.hash] = props.manual]
<1>1. Agree(lib, tbl) /\ tbl \in TableStates /\ props \in Dialogs /\ DialogRight(lib, props)
  BY DEF WindowsInvariant, Agree
<1>2. manual \in LibStates /\ LoopEnds(manual, tbl) /\ manual.songs = lib.songs
  <2>1. props.hash \in Hashes /\ props.manual \in Tags
    BY <1>1 DEF DialogRight, Dialogs
  <2> QED
    BY <1>1, <2>1, ManualStored DEF LoopEnds
<1>3. /\ \/ ApplyBehind(0, manual, tbl, outcome)
         \/ lib' = manual /\ props' = [props EXCEPT !.message = "readOnly"] /\ tbl' = tbl
      /\ UNCHANGED <<scans, ask>>
  BY DEF Apply
<1> HIDE DEF manual
<1>4. CASE ApplyBehind(0, manual, tbl, outcome)
  <2>1. LoopEnds(lib', tbl') /\ props' \in Dialogs /\ DialogRight(lib', props')
    BY <1>1, <1>2, <1>4, AppliedTags
  <2> QED
    BY <1>3, <2>1, LoopsKeep
<1>5. CASE lib' = manual /\ props' = [props EXCEPT !.message = "readOnly"] /\ tbl' = tbl
  <2>1. props' \in Dialogs /\ SameFields(props, props') /\ props'.message = "readOnly"
    BY <1>1, <1>5 DEF Dialogs, Messages, SameFields
  <2>2. DialogRight(lib', props')
    BY <1>1, <1>2, <1>5, <2>1, MessageOver
  <2> QED
    BY <1>2, <1>3, <1>5, <2>1, <2>2, LoopsKeep
<1> QED
  BY <1>3, <1>4, <1>5

(* And so it goes on when the message has been answered. *)
LEMMA ApplyGoesOnKeeps ==
  ASSUME WindowsInvariant, ask = NoAsk, props.message # "none", NEW outcome, ApplyGoesOn(outcome)
  PROVE  Keeps
<1>1. /\ Agree(lib, tbl) /\ lib \in LibStates /\ tbl \in TableStates
      /\ props \in Dialogs /\ DialogRight(lib, props) /\ props.open
  BY DEF WindowsInvariant, Agree, DialogRight
<1>2. UNCHANGED <<scans, ask>> /\ props.message \in {"readOnly", "damaged", "noBackup"}
  BY <1>1 DEF ApplyGoesOn, Dialogs, Messages
<1>3. ASSUME NEW t \in TableStates, LoopEnds(lib, t), NEW first \in Nat, ApplyBehind(first, lib, t, outcome)
      PROVE  Keeps
  <2>1. LoopEnds(lib', tbl') /\ props' \in Dialogs /\ DialogRight(lib', props')
    BY <1>1, <1>3, AppliedTags
  <2> QED
    BY <1>2, <2>1, LoopsKeep
<1>4. LoopEnds(lib, tbl)
  BY <1>1 DEF LoopEnds
<1>5. CASE props.message = "readOnly"
  <2>1. ApplyBehind(0, lib, tbl, outcome)
    BY <1>5 DEF ApplyGoesOn
  <2> QED
    BY <1>1, <1>3, <1>4, <2>1
<1>6. CASE props.message = "damaged"
  <2> DEFINE f == props.dups[props.at]
             t1 == [tbl EXCEPT !.written = @ \cup {f}]
             t2 == Saved(lib, t1, f)
  <2>1. props.at \in 1..Len(props.dups) /\ props.at \in Nat /\ f \in Files
    BY <1>1, <1>6 DEF DialogRight, Dialogs
  <2>2. ApplyBehind(props.at, lib, t2, outcome)
    BY <1>6 DEF ApplyGoesOn, SavedAfterWrite
  <2> HIDE DEF f
  <2>3. t1 \in TableStates /\ WrittenOnly(tbl, t1, f) /\ SameBut(lib, lib, f)
    BY <1>1, <2>1 DEF TableStates, WrittenOnly, SameBut
  <2> HIDE DEF t1
  <2>4. Agree(lib, t2) /\ t2.open = tbl.open
    BY <1>1, <2>1, <2>3, SavedAgrees
  <2> HIDE DEF t2
  <2>5. t2 \in TableStates /\ LoopEnds(lib, t2)
    BY <2>4 DEF Agree, LoopEnds
  <2> QED
    BY <1>3, <2>1, <2>2, <2>5
<1>7. CASE props.message = "noBackup"
  <2>1. props' = [props EXCEPT !.message = "none"] /\ UNCHANGED <<lib, tbl>>
    BY <1>7 DEF ApplyGoesOn
  <2>2. props' \in Dialogs /\ SameFields(props, props') /\ props'.message = "none"
    BY <1>1, <2>1 DEF Dialogs, Messages, SameFields
  <2>3. DialogRight(lib', props')
    BY <1>1, <2>1, <2>2, MessageOver
  <2> QED
    BY <1>2, <1>4, <2>1, <2>2, <2>3, LoopsKeep
<1> QED
  BY <1>2, <1>5, <1>6, <1>7

(* The dialogs are opened. *)
LEMMA OpeningKeeps ==
  ASSUME WindowsInvariant, Opening
  PROVE  Keeps
<1>1. /\ lib \in LibStates /\ Once(lib.songs) /\ tbl \in TableStates /\ RowsAreSongs(lib, tbl)
      /\ ask = NoAsk
  BY DEF WindowsInvariant, Agree, Opening, Top
<1>2. ASSUME NEW song, song \in ToSet(lib.songs), props' = OpenProps(song), UNCHANGED <<lib, scans, tbl, ask>>
      PROVE  Keeps
  BY <1>1, <1>2, DialogOpens, DialogChangesKeep
<1>3. ASSUME NEW item \in win.items, OpenFromClassroom(item)
      PROVE  Keeps
  <2> DEFINE dups == Duplicates(lib, item.sd)
  <2>1. dups # <<>> /\ props' = OpenProps(dups[1]) /\ UNCHANGED <<lib, scans, tbl, ask>>
    BY <1>3 DEF OpenFromClassroom
  <2>2. dups \in Seq(Files) /\ \A f : f \in ToSet(dups) => f \in ToSet(lib.songs)
    BY <1>1, DuplicatesAreSongs
  <2> HIDE DEF dups
  <2>3. dups[1] \in ToSet(dups)
    BY <2>1, <2>2 DEF ToSet
  <2> QED
    BY <1>2, <2>1, <2>2, <2>3
<1>4. ASSUME NEW item, ShowSongs(item)
      PROVE  Keeps
  <2> DEFINE t == [NoTable EXCEPT !.open = TRUE]
  <2>1. tbl' = Refiltered(lib, t) /\ UNCHANGED <<lib, scans, ask, props>>
    BY <1>4 DEF ShowSongs, OpenTable
  <2>2. t \in TableStates /\ t.rows = <<>>
    <3>1. t.rows = <<>>
      BY DEF NoTable
    <3> QED
      BY <1>1, <3>1, NoTableAgrees
  <2> HIDE DEF t
  <2> QED
    BY <2>1, <2>2, RefilteringKeeps
<1>5. ASSUME NEW f \in Files, OpenFromTable(f)
      PROVE  Keeps
  <2>1. f \in ToSet(lib.songs) /\ props' = OpenProps(f) /\ UNCHANGED <<lib, scans, tbl, ask>>
    BY <1>1, <1>5 DEF OpenFromTable, RowsAreSongs
  <2> QED
    BY <1>2, <2>1
<1> QED
  BY <1>3, <1>4, <1>5 DEF Opening

LEMMA ClosingKeeps ==
  ASSUME WindowsInvariant, Closing
  PROVE  Keeps
<1>1. lib \in LibStates /\ Once(lib.songs) /\ ask = NoAsk
  BY DEF WindowsInvariant, Agree, Closing, Top
<1>2. CASE CloseTable /\ UNCHANGED <<lib, scans, ask, props>>
  <2>1. Agree(lib, tbl')
    BY <1>1, <1>2, NoTableAgrees DEF CloseTable
  <2> QED
    BY <1>2, <2>1, TableChangesKeep
<1>3. CASE props' = NoProps /\ UNCHANGED <<lib, scans, tbl, ask>>
  BY <1>1, <1>3, NoDialog, DialogChangesKeep
<1> QED
  BY <1>2, <1>3 DEF Closing

(* The classroom window leaves the songs and the dialogs alone, but asks about songs. *)
LEMMA ElsewhereKeeps ==
  ASSUME WindowsInvariant, UNCHANGED <<lib, scans, tbl, ask, props>>
  PROVE  Keeps
BY StepKeeps DEF WindowsInvariant, SongsStay

LEMMA ClassroomKeeps ==
  ASSUME WindowsInvariant, InClassroom, ~props.open
  PROVE  Keeps
<1>1. ASSUME NEW item, NEW delete \in BOOLEAN, AskToRemoveSong(item, delete)
      PROVE  Keeps
  <2> DEFINE dups == Duplicates(lib, item.sd)
  <2>1. ask' = [from |-> "classroom", songs |-> dups, delete |-> delete] /\ UNCHANGED <<lib, scans, tbl, props>>
    BY <1>1 DEF AskToRemoveSong
  <2>2. dups \in Seq(Files) /\ \A f : f \in ToSet(dups) => f \in ToSet(lib.songs)
    BY DuplicatesAreSongs DEF WindowsInvariant, Agree
  <2> HIDE DEF dups
  <2> QED
    BY <2>1, <2>2, AskingKeeps
<1>2. ASSUME UNCHANGED <<lib, scans, tbl, ask, props>>
      PROVE  Keeps
  BY <1>2, ElsewhereKeeps
<1>3. ASSUME NEW tag, SelectFilter(tag) \/ TypeSongSearch(tag) \/ EditLimit(tag) \/ TempoSet(tag)
      PROVE  Keeps
  BY <1>2, <1>3 DEF SelectFilter, TypeSongSearch, EditLimit, TempoSet
<1>4. ASSUME ClickLimit
      PROVE  Keeps
  BY <1>2, <1>4 DEF ClickLimit
<1>5. ASSUME NEW item, NEW own, StartPlayingSong(item, own)
      PROVE  Keeps
  BY <1>2, <1>5 DEF StartPlayingSong
<1> QED
  BY <1>1, <1>3, <1>4, <1>5 DEF InClassroom

(* The answer: the songs that were asked about go, the others stay, and the dialog that      *)
(* asked loses the row of the song.                                                          *)
OnlyTheChosen ==
  LET removed == ToSet(lib.songs) \ ToSet(lib'.songs)
      deleted == {f \in Files : lib.disk[f] # Gone /\ lib'.disk[f] = Gone}
  IN /\ removed # {} => ask # NoAsk /\ ask' = NoAsk /\ removed = ToSet(ask.songs)
     /\ deleted # {} => ask.delete /\ deleted \subseteq removed

LEMMA NothingRemoved == ASSUME SongsStay PROVE OnlyTheChosen
<1>1. ToSet(lib.songs) \ ToSet(lib'.songs) = {} /\ {f \in Files : lib.disk[f] # Gone /\ lib'.disk[f] = Gone} = {}
  BY DEF SongsStay
<1> QED
  BY <1>1 DEF OnlyTheChosen

LEMMA AnswerRemoves ==
  ASSUME WindowsInvariant, NEW yes \in BOOLEAN, Answer(yes)
  PROVE  WindowsInvariant' /\ OnlyTheChosen
<1>1. /\ Agree(lib, tbl) /\ ask \in Questions /\ props \in Dialogs /\ DialogRight(lib, props) /\ AskedRight
      /\ scans \in [Files -> Tags \cup {Idle, Queued}]
  BY DEF WindowsInvariant
<1>2. ask # NoAsk /\ ask' = NoAsk /\ scans' = scans
  BY DEF Answer
<1>3. ask' \in Questions /\ AskedRight'
  BY <1>2 DEF AskedRight, NoAsk, Questions
<1>4. CASE yes
  <2> DEFINE fs == ask.songs
             delete == ask.delete
  <2>8. PICK deleted \in IF delete THEN SUBSET ToSet(fs) ELSE {{}} :
          LET end == RemoveAll([l |-> lib, t |-> tbl], fs, deleted)
          IN /\ lib' = end.l /\ tbl' = end.t
             /\ props' = IF ask.from = "properties" THEN WithoutRow(props, delete) ELSE props
    BY <1>4 DEF Answer
  <2> DEFINE end == RemoveAll([l |-> lib, t |-> tbl], fs, deleted)
  <2>1. /\ lib' = end.l /\ tbl' = end.t
        /\ props' = IF ask.from = "properties" THEN WithoutRow(props, delete) ELSE props
    BY <2>8
  <2>9. deleted # {} => delete
    BY <2>8
  <2>2. fs \in Seq(Files) /\ delete \in BOOLEAN /\ \A f : f \in ToSet(fs) => f \in ToSet(lib.songs)
    BY <1>1, <1>2 DEF Questions, AskedRight
  <2> HIDE DEF fs, delete
  <2>3. /\ Agree(end.l, end.t)
        /\ \A x : x \in ToSet(end.l.songs) <=> x \in ToSet(lib.songs) /\ x \notin ToSet(fs)
        /\ \A g \in Files : end.l.disk[g] = IF g \in deleted /\ g \in ToSet(fs) THEN Gone ELSE lib.disk[g]
    BY <1>1, <2>2, RemovedSongs
  <2> HIDE DEF end
  <2>4. /\ Agree(lib', tbl')
        /\ \A x : x \in ToSet(lib'.songs) <=> x \in ToSet(lib.songs) /\ x \notin ToSet(fs)
        /\ \A g \in Files : lib'.disk[g] = IF g \in deleted /\ g \in ToSet(fs) THEN Gone ELSE lib.disk[g]
    BY <2>1, <2>3
  <2>5. ToSet(lib.songs) \ ToSet(lib'.songs) = ToSet(fs)
    BY <2>2, <2>4
  <2>6. OnlyTheChosen
    <3> DEFINE lost == {f \in Files : lib.disk[f] # Gone /\ lib'.disk[f] = Gone}
    <3>1. \A f \in lost : f \in deleted /\ f \in ToSet(fs)
      BY <2>4
    <3> HIDE DEF lost
    <3>2. lost # {} => delete /\ lost \subseteq ToSet(fs)
      BY <2>9, <3>1
    <3> QED
      BY <1>2, <2>5, <3>2 DEF OnlyTheChosen, lost, fs, delete
  <2>7. props' \in Dialogs /\ DialogRight(lib', props')
    <3>1. CASE ask.from = "properties"
      <4>1. props.open /\ props.message = "none" /\ props.row \in Rows(props) /\ fs = <<props.dups[props.row]>>
        BY <1>1, <1>2, <3>1 DEF AskedRight, fs
      <4>2. \A f : f \in ToSet(fs) <=> f = props.dups[props.row]
        <5> DEFINE song == props.dups[props.row]
        <5>1. fs = <<song>>
          BY <4>1
        <5> HIDE DEF song
        <5>2. DOMAIN fs = {1} /\ fs[1] = song
          BY <5>1
        <5>3. \A f : f \in ToSet(fs) <=> f = song
          BY <5>2 DEF ToSet
        <5> QED
          BY <5>3 DEF song
      <4>3. \A f : f \in ToSet(lib'.songs) <=> f \in ToSet(lib.songs) /\ f # props.dups[props.row]
        BY <2>4, <4>2
      <4>4. WithoutRow(props, delete) \in Dialogs /\ DialogRight(lib', WithoutRow(props, delete))
        BY <1>1, <2>2, <4>1, <4>3, RowRemoved
      <4> QED
        BY <2>1, <3>1, <4>4
    <3>2. CASE ask.from # "properties"
      <4>1. ~props.open /\ props' = props
        BY <1>1, <1>2, <2>1, <3>2 DEF AskedRight
      <4> QED
        BY <1>1, <4>1 DEF DialogRight
    <3> QED
      BY <3>1, <3>2
  <2> QED
    BY <1>1, <1>2, <1>3, <2>4, <2>6, <2>7 DEF WindowsInvariant
<1>5. CASE ~yes
  <2>1. lib' = lib /\ tbl' = tbl /\ props' = props
    BY <1>5 DEF Answer
  <2>2. OnlyTheChosen
    BY <2>1, NothingRemoved DEF SongsStay
  <2>3. Agree(lib', tbl') /\ props' \in Dialogs /\ DialogRight(lib', props')
    BY <1>1, <2>1
  <2> QED
    BY <1>1, <1>2, <1>3, <2>2, <2>3 DEF WindowsInvariant
<1> QED
  BY <1>4, <1>5

-----------------------------------------------------------------------------
(* The theorems. *)

LEMMA WindowsStart == Init => WindowsInvariant
<1> SUFFICES ASSUME Init
             PROVE  WindowsInvariant
  OBVIOUS
<1>1. PICK all \in SetToSeqs(Files), n \in (Cardinality(Files) - 1)..Cardinality(Files) :
        lib = [songs |-> SubSeq(all, 1, n), id3 |-> [f \in Files |-> 0],
               disk |-> [f \in Files |-> 0], manual |-> [h \in Hashes |-> 1],
               rating |-> [h \in Hashes |-> 0]]
  BY DEF Init, LibraryInit
<1>2. Cardinality(Files) \in Nat
  BY SongTableAssumption, FS_CardinalityType
<1> DEFINE c == Cardinality(Files)
<1>3. all \in [1..c -> Files] /\ \A i, j \in 1..c : i # j => all[i] # all[j]
  BY <1>1 DEF SetToSeqs
<1>4. n \in Int /\ n <= c /\ n >= c - 1
  BY <1>1, <1>2
<1> HIDE DEF c
<1> DEFINE songs == SubSeq(all, 1, n)
<1>5. c \in Nat /\ all \in Seq(Files) /\ Len(all) = c
  BY <1>2, <1>3 DEF c
<1>6. songs \in Seq(Files) /\ Once(songs)
  <2>1. \A k \in 1..n : k \in 1..c
    BY <1>4, <1>5
  <2>2. \A k \in 1..n : all[k] \in Files
    BY <1>3, <2>1
  <2>3. /\ songs \in Seq(Files) /\ Len(songs) = IF 1 <= n THEN n ELSE 0
        /\ \A k \in 1..n : songs[k] = all[k]
    BY <1>4, <2>2, SubSeqProperties
  <2> HIDE DEF songs
  <2>4. DOMAIN songs = 1..n
    BY <1>4, <2>3
  <2>5. Once(songs)
    BY <1>3, <2>1, <2>3, <2>4 DEF Once
  <2> QED
    BY <2>3, <2>5
<1> HIDE DEF songs
<1>7. lib \in LibStates /\ lib.songs = songs
  <2>1. 0 \in Tags /\ 1 \in Tags /\ 0 \in 0..MaxRating
    BY SongTableAssumption DEF Tags
  <2> QED
    BY <1>1, <1>6, <2>1 DEF LibStates, songs
<1>8. scans = [f \in Files |-> Idle] /\ tbl = NoTable /\ ask = NoAsk /\ props = NoProps
  BY DEF Init, LibraryInit
<1>9. Agree(lib, tbl)
  BY <1>6, <1>7, <1>8, NoTableAgrees
<1>10. ask \in Questions /\ AskedRight /\ scans \in [Files -> Tags \cup {Idle, Queued}]
  <2>1. NoAsk \in Questions
    BY DEF NoAsk, Questions
  <2> QED
    BY <1>8, <2>1 DEF AskedRight
<1> QED
  BY <1>8, <1>9, <1>10, NoDialog DEF WindowsInvariant

LEMMA StepsKeep ==
  ASSUME WindowsInvariant, [Next]_vars
  PROVE  WindowsInvariant' /\ OnlyTheChosen
<1>1. ASSUME Keeps
      PROVE  WindowsInvariant' /\ OnlyTheChosen
  BY <1>1, NothingRemoved DEF Keeps
<1>2. CASE UserAction
  <2>1. CASE Top = "classroom" /\ InClassroom
    <3>1. ~props.open
      BY <2>1 DEF Top
    <3> QED
      BY <1>1, <2>1, <3>1, ClassroomKeeps
  <2>2. CASE Top = "table" /\ InTable
    <3>1. ~props.open /\ TableAction /\ props' = props
      BY <2>2 DEF Top, InTable
    <3> QED
      BY <1>1, <3>1, TableActionKeeps
  <2>3. CASE Top = "properties" /\ InProps
    <3>1. ask = NoAsk /\ props.open /\ props.message = "none"
      BY <2>3 DEF Top
    <3>2. ASSUME NEW outcome, Apply(outcome)
          PROVE  WindowsInvariant' /\ OnlyTheChosen
      BY <1>1, <3>1, <3>2, ApplyKeeps
    <3>3. CASE PropsAction
      BY <1>1, <3>1, <3>3, PropsActionKeeps
    <3> QED
      BY <2>3, <3>2, <3>3 DEF InProps
  <2> QED
    BY <1>2, <2>1, <2>2, <2>3 DEF UserAction
<1>3. CASE PlayerAction
  <2>1. UNCHANGED <<lib, scans, tbl, ask, props>>
    BY <1>3 DEF PlayerAction, LimitInPlaylist, TrackChanges, PlayerStops
  <2> QED
    BY <1>1, <2>1, ElsewhereKeeps
<1>4. CASE LibraryAction
  <2>1. PICK f \in Files : SongAdded(f) /\ props' = props
    BY <1>4 DEF LibraryAction
  <2> QED
    BY <1>1, <2>1, SongAddedKeeps
<1>5. CASE Opening
  BY <1>1, <1>5, OpeningKeeps
<1>6. CASE Closing
  BY <1>1, <1>6, ClosingKeeps
<1>7. CASE ScanAction
  <2>1. PICK f \in Files : (ScanReads(f) \/ ScanStores(f)) /\ props' = props
    BY <1>7 DEF ScanAction
  <2> QED
    BY <1>1, <2>1, ScanKeeps
<1>12. CASE MessageAnswered
  <2>1. ask = NoAsk /\ props.message # "none" /\ \E outcome : ApplyGoesOn(outcome)
    BY <1>12 DEF MessageAnswered, Top
  <2> QED
    BY <1>1, <2>1, ApplyGoesOnKeeps
<1>8. CASE \E yes \in BOOLEAN : Answer(yes)
  BY <1>8, AnswerRemoves
<1>9. CASE TableTick /\ props' = props
  BY <1>1, <1>9, TableTickKeeps
<1>10. CASE ClassroomTick
  <2>1. UNCHANGED <<lib, scans, tbl, ask, props>>
    BY <1>10 DEF ClassroomTick
  <2> QED
    BY <1>1, <2>1, ElsewhereKeeps
<1>11. CASE UNCHANGED vars
  <2>1. UNCHANGED <<lib, scans, tbl, ask, props>>
    BY <1>11 DEF vars
  <2> QED
    BY <1>1, <2>1, ElsewhereKeeps
<1> QED
  BY <1>2, <1>3, <1>4, <1>5, <1>6, <1>7, <1>8, <1>9, <1>10, <1>11, <1>12 DEF Next

(* In every behaviour the table agrees with the library, the dialog of the properties with   *)
(* its rows, and a question with the songs that are there to be removed.                     *)
THEOREM WindowsAgree == Spec => []WindowsInvariant
<1>1. Init => WindowsInvariant
  BY WindowsStart
<1>2. WindowsInvariant /\ [Next]_vars => WindowsInvariant'
  BY StepsKeep
<1> QED
  BY <1>1, <1>2, PTL DEF Spec

(* The rows of the table of the songs (SongModel.cpp, DlgSongs.cpp) are songs of the library, *)
(* each once, however filtering, sorting, saving in loops over rows that move, removing,      *)
(* hashing and scanning follow one another; without a filter they are all of them.            *)
THEOREM TableAlwaysFollows == Spec => []TableFollowsLibrary
<1>1. WindowsInvariant => TableFollowsLibrary
  <2> SUFFICES ASSUME WindowsInvariant, tbl.open
               PROVE  TableFollowsLibrary
    BY DEF TableFollowsLibrary
  <2>1. tbl \in TableStates /\ RowsAreSongs(lib, tbl) /\ ShowsLibrary(lib, tbl)
    BY DEF WindowsInvariant, Agree
  <2>2. ToSet(tbl.rows) \subseteq Files
    BY <2>1 DEF TableStates, ToSet
  <2>3. ToSet(tbl.rows) \subseteq ToSet(lib.songs)
    BY <2>1 DEF RowsAreSongs
  <2>4. tbl.flt = "all" /\ tbl.search = 0 => ToSet(tbl.rows) = ToSet(lib.songs)
    BY <2>1, <2>3 DEF ShowsLibrary
  <2>5. tbl.flt = "noId3" => \A f \in tbl.written \cap ToSet(tbl.rows) : lib.id3[f] = 0
    BY <2>1, <2>2 DEF ShowsLibrary
  <2>6. \A i, j \in DOMAIN tbl.rows : tbl.rows[i] = tbl.rows[j] => i = j
    BY <2>1 DEF RowsAreSongs, Once
  <2>7. tbl.total = Len(lib.songs)
    BY <2>1 DEF ShowsLibrary
  <2> QED
    BY <2>3, <2>4, <2>5, <2>6, <2>7 DEF TableFollowsLibrary
<1> QED
  BY <1>1, WindowsAgree, PTL

(* The dialog of the properties (DlgSongProperties.cpp) shows the file of its current row, in *)
(* spite of the calls that a removal of a row nests and of any number of duplicates.          *)
THEOREM FieldsAlwaysOfRow == Spec => []FieldsOfSelectedRow
<1>1. WindowsInvariant => FieldsOfSelectedRow
  BY DEF WindowsInvariant, DialogRight, FieldsOfSelectedRow
<1> QED
  BY <1>1, WindowsAgree, PTL

(* Songs leave the library only when the user says yes (DlgSongs.cpp, DlgSongProperties.cpp,  *)
(* ClassroomWindow.cpp), and then exactly the songs of the question do; a file goes from the  *)
(* disk only with its song, and only if the user asked for that.                              *)
THEOREM OnlyChosenRemoved == Spec => RemovesTheChosen
<1>1. WindowsInvariant /\ [Next]_vars => [OnlyTheChosen]_vars
  BY StepsKeep
<1>2. Spec => [][OnlyTheChosen]_vars
  BY <1>1, WindowsAgree, PTL DEF Spec
<1> QED
  BY <1>2, PTL DEF RemovesTheChosen, OnlyTheChosen
=============================================================================
