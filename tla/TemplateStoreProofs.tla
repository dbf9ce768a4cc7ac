-------------------------- MODULE TemplateStoreProofs --------------------------
(***************************************************************************)
(* Proofs about TemplateStore.tla, for any templates and filters and any   *)
(* bounds: whatever the user changes, and wherever the program ends, the   *)
(* dialogs show what the next start shows (TemplatesAlwaysStored), and     *)
(* the whole implements the shelf of TemplateShelf.tla                     *)
(* (StoreKeepsTheShelf).                                                   *)
(*                                                                         *)
(* The invariant looks ahead.  Writes says that the statements a slot has  *)
(* yet to execute lead, one by one and none of them refused, from the      *)
(* tables as they are to tables that hold what the lists show (Stored),    *)
(* and that every state of the tables on the way there is one the next     *)
(* start can do with (Snapshots): no template in it has other items than   *)
(* its former ones or the first few of its new ones, and none refers to a  *)
(* filter that is missing (Midway).  Executing a statement then only       *)
(* shortens the way, a restart finds one of those states, and each slot is *)
(* a lemma about the list of statements it is about to write.              *)
(*                                                                         *)
(* First come what the data are made of: recursive functions, parts of     *)
(* lists, the listing of a table by its positions, and tables.             *)
(***************************************************************************)
EXTENDS TemplateStore, SequenceTheorems, FiniteSetTheorems, TLAPS

(* Induction over a range of numbers, for sets of them. *)
LEMMA RangeInduction ==
  ASSUME NEW lo \in Int, NEW hi \in Int, NEW P, lo \in P,
         \A k \in (lo + 1)..hi : k - 1 \in P => k \in P
  PROVE  \A k \in lo..hi : k \in P
<1> SUFFICES ASSUME NEW k \in lo..hi, k \notin P
             PROVE  FALSE
  OBVIOUS
<1> DEFINE Failing == {m \in Nat : lo + m \in (lo..hi) \ P}
           R == {x \in Nat \X Nat : x[1] < x[2]}
<1>1. k - lo \in Nat /\ lo + (k - lo) = k
  OBVIOUS
<1>2. k - lo \in Failing
  BY <1>1
<1>3. IsWellFoundedOn(R, Nat)
  BY NatLessThanWellFounded DEF OpToRel
<1>4. PICK m \in Failing : \A y \in Failing : ~(<<y, m>> \in R)
  <2>1. Failing \subseteq Nat /\ Failing # {}
    BY <1>2
  <2> HIDE DEF R, Failing
  <2> QED
    BY <1>3, <2>1, WFMin
<1>5. m \in Nat /\ lo + m \in lo..hi /\ lo + m \notin P
  BY <1>4
<1>6. m # 0
  BY <1>5
<1>7. m - 1 \in Nat /\ lo + (m - 1) = (lo + m) - 1 /\ lo + m \in (lo + 1)..hi /\ lo + (m - 1) \in lo..hi
  BY <1>5, <1>6
<1>8. lo + (m - 1) \notin P
  BY <1>5, <1>7
<1>9. m - 1 \in Failing /\ <<m - 1, m>> \in R
  BY <1>5, <1>7, <1>8
<1> QED
  BY <1>4, <1>9

(* A function given by its first value and a step from each value to the next exists. *)
Recursion(V, lo, hi, base, step) ==
  /\ lo \in Int /\ hi \in Int /\ lo <= hi
  /\ base \in V
  /\ step \in [((lo + 1)..hi) \X V -> V]

(* f is the function with the first value base and the given step. *)
Follows(f, V, lo, hi, base, step) ==
  /\ f \in [lo..hi -> V]
  /\ \A k \in lo..hi : f[k] = IF k = lo THEN base ELSE step[<<k, f[k - 1]>>]

(* By induction on the range: f follows up to k for each k. *)
LEMMA RecursionExists ==
  ASSUME NEW V, NEW lo, NEW hi, NEW base, NEW step, Recursion(V, lo, hi, base, step)
  PROVE  \E f : Follows(f, V, lo, hi, base, step)
<1> USE DEF Recursion
<1> DEFINE Steps(f, m) == \A k \in lo..m : f[k] = IF k = lo THEN base ELSE step[<<k, f[k - 1]>>]
           Defined == {m \in lo..hi : \E f \in [lo..m -> V] : Steps(f, m)}
<1>1. lo \in Defined
  <2> DEFINE f == [k \in lo..lo |-> base]
  <2>1. f \in [lo..lo -> V] /\ Steps(f, lo) /\ lo \in lo..hi
    OBVIOUS
  <2> QED
    BY <2>1
<1>2. ASSUME NEW m \in (lo + 1)..hi, m - 1 \in Defined
      PROVE  m \in Defined
  <2>1. PICK f \in [lo..(m - 1) -> V] : Steps(f, m - 1)
    BY <1>2
  <2> DEFINE g == [k \in lo..m |-> IF k = m THEN step[<<m, f[m - 1]>>] ELSE f[k]]
  <2>2. m \in Int /\ m - 1 \in lo..(m - 1) /\ \A k \in lo..m : k = m \/ k \in lo..(m - 1)
    OBVIOUS
  <2>3. step[<<m, f[m - 1]>>] \in V
    BY <2>2
  <2>4. g \in [lo..m -> V]
    BY <2>2, <2>3
  <2>5. ASSUME NEW k \in lo..m
        PROVE  g[k] = IF k = lo THEN base ELSE step[<<k, g[k - 1]>>]
    <3>1. CASE k = m
      <4>1. g[k] = step[<<m, f[m - 1]>>] /\ g[k - 1] = f[m - 1] /\ k # lo
        BY <2>2, <3>1
      <4> QED
        BY <3>1, <4>1
    <3>2. CASE k # m
      <4>1. k \in lo..(m - 1) /\ g[k] = f[k]
        BY <2>2, <3>2
      <4>2. k # lo => k - 1 \in lo..m /\ k - 1 # m /\ g[k - 1] = f[k - 1]
        BY <2>2, <4>1
      <4> HIDE DEF g
      <4> QED
        BY <2>1, <4>1, <4>2
    <3> QED
      BY <3>1, <3>2
  <2>6. m \in lo..hi
    OBVIOUS
  <2> HIDE DEF g
  <2> QED
    BY <2>4, <2>5, <2>6
<1> HIDE DEF Defined
<1>3. \A m \in lo..hi : m \in Defined
  BY <1>1, <1>2, RangeInduction
<1>4. hi \in Defined
  BY <1>3
<1> QED
  BY <1>4 DEF Defined, Follows

(* The same from 0 on. *)
LEMMA CountInduction ==
  ASSUME NEW n \in Nat, NEW P, 0 \in P, \A k \in 1..n : k - 1 \in P => k \in P
  PROVE  \A k \in 0..n : k \in P
<1>1. 0 \in Int /\ n \in Int /\ (0 + 1)..n = 1..n
  OBVIOUS
<1> QED
  BY <1>1, RangeInduction

-----------------------------------------------------------------------------

(* The elements of a list that are in a set. *)
LEMMA AmongElements ==
  ASSUME NEW T, NEW s \in Seq(T), NEW S
  PROVE  /\ Among(s, S) \in Seq(T)
         /\ Range(Among(s, S)) = Range(s) \cap S
         /\ Range(s) \subseteq S => Among(s, S) = s
<1> DEFINE N == Len(s)
           V == Seq(T)
           After(k, v) == IF s[k] \in S THEN Append(v, s[k]) ELSE v
           F(f) == [n \in 0..N |-> IF n = 0 THEN <<>> ELSE IF s[n] \in S THEN Append(f[n - 1], s[n]) ELSE f[n - 1]]
           Kept == CHOOSE f : f = F(f)
<1>1. Among(s, S) = Kept[N]
  BY DEF Among
<1>2. N \in Nat /\ (\A k \in 1..N : s[k] \in T) /\ Range(s) = {s[j] : j \in 1..N}
  BY DEF Range
<1>3. \A k \in 1..N, v \in V : After(k, v) \in V
  BY <1>2
<1> HIDE DEF N
<1>4. \E f : f = F(f)
  <2> DEFINE step == [x \in (1..N) \X V |-> After(x[1], x[2])]
  <2>1. step \in [(1..N) \X V -> V] /\ \A k \in 1..N, v \in V : step[<<k, v>>] = After(k, v)
    BY <1>3
  <2>2. <<>> \in V
    OBVIOUS
  <2> HIDE DEF step, V
  <2>3. Recursion(V, 0, N, <<>>, step)
    BY <1>2, <2>1, <2>2 DEF Recursion
  <2>4. PICK f : Follows(f, V, 0, N, <<>>, step)
    BY <2>3, RecursionExists
  <2>5. f \in [0..N -> V] /\ \A k \in 0..N : f[k] = IF k = 0 THEN <<>> ELSE step[<<k, f[k - 1]>>]
    BY <2>4 DEF Follows
  <2>6. \A k \in 0..N : k # 0 => k \in 1..N /\ k - 1 \in 0..N
    BY <1>2
  <2>7. \A k \in 0..N : f[k] = IF k = 0 THEN <<>> ELSE After(k, f[k - 1])
    BY <2>1, <2>5, <2>6
  <2>8. f = F(f)
    BY <2>5, <2>7
  <2> QED
    BY <2>8
<1>5. Kept = F(Kept)
  BY <1>4
<1> HIDE DEF Kept
<1>6. Kept[0] = <<>> /\ \A k \in 1..N : Kept[k] = After(k, Kept[k - 1])
  <2>1. 0 \in 0..N /\ \A k \in 1..N : k \in 0..N /\ k # 0
    BY <1>2
  <2>2. \A k \in 0..N : Kept[k] = IF k = 0 THEN <<>> ELSE After(k, Kept[k - 1])
    BY <1>5
  <2> QED
    BY <2>1, <2>2
<1> DEFINE Whole(k) == \A j \in 1..k : s[j] \in S
           Ok(k) == /\ Kept[k] \in V
                    /\ Range(Kept[k]) = {s[j] : j \in 1..k} \cap S
                    /\ Whole(k) => Len(Kept[k]) = k /\ \A j \in 1..k : Kept[k][j] = s[j]
           P == {k \in 0..N : Ok(k)}
<1>7. 0 \in P
  <2>1. 1..0 = {} /\ 0 \in 0..N
    BY <1>2
  <2>2. <<>> \in V /\ Len(<<>>) = 0 /\ Range(<<>>) = {}
    BY DEF Range
  <2> HIDE DEF V
  <2>3. Ok(0)
    BY <1>6, <2>1, <2>2
  <2> QED
    BY <2>1, <2>3
<1>8. \A k \in 1..N : k - 1 \in P => k \in P
  <2> SUFFICES ASSUME NEW k \in 1..N, Ok(k - 1)
               PROVE  Ok(k)
    <3> HIDE DEF Ok
    <3>1. \A k \in 1..N : k \in 0..N
      BY <1>2
    <3> QED
      BY <3>1
  <2> DEFINE v == Kept[k - 1]
             r == Kept[k]
  <2>1. k \in Nat /\ 1..k = 1..(k - 1) \cup {k} /\ k \notin 1..(k - 1) /\ s[k] \in T
    BY <1>2
  <2>2. v \in V /\ Range(v) = {s[j] : j \in 1..(k - 1)} \cap S /\ r = After(k, v)
    BY <1>6
  <2>3. {s[j] : j \in 1..k} = {s[j] : j \in 1..(k - 1)} \cup {s[k]}
    BY <2>1
  <2>4. CASE s[k] \in S
    <3>1. r = Append(v, s[k])
      BY <2>2, <2>4
    <3>2. /\ r \in Seq(T) /\ Len(r) = Len(v) + 1 /\ Len(v) \in Nat
          /\ \A j \in 1..Len(v) : r[j] = v[j]
          /\ r[Len(v) + 1] = s[k]
      BY <2>1, <2>2, <3>1
    <3>3. Range(r) = Range(v) \cup {s[k]}
      <4>1. DOMAIN r = 1..Len(v) \cup {Len(v) + 1} /\ DOMAIN v = 1..Len(v)
        BY <2>2, <3>2
      <4> HIDE DEF v, r
      <4>2. \A j \in DOMAIN r : r[j] \in Range(v) \cup {s[k]}
        BY <3>2, <4>1 DEF Range
      <4>3. \A j \in DOMAIN v : v[j] \in Range(r)
        BY <3>2, <4>1 DEF Range
      <4>4. s[k] \in Range(r)
        BY <3>2, <4>1 DEF Range
      <4> QED
        BY <4>2, <4>3, <4>4, Zenon DEF Range
    <3>4. Range(r) = {s[j] : j \in 1..k} \cap S
      BY <2>2, <2>3, <2>4, <3>3
    <3>5. ASSUME Whole(k)
          PROVE  Len(r) = k /\ \A j \in 1..k : r[j] = s[j]
      <4>1. Len(v) = k - 1 /\ \A j \in 1..(k - 1) : v[j] = s[j]
        BY <2>1, <3>5
      <4> QED
        BY <2>1, <3>2, <4>1
    <3> QED
      BY <3>2, <3>4, <3>5
  <2>5. CASE s[k] \notin S
    <3>1. r = v /\ ~Whole(k)
      BY <2>1, <2>2, <2>5
    <3>2. Range(r) = {s[j] : j \in 1..k} \cap S
      BY <2>2, <2>3, <2>5, <3>1
    <3> QED
      BY <2>2, <3>1, <3>2
  <2> QED
    BY <2>4, <2>5
<1>9. Ok(N)
  <2> HIDE DEF P
  <2>1. \A k \in 0..N : k \in P
    BY <1>2, <1>7, <1>8, CountInduction
  <2>2. N \in 0..N
    BY <1>2
  <2> QED
    BY <2>1, <2>2 DEF P
<1>10. ASSUME Range(s) \subseteq S
       PROVE  Kept[N] = s
  <2>1. Whole(N)
    BY <1>2, <1>10
  <2>2. Kept[N] \in Seq(T) /\ Len(Kept[N]) = N /\ \A j \in 1..N : Kept[N][j] = s[j]
    BY <1>9, <2>1
  <2> QED
    BY <2>2, SeqEqual DEF N
<1> QED
  BY <1>1, <1>2, <1>9, <1>10

(* Max() of numbers that are bounded. *)
LEMMA MaxIsGreatest ==
  ASSUME NEW n \in Nat, NEW S \in SUBSET (0..n), S # {}
  PROVE  Max(S) \in S /\ \A y \in S : y <= Max(S)
<1>1. \E x \in S : \A y \in S : x >= y
  <2> SUFFICES ASSUME \A x \in S : \E y \in S : ~(x >= y) PROVE FALSE
    OBVIOUS
  <2> DEFINE P == {k \in 0..n : \E y \in S : y >= k}
  <2>1. \A y \in S : y \in 0..n
    OBVIOUS
  <2>2. 0 \in P
    <3>1. PICK y \in S : TRUE
      OBVIOUS
    <3>2. y \in 0..n /\ y >= 0 /\ 0 \in 0..n
      BY <2>1
    <3> QED
      BY <3>2
  <2>3. \A k \in 1..n : k - 1 \in P => k \in P
    <3> SUFFICES ASSUME NEW k \in 1..n, k - 1 \in P PROVE \E y \in S : y >= k
      BY DEF P
    <3>1. PICK y \in S : y >= k - 1
      OBVIOUS
    <3>2. PICK z \in S : ~(y >= z)
      OBVIOUS
    <3> QED
      BY <2>1, <3>1, <3>2
  <2>4. n \in P
    <3> HIDE DEF P
    <3>1. \A k \in 0..n : k \in P
      BY <2>2, <2>3, CountInduction
    <3> QED
      BY <3>1
  <2>5. PICK y \in S : y >= n
    BY <2>4
  <2>6. PICK z \in S : ~(y >= z)
    OBVIOUS
  <2> QED
    BY <2>1, <2>5, <2>6
<1>2. Max(S) \in S /\ \A y \in S : Max(S) >= y
  BY <1>1 DEF Max
<1> QED
  BY <1>2

(* A row number of a table is one that no row has. *)
Bounded(S) == \E n \in Nat : S \subseteq 0..n

(* The row number that SQLite gives to a new row has not been in the table. *)
LEMMA NewRowIsFresh ==
  ASSUME NEW table, Bounded(DOMAIN table)
  PROVE  NewRowId(table) \in Nat /\ \A id \in DOMAIN table : id < NewRowId(table)
<1> DEFINE S == DOMAIN table \cup {0}
<1>1. PICK n \in Nat : DOMAIN table \subseteq 0..n
  BY DEF Bounded
<1>2. S \in SUBSET (0..n) /\ S # {}
  BY <1>1
<1>3. NewRowId(table) = 1 + Max(S)
  BY DEF NewRowId
<1> HIDE DEF S
<1>4. Max(S) \in S /\ \A y \in S : y <= Max(S)
  BY <1>2, MaxIsGreatest
<1> DEFINE m == Max(S)
<1>5. m \in S /\ \A y \in S : y <= m
  BY <1>4
<1> HIDE DEF m
<1>6. m \in Nat /\ \A y \in S : y \in Nat
  BY <1>2, <1>5
<1>7. NewRowId(table) = 1 + m
  BY <1>3 DEF m
<1>8. \A id \in DOMAIN table : id \in S
  BY DEF S
<1>9. \A id \in DOMAIN table : id \in Nat /\ id <= m
  BY <1>5, <1>6, <1>8
<1>10. 1 + m \in Nat /\ \A id \in DOMAIN table : id < 1 + m
  BY <1>6, <1>9
<1> QED
  BY <1>7, <1>10

(* The next start lists every row of a table, and each once. *)
LEMMA ListedRows ==
  ASSUME NEW D, Bounded(D), NEW position \in [D -> Int]
  PROVE  /\ Listed(position) \in Seq(D)
         /\ Range(Listed(position)) = D
         /\ \A i, j \in DOMAIN Listed(position) : i < j => Before(position, Listed(position)[i], Listed(position)[j])
         /\ \A i, j \in DOMAIN Listed(position) : Listed(position)[i] = Listed(position)[j] => i = j
<1>1. PICK n \in Nat : D \subseteq 0..n
  BY DEF Bounded
<1>0. \A id \in D : id \in Nat /\ id <= n
  BY <1>1
<1> DEFINE Below(k) == {id \in D : id < k}
           Sorted(l, S) == /\ l \in [1..Cardinality(S) -> S] /\ Range(l) = S
                           /\ \A i, j \in DOMAIN l : i < j => Before(position, l[i], l[j])
           P == {k \in 0..(n + 1) : \E l : Sorted(l, Below(k))}
<1>2. \A k \in 0..(n + 1) : IsFiniteSet(Below(k)) /\ Cardinality(Below(k)) \in Nat
  <2> TAKE k \in 0..(n + 1)
  <2>1. IsFiniteSet(0..n)
    <3>1. 0 \in Int /\ n \in Int
      BY <1>1
    <3> QED
      BY <3>1, FS_Interval
  <2>2. Below(k) \subseteq 0..n
    BY <1>1
  <2> HIDE DEF Below
  <2> QED
    BY <2>1, <2>2, FS_Subset, FS_CardinalityType
<1>3. 0 \in P
  <2>1. Below(0) = {}
    <3>1. \A id \in D : ~(id < 0)
      BY <1>0
    <3> QED
      BY <3>1
  <2> DEFINE l == [i \in 1..0 |-> 0]
  <2>2. Cardinality({}) = 0
    BY FS_EmptySet
  <2>3. Sorted(l, {})
    <3>1. 1..0 = {}
      OBVIOUS
    <3>2. DOMAIN l = {} /\ l \in [1..0 -> {}]
      BY <3>1
    <3>3. Range(l) = {}
      BY <3>2 DEF Range
    <3> HIDE DEF l
    <3> QED
      BY <2>2, <3>2, <3>3
  <2>4. 0 \in 0..(n + 1)
    BY <1>1
  <2> HIDE DEF l, Sorted, Below
  <2> QED
    BY <2>1, <2>3, <2>4
<1>4. ASSUME NEW k \in 1..(n + 1), k - 1 \in P
      PROVE  k \in P
  <2>1. k \in 0..(n + 1) /\ k - 1 \in 0..(n + 1) /\ \A id \in D : id \in Nat
    BY <1>1
  <2>2. PICK l : Sorted(l, Below(k - 1))
    BY <1>4
  <2> DEFINE m == Cardinality(Below(k - 1))
             x == k - 1
  <2>3. CASE x \notin D
    <3>1. Below(k) = Below(k - 1)
      BY <2>1, <2>3
    <3> HIDE DEF Sorted, Below
    <3>2. Sorted(l, Below(k))
      BY <2>2, <3>1
    <3> QED
      BY <2>1, <3>2
  <2>4. CASE x \in D
    <3>1. Below(k) = Below(k - 1) \cup {x} /\ x \notin Below(k - 1)
      BY <2>1, <2>4
    <3>2. m \in Nat /\ Cardinality(Below(k)) = m + 1
      BY <1>2, <2>1, <3>1, FS_AddElement
    <3>3. /\ l \in [1..m -> Below(k - 1)] /\ Range(l) = Below(k - 1)
          /\ \A i, j \in 1..m : i < j => Before(position, l[i], l[j])
      BY <2>2
    <3>4. \A i \in 1..m : l[i] \in D /\ l[i] < x /\ l[i] \in Nat /\ position[l[i]] \in Int
      BY <2>1, <3>3
    <3>5. position[x] \in Int /\ x \in Nat
      BY <2>1, <2>4
    <3> HIDE DEF m, Below, Sorted, x
    <3> DEFINE early == {i \in 0..m : i = 0 \/ position[l[i]] <= position[x]}
               q == Max(early)
               r == [i \in 1..(m + 1) |-> IF i <= q THEN l[i] ELSE IF i = q + 1 THEN x ELSE l[i - 1]]
    <3>6. q \in early /\ \A i \in early : i <= q
      <4>1. early \in SUBSET (0..m) /\ 0 \in early
        BY <3>2
      <4> HIDE DEF early
      <4> QED
        BY <3>2, <4>1, MaxIsGreatest
    <3> HIDE DEF q
    <3>7. q \in 0..m
      BY <3>6
    <3>8. \A i \in 1..m : i <= q => Before(position, l[i], x)
      <4> SUFFICES ASSUME NEW i \in 1..m, i <= q PROVE position[l[i]] <= position[x]
        BY <3>4, <3>5 DEF Before
      <4>1. q \in 1..m /\ position[l[q]] <= position[x]
        BY <3>2, <3>6, <3>7
      <4>2. i < q => position[l[i]] <= position[l[q]]
        BY <3>3, <3>4, <4>1 DEF Before
      <4> QED
        BY <3>4, <3>5, <4>1, <4>2
    <3>9. \A i \in 1..m : i > q => Before(position, x, l[i])
      <4> SUFFICES ASSUME NEW i \in 1..m, i > q PROVE position[x] < position[l[i]]
        BY DEF Before
      <4>1. i \notin early
        BY <3>6, <3>7
      <4> QED
        BY <3>2, <3>4, <3>5, <4>1
    <3>10. \A i \in 1..(m + 1) : /\ i <= q => i \in 1..m /\ r[i] = l[i]
                                 /\ i = q + 1 => r[i] = x
                                 /\ i > q + 1 => i - 1 \in 1..m /\ i - 1 > q /\ r[i] = l[i - 1]
      BY <3>2, <3>7
    <3>11. r \in [1..(m + 1) -> Below(k)]
      BY <3>1, <3>2, <3>3, <3>7
    <3>12. Range(r) = Below(k)
      <4>1. \A i \in 1..m : \E j \in 1..(m + 1) : r[j] = l[i]
        <5> TAKE i \in 1..m
        <5>1. CASE i <= q
          <6>1. i \in 1..(m + 1)
            BY <3>2
          <6> QED
            BY <3>10, <5>1, <6>1
        <5>2. CASE i > q
          <6>1. i + 1 \in 1..(m + 1) /\ i + 1 > q + 1 /\ (i + 1) - 1 = i
            BY <3>2, <3>7, <5>2
          <6> QED
            BY <3>10, <6>1
        <5> QED
          BY <3>7, <5>1, <5>2
      <4>2. q + 1 \in 1..(m + 1) /\ r[q + 1] = x
        BY <3>2, <3>7
      <4>3. DOMAIN r = 1..(m + 1) /\ DOMAIN l = 1..m
        BY <3>3
      <4>4. Below(k) \subseteq Range(r)
        <5>1. x \in Range(r)
          BY <4>2, <4>3 DEF Range
        <5>2. \A y \in Range(l) : y \in Range(r)
          BY <4>1, <4>3 DEF Range
        <5> QED
          BY <3>1, <3>3, <5>1, <5>2
      <4>5. Range(r) \subseteq Below(k)
        BY <3>11, <4>3 DEF Range
      <4> QED
        BY <4>4, <4>5
    <3>13. \A i, j \in 1..(m + 1) : i < j => Before(position, r[i], r[j])
      <4> SUFFICES ASSUME NEW i \in 1..(m + 1), NEW j \in 1..(m + 1), i < j
                   PROVE  Before(position, r[i], r[j])
        OBVIOUS
      <4> HIDE DEF r
      <4>1. CASE j <= q
        BY <3>2, <3>3, <3>7, <3>10, <4>1
      <4>2. CASE j = q + 1
        BY <3>2, <3>7, <3>8, <3>10, <4>2
      <4>3. CASE j > q + 1 /\ i <= q
        BY <3>2, <3>3, <3>7, <3>10, <4>3
      <4>4. CASE j > q + 1 /\ i = q + 1
        BY <3>2, <3>7, <3>9, <3>10, <4>4
      <4>5. CASE j > q + 1 /\ i > q + 1
        BY <3>2, <3>3, <3>7, <3>10, <4>5
      <4> QED
        BY <3>2, <3>7, <4>1, <4>2, <4>3, <4>4, <4>5
    <3>14. Sorted(r, Below(k))
      <4>1. DOMAIN r = 1..(m + 1)
        OBVIOUS
      <4> HIDE DEF r
      <4> QED
        BY <3>2, <3>11, <3>12, <3>13, <4>1 DEF Sorted
    <3> HIDE DEF r
    <3> QED
      BY <2>1, <3>14
  <2> QED
    BY <2>3, <2>4
<1>5. \E l : Sorted(l, D)
  <2> HIDE DEF P
  <2>1. n + 1 \in Nat
    BY <1>1
  <2>2. \A k \in 0..(n + 1) : k \in P
    BY <1>3, <1>4, <2>1, CountInduction
  <2>3. n + 1 \in P
    BY <2>1, <2>2
  <2>4. Below(n + 1) = D
    BY <1>0
  <2> QED
    BY <2>3, <2>4 DEF P
<1> DEFINE l == Listed(position)
<1>6. Sorted(l, D)
  <2>1. DOMAIN position = D
    OBVIOUS
  <2>2. \E list \in [1..Cardinality(D) -> D] : Listing(position, list)
    BY <1>5, <2>1 DEF Listing
  <2>3. l = CHOOSE list \in [1..Cardinality(D) -> D] : Listing(position, list)
    BY <2>1 DEF Listed
  <2> HIDE DEF l
  <2>4. l \in [1..Cardinality(D) -> D] /\ Listing(position, l)
    BY <2>2, <2>3
  <2> QED
    BY <2>1, <2>4 DEF Listing
<1>7. Cardinality(D) \in Nat
  <2>1. IsFiniteSet(0..n)
    <3>1. 0 \in Int /\ n \in Int
      BY <1>1
    <3> QED
      BY <3>1, FS_Interval
  <2>2. IsFiniteSet(D)
    BY <1>1, <2>1, FS_Subset
  <2> QED
    BY <2>2, FS_CardinalityType
<1> HIDE DEF l
<1>8. l \in Seq(D) /\ DOMAIN l = 1..Cardinality(D)
  <2>1. l \in [1..Cardinality(D) -> D] /\ Cardinality(D) \in Nat
    BY <1>6, <1>7
  <2> QED
    BY <2>1
<1>9. \A i, j \in DOMAIN l : l[i] = l[j] => i = j
  <2> SUFFICES ASSUME NEW i \in DOMAIN l, NEW j \in DOMAIN l, i < j PROVE l[i] # l[j]
    BY <1>7, <1>8
  <2>1. l[i] \in D /\ Before(position, l[i], l[j])
    BY <1>6
  <2>2. position[l[i]] \in Int /\ l[i] \in Nat
    BY <1>0, <2>1
  <2> QED
    BY <2>1, <2>2 DEF Before
<1> QED
  BY <1>6, <1>8, <1>9 DEF l

-----------------------------------------------------------------------------
(* The tables: columns that have a value for every row. *)
Rows == {D \in SUBSET Nat : Bounded(D)}
Tables(V) == UNION {[D -> V] : D \in Rows}

(* The states of the tables: as many positions as there are templates and    *)
(* filters.                                                                  *)
Databases ==
  {d \in [position : Tables(Int), items : Tables(Seq(Nat)), filterPosition : Tables(Int), content : Tables(Contents)] :
     DOMAIN d.position = DOMAIN d.items /\ DOMAIN d.filterPosition = DOMAIN d.content}

(* The rows of a table have numbers up to some number. *)
LEMMA TableType ==
  ASSUME NEW V, NEW f \in Tables(V)
  PROVE  DOMAIN f \in Rows /\ f \in [DOMAIN f -> V] /\ DOMAIN f \subseteq Nat /\ Bounded(DOMAIN f)
<1>1. PICK D \in Rows : f \in [D -> V]
  BY DEF Tables
<1>2. DOMAIN f = D
  BY <1>1
<1> QED
  BY <1>1, <1>2 DEF Rows

LEMMA TableIs ==
  ASSUME NEW V, NEW D \in Rows, NEW f \in [D -> V]
  PROVE  f \in Tables(V)
BY DEF Tables

LEMMA RowsAdded ==
  ASSUME NEW D \in Rows, NEW id \in Nat
  PROVE  D \cup {id} \in Rows
<1>1. PICK n \in Nat : D \subseteq 0..n
  BY DEF Rows, Bounded
<1>2. \A k \in D : k \in Nat /\ k <= n
  BY <1>1
<1>3. n + id \in Nat /\ id <= n + id /\ \A k \in D : k <= n + id
  BY <1>2
<1>4. D \cup {id} \subseteq 0..(n + id)
  BY <1>2, <1>3
<1> QED
  BY <1>2, <1>3, <1>4 DEF Rows, Bounded

LEMMA RowsRemoved ==
  ASSUME NEW D \in Rows, NEW R \in SUBSET D
  PROVE  R \in Rows
<1>1. PICK n \in Nat : D \subseteq 0..n
  BY DEF Rows, Bounded
<1>2. R \subseteq 0..n /\ R \in SUBSET Nat
  BY <1>1 DEF Rows
<1> QED
  BY <1>2 DEF Rows, Bounded

(* A row is set, inserted and deleted. *)
LEMMA TableSet ==
  ASSUME NEW V, NEW f \in Tables(V), NEW k \in DOMAIN f, NEW v \in V
  PROVE  [f EXCEPT ![k] = v] \in Tables(V)
<1>1. f \in [DOMAIN f -> V] /\ DOMAIN f \in Rows
  BY TableType
<1>2. [f EXCEPT ![k] = v] \in [DOMAIN f -> V]
  BY <1>1
<1> QED
  BY <1>1, <1>2, TableIs

LEMMA TableNew ==
  ASSUME NEW V, NEW f \in Tables(V), NEW k, k \in Nat, NEW v \in V
  PROVE  /\ With(f, k, v) \in Tables(V)
         /\ DOMAIN With(f, k, v) = DOMAIN f \cup {k}
         /\ With(f, k, v)[k] = v
         /\ \A j \in DOMAIN f \ {k} : With(f, k, v)[j] = f[j]
<1> DEFINE g == With(f, k, v)
<1>1. f \in [DOMAIN f -> V] /\ DOMAIN f \in Rows
  BY TableType
<1>2. g = [x \in DOMAIN f \cup {k} |-> IF x = k THEN v ELSE f[x]]
  BY DEF With
<1>3. DOMAIN f \cup {k} \in Rows
  BY <1>1, RowsAdded
<1>4. g \in [DOMAIN f \cup {k} -> V]
  BY <1>1, <1>2
<1> QED
  BY <1>2, <1>3, <1>4, TableIs

LEMMA TableWithout ==
  ASSUME NEW V, NEW f \in Tables(V), NEW k
  PROVE  /\ Without(f, k) \in Tables(V)
         /\ DOMAIN Without(f, k) = DOMAIN f \ {k}
         /\ \A j \in DOMAIN f \ {k} : Without(f, k)[j] = f[j]
<1>1. f \in [DOMAIN f -> V] /\ DOMAIN f \in Rows
  BY TableType
<1>2. Without(f, k) \in [DOMAIN f \ {k} -> V]
  BY <1>1 DEF Without
<1>3. DOMAIN f \ {k} \in Rows
  BY <1>1, RowsRemoved
<1> QED
  BY <1>2, <1>3, TableIs DEF Without

-----------------------------------------------------------------------------
(* What each statement does with the tables. *)
Database(p, i, fp, c) == [position |-> p, items |-> i, filterPosition |-> fp, content |-> c]

LEMMA DatabaseType ==
  ASSUME NEW d \in Databases
  PROVE  /\ d = Database(d.position, d.items, d.filterPosition, d.content)
         /\ d.position \in Tables(Int) /\ d.items \in Tables(Seq(Nat))
         /\ d.filterPosition \in Tables(Int) /\ d.content \in Tables(Contents)
         /\ DOMAIN d.position = DOMAIN d.items /\ DOMAIN d.filterPosition = DOMAIN d.content
BY DEF Databases, Database

LEMMA DatabaseIs ==
  ASSUME NEW p \in Tables(Int), NEW i \in Tables(Seq(Nat)), NEW fp \in Tables(Int), NEW c \in Tables(Contents),
         DOMAIN p = DOMAIN i, DOMAIN fp = DOMAIN c
  PROVE  /\ Database(p, i, fp, c) \in Databases
         /\ Database(p, i, fp, c).position = p /\ Database(p, i, fp, c).items = i
         /\ Database(p, i, fp, c).filterPosition = fp /\ Database(p, i, fp, c).content = c
BY DEF Databases, Database

(* Each statement leads to tables again, and changes one column of one row,  *)
(* or a row.                                                                 *)
LEMMA ExecutePlaceTemplate ==
  ASSUME NEW d \in Databases, NEW t \in DOMAIN d.items, NEW x \in Int
  PROVE  LET s == Statement("place template", t, x)
             e == Execute(s, d)
         IN  /\ MayExecute(s, d)
             /\ e \in Databases
             /\ e.position = [d.position EXCEPT ![t] = x] /\ e.items = d.items
             /\ e.filterPosition = d.filterPosition /\ e.content = d.content
<1> DEFINE s == Statement("place template", t, x)
           p == d.position
           l == d.items
           q == d.filterPosition
           c == d.content
           new == [p EXCEPT ![t] = x]
           e == Database(new, l, q, c)
<1>1. /\ d = Database(p, l, q, c)
      /\ p \in Tables(Int) /\ l \in Tables(Seq(Nat)) /\ DOMAIN p = DOMAIN l
      /\ q \in Tables(Int) /\ c \in Tables(Contents) /\ DOMAIN q = DOMAIN c
  BY DatabaseType
<1>2. MayExecute(s, d)
  BY DEF MayExecute, Statement
<1> HIDE DEF p, l, q, c
<1>3. Execute(s, Database(p, l, q, c)) = e
  BY DEF Execute, Statement, Database
<1>4. new \in Tables(Int) /\ DOMAIN new = DOMAIN p
  <2>1. t \in DOMAIN p
    BY <1>1 DEF l
  <2> QED
    BY <1>1, <2>1, TableSet
<1> HIDE DEF s, new
<1>5. /\ e \in Databases /\ e.position = new /\ e.items = l
      /\ e.filterPosition = q /\ e.content = c
  BY <1>1, <1>4, DatabaseIs
<1> HIDE DEF e
<1>6. Execute(s, d) = e
  BY <1>1, <1>3
<1> QED
  BY <1>2, <1>5, <1>6 DEF s, new, p, l, q, c

LEMMA ExecuteDeleteItems ==
  ASSUME NEW d \in Databases, NEW t \in DOMAIN d.items
  PROVE  LET s == Statement("delete items", t, 0)
             e == Execute(s, d)
         IN  /\ MayExecute(s, d)
             /\ e \in Databases
             /\ e.position = d.position /\ e.items = [d.items EXCEPT ![t] = <<>>]
             /\ e.filterPosition = d.filterPosition /\ e.content = d.content
<1> DEFINE s == Statement("delete items", t, 0)
           p == d.position
           l == d.items
           q == d.filterPosition
           c == d.content
           e == Database(p, [l EXCEPT ![t] = <<>>], q, c)
<1>1. /\ d = Database(p, l, q, c)
      /\ p \in Tables(Int) /\ l \in Tables(Seq(Nat)) /\ DOMAIN p = DOMAIN l
      /\ q \in Tables(Int) /\ c \in Tables(Contents) /\ DOMAIN q = DOMAIN c
  BY DatabaseType
<1>2. MayExecute(s, d)
  BY DEF MayExecute, Statement
<1> HIDE DEF p, l, q, c
<1>3. Execute(s, Database(p, l, q, c)) = e
  BY DEF Execute, Statement, Database
<1>4. [l EXCEPT ![t] = <<>>] \in Tables(Seq(Nat)) /\ DOMAIN [l EXCEPT ![t] = <<>>] = DOMAIN l
  <2>1. t \in DOMAIN l /\ <<>> \in Seq(Nat)
    BY <1>1 DEF l
  <2> QED
    BY <1>1, <2>1, TableSet
<1> HIDE DEF s
<1>5. /\ e \in Databases /\ e.position = p /\ e.items = [l EXCEPT ![t] = <<>>]
      /\ e.filterPosition = q /\ e.content = c
  BY <1>1, <1>4, DatabaseIs
<1> HIDE DEF e
<1>6. Execute(s, d) = e
  BY <1>1, <1>3
<1> QED
  BY <1>2, <1>5, <1>6 DEF s, p, l, q, c

LEMMA ExecuteInsertItem ==
  ASSUME NEW d \in Databases, NEW t \in DOMAIN d.items, NEW arg, arg.filter \in Nat
  PROVE  LET s == Statement("insert item", t, arg)
             e == Execute(s, d)
         IN  /\ MayExecute(s, d)
             /\ e \in Databases
             /\ e.position = d.position /\ e.items = [d.items EXCEPT ![t] = Append(d.items[t], arg.filter)]
             /\ e.filterPosition = d.filterPosition /\ e.content = d.content
<1> DEFINE s == Statement("insert item", t, arg)
           p == d.position
           l == d.items
           q == d.filterPosition
           c == d.content
           e == Database(p, [l EXCEPT ![t] = Append(@, arg.filter)], q, c)
<1>1. /\ d = Database(p, l, q, c)
      /\ p \in Tables(Int) /\ l \in Tables(Seq(Nat)) /\ DOMAIN p = DOMAIN l
      /\ q \in Tables(Int) /\ c \in Tables(Contents) /\ DOMAIN q = DOMAIN c
  BY DatabaseType
<1>2. MayExecute(s, d)
  BY DEF MayExecute, Statement
<1> HIDE DEF p, l, q, c
<1>3. Execute(s, Database(p, l, q, c)) = e
  BY DEF Execute, Statement, Database
<1>4. [l EXCEPT ![t] = Append(@, arg.filter)] \in Tables(Seq(Nat)) /\ DOMAIN [l EXCEPT ![t] = Append(@, arg.filter)] = DOMAIN l
  <2>1. t \in DOMAIN l
    BY DEF l
  <2>2. l[t] \in Seq(Nat)
    BY <1>1, <2>1, TableType
  <2>3. Append(l[t], arg.filter) \in Seq(Nat)
    BY <2>2
  <2>4. [l EXCEPT ![t] = Append(@, arg.filter)] = [l EXCEPT ![t] = Append(l[t], arg.filter)]
    OBVIOUS
  <2>5. [l EXCEPT ![t] = Append(l[t], arg.filter)] \in Tables(Seq(Nat))
    BY <1>1, <2>1, <2>3, TableSet
  <2> QED
    BY <2>4, <2>5
<1> HIDE DEF s
<1>5. /\ e \in Databases /\ e.position = p /\ e.items = [l EXCEPT ![t] = Append(@, arg.filter)]
      /\ e.filterPosition = q /\ e.content = c
  BY <1>1, <1>4, DatabaseIs
<1> HIDE DEF e
<1>6. Execute(s, d) = e
  BY <1>1, <1>3
<1> QED
  BY <1>2, <1>5, <1>6 DEF s, p, l, q, c

LEMMA ExecuteInsertTemplate ==
  ASSUME NEW d \in Databases, NEW t, t \in Nat, t \notin DOMAIN d.items
  PROVE  LET s == Statement("insert template", t, 0)
             e == Execute(s, d)
         IN  /\ MayExecute(s, d)
             /\ e \in Databases
             /\ e.position = With(d.position, t, NoPosition) /\ e.items = With(d.items, t, <<>>)
             /\ e.filterPosition = d.filterPosition /\ e.content = d.content
<1> DEFINE s == Statement("insert template", t, 0)
           p == d.position
           l == d.items
           q == d.filterPosition
           c == d.content
           e == Database(With(p, t, NoPosition), With(l, t, <<>>), q, c)
<1>1. /\ d = Database(p, l, q, c)
      /\ p \in Tables(Int) /\ l \in Tables(Seq(Nat)) /\ DOMAIN p = DOMAIN l
      /\ q \in Tables(Int) /\ c \in Tables(Contents) /\ DOMAIN q = DOMAIN c
  BY DatabaseType
<1>2. MayExecute(s, d)
  BY DEF MayExecute, Statement
<1> HIDE DEF p, l, q, c
<1>3. Execute(s, Database(p, l, q, c)) = e
  BY DEF Execute, Statement, Database
<1>4. /\ With(p, t, NoPosition) \in Tables(Int) /\ With(l, t, <<>>) \in Tables(Seq(Nat))
      /\ DOMAIN With(p, t, NoPosition) = DOMAIN With(l, t, <<>>)
  <2>1. NoPosition \in Int /\ <<>> \in Seq(Nat)
    BY DEF NoPosition
  <2>2. t \notin DOMAIN p /\ t \notin DOMAIN l
    BY <1>1 DEF l
  <2>3. With(p, t, NoPosition) \in Tables(Int)
    BY <1>1, <2>1, TableNew
  <2>4. With(l, t, <<>>) \in Tables(Seq(Nat))
    BY <1>1, <2>1, TableNew
  <2> QED
    BY <1>1, <2>3, <2>4 DEF With
<1> HIDE DEF s
<1>5. /\ e \in Databases /\ e.position = With(p, t, NoPosition) /\ e.items = With(l, t, <<>>)
      /\ e.filterPosition = q /\ e.content = c
  BY <1>1, <1>4, DatabaseIs
<1> HIDE DEF e
<1>6. Execute(s, d) = e
  BY <1>1, <1>3
<1> QED
  BY <1>2, <1>5, <1>6 DEF s, p, l, q, c

LEMMA ExecuteDeleteTemplate ==
  ASSUME NEW d \in Databases, NEW t
  PROVE  LET s == Statement("delete template", t, 0)
             e == Execute(s, d)
         IN  /\ MayExecute(s, d)
             /\ e \in Databases
             /\ e.position = Without(d.position, t) /\ e.items = Without(d.items, t)
             /\ e.filterPosition = d.filterPosition /\ e.content = d.content
<1> DEFINE s == Statement("delete template", t, 0)
           p == d.position
           l == d.items
           q == d.filterPosition
           c == d.content
           e == Database(Without(p, t), Without(l, t), q, c)
<1>1. /\ d = Database(p, l, q, c)
      /\ p \in Tables(Int) /\ l \in Tables(Seq(Nat)) /\ DOMAIN p = DOMAIN l
      /\ q \in Tables(Int) /\ c \in Tables(Contents) /\ DOMAIN q = DOMAIN c
  BY DatabaseType
<1>2. MayExecute(s, d)
  BY DEF MayExecute, Statement
<1> HIDE DEF p, l, q, c
<1>3. Execute(s, Database(p, l, q, c)) = e
  BY DEF Execute, Statement, Database
<1>4. /\ Without(p, t) \in Tables(Int) /\ Without(l, t) \in Tables(Seq(Nat))
      /\ DOMAIN Without(p, t) = DOMAIN Without(l, t)
  <2>1. Without(p, t) \in Tables(Int) /\ DOMAIN Without(p, t) = DOMAIN p \ {t}
    BY <1>1, TableWithout
  <2>2. Without(l, t) \in Tables(Seq(Nat)) /\ DOMAIN Without(l, t) = DOMAIN l \ {t}
    BY <1>1, TableWithout
  <2> QED
    BY <1>1, <2>1, <2>2
<1> HIDE DEF s
<1>5. /\ e \in Databases /\ e.position = Without(p, t) /\ e.items = Without(l, t)
      /\ e.filterPosition = q /\ e.content = c
  BY <1>1, <1>4, DatabaseIs
<1> HIDE DEF e
<1>6. Execute(s, d) = e
  BY <1>1, <1>3
<1> QED
  BY <1>2, <1>5, <1>6 DEF s, p, l, q, c

LEMMA ExecuteInsertFilter ==
  ASSUME NEW d \in Databases, NEW f, f \in Nat, f \notin DOMAIN d.content
  PROVE  LET s == Statement("insert filter", f, 0)
             e == Execute(s, d)
         IN  /\ MayExecute(s, d)
             /\ e \in Databases
             /\ e.position = d.position /\ e.items = d.items
             /\ e.filterPosition = With(d.filterPosition, f, NoPosition) /\ e.content = With(d.content, f, Noop)
<1> DEFINE s == Statement("insert filter", f, 0)
           p == d.position
           l == d.items
           q == d.filterPosition
           c == d.content
           e == Database(p, l, With(q, f, NoPosition), With(c, f, Noop))
<1>1. /\ d = Database(p, l, q, c)
      /\ p \in Tables(Int) /\ l \in Tables(Seq(Nat)) /\ DOMAIN p = DOMAIN l
      /\ q \in Tables(Int) /\ c \in Tables(Contents) /\ DOMAIN q = DOMAIN c
  BY DatabaseType
<1>2. MayExecute(s, d)
  BY DEF MayExecute, Statement
<1> HIDE DEF p, l, q, c
<1>3. Execute(s, Database(p, l, q, c)) = e
  BY DEF Execute, Statement, Database
<1>4. /\ With(q, f, NoPosition) \in Tables(Int) /\ With(c, f, Noop) \in Tables(Contents)
      /\ DOMAIN With(q, f, NoPosition) = DOMAIN With(c, f, Noop)
  <2>1. NoPosition \in Int /\ Noop \in Contents
    BY TemplateStoreAssumption DEF NoPosition
  <2>2. f \notin DOMAIN q /\ f \notin DOMAIN c
    BY <1>1 DEF c
  <2>3. With(q, f, NoPosition) \in Tables(Int)
    BY <1>1, <2>1, TableNew
  <2>4. With(c, f, Noop) \in Tables(Contents)
    BY <1>1, <2>1, TableNew
  <2> QED
    BY <1>1, <2>3, <2>4 DEF With
<1> HIDE DEF s
<1>5. /\ e \in Databases /\ e.position = p /\ e.items = l
      /\ e.filterPosition = With(q, f, NoPosition) /\ e.content = With(c, f, Noop)
  BY <1>1, <1>4, DatabaseIs
<1> HIDE DEF e
<1>6. Execute(s, d) = e
  BY <1>1, <1>3
<1> QED
  BY <1>2, <1>5, <1>6 DEF s, p, l, q, c

LEMMA ExecutePlaceFilter ==
  ASSUME NEW d \in Databases, NEW f \in DOMAIN d.content, NEW x \in Int
  PROVE  LET s == Statement("place filter", f, x)
             e == Execute(s, d)
         IN  /\ MayExecute(s, d)
             /\ e \in Databases
             /\ e.position = d.position /\ e.items = d.items
             /\ e.filterPosition = [d.filterPosition EXCEPT ![f] = x] /\ e.content = d.content
<1> DEFINE s == Statement("place filter", f, x)
           p == d.position
           l == d.items
           q == d.filterPosition
           c == d.content
           new == [q EXCEPT ![f] = x]
           e == Database(p, l, new, c)
<1>1. /\ d = Database(p, l, q, c)
      /\ p \in Tables(Int) /\ l \in Tables(Seq(Nat)) /\ DOMAIN p = DOMAIN l
      /\ q \in Tables(Int) /\ c \in Tables(Contents) /\ DOMAIN q = DOMAIN c
  BY DatabaseType
<1>2. MayExecute(s, d)
  BY DEF MayExecute, Statement
<1> HIDE DEF p, l, q, c
<1>3. Execute(s, Database(p, l, q, c)) = e
  BY DEF Execute, Statement, Database
<1>4. new \in Tables(Int) /\ DOMAIN new = DOMAIN q
  <2>1. f \in DOMAIN q
    BY <1>1 DEF c
  <2> QED
    BY <1>1, <2>1, TableSet
<1> HIDE DEF s, new
<1>5. /\ e \in Databases /\ e.position = p /\ e.items = l
      /\ e.filterPosition = new /\ e.content = c
  BY <1>1, <1>4, DatabaseIs
<1> HIDE DEF e
<1>6. Execute(s, d) = e
  BY <1>1, <1>3
<1> QED
  BY <1>2, <1>5, <1>6 DEF s, new, p, l, q, c

LEMMA ExecuteDeleteNodes ==
  ASSUME NEW d \in Databases, NEW f \in DOMAIN d.content
  PROVE  LET s == Statement("delete nodes", f, 0)
             e == Execute(s, d)
         IN  /\ MayExecute(s, d)
             /\ e \in Databases
             /\ e.position = d.position /\ e.items = d.items
             /\ e.filterPosition = d.filterPosition /\ e.content = [d.content EXCEPT ![f] = Noop]
<1> DEFINE s == Statement("delete nodes", f, 0)
           p == d.position
           l == d.items
           q == d.filterPosition
           c == d.content
           e == Database(p, l, q, [c EXCEPT ![f] = Noop])
<1>1. /\ d = Database(p, l, q, c)
      /\ p \in Tables(Int) /\ l \in Tables(Seq(Nat)) /\ DOMAIN p = DOMAIN l
      /\ q \in Tables(Int) /\ c \in Tables(Contents) /\ DOMAIN q = DOMAIN c
  BY DatabaseType
<1>2. MayExecute(s, d)
  BY DEF MayExecute, Statement
<1> HIDE DEF p, l, q, c
<1>3. Execute(s, Database(p, l, q, c)) = e
  BY DEF Execute, Statement, Database
<1>4. [c EXCEPT ![f] = Noop] \in Tables(Contents) /\ DOMAIN [c EXCEPT ![f] = Noop] = DOMAIN c
  <2>1. f \in DOMAIN c /\ Noop \in Contents
    BY TemplateStoreAssumption DEF c
  <2> QED
    BY <1>1, <2>1, TableSet
<1> HIDE DEF s
<1>5. /\ e \in Databases /\ e.position = p /\ e.items = l
      /\ e.filterPosition = q /\ e.content = [c EXCEPT ![f] = Noop]
  BY <1>1, <1>4, DatabaseIs
<1> HIDE DEF e
<1>6. Execute(s, d) = e
  BY <1>1, <1>3
<1> QED
  BY <1>2, <1>5, <1>6 DEF s, p, l, q, c

LEMMA ExecuteInsertNodes ==
  ASSUME NEW d \in Databases, NEW f \in DOMAIN d.content, NEW value \in Contents
  PROVE  LET s == Statement("insert nodes", f, value)
             e == Execute(s, d)
         IN  /\ MayExecute(s, d)
             /\ e \in Databases
             /\ e.position = d.position /\ e.items = d.items
             /\ e.filterPosition = d.filterPosition /\ e.content = [d.content EXCEPT ![f] = value]
<1> DEFINE s == Statement("insert nodes", f, value)
           p == d.position
           l == d.items
           q == d.filterPosition
           c == d.content
           e == Database(p, l, q, [c EXCEPT ![f] = value])
<1>1. /\ d = Database(p, l, q, c)
      /\ p \in Tables(Int) /\ l \in Tables(Seq(Nat)) /\ DOMAIN p = DOMAIN l
      /\ q \in Tables(Int) /\ c \in Tables(Contents) /\ DOMAIN q = DOMAIN c
  BY DatabaseType
<1>2. MayExecute(s, d)
  BY DEF MayExecute, Statement
<1> HIDE DEF p, l, q, c
<1>3. Execute(s, Database(p, l, q, c)) = e
  BY DEF Execute, Statement, Database
<1>4. [c EXCEPT ![f] = value] \in Tables(Contents) /\ DOMAIN [c EXCEPT ![f] = value] = DOMAIN c
  <2>1. f \in DOMAIN c /\ value \in Contents
    BY TemplateStoreAssumption DEF c
  <2> QED
    BY <1>1, <2>1, TableSet
<1> HIDE DEF s
<1>5. /\ e \in Databases /\ e.position = p /\ e.items = l
      /\ e.filterPosition = q /\ e.content = [c EXCEPT ![f] = value]
  BY <1>1, <1>4, DatabaseIs
<1> HIDE DEF e
<1>6. Execute(s, d) = e
  BY <1>1, <1>3
<1> QED
  BY <1>2, <1>5, <1>6 DEF s, p, l, q, c

LEMMA ExecuteDeleteFilter ==
  ASSUME NEW d \in Databases, NEW f
  PROVE  LET s == Statement("delete filter", f, 0)
             e == Execute(s, d)
         IN  /\ (\A t \in DOMAIN d.items : f \notin Range(d.items[t])) => MayExecute(s, d)
             /\ e \in Databases
             /\ e.position = d.position /\ e.items = d.items
             /\ e.filterPosition = Without(d.filterPosition, f) /\ e.content = Without(d.content, f)
<1> DEFINE s == Statement("delete filter", f, 0)
           p == d.position
           l == d.items
           q == d.filterPosition
           c == d.content
           e == Database(p, l, Without(q, f), Without(c, f))
<1>1. /\ d = Database(p, l, q, c)
      /\ p \in Tables(Int) /\ l \in Tables(Seq(Nat)) /\ DOMAIN p = DOMAIN l
      /\ q \in Tables(Int) /\ c \in Tables(Contents) /\ DOMAIN q = DOMAIN c
  BY DatabaseType
<1>2. (\A t \in DOMAIN d.items : f \notin Range(d.items[t])) => MayExecute(s, d)
  BY DEF MayExecute, Statement
<1> HIDE DEF p, l, q, c
<1>3. Execute(s, Database(p, l, q, c)) = e
  BY DEF Execute, Statement, Database
<1>4. /\ Without(q, f) \in Tables(Int) /\ Without(c, f) \in Tables(Contents)
      /\ DOMAIN Without(q, f) = DOMAIN Without(c, f)
  <2>1. Without(q, f) \in Tables(Int) /\ DOMAIN Without(q, f) = DOMAIN q \ {f}
    BY <1>1, TableWithout, ZenonT(30)
  <2>2. Without(c, f) \in Tables(Contents) /\ DOMAIN Without(c, f) = DOMAIN c \ {f}
    BY <1>1, TableWithout
  <2> QED
    BY <1>1, <2>1, <2>2
<1> HIDE DEF s
<1>5. /\ e \in Databases /\ e.position = p /\ e.items = l
      /\ e.filterPosition = Without(q, f) /\ e.content = Without(c, f)
  BY <1>1, <1>4, DatabaseIs
<1> HIDE DEF e
<1>6. Execute(s, d) = e
  BY <1>1, <1>3
<1> QED
  BY <1>2, <1>5, <1>6 DEF s, p, l, q, c

-----------------------------------------------------------------------------
(* The statements, and what executing them one after another leads to. *)
FilterKinds == {"insert filter", "place filter", "delete nodes", "insert nodes", "delete filter"}
TemplateKinds == {"insert template", "place template", "delete items", "insert item", "delete template"}
Statements ==
  [kind : FilterKinds \cup TemplateKinds, id : Nat, arg : Int \cup Contents \cup [index : Int, filter : Nat]]

(* From the tables d a list of statements leads to e, each of them may be   *)
(* executed, and what is there in between belongs to I.                     *)
Runs(d, w, e, I) ==
  \E run \in [0..Len(w) -> I] :
    /\ run[0] = d /\ run[Len(w)] = e
    /\ \A k \in 1..Len(w) : MayExecute(w[k], run[k - 1]) /\ run[k] = Execute(w[k], run[k - 1])

LEMMA RunsNothing ==
  ASSUME NEW I, NEW d \in I
  PROVE  Runs(d, <<>>, d, I)
<1> DEFINE run == [k \in 0..0 |-> d]
<1>1. run \in [0..Len(<<>>) -> I] /\ run[0] = d /\ run[Len(<<>>)] = d /\ 1..Len(<<>>) = {}
  OBVIOUS
<1> HIDE DEF run
<1> QED
  BY <1>1 DEF Runs

LEMMA RunsOne ==
  ASSUME NEW I, NEW d \in I, NEW s, MayExecute(s, d), Execute(s, d) \in I
  PROVE  Runs(d, <<s>>, Execute(s, d), I)
<1> DEFINE e == Execute(s, d)
           run == [k \in 0..1 |-> IF k = 0 THEN d ELSE e]
           w == <<s>>
<1> HIDE DEF e
<1>1. run \in [0..1 -> I] /\ run[0] = d /\ run[1] = e
  BY DEF e
<1>2. Len(w) = 1 /\ w[1] = s
  OBVIOUS
<1>3. \A k \in 1..1 : k = 1 /\ k - 1 = 0
  OBVIOUS
<1> HIDE DEF run, w
<1>4. \A k \in 1..1 : MayExecute(w[k], run[k - 1]) /\ run[k] = Execute(w[k], run[k - 1])
  BY <1>1, <1>2, <1>3 DEF e
<1>5. Runs(d, w, e, I)
  BY <1>1, <1>2, <1>4 DEF Runs
<1> QED
  BY <1>5 DEF w, e

LEMMA RunsBetween ==
  ASSUME NEW I, NEW d, NEW e, NEW w \in Seq(Statements), Runs(d, w, e, I)
  PROVE  d \in I /\ e \in I
<1>1. PICK run \in [0..Len(w) -> I] : run[0] = d /\ run[Len(w)] = e
  BY DEF Runs
<1>2. 0 \in 0..Len(w) /\ Len(w) \in 0..Len(w)
  OBVIOUS
<1> QED
  BY <1>1, <1>2

(* One way after another. *)
LEMMA RunsOn ==
  ASSUME NEW I, NEW d, NEW e, NEW f, NEW a \in Seq(Statements), NEW b \in Seq(Statements),
         Runs(d, a, e, I), Runs(e, b, f, I)
  PROVE  Runs(d, a \o b, f, I)
<1> DEFINE m == Len(a)
           n == Len(b)
           w == a \o b
<1>1. m \in Nat /\ n \in Nat /\ Len(w) = m + n
  OBVIOUS
<1>2. /\ \A k \in 1..m : w[k] = a[k]
      /\ \A k \in 1..(m + n) : k > m => w[k] = b[k - m]
  OBVIOUS
<1>3. PICK r \in [0..m -> I] :
        /\ r[0] = d /\ r[m] = e
        /\ \A k \in 1..m : MayExecute(a[k], r[k - 1]) /\ r[k] = Execute(a[k], r[k - 1])
  BY DEF Runs
<1>4. PICK q \in [0..n -> I] :
        /\ q[0] = e /\ q[n] = f
        /\ \A k \in 1..n : MayExecute(b[k], q[k - 1]) /\ q[k] = Execute(b[k], q[k - 1])
  BY DEF Runs
<1> HIDE DEF m, n, w
<1> DEFINE run == [k \in 0..(m + n) |-> IF k <= m THEN r[k] ELSE q[k - m]]
<1>5. run \in [0..(m + n) -> I]
  <2> SUFFICES ASSUME NEW k \in 0..(m + n)
               PROVE  (IF k <= m THEN r[k] ELSE q[k - m]) \in I
    OBVIOUS
  <2>1. CASE k <= m
    <3>1. k \in 0..m
      BY <1>1, <2>1
    <3> QED
      BY <1>3, <2>1, <3>1
  <2>2. CASE ~(k <= m)
    <3>1. k - m \in 0..n
      BY <1>1, <2>2
    <3> QED
      BY <1>4, <2>2, <3>1
  <2> QED
    BY <2>1, <2>2
<1>6. run[0] = d /\ run[m + n] = f
  <2>1. 0 \in 0..(m + n) /\ 0 <= m /\ m + n \in 0..(m + n)
    BY <1>1
  <2>2. CASE n = 0
    <3>1. m + n <= m /\ m + n = m
      BY <1>1, <2>2
    <3> QED
      BY <1>3, <1>4, <2>1, <2>2, <3>1
  <2>3. CASE n # 0
    <3>1. ~(m + n <= m) /\ (m + n) - m = n
      BY <1>1, <2>3
    <3> QED
      BY <1>3, <1>4, <2>1, <3>1
  <2> QED
    BY <2>2, <2>3
<1>7. ASSUME NEW k \in 1..(m + n)
      PROVE  MayExecute(w[k], run[k - 1]) /\ run[k] = Execute(w[k], run[k - 1])
  <2>1. k \in 0..(m + n) /\ k - 1 \in 0..(m + n)
    BY <1>1
  <2>2. CASE k <= m
    <3>1. k \in 1..m /\ k - 1 <= m
      BY <1>1, <2>2
    <3>2. run[k] = r[k] /\ run[k - 1] = r[k - 1] /\ w[k] = a[k]
      BY <1>2, <2>1, <2>2, <3>1
    <3> QED
      BY <1>3, <3>1, <3>2
  <2>3. CASE k > m
    <3>1. k - m \in 1..n /\ (k - m) - 1 = (k - 1) - m /\ ~(k <= m)
      BY <1>1, <2>3
    <3>2. run[k] = q[k - m] /\ w[k] = b[k - m]
      BY <1>2, <2>1, <2>3, <3>1
    <3>3. run[k - 1] = q[(k - m) - 1]
      <4>1. CASE k - 1 <= m
        <5>1. k - 1 = m /\ (k - 1) - m = 0
          BY <1>1, <2>3, <4>1
        <5> QED
          BY <1>3, <1>4, <2>1, <3>1, <4>1, <5>1
      <4>2. CASE ~(k - 1 <= m)
        BY <2>1, <3>1, <4>2
      <4> QED
        BY <4>1, <4>2
    <3> QED
      BY <1>4, <3>1, <3>2, <3>3
  <2> QED
    BY <1>1, <2>2, <2>3
<1> HIDE DEF run
<1>8. Len(w) = m + n
  BY <1>1
<1> QED
  BY <1>5, <1>6, <1>7, <1>8 DEF Runs, w

(* The first statement of a list, and the others. *)
LEMMA RunsHead ==
  ASSUME NEW I, NEW d, NEW e, NEW w \in Seq(Statements), w # <<>>, Runs(d, w, e, I)
  PROVE  /\ MayExecute(w[1], d)
         /\ Execute(w[1], d) \in I
         /\ Runs(Execute(w[1], d), Tail(w), e, I)
<1> DEFINE n == Len(w)
           v == Tail(w)
<1>1. n \in Nat /\ n >= 1 /\ Len(v) = n - 1 /\ \A k \in 1..(n - 1) : v[k] = w[k + 1]
  OBVIOUS
<1>2. PICK run \in [0..n -> I] :
        /\ run[0] = d /\ run[n] = e
        /\ \A k \in 1..n : MayExecute(w[k], run[k - 1]) /\ run[k] = Execute(w[k], run[k - 1])
  BY DEF Runs
<1> HIDE DEF n, v
<1> DEFINE r == [k \in 0..(n - 1) |-> run[k + 1]]
<1>3. 1 \in 1..n /\ 1 \in 0..n /\ 1 - 1 = 0
  BY <1>1
<1>4. MayExecute(w[1], d) /\ run[1] = Execute(w[1], d) /\ run[1] \in I
  BY <1>2, <1>3
<1>5. \A k \in 0..(n - 1) : k + 1 \in 0..n
  BY <1>1
<1>6. r \in [0..(n - 1) -> I]
  BY <1>2, <1>5
<1>7. r[0] = run[1] /\ r[n - 1] = e
  <2>1. 0 \in 0..(n - 1) /\ n - 1 \in 0..(n - 1) /\ 0 + 1 = 1 /\ (n - 1) + 1 = n
    BY <1>1
  <2> QED
    BY <1>2, <2>1
<1>8. ASSUME NEW k \in 1..(n - 1)
      PROVE  MayExecute(v[k], r[k - 1]) /\ r[k] = Execute(v[k], r[k - 1])
  <2>1. /\ k + 1 \in 1..n /\ (k + 1) - 1 = k /\ (k - 1) + 1 = k
        /\ k \in 0..(n - 1) /\ k - 1 \in 0..(n - 1)
    BY <1>1
  <2>2. r[k] = run[k + 1] /\ r[k - 1] = run[k] /\ v[k] = w[k + 1]
    BY <1>1, <2>1
  <2> QED
    BY <1>2, <2>1, <2>2
<1> HIDE DEF r
<1>9. Runs(run[1], v, e, I)
  BY <1>1, <1>6, <1>7, <1>8 DEF Runs
<1> QED
  BY <1>4, <1>9 DEF v

(* A transaction none of whose statements fails does all of them. *)
LEMMA RunsTransacted ==
  ASSUME NEW I, NEW d, NEW e, NEW w \in Seq(Statements), Runs(d, w, e, I)
  PROVE  Transacted(w, d) = e
<1> DEFINE n == Len(w)
           F(f) == [i \in 0..n |-> IF i = 0 THEN d ELSE Execute(w[i], f[i - 1])]
           after == CHOOSE f : f = F(f)
<1>1. n \in Nat /\ DOMAIN w = 1..n
  OBVIOUS
<1>2. PICK run \in [0..n -> I] :
        /\ run[0] = d /\ run[n] = e
        /\ \A k \in 1..n : MayExecute(w[k], run[k - 1]) /\ run[k] = Execute(w[k], run[k - 1])
  BY DEF Runs
<1>3. Transacted(w, d) = IF \A i \in DOMAIN w : MayExecute(w[i], after[i - 1]) THEN after[n] ELSE d
  BY DEF Transacted
<1> HIDE DEF n
<1>4. \A k \in 0..n : k # 0 => k \in 1..n
  BY <1>1
<1>5. run = F(run)
  BY <1>2, <1>4
<1>6. after = F(after)
  BY <1>5
<1> HIDE DEF after
<1>7. /\ 0 \in 0..n /\ after[0] = d
      /\ \A k \in 1..n : after[k] = Execute(w[k], after[k - 1])
  <2>1. 0 \in 0..n /\ \A k \in 1..n : k \in 0..n /\ k # 0
    BY <1>1
  <2>2. \A k \in 0..n : after[k] = IF k = 0 THEN d ELSE Execute(w[k], after[k - 1])
    BY <1>6
  <2> QED
    BY <2>1, <2>2
<1> DEFINE P == {k \in 0..n : after[k] = run[k]}
<1>8. 0 \in P
  BY <1>2, <1>7
<1>9. \A k \in 1..n : k - 1 \in P => k \in P
  <2>1. \A k \in 1..n : k \in 0..n
    BY <1>1
  <2> QED
    BY <1>2, <1>7, <2>1
<1>10. \A k \in 0..n : k \in P
  <2> HIDE DEF P
  <2> QED
    BY <1>1, <1>8, <1>9, CountInduction
<1>11. \A k \in 1..n : k - 1 \in 0..n
  BY <1>1
<1>12. \A i \in DOMAIN w : MayExecute(w[i], after[i - 1])
  BY <1>1, <1>2, <1>10, <1>11
<1>13. after[n] = e
  BY <1>1, <1>2, <1>10
<1> QED
  BY <1>3, <1>12, <1>13

-----------------------------------------------------------------------------
(* What a statement is not about it leaves alone. *)
SameAt(t, l, m) == (t \in DOMAIN l <=> t \in DOMAIN m) /\ (t \in DOMAIN l => l[t] = m[t])

(* A statement about another template, or about a filter, leaves a template  *)
(* as it is.                                                                 *)
LEMMA ExecuteKeeps ==
  ASSUME NEW d \in Databases, NEW s \in Statements, NEW t, s.kind \in FilterKinds \/ s.id # t
  PROVE  SameAt(t, d.items, Execute(s, d).items)
<1> DEFINE id == s.id
           l == d.items
           l2 == Execute(s, d).items
<1>1. l = [j \in DOMAIN l |-> l[j]]
  BY DatabaseType, TableType
<1>2. d = Database(d.position, l, d.filterPosition, d.content)
  BY DatabaseType
<1>3. s.kind \in FilterKinds => l2 = l
  BY <1>2 DEF Execute, Database, FilterKinds
<1>4. ASSUME s.kind \in TemplateKinds
      PROVE  \/ l2 = l \/ l2 = With(l, id, <<>>) \/ l2 = Without(l, id)
             \/ \E v : l2 = [l EXCEPT ![id] = v]
  BY <1>2, <1>4 DEF Execute, Database, TemplateKinds
<1> HIDE DEF l, l2, id
<1>5. CASE s.kind \in FilterKinds
  BY <1>3, <1>5 DEF SameAt, l, l2
<1>6. CASE s.kind \in TemplateKinds /\ id # t
  BY <1>1, <1>4, <1>6 DEF SameAt, With, Without, l, l2
<1>7. s.kind \in FilterKinds \/ s.kind \in TemplateKinds
  BY DEF Statements
<1> QED
  BY <1>5, <1>6, <1>7 DEF id, FilterKinds, TemplateKinds

(* So do statements none of which writes the template. *)
LEMMA RunsKeep ==
  ASSUME NEW d, NEW e, NEW w \in Seq(Statements), Runs(d, w, e, Databases), NEW t, t \notin TemplatesWritten(w)
  PROVE  SameAt(t, d.items, e.items)
<1> DEFINE n == Len(w)
<1>1. n \in Nat /\ DOMAIN w = 1..n /\ \A k \in 1..n : w[k] \in Statements
  OBVIOUS
<1>2. PICK run \in [0..n -> Databases] :
        /\ run[0] = d /\ run[n] = e
        /\ \A k \in 1..n : MayExecute(w[k], run[k - 1]) /\ run[k] = Execute(w[k], run[k - 1])
  BY DEF Runs
<1> HIDE DEF n
<1>3. \A k \in 1..n : w[k].kind \in FilterKinds \/ w[k].id # t
  BY <1>1 DEF TemplatesWritten, FilterKinds
<1>4. \A k \in 1..n : k - 1 \in 0..n /\ k \in 0..n
  BY <1>1
<1>5. \A k \in 1..n : SameAt(t, run[k - 1].items, run[k].items)
  BY <1>1, <1>2, <1>3, <1>4, ExecuteKeeps
<1> DEFINE P == {k \in 0..n : SameAt(t, d.items, run[k].items)}
<1>6. 0 \in P
  BY <1>1, <1>2 DEF SameAt
<1>7. \A k \in 1..n : k - 1 \in P => k \in P
  BY <1>4, <1>5 DEF SameAt
<1>8. \A k \in 0..n : k \in P
  <2> HIDE DEF P
  <2> QED
    BY <1>1, <1>6, <1>7, CountInduction
<1> QED
  BY <1>1, <1>2, <1>8

-----------------------------------------------------------------------------
(* Lists of statements one after another, each of which leads from what the *)
(* former one led to on.                                                    *)
LEMMA RunsFlat ==
  ASSUME NEW I, NEW ss \in Seq(Seq(Statements)), NEW post, NEW d \in I, d \in post[0],
         \A k \in 1..Len(ss) : \A c \in I :
            c \in post[k - 1] => \E e \in post[k] : Runs(c, ss[k], e, I)
  PROVE  /\ FlattenSeq(ss) \in Seq(Statements)
         /\ \E e \in post[Len(ss)] : Runs(d, FlattenSeq(ss), e, I)
<1> DEFINE n == Len(ss)
           V == Seq(Statements)
<1>1. n \in Nat /\ \A k \in 1..n : ss[k] \in V
  OBVIOUS
<1>2. CASE n = 0
  <2>1. ss = <<>> /\ FlattenSeq(ss) = <<>> /\ <<>> \in V
    BY <1>2 DEF FlattenSeq
  <2>2. Runs(d, <<>>, d, I)
    BY RunsNothing
  <2> QED
    BY <1>2, <2>1, <2>2
<1>3. CASE n # 0
  <2> DEFINE F(f) == [i \in 1..n |-> IF i = 1 THEN ss[i] ELSE f[i - 1] \o ss[i]]
             flat == CHOOSE f : f = F(f)
  <2>1. FlattenSeq(ss) = flat[n]
    BY <1>3 DEF FlattenSeq
  <2> HIDE DEF n
  <2>2. n >= 1 /\ 1 \in 1..n /\ n \in 1..n /\ (1 + 1)..n \subseteq 1..n
    BY <1>1, <1>3
  <2>3. \A u \in V, v \in V : u \o v \in V
    OBVIOUS
  <2> HIDE DEF V
  <2>4. \E f : f = F(f)
    <3> DEFINE step == [x \in ((1 + 1)..n) \X V |-> x[2] \o ss[x[1]]]
    <3>1. /\ step \in [((1 + 1)..n) \X V -> V]
          /\ \A k \in (1 + 1)..n, v \in V : step[<<k, v>>] = v \o ss[k]
      <4>1. \A x \in ((1 + 1)..n) \X V : x[1] \in 1..n /\ x[2] \in V
        BY <2>2
      <4> QED
        BY <1>1, <2>3, <4>1
    <3> HIDE DEF step
    <3>2. Recursion(V, 1, n, ss[1], step)
      BY <1>1, <2>2, <3>1 DEF Recursion
    <3>3. PICK f : Follows(f, V, 1, n, ss[1], step)
      BY <3>2, RecursionExists
    <3>4. f \in [1..n -> V] /\ \A k \in 1..n : f[k] = IF k = 1 THEN ss[1] ELSE step[<<k, f[k - 1]>>]
      BY <3>3 DEF Follows
    <3>5. \A k \in 1..n : k # 1 => k \in (1 + 1)..n /\ k - 1 \in 1..n
      BY <1>1
    <3>6. \A k \in 1..n : f[k] = IF k = 1 THEN ss[k] ELSE f[k - 1] \o ss[k]
      BY <3>1, <3>4, <3>5
    <3>7. f = F(f)
      BY <3>4, <3>6
    <3> QED
      BY <3>7
  <2>5. flat = F(flat)
    BY <2>4
  <2> HIDE DEF flat
  <2>6. /\ flat[1] = ss[1]
        /\ \A k \in 2..n : flat[k] = flat[k - 1] \o ss[k]
    <3>1. \A k \in 1..n : flat[k] = IF k = 1 THEN ss[k] ELSE flat[k - 1] \o ss[k]
      BY <2>5
    <3>2. \A k \in 2..n : k \in 1..n /\ k # 1
      BY <1>1
    <3> QED
      BY <2>2, <3>1, <3>2
  <2> DEFINE Leads(k) == flat[k] \in V /\ \E e \in I : e \in post[k] /\ Runs(d, flat[k], e, I)
             P == {k \in 1..n : Leads(k)}
  <2>7. \A c \in I, k \in 1..n : c \in post[k - 1] => \E e \in I : e \in post[k] /\ Runs(c, ss[k], e, I)
    <3> SUFFICES ASSUME NEW c \in I, NEW k \in 1..n, c \in post[k - 1]
                 PROVE  \E e \in I : e \in post[k] /\ Runs(c, ss[k], e, I)
      OBVIOUS
    <3>1. PICK e \in post[k] : Runs(c, ss[k], e, I)
      BY DEF n
    <3>2. ss[k] \in Seq(Statements)
      BY <1>1 DEF V
    <3>3. e \in I
      BY <3>1, <3>2, RunsBetween
    <3> QED
      BY <3>1, <3>3
  <2>8. 1 \in P
    <3>1. 1 - 1 = 0 /\ ss[1] \in V
      BY <1>1, <2>2
    <3> QED
      BY <2>2, <2>6, <2>7, <3>1
  <2>9. \A k \in 2..n : k - 1 \in P => k \in P
    <3> SUFFICES ASSUME NEW k \in 2..n, Leads(k - 1)
                 PROVE  k \in P
      OBVIOUS
    <3>1. k \in 1..n
      BY <1>1
    <3>2. PICK c \in I : c \in post[k - 1] /\ Runs(d, flat[k - 1], c, I)
      OBVIOUS
    <3>3. PICK e \in I : e \in post[k] /\ Runs(c, ss[k], e, I)
      BY <2>7, <3>1, <3>2
    <3>4. flat[k - 1] \in V /\ ss[k] \in V /\ flat[k] = flat[k - 1] \o ss[k]
      BY <1>1, <2>6, <3>1
    <3>5. Runs(d, flat[k], e, I)
      BY <3>2, <3>3, <3>4, RunsOn DEF V
    <3>6. flat[k] \in V
      BY <2>3, <3>4
    <3> QED
      BY <3>1, <3>3, <3>5, <3>6
  <2> HIDE DEF P
  <2>10. \A k \in 1..n : k \in P
    <3>1. 1 \in Int /\ n \in Int /\ (1 + 1)..n = 2..n
      BY <1>1
    <3> QED
      BY <2>8, <2>9, <3>1, RangeInduction
  <2>11. Leads(n)
    BY <2>2, <2>10 DEF P
  <2> QED
    BY <2>1, <2>11 DEF V, n
<1> QED
  BY <1>2, <1>3

-----------------------------------------------------------------------------
(* What an end of the program may find of the templates: the former items,  *)
(* or the first of the new ones; a row for those that were there and are.   *)
(* All rows refer to filters that are there.                                *)
Midway(stored, known, its, old) ==
  /\ \A t \in DOMAIN stored :
       /\ Range(stored[t]) \subseteq known
       /\ \/ t \in DOMAIN old /\ stored[t] = old[t]
          \/ t \in DOMAIN its /\ \E n \in 0..Len(its[t]) : stored[t] = SubSeq(its[t], 1, n)
          \/ t \notin DOMAIN its /\ stored[t] = <<>>
  /\ DOMAIN old \cap DOMAIN its \subseteq DOMAIN stored

(* The tables that a restart may find while its is written over old. *)
Snapshots(its, old) == {d \in Databases : Midway(d.items, DOMAIN d.content, its, old)}

(* What does not touch the items does not lead out of them, nor do more      *)
(* filters.                                                                  *)
LEMMA MidwayKept ==
  ASSUME NEW its, NEW old, NEW d \in Snapshots(its, old), NEW e \in Databases,
         e.items = d.items, DOMAIN d.content \subseteq DOMAIN e.content
  PROVE  e \in Snapshots(its, old)
BY DEF Snapshots, Midway

(* Nor does a template that has the first few of its new items. *)
LEMMA MidwaySet ==
  ASSUME NEW its, NEW old, NEW d \in Snapshots(its, old), NEW e \in Databases, NEW t \in DOMAIN d.items, t \in DOMAIN its,
         NEW n \in 0..Len(its[t]), e.items = [d.items EXCEPT ![t] = SubSeq(its[t], 1, n)],
         its[t] \in Seq(DOMAIN d.content), e.content = d.content
  PROVE  e \in Snapshots(its, old)
<1> DEFINE l == SubSeq(its[t], 1, n)
           m == e.items
<1>1. Range(l) \subseteq DOMAIN d.content
  <2>1. DOMAIN l = 1..n /\ \A i \in 1..n : l[i] = its[t][i] /\ i \in 1..Len(its[t])
    BY SubSeqProperties
  <2>2. \A i \in 1..Len(its[t]) : its[t][i] \in DOMAIN d.content
    OBVIOUS
  <2> QED
    BY <2>1, <2>2 DEF Range
<1>2. DOMAIN m = DOMAIN d.items /\ m[t] = l /\ \A u \in DOMAIN d.items \ {t} : m[u] = d.items[u]
  <2>1. d.items = [j \in DOMAIN d.items |-> d.items[j]]
    BY DatabaseType, TableType DEF Snapshots
  <2> QED
    BY <2>1
<1>3. m[t] = SubSeq(its[t], 1, n)
  BY <1>2
<1> HIDE DEF l, m
<1>4. Midway(m, DOMAIN d.content, its, old)
  BY <1>1, <1>2, <1>3 DEF Snapshots, Midway
<1> QED
  BY <1>4 DEF Snapshots, m

-----------------------------------------------------------------------------
LEMMA StatementType ==
  ASSUME NEW kind \in FilterKinds \cup TemplateKinds, NEW id, id \in Nat,
         NEW arg, arg \in Int \cup Contents \cup [index : Int, filter : Nat]
  PROVE  Statement(kind, id, arg) \in Statements
BY DEF Statement, Statements

(* A statement before others. *)
LEMMA RunsFirst ==
  ASSUME NEW I, NEW d \in I, NEW s \in Statements, MayExecute(s, d), Execute(s, d) \in I,
         NEW w \in Seq(Statements), NEW e, Runs(Execute(s, d), w, e, I)
  PROVE  <<s>> \o w \in Seq(Statements) /\ Runs(d, <<s>> \o w, e, I)
<1> DEFINE a == <<s>>
<1>1. a \in Seq(Statements) /\ Runs(d, a, Execute(s, d), I)
  BY RunsOne
<1> HIDE DEF a
<1>2. Runs(d, a \o w, e, I) /\ a \o w \in Seq(Statements)
  BY <1>1, RunsOn
<1> QED
  BY <1>2 DEF a

(* The place of an element of a list that has each of its elements once. *)
Once(list) == \A i, j \in DOMAIN list : list[i] = list[j] => i = j

(* The place of an element that is in the list once. *)
LEMMA IndexOfPlace ==
  ASSUME NEW T, NEW list \in Seq(T), Once(list), NEW i \in DOMAIN list
  PROVE  IndexOf(list, list[i]) = i - 1
<1>1. (CHOOSE j \in DOMAIN list : list[j] = list[i]) = i
  BY DEF Once
<1> QED
  BY <1>1 DEF IndexOf

LEMMA IndexOfType ==
  ASSUME NEW T, NEW list \in Seq(T), NEW id \in Range(list)
  PROVE  IndexOf(list, id) \in Int
<1>1. PICK m \in DOMAIN list : list[m] = id
  BY DEF Range
<1> DEFINE k == CHOOSE j \in DOMAIN list : list[j] = id
<1>2. k \in DOMAIN list
  BY <1>1
<1>3. k \in Int
  BY <1>2
<1> QED
  BY <1>3 DEF IndexOf

-----------------------------------------------------------------------------
(* The items of a template one by one: after each, the first few of its new  *)
(* items are there.                                                          *)
InsertItems(t, list) == [i \in DOMAIN list |-> Statement("insert item", t, [index |-> i, filter |-> list[i]])]

(* Saving a template takes its row from what it has to its position and its *)
(* items, by way of the first few of them.                                  *)
Saved(d, e, t, position, list) ==
  /\ e.position = [d.position EXCEPT ![t] = position]
  /\ e.items = [d.items EXCEPT ![t] = list]
  /\ e.filterPosition = d.filterPosition /\ e.content = d.content

LEMMA InsertItemsRun ==
  ASSUME NEW its, NEW old, NEW d \in Snapshots(its, old), NEW t, t \in DOMAIN d.items, t \in DOMAIN its,
         its[t] \in Seq(DOMAIN d.content), d.items[t] = <<>>
  PROVE  /\ InsertItems(t, its[t]) \in Seq(Statements)
         /\ \E e \in Snapshots(its, old) :
              /\ Runs(d, InsertItems(t, its[t]), e, Snapshots(its, old))
              /\ e.position = d.position /\ e.items = [d.items EXCEPT ![t] = its[t]]
              /\ e.filterPosition = d.filterPosition /\ e.content = d.content
<1> DEFINE I == Snapshots(its, old)
           l == its[t]
           n == Len(l)
           Insert(i) == Statement("insert item", t, [index |-> i, filter |-> l[i]])
           W(k) == [i \in 1..k |-> Insert(i)]
           At(k, e) == /\ e \in I
                       /\ e.position = d.position /\ e.items = [d.items EXCEPT ![t] = SubSeq(l, 1, k)]
                       /\ e.filterPosition = d.filterPosition /\ e.content = d.content
           P == {k \in 0..n : \E e \in I : At(k, e) /\ Runs(d, W(k), e, I)}
<1>1. /\ d \in Databases /\ DOMAIN d.items \subseteq Nat /\ DOMAIN d.content \subseteq Nat
      /\ d.items = [j \in DOMAIN d.items |-> d.items[j]]
  BY DatabaseType, TableType DEF Snapshots
<1>2. n \in Nat /\ DOMAIN l = 1..n /\ t \in Nat /\ \A i \in 1..n : l[i] \in Nat
  <2>1. \A i \in 1..n : l[i] \in DOMAIN d.content
    OBVIOUS
  <2> QED
    BY <1>1, <2>1
<1>3. \A i \in 1..n : Insert(i) \in Statements
  <2> TAKE i \in 1..n
  <2>1. [index |-> i, filter |-> l[i]] \in [index : Int, filter : Nat] /\ "insert item" \in TemplateKinds
    BY <1>2 DEF TemplateKinds
  <2> QED
    BY <1>2, <2>1, StatementType
<1>4. \A k \in 0..n : W(k) \in Seq(Statements) /\ Len(W(k)) = k
  <2> TAKE k \in 0..n
  <2> HIDE DEF Insert
  <2>1. k \in Nat /\ \A i \in 1..k : i \in 1..n
    BY <1>2
  <2> QED
    BY <1>3, <2>1
<1>5. 0 \in P
  <2>1. W(0) = <<>>
    BY <1>2
  <2>2. SubSeq(l, 1, 0) = <<>>
    BY <1>2
  <2>3. [d.items EXCEPT ![t] = <<>>] = d.items
    BY <1>1
  <2>4. At(0, d)
    BY <2>2, <2>3
  <2>5. Runs(d, <<>>, d, I)
    BY RunsNothing
  <2>6. 0 \in 0..n
    BY <1>2
  <2> HIDE DEF W, At
  <2> QED
    BY <2>1, <2>4, <2>5, <2>6
<1>6. ASSUME NEW k \in 1..n, k - 1 \in P
      PROVE  k \in P
  <2>1. k \in 0..n /\ k - 1 \in 0..n /\ k - 1 \in Nat /\ k \in Nat
    BY <1>2
  <2>2. PICK c \in I : At(k - 1, c) /\ Runs(d, W(k - 1), c, I)
    BY <1>6
  <2> DEFINE s == Insert(k)
             e == Execute(s, c)
             so == SubSeq(l, 1, k - 1)
             now == SubSeq(l, 1, k)
  <2>3. c \in Databases /\ t \in DOMAIN c.items /\ l[k] \in Nat /\ c.items[t] = so
    BY <1>1, <1>2, <2>2 DEF Snapshots
  <2>4. Append(so, l[k]) = now
    <3>1. /\ Len(so) = k - 1 /\ Len(now) = k /\ so \in Seq(Nat) /\ now \in Seq(Nat)
          /\ \A i \in 1..(k - 1) : so[i] = l[i]
          /\ \A i \in 1..k : now[i] = l[i]
      <4>1. l \in Seq(Nat)
        BY <1>2
      <4> HIDE DEF l
      <4> QED
        BY <1>2, <2>1, <4>1
    <3> HIDE DEF so, now
    <3> DEFINE both == Append(so, l[k])
    <3>2. both \in Seq(Nat) /\ Len(both) = k /\ \A i \in 1..k : both[i] = l[i]
      BY <1>2, <2>1, <3>1
    <3> HIDE DEF both
    <3>3. both = now
      BY <3>1, <3>2, SeqEqual
    <3> QED
      BY <3>3 DEF both
  <2>5. /\ MayExecute(s, c) /\ e \in Databases
        /\ e.position = c.position /\ e.items = [c.items EXCEPT ![t] = Append(@, l[k])]
        /\ e.filterPosition = c.filterPosition /\ e.content = c.content
    <3> DEFINE arg == [index |-> k, filter |-> l[k]]
    <3>1. c \in Databases /\ t \in DOMAIN c.items /\ arg.filter \in Nat /\ arg.filter = l[k]
      BY <2>3
    <3>2. s = Statement("insert item", t, arg)
      OBVIOUS
    <3> HIDE DEF arg, s, l
    <3>3. LET r == Statement("insert item", t, arg)
              x == Execute(r, c)
          IN  /\ MayExecute(r, c) /\ x \in Databases
              /\ x.position = c.position /\ x.items = [c.items EXCEPT ![t] = Append(c.items[t], arg.filter)]
              /\ x.filterPosition = c.filterPosition /\ x.content = c.content
      BY <3>1, ExecuteInsertItem, ZenonT(60)
    <3> QED
      BY <3>1, <3>2, <3>3
  <2> HIDE DEF s, e, so, now, Insert
  <2>6. c.items = [d.items EXCEPT ![t] = so] /\ e.items = [c.items EXCEPT ![t] = now]
    BY <2>2, <2>3, <2>4, <2>5 DEF so
  <2>7. e.items = [d.items EXCEPT ![t] = now]
    BY <1>1, <2>6
  <2>8. e \in I
    BY <1>1, <1>2, <2>1, <2>2, <2>5, <2>7, MidwaySet DEF now
  <2>9. At(k, e)
    BY <2>2, <2>5, <2>7, <2>8 DEF now
  <2>10. Runs(c, <<s>>, e, I)
    BY <2>5, <2>8, RunsOne DEF e
  <2>11. W(k - 1) \o <<s>> = W(k)
    <3>1. Len(W(k - 1)) = k - 1 /\ Len(W(k)) = k /\ W(k - 1) \in Seq(Statements) /\ W(k) \in Seq(Statements)
      BY <1>4, <2>1
    <3>2. s \in Statements /\ W(k)[k] = s
      BY <1>3, <2>1 DEF s
    <3>3. \A i \in 1..(k - 1) : W(k - 1)[i] = Insert(i) /\ W(k)[i] = Insert(i)
      BY <2>1
    <3> DEFINE u == W(k - 1)
               v == W(k)
               both == u \o <<s>>
    <3> HIDE DEF u, v
    <3>4. both \in Seq(Statements) /\ Len(both) = k /\ both[k] = s /\ \A i \in 1..(k - 1) : both[i] = u[i]
      BY <2>1, <3>1, <3>2 DEF u
    <3>5. \A i \in 1..k : both[i] = v[i]
      BY <2>1, <3>2, <3>3, <3>4 DEF u, v
    <3> HIDE DEF both
    <3>6. both = v
      BY <3>1, <3>4, <3>5, SeqEqual DEF v
    <3> QED
      BY <3>6 DEF both, u, v
  <2>12. Runs(d, W(k - 1) \o <<s>>, e, I)
    <3>1. <<s>> \in Seq(Statements) /\ W(k - 1) \in Seq(Statements)
      BY <1>3, <1>4, <2>1 DEF s
    <3> QED
      BY <2>2, <2>10, <3>1, RunsOn
  <2> HIDE DEF W, At
  <2> QED
    BY <2>1, <2>8, <2>9, <2>11, <2>12
<1>7. n \in P
  <2> HIDE DEF P
  <2>1. \A k \in 0..n : k \in P
    BY <1>2, <1>5, <1>6, CountInduction
  <2>2. n \in 0..n
    BY <1>2
  <2> QED
    BY <2>1, <2>2
<1>8. SubSeq(l, 1, n) = l
  <2>1. l \in Seq(Nat)
    BY <1>2
  <2> HIDE DEF l
  <2> QED
    BY <2>1
<1>9. W(n) \in Seq(Statements)
  <2>1. n \in 0..n
    BY <1>2
  <2> HIDE DEF n, W
  <2> QED
    BY <1>4, <2>1
<1>10. W(n) = InsertItems(t, its[t])
  BY <1>2 DEF InsertItems
<1>11. PICK e \in I : At(n, e) /\ Runs(d, W(n), e, I)
  BY <1>7
<1>12. e.items = [d.items EXCEPT ![t] = its[t]]
  BY <1>8, <1>11
<1> DEFINE w == InsertItems(t, its[t])
<1>13. w \in Seq(Statements) /\ Runs(d, w, e, I)
  BY <1>9, <1>10, <1>11
<1> HIDE DEF w, W, I
<1> QED
  BY <1>11, <1>12, <1>13 DEF w, I

(* Saving a template: its items are deleted and inserted again. *)
LEMMA SaveTemplateRuns ==
  ASSUME NEW ts, NEW its, NEW old, NEW d \in Snapshots(its, old), NEW t, t \in DOMAIN d.items, t \in DOMAIN its,
         its[t] \in Seq(DOMAIN d.content), IndexOf(ts, t) \in Int
  PROVE  /\ SaveTemplate(ts, its, t) \in Seq(Statements)
         /\ \E e \in Snapshots(its, old) :
              Runs(d, SaveTemplate(ts, its, t), e, Snapshots(its, old)) /\ Saved(d, e, t, IndexOf(ts, t), its[t])
<1> DEFINE I == Snapshots(its, old)
           p == IndexOf(ts, t)
           s1 == Statement("place template", t, p)
           s2 == Statement("delete items", t, 0)
           w == InsertItems(t, its[t])
           d1 == Execute(s1, d)
           d2 == Execute(s2, d1)
<1>1. d \in Databases /\ t \in Nat /\ d.items = [j \in DOMAIN d.items |-> d.items[j]]
  BY DatabaseType, TableType DEF Snapshots
<1>2. s1 \in Statements /\ s2 \in Statements
  <2>1. "place template" \in TemplateKinds /\ "delete items" \in TemplateKinds /\ 0 \in Int
    BY DEF TemplateKinds
  <2> HIDE DEF p
  <2> QED
    BY <1>1, <2>1, StatementType DEF p
<1>3. SaveTemplate(ts, its, t) = <<s1>> \o (<<s2>> \o w)
  BY DEF SaveTemplate, SaveItems, InsertItems
<1>4. /\ MayExecute(s1, d) /\ d1 \in Databases
      /\ d1.position = [d.position EXCEPT ![t] = p] /\ d1.items = d.items
      /\ d1.filterPosition = d.filterPosition /\ d1.content = d.content
  <2>1. p \in Int
    OBVIOUS
  <2> HIDE DEF p
  <2> QED
    BY <1>1, <2>1, ExecutePlaceTemplate, ZenonT(30)
<1> HIDE DEF d1
<1>5. d1 \in I
  BY <1>4, MidwayKept
<1>6. /\ MayExecute(s2, d1) /\ d2 \in Databases
      /\ d2.position = d1.position /\ d2.items = [d1.items EXCEPT ![t] = <<>>]
      /\ d2.filterPosition = d1.filterPosition /\ d2.content = d1.content
  BY <1>4, ExecuteDeleteItems
<1> HIDE DEF d2
<1>7. d2 \in I
  <2>1. SubSeq(its[t], 1, 0) = <<>> /\ 0 \in 0..Len(its[t])
    OBVIOUS
  <2>2. d2.items = [d1.items EXCEPT ![t] = SubSeq(its[t], 1, 0)]
    BY <1>6, <2>1
  <2> QED
    BY <1>4, <1>5, <1>6, <2>1, <2>2, MidwaySet
<1>8. d2.items[t] = <<>> /\ t \in DOMAIN d2.items
  BY <1>1, <1>4, <1>6
<1>9. /\ w \in Seq(Statements)
      /\ \E e \in I :
            /\ Runs(d2, w, e, I)
            /\ e.position = d2.position /\ e.items = [d2.items EXCEPT ![t] = its[t]]
            /\ e.filterPosition = d2.filterPosition /\ e.content = d2.content
  <2>1. its[t] \in Seq(DOMAIN d2.content)
    BY <1>4, <1>6
  <2> QED
    BY <1>7, <1>8, <2>1, InsertItemsRun
<1>10. PICK e \in I :
            /\ Runs(d2, w, e, I)
            /\ e.position = d2.position /\ e.items = [d2.items EXCEPT ![t] = its[t]]
            /\ e.filterPosition = d2.filterPosition /\ e.content = d2.content
  BY <1>9
<1> HIDE DEF w, s1, s2
<1>11. <<s2>> \o w \in Seq(Statements) /\ Runs(d1, <<s2>> \o w, e, I)
  BY <1>2, <1>5, <1>6, <1>7, <1>9, <1>10, RunsFirst DEF d2
<1>12. <<s1>> \o (<<s2>> \o w) \in Seq(Statements) /\ Runs(d, <<s1>> \o (<<s2>> \o w), e, I)
  BY <1>2, <1>4, <1>5, <1>11, RunsFirst DEF d1
<1>13. e.items = [d.items EXCEPT ![t] = its[t]]
  BY <1>1, <1>4, <1>6, <1>10
<1>14. Saved(d, e, t, p, its[t])
  BY <1>4, <1>6, <1>10, <1>13 DEF Saved
<1> HIDE DEF I, p
<1>15. SaveTemplate(ts, its, t) \in Seq(Statements) /\ Runs(d, SaveTemplate(ts, its, t), e, I)
  BY <1>3, <1>12
<1> QED
  BY <1>14, <1>15 DEF I, p

-----------------------------------------------------------------------------
(* Saving several templates, one after another. *)
SavedAll(d, e, ts, its, which) ==
  /\ DOMAIN e.items = DOMAIN d.items
  /\ \A t \in DOMAIN d.items \cap which : e.items[t] = its[t] /\ e.position[t] = IndexOf(ts, t)
  /\ \A t \in DOMAIN d.items \ which : e.items[t] = d.items[t] /\ e.position[t] = d.position[t]
  /\ e.filterPosition = d.filterPosition /\ e.content = d.content

(* Several templates of a list are saved. *)
SaveEach(ts, its, list) == FlattenSeq([n \in DOMAIN list |-> SaveTemplate(ts, its, list[n])])

LEMMA SaveEachRuns ==
  ASSUME NEW T, NEW ts \in Seq(T), NEW its, NEW old, NEW d \in Snapshots(its, old), NEW list, list \in Seq(T),
         \A t \in Range(list) :
           t \in DOMAIN d.items /\ t \in DOMAIN its /\ its[t] \in Seq(DOMAIN d.content) /\ t \in Range(ts)
  PROVE  /\ SaveEach(ts, its, list) \in Seq(Statements)
         /\ \E e \in Snapshots(its, old) :
              Runs(d, SaveEach(ts, its, list), e, Snapshots(its, old)) /\ SavedAll(d, e, ts, its, Range(list))
<1> DEFINE I == Snapshots(its, old)
           n == Len(list)
           First(k) == {list[i] : i \in 1..k}
           ss == [i \in DOMAIN list |-> SaveTemplate(ts, its, list[i])]
           post == [k \in 0..n |-> {e \in I : SavedAll(d, e, ts, its, First(k))}]
<1>1. n \in Nat /\ DOMAIN list = 1..n /\ Range(list) = First(n) /\ \A i \in 1..n : list[i] \in Range(list)
  BY DEF Range
<1>2. \A i \in 1..n : \A c \in I :
         (DOMAIN c.items = DOMAIN d.items /\ c.content = d.content) =>
            /\ SaveTemplate(ts, its, list[i]) \in Seq(Statements)
            /\ \E e \in I : Runs(c, SaveTemplate(ts, its, list[i]), e, I)
                              /\ Saved(c, e, list[i], IndexOf(ts, list[i]), its[list[i]])
  <2> SUFFICES ASSUME NEW i \in 1..n, NEW c \in I, DOMAIN c.items = DOMAIN d.items, c.content = d.content
               PROVE  /\ SaveTemplate(ts, its, list[i]) \in Seq(Statements)
                      /\ \E e \in I : Runs(c, SaveTemplate(ts, its, list[i]), e, I)
                              /\ Saved(c, e, list[i], IndexOf(ts, list[i]), its[list[i]])
    OBVIOUS
  <2> DEFINE t == list[i]
  <2>1. t \in DOMAIN c.items /\ t \in DOMAIN its /\ its[t] \in Seq(DOMAIN c.content) /\ t \in Range(ts)
    BY <1>1
  <2> HIDE DEF t
  <2>2. IndexOf(ts, t) \in Int
    BY <2>1, IndexOfType
  <2> QED
    BY <2>1, <2>2, SaveTemplateRuns DEF t
<1>3. ss \in Seq(Seq(Statements)) /\ Len(ss) = n
  <2>1. \A i \in 1..n : SaveTemplate(ts, its, list[i]) \in Seq(Statements)
    BY <1>2
  <2>2. ss \in [1..n -> Seq(Statements)]
    BY <1>1, <2>1
  <2> HIDE DEF ss, n
  <2> QED
    BY <1>1, <2>2
<1>4. d \in post[0]
  <2>1. First(0) = {} /\ 0 \in 0..n
    BY <1>1
  <2> HIDE DEF First
  <2>2. SavedAll(d, d, ts, its, First(0))
    BY <2>1 DEF SavedAll
  <2> QED
    BY <2>1, <2>2
<1>5. \A k \in 1..Len(ss) : \A c \in I : c \in post[k - 1] => \E e \in post[k] : Runs(c, ss[k], e, I)
  <2> SUFFICES ASSUME NEW k \in 1..n, NEW c \in I, c \in post[k - 1]
               PROVE  \E e \in post[k] : Runs(c, ss[k], e, I)
    BY <1>3
  <2> DEFINE t == list[k]
  <2>1. k - 1 \in 0..n /\ k \in 0..n /\ First(k) = First(k - 1) \cup {t} /\ ss[k] = SaveTemplate(ts, its, t)
    <3>1. k \in Nat /\ 1..k = 1..(k - 1) \cup {k} /\ k - 1 \in 0..n /\ k \in 0..n
      BY <1>1
    <3>2. First(k) = First(k - 1) \cup {t}
      BY <3>1
    <3>3. ss[k] = SaveTemplate(ts, its, t)
      BY <1>1
    <3> QED
      BY <3>1, <3>2, <3>3
  <2>2. SavedAll(d, c, ts, its, First(k - 1))
    BY <2>1
  <2>3. PICK e \in I : Runs(c, SaveTemplate(ts, its, t), e, I) /\ Saved(c, e, t, IndexOf(ts, t), its[t])
    BY <1>2, <2>2 DEF SavedAll
  <2>4. t \in DOMAIN d.items
    BY <1>1
  <2>5. /\ c.items = [j \in DOMAIN c.items |-> c.items[j]] /\ c.position = [j \in DOMAIN c.position |-> c.position[j]]
        /\ DOMAIN c.position = DOMAIN c.items
    BY DatabaseType, TableType DEF Snapshots
  <2> HIDE DEF t, First, ss
  <2>6. SavedAll(d, e, ts, its, First(k))
    <3> USE DEF SavedAll, Saved
    <3> DEFINE F == First(k)
               E == First(k - 1)
    <3>1. F = E \cup {t}
      BY <2>1
    <3> HIDE DEF F, E
    <3>2. /\ e.items = [c.items EXCEPT ![t] = its[t]] /\ e.position = [c.position EXCEPT ![t] = IndexOf(ts, t)]
          /\ e.filterPosition = c.filterPosition /\ e.content = c.content
      BY <2>3
    <3>3. /\ DOMAIN c.items = DOMAIN d.items /\ c.filterPosition = d.filterPosition /\ c.content = d.content
          /\ \A u \in DOMAIN d.items \cap E : c.items[u] = its[u] /\ c.position[u] = IndexOf(ts, u)
          /\ \A u \in DOMAIN d.items \ E : c.items[u] = d.items[u] /\ c.position[u] = d.position[u]
      BY <2>2 DEF E
    <3>4. DOMAIN e.items = DOMAIN d.items /\ e.items[t] = its[t] /\ e.position[t] = IndexOf(ts, t)
      BY <2>4, <2>5, <3>2, <3>3
    <3>5. \A u \in DOMAIN d.items \ {t} : e.items[u] = c.items[u] /\ e.position[u] = c.position[u]
      BY <2>5, <3>2, <3>3
    <3>6. \A u \in DOMAIN d.items \cap F : e.items[u] = its[u] /\ e.position[u] = IndexOf(ts, u)
      BY <3>1, <3>3, <3>4, <3>5
    <3>7. \A u \in DOMAIN d.items \ F : e.items[u] = d.items[u] /\ e.position[u] = d.position[u]
      BY <3>1, <3>3, <3>5
    <3> QED
      BY <3>2, <3>3, <3>4, <3>6, <3>7 DEF F
  <2>7. e \in post[k]
    BY <2>1, <2>6
  <2> HIDE DEF post
  <2> QED
    BY <2>1, <2>3, <2>7
<1> HIDE DEF I, First
<1>6. /\ FlattenSeq(ss) \in Seq(Statements)
      /\ \E e \in post[Len(ss)] : Runs(d, FlattenSeq(ss), e, I)
  <2>1. d \in I
    BY DEF I
  <2> HIDE DEF ss, post
  <2> QED
    BY <1>3, <1>4, <1>5, <2>1, RunsFlat
<1>7. PICK e \in post[n] : Runs(d, FlattenSeq(ss), e, I)
  BY <1>3, <1>6
<1>8. n \in 0..n
  BY <1>1
<1>9. e \in I /\ SavedAll(d, e, ts, its, First(n))
  BY <1>7, <1>8
<1>10. FlattenSeq(ss) = SaveEach(ts, its, list)
  BY DEF SaveEach
<1> HIDE DEF ss
<1> QED
  BY <1>1, <1>6, <1>7, <1>9, <1>10 DEF I

-----------------------------------------------------------------------------
LEMMA TwoJoined ==
  ASSUME NEW a, NEW b
  PROVE  <<a, b>> = <<a>> \o <<b>>
<1> DEFINE T == {a, b}
           both == <<a>> \o <<b>>
<1>1. <<a>> \in Seq(T) /\ <<b>> \in Seq(T) /\ <<a, b>> \in Seq(T)
  OBVIOUS
<1> HIDE DEF T
<1>2. both \in Seq(T) /\ Len(both) = 2 /\ both[1] = a /\ both[2] = b
  BY <1>1
<1> HIDE DEF both
<1>3. Len(<<a, b>>) = 2 /\ \A i \in 1..2 : <<a, b>>[i] = both[i]
  BY <1>2
<1>4. <<a, b>> = both
  BY <1>1, <1>2, <1>3, SeqEqual
<1> QED
  BY <1>4 DEF both

LEMMA ThreeJoined ==
  ASSUME NEW a, NEW b, NEW c
  PROVE  <<a, b, c>> = <<a>> \o (<<b>> \o <<c>>)
<1> DEFINE T == {a, b, c}
           one == <<a>>
           two == <<b>> \o <<c>>
           all == one \o two
<1>1. <<a>> \in Seq(T) /\ <<b>> \in Seq(T) /\ <<c>> \in Seq(T) /\ <<a, b, c>> \in Seq(T)
  OBVIOUS
<1> HIDE DEF T
<1>2. two \in Seq(T) /\ Len(two) = 2 /\ two[1] = b /\ two[2] = c
  BY <1>1
<1>3. one \in Seq(T) /\ Len(one) = 1 /\ one[1] = a
  BY <1>1
<1> HIDE DEF one, two
<1>4. all \in Seq(T) /\ Len(all) = 3 /\ all[1] = a /\ all[2] = b /\ all[3] = c
  <2>0. one \in Seq(T) /\ two \in Seq(T)
    BY <1>2, <1>3
  <2>1. /\ all \in Seq(T) /\ Len(all) = Len(one) + Len(two)
        /\ \A i \in 1..(Len(one) + Len(two)) : all[i] = IF i <= Len(one) THEN one[i] ELSE two[i - Len(one)]
    BY <2>0, ConcatProperties
  <2> HIDE DEF all
  <2>2. Len(all) = 3 /\ all[1] = one[1] /\ all[2] = two[2 - 1] /\ all[3] = two[3 - 1]
    BY <1>2, <1>3, <2>1
  <2> QED
    BY <1>2, <1>3, <2>1, <2>2
<1> HIDE DEF all
<1>5. Len(<<a, b, c>>) = 3 /\ \A i \in 1..3 : <<a, b, c>>[i] = all[i]
  BY <1>4
<1>6. <<a, b, c>> = all
  BY <1>1, <1>4, <1>5, SeqEqual
<1> QED
  BY <1>6 DEF all, one, two

(* Saving a filter. *)
SavedFilter(d, e, f, position, value) ==
  /\ e.position = d.position /\ e.items = d.items
  /\ e.filterPosition = [d.filterPosition EXCEPT ![f] = position]
  /\ e.content = [d.content EXCEPT ![f] = value]

(* Saving a filter: its nodes are deleted and inserted again. *)
LEMMA SaveFilterRuns ==
  ASSUME NEW its, NEW old, NEW d \in Snapshots(its, old), NEW f, f \in DOMAIN d.content,
         NEW fs, IndexOf(fs, f) \in Int, NEW value, value \in Contents
  PROVE  /\ SaveFilter(fs, f, value) \in Seq(Statements)
         /\ \E e \in Snapshots(its, old) :
              Runs(d, SaveFilter(fs, f, value), e, Snapshots(its, old)) /\ SavedFilter(d, e, f, IndexOf(fs, f), value)
<1> DEFINE I == Snapshots(its, old)
           p == IndexOf(fs, f)
           s1 == Statement("place filter", f, p)
           s2 == Statement("delete nodes", f, 0)
           s3 == Statement("insert nodes", f, value)
           d1 == Execute(s1, d)
           d2 == Execute(s2, d1)
           d3 == Execute(s3, d2)
           w == <<s1>> \o (<<s2>> \o <<s3>>)
<1>1. d \in Databases /\ f \in Nat /\ d.content = [j \in DOMAIN d.content |-> d.content[j]]
  BY DatabaseType, TableType DEF Snapshots
<1>2. s1 \in Statements /\ s2 \in Statements /\ s3 \in Statements
  <2>1. "place filter" \in FilterKinds /\ "delete nodes" \in FilterKinds /\ "insert nodes" \in FilterKinds /\ 0 \in Int
    BY DEF FilterKinds
  <2> HIDE DEF p
  <2> QED
    BY <1>1, <2>1, StatementType DEF p
<1>3. SaveFilter(fs, f, value) = w
  <2>1. SaveFilter(fs, f, value) = <<s1, s2, s3>>
    BY DEF SaveFilter
  <2> HIDE DEF s1, s2, s3
  <2>2. <<s1, s2, s3>> = w
    BY ThreeJoined
  <2> QED
    BY <2>1, <2>2
<1>4. /\ MayExecute(s1, d) /\ d1 \in Databases
      /\ d1.position = d.position /\ d1.items = d.items
      /\ d1.filterPosition = [d.filterPosition EXCEPT ![f] = p] /\ d1.content = d.content
  <2>1. p \in Int
    OBVIOUS
  <2> HIDE DEF p
  <2> QED
    BY <1>1, <2>1, ExecutePlaceFilter, ZenonT(30)
<1> HIDE DEF d1, p
<1>5. d1 \in I
  BY <1>4, MidwayKept
<1>6. /\ MayExecute(s2, d1) /\ d2 \in Databases
      /\ d2.position = d1.position /\ d2.items = d1.items
      /\ d2.filterPosition = d1.filterPosition /\ d2.content = [d1.content EXCEPT ![f] = Noop]
  BY <1>4, ExecuteDeleteNodes
<1> HIDE DEF d2
<1>7. d2 \in I /\ f \in DOMAIN d2.content
  <2>1. DOMAIN d2.content = DOMAIN d1.content
    BY <1>6
  <2> QED
    BY <1>4, <1>5, <1>6, <2>1, MidwayKept
<1>8. /\ MayExecute(s3, d2) /\ d3 \in Databases
      /\ d3.position = d2.position /\ d3.items = d2.items
      /\ d3.filterPosition = d2.filterPosition /\ d3.content = [d2.content EXCEPT ![f] = value]
  <2>1. d2 \in Databases /\ f \in DOMAIN d2.content
    BY <1>6, <1>7
  <2> QED
    BY <2>1, ExecuteInsertNodes, ZenonT(30)
<1> HIDE DEF d3
<1>9. d3 \in I
  <2>1. DOMAIN d3.content = DOMAIN d2.content
    BY <1>8
  <2> QED
    BY <1>7, <1>8, <2>1, MidwayKept
<1>10. SavedFilter(d, d3, f, p, value)
  <2>1. d3.content = [d.content EXCEPT ![f] = value]
    BY <1>1, <1>4, <1>6, <1>8, ZenonT(30)
  <2> QED
    BY <1>4, <1>6, <1>8, <2>1 DEF SavedFilter
<1> HIDE DEF s1, s2, s3, I
<1>11. <<s3>> \in Seq(Statements) /\ Runs(d2, <<s3>>, d3, I)
  BY <1>2, <1>7, <1>8, <1>9, RunsOne DEF d3
<1>12. <<s2>> \o <<s3>> \in Seq(Statements) /\ Runs(d1, <<s2>> \o <<s3>>, d3, I)
  BY <1>2, <1>5, <1>6, <1>7, <1>11, RunsFirst DEF d2
<1>13. w \in Seq(Statements) /\ Runs(d, w, d3, I)
  <2>1. d \in I
    BY DEF I
  <2> QED
    BY <1>2, <1>4, <1>5, <1>12, <2>1, RunsFirst DEF d1
<1> HIDE DEF w
<1> QED
  BY <1>3, <1>9, <1>10, <1>13 DEF I, p

-----------------------------------------------------------------------------
LEMMA SameTable ==
  ASSUME NEW V, NEW f \in Tables(V), NEW g \in Tables(V), DOMAIN f = DOMAIN g, \A j \in DOMAIN f : f[j] = g[j]
  PROVE  f = g
<1>1. f = [j \in DOMAIN f |-> f[j]] /\ g = [j \in DOMAIN g |-> g[j]]
  BY TableType
<1> QED
  BY <1>1

(* The lists in memory: every template and every filter has its one place. *)
Lists ==
  /\ items \in Tables(Seq(Nat)) /\ content \in Tables(Contents)
  /\ \A t \in DOMAIN items : items[t] \in Seq(DOMAIN content)
  /\ templates \in Seq(DOMAIN items) /\ Once(templates) /\ Range(templates) = DOMAIN items
  /\ filters \in Seq(DOMAIN content) /\ Once(filters) /\ Range(filters) = DOMAIN content

(* The tables once everything is written. *)
Stored(d) ==
  /\ d.items = items
  /\ DOMAIN d.content = DOMAIN content
  /\ \A f \in DOMAIN content \ copies : d.content[f] = content[f]
  /\ numbered => \A i \in DOMAIN templates : d.position[templates[i]] = i - 1

(* What is yet to be written leads there, and an end of the program before *)
(* it is all written leaves what a restart can do with.                    *)
Writes ==
  \E w \in Seq(Statements) : \E e \in Snapshots(items, former) :
    /\ Runs(db, w, e, Snapshots(items, former))
    /\ Stored(e)
    /\ todo = OneByOne(w) \/ (w # <<>> /\ todo = <<w>>)

(* The inductive invariant. *)
StoreInv == Lists /\ Writes

LEMMA OneByOneType ==
  ASSUME NEW w \in Seq(Statements)
  PROVE  /\ OneByOne(w) = <<>> => w = <<>>
         /\ Len(OneByOne(w)) = Len(w) /\ DOMAIN OneByOne(w) = 1..Len(w)
         /\ \A i \in 1..Len(w) : OneByOne(w)[i] = <<w[i]>>
         /\ OneByOne(w) \in Seq(Seq(Statements))
<1>1. OneByOne(w) = [i \in 1..Len(w) |-> <<w[i]>>] /\ Len(w) \in Nat
  BY DEF OneByOne
<1>2. \A i \in 1..Len(w) : <<w[i]>> \in Seq(Statements)
  OBVIOUS
<1> DEFINE o == OneByOne(w)
           n == Len(w)
<1>3. o \in [1..n -> Seq(Statements)]
  BY <1>1, <1>2
<1>4. w = <<>> <=> n = 0
  OBVIOUS
<1> HIDE DEF n
<1>5. o \in Seq(Seq(Statements)) /\ Len(o) = n
  <2> HIDE DEF o
  <2> QED
    BY <1>1, <1>3 DEF n
<1>6. o = <<>> => Len(o) = 0
  OBVIOUS
<1> QED
  BY <1>1, <1>3, <1>4, <1>5, <1>6 DEF n

(* When nothing is left to write, the tables are those of the lists. *)
LEMMA IdleStored ==
  ASSUME StoreInv, todo = <<>>
  PROVE  /\ db \in Databases /\ Stored(db)
         /\ \A its : db \in Snapshots(its, items)
<1>1. PICK w \in Seq(Statements), e \in Snapshots(items, former) :
        /\ Runs(db, w, e, Snapshots(items, former))
        /\ Stored(e)
        /\ todo = OneByOne(w) \/ (w # <<>> /\ todo = <<w>>)
  BY DEF StoreInv, Writes
<1>2. w = <<>>
  BY <1>1, OneByOneType
<1>3. e = db
  <2>1. Len(w) = 0
    BY <1>2
  <2> QED
    BY <1>1, <2>1 DEF Runs
<1>4. db \in Databases /\ Stored(db) /\ Lists
  BY <1>1, <1>3 DEF Snapshots, StoreInv
<1>5. \A t \in DOMAIN items : Range(items[t]) \subseteq DOMAIN db.content
  <2> SUFFICES ASSUME NEW t \in DOMAIN items PROVE Range(items[t]) \subseteq DOMAIN db.content
    OBVIOUS
  <2>1. items[t] \in Seq(DOMAIN db.content)
    BY <1>4 DEF Lists, Stored
  <2> QED
    BY <2>1 DEF Range
<1>6. ASSUME NEW its
      PROVE  db \in Snapshots(its, items)
  BY <1>4, <1>5 DEF Snapshots, Midway, Stored
<1> QED
  BY <1>4, <1>6

(* A slot whose statements lead to what the lists now show keeps the         *)
(* invariant.                                                                *)
LEMMA SlotKeeps ==
  ASSUME StoreInv, NEW w \in Seq(Statements), NEW e, Slot(OneByOne(w)) \/ (w # <<>> /\ Slot(<<w>>)),
         Runs(db, w, e, Snapshots(items', items)), Lists', Stored(e)'
  PROVE  StoreInv'
<1>1. db' = db /\ former' = items /\ (todo' = OneByOne(w) \/ (w # <<>> /\ todo' = <<w>>))
  BY DEF Slot
<1>2. e \in Snapshots(items', items)
  BY RunsBetween
<1>3. Writes'
  BY <1>1, <1>2 DEF Writes
<1> QED
  BY <1>3 DEF StoreInv

(* All templates are saved, with the items that they have now. *)
LEMMA SaveAllKeeps ==
  ASSUME StoreInv, Slot(OneByOne(SaveAllTemplates(templates, items'))), Lists', DOMAIN items' = DOMAIN items,
         UNCHANGED <<templates, filters, content, copies>>, numbered' = TRUE
  PROVE  StoreInv'
<1> DEFINE T == DOMAIN items
           I == Snapshots(items', items)
           w == SaveEach(templates, items', templates)
<1>1. db \in Databases /\ Stored(db) /\ db \in I /\ Lists
  BY IdleStored DEF Slot, StoreInv
<1>2. \A t \in Range(templates) :
         t \in DOMAIN db.items /\ t \in DOMAIN items' /\ items'[t] \in Seq(DOMAIN db.content) /\ t \in Range(templates)
  BY <1>1 DEF Lists, Stored
<1>3. templates \in Seq(T)
  BY <1>1 DEF Lists
<1>4. /\ w \in Seq(Statements)
      /\ \E e \in I : Runs(db, w, e, I) /\ SavedAll(db, e, templates, items', Range(templates))
  BY <1>1, <1>2, <1>3, SaveEachRuns
<1>5. PICK e \in I : Runs(db, w, e, I) /\ SavedAll(db, e, templates, items', Range(templates))
  BY <1>4
<1>6. e.items = items'
  <2>1. e.items \in Tables(Seq(Nat)) /\ items' \in Tables(Seq(Nat))
    BY DatabaseType DEF Snapshots, Lists
  <2>2. DOMAIN e.items = DOMAIN items' /\ \A t \in DOMAIN e.items : e.items[t] = items'[t]
    BY <1>1, <1>5 DEF SavedAll, Lists, Stored
  <2> QED
    BY <2>1, <2>2, SameTable
<1>7. \A i \in DOMAIN templates : e.position[templates[i]] = i - 1
  <2> SUFFICES ASSUME NEW i \in DOMAIN templates PROVE e.position[templates[i]] = i - 1
    OBVIOUS
  <2>1. templates[i] \in DOMAIN db.items \cap Range(templates)
    BY <1>1, <1>3 DEF Range, Stored
  <2>2. IndexOf(templates, templates[i]) = i - 1
    BY <1>1, <1>3, IndexOfPlace DEF Lists
  <2> QED
    BY <1>5, <2>1, <2>2 DEF SavedAll
<1>8. Stored(e)'
  BY <1>1, <1>5, <1>6, <1>7 DEF Stored, SavedAll
<1>9. SaveAllTemplates(templates, items') = w
  BY DEF SaveAllTemplates, SaveEach
<1> QED
  BY <1>4, <1>5, <1>8, <1>9, SlotKeeps

(* All templates are saved: the dialog opens, or that of the filters has     *)
(* closed.                                                                   *)
LEMMA OpenKeeps ==
  ASSUME StoreInv, OpenTemplates \/ FiltersManaged
  PROVE  StoreInv'
<1>1. UNCHANGED lists
  BY DEF OpenTemplates, FiltersManaged
<1>2. Lists'
  BY <1>1 DEF Lists, lists, StoreInv
<1> QED
  BY <1>1, <1>2, SaveAllKeeps DEF OpenTemplates, FiltersManaged, lists

(* Nothing is written. *)
LEMMA CloseKeeps ==
  ASSUME StoreInv, CloseTemplates \/ UNCHANGED storeVars
  PROVE  StoreInv'
<1>1. UNCHANGED <<lists, db, todo, remembered>>
  BY DEF CloseTemplates, storeVars
<1> QED
  BY <1>1 DEF StoreInv, Lists, Writes, Stored, lists, remembered

(* A filter replaces another one in all templates, and all are saved. *)
LEMMA ReplaceKeeps ==
  ASSUME StoreInv, NEW from \in DOMAIN content, NEW to \in DOMAIN content, ReplaceFilter(from, to)
  PROVE  StoreInv'
<1> DEFINE its == [t \in DOMAIN items |-> Replaced(items[t], from, to)]
<1>1. /\ items' = its /\ UNCHANGED <<templates, filters, content, copies>> /\ numbered' = TRUE
      /\ Slot(OneByOne(SaveAllTemplates(templates, its))) /\ Lists
  BY DEF ReplaceFilter, StoreInv
<1>2. \A t \in DOMAIN items : its[t] \in Seq(DOMAIN content)
  <2> SUFFICES ASSUME NEW t \in DOMAIN items PROVE Replaced(items[t], from, to) \in Seq(DOMAIN content)
    OBVIOUS
  <2> DEFINE l == items[t]
  <2>1. l \in Seq(DOMAIN content)
    BY <1>1 DEF Lists
  <2> DEFINE n == Len(l)
             r == Replaced(l, from, to)
  <2>2. n \in Nat /\ DOMAIN l = 1..n /\ \A i \in 1..n : l[i] \in DOMAIN content
    BY <2>1
  <2> HIDE DEF l, n
  <2>3. r \in [1..n -> DOMAIN content]
    BY <2>2 DEF Replaced
  <2> HIDE DEF r
  <2>4. r \in Seq(DOMAIN content)
    BY <2>2, <2>3
  <2> QED
    BY <2>4 DEF r, l
<1>3. DOMAIN its = DOMAIN items
  OBVIOUS
<1>4. its \in Tables(Seq(Nat))
  <2>1. DOMAIN content \subseteq Nat /\ DOMAIN items \in Rows
    BY <1>1, TableType DEF Lists
  <2>2. \A t \in DOMAIN items : its[t] \in Seq(Nat)
    BY <1>2, <2>1
  <2>3. its \in [DOMAIN items -> Seq(Nat)]
    BY <2>2
  <2> QED
    BY <2>1, <2>3, TableIs
<1> HIDE DEF its
<1>5. Lists'
  BY <1>1, <1>2, <1>3, <1>4 DEF Lists
<1> QED
  BY <1>1, <1>3, <1>5, SaveAllKeeps

-----------------------------------------------------------------------------
(* The items of one template are changed, and it is saved. *)
LEMMA SetItemsKeeps ==
  ASSUME StoreInv, NEW t \in DOMAIN items, NEW its, its \in Seq(DOMAIN content), SetItems(t, its)
  PROVE  StoreInv'
<1> DEFINE new == [items EXCEPT ![t] = its]
           I == Snapshots(new, items)
           w == SaveTemplate(templates, new, t)
<1>1. /\ items' = new /\ UNCHANGED <<templates, filters, content, listed, numbered, copies>>
      /\ Slot(OneByOne(w)) /\ Lists
  BY DEF SetItems, StoreInv
<1>2. db \in Databases /\ Stored(db) /\ db \in I
  BY IdleStored DEF Slot, SetItems
<1>3. DOMAIN content \in Rows /\ DOMAIN content \subseteq Nat /\ items = [j \in DOMAIN items |-> items[j]]
  BY <1>1, TableType DEF Lists
<1>4. new \in Tables(Seq(Nat)) /\ DOMAIN new = DOMAIN items /\ new[t] = its /\ \A u \in DOMAIN items \ {t} : new[u] = items[u]
  <2>1. its \in Seq(Nat)
    BY <1>3
  <2> QED
    BY <1>1, <1>3, <2>1, TableSet DEF Lists
<1> HIDE DEF new
<1>5. Lists'
  BY <1>1, <1>4 DEF Lists
<1>6. IndexOf(templates, t) \in Int
  BY <1>1, IndexOfType DEF Lists
<1>7. /\ w \in Seq(Statements)
      /\ \E e \in I : Runs(db, w, e, I) /\ Saved(db, e, t, IndexOf(templates, t), new[t])
  <2>1. t \in DOMAIN db.items /\ t \in DOMAIN new /\ new[t] \in Seq(DOMAIN db.content)
    BY <1>2, <1>4 DEF Stored
  <2> QED
    BY <1>2, <1>6, <2>1, SaveTemplateRuns
<1>8. PICK e \in I : Runs(db, w, e, I) /\ Saved(db, e, t, IndexOf(templates, t), new[t])
  BY <1>7
<1>9. e.items = new
  BY <1>2, <1>4, <1>8 DEF Saved, Stored, new
<1>10. ASSUME numbered, NEW i \in DOMAIN templates
       PROVE  e.position[templates[i]] = i - 1
  <2>1. IndexOf(templates, templates[i]) = i - 1
    BY <1>1, IndexOfPlace DEF Lists
  <2>2. db.position[templates[i]] = i - 1
    BY <1>2, <1>10 DEF Stored
  <2>3. db.position = [j \in DOMAIN items |-> db.position[j]] /\ templates[i] \in DOMAIN items
    BY <1>1, <1>2, DatabaseType, TableType DEF Stored, Lists
  <2> QED
    BY <1>8, <2>1, <2>2, <2>3 DEF Saved
<1>11. Stored(e)'
  BY <1>1, <1>2, <1>8, <1>9, <1>10 DEF Stored, Saved
<1> QED
  BY <1>1, <1>5, <1>7, <1>8, <1>11, SlotKeeps

(* The slots that change the items of one template. *)
LEMMA ItemsKeep ==
  ASSUME StoreInv, NEW t \in DOMAIN items,
         \/ \E filter \in DOMAIN content, at \in 1..Len(items[t]) + 1 : InsertItem(t, filter, at)
         \/ \E at \in DOMAIN items[t] : RemoveItem(t, at)
         \/ TemplateChanged(t)
         \/ \E rows \in Adjacent(items[t]) : MoveItem(t, rows[1], rows[2])
  PROVE  StoreInv'
<1> DEFINE l == items[t]
           C == DOMAIN content
<1>1. l \in Seq(C)
  BY DEF StoreInv, Lists
<1>2. ASSUME NEW filter \in C, NEW at \in 1..Len(l) + 1, InsertItem(t, filter, at)
      PROVE  StoreInv'
  <2>1. InsertAt(l, at, filter) \in Seq(C)
    <3> HIDE DEF l
    <3> QED
      BY <1>1 DEF InsertAt
  <2> QED
    BY <1>2, <2>1, SetItemsKeeps DEF InsertItem
<1>3. ASSUME NEW at \in DOMAIN l, RemoveItem(t, at)
      PROVE  StoreInv'
  <2>1. RemoveAt(l, at) \in Seq(C)
    <3> HIDE DEF l
    <3> QED
      BY <1>1 DEF RemoveAt
  <2> QED
    BY <1>3, <2>1, SetItemsKeeps DEF RemoveItem
<1>4. ASSUME TemplateChanged(t)
      PROVE  StoreInv'
  BY <1>1, <1>4, SetItemsKeeps DEF TemplateChanged
<1>5. ASSUME NEW rows \in Adjacent(l), MoveItem(t, rows[1], rows[2])
      PROVE  StoreInv'
  <2> DEFINE i == rows[1]
             j == rows[2]
  <2>1. i \in DOMAIN l /\ j \in DOMAIN l
    BY DEF Adjacent
  <2>2. Swapped(l, i, j) \in Seq(C)
    <3> HIDE DEF l, i, j
    <3> QED
      BY <1>1, <2>1 DEF Swapped
  <2> QED
    BY <1>5, <2>2, SetItemsKeeps DEF MoveItem
<1> QED
  BY <1>2, <1>3, <1>4, <1>5

-----------------------------------------------------------------------------
(* A list with one more element, which it did not have. *)
LEMMA OnceAppended ==
  ASSUME NEW S, NEW list \in Seq(S), Once(list), NEW x, x \notin Range(list)
  PROVE  /\ Append(list, x) \in Seq(S \cup {x}) /\ Len(Append(list, x)) = Len(list) + 1
         /\ Once(Append(list, x)) /\ Range(Append(list, x)) = Range(list) \cup {x}
         /\ \A i \in DOMAIN list : Append(list, x)[i] = list[i]
         /\ Append(list, x)[Len(list) + 1] = x
<1> DEFINE n == Len(list)
           new == Append(list, x)
<1>1. /\ new \in Seq(S \cup {x}) /\ n \in Nat /\ Len(new) = n + 1 /\ DOMAIN list = 1..n
      /\ \A i \in 1..n : new[i] = list[i]
      /\ new[n + 1] = x /\ DOMAIN new = 1..(n + 1)
  OBVIOUS
<1> HIDE DEF new, n
<1>2. \A i \in 1..(n + 1) : i \in 1..n \/ i = n + 1
  BY <1>1
<1>3. n + 1 \in 1..(n + 1) /\ \A i \in 1..n : i \in 1..(n + 1) /\ list[i] # x
  BY <1>1 DEF Range
<1>4. Once(new)
  BY <1>1, <1>2, <1>3 DEF Once
<1>5. Range(new) = Range(list) \cup {x}
  BY <1>1, <1>2, <1>3 DEF Range
<1> QED
  BY <1>1, <1>4, <1>5 DEF new, n

(* A list without one of its elements. *)
LEMMA OnceRemoved ==
  ASSUME NEW S, NEW list \in Seq(S), Once(list), NEW k \in DOMAIN list
  PROVE  /\ RemoveAt(list, k) \in Seq(S \ {list[k]}) /\ Len(RemoveAt(list, k)) = Len(list) - 1
         /\ Once(RemoveAt(list, k)) /\ Range(RemoveAt(list, k)) = Range(list) \ {list[k]}
         /\ \A i \in 1..(Len(list) - 1) : RemoveAt(list, k)[i] = IF i < k THEN list[i] ELSE list[i + 1]
<1> DEFINE n == Len(list)
           new == RemoveAt(list, k)
<1>1. n \in Nat /\ DOMAIN list = 1..n /\ \A i \in 1..n : list[i] \in S
  OBVIOUS
<1>2. new \in Seq(S) /\ Len(new) = n - 1 /\ \A i \in 1..(n - 1) : new[i] = IF i < k THEN list[i] ELSE list[i + 1]
  <2> DEFINE a == SubSeq(list, 1, k - 1)
             b == SubSeq(list, k + 1, n)
  <2>0. k \in 1..n
    BY <1>1
  <2>1. a \in Seq(S) /\ Len(a) = k - 1 /\ \A i \in 1..(k - 1) : a[i] = list[i]
    <3> HIDE DEF n
    <3>1. \A i \in 1..(k - 1) : list[i] \in S
      BY <1>1, <2>0
    <3> QED
      BY <1>1, <2>0, <3>1
  <2>2. b \in Seq(S) /\ Len(b) = n - k /\ \A i \in 1..(n - k) : b[i] = list[k + i]
    <3> HIDE DEF n
    <3>1. \A i \in (k + 1)..n : list[i] \in S
      BY <1>1, <2>0
    <3> QED
      BY <1>1, <2>0, <3>1, SubSeqProperties
  <2>3. new = a \o b
    BY DEF RemoveAt
  <2> HIDE DEF a, b, n, new
  <2>4. /\ new \in Seq(S) /\ Len(new) = Len(a) + Len(b)
        /\ \A i \in 1..(Len(a) + Len(b)) : new[i] = IF i <= Len(a) THEN a[i] ELSE b[i - Len(a)]
    BY <2>1, <2>2, <2>3, ConcatProperties
  <2>5. Len(new) = n - 1
    BY <1>1, <2>0, <2>1, <2>2, <2>4
  <2>6. ASSUME NEW i \in 1..(n - 1)
        PROVE  new[i] = IF i < k THEN list[i] ELSE list[i + 1]
    <3>1. CASE i < k
      BY <1>1, <2>0, <2>1, <2>2, <2>4, <3>1
    <3>2. CASE i >= k
      <4>1. i - (k - 1) \in 1..(n - k) /\ k + (i - (k - 1)) = i + 1 /\ ~(i <= k - 1) /\ i \in 1..(Len(a) + Len(b))
        BY <1>1, <2>0, <2>1, <2>2, <3>2
      <4> QED
        BY <2>1, <2>2, <2>4, <4>1, <3>2
    <3> QED
      BY <1>1, <2>0, <3>1, <3>2
  <2> QED
    BY <2>4, <2>5, <2>6
<1> HIDE DEF n, new
<1>3. DOMAIN new = 1..(n - 1) /\ k \in 1..n
  BY <1>1, <1>2
<1>4. \A i \in 1..(n - 1) : \E j \in 1..n : j # k /\ new[i] = list[j] /\ j = IF i < k THEN i ELSE i + 1
  BY <1>1, <1>2, <1>3
<1>5. \A j \in 1..n : j # k => \E i \in 1..(n - 1) : new[i] = list[j]
  <2> SUFFICES ASSUME NEW j \in 1..n, j # k PROVE \E i \in 1..(n - 1) : new[i] = list[j]
    OBVIOUS
  <2>1. CASE j < k
    BY <1>1, <1>2, <1>3, <2>1
  <2>2. CASE j > k
    <3>1. j - 1 \in 1..(n - 1) /\ ~(j - 1 < k) /\ (j - 1) + 1 = j
      BY <1>1, <1>3, <2>2
    <3> QED
      BY <1>2, <3>1
  <2> QED
    BY <1>1, <1>3, <2>1, <2>2
<1>6. \A i \in 1..(n - 1) : new[i] # list[k] /\ new[i] \in S
  BY <1>1, <1>3, <1>4 DEF Once
<1>7. Once(new)
  <2> SUFFICES ASSUME NEW a \in 1..(n - 1), NEW b \in 1..(n - 1), new[a] = new[b] PROVE a = b
    BY <1>3 DEF Once
  <2>1. PICK j \in 1..n : new[a] = list[j] /\ j = IF a < k THEN a ELSE a + 1
    BY <1>4
  <2>2. PICK l \in 1..n : new[b] = list[l] /\ l = IF b < k THEN b ELSE b + 1
    BY <1>4
  <2>3. j = l
    BY <1>1, <2>1, <2>2 DEF Once
  <2> QED
    BY <1>1, <1>3, <2>1, <2>2, <2>3
<1>8. Range(new) = Range(list) \ {list[k]}
  <2>1. Range(new) \subseteq Range(list) \ {list[k]}
    BY <1>1, <1>3, <1>4, <1>6 DEF Range
  <2>2. Range(list) \ {list[k]} \subseteq Range(new)
    BY <1>1, <1>3, <1>5 DEF Range
  <2> QED
    BY <2>1, <2>2
<1>9. new \in Seq(S \ {list[k]})
  <2>1. new \in [1..(n - 1) -> S \ {list[k]}]
    BY <1>2, <1>3, <1>6
  <2>2. n - 1 \in Nat
    BY <1>1, <1>3
  <2> QED
    BY <2>1, <2>2
<1> QED
  BY <1>2, <1>7, <1>8, <1>9 DEF new, n

(* Two elements change places. *)
LEMMA OnceSwapped ==
  ASSUME NEW S, NEW list \in Seq(S), Once(list), NEW a \in DOMAIN list, NEW b \in DOMAIN list
  PROVE  /\ Swapped(list, a, b) \in Seq(S) /\ Len(Swapped(list, a, b)) = Len(list)
         /\ Once(Swapped(list, a, b)) /\ Range(Swapped(list, a, b)) = Range(list)
         /\ Swapped(list, a, b)[a] = list[b] /\ Swapped(list, a, b)[b] = list[a]
         /\ \A i \in DOMAIN list \ {a, b} : Swapped(list, a, b)[i] = list[i]
<1> DEFINE n == Len(list)
           new == Swapped(list, a, b)
<1>1. n \in Nat /\ DOMAIN list = 1..n /\ \A i \in 1..n : list[i] \in S
  OBVIOUS
<1>2. /\ DOMAIN new = 1..n /\ new[a] = list[b] /\ new[b] = list[a]
      /\ \A i \in 1..n \ {a, b} : new[i] = list[i]
  BY <1>1 DEF Swapped
<1>3. new \in Seq(S) /\ Len(new) = n
  BY DEF Swapped
<1> HIDE DEF n, new
<1>4. Once(new)
  <2> SUFFICES ASSUME NEW i \in 1..n, NEW j \in 1..n, new[i] = new[j] PROVE i = j
    BY <1>2 DEF Once
  <2> QED
    BY <1>1, <1>2 DEF Once
<1>5. Range(new) = Range(list)
  <2>1. a \in 1..n /\ b \in 1..n
    BY <1>1
  <2>2. \A i \in 1..n : \E j \in 1..n : new[i] = list[j]
    BY <1>2, <2>1
  <2>3. \A j \in 1..n : \E i \in 1..n : new[i] = list[j]
    BY <1>2, <2>1
  <2>4. Range(new) \subseteq Range(list)
    BY <1>1, <1>2, <2>2 DEF Range
  <2>5. Range(list) \subseteq Range(new)
    BY <1>1, <1>2, <2>3 DEF Range
  <2> QED
    BY <2>4, <2>5
<1> QED
  BY <1>1, <1>2, <1>3, <1>4, <1>5 DEF new, n

-----------------------------------------------------------------------------
(* New rows: a new template has no items yet, a new filter no nodes. *)
LEMMA InsertTemplateRuns ==
  ASSUME NEW its, NEW old, NEW d \in Snapshots(its, old), NEW t, t \in Nat, t \notin DOMAIN d.items,
         t \in DOMAIN its, Len(its[t]) \in Nat
  PROVE  /\ InsertTemplateRow(t) \in Seq(Statements)
         /\ \E e \in Snapshots(its, old) :
              /\ Runs(d, InsertTemplateRow(t), e, Snapshots(its, old))
              /\ e.position = With(d.position, t, NoPosition) /\ e.items = With(d.items, t, <<>>)
              /\ e.filterPosition = d.filterPosition /\ e.content = d.content
<1> DEFINE I == Snapshots(its, old)
           s == Statement("insert template", t, 0)
           e == Execute(s, d)
<1>1. d \in Databases /\ Midway(d.items, DOMAIN d.content, its, old)
  BY DEF Snapshots
<1>2. /\ MayExecute(s, d) /\ e \in Databases
      /\ e.position = With(d.position, t, NoPosition) /\ e.items = With(d.items, t, <<>>)
      /\ e.filterPosition = d.filterPosition /\ e.content = d.content
  BY <1>1, ExecuteInsertTemplate
<1>3. s \in Statements
  BY DEF Statement, Statements, TemplateKinds
<1> HIDE DEF e, s
<1>4. /\ DOMAIN e.items = DOMAIN d.items \cup {t} /\ e.items[t] = <<>>
      /\ \A u \in DOMAIN d.items \ {t} : e.items[u] = d.items[u]
  <2>1. d.items \in Tables(Seq(Nat)) /\ <<>> \in Seq(Nat)
    BY <1>1, DatabaseType
  <2> QED
    BY <1>2, <2>1, TableNew DEF With
<1>5. Midway(e.items, DOMAIN e.content, its, old)
  <2>1. ASSUME NEW u \in DOMAIN e.items
        PROVE  /\ Range(e.items[u]) \subseteq DOMAIN e.content
               /\ \/ u \in DOMAIN old /\ e.items[u] = old[u]
                  \/ u \in DOMAIN its /\ \E n \in 0..Len(its[u]) : e.items[u] = SubSeq(its[u], 1, n)
                  \/ u \notin DOMAIN its /\ e.items[u] = <<>>
    <3>1. CASE u = t
      <4>1. Range(<<>>) = {}
        BY DEF Range
      <4>2. 0 \in 0..Len(its[t])
        OBVIOUS
      <4>3. SubSeq(its[t], 1, 0) = <<>>
        BY SubSeqEmpty
      <4> QED
        BY <1>4, <3>1, <4>1, <4>2, <4>3
    <3>2. CASE u # t
      <4>1. u \in DOMAIN d.items /\ e.items[u] = d.items[u] /\ e.content = d.content
        BY <1>2, <1>4, <3>2
      <4> QED
        BY <1>1, <4>1 DEF Midway
    <3> QED
      BY <3>1, <3>2
  <2>2. DOMAIN old \cap DOMAIN its \subseteq DOMAIN e.items
    BY <1>1, <1>4 DEF Midway
  <2> QED
    BY <2>1, <2>2 DEF Midway
<1>6. e \in I
  BY <1>2, <1>5 DEF Snapshots
<1>7. <<s>> \in Seq(Statements)
  BY <1>3
<1>8. Runs(d, <<s>>, e, I)
  BY <1>2, <1>6, RunsOne DEF e
<1> QED
  BY <1>2, <1>6, <1>7, <1>8 DEF InsertTemplateRow, s

LEMMA InsertFilterRuns ==
  ASSUME NEW its, NEW old, NEW d \in Snapshots(its, old), NEW f, f \in Nat, f \notin DOMAIN d.content
  PROVE  /\ InsertFilterRow(f) \in Seq(Statements)
         /\ \E e \in Snapshots(its, old) :
              /\ Runs(d, InsertFilterRow(f), e, Snapshots(its, old))
              /\ e.position = d.position /\ e.items = d.items
              /\ e.filterPosition = With(d.filterPosition, f, NoPosition) /\ e.content = With(d.content, f, Noop)
<1> DEFINE I == Snapshots(its, old)
           s == Statement("insert filter", f, 0)
           e == Execute(s, d)
<1>1. d \in Databases
  BY DEF Snapshots
<1>2. /\ MayExecute(s, d) /\ e \in Databases
      /\ e.position = d.position /\ e.items = d.items
      /\ e.filterPosition = With(d.filterPosition, f, NoPosition) /\ e.content = With(d.content, f, Noop)
  BY <1>1, ExecuteInsertFilter
<1>3. s \in Statements
  BY DEF Statement, Statements, FilterKinds
<1> HIDE DEF e, s
<1>4. DOMAIN d.content \subseteq DOMAIN e.content
  BY <1>2 DEF With
<1>5. e \in I
  BY <1>2, <1>4, MidwayKept
<1>6. <<s>> \in Seq(Statements)
  BY <1>3
<1>7. Runs(d, <<s>>, e, I)
  BY <1>2, <1>5, RunsOne DEF e
<1> QED
  BY <1>2, <1>5, <1>6, <1>7 DEF InsertFilterRow, s

(* A template is added: a new row, which is then saved. *)
LEMMA NewTemplate ==
  ASSUME StoreInv, todo = <<>>, NEW list, list \in Seq(Nat)
  PROVE  LET id == NewRowId(db.position)
             its == With(items, id, list)
             ts == Append(templates, id)
         IN  /\ id \in Nat /\ id \notin DOMAIN items /\ id \notin DOMAIN db.items
             /\ its \in Tables(Seq(Nat)) /\ DOMAIN its = DOMAIN items \cup {id} /\ its[id] = list
             /\ \A t \in DOMAIN items : its[t] = items[t]
             /\ ts \in Seq(DOMAIN its) /\ Once(ts) /\ Range(ts) = DOMAIN its
             /\ \A i \in DOMAIN templates : ts[i] = templates[i]
             /\ DOMAIN ts = 1..(Len(templates) + 1) /\ DOMAIN templates = 1..Len(templates) /\ Len(templates) \in Nat
             /\ ts[Len(templates) + 1] = id
<1> DEFINE id == NewRowId(db.position)
           its == With(items, id, list)
           ts == Append(templates, id)
<1>1. db \in Databases /\ Stored(db) /\ Lists
  BY IdleStored DEF StoreInv
<1>2. Bounded(DOMAIN db.position) /\ DOMAIN db.position = DOMAIN db.items /\ DOMAIN db.items = DOMAIN items
  <2>1. db.position \in Tables(Int) /\ DOMAIN db.position = DOMAIN db.items
    BY <1>1, DatabaseType
  <2> QED
    BY <1>1, <2>1, TableType DEF Stored
<1>3. id \in Nat /\ \A t \in DOMAIN db.position : t < id
  BY <1>2, NewRowIsFresh
<1> HIDE DEF id
<1>4. id \notin DOMAIN items
  <2>1. ~(id < id)
    BY <1>3
  <2> QED
    BY <1>2, <1>3, <2>1
<1>5. /\ its \in Tables(Seq(Nat)) /\ DOMAIN its = DOMAIN items \cup {id} /\ its[id] = list
      /\ \A t \in DOMAIN items \ {id} : its[t] = items[t]
  <2>1. items \in Tables(Seq(Nat))
    BY <1>1 DEF Lists
  <2>2. its \in Tables(Seq(Nat))
    BY <1>3, <2>1, TableNew
  <2> QED
    BY <2>2 DEF With
<1> HIDE DEF its
<1>6. templates \in Seq(DOMAIN items) /\ Once(templates) /\ Range(templates) = DOMAIN items
  BY <1>1 DEF Lists
<1>7. /\ ts \in Seq(DOMAIN items \cup {id}) /\ Len(ts) = Len(templates) + 1
      /\ Once(ts) /\ Range(ts) = Range(templates) \cup {id}
      /\ \A i \in DOMAIN templates : ts[i] = templates[i]
      /\ ts[Len(templates) + 1] = id
  BY <1>4, <1>6, OnceAppended
<1>8. DOMAIN ts = 1..(Len(templates) + 1) /\ DOMAIN templates = 1..Len(templates) /\ Len(templates) \in Nat
  <2> HIDE DEF ts
  <2> QED
    BY <1>6, <1>7
<1> QED
  BY <1>2, <1>3, <1>4, <1>5, <1>6, <1>7, <1>8 DEF id, its

(* A new template has the next free place. *)
LEMMA AddTemplateKeeps ==
  ASSUME StoreInv, AddTemplate
  PROVE  StoreInv'
<1> DEFINE id == NewRowId(db.position)
           ts == Append(templates, id)
           its == With(items, id, <<>>)
           n == Len(templates)
           I == Snapshots(its, items)
           w == InsertTemplateRow(id) \o SaveTemplate(ts, its, id)
<1>1. /\ templates' = ts /\ items' = its
      /\ Slot(OneByOne(w)) /\ todo = <<>>
      /\ UNCHANGED <<filters, content, numbered, copies>>
  BY DEF AddTemplate, Slot
<1>2. db \in Databases /\ Stored(db) /\ Lists /\ db \in I
  BY <1>1, IdleStored DEF StoreInv
<1>3. <<>> \in Seq(Nat)
  OBVIOUS
<1>4. /\ id \in Nat /\ id \notin DOMAIN items /\ id \notin DOMAIN db.items
      /\ its \in Tables(Seq(Nat)) /\ DOMAIN its = DOMAIN items \cup {id} /\ its[id] = <<>>
      /\ \A t \in DOMAIN items : its[t] = items[t]
      /\ ts \in Seq(DOMAIN its) /\ Once(ts) /\ Range(ts) = DOMAIN its
      /\ \A i \in DOMAIN templates : ts[i] = templates[i]
      /\ DOMAIN ts = 1..(n + 1) /\ DOMAIN templates = 1..n /\ n \in Nat
      /\ ts[n + 1] = id
  BY <1>1, <1>3, NewTemplate
<1> HIDE DEF id, ts, its, n
<1>5. Lists'
  <2>1. <<>> \in Seq(DOMAIN content)
    OBVIOUS
  <2>2. \A t \in DOMAIN its : its[t] \in Seq(DOMAIN content)
    BY <1>2, <1>4, <2>1 DEF Lists
  <2> QED
    BY <1>1, <1>2, <1>4, <2>2 DEF Lists
<1>0. id \in DOMAIN its /\ Len(its[id]) \in Nat
  BY <1>4
<1>6. PICK c \in I :
        /\ Runs(db, InsertTemplateRow(id), c, I)
        /\ c.position = With(db.position, id, NoPosition) /\ c.items = With(db.items, id, <<>>)
        /\ c.filterPosition = db.filterPosition /\ c.content = db.content
  BY <1>0, <1>2, <1>4, InsertTemplateRuns
<1>7. IndexOf(ts, id) = n
  <2>1. n + 1 \in DOMAIN ts /\ (n + 1) - 1 = n
    BY <1>4
  <2> QED
    BY <1>4, <2>1, IndexOfPlace
<1>8. c.items = its /\ id \in DOMAIN its
  BY <1>2, <1>4, <1>6 DEF Stored, its
<1>9. /\ SaveTemplate(ts, its, id) \in Seq(Statements)
      /\ \E e \in I : Runs(c, SaveTemplate(ts, its, id), e, I) /\ Saved(c, e, id, IndexOf(ts, id), its[id])
  <2>1. IndexOf(ts, id) \in Int /\ its[id] \in Seq(DOMAIN c.content)
    BY <1>4, <1>7
  <2> QED
    BY <1>8, <2>1, SaveTemplateRuns
<1>10. PICK e \in I : Runs(c, SaveTemplate(ts, its, id), e, I) /\ Saved(c, e, id, IndexOf(ts, id), its[id])
  BY <1>9
<1>11. InsertTemplateRow(id) \in Seq(Statements)
  BY <1>0, <1>2, <1>4, InsertTemplateRuns
<1>12. w \in Seq(Statements) /\ Runs(db, w, e, I)
  BY <1>6, <1>9, <1>10, <1>11, RunsOn
<1>13. e.items = its
  <2>1. its = [t \in DOMAIN its |-> its[t]]
    BY <1>4, TableType
  <2> QED
    BY <1>8, <1>10, <2>1 DEF Saved
<1>14. ASSUME numbered, NEW i \in DOMAIN ts
       PROVE  e.position[ts[i]] = i - 1
  <2>1. e.position = [With(db.position, id, NoPosition) EXCEPT ![id] = n]
    BY <1>6, <1>7, <1>10 DEF Saved
  <2>2. DOMAIN db.position = DOMAIN items
    BY <1>2, DatabaseType DEF Stored
  <2>3. CASE i = n + 1
    BY <1>4, <2>1, <2>3 DEF With
  <2>4. CASE i \in 1..n
    <3>1. ts[i] = templates[i] /\ templates[i] \in DOMAIN items /\ db.position[templates[i]] = i - 1
      BY <1>2, <1>4, <1>14, <2>4 DEF Lists, Stored
    <3> QED
      BY <1>4, <2>1, <2>2, <3>1 DEF With
  <2> QED
    BY <1>4, <2>3, <2>4
<1>15. Stored(e)'
  <2>1. e.content = db.content
    BY <1>6, <1>10 DEF Saved
  <2> QED
    BY <1>1, <1>2, <1>13, <1>14, <2>1 DEF Stored
<1> QED
  BY <1>1, <1>5, <1>12, <1>15, SlotKeeps

-----------------------------------------------------------------------------
(* Two statements. *)
LEMMA RunsTwo ==
  ASSUME NEW I, NEW d \in I, NEW a \in Statements, NEW b \in Statements,
         MayExecute(a, d), Execute(a, d) \in I,
         MayExecute(b, Execute(a, d)), Execute(b, Execute(a, d)) \in I
  PROVE  <<a, b>> \in Seq(Statements) /\ Runs(d, <<a, b>>, Execute(b, Execute(a, d)), I)
<1> DEFINE c == Execute(a, d)
           e == Execute(b, c)
           two == <<b>>
<1>1. two \in Seq(Statements) /\ <<a, b>> \in Seq(Statements)
  OBVIOUS
<1>2. Runs(c, two, e, I)
  BY RunsOne
<1> HIDE DEF two, e
<1>3. Runs(d, <<a>> \o two, e, I)
  BY <1>1, <1>2, RunsFirst
<1> QED
  BY <1>1, <1>3, TwoJoined DEF two, e

(* A template is removed: first its items, then its row. *)
LEMMA DeleteTemplateRuns ==
  ASSUME NEW its, NEW old, NEW d \in Snapshots(its, old), NEW t \in DOMAIN d.items, t \in Nat, t \notin DOMAIN its
  PROVE  /\ DeleteTemplate(t) \in Seq(Statements)
         /\ \E e \in Snapshots(its, old) :
              /\ Runs(d, DeleteTemplate(t), e, Snapshots(its, old))
              /\ e.position = Without(d.position, t) /\ e.items = Without([d.items EXCEPT ![t] = <<>>], t)
              /\ e.filterPosition = d.filterPosition /\ e.content = d.content
<1> DEFINE I == Snapshots(its, old)
           a == Statement("delete items", t, 0)
           b == Statement("delete template", t, 0)
           c == Execute(a, d)
           e == Execute(b, c)
<1>1. d \in Databases /\ Midway(d.items, DOMAIN d.content, its, old)
  BY DEF Snapshots
<1>2. /\ MayExecute(a, d) /\ c \in Databases
      /\ c.position = d.position /\ c.items = [d.items EXCEPT ![t] = <<>>]
      /\ c.filterPosition = d.filterPosition /\ c.content = d.content
  BY <1>1, ExecuteDeleteItems
<1>3. a \in Statements /\ b \in Statements
  BY DEF Statement, Statements, TemplateKinds
<1> HIDE DEF c
<1>4. /\ MayExecute(b, c) /\ e \in Databases
      /\ e.position = Without(c.position, t) /\ e.items = Without(c.items, t)
      /\ e.filterPosition = c.filterPosition /\ e.content = c.content
  BY <1>2, ExecuteDeleteTemplate
<1> HIDE DEF e, a, b
<1>5. Range(<<>>) = {}
  BY DEF Range
<1>6. DOMAIN c.items = DOMAIN d.items /\ c.items[t] = <<>> /\ \A u \in DOMAIN d.items \ {t} : c.items[u] = d.items[u]
  BY <1>2
<1>7. Midway(c.items, DOMAIN c.content, its, old)
  <2>1. ASSUME NEW u \in DOMAIN c.items
        PROVE  /\ Range(c.items[u]) \subseteq DOMAIN c.content
               /\ \/ u \in DOMAIN old /\ c.items[u] = old[u]
                  \/ u \in DOMAIN its /\ \E n \in 0..Len(its[u]) : c.items[u] = SubSeq(its[u], 1, n)
                  \/ u \notin DOMAIN its /\ c.items[u] = <<>>
    <3>1. CASE u = t
      BY <1>5, <1>6, <3>1
    <3>2. CASE u # t
      BY <1>1, <1>2, <1>6, <3>2 DEF Midway
    <3> QED
      BY <3>1, <3>2
  <2> QED
    BY <1>1, <1>6, <2>1 DEF Midway
<1>8. DOMAIN e.items = DOMAIN d.items \ {t} /\ \A u \in DOMAIN d.items \ {t} : e.items[u] = d.items[u]
  BY <1>4, <1>6 DEF Without
<1>9. Midway(e.items, DOMAIN e.content, its, old)
  BY <1>1, <1>2, <1>4, <1>8 DEF Midway
<1>10. c \in I /\ e \in I
  BY <1>2, <1>4, <1>7, <1>9 DEF Snapshots
<1>11. <<a, b>> \in Seq(Statements) /\ Runs(d, <<a, b>>, e, I)
  BY <1>2, <1>3, <1>4, <1>10, RunsTwo DEF c, e
<1> QED
  BY <1>2, <1>4, <1>10, <1>11 DEF DeleteTemplate, a, b

(* A template is removed: on the way it is there without its items. *)
LEMMA RemoveTemplateKeeps ==
  ASSUME StoreInv, NEW i \in DOMAIN templates, RemoveTemplate(i)
  PROVE  StoreInv'
<1> DEFINE t == templates[i]
           n == Len(templates)
           ts == RemoveAt(templates, i)
           its == Without(items, t)
           I == Snapshots(its, items)
           w == DeleteTemplate(t)
<1>1. /\ templates' = ts /\ items' = its
      /\ Slot(OneByOne(w)) /\ todo = <<>>
      /\ UNCHANGED <<filters, content, copies>>
      /\ numbered' = (numbered /\ i = n)
  BY DEF RemoveTemplate, Slot
<1>2. db \in Databases /\ Stored(db) /\ Lists /\ db \in I
  BY <1>1, IdleStored DEF StoreInv
<1>3. /\ templates \in Seq(DOMAIN items) /\ Once(templates) /\ Range(templates) = DOMAIN items
      /\ n \in Nat /\ DOMAIN templates = 1..n /\ items \in Tables(Seq(Nat))
  BY <1>2 DEF Lists
<1>4. /\ ts \in Seq(DOMAIN items \ {t}) /\ Len(ts) = n - 1
      /\ Once(ts) /\ Range(ts) = Range(templates) \ {t}
      /\ \A k \in 1..(n - 1) : ts[k] = IF k < i THEN templates[k] ELSE templates[k + 1]
  BY <1>3, OnceRemoved
<1>5. its \in Tables(Seq(Nat))
  BY <1>3, TableWithout
<1>6. DOMAIN its = DOMAIN items \ {t} /\ \A u \in DOMAIN items \ {t} : its[u] = items[u]
  BY DEF Without
<1>7. t \in DOMAIN items /\ t \in Nat
  BY <1>3, TableType
<1> HIDE DEF t, ts, its, n
<1>8. Lists'
  BY <1>1, <1>2, <1>3, <1>4, <1>5, <1>6 DEF Lists
<1>9. t \in DOMAIN db.items /\ t \notin DOMAIN its
  BY <1>2, <1>6, <1>7 DEF Stored
<1>10. /\ w \in Seq(Statements)
       /\ \E e \in I :
              /\ Runs(db, w, e, I)
              /\ e.position = Without(db.position, t) /\ e.items = Without([db.items EXCEPT ![t] = <<>>], t)
              /\ e.filterPosition = db.filterPosition /\ e.content = db.content
  BY <1>2, <1>7, <1>9, DeleteTemplateRuns
<1>11. PICK e \in I :
              /\ Runs(db, w, e, I)
              /\ e.position = Without(db.position, t) /\ e.items = Without([db.items EXCEPT ![t] = <<>>], t)
              /\ e.filterPosition = db.filterPosition /\ e.content = db.content
  BY <1>10
<1>12. e.items = its
  BY <1>2, <1>11 DEF Stored, Without, its
<1>13. ASSUME numbered, i = n, NEW k \in DOMAIN ts
       PROVE  e.position[ts[k]] = k - 1
  <2>1. k \in 1..(n - 1) /\ k < i /\ k \in DOMAIN templates /\ ts[k] = templates[k]
    <3>1. DOMAIN ts = 1..Len(ts)
      BY <1>4
    <3> QED
      BY <1>3, <1>4, <1>13, <3>1
  <2>2. ts[k] \in DOMAIN items \ {t}
    BY <1>4
  <2>3. DOMAIN db.position = DOMAIN items
    BY <1>2, DatabaseType DEF Stored
  <2> QED
    BY <1>2, <1>11, <1>13, <2>1, <2>2, <2>3 DEF Stored, Without
<1>14. Stored(e)'
  BY <1>1, <1>2, <1>11, <1>12, <1>13 DEF Stored
<1> QED
  BY <1>1, <1>8, <1>10, <1>11, <1>14, SlotKeeps

(* Two rows change places: one statement each. *)
Placed(d, e, s, p, t, q) ==
  /\ e.position = [[d.position EXCEPT ![s] = p] EXCEPT ![t] = q]
  /\ e.items = d.items /\ e.filterPosition = d.filterPosition /\ e.content = d.content

(* Two rows are placed anew; nothing else about them changes. *)
LEMMA SwapTemplatesRuns ==
  ASSUME NEW its, NEW old, NEW d \in Snapshots(its, old), NEW ts, NEW a, NEW b, a \in Int, b \in Int,
         ts[a] \in DOMAIN d.items, ts[b] \in DOMAIN d.items, ts[a] \in Nat, ts[b] \in Nat
  PROVE  /\ SwapTemplates(ts, a, b) \in Seq(Statements)
         /\ \E e \in Snapshots(its, old) :
              /\ Runs(d, SwapTemplates(ts, a, b), e, Snapshots(its, old))
              /\ Placed(d, e, ts[a], a - 1, ts[b], b - 1)
<1> DEFINE I == Snapshots(its, old)
           p == a - 1
           q == b - 1
           x == Statement("place template", ts[a], p)
           y == Statement("place template", ts[b], q)
           c == Execute(x, d)
           e == Execute(y, c)
<1>0. p \in Int /\ q \in Int
  OBVIOUS
<1> HIDE DEF p, q
<1>1. d \in Databases
  BY DEF Snapshots
<1>2. /\ MayExecute(x, d) /\ c \in Databases
      /\ c.position = [d.position EXCEPT ![ts[a]] = p] /\ c.items = d.items
      /\ c.filterPosition = d.filterPosition /\ c.content = d.content
  BY <1>0, <1>1, ExecutePlaceTemplate, ZenonT(30)
<1>3. x \in Statements /\ y \in Statements
  BY <1>0 DEF Statement, Statements, TemplateKinds
<1> HIDE DEF c
<1>4. /\ MayExecute(y, c) /\ e \in Databases
      /\ e.position = [c.position EXCEPT ![ts[b]] = q] /\ e.items = c.items
      /\ e.filterPosition = c.filterPosition /\ e.content = c.content
  <2>1. ts[b] \in DOMAIN c.items /\ c \in Databases
    BY <1>2
  <2> QED
    BY <1>0, <2>1, ExecutePlaceTemplate, ZenonT(30)
<1> HIDE DEF e, x, y
<1>5. c \in I /\ e \in I
  BY <1>2, <1>4, MidwayKept
<1>6. <<x, y>> \in Seq(Statements) /\ Runs(d, <<x, y>>, e, I)
  BY <1>2, <1>3, <1>4, <1>5, RunsTwo DEF c, e
<1>7. Placed(d, e, ts[a], p, ts[b], q)
  BY <1>2, <1>4 DEF Placed
<1> QED
  BY <1>5, <1>6, <1>7 DEF SwapTemplates, x, y, p, q

LEMMA SwapFiltersRuns ==
  ASSUME NEW its, NEW old, NEW d \in Snapshots(its, old), NEW fs, NEW a, NEW b, a \in Int, b \in Int,
         fs[a] \in DOMAIN d.content, fs[b] \in DOMAIN d.content, fs[a] \in Nat, fs[b] \in Nat
  PROVE  /\ SwapFilters(fs, a, b) \in Seq(Statements)
         /\ \E e \in Snapshots(its, old) :
              /\ Runs(d, SwapFilters(fs, a, b), e, Snapshots(its, old))
              /\ e.position = d.position /\ e.items = d.items /\ e.content = d.content
<1> DEFINE I == Snapshots(its, old)
           p == a - 1
           q == b - 1
           x == Statement("place filter", fs[a], p)
           y == Statement("place filter", fs[b], q)
           c == Execute(x, d)
           e == Execute(y, c)
<1>0. p \in Int /\ q \in Int
  OBVIOUS
<1> HIDE DEF p, q
<1>1. d \in Databases
  BY DEF Snapshots
<1>2. /\ MayExecute(x, d) /\ c \in Databases
      /\ c.position = d.position /\ c.items = d.items /\ c.content = d.content
  BY <1>0, <1>1, ExecutePlaceFilter
<1>3. x \in Statements /\ y \in Statements
  BY <1>0 DEF Statement, Statements, FilterKinds
<1> HIDE DEF c
<1>4. /\ MayExecute(y, c) /\ e \in Databases
      /\ e.position = c.position /\ e.items = c.items /\ e.content = c.content
  <2>1. fs[b] \in DOMAIN c.content
    BY <1>2
  <2> QED
    BY <1>0, <1>2, <2>1, ExecutePlaceFilter
<1> HIDE DEF e, x, y
<1>5. c \in I /\ e \in I
  BY <1>2, <1>4, MidwayKept
<1>6. <<x, y>> \in Seq(Statements) /\ Runs(d, <<x, y>>, e, I)
  BY <1>2, <1>3, <1>4, <1>5, RunsTwo DEF c, e
<1> QED
  BY <1>2, <1>4, <1>5, <1>6 DEF SwapFilters, x, y, p, q

(* Two templates change places, and both are saved. *)
LEMMA MoveTemplateKeeps ==
  ASSUME StoreInv, NEW i \in DOMAIN templates, NEW j \in DOMAIN templates, MoveTemplate(i, j)
  PROVE  StoreInv'
<1> DEFINE n == Len(templates)
           ts == Swapped(templates, i, j)
           I == Snapshots(items, items)
           one == SwapTemplates(ts, i, j)
           two == SaveTemplate(ts, items, ts[i])
           three == SaveTemplate(ts, items, ts[j])
<1>1. /\ templates' = ts
      /\ Slot(OneByOne(one \o two \o three)) /\ todo = <<>>
      /\ UNCHANGED <<items, filters, content, copies, numbered>>
  BY DEF MoveTemplate, Slot
<1>2. db \in Databases /\ Stored(db) /\ Lists /\ db \in I
  BY <1>1, IdleStored DEF StoreInv
<1>3. /\ templates \in Seq(DOMAIN items) /\ Once(templates) /\ Range(templates) = DOMAIN items
      /\ n \in Nat /\ DOMAIN templates = 1..n /\ items \in Tables(Seq(Nat))
  BY <1>2 DEF Lists
<1>4. /\ ts \in Seq(DOMAIN items) /\ Len(ts) = n
      /\ Once(ts) /\ Range(ts) = Range(templates)
      /\ \A k \in DOMAIN templates \ {i, j} : ts[k] = templates[k]
  <2> DEFINE T == DOMAIN items
  <2>1. templates \in Seq(T) /\ Once(templates)
    BY <1>3
  <2> HIDE DEF T
  <2> QED
    BY <2>1, OnceSwapped DEF T
<1> HIDE DEF ts, n
<1>5. DOMAIN ts = 1..n /\ i \in 1..n /\ j \in 1..n
  BY <1>3, <1>4
<1>6. ts[i] \in DOMAIN items /\ ts[i] \in Nat /\ ts[j] \in DOMAIN items /\ ts[j] \in Nat
  BY <1>3, <1>4, <1>5, TableType
<1>7. /\ items[ts[i]] \in Seq(DOMAIN content) /\ items[ts[j]] \in Seq(DOMAIN content)
      /\ DOMAIN db.items = DOMAIN items /\ DOMAIN db.content = DOMAIN content
      /\ DOMAIN db.position = DOMAIN items
  BY <1>2, <1>6, DatabaseType DEF Lists, Stored
<1>8. Lists'
  BY <1>1, <1>2, <1>3, <1>4 DEF Lists
<1>9. IndexOf(ts, ts[i]) = i - 1 /\ IndexOf(ts, ts[j]) = j - 1 /\ i - 1 \in Int /\ j - 1 \in Int
  BY <1>4, <1>5, IndexOfPlace
<1>10. /\ one \in Seq(Statements)
       /\ \E c \in I :
            /\ Runs(db, one, c, I)
            /\ Placed(db, c, ts[i], i - 1, ts[j], j - 1)
  <2>1. ts[i] \in DOMAIN db.items /\ ts[j] \in DOMAIN db.items /\ i \in Int /\ j \in Int
    BY <1>3, <1>5, <1>6, <1>7
  <2> QED
    BY <1>2, <1>6, <2>1, SwapTemplatesRuns
<1>11. PICK c \in I :
            /\ Runs(db, one, c, I)
            /\ Placed(db, c, ts[i], i - 1, ts[j], j - 1)
  BY <1>10
<1>12. /\ two \in Seq(Statements)
       /\ \E d \in I : Runs(c, two, d, I) /\ Saved(c, d, ts[i], IndexOf(ts, ts[i]), items[ts[i]])
  <2>1. ts[i] \in DOMAIN c.items /\ items[ts[i]] \in Seq(DOMAIN c.content) /\ IndexOf(ts, ts[i]) \in Int
    BY <1>6, <1>7, <1>9, <1>11 DEF Placed
  <2> QED
    BY <1>6, <2>1, SaveTemplateRuns
<1>13. PICK d \in I : Runs(c, two, d, I) /\ Saved(c, d, ts[i], IndexOf(ts, ts[i]), items[ts[i]])
  BY <1>12
<1>14. /\ three \in Seq(Statements)
       /\ \E e \in I : Runs(d, three, e, I) /\ Saved(d, e, ts[j], IndexOf(ts, ts[j]), items[ts[j]])
  <2>1. ts[j] \in DOMAIN d.items /\ items[ts[j]] \in Seq(DOMAIN d.content) /\ IndexOf(ts, ts[j]) \in Int
    BY <1>6, <1>7, <1>9, <1>11, <1>13 DEF Saved, Placed
  <2> QED
    BY <1>6, <2>1, SaveTemplateRuns
<1>15. PICK e \in I : Runs(d, three, e, I) /\ Saved(d, e, ts[j], IndexOf(ts, ts[j]), items[ts[j]])
  BY <1>14
<1> HIDE DEF one, two, three
<1>16. Runs(db, one \o two, d, I) /\ one \o two \in Seq(Statements)
  BY <1>10, <1>11, <1>12, <1>13, RunsOn
<1>17. Runs(db, one \o two \o three, e, I) /\ one \o two \o three \in Seq(Statements)
  <2> DEFINE both == one \o two
  <2>1. Runs(db, both, d, I) /\ both \in Seq(Statements)
    BY <1>16
  <2> HIDE DEF both
  <2>2. Runs(db, both \o three, e, I) /\ both \o three \in Seq(Statements)
    BY <1>14, <1>15, <2>1, RunsOn
  <2> QED
    BY <2>2 DEF both
<1>18. e.items = items /\ e.content = db.content
  <2>1. items = [t \in DOMAIN items |-> items[t]]
    BY <1>3, TableType
  <2> QED
    BY <1>2, <1>6, <1>11, <1>13, <1>15, <2>1 DEF Saved, Placed, Stored
<1>19. ASSUME numbered, NEW k \in DOMAIN ts
       PROVE  e.position[ts[k]] = k - 1
  <2>1. DOMAIN c.position = DOMAIN items /\ DOMAIN d.position = DOMAIN items
    BY <1>7, <1>11, <1>13 DEF Saved, Placed
  <2>2. ts[k] \in DOMAIN items
    BY <1>4
  <2>3. CASE k = j
    BY <1>9, <1>15, <2>1, <2>2, <2>3 DEF Saved, Placed
  <2>4. CASE k # j /\ k = i
    <3>1. ts[i] # ts[j]
      BY <1>4, <1>5, <2>4 DEF Once
    <3>2. d.position[ts[i]] = i - 1
      BY <1>9, <1>13, <2>1, <2>2, <2>4 DEF Saved, Placed
    <3> QED
      BY <1>15, <2>1, <2>2, <2>4, <3>1, <3>2 DEF Saved, Placed
  <2>5. CASE k # j /\ k # i
    <3>1. ts[k] # ts[j] /\ ts[k] # ts[i]
      BY <1>4, <1>5, <2>5 DEF Once
    <3>2. ts[k] = templates[k] /\ db.position[templates[k]] = k - 1
      BY <1>2, <1>3, <1>4, <1>5, <1>19, <2>5 DEF Stored
    <3>3. c.position[ts[k]] = k - 1
      BY <1>7, <1>11, <2>2, <3>1, <3>2 DEF Placed
    <3>4. d.position[ts[k]] = k - 1
      BY <1>13, <2>1, <2>2, <3>1, <3>3 DEF Saved, Placed
    <3> QED
      BY <1>15, <2>1, <2>2, <3>1, <3>4 DEF Saved, Placed
  <2> QED
    BY <2>3, <2>4, <2>5
<1>20. Stored(e)'
  BY <1>1, <1>2, <1>18, <1>19 DEF Stored
<1> QED
  BY <1>1, <1>8, <1>17, <1>20, SlotKeeps DEF one, two, three

-----------------------------------------------------------------------------
LEMMA SeqWider ==
  ASSUME NEW S, NEW T, S \subseteq T, NEW s \in Seq(S)
  PROVE  s \in Seq(T)
OBVIOUS

(* A filter is added: a new row. *)
LEMMA NewFilter ==
  ASSUME StoreInv, todo = <<>>, NEW value, value \in Contents
  PROVE  LET id == NewRowId(db.filterPosition)
             new == With(content, id, value)
             fs == Append(filters, id)
         IN  /\ id \in Nat /\ id \notin DOMAIN content /\ id \notin DOMAIN db.content
             /\ new \in Tables(Contents) /\ DOMAIN new = DOMAIN content \cup {id} /\ new[id] = value
             /\ \A f \in DOMAIN content : new[f] = content[f]
             /\ fs \in Seq(DOMAIN new) /\ Once(fs) /\ Range(fs) = DOMAIN new
             /\ \A t \in DOMAIN items : items[t] \in Seq(DOMAIN new)
<1> DEFINE id == NewRowId(db.filterPosition)
           new == With(content, id, value)
           fs == Append(filters, id)
<1>1. db \in Databases /\ Stored(db) /\ Lists
  BY IdleStored DEF StoreInv
<1>2. Bounded(DOMAIN db.filterPosition) /\ DOMAIN db.filterPosition = DOMAIN content /\ DOMAIN db.content = DOMAIN content
  <2>1. db.filterPosition \in Tables(Int) /\ DOMAIN db.filterPosition = DOMAIN db.content
    BY <1>1, DatabaseType
  <2> QED
    BY <1>1, <2>1, TableType DEF Stored
<1>3. id \in Nat /\ \A f \in DOMAIN db.filterPosition : f < id
  BY <1>2, NewRowIsFresh
<1> HIDE DEF id
<1>4. id \notin DOMAIN content
  <2>1. ~(id < id)
    BY <1>3
  <2> QED
    BY <1>2, <1>3, <2>1
<1>5. content \in Tables(Contents)
  BY <1>1 DEF Lists
<1>6. new \in Tables(Contents)
  BY <1>3, <1>5, TableNew
<1>7. DOMAIN new = DOMAIN content \cup {id} /\ new[id] = value /\ \A f \in DOMAIN content \ {id} : new[f] = content[f]
  BY DEF With
<1> HIDE DEF new
<1>8. filters \in Seq(DOMAIN content) /\ Once(filters) /\ Range(filters) = DOMAIN content
  BY <1>1 DEF Lists
<1>9. fs \in Seq(DOMAIN content \cup {id}) /\ Once(fs) /\ Range(fs) = Range(filters) \cup {id}
  <2> DEFINE D == DOMAIN content
  <2>1. filters \in Seq(D) /\ Once(filters) /\ id \notin Range(filters)
    BY <1>4, <1>8
  <2> HIDE DEF D
  <2>2. /\ fs \in Seq(D \cup {id}) /\ Len(fs) = Len(filters) + 1
        /\ Once(fs) /\ Range(fs) = Range(filters) \cup {id}
        /\ \A i \in DOMAIN filters : fs[i] = filters[i]
        /\ fs[Len(filters) + 1] = id
    BY <2>1, OnceAppended
  <2> QED
    BY <2>2 DEF D
<1>10. ASSUME NEW t \in DOMAIN items
       PROVE  items[t] \in Seq(DOMAIN new)
  <2>1. items[t] \in Seq(DOMAIN content) /\ DOMAIN content \subseteq DOMAIN new
    BY <1>1, <1>7 DEF Lists
  <2> QED
    BY <2>1, SeqWider
<1> QED
  BY <1>2, <1>3, <1>4, <1>6, <1>7, <1>8, <1>9, <1>10 DEF id, new

(* The row of a new filter is inserted, and the filter is saved. *)
AddFilterRow(fs, f, value) == InsertFilterRow(f) \o SaveFilter(fs, f, value)

(* A row for a new filter, and what it consists of. *)
LEMMA AddFilterRowRuns ==
  ASSUME NEW its, NEW old, NEW d \in Snapshots(its, old), NEW f, f \in Nat, f \notin DOMAIN d.content,
         NEW value, value \in Contents, NEW fs, IndexOf(fs, f) \in Int
  PROVE  /\ AddFilterRow(fs, f, value) \in Seq(Statements)
         /\ \E e \in Snapshots(its, old) :
              /\ Runs(d, AddFilterRow(fs, f, value), e, Snapshots(its, old))
              /\ e.position = d.position /\ e.items = d.items
              /\ \A g : g \in DOMAIN e.content <=> g \in DOMAIN d.content \/ g = f
              /\ e.content[f] = value
              /\ \A g \in DOMAIN d.content : e.content[g] = d.content[g]
<1> DEFINE I == Snapshots(its, old)
<1>1. /\ InsertFilterRow(f) \in Seq(Statements)
      /\ \E c \in I :
            /\ Runs(d, InsertFilterRow(f), c, I)
            /\ c.position = d.position /\ c.items = d.items
            /\ c.filterPosition = With(d.filterPosition, f, NoPosition) /\ c.content = With(d.content, f, Noop)
  BY InsertFilterRuns
<1>2. PICK c \in I :
            /\ Runs(d, InsertFilterRow(f), c, I)
            /\ c.position = d.position /\ c.items = d.items
            /\ c.filterPosition = With(d.filterPosition, f, NoPosition) /\ c.content = With(d.content, f, Noop)
  BY <1>1
<1>3. f \in DOMAIN c.content
  BY <1>2 DEF With
<1>4. /\ SaveFilter(fs, f, value) \in Seq(Statements)
      /\ \E e \in I : Runs(c, SaveFilter(fs, f, value), e, I) /\ SavedFilter(c, e, f, IndexOf(fs, f), value)
  BY <1>3, SaveFilterRuns
<1>5. PICK e \in I : Runs(c, SaveFilter(fs, f, value), e, I) /\ SavedFilter(c, e, f, IndexOf(fs, f), value)
  BY <1>4
<1>6. AddFilterRow(fs, f, value) \in Seq(Statements) /\ Runs(d, AddFilterRow(fs, f, value), e, I)
  BY <1>1, <1>2, <1>4, <1>5, RunsOn DEF AddFilterRow
<1>7. e.position = d.position /\ e.items = d.items
  BY <1>2, <1>5 DEF SavedFilter
<1>8. /\ \A g : g \in DOMAIN e.content <=> g \in DOMAIN d.content \/ g = f
      /\ e.content[f] = value
      /\ \A g \in DOMAIN d.content : e.content[g] = d.content[g]
  BY <1>2, <1>5 DEF SavedFilter, With
<1> QED
  BY <1>6, <1>7, <1>8

(* New filters, saved or, as a copy, not. *)
LEMMA AddFilterKeeps ==
  ASSUME StoreInv, NEW value \in Contents, AddFilter(value)
  PROVE  StoreInv'
<1> DEFINE id == NewRowId(db.filterPosition)
           fs == Append(filters, id)
           new == With(content, id, value)
           I == Snapshots(items, items)
           w == AddFilterRow(fs, id, value)
<1>1. /\ filters' = fs /\ content' = new
      /\ Slot(OneByOne(w)) /\ todo = <<>>
      /\ UNCHANGED <<templates, items, numbered, copies>>
  BY DEF AddFilter, Slot, AddFilterRow
<1>2. db \in Databases /\ Stored(db) /\ Lists /\ db \in I
  BY <1>1, IdleStored DEF StoreInv
<1>3. /\ id \in Nat /\ id \notin DOMAIN content /\ id \notin DOMAIN db.content
      /\ new \in Tables(Contents) /\ DOMAIN new = DOMAIN content \cup {id} /\ new[id] = value
      /\ \A f \in DOMAIN content : new[f] = content[f]
      /\ fs \in Seq(DOMAIN new) /\ Once(fs) /\ Range(fs) = DOMAIN new
      /\ \A t \in DOMAIN items : items[t] \in Seq(DOMAIN new)
  BY <1>1, NewFilter
<1> HIDE DEF id, fs, new
<1>4. Lists'
  BY <1>1, <1>2, <1>3 DEF Lists
<1>5. IndexOf(fs, id) \in Int
  BY <1>3, IndexOfType
<1>6. /\ w \in Seq(Statements)
      /\ \E e \in I :
           /\ Runs(db, w, e, I)
           /\ e.position = db.position /\ e.items = db.items
           /\ \A g : g \in DOMAIN e.content <=> g \in DOMAIN db.content \/ g = id
           /\ e.content[id] = value
           /\ \A g \in DOMAIN db.content : e.content[g] = db.content[g]
  BY <1>2, <1>3, <1>5, AddFilterRowRuns
<1>7. PICK e \in I :
           /\ Runs(db, w, e, I)
           /\ e.position = db.position /\ e.items = db.items
           /\ \A g : g \in DOMAIN e.content <=> g \in DOMAIN db.content \/ g = id
           /\ e.content[id] = value
           /\ \A g \in DOMAIN db.content : e.content[g] = db.content[g]
  BY <1>6
<1>8. Stored(e)'
  <2>1. DOMAIN e.content = DOMAIN new
    BY <1>2, <1>3, <1>7 DEF Stored
  <2>2. \A f \in DOMAIN new \ copies : e.content[f] = new[f]
    BY <1>2, <1>3, <1>7 DEF Stored
  <2> QED
    BY <1>1, <1>2, <1>7, <2>1, <2>2 DEF Stored
<1> QED
  BY <1>1, <1>4, <1>6, <1>7, <1>8, SlotKeeps

LEMMA DuplicateFilterKeeps ==
  ASSUME StoreInv, NEW i \in DOMAIN filters, DuplicateFilter(i)
  PROVE  StoreInv'
<1> DEFINE id == NewRowId(db.filterPosition)
           fs == Append(filters, id)
           value == content[filters[i]]
           new == With(content, id, value)
           I == Snapshots(items, items)
           w == InsertFilterRow(id)
<1>1. /\ filters' = fs /\ content' = new
      /\ Slot(OneByOne(w)) /\ todo = <<>>
      /\ copies' = copies \cup {id}
      /\ UNCHANGED <<templates, items, numbered>>
  BY DEF DuplicateFilter, Slot
<1>2. db \in Databases /\ Stored(db) /\ Lists /\ db \in I
  BY <1>1, IdleStored DEF StoreInv
<1>3. value \in Contents
  <2>1. content \in Tables(Contents) /\ filters[i] \in DOMAIN content
    BY <1>2 DEF Lists
  <2>2. content \in [DOMAIN content -> Contents]
    BY <2>1, TableType
  <2> QED
    BY <2>1, <2>2
<1> HIDE DEF value
<1>4. /\ id \in Nat /\ id \notin DOMAIN content /\ id \notin DOMAIN db.content
      /\ new \in Tables(Contents) /\ DOMAIN new = DOMAIN content \cup {id} /\ new[id] = value
      /\ \A f \in DOMAIN content : new[f] = content[f]
      /\ fs \in Seq(DOMAIN new) /\ Once(fs) /\ Range(fs) = DOMAIN new
      /\ \A t \in DOMAIN items : items[t] \in Seq(DOMAIN new)
  BY <1>1, <1>3, NewFilter
<1> HIDE DEF id, fs, new
<1>5. Lists'
  BY <1>1, <1>2, <1>4 DEF Lists
<1>6. /\ w \in Seq(Statements)
      /\ \E c \in I :
            /\ Runs(db, w, c, I)
            /\ c.position = db.position /\ c.items = db.items
            /\ c.filterPosition = With(db.filterPosition, id, NoPosition) /\ c.content = With(db.content, id, Noop)
  BY <1>2, <1>4, InsertFilterRuns
<1>7. PICK c \in I :
            /\ Runs(db, w, c, I)
            /\ c.position = db.position /\ c.items = db.items
            /\ c.filterPosition = With(db.filterPosition, id, NoPosition) /\ c.content = With(db.content, id, Noop)
  BY <1>6
<1>8. DOMAIN c.content = DOMAIN new /\ \A f \in DOMAIN new \ (copies \cup {id}) : c.content[f] = new[f]
  BY <1>2, <1>4, <1>7 DEF With, Stored
<1>9. Stored(c)'
  BY <1>1, <1>2, <1>7, <1>8 DEF Stored
<1> QED
  BY <1>1, <1>5, <1>6, <1>7, <1>9, SlotKeeps

(* What a filter consists of is changed, and it is saved. *)
LEMMA SetContentKeeps ==
  ASSUME StoreInv, NEW filter \in DOMAIN content, NEW value, value \in Contents, SetContent(filter, value)
  PROVE  StoreInv'
<1> DEFINE new == [content EXCEPT ![filter] = value]
           I == Snapshots(items, items)
           w == SaveFilter(filters, filter, value)
<1>1. /\ content' = new
      /\ Slot(OneByOne(w)) /\ todo = <<>>
      /\ copies' = copies \ {filter}
      /\ UNCHANGED <<templates, items, filters, numbered>>
  BY DEF SetContent, Slot
<1>2. db \in Databases /\ Stored(db) /\ Lists /\ db \in I
  BY <1>1, IdleStored DEF StoreInv
<1>3. new \in Tables(Contents)
  BY <1>2, TableSet DEF Lists
<1>4. DOMAIN new = DOMAIN content
  OBVIOUS
<1>5. Lists'
  <2> HIDE DEF new
  <2> QED
    BY <1>1, <1>2, <1>3, <1>4 DEF Lists
<1>6. IndexOf(filters, filter) \in Int
  BY <1>2, IndexOfType DEF Lists
<1>7. filter \in DOMAIN db.content
  BY <1>2 DEF Stored
<1>8. /\ w \in Seq(Statements)
      /\ \E e \in I : Runs(db, w, e, I) /\ SavedFilter(db, e, filter, IndexOf(filters, filter), value)
  BY <1>2, <1>6, <1>7, SaveFilterRuns
<1>9. PICK e \in I : Runs(db, w, e, I) /\ SavedFilter(db, e, filter, IndexOf(filters, filter), value)
  BY <1>8
<1>10. Stored(e)'
  <2>1. content = [f \in DOMAIN content |-> content[f]]
    BY <1>2, TableType DEF Lists
  <2>2. DOMAIN e.content = DOMAIN new /\ \A f \in DOMAIN new \ (copies \ {filter}) : e.content[f] = new[f]
    BY <1>2, <1>7, <1>9, <2>1 DEF SavedFilter, Stored
  <2>3. e.position = db.position /\ e.items = db.items
    BY <1>9 DEF SavedFilter
  <2> HIDE DEF new
  <2> QED
    BY <1>1, <1>2, <2>2, <2>3 DEF Stored
<1> QED
  BY <1>1, <1>5, <1>8, <1>9, <1>10, SlotKeeps

LEMMA ContentKeeps ==
  ASSUME StoreInv,
         \/ \E i \in DOMAIN filters : FilterChanged(i) \/ \E value \in Contents : EditFilter(i, value)
         \/ \E t \in DOMAIN items : \E at \in DOMAIN items[t] :
              ItemChanged(t, at) \/ \E value \in Contents : EditItem(t, at, value)
  PROVE  StoreInv'
<1>1. Lists /\ content \in [DOMAIN content -> Contents]
  BY TableType DEF StoreInv, Lists
<1>2. ASSUME NEW i \in DOMAIN filters, FilterChanged(i) \/ \E value \in Contents : EditFilter(i, value)
      PROVE  StoreInv'
  <2>1. filters[i] \in DOMAIN content
    BY <1>1 DEF Lists
  <2>2. content[filters[i]] \in Contents
    BY <1>1, <2>1
  <2> QED
    BY <1>2, <2>1, <2>2, SetContentKeeps DEF FilterChanged, EditFilter
<1>3. ASSUME NEW t \in DOMAIN items, NEW at \in DOMAIN items[t],
             ItemChanged(t, at) \/ \E value \in Contents : EditItem(t, at, value)
      PROVE  StoreInv'
  <2>0. items[t] \in Seq(DOMAIN content)
    BY <1>1 DEF Lists
  <2>1. items[t][at] \in DOMAIN content
    BY <2>0
  <2>2. content[items[t][at]] \in Contents
    BY <1>1, <2>1
  <2> QED
    BY <1>3, <2>1, <2>2, SetContentKeeps DEF ItemChanged, EditItem
<1> QED
  BY <1>2, <1>3

(* Two filters change places. *)
LEMMA MoveFilterKeeps ==
  ASSUME StoreInv, NEW i \in DOMAIN filters, NEW j \in DOMAIN filters, MoveFilter(i, j)
  PROVE  StoreInv'
<1> DEFINE fs == Swapped(filters, i, j)
           D == DOMAIN content
           I == Snapshots(items, items)
           w == SwapFilters(fs, i, j)
<1>1. /\ filters' = fs
      /\ Slot(OneByOne(w)) /\ todo = <<>>
      /\ UNCHANGED <<templates, items, content, copies, numbered>>
  BY DEF MoveFilter, Slot
<1>2. db \in Databases /\ Stored(db) /\ Lists /\ db \in I
  BY <1>1, IdleStored DEF StoreInv
<1>3. filters \in Seq(D) /\ Once(filters) /\ Range(filters) = D /\ D \subseteq Nat /\ D = DOMAIN db.content
  BY <1>2, TableType DEF Lists, Stored
<1>4. fs \in Seq(D) /\ Len(fs) = Len(filters) /\ Once(fs) /\ Range(fs) = D
  <2> HIDE DEF D
  <2> QED
    BY <1>3, OnceSwapped
<1> HIDE DEF fs
<1>5. Lists'
  BY <1>1, <1>2, <1>4 DEF Lists
<1>6. i \in Int /\ j \in Int /\ fs[i] \in D /\ fs[j] \in D
  <2> HIDE DEF D
  <2> QED
    BY <1>3, <1>4
<1>7. /\ w \in Seq(Statements)
      /\ \E e \in I : /\ Runs(db, w, e, I)
                      /\ e.position = db.position /\ e.items = db.items /\ e.content = db.content
  <2>1. fs[i] \in DOMAIN db.content /\ fs[j] \in DOMAIN db.content /\ fs[i] \in Nat /\ fs[j] \in Nat
    BY <1>3, <1>6
  <2> QED
    BY <1>2, <1>6, <2>1, SwapFiltersRuns
<1>8. PICK e \in I : Runs(db, w, e, I) /\ e.position = db.position /\ e.items = db.items /\ e.content = db.content
  BY <1>7
<1>9. Stored(e)'
  BY <1>1, <1>2, <1>8 DEF Stored
<1> QED
  BY <1>1, <1>5, <1>7, <1>8, <1>9, SlotKeeps

-----------------------------------------------------------------------------
(* The items of the templates without a filter that is removed. *)
LEMMA RefsRemoved ==
  ASSUME Lists, NEW filter \in DOMAIN content
  PROVE  LET its == WithoutRefs(items, filter)
         IN  /\ its \in Tables(Seq(Nat)) /\ DOMAIN its = DOMAIN items
             /\ \A t \in DOMAIN items :
                  /\ its[t] \in Seq(DOMAIN content) /\ its[t] \in Seq(DOMAIN content \ {filter})
                  /\ filter \notin Range(items[t]) => its[t] = items[t]
<1> DEFINE its == WithoutRefs(items, filter)
           D == DOMAIN content
<1>1. DOMAIN items \in Rows /\ D \subseteq Nat /\ \A t \in DOMAIN items : items[t] \in Seq(D)
  BY TableType DEF Lists
<1>2. DOMAIN its = DOMAIN items /\ \A t \in DOMAIN items : its[t] = Among(items[t], Range(items[t]) \ {filter})
  BY DEF WithoutRefs
<1> HIDE DEF its, D
<1>3. ASSUME NEW t \in DOMAIN items
      PROVE  /\ its[t] \in Seq(D) /\ its[t] \in Seq(D \ {filter})
             /\ filter \notin Range(items[t]) => its[t] = items[t]
  <2> DEFINE l == items[t]
             R == Range(l)
             m == Among(l, R \ {filter})
  <2>1. l \in Seq(D)
    BY <1>1
  <2> HIDE DEF l
  <2>2. m \in Seq(D) /\ Range(m) = R \cap (R \ {filter}) /\ (R \subseteq R \ {filter} => m = l)
    BY <2>1, AmongElements
  <2> HIDE DEF m
  <2>3. m \in Seq(D \ {filter})
    <3>1. \A i \in 1..Len(m) : m[i] \in D /\ m[i] \in Range(m)
      BY <2>2 DEF Range
    <3>2. \A i \in 1..Len(m) : m[i] \in D \ {filter}
      BY <2>2, <3>1
    <3>3. m \in [1..Len(m) -> D \ {filter}] /\ Len(m) \in Nat
      BY <2>2, <3>2
    <3> QED
      BY <3>3
  <2>4. filter \notin R => R \subseteq R \ {filter}
    OBVIOUS
  <2> QED
    BY <1>2, <2>2, <2>3, <2>4 DEF l, m
<1>4. its \in Tables(Seq(Nat))
  <2>1. \A t \in DOMAIN items : its[t] \in Seq(Nat)
    BY <1>1, <1>3, SeqWider
  <2>2. its \in [DOMAIN items -> Seq(Nat)]
    <3>1. its = [t \in DOMAIN its |-> its[t]]
      BY DEF its, WithoutRefs
    <3> QED
      BY <1>2, <2>1, <3>1
  <2> QED
    BY <1>1, <2>2, TableIs
<1> QED
  BY <1>2, <1>3, <1>4 DEF its, D

(* The last two statements of removing a filter. *)
DeleteFilterRow(filter) == <<Statement("delete nodes", filter, 0), Statement("delete filter", filter, 0)>>

(* A row of Filters that nothing refers to is deleted. *)
LEMMA DeleteFilterRuns ==
  ASSUME NEW its, NEW old, NEW d \in Snapshots(its, old), NEW filter \in DOMAIN d.content, filter \in Nat,
         \A t \in DOMAIN d.items : filter \notin Range(d.items[t])
  PROVE  /\ DeleteFilterRow(filter) \in Seq(Statements)
         /\ \E e \in Snapshots(its, old) :
              /\ Runs(d, DeleteFilterRow(filter), e, Snapshots(its, old))
              /\ e.position = d.position /\ e.items = d.items
              /\ e.content = Without([d.content EXCEPT ![filter] = Noop], filter)
<1> DEFINE I == Snapshots(its, old)
           a == Statement("delete nodes", filter, 0)
           b == Statement("delete filter", filter, 0)
           c == Execute(a, d)
           e == Execute(b, c)
<1>1. d \in Databases /\ Midway(d.items, DOMAIN d.content, its, old)
  BY DEF Snapshots
<1>2. /\ MayExecute(a, d) /\ c \in Databases
      /\ c.position = d.position /\ c.items = d.items /\ c.content = [d.content EXCEPT ![filter] = Noop]
  BY <1>1, ExecuteDeleteNodes
<1>3. a \in Statements /\ b \in Statements
  BY DEF Statement, Statements, FilterKinds
<1> HIDE DEF c
<1>4. /\ MayExecute(b, c) /\ e \in Databases
      /\ e.position = c.position /\ e.items = c.items /\ e.content = Without(c.content, filter)
  <2>1. \A t \in DOMAIN c.items : filter \notin Range(c.items[t])
    BY <1>2
  <2> QED
    BY <1>2, <2>1, ExecuteDeleteFilter
<1> HIDE DEF e
<1>5. c \in I
  BY <1>2, MidwayKept
<1>6. DOMAIN e.content = DOMAIN d.content \ {filter}
  BY <1>2, <1>4 DEF Without
<1>7. Midway(e.items, DOMAIN e.content, its, old)
  BY <1>1, <1>2, <1>4, <1>6, ZenonT(30) DEF Midway
<1>8. e \in I
  BY <1>4, <1>7 DEF Snapshots
<1>9. <<a, b>> \in Seq(Statements) /\ Runs(d, <<a, b>>, e, I)
  BY <1>2, <1>3, <1>4, <1>5, <1>8, RunsTwo DEF c, e
<1> QED
  BY <1>2, <1>4, <1>8, <1>9 DEF DeleteFilterRow

(* The statement that could be refused is not: no row of the tables refers   *)
(* to the filter any more.                                                   *)
LEMMA RemoveFilterKeeps ==
  ASSUME StoreInv, NEW i \in DOMAIN filters, RemoveFilter(i)
  PROVE  StoreInv'
<1> DEFINE filter == filters[i]
           A == {t \in DOMAIN items : filter \in Range(items[t])}
           affected == Among(templates, A)
           its == WithoutRefs(items, filter)
           fs == RemoveAt(filters, i)
           new == Without(content, filter)
           I == Snapshots(its, items)
           one == SaveEach(templates, its, affected)
           two == DeleteFilterRow(filter)
           w == one \o two
<1>1. /\ filters' = fs /\ content' = new /\ items' = its
      /\ todo = <<>> /\ copies' = copies \ {filter}
      /\ UNCHANGED <<templates, numbered>>
      /\ Slot(<<w>>)
  BY DEF RemoveFilter, Slot, DeleteFilter, SaveEach, DeleteFilterRow
<1>2. db \in Databases /\ Stored(db) /\ Lists /\ db \in I
  BY <1>1, IdleStored DEF StoreInv
<1>3. /\ content \in Tables(Contents) /\ DOMAIN content \subseteq Nat /\ DOMAIN db.content = DOMAIN content /\ db.items = items
      /\ filters \in Seq(DOMAIN content) /\ Once(filters) /\ Range(filters) = DOMAIN content
      /\ templates \in Seq(DOMAIN items) /\ Once(templates) /\ Range(templates) = DOMAIN items
  BY <1>2, TableType DEF Lists, Stored
<1>4. filter \in DOMAIN content
  BY <1>3
<1>5. fs \in Seq(DOMAIN content \ {filter}) /\ Once(fs) /\ Range(fs) = DOMAIN content \ {filter}
  <2> DEFINE D == DOMAIN content
  <2>1. filters \in Seq(D) /\ Once(filters) /\ Range(filters) = D
    BY <1>3
  <2> HIDE DEF D
  <2> QED
    BY <2>1, OnceRemoved DEF D
<1>6. new \in Tables(Contents)
  BY <1>3, TableWithout
<1>7. DOMAIN new = DOMAIN content \ {filter} /\ \A f \in DOMAIN content \ {filter} : new[f] = content[f]
  BY DEF Without
<1> HIDE DEF filter, fs, new
<1>8. /\ its \in Tables(Seq(Nat)) /\ DOMAIN its = DOMAIN items
      /\ \A t \in DOMAIN items :
           /\ its[t] \in Seq(DOMAIN content) /\ its[t] \in Seq(DOMAIN content \ {filter})
           /\ filter \notin Range(items[t]) => its[t] = items[t]
  BY <1>2, <1>4, RefsRemoved
<1>9. affected \in Seq(DOMAIN items) /\ Range(affected) = A
  <2> DEFINE T == DOMAIN items
  <2>1. templates \in Seq(T) /\ Range(templates) = T /\ A \subseteq T
    BY <1>3
  <2> HIDE DEF T, A
  <2>2. affected \in Seq(T) /\ Range(affected) = Range(templates) \cap A
    BY <2>1, AmongElements
  <2> QED
    BY <2>1, <2>2 DEF T
<1> HIDE DEF its, affected
<1>10. Lists'
  <2>1. \A t \in DOMAIN its : its[t] \in Seq(DOMAIN new)
    BY <1>7, <1>8
  <2>2. fs \in Seq(DOMAIN new) /\ Range(fs) = DOMAIN new
    BY <1>5, <1>7
  <2>3. templates \in Seq(DOMAIN its) /\ Range(templates) = DOMAIN its
    BY <1>3, <1>8
  <2> QED
    BY <1>1, <1>3, <1>5, <1>6, <1>8, <2>1, <2>2, <2>3 DEF Lists
<1>11. /\ one \in Seq(Statements)
       /\ \E c \in I : Runs(db, one, c, I) /\ SavedAll(db, c, templates, its, Range(affected))
  <2>1. \A t \in Range(affected) :
          t \in DOMAIN db.items /\ t \in DOMAIN its /\ its[t] \in Seq(DOMAIN db.content) /\ t \in Range(templates)
    BY <1>3, <1>8, <1>9
  <2> QED
    BY <1>2, <1>3, <1>9, <2>1, SaveEachRuns
<1>12. PICK c \in I : Runs(db, one, c, I) /\ SavedAll(db, c, templates, its, Range(affected))
  BY <1>11
<1>13. DOMAIN c.items = DOMAIN items /\ \A t \in DOMAIN items : c.items[t] = its[t]
  BY <1>3, <1>8, <1>9, <1>12 DEF SavedAll
<1>14. c.items = its
  <2>1. c.items \in Tables(Seq(Nat))
    BY DatabaseType DEF Snapshots
  <2> QED
    BY <1>8, <1>13, <2>1, SameTable
<1>15. \A t \in DOMAIN c.items : filter \notin Range(c.items[t])
  <2> SUFFICES ASSUME NEW t \in DOMAIN items PROVE filter \notin Range(its[t])
    BY <1>13
  <2>1. its[t] \in Seq(DOMAIN content \ {filter})
    BY <1>8
  <2> QED
    BY <2>1 DEF Range
<1>16. filter \in DOMAIN c.content /\ filter \in Nat
  BY <1>3, <1>4, <1>12 DEF SavedAll
<1>17. /\ two \in Seq(Statements)
       /\ \E e \in I :
            /\ Runs(c, two, e, I)
            /\ e.position = c.position /\ e.items = c.items
            /\ e.content = Without([c.content EXCEPT ![filter] = Noop], filter)
  BY <1>15, <1>16, DeleteFilterRuns
<1>18. PICK e \in I :
            /\ Runs(c, two, e, I)
            /\ e.position = c.position /\ e.items = c.items
            /\ e.content = Without([c.content EXCEPT ![filter] = Noop], filter)
  BY <1>17
<1>19. w \in Seq(Statements) /\ Runs(db, w, e, I) /\ w # <<>>
  <2>1. Len(two) = 2
    BY DEF DeleteFilterRow
  <2> HIDE DEF one, two
  <2>2. w \in Seq(Statements) /\ Runs(db, w, e, I)
    BY <1>11, <1>12, <1>17, <1>18, RunsOn
  <2>3. Len(w) = Len(one) + 2 /\ Len(one) \in Nat
    <3>1. one \in Seq(Statements) /\ two \in Seq(Statements)
      BY <1>11, <1>17
    <3>2. Len(w) = Len(one) + Len(two)
      BY <3>1, ConcatProperties
    <3> QED
      BY <2>1, <3>1, <3>2
  <2>4. Len(<<>>) = 0
    OBVIOUS
  <2> QED
    BY <2>2, <2>3, <2>4
<1>20. DOMAIN e.content = DOMAIN new /\ \A f \in DOMAIN new \ (copies \ {filter}) : e.content[f] = new[f]
  <2>1. DOMAIN c.content = DOMAIN content /\ \A f \in DOMAIN content \ copies : c.content[f] = content[f]
    BY <1>2, <1>12 DEF SavedAll, Stored
  <2> QED
    BY <1>7, <1>18, <2>1 DEF Without
<1>21. ASSUME numbered, NEW k \in DOMAIN templates
       PROVE  e.position[templates[k]] = k - 1
  <2> DEFINE t == templates[k]
  <2>1. t \in DOMAIN items /\ db.position[t] = k - 1
    BY <1>2, <1>3, <1>21 DEF Stored
  <2>2. CASE t \in Range(affected)
    <3>1. c.position[t] = IndexOf(templates, t)
      BY <1>3, <1>12, <2>1, <2>2 DEF SavedAll
    <3>2. IndexOf(templates, t) = k - 1
      BY <1>3, IndexOfPlace
    <3> QED
      BY <1>18, <3>1, <3>2
  <2>3. CASE t \notin Range(affected)
    BY <1>3, <1>12, <1>18, <2>1, <2>3 DEF SavedAll
  <2> QED
    BY <2>2, <2>3
<1>22. Stored(e)'
  BY <1>1, <1>14, <1>18, <1>20, <1>21 DEF Stored
<1> HIDE DEF w
<1> QED
  BY <1>1, <1>10, <1>19, <1>22, SlotKeeps

-----------------------------------------------------------------------------
(* Two lists without common elements. *)
LEMMA OnceJoined ==
  ASSUME NEW S, NEW T, NEW a \in Seq(S), NEW b \in Seq(T), Once(a), Once(b), Range(a) \cap Range(b) = {},
         NEW ab, ab = a \o b
  PROVE  /\ ab \in Seq(S \cup T) /\ Once(ab)
         /\ \A x : x \in Range(ab) <=> x \in Range(a) \/ x \in Range(b)
<1> DEFINE n == Len(a)
           m == Len(b)
<1>1. /\ n \in Nat /\ DOMAIN a = 1..n /\ m \in Nat /\ DOMAIN b = 1..m
      /\ a \in Seq(S \cup T) /\ b \in Seq(S \cup T)
  OBVIOUS
<1>2. ab \in Seq(S \cup T) /\ Len(ab) = n + m /\ \A i \in 1..(n + m) : ab[i] = IF i <= n THEN a[i] ELSE b[i - n]
  BY <1>1, ConcatProperties
<1> HIDE DEF n, m
<1>3. DOMAIN ab = 1..(n + m)
  BY <1>2
<1>4. /\ \A i \in 1..n : i \in 1..(n + m) /\ ab[i] = a[i]
      /\ \A j \in 1..m : n + j \in 1..(n + m) /\ ab[n + j] = b[j]
      /\ \A k \in 1..(n + m) : k \in 1..n \/ \E j \in 1..m : k = n + j
  <2>1. ASSUME NEW j \in 1..m
        PROVE  n + j \in 1..(n + m) /\ ab[n + j] = b[j]
    <3>1. n + j \in 1..(n + m) /\ ~(n + j <= n) /\ (n + j) - n = j
      BY <1>1
    <3> QED
      BY <1>2, <3>1
  <2>2. ASSUME NEW k \in 1..(n + m), k \notin 1..n
        PROVE  \E j \in 1..m : k = n + j
    <3>1. k - n \in 1..m /\ k = n + (k - n)
      BY <1>1, <2>2
    <3> QED
      BY <3>1
  <2>3. ASSUME NEW i \in 1..n
        PROVE  i \in 1..(n + m) /\ ab[i] = a[i]
    <3>1. i \in 1..(n + m) /\ i <= n
      BY <1>1
    <3> QED
      BY <1>2, <3>1
  <2> QED
    BY <2>1, <2>2, <2>3
<1>5. \A i \in 1..n, j \in 1..m : a[i] # b[j]
  BY <1>1 DEF Range
<1>6. Once(ab)
  <2> SUFFICES ASSUME NEW k \in 1..(n + m), NEW l \in 1..(n + m), ab[k] = ab[l] PROVE k = l
    BY <1>3 DEF Once
  <2>1. CASE k \in 1..n /\ l \in 1..n
    BY <1>1, <1>4, <2>1 DEF Once
  <2>2. CASE k \in 1..n /\ l \notin 1..n
    <3>1. PICK j \in 1..m : l = n + j
      BY <1>4, <2>2
    <3>2. ab[k] = a[k] /\ ab[l] = b[j]
      BY <1>4, <2>2, <3>1
    <3> QED
      BY <1>5, <2>2, <3>2
  <2>3. CASE k \notin 1..n /\ l \in 1..n
    <3>1. PICK j \in 1..m : k = n + j
      BY <1>4, <2>3
    <3>2. ab[l] = a[l] /\ ab[k] = b[j]
      BY <1>4, <2>3, <3>1
    <3> QED
      BY <1>5, <2>3, <3>2
  <2>4. CASE k \notin 1..n /\ l \notin 1..n
    <3>1. PICK j \in 1..m : k = n + j
      BY <1>4, <2>4
    <3>2. PICK o \in 1..m : l = n + o
      BY <1>4, <2>4
    <3>3. b[j] = b[o]
      BY <1>4, <3>1, <3>2
    <3> QED
      BY <1>1, <3>1, <3>2, <3>3 DEF Once
  <2> QED
    BY <2>1, <2>2, <2>3, <2>4
<1>7. Range(ab) = Range(a) \cup Range(b)
  <2>1. Range(ab) = {ab[k] : k \in 1..(n + m)} /\ Range(a) = {a[i] : i \in 1..n} /\ Range(b) = {b[j] : j \in 1..m}
    BY <1>1, <1>3 DEF Range
  <2>2. Range(a) \subseteq Range(ab)
    BY <1>4, <2>1
  <2>3. Range(b) \subseteq Range(ab)
    BY <1>4, <2>1
  <2>4. ASSUME NEW k \in 1..(n + m)
        PROVE  ab[k] \in Range(a) \cup Range(b)
    <3>1. CASE k \in 1..n
      BY <1>4, <2>1, <3>1
    <3>2. CASE k \notin 1..n
      <4>1. PICK j \in 1..m : k = n + j
        BY <1>4, <3>2
      <4> QED
        BY <1>4, <2>1, <4>1
    <3> QED
      BY <3>1, <3>2
  <2>5. Range(ab) \subseteq Range(a) \cup Range(b)
    BY <2>1, <2>4
  <2> QED
    BY <2>2, <2>3, <2>5
<1> QED
  BY <1>2, <1>6, <1>7

(* The filter that stands for an imported one is one of the list. *)
LEMMA KnownFilterType ==
  ASSUME Lists, NEW value
  PROVE  KnownFilter(value) # 0 => KnownFilter(value) \in DOMAIN content
<1> DEFINE known == {i \in DOMAIN filters : content[filters[i]] = value}
           n == Len(filters)
<1>1. /\ filters \in Seq(DOMAIN content) /\ n \in Nat /\ DOMAIN filters = 1..n
      /\ \A i \in 1..n : filters[i] \in DOMAIN content
  BY DEF Lists
<1>2. KnownFilter(value) = IF known = {} THEN 0 ELSE filters[Max(known)]
  BY DEF KnownFilter
<1>3. known \in SUBSET (0..n) /\ known \subseteq 1..n
  BY <1>1
<1> HIDE DEF known, n
<1>4. known # {} => Max(known) \in 1..n
  BY <1>1, <1>3, MaxIsGreatest
<1> QED
  BY <1>1, <1>2, <1>4

LEMMA IndexIn ==
  ASSUME NEW T, NEW list \in Seq(T), NEW x \in Range(list)
  PROVE  IndexOf(list, x) + 1 \in DOMAIN list /\ list[IndexOf(list, x) + 1] = x
<1>1. \E i \in DOMAIN list : list[i] = x
  BY DEF Range
<1> DEFINE i == CHOOSE i \in DOMAIN list : list[i] = x
<1>2. i \in DOMAIN list /\ list[i] = x
  BY <1>1
<1>3. IndexOf(list, x) = i - 1
  BY DEF IndexOf
<1> HIDE DEF i
<1>4. (i - 1) + 1 = i
  BY <1>2
<1> QED
  BY <1>2, <1>3, <1>4

-----------------------------------------------------------------------------
(* The filters that come with an imported template. *)
Unknown(values) == Among([i \in DOMAIN values |-> i], {i \in DOMAIN values : KnownFilter(values[i]) = 0})
(* The parts of an import: the row numbers of the new filters, the items,    *)
(* what the filters consist of.                                              *)
NewIds(values) == [n \in DOMAIN Unknown(values) |-> NewRowId(db.filterPosition) + n - 1]
ImportedItems(values) ==
  [i \in DOMAIN values |->
     IF KnownFilter(values[i]) = 0 THEN NewIds(values)[IndexOf(Unknown(values), i) + 1] ELSE KnownFilter(values[i])]
ImportedContent(values) ==
  [f \in DOMAIN content \cup Range(NewIds(values)) |->
     IF f \in DOMAIN content THEN content[f] ELSE values[Unknown(values)[IndexOf(NewIds(values), f) + 1]]]

(* The items that become filters of their own have different places and      *)
(* different new numbers.                                                    *)
LEMMA UnknownType ==
  ASSUME NEW values \in Seq(Contents)
  PROVE  /\ Unknown(values) \in Seq(DOMAIN values)
         /\ Range(Unknown(values)) = {i \in DOMAIN values : KnownFilter(values[i]) = 0}
<1> DEFINE V == DOMAIN values
           s == [i \in V |-> i]
           S == {i \in V : KnownFilter(values[i]) = 0}
           n == Len(values)
<1>1. n \in Nat /\ V = 1..n
  OBVIOUS
<1> HIDE DEF V, n
<1>2. s \in [1..n -> V] /\ DOMAIN s = V /\ \A i \in V : s[i] = i
  BY <1>1
<1> HIDE DEF s
<1>3. s \in Seq(V)
  BY <1>1, <1>2
<1>4. Range(s) = V
  BY <1>2 DEF Range
<1> HIDE DEF S
<1>5. Among(s, S) \in Seq(V) /\ Range(Among(s, S)) = Range(s) \cap S
  BY <1>3, AmongElements
<1>6. S \subseteq V
  BY DEF S
<1> QED
  BY <1>4, <1>5, <1>6 DEF Unknown, V, S, s

LEMMA NewIdsType ==
  ASSUME StoreInv, todo = <<>>, NEW values \in Seq(Contents)
  PROVE  LET newIds == NewIds(values)
         IN  /\ newIds \in Seq(Nat) /\ Once(newIds) /\ DOMAIN newIds = DOMAIN Unknown(values)
             /\ \A n \in DOMAIN newIds : newIds[n] \notin DOMAIN content /\ newIds[n] \in Nat
             /\ Range(newIds) \cap DOMAIN content = {}
             /\ \A n \in DOMAIN newIds : values[Unknown(values)[n]] \in Contents
             /\ DOMAIN content \cup Range(newIds) \in Rows
<1> DEFINE u == Unknown(values)
           m == Len(u)
           base == NewRowId(db.filterPosition)
           newIds == NewIds(values)
<1>1. u \in Seq(DOMAIN values)
  BY UnknownType
<1>2. newIds = [n \in DOMAIN u |-> base + n - 1]
  BY DEF NewIds
<1> HIDE DEF u, newIds
<1>3. m \in Nat /\ DOMAIN u = 1..m /\ \A n \in 1..m : u[n] \in DOMAIN values
  BY <1>1
<1> HIDE DEF m
<1>4. db \in Databases /\ Stored(db) /\ Lists
  BY IdleStored DEF StoreInv
<1>5. Bounded(DOMAIN db.filterPosition) /\ DOMAIN db.filterPosition = DOMAIN content
  <2>1. db.filterPosition \in Tables(Int) /\ DOMAIN db.filterPosition = DOMAIN db.content
    BY <1>4, DatabaseType
  <2> QED
    BY <1>4, <2>1, TableType DEF Stored
<1>6. base \in Nat /\ \A f \in DOMAIN content : f < base
  BY <1>5, NewRowIsFresh
<1> HIDE DEF base
<1>7. content \in Tables(Contents) /\ DOMAIN content \subseteq Nat
  BY <1>4, TableType DEF Lists
<1>8. DOMAIN newIds = 1..m /\ \A n \in 1..m : newIds[n] = base + n - 1 /\ newIds[n] \in Nat
  BY <1>2, <1>3, <1>6
<1>9. newIds \in Seq(Nat)
  <2>1. newIds \in [1..m -> Nat]
    BY <1>2, <1>3, <1>8
  <2> QED
    BY <1>3, <2>1
<1>10. Once(newIds)
  BY <1>3, <1>6, <1>8 DEF Once
<1>11. \A n \in 1..m : newIds[n] \notin DOMAIN content
  BY <1>3, <1>6, <1>7, <1>8
<1>12. Range(newIds) \cap DOMAIN content = {}
  BY <1>8, <1>11 DEF Range
<1>13. \A n \in 1..m : values[u[n]] \in Contents
  BY <1>3
<1>14. DOMAIN content \cup Range(newIds) \in Rows
  <2>1. \A f \in Range(newIds) : f \in Nat /\ f <= base + m
    BY <1>3, <1>6, <1>8 DEF Range
  <2>2. \A f \in DOMAIN content : f \in Nat /\ f <= base + m
    BY <1>3, <1>6, <1>7
  <2>3. DOMAIN content \cup Range(newIds) \subseteq 0..(base + m) /\ base + m \in Nat
    BY <1>3, <1>6, <2>1, <2>2
  <2> DEFINE U == DOMAIN content \cup Range(newIds)
             N == base + m
  <2>4. U \subseteq 0..N /\ N \in Nat
    BY <2>3
  <2> HIDE DEF U, N
  <2>5. Bounded(U)
    BY <2>4 DEF Bounded
  <2>6. U \subseteq Nat
    BY <2>4
  <2> QED
    BY <2>5, <2>6 DEF Rows, U
<1> QED
  BY <1>3, <1>8, <1>9, <1>10, <1>11, <1>12, <1>13, <1>14 DEF u, newIds

(* The lists after an import are whole. *)
LEMMA ImportedFilters ==
  ASSUME StoreInv, todo = <<>>, NEW values \in Seq(Contents)
  PROVE  LET newIds == NewIds(values)
             new == ImportedContent(values)
             fs == filters \o newIds
             list == ImportedItems(values)
         IN  /\ new \in Tables(Contents) /\ DOMAIN new = DOMAIN content \cup Range(newIds)
             /\ \A f \in DOMAIN content : new[f] = content[f]
             /\ \A n \in DOMAIN newIds : new[newIds[n]] = values[Unknown(values)[n]]
             /\ fs \in Seq(DOMAIN new) /\ Once(fs) /\ Range(fs) = DOMAIN new
             /\ list \in Seq(DOMAIN new) /\ list \in Seq(Nat)
             /\ \A t \in DOMAIN items : items[t] \in Seq(DOMAIN new)
<1> DEFINE newIds == NewIds(values)
           u == Unknown(values)
           new == ImportedContent(values)
           fs == filters \o newIds
           list == ImportedItems(values)
           D == DOMAIN content
           R == Range(newIds)
<1>1. /\ newIds \in Seq(Nat) /\ Once(newIds) /\ DOMAIN newIds = DOMAIN u
      /\ \A n \in DOMAIN newIds : newIds[n] \notin D /\ newIds[n] \in Nat
      /\ R \cap D = {}
      /\ \A n \in DOMAIN newIds : values[u[n]] \in Contents
      /\ D \cup R \in Rows
  BY NewIdsType
<1>2. Lists /\ content \in [D -> Contents]
  BY TableType DEF Lists, StoreInv
<1>3. DOMAIN new = D \cup R /\ \A f \in D : new[f] = content[f]
  BY DEF ImportedContent
<1>4. ASSUME NEW n \in DOMAIN newIds
      PROVE  newIds[n] \in R /\ new[newIds[n]] = values[u[n]]
  <2>1. newIds[n] \in R /\ newIds[n] \notin D
    BY <1>1 DEF Range
  <2>2. IndexOf(newIds, newIds[n]) = n - 1
    BY <1>1, IndexOfPlace
  <2>3. n \in Nat /\ (n - 1) + 1 = n
    BY <1>1
  <2>4. new[newIds[n]] = values[u[IndexOf(newIds, newIds[n]) + 1]]
    BY <2>1 DEF ImportedContent
  <2> QED
    BY <2>1, <2>2, <2>3, <2>4
<1>5. new \in Tables(Contents)
  <2>1. \A f \in R : \E n \in DOMAIN newIds : f = newIds[n]
    BY DEF Range
  <2>2. \A f \in D \cup R : new[f] \in Contents
    BY <1>1, <1>2, <1>3, <1>4, <2>1
  <2>3. new = [f \in D \cup R |-> new[f]]
    BY DEF ImportedContent
  <2> HIDE DEF new, R
  <2>4. new \in [D \cup R -> Contents]
    BY <2>2, <2>3
  <2> QED
    BY <1>1, <2>4, TableIs
<1>6. fs \in Seq(D \cup R) /\ Once(fs) /\ Range(fs) = D \cup R
  <2>1. filters \in Seq(D) /\ Once(filters) /\ Range(filters) = D
    BY <1>2 DEF Lists
  <2>2. newIds \in Seq(R)
    <3>1. \A n \in 1..Len(newIds) : newIds[n] \in R
      BY <1>1, <1>4
    <3>2. newIds \in [1..Len(newIds) -> R] /\ Len(newIds) \in Nat
      BY <1>1, <3>1
    <3> HIDE DEF newIds, R
    <3> QED
      BY <3>2
  <2> HIDE DEF D
  <2>3. Range(filters) \cap Range(newIds) = {} /\ Once(newIds)
    BY <1>1, <2>1
  <2>5. fs = filters \o newIds
    OBVIOUS
  <2> HIDE DEF newIds, R, fs
  <2>6. fs \in Seq(D \cup R)
    BY <2>1, <2>2, <2>3, <2>5, OnceJoined
  <2>7. Once(fs)
    BY <2>1, <2>2, <2>3, <2>5, OnceJoined
  <2>8. \A x : x \in Range(fs) <=> x \in Range(filters) \/ x \in Range(newIds)
    BY <2>1, <2>2, <2>3, <2>5, OnceJoined
  <2>4. fs \in Seq(D \cup R) /\ Once(fs) /\ Range(fs) = Range(filters) \cup Range(newIds)
    BY <2>6, <2>7, <2>8
  <2> QED
    BY <2>1, <2>4 DEF R
<1>7. list \in Seq(D \cup R)
  <2> DEFINE n == Len(values)
  <2>0. n \in Nat /\ DOMAIN values = 1..n
    OBVIOUS
  <2>1. u \in Seq(DOMAIN values) /\ Range(u) = {i \in DOMAIN values : KnownFilter(values[i]) = 0}
    BY UnknownType
  <2>2. list = [i \in 1..n |-> IF KnownFilter(values[i]) = 0 THEN newIds[IndexOf(u, i) + 1] ELSE KnownFilter(values[i])]
    BY <2>0 DEF ImportedItems
  <2> HIDE DEF n, list, u, newIds, R, D
  <2>3. ASSUME NEW i \in 1..n
        PROVE  list[i] \in D \cup R
    <3>1. CASE KnownFilter(values[i]) = 0
      <4>1. i \in Range(u)
        BY <2>0, <2>1, <3>1
      <4>2. IndexOf(u, i) + 1 \in DOMAIN newIds
        BY <1>1, <2>1, <4>1, IndexIn
      <4> QED
        BY <1>4, <2>2, <3>1, <4>2
    <3>2. CASE KnownFilter(values[i]) # 0
      BY <1>2, <2>2, <3>2, KnownFilterType DEF D
    <3> QED
      BY <3>1, <3>2
  <2>4. list \in [1..n -> D \cup R]
    BY <2>2, <2>3
  <2> QED
    BY <2>0, <2>4
<1>8. D \cup R \subseteq Nat
  BY <1>1 DEF Rows
<1> HIDE DEF newIds, new, fs, list, u, D, R
<1>9. list \in Seq(Nat)
  BY <1>7, <1>8, SeqWider
<1>10. ASSUME NEW t \in DOMAIN items
       PROVE  items[t] \in Seq(D \cup R)
  <2>1. items[t] \in Seq(D)
    BY <1>2 DEF Lists, D
  <2> QED
    BY <2>1, SeqWider
<1> QED
  BY <1>3, <1>4, <1>5, <1>6, <1>7, <1>9, <1>10 DEF newIds, new, fs, list, u, D, R

-----------------------------------------------------------------------------
(* The new filters are written one after another. *)
AddNewFilters(values) ==
  [n \in DOMAIN NewIds(values) |->
     AddFilterRow(filters \o NewIds(values), NewIds(values)[n], values[Unknown(values)[n]])]

LEMMA AddNewFiltersRun ==
  ASSUME StoreInv, todo = <<>>, NEW values \in Seq(Contents),
         NEW its, NEW old, NEW d \in Snapshots(its, old), d.content = db.content
  PROVE  /\ FlattenSeq(AddNewFilters(values)) \in Seq(Statements)
         /\ \E e \in Snapshots(its, old) :
              /\ Runs(d, FlattenSeq(AddNewFilters(values)), e, Snapshots(its, old))
              /\ e.position = d.position /\ e.items = d.items
              /\ \A g : g \in DOMAIN e.content <=> g \in DOMAIN content \/ g \in Range(NewIds(values))
              /\ \A n \in DOMAIN NewIds(values) : e.content[NewIds(values)[n]] = values[Unknown(values)[n]]
              /\ \A g \in DOMAIN content : e.content[g] = d.content[g]
<1> DEFINE I == Snapshots(its, old)
           ids == NewIds(values)
           u == Unknown(values)
           m == Len(ids)
           fs == filters \o ids
           ss == AddNewFilters(values)
           Upto(e, k) ==
             /\ e.position = d.position /\ e.items = d.items
             /\ \A g : g \in DOMAIN e.content <=> g \in DOMAIN content \/ \E n \in 1..k : g = ids[n]
             /\ \A n \in 1..k : e.content[ids[n]] = values[u[n]]
             /\ \A g \in DOMAIN content : e.content[g] = d.content[g]
           post == [k \in 0..m |-> {e \in I : Upto(e, k)}]
<1>1. /\ ids \in Seq(Nat) /\ Once(ids)
      /\ \A n \in DOMAIN ids : ids[n] \notin DOMAIN content /\ ids[n] \in Nat /\ values[u[n]] \in Contents
  BY NewIdsType
<1>2. /\ DOMAIN ImportedContent(values) = DOMAIN content \cup Range(ids)
      /\ fs \in Seq(DOMAIN ImportedContent(values)) /\ Range(fs) = DOMAIN ImportedContent(values)
  BY ImportedFilters
<1>3. DOMAIN db.content = DOMAIN content
  BY IdleStored DEF Stored
<1> HIDE DEF ids, u, fs
<1>4. m \in Nat /\ DOMAIN ids = 1..m
  BY <1>1
<1>5. DOMAIN ss = 1..m /\ \A n \in 1..m : ss[n] = AddFilterRow(fs, ids[n], values[u[n]])
  BY <1>4 DEF AddNewFilters, ids, u, fs
<1> HIDE DEF m
<1>6. \A n \in 1..m : IndexOf(fs, ids[n]) \in Int
  <2> SUFFICES ASSUME NEW n \in 1..m PROVE IndexOf(fs, ids[n]) \in Int
    OBVIOUS
  <2>1. ids[n] \in Range(fs)
    BY <1>2, <1>4 DEF Range
  <2> QED
    BY <1>2, <2>1, IndexOfType
<1>7. \A n \in 1..m : \A c \in I : ids[n] \notin DOMAIN c.content =>
         /\ ss[n] \in Seq(Statements)
         /\ \E e \in I :
              /\ Runs(c, ss[n], e, I)
              /\ e.position = c.position /\ e.items = c.items
              /\ \A g : g \in DOMAIN e.content <=> g \in DOMAIN c.content \/ g = ids[n]
              /\ e.content[ids[n]] = values[u[n]]
              /\ \A g \in DOMAIN c.content : e.content[g] = c.content[g]
  <2> SUFFICES ASSUME NEW n \in 1..m, NEW c \in I, ids[n] \notin DOMAIN c.content
               PROVE  /\ ss[n] \in Seq(Statements)
                      /\ \E e \in I :
                           /\ Runs(c, ss[n], e, I)
                           /\ e.position = c.position /\ e.items = c.items
                           /\ \A g : g \in DOMAIN e.content <=> g \in DOMAIN c.content \/ g = ids[n]
                           /\ e.content[ids[n]] = values[u[n]]
                           /\ \A g \in DOMAIN c.content : e.content[g] = c.content[g]
    OBVIOUS
  <2> DEFINE f == ids[n]
             value == values[u[n]]
  <2>1. f \in Nat /\ value \in Contents /\ IndexOf(fs, f) \in Int /\ ss[n] = AddFilterRow(fs, f, value)
    BY <1>1, <1>4, <1>5, <1>6
  <2>2. f \notin DOMAIN c.content
    OBVIOUS
  <2> HIDE DEF f, value, ss
  <2>3. /\ AddFilterRow(fs, f, value) \in Seq(Statements)
        /\ \E e \in I :
             /\ Runs(c, AddFilterRow(fs, f, value), e, I)
             /\ e.position = c.position /\ e.items = c.items
             /\ \A g : g \in DOMAIN e.content <=> g \in DOMAIN c.content \/ g = f
             /\ e.content[f] = value
             /\ \A g \in DOMAIN c.content : e.content[g] = c.content[g]
    BY <2>1, <2>2, AddFilterRowRuns
  <2> QED
    BY <2>1, <2>3 DEF f, value
<1>8. ss \in Seq(Seq(Statements)) /\ Len(ss) = m
  <2>1. \A n \in 1..m : ss[n] \in Seq(Statements)
    <3> SUFFICES ASSUME NEW n \in 1..m PROVE ss[n] \in Seq(Statements)
      OBVIOUS
    <3>1. ids[n] \notin DOMAIN d.content
      BY <1>1, <1>3, <1>4
    <3> QED
      BY <1>7, <3>1
  <2>2. ss = [n \in 1..m |-> ss[n]]
    BY <1>5 DEF AddNewFilters
  <2> HIDE DEF ss
  <2>3. ss \in [1..m -> Seq(Statements)]
    BY <2>1, <2>2
  <2> QED
    BY <1>4, <2>3
<1> HIDE DEF ss
<1>9. d \in post[0]
  <2>1. 0 \in 0..m /\ \A n \in 1..0 : FALSE
    BY <1>4
  <2>2. Upto(d, 0)
    BY <1>3, <2>1
  <2> QED
    BY <2>1, <2>2
<1>10. \A k \in 1..Len(ss) : \A c \in I : c \in post[k - 1] => \E e \in post[k] : Runs(c, ss[k], e, I)
  <2> SUFFICES ASSUME NEW k \in 1..m, NEW c \in I, c \in post[k - 1]
               PROVE  \E e \in post[k] : Runs(c, ss[k], e, I)
    BY <1>8
  <2>1. /\ k - 1 \in 0..m /\ k \in 0..m /\ k \in 1..k /\ \A n \in 1..k : n \in 1..(k - 1) \/ n = k
        /\ \A n \in 1..(k - 1) : n \in 1..k /\ n \in 1..m /\ n # k
    BY <1>4
  <2>2. Upto(c, k - 1)
    BY <2>1
  <2>3. ids[k] \notin DOMAIN c.content
    <3> SUFFICES ASSUME ids[k] \in DOMAIN c.content PROVE FALSE
      OBVIOUS
    <3>1. ids[k] \notin DOMAIN content
      BY <1>1, <1>4
    <3>2. PICK n \in 1..(k - 1) : ids[k] = ids[n]
      BY <2>2, <3>1
    <3> QED
      BY <1>1, <1>4, <2>1, <3>2 DEF Once
  <2>4. PICK e \in I :
              /\ Runs(c, ss[k], e, I)
              /\ e.position = c.position /\ e.items = c.items
              /\ \A g : g \in DOMAIN e.content <=> g \in DOMAIN c.content \/ g = ids[k]
              /\ e.content[ids[k]] = values[u[k]]
              /\ \A g \in DOMAIN c.content : e.content[g] = c.content[g]
    BY <1>7, <2>3
  <2>5. Upto(e, k)
    <3>1. \A g : g \in DOMAIN e.content <=> g \in DOMAIN content \/ \E n \in 1..k : g = ids[n]
      BY <2>1, <2>2, <2>4
    <3>2. \A n \in 1..k : e.content[ids[n]] = values[u[n]]
      BY <2>1, <2>2, <2>4
    <3>3. \A g \in DOMAIN content : e.content[g] = d.content[g]
      BY <2>2, <2>4
    <3> QED
      BY <2>2, <2>4, <3>1, <3>2, <3>3
  <2>6. e \in post[k]
    BY <2>1, <2>5
  <2> QED
    BY <2>4, <2>6
<1>11. post[m] = {e \in I : Upto(e, m)}
  BY <1>4
<1> HIDE DEF post
<1>12. FlattenSeq(ss) \in Seq(Statements) /\ \E e \in post[m] : Runs(d, FlattenSeq(ss), e, I)
  BY <1>8, <1>9, <1>10, RunsFlat
<1>13. PICK e \in I : Upto(e, m) /\ Runs(d, FlattenSeq(ss), e, I)
  BY <1>11, <1>12
<1>14. \A g : g \in DOMAIN e.content <=> g \in DOMAIN content \/ g \in Range(ids)
  BY <1>4, <1>13 DEF Range
<1> QED
  BY <1>4, <1>12, <1>13, <1>14 DEF ss, ids, u

(* An import: the row, the new filters, the template and then all templates. *)
LEMMA ImportTemplateKeeps ==
  ASSUME StoreInv, NEW values \in Seq(Contents), ImportTemplate(values)
  PROVE  StoreInv'
<1> DEFINE id == NewRowId(db.position)
           list == ImportedItems(values)
           ids == NewIds(values)
           new == ImportedContent(values)
           fs == filters \o ids
           ts == Append(templates, id)
           its == With(items, id, list)
           n == Len(templates)
           I == Snapshots(its, items)
           one == InsertTemplateRow(id)
           two == FlattenSeq(AddNewFilters(values))
           three == SaveTemplate(ts, its, id)
           four == SaveAllTemplates(ts, its)
           w == one \o two \o three \o four
<1>1. /\ templates' = ts /\ items' = its /\ filters' = fs /\ content' = new
      /\ todo = <<>> /\ numbered' = TRUE /\ UNCHANGED copies
      /\ Slot(OneByOne(w))
  BY DEF ImportTemplate, Slot, ImportedItems, ImportedContent, NewIds, Unknown, AddNewFilters, AddFilterRow
<1>2. db \in Databases /\ Stored(db) /\ Lists /\ db \in I
  BY <1>1, IdleStored DEF StoreInv
<1>3. /\ new \in Tables(Contents) /\ DOMAIN new = DOMAIN content \cup Range(ids)
      /\ \A f \in DOMAIN content : new[f] = content[f]
      /\ \A k \in DOMAIN ids : new[ids[k]] = values[Unknown(values)[k]]
      /\ fs \in Seq(DOMAIN new) /\ Once(fs) /\ Range(fs) = DOMAIN new
      /\ list \in Seq(DOMAIN new) /\ list \in Seq(Nat)
      /\ \A t \in DOMAIN items : items[t] \in Seq(DOMAIN new)
  BY <1>1, ImportedFilters
<1> HIDE DEF list, ids, new, fs
<1>4. /\ id \in Nat /\ id \notin DOMAIN items /\ id \notin DOMAIN db.items
      /\ its \in Tables(Seq(Nat)) /\ DOMAIN its = DOMAIN items \cup {id} /\ its[id] = list
      /\ \A t \in DOMAIN items : its[t] = items[t]
      /\ ts \in Seq(DOMAIN its) /\ Once(ts) /\ Range(ts) = DOMAIN its
  BY <1>1, <1>3, NewTemplate
<1> HIDE DEF id, its, ts
<1>5. \A t \in DOMAIN its : its[t] \in Seq(DOMAIN new)
  BY <1>3, <1>4
<1>6. Lists'
  BY <1>1, <1>3, <1>4, <1>5 DEF Lists
<1>7. id \in DOMAIN its /\ Len(its[id]) \in Nat
  BY <1>3, <1>4
<1>8. /\ one \in Seq(Statements)
      /\ \E a \in I :
           /\ Runs(db, one, a, I)
           /\ a.position = With(db.position, id, NoPosition) /\ a.items = With(db.items, id, <<>>)
           /\ a.filterPosition = db.filterPosition /\ a.content = db.content
  BY <1>2, <1>4, <1>7, InsertTemplateRuns
<1>9. PICK a \in I :
           /\ Runs(db, one, a, I)
           /\ a.position = With(db.position, id, NoPosition) /\ a.items = With(db.items, id, <<>>)
           /\ a.filterPosition = db.filterPosition /\ a.content = db.content
  BY <1>8
<1>10. /\ two \in Seq(Statements)
       /\ \E b \in I :
            /\ Runs(a, two, b, I)
            /\ b.position = a.position /\ b.items = a.items
            /\ \A g : g \in DOMAIN b.content <=> g \in DOMAIN content \/ g \in Range(ids)
            /\ \A k \in DOMAIN ids : b.content[ids[k]] = values[Unknown(values)[k]]
            /\ \A g \in DOMAIN content : b.content[g] = a.content[g]
  BY <1>1, <1>9, AddNewFiltersRun DEF ids
<1>11. PICK b \in I :
            /\ Runs(a, two, b, I)
            /\ b.position = a.position /\ b.items = a.items
            /\ \A g : g \in DOMAIN b.content <=> g \in DOMAIN content \/ g \in Range(ids)
            /\ \A k \in DOMAIN ids : b.content[ids[k]] = values[Unknown(values)[k]]
            /\ \A g \in DOMAIN content : b.content[g] = a.content[g]
  BY <1>10
<1>12. DOMAIN b.content = DOMAIN new /\ DOMAIN b.items = DOMAIN its
  <2>1. DOMAIN b.content = DOMAIN new
    BY <1>3, <1>11
  <2>2. DOMAIN a.items = DOMAIN db.items \cup {id}
    BY <1>9 DEF With
  <2>3. DOMAIN b.items = DOMAIN its
    BY <1>2, <1>4, <1>11, <2>2 DEF Stored
  <2> QED
    BY <2>1, <2>3
<1>13. /\ three \in Seq(Statements)
       /\ \E c \in I : Runs(b, three, c, I) /\ Saved(b, c, id, IndexOf(ts, id), its[id])
  <2>1. IndexOf(ts, id) \in Int
    BY <1>4, <1>7, IndexOfType
  <2>2. id \in DOMAIN b.items /\ its[id] \in Seq(DOMAIN b.content)
    BY <1>5, <1>7, <1>12
  <2> QED
    BY <1>7, <2>1, <2>2, SaveTemplateRuns
<1>14. PICK c \in I : Runs(b, three, c, I) /\ Saved(b, c, id, IndexOf(ts, id), its[id])
  BY <1>13
<1>15. DOMAIN c.items = DOMAIN its /\ c.content = b.content
  BY <1>12, <1>14 DEF Saved
<1>16. /\ four \in Seq(Statements)
       /\ \E e \in I : Runs(c, four, e, I) /\ SavedAll(c, e, ts, its, Range(ts))
  <2>1. \A t \in Range(ts) :
          t \in DOMAIN c.items /\ t \in DOMAIN its /\ its[t] \in Seq(DOMAIN c.content) /\ t \in Range(ts)
    BY <1>4, <1>5, <1>12, <1>15
  <2>2. /\ SaveEach(ts, its, ts) \in Seq(Statements)
        /\ \E e \in I : Runs(c, SaveEach(ts, its, ts), e, I) /\ SavedAll(c, e, ts, its, Range(ts))
    BY <1>4, <2>1, SaveEachRuns
  <2> QED
    BY <2>2 DEF SaveAllTemplates, SaveEach
<1>17. PICK e \in I : Runs(c, four, e, I) /\ SavedAll(c, e, ts, its, Range(ts))
  BY <1>16
<1> HIDE DEF one, two, three, four
<1>18. w \in Seq(Statements) /\ Runs(db, w, e, I)
  <2> DEFINE oneTwo == one \o two
             oneToThree == oneTwo \o three
  <2>1. oneTwo \in Seq(Statements) /\ Runs(db, oneTwo, b, I)
    BY <1>8, <1>9, <1>10, <1>11, RunsOn
  <2> HIDE DEF oneTwo
  <2>2. oneToThree \in Seq(Statements) /\ Runs(db, oneToThree, c, I)
    BY <2>1, <1>13, <1>14, RunsOn
  <2> HIDE DEF oneToThree
  <2>3. oneToThree \o four \in Seq(Statements) /\ Runs(db, oneToThree \o four, e, I)
    BY <2>2, <1>16, <1>17, RunsOn
  <2> QED
    BY <2>3 DEF oneToThree, oneTwo
<1>19. e.items = its
  <2>1. e.items \in Tables(Seq(Nat))
    BY DatabaseType DEF Snapshots
  <2>2. DOMAIN e.items = DOMAIN its /\ \A t \in DOMAIN e.items : e.items[t] = its[t]
    BY <1>4, <1>15, <1>17 DEF SavedAll
  <2> QED
    BY <1>4, <2>1, <2>2, SameTable
<1>20. DOMAIN e.content = DOMAIN new /\ \A f \in DOMAIN new \ copies : e.content[f] = new[f]
  <2>1. e.content = b.content
    BY <1>15, <1>17 DEF SavedAll
  <2>2. \A f \in DOMAIN content \ copies : b.content[f] = new[f]
    BY <1>2, <1>3, <1>9, <1>11 DEF Stored
  <2>3. \A f \in Range(ids) : b.content[f] = new[f]
    BY <1>3, <1>11 DEF Range
  <2> QED
    BY <1>3, <1>12, <2>1, <2>2, <2>3
<1>21. \A i \in DOMAIN ts : e.position[ts[i]] = i - 1
  <2> SUFFICES ASSUME NEW i \in DOMAIN ts PROVE e.position[ts[i]] = i - 1
    OBVIOUS
  <2>1. ts[i] \in DOMAIN c.items \cap Range(ts)
    BY <1>4, <1>15 DEF Range
  <2>2. IndexOf(ts, ts[i]) = i - 1
    BY <1>4, IndexOfPlace
  <2> QED
    BY <1>17, <2>1, <2>2 DEF SavedAll
<1>22. Stored(e)'
  BY <1>1, <1>19, <1>20, <1>21 DEF Stored
<1> HIDE DEF w
<1> QED
  BY <1>1, <1>6, <1>18, <1>22, SlotKeeps

-----------------------------------------------------------------------------
(* Executing a statement shortens the way to what the lists show. *)
LEMMA ExecuteKeepsInv ==
  ASSUME StoreInv, ExecuteNext
  PROVE  StoreInv'
<1> DEFINE I == Snapshots(items, former)
<1>1. PICK w \in Seq(Statements), e \in I :
        Runs(db, w, e, I) /\ Stored(e) /\ (todo = OneByOne(w) \/ (w # <<>> /\ todo = <<w>>))
  BY DEF StoreInv, Writes
<1>2. /\ todo # <<>> /\ db' = Transacted(Head(todo), db) /\ todo' = Tail(todo)
      /\ UNCHANGED <<templates, items, filters, content, former, numbered, copies>>
  BY DEF ExecuteNext, lists, remembered
<1>3. Stored(e)' /\ Lists'
  BY <1>1, <1>2 DEF Stored, Lists, StoreInv
<1>4. CASE todo = OneByOne(w)
  <2> DEFINE v == Tail(w)
             d == Execute(w[1], db)
  <2>1. w # <<>>
    BY <1>2, <1>4 DEF OneByOne
  <2>2. v \in Seq(Statements) /\ Len(v) = Len(w) - 1 /\ Len(w) \in Nat /\ Len(w) >= 1
        /\ \A i \in 1..(Len(w) - 1) : v[i] = w[i + 1]
    BY <2>1
  <2>3. MayExecute(w[1], db) /\ d \in I /\ Runs(d, v, e, I)
    BY <1>1, <2>1, RunsHead
  <2>4. Transacted(<<w[1]>>, db) = d
    <3> DEFINE x == <<w[1]>>
    <3>1. x \in Seq(Statements)
      BY <2>2
    <3>2. db \in I
      BY <1>1, RunsBetween
    <3>3. Runs(db, x, d, I)
      BY <2>3, <3>2, RunsOne
    <3> HIDE DEF x, d
    <3> QED
      BY <3>1, <3>3, RunsTransacted DEF x
  <2> HIDE DEF d, v
  <2>5. /\ DOMAIN todo = 1..Len(w) /\ Len(todo) = Len(w) /\ \A i \in 1..Len(w) : todo[i] = <<w[i]>>
        /\ todo \in Seq(Seq(Statements))
    BY <1>4, OneByOneType
  <2>6. db' = d
    <3>1. Head(todo) = todo[1] /\ todo[1] = <<w[1]>>
      BY <2>2, <2>5
    <3> QED
      BY <1>2, <2>4, <3>1
  <2>7. todo' = OneByOne(v)
    <3> DEFINE n == Len(w)
               o == OneByOne(v)
               r == Tail(todo)
    <3>1. /\ DOMAIN o = 1..(n - 1) /\ Len(o) = n - 1 /\ \A i \in 1..(n - 1) : o[i] = <<v[i]>>
          /\ o \in Seq(Seq(Statements))
      BY <2>2, OneByOneType
    <3> HIDE DEF o
    <3>2. r \in Seq(Seq(Statements)) /\ Len(r) = n - 1 /\ \A i \in 1..(n - 1) : r[i] = todo[i + 1]
      BY <2>2, <2>5
    <3> HIDE DEF n, r
    <3>3. \A i \in 1..(n - 1) : r[i] = o[i]
      <4> SUFFICES ASSUME NEW i \in 1..(n - 1) PROVE r[i] = o[i]
        OBVIOUS
      <4>1. i + 1 \in 1..n
        BY <2>2 DEF n
      <4>2. todo[i + 1] = <<w[i + 1]>> /\ v[i] = w[i + 1]
        BY <2>2, <2>5, <4>1 DEF n
      <4> QED
        BY <3>1, <3>2, <4>2
    <3>4. r = o
      BY <3>1, <3>2, <3>3, SeqEqual
    <3> QED
      BY <1>2, <3>4 DEF o, r
  <2>8. Writes'
    BY <1>2, <1>3, <2>2, <2>3, <2>6, <2>7 DEF Writes
  <2> QED
    BY <1>3, <2>8 DEF StoreInv
<1>5. CASE w # <<>> /\ todo = <<w>>
  <2>1. db' = e
    BY <1>1, <1>2, <1>5, RunsTransacted
  <2> DEFINE v == <<>>
  <2>2. v \in Seq(Statements) /\ todo' = OneByOne(v)
    <3>1. OneByOne(v) = <<>>
      BY DEF OneByOne
    <3>2. Tail(<<w>>) = <<>>
      OBVIOUS
    <3> QED
      BY <1>2, <1>5, <3>1, <3>2
  <2>3. Runs(e, v, e, I)
    BY RunsNothing
  <2> HIDE DEF v
  <2>4. Writes'
    BY <1>2, <1>3, <2>1, <2>2, <2>3 DEF Writes
  <2> QED
    BY <1>3, <2>4 DEF StoreInv
<1> QED
  BY <1>1, <1>4, <1>5

-----------------------------------------------------------------------------
(* Rows that are numbered in the order of the list are loaded in it. *)
LEMMA ListedAsNumbered ==
  ASSUME NEW D, Bounded(D), NEW position \in [D -> Int],
         NEW list \in Seq(D), Range(list) = D, \A i \in DOMAIN list : position[list[i]] = i - 1
  PROVE  Listed(position) = list
<1> DEFINE l == Listed(position)
           N == Len(l)
           n == Len(list)
           p(i) == position[l[i]]
<1>1. /\ l \in Seq(D) /\ Range(l) = D
      /\ \A i, j \in DOMAIN l : i < j => Before(position, l[i], l[j])
      /\ \A i, j \in DOMAIN l : l[i] = l[j] => i = j
  BY ListedRows
<1> HIDE DEF l
<1>2. N \in Nat /\ DOMAIN l = 1..N /\ n \in Nat /\ DOMAIN list = 1..n /\ \A i \in 1..N : l[i] \in D
  BY <1>1
<1> HIDE DEF N, n
<1>0. (\A x \in D : \E k \in 1..n : list[k] = x) /\ (\A x \in D : \E i \in 1..N : l[i] = x)
  <2>1. \A x \in Range(list) : \E k \in 1..n : list[k] = x
    BY <1>2 DEF Range
  <2>2. \A x \in Range(l) : \E i \in 1..N : l[i] = x
    BY <1>2 DEF Range
  <2> QED
    BY <1>1, <2>1, <2>2
<1>3. \A i \in 1..N : \E k \in 1..n : l[i] = list[k] /\ p(i) = k - 1
  <2> SUFFICES ASSUME NEW i \in 1..N PROVE \E k \in 1..n : l[i] = list[k] /\ p(i) = k - 1
    OBVIOUS
  <2>1. PICK k \in 1..n : list[k] = l[i]
    BY <1>0, <1>2
  <2>2. position[list[k]] = k - 1
    BY <1>2
  <2> QED
    BY <2>1, <2>2
<1>4. \A k \in 1..n : \E i \in 1..N : l[i] = list[k] /\ p(i) = k - 1
  <2> SUFFICES ASSUME NEW k \in 1..n PROVE \E i \in 1..N : l[i] = list[k] /\ p(i) = k - 1
    OBVIOUS
  <2>0. list[k] \in D
    BY <1>2
  <2>1. PICK i \in 1..N : l[i] = list[k]
    BY <1>0, <2>0
  <2>2. position[list[k]] = k - 1
    BY <1>2
  <2> QED
    BY <2>1, <2>2
<1>5. \A i, j \in 1..N : i < j => p(i) < p(j)
  <2> SUFFICES ASSUME NEW i \in 1..N, NEW j \in 1..N, i < j PROVE p(i) < p(j)
    OBVIOUS
  <2>1. p(i) <= p(j)
    <3>1. p(i) < p(j) \/ p(i) = p(j)
      BY <1>1, <1>2 DEF Before
    <3>2. p(i) \in Int /\ p(j) \in Int
      BY <1>2
    <3> QED
      BY <3>1, <3>2
  <2>2. p(i) # p(j)
    <3>1. PICK a \in 1..n : l[i] = list[a] /\ p(i) = a - 1
      BY <1>3
    <3>2. PICK b \in 1..n : l[j] = list[b] /\ p(j) = b - 1
      BY <1>3
    <3>3. p(i) = p(j) => a = b
      BY <1>2, <3>1, <3>2
    <3>4. l[i] # l[j]
      BY <1>1, <1>2
    <3> QED
      BY <3>1, <3>2, <3>3, <3>4
  <2>3. p(i) \in Int /\ p(j) \in Int
    BY <1>2
  <2> QED
    BY <2>1, <2>2, <2>3
<1> DEFINE P == {k \in 0..N : \A j \in 1..k : p(j) = j - 1}
<1>6. \A i \in 1..N : p(i) \in Int
  BY <1>2
<1> HIDE DEF p
<1>7. \A k \in 1..N : k - 1 \in P => k \in P
  <2> SUFFICES ASSUME NEW k \in 1..N, k - 1 \in P PROVE k \in P
    OBVIOUS
  <2>1. k \in 0..N /\ k \in Nat /\ \A j \in 1..k : j \in 1..(k - 1) \/ j = k
    BY <1>2
  <2>2. \A j \in 1..(k - 1) : p(j) = j - 1
    OBVIOUS
  <2>3. PICK a \in 1..n : p(k) = a - 1
    BY <1>3
  <2>4. a >= k
    <3> SUFFICES ASSUME a < k PROVE FALSE
      BY <1>2, <2>1
    <3>1. a \in 1..(k - 1) /\ a \in 1..N /\ a < k
      BY <1>2, <2>1
    <3>2. p(a) = a - 1 /\ p(a) < p(k)
      BY <1>5, <2>2, <3>1
    <3> QED
      BY <1>6, <2>3, <3>1, <3>2
  <2>5. k \in 1..n
    BY <1>2, <2>1, <2>4
  <2>6. PICK i \in 1..N : p(i) = k - 1
    BY <1>4, <2>5
  <2>7. i <= k
    <3> SUFFICES ASSUME k < i PROVE FALSE
      BY <1>2, <2>1
    <3>1. p(k) < p(i)
      BY <1>5
    <3> QED
      BY <1>2, <2>1, <2>3, <2>4, <2>6, <3>1
  <2>8. i = k
    <3> SUFFICES ASSUME i # k PROVE FALSE
      OBVIOUS
    <3>1. i \in 1..(k - 1)
      BY <1>2, <2>1, <2>7
    <3> QED
      BY <2>1, <2>2, <2>6, <3>1
  <2> QED
    BY <2>1, <2>2, <2>6, <2>8
<1>8. 0 \in P
  BY <1>2
<1>9. N \in P
  <2> HIDE DEF P
  <2>1. \A k \in 0..N : k \in P
    BY <1>2, <1>7, <1>8, CountInduction
  <2> QED
    BY <1>2, <2>1
<1>10. \A j \in 1..N : p(j) = j - 1
  BY <1>9
<1>11. \A j \in 1..N : j \in 1..n /\ l[j] = list[j]
  <2> SUFFICES ASSUME NEW j \in 1..N PROVE j \in 1..n /\ l[j] = list[j]
    OBVIOUS
  <2>1. PICK k \in 1..n : l[j] = list[k] /\ p(j) = k - 1
    BY <1>3
  <2>2. k = j
    BY <1>2, <1>10, <2>1
  <2> QED
    BY <2>1, <2>2
<1>12. \A k \in 1..n : k \in 1..N
  <2> SUFFICES ASSUME NEW k \in 1..n PROVE k \in 1..N
    OBVIOUS
  <2>1. PICK i \in 1..N : p(i) = k - 1
    BY <1>4
  <2>2. i = k
    BY <1>2, <1>10, <2>1
  <2> QED
    BY <2>2
<1>13. N = n
  BY <1>2, <1>11, <1>12
<1>14. \A j \in 1..N : l[j] = list[j]
  BY <1>11
<1> QED
  BY <1>1, <1>13, <1>14, SeqEqual DEF N, n, l

(* The rows in the order of their positions are in the order of the list. *)
LEMMA OrderIsKept ==
  ASSUME StoreInv, todo = <<>>, numbered
  PROVE  Listed(db.position) = templates
<1> DEFINE D == DOMAIN db.position
<1>1. db \in Databases /\ Stored(db) /\ Lists
  BY IdleStored DEF StoreInv
<1>2. db.position \in Tables(Int) /\ D = DOMAIN items
  BY <1>1, DatabaseType DEF Stored
<1>3. Bounded(D) /\ db.position \in [D -> Int]
  BY <1>2, TableType
<1>4. templates \in Seq(D) /\ Range(templates) = D /\ \A i \in DOMAIN templates : db.position[templates[i]] = i - 1
  BY <1>1, <1>2 DEF Lists, Stored
<1> HIDE DEF D
<1> QED
  BY <1>3, <1>4, ListedAsNumbered

(* Nothing is on its way: the tables are what the lists show. *)
LEMMA StoredIsListed ==
  ASSUME StoreInv
  PROVE  StoredAsListed
<1>1. OrderKept
  BY OrderIsKept DEF OrderKept, AllWritten
<1>2. FiltersKept
  <2> SUFFICES ASSUME todo = <<>>
               PROVE  /\ DOMAIN db.content = DOMAIN content /\ Range(filters) = DOMAIN content
                      /\ \A filter \in DOMAIN content \ copies : db.content[filter] = content[filter]
                      /\ \A t \in DOMAIN db.items : Range(db.items[t]) \subseteq DOMAIN db.content
                      /\ \A t \in DOMAIN items : Range(items[t]) \subseteq DOMAIN content
    BY DEF FiltersKept, AllWritten
  <2>1. Stored(db) /\ db \in Snapshots(items, items)
    BY IdleStored
  <2>2. \A t \in DOMAIN db.items : Range(db.items[t]) \subseteq DOMAIN db.content
    BY <2>1 DEF Snapshots, Midway
  <2> QED
    BY <2>1, <2>2 DEF Stored, StoreInv, Lists
<1> QED
  BY <1>1, <1>2 DEF StoredAsListed

-----------------------------------------------------------------------------
(* The rows refer to filters that are there: they are loaded as they are. *)
LEMMA LoadedAsStored ==
  ASSUME StoreInv
  PROVE  /\ db \in Databases /\ Midway(db.items, DOMAIN db.content, items, former)
         /\ LoadedItems(db) = db.items
         /\ \A t \in DOMAIN db.items :
              db.items[t] \in Seq(DOMAIN db.content) /\ Range(db.items[t]) \subseteq DOMAIN db.content
<1> DEFINE I == Snapshots(items, former)
<1>1. db \in I
  <2>1. PICK w \in Seq(Statements), e \in I : Runs(db, w, e, I)
    BY DEF StoreInv, Writes
  <2> QED
    BY <2>1, RunsBetween
<1>2. db \in Databases /\ Midway(db.items, DOMAIN db.content, items, former) /\ \A t \in DOMAIN db.items : Range(db.items[t]) \subseteq DOMAIN db.content
  BY <1>1 DEF Snapshots, Midway
<1>3. /\ db.position \in Tables(Int) /\ db.items \in Tables(Seq(Nat))
      /\ db.filterPosition \in Tables(Int) /\ db.content \in Tables(Contents)
  BY <1>2, DatabaseType
<1>4. db.items \in [DOMAIN db.items -> Seq(Nat)]
  BY <1>3, TableType
<1>5. ASSUME NEW t \in DOMAIN db.items
      PROVE  /\ Among(db.items[t], DOMAIN db.content) = db.items[t]
             /\ db.items[t] \in Seq(DOMAIN db.content)
  <2> DEFINE l == db.items[t]
             C == DOMAIN db.content
  <2>1. l \in Seq(Nat) /\ Range(l) \subseteq C
    BY <1>2, <1>4
  <2> HIDE DEF l, C
  <2>2. Among(l, C) = l
    BY <2>1, AmongElements
  <2>3. l \in Seq(C)
    <3>1. \A i \in 1..Len(l) : l[i] \in Range(l)
      BY <2>1 DEF Range
    <3>2. \A i \in 1..Len(l) : l[i] \in C
      BY <2>1, <3>1
    <3>3. l \in [1..Len(l) -> C] /\ Len(l) \in Nat
      BY <2>1, <3>2
    <3> QED
      BY <3>3
  <2> QED
    BY <2>2, <2>3 DEF l, C
<1>6. LoadedItems(db) = db.items
  BY <1>4, <1>5 DEF LoadedItems
<1> QED
  BY <1>2, <1>5, <1>6

(* The next start finds a state on the way, and loads it as it is. *)
LEMMA ReopenKeeps ==
  ASSUME StoreInv, Reopen
  PROVE  StoreInv'
<1> DEFINE D == DOMAIN db.position
           E == DOMAIN db.filterPosition
           ts == Listed(db.position)
           fs == Listed(db.filterPosition)
<1>2. /\ db \in Databases /\ LoadedItems(db) = db.items
      /\ \A t \in DOMAIN db.items :
           db.items[t] \in Seq(DOMAIN db.content) /\ Range(db.items[t]) \subseteq DOMAIN db.content
  BY LoadedAsStored
<1>3. /\ db.position \in Tables(Int) /\ db.items \in Tables(Seq(Nat))
      /\ db.filterPosition \in Tables(Int) /\ db.content \in Tables(Contents)
      /\ D = DOMAIN db.items /\ E = DOMAIN db.content
  BY <1>2, DatabaseType
<1>7. /\ ts \in Seq(D) /\ Range(ts) = D /\ Once(ts)
  <2>1. Bounded(D) /\ db.position \in [D -> Int]
    BY <1>3, TableType
  <2> HIDE DEF D
  <2>2. /\ ts \in Seq(D) /\ Range(ts) = D
        /\ \A i, j \in DOMAIN ts : ts[i] = ts[j] => i = j
    BY <2>1, ListedRows
  <2> QED
    BY <2>2 DEF Once
<1>8. /\ fs \in Seq(E) /\ Range(fs) = E /\ Once(fs)
  <2>1. Bounded(E) /\ db.filterPosition \in [E -> Int]
    BY <1>3, TableType
  <2> HIDE DEF E
  <2>2. /\ fs \in Seq(E) /\ Range(fs) = E
        /\ \A i, j \in DOMAIN fs : fs[i] = fs[j] => i = j
    BY <2>1, ListedRows
  <2> QED
    BY <2>2 DEF Once
<1>9. /\ templates' = ts /\ items' = db.items /\ filters' = fs /\ content' = db.content
      /\ todo' = <<>> /\ former' = db.items /\ copies' = {} /\ db' = db
      /\ numbered' = (numbered /\ todo = <<>>)
  BY <1>2 DEF Reopen
<1>10. Lists'
  <2> HIDE DEF D, E
  <2> QED
    BY <1>2, <1>3, <1>7, <1>8, <1>9 DEF Lists
<1>11. ASSUME numbered, todo = <<>>, NEW i \in DOMAIN ts
       PROVE  db.position[ts[i]] = i - 1
  <2>1. ts = templates
    BY <1>11, OrderIsKept
  <2> QED
    BY <1>11, <2>1, IdleStored DEF Stored
<1>12. Stored(db)'
  BY <1>9, <1>11 DEF Stored
<1>13. db \in Snapshots(db.items, db.items)
  BY <1>2 DEF Snapshots, Midway
<1> DEFINE v == <<>>
<1>14. v \in Seq(Statements) /\ v = OneByOne(v)
  BY DEF OneByOne
<1>15. Runs(db, v, db, Snapshots(db.items, db.items))
  BY <1>13, RunsNothing
<1> HIDE DEF ts, fs
<1>16. todo' = OneByOne(v)
  BY <1>9, <1>14
<1> HIDE DEF v
<1>17. Writes'
  BY <1>9, <1>12, <1>13, <1>14, <1>15, <1>16 DEF Writes
<1> QED
  BY <1>10, <1>17 DEF StoreInv

(* The first start: the tables are what the lists show. *)
LEMMA StoreStarts ==
  ASSUME StoreInit
  PROVE  StoreInv
<1> DEFINE T == DOMAIN InitialItems
           F == DOMAIN InitialContent
           n == Len(InitialItems)
           m == Len(InitialContent)
           p == [id \in T |-> id - 1]
           q == [id \in F |-> id - 1]
<1>1. /\ InitialItems \in Seq(Seq(F)) /\ n \in Nat /\ T = 1..n
      /\ InitialContent \in Seq(Contents) /\ m \in Nat /\ F = 1..m
  BY TemplateStoreAssumption
<1>2. /\ templates = [i \in T |-> i] /\ items = InitialItems
      /\ filters = [i \in F |-> i] /\ content = InitialContent
      /\ db = Database(p, items, q, content)
      /\ todo = <<>> /\ former = items /\ copies = {}
  BY DEF StoreInit, Database
<1>3. InitialItems \in [1..n -> Seq(F)] /\ InitialContent \in [1..m -> Contents]
  BY <1>1
<1> HIDE DEF n, m
<1>4. 1..n \in Rows /\ 1..m \in Rows
  <2>1. \A k \in Nat : 1..k \subseteq 0..k /\ 1..k \subseteq Nat
    OBVIOUS
  <2>2. \A k \in Nat : Bounded(1..k)
    BY <2>1 DEF Bounded
  <2> QED
    BY <1>1, <2>1, <2>2 DEF Rows
<1> HIDE DEF T, F
<1>5. Seq(F) \subseteq Seq(Nat)
  <2>1. F \subseteq Nat
    BY <1>1
  <2> QED
    BY <2>1, SeqWider
<1>6. items \in Tables(Seq(Nat))
  <2>1. items \in [1..n -> Seq(Nat)]
    BY <1>2, <1>3, <1>5
  <2> QED
    BY <1>4, <2>1, TableIs
<1>7. content \in Tables(Contents)
  BY <1>2, <1>3, <1>4, TableIs
<1>8. p \in Tables(Int) /\ q \in Tables(Int)
  <2>1. p \in [1..n -> Int] /\ q \in [1..m -> Int]
    BY <1>1
  <2> HIDE DEF p, q
  <2> QED
    BY <1>4, <2>1, TableIs
<1>9. DOMAIN p = T /\ DOMAIN q = F /\ DOMAIN items = T /\ DOMAIN content = F
  BY <1>1, <1>2, <1>3
<1> HIDE DEF p, q
<1>10. db \in Databases /\ db.position = p /\ db.items = items /\ db.filterPosition = q /\ db.content = content
  BY <1>2, <1>6, <1>7, <1>8, <1>9, DatabaseIs
<1>11. /\ templates \in Seq(T) /\ Once(templates) /\ Range(templates) = T
       /\ filters \in Seq(F) /\ Once(filters) /\ Range(filters) = F
  <2>1. ASSUME NEW k \in Nat, NEW l, l = [i \in 1..k |-> i]
        PROVE  l \in Seq(1..k) /\ Once(l) /\ Range(l) = 1..k
    <3>1. l \in [1..k -> 1..k] /\ DOMAIN l = 1..k /\ \A i \in 1..k : l[i] = i
      BY <2>1
    <3>2. l \in Seq(1..k)
      BY <3>1
    <3>3. Once(l)
      BY <3>1 DEF Once
    <3>4. Range(l) = 1..k
      BY <3>1 DEF Range
    <3> QED
      BY <3>2, <3>3, <3>4
  <2> QED
    BY <1>1, <1>2, <2>1
<1>12. \A t \in DOMAIN items : items[t] \in Seq(DOMAIN content) /\ Range(items[t]) \subseteq DOMAIN content
  <2> SUFFICES ASSUME NEW t \in DOMAIN items PROVE items[t] \in Seq(F) /\ Range(items[t]) \subseteq F
    BY <1>9
  <2>1. items[t] \in Seq(F)
    BY <1>1, <1>2, <1>3, <1>9
  <2> QED
    BY <2>1 DEF Range
<1>13. Lists
  BY <1>6, <1>7, <1>9, <1>11, <1>12 DEF Lists
<1>14. Stored(db)
  <2>1. \A i \in DOMAIN templates : p[templates[i]] = i - 1
    BY <1>2 DEF p
  <2> QED
    BY <1>10, <2>1 DEF Stored
<1>15. db \in Snapshots(items, former)
  BY <1>2, <1>10, <1>12 DEF Snapshots, Midway
<1> DEFINE v == <<>>
<1>16. v \in Seq(Statements) /\ todo = OneByOne(v)
  BY <1>2 DEF OneByOne
<1>17. Runs(db, v, db, Snapshots(items, former))
  BY <1>15, RunsNothing
<1> HIDE DEF v
<1>18. Writes
  BY <1>14, <1>15, <1>16, <1>17 DEF Writes
<1> QED
  BY <1>13, <1>18 DEF StoreInv

LEMMA AdjacentRows ==
  ASSUME NEW list, NEW rows \in Adjacent(list)
  PROVE  rows[1] \in DOMAIN list /\ rows[2] \in DOMAIN list
BY DEF Adjacent

(* Every step. *)
LEMMA StoreKeeps ==
  ASSUME StoreInv, [StoreNext]_storeVars
  PROVE  StoreInv'
<1>1. CASE OpenTemplates \/ FiltersManaged
  BY <1>1, OpenKeeps
<1>2. CASE CloseTemplates \/ UNCHANGED storeVars
  BY <1>2, CloseKeeps
<1>3. CASE AddTemplate
  BY <1>3, AddTemplateKeeps
<1>4. ASSUME NEW values \in BoundedSeq(Contents, MaxItems), ImportTemplate(values)
      PROVE  StoreInv'
  <2>1. values \in Seq(Contents)
    BY DEF BoundedSeq, SeqOf
  <2> QED
    BY <1>4, <2>1, ImportTemplateKeeps
<1>5. ASSUME NEW i \in DOMAIN templates, RemoveTemplate(i)
      PROVE  StoreInv'
  BY <1>5, RemoveTemplateKeeps
<1>6. ASSUME NEW rows \in Adjacent(templates), MoveTemplate(rows[1], rows[2])
      PROVE  StoreInv'
  BY <1>6, AdjacentRows, MoveTemplateKeeps
<1>7. ASSUME NEW t \in DOMAIN items,
             \/ \E filter \in DOMAIN content, at \in 1..Len(items[t]) + 1 : InsertItem(t, filter, at)
             \/ \E at \in DOMAIN items[t] : RemoveItem(t, at)
             \/ TemplateChanged(t)
             \/ \E rows \in Adjacent(items[t]) : MoveItem(t, rows[1], rows[2])
      PROVE  StoreInv'
  BY <1>7, ItemsKeep
<1>8. ASSUME NEW t \in DOMAIN items, NEW at \in DOMAIN items[t],
             ItemChanged(t, at) \/ \E value \in Contents : EditItem(t, at, value)
      PROVE  StoreInv'
  BY <1>8, ContentKeeps
<1>9. ASSUME NEW value \in Contents, AddFilter(value)
      PROVE  StoreInv'
  BY <1>9, AddFilterKeeps
<1>10. ASSUME NEW i \in DOMAIN filters, FilterChanged(i) \/ \E value \in Contents : EditFilter(i, value)
       PROVE  StoreInv'
  BY <1>10, ContentKeeps
<1>11. ASSUME NEW i \in DOMAIN filters, DuplicateFilter(i)
       PROVE  StoreInv'
  BY <1>11, DuplicateFilterKeeps
<1>12. ASSUME NEW i \in DOMAIN filters, RemoveFilter(i)
       PROVE  StoreInv'
  BY <1>12, RemoveFilterKeeps
<1>13. ASSUME NEW rows \in Adjacent(filters), MoveFilter(rows[1], rows[2])
       PROVE  StoreInv'
  BY <1>13, AdjacentRows, MoveFilterKeeps
<1>14. ASSUME NEW from \in DOMAIN content, NEW to \in DOMAIN content, ReplaceFilter(from, to)
       PROVE  StoreInv'
  BY <1>14, ReplaceKeeps
<1>15. CASE ExecuteNext
  BY <1>15, ExecuteKeepsInv
<1>16. CASE Reopen
  BY <1>16, ReopenKeeps
<1> QED
  BY <1>1, <1>2, <1>3, <1>4, <1>5, <1>6, <1>7, <1>8, <1>9, <1>10, <1>11, <1>12, <1>13, <1>14, <1>15, <1>16
     DEF StoreNext

(* Whatever the dialogs change and wherever the program ends: the lists in  *)
(* memory are whole, and what is yet to be written leads to tables that     *)
(* hold them.                                                               *)
THEOREM StoreInvariant == StoreSpec => []StoreInv
<1>1. StoreInit => StoreInv
  BY StoreStarts
<1>2. StoreInv /\ [StoreNext]_storeVars => StoreInv'
  BY StoreKeeps
<1> QED
  BY <1>1, <1>2, PTL DEF StoreSpec

(* Database.cpp:562, :764: once a slot has written everything, the tables    *)
(* hold the filters and the templates that the dialogs show; and since all  *)
(* templates were last saved, in the order in which they show them.         *)
THEOREM TemplatesAlwaysStored == StoreSpec => []StoredAsListed
<1>1. StoreInv => StoredAsListed
  BY StoredIsListed
<1> QED
  BY <1>1, StoreInvariant, PTL

-----------------------------------------------------------------------------
(* The templates that are still to be written, the shelf's "writing". *)
BeingWritten(transactions) == UNION {TemplatesWritten(transactions[i]) : i \in DOMAIN transactions}

LEMMA BeingWrittenAll ==
  ASSUME NEW w \in Seq(Statements), NEW ts, ts = OneByOne(w) \/ ts = <<w>>
  PROVE  TemplatesWritten(w) \subseteq BeingWritten(ts)
<1> SUFFICES ASSUME NEW i \in DOMAIN w, w[i].kind \notin FilterKinds PROVE w[i].id \in BeingWritten(ts)
  BY DEF TemplatesWritten, FilterKinds
<1>1. CASE ts = OneByOne(w)
  <2>1. DOMAIN ts = DOMAIN w /\ ts[i] = <<w[i]>>
    BY <1>1 DEF OneByOne
  <2> DEFINE x == <<w[i]>>
  <2>2. 1 \in DOMAIN x /\ x[1] = w[i]
    OBVIOUS
  <2> HIDE DEF x
  <2>3. w[i].id \in TemplatesWritten(x)
    BY <2>2 DEF TemplatesWritten, FilterKinds
  <2> QED
    BY <2>1, <2>3 DEF BeingWritten, x
<1>2. CASE ts = <<w>>
  <2>1. 1 \in DOMAIN ts /\ ts[1] = w
    BY <1>2
  <2>2. w[i].id \in TemplatesWritten(w)
    BY DEF TemplatesWritten, FilterKinds
  <2> QED
    BY <2>1, <2>2 DEF BeingWritten
<1> QED
  BY <1>1, <1>2

(* Where nothing is to be written the tables have, and will have, the items *)
(* of the list.                                                             *)
LEMMA RowsNotWritten ==
  ASSUME StoreInv, NEW t, t \notin BeingWritten(todo)
  PROVE  SameAt(t, db.items, items)
<1>1. PICK w \in Seq(Statements), e \in Snapshots(items, former) :
        /\ Runs(db, w, e, Snapshots(items, former))
        /\ Stored(e)
        /\ todo = OneByOne(w) \/ (w # <<>> /\ todo = <<w>>)
  BY DEF StoreInv, Writes
<1>2. Runs(db, w, e, Databases)
  <2>1. Snapshots(items, former) \subseteq Databases
    BY DEF Snapshots
  <2> HIDE DEF StoreInv
  <2> QED
    BY <1>1, <2>1 DEF Runs
<1>3. t \notin TemplatesWritten(w)
  BY <1>1, BeingWrittenAll
<1> QED
  BY <1>1, <1>2, <1>3, RunsKeep DEF Stored

(* Whatever is not being written is in the tables as it is in the list. *)
RowsKept == \A t : t \notin BeingWritten(todo) => SameAt(t, db.items, items)

LEMMA RowsAreKept == StoreInv => RowsKept
BY RowsNotWritten DEF RowsKept

LEMMA RowsStayKept == StoreInv' => RowsKept'
BY RowsAreKept, PTL

-----------------------------------------------------------------------------
(* What the slots have in common, as steps of the shelf. *)
SlotRuns == todo = <<>> /\ former' = items /\ db' = db

LEMMA NextSteps ==
  ASSUME StoreNext
  PROVE  SlotRuns \/ CloseTemplates \/ ExecuteNext \/ Reopen
BY ZenonT(30) DEF StoreNext, SlotRuns, Slot, OpenTemplates, FiltersManaged, AddTemplate, ImportTemplate, RemoveTemplate,
       MoveTemplate, InsertItem, RemoveItem, MoveItem, TemplateChanged, SetItems, AddFilter, DuplicateFilter,
       FilterChanged, EditFilter, ItemChanged, EditItem, SetContent, RemoveFilter, MoveFilter, ReplaceFilter

LEMMA NothingWritten == BeingWritten(<<>>) = {}
BY DEF BeingWritten

(* A slot is a change on the shelf: a template it does not write is what it  *)
(* was.                                                                      *)
LEMMA SlotChanges ==
  ASSUME StoreInv, StoreInv', SlotRuns
  PROVE  Shelf!Change
<1>1. db.items = items /\ todo = <<>> /\ db' = db /\ former' = items
  BY IdleStored DEF SlotRuns, Stored
<1>2. \A t : t \notin BeingWritten(todo') => SameAt(t, items, items')
  BY <1>1, RowsStayKept DEF RowsKept
<1>3. \A t \in (DOMAIN items \cup DOMAIN items') \ BeingWritten(todo') : Shelf!Untouched(t)
  BY <1>2 DEF SameAt, Shelf!Untouched
<1>4. BeingWritten(todo) = {}
  BY <1>1, NothingWritten
<1> QED
  BY <1>1, <1>3, <1>4 DEF Shelf!Change, BeingWritten

(* A statement is a write. *)
LEMMA StatementWrites ==
  ASSUME StoreInv, ExecuteNext
  PROVE  Shelf!Write
<1>1. todo # <<>> /\ todo' = Tail(todo) /\ UNCHANGED <<items, former>>
  BY DEF ExecuteNext, lists, remembered
<1>2. todo \in Seq(Seq(Statements))
  <2>1. PICK w \in Seq(Statements) : todo = OneByOne(w) \/ todo = <<w>>
    BY DEF StoreInv, Writes
  <2>2. <<w>> \in Seq(Seq(Statements))
    OBVIOUS
  <2> QED
    BY <2>1, <2>2, OneByOneType
<1>3. BeingWritten(todo') \subseteq BeingWritten(todo)
  <2> SUFFICES ASSUME NEW i \in DOMAIN Tail(todo)
               PROVE  TemplatesWritten(Tail(todo)[i]) \subseteq BeingWritten(todo)
    BY <1>1 DEF BeingWritten
  <2>1. i + 1 \in DOMAIN todo /\ Tail(todo)[i] = todo[i + 1]
    BY <1>1, <1>2
  <2> QED
    BY <2>1 DEF BeingWritten
<1> QED
  BY <1>1, <1>3 DEF Shelf!Write, BeingWritten

(* A start is a restart of the shelf: what was being written has its former  *)
(* items or the first few of its new ones.                                   *)
LEMMA ReopenRestarts ==
  ASSUME StoreInv, Reopen
  PROVE  Shelf!Restart
<1>1. /\ db \in Databases /\ Midway(db.items, DOMAIN db.content, items, former)
      /\ items' = db.items /\ todo' = <<>>
  BY LoadedAsStored DEF Reopen
<1>2. BeingWritten(todo') = {}
  BY <1>1, NothingWritten
<1>3. \A t \in (DOMAIN items \cup DOMAIN items') \ BeingWritten(todo) : Shelf!Untouched(t)
  BY <1>1, RowsNotWritten DEF SameAt, Shelf!Untouched
<1>4. ASSUME NEW t
      PROVE  Shelf!Remains(t)
  <2>1. CASE t \in DOMAIN db.items
    <3>1. CASE t \in DOMAIN items /\ \E n \in 0..Len(items[t]) : db.items[t] = SubSeq(items[t], 1, n)
      <4> DEFINE l == items[t]
      <4>1. l \in Seq(DOMAIN content)
        BY <3>1 DEF StoreInv, Lists
      <4>2. PICK n \in 0..Len(l) : db.items[t] = SubSeq(l, 1, n)
        BY <3>1
      <4> HIDE DEF l
      <4> DEFINE m == SubSeq(l, 1, n)
      <4>3. m \in Seq(DOMAIN content) /\ Len(m) = n /\ Len(l) \in Nat
        BY <4>1
      <4>4. SubSeq(m, 1, n) = m
        <5> HIDE DEF m
        <5> QED
          BY <4>3
      <4>5. Shelf!IsPrefix(m, l)
        BY <4>3, <4>4 DEF Shelf!IsPrefix
      <4> QED
        BY <1>1, <2>1, <3>1, <4>2, <4>5 DEF Shelf!Remains, l
    <3>2. CASE t \in DOMAIN former /\ db.items[t] = former[t]
      BY <1>1, <2>1, <3>2 DEF Shelf!Remains
    <3>3. CASE t \notin DOMAIN items /\ db.items[t] = <<>>
      BY <1>1, <2>1, <3>3 DEF Shelf!Remains
    <3> QED
      BY <1>1, <2>1, <3>1, <3>2, <3>3 DEF Midway
  <2>2. CASE t \notin DOMAIN db.items
    BY <1>1, <2>2 DEF Midway, Shelf!Remains
  <2> QED
    BY <2>1, <2>2
<1> QED
  BY <1>2, <1>3, <1>4 DEF Shelf!Restart, BeingWritten

(* The templates on the shelf are those the user left there, whatever is    *)
(* written in which order, and wherever the program ends.                   *)
THEOREM StoreKeepsTheShelf == StoreSpec => ImplementsShelf
<1>1. StoreInit => Shelf!ShelfInit
  BY NothingWritten DEF StoreInit, Shelf!ShelfInit, BeingWritten
<1>2. StoreInv /\ StoreInv' /\ [StoreNext]_storeVars => [Shelf!ShelfNext]_Shelf!shelfVars
  <2> SUFFICES ASSUME StoreInv, StoreInv', [StoreNext]_storeVars
               PROVE  [Shelf!ShelfNext]_Shelf!shelfVars
    OBVIOUS
  <2>1. CASE SlotRuns
    BY <2>1, SlotChanges DEF Shelf!ShelfNext
  <2>2. CASE CloseTemplates \/ UNCHANGED storeVars
    BY <2>2 DEF CloseTemplates, storeVars, lists, remembered, Shelf!shelfVars
  <2>3. CASE ExecuteNext
    BY <2>3, StatementWrites DEF Shelf!ShelfNext
  <2>4. CASE Reopen
    BY <2>4, ReopenRestarts DEF Shelf!ShelfNext
  <2> QED
    BY <2>1, <2>2, <2>3, <2>4, NextSteps
<1> QED
  BY <1>1, <1>2, StoreInvariant, PTL DEF StoreSpec, ImplementsShelf, Shelf!ShelfSpec
=============================================================================
