---------------------------- MODULE DatabaseProofs ----------------------------
(***************************************************************************)
(* Proofs about SongLibrary.tla, for any number of files, hashes and song  *)
(* objects, and any number of restarts at any moment; about                *)
(* DatabaseUpgrade.tla, for any databases found; and about                 *)
(* FilterEditor.tla, for trees of any size and any number of edits.        *)
(*                                                                         *)
(* In the library, the types already depend on an invariant, Alive:        *)
(* whoever refers to a song object keeps it from being destroyed, so that  *)
(* saving it touches a row.  RowsHaveData needs to know of every object,   *)
(* and of the slot in progress, that its hash has shared data.             *)
(* MemoryIsStored is about the moments between the slots; Mirror says what *)
(* of it holds within them.                                                *)
(*                                                                         *)
(* BackupsComplete needs two things.  A copy for an upgrade is taken only  *)
(* between the first query, which rolls back what was torn, and the next   *)
(* end of the program; and the database changes only by commits, which     *)
(* raise its version, so that it is the original one as long as it has the *)
(* original version.  No name of a copy is ever used twice.                *)
(*                                                                         *)
(* The filter editor comes first.  Its invariant, FilterInv, is that the   *)
(* nodes are a Tree, numbered in the order of saving, and that the rows    *)
(* inserted and those still to be are, taken together, the tree's.  An     *)
(* edit moves nodes about under their old numbers and numbers them anew    *)
(* at its end; in between a tree is known by a rank that falls towards the *)
(* root (Linked).  The lemmas on each operation of Filter::Node say both   *)
(* what becomes of the ranks and what becomes of the songs that a node     *)
(* matches, and the numbering keeps either.                                *)
(***************************************************************************)
EXTENDS SongLibrary, DatabaseUpgrade, FilterEditor, SequenceTheorems, FiniteSetTheorems,
        WellFoundedInduction, TLAPS

(* Induction over a range of numbers, for sets of them. *)
LEMMA RangeInduction ==
  ASSUME NEW lo \in Int, NEW hi \in Int, NEW P, lo \in P,
         \A k \in (lo + 1)..hi : k - 1 \in P => k \in P
  PROVE  \A k \in lo..hi : k \in P
<1> SUFFICES ASSUME NEW k \in lo..hi, k \notin P
             PROVE  FALSE
  OBVIOUS
<1> DEFINE Failing == {m \in Nat : lo + m \in (lo..hi) \ P}
           R == {x \in Nat \X Nat : x[1] < x[2]}
<1>1. k - lo \in Nat /\ lo + (k - lo) = k
  OBVIOUS
<1>2. k - lo \in Failing
  BY <1>1
<1>3. IsWellFoundedOn(R, Nat)
  BY NatLessThanWellFounded DEF OpToRel
<1>4. PICK m \in Failing : \A y \in Failing : ~(<<y, m>> \in R)
  <2>1. Failing \subseteq Nat /\ Failing # {}
    BY <1>2
  <2> HIDE DEF R, Failing
  <2> QED
    BY <1>3, <2>1, WFMin
<1>5. m \in Nat /\ lo + m \in lo..hi /\ lo + m \notin P
  BY <1>4
<1>6. m # 0
  BY <1>5
<1>7. m - 1 \in Nat /\ lo + (m - 1) = (lo + m) - 1 /\ lo + m \in (lo + 1)..hi /\ lo + (m - 1) \in lo..hi
  BY <1>5, <1>6
<1>8. lo + (m - 1) \notin P
  BY <1>5, <1>7
<1>9. m - 1 \in Failing /\ <<m - 1, m>> \in R
  BY <1>5, <1>7, <1>8
<1> QED
  BY <1>4, <1>9

(* A function given by its first value and a step from each value to the next exists. *)
Recursion(V, lo, hi, base, step) ==
  /\ lo \in Int /\ hi \in Int /\ lo <= hi
  /\ base \in V
  /\ step \in [((lo + 1)..hi) \X V -> V]

(* f is the function with the first value base and the given step. *)
Follows(f, V, lo, hi, base, step) ==
  /\ f \in [lo..hi -> V]
  /\ \A k \in lo..hi : f[k] = IF k = lo THEN base ELSE step[<<k, f[k - 1]>>]

(* By induction on the range: f follows up to k for each k. *)
LEMMA RecursionExists ==
  ASSUME NEW V, NEW lo, NEW hi, NEW base, NEW step, Recursion(V, lo, hi, base, step)
  PROVE  \E f : Follows(f, V, lo, hi, base, step)
<1> USE DEF Recursion
<1> DEFINE Steps(f, m) == \A k \in lo..m : f[k] = IF k = lo THEN base ELSE step[<<k, f[k - 1]>>]
           Defined == {m \in lo..hi : \E f \in [lo..m -> V] : Steps(f, m)}
<1>1. lo \in Defined
  <2> DEFINE f == [k \in lo..lo |-> base]
  <2>1. f \in [lo..lo -> V] /\ Steps(f, lo) /\ lo \in lo..hi
    OBVIOUS
  <2> QED
    BY <2>1
<1>2. ASSUME NEW m \in (lo + 1)..hi, m - 1 \in Defined
      PROVE  m \in Defined
  <2>1. PICK f \in [lo..(m - 1) -> V] : Steps(f, m - 1)
    BY <1>2
  <2> DEFINE g == [k \in lo..m |-> IF k = m THEN step[<<m, f[m - 1]>>] ELSE f[k]]
  <2>2. m \in Int /\ m - 1 \in lo..(m - 1) /\ \A k \in lo..m : k = m \/ k \in lo..(m - 1)
    OBVIOUS
  <2>3. step[<<m, f[m - 1]>>] \in V
    BY <2>2
  <2>4. g \in [lo..m -> V]
    BY <2>2, <2>3
  <2>5. ASSUME NEW k \in lo..m
        PROVE  g[k] = IF k = lo THEN base ELSE step[<<k, g[k - 1]>>]
    <3>1. CASE k = m
      <4>1. g[k] = step[<<m, f[m - 1]>>] /\ g[k - 1] = f[m - 1] /\ k # lo
        BY <2>2, <3>1
      <4> QED
        BY <3>1, <4>1
    <3>2. CASE k # m
      <4>1. k \in lo..(m - 1) /\ g[k] = f[k]
        BY <2>2, <3>2
      <4>2. k # lo => k - 1 \in lo..m /\ k - 1 # m /\ g[k - 1] = f[k - 1]
        BY <2>2, <4>1
      <4> HIDE DEF g
      <4> QED
        BY <2>1, <4>1, <4>2
    <3> QED
      BY <3>1, <3>2
  <2>6. m \in lo..hi
    OBVIOUS
  <2> HIDE DEF g
  <2> QED
    BY <2>4, <2>5, <2>6
<1> HIDE DEF Defined
<1>3. \A m \in lo..hi : m \in Defined
  BY <1>1, <1>2, RangeInduction
<1>4. hi \in Defined
  BY <1>3
<1> QED
  BY <1>4 DEF Defined, Follows

(* The same from 0 on. *)
LEMMA CountInduction ==
  ASSUME NEW n \in Nat, NEW P, 0 \in P, \A k \in 1..n : k - 1 \in P => k \in P
  PROVE  \A k \in 0..n : k \in P
<1>1. 0 \in Int /\ n \in Int /\ (0 + 1)..n = 1..n
  OBVIOUS
<1> QED
  BY <1>1, RangeInduction

-----------------------------------------------------------------------------
(* Trees.  A forest is given by the children of each node; a rank that grows *)
(* from a node to its children says that no node is below itself.            *)

IsForest(D, kids, rank, M) ==
  /\ M \in Nat /\ rank \in [D -> 0..M]
  /\ kids \in [D -> Seq(D)]
  /\ \A n \in D : \A i \in DOMAIN kids[n] : rank[n] < rank[kids[n][i]]

(* The values of a function at a node's children. *)
OfChildren(f, kids, n) == [i \in DOMAIN kids[n] |-> f[kids[n][i]]]

(* By induction from the leaves: a node has what all its children have. *)
LEMMA TreeInduction ==
  ASSUME NEW D, NEW kids, NEW rank, NEW M, IsForest(D, kids, rank, M), NEW P,
         \A n \in D : (\A i \in DOMAIN kids[n] : kids[n][i] \in P) => n \in P
  PROVE  \A n \in D : n \in P
<1> DEFINE Done == {k \in 0..(M + 1) : \A n \in D : rank[n] > M - k => n \in P}
<1>1. M \in Nat /\ M + 1 \in Nat /\ \A n \in D : rank[n] \in 0..M
  BY DEF IsForest
<1>2. 0 \in Done
  BY <1>1
<1>3. ASSUME NEW k \in 1..(M + 1), k - 1 \in Done
      PROVE  k \in Done
  <2>1. k \in 0..(M + 1)
    BY <1>1
  <2> SUFFICES ASSUME NEW n \in D, rank[n] > M - k
               PROVE  n \in P
    BY <2>1
  <2>2. \A i \in DOMAIN kids[n] : kids[n][i] \in D /\ rank[n] < rank[kids[n][i]]
    BY DEF IsForest
  <2>3. \A i \in DOMAIN kids[n] : rank[kids[n][i]] > M - (k - 1)
    BY <1>1, <2>2
  <2>4. \A i \in DOMAIN kids[n] : kids[n][i] \in P
    BY <1>3, <2>2, <2>3
  <2> QED
    BY <2>4
<1> HIDE DEF Done
<1>4. \A k \in 0..(M + 1) : k \in Done
  BY <1>1, <1>2, <1>3, CountInduction
<1>5. M + 1 \in Done
  BY <1>1, <1>4
<1>6. \A n \in D : rank[n] > M - (M + 1)
  BY <1>1
<1> QED
  BY <1>5, <1>6 DEF Done

(* f is the function that step makes of a node and of the values at the children. *)
TreeFollows(f, D, kids, V, step) == f \in [D -> V] /\ \A n \in D : f[n] = step[<<n, OfChildren(f, kids, n)>>]

IsStep(step, D, V) == step \in [D \X Seq(V) -> V]

(* A function given like this exists. *)
LEMMA TreeRecursion ==
  ASSUME NEW D, NEW kids, NEW rank, NEW M, IsForest(D, kids, rank, M),
         NEW V, NEW step, IsStep(step, D, V)
  PROVE  \E f : TreeFollows(f, D, kids, V, step)
<1> USE DEF IsStep
<1> DEFINE Part(k) == {n \in D : rank[n] > M - k}
           Right(f, k) == f \in [Part(k) -> V] /\ \A n \in Part(k) : f[n] = step[<<n, OfChildren(f, kids, n)>>]
           Done == {k \in 0..(M + 1) : \E f : Right(f, k)}
<1>1. M \in Nat /\ M + 1 \in Nat /\ (\A n \in D : rank[n] \in 0..M) /\ kids \in [D -> Seq(D)]
  BY DEF IsForest
<1>2. 0 \in Done
  <2>1. Part(0) = {}
    BY <1>1
  <2> DEFINE none == [n \in {} |-> 0]
  <2>2. none \in [{} -> V]
    OBVIOUS
  <2>3. Right(none, 0)
    BY <2>1, <2>2
  <2> HIDE DEF Right
  <2>4. 0 \in 0..(M + 1)
    BY <1>1
  <2> QED
    BY <2>3, <2>4
<1>3. ASSUME NEW k \in 1..(M + 1), k - 1 \in Done
      PROVE  k \in Done
  <2>1. PICK f : Right(f, k - 1)
    BY <1>3
  <2>2. k \in 0..(M + 1)
    BY <1>1
  <2>3. \A n \in Part(k) : \A i \in DOMAIN kids[n] : kids[n][i] \in Part(k - 1)
    <3> SUFFICES ASSUME NEW n \in Part(k), NEW i \in DOMAIN kids[n]
                 PROVE  kids[n][i] \in Part(k - 1)
      OBVIOUS
    <3>1. n \in D /\ rank[n] > M - k
      OBVIOUS
    <3>2. kids[n][i] \in D /\ rank[n] < rank[kids[n][i]]
      BY <3>1 DEF IsForest
    <3> QED
      BY <1>1, <3>1, <3>2
  <2>4. Part(k - 1) \subseteq Part(k) /\ Part(k) \subseteq D
    BY <1>1
  <2> HIDE DEF Part
  <2>5. \A n \in Part(k) : OfChildren(f, kids, n) \in Seq(V)
    <3> SUFFICES ASSUME NEW n \in Part(k)
                 PROVE  OfChildren(f, kids, n) \in Seq(V)
      OBVIOUS
    <3>1. kids[n] \in Seq(D)
      BY <1>1, <2>4
    <3>2. Len(kids[n]) \in Nat /\ DOMAIN kids[n] = 1..Len(kids[n])
      BY <3>1
    <3>3. \A i \in DOMAIN kids[n] : f[kids[n][i]] \in V
      BY <2>1, <2>3
    <3>4. OfChildren(f, kids, n) \in [1..Len(kids[n]) -> V]
      BY <3>2, <3>3 DEF OfChildren
    <3> QED
      BY <3>2, <3>4, IsASeq
  <2> DEFINE g == [n \in Part(k) |-> step[<<n, OfChildren(f, kids, n)>>]]
  <2>6. g \in [Part(k) -> V]
    BY <2>4, <2>5
  <2>7. \A n \in Part(k - 1) : g[n] = f[n]
    BY <2>1, <2>4
  <2>8. \A n \in Part(k) : OfChildren(g, kids, n) = OfChildren(f, kids, n)
    BY <2>3, <2>7 DEF OfChildren
  <2>9. Right(g, k)
    BY <2>6, <2>8
  <2> QED
    BY <2>2, <2>9
<1> HIDE DEF Done
<1>4. \A k \in 0..(M + 1) : k \in Done
  BY <1>1, <1>2, <1>3, CountInduction
<1>5. PICK f : Right(f, M + 1)
  <2> HIDE DEF Right
  <2>1. M + 1 \in Done
    BY <1>1, <1>4
  <2> QED
    BY <2>1 DEF Done
<1>6. Part(M + 1) = D
  BY <1>1
<1> QED
  BY <1>5, <1>6 DEF TreeFollows

(* The parts of a list that is flattened, and where each of them begins. *)
IsFlat(flat, ss, at, T) ==
  /\ flat \in Seq(T)
  /\ at \in [1..(Len(ss) + 1) -> Nat] /\ at[1] = 0 /\ at[Len(ss) + 1] = Len(flat)
  /\ \A k \in 1..Len(ss) : at[k + 1] = at[k] + Len(ss[k])
  /\ \A k \in 1..Len(ss) : \A j \in 1..Len(ss[k]) : flat[at[k] + j] = ss[k][j]

LEMMA FlatParts ==
  ASSUME NEW T, NEW ss \in Seq(Seq(T))
  PROVE  \E at : IsFlat(FlattenSeq(ss), ss, at, T)
<1> DEFINE N == Len(ss)
<1>1. N \in Nat /\ \A k \in 1..N : ss[k] \in Seq(T) /\ Len(ss[k]) \in Nat
  OBVIOUS
<1>2. CASE N = 0
  <2>1. ss = <<>> /\ FlattenSeq(ss) = <<>>
    BY <1>2 DEF FlattenSeq
  <2> DEFINE at == [k \in 1..1 |-> 0]
  <2>2. <<>> \in Seq(T) /\ Len(<<>>) = 0 /\ at \in [1..(0 + 1) -> Nat] /\ at[1] = 0
    OBVIOUS
  <2> HIDE DEF at
  <2>3. Len(ss) = 0 /\ 1..Len(ss) = {} /\ Len(ss) + 1 = 1 /\ 0 + 1 = 1
    BY <1>2
  <2>4. IsFlat(<<>>, ss, at, T)
    BY <2>2, <2>3 DEF IsFlat
  <2>5. IsFlat(FlattenSeq(ss), ss, at, T)
    BY <2>1, <2>4
  <2> QED
    BY <2>5
<1>3. CASE N # 0
  <2> DEFINE V == Seq(T)
             F(f) == [i \in 1..N |-> IF i = 1 THEN ss[i] ELSE f[i - 1] \o ss[i]]
             flat == CHOOSE f : f = F(f)
             Begins(f) == [k \in 1..(N + 1) |-> IF k = 1 THEN 0 ELSE Len(f[k - 1])]
  <2>1. FlattenSeq(ss) = flat[N]
    BY <1>3 DEF FlattenSeq
  <2> HIDE DEF N
  <2>2. \E f : f = F(f)
    <3> DEFINE step == [x \in (2..N) \X V |-> x[2] \o ss[x[1]]]
    <3>1. \A k \in 2..N : k \in 1..N /\ ss[k] \in V
      BY <1>1
    <3>2. \A k \in 2..N, v \in V : v \o ss[k] \in V
      BY <3>1
    <3> HIDE DEF V
    <3>3. step \in [(2..N) \X V -> V] /\ \A k \in 2..N, v \in V : step[<<k, v>>] = v \o ss[k]
      BY <3>2
    <3>4. 1 \in Int /\ N \in Int /\ 1 <= N /\ (1 + 1)..N = 2..N /\ ss[1] \in V
      BY <1>1, <1>3 DEF V
    <3> HIDE DEF step
    <3>5. Recursion(V, 1, N, ss[1], step)
      BY <3>3, <3>4 DEF Recursion
    <3>6. PICK f : Follows(f, V, 1, N, ss[1], step)
      BY <3>5, RecursionExists
    <3>7. f \in [1..N -> V] /\ \A k \in 1..N : f[k] = IF k = 1 THEN ss[1] ELSE step[<<k, f[k - 1]>>]
      BY <3>6 DEF Follows
    <3>8. \A k \in 1..N : k # 1 => k \in 2..N /\ k - 1 \in 1..N
      BY <1>1
    <3>9. \A k \in 1..N : f[k] = IF k = 1 THEN ss[k] ELSE f[k - 1] \o ss[k]
      BY <3>3, <3>7, <3>8
    <3>10. f = F(f)
      BY <3>7, <3>9
    <3> QED
      BY <3>10
  <2>3. flat = F(flat)
    BY <2>2
  <2> HIDE DEF flat
  <2>4. \A k \in 1..N : flat[k] = IF k = 1 THEN ss[k] ELSE flat[k - 1] \o ss[k]
    BY <2>3
  <2> DEFINE at == Begins(flat)
             Ok(m) == /\ flat[m] \in V
                      /\ at[m + 1] = Len(flat[m]) /\ at[m] \in Nat /\ at[m + 1] = at[m] + Len(ss[m])
                      /\ \A k \in 1..m : \A j \in 1..Len(ss[k]) : at[k] + j \in 1..Len(flat[m]) /\ flat[m][at[k] + j] = ss[k][j]
             P == {m \in 1..N : Ok(m)}
  <2>5. at[1] = 0 /\ \A m \in 1..N : at[m + 1] = Len(flat[m]) /\ m + 1 - 1 = m
    BY <1>1
  <2> HIDE DEF at
  <2>6. Ok(1)
    <3>1. flat[1] = ss[1] /\ ss[1] \in V /\ Len(ss[1]) \in Nat
      BY <1>1, <1>3, <2>4
    <3>2. at[1 + 1] = Len(flat[1])
      BY <1>1, <1>3, <2>5
    <3>3. \A k \in 1..1 : k = 1
      OBVIOUS
    <3> QED
      BY <2>5, <3>1, <3>2, <3>3
  <2>7. ASSUME NEW m \in 2..N, Ok(m - 1)
        PROVE  Ok(m)
    <3>1. m \in 1..N /\ m # 1 /\ m - 1 \in 1..N /\ 1..m = 1..(m - 1) \cup {m} /\ m - 1 + 1 = m
      BY <1>1
    <3> DEFINE a == flat[m - 1]
               b == ss[m]
               c == flat[m]
    <3>2. c = a \o b /\ a \in Seq(T) /\ b \in Seq(T)
      BY <1>1, <2>4, <2>7, <3>1
    <3> HIDE DEF a, b, c
    <3>3. /\ c \in Seq(T) /\ Len(c) = Len(a) + Len(b) /\ Len(a) \in Nat /\ Len(b) \in Nat
          /\ \A j \in 1..Len(c) : c[j] = IF j <= Len(a) THEN a[j] ELSE b[j - Len(a)]
      BY <3>2, ConcatProperties
    <3>4. at[m] = Len(a) /\ at[m + 1] = Len(c)
      BY <2>5, <3>1 DEF a, c
    <3>5. ASSUME NEW k \in 1..m, NEW j \in 1..Len(ss[k])
          PROVE  at[k] + j \in 1..Len(c) /\ c[at[k] + j] = ss[k][j]
      <4>1. CASE k \in 1..(m - 1)
        <5>1. at[k] + j \in 1..Len(a) /\ a[at[k] + j] = ss[k][j]
          BY <2>7, <4>1 DEF a
        <5> QED
          BY <3>3, <5>1, SMTT(30)
      <4>2. CASE k = m
        <5>1. j \in 1..Len(b) /\ at[k] + j = Len(a) + j
          BY <3>4, <4>2 DEF b
        <5>2. Len(a) + j \in 1..Len(c) /\ ~(Len(a) + j <= Len(a)) /\ (Len(a) + j) - Len(a) = j
          BY <3>3, <5>1, SMTT(30)
        <5>3. c[Len(a) + j] = b[j]
          BY <3>3, <5>2
        <5> QED
          BY <4>2, <5>1, <5>2, <5>3 DEF b
      <4> QED
        BY <3>1, <4>1, <4>2
    <3> QED
      BY <3>3, <3>4, <3>5 DEF b, c
  <2>8. \A m \in 1..N : Ok(m)
    <3> HIDE DEF Ok
    <3>1. 1 \in Int /\ N \in Int /\ (1 + 1)..N = 2..N /\ 1 \in P /\ \A m \in 2..N : m \in 1..N
      BY <1>1, <1>3, <2>6
    <3>2. \A m \in (1 + 1)..N : m - 1 \in P => m \in P
      BY <2>7, <3>1
    <3> HIDE DEF P
    <3>3. \A m \in 1..N : m \in P
      BY <3>1, <3>2, RangeInduction
    <3> QED
      BY <3>3 DEF P
  <2>9. N \in 1..N
    BY <1>1, <1>3
  <2>10. at \in [1..(N + 1) -> Nat]
    <3>1. \A k \in 1..(N + 1) : k \in 1..N \/ k = N + 1
      BY <1>1
    <3>2. \A k \in 1..(N + 1) : at[k] \in Nat
      BY <2>8, <2>9, <3>1, SMTT(30)
    <3> QED
      BY <3>2 DEF at
  <2>11. IsFlat(flat[N], ss, at, T)
    BY <2>5, <2>8, <2>9, <2>10 DEF IsFlat, N
  <2> QED
    BY <2>1, <2>11
<1> QED
  BY <1>2, <1>3

-----------------------------------------------------------------------------
(* The nodes of a filter. *)

AllTests == Tests \cup {None, LengthAtLeast0, LengthBelow0}
NodeRecords == [kind : Combinators \cup {"comparison"}, test : AllTests, parent : Addresses \cup {None}, children : Seq(Addresses)]

Kids(ns) == [n \in DOMAIN ns |-> ns[n].children]

(* No node is below itself, and those of L, the root r among them, are linked both ways. *)
Linked(ns, r, L, rank, M) ==
  /\ DOMAIN ns \subseteq Addresses /\ ns \in [DOMAIN ns -> NodeRecords]
  /\ IsForest(DOMAIN ns, Kids(ns), rank, M)
  /\ r \in L /\ L \subseteq DOMAIN ns
  /\ ns[r].parent = None
  /\ \A n \in DOMAIN ns : ~CanHaveChildren(ns[n]) => ns[n].children = <<>>
  /\ \A n \in L : \A i \in DOMAIN ns[n].children : ns[n].children[i] \in L /\ ns[ns[n].children[i]].parent = n
  /\ \A n \in L : \A i, j \in DOMAIN ns[n].children : ns[n].children[i] = ns[n].children[j] => i = j

SubOrders(ns, n) == [i \in DOMAIN ns[n].children |-> PreOrder(ns, ns[n].children[i])]

(* The recursive function of PreOrder exists. *)
LEMMA PreOrderUnfolds ==
  ASSUME NEW ns, NEW rank, NEW M, IsForest(DOMAIN ns, Kids(ns), rank, M), NEW n \in DOMAIN ns
  PROVE  /\ PreOrder(ns, n) \in Seq(DOMAIN ns)
         /\ PreOrder(ns, n) = <<n>> \o FlattenSeq(SubOrders(ns, n))
         /\ SubOrders(ns, n) \in Seq(Seq(DOMAIN ns)) /\ Len(SubOrders(ns, n)) = Len(ns[n].children)
         /\ Len(ns[n].children) \in Nat /\ DOMAIN ns[n].children = 1..Len(ns[n].children)
<1> DEFINE D == DOMAIN ns
           kids == Kids(ns)
           V == Seq(D)
           F(f) == [m \in D |-> <<m>> \o FlattenSeq([i \in DOMAIN ns[m].children |-> f[ns[m].children[i]]])]
           below == CHOOSE f : f = F(f)
           step == [x \in D \X Seq(V) |-> <<x[1]>> \o FlattenSeq(x[2])]
<1>1. \A m : PreOrder(ns, m) = below[m]
  BY DEF PreOrder
<1>2. /\ \A m \in D : kids[m] = ns[m].children /\ ns[m].children \in Seq(D)
      /\ \A m \in D : Len(ns[m].children) \in Nat /\ DOMAIN ns[m].children = 1..Len(ns[m].children)
  <2>1. kids \in [D -> Seq(D)] /\ \A m \in D : kids[m] = ns[m].children
    BY DEF IsForest, Kids
  <2> HIDE DEF kids, D
  <2>2. \A m \in D : ns[m].children \in Seq(D)
    BY <2>1
  <2> QED
    BY <2>1, <2>2
<1>14. IsForest(D, kids, rank, M) /\ n \in D
  OBVIOUS
<1> HIDE DEF kids, D
<1>3. \A m \in D, v \in Seq(V) : <<m>> \o FlattenSeq(v) \in V
  <2> TAKE m \in D, v \in Seq(V)
  <2>1. PICK at : IsFlat(FlattenSeq(v), v, at, D)
    BY FlatParts
  <2>2. FlattenSeq(v) \in Seq(D) /\ <<m>> \in Seq(D)
    BY <2>1 DEF IsFlat
  <2> QED
    BY <2>2
<1>4. step \in [D \X Seq(V) -> V] /\ \A m \in D, v \in Seq(V) : step[<<m, v>>] = <<m>> \o FlattenSeq(v)
  <2> HIDE DEF V
  <2> QED
    BY <1>3
<1> HIDE DEF step, V
<1>5. PICK g : g \in [D -> V] /\ \A m \in D : g[m] = step[<<m, OfChildren(g, kids, m)>>]
  <2>1. IsStep(step, D, V)
    BY <1>4 DEF IsStep
  <2>2. PICK g : TreeFollows(g, D, kids, V, step)
    BY <1>14, <2>1, TreeRecursion
  <2> QED
    BY <2>2 DEF TreeFollows
<1>6. \A f \in [D -> V], m \in D : /\ OfChildren(f, kids, m) = [i \in DOMAIN ns[m].children |-> f[ns[m].children[i]]]
                                  /\ OfChildren(f, kids, m) \in Seq(V)
                                  /\ Len(OfChildren(f, kids, m)) = Len(ns[m].children)
  <2> TAKE f \in [D -> V], m \in D
  <2>1. OfChildren(f, kids, m) = [i \in DOMAIN ns[m].children |-> f[ns[m].children[i]]]
    BY <1>2 DEF OfChildren
  <2>2. \A i \in 1..Len(ns[m].children) : ns[m].children[i] \in D
    BY <1>2
  <2>3. OfChildren(f, kids, m) \in [1..Len(ns[m].children) -> V]
    BY <1>2, <2>1, <2>2
  <2>4. OfChildren(f, kids, m) \in Seq(V)
    BY <1>2, <2>3, IsASeq
  <2>5. Len(OfChildren(f, kids, m)) = Len(ns[m].children)
    BY <1>2, <2>3, <2>4
  <2> QED
    BY <2>1, <2>4, <2>5
<1>7. g = F(g)
  <2>1. \A m \in D : g[m] = <<m>> \o FlattenSeq([i \in DOMAIN ns[m].children |-> g[ns[m].children[i]]])
    BY <1>4, <1>5, <1>6
  <2> QED
    BY <1>5, <2>1
<1>8. below = F(below)
  BY <1>7
<1> HIDE DEF below
<1>9. /\ DOMAIN below = D
      /\ \A m \in D : below[m] = <<m>> \o FlattenSeq([i \in DOMAIN ns[m].children |-> below[ns[m].children[i]]])
  BY <1>8
<1>10. \A m \in D : below[m] = g[m]
  <2> DEFINE make == [x \in D \X Seq(V) |-> <<x[1]>> \o FlattenSeq(x[2])]
             P == {m \in D : below[m] = g[m]}
  <2>1. ASSUME NEW m \in D, \A i \in DOMAIN kids[m] : kids[m][i] \in P
        PROVE  m \in P
    <3>1. \A i \in DOMAIN ns[m].children : below[ns[m].children[i]] = g[ns[m].children[i]]
      BY <1>2, <2>1
    <3>2. [i \in DOMAIN ns[m].children |-> below[ns[m].children[i]]] = [i \in DOMAIN ns[m].children |-> g[ns[m].children[i]]]
      BY <3>1
    <3>3. g[m] = <<m>> \o FlattenSeq([i \in DOMAIN ns[m].children |-> g[ns[m].children[i]]])
      BY <1>7
    <3> QED
      BY <1>9, <3>2, <3>3
  <2> HIDE DEF P
  <2>2. \A m \in D : m \in P
    BY <1>14, <2>1, TreeInduction, ZenonT(30)
  <2> QED
    BY <2>2 DEF P
<1>11. below \in [D -> V]
  <2>1. \A m \in D : below[m] \in V
    BY <1>5, <1>10
  <2>2. below = [m \in D |-> below[m]]
    BY <1>8
  <2> QED
    BY <2>1, <2>2
<1>12. SubOrders(ns, n) = OfChildren(below, kids, n)
  BY <1>1, <1>2, <1>14 DEF SubOrders, OfChildren
<1>13. /\ below[n] \in V
       /\ below[n] = <<n>> \o FlattenSeq(SubOrders(ns, n))
       /\ SubOrders(ns, n) \in Seq(V) /\ Len(SubOrders(ns, n)) = Len(ns[n].children)
  <2>1. below[n] \in V
    BY <1>11, <1>14
  <2>2. SubOrders(ns, n) \in Seq(V) /\ Len(SubOrders(ns, n)) = Len(ns[n].children)
    BY <1>6, <1>11, <1>12, <1>14
  <2>3. SubOrders(ns, n) = [i \in DOMAIN ns[n].children |-> below[ns[n].children[i]]]
    BY <1>6, <1>11, <1>12, <1>14
  <2> QED
    BY <1>9, <1>14, <2>1, <2>2, <2>3
<1> QED
  BY <1>1, <1>2, <1>13 DEF D, V

(* Where the subtrees of the children are in the order of a subtree: the k-th one follows place at[k]. *)
Blocks(ns, n, s, at) ==
  LET m == Len(ns[n].children)
      sub(k) == PreOrder(ns, ns[n].children[k])
  IN  /\ s \in Seq(DOMAIN ns) /\ s[1] = n
      /\ at \in [1..(m + 1) -> Nat] /\ at[1] = 1 /\ at[m + 1] = Len(s)
      /\ \A k \in 1..m : sub(k) \in Seq(DOMAIN ns) /\ at[k + 1] = at[k] + Len(sub(k))
      /\ \A k \in 1..m : \A j \in 1..Len(sub(k)) : s[at[k] + j] = sub(k)[j]
      /\ \A k, l \in 1..(m + 1) : k < l => at[k] <= at[l]
      /\ \A k, l \in 1..m : k < l => at[k] + Len(sub(k)) <= at[l]
      /\ \A p \in 2..Len(s) : \E k \in 1..m : \E j \in 1..Len(sub(k)) : p = at[k] + j

LEMMA PreOrderBlocks ==
  ASSUME NEW ns, NEW rank, NEW M, IsForest(DOMAIN ns, Kids(ns), rank, M), NEW n \in DOMAIN ns
  PROVE  \E at : Blocks(ns, n, PreOrder(ns, n), at)
<1> DEFINE D == DOMAIN ns
           ss == SubOrders(ns, n)
           flat == FlattenSeq(ss)
           m == Len(ns[n].children)
           s == PreOrder(ns, n)
           sub(k) == PreOrder(ns, ns[n].children[k])
<1>1. /\ s \in Seq(D) /\ s = <<n>> \o flat /\ ss \in Seq(Seq(D)) /\ Len(ss) = m /\ m \in Nat
      /\ DOMAIN ns[n].children = 1..m
  BY PreOrderUnfolds
<1>2. \A k \in 1..m : ss[k] = sub(k)
  BY <1>1 DEF SubOrders
<1>3. PICK b : IsFlat(flat, ss, b, D)
  BY <1>1, FlatParts
<1> HIDE DEF D, ss, flat, m, s
<1>4. /\ flat \in Seq(D)
      /\ b \in [1..(m + 1) -> Nat] /\ b[1] = 0 /\ b[m + 1] = Len(flat)
      /\ \A k \in 1..m : b[k + 1] = b[k] + Len(ss[k])
      /\ \A k \in 1..m : \A j \in 1..Len(ss[k]) : flat[b[k] + j] = ss[k][j]
  BY <1>1, <1>3 DEF IsFlat
<1>5. Len(flat) \in Nat /\ Len(s) = 1 + Len(flat) /\ s[1] = n /\ \A j \in 1..Len(flat) : s[1 + j] = flat[j]
  <2>1. Len(<<n>>) = 1 /\ <<n>>[1] = n /\ <<n>> \in Seq(D)
    BY DEF D
  <2>2. /\ Len(s) = Len(<<n>>) + Len(flat) /\ Len(flat) \in Nat
        /\ \A j \in 1..Len(s) : s[j] = IF j <= Len(<<n>>) THEN <<n>>[j] ELSE flat[j - Len(<<n>>)]
    BY <1>1, <1>4, <2>1, ConcatProperties
  <2> QED
    BY <2>1, <2>2
<1> DEFINE at == [k \in 1..(m + 1) |-> b[k] + 1]
<1>6. \A k \in 1..m : ss[k] \in Seq(D) /\ Len(ss[k]) \in Nat
  BY <1>1
<1>7. at \in [1..(m + 1) -> Nat] /\ at[1] = 1 /\ at[m + 1] = Len(s)
  <2>1. \A k \in 1..(m + 1) : b[k] + 1 \in Nat
    BY <1>4
  <2>2. 1 \in 1..(m + 1) /\ m + 1 \in 1..(m + 1)
    BY <1>1
  <2> QED
    BY <1>4, <1>5, <2>1, <2>2
<1>8. \A k \in 1..m : k \in 1..(m + 1) /\ k + 1 \in 1..(m + 1)
  BY <1>1
<1>9. \A k \in 1..m : at[k + 1] = at[k] + Len(ss[k])
  BY <1>4, <1>6, <1>8
<1>10. \A k, l \in 1..(m + 1) : k < l => at[k] <= at[l]
  <2> HIDE DEF at
  <2> SUFFICES ASSUME NEW k \in 1..(m + 1)
               PROVE  \A l \in k..(m + 1) : at[k] <= at[l]
    <3> TAKE k, o \in 1..(m + 1)
    <3>1. k < o => o \in k..(m + 1)
      BY <1>1
    <3> QED
      BY <3>1
  <2> DEFINE P == {l \in k..(m + 1) : at[k] <= at[l]}
  <2>1. k \in P
    BY <1>1, <1>7
  <2>2. ASSUME NEW l \in (k + 1)..(m + 1), l - 1 \in P
        PROVE  l \in P
    <3>1. l - 1 \in 1..m /\ (l - 1) + 1 = l /\ l \in k..(m + 1) /\ l \in 1..(m + 1) /\ l - 1 \in 1..(m + 1)
      BY <1>1
    <3>2. at[l] = at[l - 1] + Len(ss[l - 1]) /\ Len(ss[l - 1]) \in Nat
      BY <1>6, <1>9, <3>1
    <3>3. at[k] \in Nat /\ at[l - 1] \in Nat /\ at[k] <= at[l - 1]
      BY <1>7, <2>2, <3>1
    <3>4. at[k] <= at[l]
      BY <3>2, <3>3
    <3> QED
      BY <3>1, <3>4
  <2> HIDE DEF P
  <2>3. k \in Int /\ m + 1 \in Int
    BY <1>1
  <2>4. \A l \in k..(m + 1) : l \in P
    BY <2>1, <2>2, <2>3, RangeInduction
  <2> QED
    BY <2>4 DEF P
<1>11. \A k, l \in 1..m : k < l => at[k] + Len(ss[k]) <= at[l]
  <2> SUFFICES ASSUME NEW k \in 1..m, NEW l \in 1..m, k < l
               PROVE  at[k] + Len(ss[k]) <= at[l]
    OBVIOUS
  <2> HIDE DEF at
  <2>1. k + 1 \in 1..(m + 1) /\ l \in 1..(m + 1) /\ (k + 1 < l \/ k + 1 = l)
    BY <1>1
  <2>2. at[k + 1] <= at[l]
    BY <1>7, <1>10, <2>1
  <2> QED
    BY <1>9, <2>2
<1>12. \A k \in 1..m : \A j \in 1..Len(ss[k]) : s[at[k] + j] = ss[k][j]
  <2> TAKE k \in 1..m
  <2> TAKE j \in 1..Len(ss[k])
  <2>1. at[k] = b[k] + 1 /\ b[k] \in Nat /\ b[k + 1] \in Nat /\ b[k + 1] = b[k] + Len(ss[k]) /\ Len(ss[k]) \in Nat
    BY <1>4, <1>6, <1>8
  <2>2. at[k + 1] <= at[m + 1]
    <3>1. k + 1 < m + 1 \/ k + 1 = m + 1
      BY <1>1
    <3> HIDE DEF at
    <3> QED
      BY <1>1, <1>7, <1>8, <1>10, <3>1
  <2>3. at[k + 1] = b[k + 1] + 1
    BY <1>8
  <2> HIDE DEF at
  <2>4. b[k] + j \in 1..Len(flat) /\ at[k] + j = 1 + (b[k] + j)
    <3>1. j \in Nat /\ 1 <= j /\ j <= Len(ss[k])
      BY <2>1
    <3> DEFINE x == b[k]
               y == Len(ss[k])
               z == Len(flat)
    <3>2. x \in Nat /\ y \in Nat /\ z \in Nat /\ x + y <= z /\ at[k] = x + 1
      BY <1>5, <1>7, <2>1, <2>2, <2>3
    <3> HIDE DEF x, y, z
    <3>3. x + j \in 1..z /\ (x + 1) + j = 1 + (x + j)
      BY <3>1, <3>2 DEF y
    <3> QED
      BY <3>2, <3>3 DEF x, z
  <2>5. flat[b[k] + j] = ss[k][j]
    BY <1>4
  <2> QED
    BY <1>5, <2>4, <2>5
<1>13. \A p \in 2..Len(s) : \E k \in 1..m : \E j \in 1..Len(ss[k]) : p = at[k] + j
  <2> SUFFICES ASSUME NEW p \in 2..Len(s), \A k \in 1..m : \A j \in 1..Len(ss[k]) : p # at[k] + j
               PROVE  FALSE
    OBVIOUS
  <2> DEFINE P == {l \in 1..(m + 1) : at[l] < p}
  <2>1. p \in Int /\ Len(s) \in Nat /\ 1 < p /\ p <= Len(s)
    BY <1>5
  <2> HIDE DEF at
  <2>2. 1 \in P
    BY <1>1, <1>7, <2>1
  <2>3. ASSUME NEW l \in 2..(m + 1), l - 1 \in P
        PROVE  l \in P
    <3>1. l - 1 \in 1..m /\ (l - 1) + 1 = l /\ l \in 1..(m + 1) /\ l - 1 \in 1..(m + 1)
      BY <1>1
    <3> DEFINE k == l - 1
    <3>2. at[l] = at[k] + Len(ss[k]) /\ Len(ss[k]) \in Nat /\ at[k] \in Nat /\ at[k] < p
      BY <1>6, <1>7, <1>9, <2>3, <3>1
    <3> HIDE DEF k
    <3>3. p - at[k] \in Int /\ p = at[k] + (p - at[k]) /\ p - at[k] >= 1
      BY <2>1, <3>2
    <3>4. ~(p - at[k] \in 1..Len(ss[k]))
      BY <3>1, <3>3 DEF k
    <3>5. at[l] < p
      BY <2>1, <3>2, <3>3, <3>4
    <3> QED
      BY <3>1, <3>5
  <2> HIDE DEF P
  <2>4. 1 \in Int /\ m + 1 \in Int /\ (1 + 1)..(m + 1) = 2..(m + 1) /\ m + 1 \in 1..(m + 1)
    BY <1>1
  <2>5. \A l \in 1..(m + 1) : l \in P
    BY <2>2, <2>3, <2>4, RangeInduction
  <2>6. at[m + 1] < p
    BY <2>4, <2>5 DEF P
  <2> QED
    BY <1>7, <2>1, <2>6
<1>14. Blocks(ns, n, s, at)
  <2> HIDE DEF at
  <2>1. /\ s \in Seq(D) /\ s[1] = n
        /\ at \in [1..(m + 1) -> Nat] /\ at[1] = 1 /\ at[m + 1] = Len(s)
        /\ \A k, l \in 1..(m + 1) : k < l => at[k] <= at[l]
    BY <1>1, <1>5, <1>7, <1>10
  <2>2. /\ \A k \in 1..m : sub(k) \in Seq(D) /\ at[k + 1] = at[k] + Len(sub(k))
        /\ \A k \in 1..m : \A j \in 1..Len(sub(k)) : s[at[k] + j] = sub(k)[j]
    BY <1>2, <1>6, <1>9, <1>12
  <2>3. \A k, l \in 1..m : k < l => at[k] + Len(sub(k)) <= at[l]
    BY <1>2, <1>11
  <2>4. \A p \in 2..Len(s) : \E k \in 1..m : \E j \in 1..Len(sub(k)) : p = at[k] + j
    BY <1>2, <1>13, Zenon
  <2> QED
    BY <2>1, <2>2, <2>3, <2>4, Zenon DEF Blocks, m, D
<1> QED
  BY <1>14 DEF s

(* s is an order of a subtree in which a node comes before its children, these in their      *)
(* order, and nothing but nodes from below a node's parent come between the two.             *)
Arranged(ns, L, rank, s, n) ==
  /\ s \in Seq(L) /\ Len(s) >= 1 /\ s[1] = n
  /\ \A i, j \in DOMAIN s : s[i] = s[j] => i = j
  /\ \A i \in 2..Len(s) : rank[n] < rank[s[i]]
  /\ \A i \in 2..Len(s) : \E l \in 1..(i - 1) : ns[s[i]].parent = s[l]
  /\ \A i \in 2..Len(s) : \E k \in DOMAIN ns[ns[s[i]].parent].children : ns[ns[s[i]].parent].children[k] = s[i]
  /\ \A l \in DOMAIN s : \A k \in DOMAIN ns[s[l]].children : \E i \in (l + 1)..Len(s) : s[i] = ns[s[l]].children[k]
  /\ \A l, j, i \in DOMAIN s : l < j /\ j < i /\ ns[s[i]].parent = s[l] => \E m \in l..(j - 1) : ns[s[j]].parent = s[m]
  /\ \A l, i, j \in DOMAIN s : \A k, o \in DOMAIN ns[s[l]].children :
       k < o /\ s[i] = ns[s[l]].children[k] /\ s[j] = ns[s[l]].children[o] => i < j

(* Subtrees of different children of a node have no node in common: the first one they had   *)
(* would be one of the two children, of which neither is below the other.                    *)
LEMMA SubtreesApart ==
  ASSUME NEW ns, NEW L, NEW M \in Nat, NEW rank, NEW D, rank \in [D -> 0..M], L \subseteq D,
         NEW a, NEW b, NEW c, NEW d, NEW n \in D,
         Arranged(ns, L, rank, a, c), Arranged(ns, L, rank, b, d),
         c # d, ns[c].parent = n, ns[d].parent = n, rank[n] < rank[c], rank[n] < rank[d]
  PROVE  \A i \in DOMAIN a, j \in DOMAIN b : a[i] # b[j]
<1>1. /\ Len(a) \in Nat /\ DOMAIN a = 1..Len(a) /\ (\A i \in 1..Len(a) : a[i] \in L) /\ a[1] = c /\ Len(a) >= 1
      /\ Len(b) \in Nat /\ DOMAIN b = 1..Len(b) /\ (\A j \in 1..Len(b) : b[j] \in L) /\ b[1] = d /\ Len(b) >= 1
  BY DEF Arranged
<1>2. \A x \in D : rank[x] \in Nat
  OBVIOUS
<1>3. c \in D /\ d \in D
  BY <1>1
<1>4. \A i \in 1..Len(a) : a[i] # n
  <2> TAKE i \in 1..Len(a)
  <2>1. i = 1 \/ i \in 2..Len(a)
    BY <1>1
  <2>2. i = 1 \/ rank[c] < rank[a[i]]
    BY <2>1 DEF Arranged
  <2>3. rank[n] < rank[a[i]]
    BY <1>1, <1>2, <1>3, <2>2
  <2> QED
    BY <1>2, <2>3
<1>5. \A j \in 1..Len(b) : b[j] # n
  <2> TAKE j \in 1..Len(b)
  <2>1. j = 1 \/ j \in 2..Len(b)
    BY <1>1
  <2>2. j = 1 \/ rank[d] < rank[b[j]]
    BY <2>1 DEF Arranged
  <2>3. rank[n] < rank[b[j]]
    BY <1>1, <1>2, <1>3, <2>2
  <2> QED
    BY <1>2, <2>3
<1> DEFINE Apart(i) == \A l \in 1..i : \A j \in 1..Len(b) : a[l] # b[j]
           P == {i \in 0..Len(a) : Apart(i)}
<1>6. 0 \in P
  BY <1>1
<1>7. ASSUME NEW i \in 1..Len(a), i - 1 \in P
      PROVE  i \in P
  <2>1. i \in 0..Len(a) /\ 1..i = 1..(i - 1) \cup {i} /\ (i = 1 \/ i \in 2..Len(a))
    BY <1>1
  <2>2. ASSUME NEW j \in 1..Len(b), a[i] = b[j]
        PROVE  FALSE
    <3>1. j = 1 \/ j \in 2..Len(b)
      BY <1>1
    <3>2. i # 1 => \E l \in 1..(i - 1) : ns[a[i]].parent = a[l]
      BY <2>1 DEF Arranged
    <3>3. j # 1 => \E o \in 1..(j - 1) : ns[b[j]].parent = b[o]
      BY <3>1 DEF Arranged
    <3>4. \A l \in 1..(i - 1) : l \in 1..Len(a)
      BY <1>1
    <3>5. \A o \in 1..(j - 1) : o \in 1..Len(b)
      BY <1>1
    <3>6. CASE i = 1 /\ j = 1
      BY <1>1, <2>2, <3>6
    <3>7. CASE i = 1 /\ j # 1
      BY <1>1, <1>5, <2>2, <3>3, <3>5, <3>7
    <3>8. CASE i # 1 /\ j = 1
      BY <1>1, <1>4, <2>2, <3>2, <3>4, <3>8
    <3>9. CASE i # 1 /\ j # 1
      <4>1. PICK l \in 1..(i - 1) : ns[a[i]].parent = a[l]
        BY <3>2, <3>9
      <4>2. PICK o \in 1..(j - 1) : ns[b[j]].parent = b[o]
        BY <3>3, <3>9
      <4> QED
        BY <1>7, <2>2, <3>5, <4>1, <4>2
    <3> QED
      BY <3>6, <3>7, <3>8, <3>9
  <2>3. Apart(i)
    BY <1>7, <2>1, <2>2
  <2> QED
    BY <2>1, <2>3
<1> HIDE DEF P
<1>8. \A i \in 0..Len(a) : i \in P
  BY <1>1, <1>6, <1>7, CountInduction
<1>9. Apart(Len(a))
  BY <1>1, <1>8 DEF P
<1> QED
  BY <1>1, <1>9

(* The order of the nodes below a node is such an arrangement if those of its children are. *)
LEMMA BlocksArranged ==
  ASSUME NEW ns, NEW r, NEW L, NEW rank, NEW M, Linked(ns, r, L, rank, M), NEW n \in L,
         \A k \in DOMAIN ns[n].children :
           Arranged(ns, L, rank, PreOrder(ns, ns[n].children[k]), ns[n].children[k])
  PROVE  Arranged(ns, L, rank, PreOrder(ns, n), n)
<1> DEFINE D == DOMAIN ns
           ch == ns[n].children
           m == Len(ch)
           s == PreOrder(ns, n)
           sub(k) == PreOrder(ns, ch[k])
           N == Len(s)
<1>1. /\ IsForest(D, Kids(ns), rank, M) /\ n \in D /\ L \subseteq D /\ M \in Nat /\ rank \in [D -> 0..M]
      /\ \A x \in D : \A i \in DOMAIN ns[x].children : ns[x].children[i] \in D /\ rank[x] < rank[ns[x].children[i]]
  <2>1. IsForest(D, Kids(ns), rank, M) /\ n \in D /\ L \subseteq D
    BY DEF Linked
  <2>2. M \in Nat /\ rank \in [D -> 0..M] /\ Kids(ns) \in [D -> Seq(D)] /\ \A x \in D : Kids(ns)[x] = ns[x].children
    BY <2>1 DEF IsForest, Kids
  <2>3. \A x \in D : \A i \in DOMAIN ns[x].children : ns[x].children[i] \in D
    <3> HIDE DEF D
    <3>1. \A x \in D : ns[x].children \in Seq(D)
      BY <2>2
    <3> QED
      BY <3>1
  <2>4. \A x \in D : \A i \in DOMAIN ns[x].children : rank[x] < rank[ns[x].children[i]]
    BY <2>1, <2>2 DEF IsForest
  <2> QED
    BY <2>1, <2>2, <2>3, <2>4
<1>2. /\ m \in Nat /\ DOMAIN ch = 1..m /\ s \in Seq(D)
  BY <1>1, PreOrderUnfolds
<1>3. PICK at : Blocks(ns, n, s, at)
  BY <1>1, PreOrderBlocks
<1>4. /\ s[1] = n
      /\ at \in [1..(m + 1) -> Nat] /\ at[1] = 1 /\ at[m + 1] = N
      /\ \A k \in 1..m : sub(k) \in Seq(D) /\ at[k + 1] = at[k] + Len(sub(k))
      /\ \A k \in 1..m : \A j \in 1..Len(sub(k)) : s[at[k] + j] = sub(k)[j]
      /\ \A k, l \in 1..(m + 1) : k < l => at[k] <= at[l]
      /\ \A k, l \in 1..m : k < l => at[k] + Len(sub(k)) <= at[l]
      /\ \A p \in 2..N : \E k \in 1..m : \E j \in 1..Len(sub(k)) : p = at[k] + j
  BY <1>3, Zenon DEF Blocks
<1>5. /\ \A x \in D : rank[x] \in Nat
      /\ \A k \in 1..m : /\ ch[k] \in L /\ ns[ch[k]].parent = n /\ rank[n] < rank[ch[k]]
                         /\ Arranged(ns, L, rank, sub(k), ch[k])
      /\ \A k, l \in 1..m : ch[k] = ch[l] => k = l
  BY <1>1, <1>2 DEF Linked
<1> HIDE DEF D, ch, m, s, N
<1>6. /\ N \in Nat /\ DOMAIN s = 1..N /\ N = Len(s)
      /\ \A k \in 1..m : sub(k) \in Seq(L) /\ Len(sub(k)) \in Nat /\ DOMAIN sub(k) = 1..Len(sub(k)) /\ Len(sub(k)) >= 1 /\ sub(k)[1] = ch[k]
  <2>1. N \in Nat /\ DOMAIN s = 1..N /\ N = Len(s)
    BY <1>2 DEF N
  <2>2. ASSUME NEW k \in 1..m
        PROVE  sub(k) \in Seq(L) /\ Len(sub(k)) \in Nat /\ DOMAIN sub(k) = 1..Len(sub(k)) /\ Len(sub(k)) >= 1 /\ sub(k)[1] = ch[k]
    <3>1. Arranged(ns, L, rank, sub(k), ch[k])
      BY <1>5
    <3> HIDE DEF sub
    <3>2. sub(k) \in Seq(L) /\ Len(sub(k)) >= 1 /\ sub(k)[1] = ch[k]
      BY <3>1 DEF Arranged
    <3> QED
      BY <3>2
  <2> QED
    BY <2>1, <2>2
<1>21. \A q \in 1..m :
         /\ \A i, j \in DOMAIN sub(q) : sub(q)[i] = sub(q)[j] => i = j
         /\ \A i \in 2..Len(sub(q)) : rank[ch[q]] < rank[sub(q)[i]]
         /\ \A i \in 2..Len(sub(q)) : \E l \in 1..(i - 1) : ns[sub(q)[i]].parent = sub(q)[l]
         /\ \A i \in 2..Len(sub(q)) : \E k \in DOMAIN ns[ns[sub(q)[i]].parent].children : ns[ns[sub(q)[i]].parent].children[k] = sub(q)[i]
         /\ \A l \in DOMAIN sub(q) : \A k \in DOMAIN ns[sub(q)[l]].children : \E i \in (l + 1)..Len(sub(q)) : sub(q)[i] = ns[sub(q)[l]].children[k]
         /\ \A l, j, i \in DOMAIN sub(q) : l < j /\ j < i /\ ns[sub(q)[i]].parent = sub(q)[l] => \E o \in l..(j - 1) : ns[sub(q)[j]].parent = sub(q)[o]
         /\ \A l, i, j \in DOMAIN sub(q) : \A k, o \in DOMAIN ns[sub(q)[l]].children :
              k < o /\ sub(q)[i] = ns[sub(q)[l]].children[k] /\ sub(q)[j] = ns[sub(q)[l]].children[o] => i < j
  <2> TAKE q \in 1..m
  <2>1. Arranged(ns, L, rank, sub(q), ch[q])
    BY <1>5
  <2> QED
    BY <2>1, Zenon DEF Arranged
<1> HIDE DEF sub
<1>7. \A k \in 1..m : at[k] \in Nat /\ at[k] >= 1 /\ at[k] + Len(sub(k)) <= N
  <2> TAKE k \in 1..m
  <2>1. k \in 1..(m + 1) /\ k + 1 \in 1..(m + 1) /\ 1 \in 1..(m + 1) /\ m + 1 \in 1..(m + 1)
    BY <1>2
  <2>2. (1 = k \/ 1 < k) /\ (k + 1 = m + 1 \/ k + 1 < m + 1)
    BY <1>2
  <2>3. at[1] <= at[k] /\ at[k + 1] <= at[m + 1] /\ at[k] \in Nat /\ at[k + 1] \in Nat
    <3>1. at[1] \in Nat /\ at[k] \in Nat /\ at[k + 1] \in Nat /\ at[m + 1] \in Nat
      BY <1>4, <2>1
    <3>2. 1 < k => at[1] <= at[k]
      BY <1>4, <2>1
    <3>3. k + 1 < m + 1 => at[k + 1] <= at[m + 1]
      BY <1>4, <2>1
    <3> QED
      BY <2>2, <3>1, <3>2, <3>3
  <2> QED
    BY <1>4, <1>6, <2>3
<1>8. N >= 1
  <2>1. m + 1 \in 1..(m + 1) /\ 1 \in 1..(m + 1) /\ (1 = m + 1 \/ 1 < m + 1)
    BY <1>2
  <2> QED
    BY <1>4, <2>1
(* Each place but the first is one in a block. *)
<1>9. \A k \in 1..m : \A j \in 1..Len(sub(k)) : at[k] + j \in 2..N /\ at[k] + j \in DOMAIN s /\ s[at[k] + j] = sub(k)[j]
  <2> TAKE k \in 1..m
  <2> TAKE j \in 1..Len(sub(k))
  <2>1. at[k] + j \in 2..N
    BY <1>6, <1>7
  <2> QED
    BY <1>4, <1>6, <2>1
<1>10. \A p \in DOMAIN s : p = 1 \/ p \in 2..N
  BY <1>6
<1>20. \A p \in 2..N : \E k \in 1..m, j \in Nat : j \in 1..Len(sub(k)) /\ p = at[k] + j
  <2> TAKE p \in 2..N
  <2>1. PICK k \in 1..m : \E j \in 1..Len(sub(k)) : p = at[k] + j
    BY <1>4
  <2>2. PICK j \in 1..Len(sub(k)) : p = at[k] + j
    BY <2>1
  <2> QED
    BY <1>6, <2>2
<1>11. s \in Seq(L)
  <2>1. \A p \in 1..N : s[p] \in L
    <3> TAKE p \in 1..N
    <3>1. CASE p = 1
      BY <1>4, <3>1
    <3>2. CASE p # 1
      <4>1. PICK k \in 1..m, j \in Nat : j \in 1..Len(sub(k)) /\ p = at[k] + j
        BY <1>20, <1>6, <1>10, <3>2
      <4>2. s[p] = sub(k)[j]
        BY <1>9, <4>1
      <4> QED
        BY <1>6, <4>1, <4>2
    <3> QED
      BY <3>1, <3>2
  <2> QED
    BY <1>2, <1>6, <2>1
<1>12. \A p \in 2..N : rank[n] < rank[s[p]]
  <2> TAKE p \in 2..N
  <2>1. PICK k \in 1..m, j \in Nat : j \in 1..Len(sub(k)) /\ p = at[k] + j
    BY <1>20
  <2>2. s[p] = sub(k)[j] /\ sub(k)[j] \in L
    BY <1>6, <1>9, <2>1, SMTT(30)
  <2>3. j = 1 \/ j \in 2..Len(sub(k))
    BY <1>6, <2>1
  <2>4. j = 1 \/ rank[ch[k]] < rank[sub(k)[j]]
    BY <1>21, <2>3
  <2> QED
    BY <1>1, <1>5, <1>6, <2>2, <2>4
<1>13. \A i, j \in DOMAIN s : s[i] = s[j] => i = j
  <2> SUFFICES ASSUME NEW i \in DOMAIN s, NEW j \in DOMAIN s, s[i] = s[j]
               PROVE  i = j
    OBVIOUS
  <2>1. rank[n] \in Nat
    BY <1>1, <1>5
  <2>2. CASE i = 1 \/ j = 1
    BY <1>4, <1>10, <1>12, <2>1, <2>2
  <2>3. CASE i # 1 /\ j # 1
    <3>1. PICK k \in 1..m, x \in Nat : x \in 1..Len(sub(k)) /\ i = at[k] + x
      BY <1>20, <1>10, <2>3
    <3>2. PICK l \in 1..m, y \in Nat : y \in 1..Len(sub(l)) /\ j = at[l] + y
      BY <1>20, <1>10, <2>3
    <3>3. sub(k)[x] = sub(l)[y]
      BY <1>9, <3>1, <3>2
    <3>4. CASE k = l
      <4>1. x \in DOMAIN sub(k) /\ y \in DOMAIN sub(k)
        BY <1>6, <3>1, <3>2, <3>4
      <4>2. Arranged(ns, L, rank, sub(k), ch[k])
        BY <1>5
      <4>3. x = y
        BY <3>3, <3>4, <4>1, <4>2 DEF Arranged
      <4> QED
        BY <3>1, <3>2, <3>4, <4>3
    <3>5. CASE k # l
      <4>1. ch[k] # ch[l]
        BY <1>5, <3>5
      <4>2. \A u \in DOMAIN sub(k), v \in DOMAIN sub(l) : sub(k)[u] # sub(l)[v]
        BY <1>1, <1>5, <4>1, SubtreesApart
      <4> QED
        BY <1>6, <3>1, <3>2, <3>3, <4>2
    <3> QED
      BY <3>4, <3>5
  <2> QED
    BY <2>2, <2>3
<1>14. \A i \in 2..N : \E l \in 1..(i - 1) : ns[s[i]].parent = s[l]
  <2> TAKE i \in 2..N
  <2>1. PICK k \in 1..m, j \in Nat : j \in 1..Len(sub(k)) /\ i = at[k] + j
    BY <1>20
  <2>2. s[i] = sub(k)[j]
    BY <1>9, <2>1
  <2>3. CASE j = 1
    <3>1. ns[s[i]].parent = s[1] /\ 1 \in 1..(i - 1)
      BY <1>4, <1>5, <1>6, <2>2, <2>3, SMTT(30)
    <3> QED
      BY <3>1
  <2>4. CASE j # 1
    <3>1. j \in 2..Len(sub(k))
      BY <1>6, <2>1, <2>4
    <3>2. PICK l \in 1..(j - 1) : ns[sub(k)[j]].parent = sub(k)[l]
      BY <1>21, <3>1
    <3>3. l \in 1..Len(sub(k)) /\ at[k] + l \in 1..(i - 1)
      BY <1>6, <1>7, <2>1, SMTT(30)
    <3>4. s[at[k] + l] = sub(k)[l]
      BY <1>9, <3>3
    <3> QED
      BY <2>2, <3>2, <3>3, <3>4
  <2> QED
    BY <2>3, <2>4
<1>15. \A i \in 2..N : \E k \in DOMAIN ns[ns[s[i]].parent].children : ns[ns[s[i]].parent].children[k] = s[i]
  <2> TAKE i \in 2..N
  <2>1. PICK k \in 1..m, j \in Nat : j \in 1..Len(sub(k)) /\ i = at[k] + j
    BY <1>20
  <2>2. s[i] = sub(k)[j]
    BY <1>9, <2>1
  <2>3. CASE j = 1
    <3>1. s[i] = ch[k] /\ ns[s[i]].parent = n /\ k \in DOMAIN ch
      BY <1>2, <1>5, <1>6, <2>2, <2>3
    <3> QED
      BY <3>1 DEF ch
  <2>4. CASE j # 1
    <3>1. j \in 2..Len(sub(k))
      BY <1>6, <2>1, <2>4
    <3>2. \E o \in DOMAIN ns[ns[sub(k)[j]].parent].children : ns[ns[sub(k)[j]].parent].children[o] = sub(k)[j]
      BY <1>21, <3>1
    <3> QED
      BY <2>2, <3>2
  <2> QED
    BY <2>3, <2>4
<1>16. \A l \in DOMAIN s : \A k \in DOMAIN ns[s[l]].children : \E i \in (l + 1)..N : s[i] = ns[s[l]].children[k]
  <2> TAKE l \in DOMAIN s
  <2>1. CASE l = 1
    <3>1. s[l] = n
      BY <1>4, <2>1
    <3>2. \A k \in 1..m : at[k] + 1 \in (l + 1)..N /\ s[at[k] + 1] = ch[k]
      <4> TAKE k \in 1..m
      <4>1. 1 \in 1..Len(sub(k))
        BY <1>6
      <4> QED
        BY <1>6, <1>7, <1>9, <2>1, <4>1
    <3> QED
      BY <1>2, <3>1, <3>2 DEF ch
  <2>2. CASE l # 1
    <3>1. PICK k \in 1..m, j \in Nat : j \in 1..Len(sub(k)) /\ l = at[k] + j
      BY <1>20, <1>10, <2>2
    <3>2. s[l] = sub(k)[j] /\ j \in DOMAIN sub(k)
      BY <1>6, <1>9, <3>1
    <3>3. ASSUME NEW o \in DOMAIN ns[s[l]].children
          PROVE  \E i \in (l + 1)..N : s[i] = ns[s[l]].children[o]
      <4>1. PICK x \in (j + 1)..Len(sub(k)) : sub(k)[x] = ns[sub(k)[j]].children[o]
        BY <1>21, <3>2, <3>3
      <4>2. x \in 1..Len(sub(k)) /\ at[k] + x \in (l + 1)..N
        BY <1>6, <1>7, <3>1, SMTT(30)
      <4>3. s[at[k] + x] = sub(k)[x]
        BY <1>9, <4>2
      <4> QED
        BY <3>2, <4>1, <4>2, <4>3
    <3> QED
      BY <3>3
  <2> QED
    BY <2>1, <2>2
<1>17. \A l, j, i \in DOMAIN s : l < j /\ j < i /\ ns[s[i]].parent = s[l] => \E q \in l..(j - 1) : ns[s[j]].parent = s[q]
  <2> SUFFICES ASSUME NEW l \in DOMAIN s, NEW j \in DOMAIN s, NEW i \in DOMAIN s, l < j, j < i, ns[s[i]].parent = s[l]
               PROVE  \E q \in l..(j - 1) : ns[s[j]].parent = s[q]
    OBVIOUS
  <2>1. l \in Nat /\ j \in Nat /\ i \in Nat /\ l >= 1 /\ i <= N /\ j \in 2..N /\ i \in 2..N
    BY <1>6
  <2>2. PICK k \in 1..m, x \in Nat : x \in 1..Len(sub(k)) /\ i = at[k] + x
    BY <1>20, <2>1
  <2>3. s[i] = sub(k)[x] /\ x \in DOMAIN sub(k)
    BY <1>6, <1>9, <2>2
  <2>4. CASE x = 1
    <3>1. s[l] = s[1] /\ 1 \in DOMAIN s
      <4>1. s[i] = ch[k] /\ ns[ch[k]].parent = n
        BY <1>5, <1>6, <2>3, <2>4
      <4> QED
        BY <1>4, <1>6, <1>8, <4>1
    <3>2. l = 1
      BY <1>13, <3>1
    <3> QED
      BY <1>14, <2>1, <3>2
  <2>5. CASE x # 1
    <3>1. x \in 2..Len(sub(k))
      BY <1>6, <2>2, <2>5
    <3>2. PICK y \in 1..(x - 1) : ns[sub(k)[x]].parent = sub(k)[y]
      BY <1>21, <3>1
    <3>3. y \in 1..Len(sub(k)) /\ y \in DOMAIN sub(k)
      BY <1>6, <3>1
    <3>4. l = at[k] + y
      <4>1. s[at[k] + y] = s[l] /\ at[k] + y \in DOMAIN s
        BY <1>9, <2>3, <3>2, <3>3
      <4> QED
        BY <1>13, <4>1
    <3> DEFINE z == j - at[k]
    <3>5. z \in 1..Len(sub(k)) /\ z \in DOMAIN sub(k) /\ j = at[k] + z /\ y < z /\ z < x
      BY <1>6, <1>7, <2>1, <2>2, <3>3, <3>4, SMTT(30)
    <3> HIDE DEF z
    <3>6. PICK o \in y..(z - 1) : ns[sub(k)[z]].parent = sub(k)[o]
      <4>1. y < z /\ z < x /\ ns[sub(k)[x]].parent = sub(k)[y]
        BY <3>2, <3>5
      <4>2. x \in DOMAIN sub(k) /\ y \in DOMAIN sub(k) /\ z \in DOMAIN sub(k)
        BY <2>3, <3>3, <3>5
      <4>3. \A l2, j2, i2 \in DOMAIN sub(k) :
              l2 < j2 /\ j2 < i2 /\ ns[sub(k)[i2]].parent = sub(k)[l2] => \E o \in l2..(j2 - 1) : ns[sub(k)[j2]].parent = sub(k)[o]
        BY <1>21
      <4> QED
        BY <4>1, <4>2, <4>3
    <3>7. o \in 1..Len(sub(k)) /\ at[k] + o \in l..(j - 1)
      <4> DEFINE a == at[k]
                 w == Len(sub(k))
      <4>1. a \in Nat /\ w \in Nat
        BY <1>6, <1>7
      <4>2. y \in 1..w /\ z \in 1..w /\ o \in y..(z - 1) /\ l = a + y /\ j = a + z
        BY <3>3, <3>4, <3>5
      <4> HIDE DEF a, w
      <4>3. y \in Int /\ z \in Int /\ o \in Int /\ 1 <= y /\ y <= o /\ o <= z - 1 /\ z <= w
        BY <4>1, <4>2
      <4>4. o \in 1..w /\ a + o \in l..(j - 1)
        BY <4>1, <4>2, <4>3
      <4> QED
        BY <4>4 DEF a, w
    <3>8. s[at[k] + o] = sub(k)[o] /\ s[j] = sub(k)[z]
      BY <1>9, <3>5, <3>7
    <3> QED
      BY <3>6, <3>7, <3>8
  <2> QED
    BY <2>4, <2>5
<1>18. \A l, i, j \in DOMAIN s : \A k, o \in DOMAIN ns[s[l]].children :
         k < o /\ s[i] = ns[s[l]].children[k] /\ s[j] = ns[s[l]].children[o] => i < j
  <2> SUFFICES ASSUME NEW l \in DOMAIN s, NEW i \in DOMAIN s, NEW j \in DOMAIN s,
                      NEW k \in DOMAIN ns[s[l]].children, NEW o \in DOMAIN ns[s[l]].children,
                      k < o, s[i] = ns[s[l]].children[k], s[j] = ns[s[l]].children[o]
               PROVE  i < j
    OBVIOUS
  <2>1. CASE l = 1
    <3>1. k \in 1..m /\ o \in 1..m /\ s[i] = ch[k] /\ s[j] = ch[o]
      BY <1>2, <1>4, <2>1 DEF ch
    <3>2. 1 \in 1..Len(sub(k)) /\ 1 \in 1..Len(sub(o))
      BY <1>6, <3>1
    <3>3. /\ at[k] + 1 \in DOMAIN s /\ s[at[k] + 1] = ch[k]
          /\ at[o] + 1 \in DOMAIN s /\ s[at[o] + 1] = ch[o]
      BY <1>6, <1>9, <3>1, <3>2
    <3>4. i = at[k] + 1 /\ j = at[o] + 1
      BY <1>13, <3>1, <3>3
    <3>5. at[k] + Len(sub(k)) <= at[o]
      BY <1>4, <3>1
    <3> QED
      BY <1>6, <1>7, <3>1, <3>4, <3>5, SMTT(30)
  <2>2. CASE l # 1
    <3>1. PICK b \in 1..m, y \in Nat : y \in 1..Len(sub(b)) /\ l = at[b] + y
      BY <1>20, <1>10, <2>2
    <3>2. s[l] = sub(b)[y] /\ y \in DOMAIN sub(b)
      BY <1>6, <1>9, <3>1
    <3>3. PICK u \in (y + 1)..Len(sub(b)) : sub(b)[u] = ns[sub(b)[y]].children[k]
      <4>1. \A c \in DOMAIN ns[sub(b)[y]].children : \E i2 \in (y + 1)..Len(sub(b)) : sub(b)[i2] = ns[sub(b)[y]].children[c]
        BY <1>21, <3>2
      <4> QED
        BY <3>2, <4>1
    <3>4. PICK v \in (y + 1)..Len(sub(b)) : sub(b)[v] = ns[sub(b)[y]].children[o]
      <4>1. \A c \in DOMAIN ns[sub(b)[y]].children : \E i2 \in (y + 1)..Len(sub(b)) : sub(b)[i2] = ns[sub(b)[y]].children[c]
        BY <1>21, <3>2
      <4> QED
        BY <3>2, <4>1
    <3>5. u \in 1..Len(sub(b)) /\ v \in 1..Len(sub(b)) /\ u \in DOMAIN sub(b) /\ v \in DOMAIN sub(b)
      <4>1. Len(sub(b)) \in Nat /\ DOMAIN sub(b) = 1..Len(sub(b))
        BY <1>6
      <4>2. \A x \in (y + 1)..Len(sub(b)) : x \in 1..Len(sub(b))
        <5> HIDE DEF sub
        <5> QED
          BY <4>1
      <4>3. u \in 1..Len(sub(b)) /\ v \in 1..Len(sub(b))
        BY <4>2
      <4> QED
        BY <4>1, <4>3
    <3>6. u < v
      BY <1>21, <3>2, <3>3, <3>4, <3>5
    <3>7. i = at[b] + u /\ j = at[b] + v
      <4>1. s[at[b] + u] = s[i] /\ s[at[b] + v] = s[j] /\ at[b] + u \in DOMAIN s /\ at[b] + v \in DOMAIN s
        BY <1>9, <3>2, <3>3, <3>4, <3>5
      <4> QED
        BY <1>13, <4>1
    <3> QED
      BY <1>7, <3>5, <3>6, <3>7
  <2> QED
    BY <2>1, <2>2
<1>19. Len(s) >= 1 /\ s[1] = n
  BY <1>4, <1>6, <1>8
<1> QED
  <2>1. \A i \in 2..Len(s) : rank[n] < rank[s[i]]
    BY <1>6, <1>12
  <2>2. \A i \in 2..Len(s) : \E l \in 1..(i - 1) : ns[s[i]].parent = s[l]
    BY <1>6, <1>14
  <2>3. \A i \in 2..Len(s) : \E k \in DOMAIN ns[ns[s[i]].parent].children : ns[ns[s[i]].parent].children[k] = s[i]
    BY <1>6, <1>15
  <2>4. \A l \in DOMAIN s : \A k \in DOMAIN ns[s[l]].children : \E i \in (l + 1)..Len(s) : s[i] = ns[s[l]].children[k]
    BY <1>6, <1>16
  <2>5. Arranged(ns, L, rank, s, n)
    BY <1>11, <1>13, <1>17, <1>18, <1>19, <2>1, <2>2, <2>3, <2>4, Zenon DEF Arranged
  <2> QED
    BY <2>5 DEF s

(* In a tree that is linked, the order of saving is such an arrangement. *)
LEMMA PreOrderArranged ==
  ASSUME NEW ns, NEW r, NEW L, NEW rank, NEW M, Linked(ns, r, L, rank, M), NEW n \in L
  PROVE  Arranged(ns, L, rank, PreOrder(ns, n), n)
<1> DEFINE P == {x \in DOMAIN ns : x \in L => Arranged(ns, L, rank, PreOrder(ns, x), x)}
<1>1. IsForest(DOMAIN ns, Kids(ns), rank, M) /\ L \subseteq DOMAIN ns
  BY DEF Linked
<1>2. ASSUME NEW x \in DOMAIN ns, \A i \in DOMAIN Kids(ns)[x] : Kids(ns)[x][i] \in P
      PROVE  x \in P
  <2> SUFFICES ASSUME x \in L
               PROVE  Arranged(ns, L, rank, PreOrder(ns, x), x)
    OBVIOUS
  <2>1. Kids(ns)[x] = ns[x].children
    BY DEF Kids
  <2>2. \A k \in DOMAIN ns[x].children : ns[x].children[k] \in L
    BY DEF Linked
  <2>3. \A k \in DOMAIN ns[x].children : Arranged(ns, L, rank, PreOrder(ns, ns[x].children[k]), ns[x].children[k])
    BY <1>2, <2>1, <2>2
  <2> QED
    BY <2>3, BlocksArranged
<1> HIDE DEF P
<1>3. \A x \in DOMAIN ns : x \in P
  BY <1>1, <1>2, TreeInduction
<1> QED
  BY <1>1, <1>3 DEF P

-----------------------------------------------------------------------------
(* The nodes of the model's states: numbered in the order of saving.  No node is between a   *)
(* node and its parent that is not below this parent, and the children are in their order.   *)

NumberedTo(ns, N) ==
  /\ N \in 1..MaxNodes /\ ns \in [1..N -> NodeRecords]
  /\ ns[1].parent = None
  /\ \A i \in 2..N : ns[i].parent \in 1..(i - 1) /\ CanHaveChildren(ns[ns[i].parent])
  /\ \A i, j \in 2..N : ns[i].parent < j /\ j < i => ns[i].parent <= ns[j].parent
  /\ \A n \in 1..N : \A k, o \in DOMAIN ns[n].children : k < o => ns[n].children[k] < ns[n].children[o]
  /\ \A n \in 1..N : Range(ns[n].children) = {c \in 2..N : ns[c].parent = n}

LEMMA NodeIs ==
  ASSUME NEW node \in NodeRecords
  PROVE  /\ node = [kind |-> node.kind, test |-> node.test, parent |-> node.parent, children |-> node.children]
         /\ node.kind \in Combinators \cup {"comparison"} /\ node.test \in AllTests /\ node.parent \in Addresses \cup {None}
         /\ node.children \in Seq(Addresses) /\ Len(node.children) \in Nat /\ DOMAIN node.children = 1..Len(node.children)
<1>1. /\ node = [kind |-> node.kind, test |-> node.test, parent |-> node.parent, children |-> node.children]
      /\ node.kind \in Combinators \cup {"comparison"} /\ node.test \in AllTests /\ node.parent \in Addresses \cup {None}
      /\ node.children \in Seq(Addresses)
  BY DEF NodeRecords
<1> QED
  BY <1>1

LEMMA NumberedLinked ==
  ASSUME NEW ns, NEW N, NumberedTo(ns, N)
  PROVE  Linked(ns, 1, 1..N, [n \in 1..N |-> n], N)
<1> DEFINE rank == [n \in 1..N |-> n]
           D == DOMAIN ns
<1>1. N \in Nat /\ N <= MaxNodes /\ 1 \in 1..N /\ D = 1..N /\ ns \in [1..N -> NodeRecords] /\ ns[1].parent = None
  BY FilterEditorAssumption DEF NumberedTo
<1>2. /\ \A i \in 2..N : ns[i].parent \in 1..(i - 1) /\ CanHaveChildren(ns[ns[i].parent])
      /\ \A n \in 1..N : \A k, o \in DOMAIN ns[n].children : k < o => ns[n].children[k] < ns[n].children[o]
      /\ \A n \in 1..N : Range(ns[n].children) = {c \in 2..N : ns[c].parent = n}
  BY DEF NumberedTo
<1> HIDE DEF D
<1>3. \A n \in 1..N : \A i \in DOMAIN ns[n].children :
        /\ ns[n].children[i] \in 2..N /\ ns[ns[n].children[i]].parent = n /\ n < ns[n].children[i]
  <2> TAKE n \in 1..N
  <2> TAKE i \in DOMAIN ns[n].children
  <2> DEFINE c == ns[n].children[i]
  <2>1. c \in Range(ns[n].children)
    BY DEF Range
  <2>2. c \in 2..N /\ ns[c].parent = n
    BY <1>2, <2>1
  <2> HIDE DEF c
  <2>3. n \in 1..(c - 1)
    BY <1>2, <2>2
  <2> QED
    BY <1>1, <2>2, <2>3 DEF c
<1>4. \A n \in 1..N : /\ ns[n].children \in Seq(Addresses)
                      /\ Len(ns[n].children) \in Nat /\ DOMAIN ns[n].children = 1..Len(ns[n].children)
  BY <1>1, NodeIs
<1>5. IsForest(D, Kids(ns), rank, N)
  <2>1. \A n \in D : Kids(ns)[n] = ns[n].children /\ rank[n] = n /\ n \in Nat
    BY <1>1 DEF Kids, D
  <2>2. \A n \in D : ns[n].children \in Seq(D)
    <3> SUFFICES ASSUME NEW n \in D
                 PROVE  ns[n].children \in Seq(D)
      OBVIOUS
    <3>1. \A i \in 1..Len(ns[n].children) : ns[n].children[i] \in D
      BY <1>1, <1>3, <1>4
    <3> QED
      BY <1>1, <1>4, <3>1, SMTT(30)
  <2>3. Kids(ns) \in [D -> Seq(D)]
    <3>1. Kids(ns) = [n \in D |-> ns[n].children]
      BY DEF Kids, D
    <3> QED
      BY <2>2, <3>1
  <2>4. rank \in [D -> 0..N]
    BY <1>1
  <2>5. \A n \in D : \A i \in DOMAIN Kids(ns)[n] : rank[n] < rank[Kids(ns)[n][i]]
    <3> TAKE n \in D
    <3> TAKE i \in DOMAIN Kids(ns)[n]
    <3>1. Kids(ns)[n] = ns[n].children /\ n \in 1..N /\ rank[n] = n
      BY <1>1, <2>1
    <3>2. ns[n].children[i] \in 2..N /\ n < ns[n].children[i]
      BY <1>3, <3>1
    <3>3. rank[ns[n].children[i]] = ns[n].children[i]
      BY <1>1, <3>2
    <3> HIDE DEF rank
    <3> QED
      BY <3>1, <3>2, <3>3
  <2> HIDE DEF rank
  <2> QED
    BY <1>1, <2>3, <2>4, <2>5 DEF IsForest
<1>6. \A n \in D : ~CanHaveChildren(ns[n]) => ns[n].children = <<>>
  <2> SUFFICES ASSUME NEW n \in 1..N, ~CanHaveChildren(ns[n])
               PROVE  ns[n].children = <<>>
    BY <1>1
  <2>1. Range(ns[n].children) = {}
    BY <1>2
  <2>2. DOMAIN ns[n].children = {}
    BY <2>1 DEF Range
  <2>3. Len(ns[n].children) = 0
    <3> DEFINE m == Len(ns[n].children)
    <3>1. m \in Nat /\ ~(1 \in 1..m)
      BY <1>4, <2>2
    <3> HIDE DEF m
    <3>2. m = 0
      BY <3>1
    <3> QED
      BY <3>2 DEF m
  <2> QED
    BY <1>4, <2>3
<1>7. \A n \in 1..N : \A i, j \in DOMAIN ns[n].children : ns[n].children[i] = ns[n].children[j] => i = j
  <2> SUFFICES ASSUME NEW n \in 1..N, NEW i \in DOMAIN ns[n].children, NEW j \in DOMAIN ns[n].children,
                      ns[n].children[i] = ns[n].children[j], i # j
               PROVE  FALSE
    OBVIOUS
  <2>1. i \in Nat /\ j \in Nat /\ (i < j \/ j < i)
    BY <1>4
  <2>2. ns[n].children[i] \in Nat /\ ns[n].children[j] \in Nat
    BY <1>1, <1>3
  <2> QED
    BY <1>2, <2>1, <2>2
<1>8. D \subseteq Addresses
  BY <1>1, FilterEditorAssumption DEF Addresses
<1>9. \A n \in 1..N : \A i \in DOMAIN ns[n].children : ns[n].children[i] \in 1..N /\ ns[ns[n].children[i]].parent = n
  BY <1>1, <1>3
<1> HIDE DEF rank
<1>10. Linked(ns, 1, 1..N, rank, N)
  BY <1>1, <1>5, <1>6, <1>7, <1>8, <1>9 DEF Linked, D
<1> QED
  BY <1>10 DEF rank

(* ... which is the order of their numbers. *)
LEMMA NumberedOrder ==
  ASSUME NEW ns, NEW N, NumberedTo(ns, N)
  PROVE  PreOrder(ns, 1) = [i \in 1..N |-> i]
<1> DEFINE L == 1..N
           rank == [n \in 1..N |-> n]
           s == PreOrder(ns, 1)
<1>1. /\ N \in Nat /\ 1 \in L
      /\ \A i \in 2..N : ns[i].parent \in 1..(i - 1)
      /\ \A i, j \in 2..N : ns[i].parent < j /\ j < i => ns[i].parent <= ns[j].parent
      /\ \A n \in 1..N : \A k, o \in DOMAIN ns[n].children : k < o => ns[n].children[k] < ns[n].children[o]
      /\ \A n \in 1..N : Range(ns[n].children) = {c \in 2..N : ns[c].parent = n}
      /\ \A n \in 1..N : DOMAIN ns[n].children = 1..Len(ns[n].children)
  <2>1. N \in 1..MaxNodes /\ ns \in [1..N -> NodeRecords]
    BY DEF NumberedTo
  <2>2. \A n \in 1..N : DOMAIN ns[n].children = 1..Len(ns[n].children)
    BY <2>1, NodeIs
  <2> QED
    BY <2>1, <2>2, FilterEditorAssumption DEF NumberedTo
<1>2. Arranged(ns, L, rank, s, 1)
  BY <1>1, NumberedLinked, PreOrderArranged
<1> HIDE DEF L, rank, s
<1>3. /\ s \in Seq(L) /\ Len(s) >= 1 /\ s[1] = 1
      /\ \A i, j \in DOMAIN s : s[i] = s[j] => i = j
      /\ \A l \in DOMAIN s : \A k \in DOMAIN ns[s[l]].children : \E i \in (l + 1)..Len(s) : s[i] = ns[s[l]].children[k]
      /\ \A l, j, i \in DOMAIN s : l < j /\ j < i /\ ns[s[i]].parent = s[l] => \E m \in l..(j - 1) : ns[s[j]].parent = s[m]
      /\ \A l, i, j \in DOMAIN s : \A k, o \in DOMAIN ns[s[l]].children :
           k < o /\ s[i] = ns[s[l]].children[k] /\ s[j] = ns[s[l]].children[o] => i < j
  BY <1>2, Zenon DEF Arranged
<1>4. Len(s) \in Nat /\ DOMAIN s = 1..Len(s) /\ \A i \in 1..Len(s) : s[i] \in 1..N
  <2>1. Len(s) \in Nat /\ DOMAIN s = 1..Len(s) /\ \A i \in 1..Len(s) : s[i] \in L
    BY <1>3
  <2> QED
    BY <2>1 DEF L
<1>5. \A n \in 1..N, c \in 2..N : ns[c].parent = n => \E k \in DOMAIN ns[n].children : ns[n].children[k] = c
  <2> TAKE n \in 1..N, c \in 2..N
  <2> HAVE ns[c].parent = n
  <2>1. c \in Range(ns[n].children)
    BY <1>1
  <2> QED
    BY <2>1 DEF Range
(* All of them are in it ... *)
<1>6. \A x \in 1..N : \E y \in 1..Len(s) : s[y] = x
  <2> DEFINE There(x) == \A z \in 1..x : \E y \in 1..Len(s) : s[y] = z
             P == {x \in 1..N : There(x)}
  <2>1. 1 \in P
    <3>1. 1 \in 1..Len(s) /\ s[1] = 1 /\ \A z \in 1..1 : z = 1
      BY <1>3, <1>4
    <3>2. There(1)
      BY <3>1
    <3> QED
      BY <1>1, <3>2 DEF L
  <2>2. ASSUME NEW x \in 2..N, x - 1 \in P
        PROVE  x \in P
    <3>1. x \in 1..N /\ 1..x = 1..(x - 1) \cup {x}
      BY <1>1
    <3> DEFINE p == ns[x].parent
    <3>2. p \in 1..(x - 1) /\ p \in 1..N
      BY <1>1
    <3>3. PICK l \in 1..Len(s) : s[l] = p
      BY <2>2, <3>2
    <3>4. PICK k \in DOMAIN ns[p].children : ns[p].children[k] = x
      BY <1>5, <3>2
    <3> HIDE DEF p
    <3>5. PICK i \in (l + 1)..Len(s) : s[i] = ns[s[l]].children[k]
      BY <1>3, <1>4, <3>3, <3>4
    <3>6. i \in 1..Len(s) /\ s[i] = x
      BY <1>4, <3>3, <3>4, <3>5
    <3>7. There(x)
      BY <2>2, <3>1, <3>6
    <3> QED
      BY <3>1, <3>7
  <2> HIDE DEF P
  <2>3. 1 \in Int /\ N \in Int /\ (1 + 1)..N = 2..N
    BY <1>1
  <2>4. \A x \in 1..N : x \in P
    BY <2>1, <2>2, <2>3, RangeInduction
  <2>5. \A x \in 1..N : x \in 1..x
    BY <1>1
  <2> QED
    BY <2>4, <2>5 DEF P
(* ... and each is where its number says, if those before it are. *)
<1>7. ASSUME NEW i \in 2..Len(s), \A j \in 1..(i - 1) : s[j] = j, s[i] # i
      PROVE  FALSE
  <2> DEFINE x == s[i]
  <2>1. i \in 1..Len(s) /\ x \in 1..N /\ i \in Nat
    BY <1>4
  <2>2. \A j \in 1..(i - 1) : j \in 1..Len(s) /\ x # j
    <3> TAKE j \in 1..(i - 1)
    <3>1. j \in 1..Len(s) /\ j # i
      BY <1>4, <2>1
    <3> QED
      BY <1>3, <1>4, <1>7, <2>1, <3>1
  <2>3. i < x /\ i \in 2..N /\ x \in 2..N
    <3>1. ~(x \in 1..(i - 1)) /\ x # i
      BY <1>7, <2>2
    <3> HIDE DEF x
    <3> QED
      BY <1>1, <2>1, <3>1
  <2>4. PICK y \in 1..Len(s) : s[y] = i
    BY <1>6, <2>3, <1>1
  <2>5. i < y
    <3>1. y # i /\ ~(y \in 1..(i - 1))
      <4>1. \A j \in 1..(i - 1) : s[j] # i
        BY <1>7, <2>1
      <4> QED
        BY <1>7, <2>4, <4>1
    <3> QED
      BY <1>4, <2>1, <3>1
  <2> DEFINE q == ns[i].parent
  <2>6. q \in 1..(i - 1) /\ s[q] = q /\ q \in 1..Len(s) /\ q \in 1..N
    BY <1>1, <1>4, <1>7, <2>3
  <2>7. PICK m \in q..(i - 1) : ns[x].parent = s[m]
    <3>1. q < i /\ ns[s[y]].parent = s[q]
      BY <2>1, <2>4, <2>6
    <3> HIDE DEF q
    <3>2. q \in DOMAIN s /\ i \in DOMAIN s /\ y \in DOMAIN s
      BY <1>4, <2>1, <2>4, <2>6
    <3>3. \A l, j, o \in DOMAIN s : l < j /\ j < o /\ ns[s[o]].parent = s[l] => \E m \in l..(j - 1) : ns[s[j]].parent = s[m]
      BY <1>3
    <3>4. \E m \in q..(i - 1) : ns[s[i]].parent = s[m]
      BY <2>5, <3>1, <3>2, <3>3
    <3> QED
      BY <3>4
  <2> HIDE DEF x
  <2>8. m \in 1..(i - 1) /\ ns[x].parent = m
    BY <1>7, <2>1, <2>6, <2>7
  <2>9. CASE m = q
    <3>1. PICK k \in DOMAIN ns[q].children : ns[q].children[k] = i
      BY <1>5, <2>3, <2>6
    <3>2. PICK o \in DOMAIN ns[q].children : ns[q].children[o] = x
      BY <1>5, <2>3, <2>6, <2>8, <2>9
    <3> HIDE DEF q
    <3>3. k \in Nat /\ o \in Nat
      BY <1>1, <2>6
    <3>4. k < o
      <4>1. k # o
        BY <2>1, <2>3, <3>1, <3>2
      <4>2. ~(o < k)
        <5>1. o < k => x < i
          BY <1>1, <2>6, <3>1, <3>2
        <5> QED
          BY <1>1, <2>1, <2>3, <5>1
      <4> QED
        BY <3>3, <4>1, <4>2
    <3>5. y < i
      <4>1. s[y] = ns[s[q]].children[k] /\ s[i] = ns[s[q]].children[o] /\ k \in DOMAIN ns[s[q]].children /\ o \in DOMAIN ns[s[q]].children
        BY <2>4, <2>6, <3>1, <3>2 DEF x
      <4> QED
        BY <1>3, <1>4, <2>1, <2>4, <2>6, <3>4, <4>1
    <3> QED
      BY <1>4, <2>1, <2>5, <3>5
  <2>10. CASE m # q
    <3>1. m <= q
      <4>1. ns[x].parent < i
        BY <2>1, <2>8
      <4>2. ns[x].parent <= ns[i].parent
        BY <1>1, <2>3, <4>1
      <4> QED
        BY <2>8, <4>2
    <3> QED
      BY <2>1, <2>6, <2>7, <2>10, <3>1
  <2> QED
    BY <2>9, <2>10
<1>8. \A i \in 1..Len(s) : s[i] = i
  <2> DEFINE Ok(i) == \A j \in 1..i : s[j] = j
             P == {i \in 1..Len(s) : Ok(i)}
  <2>1. 1 \in P
    <3>1. 1 \in 1..Len(s) /\ \A j \in 1..1 : j = 1
      BY <1>3, <1>4
    <3> QED
      BY <1>3, <3>1
  <2>2. ASSUME NEW i \in 2..Len(s), i - 1 \in P
        PROVE  i \in P
    <3>1. s[i] = i
      BY <1>7, <2>2
    <3>2. i \in 1..Len(s) /\ 1..i = 1..(i - 1) \cup {i}
      BY <1>4
    <3> QED
      BY <2>2, <3>1, <3>2
  <2> HIDE DEF P
  <2>3. 1 \in Int /\ Len(s) \in Int /\ (1 + 1)..Len(s) = 2..Len(s)
    BY <1>4
  <2>4. \A i \in 1..Len(s) : i \in P
    BY <2>1, <2>2, <2>3, RangeInduction
  <2>5. \A i \in 1..Len(s) : i \in 1..i
    BY <1>4
  <2> QED
    BY <2>4, <2>5 DEF P
<1>9. Len(s) = N
  <2>1. N \in 1..N
    BY <1>1 DEF L
  <2>2. PICK y \in 1..Len(s) : s[y] = N
    BY <1>6, <2>1
  <2>3. y = N
    BY <1>8, <2>2
  <2>4. Len(s) \in 1..Len(s)
    BY <1>3, <1>4
  <2>5. Len(s) \in 1..N
    BY <1>4, <1>8, <2>4
  <2>6. N \in 1..Len(s)
    BY <2>2, <2>3
  <2>7. N <= Len(s) /\ Len(s) <= N /\ Len(s) \in Int /\ N \in Int
    BY <2>5, <2>6
  <2> QED
    BY <2>7
<1>10. s = [i \in 1..N |-> i]
  <2>1. s \in [1..N -> L]
    BY <1>3, <1>9
  <2> QED
    BY <1>8, <1>9, <2>1
<1> QED
  BY <1>10 DEF s

-----------------------------------------------------------------------------
(* ReferencedNodes: what a tree is when its nodes are numbered anew. *)

(* The nodes R, numbered 1, 2 ..., are the nodes s[1], s[2] ... of ns. *)
Renumbers(ns, L, R, s) ==
  \A i \in 1..Len(s) :
    /\ s[i] \in L /\ R[i].kind = ns[s[i]].kind /\ R[i].test = ns[s[i]].test
    /\ DOMAIN R[i].children = DOMAIN ns[s[i]].children /\ Len(R[i].children) = Len(ns[s[i]].children)
    /\ \A c \in DOMAIN ns[s[i]].children : R[i].children[c] \in 1..Len(s) /\ s[R[i].children[c]] = ns[s[i]].children[c]

LEMMA Readdressed ==
  ASSUME NEW node \in NodeRecords, NEW up, NEW down
  PROVE  [node EXCEPT !.parent = up, !.children = down] = [kind |-> node.kind, test |-> node.test, parent |-> up, children |-> down]
<1> DEFINE k == node.kind
           t == node.test
           p == node.parent
           c == node.children
<1>1. node = [kind |-> k, test |-> t, parent |-> p, children |-> c]
  BY NodeIs
<1> HIDE DEF k, t, p, c
<1> DEFINE a == [node EXCEPT !.parent = up, !.children = down]
           b == [kind |-> k, test |-> t, parent |-> up, children |-> down]
<1>2. DOMAIN a = {"kind", "test", "parent", "children"} /\ DOMAIN b = DOMAIN a
  BY <1>1
<1>3. a.kind = k /\ a.test = t /\ a.parent = up /\ a.children = down
  BY <1>1
<1>4. a = [x \in DOMAIN a |-> a[x]] /\ b = [x \in DOMAIN b |-> b[x]]
  OBVIOUS
<1>5. \A x \in DOMAIN a : a[x] = b[x]
  <2> HIDE DEF a
  <2> QED
    BY <1>2, <1>3
<1>6. a = b
  <2> HIDE DEF a, b
  <2> QED
    BY <1>2, <1>4, <1>5
<1> QED
  BY <1>6 DEF k, t

LEMMA ReferencedNumbered ==
  ASSUME NEW ns, NEW r, NEW L, NEW rank, NEW M, Linked(ns, r, L, rank, M)
  PROVE  /\ NumberedTo(ReferencedNodes(ns, r), Len(PreOrder(ns, r)))
         /\ Renumbers(ns, L, ReferencedNodes(ns, r), PreOrder(ns, r))
         /\ PreOrder(ns, r)[1] = r
<1> DEFINE s == PreOrder(ns, r)
           N == Len(s)
           R == ReferencedNodes(ns, r)
           address(n) == IF n \in Range(s) THEN CHOOSE i \in DOMAIN s : s[i] = n
                         ELSE IF n = None THEN None ELSE 0
<1>1. /\ DOMAIN ns \subseteq Addresses /\ ns \in [DOMAIN ns -> NodeRecords]
      /\ r \in L /\ L \subseteq DOMAIN ns
      /\ ns[r].parent = None
      /\ \A n \in DOMAIN ns : ~CanHaveChildren(ns[n]) => ns[n].children = <<>>
      /\ \A n \in L : \A i \in DOMAIN ns[n].children : ns[n].children[i] \in L /\ ns[ns[n].children[i]].parent = n
  BY DEF Linked
<1>2. Arranged(ns, L, rank, s, r)
  BY <1>1, PreOrderArranged
<1>3. R = [i \in DOMAIN s |-> [ns[s[i]] EXCEPT !.parent = address(@), !.children = [c \in DOMAIN @ |-> address(@[c])]]]
  BY DEF ReferencedNodes
<1> HIDE DEF s, R
<1>4. /\ s \in Seq(L) /\ Len(s) >= 1 /\ s[1] = r
      /\ \A i, j \in DOMAIN s : s[i] = s[j] => i = j
      /\ \A i \in 2..Len(s) : \E l \in 1..(i - 1) : ns[s[i]].parent = s[l]
      /\ \A i \in 2..Len(s) : \E k \in DOMAIN ns[ns[s[i]].parent].children : ns[ns[s[i]].parent].children[k] = s[i]
      /\ \A l \in DOMAIN s : \A k \in DOMAIN ns[s[l]].children : \E i \in (l + 1)..Len(s) : s[i] = ns[s[l]].children[k]
      /\ \A l, j, i \in DOMAIN s : l < j /\ j < i /\ ns[s[i]].parent = s[l] => \E m \in l..(j - 1) : ns[s[j]].parent = s[m]
      /\ \A l, i, j \in DOMAIN s : \A k, o \in DOMAIN ns[s[l]].children :
           k < o /\ s[i] = ns[s[l]].children[k] /\ s[j] = ns[s[l]].children[o] => i < j
  BY <1>2, Zenon DEF Arranged
<1>5. N \in Nat /\ DOMAIN s = 1..N /\ 1 \in 1..N /\ N = Len(s) /\ \A i \in 1..N : s[i] \in L /\ s[i] \in DOMAIN ns /\ s[i] \in 1..MaxNodes
  <2>1. N \in Nat /\ DOMAIN s = 1..N /\ 1 \in 1..N /\ N = Len(s) /\ \A i \in 1..N : s[i] \in L
    BY <1>4
  <2> HIDE DEF N
  <2> QED
    BY <1>1, <2>1 DEF Addresses
<1> HIDE DEF N
<1>6. N <= MaxNodes
  <2> SUFFICES ASSUME MaxNodes < N
               PROVE  FALSE
    BY <1>5, FilterEditorAssumption
  <2> DEFINE S == 1..N
             T == 1..MaxNodes
  <2>1. /\ 1 \in Int /\ N \in Int /\ MaxNodes \in Int /\ ~(1 > N) /\ ~(1 > MaxNodes)
        /\ (N - 1) + 1 = N /\ (MaxNodes - 1) + 1 = MaxNodes
    BY <1>5, FilterEditorAssumption
  <2>2. IsFiniteSet(S) /\ Cardinality(S) = N
    BY <2>1, FS_Interval
  <2>3. IsFiniteSet(T) /\ Cardinality(T) = MaxNodes
    BY <2>1, FS_Interval
  <2>4. s \in [S -> T]
    <3>1. s = [i \in DOMAIN s |-> s[i]]
      BY <1>4
    <3> QED
      BY <1>5, <3>1
  <2> HIDE DEF S, T
  <2>5. \E x, y \in S : x # y /\ s[x] = s[y]
    BY <2>2, <2>3, <2>4, FS_PigeonHole
  <2> QED
    BY <1>4, <1>5, <2>5 DEF S
<1>7. \A i \in 1..N : address(s[i]) = i
  <2> TAKE i \in 1..N
  <2>1. s[i] \in Range(s)
    BY <1>5 DEF Range
  <2>2. \A j \in DOMAIN s : s[j] = s[i] => j = i
    BY <1>4, <1>5
  <2>3. (CHOOSE j \in DOMAIN s : s[j] = s[i]) = i
    BY <1>5, <2>2
  <2> QED
    BY <2>1, <2>3
<1>8. address(None) = None
  <2>1. None \notin Range(s)
    <3>1. \A i \in DOMAIN s : s[i] \in Nat
      BY <1>5
    <3> QED
      BY <3>1, FilterEditorAssumption DEF Range
  <2> QED
    BY <2>1
<1> DEFINE addr == [n \in Addresses \cup {None} |-> address(n)]
<1>21. /\ \A i \in 1..N : addr[s[i]] = i
       /\ addr[None] = None
  <2>1. \A i \in 1..N : s[i] \in Addresses
    BY <1>5 DEF Addresses
  <2> HIDE DEF address
  <2> QED
    BY <1>7, <1>8, <2>1
<1>9. \A i \in 1..N : /\ ns[s[i]] \in NodeRecords
                      /\ ns[s[i]].children \in Seq(Addresses)
                      /\ Len(ns[s[i]].children) \in Nat /\ DOMAIN ns[s[i]].children = 1..Len(ns[s[i]].children)
  BY <1>1, <1>5, NodeIs
<1>22. \A i \in 1..N :
         R[i] = [kind |-> ns[s[i]].kind, test |-> ns[s[i]].test, parent |-> addr[ns[s[i]].parent],
                 children |-> [c \in DOMAIN ns[s[i]].children |-> addr[ns[s[i]].children[c]]]]
  <2> TAKE i \in 1..N
  <2> DEFINE node == ns[s[i]]
             up == address(node.parent)
             down == [c \in DOMAIN node.children |-> address(node.children[c])]
  <2>1. R[i] = [node EXCEPT !.parent = up, !.children = down]
    BY <1>3, <1>5
  <2>2. /\ node = [kind |-> node.kind, test |-> node.test, parent |-> node.parent, children |-> node.children]
        /\ node.parent \in Addresses \cup {None} /\ \A c \in DOMAIN node.children : node.children[c] \in Addresses
    BY <1>9, NodeIs
  <2> HIDE DEF address
  <2>3. up = addr[node.parent]
    BY <2>2
  <2>4. down = [c \in DOMAIN node.children |-> addr[node.children[c]]]
    <3>1. \A c \in DOMAIN node.children : address(node.children[c]) = addr[node.children[c]]
      BY <2>2
    <3> HIDE DEF addr
    <3> QED
      BY <3>1
  <2>5. [node EXCEPT !.parent = up, !.children = down] = [kind |-> node.kind, test |-> node.test, parent |-> up, children |-> down]
    <3>1. node \in NodeRecords
      BY <1>9
    <3> HIDE DEF node, up, down
    <3> QED
      BY <3>1, Readdressed
  <2> HIDE DEF node, up, down
  <2> QED
    BY <2>1, <2>3, <2>4, <2>5 DEF node
<1> HIDE DEF address, addr
<1>10. \A i \in 1..N : \A c \in DOMAIN ns[s[i]].children :
         /\ addr[ns[s[i]].children[c]] \in 1..N /\ s[addr[ns[s[i]].children[c]]] = ns[s[i]].children[c]
         /\ i < addr[ns[s[i]].children[c]]
  <2> TAKE i \in 1..N
  <2> TAKE c \in DOMAIN ns[s[i]].children
  <2>1. PICK j \in (i + 1)..Len(s) : s[j] = ns[s[i]].children[c]
    BY <1>4, <1>5
  <2>2. j \in 1..N /\ i < j
    BY <1>5
  <2>3. addr[ns[s[i]].children[c]] = j
    BY <1>21, <2>1, <2>2
  <2> QED
    BY <2>1, <2>2, <2>3
<1>11. \A i \in 1..N : /\ R[i].kind = ns[s[i]].kind /\ R[i].test = ns[s[i]].test
                       /\ R[i].parent = addr[ns[s[i]].parent]
                       /\ R[i].children = [c \in DOMAIN ns[s[i]].children |-> addr[ns[s[i]].children[c]]]
                       /\ R[i] = [kind |-> R[i].kind, test |-> R[i].test, parent |-> R[i].parent, children |-> R[i].children]
  <2> TAKE i \in 1..N
  <2> DEFINE k == ns[s[i]].kind
             t == ns[s[i]].test
             p == addr[ns[s[i]].parent]
             ch == [c \in DOMAIN ns[s[i]].children |-> addr[ns[s[i]].children[c]]]
  <2>1. R[i] = [kind |-> k, test |-> t, parent |-> p, children |-> ch]
    BY <1>22
  <2> HIDE DEF k, t, p, ch
  <2>2. R[i].kind = k /\ R[i].test = t /\ R[i].parent = p /\ R[i].children = ch
    BY <2>1
  <2> QED
    BY <2>1, <2>2 DEF k, t, p, ch
<1>23. \A i \in 1..N : \A l \in 1..N : ns[s[i]].parent = s[l] => R[i].parent = l
  <2> TAKE i \in 1..N
  <2> TAKE l \in 1..N
  <2> HAVE ns[s[i]].parent = s[l]
  <2>1. R[i].parent = addr[ns[s[i]].parent]
    BY <1>11
  <2>2. addr[s[l]] = l
    BY <1>21
  <2> QED
    BY <2>1, <2>2
<1>24. \A i \in 1..N : \A c \in DOMAIN ns[s[i]].children : \A j \in 1..N : ns[s[i]].children[c] = s[j] => R[i].children[c] = j
  <2> TAKE i \in 1..N
  <2> TAKE c \in DOMAIN ns[s[i]].children
  <2> TAKE j \in 1..N
  <2> HAVE ns[s[i]].children[c] = s[j]
  <2>1. R[i].children = [x \in DOMAIN ns[s[i]].children |-> addr[ns[s[i]].children[x]]]
    BY <1>11
  <2>2. addr[s[j]] = j
    BY <1>21
  <2> QED
    BY <2>1, <2>2
<1>12. R[1].parent = None
  BY <1>1, <1>4, <1>5, <1>11, <1>21
<1>13. \A i \in 2..N : /\ R[i].parent \in 1..(i - 1) /\ R[i].parent \in 1..N /\ s[R[i].parent] = ns[s[i]].parent
                       /\ CanHaveChildren(R[R[i].parent])
  <2> TAKE i \in 2..N
  <2>1. PICK l \in 1..(i - 1) : ns[s[i]].parent = s[l]
    BY <1>4, <1>5
  <2>2. l \in 1..N /\ i \in 1..N
    BY <1>5
  <2>3. R[i].parent = l
    BY <1>23, <2>1, <2>2
  <2>4. PICK k \in DOMAIN ns[ns[s[i]].parent].children : ns[ns[s[i]].parent].children[k] = s[i]
    BY <1>4, <1>5
  <2>5. CanHaveChildren(ns[s[l]])
    <3>1. ns[s[l]].children # <<>>
      <4>1. k \in DOMAIN ns[s[l]].children
        BY <2>1, <2>4
      <4> QED
        BY <1>9, <2>2, <4>1
    <3> QED
      BY <1>1, <1>5, <2>2, <3>1
  <2>6. CanHaveChildren(R[l])
    BY <1>11, <2>2, <2>5 DEF CanHaveChildren
  <2> QED
    BY <2>1, <2>2, <2>3, <2>6
<1>14. R \in [1..N -> NodeRecords]
  <2>1. \A i \in 1..N : R[i] \in NodeRecords
    <3> TAKE i \in 1..N
    <3>1. R[i].kind \in Combinators \cup {"comparison"} /\ R[i].test \in AllTests
      <4>1. ns[s[i]].kind \in Combinators \cup {"comparison"} /\ ns[s[i]].test \in AllTests
        BY <1>9, NodeIs
      <4>2. R[i].kind = ns[s[i]].kind /\ R[i].test = ns[s[i]].test
        BY <1>11
      <4> QED
        BY <4>1, <4>2
    <3>2. R[i].parent \in Addresses \cup {None}
      <4>1. i = 1 \/ i \in 2..N
        BY <1>5
      <4>2. \A x \in 1..N : x \in Addresses
        BY <1>5, <1>6, FilterEditorAssumption DEF Addresses
      <4> QED
        BY <1>12, <1>13, <4>1, <4>2
    <3>3. R[i].children \in Seq(Addresses)
      <4> DEFINE ch == ns[s[i]].children
      <4>1. Len(ch) \in Nat /\ DOMAIN ch = 1..Len(ch)
        BY <1>9
      <4>2. \A c \in DOMAIN ch : addr[ch[c]] \in Addresses
        <5>1. \A x \in 1..N : x \in Addresses
          BY <1>5, <1>6, FilterEditorAssumption DEF Addresses
        <5> QED
          BY <1>10, <5>1
      <4>3. R[i].children = [c \in DOMAIN ch |-> addr[ch[c]]]
        BY <1>11
      <4> HIDE DEF ch
      <4>4. R[i].children \in [1..Len(ch) -> Addresses]
        BY <4>1, <4>2, <4>3
      <4> QED
        BY <4>1, <4>4, IsASeq
    <3> DEFINE k == R[i].kind
               t == R[i].test
               p == R[i].parent
               ch == R[i].children
    <3>4. R[i] = [kind |-> k, test |-> t, parent |-> p, children |-> ch]
      BY <1>11
    <3>5. k \in Combinators \cup {"comparison"} /\ t \in AllTests /\ p \in Addresses \cup {None} /\ ch \in Seq(Addresses)
      BY <3>1, <3>2, <3>3
    <3> HIDE DEF k, t, p, ch
    <3> QED
      BY <3>4, <3>5 DEF NodeRecords
  <2>2. R = [i \in 1..N |-> R[i]]
    BY <1>3, <1>5
  <2> QED
    BY <2>1, <2>2
<1>15. \A i \in 1..N : /\ DOMAIN R[i].children = DOMAIN ns[s[i]].children /\ Len(R[i].children) = Len(ns[s[i]].children)
                       /\ \A c \in DOMAIN ns[s[i]].children : R[i].children[c] \in 1..N /\ s[R[i].children[c]] = ns[s[i]].children[c]
  <2> TAKE i \in 1..N
  <2>1. DOMAIN R[i].children = DOMAIN ns[s[i]].children /\ \A c \in DOMAIN ns[s[i]].children : R[i].children[c] = addr[ns[s[i]].children[c]]
    <3>1. R[i].children = [c \in DOMAIN ns[s[i]].children |-> addr[ns[s[i]].children[c]]]
      BY <1>11
    <3> QED
      BY <3>1
  <2>2. Len(R[i].children) = Len(ns[s[i]].children)
    <3>1. R[i].children \in Seq(Addresses)
      BY <1>14, NodeIs
    <3> QED
      BY <1>9, <2>1, <3>1
  <2> QED
    BY <1>10, <2>1, <2>2, ZenonT(30)
<1>16. \A i, j \in 2..N : R[i].parent < j /\ j < i => R[i].parent <= R[j].parent
  <2> SUFFICES ASSUME NEW i \in 2..N, NEW j \in 2..N, R[i].parent < j, j < i
               PROVE  R[i].parent <= R[j].parent
    OBVIOUS
  <2> DEFINE l == R[i].parent
  <2>1. l \in 1..N /\ s[l] = ns[s[i]].parent /\ i \in 1..N /\ j \in 1..N /\ l < j
    BY <1>5, <1>13
  <2> HIDE DEF l
  <2>2. l \in DOMAIN s /\ i \in DOMAIN s /\ j \in DOMAIN s
    BY <1>5, <2>1
  <2>3. PICK m \in l..(j - 1) : ns[s[j]].parent = s[m]
    <3>1. \A a, b, c \in DOMAIN s : a < b /\ b < c /\ ns[s[c]].parent = s[a] => \E m \in a..(b - 1) : ns[s[b]].parent = s[m]
      BY <1>4
    <3> QED
      BY <2>1, <2>2, <3>1
  <2>4. m \in 1..N /\ l <= m
    BY <1>5, <2>1
  <2>5. R[j].parent = m
    BY <1>23, <2>1, <2>3, <2>4
  <2> QED
    BY <2>4, <2>5 DEF l
<1>17. \A n \in 1..N : \A k, o \in DOMAIN R[n].children : k < o => R[n].children[k] < R[n].children[o]
  <2> SUFFICES ASSUME NEW n \in 1..N, NEW k \in DOMAIN R[n].children, NEW o \in DOMAIN R[n].children, k < o
               PROVE  R[n].children[k] < R[n].children[o]
    OBVIOUS
  <2>1. k \in DOMAIN ns[s[n]].children /\ o \in DOMAIN ns[s[n]].children
    BY <1>15
  <2> DEFINE i == R[n].children[k]
             j == R[n].children[o]
  <2>2. i \in 1..N /\ j \in 1..N /\ s[i] = ns[s[n]].children[k] /\ s[j] = ns[s[n]].children[o]
    BY <1>15, <2>1
  <2> HIDE DEF i, j
  <2>3. i < j
    <3>1. \A l, a, b \in DOMAIN s : \A x, y \in DOMAIN ns[s[l]].children :
            x < y /\ s[a] = ns[s[l]].children[x] /\ s[b] = ns[s[l]].children[y] => a < b
      BY <1>4
    <3>2. n \in DOMAIN s /\ i \in DOMAIN s /\ j \in DOMAIN s
      BY <1>5, <2>2
    <3> QED
      BY <2>1, <2>2, <3>1, <3>2
  <2> QED
    BY <2>3 DEF i, j
<1>18. \A n \in 1..N : Range(R[n].children) = {c \in 2..N : R[c].parent = n}
  <2> TAKE n \in 1..N
  <2>1. ASSUME NEW k \in DOMAIN R[n].children
        PROVE  R[n].children[k] \in 2..N /\ R[R[n].children[k]].parent = n
    <3> DEFINE c == R[n].children[k]
    <3>1. k \in DOMAIN ns[s[n]].children
      BY <1>15, <2>1
    <3>2. c \in 1..N /\ s[c] = ns[s[n]].children[k]
      BY <1>15, <3>1
    <3> HIDE DEF c
    <3>3. ns[s[c]].parent = s[n]
      BY <1>1, <1>5, <3>1, <3>2
    <3>4. R[c].parent = n
      BY <1>23, <2>1, <3>2, <3>3
    <3>5. c # 1
      <4>1. s[n] # None
        BY <1>5, FilterEditorAssumption
      <4> QED
        BY <1>1, <1>4, <3>3, <4>1
    <3> QED
      BY <1>5, <3>2, <3>4, <3>5 DEF c
  <2>2. ASSUME NEW c \in 2..N, R[c].parent = n
        PROVE  \E k \in DOMAIN R[n].children : R[n].children[k] = c
    <3>1. s[n] = ns[s[c]].parent /\ c \in 1..N
      BY <1>5, <1>13, <2>2
    <3>2. PICK k \in DOMAIN ns[s[n]].children : ns[s[n]].children[k] = s[c]
      BY <1>4, <1>5, <2>2, <3>1
    <3>3. R[n].children[k] = c
      BY <1>24, <2>2, <3>1, <3>2
    <3> QED
      BY <1>15, <3>2, <3>3
  <2> QED
    BY <2>1, <2>2 DEF Range
<1>19. NumberedTo(R, N)
  <2>1. N \in 1..MaxNodes
    BY <1>5, <1>6, FilterEditorAssumption
  <2>2. \A i \in 2..N : R[i].parent \in 1..(i - 1) /\ CanHaveChildren(R[R[i].parent])
    BY <1>13
  <2> QED
    BY <1>12, <1>14, <1>16, <1>17, <1>18, <2>1, <2>2, Zenon DEF NumberedTo
<1>20. Renumbers(ns, L, R, s)
  BY <1>5, <1>11, <1>15, ZenonT(30) DEF Renumbers
<1> QED
  BY <1>4, <1>19, <1>20 DEF s, R, N

-----------------------------------------------------------------------------
(* The rows of a tree, and the tree that is made of rows. *)

RowRecords == [parent : Addresses \cup {-1}, kind : Combinators \cup {"comparison"}, test : AllTests]

(* Rows that the loader makes a tree of, and which are in the order that this tree is saved in. *)
RowsRight(rs) ==
  /\ rs \in Seq(RowRecords) /\ Len(rs) <= MaxNodes
  /\ Len(rs) >= 1 => rs[1].parent = -1
  /\ \A i \in 2..Len(rs) : rs[i].parent \in 1..(i - 1) /\ rs[rs[i].parent].kind \in Combinators
  /\ \A i, j \in 2..Len(rs) : rs[i].parent < j /\ j < i => rs[i].parent <= rs[j].parent

(* The children of a node are the rows that name it, in their order. *)
LEMMA LoadedChildrenAre ==
  ASSUME NEW rs \in Seq(RowRecords), NEW n \in Nat
  PROVE  /\ LoadedChildren(rs, n) \in Seq(1..Len(rs))
         /\ \A k, o \in DOMAIN LoadedChildren(rs, n) : k < o => LoadedChildren(rs, n)[k] < LoadedChildren(rs, n)[o]
         /\ Range(LoadedChildren(rs, n)) = {c \in 1..Len(rs) : rs[c].parent = n}
<1> DEFINE N == Len(rs)
           V == Seq(1..N)
           F(f) == [i \in 0..N |-> IF i = 0 THEN <<>> ELSE IF rs[i].parent = n THEN Append(f[i - 1], i) ELSE f[i - 1]]
           added == CHOOSE f : f = F(f)
           step == [x \in (1..N) \X V |-> IF rs[x[1]].parent = n THEN Append(x[2], x[1]) ELSE x[2]]
<1>1. N \in Nat /\ LoadedChildren(rs, n) = added[N]
  BY DEF LoadedChildren
<1> HIDE DEF N
<1>2. \E f : f = F(f)
  <2>1. \A k \in 1..N, v \in V : Append(v, k) \in V
    OBVIOUS
  <2>2. <<>> \in V
    OBVIOUS
  <2> HIDE DEF V
  <2>3. step \in [(1..N) \X V -> V] /\ \A k \in 1..N, v \in V : step[<<k, v>>] = IF rs[k].parent = n THEN Append(v, k) ELSE v
    BY <2>1
  <2>4. 0 \in Int /\ N \in Int /\ 0 <= N /\ (0 + 1)..N = 1..N
    BY <1>1
  <2> HIDE DEF step
  <2>5. Recursion(V, 0, N, <<>>, step)
    BY <2>2, <2>3, <2>4 DEF Recursion
  <2>6. PICK f : Follows(f, V, 0, N, <<>>, step)
    BY <2>5, RecursionExists
  <2>7. f \in [0..N -> V] /\ \A k \in 0..N : f[k] = IF k = 0 THEN <<>> ELSE step[<<k, f[k - 1]>>]
    BY <2>6 DEF Follows
  <2>8. \A k \in 0..N : k # 0 => k \in 1..N /\ k - 1 \in 0..N
    BY <1>1
  <2>9. \A k \in 0..N : f[k] = IF k = 0 THEN <<>> ELSE IF rs[k].parent = n THEN Append(f[k - 1], k) ELSE f[k - 1]
    <3> TAKE k \in 0..N
    <3>1. k = 0 => f[k] = <<>>
      BY <2>7
    <3>2. ASSUME k # 0
          PROVE  f[k] = IF rs[k].parent = n THEN Append(f[k - 1], k) ELSE f[k - 1]
      <4>1. k \in 1..N /\ f[k - 1] \in V /\ f[k] = step[<<k, f[k - 1]>>]
        BY <2>7, <2>8, <3>2
      <4> QED
        BY <2>3, <4>1
    <3> QED
      BY <3>1, <3>2
  <2>10. f = F(f)
    BY <2>7, <2>9
  <2> QED
    BY <2>10
<1>3. added = F(added)
  BY <1>2
<1> HIDE DEF added
<1>4. added[0] = <<>> /\ \A k \in 1..N : added[k] = IF rs[k].parent = n THEN Append(added[k - 1], k) ELSE added[k - 1]
  <2>1. 0 \in 0..N /\ \A k \in 1..N : k \in 0..N /\ k # 0
    BY <1>1
  <2> QED
    BY <1>3, <2>1
<1> DEFINE Ok(a, m) == /\ a \in Seq(1..N) /\ \A k \in DOMAIN a : a[k] <= m
                       /\ \A k, o \in DOMAIN a : k < o => a[k] < a[o]
                       /\ \A c \in 1..m : rs[c].parent = n => \E k \in DOMAIN a : a[k] = c
                       /\ \A k \in DOMAIN a : rs[a[k]].parent = n
           P == {m \in 0..N : Ok(added[m], m)}
<1>5. 0 \in P
  <2>1. <<>> \in Seq(1..N) /\ DOMAIN <<>> = {} /\ 1..0 = {}
    OBVIOUS
  <2>2. Ok(<<>>, 0)
    BY <2>1
  <2> HIDE DEF Ok
  <2> QED
    BY <1>1, <1>4, <2>2
<1>6. ASSUME NEW m \in 1..N, m - 1 \in P
      PROVE  m \in P
  <2>1. m \in 0..N /\ m \in Nat /\ m - 1 \in Nat /\ \A c \in 1..m : c \in 1..(m - 1) \/ c = m
    BY <1>1
  <2> DEFINE a == added[m - 1]
             b == added[m]
  <2>2. Ok(a, m - 1)
    BY <1>6
  <2>3. Len(a) \in Nat /\ DOMAIN a = 1..Len(a) /\ \A k \in 1..Len(a) : a[k] \in 1..N
    <3>1. a \in Seq(1..N)
      BY <2>2
    <3> HIDE DEF a
    <3>2. Len(a) \in Nat /\ a \in [1..Len(a) -> 1..N] /\ DOMAIN a = 1..Len(a)
      BY <3>1, LenProperties
    <3> QED
      BY <3>2
  <2>4. CASE rs[m].parent = n
    <3>1. b = Append(a, m)
      BY <1>4, <2>4
    <3> HIDE DEF a, b
    <3>2. /\ b \in Seq(1..N) /\ Len(b) = Len(a) + 1 /\ DOMAIN b = 1..(Len(a) + 1)
          /\ b[Len(a) + 1] = m /\ \A k \in 1..Len(a) : b[k] = a[k]
      BY <2>2, <2>3, <3>1
    <3>3. \A k \in DOMAIN b : (k \in 1..Len(a) /\ b[k] = a[k]) \/ (k = Len(a) + 1 /\ b[k] = m)
      BY <2>3, <3>2
    <3>4. \A k \in 1..Len(a) : a[k] <= m - 1 /\ a[k] < m /\ rs[a[k]].parent = n
      BY <1>1, <2>1, <2>2, <2>3
    <3>5. \A k \in DOMAIN b : b[k] <= m /\ rs[b[k]].parent = n
      BY <1>1, <2>1, <2>3, <2>4, <3>3, <3>4
    <3>6. \A k, o \in DOMAIN b : k < o => b[k] < b[o]
      BY <2>2, <2>3, <3>3, <3>4
    <3>7. \A c \in 1..m : rs[c].parent = n => \E k \in DOMAIN b : b[k] = c
      <4> TAKE c \in 1..m
      <4> HAVE rs[c].parent = n
      <4>1. CASE c = m
        BY <2>3, <3>2, <4>1
      <4>2. CASE c \in 1..(m - 1)
        <5>1. PICK k \in DOMAIN a : a[k] = c
          BY <2>2, <4>2
        <5> QED
          BY <2>3, <3>2, <5>1
      <4> QED
        BY <2>1, <4>1, <4>2
    <3>8. Ok(b, m)
      BY <3>2, <3>5, <3>6, <3>7
    <3> HIDE DEF Ok
    <3> QED
      BY <2>1, <3>8 DEF b
  <2>5. CASE rs[m].parent # n
    <3>1. b = a
      BY <1>4, <2>5
    <3> HIDE DEF a, b
    <3>2. \A k \in DOMAIN a : a[k] <= m
      BY <2>1, <2>2, <2>3
    <3>3. Ok(a, m)
      BY <2>1, <2>2, <2>5, <3>2
    <3> HIDE DEF Ok
    <3> QED
      BY <2>1, <3>1, <3>3 DEF b
  <2> QED
    BY <2>4, <2>5
<1> HIDE DEF P
<1>7. \A m \in 0..N : m \in P
  BY <1>1, <1>5, <1>6, CountInduction
<1> DEFINE a == added[N]
<1>8. Ok(a, N)
  BY <1>1, <1>7 DEF P
<1> HIDE DEF a
<1>9. Range(a) = {c \in 1..N : rs[c].parent = n}
  <2>1. \A k \in DOMAIN a : a[k] \in 1..N
    <3>1. a \in Seq(1..N)
      BY <1>8
    <3>2. a \in [1..Len(a) -> 1..N] /\ DOMAIN a = 1..Len(a)
      BY <3>1, LenProperties
    <3> QED
      BY <3>2
  <2> QED
    BY <1>8, <2>1 DEF Range
<1> QED
  BY <1>1, <1>8, <1>9 DEF a, N

(* The rows of a tree whose nodes are numbered. *)
LEMMA NumberedRows ==
  ASSUME NEW ns, NEW N, NumberedTo(ns, N)
  PROVE  /\ RowsOf(ns, 1) = [i \in 1..N |-> [parent |-> IF i = 1 THEN -1 ELSE ns[i].parent, kind |-> ns[i].kind, test |-> ns[i].test]]
         /\ RowsRight(RowsOf(ns, 1)) /\ Len(RowsOf(ns, 1)) = N /\ RowsOf(ns, 1) # <<>>
<1> DEFINE order == PreOrder(ns, 1)
           rowId(n) == IF n = None THEN -1 ELSE CHOOSE i \in DOMAIN order : order[i] = n
           rs == [i \in 1..N |-> [parent |-> IF i = 1 THEN -1 ELSE ns[i].parent, kind |-> ns[i].kind, test |-> ns[i].test]]
<1>1. RowsOf(ns, 1) = [i \in DOMAIN order |-> [parent |-> rowId(ns[order[i]].parent), kind |-> ns[order[i]].kind, test |-> ns[order[i]].test]]
  BY DEF RowsOf
<1>2. order = [i \in 1..N |-> i]
  BY NumberedOrder
<1>3. /\ N \in Nat /\ N >= 1 /\ N <= MaxNodes /\ ns \in [1..N -> NodeRecords] /\ ns[1].parent = None
      /\ \A i \in 2..N : ns[i].parent \in 1..(i - 1) /\ CanHaveChildren(ns[ns[i].parent])
      /\ \A i, j \in 2..N : ns[i].parent < j /\ j < i => ns[i].parent <= ns[j].parent
  BY FilterEditorAssumption DEF NumberedTo
<1> HIDE DEF order
<1>4. DOMAIN order = 1..N /\ \A i \in 1..N : order[i] = i
  BY <1>2
<1>5. \A i \in 1..N : rowId(ns[i].parent) = IF i = 1 THEN -1 ELSE ns[i].parent
  <2> TAKE i \in 1..N
  <2>1. CASE i = 1
    BY <1>3, <2>1
  <2>2. CASE i # 1
    <3> DEFINE p == ns[i].parent
    <3>1. i \in 2..N
      BY <1>3, <2>2
    <3>2. p \in 1..N /\ p # None
      BY <1>3, <3>1, FilterEditorAssumption
    <3> HIDE DEF p
    <3>3. (CHOOSE j \in DOMAIN order : order[j] = p) = p
      BY <1>4, <3>2
    <3>4. rowId(p) = p
      BY <3>2, <3>3
    <3> QED
      BY <2>2, <3>4 DEF p
  <2> QED
    BY <2>1, <2>2
<1> HIDE DEF rowId
<1>6. RowsOf(ns, 1) = rs
  <2>1. \A i \in 1..N : [parent |-> rowId(ns[order[i]].parent), kind |-> ns[order[i]].kind, test |-> ns[order[i]].test]
                        = [parent |-> IF i = 1 THEN -1 ELSE ns[i].parent, kind |-> ns[i].kind, test |-> ns[i].test]
    <3> TAKE i \in 1..N
    <3>1. order[i] = i /\ rowId(ns[i].parent) = IF i = 1 THEN -1 ELSE ns[i].parent
      BY <1>4, <1>5
    <3> DEFINE a == rowId(ns[i].parent)
               b == IF i = 1 THEN -1 ELSE ns[i].parent
    <3>2. a = b
      BY <3>1
    <3> HIDE DEF a, b
    <3>3. [parent |-> a, kind |-> ns[i].kind, test |-> ns[i].test] = [parent |-> b, kind |-> ns[i].kind, test |-> ns[i].test]
      BY <3>2
    <3> QED
      BY <3>1, <3>3 DEF a, b
  <2> QED
    BY <1>1, <1>4, <2>1
<1>7. \A i \in 1..N : /\ rs[i].parent = (IF i = 1 THEN -1 ELSE ns[i].parent) /\ rs[i].kind = ns[i].kind
                      /\ rs[i] \in RowRecords
  <2> TAKE i \in 1..N
  <2>1. (IF i = 1 THEN -1 ELSE ns[i].parent) \in Addresses \cup {-1}
    <3>1. i = 1 \/ i \in 2..N
      BY <1>3
    <3>2. CASE i # 1
      <4>1. i \in 2..N /\ ns[i].parent \in 1..(i - 1)
        BY <1>3, <3>1, <3>2
      <4>2. ns[i].parent \in 1..MaxNodes
        BY <1>3, <4>1, FilterEditorAssumption
      <4> QED
        BY <3>2, <4>2 DEF Addresses
    <3> QED
      BY <3>2
  <2>2. ns[i].kind \in Combinators \cup {"comparison"} /\ ns[i].test \in AllTests
    BY <1>3, NodeIs
  <2>3. rs[i] = [parent |-> IF i = 1 THEN -1 ELSE ns[i].parent, kind |-> ns[i].kind, test |-> ns[i].test]
    OBVIOUS
  <2> DEFINE p == IF i = 1 THEN -1 ELSE ns[i].parent
             k == ns[i].kind
             t == ns[i].test
  <2> HIDE DEF rs, p, k, t
  <2>4. rs[i] = [parent |-> p, kind |-> k, test |-> t]
    BY <2>3 DEF p, k, t
  <2>5. p \in Addresses \cup {-1} /\ k \in Combinators \cup {"comparison"} /\ t \in AllTests
    BY <2>1, <2>2 DEF p, k, t
  <2>6. rs[i].parent = p /\ rs[i].kind = k /\ rs[i] \in RowRecords
    BY <2>4, <2>5 DEF RowRecords
  <2> QED
    BY <2>6 DEF p, k
<1>8. rs \in Seq(RowRecords) /\ Len(rs) = N /\ DOMAIN rs = 1..N
  <2>1. DOMAIN rs = 1..N /\ rs = [i \in 1..N |-> rs[i]]
    OBVIOUS
  <2> HIDE DEF rs
  <2>2. rs \in [1..N -> RowRecords]
    BY <1>7, <2>1
  <2>3. rs \in Seq(RowRecords)
    BY <1>3, <2>2
  <2> QED
    BY <1>3, <2>1, <2>3
<1> HIDE DEF rs
<1>9. RowsRight(rs)
  <2>1. Len(rs) >= 1 => rs[1].parent = -1
    BY <1>3, <1>7
  <2>2. \A i \in 2..N : rs[i].parent = ns[i].parent /\ i \in 1..N
    BY <1>3, <1>7
  <2>3. \A i \in 2..N : rs[i].parent \in 1..(i - 1) /\ rs[rs[i].parent].kind \in Combinators
    <3> TAKE i \in 2..N
    <3> DEFINE p == ns[i].parent
    <3>1. p \in 1..(i - 1) /\ CanHaveChildren(ns[p]) /\ rs[i].parent = p
      BY <1>3, <2>2
    <3> HIDE DEF p
    <3>2. p \in 1..N
      BY <1>3, <3>1
    <3> QED
      BY <1>7, <3>1, <3>2 DEF CanHaveChildren
  <2>4. \A i, j \in 2..N : rs[i].parent < j /\ j < i => rs[i].parent <= rs[j].parent
    BY <1>3, <2>2
  <2> QED
    BY <1>3, <1>8, <2>1, <2>3, <2>4 DEF RowsRight
<1>10. rs # <<>>
  BY <1>3, <1>8
<1> QED
  BY <1>6, <1>8, <1>9, <1>10 DEF rs

(* A new filter consists of one numbered node. *)
LEMMA NoopNumbered ==
  NumberedTo(NoopNodes, 1) /\ ~CanHaveChildren(NoopNodes[1])
<1>1. NoopNodes = [i \in 1..1 |-> Leaf(LengthAtLeast0)]
  <2>1. \A x : <<x>> = [i \in 1..1 |-> x]
    OBVIOUS
  <2> QED
    BY <2>1 DEF NoopNodes
<1> DEFINE node == Leaf(LengthAtLeast0)
           t == LengthAtLeast0
<1>2. node = [kind |-> "comparison", test |-> t, parent |-> None, children |-> <<>>]
  BY DEF Leaf
<1>3. t \in AllTests
  BY DEF AllTests
<1> HIDE DEF t
<1>4. node.kind = "comparison" /\ node.parent = None /\ node.children = <<>> /\ node \in NodeRecords
  <2>1. <<>> \in Seq(Addresses)
    OBVIOUS
  <2> QED
    BY <1>2, <1>3, <2>1 DEF NodeRecords
<1> HIDE DEF node
<1>5. 1 \in 1..MaxNodes /\ 2..1 = {} /\ \A n \in 1..1 : n = 1
  BY FilterEditorAssumption
<1>6. NoopNodes[1] = node /\ NoopNodes \in [1..1 -> NodeRecords]
  BY <1>1, <1>4 DEF node
<1>7. ~CanHaveChildren(node)
  BY <1>4 DEF CanHaveChildren, Combinators
<1>8. Range(node.children) = {} /\ DOMAIN node.children = {}
  BY <1>4 DEF Range
<1>9. NumberedTo(NoopNodes, 1)
  BY <1>4, <1>5, <1>6, <1>8 DEF NumberedTo
<1> QED
  BY <1>6, <1>7, <1>9

(* What rows are loaded as: numbered nodes, which are saved as the same rows. *)
LEMMA LoadedNumbered ==
  ASSUME NEW rs, RowsRight(rs), rs # <<>>
  PROVE  /\ NumberedTo(LoadedNodes(rs), Len(rs))
         /\ LoadedRoot(rs) = 1
         /\ RowsOf(LoadedNodes(rs), 1) = rs
<1> DEFINE N == Len(rs)
           ns == LoadedNodes(rs)
           up(n) == IF rs[n].parent = -1 THEN None ELSE rs[n].parent
<1>1. /\ rs \in Seq(RowRecords) /\ N <= MaxNodes /\ N \in Nat /\ N >= 1 /\ DOMAIN rs = 1..N
      /\ rs[1].parent = -1
      /\ \A i \in 2..N : rs[i].parent \in 1..(i - 1) /\ rs[rs[i].parent].kind \in Combinators
      /\ \A i, j \in 2..N : rs[i].parent < j /\ j < i => rs[i].parent <= rs[j].parent
  <2>1. rs \in Seq(RowRecords)
    BY DEF RowsRight
  <2>2. N \in Nat /\ N >= 1 /\ DOMAIN rs = 1..N
    BY <2>1
  <2> QED
    BY <2>1, <2>2 DEF RowsRight
<1>2. ns = [n \in 1..N |-> [kind |-> rs[n].kind, test |-> rs[n].test, parent |-> up(n), children |-> LoadedChildren(rs, n)]]
  BY <1>1 DEF LoadedNodes
<1>3. \A n \in 1..N : /\ rs[n] \in RowRecords
                      /\ rs[n].kind \in Combinators \cup {"comparison"} /\ rs[n].test \in AllTests
                      /\ rs[n] = [parent |-> rs[n].parent, kind |-> rs[n].kind, test |-> rs[n].test]
  <2>1. \A n \in 1..N : rs[n] \in RowRecords
    BY <1>1
  <2> QED
    BY <2>1 DEF RowRecords
<1> HIDE DEF ns, N
<1>4. LoadedRoot(rs) = 1
  <2>1. \A i \in 1..N : rs[i].parent = -1 => i = 1
    <3> SUFFICES ASSUME NEW i \in 1..N, i # 1
                 PROVE  rs[i].parent # -1
      OBVIOUS
    <3>1. i \in 2..N
      BY <1>1
    <3>2. rs[i].parent \in 1..(i - 1)
      BY <1>1, <3>1
    <3> QED
      BY <3>1, <3>2
  <2>2. 1 \in 1..N
    BY <1>1
  <2>3. (CHOOSE n \in DOMAIN rs : rs[n].parent = -1) = 1
    BY <1>1, <2>1, <2>2
  <2> QED
    BY <2>3 DEF LoadedRoot
<1>5. \A n \in 1..N : /\ LoadedChildren(rs, n) \in Seq(1..N)
                      /\ \A k, o \in DOMAIN LoadedChildren(rs, n) : k < o => LoadedChildren(rs, n)[k] < LoadedChildren(rs, n)[o]
                      /\ Range(LoadedChildren(rs, n)) = {c \in 1..N : rs[c].parent = n}
  <2> TAKE n \in 1..N
  <2>1. n \in Nat
    BY <1>1
  <2> QED
    BY <1>1, <2>1, LoadedChildrenAre DEF N
<1>6. up(1) = None /\ \A i \in 2..N : up(i) = rs[i].parent
  <2>1. up(1) = None
    BY <1>1
  <2>2. \A i \in 2..N : rs[i].parent # -1
    <3> TAKE i \in 2..N
    <3>1. rs[i].parent \in 1..(i - 1)
      BY <1>1
    <3> QED
      BY <3>1
  <2> QED
    BY <2>1, <2>2
<1> HIDE DEF up
<1>7. \A n \in 1..N : /\ ns[n].kind = rs[n].kind /\ ns[n].test = rs[n].test /\ ns[n].parent = up(n)
                      /\ ns[n].children = LoadedChildren(rs, n) /\ ns[n] \in NodeRecords
  <2> TAKE n \in 1..N
  <2> DEFINE k == rs[n].kind
             t == rs[n].test
             p == up(n)
             ch == LoadedChildren(rs, n)
  <2>1. ns[n] = [kind |-> k, test |-> t, parent |-> p, children |-> ch]
    BY <1>2
  <2>2. k \in Combinators \cup {"comparison"} /\ t \in AllTests
    BY <1>3
  <2>3. p \in Addresses \cup {None}
    <3>1. n = 1 \/ n \in 2..N
      BY <1>1
    <3>2. n \in 2..N => rs[n].parent \in 1..MaxNodes
      <4> SUFFICES ASSUME n \in 2..N
                   PROVE  rs[n].parent \in 1..MaxNodes
        OBVIOUS
      <4>1. rs[n].parent \in 1..(n - 1)
        BY <1>1
      <4> QED
        BY <1>1, <4>1, FilterEditorAssumption
    <3> QED
      BY <1>6, <3>1, <3>2 DEF Addresses
  <2>4. ch \in Seq(Addresses)
    <3>1. ch \in Seq(1..N)
      BY <1>5
    <3>2. 1..N \subseteq Addresses
      BY <1>1, FilterEditorAssumption DEF Addresses
    <3> HIDE DEF ch
    <3> QED
      BY <3>1, <3>2, SeqMonotonic
  <2> HIDE DEF k, t, p, ch
  <2>5. ns[n].kind = k /\ ns[n].test = t /\ ns[n].parent = p /\ ns[n].children = ch
    BY <2>1
  <2>6. ns[n] \in NodeRecords
    BY <2>1, <2>2, <2>3, <2>4 DEF NodeRecords
  <2> QED
    BY <2>5, <2>6 DEF k, t, p, ch
<1>8. NumberedTo(ns, N)
  <2>1. N \in 1..MaxNodes
    BY <1>1, FilterEditorAssumption
  <2>2. ns \in [1..N -> NodeRecords]
    <3>1. DOMAIN ns = 1..N /\ ns = [n \in 1..N |-> ns[n]]
      BY <1>2
    <3> QED
      BY <1>7, <3>1
  <2>3. 1 \in 1..N /\ \A i \in 2..N : i \in 1..N /\ ns[i].parent = rs[i].parent
    BY <1>1, <1>6, <1>7
  <2>4. ns[1].parent = None
    BY <1>6, <1>7, <2>3
  <2>5. \A i \in 2..N : ns[i].parent \in 1..(i - 1) /\ CanHaveChildren(ns[ns[i].parent])
    <3> TAKE i \in 2..N
    <3> DEFINE p == rs[i].parent
    <3>1. p \in 1..(i - 1) /\ rs[p].kind \in Combinators /\ ns[i].parent = p
      BY <1>1, <2>3
    <3> HIDE DEF p
    <3>2. p \in 1..N
      BY <1>1, <3>1
    <3> QED
      BY <1>7, <3>1, <3>2 DEF CanHaveChildren
  <2>6. \A i, j \in 2..N : ns[i].parent < j /\ j < i => ns[i].parent <= ns[j].parent
    BY <1>1, <2>3
  <2>7. \A n \in 1..N : \A k, o \in DOMAIN ns[n].children : k < o => ns[n].children[k] < ns[n].children[o]
    <3> TAKE n \in 1..N
    <3>1. ns[n].children = LoadedChildren(rs, n)
      BY <1>7
    <3> QED
      BY <1>5, <3>1
  <2>8. \A n \in 1..N : Range(ns[n].children) = {c \in 2..N : ns[c].parent = n}
    <3> TAKE n \in 1..N
    <3>1. Range(ns[n].children) = {c \in 1..N : rs[c].parent = n}
      <4>1. ns[n].children = LoadedChildren(rs, n)
        BY <1>7
      <4> QED
        BY <1>5, <4>1
    <3>2. \A c \in 1..N : rs[c].parent = n <=> c \in 2..N /\ ns[c].parent = n
      <4> TAKE c \in 1..N
      <4>1. c = 1 \/ c \in 2..N
        BY <1>1
      <4>2. n # -1
        BY <1>1
      <4>3. ~(1 \in 2..N)
        OBVIOUS
      <4> QED
        BY <1>1, <2>3, <4>1, <4>2, <4>3
    <3>3. \A c \in 2..N : c \in 1..N
      BY <2>3
    <3> QED
      BY <3>1, <3>2, <3>3
  <2> QED
    BY <2>1, <2>2, <2>4, <2>5, <2>6, <2>7, <2>8, Zenon DEF NumberedTo
<1>9. RowsOf(ns, 1) = rs
  <2> DEFINE q(i) == [parent |-> IF i = 1 THEN -1 ELSE ns[i].parent, kind |-> ns[i].kind, test |-> ns[i].test]
  <2>1. RowsOf(ns, 1) = [i \in 1..N |-> q(i)]
    BY <1>8, NumberedRows
  <2>2. \A i \in 1..N : q(i) = rs[i]
    <3> TAKE i \in 1..N
    <3>1. (IF i = 1 THEN -1 ELSE ns[i].parent) = rs[i].parent
      <4>1. i = 1 \/ i \in 2..N
        BY <1>1
      <4> QED
        BY <1>1, <1>6, <1>7, <4>1
    <3>2. ns[i].kind = rs[i].kind /\ ns[i].test = rs[i].test
      BY <1>7
    <3> QED
      BY <1>3, <3>1, <3>2
  <2> HIDE DEF q
  <2>3. rs = [i \in 1..N |-> rs[i]]
    BY <1>1
  <2> QED
    BY <2>1, <2>2, <2>3
<1> QED
  BY <1>4, <1>8, <1>9 DEF ns, N

(* Of rows that are right, those inserted so far are. *)
LEMMA RowsPrefix ==
  ASSUME NEW a \in Seq(RowRecords), NEW b \in Seq(RowRecords), RowsRight(a \o b)
  PROVE  RowsRight(a)
<1> DEFINE c == a \o b
<1>1. /\ Len(a) \in Nat /\ Len(b) \in Nat /\ Len(c) = Len(a) + Len(b)
      /\ \A i \in 1..Len(a) : c[i] = a[i]
  BY ConcatProperties
<1>2. /\ Len(c) <= MaxNodes
      /\ Len(c) >= 1 => c[1].parent = -1
      /\ \A i \in 2..Len(c) : c[i].parent \in 1..(i - 1) /\ c[c[i].parent].kind \in Combinators
      /\ \A i, j \in 2..Len(c) : c[i].parent < j /\ j < i => c[i].parent <= c[j].parent
  BY DEF RowsRight
<1> HIDE DEF c
<1>3. Len(a) <= MaxNodes /\ \A i \in 2..Len(a) : i \in 1..Len(a) /\ i \in 2..Len(c) /\ c[i] = a[i]
  BY <1>1, <1>2, FilterEditorAssumption
<1>4. Len(a) >= 1 => a[1].parent = -1
  BY <1>1, <1>2
<1>5. \A i \in 2..Len(a) : a[i].parent \in 1..(i - 1) /\ a[a[i].parent].kind \in Combinators
  <2> TAKE i \in 2..Len(a)
  <2> DEFINE p == a[i].parent
  <2>1. p \in 1..(i - 1) /\ c[p].kind \in Combinators
    BY <1>2, <1>3
  <2> HIDE DEF p
  <2>2. c[p] = a[p]
    BY <1>1, <2>1
  <2> QED
    BY <2>1, <2>2 DEF p
<1>6. \A i, j \in 2..Len(a) : a[i].parent < j /\ j < i => a[i].parent <= a[j].parent
  <2> TAKE i, j \in 2..Len(a)
  <2>1. c[i] = a[i] /\ c[j] = a[j] /\ i \in 2..Len(c) /\ j \in 2..Len(c)
    BY <1>3
  <2>2. c[i].parent < j /\ j < i => c[i].parent <= c[j].parent
    BY <1>2, <2>1
  <2> QED
    BY <2>1, <2>2
<1> QED
  BY <1>3, <1>4, <1>5, <1>6 DEF RowsRight

-----------------------------------------------------------------------------
(* The operations on nodes, by what they make of each node's fields. *)

(* ms are the nodes ns with other links. *)
Relinked(ms, ns, D) ==
  ms \in [D -> NodeRecords] /\ \A m \in D : ms[m].kind = ns[m].kind /\ ms[m].test = ns[m].test

SetParent(ns, c, up) == [ns EXCEPT ![c].parent = up]
SetChildren(ns, p, down) == [ns EXCEPT ![p].children = down]

LEMMA SetParentIs ==
  ASSUME NEW D, NEW ns \in [D -> NodeRecords], NEW c \in D, NEW up \in Addresses \cup {None}
  PROVE  /\ Relinked(SetParent(ns, c, up), ns, D)
         /\ \A m \in D : /\ SetParent(ns, c, up)[m].parent = IF m = c THEN up ELSE ns[m].parent
                         /\ SetParent(ns, c, up)[m].children = ns[m].children
<1> DEFINE ms == SetParent(ns, c, up)
           node == ns[c]
           new == [node EXCEPT !.parent = up]
<1>1. ms = [m \in D |-> IF m = c THEN new ELSE ns[m]]
  BY DEF SetParent
<1>2. /\ node = [kind |-> node.kind, test |-> node.test, parent |-> node.parent, children |-> node.children]
      /\ node.kind \in Combinators \cup {"comparison"} /\ node.test \in AllTests /\ node.children \in Seq(Addresses)
  BY NodeIs
<1> HIDE DEF node, ms
<1>3. DOMAIN new = {"kind", "test", "parent", "children"}
  BY <1>2
<1>4. new.kind = node.kind /\ new.test = node.test /\ new.parent = up /\ new.children = node.children
  BY <1>2
<1> DEFINE b == [kind |-> node.kind, test |-> node.test, parent |-> up, children |-> node.children]
<1>5. new = [x \in DOMAIN new |-> new[x]] /\ b = [x \in DOMAIN b |-> b[x]] /\ DOMAIN b = {"kind", "test", "parent", "children"}
  OBVIOUS
<1>6. \A x \in DOMAIN new : new[x] = b[x]
  <2> HIDE DEF new
  <2> QED
    BY <1>3, <1>4
<1>7. new = b
  <2> HIDE DEF new, b
  <2> QED
    BY <1>3, <1>5, <1>6
<1>8. new \in NodeRecords
  <2> HIDE DEF new
  <2> QED
    BY <1>2, <1>7 DEF NodeRecords
<1> HIDE DEF new
<1>9. ms \in [D -> NodeRecords]
  BY <1>1, <1>8
<1>10. ms[c] = new /\ \A m \in D : m # c => ms[m] = ns[m]
  BY <1>1
<1>11. \A m \in D : /\ ms[m].kind = ns[m].kind /\ ms[m].test = ns[m].test
                    /\ ms[m].parent = (IF m = c THEN up ELSE ns[m].parent) /\ ms[m].children = ns[m].children
  <2> TAKE m \in D
  <2>1. CASE m = c
    BY <1>4, <1>10, <2>1 DEF node
  <2>2. CASE m # c
    BY <1>10, <2>2
  <2> QED
    BY <2>1, <2>2
<1> QED
  BY <1>9, <1>11 DEF ms, Relinked

LEMMA SetChildrenIs ==
  ASSUME NEW D, NEW ns \in [D -> NodeRecords], NEW p \in D, NEW down \in Seq(Addresses)
  PROVE  /\ Relinked(SetChildren(ns, p, down), ns, D)
         /\ \A m \in D : /\ SetChildren(ns, p, down)[m].parent = ns[m].parent
                         /\ SetChildren(ns, p, down)[m].children = IF m = p THEN down ELSE ns[m].children
<1> DEFINE ms == SetChildren(ns, p, down)
           node == ns[p]
           new == [node EXCEPT !.children = down]
<1>1. ms = [m \in D |-> IF m = p THEN new ELSE ns[m]]
  BY DEF SetChildren
<1>2. /\ node = [kind |-> node.kind, test |-> node.test, parent |-> node.parent, children |-> node.children]
      /\ node.kind \in Combinators \cup {"comparison"} /\ node.test \in AllTests /\ node.parent \in Addresses \cup {None}
  BY NodeIs
<1> HIDE DEF node, ms
<1>3. DOMAIN new = {"kind", "test", "parent", "children"}
  BY <1>2
<1>4. new.kind = node.kind /\ new.test = node.test /\ new.parent = node.parent /\ new.children = down
  BY <1>2
<1> DEFINE b == [kind |-> node.kind, test |-> node.test, parent |-> node.parent, children |-> down]
<1>5. new = [x \in DOMAIN new |-> new[x]] /\ b = [x \in DOMAIN b |-> b[x]] /\ DOMAIN b = {"kind", "test", "parent", "children"}
  OBVIOUS
<1>6. \A x \in DOMAIN new : new[x] = b[x]
  <2> HIDE DEF new
  <2> QED
    BY <1>3, <1>4
<1>7. new = b
  <2> HIDE DEF new, b
  <2> QED
    BY <1>3, <1>5, <1>6
<1>8. new \in NodeRecords
  <2> HIDE DEF new
  <2> QED
    BY <1>2, <1>7 DEF NodeRecords
<1> HIDE DEF new
<1>9. ms \in [D -> NodeRecords]
  BY <1>1, <1>8
<1>10. ms[p] = new /\ \A m \in D : m # p => ms[m] = ns[m]
  BY <1>1
<1>11. \A m \in D : /\ ms[m].kind = ns[m].kind /\ ms[m].test = ns[m].test
                    /\ ms[m].parent = ns[m].parent /\ ms[m].children = IF m = p THEN down ELSE ns[m].children
  <2> TAKE m \in D
  <2>1. CASE m = p
    BY <1>4, <1>10, <2>1 DEF node
  <2>2. CASE m # p
    BY <1>10, <2>2
  <2> QED
    BY <2>1, <2>2
<1> QED
  BY <1>9, <1>11 DEF ms, Relinked

LEMMA AddChildIs ==
  ASSUME NEW D, NEW ns \in [D -> NodeRecords], D \subseteq Addresses, NEW p \in D, NEW c \in D
  PROVE  /\ Relinked(AddChild(ns, p, c), ns, D)
         /\ \A m \in D : /\ AddChild(ns, p, c)[m].parent = IF m = c THEN p ELSE ns[m].parent
                         /\ AddChild(ns, p, c)[m].children = IF m = p THEN Append(ns[p].children, c) ELSE ns[m].children
<1> DEFINE down == Append(ns[p].children, c)
           mid == SetChildren(ns, p, down)
<1>1. AddChild(ns, p, c) = SetParent(mid, c, p)
  BY DEF AddChild, SetParent, SetChildren
<1>2. down \in Seq(Addresses)
  BY NodeIs
<1> HIDE DEF down
<1>3. /\ Relinked(mid, ns, D)
      /\ \A m \in D : mid[m].parent = ns[m].parent /\ mid[m].children = IF m = p THEN down ELSE ns[m].children
  BY <1>2, SetChildrenIs
<1> HIDE DEF mid
<1> DEFINE ms == SetParent(mid, c, p)
<1>4. /\ Relinked(ms, mid, D)
      /\ \A m \in D : ms[m].parent = (IF m = c THEN p ELSE mid[m].parent) /\ ms[m].children = mid[m].children
  BY <1>3, SetParentIs DEF Relinked
<1> HIDE DEF ms
<1>5. Relinked(ms, ns, D)
  BY <1>3, <1>4 DEF Relinked
<1>6. \A m \in D : ms[m].parent = (IF m = c THEN p ELSE ns[m].parent) /\ ms[m].children = IF m = p THEN down ELSE ns[m].children
  BY <1>3, <1>4
<1> QED
  BY <1>1, <1>5, <1>6 DEF ms, down

LEMMA SetRootParentIs ==
  ASSUME NEW D, NEW ns \in [D -> NodeRecords], NEW c \in D
  PROVE  /\ Relinked(SetRootParent(ns, c), ns, D)
         /\ \A m \in D : /\ SetRootParent(ns, c)[m].parent = IF m = c THEN None ELSE ns[m].parent
                         /\ SetRootParent(ns, c)[m].children = ns[m].children
<1>1. SetRootParent(ns, c) = SetParent(ns, c, None)
  BY DEF SetRootParent, SetParent
<1>2. None \in Addresses \cup {None}
  OBVIOUS
<1> QED
  BY <1>1, <1>2, SetParentIs

LEMMA ReplaceChildIs ==
  ASSUME NEW D, NEW ns \in [D -> NodeRecords], D \subseteq Addresses, NEW p \in D, NEW old \in D, NEW new \in D, old # new,
         NEW at \in DOMAIN ns[p].children, ns[p].children[at] = old,
         \A i \in DOMAIN ns[p].children : ns[p].children[i] = old => i = at
  PROVE  /\ Relinked(ReplaceChild(ns, p, old, new), ns, D)
         /\ \A m \in D : /\ ReplaceChild(ns, p, old, new)[m].parent = IF m = new THEN p ELSE IF m = old THEN None ELSE ns[m].parent
                         /\ ReplaceChild(ns, p, old, new)[m].children = IF m = p THEN ReplaceAt(ns[p].children, at, new) ELSE ns[m].children
         /\ ReplaceAt(ns[p].children, at, new) \in Seq(Addresses) /\ Len(ReplaceAt(ns[p].children, at, new)) = Len(ns[p].children)
         /\ \A i \in DOMAIN ns[p].children : ReplaceAt(ns[p].children, at, new)[i] = IF i = at THEN new ELSE ns[p].children[i]
<1> DEFINE ch == ns[p].children
           down == ReplaceAt(ch, at, new)
           top == SetParent(ns, old, None)
           mid == SetChildren(top, p, down)
           ms == SetParent(mid, new, p)
<1>1. (CHOOSE i \in DOMAIN ch : ch[i] = old) = at
  OBVIOUS
<1>2. ch \in Seq(Addresses) /\ DOMAIN ch = 1..Len(ch) /\ new \in Addresses
  BY NodeIs
<1>3. /\ down \in Seq(Addresses) /\ Len(down) = Len(ch)
      /\ \A i \in DOMAIN ch : down[i] = IF i = at THEN new ELSE ch[i]
  <2> HIDE DEF ch
  <2>1. at \in 1..Len(ch)
    BY <1>2 DEF ch
  <2>2. down = [ch EXCEPT ![at] = new]
    BY DEF ReplaceAt
  <2> QED
    BY <1>2, <2>1, <2>2, ExceptSeq
<1>4. /\ Relinked(top, ns, D)
      /\ \A m \in D : top[m].parent = (IF m = old THEN None ELSE ns[m].parent) /\ top[m].children = ns[m].children
  BY SetParentIs
<1>5. ReplaceChild(ns, p, old, new) = ms
  <2>1. top[p].children = ch
    BY <1>4
  <2>2. ReplaceChild(ns, p, old, new) = SetParent(SetChildren(top, p, ReplaceAt(top[p].children, CHOOSE i \in DOMAIN ch : ch[i] = old, new)), new, p)
    BY DEF ReplaceChild, SetParent, SetChildren
  <2> QED
    BY <1>1, <2>1, <2>2
<1> HIDE DEF down, top
<1>6. /\ Relinked(mid, top, D)
      /\ \A m \in D : mid[m].parent = top[m].parent /\ mid[m].children = IF m = p THEN down ELSE top[m].children
  BY <1>3, <1>4, SetChildrenIs DEF Relinked
<1> HIDE DEF mid
<1>7. /\ Relinked(ms, mid, D)
      /\ \A m \in D : ms[m].parent = (IF m = new THEN p ELSE mid[m].parent) /\ ms[m].children = mid[m].children
  BY <1>6, SetParentIs DEF Relinked
<1> HIDE DEF ms
<1>8. Relinked(ms, ns, D)
  BY <1>4, <1>6, <1>7 DEF Relinked
<1>9. \A m \in D : /\ ms[m].parent = (IF m = new THEN p ELSE IF m = old THEN None ELSE ns[m].parent)
                   /\ ms[m].children = IF m = p THEN down ELSE ns[m].children
  BY <1>4, <1>6, <1>7
<1> QED
  BY <1>3, <1>5, <1>8, <1>9 DEF down

LEMMA RemoveChildIs ==
  ASSUME NEW D, NEW ns \in [D -> NodeRecords], D \subseteq Addresses, NEW p \in D, NEW old \in D,
         NEW at \in DOMAIN ns[p].children, ns[p].children[at] = old,
         \A i \in DOMAIN ns[p].children : ns[p].children[i] = old => i = at
  PROVE  /\ Relinked(RemoveChild(ns, p, old), ns, D)
         /\ \A m \in D : /\ RemoveChild(ns, p, old)[m].parent = IF m = old THEN None ELSE ns[m].parent
                         /\ RemoveChild(ns, p, old)[m].children = IF m = p THEN RemoveAt(ns[p].children, at) ELSE ns[m].children
         /\ RemoveAt(ns[p].children, at) \in Seq(Addresses) /\ Len(RemoveAt(ns[p].children, at)) = Len(ns[p].children) - 1
         /\ \A i \in 1..(Len(ns[p].children) - 1) :
              RemoveAt(ns[p].children, at)[i] = IF i < at THEN ns[p].children[i] ELSE ns[p].children[i + 1]
<1> DEFINE ch == ns[p].children
           down == RemoveAt(ch, at)
           top == SetParent(ns, old, None)
           ms == SetChildren(top, p, down)
<1>1. (CHOOSE i \in DOMAIN ch : ch[i] = old) = at
  OBVIOUS
<1>2. ch \in Seq(Addresses) /\ DOMAIN ch = 1..Len(ch) /\ Len(ch) \in Nat
  BY NodeIs
<1>3. /\ down \in Seq(Addresses) /\ Len(down) = Len(ch) - 1
      /\ \A i \in 1..(Len(ch) - 1) : down[i] = IF i < at THEN ch[i] ELSE ch[i + 1]
  <2> HIDE DEF ch
  <2> DEFINE a == SubSeq(ch, 1, at - 1)
             b == SubSeq(ch, at + 1, Len(ch))
  <2>1. at \in 1..Len(ch) /\ at \in Int /\ at - 1 \in Int /\ at + 1 \in Int /\ Len(ch) \in Int
    BY <1>2 DEF ch
  <2>2. \A i \in 1..Len(ch) : ch[i] \in Addresses
    BY <1>2
  <2>3. a \in Seq(Addresses) /\ Len(a) = at - 1 /\ \A i \in 1..(at - 1) : a[i] = ch[i]
    <3>1. \A i \in 1..(at - 1) : ch[i] \in Addresses
      BY <2>1, <2>2
    <3>2. /\ a \in Seq(Addresses) /\ Len(a) = IF 1 <= at - 1 THEN (at - 1) - 1 + 1 ELSE 0
          /\ \A i \in 1..((at - 1) - 1 + 1) : a[i] = ch[1 + i - 1]
      BY <2>1, <3>1, SubSeqProperties
    <3> HIDE DEF a
    <3>3. \A i \in 1..(at - 1) : i \in 1..((at - 1) - 1 + 1) /\ 1 + i - 1 = i
      BY <2>1
    <3> QED
      BY <2>1, <3>2, <3>3
  <2>4. b \in Seq(Addresses) /\ Len(b) = Len(ch) - at /\ \A i \in 1..(Len(ch) - at) : b[i] = ch[at + i]
    <3>1. \A i \in (at + 1)..Len(ch) : ch[i] \in Addresses
      BY <2>1, <2>2
    <3>2. /\ b \in Seq(Addresses) /\ Len(b) = IF at + 1 <= Len(ch) THEN Len(ch) - (at + 1) + 1 ELSE 0
          /\ \A i \in 1..(Len(ch) - (at + 1) + 1) : b[i] = ch[(at + 1) + i - 1]
      BY <2>1, <3>1, SubSeqProperties
    <3> HIDE DEF b
    <3>3. \A i \in 1..(Len(ch) - at) : i \in 1..(Len(ch) - (at + 1) + 1) /\ (at + 1) + i - 1 = at + i
      BY <2>1
    <3> QED
      BY <2>1, <3>2, <3>3
  <2>5. down = a \o b
    BY DEF RemoveAt
  <2> HIDE DEF a, b, down
  <2>6. /\ down \in Seq(Addresses) /\ Len(down) = Len(a) + Len(b)
        /\ \A i \in 1..(Len(a) + Len(b)) : down[i] = IF i <= Len(a) THEN a[i] ELSE b[i - Len(a)]
    BY <2>3, <2>4, <2>5, ConcatProperties
  <2>7. Len(a) + Len(b) = Len(ch) - 1
    BY <2>1, <2>3, <2>4
  <2>8. ASSUME NEW i \in 1..(Len(ch) - 1)
        PROVE  down[i] = IF i < at THEN ch[i] ELSE ch[i + 1]
    <3>1. down[i] = IF i <= at - 1 THEN a[i] ELSE b[i - (at - 1)]
      BY <2>3, <2>6, <2>7, <2>8
    <3>2. CASE i < at
      <4>1. i <= at - 1 /\ i \in 1..(at - 1)
        BY <2>1, <2>8, <3>2
      <4> QED
        BY <2>3, <3>1, <3>2, <4>1
    <3>3. CASE ~(i < at)
      <4>1. ~(i <= at - 1) /\ i - (at - 1) \in 1..(Len(ch) - at) /\ at + (i - (at - 1)) = i + 1
        BY <2>1, <2>8, <3>3
      <4> QED
        BY <2>4, <3>1, <3>3, <4>1
    <3> QED
      BY <3>2, <3>3
  <2> QED
    BY <2>6, <2>7, <2>8
<1>4. /\ Relinked(top, ns, D)
      /\ \A m \in D : top[m].parent = (IF m = old THEN None ELSE ns[m].parent) /\ top[m].children = ns[m].children
  BY SetParentIs
<1>5. RemoveChild(ns, p, old) = ms
  <2>1. top[p].children = ch
    BY <1>4
  <2>2. RemoveChild(ns, p, old) = SetChildren(top, p, RemoveAt(top[p].children, CHOOSE i \in DOMAIN ch : ch[i] = old))
    BY DEF RemoveChild, SetParent, SetChildren
  <2> QED
    BY <1>1, <2>1, <2>2
<1> HIDE DEF down, top
<1>6. /\ Relinked(ms, top, D)
      /\ \A m \in D : ms[m].parent = top[m].parent /\ ms[m].children = IF m = p THEN down ELSE top[m].children
  BY <1>3, <1>4, SetChildrenIs DEF Relinked
<1> HIDE DEF ms
<1>7. Relinked(ms, ns, D)
  BY <1>4, <1>6 DEF Relinked
<1>8. \A m \in D : /\ ms[m].parent = (IF m = old THEN None ELSE ns[m].parent)
                   /\ ms[m].children = IF m = p THEN down ELSE ns[m].children
  BY <1>4, <1>6
<1> QED
  BY <1>3, <1>5, <1>7, <1>8 DEF down

-----------------------------------------------------------------------------
(* The edits keep the nodes linked. *)

LEMMA LinkedFields ==
  ASSUME NEW ns, NEW r, NEW L, NEW rank, NEW M, Linked(ns, r, L, rank, M)
  PROVE  /\ DOMAIN ns \subseteq Addresses /\ ns \in [DOMAIN ns -> NodeRecords]
         /\ M \in Nat /\ rank \in [DOMAIN ns -> 0..M]
         /\ r \in L /\ L \subseteq DOMAIN ns /\ ns[r].parent = None
         /\ \A n \in DOMAIN ns : ~CanHaveChildren(ns[n]) => ns[n].children = <<>>
         /\ \A n \in DOMAIN ns : \A i \in DOMAIN ns[n].children :
              ns[n].children[i] \in DOMAIN ns /\ rank[n] < rank[ns[n].children[i]]
         /\ \A n \in L : \A i \in DOMAIN ns[n].children : ns[n].children[i] \in L /\ ns[ns[n].children[i]].parent = n
         /\ \A n \in L : \A i, j \in DOMAIN ns[n].children : ns[n].children[i] = ns[n].children[j] => i = j
         /\ \A n \in DOMAIN ns : /\ n \in Nat /\ n # None /\ rank[n] \in Nat
                                 /\ ns[n].children \in Seq(Addresses)
                                 /\ Len(ns[n].children) \in Nat /\ DOMAIN ns[n].children = 1..Len(ns[n].children)
<1> DEFINE D == DOMAIN ns
<1>1. IsForest(D, Kids(ns), rank, M) /\ \A n \in D : Kids(ns)[n] = ns[n].children
  BY DEF Linked, Kids
<1>2. D \subseteq Addresses /\ ns \in [D -> NodeRecords] /\ L \subseteq D
  BY DEF Linked
<1>3. M \in Nat /\ rank \in [D -> 0..M]
  BY <1>1 DEF IsForest
<1>4. \A n \in D : \A i \in DOMAIN ns[n].children : ns[n].children[i] \in D /\ rank[n] < rank[ns[n].children[i]]
  <2> HIDE DEF D
  <2> TAKE n \in D
  <2>1. Kids(ns) \in [D -> Seq(D)] /\ \A i \in DOMAIN Kids(ns)[n] : rank[n] < rank[Kids(ns)[n][i]]
    BY <1>1 DEF IsForest
  <2>2. ns[n].children \in Seq(D)
    BY <1>1, <2>1
  <2>3. \A i \in DOMAIN ns[n].children : ns[n].children[i] \in D
    BY <2>2
  <2> QED
    BY <1>1, <2>1, <2>3
<1>5. \A n \in D : n \in Nat /\ n # None /\ rank[n] \in Nat
  BY <1>2, <1>3, FilterEditorAssumption DEF Addresses
<1>6. \A n \in D : ns[n].children \in Seq(Addresses) /\ Len(ns[n].children) \in Nat /\ DOMAIN ns[n].children = 1..Len(ns[n].children)
  BY <1>2, NodeIs
<1> QED
  BY <1>2, <1>3, <1>4, <1>5, <1>6 DEF Linked

LEMMA LinkedByFields ==
  ASSUME NEW ns, NEW r, NEW L, NEW rank, NEW M, NEW D,
         D \subseteq Addresses, ns \in [D -> NodeRecords], M \in Nat, rank \in [D -> 0..M],
         r \in L, L \subseteq D, ns[r].parent = None,
         \A n \in D : ~CanHaveChildren(ns[n]) => ns[n].children = <<>>,
         \A n \in D : \A i \in DOMAIN ns[n].children : ns[n].children[i] \in D /\ rank[n] < rank[ns[n].children[i]],
         \A n \in L : \A i \in DOMAIN ns[n].children : ns[n].children[i] \in L /\ ns[ns[n].children[i]].parent = n,
         \A n \in L : \A i, j \in DOMAIN ns[n].children : ns[n].children[i] = ns[n].children[j] => i = j
  PROVE  Linked(ns, r, L, rank, M)
<1>1. DOMAIN ns = D /\ Kids(ns) = [n \in D |-> ns[n].children] /\ \A n \in D : Kids(ns)[n] = ns[n].children
  BY DEF Kids
<1>2. \A n \in D : ns[n].children \in Seq(D)
  <2> TAKE n \in D
  <2> DEFINE ch == ns[n].children
  <2>1. ch \in Seq(Addresses) /\ Len(ch) \in Nat /\ DOMAIN ch = 1..Len(ch)
    BY NodeIs
  <2>2. \A i \in 1..Len(ch) : ch[i] \in D
    BY <2>1
  <2> HIDE DEF ch
  <2>3. ch \in Seq(D)
    BY <2>1, <2>2
  <2> QED
    BY <2>3 DEF ch
<1>3. Kids(ns) \in [D -> Seq(D)]
  BY <1>1, <1>2
<1>4. \A n \in D : \A i \in DOMAIN Kids(ns)[n] : rank[n] < rank[Kids(ns)[n][i]]
  BY <1>1
<1>5. IsForest(D, Kids(ns), rank, M)
  BY <1>3, <1>4 DEF IsForest
<1> QED
  BY <1>1, <1>5 DEF Linked

(* A leaf that becomes the last child of a node. *)
LEMMA LeafLinked ==
  ASSUME NEW ns, NEW r, NEW L, NEW rank, NEW M, Linked(ns, r, L, rank, M),
         NEW p \in L, CanHaveChildren(ns[p]), NEW b \in DOMAIN ns \ L, ns[b].children = <<>>
  PROVE  \E rank2, M2 : Linked(AddChild(ns, p, b), r, L \cup {b}, rank2, M2)
<1> DEFINE D == DOMAIN ns
           ms == AddChild(ns, p, b)
           rank2 == [m \in D |-> IF m = b THEN M + 1 ELSE rank[m]]
<1>1. /\ D \subseteq Addresses /\ ns \in [D -> NodeRecords] /\ M \in Nat /\ rank \in [D -> 0..M]
      /\ r \in L /\ L \subseteq D /\ ns[r].parent = None
      /\ \A n \in D : ~CanHaveChildren(ns[n]) => ns[n].children = <<>>
      /\ \A n \in D : \A i \in DOMAIN ns[n].children : ns[n].children[i] \in D /\ rank[n] < rank[ns[n].children[i]]
      /\ \A n \in L : \A i \in DOMAIN ns[n].children : ns[n].children[i] \in L /\ ns[ns[n].children[i]].parent = n
      /\ \A n \in L : \A i, j \in DOMAIN ns[n].children : ns[n].children[i] = ns[n].children[j] => i = j
      /\ \A n \in D : rank[n] \in Nat /\ ns[n].children \in Seq(Addresses)
      /\ \A n \in D : Len(ns[n].children) \in Nat /\ DOMAIN ns[n].children = 1..Len(ns[n].children)
  BY LinkedFields, SMTT(30)
<1>2. p \in D /\ b \in D /\ b \notin L /\ p # b
  BY <1>1
<1> DEFINE down == Append(ns[p].children, b)
<1> HIDE DEF D
<1>3. /\ Relinked(ms, ns, D)
      /\ \A m \in D : /\ ms[m].parent = IF m = b THEN p ELSE ns[m].parent
                      /\ ms[m].children = IF m = p THEN down ELSE ns[m].children
  BY <1>1, <1>2, AddChildIs
<1> HIDE DEF ms
<1>4. DOMAIN down = 1..(Len(ns[p].children) + 1) /\ down[Len(ns[p].children) + 1] = b
      /\ \A i \in 1..Len(ns[p].children) : down[i] = ns[p].children[i]
  BY <1>1, <1>2
<1>5. \A i \in DOMAIN down : (i \in DOMAIN ns[p].children /\ down[i] = ns[p].children[i]) \/ (i = Len(ns[p].children) + 1 /\ down[i] = b)
  <2>1. \A i \in DOMAIN down : i \in 1..Len(ns[p].children) \/ i = Len(ns[p].children) + 1
    BY <1>1, <1>2, <1>4
  <2> QED
    BY <1>1, <1>2, <1>4, <2>1
<1> HIDE DEF down
<1>6. M + 1 \in Nat /\ rank2 \in [D -> 0..(M + 1)]
  BY <1>1
<1>7. /\ rank2[b] = M + 1
      /\ \A m \in D : m # b => rank2[m] = rank[m] /\ rank[m] \in Nat /\ rank[m] < M + 1
  BY <1>1, <1>2
<1> HIDE DEF rank2
<1>8. ms \in [D -> NodeRecords] /\ \A m \in D : CanHaveChildren(ms[m]) <=> CanHaveChildren(ns[m])
  BY <1>3 DEF Relinked, CanHaveChildren
<1>9. r \in L \cup {b} /\ L \cup {b} \subseteq D /\ ms[r].parent = None
  BY <1>1, <1>2, <1>3
<1>10. \A n \in D : ~CanHaveChildren(ms[n]) => ms[n].children = <<>>
  BY <1>1, <1>3, <1>8
<1>11. \A n \in D : \A i \in DOMAIN ms[n].children : ms[n].children[i] \in D /\ rank2[n] < rank2[ms[n].children[i]]
  <2> TAKE n \in D
  <2> TAKE i \in DOMAIN ms[n].children
  <2>1. CASE n = p /\ i = Len(ns[p].children) + 1
    <3>1. ms[n].children[i] = b
      BY <1>3, <1>4, <2>1
    <3>2. rank2[p] < rank2[b]
      BY <1>2, <1>7
    <3> QED
      BY <1>2, <2>1, <3>1, <3>2
  <2>2. CASE ~(n = p /\ i = Len(ns[p].children) + 1)
    <3>1. i \in DOMAIN ns[n].children /\ ms[n].children[i] = ns[n].children[i]
      <4>1. CASE n = p
        BY <1>3, <1>5, <2>2, <4>1
      <4>2. CASE n # p
        BY <1>3, <4>2
      <4> QED
        BY <4>1, <4>2
    <3>2. n # b
      <4>1. DOMAIN <<>> = {}
        OBVIOUS
      <4> QED
        BY <3>1, <4>1
    <3> DEFINE c == ns[n].children[i]
    <3>3. c \in D /\ rank[n] < rank[c]
      BY <1>1, <3>1
    <3> HIDE DEF c
    <3>4. rank2[n] < rank2[c]
      BY <1>7, <3>2, <3>3, <1>1, ZenonT(30)
    <3> QED
      BY <3>1, <3>3, <3>4 DEF c
  <2> QED
    BY <2>1, <2>2
<1>12. \A n \in L \cup {b} : \A i \in DOMAIN ms[n].children :
          \/ n = p /\ i = Len(ns[p].children) + 1 /\ ms[n].children[i] = b
          \/ n \in L /\ i \in DOMAIN ns[n].children /\ ms[n].children[i] = ns[n].children[i]
  <2> TAKE n \in L \cup {b}
  <2> TAKE i \in DOMAIN ms[n].children
  <2>1. CASE n = p
    BY <1>1, <1>3, <1>5, <2>1
  <2>2. CASE n # p
    <3>1. n \in D /\ ms[n].children = ns[n].children
      BY <1>3, <1>9, <2>2
    <3>2. n # b
      <4>1. DOMAIN <<>> = {}
        OBVIOUS
      <4> QED
        BY <3>1, <4>1
    <3> QED
      BY <3>1, <3>2
  <2> QED
    BY <2>1, <2>2
<1>13. \A n \in L \cup {b} : \A i \in DOMAIN ms[n].children : ms[n].children[i] \in L \cup {b} /\ ms[ms[n].children[i]].parent = n
  <2> TAKE n \in L \cup {b}
  <2> TAKE i \in DOMAIN ms[n].children
  <2>1. CASE n = p /\ i = Len(ns[p].children) + 1 /\ ms[n].children[i] = b
    BY <1>2, <1>3, <2>1
  <2>2. CASE n \in L /\ i \in DOMAIN ns[n].children /\ ms[n].children[i] = ns[n].children[i]
    <3> DEFINE c == ns[n].children[i]
    <3>1. c \in L /\ ns[c].parent = n
      BY <1>1, <2>2
    <3> HIDE DEF c
    <3>2. ms[c].parent = n
      BY <1>1, <1>2, <1>3, <3>1
    <3> QED
      BY <2>2, <3>1, <3>2 DEF c
  <2> QED
    BY <1>12, <2>1, <2>2
<1>14. \A n \in L \cup {b} : \A i, j \in DOMAIN ms[n].children : ms[n].children[i] = ms[n].children[j] => i = j
  <2> TAKE n \in L \cup {b}
  <2> TAKE i, j \in DOMAIN ms[n].children
  <2>1. \A x \in DOMAIN ms[n].children :
          \/ n = p /\ x = Len(ns[p].children) + 1 /\ ms[n].children[x] = b
          \/ n \in L /\ x \in DOMAIN ns[n].children /\ ms[n].children[x] = ns[n].children[x] /\ ms[n].children[x] \in L
    BY <1>1, <1>12
  <2>2. n \in L => (i \in DOMAIN ns[n].children /\ j \in DOMAIN ns[n].children /\ ns[n].children[i] = ns[n].children[j] => i = j)
    BY <1>1
  <2>3. b \notin L
    BY <1>2
  <2> QED
    BY <2>1, <2>2, <2>3
<1>15. Linked(ms, r, L \cup {b}, rank2, M + 1)
  BY <1>1, <1>6, <1>8, <1>9, <1>10, <1>11, <1>13, <1>14, LinkedByFields
<1> QED
  BY <1>15 DEF ms

(* Nobody has the node as a child. *)
NotHeld(ns, a) == \A m \in DOMAIN ns : \A i \in DOMAIN ns[m].children : ns[m].children[i] # a

(* In ms the node a is where n is in ns, and n is its only child. *)
Covers(ms, ns, L, n, a) ==
  /\ \A m \in DOMAIN ns : ms[m].parent = IF m = n THEN a ELSE IF m = a THEN ns[n].parent ELSE ns[m].parent
  /\ Len(ms[a].children) = 1 /\ ms[a].children[1] = n
  /\ \A m \in DOMAIN ns \ {a} :
       /\ Len(ms[m].children) = Len(ns[m].children)
       /\ \A i \in DOMAIN ns[m].children :
            ms[m].children[i] = IF m \in L /\ ns[m].children[i] = n THEN a ELSE ns[m].children[i]

(* A combinator that takes the place of a node, which becomes its only child. *)
LEMMA CoverLinked ==
  ASSUME NEW ns, NEW r, NEW L, NEW rank, NEW M, Linked(ns, r, L, rank, M),
         NEW n \in L, NEW a \in DOMAIN ns \ L, CanHaveChildren(ns[a]),
         NotHeld(ns, a), NEW ms, Relinked(ms, ns, DOMAIN ns), Covers(ms, ns, L, n, a)
  PROVE  \E rank2, M2 : Linked(ms, IF n = r THEN a ELSE r, L \cup {a}, rank2, M2)
<1> DEFINE D == DOMAIN ns
           rank2 == [m \in D |-> IF m = a THEN 2 * rank[n] ELSE 2 * rank[m] + 1]
           top == IF n = r THEN a ELSE r
<1>1. /\ D \subseteq Addresses /\ ns \in [D -> NodeRecords] /\ M \in Nat /\ rank \in [D -> 0..M]
      /\ r \in L /\ L \subseteq D /\ ns[r].parent = None
      /\ \A m \in D : ~CanHaveChildren(ns[m]) => ns[m].children = <<>>
      /\ \A m \in D : \A i \in DOMAIN ns[m].children : ns[m].children[i] \in D /\ rank[m] < rank[ns[m].children[i]]
      /\ \A m \in L : \A i \in DOMAIN ns[m].children : ns[m].children[i] \in L /\ ns[ns[m].children[i]].parent = m
      /\ \A m \in L : \A i, j \in DOMAIN ns[m].children : ns[m].children[i] = ns[m].children[j] => i = j
      /\ \A m \in D : rank[m] \in Nat
      /\ \A m \in D : Len(ns[m].children) \in Nat /\ DOMAIN ns[m].children = 1..Len(ns[m].children)
  BY LinkedFields
<1>2. n \in D /\ a \in D /\ a \notin L /\ n # a
  BY <1>1
<1> HIDE DEF D
<1>3. ms \in [D -> NodeRecords] /\ \A m \in D : CanHaveChildren(ms[m]) <=> CanHaveChildren(ns[m])
  BY DEF Relinked, CanHaveChildren, D
<1>4. \A m \in D : Len(ms[m].children) \in Nat /\ DOMAIN ms[m].children = 1..Len(ms[m].children) /\ ms[m].children \in Seq(Addresses)
  BY <1>3, NodeIs
<1>5. /\ \A m \in D : ms[m].parent = IF m = n THEN a ELSE IF m = a THEN ns[n].parent ELSE ns[m].parent
      /\ DOMAIN ms[a].children = 1..1 /\ ms[a].children[1] = n
      /\ \A m \in D : m # a => DOMAIN ms[m].children = DOMAIN ns[m].children /\ Len(ms[m].children) = Len(ns[m].children)
      /\ \A m \in D : m # a => \A i \in DOMAIN ns[m].children :
           /\ ns[m].children[i] # a
           /\ ms[m].children[i] = IF m \in L /\ ns[m].children[i] = n THEN a ELSE ns[m].children[i]
  <2>1. /\ \A m \in D : ms[m].parent = IF m = n THEN a ELSE IF m = a THEN ns[n].parent ELSE ns[m].parent
        /\ Len(ms[a].children) = 1 /\ ms[a].children[1] = n
        /\ \A m \in D \ {a} :
             /\ Len(ms[m].children) = Len(ns[m].children)
             /\ \A i \in DOMAIN ns[m].children :
                  ms[m].children[i] = IF m \in L /\ ns[m].children[i] = n THEN a ELSE ns[m].children[i]
    BY DEF Covers, D
  <2>2. \A m \in D : \A i \in DOMAIN ns[m].children : ns[m].children[i] # a
    BY DEF NotHeld, D
  <2> QED
    BY <1>1, <1>2, <1>4, <2>1, <2>2
<1>6. rank2 \in [D -> 0..(2 * M + 1)] /\ 2 * M + 1 \in Nat
  <2>1. \A m \in D : rank[m] \in 0..M
    BY <1>1
  <2>2. \A m \in D : 2 * rank[m] + 1 \in 0..(2 * M + 1) /\ 2 * rank[m] \in 0..(2 * M + 1)
    BY <1>1, <2>1
  <2>3. 2 * M + 1 \in Nat
    BY <1>1
  <2> DEFINE Z == 0..(2 * M + 1)
             f(m) == 2 * rank[m] + 1
             e == 2 * rank[n]
  <2>4. e \in Z /\ \A m \in D : f(m) \in Z
    BY <1>2, <2>2
  <2> HIDE DEF Z, f, e
  <2>5. [m \in D |-> IF m = a THEN e ELSE f(m)] \in [D -> Z]
    BY <2>4
  <2> QED
    BY <2>3, <2>5 DEF Z, f, e
<1>7. rank2[a] = 2 * rank[n] /\ \A m \in D : m # a => rank2[m] = 2 * rank[m] + 1
  BY <1>2
<1> HIDE DEF rank2
<1>8. top \in L \cup {a} /\ L \cup {a} \subseteq D /\ ms[top].parent = None
  BY <1>1, <1>2, <1>5
<1>9. \A m \in D : ~CanHaveChildren(ms[m]) => ms[m].children = <<>>
  <2> SUFFICES ASSUME NEW m \in D, ~CanHaveChildren(ms[m])
               PROVE  ms[m].children = <<>>
    OBVIOUS
  <2>1. ~CanHaveChildren(ns[m]) /\ ns[m].children = <<>>
    BY <1>1, <1>3
  <2>2. m # a
    BY <2>1
  <2>3. Len(ms[m].children) = 0
    BY <1>5, <2>1, <2>2
  <2> QED
    BY <1>4, <2>3
<1>10. \A m \in D : \A i \in DOMAIN ms[m].children : ms[m].children[i] \in D /\ rank2[m] < rank2[ms[m].children[i]]
  <2> TAKE m \in D
  <2> TAKE i \in DOMAIN ms[m].children
  <2>1. CASE m = a
    <3>1. ms[m].children[i] = n
      BY <1>5, <2>1
    <3> QED
      BY <1>1, <1>2, <1>7, <2>1, <3>1
  <2>2. CASE m # a
    <3> DEFINE c == ns[m].children[i]
    <3>1. i \in DOMAIN ns[m].children /\ c # a /\ ms[m].children[i] = IF m \in L /\ c = n THEN a ELSE c
      BY <1>5, <2>2
    <3>2. c \in D /\ rank[m] < rank[c]
      BY <1>1, <3>1
    <3> HIDE DEF c
    <3>3. rank[m] \in Nat /\ rank[c] \in Nat /\ rank2[m] = 2 * rank[m] + 1 /\ rank2[c] = 2 * rank[c] + 1
      BY <1>1, <1>7, <2>2, <3>1, <3>2
    <3>4. CASE m \in L /\ c = n
      BY <1>2, <1>7, <3>1, <3>2, <3>3, <3>4
    <3>5. CASE ~(m \in L /\ c = n)
      BY <3>1, <3>2, <3>3, <3>5
    <3> QED
      BY <3>4, <3>5
  <2> QED
    BY <2>1, <2>2
<1>11. \A m \in L \cup {a} : \A i \in DOMAIN ms[m].children : ms[m].children[i] \in L \cup {a} /\ ms[ms[m].children[i]].parent = m
  <2> TAKE m \in L \cup {a}
  <2> TAKE i \in DOMAIN ms[m].children
  <2>1. CASE m = a
    <3>1. ms[m].children[i] = n
      BY <1>5, <2>1
    <3> QED
      BY <1>2, <1>5, <2>1, <3>1
  <2>2. CASE m # a
    <3> DEFINE c == ns[m].children[i]
    <3>1. m \in L /\ m \in D
      BY <1>1, <2>2
    <3>2. i \in DOMAIN ns[m].children /\ c # a /\ ms[m].children[i] = IF c = n THEN a ELSE c
      BY <1>5, <2>2, <3>1
    <3>3. c \in L /\ c \in D /\ ns[c].parent = m
      BY <1>1, <3>1, <3>2
    <3> HIDE DEF c
    <3>4. CASE c = n
      BY <1>2, <1>5, <3>2, <3>3, <3>4
    <3>5. CASE c # n
      BY <1>5, <3>2, <3>3, <3>5
    <3> QED
      BY <3>4, <3>5
  <2> QED
    BY <2>1, <2>2
<1>12. \A m \in L \cup {a} : \A i, j \in DOMAIN ms[m].children : ms[m].children[i] = ms[m].children[j] => i = j
  <2> TAKE m \in L \cup {a}
  <2> TAKE i, j \in DOMAIN ms[m].children
  <2>1. CASE m = a
    BY <1>5, <2>1
  <2>2. CASE m # a
    <3>1. m \in L /\ m \in D
      BY <1>1, <2>2
    <3>2. /\ i \in DOMAIN ns[m].children /\ ns[m].children[i] # a /\ ms[m].children[i] = IF ns[m].children[i] = n THEN a ELSE ns[m].children[i]
          /\ j \in DOMAIN ns[m].children /\ ns[m].children[j] # a /\ ms[m].children[j] = IF ns[m].children[j] = n THEN a ELSE ns[m].children[j]
      BY <1>5, <2>2, <3>1
    <3> QED
      BY <1>1, <3>1, <3>2
  <2> QED
    BY <2>1, <2>2
<1> HIDE DEF top
<1>13. Linked(ms, top, L \cup {a}, rank2, 2 * M + 1)
  BY <1>1, <1>3, <1>6, <1>8, <1>9, <1>10, <1>11, <1>12, LinkedByFields
<1> QED
  BY <1>13 DEF top

(* A node that its parent lets go of. *)
Cut(ms, ns, r, p, n, L, rank, M) ==
  /\ Linked(ms, r, L, rank, M)
  /\ Relinked(ms, ns, DOMAIN ns)
  /\ \A m \in DOMAIN ns : ms[m].parent = IF m = n THEN None ELSE ns[m].parent
  /\ \A m \in DOMAIN ns : m # p => ms[m].children = ns[m].children
  /\ Len(ms[p].children) = Len(ns[p].children) - 1
  /\ \A m \in L : Range(ms[m].children) = Range(ns[m].children) \ {n}

LEMMA CutLinked ==
  ASSUME NEW ns, NEW r, NEW L, NEW rank, NEW M, Linked(ns, r, L, rank, M),
         NEW p \in L, NEW at \in DOMAIN ns[p].children, NEW n, n = ns[p].children[at]
  PROVE  Cut(RemoveChild(ns, p, n), ns, r, p, n, L \ {n}, rank, M)
<1> DEFINE D == DOMAIN ns
           ms == RemoveChild(ns, p, n)
           down == RemoveAt(ns[p].children, at)
<1>1. /\ D \subseteq Addresses /\ ns \in [D -> NodeRecords] /\ M \in Nat /\ rank \in [D -> 0..M]
      /\ r \in L /\ L \subseteq D /\ ns[r].parent = None
      /\ \A m \in D : ~CanHaveChildren(ns[m]) => ns[m].children = <<>>
      /\ \A m \in D : \A i \in DOMAIN ns[m].children : ns[m].children[i] \in D /\ rank[m] < rank[ns[m].children[i]]
      /\ \A m \in L : \A i \in DOMAIN ns[m].children : ns[m].children[i] \in L /\ ns[ns[m].children[i]].parent = m
      /\ \A m \in L : \A i, j \in DOMAIN ns[m].children : ns[m].children[i] = ns[m].children[j] => i = j
      /\ \A m \in D : Len(ns[m].children) \in Nat /\ DOMAIN ns[m].children = 1..Len(ns[m].children)
  BY LinkedFields, SMTT(30)
<1>15. \A m \in D : m # None
  BY LinkedFields
<1>2. p \in D /\ n \in D /\ n \in L /\ ns[n].parent = p /\ n # r
  BY <1>1, <1>15
<1>16. \A i \in DOMAIN ns[p].children : ns[p].children[i] = n => i = at
  BY <1>1
<1> HIDE DEF D
<1>3. /\ Relinked(ms, ns, D)
      /\ \A m \in D : /\ ms[m].parent = IF m = n THEN None ELSE ns[m].parent
                      /\ ms[m].children = IF m = p THEN down ELSE ns[m].children
      /\ down \in Seq(Addresses) /\ Len(down) = Len(ns[p].children) - 1
      /\ \A i \in 1..(Len(ns[p].children) - 1) : down[i] = IF i < at THEN ns[p].children[i] ELSE ns[p].children[i + 1]
  <2>1. D \subseteq Addresses /\ ns \in [D -> NodeRecords] /\ p \in D /\ n \in D
    BY <1>1, <1>2
  <2> QED
    BY <1>16, <2>1, RemoveChildIs
<1> HIDE DEF ms, down
<1>4. at \in 1..Len(ns[p].children) /\ Len(ns[p].children) \in Nat /\ DOMAIN down = 1..(Len(ns[p].children) - 1)
  BY <1>1, <1>2, <1>3
<1>5. \A i \in DOMAIN down : \E j \in DOMAIN ns[p].children : j # at /\ down[i] = ns[p].children[j] /\ j = IF i < at THEN i ELSE i + 1
  <2> TAKE i \in DOMAIN down
  <2>1. i \in 1..Len(ns[p].children) /\ i + 1 \in 1..Len(ns[p].children) /\ i \in Nat /\ at \in Nat
    BY <1>4
  <2>2. CASE i < at
    BY <1>1, <1>2, <1>3, <1>4, <2>1, <2>2
  <2>3. CASE ~(i < at)
    <3>1. i + 1 # at
      BY <2>1, <2>3
    <3> QED
      BY <1>1, <1>2, <1>3, <1>4, <2>1, <2>3, <3>1
  <2> QED
    BY <2>2, <2>3
<1>6. ms \in [D -> NodeRecords] /\ \A m \in D : CanHaveChildren(ms[m]) <=> CanHaveChildren(ns[m])
  BY <1>3 DEF Relinked, CanHaveChildren
<1>7. r \in L \ {n} /\ L \ {n} \subseteq D /\ ms[r].parent = None
  BY <1>1, <1>2, <1>3
<1>8. CanHaveChildren(ns[p])
  <2>1. DOMAIN <<>> = {}
    OBVIOUS
  <2> QED
    BY <1>1, <1>2, <2>1
<1>9. \A m \in D : ~CanHaveChildren(ms[m]) => ms[m].children = <<>>
  BY <1>1, <1>3, <1>6, <1>8
<1>10. \A m \in D : \A i \in DOMAIN ms[m].children : ms[m].children[i] \in D /\ rank[m] < rank[ms[m].children[i]]
  <2> TAKE m \in D
  <2> TAKE i \in DOMAIN ms[m].children
  <2>1. \E j \in DOMAIN ns[m].children : ms[m].children[i] = ns[m].children[j]
    BY <1>3, <1>5
  <2> QED
    BY <1>1, <2>1
<1>11. \A m \in L \ {n} : \A i \in DOMAIN ms[m].children :
          \E j \in DOMAIN ns[m].children : /\ ms[m].children[i] = ns[m].children[j] /\ ns[m].children[j] # n
                                           /\ j = IF m = p /\ ~(i < at) THEN i + 1 ELSE i
  <2> TAKE m \in L \ {n}
  <2> TAKE i \in DOMAIN ms[m].children
  <2>1. CASE m = p
    <3>1. ms[m].children = down
      BY <1>2, <1>3, <2>1
    <3>2. PICK j \in DOMAIN ns[p].children : j # at /\ down[i] = ns[p].children[j] /\ j = IF i < at THEN i ELSE i + 1
      BY <1>5, <3>1
    <3>3. ns[p].children[j] # n
      BY <1>1, <3>2
    <3> QED
      BY <2>1, <3>1, <3>2, <3>3
  <2>2. CASE m # p
    <3>1. m \in D /\ ms[m].children = ns[m].children
      BY <1>1, <1>3, <2>2
    <3>2. ns[m].children[i] # n
      BY <1>1, <1>2, <2>2, <3>1
    <3> QED
      BY <2>2, <3>1, <3>2
  <2> QED
    BY <2>1, <2>2
<1>12. \A m \in L \ {n} : \A i \in DOMAIN ms[m].children : ms[m].children[i] \in L \ {n} /\ ms[ms[m].children[i]].parent = m
  <2> TAKE m \in L \ {n}
  <2> TAKE i \in DOMAIN ms[m].children
  <2>1. PICK j \in DOMAIN ns[m].children : ms[m].children[i] = ns[m].children[j] /\ ns[m].children[j] # n
    BY <1>11
  <2>2. ns[m].children[j] \in L /\ ns[ns[m].children[j]].parent = m
    BY <1>1, <2>1
  <2> QED
    BY <1>1, <1>3, <2>1, <2>2, SMTT(30)
<1>13. \A m \in L \ {n} : \A i, j \in DOMAIN ms[m].children : ms[m].children[i] = ms[m].children[j] => i = j
  <2> TAKE m \in L \ {n}
  <2> TAKE i, j \in DOMAIN ms[m].children
  <2> HAVE ms[m].children[i] = ms[m].children[j]
  <2>1. PICK x \in DOMAIN ns[m].children : ms[m].children[i] = ns[m].children[x] /\ x = IF m = p /\ ~(i < at) THEN i + 1 ELSE i
    BY <1>11
  <2>2. PICK y \in DOMAIN ns[m].children : ms[m].children[j] = ns[m].children[y] /\ y = IF m = p /\ ~(j < at) THEN j + 1 ELSE j
    BY <1>11
  <2>3. x = y
    <3>1. ns[m].children[x] = ns[m].children[y] /\ m \in L
      BY <2>1, <2>2
    <3> QED
      BY <1>1, <3>1
  <2>4. i \in Int /\ j \in Int
    <3>1. m \in D
      BY <1>1
    <3>2. DOMAIN ms[m].children \subseteq Int
      BY <1>6, <3>1, NodeIs
    <3> QED
      BY <3>2
  <2> QED
    BY <1>4, <2>1, <2>2, <2>3, <2>4
<1>14. Linked(ms, r, L \ {n}, rank, M)
  BY <1>1, <1>6, <1>7, <1>9, <1>10, <1>12, <1>13, LinkedByFields
<1>17. \A m \in L \ {n} : Range(ms[m].children) = Range(ns[m].children) \ {n}
  <2> TAKE m \in L \ {n}
  <2>1. \A i \in DOMAIN ms[m].children :
          \E j \in DOMAIN ns[m].children : ms[m].children[i] = ns[m].children[j] /\ ns[m].children[j] # n
    BY <1>11
  <2>2. \A j \in DOMAIN ns[m].children : ns[m].children[j] # n =>
          \E i \in DOMAIN ms[m].children : ms[m].children[i] = ns[m].children[j]
    <3>1. CASE m = p
      <4> DEFINE ch == ns[p].children
      <4>1. ms[m].children = down /\ ch[at] = n
        BY <1>2, <1>3, <3>1
      <4>2. DOMAIN ch = 1..Len(ch)
        BY <1>1, <1>2
      <4>3. \A i \in 1..(Len(ch) - 1) : down[i] = IF i < at THEN ch[i] ELSE ch[i + 1]
        BY <1>3
      <4>4. at \in 1..Len(ch) /\ Len(ch) \in Nat /\ DOMAIN down = 1..(Len(ch) - 1)
        BY <1>4
      <4> HIDE DEF ch
      <4>5. ASSUME NEW j \in DOMAIN ch, ch[j] # n
            PROVE  \E i \in DOMAIN down : down[i] = ch[j]
        <5>1. j # at /\ j \in 1..Len(ch)
          BY <4>1, <4>2, <4>5
        <5>2. CASE j < at
          <6>1. j \in 1..(Len(ch) - 1)
            BY <4>4, <5>1, <5>2
          <6> QED
            BY <4>3, <4>4, <5>2, <6>1
        <5>3. CASE ~(j < at)
          <6> DEFINE i == j - 1
          <6>1. i \in 1..(Len(ch) - 1) /\ ~(i < at) /\ i + 1 = j
            BY <4>4, <5>1, <5>3
          <6> HIDE DEF i
          <6> QED
            BY <4>3, <4>4, <6>1
        <5> QED
          BY <5>2, <5>3
      <4> QED
        BY <3>1, <4>1, <4>5 DEF ch
    <3>2. CASE m # p
      <4>1. ms[m].children = ns[m].children
        BY <1>1, <1>3, <3>2
      <4> QED
        BY <4>1
    <3> QED
      BY <3>1, <3>2
  <2>3. Range(ms[m].children) = {ms[m].children[i] : i \in DOMAIN ms[m].children}
    BY DEF Range
  <2>4. Range(ns[m].children) = {ns[m].children[i] : i \in DOMAIN ns[m].children}
    BY DEF Range
  <2>5. Range(ms[m].children) \subseteq Range(ns[m].children) \ {n}
    BY <2>1, <2>3, <2>4
  <2>6. Range(ns[m].children) \ {n} \subseteq Range(ms[m].children)
    BY <2>2, <2>3, <2>4
  <2> QED
    BY <2>5, <2>6
<1> QED
  BY <1>2, <1>3, <1>14, <1>17 DEF ms, D, Cut

(* The single child of a root, which becomes the root. *)
LiftedRoot(ms, ns, c, L, rank, M) ==
  /\ Linked(ms, c, L, rank, M)
  /\ Relinked(ms, ns, DOMAIN ns)
  /\ \A m \in DOMAIN ns : ms[m].children = ns[m].children

LEMMA LiftRootLinked ==
  ASSUME NEW ns, NEW r, NEW L, NEW rank, NEW M, Linked(ns, r, L, rank, M),
         NEW q \in L, ns[q].parent = None, Len(ns[q].children) = 1, NEW c, c = ns[q].children[1]
  PROVE  LiftedRoot(SetRootParent(ns, c), ns, c, L \ {q}, rank, M)
<1> DEFINE D == DOMAIN ns
           ms == SetRootParent(ns, c)
<1>1. /\ D \subseteq Addresses /\ ns \in [D -> NodeRecords] /\ M \in Nat /\ rank \in [D -> 0..M]
      /\ r \in L /\ L \subseteq D /\ ns[r].parent = None
      /\ \A m \in D : ~CanHaveChildren(ns[m]) => ns[m].children = <<>>
      /\ \A m \in D : \A i \in DOMAIN ns[m].children : ns[m].children[i] \in D /\ rank[m] < rank[ns[m].children[i]]
      /\ \A m \in L : \A i \in DOMAIN ns[m].children : ns[m].children[i] \in L /\ ns[ns[m].children[i]].parent = m
      /\ \A m \in L : \A i, j \in DOMAIN ns[m].children : ns[m].children[i] = ns[m].children[j] => i = j
      /\ \A m \in D : Len(ns[m].children) \in Nat /\ DOMAIN ns[m].children = 1..Len(ns[m].children)
  BY LinkedFields
<1>2. \A m \in D : m # None /\ rank[m] \in Nat
  BY LinkedFields
<1>3. q \in D /\ 1 \in DOMAIN ns[q].children /\ c \in L /\ c \in D /\ ns[c].parent = q /\ c # q
  <2>1. q \in D /\ 1 \in DOMAIN ns[q].children
    BY <1>1
  <2>2. c \in L /\ c \in D /\ ns[c].parent = q
    BY <1>1, <2>1
  <2> QED
    BY <1>2, <2>1, <2>2
<1> HIDE DEF D
<1>4. /\ Relinked(ms, ns, D)
      /\ \A m \in D : ms[m].parent = (IF m = c THEN None ELSE ns[m].parent) /\ ms[m].children = ns[m].children
  BY <1>1, <1>3, SetRootParentIs
<1> HIDE DEF ms
<1>5. ms \in [D -> NodeRecords] /\ \A m \in D : CanHaveChildren(ms[m]) <=> CanHaveChildren(ns[m])
  BY <1>4 DEF Relinked, CanHaveChildren
<1>6. c \in L \ {q} /\ L \ {q} \subseteq D /\ ms[c].parent = None
  BY <1>1, <1>3, <1>4
<1>7. \A m \in D : ~CanHaveChildren(ms[m]) => ms[m].children = <<>>
  BY <1>1, <1>4, <1>5
<1>8. \A m \in D : \A i \in DOMAIN ms[m].children : ms[m].children[i] \in D /\ rank[m] < rank[ms[m].children[i]]
  BY <1>1, <1>4
<1>9. \A m \in L \ {q} : \A i \in DOMAIN ms[m].children : ms[m].children[i] \in L \ {q} /\ ms[ms[m].children[i]].parent = m
  <2> TAKE m \in L \ {q}
  <2> TAKE i \in DOMAIN ms[m].children
  <2> DEFINE x == ns[m].children[i]
  <2>1. m \in D /\ ms[m].children = ns[m].children
    BY <1>1, <1>4
  <2>2. x \in L /\ ns[x].parent = m
    BY <1>1, <2>1
  <2> HIDE DEF x
  <2>3. x # q /\ x # c
    BY <1>2, <1>3, <2>1, <2>2
  <2>4. ms[x].parent = m
    BY <1>1, <1>4, <2>2, <2>3
  <2> QED
    BY <2>1, <2>2, <2>3, <2>4 DEF x
<1>10. \A m \in L \ {q} : \A i, j \in DOMAIN ms[m].children : ms[m].children[i] = ms[m].children[j] => i = j
  <2> TAKE m \in L \ {q}
  <2>1. ms[m].children = ns[m].children /\ m \in L
    BY <1>1, <1>4
  <2> QED
    BY <1>1, <2>1
<1>11. Linked(ms, c, L \ {q}, rank, M)
  BY <1>1, <1>5, <1>6, <1>7, <1>8, <1>9, <1>10, LinkedByFields
<1> QED
  BY <1>4, <1>11 DEF ms, D, LiftedRoot

(* A single child that takes its parent's place. *)
LiftedInner(ms, ns, r, g, q, c, L, rank, M) ==
  /\ Linked(ms, r, L, rank, M)
  /\ Relinked(ms, ns, DOMAIN ns)
  /\ \A m \in DOMAIN ns : m # q /\ m # c => ms[m].parent = ns[m].parent
  /\ \A m \in DOMAIN ns : m # g => ms[m].children = ns[m].children
  /\ Len(ms[g].children) = Len(ns[g].children)
  /\ \A i \in DOMAIN ns[g].children : ms[g].children[i] = IF ns[g].children[i] = q THEN c ELSE ns[g].children[i]
  /\ rank[g] < rank[q] /\ rank[q] < rank[c]

LEMMA LiftInnerLinked ==
  ASSUME NEW ns, NEW r, NEW L, NEW rank, NEW M, Linked(ns, r, L, rank, M),
         NEW g \in L, NEW at \in DOMAIN ns[g].children, NEW q \in L, ns[g].children[at] = q,
         Len(ns[q].children) = 1, NEW c, ns[q].children[1] = c
  PROVE  LiftedInner(ReplaceChild(ns, g, q, c), ns, r, g, q, c, L \ {q}, rank, M)
<1> DEFINE D == DOMAIN ns
           ms == ReplaceChild(ns, g, q, c)
           down == ReplaceAt(ns[g].children, at, c)
<1>1. /\ D \subseteq Addresses /\ ns \in [D -> NodeRecords] /\ M \in Nat /\ rank \in [D -> 0..M]
      /\ r \in L /\ L \subseteq D /\ ns[r].parent = None
      /\ \A m \in D : ~CanHaveChildren(ns[m]) => ns[m].children = <<>>
      /\ \A m \in D : \A i \in DOMAIN ns[m].children : ns[m].children[i] \in D /\ rank[m] < rank[ns[m].children[i]]
      /\ \A m \in L : \A i \in DOMAIN ns[m].children : ns[m].children[i] \in L /\ ns[ns[m].children[i]].parent = m
      /\ \A m \in L : \A i, j \in DOMAIN ns[m].children : ns[m].children[i] = ns[m].children[j] => i = j
      /\ \A m \in D : Len(ns[m].children) \in Nat /\ DOMAIN ns[m].children = 1..Len(ns[m].children)
  BY LinkedFields, SMTT(30)
<1>2. \A m \in D : m # None /\ rank[m] \in Nat
  BY LinkedFields
<1>3. /\ g \in D /\ q \in D /\ c \in L /\ c \in D /\ ns[q].parent = g /\ ns[c].parent = q
      /\ rank[g] < rank[q] /\ rank[q] < rank[c] /\ q # c /\ q # g /\ g # c
  <2>1. g \in D /\ q \in D /\ 1 \in DOMAIN ns[q].children
    BY <1>1
  <2>2. c \in L /\ c \in D /\ ns[c].parent = q /\ rank[q] < rank[c]
    BY <1>1, <2>1
  <2>3. ns[q].parent = g /\ rank[g] < rank[q]
    BY <1>1, <2>1
  <2>4. q # c /\ q # g /\ g # c
    BY <1>2, <2>1, <2>2, <2>3
  <2> QED
    BY <2>1, <2>2, <2>3, <2>4
<1>4. \A i \in DOMAIN ns[g].children : ns[g].children[i] = q => i = at
  BY <1>1
<1> HIDE DEF D
<1>5. /\ Relinked(ms, ns, D)
      /\ \A m \in D : /\ ms[m].parent = IF m = c THEN g ELSE IF m = q THEN None ELSE ns[m].parent
                      /\ ms[m].children = IF m = g THEN down ELSE ns[m].children
      /\ down \in Seq(Addresses) /\ Len(down) = Len(ns[g].children)
      /\ \A i \in DOMAIN ns[g].children : down[i] = IF i = at THEN c ELSE ns[g].children[i]
  <2>1. D \subseteq Addresses /\ ns \in [D -> NodeRecords] /\ g \in D /\ q \in D /\ c \in D /\ q # c /\ ns[g].children[at] = q
    BY <1>1, <1>3
  <2> QED
    BY <1>4, <2>1, ReplaceChildIs
<1> HIDE DEF ms, down
<1>6. DOMAIN down = DOMAIN ns[g].children
  <2>1. DOMAIN down = 1..Len(down)
    BY <1>5
  <2>2. DOMAIN ns[g].children = 1..Len(ns[g].children)
    BY <1>1, <1>3
  <2> QED
    BY <1>5, <2>1, <2>2
<1>7. ms \in [D -> NodeRecords] /\ \A m \in D : CanHaveChildren(ms[m]) <=> CanHaveChildren(ns[m])
  BY <1>5 DEF Relinked, CanHaveChildren
<1>8. r # q /\ r # c
  BY <1>1, <1>2, <1>3
<1>9. r \in L \ {q} /\ L \ {q} \subseteq D /\ ms[r].parent = None
  BY <1>1, <1>5, <1>8
<1>10. CanHaveChildren(ns[g])
  <2>1. DOMAIN <<>> = {}
    OBVIOUS
  <2> QED
    BY <1>1, <1>3, <2>1
<1>11. \A m \in D : ~CanHaveChildren(ms[m]) => ms[m].children = <<>>
  BY <1>1, <1>5, <1>7, <1>10
<1>12. \A m \in D : \A i \in DOMAIN ms[m].children :
          i \in DOMAIN ns[m].children /\ ms[m].children[i] = IF m = g /\ i = at THEN c ELSE ns[m].children[i]
  <2> TAKE m \in D
  <2> TAKE i \in DOMAIN ms[m].children
  <2>1. CASE m = g
    BY <1>5, <1>6, <2>1
  <2>2. CASE m # g
    BY <1>5, <2>2
  <2> QED
    BY <2>1, <2>2
<1>13. \A m \in D : \A i \in DOMAIN ms[m].children : ms[m].children[i] \in D /\ rank[m] < rank[ms[m].children[i]]
  <2> TAKE m \in D
  <2> TAKE i \in DOMAIN ms[m].children
  <2>1. CASE m = g /\ i = at
    <3>1. ms[m].children[i] = c
      BY <1>12, <2>1
    <3>2. rank[g] < rank[c]
      BY <1>2, <1>3
    <3> QED
      BY <1>3, <2>1, <3>1, <3>2
  <2>2. CASE ~(m = g /\ i = at)
    <3>1. i \in DOMAIN ns[m].children /\ ms[m].children[i] = ns[m].children[i]
      BY <1>12, <2>2
    <3> QED
      BY <1>1, <3>1
  <2> QED
    BY <2>1, <2>2
<1>14. \A m \in L \ {q} : \A i \in DOMAIN ms[m].children :
          \/ m = g /\ i = at /\ ms[m].children[i] = c
          \/ /\ i \in DOMAIN ns[m].children /\ ms[m].children[i] = ns[m].children[i]
             /\ ns[m].children[i] \in L /\ ns[m].children[i] # q /\ ns[m].children[i] # c /\ ns[ns[m].children[i]].parent = m
  <2> TAKE m \in L \ {q}
  <2> TAKE i \in DOMAIN ms[m].children
  <2>1. i \in DOMAIN ns[m].children /\ ms[m].children[i] = IF m = g /\ i = at THEN c ELSE ns[m].children[i]
    BY <1>1, <1>12
  <2>2. ASSUME ~(m = g /\ i = at)
        PROVE  /\ ns[m].children[i] \in L /\ ns[m].children[i] # q /\ ns[m].children[i] # c
               /\ ns[ns[m].children[i]].parent = m
    <3> DEFINE x == ns[m].children[i]
    <3>1. x \in L /\ ns[x].parent = m
      BY <1>1, <2>1
    <3>2. x # q
      <4>1. CASE m = g
        BY <1>4, <2>1, <2>2, <4>1
      <4>2. CASE m # g
        BY <1>3, <3>1, <4>2
      <4> QED
        BY <4>1, <4>2
    <3> HIDE DEF x
    <3>3. x # c
      BY <1>3, <3>1
    <3> QED
      BY <3>1, <3>2, <3>3 DEF x
  <2> QED
    BY <2>1, <2>2
<1>15. \A m \in L \ {q} : \A i \in DOMAIN ms[m].children : ms[m].children[i] \in L \ {q} /\ ms[ms[m].children[i]].parent = m
  <2> TAKE m \in L \ {q}
  <2> TAKE i \in DOMAIN ms[m].children
  <2>1. CASE m = g /\ i = at /\ ms[m].children[i] = c
    BY <1>3, <1>5, <2>1
  <2>2. CASE /\ i \in DOMAIN ns[m].children /\ ms[m].children[i] = ns[m].children[i]
             /\ ns[m].children[i] \in L /\ ns[m].children[i] # q /\ ns[m].children[i] # c /\ ns[ns[m].children[i]].parent = m
    BY <1>1, <1>5, <2>2, SMTT(30)
  <2> QED
    BY <1>14, <2>1, <2>2
<1>16. \A m \in L \ {q} : \A i, j \in DOMAIN ms[m].children : ms[m].children[i] = ms[m].children[j] => i = j
  <2> TAKE m \in L \ {q}
  <2> TAKE i, j \in DOMAIN ms[m].children
  <2>1. m \in L /\ \A x, y \in DOMAIN ns[m].children : ns[m].children[x] = ns[m].children[y] => x = y
    BY <1>1
  <2>2. \A x \in DOMAIN ms[m].children :
          \/ m = g /\ x = at /\ ms[m].children[x] = c
          \/ x \in DOMAIN ns[m].children /\ ms[m].children[x] = ns[m].children[x] /\ ns[m].children[x] # c
    BY <1>14
  <2> QED
    BY <2>1, <2>2
<1>17. Linked(ms, r, L \ {q}, rank, M)
  BY <1>1, <1>7, <1>9, <1>11, <1>13, <1>15, <1>16, LinkedByFields
<1> QED
  <2>1. /\ \A m \in D : m # q /\ m # c => ms[m].parent = ns[m].parent
        /\ \A m \in D : m # g => ms[m].children = ns[m].children
        /\ Len(ms[g].children) = Len(ns[g].children)
    BY <1>3, <1>5
  <2>2. \A i \in DOMAIN ns[g].children : ms[g].children[i] = IF ns[g].children[i] = q THEN c ELSE ns[g].children[i]
    BY <1>3, <1>4, <1>5
  <2> QED
    BY <1>3, <1>5, <1>17, <2>1, <2>2 DEF ms, D, LiftedInner

(* ms are the nodes ns and one more, to which nothing refers yet. *)
Added(ms, ns, r, L, a, node) ==
  /\ \E rank2, M2 : Linked(ms, r, L, rank2, M2)
  /\ DOMAIN ms = DOMAIN ns \cup {a} /\ ms[a] = node /\ a \notin L
  /\ \A m \in DOMAIN ns : m # a /\ ms[m] = ns[m]
  /\ NotHeld(ms, a)

LEMMA AddedNode ==
  ASSUME NEW ns, NEW r, NEW L, NEW rank, NEW M, Linked(ns, r, L, rank, M),
         NEW a \in Addresses \ DOMAIN ns, NEW node \in NodeRecords, node.children = <<>>
  PROVE  Added(WithNode(ns, a, node), ns, r, L, a, node)
<1> DEFINE D == DOMAIN ns
           ms == WithNode(ns, a, node)
           E == D \cup {a}
           rank2 == [m \in E |-> IF m = a THEN 0 ELSE rank[m]]
<1>1. /\ D \subseteq Addresses /\ ns \in [D -> NodeRecords] /\ M \in Nat /\ rank \in [D -> 0..M]
      /\ r \in L /\ L \subseteq D /\ ns[r].parent = None
      /\ \A m \in D : ~CanHaveChildren(ns[m]) => ns[m].children = <<>>
      /\ \A m \in D : \A i \in DOMAIN ns[m].children : ns[m].children[i] \in D /\ rank[m] < rank[ns[m].children[i]]
      /\ \A m \in L : \A i \in DOMAIN ns[m].children : ns[m].children[i] \in L /\ ns[ns[m].children[i]].parent = m
      /\ \A m \in L : \A i, j \in DOMAIN ns[m].children : ns[m].children[i] = ns[m].children[j] => i = j
  BY LinkedFields
<1>2. ms = [m \in E |-> IF m = a THEN node ELSE ns[m]]
  BY DEF WithNode
<1>3. a \notin D /\ a \in Addresses /\ a \notin L
  BY <1>1
<1> HIDE DEF D, ms
<1>4. DOMAIN ms = E /\ ms[a] = node /\ \A m \in D : m # a /\ ms[m] = ns[m]
  BY <1>2, <1>3
<1>5. ms \in [E -> NodeRecords] /\ E \subseteq Addresses /\ L \subseteq E
  BY <1>1, <1>2, <1>3
<1>6. rank2 \in [E -> 0..M] /\ \A m \in D : rank2[m] = rank[m]
  <2>1. 0 \in 0..M /\ \A m \in D : rank[m] \in 0..M
    BY <1>1
  <2> QED
    BY <1>3, <2>1
<1> HIDE DEF rank2
<1>7. DOMAIN node.children = {}
  OBVIOUS
<1>8. \A m \in E : \A i \in DOMAIN ms[m].children : m \in D /\ ms[m] = ns[m] /\ i \in DOMAIN ns[m].children
  <2> TAKE m \in E
  <2> TAKE i \in DOMAIN ms[m].children
  <2>1. m # a
    BY <1>4, <1>7
  <2> QED
    BY <1>4, <2>1
<1>9. \A m \in E : \A i \in DOMAIN ms[m].children : ms[m].children[i] \in E /\ rank2[m] < rank2[ms[m].children[i]]
  <2> TAKE m \in E
  <2> TAKE i \in DOMAIN ms[m].children
  <2>1. m \in D /\ ms[m] = ns[m] /\ i \in DOMAIN ns[m].children
    BY <1>8
  <2>2. ns[m].children[i] \in D /\ rank[m] < rank[ns[m].children[i]]
    BY <1>1, <2>1
  <2> QED
    BY <1>6, <2>1, <2>2
<1>10. \A m \in E : ~CanHaveChildren(ms[m]) => ms[m].children = <<>>
  <2> TAKE m \in E
  <2>1. CASE m = a
    BY <1>4, <2>1
  <2>2. CASE m \in D
    BY <1>1, <1>4, <2>2
  <2> QED
    BY <2>1, <2>2
<1>11. /\ \A m \in L : \A i \in DOMAIN ms[m].children : ms[m].children[i] \in L /\ ms[ms[m].children[i]].parent = m
       /\ \A m \in L : \A i, j \in DOMAIN ms[m].children : ms[m].children[i] = ms[m].children[j] => i = j
       /\ ms[r].parent = None
  <2>1. \A m \in L : ms[m] = ns[m]
    BY <1>1, <1>4
  <2> QED
    BY <1>1, <2>1
<1>12. Linked(ms, r, L, rank2, M)
  BY <1>1, <1>5, <1>6, <1>9, <1>10, <1>11, LinkedByFields
<1>13. \A m \in E : \A i \in DOMAIN ms[m].children : ms[m].children[i] # a
  <2> TAKE m \in E
  <2> TAKE i \in DOMAIN ms[m].children
  <2>1. m \in D /\ ms[m] = ns[m] /\ i \in DOMAIN ns[m].children
    BY <1>8
  <2> QED
    BY <1>1, <1>3, <2>1
<1> QED
  <2>1. NotHeld(ms, a)
    BY <1>4, <1>13 DEF NotHeld
  <2> QED
    BY <1>3, <1>4, <1>12, <2>1 DEF ms, D, Added

(* Each combinator has something to combine. *)
Branched(ns, L) == \A m \in L : CanHaveChildren(ns[m]) => Len(ns[m].children) >= 2

(* The nodes of the states. *)
Tree(ns, N, loose) == NumberedTo(ns, N) /\ (loose \/ Branched(ns, 1..N))

LEMMA ReferencedTree ==
  ASSUME NEW ns, NEW r, NEW L, NEW rank, NEW M, Linked(ns, r, L, rank, M), NEW loose, loose \/ Branched(ns, L)
  PROVE  \E N : Tree(ReferencedNodes(ns, r), N, loose)
<1> DEFINE s == PreOrder(ns, r)
           N == Len(s)
           R == ReferencedNodes(ns, r)
<1>1. NumberedTo(R, N) /\ Renumbers(ns, L, R, s)
  BY ReferencedNumbered
<1> HIDE DEF s, R
<1>2. \A i \in 1..N : s[i] \in L /\ R[i].kind = ns[s[i]].kind /\ Len(R[i].children) = Len(ns[s[i]].children)
  BY <1>1 DEF Renumbers
<1>3. Branched(ns, L) => Branched(R, 1..N)
  BY <1>2 DEF Branched, CanHaveChildren
<1> QED
  BY <1>1, <1>3 DEF Tree, R

(* The new addresses. *)
LEMMA FreshAre ==
  ASSUME NEW N \in Nat, DOMAIN nodes = 1..N, NEW count \in {1, 2}, N + count <= MaxNodes
  PROVE  /\ \A i \in 1..count : Fresh(count)[i] \in Addresses \ DOMAIN nodes
         /\ \A i, j \in 1..count : i < j => Fresh(count)[i] < Fresh(count)[j]
<1> DEFINE S == [1..count -> Addresses \ DOMAIN nodes]
           Up(s) == \A i, j \in 1..count : i < j => s[i] < s[j]
           w == [i \in 1..count |-> N + i]
<1>1. count \in Nat /\ MaxNodes \in Nat
  BY FilterEditorAssumption
<1>2. \A i \in 1..count : N + i \in Addresses \ DOMAIN nodes
  BY <1>1 DEF Addresses
<1>3. w \in S
  BY <1>2
<1>4. Up(w)
  BY <1>1
<1>5. Fresh(count) = CHOOSE s \in S : Up(s)
  BY DEF Fresh
<1> HIDE DEF S, Up, w
<1>6. Fresh(count) \in S /\ Up(Fresh(count))
  BY <1>3, <1>4, <1>5
<1> QED
  BY <1>6 DEF S, Up

LEMMA NewNodes ==
  /\ \A test \in AllTests : /\ Leaf(test) \in NodeRecords /\ Leaf(test).children = <<>> /\ ~CanHaveChildren(Leaf(test))
                            /\ Leaf(test).parent = None
  /\ \A kind \in Combinators : /\ Combinator(kind) \in NodeRecords /\ Combinator(kind).children = <<>>
                               /\ CanHaveChildren(Combinator(kind)) /\ Combinator(kind).parent = None
<1>1. <<>> \in Seq(Addresses) /\ None \in AllTests /\ "comparison" \notin Combinators
  BY DEF AllTests, Combinators
<1>2. ASSUME NEW test \in AllTests
      PROVE  /\ Leaf(test) \in NodeRecords /\ Leaf(test).children = <<>> /\ ~CanHaveChildren(Leaf(test))
             /\ Leaf(test).parent = None
  <2>1. Leaf(test) = [kind |-> "comparison", test |-> test, parent |-> None, children |-> <<>>]
    BY DEF Leaf
  <2>2. Leaf(test).kind = "comparison" /\ Leaf(test).children = <<>> /\ Leaf(test).parent = None
    BY <2>1
  <2>3. Leaf(test) \in NodeRecords
    BY <1>1, <2>1 DEF NodeRecords
  <2> QED
    BY <1>1, <2>2, <2>3 DEF CanHaveChildren
<1>3. ASSUME NEW kind \in Combinators
      PROVE  /\ Combinator(kind) \in NodeRecords /\ Combinator(kind).children = <<>>
             /\ CanHaveChildren(Combinator(kind)) /\ Combinator(kind).parent = None
  <2>1. Combinator(kind) = [kind |-> kind, test |-> None, parent |-> None, children |-> <<>>]
    BY DEF Combinator
  <2>2. Combinator(kind).kind = kind /\ Combinator(kind).children = <<>> /\ Combinator(kind).parent = None
    BY <2>1
  <2>3. Combinator(kind) \in NodeRecords
    BY <1>1, <2>1 DEF NodeRecords
  <2> QED
    BY <2>2, <2>3 DEF CanHaveChildren
<1> QED
  BY <1>2, <1>3

-----------------------------------------------------------------------------
(* What a tree means: the songs that satisfy it. *)

LEMMA ComparisonBoolean ==
  ASSUME NEW test, NEW song
  PROVE  IsComparisonSatisfiedBy(test, song) \in BOOLEAN
BY DEF IsComparisonSatisfiedBy

(* The value of a node by those of its children. *)
Combined(kind, test, values, song) ==
  CASE kind = "and" -> \A i \in DOMAIN values : values[i]
    [] kind = "or"  -> \E i \in DOMAIN values : values[i]
    [] OTHER        -> IsComparisonSatisfiedBy(test, song)

LEMMA CombinedIs ==
  ASSUME NEW kind, NEW test, NEW values, NEW song
  PROVE  /\ Combined(kind, test, values, song) \in BOOLEAN
         /\ kind = "and" => (Combined(kind, test, values, song) <=> \A i \in DOMAIN values : values[i])
         /\ kind = "or" => (Combined(kind, test, values, song) <=> \E i \in DOMAIN values : values[i])
         /\ kind \notin {"and", "or"} => (Combined(kind, test, values, song) <=> IsComparisonSatisfiedBy(test, song))
<1>1. CASE kind = "and"
  <2>1. Combined(kind, test, values, song) = \A i \in DOMAIN values : values[i]
    BY <1>1 DEF Combined
  <2> QED
    BY <1>1, <2>1
<1>2. CASE kind = "or"
  <2>1. Combined(kind, test, values, song) = \E i \in DOMAIN values : values[i]
    BY <1>2 DEF Combined
  <2> QED
    BY <1>2, <2>1
<1>3. CASE kind \notin {"and", "or"}
  <2>1. Combined(kind, test, values, song) = IsComparisonSatisfiedBy(test, song)
    BY <1>3 DEF Combined
  <2> QED
    BY <1>3, <2>1, ComparisonBoolean
<1> QED
  BY <1>1, <1>2, <1>3

(* The recursive function of IsSatisfiedBy exists. *)
LEMMA SatisfiedUnfolds ==
  ASSUME NEW ns, NEW rank, NEW M, IsForest(DOMAIN ns, Kids(ns), rank, M), NEW song, NEW n \in DOMAIN ns
  PROVE  /\ IsSatisfiedBy(ns, n, song) \in BOOLEAN
         /\ ns[n].kind = "and" => (IsSatisfiedBy(ns, n, song) <=> \A i \in DOMAIN ns[n].children : IsSatisfiedBy(ns, ns[n].children[i], song))
         /\ ns[n].kind = "or" => (IsSatisfiedBy(ns, n, song) <=> \E i \in DOMAIN ns[n].children : IsSatisfiedBy(ns, ns[n].children[i], song))
         /\ ns[n].kind \notin {"and", "or"} => (IsSatisfiedBy(ns, n, song) <=> IsComparisonSatisfiedBy(ns[n].test, song))
<1> DEFINE D == DOMAIN ns
           kids == Kids(ns)
           G(m, f) == CASE ns[m].kind = "and" -> \A i \in DOMAIN ns[m].children : f[ns[m].children[i]]
                        [] ns[m].kind = "or"  -> \E i \in DOMAIN ns[m].children : f[ns[m].children[i]]
                        [] OTHER              -> IsComparisonSatisfiedBy(ns[m].test, song)
           F(f) == [m \in D |-> G(m, f)]
           satisfied == CHOOSE f : f = F(f)
           step == [x \in D \X Seq(BOOLEAN) |-> Combined(ns[x[1]].kind, ns[x[1]].test, x[2], song)]
<1>1. \A m : IsSatisfiedBy(ns, m, song) = satisfied[m]
  BY DEF IsSatisfiedBy
<1>2. IsForest(D, kids, rank, M) /\ n \in D /\ \A m \in D : kids[m] = ns[m].children
  BY DEF Kids
<1>3. \E f : f = F(f)
  <2> HIDE DEF kids, D
  <2>1. IsStep(step, D, BOOLEAN)
    <3>1. \A m \in D, v \in Seq(BOOLEAN) : Combined(ns[m].kind, ns[m].test, v, song) \in BOOLEAN
      BY CombinedIs
    <3> QED
      BY <3>1 DEF IsStep
  <2>2. PICK g : TreeFollows(g, D, kids, BOOLEAN, step)
    BY <1>2, <2>1, TreeRecursion
  <2>3. g \in [D -> BOOLEAN] /\ \A m \in D : g[m] = step[<<m, OfChildren(g, kids, m)>>]
    BY <2>2 DEF TreeFollows
  <2>4. \A m \in D : G(m, g) = g[m]
    <3> TAKE m \in D
    <3> DEFINE v == [i \in DOMAIN ns[m].children |-> g[ns[m].children[i]]]
    <3>1. OfChildren(g, kids, m) = v
      BY <1>2 DEF OfChildren
    <3>2. v \in Seq(BOOLEAN)
      <4>1. kids[m] \in Seq(D) /\ kids[m] = ns[m].children
        BY <1>2 DEF IsForest
      <4>2. ns[m].children \in Seq(D)
        BY <4>1
      <4>3. \A i \in 1..Len(ns[m].children) : ns[m].children[i] \in D
        BY <4>2
      <4>4. Len(ns[m].children) \in Nat /\ DOMAIN ns[m].children = 1..Len(ns[m].children)
        BY <4>2
      <4>5. v \in [1..Len(ns[m].children) -> BOOLEAN]
        BY <2>3, <4>3, <4>4
      <4> QED
        BY <4>4, <4>5, IsASeq
    <3>3. DOMAIN v = DOMAIN ns[m].children /\ \A i \in DOMAIN v : v[i] = g[ns[m].children[i]]
      OBVIOUS
    <3> HIDE DEF v
    <3>4. g[m] = Combined(ns[m].kind, ns[m].test, v, song)
      BY <2>3, <3>1, <3>2
    <3>5. CASE ns[m].kind = "and"
      <4>1. G(m, g) = \A i \in DOMAIN ns[m].children : g[ns[m].children[i]]
        BY <3>5
      <4>2. Combined(ns[m].kind, ns[m].test, v, song) = \A i \in DOMAIN v : v[i]
        BY <3>5 DEF Combined
      <4>3. (\A i \in DOMAIN v : v[i]) <=> (\A i \in DOMAIN ns[m].children : g[ns[m].children[i]])
        BY <3>3
      <4> QED
        BY <3>4, <4>1, <4>2, <4>3
    <3>6. CASE ns[m].kind = "or"
      <4>1. G(m, g) = \E i \in DOMAIN ns[m].children : g[ns[m].children[i]]
        BY <3>6
      <4>2. Combined(ns[m].kind, ns[m].test, v, song) = \E i \in DOMAIN v : v[i]
        BY <3>6 DEF Combined
      <4>3. (\E i \in DOMAIN v : v[i]) <=> (\E i \in DOMAIN ns[m].children : g[ns[m].children[i]])
        BY <3>3
      <4> QED
        BY <3>4, <4>1, <4>2, <4>3
    <3>7. CASE ns[m].kind # "and" /\ ns[m].kind # "or"
      <4>1. G(m, g) = IsComparisonSatisfiedBy(ns[m].test, song)
        BY <3>7
      <4>2. Combined(ns[m].kind, ns[m].test, v, song) = IsComparisonSatisfiedBy(ns[m].test, song)
        BY <3>7 DEF Combined
      <4> QED
        BY <3>4, <4>1, <4>2
    <3> QED
      BY <3>5, <3>6, <3>7
  <2>5. g = F(g)
    <3> HIDE DEF G
    <3> QED
      BY <2>3, <2>4
  <2> HIDE DEF F
  <2> QED
    BY <2>5
<1>4. satisfied = F(satisfied)
  <2> HIDE DEF F
  <2> QED
    BY <1>3
<1> HIDE DEF satisfied
<1>5. satisfied[n] = G(n, satisfied)
  <2> HIDE DEF G
  <2> QED
    BY <1>4
<1>6. CASE ns[n].kind = "and"
  <2>1. satisfied[n] = \A i \in DOMAIN ns[n].children : satisfied[ns[n].children[i]]
    BY <1>5, <1>6
  <2> QED
    BY <1>1, <1>6, <2>1
<1>7. CASE ns[n].kind = "or"
  <2>1. satisfied[n] = \E i \in DOMAIN ns[n].children : satisfied[ns[n].children[i]]
    BY <1>5, <1>7
  <2> QED
    BY <1>1, <1>7, <2>1
<1>8. CASE ns[n].kind # "and" /\ ns[n].kind # "or"
  <2>1. satisfied[n] = IsComparisonSatisfiedBy(ns[n].test, song)
    BY <1>5, <1>8
  <2> QED
    BY <1>1, <1>8, <2>1, ComparisonBoolean
<1> QED
  BY <1>6, <1>7, <1>8

(* The values of the nodes ns are as the combinators define them. *)
Meant(ns, song) ==
  \A n \in DOMAIN ns :
    /\ IsSatisfiedBy(ns, n, song) \in BOOLEAN
    /\ ns[n].kind = "and" => (IsSatisfiedBy(ns, n, song) <=> \A i \in DOMAIN ns[n].children : IsSatisfiedBy(ns, ns[n].children[i], song))
    /\ ns[n].kind = "or" => (IsSatisfiedBy(ns, n, song) <=> \E i \in DOMAIN ns[n].children : IsSatisfiedBy(ns, ns[n].children[i], song))
    /\ ns[n].kind \notin {"and", "or"} => (IsSatisfiedBy(ns, n, song) <=> IsComparisonSatisfiedBy(ns[n].test, song))

LEMMA LinkedMeant ==
  ASSUME NEW ns, NEW r, NEW L, NEW rank, NEW M, Linked(ns, r, L, rank, M), NEW song
  PROVE  Meant(ns, song)
<1>1. IsForest(DOMAIN ns, Kids(ns), rank, M)
  BY DEF Linked
<1> QED
  BY <1>1, SatisfiedUnfolds DEF Meant

(* The value of m in ms is that of its children in ns. *)
MeansChildren(ms, ns, m, song) ==
  /\ ms[m].kind = ns[m].kind /\ ms[m].test = ns[m].test
  /\ ns[m].kind = "and" => (IsSatisfiedBy(ms, m, song) <=> \A i \in DOMAIN ns[m].children : IsSatisfiedBy(ms, ns[m].children[i], song))
  /\ ns[m].kind = "or" => (IsSatisfiedBy(ms, m, song) <=> \E i \in DOMAIN ns[m].children : IsSatisfiedBy(ms, ns[m].children[i], song))

(* Nodes of which this is so mean what they did. *)
LEMMA SameMeaning ==
  ASSUME NEW ns, NEW r, NEW L, NEW rank, NEW M, Linked(ns, r, L, rank, M), NEW song,
         NEW ms, Meant(ms, song), L \subseteq DOMAIN ms, \A m \in L : MeansChildren(ms, ns, m, song)
  PROVE  \A m \in L : IsSatisfiedBy(ms, m, song) <=> IsSatisfiedBy(ns, m, song)
<1> DEFINE D == DOMAIN ns
           kids == Kids(ns)
           P == {m \in D : m \in L => (IsSatisfiedBy(ms, m, song) <=> IsSatisfiedBy(ns, m, song))}
<1>1. Meant(ns, song)
  BY LinkedMeant
<1>2. IsForest(D, kids, rank, M) /\ \A m \in D : kids[m] = ns[m].children
  BY DEF Linked, Kids
<1>3. L \subseteq D /\ \A m \in L : \A i \in DOMAIN ns[m].children : ns[m].children[i] \in L
  BY DEF Linked
<1> HIDE DEF kids, D
<1>4. ASSUME NEW m \in D, \A i \in DOMAIN kids[m] : kids[m][i] \in P
      PROVE  m \in P
  <2> SUFFICES ASSUME m \in L
               PROVE  IsSatisfiedBy(ms, m, song) <=> IsSatisfiedBy(ns, m, song)
    OBVIOUS
  <2>1. \A i \in DOMAIN ns[m].children : IsSatisfiedBy(ms, ns[m].children[i], song) <=> IsSatisfiedBy(ns, ns[m].children[i], song)
    BY <1>2, <1>3, <1>4
  <2>2. ms[m].kind = ns[m].kind /\ ms[m].test = ns[m].test
    BY DEF MeansChildren
  <2>3. CASE ns[m].kind = "and"
    <3>1. IsSatisfiedBy(ms, m, song) <=> \A i \in DOMAIN ns[m].children : IsSatisfiedBy(ms, ns[m].children[i], song)
      BY <2>3 DEF MeansChildren
    <3>2. IsSatisfiedBy(ns, m, song) <=> \A i \in DOMAIN ns[m].children : IsSatisfiedBy(ns, ns[m].children[i], song)
      BY <1>1, <2>3 DEF Meant, D
    <3> QED
      BY <2>1, <3>1, <3>2
  <2>4. CASE ns[m].kind = "or"
    <3>1. IsSatisfiedBy(ms, m, song) <=> \E i \in DOMAIN ns[m].children : IsSatisfiedBy(ms, ns[m].children[i], song)
      BY <2>4 DEF MeansChildren
    <3>2. IsSatisfiedBy(ns, m, song) <=> \E i \in DOMAIN ns[m].children : IsSatisfiedBy(ns, ns[m].children[i], song)
      BY <1>1, <2>4 DEF Meant, D
    <3> QED
      BY <2>1, <3>1, <3>2
  <2>5. CASE ns[m].kind \notin {"and", "or"}
    <3>1. IsSatisfiedBy(ns, m, song) <=> IsComparisonSatisfiedBy(ns[m].test, song)
      BY <1>1, <2>5 DEF Meant, D
    <3>2. m \in DOMAIN ms /\ ms[m].kind \notin {"and", "or"}
      BY <2>2, <2>5
    <3>3. IsSatisfiedBy(ms, m, song) <=> IsComparisonSatisfiedBy(ms[m].test, song)
      BY <3>2 DEF Meant
    <3> QED
      BY <2>2, <3>1, <3>3
  <2> QED
    BY <2>3, <2>4, <2>5
<1> HIDE DEF P
<1>5. \A m \in D : m \in P
  BY <1>2, <1>4, TreeInduction
<1> QED
  BY <1>3, <1>5 DEF P

(* A node with as many children, each of which has the value of the old one in its place. *)
LEMMA ChildrenMean ==
  ASSUME NEW ms, NEW ns, NEW m \in DOMAIN ms, NEW song, Meant(ms, song),
         ms[m].kind = ns[m].kind, ms[m].test = ns[m].test, DOMAIN ms[m].children = DOMAIN ns[m].children,
         \A i \in DOMAIN ns[m].children : IsSatisfiedBy(ms, ms[m].children[i], song) <=> IsSatisfiedBy(ms, ns[m].children[i], song)
  PROVE  MeansChildren(ms, ns, m, song)
<1>1. ASSUME ns[m].kind = "and"
      PROVE  IsSatisfiedBy(ms, m, song) <=> \A i \in DOMAIN ns[m].children : IsSatisfiedBy(ms, ns[m].children[i], song)
  <2>1. IsSatisfiedBy(ms, m, song) <=> \A i \in DOMAIN ms[m].children : IsSatisfiedBy(ms, ms[m].children[i], song)
    BY <1>1 DEF Meant
  <2> QED
    BY <2>1
<1>2. ASSUME ns[m].kind = "or"
      PROVE  IsSatisfiedBy(ms, m, song) <=> \E i \in DOMAIN ns[m].children : IsSatisfiedBy(ms, ns[m].children[i], song)
  <2>1. IsSatisfiedBy(ms, m, song) <=> \E i \in DOMAIN ms[m].children : IsSatisfiedBy(ms, ms[m].children[i], song)
    BY <1>2 DEF Meant
  <2> QED
    BY <2>1
<1> QED
  BY <1>1, <1>2 DEF MeansChildren

(* A combinator with a single child has its value. *)
LEMMA SingleChildMeans ==
  ASSUME NEW ms, NEW a \in DOMAIN ms, NEW song, Meant(ms, song), CanHaveChildren(ms[a]),
         DOMAIN ms[a].children = 1..1, NEW c, c = ms[a].children[1]
  PROVE  IsSatisfiedBy(ms, a, song) <=> IsSatisfiedBy(ms, c, song)
<1>1. DOMAIN ms[a].children = {1}
  OBVIOUS
<1>2. CASE ms[a].kind = "and"
  <2>1. IsSatisfiedBy(ms, a, song) <=> \A i \in DOMAIN ms[a].children : IsSatisfiedBy(ms, ms[a].children[i], song)
    BY <1>2 DEF Meant
  <2> QED
    BY <1>1, <2>1
<1>3. CASE ms[a].kind = "or"
  <2>1. IsSatisfiedBy(ms, a, song) <=> \E i \in DOMAIN ms[a].children : IsSatisfiedBy(ms, ms[a].children[i], song)
    BY <1>3 DEF Meant
  <2> QED
    BY <1>1, <2>1
<1> QED
  BY <1>2, <1>3 DEF CanHaveChildren, Combinators

(* Numbered anew, the tree means the same. *)
LEMMA ReferencedMeans ==
  ASSUME NEW ns, NEW r, NEW L, NEW rank, NEW M, Linked(ns, r, L, rank, M), NEW song
  PROVE  IsSatisfiedBy(ReferencedNodes(ns, r), 1, song) <=> IsSatisfiedBy(ns, r, song)
<1> DEFINE R == ReferencedNodes(ns, r)
           s == PreOrder(ns, r)
           N == Len(s)
           D == 1..N
           kids == Kids(R)
           id == [n \in 1..N |-> n]
           P == {i \in D : IsSatisfiedBy(R, i, song) <=> IsSatisfiedBy(ns, s[i], song)}
<1>1. NumberedTo(R, N) /\ Renumbers(ns, L, R, s) /\ s[1] = r
  BY ReferencedNumbered
<1> HIDE DEF R, s
<1>2. Linked(R, 1, D, id, N) /\ DOMAIN R = D /\ 1 \in D
  <2>1. Linked(R, 1, D, id, N)
    BY <1>1, NumberedLinked
  <2>2. DOMAIN R = 1..N /\ N \in 1..MaxNodes
    BY <1>1 DEF NumberedTo
  <2>3. 1 \in 1..N
    BY <2>2, FilterEditorAssumption
  <2> QED
    BY <2>1, <2>2, <2>3
<1>3. Meant(R, song) /\ Meant(ns, song)
  BY <1>2, LinkedMeant
<1>4. IsForest(D, kids, id, N) /\ \A m \in D : kids[m] = R[m].children
  BY <1>2 DEF Linked, Kids
<1>5. L \subseteq DOMAIN ns
  BY DEF Linked
<1> HIDE DEF kids, D, id
<1>6. ASSUME NEW i \in D, \A k \in DOMAIN kids[i] : kids[i][k] \in P
      PROVE  i \in P
  <2>1. /\ s[i] \in DOMAIN ns /\ R[i].kind = ns[s[i]].kind /\ R[i].test = ns[s[i]].test
        /\ DOMAIN R[i].children = DOMAIN ns[s[i]].children
        /\ \A c \in DOMAIN ns[s[i]].children : s[R[i].children[c]] = ns[s[i]].children[c]
    BY <1>1, <1>5 DEF Renumbers, D
  <2>2. \A c \in DOMAIN ns[s[i]].children : IsSatisfiedBy(R, R[i].children[c], song) <=> IsSatisfiedBy(ns, ns[s[i]].children[c], song)
    BY <1>4, <1>6, <2>1
  <2>3. CASE ns[s[i]].kind = "and"
    <3>1. IsSatisfiedBy(R, i, song) <=> \A c \in DOMAIN R[i].children : IsSatisfiedBy(R, R[i].children[c], song)
      BY <1>2, <1>3, <2>1, <2>3 DEF Meant
    <3>2. IsSatisfiedBy(ns, s[i], song) <=> \A c \in DOMAIN ns[s[i]].children : IsSatisfiedBy(ns, ns[s[i]].children[c], song)
      BY <1>3, <2>1, <2>3 DEF Meant
    <3> QED
      BY <2>1, <2>2, <3>1, <3>2
  <2>4. CASE ns[s[i]].kind = "or"
    <3>1. IsSatisfiedBy(R, i, song) <=> \E c \in DOMAIN R[i].children : IsSatisfiedBy(R, R[i].children[c], song)
      BY <1>2, <1>3, <2>1, <2>4 DEF Meant
    <3>2. IsSatisfiedBy(ns, s[i], song) <=> \E c \in DOMAIN ns[s[i]].children : IsSatisfiedBy(ns, ns[s[i]].children[c], song)
      BY <1>3, <2>1, <2>4 DEF Meant
    <3> QED
      BY <2>1, <2>2, <3>1, <3>2
  <2>5. CASE ns[s[i]].kind \notin {"and", "or"}
    <3>1. IsSatisfiedBy(R, i, song) <=> IsComparisonSatisfiedBy(R[i].test, song)
      BY <1>2, <1>3, <2>1, <2>5 DEF Meant
    <3>2. IsSatisfiedBy(ns, s[i], song) <=> IsComparisonSatisfiedBy(ns[s[i]].test, song)
      BY <1>3, <2>1, <2>5 DEF Meant
    <3> QED
      BY <2>1, <3>1, <3>2
  <2> QED
    BY <2>3, <2>4, <2>5
<1> HIDE DEF P
<1>7. \A i \in D : i \in P
  BY <1>4, <1>6, TreeInduction
<1>8. IsSatisfiedBy(R, 1, song) <=> IsSatisfiedBy(ns, s[1], song)
  BY <1>2, <1>7 DEF P
<1> QED
  BY <1>1, <1>8 DEF R

(* A node that nothing refers to means nothing to the others. *)
LEMMA AddedMeans ==
  ASSUME NEW ns, NEW r, NEW L, NEW rank, NEW M, Linked(ns, r, L, rank, M), NEW song,
         NEW ms, NEW a, NEW node, Added(ms, ns, r, L, a, node)
  PROVE  \A m \in L : IsSatisfiedBy(ms, m, song) <=> IsSatisfiedBy(ns, m, song)
<1>1. PICK rank2, M2 : Linked(ms, r, L, rank2, M2)
  BY DEF Added
<1>2. Meant(ms, song)
  BY <1>1, LinkedMeant
<1>3. \A m \in L : m \in DOMAIN ms /\ ms[m] = ns[m]
  BY DEF Added, Linked
<1>4. \A m \in L : MeansChildren(ms, ns, m, song)
  <2> TAKE m \in L
  <2>1. ms[m] = ns[m] /\ m \in DOMAIN ms
    BY <1>3
  <2> QED
    BY <1>2, <2>1, ChildrenMean
<1> QED
  BY <1>2, <1>3, <1>4, SameMeaning

(* A combinator that takes the place of a node means what the node did. *)
LEMMA CoverMeans ==
  ASSUME NEW ns, NEW r, NEW L, NEW rank, NEW M, Linked(ns, r, L, rank, M), NEW song,
         NEW n \in L, NEW a \in DOMAIN ns \ L, CanHaveChildren(ns[a]),
         NEW ms, Relinked(ms, ns, DOMAIN ns), Covers(ms, ns, L, n, a), Meant(ms, song)
  PROVE  /\ \A m \in L : IsSatisfiedBy(ms, m, song) <=> IsSatisfiedBy(ns, m, song)
         /\ IsSatisfiedBy(ms, a, song) <=> IsSatisfiedBy(ns, n, song)
<1> DEFINE D == DOMAIN ns
<1>1. /\ L \subseteq D /\ n \in D /\ a \in D /\ a \notin L /\ DOMAIN ms = D /\ ms \in [D -> NodeRecords] /\ ns \in [D -> NodeRecords]
      /\ \A m \in D : ms[m].kind = ns[m].kind /\ ms[m].test = ns[m].test
  BY LinkedFields DEF Relinked
<1>2. \A m \in D : DOMAIN ms[m].children = 1..Len(ms[m].children) /\ DOMAIN ns[m].children = 1..Len(ns[m].children)
  BY <1>1, NodeIs
<1>3. IsSatisfiedBy(ms, a, song) <=> IsSatisfiedBy(ms, n, song)
  <2>1. DOMAIN ms[a].children = 1..1 /\ n = ms[a].children[1]
    BY <1>1, <1>2 DEF Covers
  <2>2. CanHaveChildren(ms[a])
    BY <1>1 DEF CanHaveChildren
  <2> QED
    BY <1>1, <2>1, <2>2, SingleChildMeans
<1>4. \A m \in L : MeansChildren(ms, ns, m, song)
  <2> TAKE m \in L
  <2>1. /\ m \in D /\ m # a
        /\ \A i \in DOMAIN ns[m].children : ms[m].children[i] = IF ns[m].children[i] = n THEN a ELSE ns[m].children[i]
    BY <1>1 DEF Covers
  <2>2. DOMAIN ms[m].children = DOMAIN ns[m].children
    BY <1>1, <1>2, <2>1 DEF Covers
  <2>3. \A i \in DOMAIN ns[m].children :
          IsSatisfiedBy(ms, ms[m].children[i], song) <=> IsSatisfiedBy(ms, ns[m].children[i], song)
    BY <1>3, <2>1
  <2> QED
    BY <1>1, <2>1, <2>2, <2>3, ChildrenMean
<1>5. \A m \in L : IsSatisfiedBy(ms, m, song) <=> IsSatisfiedBy(ns, m, song)
  BY <1>1, <1>4, SameMeaning
<1> QED
  BY <1>3, <1>5

(* The comparison neither adds a song to what its siblings under the combinator let through, nor takes one. *)
IsNeutral(test, kind, song) == IsComparisonSatisfiedBy(test, song) <=> kind = "and"

(* A neutral leaf changes the value of no node. *)
LEMMA LeafMeans ==
  ASSUME NEW ns, NEW r, NEW L, NEW rank, NEW M, Linked(ns, r, L, rank, M), NEW song,
         NEW p \in L, CanHaveChildren(ns[p]), NEW b \in DOMAIN ns \ L, ~CanHaveChildren(ns[b]),
         IsNeutral(ns[b].test, ns[p].kind, song), Meant(AddChild(ns, p, b), song)
  PROVE  \A m \in L : IsSatisfiedBy(AddChild(ns, p, b), m, song) <=> IsSatisfiedBy(ns, m, song)
<1> DEFINE D == DOMAIN ns
           ms == AddChild(ns, p, b)
           ch == ns[p].children
           down == Append(ch, b)
<1>1. /\ D \subseteq Addresses /\ ns \in [D -> NodeRecords] /\ L \subseteq D /\ p \in D /\ b \in D /\ b \notin L
  BY LinkedFields
<1>2. /\ Relinked(ms, ns, D)
      /\ \A m \in D : ms[m].children = IF m = p THEN down ELSE ns[m].children
  BY <1>1, AddChildIs
<1>3. Len(ch) \in Nat /\ DOMAIN ch = 1..Len(ch) /\ ch \in Seq(Addresses)
  BY <1>1, NodeIs
<1>4. /\ DOMAIN down = 1..(Len(ch) + 1) /\ down[Len(ch) + 1] = b
      /\ \A i \in DOMAIN ch : i \in DOMAIN down /\ down[i] = ch[i]
      /\ \A i \in DOMAIN down : i \in DOMAIN ch \/ i = Len(ch) + 1
  <2>1. DOMAIN down = 1..(Len(ch) + 1) /\ down[Len(ch) + 1] = b /\ \A i \in 1..Len(ch) : down[i] = ch[i]
    BY <1>1, <1>3
  <2> HIDE DEF down, ch
  <2>2. \A i \in 1..Len(ch) : i \in 1..(Len(ch) + 1)
    BY <1>3
  <2>3. \A i \in 1..(Len(ch) + 1) : i \in 1..Len(ch) \/ i = Len(ch) + 1
    BY <1>3
  <2> QED
    BY <1>3, <2>1, <2>2, <2>3
<1>5. Len(ch) + 1 \in DOMAIN down
  BY <1>3, <1>4
<1> HIDE DEF ms, down
<1>6. DOMAIN ms = D /\ \A m \in D : ms[m].kind = ns[m].kind /\ ms[m].test = ns[m].test
  BY <1>2 DEF Relinked
<1>7. Meant(ms, song)
  BY DEF ms
<1>8. IsSatisfiedBy(ms, b, song) <=> ns[p].kind = "and"
  <2>1. ms[b].kind \notin {"and", "or"} /\ ms[b].test = ns[b].test
    BY <1>1, <1>6 DEF CanHaveChildren, Combinators
  <2>2. IsSatisfiedBy(ms, b, song) <=> IsComparisonSatisfiedBy(ms[b].test, song)
    BY <1>1, <1>6, <1>7, <2>1 DEF Meant
  <2> QED
    BY <2>1, <2>2 DEF IsNeutral
<1>9. MeansChildren(ms, ns, p, song)
  <2>1. ASSUME ns[p].kind = "and"
        PROVE  IsSatisfiedBy(ms, p, song) <=> \A i \in DOMAIN ns[p].children : IsSatisfiedBy(ms, ns[p].children[i], song)
    <3>1. IsSatisfiedBy(ms, p, song) <=> \A i \in DOMAIN ms[p].children : IsSatisfiedBy(ms, ms[p].children[i], song)
      BY <1>1, <1>6, <1>7, <2>1 DEF Meant
    <3>2. IsSatisfiedBy(ms, p, song) <=> \A i \in DOMAIN down : IsSatisfiedBy(ms, down[i], song)
      BY <1>1, <1>2, <3>1
    <3>3. (\A i \in DOMAIN down : IsSatisfiedBy(ms, down[i], song)) <=> (\A i \in DOMAIN ch : IsSatisfiedBy(ms, ch[i], song))
      BY <1>4, <1>8, <2>1
    <3> QED
      BY <3>2, <3>3
  <2>2. ASSUME ns[p].kind = "or"
        PROVE  IsSatisfiedBy(ms, p, song) <=> \E i \in DOMAIN ns[p].children : IsSatisfiedBy(ms, ns[p].children[i], song)
    <3>1. IsSatisfiedBy(ms, p, song) <=> \E i \in DOMAIN ms[p].children : IsSatisfiedBy(ms, ms[p].children[i], song)
      BY <1>1, <1>6, <1>7, <2>2 DEF Meant
    <3>2. IsSatisfiedBy(ms, p, song) <=> \E i \in DOMAIN down : IsSatisfiedBy(ms, down[i], song)
      BY <1>1, <1>2, <3>1
    <3>3. (\E i \in DOMAIN down : IsSatisfiedBy(ms, down[i], song)) <=> (\E i \in DOMAIN ch : IsSatisfiedBy(ms, ch[i], song))
      BY <1>4, <1>8, <2>2
    <3> QED
      BY <3>2, <3>3
  <2> QED
    BY <1>1, <1>6, <2>1, <2>2 DEF MeansChildren
<1>10. \A m \in L : MeansChildren(ms, ns, m, song)
  <2> TAKE m \in L
  <2>1. CASE m = p
    BY <1>9, <2>1
  <2>2. CASE m # p
    <3>1. m \in DOMAIN ms /\ ms[m].kind = ns[m].kind /\ ms[m].test = ns[m].test /\ ms[m].children = ns[m].children
      BY <1>1, <1>2, <1>6, <2>2
    <3> QED
      BY <1>7, <3>1, ChildrenMean
  <2> QED
    BY <2>1, <2>2
<1>11. \A m \in L : IsSatisfiedBy(ms, m, song) <=> IsSatisfiedBy(ns, m, song)
  BY <1>1, <1>6, <1>7, <1>10, SameMeaning
<1> QED
  BY <1>11 DEF ms

(* R is a tree, which means what ns means from r on, if a leaf with the test is neutral under a combinator of the kind. *)
Grown(R, ns, r, test, kind, loose) ==
  /\ \E K : Tree(R, K, loose)
  /\ \A song : IsNeutral(test, kind, song) => (IsSatisfiedBy(R, 1, song) <=> IsSatisfiedBy(ns, r, song))

LEMMA GrownFrom ==
  ASSUME NEW R, NEW ms, NEW q, NEW test, NEW kind, NEW loose, Grown(R, ms, q, test, kind, loose),
         NEW ns, NEW r, \A song : IsSatisfiedBy(ms, q, song) <=> IsSatisfiedBy(ns, r, song)
  PROVE  Grown(R, ns, r, test, kind, loose)
BY DEF Grown

-----------------------------------------------------------------------------
(* What a tree means without one of its subtrees. *)

CombinedWithout(kind, test, children, gone, values, song) ==
  CASE kind = "and" -> \A i \in DOMAIN children : children[i] # gone => values[i]
    [] kind = "or"  -> \E i \in DOMAIN children : children[i] # gone /\ values[i]
    [] OTHER        -> IsComparisonSatisfiedBy(test, song)

LEMMA CombinedWithoutIs ==
  ASSUME NEW kind, NEW test, NEW children, NEW gone, NEW values, NEW song
  PROVE  CombinedWithout(kind, test, children, gone, values, song) \in BOOLEAN
<1>1. CASE kind = "and"
  BY <1>1 DEF CombinedWithout
<1>2. CASE kind = "or"
  BY <1>2 DEF CombinedWithout
<1>3. CASE kind # "and" /\ kind # "or"
  <2>1. CombinedWithout(kind, test, children, gone, values, song) = IsComparisonSatisfiedBy(test, song)
    BY <1>3 DEF CombinedWithout
  <2> QED
    BY <2>1, ComparisonBoolean
<1> QED
  BY <1>1, <1>2, <1>3

(* The values of the nodes ns without gone are as the combinators define them. *)
MeantWithout(ns, gone, song) ==
  \A n \in DOMAIN ns :
    /\ ns[n].kind = "and" => (SatisfiesWithout(ns, n, gone, song) <=>
                                \A c \in Range(ns[n].children) \ {gone} : SatisfiesWithout(ns, c, gone, song))
    /\ ns[n].kind = "or" => (SatisfiesWithout(ns, n, gone, song) <=>
                                \E c \in Range(ns[n].children) \ {gone} : SatisfiesWithout(ns, c, gone, song))
    /\ ns[n].kind \notin {"and", "or"} => (SatisfiesWithout(ns, n, gone, song) <=> IsComparisonSatisfiedBy(ns[n].test, song))

(* The recursive function of SatisfiesWithout exists. *)
LEMMA WithoutMeant ==
  ASSUME NEW ns, NEW r, NEW L, NEW rank, NEW M, Linked(ns, r, L, rank, M), NEW gone, NEW song
  PROVE  MeantWithout(ns, gone, song)
<1> DEFINE D == DOMAIN ns
           kids == Kids(ns)
           Left(m) == Range(ns[m].children) \ {gone}
           G(m, f) == CASE ns[m].kind = "and" -> \A c \in Left(m) : f[c]
                        [] ns[m].kind = "or"  -> \E c \in Left(m) : f[c]
                        [] OTHER              -> IsComparisonSatisfiedBy(ns[m].test, song)
           F(f) == [m \in D |-> G(m, f)]
           satisfied == CHOOSE f : f = F(f)
           step == [x \in D \X Seq(BOOLEAN) |->
                     CombinedWithout(ns[x[1]].kind, ns[x[1]].test, ns[x[1]].children, gone, x[2], song)]
<1>1. \A m : SatisfiesWithout(ns, m, gone, song) = satisfied[m]
  BY DEF SatisfiesWithout
<1>2. IsForest(D, kids, rank, M) /\ \A m \in D : kids[m] = ns[m].children
  BY DEF Kids, Linked
<1>3. \E f : f = F(f)
  <2> HIDE DEF kids, D
  <2>1. IsStep(step, D, BOOLEAN)
    <3>1. \A m \in D, v \in Seq(BOOLEAN) : CombinedWithout(ns[m].kind, ns[m].test, ns[m].children, gone, v, song) \in BOOLEAN
      BY CombinedWithoutIs
    <3> QED
      BY <3>1 DEF IsStep
  <2>2. PICK g : TreeFollows(g, D, kids, BOOLEAN, step)
    BY <1>2, <2>1, TreeRecursion
  <2>3. g \in [D -> BOOLEAN] /\ \A m \in D : g[m] = step[<<m, OfChildren(g, kids, m)>>]
    BY <2>2 DEF TreeFollows
  <2>4. \A m \in D : G(m, g) = g[m]
    <3> TAKE m \in D
    <3> DEFINE ch == ns[m].children
               v == [i \in DOMAIN ch |-> g[ch[i]]]
    <3>1. OfChildren(g, kids, m) = v
      BY <1>2 DEF OfChildren
    <3>2. v \in Seq(BOOLEAN)
      <4>1. kids[m] \in Seq(D) /\ kids[m] = ch
        BY <1>2 DEF IsForest
      <4>2. ch \in Seq(D)
        BY <4>1
      <4>3. \A i \in 1..Len(ch) : ch[i] \in D
        BY <4>2
      <4>4. Len(ch) \in Nat /\ DOMAIN ch = 1..Len(ch)
        BY <4>2
      <4>5. v \in [1..Len(ch) -> BOOLEAN]
        BY <2>3, <4>3, <4>4
      <4> QED
        BY <4>4, <4>5, IsASeq
    <3>3. \A i \in DOMAIN ch : v[i] = g[ch[i]]
      OBVIOUS
    <3>4. Left(m) = {ch[i] : i \in DOMAIN ch} \ {gone}
      BY DEF Range
    <3>5. g[m] = CombinedWithout(ns[m].kind, ns[m].test, ch, gone, v, song)
      BY <2>3, <3>1, <3>2
    <3> HIDE DEF v, ch
    <3>6. CASE ns[m].kind = "and"
      <4>1. G(m, g) = \A c \in Left(m) : g[c]
        BY <3>6
      <4>2. CombinedWithout(ns[m].kind, ns[m].test, ch, gone, v, song) = \A i \in DOMAIN ch : ch[i] # gone => v[i]
        BY <3>6 DEF CombinedWithout
      <4> HIDE DEF Left
      <4>3. (\A i \in DOMAIN ch : ch[i] # gone => v[i]) <=> (\A c \in Left(m) : g[c])
        BY <3>3, <3>4
      <4> QED
        BY <3>5, <4>1, <4>2, <4>3
    <3>7. CASE ns[m].kind = "or"
      <4>1. G(m, g) = \E c \in Left(m) : g[c]
        BY <3>7
      <4>2. CombinedWithout(ns[m].kind, ns[m].test, ch, gone, v, song) = \E i \in DOMAIN ch : ch[i] # gone /\ v[i]
        BY <3>7 DEF CombinedWithout
      <4> HIDE DEF Left
      <4>3. (\E i \in DOMAIN ch : ch[i] # gone /\ v[i]) <=> (\E c \in Left(m) : g[c])
        BY <3>3, <3>4
      <4> QED
        BY <3>5, <4>1, <4>2, <4>3
    <3>8. CASE ns[m].kind # "and" /\ ns[m].kind # "or"
      <4>1. G(m, g) = IsComparisonSatisfiedBy(ns[m].test, song)
        BY <3>8
      <4>2. CombinedWithout(ns[m].kind, ns[m].test, ch, gone, v, song) = IsComparisonSatisfiedBy(ns[m].test, song)
        BY <3>8 DEF CombinedWithout
      <4> QED
        BY <3>5, <4>1, <4>2
    <3> QED
      BY <3>6, <3>7, <3>8
  <2>5. g = F(g)
    <3> HIDE DEF G
    <3> QED
      BY <2>3, <2>4
  <2> HIDE DEF F
  <2> QED
    BY <2>5
<1>4. satisfied = F(satisfied)
  <2> HIDE DEF F
  <2> QED
    BY <1>3
<1> HIDE DEF satisfied
<1> SUFFICES ASSUME NEW n \in D
             PROVE  /\ ns[n].kind = "and" => (satisfied[n] <=> \A c \in Left(n) : satisfied[c])
                    /\ ns[n].kind = "or" => (satisfied[n] <=> \E c \in Left(n) : satisfied[c])
                    /\ ns[n].kind \notin {"and", "or"} => (satisfied[n] <=> IsComparisonSatisfiedBy(ns[n].test, song))
  BY <1>1 DEF MeantWithout
<1>5. satisfied[n] = G(n, satisfied)
  <2> HIDE DEF G
  <2> QED
    BY <1>4
<1> HIDE DEF Left, D
<1>6. ASSUME ns[n].kind = "and"
      PROVE  satisfied[n] <=> \A c \in Left(n) : satisfied[c]
  <2>1. satisfied[n] = \A c \in Left(n) : satisfied[c]
    BY <1>5, <1>6
  <2> QED
    BY <2>1
<1>7. ASSUME ns[n].kind = "or"
      PROVE  satisfied[n] <=> \E c \in Left(n) : satisfied[c]
  <2>1. satisfied[n] = \E c \in Left(n) : satisfied[c]
    BY <1>5, <1>7
  <2> QED
    BY <2>1
<1>8. ASSUME ns[n].kind \notin {"and", "or"}
      PROVE  satisfied[n] <=> IsComparisonSatisfiedBy(ns[n].test, song)
  <2>1. satisfied[n] = IsComparisonSatisfiedBy(ns[n].test, song)
    BY <1>5, <1>8
  <2> QED
    BY <2>1
<1> QED
  BY <1>6, <1>7, <1>8

(* A node that its parent lets go of is missing, and nothing else. *)
LEMMA CutMeans ==
  ASSUME NEW ns, NEW r, NEW L0, NEW rank0, NEW M0, Linked(ns, r, L0, rank0, M0), NEW song,
         NEW ms, NEW p, NEW n, NEW L, NEW rank, NEW M, Cut(ms, ns, r, p, n, L, rank, M)
  PROVE  IsSatisfiedBy(ms, r, song) <=> SatisfiesWithout(ns, r, n, song)
<1> DEFINE D == DOMAIN ms
           kids == Kids(ms)
           P == {m \in D : m \in L => (IsSatisfiedBy(ms, m, song) <=> SatisfiesWithout(ns, m, n, song))}
<1>1. Linked(ms, r, L, rank, M) /\ \A m \in L : Range(ms[m].children) = Range(ns[m].children) \ {n}
  BY DEF Cut
<1>2. Meant(ms, song) /\ MeantWithout(ns, n, song)
  BY <1>1, LinkedMeant, WithoutMeant
<1>3. IsForest(D, kids, rank, M) /\ \A m \in D : kids[m] = ms[m].children
  BY <1>1 DEF Linked, Kids
<1>4. r \in L /\ L \subseteq D /\ \A m \in L : \A i \in DOMAIN ms[m].children : ms[m].children[i] \in L
  BY <1>1 DEF Linked
<1>5. D = DOMAIN ns /\ \A m \in D : ms[m].kind = ns[m].kind /\ ms[m].test = ns[m].test
  BY DEF Cut, Relinked
<1> HIDE DEF kids, D
<1>6. ASSUME NEW m \in D, \A i \in DOMAIN kids[m] : kids[m][i] \in P
      PROVE  m \in P
  <2> SUFFICES ASSUME m \in L
               PROVE  IsSatisfiedBy(ms, m, song) <=> SatisfiesWithout(ns, m, n, song)
    OBVIOUS
  <2> DEFINE ch == ms[m].children
             Left == Range(ns[m].children) \ {n}
  <2>1. \A i \in DOMAIN ch : IsSatisfiedBy(ms, ch[i], song) <=> SatisfiesWithout(ns, ch[i], n, song)
    BY <1>3, <1>4, <1>6
  <2>2. Left = {ch[i] : i \in DOMAIN ch}
    BY <1>1 DEF Range
  <2>3. ms[m].kind = ns[m].kind /\ ms[m].test = ns[m].test
    BY <1>5
  <2>4. CASE ns[m].kind = "and"
    <3>1. IsSatisfiedBy(ms, m, song) <=> \A i \in DOMAIN ch : IsSatisfiedBy(ms, ch[i], song)
      BY <1>2, <2>3, <2>4 DEF Meant, D
    <3>2. SatisfiesWithout(ns, m, n, song) <=> \A c \in Left : SatisfiesWithout(ns, c, n, song)
      BY <1>2, <1>5, <2>4 DEF MeantWithout
    <3> HIDE DEF ch, Left
    <3> QED
      BY <2>1, <2>2, <3>1, <3>2
  <2>5. CASE ns[m].kind = "or"
    <3>1. IsSatisfiedBy(ms, m, song) <=> \E i \in DOMAIN ch : IsSatisfiedBy(ms, ch[i], song)
      BY <1>2, <2>3, <2>5 DEF Meant, D
    <3>2. SatisfiesWithout(ns, m, n, song) <=> \E c \in Left : SatisfiesWithout(ns, c, n, song)
      BY <1>2, <1>5, <2>5 DEF MeantWithout
    <3> HIDE DEF ch, Left
    <3> QED
      BY <2>1, <2>2, <3>1, <3>2
  <2>6. CASE ns[m].kind \notin {"and", "or"}
    <3>1. IsSatisfiedBy(ms, m, song) <=> IsComparisonSatisfiedBy(ms[m].test, song)
      BY <1>2, <2>3, <2>6 DEF Meant, D
    <3>2. SatisfiesWithout(ns, m, n, song) <=> IsComparisonSatisfiedBy(ns[m].test, song)
      BY <1>2, <1>5, <2>6 DEF MeantWithout
    <3> QED
      BY <2>3, <3>1, <3>2
  <2> QED
    BY <2>4, <2>5, <2>6
<1> HIDE DEF P
<1>7. \A m \in D : m \in P
  BY <1>3, <1>6, TreeInduction
<1> QED
  BY <1>4, <1>7 DEF P

(* The single child of the root means what the root does. *)
LEMMA LiftRootMeans ==
  ASSUME NEW ns, NEW r, NEW L, NEW rank, NEW M, Linked(ns, r, L, rank, M), NEW song,
         Len(ns[r].children) = 1, NEW c, c = ns[r].children[1],
         NEW ms, NEW L2, NEW rank2, NEW M2, LiftedRoot(ms, ns, c, L2, rank2, M2)
  PROVE  IsSatisfiedBy(ms, c, song) <=> IsSatisfiedBy(ns, r, song)
<1> DEFINE D == DOMAIN ns
<1>1. /\ r \in L /\ r \in D /\ L \subseteq D /\ DOMAIN ns[r].children = 1..1
      /\ \A n \in D : ~CanHaveChildren(ns[n]) => ns[n].children = <<>>
      /\ \A m \in L : \A i \in DOMAIN ns[m].children : ns[m].children[i] \in L
  <2>1. r \in L /\ L \subseteq D /\ \A m \in D : DOMAIN ns[m].children = 1..Len(ns[m].children)
    BY LinkedFields
  <2> QED
    BY <2>1, LinkedFields
<1>2. CanHaveChildren(ns[r])
  <2>1. DOMAIN <<>> = {} /\ 1 \in 1..1
    OBVIOUS
  <2> QED
    BY <1>1, <2>1
<1>3. c \in L
  <2>1. 1 \in 1..1
    OBVIOUS
  <2> QED
    BY <1>1, <2>1
<1>4. Meant(ns, song) /\ Meant(ms, song)
  BY LinkedMeant DEF LiftedRoot
<1>5. IsSatisfiedBy(ns, r, song) <=> IsSatisfiedBy(ns, c, song)
  BY <1>1, <1>2, <1>4, SingleChildMeans
<1>6. DOMAIN ms = D /\ \A m \in D : ms[m].kind = ns[m].kind /\ ms[m].test = ns[m].test /\ ms[m].children = ns[m].children
  BY DEF LiftedRoot, Relinked
<1>7. \A m \in L : MeansChildren(ms, ns, m, song)
  <2> TAKE m \in L
  <2>1. m \in DOMAIN ms /\ ms[m].kind = ns[m].kind /\ ms[m].test = ns[m].test /\ ms[m].children = ns[m].children
    BY <1>1, <1>6
  <2> QED
    BY <1>4, <2>1, ChildrenMean
<1>8. \A m \in L : IsSatisfiedBy(ms, m, song) <=> IsSatisfiedBy(ns, m, song)
  BY <1>1, <1>4, <1>6, <1>7, SameMeaning
<1> QED
  BY <1>3, <1>5, <1>8

(* So does a single child that takes its parent's place. *)
LEMMA LiftInnerMeans ==
  ASSUME NEW ns, NEW r, NEW L, NEW rank, NEW M, Linked(ns, r, L, rank, M), NEW song,
         NEW g \in L, NEW q \in L, Len(ns[q].children) = 1, NEW c, ns[q].children[1] = c,
         NEW ms, NEW L2, NEW rank2, NEW M2, LiftedInner(ms, ns, r, g, q, c, L2, rank2, M2), q # g
  PROVE  IsSatisfiedBy(ms, r, song) <=> IsSatisfiedBy(ns, r, song)
<1> DEFINE D == DOMAIN ns
<1>1. /\ r \in L /\ L \subseteq D /\ g \in D /\ q \in D
      /\ \A m \in D : DOMAIN ns[m].children = 1..Len(ns[m].children)
      /\ \A n \in D : ~CanHaveChildren(ns[n]) => ns[n].children = <<>>
  BY LinkedFields
<1>2. Meant(ms, song)
  BY LinkedMeant DEF LiftedInner
<1>3. /\ DOMAIN ms = D /\ \A m \in D : ms[m].kind = ns[m].kind /\ ms[m].test = ns[m].test
      /\ \A m \in D : m # g => ms[m].children = ns[m].children
      /\ \A i \in DOMAIN ns[g].children : ms[g].children[i] = IF ns[g].children[i] = q THEN c ELSE ns[g].children[i]
  BY DEF LiftedInner, Relinked
<1>4. DOMAIN ms[g].children = DOMAIN ns[g].children
  <2>1. ms \in [D -> NodeRecords] /\ Len(ms[g].children) = Len(ns[g].children)
    BY DEF LiftedInner, Relinked
  <2>2. DOMAIN ms[g].children = 1..Len(ms[g].children)
    BY <1>1, <2>1, NodeIs
  <2> QED
    BY <1>1, <2>1, <2>2
<1>5. IsSatisfiedBy(ms, q, song) <=> IsSatisfiedBy(ms, c, song)
  <2>1. DOMAIN ns[q].children = 1..1
    BY <1>1
  <2>2. CanHaveChildren(ns[q])
    <3>1. DOMAIN <<>> = {} /\ 1 \in 1..1
      OBVIOUS
    <3> QED
      BY <1>1, <2>1, <3>1
  <2>3. q \in DOMAIN ms /\ CanHaveChildren(ms[q]) /\ DOMAIN ms[q].children = 1..1 /\ c = ms[q].children[1]
    BY <1>1, <1>3, <2>1, <2>2 DEF CanHaveChildren
  <2> QED
    BY <1>2, <2>3, SingleChildMeans
<1>6. \A m \in L : MeansChildren(ms, ns, m, song)
  <2> TAKE m \in L
  <2>1. m \in DOMAIN ms /\ ms[m].kind = ns[m].kind /\ ms[m].test = ns[m].test
    BY <1>1, <1>3
  <2>2. CASE m = g
    <3>1. \A i \in DOMAIN ns[m].children :
            IsSatisfiedBy(ms, ms[m].children[i], song) <=> IsSatisfiedBy(ms, ns[m].children[i], song)
      BY <1>3, <1>5, <2>2
    <3> QED
      BY <1>2, <1>4, <2>1, <2>2, <3>1, ChildrenMean
  <2>3. CASE m # g
    <3>1. ms[m].children = ns[m].children
      BY <1>1, <1>3, <2>3
    <3> QED
      BY <1>2, <2>1, <3>1, ChildrenMean
  <2> QED
    BY <2>2, <2>3
<1>7. \A m \in L : IsSatisfiedBy(ms, m, song) <=> IsSatisfiedBy(ns, m, song)
  BY <1>1, <1>2, <1>3, <1>6, SameMeaning
<1> QED
  BY <1>1, <1>7

LEMMA AddChildCounts ==
  ASSUME NEW D, NEW ns \in [D -> NodeRecords], D \subseteq Addresses, NEW p \in D, NEW c \in D
  PROVE  /\ \A m \in D : CanHaveChildren(AddChild(ns, p, c)[m]) <=> CanHaveChildren(ns[m])
         /\ \A m \in D : Len(AddChild(ns, p, c)[m].children) = IF m = p THEN Len(ns[m].children) + 1 ELSE Len(ns[m].children)
<1> DEFINE ms == AddChild(ns, p, c)
           down == Append(ns[p].children, c)
<1>1. Relinked(ms, ns, D) /\ \A m \in D : ms[m].children = IF m = p THEN down ELSE ns[m].children
  BY AddChildIs
<1>2. Len(down) = Len(ns[p].children) + 1
  BY NodeIs
<1> HIDE DEF ms, down
<1>3. \A m \in D : CanHaveChildren(ms[m]) <=> CanHaveChildren(ns[m])
  BY <1>1 DEF Relinked, CanHaveChildren
<1>4. \A m \in D : Len(ms[m].children) = IF m = p THEN Len(ns[m].children) + 1 ELSE Len(ns[m].children)
  BY <1>1, <1>2
<1> QED
  BY <1>3, <1>4 DEF ms

(* A leaf is put below a combinator, which may be the one that has too few children so far. *)
LEMMA LeafTree ==
  ASSUME NEW ns, NEW r, NEW L, NEW rank, NEW M, Linked(ns, r, L, rank, M),
         NEW p \in L, CanHaveChildren(ns[p]), Len(ns[p].children) >= 1,
         NEW b \in DOMAIN ns \ L, ns[b].children = <<>>, ~CanHaveChildren(ns[b]),
         NEW loose, loose \/ Branched(ns, L \ {p})
  PROVE  Grown(ReferencedNodes(AddChild(ns, p, b), r), ns, r, ns[b].test, ns[p].kind, loose)
<1> DEFINE D == DOMAIN ns
           ms == AddChild(ns, p, b)
<1>1. D \subseteq Addresses /\ ns \in [D -> NodeRecords] /\ L \subseteq D
  BY LinkedFields
<1>2. PICK rank2, M2 : Linked(ms, r, L \cup {b}, rank2, M2)
  BY LeafLinked
<1>3. /\ \A m \in D : CanHaveChildren(ms[m]) <=> CanHaveChildren(ns[m])
      /\ \A m \in D : Len(ms[m].children) = IF m = p THEN Len(ns[m].children) + 1 ELSE Len(ns[m].children)
  BY <1>1, AddChildCounts
<1>4. Len(ns[p].children) \in Nat
  BY <1>1, NodeIs
<1> HIDE DEF D, ms
<1>5. ASSUME Branched(ns, L \ {p})
      PROVE  Branched(ms, L \cup {b})
  <2> SUFFICES ASSUME NEW m \in L \cup {b}, CanHaveChildren(ms[m])
               PROVE  Len(ms[m].children) >= 2
    BY DEF Branched
  <2>1. m \in D /\ CanHaveChildren(ns[m]) /\ m \in L
    BY <1>1, <1>3 DEF D
  <2>2. CASE m = p
    BY <1>3, <1>4, <2>1, <2>2
  <2>3. CASE m # p
    BY <1>3, <1>5, <2>1, <2>3 DEF Branched
  <2> QED
    BY <2>2, <2>3
<1>6. loose \/ Branched(ms, L \cup {b})
  BY <1>5
<1>7. \E K : Tree(ReferencedNodes(ms, r), K, loose)
  BY <1>2, <1>6, ReferencedTree
<1>8. ASSUME NEW song, IsNeutral(ns[b].test, ns[p].kind, song)
      PROVE  IsSatisfiedBy(ReferencedNodes(ms, r), 1, song) <=> IsSatisfiedBy(ns, r, song)
  <2>1. IsSatisfiedBy(ReferencedNodes(ms, r), 1, song) <=> IsSatisfiedBy(ms, r, song)
    BY <1>2, ReferencedMeans
  <2>2. Meant(AddChild(ns, p, b), song)
    BY <1>2, LinkedMeant DEF ms
  <2>3. \A m \in L : IsSatisfiedBy(ms, m, song) <=> IsSatisfiedBy(ns, m, song)
    BY <1>8, <2>2, LeafMeans DEF ms
  <2>4. r \in L
    BY DEF Linked
  <2> QED
    BY <2>1, <2>3, <2>4
<1>9. Grown(ReferencedNodes(ms, r), ns, r, ns[b].test, ns[p].kind, loose)
  BY <1>7, <1>8 DEF Grown
<1> QED
  BY <1>9 DEF ms

(* In ms the root of ns is the child of the new root a. *)
CoversRoot(ms, ns, r, a) ==
  /\ Relinked(ms, ns, DOMAIN ns)
  /\ \A m \in DOMAIN ns : /\ ms[m].parent = IF m = r THEN a ELSE IF m = a THEN None ELSE ns[m].parent
                          /\ ms[m].children = IF m = a THEN Append(ns[a].children, r) ELSE ns[m].children

(* The nodes ms have one more in their tree, with one child, and mean what ns means from r on. *)
Covered(ms, ns, r, top, L, a) ==
  /\ \E rank2, M2 : Linked(ms, top, L \cup {a}, rank2, M2)
  /\ Len(ms[a].children) = 1 /\ DOMAIN ms = DOMAIN ns
  /\ \A m \in DOMAIN ns : CanHaveChildren(ms[m]) <=> CanHaveChildren(ns[m])
  /\ \A m \in DOMAIN ns : m # a => Len(ms[m].children) = Len(ns[m].children)
  /\ \A m \in DOMAIN ns : m # a /\ ns[m].children = <<>> => ms[m].children = <<>>
  /\ \A m \in DOMAIN ns : ms[m].kind = ns[m].kind /\ ms[m].test = ns[m].test
  /\ \A song : IsSatisfiedBy(ms, top, song) <=> IsSatisfiedBy(ns, r, song)

(* The root becomes the child of a new one. *)
LEMMA CoverRootLinked ==
  ASSUME NEW ns, NEW r, NEW L, NEW rank, NEW M, Linked(ns, r, L, rank, M),
         NEW a \in DOMAIN ns \ L, CanHaveChildren(ns[a]), ns[a].children = <<>>,
         NotHeld(ns, a),
         NEW ms, CoversRoot(ms, ns, r, a)
  PROVE  Covered(ms, ns, r, a, L, a)
<1> DEFINE D == DOMAIN ns
<1>1. /\ D \subseteq Addresses /\ ns \in [D -> NodeRecords] /\ r \in L /\ L \subseteq D /\ ns[r].parent = None
      /\ \A m \in L : \A i \in DOMAIN ns[m].children : ns[m].children[i] \in L /\ ns[ns[m].children[i]].parent = m
  BY LinkedFields
<1>2. \A m \in D : m # None
  BY LinkedFields
<1>3. r \in D /\ a \in D /\ r # a /\ a \notin L
  BY <1>1
<1>9. /\ Relinked(ms, ns, D)
      /\ \A m \in D : /\ ms[m].parent = IF m = r THEN a ELSE IF m = a THEN None ELSE ns[m].parent
                      /\ ms[m].children = IF m = a THEN Append(ns[a].children, r) ELSE ns[m].children
  BY DEF CoversRoot
<1>4. Len(ms[a].children) = 1 /\ ms[a].children[1] = r
  <2>1. ms[a].children = Append(<<>>, r)
    BY <1>3, <1>9
  <2> QED
    BY <2>1
<1>5. \A m \in D \ {a} : /\ Len(ms[m].children) = Len(ns[m].children)
                         /\ \A i \in DOMAIN ns[m].children :
                              ms[m].children[i] = IF m \in L /\ ns[m].children[i] = r THEN a ELSE ns[m].children[i]
  <2> TAKE m \in D \ {a}
  <2>1. ms[m].children = ns[m].children
    BY <1>9
  <2>2. m \in L => \A i \in DOMAIN ns[m].children : ns[m].children[i] # r
    BY <1>1, <1>2
  <2> QED
    BY <2>1, <2>2
<1>6. \A m \in D : ms[m].parent = IF m = r THEN a ELSE IF m = a THEN ns[r].parent ELSE ns[m].parent
  BY <1>1, <1>9
<1>11. Covers(ms, ns, L, r, a)
  BY <1>4, <1>5, <1>6 DEF Covers
<1>7. \E rank2, M2 : Linked(ms, a, L \cup {a}, rank2, M2)
  <2>1. \E rank2, M2 : Linked(ms, IF r = r THEN a ELSE r, L \cup {a}, rank2, M2)
    <3>2. Relinked(ms, ns, DOMAIN ns)
      BY <1>9
    <3> QED
      BY <1>1, <1>11, <3>2, CoverLinked
  <2> QED
    BY <2>1
<1>12. \A song : IsSatisfiedBy(ms, a, song) <=> IsSatisfiedBy(ns, r, song)
  <2> TAKE song
  <2>1. Meant(ms, song)
    BY <1>7, LinkedMeant
  <2>2. Relinked(ms, ns, DOMAIN ns)
    BY <1>9
  <2> QED
    BY <1>1, <1>11, <2>1, <2>2, CoverMeans
<1>8. DOMAIN ms = D /\ \A m \in D : /\ CanHaveChildren(ms[m]) <=> CanHaveChildren(ns[m])
                                   /\ ms[m].kind = ns[m].kind /\ ms[m].test = ns[m].test
  BY <1>9 DEF Relinked, CanHaveChildren
<1>10. \A m \in D : m # a => ms[m].children = ns[m].children
  BY <1>9
<1> QED
  BY <1>4, <1>7, <1>8, <1>10, <1>12 DEF Covered

(* A node that is not the root becomes the child of a new one in its place. *)
LEMMA CoverInnerLinked ==
  ASSUME NEW ns, NEW r, NEW L, NEW rank, NEW M, Linked(ns, r, L, rank, M),
         NEW p \in L, NEW at \in DOMAIN ns[p].children, NEW n, n = ns[p].children[at],
         NEW a \in DOMAIN ns \ L, CanHaveChildren(ns[a]), ns[a].children = <<>>,
         NotHeld(ns, a)
  PROVE  Covered(AddChild(ReplaceChild(ns, p, n, a), a, n), ns, r, r, L, a)
<1> DEFINE D == DOMAIN ns
           mid == ReplaceChild(ns, p, n, a)
           ms == AddChild(mid, a, n)
           down == ReplaceAt(ns[p].children, at, a)
<1>1. /\ D \subseteq Addresses /\ ns \in [D -> NodeRecords] /\ r \in L /\ L \subseteq D /\ ns[r].parent = None
      /\ \A m \in L : \A i \in DOMAIN ns[m].children : ns[m].children[i] \in L /\ ns[ns[m].children[i]].parent = m
      /\ \A m \in L : \A i, j \in DOMAIN ns[m].children : ns[m].children[i] = ns[m].children[j] => i = j
  BY SMTT(60), LinkedFields
<1>2. \A m \in D : m # None
  BY LinkedFields
<1>3. n \in L /\ n \in D /\ a \in D /\ p \in D /\ n # a /\ p # a /\ ns[n].parent = p /\ n # r
  BY <1>1, <1>2
<1>4. \A i \in DOMAIN ns[p].children : ns[p].children[i] = n => i = at
  BY <1>1
<1> HIDE DEF D
<1>5. /\ Relinked(mid, ns, D)
      /\ \A m \in D : /\ mid[m].parent = IF m = a THEN p ELSE IF m = n THEN None ELSE ns[m].parent
                      /\ mid[m].children = IF m = p THEN down ELSE ns[m].children
      /\ down \in Seq(Addresses) /\ Len(down) = Len(ns[p].children)
      /\ \A i \in DOMAIN ns[p].children : down[i] = IF i = at THEN a ELSE ns[p].children[i]
  <2>1. D \subseteq Addresses /\ ns \in [D -> NodeRecords] /\ p \in D /\ n \in D /\ a \in D /\ n # a
    BY <1>1, <1>3
  <2> QED
    BY <1>4, <2>1, ReplaceChildIs
<1> HIDE DEF mid, down
<1>6. /\ Relinked(ms, mid, D)
      /\ \A m \in D : /\ ms[m].parent = IF m = n THEN a ELSE mid[m].parent
                      /\ ms[m].children = IF m = a THEN Append(mid[a].children, n) ELSE mid[m].children
  <2>1. mid \in [D -> NodeRecords] /\ a \in D /\ n \in D /\ D \subseteq Addresses
    BY <1>1, <1>3, <1>5 DEF Relinked
  <2> QED
    BY <2>1, AddChildIs
<1> HIDE DEF ms
<1>7. Relinked(ms, ns, D)
  BY <1>5, <1>6 DEF Relinked
<1>8. mid[a].children = <<>>
  BY <1>3, <1>5
<1>9. Len(ms[a].children) = 1 /\ ms[a].children[1] = n
  <2>1. ms[a].children = Append(<<>>, n)
    BY <1>3, <1>6, <1>8
  <2> QED
    BY <2>1
<1>10. \A m \in D : ms[m].parent = IF m = n THEN a ELSE IF m = a THEN ns[n].parent ELSE ns[m].parent
  BY <1>3, <1>5, <1>6
<1>11. \A m \in D : m # a => ms[m].children = IF m = p THEN down ELSE ns[m].children
  BY <1>5, <1>6
<1>12. \A m \in D \ {a} : /\ Len(ms[m].children) = Len(ns[m].children)
                          /\ \A i \in DOMAIN ns[m].children :
                               ms[m].children[i] = IF m \in L /\ ns[m].children[i] = n THEN a ELSE ns[m].children[i]
  <2> TAKE m \in D \ {a}
  <2>1. CASE m = p
    <3>1. ms[m].children = down /\ m \in L
      BY <1>11, <2>1
    <3>2. \A i \in DOMAIN ns[p].children : i = at <=> ns[p].children[i] = n
      BY <1>4
    <3> QED
      BY <1>5, <2>1, <3>1, <3>2
  <2>2. CASE m # p
    <3>1. ms[m].children = ns[m].children
      BY <1>11, <2>2
    <3>2. m \in L => \A i \in DOMAIN ns[m].children : ns[m].children[i] # n
      BY <1>1, <1>3, <2>2
    <3> QED
      BY <3>1, <3>2
  <2> QED
    BY <2>1, <2>2
<1>18. Covers(ms, ns, L, n, a) /\ Relinked(ms, ns, DOMAIN ns)
  BY <1>7, <1>9, <1>10, <1>12 DEF Covers, D
<1>13. \E rank2, M2 : Linked(ms, r, L \cup {a}, rank2, M2)
  <2>1. \E rank2, M2 : Linked(ms, IF n = r THEN a ELSE r, L \cup {a}, rank2, M2)
    BY <1>3, <1>18, CoverLinked
  <2> QED
    BY <1>3, <2>1
<1>19. \A song : IsSatisfiedBy(ms, r, song) <=> IsSatisfiedBy(ns, r, song)
  <2> TAKE song
  <2>1. Meant(ms, song)
    BY <1>13, LinkedMeant
  <2> QED
    BY <1>1, <1>3, <1>18, <2>1, CoverMeans
<1>14. DOMAIN ms = D /\ \A m \in D : /\ CanHaveChildren(ms[m]) <=> CanHaveChildren(ns[m])
                                    /\ ms[m].kind = ns[m].kind /\ ms[m].test = ns[m].test
  BY <1>7 DEF Relinked, CanHaveChildren
<1>15. \A m \in D : m # a => Len(ms[m].children) = Len(ns[m].children)
  BY <1>12
<1>16. \A m \in D : m # a /\ ns[m].children = <<>> => ms[m].children = <<>>
  <2>1. ns[p].children # <<>>
    OBVIOUS
  <2> QED
    BY <1>11, <2>1
<1>17. Covered(ms, ns, r, r, L, a)
  BY <1>9, <1>13, <1>14, <1>15, <1>16, <1>19 DEF D, Covered
<1> QED
  BY <1>17 DEF ms, mid

LEMMA TreeFacts ==
  ASSUME NEW ns, NEW N, NumberedTo(ns, N)
  PROVE  /\ N \in 1..MaxNodes /\ N \in Nat /\ DOMAIN ns = 1..N /\ Cardinality(1..N) = N
         /\ Linked(ns, 1, 1..N, [n \in 1..N |-> n], N)
         /\ ns \in [1..N -> NodeRecords] /\ 1 \in 1..N
         /\ ns[1].parent = None /\ None \notin 1..N
         /\ \A n \in 1..N : n # 1 => /\ ns[n].parent \in 1..N /\ ns[n].parent < n /\ ns[n].parent # None
                                     /\ CanHaveChildren(ns[ns[n].parent])
                                     /\ \E at \in DOMAIN ns[ns[n].parent].children : ns[ns[n].parent].children[at] = n
         /\ \A n \in 1..N : n # 1 => Len(ns[ns[n].parent].children) >= 1
<1>1. N \in 1..MaxNodes /\ N \in Nat /\ MaxNodes \in Nat
  BY FilterEditorAssumption DEF NumberedTo
<1>2. ns \in [1..N -> NodeRecords] /\ DOMAIN ns = 1..N
  BY DEF NumberedTo
<1>3. Cardinality(1..N) = N
  BY <1>1, FS_Interval
<1>4. Linked(ns, 1, 1..N, [n \in 1..N |-> n], N)
  BY NumberedLinked
<1>5. 1 \in 1..N /\ ns[1].parent = None /\ None \notin 1..N
  BY <1>1, FilterEditorAssumption DEF NumberedTo
<1>6. ASSUME NEW n \in 1..N, n # 1
      PROVE  /\ ns[n].parent \in 1..N /\ ns[n].parent < n /\ ns[n].parent # None
             /\ CanHaveChildren(ns[ns[n].parent])
             /\ \E at \in DOMAIN ns[ns[n].parent].children : ns[ns[n].parent].children[at] = n
             /\ Len(ns[ns[n].parent].children) >= 1
  <2>1. n \in 2..N /\ n \in Nat
    BY <1>1, <1>6
  <2> DEFINE p == ns[n].parent
  <2>2. p \in 1..(n - 1) /\ CanHaveChildren(ns[p])
    BY <2>1 DEF NumberedTo
  <2>3. p \in 1..N /\ p < n
    BY <1>1, <2>1, <2>2
  <2>4. Range(ns[p].children) = {c \in 2..N : ns[c].parent = p}
    BY <2>3 DEF NumberedTo
  <2>5. n \in Range(ns[p].children)
    BY <2>1, <2>4
  <2> HIDE DEF p
  <2>6. PICK at \in DOMAIN ns[p].children : ns[p].children[at] = n
    BY <2>5 DEF Range
  <2>7. ns[p] \in NodeRecords
    BY <1>2, <2>3
  <2>8. Len(ns[p].children) \in Nat /\ DOMAIN ns[p].children = 1..Len(ns[p].children)
    BY <2>7, NodeIs
  <2>9. Len(ns[p].children) >= 1
    BY <2>6, <2>8
  <2> QED
    BY <1>5, <2>2, <2>3, <2>6, <2>9 DEF p
<1> QED
  BY <1>1, <1>2, <1>3, <1>4, <1>5, <1>6

(* A sibling for the root, in a new combinator. *)
LEMMA RootSibling ==
  ASSUME NEW ns, NEW N, NEW loose, Tree(ns, N, loose), NEW test \in AllTests, NEW kind \in Combinators,
         NEW a \in Addresses \ DOMAIN ns, NEW b \in Addresses \ DOMAIN ns, a # b
  PROVE  LET rooted == SetRootParent(AddChild(WithNode(ns, a, Combinator(kind)), a, 1), a)
         IN  Grown(ReferencedNodes(AddChild(WithNode(rooted, b, Leaf(test)), a, b), a), ns, 1, test, kind, loose)
<1> DEFINE L == 1..N
           id == [n \in 1..N |-> n]
           comb == Combinator(kind)
           leaf == Leaf(test)
           with == WithNode(ns, a, comb)
           added == AddChild(with, a, 1)
           rooted == SetRootParent(added, a)
           full == WithNode(rooted, b, leaf)
<1>1. /\ NumberedTo(ns, N) /\ (loose \/ Branched(ns, L))
      /\ DOMAIN ns = L /\ Linked(ns, 1, L, id, N) /\ ns \in [L -> NodeRecords] /\ 1 \in L
  BY TreeFacts DEF Tree
<1>2. /\ comb \in NodeRecords /\ comb.children = <<>> /\ CanHaveChildren(comb) /\ comb.kind = kind
      /\ leaf \in NodeRecords /\ leaf.children = <<>> /\ ~CanHaveChildren(leaf) /\ leaf.test = test
  BY NewNodes DEF Leaf, Combinator
<1> HIDE DEF L, id, comb, leaf
<1>18. Added(with, ns, 1, L, a, comb)
  BY <1>1, <1>2, AddedNode
<1>3. /\ \E rank2, M2 : Linked(with, 1, L, rank2, M2)
      /\ DOMAIN with = DOMAIN ns \cup {a} /\ with[a] = comb /\ a \notin L
      /\ \A m \in DOMAIN ns : m # a /\ with[m] = ns[m]
      /\ NotHeld(with, a)
  BY <1>18 DEF Added
<1>19. \A song : IsSatisfiedBy(with, 1, song) <=> IsSatisfiedBy(ns, 1, song)
  BY <1>1, <1>18, AddedMeans
<1> HIDE DEF with
<1>4. PICK rank2, M2 : Linked(with, 1, L, rank2, M2)
  BY <1>3
<1> DEFINE D == DOMAIN with
<1>5. D \subseteq Addresses /\ with \in [D -> NodeRecords] /\ a \in D /\ 1 \in D /\ a # 1
  <2>1. D \subseteq Addresses /\ with \in [D -> NodeRecords]
    BY <1>4, LinkedFields
  <2> QED
    BY <1>1, <1>3, <2>1
<1> HIDE DEF D
<1>6. /\ Relinked(added, with, D)
      /\ \A m \in D : /\ added[m].parent = IF m = 1 THEN a ELSE with[m].parent
                      /\ added[m].children = IF m = a THEN Append(with[a].children, 1) ELSE with[m].children
  BY <1>5, AddChildIs
<1> HIDE DEF added
<1>7. /\ Relinked(rooted, added, D)
      /\ \A m \in D : /\ rooted[m].parent = IF m = a THEN None ELSE added[m].parent
                      /\ rooted[m].children = added[m].children
  <2>1. added \in [D -> NodeRecords]
    BY <1>6 DEF Relinked
  <2> QED
    BY <1>5, <2>1, SetRootParentIs
<1> HIDE DEF rooted
<1>8. /\ Relinked(rooted, with, D)
      /\ \A m \in D : /\ rooted[m].parent = IF m = 1 THEN a ELSE IF m = a THEN None ELSE with[m].parent
                      /\ rooted[m].children = IF m = a THEN Append(with[a].children, 1) ELSE with[m].children
  BY <1>5, <1>6, <1>7 DEF Relinked
<1>9. /\ \E rank3, M3 : Linked(rooted, a, L \cup {a}, rank3, M3)
      /\ Len(rooted[a].children) = 1 /\ DOMAIN rooted = D
      /\ \A m \in D : (CanHaveChildren(rooted[m]) <=> CanHaveChildren(with[m])) /\ rooted[m].kind = with[m].kind
      /\ \A song : IsSatisfiedBy(rooted, a, song) <=> IsSatisfiedBy(with, 1, song)
      /\ \A m \in D : m # a => Len(rooted[m].children) = Len(with[m].children)
  <2>1. a \in D \ L /\ CanHaveChildren(with[a]) /\ with[a].children = <<>>
    BY <1>2, <1>3, <1>5
  <2>2. a \in DOMAIN with \ L
    BY <2>1 DEF D
  <2>3. CoversRoot(rooted, with, 1, a)
    BY <1>8 DEF D, CoversRoot
  <2>4. NotHeld(with, a)
    BY <1>3
  <2>5. Covered(rooted, with, 1, a, L, a)
    BY <1>4, <2>1, <2>2, <2>3, <2>4, CoverRootLinked
  <2> QED
    BY <2>5 DEF Covered, D
<1>10. PICK rank3, M3 : Linked(rooted, a, L \cup {a}, rank3, M3)
  BY <1>9
<1>11. b \in Addresses \ DOMAIN rooted
  BY <1>3, <1>9 DEF D
<1>20. Added(full, rooted, a, L \cup {a}, b, leaf)
  BY <1>2, <1>10, <1>11, AddedNode
<1>12. /\ \E rank4, M4 : Linked(full, a, L \cup {a}, rank4, M4)
       /\ DOMAIN full = DOMAIN rooted \cup {b} /\ full[b] = leaf /\ b \notin L \cup {a}
       /\ \A m \in DOMAIN rooted : m # b /\ full[m] = rooted[m]
  BY <1>20 DEF Added
<1>21. \A song : IsSatisfiedBy(full, a, song) <=> IsSatisfiedBy(ns, 1, song)
  <2>1. \A song : IsSatisfiedBy(full, a, song) <=> IsSatisfiedBy(rooted, a, song)
    BY <1>10, <1>20, AddedMeans
  <2> QED
    BY <1>9, <1>19, <2>1
<1> HIDE DEF full
<1>13. PICK rank4, M4 : Linked(full, a, L \cup {a}, rank4, M4)
  BY <1>12
<1>14. ASSUME Branched(ns, L)
       PROVE  Branched(full, (L \cup {a}) \ {a})
  <2> SUFFICES ASSUME NEW m \in L, m # a, CanHaveChildren(full[m])
               PROVE  Len(full[m].children) >= 2
    BY DEF Branched
  <2>1. m \in D /\ full[m] = rooted[m] /\ with[m] = ns[m]
    BY <1>1, <1>3, <1>9, <1>12 DEF D
  <2>2. CanHaveChildren(ns[m]) /\ Len(full[m].children) = Len(ns[m].children)
    BY <1>9, <2>1
  <2> QED
    BY <1>14, <2>2 DEF Branched
<1>15. /\ CanHaveChildren(full[a]) /\ Len(full[a].children) >= 1
       /\ b \in DOMAIN full \ (L \cup {a}) /\ full[b].children = <<>> /\ ~CanHaveChildren(full[b])
  <2>1. b \in DOMAIN full \ (L \cup {a}) /\ full[b].children = <<>> /\ ~CanHaveChildren(full[b])
    BY <1>2, <1>12
  <2>2. a \in D /\ full[a] = rooted[a] /\ CanHaveChildren(with[a])
    BY <1>2, <1>3, <1>5, <1>9, <1>12
  <2>3. CanHaveChildren(full[a])
    <3>1. CanHaveChildren(rooted[a])
      BY <1>9, <2>2
    <3> QED
      BY <2>2, <3>1
  <2>4. Len(full[a].children) >= 1
    <3>1. Len(rooted[a].children) = 1
      BY <1>9
    <3> QED
      BY <2>2, <3>1
  <2> QED
    BY <2>1, <2>3, <2>4
<1>16. loose \/ Branched(full, (L \cup {a}) \ {a})
  BY <1>1, <1>14
<1>22. full[b].test = test /\ full[a].kind = kind
  BY <1>2, <1>3, <1>5, <1>9, <1>12
<1>17. Grown(ReferencedNodes(AddChild(full, a, b), a), full, a, test, kind, loose)
  <2>1. a \in L \cup {a}
    OBVIOUS
  <2>2. Grown(ReferencedNodes(AddChild(full, a, b), a), full, a, full[b].test, full[a].kind, loose)
    BY <1>13, <1>15, <1>16, <2>1, LeafTree
  <2> QED
    BY <1>22, <2>2
<1>23. Grown(ReferencedNodes(AddChild(full, a, b), a), ns, 1, test, kind, loose)
  BY <1>17, <1>21, GrownFrom
<1> QED
  BY <1>23 DEF full, rooted, added, with, comb, leaf

(* A sibling for another node. *)
LEMMA InnerSibling ==
  ASSUME NEW ns, NEW N, NEW loose, Tree(ns, N, loose), NEW test \in AllTests,
         NEW n \in 1..N, n # 1, NEW b \in Addresses \ DOMAIN ns
  PROVE  Grown(ReferencedNodes(AddChild(WithNode(ns, b, Leaf(test)), ns[n].parent, b), 1), ns, 1, test, ns[ns[n].parent].kind, loose)
<1> DEFINE L == 1..N
           id == [m \in 1..N |-> m]
           p == ns[n].parent
           leaf == Leaf(test)
           with == WithNode(ns, b, leaf)
<1>1. /\ NumberedTo(ns, N) /\ (loose \/ Branched(ns, L))
      /\ DOMAIN ns = L /\ Linked(ns, 1, L, id, N)
  BY TreeFacts DEF Tree
<1>2. p \in L /\ CanHaveChildren(ns[p]) /\ Len(ns[p].children) >= 1
  BY <1>1, TreeFacts
<1>3. leaf \in NodeRecords /\ leaf.children = <<>> /\ ~CanHaveChildren(leaf) /\ leaf.test = test
  BY NewNodes DEF Leaf
<1>9. 1 \in L
  BY <1>1, TreeFacts
<1> HIDE DEF L, id, p, leaf
<1>10. Added(with, ns, 1, L, b, leaf)
  BY <1>1, <1>3, AddedNode
<1>4. /\ \E rank2, M2 : Linked(with, 1, L, rank2, M2)
      /\ DOMAIN with = DOMAIN ns \cup {b} /\ with[b] = leaf /\ b \notin L
      /\ \A m \in DOMAIN ns : m # b /\ with[m] = ns[m]
  BY <1>10 DEF Added
<1>11. \A song : IsSatisfiedBy(with, 1, song) <=> IsSatisfiedBy(ns, 1, song)
  BY <1>1, <1>9, <1>10, AddedMeans
<1> HIDE DEF with
<1>5. PICK rank2, M2 : Linked(with, 1, L, rank2, M2)
  BY <1>4
<1>6. loose \/ Branched(with, L \ {p})
  BY <1>1, <1>4 DEF Branched
<1>7. /\ CanHaveChildren(with[p]) /\ Len(with[p].children) >= 1
      /\ b \in DOMAIN with \ L /\ with[b].children = <<>> /\ ~CanHaveChildren(with[b])
  BY <1>1, <1>2, <1>3, <1>4
<1>12. with[b].test = test /\ with[p].kind = ns[p].kind
  BY <1>1, <1>2, <1>3, <1>4
<1>8. Grown(ReferencedNodes(AddChild(with, p, b), 1), with, 1, test, ns[p].kind, loose)
  <2>1. Grown(ReferencedNodes(AddChild(with, p, b), 1), with, 1, with[b].test, with[p].kind, loose)
    BY <1>2, <1>5, <1>6, <1>7, LeafTree
  <2> QED
    BY <1>12, <2>1
<1>13. Grown(ReferencedNodes(AddChild(with, p, b), 1), ns, 1, test, ns[p].kind, loose)
  BY <1>8, <1>11, GrownFrom
<1> QED
  BY <1>13 DEF with, p, leaf

(* What follows when a new combinator is in the place of n: the leaf is put below it. *)
LEMMA CombinatorTree ==
  ASSUME NEW r, NEW top, NEW L, NEW loose, NEW with, NEW placed, NEW a, NEW b,
         Covered(placed, with, r, top, L, a), a \in DOMAIN with, CanHaveChildren(with[a]),
         b \in DOMAIN with, b \notin L, b # a, with[b].children = <<>>, ~CanHaveChildren(with[b]),
         L \subseteq DOMAIN with, loose \/ Branched(with, L)
  PROVE  Grown(ReferencedNodes(AddChild(placed, a, b), top), with, r, with[b].test, with[a].kind, loose)
<1>1. PICK rank2, M2 : Linked(placed, top, L \cup {a}, rank2, M2)
  BY DEF Covered
<1>2. Len(placed[a].children) >= 1 /\ CanHaveChildren(placed[a]) /\ DOMAIN placed = DOMAIN with
  <2>1. Len(placed[a].children) = 1 /\ DOMAIN placed = DOMAIN with /\ (CanHaveChildren(placed[a]) <=> CanHaveChildren(with[a]))
    BY DEF Covered
  <2> QED
    BY <2>1
<1>3. b \in DOMAIN placed \ (L \cup {a}) /\ placed[b].children = <<>> /\ ~CanHaveChildren(placed[b])
  BY DEF Covered
<1>4. Branched(with, L) => Branched(placed, (L \cup {a}) \ {a})
  BY DEF Covered, Branched
<1>5. a \in L \cup {a} /\ (loose \/ Branched(placed, (L \cup {a}) \ {a}))
  BY <1>4
<1>6. Grown(ReferencedNodes(AddChild(placed, a, b), top), placed, top, placed[b].test, placed[a].kind, loose)
  BY <1>1, <1>2, <1>3, <1>5, LeafTree
<1>7. placed[b].test = with[b].test /\ placed[a].kind = with[a].kind
  BY DEF Covered
<1>8. Grown(ReferencedNodes(AddChild(placed, a, b), top), placed, top, with[b].test, with[a].kind, loose)
  BY <1>6, <1>7
<1>9. \A song : IsSatisfiedBy(placed, top, song) <=> IsSatisfiedBy(with, r, song)
  BY DEF Covered
<1> QED
  BY <1>8, <1>9, GrownFrom

(* A new combinator in the place of the root or of another node. *)
LEMMA InsertedCombinator ==
  ASSUME NEW ns, NEW N, NEW loose, Tree(ns, N, loose), NEW test \in AllTests, NEW kind \in Combinators, NEW n \in 1..N,
         NEW a \in Addresses \ DOMAIN ns, NEW b \in Addresses \ DOMAIN ns, a # b
  PROVE  LET with == WithNode(WithNode(ns, a, Combinator(kind)), b, Leaf(test))
             placed == IF ns[n].parent = None THEN SetRootParent(with, a) ELSE ReplaceChild(with, ns[n].parent, n, a)
         IN  Grown(ReferencedNodes(AddChild(AddChild(placed, a, n), a, b), IF ns[n].parent = None THEN a ELSE 1),
                   ns, 1, test, kind, loose)
<1> DEFINE L == 1..N
           id == [m \in 1..N |-> m]
           comb == Combinator(kind)
           leaf == Leaf(test)
           p == ns[n].parent
           half == WithNode(ns, a, comb)
           with == WithNode(half, b, leaf)
<1>1. /\ NumberedTo(ns, N) /\ (loose \/ Branched(ns, L)) /\ n \in L
      /\ DOMAIN ns = L /\ Linked(ns, 1, L, id, N) /\ ns[1].parent = None /\ 1 \in L
      /\ n # 1 => p \in L /\ p # None /\ \E at \in DOMAIN ns[p].children : ns[p].children[at] = n
  <2>1. NumberedTo(ns, N) /\ (loose \/ Branched(ns, L))
    BY DEF Tree
  <2>2. /\ DOMAIN ns = L /\ Linked(ns, 1, L, id, N) /\ ns[1].parent = None /\ 1 \in L
    BY <2>1, TreeFacts
  <2>3. n # 1 => p \in L /\ p # None /\ \E at \in DOMAIN ns[p].children : ns[p].children[at] = n
    BY <2>1, TreeFacts, ZenonT(30)
  <2> QED
    BY <2>1, <2>2, <2>3
<1>2. /\ comb \in NodeRecords /\ comb.children = <<>> /\ CanHaveChildren(comb) /\ comb.kind = kind
      /\ leaf \in NodeRecords /\ leaf.children = <<>> /\ ~CanHaveChildren(leaf) /\ leaf.test = test
  BY NewNodes DEF Leaf, Combinator
<1> HIDE DEF L, id, comb, leaf, p
<1>3. Added(half, ns, 1, L, a, comb)
  BY <1>1, <1>2, AddedNode
<1> HIDE DEF half
<1>4. PICK rank2, M2 : Linked(half, 1, L, rank2, M2)
  BY <1>3 DEF Added
<1>5. /\ DOMAIN half = DOMAIN ns \cup {a} /\ half[a] = comb /\ a \notin L
      /\ \A m \in DOMAIN ns : m # a /\ half[m] = ns[m]
      /\ NotHeld(half, a)
  BY <1>3 DEF Added
<1>6. b \in Addresses \ DOMAIN half
  BY <1>5
<1>7. Added(with, half, 1, L, b, leaf)
  BY <1>2, <1>4, <1>6, AddedNode
<1> HIDE DEF with
<1>8. PICK rank3, M3 : Linked(with, 1, L, rank3, M3)
  BY <1>7 DEF Added
<1>9. /\ DOMAIN with = DOMAIN half \cup {b} /\ with[b] = leaf /\ b \notin L
      /\ \A m \in DOMAIN half : m # b /\ with[m] = half[m]
  BY <1>7 DEF Added
<1>10. /\ a \in DOMAIN with \ L /\ with[a] = comb
       /\ \A m \in L : m \in DOMAIN with /\ with[m] = ns[m]
  BY <1>1, <1>5, <1>9
<1>11. NotHeld(with, a)
  <2> SUFFICES ASSUME NEW m \in DOMAIN with, NEW i \in DOMAIN with[m].children
               PROVE  with[m].children[i] # a
    BY DEF NotHeld
  <2>1. CASE m = b
    <3>1. DOMAIN <<>> = {}
      OBVIOUS
    <3> QED
      BY <1>2, <1>9, <2>1, <3>1
  <2>2. CASE m # b
    BY <1>5, <1>9, <2>2 DEF NotHeld
  <2> QED
    BY <2>1, <2>2
<1>12. CanHaveChildren(with[a]) /\ with[a].children = <<>> /\ with[b].children = <<>> /\ ~CanHaveChildren(with[b])
  BY <1>2, <1>9, <1>10
<1>13. loose \/ Branched(with, L)
  BY <1>1, <1>10 DEF Branched
<1>14. b \in DOMAIN with /\ b \notin L /\ b # a /\ L \subseteq DOMAIN with /\ a \in DOMAIN with
  BY <1>9, <1>10
<1>17. \A song : IsSatisfiedBy(with, 1, song) <=> IsSatisfiedBy(ns, 1, song)
  <2>1. \A song : IsSatisfiedBy(half, 1, song) <=> IsSatisfiedBy(ns, 1, song)
    BY <1>1, <1>3, AddedMeans
  <2>2. \A song : IsSatisfiedBy(with, 1, song) <=> IsSatisfiedBy(half, 1, song)
    BY <1>1, <1>4, <1>7, AddedMeans
  <2> QED
    BY <2>1, <2>2
<1>18. with[b].test = test /\ with[a].kind = kind
  BY <1>2, <1>9, <1>10
<1>15. CASE n = 1
  <2> DEFINE D == DOMAIN with
             up == SetRootParent(with, a)
             placed == AddChild(up, a, 1)
  <2>1. D \subseteq Addresses /\ with \in [D -> NodeRecords] /\ a \in D /\ 1 \in D /\ a # 1
    <3>1. D \subseteq Addresses /\ with \in [D -> NodeRecords]
      BY <1>8, LinkedFields
    <3> QED
      BY <1>1, <1>10, <3>1
  <2> HIDE DEF D
  <2>2. /\ Relinked(up, with, D)
        /\ \A m \in D : /\ up[m].parent = IF m = a THEN None ELSE with[m].parent
                        /\ up[m].children = with[m].children
    BY <2>1, SetRootParentIs
  <2> HIDE DEF up
  <2>3. /\ Relinked(placed, up, D)
        /\ \A m \in D : /\ placed[m].parent = IF m = 1 THEN a ELSE up[m].parent
                        /\ placed[m].children = IF m = a THEN Append(up[a].children, 1) ELSE up[m].children
    <3>1. up \in [D -> NodeRecords]
      BY <2>2 DEF Relinked
    <3> QED
      BY <2>1, <3>1, AddChildIs
  <2> HIDE DEF placed
  <2>4. CoversRoot(placed, with, 1, a)
    <3>1. Relinked(placed, with, D)
      BY <2>2, <2>3 DEF Relinked
    <3>2. \A m \in D : /\ placed[m].parent = IF m = 1 THEN a ELSE IF m = a THEN None ELSE with[m].parent
                       /\ placed[m].children = IF m = a THEN Append(with[a].children, 1) ELSE with[m].children
      BY <2>1, <2>2, <2>3
    <3> QED
      BY <3>1, <3>2 DEF D, CoversRoot
  <2>5. Covered(placed, with, 1, a, L, a)
    BY <1>8, <1>10, <1>11, <1>12, <2>4, CoverRootLinked
  <2>6. Grown(ReferencedNodes(AddChild(placed, a, b), a), ns, 1, test, kind, loose)
    <3>1. Grown(ReferencedNodes(AddChild(placed, a, b), a), with, 1, with[b].test, with[a].kind, loose)
      BY <1>12, <1>13, <1>14, <2>5, CombinatorTree
    <3>2. Grown(ReferencedNodes(AddChild(placed, a, b), a), with, 1, test, kind, loose)
      BY <1>18, <3>1
    <3> QED
      BY <1>17, <3>2, GrownFrom
  <2>7. p = None
    BY <1>1, <1>15 DEF p
  <2> QED
    BY <1>15, <2>6, <2>7 DEF placed, up, with, half, comb, leaf, p
<1>16. CASE n # 1
  <2>1. p \in L /\ p # None
    BY <1>1, <1>16
  <2>2. PICK at \in DOMAIN ns[p].children : ns[p].children[at] = n
    BY <1>1, <1>16
  <2>3. at \in DOMAIN with[p].children /\ n = with[p].children[at]
    BY <1>10, <2>1, <2>2
  <2> DEFINE placed == AddChild(ReplaceChild(with, p, n, a), a, n)
  <2>4. Covered(placed, with, 1, 1, L, a)
    BY <1>8, <1>10, <1>11, <1>12, <2>1, <2>3, CoverInnerLinked
  <2> HIDE DEF placed
  <2>5. Grown(ReferencedNodes(AddChild(placed, a, b), 1), ns, 1, test, kind, loose)
    <3>1. Grown(ReferencedNodes(AddChild(placed, a, b), 1), with, 1, with[b].test, with[a].kind, loose)
      BY <1>12, <1>13, <1>14, <2>4, CombinatorTree
    <3>2. Grown(ReferencedNodes(AddChild(placed, a, b), 1), with, 1, test, kind, loose)
      BY <1>18, <3>1
    <3> QED
      BY <1>17, <3>2, GrownFrom
  <2> QED
    BY <2>1, <2>5 DEF placed, with, half, comb, leaf, p
<1> QED
  BY <1>15, <1>16

-----------------------------------------------------------------------------
(* RemoveNode: the loop that lifts single children. *)

LiftStates(N) == [nodes : [1..N -> NodeRecords], root : 1..N, parent : (1..N) \cup {None}]

(* A turn of the loop finds the nodes as they were, from the root to the one it looks at, but *)
(* for the children of this one.                                                              *)
Lifting(st, ns, N, L) ==
  /\ st \in LiftStates(N)
  /\ Linked(st.nodes, st.root, L, [n \in 1..N |-> n], N)
  /\ st.parent = None \/ /\ st.root = 1
                         /\ \A m \in 1..N : m <= st.parent => m \in L /\ st.nodes[m].parent = ns[m].parent
                         /\ \A m \in 1..N : m < st.parent => st.nodes[m].children = ns[m].children

(* Only the node that the loop looks at has lost a child. *)
LostOne(st, L) == st.parent # None /\ Len(st.nodes[st.parent].children) >= 1 /\ Branched(st.nodes, L \ {st.parent})

LEMMA LiftStateIs ==
  ASSUME NEW N, NEW st \in LiftStates(N), NEW up, NEW ms
  PROVE  LET new == [st EXCEPT !.nodes = ms, !.parent = up]
         IN  new = [nodes |-> ms, root |-> st.root, parent |-> up]
<1> DEFINE new == [st EXCEPT !.nodes = ms, !.parent = up]
           b == [nodes |-> ms, root |-> st.root, parent |-> up]
<1>1. DOMAIN st = {"nodes", "root", "parent"}
  BY DEF LiftStates
<1>2. DOMAIN new = {"nodes", "root", "parent"} /\ DOMAIN b = {"nodes", "root", "parent"}
  BY <1>1
<1>3. new.nodes = ms /\ new.root = st.root /\ new.parent = up
  BY <1>1
<1>4. new = [x \in DOMAIN new |-> new[x]] /\ b = [x \in DOMAIN b |-> b[x]]
  BY <1>1
<1>5. \A x \in DOMAIN new : new[x] = b[x]
  <2> HIDE DEF new
  <2> QED
    BY <1>2, <1>3
<1>6. new = b
  <2> HIDE DEF new, b
  <2> QED
    BY <1>2, <1>4, <1>5
<1> QED
  BY <1>6

(* What the nodes mean from the root on. *)
SameSongs(state, st) ==
  \A song : IsSatisfiedBy(state.nodes, state.root, song) <=> IsSatisfiedBy(st.nodes, st.root, song)

LEMMA LiftTurn ==
  ASSUME NEW ns, NEW N, NumberedTo(ns, N), NEW st, NEW L, Lifting(st, ns, N, L)
  PROVE  \E L2 : /\ Lifting(LiftSingleChild(st), ns, N, L2)
                 /\ LostOne(st, L) \/ Branched(st.nodes, L) => Branched(LiftSingleChild(st).nodes, L2)
                 /\ SameSongs(LiftSingleChild(st), st)
<1> DEFINE ms == st.nodes
           r == st.root
           q == st.parent
           id == [n \in 1..N |-> n]
           c == ms[q].children[1]
           g == ms[q].parent
<1>1. /\ st \in LiftStates(N) /\ Linked(ms, r, L, id, N) /\ ms \in [1..N -> NodeRecords]
      /\ r \in 1..N /\ q \in (1..N) \cup {None} /\ DOMAIN ms = 1..N
  BY DEF Lifting, LiftStates
<1>2. /\ N \in 1..MaxNodes /\ N \in Nat /\ DOMAIN ns = 1..N /\ ns[1].parent = None /\ None \notin 1..N /\ 1 \in 1..N
      /\ \A n \in 1..N : n # 1 => /\ ns[n].parent \in 1..N /\ ns[n].parent < n /\ ns[n].parent # None
                                  /\ \E at \in DOMAIN ns[ns[n].parent].children : ns[ns[n].parent].children[at] = n
  BY TreeFacts, ZenonT(30)
<1>3. q = None \/ /\ r = 1
                  /\ \A m \in 1..N : m <= q => m \in L /\ ms[m].parent = ns[m].parent
                  /\ \A m \in 1..N : m < q => ms[m].children = ns[m].children
  BY DEF Lifting
<1>4. L \subseteq 1..N /\ \A n \in 1..N : Len(ms[n].children) \in Nat
  BY <1>1, NodeIs DEF Linked
<1> HIDE DEF ms, r, q, id
<1>5. CASE q = None \/ Len(ms[q].children) # 1
  <2>1. LiftSingleChild(st) = st
    BY <1>5 DEF LiftSingleChild, ms, q
  <2>2. ASSUME LostOne(st, L)
        PROVE  Branched(ms, L)
    <3> SUFFICES ASSUME NEW m \in L, CanHaveChildren(ms[m])
                 PROVE  Len(ms[m].children) >= 2
      BY DEF Branched
    <3>1. q # None /\ Len(ms[q].children) >= 1 /\ Branched(ms, L \ {q})
      BY <2>2 DEF LostOne, ms, q
    <3>2. CASE m = q
      <4>1. Len(ms[q].children) \in Nat
        BY <1>4, <3>2
      <4>2. Len(ms[q].children) # 1
        BY <1>5, <3>1
      <4> DEFINE k == Len(ms[q].children)
      <4>3. k \in Nat /\ k # 1 /\ k >= 1
        BY <3>1, <4>1, <4>2
      <4> HIDE DEF k
      <4>4. k >= 2
        BY <4>3
      <4> QED
        BY <3>2, <4>4 DEF k
    <3>3. CASE m # q
      BY <3>1, <3>3 DEF Branched
    <3> QED
      BY <3>2, <3>3
  <2>3. SameSongs(LiftSingleChild(st), st)
    BY <2>1 DEF SameSongs
  <2> QED
    BY <2>1, <2>2, <2>3 DEF ms
<1>6. CASE q # None /\ Len(ms[q].children) = 1
  <2>1. q \in 1..N /\ q \in L /\ r = 1 /\ q \in Nat
    <3>1. q \in 1..N /\ r = 1
      BY <1>1, <1>3, <1>6
    <3>2. q \in Nat /\ q <= q
      BY <1>2, <3>1
    <3> QED
      BY <1>3, <1>6, <3>1, <3>2
  <2>2. g = ns[q].parent
    BY <1>3, <1>6, <2>1
  <2>3. c \in L /\ c \in 1..N /\ c # None
    <3>1. 1 \in DOMAIN ms[q].children
      <4>1. DOMAIN ms[q].children = 1..Len(ms[q].children)
        BY <1>1, <2>1, NodeIs
      <4> QED
        BY <1>6, <4>1
    <3>2. c \in L
      BY <1>1, <2>1, <3>1 DEF Linked
    <3> QED
      BY <1>2, <1>4, <3>2
  <2> HIDE DEF c, g
  <2>4. ASSUME LostOne(st, L) \/ Branched(ms, L)
        PROVE  Branched(ms, L \ {q})
    <3>1. LostOne(st, L) => Branched(ms, L \ {q})
      BY DEF LostOne, ms, q
    <3>2. Branched(ms, L) => Branched(ms, L \ {q})
      BY DEF Branched
    <3> QED
      BY <2>4, <3>1, <3>2
  <2>5. CASE g = None
    <3>7. q = r
      BY <1>2, <2>1, <2>2, <2>5
    <3> DEFINE ms2 == SetRootParent(ms, c)
               new == [nodes |-> ms2, root |-> c, parent |-> None]
    <3>1. LiftSingleChild(st) = new
      BY <1>6, <2>5 DEF LiftSingleChild, ms, q, c, g
    <3>2. /\ Linked(ms2, c, L \ {q}, id, N)
          /\ Relinked(ms2, ms, 1..N)
          /\ \A m \in 1..N : ms2[m].children = ms[m].children
      <4>1. ms[q].parent = None /\ c = ms[q].children[1]
        BY <2>5 DEF g, c
      <4>2. LiftedRoot(ms2, ms, c, L \ {q}, id, N)
        BY <1>1, <1>6, <2>1, <4>1, LiftRootLinked
      <4> QED
        BY <1>1, <4>2 DEF LiftedRoot
    <3>8. \A song : IsSatisfiedBy(ms2, c, song) <=> IsSatisfiedBy(ms, r, song)
      <4>1. ms[q].parent = None /\ c = ms[r].children[1] /\ c = ms[q].children[1] /\ Len(ms[r].children) = 1
        BY <1>6, <2>5, <3>7 DEF g, c
      <4>2. LiftedRoot(ms2, ms, c, L \ {q}, id, N)
        BY <1>1, <1>6, <2>1, <4>1, LiftRootLinked
      <4> QED
        BY <1>1, <4>1, <4>2, LiftRootMeans
    <3> HIDE DEF ms2
    <3>3. new \in LiftStates(N)
      <4>1. ms2 \in [1..N -> NodeRecords]
        BY <3>2 DEF Relinked
      <4> QED
        BY <2>3, <4>1 DEF LiftStates
    <3>4. Lifting(new, ns, N, L \ {q})
      BY <3>2, <3>3 DEF Lifting, id
    <3>5. Branched(ms, L \ {q}) => Branched(ms2, L \ {q})
      BY <1>4, <3>2 DEF Relinked, Branched, CanHaveChildren
    <3>6. new.nodes = ms2 /\ new.root = c
      OBVIOUS
    <3> HIDE DEF new
    <3>9. SameSongs(LiftSingleChild(st), st)
      BY <3>1, <3>6, <3>8 DEF SameSongs, ms, r
    <3> QED
      BY <2>4, <3>1, <3>4, <3>5, <3>6, <3>9 DEF ms
  <2>6. CASE g # None
    <3> DEFINE ms2 == ReplaceChild(ms, g, q, c)
               new == [nodes |-> ms2, root |-> r, parent |-> g]
    <3>1. LiftSingleChild(st) = new
      <4>1. LiftSingleChild(st) = [st EXCEPT !.nodes = ReplaceChild(ms, g, q, c), !.parent = g]
        BY <1>6, <2>6 DEF LiftSingleChild, ms, q, c, g
      <4> QED
        BY <1>1, <4>1, LiftStateIs DEF r
    <3>2. q # 1 /\ g \in 1..N /\ g < q /\ g \in Nat /\ \E at \in DOMAIN ns[g].children : ns[g].children[at] = q
      BY <1>2, <2>1, <2>2, <2>6
    <3>3. g \in L /\ ms[g].children = ns[g].children
      BY <1>3, <1>6, <2>1, <3>2
    <3>4. PICK at \in DOMAIN ms[g].children : ms[g].children[at] = q
      BY <3>2, <3>3
    <3>5. /\ Linked(ms2, r, L \ {q}, id, N)
          /\ Relinked(ms2, ms, 1..N)
          /\ \A m \in 1..N : m # q /\ m # c => ms2[m].parent = ms[m].parent
          /\ \A m \in 1..N : m # g => ms2[m].children = ms[m].children
          /\ Len(ms2[g].children) = Len(ms[g].children)
          /\ id[q] < id[c]
      <4>1. ms[q].children[1] = c
        BY DEF c
      <4>2. LiftedInner(ms2, ms, r, g, q, c, L \ {q}, id, N)
        BY <1>1, <1>6, <2>1, <3>3, <3>4, <4>1, LiftInnerLinked
      <4> QED
        BY <1>1, <4>2 DEF LiftedInner
    <3>13. \A song : IsSatisfiedBy(ms2, r, song) <=> IsSatisfiedBy(ms, r, song)
      <4>1. ms[q].children[1] = c /\ q # g
        BY <2>1, <3>2 DEF c
      <4>2. LiftedInner(ms2, ms, r, g, q, c, L \ {q}, id, N)
        BY <1>1, <1>6, <2>1, <3>3, <3>4, <4>1, LiftInnerLinked
      <4>3. Linked(ms, r, L, id, N) /\ g \in L /\ q \in L /\ Len(ms[q].children) = 1
        BY <1>1, <1>6, <2>1, <3>3
      <4> HIDE DEF ms2
      <4> QED
        BY <4>1, <4>2, <4>3, LiftInnerMeans, SMTT(30)
    <3> HIDE DEF ms2
    <3>6. q < c
      BY <2>1, <2>3, <3>5 DEF id
    <3>7. new \in LiftStates(N)
      <4>1. ms2 \in [1..N -> NodeRecords]
        BY <3>5 DEF Relinked
      <4> QED
        BY <1>1, <3>2, <4>1 DEF LiftStates
    <3>8. \A m \in 1..N : m <= g => m \in L \ {q} /\ ms2[m].parent = ns[m].parent
      <4> SUFFICES ASSUME NEW m \in 1..N, m <= g
                   PROVE  m \in L \ {q} /\ ms2[m].parent = ns[m].parent
        OBVIOUS
      <4>1. m < q /\ m <= q /\ m # q /\ m # c /\ m \in Nat
        BY <1>2, <2>1, <2>3, <3>2, <3>6
      <4> QED
        BY <1>3, <1>6, <3>5, <4>1
    <3>9. \A m \in 1..N : m < g => ms2[m].children = ns[m].children
      <4> SUFFICES ASSUME NEW m \in 1..N, m < g
                   PROVE  ms2[m].children = ns[m].children
        OBVIOUS
      <4>1. m < q /\ m # g
        BY <1>2, <2>1, <3>2
      <4> QED
        BY <1>3, <1>6, <3>5, <4>1
    <3>10. new.nodes = ms2 /\ new.root = r /\ new.parent = g
      OBVIOUS
    <3> HIDE DEF new
    <3>11. Lifting(new, ns, N, L \ {q})
      BY <2>1, <3>5, <3>7, <3>8, <3>9, <3>10 DEF Lifting, id
    <3>12. Branched(ms, L \ {q}) => Branched(ms2, L \ {q})
      <4>1. \A m \in 1..N : Len(ms2[m].children) = Len(ms[m].children) /\ (CanHaveChildren(ms2[m]) <=> CanHaveChildren(ms[m]))
        BY <3>5 DEF Relinked, CanHaveChildren
      <4> QED
        BY <1>4, <4>1 DEF Branched
    <3>14. SameSongs(LiftSingleChild(st), st)
      BY <3>1, <3>10, <3>13 DEF SameSongs, ms, r
    <3> QED
      BY <2>4, <3>1, <3>10, <3>11, <3>12, <3>14 DEF ms
  <2> QED
    BY <2>5, <2>6
<1> QED
  BY <1>5, <1>6

(* The loop of RemoveNode on a tree that has lost the node n. *)
RemovedFrom(ns, n) == [nodes |-> RemoveChild(ns, ns[n].parent, n), root |-> 1, parent |-> ns[n].parent]
LiftAll(removed) ==
  LET lifted[turn \in 0..MaxNodes] == IF turn = 0 THEN removed ELSE LiftSingleChild(lifted[turn - 1])
  IN  lifted[MaxNodes]

LEMMA RemovedLifting ==
  ASSUME NEW ns, NEW N, NEW loose, Tree(ns, N, loose), NEW n \in 1..N, n # 1
  PROVE  /\ \E L : Lifting(RemovedFrom(ns, n), ns, N, L) /\ (loose \/ LostOne(RemovedFrom(ns, n), L))
         /\ \A song : IsSatisfiedBy(RemovedFrom(ns, n).nodes, 1, song) <=> SatisfiesWithout(ns, 1, n, song)
<1> DEFINE id == [m \in 1..N |-> m]
           p == ns[n].parent
           ms == RemoveChild(ns, p, n)
           new == RemovedFrom(ns, n)
           L == (1..N) \ {n}
<1>1. /\ NumberedTo(ns, N) /\ (loose \/ Branched(ns, 1..N))
      /\ DOMAIN ns = 1..N /\ Linked(ns, 1, 1..N, id, N) /\ ns \in [1..N -> NodeRecords] /\ 1 \in 1..N /\ N \in Nat
      /\ None \notin 1..N
  BY TreeFacts DEF Tree
<1>2. /\ p \in 1..N /\ p < n /\ p # None /\ CanHaveChildren(ns[p])
      /\ \E at \in DOMAIN ns[p].children : ns[p].children[at] = n
  BY <1>1, TreeFacts
<1>3. PICK at \in DOMAIN ns[p].children : ns[p].children[at] = n
  BY <1>2
<1>4. Len(ns[p].children) \in Nat
  BY <1>1, <1>2, NodeIs
<1> HIDE DEF id, p
<1>5. /\ Linked(ms, 1, L, id, N)
      /\ Relinked(ms, ns, 1..N)
      /\ \A m \in 1..N : ms[m].parent = IF m = n THEN None ELSE ns[m].parent
      /\ \A m \in 1..N : m # p => ms[m].children = ns[m].children
      /\ Len(ms[p].children) = Len(ns[p].children) - 1
      /\ \A song : IsSatisfiedBy(ms, 1, song) <=> SatisfiesWithout(ns, 1, n, song)
  <2>1. Cut(ms, ns, 1, p, n, L, id, N)
    BY <1>1, <1>2, <1>3, CutLinked
  <2>2. \A song : IsSatisfiedBy(ms, 1, song) <=> SatisfiesWithout(ns, 1, n, song)
    BY <1>1, <2>1, CutMeans
  <2> QED
    BY <1>1, <2>1, <2>2 DEF Cut
<1> HIDE DEF ms
<1>6. new = [nodes |-> ms, root |-> 1, parent |-> p]
  BY DEF RemovedFrom, ms, p
<1> HIDE DEF new
<1>7. new.nodes = ms /\ new.root = 1 /\ new.parent = p
  BY <1>6
<1>8. new \in LiftStates(N)
  <2>1. ms \in [1..N -> NodeRecords]
    BY <1>5 DEF Relinked
  <2> QED
    BY <1>1, <1>2, <1>6, <2>1 DEF LiftStates
<1>9. \A m \in 1..N : m <= p => m \in L /\ ms[m].parent = ns[m].parent
  <2> SUFFICES ASSUME NEW m \in 1..N, m <= p
               PROVE  m \in L /\ ms[m].parent = ns[m].parent
    OBVIOUS
  <2>1. m # n
    BY <1>1, <1>2
  <2> QED
    BY <1>5, <2>1
<1>10. \A m \in 1..N : m < p => ms[m].children = ns[m].children
  <2> SUFFICES ASSUME NEW m \in 1..N, m < p
               PROVE  ms[m].children = ns[m].children
    OBVIOUS
  <2>1. m # p
    BY <1>1, <1>2
  <2> QED
    BY <1>5, <2>1
<1>11. Lifting(new, ns, N, L)
  BY <1>5, <1>7, <1>8, <1>9, <1>10 DEF Lifting, id
<1>12. ASSUME Branched(ns, 1..N)
       PROVE  LostOne(new, L)
  <2>1. Len(ns[p].children) >= 2
    BY <1>2, <1>12 DEF Branched
  <2>2. Len(ms[p].children) >= 1
    BY <1>4, <1>5, <2>1
  <2>3. Branched(ms, L \ {p})
    <3> SUFFICES ASSUME NEW m \in L \ {p}, CanHaveChildren(ms[m])
                 PROVE  Len(ms[m].children) >= 2
      BY DEF Branched
    <3>1. m \in 1..N /\ CanHaveChildren(ns[m]) /\ ms[m].children = ns[m].children
      BY <1>5 DEF Relinked, CanHaveChildren
    <3> QED
      BY <1>12, <3>1 DEF Branched
  <2> QED
    BY <1>2, <1>7, <2>2, <2>3 DEF LostOne
<1> QED
  BY <1>1, <1>5, <1>7, <1>11, <1>12 DEF new

LEMMA LiftedTree ==
  ASSUME NEW ns, NEW N, NEW loose, NumberedTo(ns, N), NEW removed,
         \E L : Lifting(removed, ns, N, L) /\ (loose \/ LostOne(removed, L))
  PROVE  LET R == ReferencedNodes(LiftAll(removed).nodes, LiftAll(removed).root)
         IN  /\ \E K : Tree(R, K, loose)
             /\ \A song : IsSatisfiedBy(R, 1, song) <=> IsSatisfiedBy(removed.nodes, removed.root, song)
<1> DEFINE T == MaxNodes
           V == {st \in LiftStates(N) : \E L : Lifting(st, ns, N, L)}
           F(f) == [turn \in 0..T |-> IF turn = 0 THEN removed ELSE LiftSingleChild(f[turn - 1])]
           lifted == CHOOSE f : f = F(f)
           step == [x \in (1..T) \X V |-> LiftSingleChild(x[2])]
<1>1. T \in Nat /\ T >= 1 /\ LiftAll(removed) = lifted[T]
  BY FilterEditorAssumption DEF LiftAll
<1> HIDE DEF T
<1>2. removed \in V /\ \A v \in V : LiftSingleChild(v) \in V
  <2>1. ASSUME NEW v \in V
        PROVE  LiftSingleChild(v) \in V
    <3>1. \E L : Lifting(LiftSingleChild(v), ns, N, L)
      BY LiftTurn
    <3> QED
      BY <3>1 DEF Lifting
  <2>2. removed \in V
    BY DEF Lifting
  <2> QED
    BY <2>1, <2>2
<1> HIDE DEF V
<1>3. \E f : f = F(f)
  <2>1. step \in [(1..T) \X V -> V] /\ \A k \in 1..T, v \in V : step[<<k, v>>] = LiftSingleChild(v)
    BY <1>2
  <2>2. 0 \in Int /\ T \in Int /\ 0 <= T /\ (0 + 1)..T = 1..T
    BY <1>1
  <2> HIDE DEF step
  <2>3. Recursion(V, 0, T, removed, step)
    BY <1>2, <2>1, <2>2 DEF Recursion
  <2>4. PICK f : Follows(f, V, 0, T, removed, step)
    BY <2>3, RecursionExists
  <2>5. f \in [0..T -> V] /\ \A k \in 0..T : f[k] = IF k = 0 THEN removed ELSE step[<<k, f[k - 1]>>]
    BY <2>4 DEF Follows
  <2>6. \A k \in 0..T : k # 0 => k \in 1..T /\ k - 1 \in 0..T
    BY <1>1
  <2>7. \A k \in 0..T : f[k] = IF k = 0 THEN removed ELSE LiftSingleChild(f[k - 1])
    <3> TAKE k \in 0..T
    <3>1. k = 0 => f[k] = removed
      BY <2>5
    <3>2. ASSUME k # 0
          PROVE  f[k] = LiftSingleChild(f[k - 1])
      <4>1. k \in 1..T /\ f[k - 1] \in V /\ f[k] = step[<<k, f[k - 1]>>]
        BY <2>5, <2>6, <3>2
      <4> QED
        BY <2>1, <4>1
    <3> QED
      BY <3>1, <3>2
  <2>8. f = F(f)
    BY <2>5, <2>7
  <2> QED
    BY <2>8
<1>4. lifted = F(lifted)
  BY <1>3
<1> HIDE DEF lifted
<1>5. lifted[0] = removed /\ \A k \in 1..T : lifted[k] = LiftSingleChild(lifted[k - 1])
  <2>1. 0 \in 0..T /\ \A k \in 1..T : k \in 0..T /\ k # 0
    BY <1>1
  <2> QED
    BY <1>4, <2>1
<1> DEFINE Ok(st, turn) == \E L : /\ Lifting(st, ns, N, L)
                                  /\ loose \/ Branched(st.nodes, L) \/ (turn = 0 /\ LostOne(st, L))
                                  /\ SameSongs(st, removed)
           P == {turn \in 0..T : Ok(lifted[turn], turn)}
<1>6. 0 \in P
  <2>1. Ok(removed, 0)
    BY DEF SameSongs
  <2> HIDE DEF Ok
  <2> QED
    BY <1>1, <1>5, <2>1
<1>7. ASSUME NEW k \in 1..T, k - 1 \in P
      PROVE  k \in P
  <2>1. Ok(lifted[k - 1], k - 1)
    BY <1>7
  <2>2. PICK L : /\ Lifting(lifted[k - 1], ns, N, L)
                 /\ loose \/ Branched(lifted[k - 1].nodes, L) \/ LostOne(lifted[k - 1], L)
                 /\ SameSongs(lifted[k - 1], removed)
    BY <2>1
  <2>3. PICK L2 : /\ Lifting(LiftSingleChild(lifted[k - 1]), ns, N, L2)
                  /\ LostOne(lifted[k - 1], L) \/ Branched(lifted[k - 1].nodes, L) => Branched(LiftSingleChild(lifted[k - 1]).nodes, L2)
                  /\ SameSongs(LiftSingleChild(lifted[k - 1]), lifted[k - 1])
    BY <2>2, LiftTurn
  <2>4. Lifting(lifted[k], ns, N, L2) /\ (loose \/ Branched(lifted[k].nodes, L2)) /\ SameSongs(lifted[k], removed)
    <3>1. SameSongs(lifted[k], lifted[k - 1])
      BY <1>5, <2>3
    <3>2. SameSongs(lifted[k], removed)
      BY <2>2, <3>1 DEF SameSongs
    <3> QED
      BY <1>5, <2>2, <2>3, <3>2
  <2>5. Ok(lifted[k], k)
    BY <2>4
  <2> HIDE DEF Ok
  <2>6. k \in 0..T
    BY <1>1
  <2> QED
    BY <2>5, <2>6
<1>8. T \in P
  <2> HIDE DEF P
  <2>1. \A k \in 0..T : k \in P
    BY <1>1, <1>6, <1>7, CountInduction
  <2>2. T \in 0..T
    BY <1>1
  <2> QED
    BY <2>1, <2>2
<1>9. PICK L : Lifting(lifted[T], ns, N, L) /\ (loose \/ Branched(lifted[T].nodes, L)) /\ SameSongs(lifted[T], removed)
  <2>1. Ok(lifted[T], T)
    BY <1>8
  <2> QED
    BY <1>1, <2>1
<1> DEFINE st == lifted[T]
<1>10. /\ Linked(st.nodes, st.root, L, [m \in 1..N |-> m], N) /\ (loose \/ Branched(st.nodes, L))
       /\ SameSongs(st, removed)
  BY <1>9 DEF Lifting
<1> HIDE DEF st
<1>11. \E K : Tree(ReferencedNodes(st.nodes, st.root), K, loose)
  BY <1>10, ReferencedTree
<1>12. \A song : IsSatisfiedBy(ReferencedNodes(st.nodes, st.root), 1, song) <=> IsSatisfiedBy(removed.nodes, removed.root, song)
  <2> TAKE song
  <2>1. IsSatisfiedBy(ReferencedNodes(st.nodes, st.root), 1, song) <=> IsSatisfiedBy(st.nodes, st.root, song)
    BY <1>10, ReferencedMeans
  <2> QED
    BY <1>10, <2>1 DEF SameSongs
<1> QED
  BY <1>1, <1>11, <1>12 DEF st

-----------------------------------------------------------------------------
(* What the user enters in a node's line leaves the tree alone. *)

(* ms are the nodes ns with other contents. *)
Refilled(ms, ns, N) ==
  /\ ms \in [1..N -> NodeRecords]
  /\ \A m \in 1..N : /\ ms[m].parent = ns[m].parent /\ ms[m].children = ns[m].children
                     /\ CanHaveChildren(ms[m]) <=> CanHaveChildren(ns[m])

LEMMA RefilledTree ==
  ASSUME NEW ns, NEW N, NEW loose, Tree(ns, N, loose), NEW ms, Refilled(ms, ns, N)
  PROVE  Tree(ms, N, loose)
<1>1. /\ N \in 1..MaxNodes /\ N \in Nat /\ 1 \in 1..N
  BY TreeFacts DEF Tree
<1>2. /\ ms \in [1..N -> NodeRecords]
      /\ \A m \in 1..N : /\ ms[m].parent = ns[m].parent /\ ms[m].children = ns[m].children
                         /\ CanHaveChildren(ms[m]) <=> CanHaveChildren(ns[m])
  BY DEF Refilled
<1>3. /\ ns[1].parent = None
      /\ \A i \in 2..N : ns[i].parent \in 1..(i - 1) /\ CanHaveChildren(ns[ns[i].parent])
      /\ \A i, j \in 2..N : ns[i].parent < j /\ j < i => ns[i].parent <= ns[j].parent
      /\ \A n \in 1..N : \A k, o \in DOMAIN ns[n].children : k < o => ns[n].children[k] < ns[n].children[o]
      /\ \A n \in 1..N : Range(ns[n].children) = {c \in 2..N : ns[c].parent = n}
  BY DEF Tree, NumberedTo
<1>4. ms[1].parent = None
  BY <1>1, <1>2, <1>3
<1>5. \A i \in 2..N : ms[i].parent \in 1..(i - 1) /\ CanHaveChildren(ms[ms[i].parent])
  <2> TAKE i \in 2..N
  <2> DEFINE p == ns[i].parent
  <2>1. p \in 1..(i - 1) /\ CanHaveChildren(ns[p]) /\ i \in 1..N
    BY <1>1, <1>3
  <2>2. p \in 1..N
    BY <1>1, <2>1
  <2>3. ms[i].parent = p
    BY <1>2, <2>1
  <2> HIDE DEF p
  <2>4. CanHaveChildren(ms[p])
    BY <1>2, <2>1, <2>2
  <2> QED
    BY <2>1, <2>3, <2>4
<1>6. \A i, j \in 2..N : ms[i].parent < j /\ j < i => ms[i].parent <= ms[j].parent
  <2>1. \A i \in 2..N : ms[i].parent = ns[i].parent
    BY <1>1, <1>2
  <2> QED
    BY <1>3, <2>1
<1>7. \A n \in 1..N : \A k, o \in DOMAIN ms[n].children : k < o => ms[n].children[k] < ms[n].children[o]
  BY <1>2, <1>3
<1>8. \A n \in 1..N : Range(ms[n].children) = {c \in 2..N : ms[c].parent = n}
  <2> TAKE n \in 1..N
  <2>1. Range(ms[n].children) = {c \in 2..N : ns[c].parent = n}
    BY <1>2, <1>3
  <2>2. \A c \in 2..N : ms[c].parent = ns[c].parent
    BY <1>1, <1>2
  <2> QED
    BY <2>1, <2>2
<1>9. NumberedTo(ms, N)
  BY <1>1, <1>2, <1>4, <1>5, <1>6, <1>7, <1>8 DEF NumberedTo
<1>10. Branched(ns, 1..N) => Branched(ms, 1..N)
  BY <1>2 DEF Branched
<1> QED
  BY <1>9, <1>10 DEF Tree

(* A node with another kind or another comparison. *)
LEMMA RefilledNode ==
  ASSUME NEW node \in NodeRecords
  PROVE  /\ \A kind \in Combinators :
              LET new == [node EXCEPT !.kind = kind]
              IN  /\ new \in NodeRecords /\ new.parent = node.parent /\ new.children = node.children /\ new.kind = kind
         /\ \A test \in AllTests :
              LET new == [node EXCEPT !.test = test]
              IN  /\ new \in NodeRecords /\ new.parent = node.parent /\ new.children = node.children /\ new.kind = node.kind
<1>1. /\ node = [kind |-> node.kind, test |-> node.test, parent |-> node.parent, children |-> node.children]
      /\ node.kind \in Combinators \cup {"comparison"} /\ node.test \in AllTests /\ node.parent \in Addresses \cup {None}
      /\ node.children \in Seq(Addresses)
  BY NodeIs
<1>2. DOMAIN node = {"kind", "test", "parent", "children"}
  BY <1>1
<1>3. ASSUME NEW kind \in Combinators
      PROVE  LET new == [node EXCEPT !.kind = kind]
             IN  /\ new \in NodeRecords /\ new.parent = node.parent /\ new.children = node.children /\ new.kind = kind
  <2> DEFINE new == [node EXCEPT !.kind = kind]
             b == [kind |-> kind, test |-> node.test, parent |-> node.parent, children |-> node.children]
  <2>1. DOMAIN new = {"kind", "test", "parent", "children"} /\ DOMAIN b = {"kind", "test", "parent", "children"}
    BY <1>2
  <2>2. new.kind = kind /\ new.test = node.test /\ new.parent = node.parent /\ new.children = node.children
    BY <1>2
  <2>3. new = [x \in DOMAIN new |-> new[x]] /\ b = [x \in DOMAIN b |-> b[x]]
    BY <1>2
  <2>4. \A x \in DOMAIN new : new[x] = b[x]
    <3> HIDE DEF new
    <3> QED
      BY <2>1, <2>2
  <2>5. b \in NodeRecords
    BY <1>1 DEF NodeRecords
  <2>6. new = b
    <3> HIDE DEF new, b
    <3> QED
      BY <2>1, <2>3, <2>4
  <2> HIDE DEF new
  <2>7. new \in NodeRecords
    BY <2>5, <2>6
  <2> QED
    BY <2>2, <2>7 DEF new
<1>4. ASSUME NEW test \in AllTests
      PROVE  LET new == [node EXCEPT !.test = test]
             IN  /\ new \in NodeRecords /\ new.parent = node.parent /\ new.children = node.children /\ new.kind = node.kind
  <2> DEFINE new == [node EXCEPT !.test = test]
             b == [kind |-> node.kind, test |-> test, parent |-> node.parent, children |-> node.children]
  <2>1. DOMAIN new = {"kind", "test", "parent", "children"} /\ DOMAIN b = {"kind", "test", "parent", "children"}
    BY <1>2
  <2>2. new.kind = node.kind /\ new.test = test /\ new.parent = node.parent /\ new.children = node.children
    BY <1>2
  <2>3. new = [x \in DOMAIN new |-> new[x]] /\ b = [x \in DOMAIN b |-> b[x]]
    BY <1>2
  <2>4. \A x \in DOMAIN new : new[x] = b[x]
    <3> HIDE DEF new
    <3> QED
      BY <2>1, <2>2
  <2>5. b \in NodeRecords
    BY <1>1 DEF NodeRecords
  <2>6. new = b
    <3> HIDE DEF new, b
    <3> QED
      BY <2>1, <2>3, <2>4
  <2> HIDE DEF new
  <2>7. new \in NodeRecords
    BY <2>5, <2>6
  <2> QED
    BY <2>2, <2>7 DEF new
<1> QED
  BY <1>3, <1>4

LEMMA SetNodeTree ==
  ASSUME NEW ns, NEW N, NEW loose, Tree(ns, N, loose), NEW n \in 1..N, NEW new \in NodeRecords,
         new.parent = ns[n].parent, new.children = ns[n].children, CanHaveChildren(new) <=> CanHaveChildren(ns[n])
  PROVE  Tree([ns EXCEPT ![n] = new], N, loose)
<1> DEFINE ms == [ns EXCEPT ![n] = new]
<1>1. ns \in [1..N -> NodeRecords]
  BY TreeFacts DEF Tree
<1>2. ms \in [1..N -> NodeRecords] /\ ms[n] = new /\ \A m \in 1..N : m # n => ms[m] = ns[m]
  BY <1>1
<1> HIDE DEF ms
<1>3. \A m \in 1..N : /\ ms[m].parent = ns[m].parent /\ ms[m].children = ns[m].children
                      /\ CanHaveChildren(ms[m]) <=> CanHaveChildren(ns[m])
  <2> TAKE m \in 1..N
  <2>1. CASE m = n
    BY <1>2, <2>1
  <2>2. CASE m # n
    BY <1>2, <2>2
  <2> QED
    BY <2>1, <2>2
<1>4. Refilled(ms, ns, N)
  BY <1>2, <1>3 DEF Refilled
<1>5. Tree(ms, N, loose)
  BY <1>4, RefilledTree
<1> QED
  BY <1>5 DEF ms

-----------------------------------------------------------------------------
(* Each edit leaves a tree. *)

LEMMA SetModelDataTree ==
  ASSUME NEW N, Tree(nodes, N, tornRows), NEW n \in 1..N, SetModelData(n)
  PROVE  Tree(nodes', N, tornRows)
<1> DEFINE node == nodes[n]
<1>1. nodes \in [1..N -> NodeRecords] /\ node \in NodeRecords
  BY TreeFacts DEF Tree
<1>2. CASE CanHaveChildren(nodes[n]) /\ \E kind \in Combinators : nodes' = [nodes EXCEPT ![n].kind = kind]
  <2>1. PICK kind \in Combinators : nodes' = [nodes EXCEPT ![n].kind = kind]
    BY <1>2
  <2> DEFINE new == [node EXCEPT !.kind = kind]
  <2>2. new \in NodeRecords /\ new.parent = node.parent /\ new.children = node.children /\ new.kind = kind
    BY <1>1, RefilledNode
  <2>3. nodes' = [nodes EXCEPT ![n] = new]
    BY <2>1
  <2> HIDE DEF new
  <2>4. CanHaveChildren(new) <=> CanHaveChildren(nodes[n])
    BY <1>2, <2>2 DEF CanHaveChildren
  <2> QED
    BY <2>2, <2>3, <2>4, SetNodeTree
<1>3. CASE ~CanHaveChildren(nodes[n]) /\ \E test \in Tests : nodes' = [nodes EXCEPT ![n].test = test]
  <2>1. PICK test \in Tests : nodes' = [nodes EXCEPT ![n].test = test]
    BY <1>3
  <2> DEFINE new == [node EXCEPT !.test = test]
  <2>2. new \in NodeRecords /\ new.parent = node.parent /\ new.children = node.children /\ new.kind = node.kind
    <3>1. test \in AllTests
      BY DEF AllTests
    <3> QED
      BY <1>1, <3>1, RefilledNode
  <2>3. nodes' = [nodes EXCEPT ![n] = new]
    BY <2>1
  <2> HIDE DEF new
  <2>4. CanHaveChildren(new) <=> CanHaveChildren(nodes[n])
    BY <2>2 DEF CanHaveChildren
  <2> QED
    BY <2>2, <2>3, <2>4, SetNodeTree
<1> QED
  BY <1>2, <1>3 DEF SetModelData

LEMMA FreshTwo ==
  ASSUME NEW N, Tree(nodes, N, tornRows), Cardinality(DOMAIN nodes) + 2 <= MaxNodes
  PROVE  /\ Fresh(2)[1] \in Addresses \ DOMAIN nodes /\ Fresh(2)[2] \in Addresses \ DOMAIN nodes
         /\ Fresh(2)[1] # Fresh(2)[2]
<1>1. N \in Nat /\ DOMAIN nodes = 1..N /\ Cardinality(1..N) = N
  BY TreeFacts DEF Tree
<1>2. N + 2 <= MaxNodes
  BY <1>1
<1>3. /\ \A i \in 1..2 : Fresh(2)[i] \in Addresses \ DOMAIN nodes
      /\ \A i, j \in 1..2 : i < j => Fresh(2)[i] < Fresh(2)[j]
  BY <1>1, <1>2, FreshAre
<1>4. Fresh(2)[1] \in Addresses /\ Fresh(2)[2] \in Addresses /\ Fresh(2)[1] < Fresh(2)[2]
  BY <1>3
<1>5. Fresh(2)[1] # Fresh(2)[2]
  BY <1>4, FilterEditorAssumption DEF Addresses
<1> QED
  BY <1>3, <1>5

(* A song of a known length satisfies the one comparison that is put into new nodes, and not the other. *)
LEMMA NewNodesNeutral ==
  ASSUME NEW song \in KnownLengths
  PROVE  IsNeutral(LengthAtLeast0, "and", song) /\ IsNeutral(LengthBelow0, "or", song)
<1> DEFINE length == song.own.length
<1>1. length \in Nat /\ length # Absent
  BY LibraryAssumption DEF KnownLengths, HasLength
<1>2. ValuesOf(song, SongLength) = {length}
  BY DEF ValuesOf, SongLength
<1>3. /\ LengthAtLeast0.property = SongLength /\ LengthAtLeast0.comparison = "greaterOrEqual" /\ LengthAtLeast0.limit = 0
      /\ LengthBelow0.property = SongLength /\ LengthBelow0.comparison = "lower" /\ LengthBelow0.limit = 0
      /\ SongLength.field = "length"
  BY DEF LengthAtLeast0, LengthBelow0, Comparison, SongLength
<1>4. "length" \notin TextFields /\ "length" \notin DateFields
  BY DEF TextFields, DateFields
<1> HIDE DEF length
<1>5. InOrder("greaterOrEqual", length, 0) /\ ~InOrder("lower", length, 0)
  <2>1. length >= 0 /\ ~(length < 0)
    BY <1>1
  <2> QED
    BY <2>1 DEF InOrder
<1>6. 0 # NotANumber /\ ~IsContainment("greaterOrEqual") /\ ~IsContainment("lower")
  BY FilterOpsAssumption DEF IsContainment
<1>7. NumberSatisfies("greaterOrEqual", length, 0) /\ ~NumberSatisfies("lower", length, 0)
  BY <1>1, <1>5, <1>6 DEF NumberSatisfies
<1>8. IsComparisonSatisfiedBy(LengthAtLeast0, song)
  BY <1>2, <1>3, <1>4, <1>7 DEF IsComparisonSatisfiedBy
<1>9. ~IsComparisonSatisfiedBy(LengthBelow0, song)
  BY <1>2, <1>3, <1>4, <1>7 DEF IsComparisonSatisfiedBy
<1> QED
  BY <1>8, <1>9 DEF IsNeutral

(* R is a tree that asks the songs of a known length for what the tree ns does. *)
GrownNeutrally(R, ns, loose) ==
  /\ \E K : Tree(R, K, loose)
  /\ \A song \in KnownLengths : IsSatisfiedBy(R, 1, song) <=> IsSatisfiedBy(ns, 1, song)

LEMMA NeutralGrowth ==
  ASSUME NEW R, NEW ns, NEW kind \in Combinators, NEW loose,
         Grown(R, ns, 1, IF kind = "and" THEN LengthAtLeast0 ELSE LengthBelow0, kind, loose)
  PROVE  GrownNeutrally(R, ns, loose)
<1> DEFINE test == IF kind = "and" THEN LengthAtLeast0 ELSE LengthBelow0
<1>1. \A song \in KnownLengths : IsNeutral(test, kind, song)
  BY NewNodesNeutral DEF Combinators
<1> QED
  BY <1>1 DEF Grown, GrownNeutrally

LEMMA AddNodeSiblingTree ==
  ASSUME NEW N, Tree(nodes, N, tornRows), root = 1, NEW n \in 1..N, AddNodeSibling(n)
  PROVE  GrownNeutrally(nodes', nodes, tornRows)
<1>1. /\ N \in Nat /\ DOMAIN nodes = 1..N /\ Cardinality(1..N) = N /\ nodes[1].parent = None
      /\ n # 1 => nodes[n].parent # None /\ nodes[n].parent \in 1..N /\ CanHaveChildren(nodes[nodes[n].parent])
  BY TreeFacts DEF Tree
<1>2. \A kind : NewSibling(kind) = Leaf(IF kind = "and" THEN LengthAtLeast0 ELSE LengthBelow0)
  BY DEF NewSibling
<1>3. CASE n = 1
  <2>1. /\ Cardinality(DOMAIN nodes) + 2 <= MaxNodes
        /\ LET new == Fresh(2)
               rooted == SetRootParent(AddChild(WithNode(nodes, new[1], Combinator("and")), new[1], n), new[1])
           IN  nodes' = ReferencedNodes(AddChild(WithNode(rooted, new[2], NewSibling("and")), new[1], new[2]), new[1])
    BY <1>1, <1>3 DEF AddNodeSibling, Replace
  <2> DEFINE a == Fresh(2)[1]
             b == Fresh(2)[2]
             rooted == SetRootParent(AddChild(WithNode(nodes, a, Combinator("and")), a, 1), a)
  <2>2. nodes' = ReferencedNodes(AddChild(WithNode(rooted, b, Leaf(LengthAtLeast0)), a, b), a)
    BY <1>2, <1>3, <2>1
  <2>3. a \in Addresses \ DOMAIN nodes /\ b \in Addresses \ DOMAIN nodes /\ a # b
    BY <2>1, FreshTwo
  <2>4. LengthAtLeast0 \in AllTests /\ "and" \in Combinators
    BY DEF AllTests, Combinators
  <2> HIDE DEF a, b
  <2>5. Grown(nodes', nodes, 1, LengthAtLeast0, "and", tornRows)
    BY <2>2, <2>3, <2>4, RootSibling
  <2> QED
    BY <2>4, <2>5, NeutralGrowth
<1>4. CASE n # 1
  <2> DEFINE b == Fresh(1)[1]
             p == nodes[n].parent
             test == IF nodes[p].kind = "and" THEN LengthAtLeast0 ELSE LengthBelow0
  <2>1. /\ Cardinality(DOMAIN nodes) + 1 <= MaxNodes
        /\ nodes' = ReferencedNodes(AddChild(WithNode(nodes, b, NewSibling(nodes[p].kind)), p, b), 1)
    BY <1>1, <1>4 DEF AddNodeSibling, Replace
  <2>2. nodes' = ReferencedNodes(AddChild(WithNode(nodes, b, Leaf(test)), p, b), 1)
    BY <1>2, <2>1
  <2>3. b \in Addresses \ DOMAIN nodes
    <3>1. N + 1 <= MaxNodes /\ 1 \in 1..1
      BY <1>1, <2>1
    <3>2. \A i \in 1..1 : Fresh(1)[i] \in Addresses \ DOMAIN nodes
      BY <1>1, <3>1, FreshAre
    <3> QED
      BY <3>1, <3>2
  <2>4. test \in AllTests
    BY DEF AllTests
  <2>5. Grown(nodes', nodes, 1, test, nodes[p].kind, tornRows)
    <3> HIDE DEF b, test
    <3> QED
      BY <1>4, <2>2, <2>3, <2>4, InnerSibling
  <2>6. nodes[p].kind \in Combinators
    BY <1>1, <1>4 DEF CanHaveChildren
  <2> HIDE DEF p
  <2> QED
    BY <2>5, <2>6, NeutralGrowth
<1> QED
  BY <1>3, <1>4

LEMMA InsertNodeCombinatorTree ==
  ASSUME NEW N, Tree(nodes, N, tornRows), root = 1, NEW n \in 1..N, InsertNodeCombinator(n)
  PROVE  GrownNeutrally(nodes', nodes, tornRows)
<1> DEFINE a == Fresh(2)[1]
           b == Fresh(2)[2]
           with == WithNode(WithNode(nodes, a, Combinator("or")), b, Leaf(LengthBelow0))
           placed == IF nodes[n].parent = None THEN SetRootParent(with, a) ELSE ReplaceChild(with, nodes[n].parent, n, a)
           top == IF nodes[n].parent = None THEN a ELSE 1
<1>1. /\ Cardinality(DOMAIN nodes) + 2 <= MaxNodes
      /\ nodes' = ReferencedNodes(AddChild(AddChild(placed, a, n), a, b), top)
  BY DEF InsertNodeCombinator, Replace
<1>2. a \in Addresses \ DOMAIN nodes /\ b \in Addresses \ DOMAIN nodes /\ a # b
  BY <1>1, FreshTwo
<1>3. LengthBelow0 \in AllTests /\ "or" \in Combinators
  BY DEF AllTests, Combinators
<1> HIDE DEF a, b
<1>4. Grown(nodes', nodes, 1, LengthBelow0, "or", tornRows)
  BY <1>1, <1>2, <1>3, InsertedCombinator
<1> QED
  BY <1>3, <1>4, NeutralGrowth

LEMMA RemoveNodeTree ==
  ASSUME NEW N, Tree(nodes, N, tornRows), root = 1, NEW n \in 1..N, RemoveNode(n)
  PROVE  /\ \E K : Tree(nodes', K, tornRows)
         /\ n # 1 => \A song : IsSatisfiedBy(nodes', 1, song) <=> SatisfiesWithout(nodes, 1, n, song)
<1>1. /\ nodes[1].parent = None /\ (n # 1 => nodes[n].parent # None) /\ NumberedTo(nodes, N)
  BY TreeFacts DEF Tree
<1>2. CASE n = 1
  <2>1. nodes' = ReferencedNodes(NoopNodes, 1)
    BY <1>1, <1>2 DEF RemoveNode, Replace
  <2>2. NumberedTo(NoopNodes, 1) /\ ~CanHaveChildren(NoopNodes[1])
    BY NoopNumbered
  <2>3. Linked(NoopNodes, 1, 1..1, [m \in 1..1 |-> m], 1)
    BY <2>2, NumberedLinked
  <2>4. Branched(NoopNodes, 1..1)
    BY <2>2 DEF Branched
  <2>5. \E K : Tree(nodes', K, tornRows)
    BY <2>1, <2>3, <2>4, ReferencedTree
  <2> QED
    BY <1>2, <2>5
<1>3. CASE n # 1
  <2> DEFINE removed == RemovedFrom(nodes, n)
  <2>1. nodes' = ReferencedNodes(LiftAll(removed).nodes, LiftAll(removed).root)
    BY <1>1, <1>3 DEF RemoveNode, Replace, RemovedFrom, LiftAll
  <2>2. /\ \E L : Lifting(removed, nodes, N, L) /\ (tornRows \/ LostOne(removed, L))
        /\ \A song : IsSatisfiedBy(removed.nodes, 1, song) <=> SatisfiesWithout(nodes, 1, n, song)
    BY <1>3, RemovedLifting
  <2>3. removed.root = 1
    BY DEF RemovedFrom
  <2> HIDE DEF removed
  <2>4. /\ \E K : Tree(nodes', K, tornRows)
        /\ \A song : IsSatisfiedBy(nodes', 1, song) <=> IsSatisfiedBy(removed.nodes, 1, song)
    BY <1>1, <2>1, <2>2, <2>3, LiftedTree
  <2> QED
    BY <2>2, <2>4
<1> QED
  BY <1>2, <1>3

-----------------------------------------------------------------------------
(* The table's rows make trees in which combinators combine, too. *)

RowsBranched(rs) ==
  \A n \in 1..Len(rs) : rs[n].kind \in Combinators =>
    \E i, j \in 2..Len(rs) : i # j /\ rs[i].parent = n /\ rs[j].parent = n

LEMMA TwoChildren ==
  ASSUME NEW ns, NEW N, NumberedTo(ns, N), NEW n \in 1..N
  PROVE  Len(ns[n].children) >= 2 <=> \E i, j \in 2..N : i # j /\ ns[i].parent = n /\ ns[j].parent = n
<1> DEFINE ch == ns[n].children
<1>1. /\ Range(ch) = {c \in 2..N : ns[c].parent = n}
      /\ \A k, o \in DOMAIN ch : k < o => ch[k] < ch[o]
  BY DEF NumberedTo
<1>2. Len(ch) \in Nat /\ DOMAIN ch = 1..Len(ch) /\ ch \in Seq(Addresses)
  <2>1. ns[n] \in NodeRecords
    BY DEF NumberedTo
  <2> QED
    BY <2>1, NodeIs
<1> HIDE DEF ch
<1>3. ASSUME Len(ch) >= 2
      PROVE  \E i, j \in 2..N : i # j /\ ns[i].parent = n /\ ns[j].parent = n
  <2>1. 1 \in DOMAIN ch /\ 2 \in DOMAIN ch
    BY <1>2, <1>3
  <2>2. ch[1] < ch[2]
    BY <1>1, <2>1
  <2>3. ch[1] \in Addresses /\ ch[2] \in Addresses
    BY <1>2, <2>1
  <2>4. ch[1] # ch[2]
    BY <2>2, <2>3, FilterEditorAssumption DEF Addresses
  <2>5. ch[1] \in Range(ch) /\ ch[2] \in Range(ch)
    BY <2>1 DEF Range
  <2> QED
    BY <1>1, <2>4, <2>5
<1>4. ASSUME NEW i \in 2..N, NEW j \in 2..N, i # j, ns[i].parent = n, ns[j].parent = n
      PROVE  Len(ch) >= 2
  <2>1. i \in Range(ch) /\ j \in Range(ch)
    BY <1>1, <1>4
  <2>2. PICK k \in DOMAIN ch : ch[k] = i
    BY <2>1 DEF Range
  <2>3. PICK o \in DOMAIN ch : ch[o] = j
    BY <2>1 DEF Range
  <2>4. k \in 1..Len(ch) /\ o \in 1..Len(ch) /\ k # o
    BY <1>2, <1>4, <2>2, <2>3
  <2> QED
    BY <1>2, <2>4
<1> QED
  BY <1>3, <1>4 DEF ch

LEMMA BranchedRows ==
  ASSUME NEW ns, NEW N, NumberedTo(ns, N)
  PROVE  RowsBranched(RowsOf(ns, 1)) <=> Branched(ns, 1..N)
<1> DEFINE rs == RowsOf(ns, 1)
<1>1. rs = [i \in 1..N |-> [parent |-> IF i = 1 THEN -1 ELSE ns[i].parent, kind |-> ns[i].kind, test |-> ns[i].test]] /\ Len(rs) = N
  BY NumberedRows
<1>2. N \in Nat
  BY TreeFacts
<1> HIDE DEF rs
<1>3. \A i \in 1..N : rs[i].kind = ns[i].kind /\ (i # 1 => rs[i].parent = ns[i].parent)
  BY <1>1
<1>4. \A i \in 2..N : i \in 1..N /\ i # 1
  BY <1>2
<1>5. \A i \in 2..N : rs[i].parent = ns[i].parent
  BY <1>3, <1>4
<1>6. \A n \in 1..N : Len(ns[n].children) >= 2 <=> \E i, j \in 2..N : i # j /\ rs[i].parent = n /\ rs[j].parent = n
  <2> TAKE n \in 1..N
  <2>1. Len(ns[n].children) >= 2 <=> \E i, j \in 2..N : i # j /\ ns[i].parent = n /\ ns[j].parent = n
    BY TwoChildren
  <2> QED
    BY <1>5, <2>1
<1>7. \A n \in 1..N : CanHaveChildren(ns[n]) <=> rs[n].kind \in Combinators
  BY <1>3 DEF CanHaveChildren
<1>8. RowsBranched(rs) <=> \A n \in 1..N : rs[n].kind \in Combinators => \E i, j \in 2..N : i # j /\ rs[i].parent = n /\ rs[j].parent = n
  <2>1. Len(rs) = N
    BY <1>1
  <2> QED
    BY <2>1 DEF RowsBranched
<1>9. Branched(ns, 1..N) <=> \A n \in 1..N : CanHaveChildren(ns[n]) => Len(ns[n].children) >= 2
  BY DEF Branched
<1>10. RowsBranched(rs) <=> Branched(ns, 1..N)
  BY <1>6, <1>7, <1>8, <1>9
<1> QED
  BY <1>10 DEF rs

-----------------------------------------------------------------------------
(* The inductive invariant: the nodes are a tree that is numbered in the order of saving; the *)
(* rows that are inserted and those that are yet to be, taken together, are right; and, while *)
(* the dialog is closed, they are the tree's.                                                 *)

Stored(held, ns) == (held = <<>> /\ ns = NoopNodes) \/ held = RowsOf(ns, 1)

FilterFields ==
  /\ editing \in BOOLEAN /\ tornRows \in BOOLEAN /\ nodeEdits \in 0..MaxNodeEdits
  /\ rows \in Seq(RowRecords) /\ unsaved \in Seq(RowRecords)

HeldRows ==
  /\ RowsRight(rows \o unsaved)
  /\ tornRows \/ RowsBranched(rows \o unsaved)
  /\ editing => unsaved = <<>>
  /\ ~editing => Stored(rows \o unsaved, nodes)

FilterInv ==
  /\ \E N : Tree(nodes, N, tornRows)
  /\ root = 1
  /\ FilterFields
  /\ HeldRows

LEMMA NoRows ==
  RowsRight(<<>>) /\ RowsBranched(<<>>) /\ <<>> \in Seq(RowRecords) /\ 0 \in 0..MaxNodeEdits
<1>1. <<>> \in Seq(RowRecords) /\ Len(<<>>) = 0
  OBVIOUS
<1>2. 0 <= MaxNodes /\ 2..0 = {} /\ 1..0 = {}
  BY FilterEditorAssumption
<1>3. 0 \in 0..MaxNodeEdits
  BY FilterEditorAssumption
<1> QED
  BY <1>1, <1>2, <1>3 DEF RowsRight, RowsBranched

LEMMA NoopTree ==
  ASSUME NEW loose
  PROVE  Tree(NoopNodes, 1, loose)
<1>1. NumberedTo(NoopNodes, 1) /\ ~CanHaveChildren(NoopNodes[1])
  BY NoopNumbered
<1>2. Branched(NoopNodes, 1..1)
  BY <1>1 DEF Branched
<1> QED
  BY <1>1, <1>2 DEF Tree

LEMMA FilterStarts == FilterInit => FilterInv
<1> SUFFICES ASSUME FilterInit
             PROVE  FilterInv
  OBVIOUS
<1>1. /\ nodes = NoopNodes /\ root = 1 /\ editing = TRUE /\ nodeEdits = 0 /\ rows = <<>> /\ unsaved = <<>> /\ tornRows = FALSE
  BY DEF FilterInit
<1>2. Tree(nodes, 1, tornRows)
  BY <1>1, NoopTree
<1>3. FilterFields
  BY <1>1, NoRows DEF FilterFields
<1>4. rows \o unsaved = <<>>
  BY <1>1
<1>5. HeldRows
  BY <1>1, <1>4, NoRows DEF HeldRows
<1> QED
  BY <1>1, <1>2, <1>3, <1>5 DEF FilterInv

(* An edit leaves the rows alone; they are those of the filter as it was when the dialog was opened. *)
LEMMA EditKeeps ==
  ASSUME FilterInv, MayEdit, \E K : Tree(nodes', K, tornRows), root' = 1,
         nodeEdits' = nodeEdits + 1, UNCHANGED <<editing, rows, unsaved, tornRows>>
  PROVE  FilterInv'
<1>1. FilterFields'
  BY FilterEditorAssumption DEF FilterInv, FilterFields, MayEdit
<1>2. HeldRows'
  BY DEF FilterInv, HeldRows, MayEdit
<1>3. \E K : Tree(nodes', K, tornRows')
  OBVIOUS
<1> QED
  BY <1>1, <1>2, <1>3 DEF FilterInv

LEMMA FilterStep == FilterInv /\ [FilterNext]_filterVars => FilterInv'
<1> SUFFICES ASSUME FilterInv, [FilterNext]_filterVars
             PROVE  FilterInv'
  OBVIOUS
<1>1. PICK N : Tree(nodes, N, tornRows)
  BY DEF FilterInv
<1>2. root = 1 /\ FilterFields /\ HeldRows
  BY DEF FilterInv
<1>3. DOMAIN nodes = 1..N /\ NumberedTo(nodes, N)
  BY <1>1, TreeFacts DEF Tree
<1>4. CASE Edit
  <2>1. editing' = TRUE /\ nodeEdits' = 0 /\ UNCHANGED <<nodes, root, rows, unsaved, tornRows>> /\ unsaved = <<>>
    BY <1>4 DEF Edit
  <2>2. FilterFields'
    BY <1>2, <2>1, FilterEditorAssumption DEF FilterFields
  <2>3. HeldRows'
    BY <1>2, <2>1 DEF HeldRows
  <2> QED
    BY <1>1, <1>2, <2>1, <2>2, <2>3 DEF FilterInv
<1>5. ASSUME NEW n \in DOMAIN nodes, SetModelData(n)
      PROVE  FilterInv'
  <2>1. Tree(nodes', N, tornRows)
    BY <1>1, <1>3, <1>5, SetModelDataTree
  <2>2. MayEdit /\ root' = 1 /\ nodeEdits' = nodeEdits + 1 /\ UNCHANGED <<editing, rows, unsaved, tornRows>>
    BY <1>2, <1>5 DEF SetModelData
  <2> QED
    BY <2>1, <2>2, EditKeeps
<1>6. ASSUME NEW n \in DOMAIN nodes, AddNodeSibling(n)
      PROVE  FilterInv'
  <2>1. \E K : Tree(nodes', K, tornRows)
    BY <1>1, <1>2, <1>3, <1>6, AddNodeSiblingTree DEF GrownNeutrally
  <2>2. MayEdit /\ root' = 1 /\ nodeEdits' = nodeEdits + 1 /\ UNCHANGED <<editing, rows, unsaved, tornRows>>
    BY <1>6 DEF AddNodeSibling, Replace
  <2> QED
    BY <2>1, <2>2, EditKeeps
<1>7. ASSUME NEW n \in DOMAIN nodes, InsertNodeCombinator(n)
      PROVE  FilterInv'
  <2>1. \E K : Tree(nodes', K, tornRows)
    BY <1>1, <1>2, <1>3, <1>7, InsertNodeCombinatorTree DEF GrownNeutrally
  <2>2. MayEdit /\ root' = 1 /\ nodeEdits' = nodeEdits + 1 /\ UNCHANGED <<editing, rows, unsaved, tornRows>>
    BY <1>7 DEF InsertNodeCombinator, Replace
  <2> QED
    BY <2>1, <2>2, EditKeeps
<1>8. ASSUME NEW n \in DOMAIN nodes, RemoveNode(n)
      PROVE  FilterInv'
  <2>1. \E K : Tree(nodes', K, tornRows)
    BY <1>1, <1>2, <1>3, <1>8, RemoveNodeTree
  <2>2. MayEdit /\ root' = 1 /\ nodeEdits' = nodeEdits + 1 /\ UNCHANGED <<editing, rows, unsaved, tornRows>>
    BY <1>8 DEF RemoveNode, Replace
  <2> QED
    BY <2>1, <2>2, EditKeeps
<1>9. CASE CloseAndSave
  <2> DEFINE rs == RowsOf(nodes, 1)
  <2>1. editing' = FALSE /\ nodeEdits' = 0 /\ rows' = <<>> /\ unsaved' = rs /\ UNCHANGED <<nodes, root, tornRows>>
    BY <1>2, <1>9 DEF CloseAndSave
  <2>2. RowsRight(rs) /\ rs \in Seq(RowRecords)
    BY <1>3, NumberedRows DEF RowsRight
  <2>3. tornRows \/ RowsBranched(rs)
    BY <1>1, <1>3, BranchedRows DEF Tree
  <2>4. Stored(rs, nodes')
    BY <2>1 DEF Stored
  <2>5. (rows \o unsaved)' = rs
    <3> HIDE DEF rs
    <3>1. rows' \o unsaved' = <<>> \o rs
      BY <2>1
    <3> QED
      BY <2>2, <3>1
  <2>6. FilterFields'
    <3> HIDE DEF rs
    <3> QED
      BY <1>2, <2>1, <2>2, NoRows DEF FilterFields
  <2>7. HeldRows'
    <3>1. Stored((rows \o unsaved)', nodes')
      BY <2>1, <2>5 DEF Stored
    <3>2. RowsRight((rows \o unsaved)') /\ (tornRows' \/ RowsBranched((rows \o unsaved)')) /\ editing' = FALSE
      BY <2>1, <2>2, <2>3, <2>5
    <3> QED
      BY <3>1, <3>2 DEF HeldRows
  <2> QED
    BY <1>1, <1>2, <2>1, <2>6, <2>7 DEF FilterInv
<1>10. CASE SaveFilterNode
  <2>1. /\ unsaved # <<>> /\ rows' = Append(rows, Head(unsaved)) /\ unsaved' = Tail(unsaved)
        /\ UNCHANGED <<nodes, root, editing, nodeEdits, tornRows>>
    BY <1>10 DEF SaveFilterNode
  <2>2. rows \in Seq(RowRecords) /\ unsaved \in Seq(RowRecords)
    BY <1>2 DEF FilterFields
  <2>3. rows' \in Seq(RowRecords) /\ unsaved' \in Seq(RowRecords) /\ rows' \o unsaved' = rows \o unsaved
    BY <2>1, <2>2
  <2>4. FilterFields'
    BY <1>2, <2>1, <2>3 DEF FilterFields
  <2>5. editing' = FALSE /\ editing = FALSE
    BY <1>2, <2>1 DEF HeldRows, FilterFields
  <2>6. HeldRows'
    BY <1>2, <2>1, <2>3, <2>5 DEF HeldRows
  <2> QED
    BY <1>1, <1>2, <2>1, <2>4, <2>6 DEF FilterInv
<1>11. CASE FilterRestart
  <2>1. /\ nodes' = LoadedNodes(rows) /\ root' = LoadedRoot(rows) /\ editing' = FALSE /\ nodeEdits' = 0
        /\ unsaved' = <<>> /\ tornRows' = (tornRows \/ unsaved # <<>>) /\ rows' = rows
    BY <1>11 DEF FilterRestart
  <2>2. rows \in Seq(RowRecords) /\ unsaved \in Seq(RowRecords) /\ rows \o <<>> = rows
    BY <1>2 DEF FilterFields
  <2>3. RowsRight(rows)
    BY <1>2, <2>2, RowsPrefix DEF HeldRows
  <2>4. FilterFields'
    <3>1. editing' \in BOOLEAN /\ tornRows' \in BOOLEAN
      BY <1>2, <2>1 DEF FilterFields
    <3> QED
      BY <2>1, <2>2, <3>1, NoRows DEF FilterFields
  <2>5. tornRows' \/ RowsBranched(rows)
    BY <1>2, <2>1, <2>2 DEF HeldRows
  <2>6. rows' \o unsaved' = rows
    BY <2>1, <2>2
  <2>7. root' = 1 /\ (\E K : Tree(nodes', K, tornRows')) /\ Stored(rows, nodes')
    <3>1. CASE rows = <<>>
      <4>1. nodes' = NoopNodes /\ root' = 1
        BY <2>1, <3>1 DEF LoadedNodes, LoadedRoot
      <4>2. Tree(nodes', 1, tornRows')
        BY <4>1, NoopTree
      <4>3. Stored(rows, nodes')
        BY <2>1, <3>1, <4>1 DEF Stored
      <4> QED
        BY <4>1, <4>2, <4>3
    <3>2. CASE rows # <<>>
      <4>1. NumberedTo(LoadedNodes(rows), Len(rows)) /\ LoadedRoot(rows) = 1 /\ RowsOf(LoadedNodes(rows), 1) = rows
        BY <2>3, <3>2, LoadedNumbered
      <4>2. RowsBranched(rows) <=> Branched(LoadedNodes(rows), 1..Len(rows))
        BY <4>1, BranchedRows
      <4>3. Tree(nodes', Len(rows), tornRows')
        BY <2>1, <2>5, <4>1, <4>2 DEF Tree
      <4>4. Stored(rows, nodes')
        BY <2>1, <4>1 DEF Stored
      <4> QED
        BY <2>1, <4>1, <4>3, <4>4
    <3> QED
      BY <3>1, <3>2
  <2>8. HeldRows'
    BY <2>1, <2>3, <2>5, <2>6, <2>7 DEF HeldRows
  <2> QED
    BY <2>4, <2>7, <2>8 DEF FilterInv
<1>12. CASE UNCHANGED filterVars
  <2>1. UNCHANGED <<nodes, root, editing, nodeEdits, rows, unsaved, tornRows>>
    BY <1>12 DEF filterVars
  <2>2. FilterFields' /\ HeldRows'
    BY <1>2, <2>1 DEF FilterFields, HeldRows, Stored
  <2> QED
    BY <1>1, <1>2, <2>1, <2>2 DEF FilterInv
<1> QED
  BY <1>4, <1>5, <1>6, <1>7, <1>8, <1>9, <1>10, <1>11, <1>12 DEF FilterNext

-----------------------------------------------------------------------------
(* What the invariant implies. *)

LEMMA InvTreeIntact == FilterInv => TreeIntact
<1> SUFFICES ASSUME FilterInv
             PROVE  TreeIntact
  OBVIOUS
<1>1. PICK N : Tree(nodes, N, tornRows)
  BY DEF FilterInv
<1>2. root = 1 /\ FilterFields /\ HeldRows /\ NumberedTo(nodes, N)
  BY <1>1 DEF FilterInv, Tree
<1>3. /\ N \in 1..MaxNodes /\ N \in Nat /\ DOMAIN nodes = 1..N /\ Cardinality(1..N) = N
      /\ nodes \in [1..N -> NodeRecords] /\ 1 \in 1..N /\ nodes[1].parent = None
      /\ \A n \in 1..N : n # 1 => /\ nodes[n].parent \in 1..N
                                  /\ \E at \in DOMAIN nodes[nodes[n].parent].children : nodes[nodes[n].parent].children[at] = n
      /\ Linked(nodes, 1, 1..N, [n \in 1..N |-> n], N)
  BY <1>2, TreeFacts
<1>4. FilterTypeOK
  <2>1. DOMAIN nodes \subseteq Addresses /\ root \in DOMAIN nodes
    BY <1>2, <1>3, FilterEditorAssumption DEF Addresses
  <2>2. \A n \in DOMAIN nodes : nodes[n].kind \in Combinators \cup {"comparison"}
    BY <1>3, NodeIs
  <2>3. \A n \in DOMAIN nodes : ~CanHaveChildren(nodes[n]) => nodes[n].children = <<>>
    BY <1>3 DEF Linked
  <2>4. \A n \in DOMAIN nodes : Range(nodes[n].children) \subseteq DOMAIN nodes
    <3> TAKE n \in DOMAIN nodes
    <3>1. Range(nodes[n].children) = {c \in 2..N : nodes[c].parent = n}
      BY <1>2, <1>3 DEF NumberedTo
    <3> QED
      BY <1>3, <3>1
  <2>5. Len(rows) + Len(unsaved) <= MaxNodes
    <3>1. Len(rows \o unsaved) = Len(rows) + Len(unsaved)
      BY <1>2 DEF FilterFields
    <3> QED
      BY <1>2, <3>1 DEF HeldRows, RowsRight
  <2> QED
    BY <1>2, <2>1, <2>2, <2>3, <2>4, <2>5 DEF FilterTypeOK, FilterFields
<1>5. ParentsKnowChildren
  <2>1. PreOrder(nodes, 1) = [i \in 1..N |-> i]
    BY <1>2, NumberedOrder
  <2>2. Len([i \in 1..N |-> i]) = N
    BY <1>3
  <2>3. Cardinality(DOMAIN nodes) = Len(PreOrder(nodes, root))
    BY <1>2, <1>3, <2>1, <2>2
  <2> QED
    BY <1>2, <1>3, <2>3 DEF ParentsKnowChildren
<1>6. CombinatorsCombine
  BY <1>1, <1>3 DEF Tree, Branched, CombinatorsCombine
<1> QED
  BY <1>4, <1>5, <1>6 DEF TreeIntact

LEMMA InvTableLoads == FilterInv => TableLoads
<1> SUFFICES ASSUME FilterInv
             PROVE  TableLoads
  OBVIOUS
<1>1. PICK N : Tree(nodes, N, tornRows)
  BY DEF FilterInv
<1>2. root = 1 /\ FilterFields /\ HeldRows /\ NumberedTo(nodes, N)
  BY <1>1 DEF FilterInv, Tree
<1>3. rows \in Seq(RowRecords) /\ unsaved \in Seq(RowRecords) /\ Len(rows) \in Nat /\ DOMAIN rows = 1..Len(rows) /\ rows \o <<>> = rows
  BY <1>2 DEF FilterFields
<1>4. RowsRight(rows)
  BY <1>2, <1>3, RowsPrefix DEF HeldRows
<1>5. RowsFormTree
  <2> SUFFICES ASSUME NEW i \in DOMAIN rows
               PROVE  IF i = 1 THEN rows[i].parent = -1
                      ELSE rows[i].parent \in 1..(i - 1) /\ rows[rows[i].parent].kind \in Combinators
    BY DEF RowsFormTree
  <2>1. CASE i = 1
    BY <1>3, <1>4, <2>1 DEF RowsRight
  <2>2. CASE i # 1
    <3>1. i \in 2..Len(rows)
      BY <1>3, <2>2
    <3> QED
      BY <1>4, <2>2, <3>1 DEF RowsRight
  <2> QED
    BY <2>1, <2>2
<1>6. StoredAsEdited
  <2> SUFFICES ASSUME ~editing, unsaved = <<>>
               PROVE  /\ RowsOf(nodes, root) = RowsOf(LoadedNodes(rows), LoadedRoot(rows))
                      /\ rows # <<>> => RowsOf(nodes, root) = rows
    BY DEF StoredAsEdited
  <2>1. (rows = <<>> /\ nodes = NoopNodes) \/ rows = RowsOf(nodes, 1)
    BY <1>2, <1>3 DEF HeldRows, Stored
  <2>2. RowsOf(nodes, 1) # <<>>
    BY <1>2, NumberedRows
  <2>3. CASE rows = <<>>
    <3>1. LoadedNodes(rows) = NoopNodes /\ LoadedRoot(rows) = 1 /\ nodes = NoopNodes
      BY <2>1, <2>2, <2>3 DEF LoadedNodes, LoadedRoot
    <3> QED
      BY <1>2, <2>3, <3>1
  <2>4. CASE rows # <<>>
    <3>1. rows = RowsOf(nodes, 1)
      BY <2>1, <2>4
    <3>2. LoadedRoot(rows) = 1 /\ RowsOf(LoadedNodes(rows), 1) = rows
      BY <1>4, <2>4, LoadedNumbered
    <3> QED
      BY <1>2, <3>1, <3>2
  <2> QED
    BY <2>3, <2>4
<1> QED
  BY <1>5, <1>6 DEF TableLoads

(* The tree that the dialog edits is one, at every moment: parents and children name each     *)
(* other, no node is held twice or lost, and no edit leaves a combinator with fewer than two  *)
(* children (Filter::checkNodeConsistency(), DlgEditFilter.cpp).                              *)
THEOREM FilterTreeStaysIntact == FilterSpec => []TreeIntact
<1>1. FilterSpec => []FilterInv
  BY FilterStarts, FilterStep, PTL DEF FilterSpec
<1> QED
  BY <1>1, InvTreeIntact, PTL

(* Whenever the program ends, the rows that the table FilterNodes holds are loaded as a tree, *)
(* with none dropped; and once a save is complete, as the tree that was edited (Database.cpp, *)
(* saveFilterNodes() and loadFilterNodes()).                                                  *)
THEOREM FilterTableAlwaysLoads == FilterSpec => []TableLoads
<1>1. FilterSpec => []FilterInv
  BY FilterStarts, FilterStep, PTL DEF FilterSpec
<1> QED
  BY <1>1, InvTableLoads, PTL

-----------------------------------------------------------------------------
(* What the edits change of the filter's meaning. *)

LEMMA StepIsLocal ==
  ASSUME FilterInv
  PROVE  /\ \A n \in DOMAIN nodes : AddNodeSibling(n) \/ InsertNodeCombinator(n) =>
              Matching(nodes', root') \cap KnownLengths = Matching(nodes, root) \cap KnownLengths
         /\ \A n \in DOMAIN nodes \ {root} :
              RemoveNode(n) => Matching(nodes', root') = {song \in Library : SatisfiesWithout(nodes, root, n, song)}
<1>1. PICK N : Tree(nodes, N, tornRows)
  BY DEF FilterInv
<1>2. root = 1 /\ DOMAIN nodes = 1..N
  BY <1>1, TreeFacts DEF FilterInv, Tree
<1>3. ASSUME NEW n \in DOMAIN nodes, AddNodeSibling(n) \/ InsertNodeCombinator(n)
      PROVE  Matching(nodes', root') \cap KnownLengths = Matching(nodes, root) \cap KnownLengths
  <2>1. root' = 1
    BY <1>3 DEF AddNodeSibling, InsertNodeCombinator, Replace
  <2>2. GrownNeutrally(nodes', nodes, tornRows)
    BY <1>1, <1>2, <1>3, AddNodeSiblingTree, InsertNodeCombinatorTree
  <2>3. \A song \in KnownLengths : IsSatisfiedBy(nodes', root', song) <=> IsSatisfiedBy(nodes, root, song)
    BY <1>2, <2>1, <2>2 DEF GrownNeutrally
  <2> QED
    BY <2>3 DEF Matching
<1>4. ASSUME NEW n \in DOMAIN nodes \ {root}, RemoveNode(n)
      PROVE  Matching(nodes', root') = {song \in Library : SatisfiesWithout(nodes, root, n, song)}
  <2>1. root' = 1
    BY <1>4 DEF RemoveNode, Replace
  <2>2. \A song : IsSatisfiedBy(nodes', 1, song) <=> SatisfiesWithout(nodes, 1, n, song)
    BY <1>1, <1>2, <1>4, RemoveNodeTree
  <2>3. \A song : IsSatisfiedBy(nodes', root', song) <=> SatisfiesWithout(nodes, root, n, song)
    BY <1>2, <2>1, <2>2
  <2> QED
    BY <2>3 DEF Matching
<1> QED
  BY <1>3, <1>4

(* No edit changes more of a filter's meaning than the node it is about: what is added matches *)
(* what the filter matched before, until it is edited in turn, and what is removed takes along *)
(* its subtree's conditions and no others, however far the single children that are left are   *)
(* lifted (DlgEditFilter.cpp, addNodeSibling(), insertNodeCombinator(), removeNode()).         *)
THEOREM EditsStayLocal == FilterSpec => EditsAreLocal
<1>1. FilterSpec => []FilterInv
  BY FilterStarts, FilterStep, PTL DEF FilterSpec
<1>2. FilterInv /\ [FilterNext]_filterVars =>
        [(\E n \in DOMAIN nodes : AddNodeSibling(n) \/ InsertNodeCombinator(n)) =>
           Matching(nodes', root') \cap KnownLengths = Matching(nodes, root) \cap KnownLengths]_filterVars
  BY StepIsLocal
<1>3. FilterInv /\ [FilterNext]_filterVars =>
        [\A n \in DOMAIN nodes \ {root} :
           RemoveNode(n) => Matching(nodes', root') = {song \in Library : SatisfiesWithout(nodes, root, n, song)}]_filterVars
  BY StepIsLocal
<1>4. FilterSpec => AddingIsNeutral
  BY <1>1, <1>2, PTL DEF FilterSpec, AddingIsNeutral
<1>5. FilterSpec => RemovingPrunes
  BY <1>1, <1>3, PTL DEF FilterSpec, RemovingPrunes
<1> QED
  BY <1>4, <1>5, PTL DEF EditsAreLocal

-----------------------------------------------------------------------------
USE SongLibraryAssumption

(* The songs, and those a scan refers to, are not destroyed; what is not has a hash. *)
Alive ==
  /\ \A s \in Songs : s \in songs \/ Referenced(s, events) => fileOf[s] # NoFile
  /\ \A s \in Songs : fileOf[s] # NoFile => hashOf[s] \in Hashes
  /\ \A s \in Songs, f \in Files : handling = <<"rename", s, f>> => s \in songs

(* Every hash in use has shared data. *)
DataInv ==
  /\ \A f \in Files : songFiles[f] \in Hashes => songFiles[f] \in sharedRows
  /\ \A s \in Songs : hashOf[s] \in Hashes => hashOf[s] \in sharedRows
  /\ \A f \in Files, h \in Hashes : handling = <<"hashed", f, h>> => h \in sharedRows

BaseInv == TypeOK /\ Alive

-----------------------------------------------------------------------------
(* The event queue. *)
LEMMA HeadOfEvents ==
  ASSUME TypeOK, events # <<>>
  PROVE  /\ Head(events) \in Events
         /\ Tail(events) \in Seq(Events)
         /\ Head(events).type = "hashed" =>
              Head(events).file \in Files /\ Head(events).hash \in Hashes
         /\ Head(events).type = "failed" => Head(events).file \in Files
         /\ Head(events).type = "scanned" =>
              Head(events).song \in Songs /\ Head(events) = ScannedEvent(Head(events).song)
<1>1. Head(events) \in Events /\ Tail(events) \in Seq(Events)
  BY DEF TypeOK
<1> DEFINE ev == Head(events)
<1> HIDE DEF ev
<1>2. ASSUME ev \in Events
      PROVE  /\ ev.type = "hashed" => ev.file \in Files /\ ev.hash \in Hashes
             /\ ev.type = "failed" => ev.file \in Files
             /\ ev.type = "scanned" => ev.song \in Songs /\ ev = ScannedEvent(ev.song)
  BY <1>2 DEF Events, ScannedEvent
<1> QED
  BY <1>1, <1>2 DEF ev

(* An event is the head or has its place in the rest, and the rest holds no others. *)
LEMMA RestOfEvents ==
  ASSUME events \in Seq(Events), events # <<>>
  PROVE  /\ \A k \in DOMAIN Tail(events) : k + 1 \in DOMAIN events /\ Tail(events)[k] = events[k + 1]
         /\ \A k \in DOMAIN events :
              \/ events[k] = Head(events)
              \/ k - 1 \in DOMAIN Tail(events) /\ Tail(events)[k - 1] = events[k]
         /\ \E k \in DOMAIN events : events[k] = Head(events)
<1> DEFINE r == Tail(events)
<1>1. /\ r \in Seq(Events)
      /\ Len(r) = Len(events) - 1
      /\ Head(events) = events[1]
      /\ \A i \in 1..Len(r) : r[i] = events[i + 1]
  BY HeadTailProperties
<1>2. /\ DOMAIN events = 1..Len(events)
      /\ DOMAIN r = 1..(Len(events) - 1)
      /\ Len(events) \in Nat \ {0}
  BY <1>1, LenProperties, EmptySeq
<1> HIDE DEF r
<1> QED
  BY <1>1, <1>2 DEF r

LEMMA AddedEvent ==
  ASSUME events \in Seq(Events), NEW ev \in Events
  PROVE  /\ Append(events, ev) \in Seq(Events)
         /\ \A k \in DOMAIN events : k \in DOMAIN Append(events, ev) /\ Append(events, ev)[k] = events[k]
         /\ \A k \in DOMAIN Append(events, ev) :
              Append(events, ev)[k] = ev \/ (k \in DOMAIN events /\ Append(events, ev)[k] = events[k])
         /\ \E k \in DOMAIN Append(events, ev) : Append(events, ev)[k] = ev
<1> DEFINE r == Append(events, ev)
<1>1. /\ r \in Seq(Events)
      /\ Len(r) = Len(events) + 1
      /\ r[Len(events) + 1] = ev
      /\ \A i \in 1..Len(events) : r[i] = events[i]
  OBVIOUS
<1>2. DOMAIN events = 1..Len(events) /\ DOMAIN r = 1..(Len(events) + 1) /\ Len(events) \in Nat
  BY <1>1, LenProperties
<1> HIDE DEF r
<1> QED
  BY <1>1, <1>2 DEF r

(* The objects that loadSongFiles() makes. *)
LEMMA ObjectsOfRestart ==
  ASSUME Restart
  PROVE  fileOf' \in OneObjectEach(Loaded)
BY DEF Restart

-----------------------------------------------------------------------------
LEMMA InitBase == Init => BaseInv
<1> SUFFICES ASSUME Init PROVE BaseInv
  OBVIOUS
<1>1. events \in Seq(Events) /\ DOMAIN events = {}
  BY DEF Init
<1>2. TypeOK
  BY <1>1 DEF Init, TypeOK, Count
<1>3. Alive
  BY <1>1 DEF Init, Alive, Referenced
<1> QED
  BY <1>2, <1>3 DEF BaseInv

(* saveSongFileData() of a living song keeps the types of the rows. *)
LEMMA SaveKeepsTypes ==
  ASSUME TypeOK, NEW s \in Songs, NEW f \in Files, hashOf[s] \in Hashes, SaveSongFileData(s, f)
  PROVE  /\ songFiles' \in [Files -> Hashes \cup {NoRow}]
         /\ taggedRows' \subseteq Files
<1>1. CASE songFiles[f] = NoRow
  BY <1>1 DEF TypeOK, SaveSongFileData
<1>2. CASE songFiles[f] # NoRow
  <2>1. songFiles' = [songFiles EXCEPT ![f] = hashOf[s]]
    BY <1>2 DEF SaveSongFileData
  <2>2. taggedRows' = taggedRows \cup {f} \/ taggedRows' = taggedRows \ {f}
    BY <1>2 DEF SaveSongFileData
  <2> QED
    BY <2>1, <2>2 DEF TypeOK
<1> QED
  BY <1>1, <1>2

LEMMA UserKeepsTypes ==
  ASSUME BaseInv, User
  PROVE  TypeOK'
<1> USE DEF BaseInv, tables, objects, tasks, history, counters, vars
<1>1. ASSUME NEW f \in Files, AddSongFile(f)
      PROVE  TypeOK'
  BY <1>1 DEF AddSongFile, TypeOK
<1>2. ASSUME NEW s \in Songs, NEW deleteDiskFile \in BOOLEAN, RemoveSong(s, deleteDiskFile)
      PROVE  TypeOK'
  <2>1. fileOf[s] \in Files
    BY <1>2 DEF RemoveSong, Alive, TypeOK
  <2>2. /\ fileOf' \in [Songs -> Files \cup {NoFile}]
        /\ hashOf' \in [Songs -> Hashes \cup {NoHash}]
        /\ tagged' \subseteq Songs
    BY <1>2 DEF RemoveSong, Destroy, TypeOK
  <2>3. duplicates' \in [Hashes -> SUBSET Songs]
    BY <1>2 DEF RemoveSong, TypeOK
  <2>4. disk' \in [Files -> Hashes \cup {NoHash, NoFile}]
    BY <1>2 DEF RemoveSong, TypeOK
  <2> QED
    BY <1>2, <2>1, <2>2, <2>3, <2>4 DEF RemoveSong, TypeOK
<1>3. ASSUME NEW s \in Songs, SaveSong(s)
      PROVE  TypeOK'
  <2>1. fileOf[s] \in Files /\ hashOf[s] \in Hashes
    BY <1>3 DEF SaveSong, Alive, TypeOK
  <2> QED
    BY <1>3, <2>1, SaveKeepsTypes DEF SaveSong, TypeOK
<1>4. ASSUME NEW s \in Songs, NEW f \in Files, RenameFile(s, f)
      PROVE  TypeOK'
  <2>1. fileOf[s] \in Files
    BY <1>4 DEF RenameFile, Alive, TypeOK
  <2> QED
    BY <1>4, <2>1 DEF RenameFile, TypeOK
<1>5. ASSUME NEW s \in Songs, RescanSong(s)
      PROVE  TypeOK'
  BY <1>5 DEF RescanSong, TypeOK
<1> QED
  BY <1>1, <1>2, <1>3, <1>4, <1>5 DEF User

LEMMA TasksKeepTypes ==
  ASSUME BaseInv,
         \/ \E f \in Files : DiskChange(f) \/ RunHash(f)
         \/ \E s \in Songs : RunScan(s)
  PROVE  TypeOK'
<1> USE DEF BaseInv, tables, objects, tasks, history, counters, vars
<1>1. ASSUME NEW f \in Files, DiskChange(f)
      PROVE  TypeOK'
  BY <1>1 DEF DiskChange, TypeOK
<1>2. ASSUME NEW f \in Files, RunHash(f)
      PROVE  TypeOK'
  <2>1. events' \in Seq(Events)
    <3>1. events \in Seq(Events) /\ disk[f] \in Hashes \cup {NoHash, NoFile}
      BY DEF TypeOK
    <3>2. [type |-> "failed", file |-> f] \in Events
      BY DEF Events
    <3>3. disk[f] \in Hashes => [type |-> "hashed", file |-> f, hash |-> disk[f]] \in Events
      BY DEF Events
    <3> QED
      BY <1>2, <3>1, <3>2, <3>3, AddedEvent DEF RunHash
  <2>2. hashTasks' \in [Files -> Nat]
    BY <1>2 DEF RunHash, TypeOK
  <2> QED
    BY <1>2, <2>1, <2>2 DEF RunHash, TypeOK
<1>3. ASSUME NEW s \in Songs, RunScan(s)
      PROVE  TypeOK'
  <2>1. events' \in Seq(Events)
    <3>1. events \in Seq(Events) /\ ScannedEvent(s) \in Events
      BY DEF TypeOK, Events, ScannedEvent
    <3> QED
      BY <1>3, <3>1, AddedEvent DEF RunScan
  <2> QED
    BY <1>3, <2>1 DEF RunScan, TypeOK
<1> QED
  BY <1>1, <1>2, <1>3

(* The free object that songHashCalculated() makes a song of. *)
LEMMA NewSong ==
  ASSUME TypeOK, Free # {}
  PROVE  (CHOOSE free \in Free : TRUE) \in Songs /\ fileOf[CHOOSE free \in Free : TRUE] = NoFile
BY DEF Free

LEMMA LibraryKeepsTypes ==
  ASSUME BaseInv, Finish \/ Serve
  PROVE  TypeOK'
<1> USE DEF BaseInv, tables, objects, tasks, history, counters, vars
<1>1. CASE FinishRename
  <2>1. PICK s \in Songs, f \in Files :
          /\ handling = <<"rename", s, f>>
          /\ fileOf' = [fileOf EXCEPT ![s] = f]
          /\ SaveSongFileData(s, f)
          /\ handling' = <<>>
          /\ known' = known \ {fileOf[s]}
          /\ mixedUp' = mixedUp \cup {fileOf[s], f}
          /\ UNCHANGED <<disk, newFiles, sharedRows, songs, hashOf, tagged, duplicates, tasks, events, counters>>
    BY <1>1 DEF FinishRename
  <2>2. fileOf[s] \in Files /\ hashOf[s] \in Hashes
    BY <2>1 DEF Alive, TypeOK
  <2>3. /\ songFiles' \in [Files -> Hashes \cup {NoRow}]
        /\ taggedRows' \subseteq Files
    BY <2>1, <2>2, SaveKeepsTypes
  <2> QED
    BY <2>1, <2>2, <2>3 DEF TypeOK
<1>2. CASE MoveToSongFiles
  <2> DEFINE s == CHOOSE free \in Free : TRUE
  <2>1. PICK f \in Files, h \in Hashes :
          /\ Free # {}
          /\ newFiles' = newFiles \ {f}
          /\ songFiles' = IF songFiles[f] = NoRow THEN [songFiles EXCEPT ![f] = h] ELSE songFiles
          /\ songs' = songs \cup {s}
          /\ fileOf' = [fileOf EXCEPT ![s] = f]
          /\ hashOf' = [hashOf EXCEPT ![s] = h]
          /\ duplicates' = [duplicates EXCEPT ![h] = @ \cup {s}]
          /\ scanTasks' = scanTasks \cup {s}
          /\ handling' = <<>>
          /\ mixedUp' = IF Named(f) = {} THEN mixedUp ELSE mixedUp \cup {f}
          /\ UNCHANGED <<disk, taggedRows, sharedRows, tagged, hashTasks, events, known, counters>>
    BY <1>2 DEF MoveToSongFiles
  <2>2. s \in Songs
    BY <2>1, NewSong
  <2> HIDE DEF s
  <2>3. duplicates' \in [Hashes -> SUBSET Songs]
    BY <2>1, <2>2 DEF TypeOK
  <2> QED
    BY <2>1, <2>2, <2>3 DEF TypeOK
<1>3. CASE SongHashCalculated
  <2>1. /\ events # <<>> /\ Head(events).type = "hashed" /\ events' = Tail(events)
        /\ sharedRows' = sharedRows \cup {Head(events).hash}
        /\ handling' = <<"hashed", Head(events).file, Head(events).hash>>
        /\ UNCHANGED <<disk, newFiles, songFiles, taggedRows, objects, tasks, history, counters>>
    BY <1>3 DEF SongHashCalculated, Delivered
  <2>2. Head(events).file \in Files /\ Head(events).hash \in Hashes /\ Tail(events) \in Seq(Events)
    BY <2>1, HeadOfEvents
  <2> QED
    BY <2>1, <2>2 DEF TypeOK
<1>4. CASE SongHashFailed
  <2>1. events # <<>> /\ events' = Tail(events)
    BY <1>4 DEF SongHashFailed, Delivered
  <2>2. Tail(events) \in Seq(Events)
    BY <2>1, HeadOfEvents
  <2> QED
    BY <1>4, <2>1, <2>2 DEF SongHashFailed, TypeOK
<1>5. CASE SongScanned
  <2> DEFINE s == Head(events).song
  <2>1. /\ events # <<>> /\ Head(events).type = "scanned" /\ events' = Tail(events)
        /\ SaveSongFileData(s, fileOf[s])
        /\ IF s \in songs \/ Referenced(s, Tail(events))
           THEN UNCHANGED <<fileOf, hashOf, tagged>>
           ELSE Destroy(s)
        /\ mixedUp' = IF Named(fileOf[s]) \subseteq {s} THEN mixedUp ELSE mixedUp \cup {fileOf[s]}
        /\ UNCHANGED <<disk, newFiles, sharedRows, songs, duplicates, tasks, handling, known, counters>>
    BY <1>5 DEF SongScanned, Delivered
  <2>2. /\ s \in Songs
        /\ Head(events) = ScannedEvent(s)
        /\ Tail(events) \in Seq(Events)
    BY <2>1, HeadOfEvents
  <2>3. Referenced(s, events)
    BY <2>1, <2>2, RestOfEvents DEF TypeOK, Referenced
  <2> HIDE DEF s
  <2>4. fileOf[s] \in Files /\ hashOf[s] \in Hashes
    BY <2>2, <2>3 DEF Alive, TypeOK
  <2>5. /\ songFiles' \in [Files -> Hashes \cup {NoRow}]
        /\ taggedRows' \subseteq Files
    BY <2>1, <2>2, <2>4, SaveKeepsTypes
  <2>6. /\ fileOf' \in [Songs -> Files \cup {NoFile}]
        /\ hashOf' \in [Songs -> Hashes \cup {NoHash}]
        /\ tagged' \subseteq Songs
    BY <2>1, <2>2 DEF TypeOK, Destroy
  <2> QED
    BY <2>1, <2>2, <2>4, <2>5, <2>6 DEF TypeOK
<1> QED
  BY <1>1, <1>2, <1>3, <1>4, <1>5 DEF Finish, Serve

LEMMA RestartKeepsTypes ==
  ASSUME BaseInv, Restart
  PROVE  TypeOK'
<1> USE DEF BaseInv, tables, objects, tasks, history, counters, vars
<1>1. fileOf' \in [Songs -> Files \cup {NoFile}]
  BY ObjectsOfRestart DEF OneObjectEach, Loaded
<1>2. \A s \in Songs : fileOf'[s] # NoFile => songFiles[fileOf'[s]] \in sharedRows
  BY ObjectsOfRestart DEF OneObjectEach, Loaded
<1>3. songs' = {s \in Songs : fileOf'[s] # NoFile}
  BY DEF Restart
<1>4. hashOf' \in [Songs -> Hashes \cup {NoHash}]
  BY <1>2, <1>3 DEF Restart, TypeOK
<1>5. duplicates' \in [Hashes -> SUBSET Songs]
  BY <1>3 DEF Restart
<1>6. hashTasks' \in [Files -> Nat]
  <2>1. \A f \in Files : Count(f \in newFiles) \in Nat
    BY DEF Count
  <2>2. hashTasks' = TasksOfTables
    BY DEF Restart
  <2> QED
    BY <2>1, <2>2 DEF TasksOfTables
<1>7. tagged' \subseteq Songs /\ scanTasks' \subseteq Songs
  BY <1>3 DEF Restart
<1>8. events' = <<>> /\ handling' = <<>> /\ mixedUp' = {}
  BY DEF Restart
<1>9. restarts' \in 0..MaxRestarts
  <2>1. restarts < MaxRestarts /\ restarts' = restarts + 1
    BY DEF Restart
  <2> QED
    BY <2>1 DEF TypeOK
<1>10. UNCHANGED <<disk, tables, known, changes>>
  BY DEF Restart
<1> QED
  BY <1>1, <1>3, <1>4, <1>5, <1>6, <1>7, <1>8, <1>9, <1>10 DEF TypeOK

-----------------------------------------------------------------------------
(* What a step does to the references to song objects. *)
LEMMA ReferencesDelivered ==
  ASSUME TypeOK, events # <<>>, events' = Tail(events), scanTasks' = scanTasks, NEW s \in Songs
  PROVE  /\ Referenced(s, events)' => Referenced(s, events)
         /\ Referenced(s, events)' <=> Referenced(s, Tail(events))
         /\ Referenced(s, events) => Referenced(s, events)' \/ Head(events) = ScannedEvent(s)
<1>1. events \in Seq(Events)
  BY DEF TypeOK
<1>2. Referenced(s, events)' <=> Referenced(s, Tail(events))
  BY DEF Referenced
<1>3. Referenced(s, Tail(events)) => Referenced(s, events)
  BY <1>1, RestOfEvents DEF Referenced
<1>4. Referenced(s, events) => Referenced(s, Tail(events)) \/ Head(events) = ScannedEvent(s)
  BY <1>1, RestOfEvents DEF Referenced
<1> QED
  BY <1>2, <1>3, <1>4

LEMMA UserKeepsAlive ==
  ASSUME BaseInv, User
  PROVE  Alive'
<1> USE DEF BaseInv, tables, objects, tasks, history, counters, vars
<1>0. \A s \in Songs, f \in Files : handling = <<"rename", s, f>> => handling # <<>>
  OBVIOUS
<1>1. ASSUME NEW f \in Files, AddSongFile(f)
      PROVE  Alive'
  BY <1>1 DEF AddSongFile, Alive, Referenced, ScannedEvent
<1>2. ASSUME NEW s \in Songs, NEW deleteDiskFile \in BOOLEAN, RemoveSong(s, deleteDiskFile)
      PROVE  Alive'
  <2>1. CASE Referenced(s, events)
    BY <1>2, <2>1 DEF RemoveSong, Idle, Alive, Referenced, ScannedEvent
  <2>2. CASE ~Referenced(s, events)
    <3>1. /\ fileOf' = [fileOf EXCEPT ![s] = NoFile]
          /\ hashOf' = [hashOf EXCEPT ![s] = NoHash]
          /\ songs' = songs \ {s}
          /\ UNCHANGED <<scanTasks, events, handling>>
          /\ handling = <<>>
      BY <1>2, <2>2 DEF RemoveSong, Idle, Destroy
    <3>2. \A u \in Songs : u # s => fileOf'[u] = fileOf[u] /\ hashOf'[u] = hashOf[u]
      BY <3>1 DEF TypeOK
    <3>3. fileOf'[s] = NoFile
      BY <3>1 DEF TypeOK
    <3>4. ~Referenced(s, events)'
      BY <2>2, <3>1 DEF Referenced
    <3>5. \A u \in Songs : Referenced(u, events)' => Referenced(u, events)
      BY <3>1 DEF Referenced
    <3> QED
      BY <3>1, <3>2, <3>3, <3>4, <3>5 DEF Alive
  <2> QED
    BY <2>1, <2>2
<1>3. ASSUME NEW s \in Songs, SaveSong(s)
      PROVE  Alive'
  BY <1>3 DEF SaveSong, Alive, Referenced
<1>4. ASSUME NEW s \in Songs, NEW f \in Files, RenameFile(s, f)
      PROVE  Alive'
  BY <1>4 DEF RenameFile, Alive, Referenced
<1>5. ASSUME NEW s \in Songs, RescanSong(s)
      PROVE  Alive'
  BY <1>5 DEF RescanSong, Alive, Referenced
<1> QED
  BY <1>1, <1>2, <1>3, <1>4, <1>5 DEF User

LEMMA TasksKeepAlive ==
  ASSUME BaseInv,
         \/ \E f \in Files : DiskChange(f) \/ RunHash(f)
         \/ \E s \in Songs : RunScan(s)
  PROVE  Alive'
<1> USE DEF BaseInv, tables, objects, tasks, history, counters, vars
<1>1. ASSUME NEW f \in Files, DiskChange(f)
      PROVE  Alive'
  BY <1>1 DEF DiskChange, Alive, Referenced
<1>2. ASSUME NEW f \in Files, RunHash(f)
      PROVE  Alive'
  <2>1. PICK ev \in Events : events' = Append(events, ev) /\ ev.type \in {"hashed", "failed"}
    <3>1. [type |-> "failed", file |-> f] \in Events
      BY DEF Events
    <3>2. disk[f] \in Hashes => [type |-> "hashed", file |-> f, hash |-> disk[f]] \in Events
      BY DEF Events
    <3> QED
      BY <1>2, <3>1, <3>2 DEF RunHash
  <2>2. \A u \in Songs : Referenced(u, events)' => Referenced(u, events)
    <3>1. \A u \in Songs : ev # ScannedEvent(u)
      BY <2>1 DEF ScannedEvent
    <3>2. scanTasks' = scanTasks
      BY <1>2 DEF RunHash
    <3> QED
      BY <2>1, <3>1, <3>2, AddedEvent DEF TypeOK, Referenced
  <2> QED
    BY <1>2, <2>2 DEF RunHash, Alive
<1>3. ASSUME NEW s \in Songs, RunScan(s)
      PROVE  Alive'
  <2>1. ScannedEvent(s) \in Events
    BY DEF Events, ScannedEvent
  <2>2. \A u \in Songs : Referenced(u, events)' => Referenced(u, events)
    <3>1. \A u \in Songs : ScannedEvent(u) = ScannedEvent(s) => u = s
      BY DEF ScannedEvent
    <3>2. s \in scanTasks /\ scanTasks' = scanTasks \ {s} /\ events' = Append(events, ScannedEvent(s))
      BY <1>3 DEF RunScan
    <3> QED
      BY <2>1, <3>1, <3>2, AddedEvent DEF TypeOK, Referenced
  <2> QED
    BY <1>3, <2>2 DEF RunScan, Alive
<1> QED
  BY <1>1, <1>2, <1>3

LEMMA LibraryKeepsAlive ==
  ASSUME BaseInv, Finish \/ Serve
  PROVE  Alive'
<1> USE DEF BaseInv, tables, objects, tasks, history, counters, vars
<1>1. CASE FinishRename
  <2>1. PICK s \in Songs, f \in Files :
          /\ fileOf' = [fileOf EXCEPT ![s] = f]
          /\ handling' = <<>>
          /\ handling = <<"rename", s, f>>
          /\ UNCHANGED <<songs, hashOf, scanTasks, events>>
    BY <1>1 DEF FinishRename
  <2>2. hashOf[s] \in Hashes
    BY <2>1 DEF Alive
  <2>3. \A u \in Songs : Referenced(u, events)' => Referenced(u, events)
    BY <2>1 DEF Referenced
  <2> QED
    BY <2>1, <2>2, <2>3 DEF Alive, TypeOK
<1>2. CASE MoveToSongFiles
  <2> DEFINE s == CHOOSE free \in Free : TRUE
  <2>1. PICK f \in Files, h \in Hashes :
          /\ Free # {}
          /\ songs' = songs \cup {s}
          /\ fileOf' = [fileOf EXCEPT ![s] = f]
          /\ hashOf' = [hashOf EXCEPT ![s] = h]
          /\ scanTasks' = scanTasks \cup {s}
          /\ handling' = <<>>
          /\ events' = events
    BY <1>2 DEF MoveToSongFiles
  <2>2. s \in Songs
    BY <2>1, NewSong
  <2> HIDE DEF s
  <2>3. \A u \in Songs : u # s /\ Referenced(u, events)' => Referenced(u, events)
    BY <2>1 DEF Referenced
  <2> QED
    BY <2>1, <2>2, <2>3 DEF Alive, TypeOK
<1>3. ASSUME events # <<>>, events' = Tail(events), UNCHANGED <<objects, tasks>>,
             \/ handling' = handling
             \/ \E f, h : handling' = <<"hashed", f, h>>
      PROVE  Alive'
  BY <1>3, ReferencesDelivered DEF Alive
<1>4. CASE SongHashCalculated
  BY <1>3, <1>4 DEF SongHashCalculated, Delivered
<1>5. CASE SongHashFailed
  BY <1>3, <1>5 DEF SongHashFailed, Delivered
<1>6. CASE SongScanned
  <2> DEFINE s == Head(events).song
  <2>1. /\ events # <<>> /\ Head(events).type = "scanned" /\ events' = Tail(events)
        /\ IF s \in songs \/ Referenced(s, Tail(events))
           THEN UNCHANGED <<fileOf, hashOf, tagged>>
           ELSE Destroy(s)
        /\ UNCHANGED <<songs, scanTasks, handling>>
        /\ handling = <<>>
    BY <1>6 DEF SongScanned, Delivered, Idle
  <2>2. s \in Songs
    BY <2>1, HeadOfEvents
  <2>3. \A u \in Songs : /\ Referenced(u, events)' => Referenced(u, events)
                         /\ Referenced(u, events)' <=> Referenced(u, Tail(events))
    BY <2>1, ReferencesDelivered
  <2> HIDE DEF s
  <2>4. CASE s \in songs \/ Referenced(s, Tail(events))
    BY <2>1, <2>3, <2>4 DEF Alive
  <2>5. CASE ~(s \in songs \/ Referenced(s, Tail(events)))
    <3>1. fileOf' = [fileOf EXCEPT ![s] = NoFile] /\ hashOf' = [hashOf EXCEPT ![s] = NoHash]
      BY <2>1, <2>5 DEF Destroy
    <3>2. \A u \in Songs : u # s => fileOf'[u] = fileOf[u] /\ hashOf'[u] = hashOf[u]
      BY <3>1 DEF TypeOK
    <3>3. fileOf'[s] = NoFile
      BY <2>2, <3>1 DEF TypeOK
    <3> QED
      BY <2>1, <2>3, <2>5, <3>2, <3>3 DEF Alive
  <2> QED
    BY <2>4, <2>5
<1> QED
  BY <1>1, <1>2, <1>4, <1>5, <1>6 DEF Finish, Serve

LEMMA RestartKeepsAlive ==
  ASSUME BaseInv, Restart
  PROVE  Alive'
<1>1. \A s \in Songs : fileOf'[s] # NoFile => songFiles[fileOf'[s]] \in sharedRows
  BY ObjectsOfRestart DEF OneObjectEach, Loaded
<1>2. songs' = {s \in Songs : fileOf'[s] # NoFile}
  BY DEF Restart
<1>3. hashOf' = [s \in Songs |-> IF s \in songs' THEN songFiles[fileOf'[s]] ELSE NoHash]
  BY DEF Restart
<1>4. scanTasks' \subseteq songs' /\ events' = <<>> /\ handling' = <<>>
  BY DEF Restart
<1>5. \A s \in Songs : Referenced(s, events)' => s \in songs'
  BY <1>4 DEF Referenced
<1>6. sharedRows \subseteq Hashes
  BY DEF BaseInv, TypeOK
<1> QED
  BY <1>1, <1>2, <1>3, <1>4, <1>5, <1>6 DEF Alive

LEMMA BaseInductive ==
  ASSUME BaseInv, [Next]_vars
  PROVE  BaseInv'
<1>1. CASE User
  BY <1>1, UserKeepsTypes, UserKeepsAlive DEF BaseInv
<1>2. CASE \/ \E f \in Files : DiskChange(f) \/ RunHash(f)
           \/ \E s \in Songs : RunScan(s)
  BY <1>2, TasksKeepTypes, TasksKeepAlive DEF BaseInv
<1>3. CASE Finish \/ Serve
  BY <1>3, LibraryKeepsTypes, LibraryKeepsAlive DEF BaseInv
<1>4. CASE Restart
  BY <1>4, RestartKeepsTypes, RestartKeepsAlive DEF BaseInv
<1>5. CASE UNCHANGED vars
  BY <1>5 DEF vars, tables, objects, tasks, history, counters, BaseInv, TypeOK, Alive, Referenced
<1> QED
  BY <1>1, <1>2, <1>3, <1>4, <1>5 DEF Next

LEMMA BaseAlways == Spec => []BaseInv
BY InitBase, BaseInductive, PTL DEF Spec

(***************************************************************************)
(* Every variable keeps its type: no row is saved for a song object that   *)
(* has been destroyed, whatever signals about removed songs are delivered. *)
(***************************************************************************)
THEOREM TypeCorrect == Spec => []TypeOK
BY BaseAlways, PTL DEF BaseInv

-----------------------------------------------------------------------------
(* Saving a living song changes rows, and neither adds nor removes one. *)
LEMMA SaveKeepsRows ==
  ASSUME TypeOK, NEW s \in Songs, NEW f \in Files, hashOf[s] \in Hashes, SaveSongFileData(s, f)
  PROVE  /\ \A g \in Files : songFiles'[g] = songFiles[g] \/ songFiles'[g] = hashOf[s]
         /\ \A g \in Files : songFiles[g] # NoRow => songFiles'[g] # NoRow
BY DEF TypeOK, SaveSongFileData

(* The songs that are saved. *)
LEMMA SavedSong ==
  ASSUME BaseInv, FinishRename \/ SongScanned \/ \E s \in Songs : SaveSong(s)
  PROVE  \E s \in Songs, f \in Files : hashOf[s] \in Hashes /\ SaveSongFileData(s, f)
<1> USE DEF BaseInv
<1>1. CASE FinishRename
  BY <1>1 DEF FinishRename, Alive
<1>2. CASE SongScanned
  <2> DEFINE s == Head(events).song
  <2>1. /\ events # <<>> /\ Head(events).type = "scanned"
        /\ SaveSongFileData(s, fileOf[s])
    BY <1>2 DEF SongScanned, Delivered
  <2>2. s \in Songs /\ Head(events) = ScannedEvent(s)
    BY <2>1, HeadOfEvents
  <2>3. Referenced(s, events)
    BY <2>1, <2>2, RestOfEvents DEF TypeOK, Referenced
  <2> HIDE DEF s
  <2> QED
    BY <2>1, <2>2, <2>3 DEF Alive, TypeOK
<1>3. ASSUME NEW s \in Songs, SaveSong(s)
      PROVE  hashOf[s] \in Hashes /\ fileOf[s] \in Files /\ SaveSongFileData(s, fileOf[s])
  BY <1>3 DEF SaveSong, Alive, TypeOK
<1> QED
  BY <1>1, <1>2, <1>3

(* The rows stay when a song is saved. *)
LEMMA SaveLosesNothing ==
  ASSUME BaseInv, NothingLost, FinishRename \/ SongScanned \/ \E s \in Songs : SaveSong(s)
  PROVE  NothingLost'
<1>1. PICK s \in Songs, f \in Files : hashOf[s] \in Hashes /\ SaveSongFileData(s, f)
  BY SavedSong
<1>2. \A g \in Files : songFiles[g] # NoRow => songFiles'[g] # NoRow
  BY <1>1, SaveKeepsRows DEF BaseInv
<1>3. known' \subseteq known /\ newFiles' = newFiles
  BY DEF FinishRename, SongScanned, SaveSong, history
<1> QED
  BY <1>2, <1>3 DEF NothingLost, BaseInv, TypeOK

LEMMA NothingLostInductive ==
  ASSUME BaseInv, NothingLost, [Next]_vars
  PROVE  NothingLost'
<1> USE DEF BaseInv, tables, objects, tasks, history, counters, vars
<1>1. ASSUME NEW f \in Files, AddSongFile(f)
      PROVE  NothingLost'
  BY <1>1 DEF AddSongFile, NothingLost
<1>2. ASSUME NEW s \in Songs, NEW deleteDiskFile \in BOOLEAN, RemoveSong(s, deleteDiskFile)
      PROVE  NothingLost'
  BY <1>2 DEF RemoveSong, NothingLost, TypeOK
<1>3. CASE FinishRename \/ SongScanned \/ \E s \in Songs : SaveSong(s)
  BY <1>3, SaveLosesNothing
<1>4. ASSUME NEW s \in Songs, NEW f \in Files, RenameFile(s, f)
      PROVE  NothingLost'
  BY <1>4 DEF RenameFile, NothingLost
<1>5. CASE \/ \E f \in Files : DiskChange(f) \/ RunHash(f)
           \/ \E s \in Songs : RunScan(s)
  BY <1>5 DEF DiskChange, RunHash, RunScan, NothingLost
<1>6. CASE MoveToSongFiles
  <2>1. PICK f \in Files, h \in Hashes :
          /\ newFiles' = newFiles \ {f}
          /\ songFiles' = IF songFiles[f] = NoRow THEN [songFiles EXCEPT ![f] = h] ELSE songFiles
          /\ known' = known
    BY <1>6 DEF MoveToSongFiles
  <2> QED
    BY <2>1 DEF NothingLost, TypeOK
<1>7. CASE SongHashCalculated
  BY <1>7 DEF SongHashCalculated, NothingLost
<1>8. CASE SongHashFailed
  BY <1>8 DEF SongHashFailed, NothingLost
<1>9. CASE Restart
  <2>1. UNCHANGED <<known, newFiles, songFiles>>
    BY <1>9 DEF Restart
  <2> QED
    BY <2>1 DEF NothingLost
<1>10. CASE UNCHANGED vars \/ \E s \in Songs : RescanSong(s)
  BY <1>10 DEF NothingLost, RescanSong
<1> QED
  BY <1>1, <1>2, <1>3, <1>4, <1>5, <1>6, <1>7, <1>8, <1>9, <1>10 DEF Next, User, Finish, Serve

(***************************************************************************)
(* A file that was added is in NewFiles or SongFiles until it is removed,  *)
(* renamed or fails to be hashed, whenever the program ends and however    *)
(* often the file is added again in between.                               *)
(***************************************************************************)
THEOREM NoFileIsLost == Spec => []NothingLost
<1>1. Init => NothingLost
  BY DEF Init, NothingLost, SongLibraryAssumption
<1> QED
  BY <1>1, BaseAlways, NothingLostInductive, PTL DEF Spec

-----------------------------------------------------------------------------
(* A song is saved with a hash that has shared data. *)
LEMMA SaveKeepsData ==
  ASSUME BaseInv, DataInv, NEW s \in Songs, NEW f \in Files, hashOf[s] \in Hashes, SaveSongFileData(s, f)
  PROVE  \A g \in Files : songFiles'[g] \in Hashes => songFiles'[g] \in sharedRows
BY SaveKeepsRows DEF BaseInv, DataInv

LEMMA DataInductive ==
  ASSUME BaseInv, DataInv, [Next]_vars
  PROVE  DataInv'
<1> USE DEF BaseInv, tables, objects, tasks, history, counters, vars
<1>1. ASSUME NEW f \in Files, AddSongFile(f)
      PROVE  DataInv'
  BY <1>1 DEF AddSongFile, DataInv
<1>2. ASSUME NEW s \in Songs, NEW deleteDiskFile \in BOOLEAN, RemoveSong(s, deleteDiskFile)
      PROVE  DataInv'
  <2>1. \A u \in Songs : hashOf'[u] = hashOf[u] \/ hashOf'[u] = NoHash
    BY <1>2 DEF RemoveSong, Destroy, TypeOK
  <2>2. \A g \in Files : songFiles'[g] = songFiles[g] \/ songFiles'[g] = NoRow
    BY <1>2 DEF RemoveSong, TypeOK
  <2>3. UNCHANGED <<sharedRows, handling>>
    BY <1>2 DEF RemoveSong
  <2> QED
    BY <2>1, <2>2, <2>3 DEF DataInv
<1>3. CASE FinishRename \/ SongScanned \/ \E s \in Songs : SaveSong(s)
  <2>1. \A g \in Files : songFiles'[g] \in Hashes => songFiles'[g] \in sharedRows
    BY <1>3, SavedSong, SaveKeepsData
  <2>2. \A u \in Songs : hashOf'[u] = hashOf[u] \/ hashOf'[u] = NoHash
    <3>1. CASE FinishRename
      BY <3>1 DEF FinishRename
    <3>2. CASE SongScanned
      BY <3>2, HeadOfEvents DEF SongScanned, Delivered, Destroy, TypeOK
    <3>3. CASE \E s \in Songs : SaveSong(s)
      BY <3>3 DEF SaveSong
    <3> QED
      BY <1>3, <3>1, <3>2, <3>3
  <2>3. sharedRows' = sharedRows /\ (handling' = handling \/ handling' = <<>>)
    BY <1>3 DEF FinishRename, SongScanned, SaveSong
  <2> QED
    BY <2>1, <2>2, <2>3 DEF DataInv
<1>4. ASSUME NEW s \in Songs, NEW f \in Files, RenameFile(s, f)
      PROVE  DataInv'
  BY <1>4 DEF RenameFile, DataInv
<1>5. CASE \/ \E f \in Files : DiskChange(f) \/ RunHash(f)
           \/ \E s \in Songs : RunScan(s)
  BY <1>5 DEF DiskChange, RunHash, RunScan, DataInv
<1>6. CASE MoveToSongFiles
  <2> DEFINE s == CHOOSE free \in Free : TRUE
  <2>1. PICK f \in Files, h \in Hashes :
          /\ handling = <<"hashed", f, h>>
          /\ Free # {}
          /\ songFiles' = IF songFiles[f] = NoRow THEN [songFiles EXCEPT ![f] = h] ELSE songFiles
          /\ hashOf' = [hashOf EXCEPT ![s] = h]
          /\ handling' = <<>>
          /\ sharedRows' = sharedRows
    BY <1>6 DEF MoveToSongFiles
  <2>2. s \in Songs
    BY <2>1, NewSong
  <2> HIDE DEF s
  <2>3. h \in sharedRows
    BY <2>1 DEF DataInv
  <2> QED
    BY <2>1, <2>2, <2>3 DEF DataInv, TypeOK
<1>7. CASE SongHashCalculated
  <2>1. /\ sharedRows' = sharedRows \cup {Head(events).hash}
        /\ handling' = <<"hashed", Head(events).file, Head(events).hash>>
        /\ UNCHANGED <<songFiles, hashOf>>
    BY <1>7 DEF SongHashCalculated
  <2> QED
    BY <2>1 DEF DataInv
<1>8. CASE SongHashFailed
  BY <1>8 DEF SongHashFailed, DataInv
<1>9. CASE Restart
  <2>1. \A s \in Songs : fileOf'[s] # NoFile => songFiles[fileOf'[s]] \in sharedRows
    BY <1>9, ObjectsOfRestart DEF OneObjectEach, Loaded
  <2>2. songs' = {s \in Songs : fileOf'[s] # NoFile}
    BY <1>9 DEF Restart
  <2>3. hashOf' = [s \in Songs |-> IF s \in songs' THEN songFiles[fileOf'[s]] ELSE NoHash]
    BY <1>9 DEF Restart
  <2>4. handling' = <<>> /\ UNCHANGED <<songFiles, sharedRows>>
    BY <1>9 DEF Restart
  <2> QED
    BY <2>1, <2>2, <2>3, <2>4 DEF DataInv
<1>10. CASE UNCHANGED vars \/ \E s \in Songs : RescanSong(s)
  BY <1>10 DEF DataInv, RescanSong
<1> QED
  BY <1>1, <1>2, <1>3, <1>4, <1>5, <1>6, <1>7, <1>8, <1>9, <1>10 DEF Next, User, Finish, Serve

(***************************************************************************)
(* No row has a hash without shared data, whenever the program ends, so    *)
(* that a restart makes a song of every row that has a hash; and no song   *)
(* has such a hash either.                                                 *)
(***************************************************************************)
THEOREM EveryHashHasData == Spec => []RowsHaveData
<1>1. Init => DataInv
  BY DEF Init, DataInv
<1>2. BaseInv /\ DataInv => RowsHaveData
  BY DEF BaseInv, Alive, TypeOK, DataInv, RowsHaveData
<1> QED
  BY <1>1, <1>2, BaseAlways, DataInductive, PTL DEF Spec

-----------------------------------------------------------------------------
(* Steps that leave the songs and the hashes of their data alone. *)
LEMMA SameDuplicates ==
  ASSUME DuplicatesAreSongs, songs' = songs, duplicates' = duplicates,
         \A s \in songs : hashOf'[s] = hashOf[s]
  PROVE  DuplicatesAreSongs'
BY DEF DuplicatesAreSongs

LEMMA DuplicatesInductive ==
  ASSUME BaseInv, DuplicatesAreSongs, [Next]_vars
  PROVE  DuplicatesAreSongs'
<1> USE DEF BaseInv, tables, objects, tasks, history, counters, vars
<1>1. ASSUME NEW s \in Songs, NEW deleteDiskFile \in BOOLEAN, RemoveSong(s, deleteDiskFile)
      PROVE  DuplicatesAreSongs'
  <2>1. s \in songs /\ songs' = songs \ {s}
    BY <1>1 DEF RemoveSong
  <2>2. duplicates' = [duplicates EXCEPT ![hashOf[s]] = @ \ {s}]
    BY <1>1 DEF RemoveSong
  <2>3. \A u \in Songs : u # s => hashOf'[u] = hashOf[u]
    BY <1>1 DEF RemoveSong, Destroy, TypeOK
  <2>4. songs \subseteq Songs /\ duplicates \in [Hashes -> SUBSET Songs]
    BY DEF TypeOK
  <2>5. \A h \in Hashes : duplicates'[h] = duplicates[h] \ {s}
    BY <2>1, <2>2, <2>4 DEF DuplicatesAreSongs
  <2>6. \A h \in Hashes : {u \in songs' : hashOf'[u] = h} = {u \in songs : hashOf[u] = h} \ {s}
    BY <2>1, <2>3, <2>4
  <2> QED
    BY <2>5, <2>6 DEF DuplicatesAreSongs
<1>2. CASE MoveToSongFiles
  <2> DEFINE s == CHOOSE free \in Free : TRUE
  <2>1. PICK f \in Files, h \in Hashes :
          /\ Free # {}
          /\ songs' = songs \cup {s}
          /\ hashOf' = [hashOf EXCEPT ![s] = h]
          /\ duplicates' = [duplicates EXCEPT ![h] = @ \cup {s}]
    BY <1>2 DEF MoveToSongFiles
  <2>2. s \in Songs /\ fileOf[s] = NoFile
    BY <2>1, NewSong
  <2> HIDE DEF s
  <2>3. s \notin songs
    BY <2>2 DEF Alive
  <2>4. \A u \in songs : hashOf'[u] = hashOf[u]
    BY <2>1, <2>3 DEF TypeOK
  <2>5. hashOf'[s] = h
    BY <2>1, <2>2 DEF TypeOK
  <2>6. ASSUME NEW g \in Hashes
        PROVE  duplicates'[g] = {u \in songs' : hashOf'[u] = g}
    <3>1. CASE g = h
      <4>1. duplicates'[g] = {u \in songs : hashOf[u] = g} \cup {s}
        BY <2>1, <3>1 DEF DuplicatesAreSongs, TypeOK
      <4> QED
        BY <2>1, <2>4, <2>5, <3>1, <4>1
    <3>2. CASE g # h
      <4>1. duplicates'[g] = {u \in songs : hashOf[u] = g}
        BY <2>1, <3>2 DEF DuplicatesAreSongs, TypeOK
      <4> QED
        BY <2>1, <2>4, <2>5, <3>2, <4>1
    <3> QED
      BY <3>1, <3>2
  <2> QED
    BY <2>6 DEF DuplicatesAreSongs
<1>3. CASE SongScanned
  <2> DEFINE s == Head(events).song
  <2>1. IF s \in songs \/ Referenced(s, Tail(events))
        THEN UNCHANGED <<fileOf, hashOf, tagged>>
        ELSE Destroy(s)
    BY <1>3 DEF SongScanned
  <2> HIDE DEF s
  <2>2. \A u \in songs : hashOf'[u] = hashOf[u]
    BY <2>1 DEF Destroy, TypeOK
  <2>3. songs' = songs /\ duplicates' = duplicates
    BY <1>3 DEF SongScanned
  <2> QED
    BY <2>2, <2>3, SameDuplicates
<1>4. CASE Restart
  <2>1. duplicates' = [h \in Hashes |-> {s \in songs' : hashOf'[s] = h}]
    BY <1>4 DEF Restart
  <2> QED
    BY <2>1 DEF DuplicatesAreSongs
<1>5. ASSUME songs' = songs, duplicates' = duplicates, hashOf' = hashOf
      PROVE  DuplicatesAreSongs'
  BY <1>5, SameDuplicates
<1>6. CASE \/ \E f \in Files : AddSongFile(f)
           \/ \E s \in Songs : SaveSong(s) \/ RescanSong(s)
           \/ \E s \in Songs, f \in Files : RenameFile(s, f)
  BY <1>5, <1>6 DEF AddSongFile, SaveSong, RescanSong, RenameFile
<1>7. CASE \/ \E f \in Files : DiskChange(f) \/ RunHash(f)
           \/ \E s \in Songs : RunScan(s)
  BY <1>5, <1>7 DEF DiskChange, RunHash, RunScan
<1>8. CASE FinishRename \/ SongHashCalculated \/ SongHashFailed \/ UNCHANGED vars
  BY <1>5, <1>8 DEF FinishRename, SongHashCalculated, SongHashFailed
<1> QED
  BY <1>1, <1>2, <1>3, <1>4, <1>6, <1>7, <1>8 DEF Next, User, Finish, Serve

(***************************************************************************)
(* The songs of a hash are its duplicates, also while a task keeps one     *)
(* that was removed: mDuplicates refers to no destroyed object.            *)
(***************************************************************************)
THEOREM DuplicatesCorrect == Spec => []DuplicatesAreSongs
<1>1. Init => DuplicatesAreSongs
  BY DEF Init, DuplicatesAreSongs
<1> QED
  BY <1>1, BaseAlways, DuplicatesInductive, PTL DEF Spec

-----------------------------------------------------------------------------
(* A signal about a file waits until it is delivered. *)
LEMMA SignalsAdded ==
  ASSUME TypeOK, NEW ev \in Events, events' = Append(events, ev), NEW f \in Files,
         \E k \in DOMAIN events : About(events[k], f)
  PROVE  \E k \in DOMAIN events' : About(events'[k], f)
BY AddedEvent DEF TypeOK

LEMMA SignalsDelivered ==
  ASSUME TypeOK, events # <<>>, events' = Tail(events), NEW f \in Files,
         \E k \in DOMAIN events : About(events[k], f), ~About(Head(events), f)
  PROVE  \E k \in DOMAIN events' : About(events'[k], f)
<1>1. PICK k \in DOMAIN events : About(events[k], f)
  OBVIOUS
<1>2. k - 1 \in DOMAIN Tail(events) /\ Tail(events)[k - 1] = events[k]
  BY <1>1, RestOfEvents DEF TypeOK
<1> QED
  BY <1>1, <1>2

(* Steps in which the hashes under way stay so. *)
LEMMA StillUnderWay ==
  ASSUME NewFilesUnderWay, newFiles' \subseteq newFiles, UNCHANGED <<hashTasks, events, handling>>
  PROVE  NewFilesUnderWay'
BY DEF NewFilesUnderWay

LEMMA UnderWayInductive ==
  ASSUME BaseInv, NewFilesUnderWay, [Next]_vars
  PROVE  NewFilesUnderWay'
<1> USE DEF BaseInv, tables, objects, tasks, history, counters, vars
<1>1. ASSUME NEW f \in Files, AddSongFile(f)
      PROVE  NewFilesUnderWay'
  <2>1. /\ newFiles' = newFiles \cup {f}
        /\ hashTasks' = [hashTasks EXCEPT ![f] = @ + 1]
        /\ UNCHANGED <<events, handling>>
    BY <1>1 DEF AddSongFile
  <2>2. \A g \in Files : hashTasks[g] > 0 \/ g = f => hashTasks'[g] > 0
    BY <2>1 DEF TypeOK
  <2> QED
    BY <2>1, <2>2 DEF NewFilesUnderWay, TypeOK
<1>2. ASSUME NEW f \in Files, RunHash(f)
      PROVE  NewFilesUnderWay'
  <2>1. PICK ev \in Events : events' = Append(events, ev) /\ About(ev, f)
    <3>1. [type |-> "failed", file |-> f] \in Events /\ About([type |-> "failed", file |-> f], f)
      BY DEF Events, About
    <3>2. disk[f] \in Hashes =>
            /\ [type |-> "hashed", file |-> f, hash |-> disk[f]] \in Events
            /\ About([type |-> "hashed", file |-> f, hash |-> disk[f]], f)
      BY DEF Events, About
    <3> QED
      BY <1>2, <3>1, <3>2 DEF RunHash
  <2>2. UNCHANGED <<newFiles, handling>>
    BY <1>2 DEF RunHash
  <2>3. \A g \in Files : g # f => hashTasks'[g] = hashTasks[g]
    BY <1>2 DEF RunHash, TypeOK
  <2>4. \E k \in DOMAIN events' : About(events'[k], f)
    BY <2>1, AddedEvent DEF TypeOK
  <2>5. \A g \in Files : (\E k \in DOMAIN events : About(events[k], g))
                           => \E k \in DOMAIN events' : About(events'[k], g)
    BY <2>1, SignalsAdded
  <2> QED
    BY <2>2, <2>3, <2>4, <2>5 DEF NewFilesUnderWay, TypeOK
<1>3. ASSUME NEW s \in Songs, RunScan(s)
      PROVE  NewFilesUnderWay'
  <2>1. ScannedEvent(s) \in Events
    BY DEF Events, ScannedEvent
  <2>2. events' = Append(events, ScannedEvent(s)) /\ UNCHANGED <<newFiles, hashTasks, handling>>
    BY <1>3 DEF RunScan
  <2>3. \A g \in Files : (\E k \in DOMAIN events : About(events[k], g))
                           => \E k \in DOMAIN events' : About(events'[k], g)
    BY <2>1, <2>2, SignalsAdded
  <2> QED
    BY <2>2, <2>3 DEF NewFilesUnderWay, TypeOK
<1>4. ASSUME Delivered("hashed") \/ Delivered("failed") \/ Delivered("scanned")
      PROVE  /\ \A g \in Files : /\ \E k \in DOMAIN events : About(events[k], g)
                                 /\ ~About(Head(events), g)
                                 => \E k \in DOMAIN events' : About(events'[k], g)
             /\ handling = <<>>
  BY <1>4, SignalsDelivered DEF Delivered, Idle
<1>5. CASE SongHashCalculated
  <2>1. /\ handling' = <<"hashed", Head(events).file, Head(events).hash>>
        /\ UNCHANGED <<newFiles, hashTasks>>
        /\ Delivered("hashed")
    BY <1>5 DEF SongHashCalculated
  <2>2. Head(events).hash \in Hashes
    BY <2>1, HeadOfEvents DEF Delivered
  <2>3. \A g \in Files : About(Head(events), g) => \E h \in Hashes : handling' = <<"hashed", g, h>>
    BY <2>1, <2>2 DEF About
  <2>4. \A g \in Files, h \in Hashes : handling # <<"hashed", g, h>>
    BY <1>4, <2>1
  <2>5. newFiles \subseteq Files
    BY DEF TypeOK
  <2>6. ASSUME NEW g \in newFiles
        PROVE  \/ hashTasks[g] > 0
               \/ \E k \in DOMAIN events' : About(events'[k], g)
               \/ \E h \in Hashes : handling' = <<"hashed", g, h>>
    BY <1>4, <2>1, <2>3, <2>4, <2>5 DEF NewFilesUnderWay
  <2> QED
    BY <2>1, <2>6 DEF NewFilesUnderWay
<1>6. CASE SongHashFailed
  <2>1. /\ newFiles' = newFiles \ {Head(events).file}
        /\ UNCHANGED <<handling, hashTasks>>
        /\ Delivered("failed")
    BY <1>6 DEF SongHashFailed
  <2>2. \A g \in Files : About(Head(events), g) => g = Head(events).file
    BY DEF About
  <2> QED
    BY <1>4, <2>1, <2>2 DEF NewFilesUnderWay, TypeOK
<1>7. CASE SongScanned
  <2>1. UNCHANGED <<newFiles, handling, hashTasks>> /\ Delivered("scanned")
    BY <1>7 DEF SongScanned
  <2>2. \A g \in Files : ~About(Head(events), g)
    BY <2>1 DEF Delivered, About
  <2> QED
    BY <1>4, <2>1, <2>2 DEF NewFilesUnderWay, TypeOK
<1>8. CASE MoveToSongFiles
  <2>1. PICK f \in Files, h \in Hashes :
          /\ handling = <<"hashed", f, h>>
          /\ newFiles' = newFiles \ {f}
          /\ UNCHANGED <<hashTasks, events>>
    BY <1>8 DEF MoveToSongFiles
  <2> QED
    BY <2>1 DEF NewFilesUnderWay
<1>9. CASE FinishRename
  <2>1. PICK s \in Songs, f \in Files : handling = <<"rename", s, f>>
    BY <1>9 DEF FinishRename
  <2>2. UNCHANGED <<newFiles, hashTasks, events>>
    BY <1>9 DEF FinishRename
  <2> QED
    BY <2>1, <2>2 DEF NewFilesUnderWay
<1>10. ASSUME NEW s \in Songs, NEW f \in Files, RenameFile(s, f)
       PROVE  NewFilesUnderWay'
  <2>1. handling = <<>> /\ UNCHANGED <<newFiles, hashTasks, events>>
    BY <1>10 DEF RenameFile, Idle
  <2> QED
    BY <2>1 DEF NewFilesUnderWay
<1>11. CASE Restart
  <2>1. hashTasks' = TasksOfTables /\ newFiles' = newFiles
    BY <1>11 DEF Restart
  <2>2. ASSUME NEW f \in Files, f \in newFiles
        PROVE  TasksOfTables[f] > 0
    BY <2>2 DEF TasksOfTables, Count
  <2> QED
    BY <2>1, <2>2 DEF NewFilesUnderWay, TypeOK
<1>12. CASE \/ \E f \in Files : DiskChange(f)
            \/ \E s \in Songs, deleteDiskFile \in BOOLEAN : RemoveSong(s, deleteDiskFile)
            \/ \E s \in Songs : SaveSong(s) \/ RescanSong(s)
            \/ UNCHANGED vars
  BY <1>12, StillUnderWay DEF DiskChange, RemoveSong, SaveSong, RescanSong
<1> QED
  BY <1>1, <1>2, <1>3, <1>5, <1>6, <1>7, <1>8, <1>9, <1>10, <1>11, <1>12
  DEF Next, User, Finish, Serve

(***************************************************************************)
(* Every new file has its hash under way: as a task, as a signal, or in    *)
(* the slot that runs; no file is left for the next start to find.         *)
(***************************************************************************)
THEOREM NewFilesAreUnderWay == Spec => []NewFilesUnderWay
<1>1. Init => NewFilesUnderWay
  BY DEF Init, NewFilesUnderWay, Count
<1> QED
  BY <1>1, BaseAlways, UnderWayInductive, PTL DEF Spec

(* All of them: no file, hash or song is unaccounted for, for any number of restarts. *)
THEOREM TablesAlwaysAgree == Spec => []TablesAgree
<1>1. NothingLost /\ RowsHaveData /\ NewFilesUnderWay /\ DuplicatesAreSongs => TablesAgree
  BY DEF TablesAgree
<1> QED
  BY <1>1, NoFileIsLost, EveryHashHasData, NewFilesAreUnderWay, DuplicatesCorrect, PTL

-----------------------------------------------------------------------------
(* What the memory and SongFiles have to do with each other, in the middle of a slot too. *)
Mirror ==
  /\ \A s, t \in songs : fileOf[s] = fileOf[t] /\ fileOf[s] \notin mixedUp => s = t
  /\ \A f \in Files \ mixedUp : songFiles[f] # NoRow => Named(f) # {}
  /\ \A s \in songs : fileOf[s] \notin mixedUp => songFiles[fileOf[s]] = hashOf[s]
  /\ \A s \in songs :
       fileOf[s] \notin mixedUp /\ ~Referenced(s, events) => (fileOf[s] \in taggedRows <=> s \in tagged)

LEMMA MirrorIsStored ==
  ASSUME BaseInv, Mirror
  PROVE  MemoryIsStored
<1> USE DEF BaseInv
<1>1. \A s \in songs : fileOf[s] \in Files /\ hashOf[s] \in Hashes
  BY DEF TypeOK, Alive
<1>2. \A f \in Files \ mixedUp : Named(f) # {} => songFiles[f] # NoRow
  BY <1>1 DEF Mirror, Named
<1>3. StoredAsShown
  BY <1>2 DEF StoredAsShown, Mirror
<1>4. ScansSaved
  BY DEF ScansSaved, Mirror
<1> QED
  BY <1>3, <1>4 DEF MemoryIsStored

(* Saving a song touches no row but its own, and no row at all if it has none. *)
LEMMA SaveOneRow ==
  ASSUME TypeOK, NEW s \in Songs, NEW f \in Files, hashOf[s] \in Hashes, SaveSongFileData(s, f)
  PROVE  /\ \A g \in Files : g # f => songFiles'[g] = songFiles[g] /\ (g \in taggedRows' <=> g \in taggedRows)
         /\ songFiles[f] = NoRow => songFiles' = songFiles /\ taggedRows' = taggedRows
         /\ songFiles[f] # NoRow => songFiles'[f] = hashOf[s] /\ (f \in taggedRows' <=> s \in tagged)
BY DEF TypeOK, SaveSongFileData

(* Steps that add references to songs, or leave them alone, and touch no song and no row. *)
LEMMA MirrorKept ==
  ASSUME BaseInv, Mirror,
         UNCHANGED <<songs, fileOf, hashOf, tagged, songFiles, taggedRows, mixedUp>>,
         \A s \in Songs : Referenced(s, events) => Referenced(s, events)'
  PROVE  Mirror'
<1>1. songs \subseteq Songs
  BY DEF BaseInv, TypeOK
<1>2. \A f \in Files : Named(f)' = Named(f)
  BY DEF Named
<1> QED
  BY <1>1, <1>2 DEF Mirror

LEMMA SavingMirrors ==
  ASSUME BaseInv, Mirror, NEW s \in Songs, SaveSong(s)
  PROVE  Mirror'
<1> USE DEF BaseInv, objects, tasks, history
<1>1. /\ s \in songs
      /\ SaveSongFileData(s, fileOf[s])
      /\ UNCHANGED <<songs, fileOf, hashOf, tagged, scanTasks, events, mixedUp>>
  BY DEF SaveSong
<1>2. \A u \in songs : u \in Songs /\ fileOf[u] \in Files /\ hashOf[u] \in Hashes
  BY DEF TypeOK, Alive
<1>3. /\ \A g \in Files : g # fileOf[s] =>
           songFiles'[g] = songFiles[g] /\ (g \in taggedRows' <=> g \in taggedRows)
      /\ songFiles[fileOf[s]] # NoRow =>
           songFiles'[fileOf[s]] = hashOf[s] /\ (fileOf[s] \in taggedRows' <=> s \in tagged)
      /\ songFiles[fileOf[s]] = NoRow => songFiles' = songFiles
  BY <1>1, <1>2, SaveOneRow
<1>4. \A u \in Songs : Referenced(u, events)' <=> Referenced(u, events)
  BY <1>1 DEF Referenced
<1>5. \A f \in Files : Named(f)' = Named(f)
  BY <1>1 DEF Named
<1>6. \A f \in Files : songFiles'[f] # NoRow => songFiles[f] # NoRow
  BY <1>1, <1>2, <1>3
<1>7. \A u \in songs : fileOf[u] \notin mixedUp /\ fileOf[u] = fileOf[s] => u = s /\ songFiles[fileOf[u]] # NoRow
  BY <1>1, <1>2 DEF Mirror
<1>8. \A u \in songs : fileOf[u] \notin mixedUp => songFiles'[fileOf[u]] = hashOf[u]
  BY <1>1, <1>2, <1>3, <1>7 DEF Mirror
<1>9. \A u \in songs : fileOf[u] \notin mixedUp /\ ~Referenced(u, events)
                         => (fileOf[u] \in taggedRows' <=> u \in tagged)
  BY <1>1, <1>2, <1>3, <1>7 DEF Mirror
<1> QED
  BY <1>1, <1>2, <1>4, <1>5, <1>6, <1>8, <1>9 DEF Mirror

LEMMA RemovalMirrors ==
  ASSUME BaseInv, Mirror, NEW s \in Songs, NEW deleteDiskFile \in BOOLEAN, RemoveSong(s, deleteDiskFile)
  PROVE  Mirror'
<1> USE DEF BaseInv, tasks
<1>1. /\ s \in songs
      /\ songs' = songs \ {s}
      /\ songFiles' = [songFiles EXCEPT ![fileOf[s]] = NoRow]
      /\ taggedRows' = taggedRows \ {fileOf[s]}
      /\ UNCHANGED <<scanTasks, events, mixedUp>>
  BY DEF RemoveSong
<1>2. \A u \in songs : u \in Songs /\ fileOf[u] \in Files /\ hashOf[u] \in Hashes
  BY DEF TypeOK, Alive
<1>3. \A u \in songs' : fileOf'[u] = fileOf[u] /\ hashOf'[u] = hashOf[u] /\ (u \in tagged' <=> u \in tagged)
  BY <1>1, <1>2 DEF RemoveSong, Destroy, TypeOK
<1>4. \A u \in Songs : Referenced(u, events)' <=> Referenced(u, events)
  BY <1>1 DEF Referenced
<1>5. /\ songFiles'[fileOf[s]] = NoRow
      /\ \A g \in Files : g # fileOf[s] =>
           songFiles'[g] = songFiles[g] /\ (g \in taggedRows' <=> g \in taggedRows)
  BY <1>1, <1>2 DEF TypeOK
<1>6. \A f \in Files : f # fileOf[s] => Named(f)' = Named(f)
  BY <1>1, <1>2, <1>3 DEF Named
<1>7. \A u \in songs' : fileOf[u] \notin mixedUp => fileOf[u] # fileOf[s]
  BY <1>1 DEF Mirror
<1>8. \A f \in Files \ mixedUp' : songFiles'[f] # NoRow => Named(f)' # {}
  BY <1>1, <1>2, <1>5, <1>6 DEF Mirror
<1>9. \A u \in songs' : u \in songs
  BY <1>1
<1> QED
  BY <1>1, <1>2, <1>3, <1>4, <1>5, <1>7, <1>8, <1>9 DEF Mirror

LEMMA RenameMirrors ==
  ASSUME BaseInv, Mirror, FinishRename
  PROVE  Mirror'
<1> USE DEF BaseInv, tasks
<1>1. PICK s \in Songs, f \in Files :
        /\ handling = <<"rename", s, f>>
        /\ fileOf' = [fileOf EXCEPT ![s] = f]
        /\ SaveSongFileData(s, f)
        /\ mixedUp' = mixedUp \cup {fileOf[s], f}
        /\ UNCHANGED <<songs, hashOf, tagged, scanTasks, events>>
  BY DEF FinishRename
<1>2. s \in songs
  BY <1>1 DEF Alive
<1>3. \A u \in songs : u \in Songs /\ fileOf[u] \in Files /\ hashOf[u] \in Hashes
  BY DEF TypeOK, Alive
<1>4. \A g \in Files : g # f => songFiles'[g] = songFiles[g] /\ (g \in taggedRows' <=> g \in taggedRows)
  BY <1>1, <1>2, <1>3, SaveOneRow
<1>5. fileOf'[s] = f /\ \A u \in Songs : u # s => fileOf'[u] = fileOf[u]
  BY <1>1 DEF TypeOK
<1>6. \A u \in Songs : Referenced(u, events)' <=> Referenced(u, events)
  BY <1>1 DEF Referenced
<1>7. \A u \in songs : fileOf'[u] \notin mixedUp' =>
        u # s /\ fileOf'[u] = fileOf[u] /\ fileOf[u] # f /\ fileOf[u] \notin mixedUp
  BY <1>1, <1>3, <1>5
<1>8. \A g \in Files \ mixedUp' : g \notin mixedUp /\ g # f /\ g # fileOf[s] /\ Named(g)' = Named(g)
  BY <1>1, <1>3, <1>5 DEF Named
<1>9. \A u, v \in songs : fileOf'[u] = fileOf'[v] /\ fileOf'[u] \notin mixedUp' => u = v
  BY <1>7 DEF Mirror
<1>10. \A g \in Files \ mixedUp' : songFiles'[g] # NoRow => Named(g)' # {}
  BY <1>4, <1>8 DEF Mirror
<1>11. \A u \in songs : fileOf'[u] \notin mixedUp' => songFiles'[fileOf'[u]] = hashOf[u]
  BY <1>3, <1>4, <1>7 DEF Mirror
<1>12. \A u \in songs : fileOf'[u] \notin mixedUp' /\ ~Referenced(u, events)
                          => (fileOf'[u] \in taggedRows' <=> u \in tagged)
  BY <1>3, <1>4, <1>7 DEF Mirror
<1> QED
  BY <1>1, <1>3, <1>6, <1>9, <1>10, <1>11, <1>12 DEF Mirror

LEMMA MoveMirrors ==
  ASSUME BaseInv, Mirror, MoveToSongFiles
  PROVE  Mirror'
<1> USE DEF BaseInv
<1>1. PICK s \in Songs, f \in Files, h \in Hashes :
        /\ fileOf[s] = NoFile
        /\ songFiles' = IF songFiles[f] = NoRow THEN [songFiles EXCEPT ![f] = h] ELSE songFiles
        /\ songs' = songs \cup {s}
        /\ fileOf' = [fileOf EXCEPT ![s] = f]
        /\ hashOf' = [hashOf EXCEPT ![s] = h]
        /\ scanTasks' = scanTasks \cup {s}
        /\ mixedUp' = IF Named(f) = {} THEN mixedUp ELSE mixedUp \cup {f}
        /\ UNCHANGED <<taggedRows, tagged, events>>
  BY NewSong DEF MoveToSongFiles
<1>2. s \notin songs
  BY <1>1 DEF Alive
<1>3. \A u \in songs : u \in Songs /\ fileOf[u] \in Files /\ hashOf[u] \in Hashes
  BY DEF TypeOK, Alive
<1>4. /\ fileOf'[s] = f /\ hashOf'[s] = h
      /\ \A u \in songs : u # s /\ fileOf'[u] = fileOf[u] /\ hashOf'[u] = hashOf[u]
  BY <1>1, <1>2, <1>3 DEF TypeOK
<1>5. /\ Referenced(s, events)'
      /\ \A u \in Songs : Referenced(u, events) => Referenced(u, events)'
  BY <1>1 DEF Referenced
<1>6. \A g \in Files : g # f => songFiles'[g] = songFiles[g]
  BY <1>1 DEF TypeOK
<1>7. \A g \in Files : g \notin mixedUp' => g \notin mixedUp
  BY <1>1
<1>8. f \notin mixedUp' => songFiles'[f] = h /\ \A u \in songs : fileOf[u] # f
  <2>1. ASSUME f \notin mixedUp'
        PROVE  f \notin mixedUp /\ Named(f) = {}
    BY <1>1, <2>1
  <2> QED
    BY <1>1, <2>1 DEF Mirror, Named, TypeOK
<1>9. \A u \in songs : fileOf[u] \notin mixedUp' => fileOf[u] # f
  BY <1>8
<1>10. \A u, v \in songs' : fileOf'[u] = fileOf'[v] /\ fileOf'[u] \notin mixedUp' => u = v
  BY <1>1, <1>3, <1>4, <1>7, <1>8 DEF Mirror
<1>11. \A g \in Files \ mixedUp' : songFiles'[g] # NoRow => Named(g)' # {}
  <2>1. ASSUME NEW g \in Files \ mixedUp', songFiles'[g] # NoRow
        PROVE  \E u \in songs' : fileOf'[u] = g
    BY <1>1, <1>4, <1>6, <1>7, <2>1 DEF Mirror, Named
  <2> QED
    BY <2>1 DEF Named
<1>12. \A u \in songs' : fileOf'[u] \notin mixedUp' => songFiles'[fileOf'[u]] = hashOf'[u]
  BY <1>1, <1>3, <1>4, <1>6, <1>7, <1>8, <1>9 DEF Mirror
<1>13. \A u \in songs' : fileOf'[u] \notin mixedUp' /\ ~Referenced(u, events)'
                           => (fileOf'[u] \in taggedRows' <=> u \in tagged')
  BY <1>1, <1>3, <1>4, <1>5, <1>7 DEF Mirror
<1> QED
  BY <1>10, <1>11, <1>12, <1>13 DEF Mirror

(***************************************************************************)
(* The signal of a scan.  The song that it is about may have been removed, *)
(* and then saving it is harmless only because no row has its name, or     *)
(* because the name is another song's too.                                 *)
(***************************************************************************)
LEMMA ScanMirrors ==
  ASSUME BaseInv, Mirror, SongScanned
  PROVE  Mirror'
<1> USE DEF BaseInv, tasks
<1> DEFINE s == Head(events).song
           f == fileOf[s]
<1>1. /\ events # <<>> /\ Head(events).type = "scanned" /\ events' = Tail(events)
      /\ SaveSongFileData(s, f)
      /\ IF s \in songs \/ Referenced(s, Tail(events))
         THEN UNCHANGED <<fileOf, hashOf, tagged>>
         ELSE Destroy(s)
      /\ mixedUp' = IF Named(f) \subseteq {s} THEN mixedUp ELSE mixedUp \cup {f}
      /\ UNCHANGED <<songs, scanTasks>>
  BY DEF SongScanned, Delivered
<1>2. s \in Songs /\ Head(events) = ScannedEvent(s)
  BY <1>1, HeadOfEvents
<1>3. Referenced(s, events)
  BY <1>1, <1>2, RestOfEvents DEF TypeOK, Referenced
<1> HIDE DEF s
<1>4. f \in Files /\ hashOf[s] \in Hashes
  BY <1>2, <1>3 DEF Alive, TypeOK
<1>5. \A u \in Songs : u # s /\ ~Referenced(u, events)' => ~Referenced(u, events)
  <2>1. ASSUME NEW u \in Songs, u # s, Referenced(u, events)
        PROVE  Referenced(u, events)'
    <3>1. Head(events) # ScannedEvent(u)
      BY <1>2, <2>1 DEF ScannedEvent
    <3> QED
      BY <1>1, <2>1, <3>1, ReferencesDelivered
  <2> QED
    BY <2>1
<1>6. \A u \in songs : u \in Songs /\ fileOf[u] \in Files /\ hashOf[u] \in Hashes
  BY DEF TypeOK, Alive
<1>7. \A u \in songs : fileOf'[u] = fileOf[u] /\ hashOf'[u] = hashOf[u] /\ (u \in tagged' <=> u \in tagged)
  BY <1>1, <1>2, <1>6 DEF Destroy, TypeOK
<1>8. /\ \A g \in Files : g # f => songFiles'[g] = songFiles[g] /\ (g \in taggedRows' <=> g \in taggedRows)
      /\ songFiles[f] = NoRow => songFiles' = songFiles /\ taggedRows' = taggedRows
      /\ songFiles[f] # NoRow => songFiles'[f] = hashOf[s] /\ (f \in taggedRows' <=> s \in tagged)
  BY <1>1, <1>2, <1>4, SaveOneRow
<1>9. \A g \in Files : g \notin mixedUp' => g \notin mixedUp
  BY <1>1
<1>10. \A g \in Files : Named(g)' = Named(g)
  BY <1>1, <1>7 DEF Named
<1>11. ASSUME f \notin mixedUp'
       PROVE  /\ \A u \in songs : fileOf[u] = f => u = s
              /\ songFiles[f] # NoRow => s \in songs
  <2>1. f \notin mixedUp /\ Named(f) \subseteq {s}
    BY <1>1, <1>11
  <2> QED
    BY <1>4, <2>1 DEF Mirror, Named
<1>12. \A u, v \in songs' : fileOf'[u] = fileOf'[v] /\ fileOf'[u] \notin mixedUp' => u = v
  BY <1>1, <1>6, <1>7, <1>9 DEF Mirror
<1>13. \A g \in Files : songFiles'[g] # NoRow => songFiles[g] # NoRow
  BY <1>8
<1>14. \A g \in Files \ mixedUp' : songFiles'[g] # NoRow => Named(g)' # {}
  BY <1>9, <1>10, <1>13 DEF Mirror
<1>15. \A u \in songs : fileOf[u] \notin mixedUp' => songFiles'[fileOf[u]] = hashOf[u]
  <2>1. ASSUME NEW u \in songs, fileOf[u] \notin mixedUp'
        PROVE  songFiles[fileOf[u]] = hashOf[u] /\ hashOf[u] # NoRow
    BY <1>6, <1>9, <2>1 DEF Mirror
  <2> QED
    BY <1>6, <1>8, <1>11, <2>1
<1>16. \A u \in songs : fileOf[u] \notin mixedUp' /\ ~Referenced(u, events)'
                          => (fileOf[u] \in taggedRows' <=> u \in tagged)
  <2>1. ASSUME NEW u \in songs, fileOf[u] \notin mixedUp', ~Referenced(u, events)'
        PROVE  fileOf[u] \in taggedRows' <=> u \in tagged
    <3>1. songFiles[fileOf[u]] # NoRow
      BY <1>6, <1>9, <2>1 DEF Mirror
    <3>2. CASE u = s
      BY <1>8, <3>1, <3>2
    <3>3. CASE u # s
      <4>1. fileOf[u] # f
        BY <1>11, <2>1, <3>3
      <4>2. ~Referenced(u, events)
        BY <1>5, <1>6, <2>1, <3>3
      <4> QED
        BY <1>6, <1>8, <1>9, <2>1, <4>1, <4>2 DEF Mirror
    <3> QED
      BY <3>2, <3>3
  <2> QED
    BY <2>1
<1>17. \A u \in songs' : u \in songs
  BY <1>1
<1> QED
  BY <1>7, <1>12, <1>14, <1>15, <1>16, <1>17 DEF Mirror

LEMMA RunScanMirrors ==
  ASSUME BaseInv, Mirror, NEW s \in Songs, RunScan(s)
  PROVE  Mirror'
<1> USE DEF BaseInv, tables, history
<1>1. /\ scanTasks' = scanTasks \ {s}
      /\ tagged' = tagged \/ tagged' = tagged \cup {s}
      /\ events' = Append(events, ScannedEvent(s))
      /\ UNCHANGED <<songs, fileOf, hashOf, songFiles, taggedRows, mixedUp>>
  BY DEF RunScan
<1>2. ScannedEvent(s) \in Events /\ events \in Seq(Events)
  BY DEF Events, ScannedEvent, TypeOK
<1>3. Referenced(s, events)'
  BY <1>1, <1>2, AddedEvent DEF Referenced
<1>4. \A u \in Songs : Referenced(u, events) => Referenced(u, events)'
  <2>1. ASSUME NEW u \in Songs, u # s, Referenced(u, events)
        PROVE  Referenced(u, events)'
    BY <1>1, <1>2, <2>1, AddedEvent DEF Referenced
  <2> QED
    BY <1>3, <2>1
<1>5. \A f \in Files : Named(f)' = Named(f)
  BY <1>1 DEF Named
<1>6. \A u \in songs : u \in Songs
  BY DEF TypeOK
<1>7. \A u \in songs' : ~Referenced(u, events)' => u # s /\ u \in songs /\ (u \in tagged' <=> u \in tagged)
  BY <1>1, <1>3
<1> QED
  BY <1>1, <1>4, <1>5, <1>6, <1>7 DEF Mirror

(* A signal about a file refers to no song. *)
LEMMA ReferencesKept ==
  ASSUME TypeOK, UNCHANGED scanTasks,
         \/ \E ev \in Events : events' = Append(events, ev)
         \/ (Delivered("hashed") \/ Delivered("failed"))
  PROVE  \A s \in Songs : Referenced(s, events) => Referenced(s, events)'
<1>1. ASSUME NEW ev \in Events, events' = Append(events, ev), NEW s \in Songs, Referenced(s, events)
      PROVE  Referenced(s, events)'
  BY <1>1, AddedEvent DEF Referenced, TypeOK
<1>2. ASSUME Delivered("hashed") \/ Delivered("failed"), NEW s \in Songs, Referenced(s, events)
      PROVE  Referenced(s, events)'
  <2>1. events # <<>> /\ events' = Tail(events) /\ Head(events) # ScannedEvent(s)
    BY <1>2 DEF Delivered, ScannedEvent
  <2> QED
    BY <1>2, <2>1, ReferencesDelivered
<1> QED
  BY <1>1, <1>2

LEMMA RestartMirrors ==
  ASSUME BaseInv, DataInv, Restart
  PROVE  Mirror'
<1> USE DEF BaseInv, tables
<1>1. /\ \A f \in Loaded : \E s \in Songs : fileOf'[s] = f
      /\ \A s, t \in Songs : fileOf'[s] = fileOf'[t] => s = t \/ fileOf'[s] = NoFile
  BY ObjectsOfRestart DEF OneObjectEach
<1>2. songs' = {s \in Songs : fileOf'[s] # NoFile}
  BY DEF Restart
<1>3. /\ hashOf' = [s \in Songs |-> IF s \in songs' THEN songFiles[fileOf'[s]] ELSE NoHash]
      /\ tagged' = {s \in songs' : fileOf'[s] \in taggedRows}
      /\ songFiles' = songFiles /\ taggedRows' = taggedRows
  BY DEF Restart
<1>4. \A s, t \in songs' : fileOf'[s] = fileOf'[t] => s = t
  BY <1>1, <1>2
<1>5. ASSUME NEW f \in Files, songFiles[f] # NoRow
      PROVE  Named(f)' # {}
  <2>1. f \in Loaded
    BY <1>5 DEF TypeOK, DataInv, Loaded
  <2>2. PICK s \in Songs : fileOf'[s] = f
    BY <1>1, <2>1
  <2>3. s \in songs'
    BY <1>2, <2>2
  <2> QED
    BY <2>2, <2>3 DEF Named
<1>6. \A s \in songs' : songFiles[fileOf'[s]] = hashOf'[s] /\ (fileOf'[s] \in taggedRows <=> s \in tagged')
  BY <1>2, <1>3
<1> QED
  BY <1>3, <1>4, <1>5, <1>6 DEF Mirror

LEMMA MirrorInductive ==
  ASSUME BaseInv, DataInv, Mirror, [Next]_vars
  PROVE  Mirror'
<1> USE DEF BaseInv, tables, objects, tasks, history, vars
<1>1. CASE User
  <2>1. ASSUME UNCHANGED <<scanTasks, events>>, NEW s \in Songs
        PROVE  Referenced(s, events)' <=> Referenced(s, events)
    BY <2>1 DEF Referenced
  <2>2. ASSUME NEW f \in Files, AddSongFile(f)
        PROVE  Mirror'
    BY <2>1, <2>2, MirrorKept DEF AddSongFile
  <2>3. ASSUME NEW s \in Songs, RescanSong(s)
        PROVE  Mirror'
    <3>1. \A u \in Songs : Referenced(u, events) => Referenced(u, events)'
      BY <2>3 DEF RescanSong, Referenced
    <3> QED
      BY <2>3, <3>1, MirrorKept DEF RescanSong
  <2>4. ASSUME NEW s \in Songs, NEW f \in Files, RenameFile(s, f)
        PROVE  Mirror'
    BY <2>1, <2>4, MirrorKept DEF RenameFile
  <2> QED
    BY <1>1, <2>2, <2>3, <2>4, RemovalMirrors, SavingMirrors DEF User
<1>2. ASSUME NEW f \in Files, DiskChange(f)
      PROVE  Mirror'
  <2>1. \A s \in Songs : Referenced(s, events)' <=> Referenced(s, events)
    BY <1>2 DEF DiskChange, Referenced
  <2> QED
    BY <1>2, <2>1, MirrorKept DEF DiskChange
<1>3. ASSUME NEW f \in Files, RunHash(f)
      PROVE  Mirror'
  <2>1. \E ev \in Events : events' = Append(events, ev)
    <3>1. [type |-> "failed", file |-> f] \in Events
      BY DEF Events
    <3>2. disk[f] \in Hashes => [type |-> "hashed", file |-> f, hash |-> disk[f]] \in Events
      BY DEF Events
    <3> QED
      BY <1>3, <3>1, <3>2 DEF RunHash
  <2> QED
    BY <1>3, <2>1, ReferencesKept, MirrorKept DEF RunHash
<1>4. CASE SongHashCalculated \/ SongHashFailed
  BY <1>4, ReferencesKept, MirrorKept DEF SongHashCalculated, SongHashFailed
<1>5. CASE UNCHANGED vars
  <2>1. \A s \in Songs : Referenced(s, events)' <=> Referenced(s, events)
    BY <1>5 DEF Referenced
  <2> QED
    BY <1>5, <2>1, MirrorKept
<1> QED
  BY <1>1, <1>2, <1>3, <1>4, <1>5, RunScanMirrors, RenameMirrors, MoveMirrors, ScanMirrors, RestartMirrors
  DEF Next, Finish, Serve

(***************************************************************************)
(* What the memory shows is what the tables hold, whatever is removed,     *)
(* added again, scanned or lost in between, and for any number of ends of  *)
(* the program: between the slots a file has a song if and only if it has  *)
(* a row, and a scan whose signal was delivered has been saved.            *)
(***************************************************************************)
THEOREM MemoryAlwaysStored == Spec => []MemoryIsStored
<1>1. Init => DataInv /\ Mirror
  BY DEF Init, DataInv, Mirror
<1> QED
  BY <1>1, BaseAlways, DataInductive, MirrorInductive, MirrorIsStored, PTL DEF Spec

-------------------------------------------------------------------------------
(* The copies made before an upgrade. *)

USE DatabaseUpgradeAssumption

Working == {"queried", "upgrading", "committing", "ready"}

(* The tables in the file and in the transaction, and the versions they have. *)
VersionsRise ==
  /\ DOMAIN onDisk = Tables /\ DOMAIN work = Tables
  /\ original.version \in 0..Newest /\ onDisk.version \in original.version..Newest
  /\ onDisk.version = original.version => onDisk = original
  /\ phase = "committing" => work.version = onDisk.version + 1 /\ onDisk.version < Newest

(* Nothing is torn once the first query has been made. *)
RolledBack == phase \in Working => torn = FALSE

(* The copies for an upgrade hold what their names say. *)
CopiesAreNamed ==
  \A name \in DOMAIN backups :
    name[2] # Daily => ~backups[name].torn /\ backups[name].db.version = name[2]

OriginalCopied ==
  \E name \in DOMAIN backups : name[2] = original.version /\ backups[name].db = original

(* Before anything is changed there is the copy. *)
CopiedFirst ==
  /\ original.version \in 1..(onDisk.version - 1) => OriginalCopied
  /\ original.version \in 1..(Newest - 1) /\ phase \in {"upgrading", "committing", "ready"} =>
       OriginalCopied

UpgradeInv == VersionsRise /\ RolledBack /\ CopiesAreNamed /\ CopiedFirst

-----------------------------------------------------------------------------
(* A new copy leaves the old ones alone. *)
LEMMA CopyAdded ==
  ASSUME NEW version, Copied(version), <<day, version>> \notin DOMAIN backups
  PROVE  /\ DOMAIN backups' = DOMAIN backups \cup {<<day, version>>}
         /\ \A name \in DOMAIN backups : backups'[name] = backups[name]
         /\ backups'[<<day, version>>] = Image
BY DEF Copied

(* A script leaves a database with the same tables. *)
LEMMA ScriptsKeepTables ==
  ASSUME NEW db, DOMAIN db = Tables, NEW version \in Nat, NEW result \in Script(version, db)
  PROVE  DOMAIN result = Tables
<1>1. CASE version = 2
  BY <1>1 DEF Script, Script2
<1>2. CASE version = 4
  BY <1>2 DEF Script, Script4
<1>3. CASE version = 8
  <2>1. result \in Script8(db)
    BY <1>3 DEF Script
  <2>2. \E shared, files : result = [[db EXCEPT !.shared = shared] EXCEPT !.files = files]
    BY <2>1 DEF Script8
  <2> QED
    BY <2>2
<1>4. CASE version = 9
  <2>1. result \in Script9(db)
    BY <1>4 DEF Script
  <2>2. \E shared, files : result = [[db EXCEPT !.shared = shared] EXCEPT !.files = files]
    BY <2>1 DEF Script9
  <2> QED
    BY <2>2
<1>5. CASE version = 10
  BY <1>5 DEF Script, Script10
<1>6. CASE version = 14
  BY <1>6 DEF Script, Script14
<1>7. CASE version \notin {2, 4, 8, 9, 10, 14}
  BY <1>7 DEF Script, Script1
<1> QED
  BY <1>1, <1>2, <1>3, <1>4, <1>5, <1>6, <1>7

(* Steps that make no copy and leave the file's database alone. *)
LEMMA CopiesStay ==
  ASSUME UpgradeInv, UNCHANGED <<onDisk, backups, original>>, VersionsRise', RolledBack',
         phase' \in {"upgrading", "committing", "ready"} =>
           phase \in {"upgrading", "committing", "ready"} \/ original.version \notin 1..(Newest - 1)
             \/ onDisk.version > original.version
  PROVE  UpgradeInv'
<1>1. CopiesAreNamed'
  BY DEF UpgradeInv, CopiesAreNamed
<1>2. OriginalCopied' <=> OriginalCopied
  BY DEF OriginalCopied
<1>3. CopiedFirst'
  BY <1>2 DEF UpgradeInv, CopiedFirst, VersionsRise, Newest
<1> QED
  BY <1>1, <1>3 DEF UpgradeInv

LEMMA DailyBackupKeeps == ASSUME UpgradeInv, DailyBackup PROVE UpgradeInv'
<1>1. VersionsRise' /\ RolledBack'
  BY DEF DailyBackup, UpgradeInv, VersionsRise, RolledBack, Working
<1>2. CASE Exists(Daily)
  BY <1>1, <1>2, CopiesStay DEF DailyBackup
<1>3. CASE ~Exists(Daily)
  <2>1. /\ DOMAIN backups' = DOMAIN backups \cup {<<day, Daily>>}
        /\ \A name \in DOMAIN backups : backups'[name] = backups[name]
    BY <1>3, CopyAdded DEF DailyBackup, Exists
  <2>2. CopiesAreNamed'
    BY <2>1 DEF UpgradeInv, CopiesAreNamed
  <2>3. OriginalCopied => OriginalCopied'
    BY <2>1 DEF OriginalCopied, DailyBackup
  <2>4. CopiedFirst'
    BY <2>3 DEF UpgradeInv, CopiedFirst, DailyBackup
  <2> QED
    BY <1>1, <2>2, <2>4 DEF UpgradeInv
<1> QED
  BY <1>2, <1>3

LEMMA BackupBeforeUpgradeKeeps == ASSUME UpgradeInv, BackupBeforeUpgrade PROVE UpgradeInv'
<1>1. VersionsRise' /\ RolledBack'
  BY DEF BackupBeforeUpgrade, UpgradeInv, VersionsRise, RolledBack, Working
<1> DEFINE new == <<day, onDisk.version>>
<1>2. /\ DOMAIN backups' = DOMAIN backups \cup {new}
      /\ \A name \in DOMAIN backups : backups'[name] = backups[name]
      /\ backups'[new] = [db |-> onDisk, torn |-> FALSE]
  BY CopyAdded DEF BackupBeforeUpgrade, Exists, Image, UpgradeInv, RolledBack, Working
<1>3. CopiesAreNamed'
  BY <1>2 DEF UpgradeInv, CopiesAreNamed
<1>4. OriginalCopied => OriginalCopied'
  BY <1>2 DEF OriginalCopied, BackupBeforeUpgrade
<1>5. onDisk.version = original.version => OriginalCopied'
  BY <1>2 DEF OriginalCopied, BackupBeforeUpgrade, UpgradeInv, VersionsRise
<1>6. CopiedFirst'
  BY <1>4, <1>5 DEF UpgradeInv, CopiedFirst, VersionsRise, BackupBeforeUpgrade, Newest
<1> QED
  BY <1>1, <1>3, <1>6 DEF UpgradeInv

LEMMA ExecuteScriptKeeps == ASSUME UpgradeInv, ExecuteScript PROVE UpgradeInv'
<1>1. onDisk.version \in Nat /\ onDisk.version < Newest /\ DOMAIN onDisk = Tables
  BY DEF ExecuteScript, UpgradeInv, VersionsRise, Newest
<1>2. PICK result \in Script(onDisk.version + 1, onDisk) :
        work' = [result EXCEPT !.version = onDisk.version + 1]
  BY DEF ExecuteScript
<1>3. DOMAIN result = Tables
  BY <1>1, <1>2, ScriptsKeepTables
<1>4. DOMAIN work' = Tables /\ work'.version = onDisk.version + 1
  BY <1>2, <1>3 DEF Tables
<1>5. VersionsRise' /\ RolledBack'
  BY <1>1, <1>4 DEF ExecuteScript, UpgradeInv, VersionsRise, RolledBack, Working
<1> QED
  BY <1>5, CopiesStay DEF ExecuteScript

LEMMA CommitKeeps == ASSUME UpgradeInv, Commit PROVE UpgradeInv'
<1>1. /\ work.version = onDisk.version + 1 /\ onDisk.version < Newest /\ onDisk' = work
      /\ original.version \in 0..Newest /\ onDisk.version \in original.version..Newest
      /\ UNCHANGED <<original, backups, torn>>
  BY DEF Commit, UpgradeInv, VersionsRise
<1>2. VersionsRise' /\ RolledBack'
  BY <1>1 DEF Commit, UpgradeInv, VersionsRise, RolledBack, Working, Newest
<1>3. CopiesAreNamed' /\ (OriginalCopied' <=> OriginalCopied)
  BY <1>1 DEF UpgradeInv, CopiesAreNamed, OriginalCopied
<1>4. CopiedFirst'
  BY <1>1, <1>3 DEF Commit, UpgradeInv, CopiedFirst, Newest
<1> QED
  BY <1>2, <1>3, <1>4 DEF UpgradeInv

LEMMA UpgradeStepsKeep ==
  ASSUME UpgradeInv, [UpgradeNext]_upgradeVars
  PROVE  UpgradeInv'
<1>1. CASE Query \/ RefuseBackup \/ Opened \/ Quit \/ End \/ NextDay \/ UNCHANGED upgradeVars
  <2>1. VersionsRise' /\ RolledBack'
    BY <1>1 DEF Query, RefuseBackup, Opened, Quit, End, NextDay, upgradeVars,
       UpgradeInv, VersionsRise, RolledBack, Working
  <2> QED
    BY <1>1, <2>1, CopiesStay DEF Query, RefuseBackup, Opened, Quit, End, NextDay, upgradeVars
<1>2. CASE NoBackup
  <2>1. VersionsRise' /\ RolledBack'
    BY <1>2 DEF NoBackup, UpgradeInv, VersionsRise, RolledBack, Working
  <2>2. original.version \notin 1..(Newest - 1) \/ onDisk.version > original.version
    BY <1>2 DEF NoBackup, NeedsBackup, UpgradeInv, VersionsRise, Newest
  <2> QED
    BY <1>2, <2>1, <2>2, CopiesStay DEF NoBackup
<1> QED
  BY <1>1, <1>2, DailyBackupKeeps, BackupBeforeUpgradeKeeps, ExecuteScriptKeeps, CommitKeeps
  DEF UpgradeNext, Start, Upgrade

(* The inductive invariant of the upgrade. *)
THEOREM UpgradeInvariantHolds == UpgradeSpec => []UpgradeInv
<1>1. UpgradeInit => UpgradeInv
  <2> SUFFICES ASSUME UpgradeInit PROVE UpgradeInv
    OBVIOUS
  <2>1. DOMAIN backups = {}
    BY DEF UpgradeInit
  <2>2. onDisk \in Databases /\ work = onDisk /\ original = onDisk /\ phase = "off" /\ torn = FALSE
    BY DEF UpgradeInit
  <2> QED
    BY <2>1, <2>2 DEF UpgradeInv, VersionsRise, RolledBack, Working, CopiesAreNamed, CopiedFirst, Newest
<1> QED
  BY <1>1, UpgradeStepsKeep, PTL DEF UpgradeSpec

(***************************************************************************)
(* A database is upgraded only when there is a complete copy of what it    *)
(* was, and a copy made for an upgrade is never half a transaction,        *)
(* wherever the program was ended before.                                  *)
(***************************************************************************)
THEOREM BackupsAreComplete == UpgradeSpec => []BackupsComplete
<1>1. UpgradeInv => BackupsComplete
  BY DEF UpgradeInv, CopiesAreNamed, CopiedFirst, OriginalCopied, BackupsComplete
<1> QED
  BY <1>1, UpgradeInvariantHolds, PTL
===============================================================================
