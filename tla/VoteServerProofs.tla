--------------------------- MODULE VoteServerProofs ---------------------------
(***************************************************************************)
(* Proofs about LibraryExchange.tla and VoteServer.tla.                    *)
(*                                                                         *)
(* The ratings (RatingsAlwaysOfVotes).  A rating is the average of the     *)
(* first votes of a table, as many of them as there were when the song was *)
(* last voted on.  A step may only break it by rewriting a rating, or one  *)
(* of these votes: an import appends what the merge finds, which is a      *)
(* sequence since the merge ends, and the averages that it computes have   *)
(* no date and so never replace a rating.                                  *)
(*                                                                         *)
(* The dates (DatesAlwaysCarryOver).  SongsDated is inductive: a value     *)
(* without a date was never set, a song that was played keeps when, and no *)
(* library's clock takes that for later than the next day.                 *)
(*                                                                         *)
(* The pages (PagesAlwaysShowTheHistory).  FreshPagesShow adds to the      *)
(* property what is under way: a question is for the songs from a place on *)
(* that the page has reached, and an answer begins at such a place.  What  *)
(* the loop over an answer's songs adds is found by induction.             *)
(*                                                                         *)
(* The merge (HistoriesAlwaysMerged).  The sort of a table is a            *)
(* permutation of its rows: the place of a row, one more than the rows     *)
(* before it, is an injection into the places, hence all of them are       *)
(* taken.  From each pair of places in two sorted tables on, the merge     *)
(* finds of each moment as many rows as the one has more than the other    *)
(* (MissingCounts), by induction from the ends of the tables.              *)
(*                                                                         *)
(* ServerUsesTheLibrary brings what is true of the library to the server.  *)
(***************************************************************************)
EXTENDS VoteServer, SequenceTheorems, FiniteSetTheorems, WellFoundedInduction, TLAPS

-----------------------------------------------------------------------------
(* Induction over the natural numbers, for sets of them. *)
LEMMA LeastElement ==
  ASSUME NEW T \in SUBSET Nat, T # {}
  PROVE  \E m \in T : \A k \in T : m <= k
<1> DEFINE R == {x \in Nat \X Nat : x[1] < x[2]}
<1>1. IsWellFoundedOn(R, Nat)
  BY NatLessThanWellFounded DEF OpToRel
<1>2. PICK m \in T : \A y \in T : ~ (<<y, m>> \in R)
  BY <1>1, WFMin
<1>3. \A y \in T : <<y, m>> \in Nat \X Nat /\ (y < m => <<y, m>> \in R)
  OBVIOUS
<1> HIDE DEF R
<1>4. ASSUME NEW y \in T
      PROVE  m <= y
  <2>1. ~(y < m)
    BY <1>2, <1>3
  <2>2. m \in Nat /\ y \in Nat
    OBVIOUS
  <2> QED
    BY <2>1, <2>2
<1> QED
  BY <1>4

LEMMA InductiveSet ==
  ASSUME NEW S, 0 \in S, \A n \in Nat : n \in S => n + 1 \in S
  PROVE  Nat \subseteq S
<1> SUFFICES ASSUME Nat \ S # {} PROVE FALSE
  OBVIOUS
<1>1. PICK m \in Nat \ S : \A k \in Nat \ S : m <= k
  BY LeastElement
<1>2. m - 1 \in Nat
  BY <1>1
<1> QED
  BY <1>1, <1>2

-----------------------------------------------------------------------------
(* Sequences of whatever. *)
IsSequence(s) == \E S : s \in Seq(S)

LEMMA Listed ==
  ASSUME NEW f, NEW n \in Nat, f = [i \in 1..n |-> f[i]]
  PROVE  IsSequence(f)
<1> DEFINE S == {f[i] : i \in 1..n}
<1>1. f \in Seq(S)
  OBVIOUS
<1> QED
  BY <1>1 DEF IsSequence

LEMMA Joined ==
  ASSUME NEW s, NEW t, IsSequence(s), IsSequence(t)
  PROVE  /\ IsSequence(s \o t)
         /\ Len(s) \in Nat /\ Len(t) \in Nat /\ Len(s \o t) = Len(s) + Len(t)
         /\ \A n \in 0..Len(s) : SubSeq(s \o t, 1, n) = SubSeq(s, 1, n)
<1>1. PICK S : s \in Seq(S)
  BY DEF IsSequence
<1>2. PICK T : t \in Seq(T)
  BY DEF IsSequence
<1> DEFINE U == S \cup T
           r == s \o t
<1>3. s \in Seq(U) /\ t \in Seq(U)
  BY <1>1, <1>2
<1>4. r \in Seq(U) /\ Len(r) = Len(s) + Len(t) /\ Len(s) \in Nat /\ Len(t) \in Nat
  BY <1>3
<1>5. \A i \in 1..Len(s) : r[i] = s[i]
  BY <1>3
<1>6. ASSUME NEW n \in 0..Len(s)
      PROVE  SubSeq(r, 1, n) = SubSeq(s, 1, n)
  <2>1. SubSeq(s, 1, n) = [i \in 1..n |-> s[i]]
    BY <1>3
  <2> HIDE DEF r
  <2>2. SubSeq(r, 1, n) = [i \in 1..n |-> r[i]]
    BY <1>4
  <2> QED
    BY <1>4, <1>5, <2>1, <2>2
<1> QED
  BY <1>4, <1>6 DEF IsSequence

-----------------------------------------------------------------------------
LEMMA NearerToTheEnd ==
  ASSUME NEW m \in Nat, NEW n \in Nat, NEW k \in Nat, NEW i \in 1..m, NEW j \in 1..n,
         (m + 1 - i) + (n + 1 - j) <= k + 1
  PROVE  /\ i + 1 \in 1..m + 1 /\ j + 1 \in 1..n + 1 /\ i \in 1..m + 1 /\ j \in 1..n + 1
         /\ (m + 1 - (i + 1)) + (n + 1 - (j + 1)) <= k
         /\ (m + 1 - i) + (n + 1 - (j + 1)) <= k
         /\ (m + 1 - (i + 1)) + (n + 1 - j) <= k
OBVIOUS

(* What holds at the ends of two lists and, before them, wherever it holds a step further on. *)
LEMMA FromTheEnds ==
  ASSUME NEW m \in Nat, NEW n \in Nat, NEW G,
         \A i \in 1..m + 1, j \in 1..n + 1 : i > m \/ j > n => <<i, j>> \in G,
         \A i \in 1..m, j \in 1..n :
           <<i + 1, j + 1>> \in G /\ <<i, j + 1>> \in G /\ <<i + 1, j>> \in G => <<i, j>> \in G
  PROVE  \A i \in 1..m + 1, j \in 1..n + 1 : <<i, j>> \in G
<1> DEFINE Near == {k \in Nat : \A i \in 1..m + 1, j \in 1..n + 1 : (m + 1 - i) + (n + 1 - j) <= k => <<i, j>> \in G}
<1>1. 0 \in Near
  <2>1. \A i \in 1..m + 1, j \in 1..n + 1 : (m + 1 - i) + (n + 1 - j) <= 0 => i > m
    OBVIOUS
  <2> QED
    BY <2>1
<1>2. ASSUME NEW k \in Nat, k \in Near
      PROVE  k + 1 \in Near
  <2>1. ASSUME NEW i \in 1..m + 1, NEW j \in 1..n + 1, (m + 1 - i) + (n + 1 - j) <= k + 1
        PROVE  <<i, j>> \in G
    <3>1. CASE i > m \/ j > n
      BY <3>1
    <3>2. CASE ~(i > m \/ j > n)
      <4>1. i \in 1..m /\ j \in 1..n
        BY <3>2
      <4>2. /\ i + 1 \in 1..m + 1 /\ j + 1 \in 1..n + 1
            /\ (m + 1 - (i + 1)) + (n + 1 - (j + 1)) <= k
            /\ (m + 1 - i) + (n + 1 - (j + 1)) <= k
            /\ (m + 1 - (i + 1)) + (n + 1 - j) <= k
        BY <2>1, <4>1, NearerToTheEnd
      <4>3. <<i + 1, j + 1>> \in G /\ <<i, j + 1>> \in G /\ <<i + 1, j>> \in G
        BY <1>2, <4>2
      <4> QED
        BY <4>1, <4>3
    <3> QED
      BY <3>1, <3>2
  <2> QED
    BY <2>1
<1> HIDE DEF Near
<1>3. m + n \in Near
  BY <1>1, <1>2, InductiveSet
<1>4. \A i \in 1..m + 1, j \in 1..n + 1 : (m + 1 - i) + (n + 1 - j) <= m + n
  OBVIOUS
<1> QED
  BY <1>3, <1>4 DEF Near

(* What the merge has still to find at each pair of places in the two tables. *)
Unfolds(add, from, to) ==
  /\ \A j \in 1..Len(to) + 1 : add[<<Len(from) + 1, j>>] = <<>>
  /\ \A i \in 1..Len(from) : add[<<i, Len(to) + 1>>] = SubSeq(from, i, Len(from))
  /\ \A i \in 1..Len(from), j \in 1..Len(to) :
       /\ from[i].time = to[j].time => add[<<i, j>>] = add[<<i + 1, j + 1>>]
       /\ from[i].time # to[j].time /\ from[i].time > to[j].time => add[<<i, j>>] = add[<<i, j + 1>>]
       /\ from[i].time # to[j].time /\ ~(from[i].time > to[j].time) =>
            add[<<i, j>>] = <<from[i]>> \o add[<<i + 1, j>>]

(* The merge goes on in one of the tables, or in both, with every step, so that it ends. *)
LEMMA MissingUnfolds ==
  ASSUME NEW from, NEW to, IsSequence(from), IsSequence(to)
  PROVE  \E add : Missing(from, to) = add[<<1, 1>>] /\ Unfolds(add, from, to)
<1>2. Len(from) \in Nat /\ Len(to) \in Nat
  BY DEF IsSequence
<1> DEFINE m == Len(from)
           n == Len(to)
           Places == (1..m + 1) \X (1..n + 1)
           B(a, at) ==
             IF at[1] > m THEN <<>>
             ELSE IF at[2] > n THEN SubSeq(from, at[1], m)
             ELSE IF from[at[1]].time = to[at[2]].time THEN a[<<at[1] + 1, at[2] + 1>>]
             ELSE IF from[at[1]].time > to[at[2]].time THEN a[<<at[1], at[2] + 1>>]
             ELSE <<from[at[1]]>> \o a[<<at[1] + 1, at[2]>>]
           add == CHOOSE a : a = [at \in Places |-> B(a, at)]
           Left(k) == {at \in Places : (m + 1 - at[1]) + (n + 1 - at[2]) <= k}
<1>3. Missing(from, to) = add[<<1, 1>>]
  BY DEF Missing
(* What a step refers to is nearer to the end. *)
<1>4. ASSUME NEW k \in Nat, NEW at \in Left(k + 1), at[1] <= m, at[2] <= n
      PROVE  <<at[1] + 1, at[2] + 1>> \in Left(k) /\ <<at[1], at[2] + 1>> \in Left(k) /\ <<at[1] + 1, at[2]>> \in Left(k)
  <2>1. at[1] \in 1..m /\ at[2] \in 1..n /\ (m + 1 - at[1]) + (n + 1 - at[2]) <= k + 1
    BY <1>2, <1>4
  <2>2. ASSUME NEW i \in 1..m + 1, NEW j \in 1..n + 1, (m + 1 - i) + (n + 1 - j) <= k
        PROVE  <<i, j>> \in Left(k)
    BY <2>2
  <2> HIDE DEF Left
  <2>3. /\ at[1] + 1 \in 1..m + 1 /\ at[2] + 1 \in 1..n + 1 /\ at[1] \in 1..m + 1 /\ at[2] \in 1..n + 1
        /\ (m + 1 - (at[1] + 1)) + (n + 1 - (at[2] + 1)) <= k
        /\ (m + 1 - at[1]) + (n + 1 - (at[2] + 1)) <= k
        /\ (m + 1 - (at[1] + 1)) + (n + 1 - at[2]) <= k
    BY <1>2, <2>1, NearerToTheEnd
  <2> QED
    BY <2>2, <2>3
<1>5. \A at \in Left(0) : at[1] > m /\ at[2] > n
  BY <1>2
<1>6. <<1, 1>> \in Left(m + n) /\ Places = Left(m + n) /\ m + n \in Nat
  BY <1>2
<1>7. \A k \in Nat : Left(k) \subseteq Left(k + 1)
  BY <1>2
<1>8. \E a : \A at \in Places : a[at] = B(a, at)
  <2> DEFINE Found == {k \in Nat : \E a : \A at \in Left(k) : a[at] = B(a, at)}
  <2>1. 0 \in Found
    <3> DEFINE a == [at \in Places |-> <<>>]
    <3>1. \A at \in Left(0) : a[at] = B(a, at)
      BY <1>5
    <3> QED
      BY <3>1
  <2>2. ASSUME NEW k \in Nat, k \in Found
        PROVE  k + 1 \in Found
    <3>1. PICK a : \A at \in Left(k) : a[at] = B(a, at)
      BY <2>2
    <3> DEFINE b == [at \in Places |-> B(a, at)]
    <3>2. \A at \in Left(k) : b[at] = a[at]
      BY <3>1
    <3>3. ASSUME NEW at \in Left(k + 1)
          PROVE  b[at] = B(b, at)
      <4>1. b[at] = B(a, at)
        BY <3>3
      <4> HIDE DEF b
      <4>2. at[1] <= m /\ at[2] <= n =>
              /\ b[<<at[1] + 1, at[2] + 1>>] = a[<<at[1] + 1, at[2] + 1>>]
              /\ b[<<at[1], at[2] + 1>>] = a[<<at[1], at[2] + 1>>]
              /\ b[<<at[1] + 1, at[2]>>] = a[<<at[1] + 1, at[2]>>]
        BY <1>4, <3>2, <3>3
      <4>3. at[1] \in Int /\ at[2] \in Int
        BY <1>2, <3>3
      <4> QED
        BY <1>2, <4>1, <4>2, <4>3
    <3> HIDE DEF b, B, Left
    <3> QED
      BY <3>3
  <2> HIDE DEF Found
  <2>3. m + n \in Found
    BY <1>6, <2>1, <2>2, InductiveSet
  <2> QED
    BY <1>6, <2>3 DEF Found
<1>9. \E a : a = [at \in Places |-> B(a, at)]
  <2>1. PICK a : \A at \in Places : a[at] = B(a, at)
    BY <1>8
  <2> DEFINE b == [at \in Places |-> a[at]]
  <2>2. ASSUME NEW at \in Places
        PROVE  B(b, at) = B(a, at)
    <3>1. m + n \in Nat /\ at \in Left((m + n) + 1)
      BY <1>6, <1>7
    <3>2. at[1] <= m /\ at[2] <= n =>
            /\ <<at[1] + 1, at[2] + 1>> \in Places
            /\ <<at[1], at[2] + 1>> \in Places
            /\ <<at[1] + 1, at[2]>> \in Places
      BY <1>4, <3>1
    <3>3. at[1] \in Int /\ at[2] \in Int
      BY <1>2
    <3> QED
      BY <1>2, <3>2, <3>3
  <2> HIDE DEF B
  <2>3. b = [at \in Places |-> B(b, at)]
    BY <2>1, <2>2
  <2> QED
    BY <2>3
<1>10. add = [at \in Places |-> B(add, at)]
  BY <1>9
<1> HIDE DEF add
<1>11. ASSUME NEW i \in 1..m + 1, NEW j \in 1..n + 1
       PROVE  add[<<i, j>>] = B(add, <<i, j>>)
  <2>1. <<i, j>> \in Places
    OBVIOUS
  <2> QED
    BY <1>10, <2>1
<1> HIDE DEF m, n
<1>12. \A j \in 1..n + 1 : add[<<m + 1, j>>] = <<>>
  <2>1. m + 1 \in 1..m + 1 /\ m + 1 > m
    BY <1>2 DEF m, n
  <2> QED
    BY <1>11, <2>1
<1>13. \A i \in 1..m : add[<<i, n + 1>>] = SubSeq(from, i, m)
  <2>1. n + 1 \in 1..n + 1 /\ n + 1 > n /\ \A i \in 1..m : i \in 1..m + 1 /\ ~(i > m)
    BY <1>2 DEF m, n
  <2> QED
    BY <1>11, <2>1
<1>14. ASSUME NEW i \in 1..m, NEW j \in 1..n
       PROVE  /\ from[i].time = to[j].time => add[<<i, j>>] = add[<<i + 1, j + 1>>]
              /\ from[i].time # to[j].time /\ from[i].time > to[j].time => add[<<i, j>>] = add[<<i, j + 1>>]
              /\ from[i].time # to[j].time /\ ~(from[i].time > to[j].time) =>
                   add[<<i, j>>] = <<from[i]>> \o add[<<i + 1, j>>]
  <2>1. i \in 1..m + 1 /\ j \in 1..n + 1 /\ ~(i > m) /\ ~(j > n)
    BY <1>2 DEF m, n
  <2> QED
    BY <1>11, <2>1
<1>15. Unfolds(add, from, to)
  BY <1>12, <1>13, <1>14 DEF Unfolds, m, n
<1> QED
  BY <1>3, <1>15

UnfoldsThere(add, from, to, i, j) ==
  /\ i > Len(from) => i = Len(from) + 1 /\ add[<<i, j>>] = <<>>
  /\ ~(i > Len(from)) /\ j > Len(to) => j = Len(to) + 1 /\ add[<<i, j>>] = SubSeq(from, i, Len(from))
  /\ ~(i > Len(from)) /\ ~(j > Len(to)) =>
       /\ from[i].time = to[j].time => add[<<i, j>>] = add[<<i + 1, j + 1>>]
       /\ from[i].time # to[j].time /\ from[i].time > to[j].time => add[<<i, j>>] = add[<<i, j + 1>>]
       /\ from[i].time # to[j].time /\ ~(from[i].time > to[j].time) =>
            add[<<i, j>>] = <<from[i]>> \o add[<<i + 1, j>>]

LEMMA UnfoldsAt ==
  ASSUME NEW from, NEW to, IsSequence(from), IsSequence(to), NEW add, Unfolds(add, from, to),
         NEW i \in 1..Len(from) + 1, NEW j \in 1..Len(to) + 1
  PROVE  UnfoldsThere(add, from, to, i, j)
<1> DEFINE m == Len(from)
           n == Len(to)
<1>1. m \in Nat /\ n \in Nat
  BY DEF IsSequence
<1>2. /\ i > m => i = m + 1
      /\ j > n => j = n + 1
      /\ ~(i > m) => i \in 1..m
      /\ ~(j > n) => j \in 1..n
  BY <1>1
<1> HIDE DEF m, n
<1>3. /\ i > m => add[<<i, j>>] = <<>>
      /\ ~(i > m) /\ j > n => add[<<i, j>>] = SubSeq(from, i, m)
  BY <1>2 DEF Unfolds, m, n
<1>4. ASSUME ~(i > m), ~(j > n)
      PROVE  /\ from[i].time = to[j].time => add[<<i, j>>] = add[<<i + 1, j + 1>>]
             /\ from[i].time # to[j].time /\ from[i].time > to[j].time => add[<<i, j>>] = add[<<i, j + 1>>]
             /\ from[i].time # to[j].time /\ ~(from[i].time > to[j].time) =>
                  add[<<i, j>>] = <<from[i]>> \o add[<<i + 1, j>>]
  <2>1. i \in 1..m /\ j \in 1..n
    BY <1>2, <1>4
  <2> QED
    BY <2>1 DEF Unfolds, m, n
<1> QED
  BY <1>2, <1>3, <1>4, Zenon DEF UnfoldsThere, m, n

(* What the merge finds is a list of rows of the one table. *)
LEMMA MissingAreRows ==
  ASSUME NEW S, NEW from \in Seq(S), NEW to, IsSequence(to)
  PROVE  Missing(from, to) \in Seq(S)
<1> DEFINE m == Len(from)
           n == Len(to)
<1>1. IsSequence(from) /\ m \in Nat /\ n \in Nat
  BY DEF IsSequence
<1>2. PICK add : Missing(from, to) = add[<<1, 1>>] /\ Unfolds(add, from, to)
  BY <1>1, MissingUnfolds
<1>3. \A i \in 1..m + 1, j \in 1..n + 1 : UnfoldsThere(add, from, to, i, j)
  BY <1>1, <1>2, UnfoldsAt
<1> DEFINE G == {at \in (1..m + 1) \X (1..n + 1) : add[at] \in Seq(S)}
<1>4. ASSUME NEW i \in 1..m + 1, NEW j \in 1..n + 1, i > m \/ j > n
      PROVE  <<i, j>> \in G
  <2>1. SubSeq(from, i, m) \in Seq(S) /\ <<>> \in Seq(S)
    BY <1>1
  <2>2. add[<<i, j>>] = <<>> \/ add[<<i, j>>] = SubSeq(from, i, m)
    BY <1>4, <1>3 DEF UnfoldsThere
  <2> QED
    BY <2>1, <2>2
<1>5. ASSUME NEW i \in 1..m, NEW j \in 1..n,
             <<i + 1, j + 1>> \in G, <<i, j + 1>> \in G, <<i + 1, j>> \in G
      PROVE  <<i, j>> \in G
  <2>1. i \in 1..m + 1 /\ j \in 1..n + 1 /\ ~(i > m) /\ ~(j > n)
    BY <1>1
  <2>2. <<from[i]>> \in Seq(S)
    OBVIOUS
  <2>3. <<from[i]>> \o add[<<i + 1, j>>] \in Seq(S)
    BY <1>5, <2>2
  <2>4. add[<<i, j>>] \in {add[<<i + 1, j + 1>>], add[<<i, j + 1>>], <<from[i]>> \o add[<<i + 1, j>>]}
    BY <1>3, <2>1 DEF UnfoldsThere
  <2> QED
    BY <1>5, <2>1, <2>3, <2>4
<1>6. \A i \in 1..m + 1, j \in 1..n + 1 : <<i, j>> \in G
  <2> HIDE DEF G, m, n
  <2> QED
    BY <1>1, <1>4, <1>5, FromTheEnds
<1>7. <<1, 1>> \in G
  BY <1>1, <1>6
<1> QED
  BY <1>2, <1>7

LEMMA MissingIsSequence ==
  ASSUME NEW from, NEW to, IsSequence(from), IsSequence(to)
  PROVE  IsSequence(Missing(from, to))
BY MissingAreRows DEF IsSequence

-----------------------------------------------------------------------------
(* What a library keeps: the shape of it, and the tables as sequences. *)
IsDated(d) ==
  /\ d = [present |-> d.present, value |-> d.value, date |-> d.date]
  /\ d.present \in BOOLEAN /\ d.date \in Nat

ExchangeTypes ==
  /\ day \in Nat
  /\ DOMAIN shared = Libraries
  /\ \A lib \in Libraries : DOMAIN shared[lib] = Known[lib]
  /\ \A lib \in Libraries : \A hash \in Known[lib] :
       /\ DOMAIN shared[lib][hash] = {"manual", "lastPlayed", "rating"}
       /\ DOMAIN shared[lib][hash].rating = Categories
  /\ DOMAIN votes = Libraries
  /\ \A lib \in Libraries : DOMAIN votes[lib] = Categories
  /\ \A lib \in Libraries, c \in Categories : IsSequence(votes[lib][c])
  /\ DOMAIN cast = Libraries
  /\ \A lib \in Libraries : DOMAIN cast[lib] = Categories
  /\ \A lib \in Libraries, c \in Categories : DOMAIN cast[lib][c] = Songs
  /\ \A lib \in Libraries, c \in Categories, hash \in Songs :
       cast[lib][c][hash] \in 0..Len(votes[lib][c])

LEMMA KnownSongs ==
  ASSUME NEW lib \in Libraries, NEW hash \in Known[lib]
  PROVE  hash \in Songs
BY DEF Songs

LEMMA InitTypes == Init => ExchangeTypes
<1> SUFFICES ASSUME Init PROVE ExchangeTypes
  OBVIOUS
<1>1. \A lib \in Libraries, c \in Categories : votes[lib][c] = <<>> /\ Len(votes[lib][c]) = 0
  BY DEF Init
<1>2. \A s : s = <<>> => IsSequence(s)
  BY DEF IsSequence
<1> QED
  BY <1>1, <1>2 DEF Init, ExchangeTypes

(* A vote that is added is the last one of its table, and the table is otherwise as it was. *)
LEMMA VoteAdded ==
  ASSUME NEW table, IsSequence(table), NEW vote
  PROVE  /\ IsSequence(Append(table, vote))
         /\ Len(table) \in Nat /\ Len(Append(table, vote)) = Len(table) + 1
         /\ \A n \in 0..Len(table) : SubSeq(Append(table, vote), 1, n) = SubSeq(table, 1, n)
         /\ SubSeq(Append(table, vote), 1, Len(table) + 1) = Append(table, vote)
<1>1. PICK S : table \in Seq(S)
  BY DEF IsSequence
<1> DEFINE U == S \cup {vote}
           r == Append(table, vote)
<1>2. table \in Seq(U) /\ vote \in U
  BY <1>1
<1>3. r \in Seq(U) /\ Len(r) = Len(table) + 1 /\ Len(table) \in Nat /\ \A i \in 1..Len(table) : r[i] = table[i]
  BY <1>2
<1> HIDE DEF r, U
<1>4. ASSUME NEW n \in 0..Len(table)
      PROVE  SubSeq(r, 1, n) = SubSeq(table, 1, n)
  <2>1. SubSeq(table, 1, n) = [i \in 1..n |-> table[i]]
    BY <1>2
  <2>2. SubSeq(r, 1, n) = [i \in 1..n |-> r[i]]
    BY <1>3
  <2> QED
    BY <1>3, <2>1, <2>2
<1>5. SubSeq(r, 1, Len(r)) = r
  BY <1>3
<1> QED
  BY <1>3, <1>4, <1>5 DEF r, IsSequence

(* The votes that an import leaves are those that were there, and more. *)
LEMMA VotesMergedAre ==
  ASSUME NEW to, NEW from, IsSequence(to), IsSequence(from)
  PROVE  /\ IsSequence(VotesMerged(to, from))
         /\ Len(to) \in Nat /\ Len(VotesMerged(to, from)) \in Nat
         /\ Len(to) <= Len(VotesMerged(to, from))
         /\ \A n \in 0..Len(to) : SubSeq(VotesMerged(to, from), 1, n) = SubSeq(to, 1, n)
<1>1. ASSUME NEW table, IsSequence(table)
      PROVE  IsSequence(LoadVotes(table))
  <2>1. DOMAIN table = 1..Len(table) /\ Len(table) \in Nat
    BY <1>1 DEF IsSequence
  <2> QED
    BY <2>1, Listed DEF LoadVotes, ByTime
<1> DEFINE rows == Missing(LoadVotes(from), LoadVotes(to))
<1>2. IsSequence(rows)
  BY <1>1, MissingIsSequence
<1>3. VotesMerged(to, from) = to \o rows
  BY DEF VotesMerged, AddVotes
<1> HIDE DEF rows
<1> QED
  BY <1>2, <1>3, Joined

-----------------------------------------------------------------------------
(* What the steps do to a rating, the votes and the count that goes with it. *)

RatingIsOfVotes(lib, c, hash) ==
  LET rating == shared[lib][hash].rating[c]
      counted == SubSeq(votes[lib][c], 1, cast[lib][c][hash])
  IN  /\ rating.present <=> cast[lib][c][hash] > 0
      /\ rating.present => VotedOn(counted, hash) /\ rating.value = AverageOf(counted, hash)

(* As the code is, a rating is of the votes that were there when the song was last voted on. *)
RatingsAsCast == \A lib \in Libraries, c \in Categories : \A hash \in Known[lib] : RatingIsOfVotes(lib, c, hash)

LEMMA RatingsOneByOne ==
  RatingsAsCast <=> \A lib \in Libraries, c \in Categories : \A hash \in Known[lib] : RatingIsOfVotes(lib, c, hash)
BY DEF RatingsAsCast

LEMMA RatingsStill ==
  ASSUME \A lib \in Libraries, c \in Categories : \A hash \in Known[lib] : RatingIsOfVotes(lib, c, hash)'
  PROVE  RatingsAsCast'
BY DEF RatingsAsCast

LEMMA SameRating ==
  ASSUME NEW lib \in Libraries, NEW c \in Categories, NEW hash \in Known[lib], RatingIsOfVotes(lib, c, hash),
         shared'[lib][hash].rating[c] = shared[lib][hash].rating[c],
         cast'[lib][c][hash] = cast[lib][c][hash],
         SubSeq(votes'[lib][c], 1, cast[lib][c][hash]) = SubSeq(votes[lib][c], 1, cast[lib][c][hash])
  PROVE  RatingIsOfVotes(lib, c, hash)'
BY DEF RatingIsOfVotes

LEMMA SongIsVotedOn ==
  ASSUME NEW votesBefore, IsSequence(votesBefore), NEW time, NEW hash, NEW value
  PROVE  VotedOn(Append(votesBefore, [time |-> time, hash |-> hash, value |-> value]), hash)
<1> DEFINE vote == [time |-> time, hash |-> hash, value |-> value]
<1>1. vote.hash = hash
  OBVIOUS
<1>2. PICK S : votesBefore \in Seq(S)
  BY DEF IsSequence
<1> HIDE DEF vote
<1>3. votesBefore \in Seq(S \cup {vote})
  BY <1>2
<1>4. /\ Len(votesBefore) + 1 \in DOMAIN Append(votesBefore, vote)
      /\ Append(votesBefore, vote)[Len(votesBefore) + 1] = vote
  BY <1>3
<1>5. VotedOn(Append(votesBefore, vote), hash)
  BY <1>1, <1>4 DEF VotedOn
<1> QED
  BY <1>5 DEF vote

(* A song is voted on. *)
LEMMA VoteKeepsRatings ==
  ASSUME ExchangeTypes, RatingsAsCast,
         NEW lib \in Libraries, NEW c \in Categories, NEW hash \in Songs, NEW value, AddVote(lib, c, hash, value)
  PROVE  ExchangeTypes' /\ RatingsAsCast'
<1> USE LibraryExchangeAssumption
<1> DEFINE vote == [time |-> Tomorrow(lib), hash |-> hash, value |-> value]
           table == Append(votes[lib][c], vote)
           dated == Dated(AverageOf(table, hash), Tomorrow(lib))
<1>1. /\ day' = day + 1
      /\ votes' = [votes EXCEPT ![lib][c] = table]
      /\ IF hash \in Known[lib] THEN shared' = [shared EXCEPT ![lib][hash].rating[c] = dated] ELSE UNCHANGED shared
      /\ cast' = [cast EXCEPT ![lib][c][hash] = Len(table)]
  BY DEF AddVote, DayBegins
<1> HIDE DEF vote
<1>2. /\ IsSequence(table)
      /\ Len(votes[lib][c]) \in Nat /\ Len(table) = Len(votes[lib][c]) + 1
      /\ \A n \in 0..Len(votes[lib][c]) : SubSeq(table, 1, n) = SubSeq(votes[lib][c], 1, n)
      /\ SubSeq(table, 1, Len(table)) = table
  BY VoteAdded DEF ExchangeTypes
<1> HIDE DEF table, dated
<1>3. /\ DOMAIN votes' = Libraries
      /\ \A l \in Libraries : DOMAIN votes'[l] = Categories
      /\ votes'[lib][c] = table
      /\ \A l \in Libraries, k \in Categories : ~(l = lib /\ k = c) => votes'[l][k] = votes[l][k]
  BY <1>1 DEF ExchangeTypes
<1>4. /\ DOMAIN cast' = Libraries
      /\ \A l \in Libraries : DOMAIN cast'[l] = Categories
      /\ \A l \in Libraries, k \in Categories : DOMAIN cast'[l][k] = Songs
      /\ cast'[lib][c][hash] = Len(table)
      /\ \A l \in Libraries, k \in Categories, h \in Songs :
           ~(l = lib /\ k = c /\ h = hash) => cast'[l][k][h] = cast[l][k][h]
  BY <1>1 DEF ExchangeTypes
<1>5. /\ DOMAIN shared' = Libraries
      /\ \A l \in Libraries : DOMAIN shared'[l] = Known[l]
      /\ \A l \in Libraries : \A h \in Known[l] :
           /\ DOMAIN shared'[l][h] = {"manual", "lastPlayed", "rating"}
           /\ DOMAIN shared'[l][h].rating = Categories
           /\ \A k \in Categories :
                shared'[l][h].rating[k] = IF l = lib /\ h = hash /\ k = c THEN dated ELSE shared[l][h].rating[k]
  <2>1. CASE hash \in Known[lib]
    <3>1. shared' = [shared EXCEPT ![lib] = [shared[lib] EXCEPT ![hash] = [shared[lib][hash] EXCEPT !.rating =
                      [shared[lib][hash].rating EXCEPT ![c] = dated]]]]
      BY <1>1, <2>1
    <3>2. /\ DOMAIN shared' = Libraries
          /\ shared'[lib] = [shared[lib] EXCEPT ![hash] = [shared[lib][hash] EXCEPT !.rating =
                              [shared[lib][hash].rating EXCEPT ![c] = dated]]]
          /\ \A l \in Libraries : l # lib => shared'[l] = shared[l]
      BY <3>1 DEF ExchangeTypes
    <3>3. /\ DOMAIN shared'[lib] = Known[lib]
          /\ shared'[lib][hash] = [shared[lib][hash] EXCEPT !.rating = [shared[lib][hash].rating EXCEPT ![c] = dated]]
          /\ \A h \in Known[lib] : h # hash => shared'[lib][h] = shared[lib][h]
      BY <2>1, <3>2 DEF ExchangeTypes
    <3>4. /\ DOMAIN shared'[lib][hash] = {"manual", "lastPlayed", "rating"}
          /\ shared'[lib][hash].rating = [shared[lib][hash].rating EXCEPT ![c] = dated]
      BY <2>1, <3>3 DEF ExchangeTypes
    <3>5. ASSUME NEW l \in Libraries, NEW h \in Known[l]
          PROVE  /\ DOMAIN shared'[l][h] = {"manual", "lastPlayed", "rating"}
                 /\ DOMAIN shared'[l][h].rating = Categories
                 /\ \A k \in Categories :
                      shared'[l][h].rating[k] =
                        IF l = lib /\ h = hash /\ k = c THEN dated ELSE shared[l][h].rating[k]
      <4>1. CASE l = lib /\ h = hash
        BY <2>1, <3>4, <4>1 DEF ExchangeTypes
      <4>2. CASE ~(l = lib /\ h = hash)
        <5>1. shared'[l][h] = shared[l][h]
          BY <3>2, <3>3, <4>2
        <5> QED
          BY <4>2, <5>1 DEF ExchangeTypes
      <4> QED
        BY <4>1, <4>2
    <3>6. \A l \in Libraries : DOMAIN shared'[l] = Known[l]
      BY <3>2, <3>3 DEF ExchangeTypes
    <3> QED
      BY <3>2, <3>5, <3>6
  <2>2. CASE hash \notin Known[lib]
    <3>1. shared' = shared
      BY <1>1, <2>2
    <3>2. \A l \in Libraries : \A h \in Known[l] : ~(l = lib /\ h = hash)
      BY <2>2
    <3> QED
      BY <3>1, <3>2 DEF ExchangeTypes
  <2> QED
    BY <2>1, <2>2
<1>6. ExchangeTypes'
  <2>1. \A l \in Libraries, k \in Categories : IsSequence(votes'[l][k])
    BY <1>2, <1>3 DEF ExchangeTypes
  <2>2. \A l \in Libraries, k \in Categories, h \in Songs : cast'[l][k][h] \in 0..Len(votes'[l][k])
    <3> SUFFICES ASSUME NEW l \in Libraries, NEW k \in Categories, NEW h \in Songs
                 PROVE  cast'[l][k][h] \in 0..Len(votes'[l][k])
      OBVIOUS
    <3>1. Len(votes[l][k]) \in Nat /\ cast[l][k][h] \in 0..Len(votes[l][k])
      BY Joined DEF ExchangeTypes
    <3>2. votes'[l][k] = votes[l][k] \/ (l = lib /\ k = c /\ votes'[l][k] = table)
      BY <1>3
    <3>3. cast'[l][k][h] = cast[l][k][h] \/ (l = lib /\ k = c /\ cast'[l][k][h] = Len(table))
      BY <1>4
    <3>4. l = lib /\ k = c => votes'[l][k] = table
      BY <1>3
    <3>5. CASE l = lib /\ k = c
      <4>1. Len(votes'[l][k]) = Len(table) /\ Len(votes[l][k]) <= Len(table) /\ Len(table) \in Nat
        BY <1>2, <3>1, <3>4, <3>5
      <4> QED
        BY <3>1, <3>3, <4>1
    <3>6. CASE ~(l = lib /\ k = c)
      BY <3>1, <3>2, <3>3, <3>6
    <3> QED
      BY <3>5, <3>6
  <2>3. day' \in Nat
    BY <1>1 DEF ExchangeTypes
  <2> QED
    BY <1>3, <1>4, <1>5, <2>1, <2>2, <2>3 DEF ExchangeTypes
<1>7. ASSUME NEW l \in Libraries, NEW k \in Categories, NEW h \in Known[l]
      PROVE  RatingIsOfVotes(l, k, h)'
  <2>1. h \in Songs
    BY KnownSongs
  <2>2. CASE l = lib /\ h = hash /\ k = c
    <3>1. shared'[l][h].rating[k] = dated /\ cast'[l][k][h] = Len(table) /\ votes'[l][k] = table
      BY <1>3, <1>4, <1>5, <2>2
    <3>2. dated.present = TRUE /\ dated.value = AverageOf(table, hash)
      BY DEF dated, Dated
    <3>3. Len(table) > 0
      BY <1>2
    <3>4. VotedOn(table, hash)
      BY SongIsVotedOn DEF ExchangeTypes, table, vote
    <3> QED
      BY <1>2, <2>2, <3>1, <3>2, <3>3, <3>4 DEF RatingIsOfVotes
  <2>3. CASE ~(l = lib /\ h = hash /\ k = c)
    <3>1. shared'[l][h].rating[k] = shared[l][h].rating[k] /\ cast'[l][k][h] = cast[l][k][h]
      BY <1>4, <1>5, <2>1, <2>3
    <3>2. cast[l][k][h] \in 0..Len(votes[l][k])
      BY <2>1 DEF ExchangeTypes
    <3>3. SubSeq(votes'[l][k], 1, cast[l][k][h]) = SubSeq(votes[l][k], 1, cast[l][k][h])
      BY <1>2, <1>3, <3>2
    <3>4. RatingIsOfVotes(l, k, h)
      BY RatingsOneByOne
    <3> QED
      BY <3>1, <3>3, <3>4, SameRating
  <2> QED
    BY <2>2, <2>3
<1>8. RatingsAsCast'
  BY <1>7, RatingsStill
<1> QED
  BY <1>6, <1>8

(* Every other step leaves the ratings alone, and of the votes the first ones. *)
LEMMA RatingsKept ==
  ASSUME ExchangeTypes, RatingsAsCast,
         day' \in Nat, cast' = cast,
         DOMAIN shared' = Libraries, \A lib \in Libraries : DOMAIN shared'[lib] = Known[lib],
         \A lib \in Libraries : \A hash \in Known[lib] :
           /\ DOMAIN shared'[lib][hash] = {"manual", "lastPlayed", "rating"}
           /\ DOMAIN shared'[lib][hash].rating = Categories
           /\ \A c \in Categories : shared'[lib][hash].rating[c] = shared[lib][hash].rating[c],
         DOMAIN votes' = Libraries, \A lib \in Libraries : DOMAIN votes'[lib] = Categories,
         \A lib \in Libraries, c \in Categories :
           /\ IsSequence(votes'[lib][c])
           /\ Len(votes[lib][c]) \in Nat /\ Len(votes'[lib][c]) \in Nat
           /\ Len(votes[lib][c]) <= Len(votes'[lib][c])
           /\ \A n \in 0..Len(votes[lib][c]) : SubSeq(votes'[lib][c], 1, n) = SubSeq(votes[lib][c], 1, n)
  PROVE  ExchangeTypes' /\ RatingsAsCast'
<1>1. \A lib \in Libraries, c \in Categories, hash \in Songs : cast[lib][c][hash] \in 0..Len(votes[lib][c])
  BY DEF ExchangeTypes
<1>2. \A lib \in Libraries, c \in Categories, hash \in Songs : cast'[lib][c][hash] \in 0..Len(votes'[lib][c])
  BY <1>1
<1>3. ExchangeTypes'
  BY <1>2 DEF ExchangeTypes
<1>4. ASSUME NEW lib \in Libraries, NEW c \in Categories, NEW hash \in Known[lib]
      PROVE  RatingIsOfVotes(lib, c, hash)'
  <2>1. hash \in Songs
    BY KnownSongs
  <2>2. SubSeq(votes'[lib][c], 1, cast[lib][c][hash]) = SubSeq(votes[lib][c], 1, cast[lib][c][hash])
    BY <1>1, <2>1
  <2>3. RatingIsOfVotes(lib, c, hash)
    BY RatingsOneByOne
  <2> QED
    BY <2>2, <2>3, SameRating
<1>5. RatingsAsCast'
  BY <1>4, RatingsStill
<1> QED
  BY <1>3, <1>5

LEMMA VotesUntouched ==
  ASSUME ExchangeTypes, votes' = votes
  PROVE  /\ DOMAIN votes' = Libraries /\ \A lib \in Libraries : DOMAIN votes'[lib] = Categories
         /\ \A lib \in Libraries, c \in Categories :
              /\ IsSequence(votes'[lib][c])
              /\ Len(votes[lib][c]) \in Nat /\ Len(votes'[lib][c]) \in Nat
              /\ Len(votes[lib][c]) <= Len(votes'[lib][c])
              /\ \A n \in 0..Len(votes[lib][c]) : SubSeq(votes'[lib][c], 1, n) = SubSeq(votes[lib][c], 1, n)
BY Joined DEF ExchangeTypes

(* A value of a song is set or cleared. *)
LEMMA OneValueSet ==
  ASSUME ExchangeTypes, NEW lib \in Libraries, NEW hash \in Known[lib], NEW value,
         \/ shared' = [shared EXCEPT ![lib][hash].manual = value]
         \/ shared' = [shared EXCEPT ![lib][hash].lastPlayed = value]
  PROVE  /\ DOMAIN shared' = Libraries
         /\ \A l \in Libraries : DOMAIN shared'[l] = Known[l]
         /\ \A l \in Libraries : \A h \in Known[l] :
              /\ DOMAIN shared'[l][h] = {"manual", "lastPlayed", "rating"}
              /\ shared'[l][h].rating = shared[l][h].rating
              /\ ~(l = lib /\ h = hash) => shared'[l][h] = shared[l][h]
<1>1. PICK new : /\ shared' = [shared EXCEPT ![lib] = [shared[lib] EXCEPT ![hash] = new]]
                 /\ DOMAIN new = {"manual", "lastPlayed", "rating"}
                 /\ new.rating = shared[lib][hash].rating
  <2> DEFINE old == shared[lib][hash]
             played == [old EXCEPT !.lastPlayed = value]
             tagged == [old EXCEPT !.manual = value]
  <2>1. DOMAIN old = {"manual", "lastPlayed", "rating"}
    BY DEF ExchangeTypes
  <2>2. \/ shared' = [shared EXCEPT ![lib] = [shared[lib] EXCEPT ![hash] = tagged]]
        \/ shared' = [shared EXCEPT ![lib] = [shared[lib] EXCEPT ![hash] = played]]
    OBVIOUS
  <2> HIDE DEF old
  <2>3. /\ DOMAIN played = {"manual", "lastPlayed", "rating"} /\ played.rating = old.rating
        /\ DOMAIN tagged = {"manual", "lastPlayed", "rating"} /\ tagged.rating = old.rating
    BY <2>1
  <2> QED
    BY <2>2, <2>3 DEF old
<1>2. /\ DOMAIN shared' = Libraries
      /\ shared'[lib] = [shared[lib] EXCEPT ![hash] = new]
      /\ \A l \in Libraries : l # lib => shared'[l] = shared[l]
  BY <1>1 DEF ExchangeTypes
<1>3. /\ DOMAIN shared'[lib] = Known[lib]
      /\ shared'[lib][hash] = new
      /\ \A h \in Known[lib] : h # hash => shared'[lib][h] = shared[lib][h]
  BY <1>2 DEF ExchangeTypes
<1>4. \A l \in Libraries : DOMAIN shared'[l] = Known[l]
  BY <1>2, <1>3 DEF ExchangeTypes
<1>5. \A l \in Libraries : \A h \in Known[l] :
        shared'[l][h] = IF l = lib /\ h = hash THEN new ELSE shared[l][h]
  BY <1>2, <1>3
<1> QED
  BY <1>1, <1>2, <1>4, <1>5 DEF ExchangeTypes

(* The average that an import computes has no date, and so it never counts. *)
LEMMA ImportedRating ==
  ASSUME NEW own, NEW table, NEW hash
  PROVE  UpdatedIfNewer(own, AverageVotes(table, hash)) = own
<1>1. AverageVotes(table, hash).date = 0
  BY DEF AverageVotes, Dated, Unset
<1> QED
  BY <1>1 DEF UpdatedIfNewer

ManualMerged(own, other, options) ==
  IF "manualTag" \in options THEN UpdatedIfNewer(own.manual, Reloaded(other.manual)) ELSE own.manual

LastPlayedMerged(own, other, options) ==
  IF "lastPlayedDate" \in options THEN UpdatedIfNewer(own.lastPlayed, Reloaded(other.lastPlayed)) ELSE own.lastPlayed

LEMMA SharedMergedIs ==
  ASSUME NEW ours, NEW theirs, NEW options, NEW table, NEW hash \in DOMAIN ours
  PROVE  LET after == SharedMerged(ours, theirs, options, table)[hash]
         IN  /\ DOMAIN after = {"manual", "lastPlayed", "rating"}
             /\ DOMAIN after.rating = Categories
             /\ \A c \in Categories : after.rating[c] = ours[hash].rating[c]
             /\ after.manual = IF hash \in DOMAIN theirs THEN ManualMerged(ours[hash], theirs[hash], options)
                                                         ELSE ours[hash].manual
             /\ after.lastPlayed = IF hash \in DOMAIN theirs THEN LastPlayedMerged(ours[hash], theirs[hash], options)
                                                             ELSE ours[hash].lastPlayed
<1> DEFINE own == ours[hash]
           both == hash \in DOMAIN theirs
           manual == IF both /\ "manualTag" \in options
                     THEN UpdatedIfNewer(own.manual, Reloaded(theirs[hash].manual)) ELSE own.manual
           lastPlayed == IF both /\ "lastPlayedDate" \in options
                         THEN UpdatedIfNewer(own.lastPlayed, Reloaded(theirs[hash].lastPlayed)) ELSE own.lastPlayed
           rating == [c \in Categories |->
                       IF "communityRating" \in options
                       THEN UpdatedIfNewer(own.rating[c], AverageVotes(table, hash)) ELSE own.rating[c]]
           after == [manual |-> manual, lastPlayed |-> lastPlayed, rating |-> rating]
<1>1. SharedMerged(ours, theirs, options, table)[hash] = after
  BY DEF SharedMerged
<1>2. \A c \in Categories : rating[c] = own.rating[c]
  BY ImportedRating
<1>3. DOMAIN rating = Categories
  OBVIOUS
<1>4. manual = IF both THEN ManualMerged(own, theirs[hash], options) ELSE own.manual
  BY DEF ManualMerged
<1>5. lastPlayed = IF both THEN LastPlayedMerged(own, theirs[hash], options) ELSE own.lastPlayed
  BY DEF LastPlayedMerged
<1> HIDE DEF manual, lastPlayed, rating
<1>6. /\ DOMAIN after = {"manual", "lastPlayed", "rating"}
      /\ after.manual = manual /\ after.lastPlayed = lastPlayed /\ after.rating = rating
  OBVIOUS
<1> QED
  BY <1>1, <1>2, <1>3, <1>4, <1>5, <1>6

LEMMA ImportedAre ==
  ASSUME ExchangeTypes, NEW to \in Libraries, NEW from \in Libraries, NEW options, Import(to, from, options)
  PROVE  /\ DOMAIN shared' = Libraries
         /\ \A l \in Libraries : DOMAIN shared'[l] = Known[l]
         /\ \A l \in Libraries : l # to => shared'[l] = shared[l]
         /\ \A h \in Known[to] :
              /\ DOMAIN shared'[to][h] = {"manual", "lastPlayed", "rating"}
              /\ DOMAIN shared'[to][h].rating = Categories
              /\ \A c \in Categories : shared'[to][h].rating[c] = shared[to][h].rating[c]
              /\ shared'[to][h].manual = IF h \in Known[from] THEN ManualMerged(shared[to][h], shared[from][h], options)
                                                              ELSE shared[to][h].manual
              /\ shared'[to][h].lastPlayed =
                   IF h \in Known[from] THEN LastPlayedMerged(shared[to][h], shared[from][h], options)
                                        ELSE shared[to][h].lastPlayed
<1>1. PICK table : shared' = [shared EXCEPT ![to] = SharedMerged(shared[to], shared[from], options, table)]
  BY DEF Import
<1>2. /\ DOMAIN shared' = Libraries
      /\ shared'[to] = SharedMerged(shared[to], shared[from], options, table)
      /\ \A l \in Libraries : l # to => shared'[l] = shared[l]
  BY <1>1 DEF ExchangeTypes
<1>3. DOMAIN shared[to] = Known[to] /\ DOMAIN shared[from] = Known[from]
  BY DEF ExchangeTypes
<1>4. DOMAIN SharedMerged(shared[to], shared[from], options, table) = Known[to]
  BY <1>3 DEF SharedMerged
<1>5. \A l \in Libraries : DOMAIN shared'[l] = Known[l]
  BY <1>2, <1>4 DEF ExchangeTypes
<1> QED
  BY <1>2, <1>3, <1>5, SharedMergedIs

LEMMA ImportKeepsRatings ==
  ASSUME ExchangeTypes, RatingsAsCast,
         NEW to \in Libraries, NEW from \in Libraries, NEW options, Import(to, from, options)
  PROVE  ExchangeTypes' /\ RatingsAsCast'
<1> DEFINE merged == [c \in Categories |-> VotesMerged(votes[to][c], votes[from][c])]
<1>1. day' \in Nat /\ cast' = cast
  BY DEF Import, ExchangeTypes
<1>2. votes' = [votes EXCEPT ![to] = merged] \/ votes' = [votes EXCEPT ![to] = votes[to]]
  BY DEF Import
<1>3. \A lib \in Libraries, c \in Categories : IsSequence(votes[lib][c]) /\ Len(votes[lib][c]) \in Nat
  BY Joined DEF ExchangeTypes
<1>4. ASSUME NEW c \in Categories
      PROVE  /\ merged[c] = VotesMerged(votes[to][c], votes[from][c])
             /\ IsSequence(merged[c]) /\ Len(merged[c]) \in Nat /\ Len(votes[to][c]) <= Len(merged[c])
             /\ \A n \in 0..Len(votes[to][c]) : SubSeq(merged[c], 1, n) = SubSeq(votes[to][c], 1, n)
  <2>1. merged[c] = VotesMerged(votes[to][c], votes[from][c])
    OBVIOUS
  <2> QED
    BY <1>3, <2>1, VotesMergedAre
<1>5. DOMAIN merged = Categories
  OBVIOUS
<1> HIDE DEF merged
<1>6. /\ DOMAIN votes' = Libraries
      /\ \A lib \in Libraries : lib # to => votes'[lib] = votes[lib]
      /\ votes'[to] = merged \/ votes'[to] = votes[to]
  BY <1>2 DEF ExchangeTypes
<1>7. \A lib \in Libraries : DOMAIN votes'[lib] = Categories
  BY <1>5, <1>6 DEF ExchangeTypes
<1>8. ASSUME NEW lib \in Libraries, NEW c \in Categories
      PROVE  /\ IsSequence(votes'[lib][c])
             /\ Len(votes[lib][c]) \in Nat /\ Len(votes'[lib][c]) \in Nat
             /\ Len(votes[lib][c]) <= Len(votes'[lib][c])
             /\ \A n \in 0..Len(votes[lib][c]) : SubSeq(votes'[lib][c], 1, n) = SubSeq(votes[lib][c], 1, n)
  <2>1. CASE votes'[lib] = votes[lib]
    BY <1>3, <2>1
  <2>2. CASE lib = to /\ votes'[to] = merged
    BY <1>3, <1>4, <2>2
  <2> QED
    BY <1>6, <2>1, <2>2
<1>9. \A lib \in Libraries : \A hash \in Known[lib] :
        /\ DOMAIN shared'[lib][hash] = {"manual", "lastPlayed", "rating"}
        /\ DOMAIN shared'[lib][hash].rating = Categories
        /\ \A c \in Categories : shared'[lib][hash].rating[c] = shared[lib][hash].rating[c]
  <2>1. ASSUME NEW lib \in Libraries, NEW hash \in Known[lib], lib # to
        PROVE  shared'[lib][hash] = shared[lib][hash]
    BY <2>1, ImportedAre
  <2> QED
    BY <2>1, ImportedAre DEF ExchangeTypes
<1>10. DOMAIN shared' = Libraries /\ \A lib \in Libraries : DOMAIN shared'[lib] = Known[lib]
  BY ImportedAre
<1> QED
  BY <1>1, <1>6, <1>7, <1>8, <1>9, <1>10, RatingsKept

(* A step that sets or clears a value of a song has nothing to do with the votes. *)
LEMMA ValueKeepsRatings ==
  ASSUME ExchangeTypes, RatingsAsCast, NEW lib \in Libraries, NEW hash \in Known[lib], NEW value,
         \/ shared' = [shared EXCEPT ![lib][hash].manual = value]
         \/ shared' = [shared EXCEPT ![lib][hash].lastPlayed = value],
         day' \in Nat, cast' = cast, votes' = votes
  PROVE  ExchangeTypes' /\ RatingsAsCast'
<1>1. /\ DOMAIN shared' = Libraries
      /\ \A l \in Libraries : DOMAIN shared'[l] = Known[l]
      /\ \A l \in Libraries : \A h \in Known[l] :
           DOMAIN shared'[l][h] = {"manual", "lastPlayed", "rating"} /\ shared'[l][h].rating = shared[l][h].rating
  BY OneValueSet
<1>2. \A l \in Libraries : \A h \in Known[l] :
        /\ DOMAIN shared'[l][h] = {"manual", "lastPlayed", "rating"}
        /\ DOMAIN shared'[l][h].rating = Categories
        /\ \A c \in Categories : shared'[l][h].rating[c] = shared[l][h].rating[c]
  BY <1>1 DEF ExchangeTypes
<1> QED
  BY <1>1, <1>2, VotesUntouched, RatingsKept

LEMMA NothingKeepsRatings ==
  ASSUME ExchangeTypes, RatingsAsCast, day' \in Nat, cast' = cast, votes' = votes, shared' = shared
  PROVE  ExchangeTypes' /\ RatingsAsCast'
BY DEF ExchangeTypes, RatingsAsCast, RatingIsOfVotes

LEMMA RatingsInductive ==
  ExchangeTypes /\ RatingsAsCast /\ [Next]_exchangeVars => ExchangeTypes' /\ RatingsAsCast'
<1> SUFFICES ASSUME ExchangeTypes, RatingsAsCast, [Next]_exchangeVars
             PROVE  ExchangeTypes' /\ RatingsAsCast'
  OBVIOUS
<1>1. ASSUME NEW lib \in Libraries, NEW hash \in Songs, SongPlaybackStarted(lib, hash)
      PROVE  ExchangeTypes' /\ RatingsAsCast'
  <2>1. /\ hash \in Known[lib]
        /\ shared' = [shared EXCEPT ![lib][hash].lastPlayed = Dated(Tomorrow(lib), Tomorrow(lib))]
        /\ day' \in Nat /\ cast' = cast /\ votes' = votes
    BY <1>1 DEF SongPlaybackStarted, DayBegins, ExchangeTypes
  <2> QED
    BY <2>1, ValueKeepsRatings
<1>2. ASSUME NEW lib \in Libraries, NEW hash \in Songs, RemoveSong(lib, hash)
      PROVE  ExchangeTypes' /\ RatingsAsCast'
  <2>1. day' \in Nat /\ cast' = cast /\ votes' = votes /\ shared' = shared
    BY <1>2 DEF RemoveSong, DayBegins, ExchangeTypes
  <2> QED
    BY <2>1, NothingKeepsRatings
<1>3. ASSUME NEW lib \in Libraries, NEW hash \in Songs, ClearManual(lib, hash)
      PROVE  ExchangeTypes' /\ RatingsAsCast'
  <2>1. /\ hash \in Known[lib]
        /\ shared' = [shared EXCEPT ![lib][hash].manual = Cleared(shared[lib][hash].manual)]
        /\ day' \in Nat /\ cast' = cast /\ votes' = votes
    BY <1>3 DEF ClearManual, DayBegins, ExchangeTypes
  <2> QED
    BY <2>1, ValueKeepsRatings
<1>4. ASSUME NEW lib \in Libraries, NEW hash \in Songs, NEW value \in Values, SetManual(lib, hash, value)
      PROVE  ExchangeTypes' /\ RatingsAsCast'
  <2>1. /\ hash \in Known[lib]
        /\ shared' = [shared EXCEPT ![lib][hash].manual = Dated(value, Tomorrow(lib))]
        /\ day' \in Nat /\ cast' = cast /\ votes' = votes
    BY <1>4 DEF SetManual, DayBegins, ExchangeTypes
  <2> QED
    BY <2>1, ValueKeepsRatings
<1>5. ASSUME NEW lib \in Libraries, NEW hash \in Songs, NEW value \in Values, NEW c \in Categories,
             AddVote(lib, c, hash, value)
      PROVE  ExchangeTypes' /\ RatingsAsCast'
  BY <1>5, VoteKeepsRatings
<1>6. ASSUME NEW lib \in Libraries, ClearRemovedSongs(lib)
      PROVE  ExchangeTypes' /\ RatingsAsCast'
  <2>1. day' \in Nat /\ cast' = cast /\ votes' = votes /\ shared' = shared
    BY <1>6 DEF ClearRemovedSongs, ExchangeTypes
  <2> QED
    BY <2>1, NothingKeepsRatings
<1>7. ASSUME NEW lib \in Libraries, NEW from \in Libraries \ {lib}, NEW options \in OptionSets,
             Import(lib, from, options)
      PROVE  ExchangeTypes' /\ RatingsAsCast'
  BY <1>7, ImportKeepsRatings
<1>8. CASE UNCHANGED exchangeVars
  <2>1. day' \in Nat /\ cast' = cast /\ votes' = votes /\ shared' = shared
    BY <1>8 DEF exchangeVars, ExchangeTypes
  <2> QED
    BY <2>1, NothingKeepsRatings
<1> QED
  BY <1>1, <1>2, <1>3, <1>4, <1>5, <1>6, <1>7, <1>8 DEF Next

LEMMA RatingsInit == Init => RatingsAsCast
<1> SUFFICES ASSUME Init, NEW lib \in Libraries, NEW c \in Categories, NEW hash \in Known[lib]
             PROVE  RatingIsOfVotes(lib, c, hash)
  BY RatingsOneByOne
<1>1. hash \in Songs
  BY KnownSongs
<1>2. cast[lib][c][hash] = 0
  BY <1>1 DEF Init
<1>3. shared[lib][hash].rating[c] = Unset
  BY DEF Init
<1> QED
  BY <1>2, <1>3 DEF RatingIsOfVotes, Unset

LEMMA CastAreOfVotes ==
  ASSUME ExchangeTypes, RatingsAsCast
  PROVE  RatingsAreOfVotes
<1> SUFFICES ASSUME NEW lib \in Libraries, NEW c \in Categories, NEW hash \in Known[lib]
             PROVE  /\ cast[lib][c][hash] > 0 => shared[lib][hash].rating[c].present
                    /\ shared[lib][hash].rating[c].present =>
                         \E n \in cast[lib][c][hash]..Len(votes[lib][c]) :
                           /\ VotedOn(SubSeq(votes[lib][c], 1, n), hash)
                           /\ shared[lib][hash].rating[c].value = AverageOf(SubSeq(votes[lib][c], 1, n), hash)
  BY DEF RatingsAreOfVotes
<1>1. hash \in Songs
  BY KnownSongs
<1>2. cast[lib][c][hash] \in 0..Len(votes[lib][c]) /\ Len(votes[lib][c]) \in Nat
  BY <1>1, Joined DEF ExchangeTypes
<1>3. cast[lib][c][hash] \in cast[lib][c][hash]..Len(votes[lib][c])
  BY <1>2
<1>4. RatingIsOfVotes(lib, c, hash)
  BY DEF RatingsAsCast
<1> QED
  BY <1>3, <1>4 DEF RatingIsOfVotes

(***************************************************************************)
(* A rating by the community is the average of this library's own votes on *)
(* this question, with none of them forgotten since the song was last      *)
(* voted on (src/src/DB/DatabaseImport.cpp:136), for any libraries that    *)
(* import from each other in any order.                                    *)
(***************************************************************************)
THEOREM RatingsAlwaysOfVotes == Spec => []RatingsAreOfVotes
<1>1. Init => ExchangeTypes
  BY InitTypes
<1>2. Init => RatingsAsCast
  BY RatingsInit
<1>3. ExchangeTypes /\ RatingsAsCast => RatingsAreOfVotes
  BY CastAreOfVotes
<1> QED
  BY <1>1, <1>2, <1>3, RatingsInductive, PTL DEF Spec

-----------------------------------------------------------------------------
(* How many rows a table has of a moment. *)
LEMMA CountsOf ==
  ASSUME NEW s, IsSequence(s), NEW x
  PROVE  /\ DOMAIN s = 1..Len(s) /\ Len(s) \in Nat
         /\ IsFiniteSet({i \in DOMAIN s : s[i].time = x})
         /\ CountAt(s, x) \in Nat
         /\ CountAt(s, x) > 0 <=> x \in Times(s)
<1> DEFINE A == {i \in DOMAIN s : s[i].time = x}
<1>1. DOMAIN s = 1..Len(s) /\ Len(s) \in Nat
  BY DEF IsSequence
<1>2. IsFiniteSet(DOMAIN s)
  BY <1>1, FS_Interval
<1>3. A \in SUBSET DOMAIN s
  OBVIOUS
<1>4. IsFiniteSet(A)
  BY <1>2, <1>3, FS_Subset
<1>5. Cardinality(A) \in Nat /\ (Cardinality(A) = 0 <=> A = {})
  BY <1>4, FS_CardinalityType, FS_EmptySet
<1>6. A # {} <=> x \in Times(s)
  BY DEF Times
<1>7. CountAt(s, x) = Cardinality(A)
  BY DEF CountAt
<1> HIDE DEF A
<1>8. CountAt(s, x) \in Nat /\ (CountAt(s, x) > 0 <=> x \in Times(s))
  BY <1>5, <1>6, <1>7
<1> QED
  BY <1>1, <1>4, <1>8 DEF A

(* The rows of a list that is appended to another are counted on top of that one's. *)
LEMMA CountsAdd ==
  ASSUME NEW s, NEW t, IsSequence(s), IsSequence(t), NEW x
  PROVE  CountAt(s \o t, x) = CountAt(s, x) + CountAt(t, x)
<1>1. PICK S : s \in Seq(S)
  BY DEF IsSequence
<1>2. PICK T : t \in Seq(T)
  BY DEF IsSequence
<1> DEFINE m == Len(s)
           n == Len(t)
           r == s \o t
           A == {i \in DOMAIN s : s[i].time = x}
           B == {i \in DOMAIN t : t[i].time = x}
           C == {i \in DOMAIN r : r[i].time = x}
           D == {i \in (m + 1)..(m + n) : r[i].time = x}
           f == [i \in B |-> i + m]
<1>3. s \in Seq(S \cup T) /\ t \in Seq(S \cup T)
  BY <1>1, <1>2
<1>4. /\ DOMAIN r = 1..(m + n) /\ m \in Nat /\ n \in Nat /\ DOMAIN s = 1..m /\ DOMAIN t = 1..n
      /\ \A i \in 1..m : r[i] = s[i]
      /\ \A i \in 1..n : r[i + m] = t[i]
  <2>1. r \in Seq(S \cup T) /\ Len(r) = m + n
    BY <1>3
  <2>2. m \in Nat /\ n \in Nat /\ DOMAIN s = 1..m /\ DOMAIN t = 1..n
    BY <1>3
  <2>3. \A i \in 1..m : r[i] = s[i]
    BY <1>3
  <2>4. \A i \in 1..n : r[i + m] = t[i]
    BY <1>3
  <2> QED
    BY <2>1, <2>2, <2>3, <2>4
<1> HIDE DEF r, m, n
<1>5. f \in Bijection(B, D)
  <2>1. \A i \in B : i + m \in D
    BY <1>4
  <2>2. f \in [B -> D]
    BY <2>1
  <2>3. ASSUME NEW a \in B, NEW b \in B, f[a] = f[b]
        PROVE  a = b
    BY <1>4, <2>3
  <2>4. ASSUME NEW d \in D
        PROVE  \E b \in B : f[b] = d
    <3>1. d - m \in 1..n /\ (d - m) + m = d
      BY <1>4
    <3>2. d - m \in B
      BY <1>4, <3>1
    <3> QED
      BY <3>1, <3>2
  <2> QED
    BY <2>2, <2>3, <2>4 DEF Bijection, Injection, Surjection, IsInjective
<1>6. IsFiniteSet(A) /\ IsFiniteSet(B) /\ Cardinality(A) \in Nat /\ Cardinality(B) \in Nat
  <2>1. IsFiniteSet(A) /\ CountAt(s, x) \in Nat
    BY CountsOf
  <2>2. IsFiniteSet(B) /\ CountAt(t, x) \in Nat
    BY CountsOf
  <2> QED
    BY <2>1, <2>2 DEF CountAt
<1>7. IsFiniteSet(D) /\ Cardinality(D) = Cardinality(B)
  BY <1>5, <1>6, FS_Bijection DEF ExistsBijection
<1>8. C = A \cup D
  <2>1. ASSUME NEW i \in C
        PROVE  i \in A \/ i \in D
    <3>1. i \in 1..(m + n) /\ r[i].time = x
      BY <1>4
    <3>2. CASE i \in 1..m
      BY <1>4, <3>1, <3>2
    <3>3. CASE i \in (m + 1)..(m + n)
      BY <3>1, <3>3
    <3> QED
      BY <1>4, <3>1, <3>2, <3>3
  <2>2. \A i \in A : i \in C
    BY <1>4
  <2>3. \A i \in D : i \in C
    BY <1>4
  <2> QED
    BY <2>1, <2>2, <2>3
<1>9. A \cap D = {}
  BY <1>4
<1> HIDE DEF A, B, C, D
<1>10. Cardinality(A \cup D) = Cardinality(A) + Cardinality(D) - Cardinality(A \cap D) /\ Cardinality(A \cap D) = 0
  BY <1>6, <1>7, <1>9, FS_Union, FS_EmptySet
<1>11. Cardinality(C) = Cardinality(A) + Cardinality(B)
  BY <1>6, <1>7, <1>8, <1>10
<1> QED
  BY <1>11 DEF CountAt, A, B, C, r

LEMMA OneRow ==
  ASSUME NEW row, NEW time
  PROVE  IsSequence(<<row>>) /\ CountAt(<<row>>, time) = IF row.time = time THEN 1 ELSE 0
<1>1. <<row>> \in Seq({row}) /\ DOMAIN <<row>> = {1} /\ <<row>>[1] = row
  OBVIOUS
<1>2. {k \in DOMAIN <<row>> : <<row>>[k].time = time} = IF row.time = time THEN {1} ELSE {}
  BY <1>1
<1>3. Cardinality({1}) = 1 /\ Cardinality({}) = 0
  BY FS_EmptySet, FS_Singleton
<1> QED
  BY <1>1, <1>2, <1>3 DEF CountAt, IsSequence

-----------------------------------------------------------------------------
(* The sort by times: the rows in another order. *)
IsBefore(table, i, j) == table[i].time < table[j].time \/ (table[i].time = table[j].time /\ i < j)

PlaceOf(table, i) == 1 + Cardinality({j \in DOMAIN table : IsBefore(table, j, i)})

IsTimed(table) == \E S : table \in Seq(S) /\ \A row \in S : row.time \in Nat

InTimeOrder(table) == \A i, j \in DOMAIN table : i < j => table[i].time <= table[j].time

LEMMA TimesOf ==
  ASSUME NEW table, IsTimed(table)
  PROVE  /\ IsSequence(table) /\ Len(table) \in Nat /\ DOMAIN table = 1..Len(table)
         /\ \A i \in DOMAIN table : table[i].time \in Nat
<1>1. PICK S : table \in Seq(S) /\ \A row \in S : row.time \in Nat
  BY DEF IsTimed
<1>2. IsSequence(table)
  BY <1>1 DEF IsSequence
<1>3. Len(table) \in Nat /\ DOMAIN table = 1..Len(table) /\ \A i \in DOMAIN table : table[i] \in S
  BY <1>1
<1> QED
  BY <1>1, <1>2, <1>3

(* Which row is before which: the places are all different, and as many as there are rows. *)
LEMMA PlacesAre ==
  ASSUME NEW table, IsTimed(table)
  PROVE  /\ \A i \in DOMAIN table : PlaceOf(table, i) \in DOMAIN table
         /\ \A i, j \in DOMAIN table : IsBefore(table, i, j) => PlaceOf(table, i) < PlaceOf(table, j)
         /\ \A i, j \in DOMAIN table : i = j \/ IsBefore(table, i, j) \/ IsBefore(table, j, i)
<1> DEFINE Earlier(i) == {k \in DOMAIN table : IsBefore(table, k, i)}
<1>1. /\ Len(table) \in Nat /\ DOMAIN table = 1..Len(table)
      /\ \A i \in DOMAIN table : table[i].time \in Nat
  BY TimesOf
<1>2. IsFiniteSet(DOMAIN table) /\ Cardinality(DOMAIN table) = Len(table)
  BY <1>1, FS_Interval
<1>3. \A i \in DOMAIN table : i \notin Earlier(i)
  BY <1>1 DEF IsBefore
<1>4. ASSUME NEW i \in DOMAIN table
      PROVE  IsFiniteSet(Earlier(i)) /\ Cardinality(Earlier(i)) \in Nat /\ Cardinality(Earlier(i)) < Len(table)
  <2>1. Earlier(i) \in SUBSET DOMAIN table /\ i \notin Earlier(i)
    BY <1>3
  <2> HIDE DEF Earlier
  <2>2. IsFiniteSet(Earlier(i)) /\ Cardinality(Earlier(i)) <= Len(table)
    BY <1>2, <2>1, FS_Subset
  <2>3. Cardinality(Earlier(i)) # Len(table)
    BY <1>2, <2>1, FS_Subset
  <2>4. Cardinality(Earlier(i)) \in Nat
    BY <2>2, FS_CardinalityType
  <2> QED
    BY <1>1, <2>2, <2>3, <2>4
<1>5. \A i \in DOMAIN table : PlaceOf(table, i) = 1 + Cardinality(Earlier(i))
  BY DEF PlaceOf
<1>6. \A i, j \in DOMAIN table : i = j \/ IsBefore(table, i, j) \/ IsBefore(table, j, i)
  BY <1>1 DEF IsBefore
<1>7. ASSUME NEW i \in DOMAIN table, NEW j \in DOMAIN table, IsBefore(table, i, j)
      PROVE  Cardinality(Earlier(i)) < Cardinality(Earlier(j))
  <2>1. ASSUME NEW k \in Earlier(i)
        PROVE  k \in Earlier(j)
    BY <1>1, <1>7 DEF IsBefore
  <2>2. i \in Earlier(j) /\ i \notin Earlier(i)
    BY <1>3, <1>7
  <2> HIDE DEF Earlier
  <2>3. Earlier(i) \in SUBSET Earlier(j)
    BY <2>1
  <2>4. Cardinality(Earlier(i)) <= Cardinality(Earlier(j)) /\ Cardinality(Earlier(i)) # Cardinality(Earlier(j))
    BY <1>4, <2>2, <2>3, FS_Subset
  <2> QED
    BY <1>4, <2>4
<1> HIDE DEF Earlier
<1>8. \A i \in DOMAIN table : PlaceOf(table, i) \in DOMAIN table
  BY <1>1, <1>4, <1>5
<1>9. \A i, j \in DOMAIN table : IsBefore(table, i, j) => PlaceOf(table, i) < PlaceOf(table, j)
  BY <1>4, <1>5, <1>7
<1> QED
  BY <1>6, <1>8, <1>9

(* Which row stands at which place. *)
LEMMA PlacesTaken ==
  ASSUME NEW table, IsTimed(table)
  PROVE  \E g \in Bijection(DOMAIN table, DOMAIN table) :
           /\ ByTime(table) = [n \in DOMAIN table |-> table[g[n]]]
           /\ \A n \in DOMAIN table : PlaceOf(table, g[n]) = n
<1> DEFINE D == DOMAIN table
           p == [i \in D |-> PlaceOf(table, i)]
           g == [n \in D |-> CHOOSE i \in D : PlaceOf(table, i) = n]
<1>1. /\ \A i \in D : PlaceOf(table, i) \in D
      /\ \A i, j \in D : IsBefore(table, i, j) => PlaceOf(table, i) < PlaceOf(table, j)
      /\ \A i, j \in D : i = j \/ IsBefore(table, i, j) \/ IsBefore(table, j, i)
  BY PlacesAre
<1>2. IsFiniteSet(D) /\ D \subseteq Nat
  <2>1. Len(table) \in Nat /\ D = 1..Len(table)
    BY TimesOf
  <2> HIDE DEF D
  <2> QED
    BY <2>1, FS_Interval
<1>3. ASSUME NEW i \in D, NEW j \in D, PlaceOf(table, i) = PlaceOf(table, j)
      PROVE  i = j
  BY <1>1, <1>2, <1>3
<1>4. p \in Injection(D, D)
  BY <1>1, <1>3 DEF Injection, IsInjective
<1>5. p \in Surjection(D, D)
  BY <1>2, <1>4, FS_Injection
<1>6. \A n \in D : \E i \in D : PlaceOf(table, i) = n
  BY <1>5 DEF Surjection
<1>7. \A n \in D : g[n] \in D /\ PlaceOf(table, g[n]) = n
  BY <1>6
<1>8. ByTime(table) = [n \in D |-> table[g[n]]]
  BY DEF ByTime, PlaceOf, IsBefore
<1> HIDE DEF g
<1>9. g \in [D -> D]
  BY <1>7 DEF g
<1>10. \A a, b \in D : g[a] = g[b] => a = b
  BY <1>7
<1>11. \A i \in D : g[PlaceOf(table, i)] = i
  BY <1>1, <1>3, <1>7
<1>12. g \in Bijection(D, D)
  BY <1>1, <1>9, <1>10, <1>11 DEF Bijection, Injection, Surjection, IsInjective
<1> QED
  BY <1>7, <1>8, <1>12

(***************************************************************************)
(* The sort gives a list in the order of the times with as many rows of    *)
(* each moment as there were.                                              *)
(***************************************************************************)
LEMMA SortedIs ==
  ASSUME NEW S, NEW table \in Seq(S), \A row \in S : row.time \in Nat
  PROVE  /\ ByTime(table) \in Seq(S)
         /\ InTimeOrder(ByTime(table))
         /\ \A time : CountAt(ByTime(table), time) = CountAt(table, time)
<1> DEFINE D == DOMAIN table
<1>1. IsTimed(table)
  BY DEF IsTimed
<1>2. PICK g \in Bijection(D, D) :
        /\ ByTime(table) = [n \in D |-> table[g[n]]]
        /\ \A n \in D : PlaceOf(table, g[n]) = n
  BY <1>1, PlacesTaken
<1>3. /\ g \in [D -> D] /\ \A a, b \in D : g[a] = g[b] => a = b
      /\ \A i \in D : \E n \in D : g[n] = i
  BY DEF Bijection, Injection, Surjection, IsInjective
<1>4. D = 1..Len(table) /\ Len(table) \in Nat /\ \A i \in D : table[i] \in S /\ table[i].time \in Nat
  BY <1>1, TimesOf
<1>5. ByTime(table) \in Seq(S)
  BY <1>2, <1>3, <1>4
<1>6. DOMAIN ByTime(table) = D /\ \A n \in D : ByTime(table)[n] = table[g[n]]
  BY <1>2
<1>7. ASSUME NEW i \in D, NEW j \in D, i < j
      PROVE  table[g[i]].time <= table[g[j]].time
  <2>1. g[i] = g[j] \/ IsBefore(table, g[i], g[j]) \/ IsBefore(table, g[j], g[i])
    BY <1>1, <1>3, PlacesAre
  <2>2. g[i] # g[j]
    BY <1>3, <1>4, <1>7
  <2>3. ~IsBefore(table, g[j], g[i])
    <3>1. g[i] \in D /\ g[j] \in D
      BY <1>3
    <3>2. IsBefore(table, g[j], g[i]) => PlaceOf(table, g[j]) < PlaceOf(table, g[i])
      BY <1>1, <3>1, PlacesAre
    <3> QED
      BY <1>2, <1>4, <1>7, <3>2
  <2>4. IsBefore(table, g[i], g[j]) => table[g[i]].time <= table[g[j]].time
    <3>1. g[i] \in D /\ g[j] \in D
      BY <1>3
    <3>2. table[g[i]].time \in Nat /\ table[g[j]].time \in Nat
      BY <1>4, <3>1
    <3> QED
      BY <3>2 DEF IsBefore
  <2> QED
    BY <2>1, <2>2, <2>3, <2>4
<1>8. InTimeOrder(ByTime(table))
  BY <1>6, <1>7 DEF InTimeOrder
<1>9. ASSUME NEW time
      PROVE  CountAt(ByTime(table), time) = CountAt(table, time)
  <2> DEFINE A == {i \in D : table[i].time = time}
             B == {n \in D : table[g[n]].time = time}
             f == [n \in B |-> g[n]]
  <2>1. f \in [B -> A]
    BY <1>3
  <2>2. \A a, b \in B : f[a] = f[b] => a = b
    BY <1>3
  <2>3. \A i \in A : \E n \in B : f[n] = i
    BY <1>3
  <2>4. f \in Bijection(B, A)
    BY <2>1, <2>2, <2>3 DEF Bijection, Injection, Surjection, IsInjective
  <2>5. IsFiniteSet(B)
    <3>1. IsFiniteSet(D) /\ B \in SUBSET D
      BY <1>4, FS_Interval
    <3> QED
      BY <3>1, FS_Subset
  <2>6. Cardinality(A) = Cardinality(B)
    BY <2>4, <2>5, FS_Bijection DEF ExistsBijection
  <2>7. B = {n \in DOMAIN ByTime(table) : ByTime(table)[n].time = time}
    BY <1>6
  <2> HIDE DEF A, B
  <2>8. CountAt(ByTime(table), time) = Cardinality(B)
    BY <2>7 DEF CountAt
  <2>9. CountAt(table, time) = Cardinality(A)
    BY DEF CountAt, A
  <2> QED
    BY <2>6, <2>8, <2>9
<1> QED
  BY <1>5, <1>8, <1>9

-----------------------------------------------------------------------------
(* How many rows of a moment are still to come in a table. *)
Late(table, i, time) == CountAt(SubSeq(table, i, Len(table)), time)

Excess(a, b) == IF a > b THEN a - b ELSE 0

LEMMA LateIs ==
  ASSUME NEW s, IsTimed(s), NEW time
  PROVE  /\ Late(s, 1, time) = CountAt(s, time)
         /\ \A i \in 1..Len(s) + 1 : Late(s, i, time) \in Nat
         /\ Late(s, Len(s) + 1, time) = 0
         /\ \A i \in 1..Len(s) : Late(s, i, time) = Late(s, i + 1, time) + (IF s[i].time = time THEN 1 ELSE 0)
         /\ InTimeOrder(s) => \A i \in 1..Len(s) : time < s[i].time /\ time \in Nat => Late(s, i, time) = 0
<1>1. PICK S : s \in Seq(S) /\ \A row \in S : row.time \in Nat
  BY DEF IsTimed
<1> DEFINE m == Len(s)
           Rest(i) == SubSeq(s, i, m)
<1>2. m \in Nat /\ DOMAIN s = 1..m
  BY <1>1
<1>3. ASSUME NEW i \in 1..m + 1
      PROVE  /\ Rest(i) \in Seq(S) /\ Len(Rest(i)) = m - i + 1
             /\ \A k \in 1..(m - i + 1) : Rest(i)[k] = s[i + k - 1]
  BY <1>1, <1>2
<1>4. ASSUME NEW i \in 1..m + 1
      PROVE  IsSequence(Rest(i))
  BY <1>3 DEF IsSequence
<1>5. Rest(1) = s
  BY <1>1
<1>6. ASSUME NEW i \in 1..m
      PROVE  Rest(i) = <<s[i]>> \o Rest(i + 1)
  <2> DEFINE t == <<s[i]>> \o Rest(i + 1)
  <2>1. i \in 1..m + 1 /\ i + 1 \in 1..m + 1 /\ s[i] \in S
    BY <1>1, <1>2
  <2>2. Rest(i + 1) \in Seq(S) /\ Len(Rest(i + 1)) = m - i
    <3>1. Rest(i + 1) \in Seq(S) /\ Len(Rest(i + 1)) = m - (i + 1) + 1
      BY <1>3, <2>1
    <3> HIDE DEF Rest, m
    <3> QED
      BY <1>2, <2>1, <3>1
  <2>3. \A k \in 1..(m - i) : Rest(i + 1)[k] = s[i + k]
    <3>1. \A k \in 1..(m - (i + 1) + 1) : Rest(i + 1)[k] = s[(i + 1) + k - 1]
      BY <1>3, <2>1
    <3> HIDE DEF Rest, m
    <3>2. m - (i + 1) + 1 = m - i /\ \A k \in 1..(m - i) : (i + 1) + k - 1 = i + k
      BY <1>2, <2>1
    <3> QED
      BY <3>1, <3>2
  <2>4. Rest(i) \in Seq(S) /\ Len(Rest(i)) = m - i + 1
    BY <1>3, <2>1
  <2>5. \A k \in 1..(m - i + 1) : Rest(i)[k] = s[i + k - 1]
    BY <1>3, <2>1
  <2> HIDE DEF Rest
  <2>6. <<s[i]>> \in Seq(S) /\ Len(<<s[i]>>) = 1 /\ <<s[i]>>[1] = s[i]
    BY <2>1
  <2> DEFINE a == <<s[i]>>
             b == Rest(i + 1)
  <2> HIDE DEF a, b, m
  <2>11. a \in Seq(S) /\ b \in Seq(S) /\ Len(a) = 1 /\ Len(b) = m - i /\ a[1] = s[i]
    BY <2>2, <2>6 DEF a, b
  <2>12. /\ a \o b \in Seq(S) /\ Len(a \o b) = Len(a) + Len(b)
        /\ \A k \in 1..Len(a) + Len(b) : (a \o b)[k] = IF k <= Len(a) THEN a[k] ELSE b[k - Len(a)]
    BY <2>11, ConcatProperties
  <2>13. t = a \o b
    BY DEF a, b
  <2> HIDE DEF t
  <2>7. t \in Seq(S) /\ Len(t) = m - i + 1
    BY <1>2, <2>1, <2>11, <2>12, <2>13
  <2>8. t[1] = s[i] /\ \A k \in 1..(m - i) : t[k + 1] = Rest(i + 1)[k]
    <3>1. t[1] = s[i]
      BY <1>2, <2>1, <2>11, <2>12, <2>13
    <3>2. \A k \in 1..(m - i) : k + 1 \in 1..(1 + (m - i)) /\ ~(k + 1 <= 1) /\ (k + 1) - 1 = k
      BY <1>2, <2>1
    <3>3. \A k \in 1..(m - i) : t[k + 1] = b[k]
      BY <2>11, <2>12, <2>13, <3>2
    <3> QED
      BY <3>1, <3>3 DEF b
  <2>9. \A k \in 1..(m - i + 1) : t[k] = s[i + k - 1]
    <3>1. ASSUME NEW k \in 1..(m - i + 1)
          PROVE  t[k] = s[i + k - 1]
      <4>1. CASE k = 1
        BY <1>2, <2>8, <4>1
      <4>2. CASE k # 1
        <5>1. k - 1 \in 1..(m - i) /\ (k - 1) + 1 = k /\ i + (k - 1) = i + k - 1
          BY <1>2, <4>2
        <5> HIDE DEF t
        <5> QED
          BY <2>3, <2>8, <5>1
      <4> QED
        BY <4>1, <4>2
    <3> QED
      BY <3>1
  <2> HIDE DEF t
  <2>10. Rest(i) = t
    BY <1>2, <2>4, <2>5, <2>7, <2>9
  <2> QED
    BY <2>10 DEF t
<1>8. Late(s, 1, time) = CountAt(s, time)
  BY <1>5 DEF Late
<1>9. \A i \in 1..m + 1 : Late(s, i, time) \in Nat
  <2> HIDE DEF m
  <2>1. \A i \in 1..m + 1 : CountAt(Rest(i), time) \in Nat
    BY <1>4, CountsOf
  <2> QED
    BY <2>1 DEF Late, m
<1>10. Late(s, m + 1, time) = 0
  <2>1. Rest(m + 1) = <<>>
    BY <1>1, <1>2
  <2>2. {i \in DOMAIN <<>> : <<>>[i].time = time} = {}
    OBVIOUS
  <2> QED
    BY <2>1, <2>2, FS_EmptySet DEF Late, CountAt
<1>11. ASSUME NEW i \in 1..m
       PROVE  Late(s, i, time) = Late(s, i + 1, time) + (IF s[i].time = time THEN 1 ELSE 0)
  <2>1. i + 1 \in 1..m + 1
    BY <1>2
  <2>2. IsSequence(Rest(i + 1)) /\ IsSequence(<<s[i]>>)
    BY <1>4, <2>1, OneRow
  <2>3. Late(s, i + 1, time) \in Nat
    BY <1>9, <2>1
  <2>4. CountAt(Rest(i), time) = CountAt(<<s[i]>>, time) + CountAt(Rest(i + 1), time)
    <3> DEFINE a == <<s[i]>>
               b == Rest(i + 1)
    <3> HIDE DEF Rest
    <3>1. IsSequence(a) /\ IsSequence(b)
      BY <2>2
    <3>2. Rest(i) = a \o b
      BY <1>6
    <3> HIDE DEF a, b
    <3>3. CountAt(a \o b, time) = CountAt(a, time) + CountAt(b, time)
      BY <3>1, CountsAdd
    <3> QED
      BY <3>2, <3>3 DEF a, b
  <2>5. CountAt(<<s[i]>>, time) = IF s[i].time = time THEN 1 ELSE 0
    BY OneRow
  <2> QED
    BY <2>3, <2>4, <2>5 DEF Late
<1>12. ASSUME InTimeOrder(s), NEW i \in 1..m, time < s[i].time, time \in Nat
       PROVE  Late(s, i, time) = 0
  <2>1. i \in 1..m + 1
    BY <1>2
  <2>2. ASSUME NEW k \in DOMAIN Rest(i)
        PROVE  Rest(i)[k].time # time
    <3>1. k \in 1..(m - i + 1) /\ Rest(i)[k] = s[i + k - 1]
      BY <1>3, <2>1
    <3>2. i + k - 1 \in 1..m /\ i <= i + k - 1
      BY <1>2, <3>1
    <3>3. s[i + k - 1].time \in Nat /\ s[i].time \in Nat
      BY <1>1, <3>2
    <3>4. s[i].time <= s[i + k - 1].time
      <4>1. CASE i = i + k - 1
        BY <3>3, <4>1
      <4>2. CASE i # i + k - 1
        <5>1. i < i + k - 1
          BY <3>2, <4>2
        <5> QED
          BY <1>2, <1>12, <3>2, <5>1 DEF InTimeOrder
      <4> QED
        BY <4>1, <4>2
    <3> QED
      BY <1>12, <3>1, <3>3, <3>4
  <2>3. {k \in DOMAIN Rest(i) : Rest(i)[k].time = time} = {}
    BY <2>2
  <2> QED
    BY <2>3, FS_EmptySet DEF Late, CountAt
<1> QED
  BY <1>8, <1>9, <1>10, <1>11, <1>12

(***************************************************************************)
(* Of each moment, the merge of two sorted tables finds as many rows as    *)
(* the one has more than the other.                                        *)
(***************************************************************************)
LEMMA MissingCounts ==
  ASSUME NEW from, NEW to, IsTimed(from), IsTimed(to), InTimeOrder(from), InTimeOrder(to), NEW time
  PROVE  CountAt(Missing(from, to), time) = Excess(CountAt(from, time), CountAt(to, time))
<1> DEFINE m == Len(from)
           n == Len(to)
<1>1. /\ IsSequence(from) /\ m \in Nat /\ \A i \in 1..m : from[i].time \in Nat
      /\ IsSequence(to) /\ n \in Nat /\ \A j \in 1..n : to[j].time \in Nat
  BY TimesOf
<1>2. PICK add : Missing(from, to) = add[<<1, 1>>] /\ Unfolds(add, from, to)
  BY <1>1, MissingUnfolds
<1>3. \A i \in 1..m + 1, j \in 1..n + 1 : UnfoldsThere(add, from, to, i, j)
  BY <1>1, <1>2, UnfoldsAt
<1>4. /\ Late(from, 1, time) = CountAt(from, time)
      /\ \A i \in 1..m + 1 : Late(from, i, time) \in Nat
      /\ Late(from, m + 1, time) = 0
      /\ \A i \in 1..m : Late(from, i, time) = Late(from, i + 1, time) + (IF from[i].time = time THEN 1 ELSE 0)
      /\ \A i \in 1..m : time < from[i].time /\ time \in Nat => Late(from, i, time) = 0
  BY LateIs
<1>5. /\ Late(to, 1, time) = CountAt(to, time)
      /\ \A j \in 1..n + 1 : Late(to, j, time) \in Nat
      /\ Late(to, n + 1, time) = 0
      /\ \A j \in 1..n : Late(to, j, time) = Late(to, j + 1, time) + (IF to[j].time = time THEN 1 ELSE 0)
      /\ \A j \in 1..n : time < to[j].time /\ time \in Nat => Late(to, j, time) = 0
  BY LateIs
<1> DEFINE Good(s, i, j) == IsSequence(s) /\ CountAt(s, time) = Excess(Late(from, i, time), Late(to, j, time))
           G == {at \in (1..m + 1) \X (1..n + 1) : Good(add[at], at[1], at[2])}
<1>6. ASSUME NEW i \in 1..m + 1, NEW j \in 1..n + 1, i > m \/ j > n
      PROVE  <<i, j>> \in G
  <2>1. CASE i > m
    <3>1. add[<<i, j>>] = <<>> /\ i = m + 1
      BY <1>3, <2>1 DEF UnfoldsThere
    <3>2. CountAt(<<>>, time) = 0 /\ IsSequence(<<>>)
      <4>1. {k \in DOMAIN <<>> : <<>>[k].time = time} = {} /\ <<>> \in Seq({})
        OBVIOUS
      <4> QED
        BY <4>1, FS_EmptySet DEF CountAt, IsSequence
    <3>3. Excess(0, Late(to, j, time)) = 0
      BY <1>5 DEF Excess
    <3> QED
      BY <1>4, <3>1, <3>2, <3>3
  <2>2. CASE ~(i > m)
    <3>1. add[<<i, j>>] = SubSeq(from, i, m) /\ j = n + 1
      BY <1>6, <1>3, <2>2 DEF UnfoldsThere
    <3>2. IsSequence(SubSeq(from, i, m))
      <4>1. PICK S : from \in Seq(S)
        BY <1>1 DEF IsSequence
      <4>2. SubSeq(from, i, m) \in Seq(S)
        BY <1>1, <4>1
      <4> QED
        BY <4>2 DEF IsSequence
    <3>3. CountAt(SubSeq(from, i, m), time) = Late(from, i, time)
      BY DEF Late
    <3>4. Excess(Late(from, i, time), 0) = Late(from, i, time)
      BY <1>4 DEF Excess
    <3> QED
      BY <1>5, <3>1, <3>2, <3>3, <3>4
  <2> QED
    BY <2>1, <2>2
<1>7. ASSUME NEW i \in 1..m, NEW j \in 1..n,
             <<i + 1, j + 1>> \in G, <<i, j + 1>> \in G, <<i + 1, j>> \in G
      PROVE  <<i, j>> \in G
  <2>1. /\ i \in 1..m + 1 /\ j \in 1..n + 1 /\ ~(i > m) /\ ~(j > n)
        /\ i + 1 \in 1..m + 1 /\ j + 1 \in 1..n + 1
    BY <1>1
  <2>2. /\ Good(add[<<i + 1, j + 1>>], i + 1, j + 1)
        /\ Good(add[<<i, j + 1>>], i, j + 1)
        /\ Good(add[<<i + 1, j>>], i + 1, j)
    BY <1>7
  <2>3. /\ Late(from, i, time) \in Nat /\ Late(from, i + 1, time) \in Nat
        /\ Late(to, j, time) \in Nat /\ Late(to, j + 1, time) \in Nat
        /\ Late(from, i, time) = Late(from, i + 1, time) + (IF from[i].time = time THEN 1 ELSE 0)
        /\ Late(to, j, time) = Late(to, j + 1, time) + (IF to[j].time = time THEN 1 ELSE 0)
        /\ from[i].time \in Nat /\ to[j].time \in Nat
    BY <1>1, <1>4, <1>5, <2>1
  <2>4. CASE from[i].time = to[j].time
    <3>1. add[<<i, j>>] = add[<<i + 1, j + 1>>]
      BY <1>3, <2>1, <2>4 DEF UnfoldsThere
    <3>2. Excess(Late(from, i, time), Late(to, j, time)) = Excess(Late(from, i + 1, time), Late(to, j + 1, time))
      BY <2>3, <2>4 DEF Excess
    <3> QED
      BY <2>1, <2>2, <3>1, <3>2
  <2>5. CASE from[i].time > to[j].time
    <3>1. add[<<i, j>>] = add[<<i, j + 1>>]
      <4>1. from[i].time # to[j].time
        BY <2>3, <2>5
      <4> QED
        BY <1>3, <2>1, <2>5, <4>1 DEF UnfoldsThere
    <3>2. to[j].time = time => Late(from, i, time) = 0
      BY <1>4, <2>3, <2>5
    <3>3. Excess(Late(from, i, time), Late(to, j, time)) = Excess(Late(from, i, time), Late(to, j + 1, time))
      BY <2>3, <3>2 DEF Excess
    <3> QED
      BY <2>1, <2>2, <3>1, <3>3
  <2>6. CASE from[i].time < to[j].time
    <3> DEFINE rest == add[<<i + 1, j>>]
    <3>1. add[<<i, j>>] = <<from[i]>> \o rest
      <4>1. from[i].time # to[j].time /\ ~(from[i].time > to[j].time)
        BY <2>3, <2>6, SMTT(20)
      <4> QED
        BY <1>3, <2>1, <4>1 DEF UnfoldsThere
    <3>2. from[i].time = time => Late(to, j, time) = 0
      BY <1>5, <2>3, <2>6
    <3>3. /\ IsSequence(<<from[i]>>)
          /\ CountAt(<<from[i]>>, time) = IF from[i].time = time THEN 1 ELSE 0
      BY OneRow
    <3>4. IsSequence(rest) /\ CountAt(rest, time) = Excess(Late(from, i + 1, time), Late(to, j, time))
      BY <2>2
    <3> HIDE DEF rest
    <3>5. IsSequence(<<from[i]>> \o rest)
      BY <3>3, <3>4, Joined
    <3>6. CountAt(<<from[i]>> \o rest, time) = CountAt(<<from[i]>>, time) + CountAt(rest, time)
      BY <3>3, <3>4, CountsAdd
    <3>7. CountAt(<<from[i]>> \o rest, time) = Excess(Late(from, i, time), Late(to, j, time))
      BY <2>3, <3>2, <3>3, <3>4, <3>6 DEF Excess
    <3> QED
      BY <2>1, <3>1, <3>5, <3>7
  <2> QED
    BY <2>3, <2>4, <2>5, <2>6
<1>8. \A i \in 1..m + 1, j \in 1..n + 1 : <<i, j>> \in G
  <2> HIDE DEF G, m, n
  <2> QED
    BY <1>1, <1>6, <1>7, FromTheEnds
<1>9. <<1, 1>> \in G
  BY <1>1, <1>8
<1> QED
  BY <1>2, <1>4, <1>5, <1>9

(***************************************************************************)
(* What is appended after the merge of the sorted tables: each row of the  *)
(* other table once.                                                       *)
(***************************************************************************)
LEMMA MergedIs ==
  ASSUME NEW own, NEW other, IsTimed(own), IsTimed(other)
  PROVE  IsMerged(own \o Missing(ByTime(other), ByTime(own)), own, other)
<1> DEFINE found == Missing(ByTime(other), ByTime(own))
           result == own \o found
<1>1. /\ IsTimed(ByTime(own)) /\ InTimeOrder(ByTime(own))
      /\ \A time : CountAt(ByTime(own), time) = CountAt(own, time)
  <2>1. PICK S : own \in Seq(S) /\ \A row \in S : row.time \in Nat
    BY DEF IsTimed
  <2> QED
    BY <2>1, SortedIs DEF IsTimed
<1>2. /\ IsTimed(ByTime(other)) /\ InTimeOrder(ByTime(other))
      /\ \A time : CountAt(ByTime(other), time) = CountAt(other, time)
  <2>1. PICK S : other \in Seq(S) /\ \A row \in S : row.time \in Nat
    BY DEF IsTimed
  <2> QED
    BY <2>1, SortedIs DEF IsTimed
<1>3. IsSequence(own) /\ IsSequence(other) /\ IsSequence(found)
  <2>1. IsSequence(ByTime(own)) /\ IsSequence(own) /\ IsSequence(other)
    BY <1>1, TimesOf
  <2>2. PICK S : ByTime(other) \in Seq(S)
    BY <1>2 DEF IsTimed
  <2>3. found \in Seq(S)
    BY <2>1, <2>2, MissingAreRows
  <2> QED
    BY <2>1, <2>3 DEF IsSequence
<1>4. \A time : CountAt(found, time) = Excess(CountAt(other, time), CountAt(own, time))
  BY <1>1, <1>2, MissingCounts
<1> HIDE DEF found
<1>5. \A time : CountAt(result, time) = CountAt(own, time) + CountAt(found, time)
  BY <1>3, CountsAdd
<1>6. IsSequence(result) /\ Len(own) \in Nat /\ Len(found) \in Nat /\ Len(result) = Len(own) + Len(found)
      /\ SubSeq(result, 1, Len(own)) = SubSeq(own, 1, Len(own))
  <2>1. Len(own) \in 0..Len(own)
    BY <1>3, CountsOf
  <2> QED
    BY <1>3, <2>1, Joined
<1> HIDE DEF result
<1>7. IsPrefix(own, result)
  BY <1>6 DEF IsPrefix
<1>8. ASSUME NEW time
      PROVE  /\ CountAt(own, time) \in Nat /\ CountAt(other, time) \in Nat
             /\ CountAt(result, time) = IF CountAt(other, time) > CountAt(own, time)
                                        THEN CountAt(other, time) ELSE CountAt(own, time)
  <2>1. CountAt(own, time) \in Nat /\ CountAt(other, time) \in Nat
    BY <1>3, CountsOf
  <2> QED
    BY <1>4, <1>5, <2>1 DEF Excess
<1>9. \A time : CountAt(result, time) = Max({CountAt(own, time), CountAt(other, time)})
  <2>1. ASSUME NEW a \in Nat, NEW b \in Nat
        PROVE  Max({a, b}) = IF b > a THEN b ELSE a
    <3> DEFINE c == IF b > a THEN b ELSE a
               M == {a, b}
    <3>1. c \in M /\ \A y \in M : c >= y
      OBVIOUS
    <3>2. \A x \in M : (\A y \in M : x >= y) => x = c
      OBVIOUS
    <3> HIDE DEF c, M
    <3>3. Max(M) = c
      BY <3>1, <3>2, Zenon DEF Max
    <3> QED
      BY <3>3 DEF c, M
  <2> QED
    BY <1>8, <2>1
<1>10. Times(result) = Times(own) \cup Times(other)
  <2>1. ASSUME NEW time
        PROVE  time \in Times(result) <=> time \in Times(own) \/ time \in Times(other)
    <3>1. /\ CountAt(result, time) > 0 <=> time \in Times(result)
          /\ CountAt(own, time) > 0 <=> time \in Times(own)
          /\ CountAt(other, time) > 0 <=> time \in Times(other)
      BY <1>3, <1>6, CountsOf
    <3> QED
      BY <1>8, <3>1
  <2> QED
    BY <2>1
<1>11. IsMerged(result, own, other)
  BY <1>7, <1>9, <1>10 DEF IsMerged
<1> QED
  BY <1>11 DEF result, found

(* Of two tables in whatever order, a row of the one is found or the other has its time. *)
LEMMA NoRowMissed ==
  ASSUME NEW S, NEW from \in Seq(S), NEW to, IsSequence(to)
  PROVE  \A i \in DOMAIN from :
           from[i] \in ToSet(Missing(from, to)) \/ from[i].time \in Times(to)
<1> DEFINE m == Len(from)
           n == Len(to)
<1>1. IsSequence(from) /\ m \in Nat /\ n \in Nat /\ DOMAIN from = 1..m /\ DOMAIN to = 1..n
  BY DEF IsSequence
<1>2. PICK add : Missing(from, to) = add[<<1, 1>>] /\ Unfolds(add, from, to)
  BY <1>1, MissingUnfolds
<1>3. \A i \in 1..m + 1, j \in 1..n + 1 : UnfoldsThere(add, from, to, i, j)
  BY <1>1, <1>2, UnfoldsAt
<1> DEFINE Found(s, i) == s \in Seq(S) /\ \A k \in i..m : from[k] \in ToSet(s) \/ from[k].time \in Times(to)
           G == {at \in (1..m + 1) \X (1..n + 1) : Found(add[at], at[1])}
<1>4. ASSUME NEW i \in 1..m + 1, NEW j \in 1..n + 1, i > m \/ j > n
      PROVE  <<i, j>> \in G
  <2>1. CASE i > m
    <3>1. add[<<i, j>>] = <<>>
      BY <1>3, <2>1 DEF UnfoldsThere
    <3>2. i..m = {}
      BY <1>1, <2>1
    <3>3. <<>> \in Seq(S) /\ <<i, j>> \in (1..m + 1) \X (1..n + 1)
      OBVIOUS
    <3>4. Found(add[<<i, j>>], i)
      BY <3>1, <3>2, <3>3
    <3> HIDE DEF Found
    <3> QED
      BY <3>3, <3>4
  <2>2. CASE ~(i > m)
    <3> DEFINE s == SubSeq(from, i, m)
    <3>1. add[<<i, j>>] = s
      BY <1>4, <1>3, <2>2 DEF UnfoldsThere
    <3>2. s \in Seq(S) /\ Len(s) = m - i + 1 /\ \A k \in 1..(m - i + 1) : s[k] = from[i + k - 1]
      BY <1>1
    <3>3. ASSUME NEW k \in i..m
          PROVE  from[k] \in ToSet(s)
      <4>1. k - i + 1 \in 1..(m - i + 1) /\ i + (k - i + 1) - 1 = k
        BY <1>1
      <4>2. k - i + 1 \in DOMAIN s /\ s[k - i + 1] = from[k]
        BY <3>2, <4>1
      <4> HIDE DEF s
      <4> QED
        BY <4>2 DEF ToSet
    <3> HIDE DEF s
    <3> QED
      BY <3>1, <3>2, <3>3
  <2> QED
    BY <2>1, <2>2
<1>5. ASSUME NEW i \in 1..m, NEW j \in 1..n,
             <<i + 1, j + 1>> \in G, <<i, j + 1>> \in G, <<i + 1, j>> \in G
      PROVE  <<i, j>> \in G
  <2>1. /\ i \in 1..m + 1 /\ j \in 1..n + 1 /\ ~(i > m) /\ ~(j > n)
        /\ \A k \in i..m : k = i \/ k \in (i + 1)..m
    BY <1>1
  <2>2. CASE from[i].time = to[j].time
    <3>1. add[<<i, j>>] = add[<<i + 1, j + 1>>]
      BY <1>3, <2>1, <2>2 DEF UnfoldsThere
    <3>2. from[i].time \in Times(to)
      BY <1>1, <2>2 DEF Times
    <3> QED
      BY <1>5, <2>1, <3>1, <3>2
  <2>3. CASE from[i].time # to[j].time /\ from[i].time > to[j].time
    <3>1. add[<<i, j>>] = add[<<i, j + 1>>]
      BY <1>3, <2>1, <2>3 DEF UnfoldsThere
    <3> QED
      BY <1>5, <2>1, <3>1
  <2>4. CASE from[i].time # to[j].time /\ ~(from[i].time > to[j].time)
    <3> DEFINE rest == add[<<i + 1, j>>]
               s == <<from[i]>> \o rest
    <3>1. add[<<i, j>>] = s
      BY <1>3, <2>1, <2>4 DEF UnfoldsThere
    <3>2. rest \in Seq(S) /\ \A k \in (i + 1)..m : from[k] \in ToSet(rest) \/ from[k].time \in Times(to)
      BY <1>5
    <3> HIDE DEF rest
    <3>3. from[i] \in S
      BY <1>1
    <3>4. s \in Seq(S) /\ Len(s) = 1 + Len(rest) /\ s[1] = from[i] /\ \A k \in 1..Len(rest) : s[k + 1] = rest[k]
      BY <3>2, <3>3
    <3> HIDE DEF s
    <3>5. from[i] \in ToSet(s)
      <4>1. 1 \in DOMAIN s
        BY <3>2, <3>4
      <4> QED
        BY <3>4, <4>1 DEF ToSet
    <3>6. \A row \in ToSet(rest) : row \in ToSet(s)
      <4>1. ASSUME NEW k \in DOMAIN rest
            PROVE  k + 1 \in DOMAIN s /\ s[k + 1] = rest[k]
        BY <3>2, <3>4
      <4> QED
        BY <4>1 DEF ToSet
    <3> QED
      BY <2>1, <3>1, <3>2, <3>4, <3>5, <3>6
  <2> QED
    BY <2>2, <2>3, <2>4
<1>6. \A i \in 1..m + 1, j \in 1..n + 1 : <<i, j>> \in G
  <2> HIDE DEF G, m, n
  <2> QED
    BY <1>1, <1>4, <1>5, FromTheEnds
<1>7. <<1, 1>> \in G
  BY <1>1, <1>6
<1> QED
  BY <1>1, <1>2, <1>7

(* The rows that a table takes. *)
LEMMA AcceptedAre ==
  ASSUME NEW S, NEW rows \in Seq(S), NEW known
  PROVE  /\ Accepted(rows, known) \in Seq(S)
         /\ \A row \in ToSet(rows) : row.hash \in known => row \in ToSet(Accepted(rows, known))
<1> DEFINE N == Len(rows)
           B(a, n) == IF n = 0 THEN <<>> ELSE IF rows[n].hash \in known THEN Append(a[n - 1], rows[n]) ELSE a[n - 1]
           kept == CHOOSE a : a = [n \in 0..N |-> B(a, n)]
<1>1. Accepted(rows, known) = kept[N]
  BY DEF Accepted
<1>2. N \in Nat /\ DOMAIN rows = 1..N /\ \A k \in 1..N : rows[k] \in S
  OBVIOUS
<1> HIDE DEF N
<1>3. \E a : \A n \in 0..N : a[n] = B(a, n)
  <2> DEFINE Found == {k \in Nat : \E a : \A n \in 0..k : a[n] = B(a, n)}
  <2>1. 0 \in Found
    <3> DEFINE a == [n \in {0} |-> <<>>]
    <3>1. \A n \in 0..0 : a[n] = B(a, n)
      OBVIOUS
    <3> QED
      BY <3>1
  <2>2. ASSUME NEW k \in Nat, k \in Found
        PROVE  k + 1 \in Found
    <3>1. PICK a : \A n \in 0..k : a[n] = B(a, n)
      BY <2>2
    <3> DEFINE b == [n \in 0..(k + 1) |-> IF n = k + 1 THEN B(a, k + 1) ELSE a[n]]
    <3>2. \A n \in 0..k : b[n] = a[n]
      OBVIOUS
    <3>3. b[k + 1] = B(a, k + 1)
      OBVIOUS
    <3> HIDE DEF b
    <3>4. \A n \in 0..(k + 1) : b[n] = B(a, n)
      BY <3>1, <3>2, <3>3
    <3>5. \A n \in 0..(k + 1) : n = 0 \/ b[n - 1] = a[n - 1]
      BY <3>2
    <3>6. \A n \in 0..(k + 1) : b[n] = B(b, n)
      BY <3>4, <3>5
    <3> HIDE DEF B
    <3> QED
      BY <3>6
  <2> HIDE DEF Found, B
  <2>3. N \in Found
    BY <1>2, <2>1, <2>2, InductiveSet
  <2> QED
    BY <2>3 DEF Found
<1>4. \E a : a = [n \in 0..N |-> B(a, n)]
  <2>1. PICK a : \A n \in 0..N : a[n] = B(a, n)
    BY <1>3
  <2> DEFINE b == [n \in 0..N |-> a[n]]
  <2>2. \A n \in 0..N : n = 0 \/ b[n - 1] = a[n - 1]
    BY <1>2
  <2>3. \A n \in 0..N : B(b, n) = B(a, n)
    BY <2>2
  <2> HIDE DEF B
  <2>4. b = [n \in 0..N |-> B(b, n)]
    BY <2>1, <2>3
  <2> QED
    BY <2>4
<1>5. kept = [n \in 0..N |-> B(kept, n)]
  BY <1>4
<1> HIDE DEF kept
<1>6. kept[0] = <<>> /\ \A n \in 1..N : kept[n] = IF rows[n].hash \in known THEN Append(kept[n - 1], rows[n]) ELSE kept[n - 1]
  <2>1. \A n \in 0..N : kept[n] = B(kept, n)
    BY <1>5
  <2>2. 0 \in 0..N /\ \A n \in 1..N : n \in 0..N /\ n # 0
    BY <1>2
  <2> QED
    BY <2>1, <2>2
<1> DEFINE Right(n) == kept[n] \in Seq(S) /\ \A k \in 1..n : rows[k].hash \in known => rows[k] \in ToSet(kept[n])
           Rightly == {n \in Nat : n <= N => Right(n)}
<1>7. 0 \in Rightly
  <2>1. <<>> \in Seq(S) /\ 1..0 = {}
    OBVIOUS
  <2> QED
    BY <1>6, <2>1
<1>8. ASSUME NEW n \in Nat, n \in Rightly
      PROVE  n + 1 \in Rightly
  <2> SUFFICES ASSUME n + 1 <= N PROVE Right(n + 1)
    OBVIOUS
  <2> DEFINE v == kept[n]
             r == kept[n + 1]
             row == rows[n + 1]
  <2>1. n + 1 \in 1..N /\ (n + 1) - 1 = n /\ row \in S /\ \A k \in 1..(n + 1) : k = n + 1 \/ k \in 1..n
    BY <1>2
  <2>2. v \in Seq(S) /\ \A k \in 1..n : rows[k].hash \in known => rows[k] \in ToSet(v)
    BY <1>8, <2>1, <1>2
  <2>3. r = IF row.hash \in known THEN Append(v, row) ELSE v
    BY <1>6, <2>1
  <2> HIDE DEF v, r, row
  <2>4. /\ Append(v, row) \in Seq(S)
        /\ row \in ToSet(Append(v, row))
        /\ \A x \in ToSet(v) : x \in ToSet(Append(v, row))
    <3> DEFINE t == Append(v, row)
    <3>1. t \in Seq(S) /\ Len(t) = Len(v) + 1 /\ Len(v) \in Nat /\ t[Len(v) + 1] = row
          /\ \A k \in 1..Len(v) : t[k] = v[k]
      BY <2>1, <2>2
    <3>2. DOMAIN v = 1..Len(v)
      BY <2>2
    <3> HIDE DEF t
    <3>3. Len(v) + 1 \in DOMAIN t /\ \A k \in DOMAIN v : k \in DOMAIN t /\ t[k] = v[k]
      BY <3>1, <3>2
    <3>4. row \in ToSet(t) /\ \A x \in ToSet(v) : x \in ToSet(t)
      BY <3>1, <3>3 DEF ToSet
    <3> QED
      BY <3>1, <3>4 DEF t
  <2>5. r \in Seq(S) /\ \A k \in 1..(n + 1) : rows[k].hash \in known => rows[k] \in ToSet(r)
    BY <2>1, <2>2, <2>3, <2>4 DEF row
  <2> QED
    BY <2>5 DEF r
<1> HIDE DEF Rightly
<1>9. N \in Rightly
  BY <1>2, <1>7, <1>8, InductiveSet
<1>10. Right(N)
  BY <1>2, <1>9 DEF Rightly
<1> QED
  BY <1>1, <1>2, <1>10 DEF ToSet

-----------------------------------------------------------------------------
(* The rows of every table carry the times of days. *)
TablesTimed ==
  /\ DOMAIN history = Libraries /\ \A lib \in Libraries : IsTimed(history[lib])
  /\ \A lib \in Libraries, c \in Categories : IsTimed(votes[lib][c])
  /\ DOMAIN removed = Libraries /\ \A lib \in Libraries : IsTimed(removed[lib])

LEMMA NoRowsTimed == IsTimed(<<>>)
<1> DEFINE none == {}
           s == <<>>
<1>1. s \in Seq(none) /\ \A row \in none : row.time \in Nat
  OBVIOUS
<1> HIDE DEF s, none
<1>2. IsTimed(s)
  BY <1>1 DEF IsTimed
<1> QED
  BY <1>2 DEF s

LEMMA TimedJoined ==
  ASSUME NEW s, NEW t, IsTimed(s), IsTimed(t)
  PROVE  IsTimed(s \o t)
<1>1. PICK S : s \in Seq(S) /\ \A row \in S : row.time \in Nat
  BY DEF IsTimed
<1>2. PICK T : t \in Seq(T) /\ \A row \in T : row.time \in Nat
  BY DEF IsTimed
<1>3. s \in Seq(S \cup T) /\ t \in Seq(S \cup T)
  BY <1>1, <1>2
<1>4. s \o t \in Seq(S \cup T) /\ \A row \in S \cup T : row.time \in Nat
  BY <1>1, <1>2, <1>3
<1> QED
  BY <1>4 DEF IsTimed

LEMMA TimedAppended ==
  ASSUME NEW s, IsTimed(s), NEW row, row.time \in Nat
  PROVE  IsTimed(Append(s, row))
<1>1. PICK S : s \in Seq(S) /\ \A r \in S : r.time \in Nat
  BY DEF IsTimed
<1>2. s \in Seq(S \cup {row})
  BY <1>1
<1>3. Append(s, row) \in Seq(S \cup {row}) /\ \A r \in S \cup {row} : r.time \in Nat
  BY <1>1, <1>2
<1> QED
  BY <1>3 DEF IsTimed

LEMMA SortedStillTimed ==
  ASSUME NEW s, IsTimed(s)
  PROVE  IsTimed(ByTime(s))
BY SortedIs DEF IsTimed

LEMMA MissingTimed ==
  ASSUME NEW from, NEW to, IsTimed(from), IsTimed(to)
  PROVE  IsTimed(Missing(from, to))
<1>1. PICK S : from \in Seq(S) /\ \A row \in S : row.time \in Nat
  BY DEF IsTimed
<1>2. IsSequence(to)
  BY TimesOf
<1>3. Missing(from, to) \in Seq(S)
  BY <1>1, <1>2, MissingAreRows
<1> QED
  BY <1>1, <1>3 DEF IsTimed

LEMMA AcceptedTimed ==
  ASSUME NEW rows, IsTimed(rows), NEW known
  PROVE  IsTimed(Accepted(rows, known))
<1>1. PICK S : rows \in Seq(S) /\ \A row \in S : row.time \in Nat
  BY DEF IsTimed
<1>2. Accepted(rows, known) \in Seq(S)
  BY <1>1, AcceptedAre
<1> QED
  BY <1>1, <1>2 DEF IsTimed

LEMMA TablesStillTimed ==
  ASSUME ExchangeTypes, TablesTimed, [Next]_exchangeVars
  PROVE  TablesTimed'
<1> USE DEF ExchangeTypes, TablesTimed
<1>1. \A lib \in Libraries : Tomorrow(lib) \in Nat
  <2>1. \A lib \in Libraries : Skew[lib] \in Nat
    BY LibraryExchangeAssumption DEF LibraryExchangeAssumption
  <2> QED
    BY <2>1 DEF Tomorrow, Now
<1>2. ASSUME NEW lib \in Libraries, NEW hash \in Songs, SongPlaybackStarted(lib, hash)
      PROVE  TablesTimed'
  <2> DEFINE row == [time |-> Tomorrow(lib), hash |-> hash]
  <2>1. row.time \in Nat
    BY <1>1
  <2>2. history' = [history EXCEPT ![lib] = Append(@, row)] /\ votes' = votes /\ removed' = removed
    BY <1>2 DEF SongPlaybackStarted, WithPlayback
  <2> HIDE DEF row
  <2>3. IsTimed(Append(history[lib], row))
    BY <2>1, TimedAppended
  <2> QED
    BY <2>2, <2>3
<1>3. ASSUME NEW lib \in Libraries, NEW hash \in Songs, RemoveSong(lib, hash)
      PROVE  TablesTimed'
  <2> DEFINE row == [time |-> Tomorrow(lib), hash |-> hash]
  <2>1. row.time \in Nat
    BY <1>1
  <2>2. removed' = [removed EXCEPT ![lib] = Append(@, row)] /\ votes' = votes /\ history' = history
    BY <1>3 DEF RemoveSong
  <2> HIDE DEF row
  <2>3. IsTimed(Append(removed[lib], row))
    BY <2>1, TimedAppended
  <2> QED
    BY <2>2, <2>3
<1>4. ASSUME NEW lib \in Libraries, NEW c \in Categories, NEW hash \in Songs, NEW value \in Values,
             AddVote(lib, c, hash, value)
      PROVE  TablesTimed'
  <2> DEFINE row == [time |-> Tomorrow(lib), hash |-> hash, value |-> value]
  <2>1. row.time \in Nat
    BY <1>1
  <2>2. votes' = [votes EXCEPT ![lib][c] = Append(votes[lib][c], row)] /\ removed' = removed /\ history' = history
    BY <1>4 DEF AddVote
  <2> HIDE DEF row
  <2>3. IsTimed(Append(votes[lib][c], row))
    BY <2>1, TimedAppended
  <2> QED
    BY <2>2, <2>3
<1>5. ASSUME NEW lib \in Libraries, NEW hash \in Songs,
             ClearManual(lib, hash) \/ \E value \in Values : SetManual(lib, hash, value)
      PROVE  TablesTimed'
  BY <1>5 DEF ClearManual, SetManual
<1>6. ASSUME NEW lib \in Libraries, ClearRemovedSongs(lib)
      PROVE  TablesTimed'
  <2>1. IsTimed(<<>>)
    BY NoRowsTimed
  <2>2. removed' = [removed EXCEPT ![lib] = <<>>] /\ votes' = votes /\ history' = history
    BY <1>6 DEF ClearRemovedSongs
  <2> QED
    BY <2>1, <2>2
<1>7. ASSUME NEW to \in Libraries, NEW from \in Libraries, NEW options, Import(to, from, options)
      PROVE  TablesTimed'
  <2> DEFINE played == PlaybackMerged(history[to], history[from])
             merged == [c \in Categories |-> VotesMerged(votes[to][c], votes[from][c])]
             gone == RemovalsMerged(removed[to], removed[from], Known[to])
  <2>1. /\ history' = history \/ history' = [history EXCEPT ![to] = played]
        /\ votes' = [votes EXCEPT ![to] = votes[to]] \/ votes' = [votes EXCEPT ![to] = merged]
        /\ removed' = removed \/ removed' = [removed EXCEPT ![to] = gone]
    BY <1>7 DEF Import, PlaybackHistory, RemovedSongs
  <2>2. ASSUME NEW own, NEW other, IsTimed(own), IsTimed(other)
        PROVE  IsTimed(own \o Missing(ByTime(other), ByTime(own)))
    BY <2>2, SortedStillTimed, MissingTimed, TimedJoined
  <2>3. IsTimed(played)
    BY <2>2 DEF PlaybackMerged, AddPlaybackHistory
  <2>4. \A c \in Categories : IsTimed(merged[c])
    BY <2>2 DEF VotesMerged, AddVotes, LoadVotes
  <2>5. IsTimed(gone)
    BY MissingTimed, AcceptedTimed, TimedJoined DEF RemovalsMerged, AddSongRemovalHistory
  <2> HIDE DEF played, merged, gone
  <2>6. DOMAIN history' = Libraries /\ \A lib \in Libraries : IsTimed(history'[lib])
    BY <2>1, <2>3
  <2>7. \A lib \in Libraries, c \in Categories : IsTimed(votes'[lib][c])
    BY <2>1, <2>4
  <2>8. DOMAIN removed' = Libraries /\ \A lib \in Libraries : IsTimed(removed'[lib])
    BY <2>1, <2>5
  <2> QED
    BY <2>6, <2>7, <2>8
<1>8. CASE UNCHANGED exchangeVars
  BY <1>8 DEF exchangeVars
<1> HIDE DEF ExchangeTypes, TablesTimed
<1> QED
  BY <1>2, <1>3, <1>4, <1>5, <1>6, <1>7, <1>8 DEF Next

LEMMA TablesInit == Init => TablesTimed
<1>1. IsTimed(<<>>)
  BY NoRowsTimed
<1> QED
  BY <1>1 DEF Init, TablesTimed

(* What one import does to the tables. *)
ImportMerges(to, from, options) ==
  /\ "playbackHistory" \in options => IsMerged(history'[to], history[to], history[from])
  /\ "communityRating" \in options =>
       \A c \in Categories : IsMerged(votes'[to][c], votes[to][c], votes[from][c])
  /\ "deletionHistory" \in options =>
       \A row \in ToSet(removed[from]) : row.hash \in Known[to] => row.time \in Times(removed'[to])

LEMMA ImportsMerge ==
  ASSUME ExchangeTypes, TablesTimed,
         NEW to \in Libraries, NEW from \in Libraries, NEW options, Import(to, from, options)
  PROVE  ImportMerges(to, from, options)
<1> USE DEF ExchangeTypes, TablesTimed
<1>1. ASSUME "playbackHistory" \in options
      PROVE  IsMerged(history'[to], history[to], history[from])
  <2>1. history'[to] = history[to] \o Missing(ByTime(history[from]), ByTime(history[to]))
    BY <1>1 DEF Import, PlaybackMerged, AddPlaybackHistory, PlaybackHistory
  <2>2. IsMerged(history[to] \o Missing(ByTime(history[from]), ByTime(history[to])), history[to], history[from])
    BY MergedIs
  <2> QED
    BY <2>1, <2>2
<1>2. ASSUME "communityRating" \in options, NEW c \in Categories
      PROVE  IsMerged(votes'[to][c], votes[to][c], votes[from][c])
  <2>1. votes'[to][c] = votes[to][c] \o Missing(ByTime(votes[from][c]), ByTime(votes[to][c]))
    BY <1>2 DEF Import, VotesMerged, AddVotes, LoadVotes
  <2>2. IsMerged(votes[to][c] \o Missing(ByTime(votes[from][c]), ByTime(votes[to][c])), votes[to][c], votes[from][c])
    BY MergedIs
  <2> QED
    BY <2>1, <2>2
<1>3. ASSUME "deletionHistory" \in options, NEW row \in ToSet(removed[from]), row.hash \in Known[to]
      PROVE  row.time \in Times(removed'[to])
  <2> DEFINE own == removed[to]
             found == Missing(removed[from], own)
             taken == Accepted(found, Known[to])
  <2>1. removed'[to] = own \o taken
    BY <1>3 DEF Import, RemovalsMerged, AddSongRemovalHistory, RemovedSongs
  <2>2. PICK S : removed[from] \in Seq(S)
    BY DEF IsTimed
  <2>3. PICK T : own \in Seq(T)
    BY DEF IsTimed
  <2>4. IsSequence(own)
    BY <2>3 DEF IsSequence
  <2>5. row \in ToSet(found) \/ row.time \in Times(own)
    <3>1. PICK i \in DOMAIN removed[from] : row = removed[from][i]
      BY DEF ToSet
    <3> QED
      BY <2>2, <2>4, <3>1, NoRowMissed
  <2>6. found \in Seq(S)
    BY <2>2, <2>4, MissingAreRows
  <2> HIDE DEF found
  <2>7. taken \in Seq(S) /\ (row \in ToSet(found) => row \in ToSet(taken))
    BY <1>3, <2>6, AcceptedAre
  <2> HIDE DEF taken, own
  <2>8. own \in Seq(S \cup T) /\ taken \in Seq(S \cup T)
    BY <2>3, <2>7
  <2> DEFINE r == own \o taken
  <2>9. /\ r \in Seq(S \cup T) /\ Len(r) = Len(own) + Len(taken) /\ Len(own) \in Nat /\ Len(taken) \in Nat
        /\ \A k \in 1..Len(own) : r[k] = own[k]
        /\ \A k \in 1..Len(taken) : r[k + Len(own)] = taken[k]
    BY <2>8
  <2>10. DOMAIN own = 1..Len(own) /\ DOMAIN taken = 1..Len(taken)
    BY <2>8
  <2> HIDE DEF r
  <2>11. (\A k \in DOMAIN own : k \in DOMAIN r /\ r[k] = own[k])
         /\ \A k \in DOMAIN taken : k + Len(own) \in DOMAIN r /\ r[k + Len(own)] = taken[k]
    BY <2>9, <2>10
  <2>12. row.time \in Times(own) => row.time \in Times(r)
    BY <2>11 DEF Times
  <2>13. row \in ToSet(taken) => row.time \in Times(r)
    BY <2>11 DEF Times, ToSet
  <2>14. row.time \in Times(r)
    BY <2>5, <2>7, <2>12, <2>13
  <2> QED
    BY <2>1, <2>14 DEF r
<1> QED
  BY <1>1, <1>2, <1>3 DEF ImportMerges

(* LibraryExchange!HistoriesMerged: whatever was imported before, in whichever order and     *)
(* between however many libraries, an import brings each played song and each vote of the    *)
(* other library exactly once, and no removal of a song that is known is missed.             *)
THEOREM HistoriesAlwaysMerged == Spec => HistoriesMerged
<1>1. ASSUME ExchangeTypes, TablesTimed
      PROVE  \A to, from \in Libraries, options \in OptionSets :
               Import(to, from, options) => ImportMerges(to, from, options)
  BY <1>1, ImportsMerge
<1>2. ExchangeTypes /\ TablesTimed /\ [Next]_exchangeVars => TablesTimed'
  BY TablesStillTimed
<1> QED
  BY <1>1, <1>2, InitTypes, RatingsInit, RatingsInductive, TablesInit, PTL DEF Spec, HistoriesMerged, ImportMerges

-----------------------------------------------------------------------------
(* The pages of the server. *)

(* The entries k of a history from a place on. *)
EntriesFrom(played, start, k) == [i \in 1..k |-> [index |-> start + i - 1, hash |-> played[start + i]]]

Reached(shown, start, n) == IF start + n > shown THEN start + n ELSE shown

(* What a page shows of a history after it has added the first n of the entries that begin at start. *)
PageAfter(played, shown, start, n) ==
  [max |-> Reached(shown, start, n) - 1, songs |-> [i \in 1..Reached(shown, start, n) |-> played[i]]]

LEMMA OneMoreListed ==
  ASSUME NEW f, NEW m \in Nat
  PROVE  [i \in 1..m + 1 |-> f[i]] = Append([i \in 1..m |-> f[i]], f[m + 1])
<1> DEFINE S == {f[i] : i \in 1..m + 1}
           list == [i \in 1..m |-> f[i]]
           longer == [i \in 1..m + 1 |-> f[i]]
           r == Append(list, f[m + 1])
<1>1. list \in Seq(S) /\ Len(list) = m /\ f[m + 1] \in S
  OBVIOUS
<1>2. longer \in Seq(S) /\ Len(longer) = m + 1
  OBVIOUS
<1>3. r \in Seq(S) /\ Len(r) = m + 1 /\ \A i \in 1..m + 1 : r[i] = IF i = m + 1 THEN f[m + 1] ELSE list[i]
  <2> HIDE DEF S, list
  <2> QED
    BY <1>1
<1>4. \A i \in 1..m + 1 : longer[i] = r[i]
  BY <1>3
<1> HIDE DEF r, longer, S
<1>5. longer = r
  BY <1>2, <1>3, <1>4
<1> QED
  BY <1>5 DEF longer, r

LEMMA OneMoreEntry ==
  ASSUME NEW played, NEW shown \in Nat, NEW start \in 0..shown, NEW n \in Nat
  PROVE  LET page == PageAfter(played, shown, start, n)
             after == PageAfter(played, shown, start, n + 1)
         IN  /\ start + n > page.max => after = [max |-> start + n, songs |-> Append(page.songs, played[start + n + 1])]
             /\ ~(start + n > page.max) => after = page
<1> DEFINE m == Reached(shown, start, n)
           l == Reached(shown, start, n + 1)
           list == [i \in 1..m |-> played[i]]
           longer == [i \in 1..l |-> played[i]]
<1>1. m \in Nat /\ l \in Nat /\ (start + n > m - 1 => l = m + 1 /\ m = start + n) /\ (~(start + n > m - 1) => l = m)
  BY DEF Reached
<1>2. /\ PageAfter(played, shown, start, n) = [max |-> m - 1, songs |-> list]
      /\ PageAfter(played, shown, start, n + 1) = [max |-> l - 1, songs |-> longer]
  BY DEF PageAfter
<1>3. l = m + 1 => longer = Append(list, played[m + 1])
  <2> SUFFICES ASSUME l = m + 1 PROVE longer = Append(list, played[m + 1])
    OBVIOUS
  <2> HIDE DEF m
  <2>1. longer = [i \in 1..m + 1 |-> played[i]]
    OBVIOUS
  <2> QED
    BY <1>1, <2>1, OneMoreListed
<1>4. l = m => longer = list
  OBVIOUS
<1> HIDE DEF m, l, list, longer
<1>5. CASE start + n > m - 1
  BY <1>1, <1>2, <1>3, <1>5
<1>6. CASE ~(start + n > m - 1)
  BY <1>1, <1>2, <1>4, <1>6
<1> QED
  BY <1>5, <1>6

(* An answer adds what the page did not show of it yet. *)
LEMMA AddSongsAre ==
  ASSUME NEW played, NEW shown \in Nat, NEW start \in 0..shown, NEW k \in Nat
  PROVE  AddSongs(PageAfter(played, shown, start, 0), EntriesFrom(played, start, k)) = PageAfter(played, shown, start, k)
<1> DEFINE entries == EntriesFrom(played, start, k)
           After(n) == PageAfter(played, shown, start, n)
           B(a, n) == IF n = 0 THEN After(0)
                      ELSE IF IsNew(entries[n], a[n - 1].max)
                           THEN [max |-> entries[n].index, songs |-> Append(a[n - 1].songs, entries[n].hash)]
                           ELSE a[n - 1]
           seen == CHOOSE a : a = [n \in 0..k |-> B(a, n)]
<1>1. Len(entries) = k /\ \A n \in 1..k : entries[n] = [index |-> start + n - 1, hash |-> played[start + n]]
  BY DEF EntriesFrom
<1> HIDE DEF entries
<1>2. AddSongs(After(0), entries) = seen[k]
  BY <1>1 DEF AddSongs
<1>3. ASSUME NEW a, NEW n \in Nat, n + 1 <= k, a[n] = After(n)
      PROVE  B(a, n + 1) = After(n + 1)
  <2>1. n + 1 \in 1..k /\ n + 1 # 0 /\ (n + 1) - 1 = n
    BY <1>3
  <2>2. entries[n + 1].index = start + n /\ entries[n + 1].hash = played[start + n + 1]
    <3>1. entries[n + 1] = [index |-> start + (n + 1) - 1, hash |-> played[start + (n + 1)]]
      BY <1>1, <2>1
    <3>2. start + (n + 1) - 1 = start + n /\ start + (n + 1) = start + n + 1
      OBVIOUS
    <3> QED
      BY <3>1, <3>2
  <2> DEFINE page == After(n)
  <2>3. /\ start + n > page.max => After(n + 1) = [max |-> start + n, songs |-> Append(page.songs, played[start + n + 1])]
        /\ ~(start + n > page.max) => After(n + 1) = page
    BY OneMoreEntry
  <2> HIDE DEF page, After
  <2>4. a[n] = page
    BY <1>3 DEF page
  <2> QED
    BY <2>1, <2>2, <2>3, <2>4 DEF IsNew
<1> HIDE DEF After
<1>4. \E a : a = [n \in 0..k |-> B(a, n)]
  <2> DEFINE a == [n \in 0..k |-> After(n)]
  <2>1. ASSUME NEW n \in 0..k
        PROVE  B(a, n) = After(n)
    <3>1. CASE n = 0
      BY <3>1
    <3>2. CASE n # 0
      <4> DEFINE m == n - 1
      <4>1. m \in Nat /\ m + 1 <= k /\ n = m + 1 /\ a[m] = After(m)
        BY <3>2
      <4> HIDE DEF m, a, B
      <4> QED
        BY <1>3, <4>1
    <3> QED
      BY <3>1, <3>2
  <2> HIDE DEF B
  <2>2. a = [n \in 0..k |-> B(a, n)]
    BY <2>1
  <2> QED
    BY <2>2
<1>5. seen = [n \in 0..k |-> B(seen, n)]
  BY <1>4
<1> HIDE DEF seen
<1>6. \A n \in 0..k : seen[n] = B(seen, n)
  <2> HIDE DEF B
  <2> QED
    BY <1>5
<1> DEFINE Right == {n \in Nat : n <= k => seen[n] = After(n)}
<1>7. 0 \in Right
  <2>1. B(seen, 0) = After(0) /\ 0 \in 0..k
    OBVIOUS
  <2> HIDE DEF B
  <2> QED
    BY <1>6, <2>1
<1>8. ASSUME NEW n \in Nat, n \in Right
      PROVE  n + 1 \in Right
  <2> SUFFICES ASSUME n + 1 <= k PROVE seen[n + 1] = After(n + 1)
    OBVIOUS
  <2>1. seen[n] = After(n) /\ n + 1 \in 0..k
    BY <1>8
  <2> HIDE DEF B
  <2> QED
    BY <1>3, <1>6, <2>1
<1> HIDE DEF Right
<1>9. k \in Right
  BY <1>7, <1>8, InductiveSet
<1> QED
  BY <1>2, <1>9 DEF Right, entries, After

(***************************************************************************)
(* A question is for the songs from a place on that is not beyond what the *)
(* page shows, and an answer begins at such a place: whatever order they   *)
(* come in, no answer leaves a gap.                                        *)
(***************************************************************************)
Comes(played, n, message) ==
  /\ message.kind = "playlist" => message.start \in 0..n
  /\ message.kind = "answer" =>
       \E start \in 0..n, k \in Nat :
         start + k <= Len(played) /\ message.entries = EntriesFrom(played, start, k)

(* The page shows the first n songs. *)
Shows(played, n, max, list, messages) ==
  /\ n \in 0..Len(played) /\ max = n - 1 /\ list = [i \in 1..n |-> played[i]]
  /\ \A c \in Connections : Comes(played, n, messages[c])

ShowsHistory(p) == \E n \in Nat : Shows(mHistory, n, maxSongIndex[p], songs[p], net[p])

ServerTypes ==
  /\ mHistory \in Seq(Songs) /\ run \in Nat
  /\ DOMAIN maxSongIndex = Pages /\ DOMAIN songs = Pages /\ DOMAIN openedIn = Pages
  /\ \A p \in Pages : openedIn[p] \in 0..run
  /\ DOMAIN net = Pages /\ \A p \in Pages : DOMAIN net[p] = Connections
  /\ \A p \in Pages, c \in Connections :
       net[p][c].kind = "vote" => net[p][c].category \in Categories /\ net[p][c].hash \in Songs

FreshPagesShow == \A p \in Pages : Fresh(p) => ShowsHistory(p)

LEMMA ComesLater ==
  ASSUME NEW played \in Seq(Songs), NEW later \in Seq(Songs), Len(played) <= Len(later),
         \A i \in 1..Len(played) : later[i] = played[i],
         NEW n \in Nat, NEW m \in Nat, n <= m, NEW message, Comes(played, n, message)
  PROVE  Comes(later, m, message)
<1>1. ASSUME message.kind = "playlist"
      PROVE  message.start \in 0..m
  BY <1>1 DEF Comes
<1>2. ASSUME message.kind = "answer"
      PROVE  \E start \in 0..m, k \in Nat :
               start + k <= Len(later) /\ message.entries = EntriesFrom(later, start, k)
  <2>1. PICK start \in 0..n, k \in Nat : start + k <= Len(played) /\ message.entries = EntriesFrom(played, start, k)
    BY <1>2 DEF Comes
  <2>2. \A i \in 1..k : later[start + i] = played[start + i]
    BY <2>1
  <2>3. EntriesFrom(played, start, k) = EntriesFrom(later, start, k)
    BY <2>2 DEF EntriesFrom
  <2> QED
    BY <2>1, <2>3
<1> QED
  BY <1>1, <1>2 DEF Comes

(* Most steps send nothing and show nothing more. *)
LEMMA ShowsLater ==
  ASSUME NEW played \in Seq(Songs), NEW later \in Seq(Songs), Len(played) <= Len(later),
         \A i \in 1..Len(played) : later[i] = played[i],
         NEW n \in Nat, NEW max, NEW list, NEW messages, NEW remain, Shows(played, n, max, list, messages),
         \A c \in Connections : remain[c] = messages[c] \/ remain[c] = Silent
  PROVE  Shows(later, n, max, list, remain)
<1>1. n \in 0..Len(later) /\ max = n - 1 /\ list = [i \in 1..n |-> later[i]]
  <2>1. \A i \in 1..n : later[i] = played[i]
    BY DEF Shows
  <2> QED
    BY <2>1 DEF Shows
<1>2. Comes(later, n, Silent)
  BY DEF Comes, Silent
<1>3. \A c \in Connections : Comes(later, n, messages[c])
  BY ComesLater DEF Shows
<1> QED
  BY <1>1, <1>2, <1>3 DEF Shows

(* The page of an answer. *)
LEMMA ShowsAnswer ==
  ASSUME NEW played \in Seq(Songs), NEW n \in Nat, NEW max, NEW list, NEW messages,
         Shows(played, n, max, list, messages),
         NEW c \in Connections, messages[c].kind = "answer",
         NEW remain, \A d \in Connections : remain[d] = messages[d] \/ remain[d] = Silent
  PROVE  LET shown == AddSongs([max |-> max, songs |-> list], messages[c].entries)
         IN  \E m \in Nat : Shows(played, m, shown.max, shown.songs, remain)
<1>1. PICK start \in 0..n, k \in Nat :
        start + k <= Len(played) /\ messages[c].entries = EntriesFrom(played, start, k)
  BY DEF Shows, Comes
<1> DEFINE m == Reached(n, start, k)
<1>2. Reached(n, start, 0) = n
  BY DEF Reached
<1>3. [max |-> max, songs |-> list] = PageAfter(played, n, start, 0)
  BY <1>2 DEF PageAfter, Shows
<1>4. AddSongs([max |-> max, songs |-> list], messages[c].entries) = PageAfter(played, n, start, k)
  BY <1>1, <1>3, AddSongsAre
<1>5. PageAfter(played, n, start, k) = [max |-> m - 1, songs |-> [i \in 1..m |-> played[i]]]
  BY DEF PageAfter
<1>6. m \in Nat /\ n <= m /\ m \in 0..Len(played)
  BY <1>1 DEF Reached, Shows
<1> HIDE DEF m
<1>7. \A d \in Connections : Comes(played, m, messages[d])
  BY <1>6, ComesLater DEF Shows
<1>8. Comes(played, m, Silent)
  BY DEF Comes, Silent
<1>9. Shows(played, m, m - 1, [i \in 1..m |-> played[i]], remain)
  BY <1>6, <1>7, <1>8 DEF Shows
<1> DEFINE shown == AddSongs([max |-> max, songs |-> list], messages[c].entries)
<1>10. shown.max = m - 1 /\ shown.songs = [i \in 1..m |-> played[i]]
  <2>1. shown = [max |-> m - 1, songs |-> [i \in 1..m |-> played[i]]]
    BY <1>4, <1>5
  <2> HIDE DEF shown
  <2> QED
    BY <2>1
<1> HIDE DEF shown
<1>11. Shows(played, m, shown.max, shown.songs, remain)
  BY <1>9, <1>10
<1> QED
  BY <1>6, <1>11 DEF shown

LEMMA MessagePut ==
  ASSUME ServerTypes, NEW p \in Pages, NEW c \in Connections, NEW message, net' = [net EXCEPT ![p][c] = message]
  PROVE  /\ DOMAIN net' = Pages /\ \A q \in Pages : DOMAIN net'[q] = Connections
         /\ net'[p][c] = message
         /\ \A q \in Pages, d \in Connections : ~(q = p /\ d = c) => net'[q][d] = net[q][d]
         /\ \A q \in Pages : q # p => net'[q] = net[q]
BY DEF ServerTypes

(* A step at a connection that adds no song and shows none: the message that is put there is one that may come. *)
LEMMA MessageKeeps ==
  ASSUME ServerTypes, FreshPagesShow, NEW p \in Pages, NEW c \in Connections, NEW message,
         net' = [net EXCEPT ![p][c] = message],
         message.kind = "vote" => message.category \in Categories /\ message.hash \in Songs,
         \A n \in Nat : Fresh(p) /\ Shows(mHistory, n, maxSongIndex[p], songs[p], net[p]) => Comes(mHistory, n, message),
         UNCHANGED <<serverVars, pageVars>>
  PROVE  ServerTypes' /\ FreshPagesShow'
<1>1. ServerTypes'
  BY MessagePut DEF ServerTypes, serverVars, pageVars
<1>2. ASSUME NEW q \in Pages, Fresh(q)'
      PROVE  ShowsHistory(q)'
  <2>1. Fresh(q)
    BY <1>2 DEF Fresh, serverVars, pageVars
  <2>2. PICK n \in Nat : Shows(mHistory, n, maxSongIndex[q], songs[q], net[q])
    BY <2>1 DEF FreshPagesShow, ShowsHistory
  <2>3. \A d \in Connections : net'[q][d] = net[q][d] \/ (q = p /\ net'[q][d] = message)
    BY MessagePut
  <2>4. \A d \in Connections : Comes(mHistory, n, net'[q][d])
    BY <2>1, <2>2, <2>3 DEF Shows
  <2>5. Shows(mHistory', n, maxSongIndex'[q], songs'[q], net'[q])
    BY <2>2, <2>4 DEF Shows, serverVars, pageVars
  <2> QED
    BY <2>5 DEF ShowsHistory
<1> QED
  BY <1>1, <1>2 DEF FreshPagesShow

LEMMA PollKeepsPages ==
  ASSUME ServerTypes, FreshPagesShow, NEW p \in Pages, NEW c \in Connections, PollPlaylist(p, c)
  PROVE  ServerTypes' /\ FreshPagesShow'
<1> DEFINE message == [kind |-> "playlist", start |-> maxSongIndex[p] + 1]
<1>1. net' = [net EXCEPT ![p][c] = message] /\ UNCHANGED <<serverVars, pageVars>>
  BY DEF PollPlaylist, Send
<1>2. ASSUME NEW n \in Nat, Shows(mHistory, n, maxSongIndex[p], songs[p], net[p])
      PROVE  Comes(mHistory, n, message)
  <2>1. maxSongIndex[p] + 1 \in 0..n
    BY <1>2 DEF Shows
  <2> QED
    BY <2>1 DEF Comes
<1>3. message.kind # "vote"
  OBVIOUS
<1> HIDE DEF message
<1> QED
  BY <1>1, <1>2, <1>3, MessageKeeps

LEMMA VoteKeepsPages ==
  ASSUME ServerTypes, FreshPagesShow, NEW p \in Pages, NEW c \in Connections,
         NEW category \in Categories, NEW hash \in Songs, Vote(p, c, category, hash)
  PROVE  ServerTypes' /\ FreshPagesShow'
<1> DEFINE message == [kind |-> "vote", category |-> category, hash |-> hash]
<1>1. net' = [net EXCEPT ![p][c] = message] /\ UNCHANGED <<serverVars, pageVars>>
  BY DEF Vote, Send
<1>2. \A n \in Nat : Comes(mHistory, n, message)
  BY DEF Comes
<1>3. message.category \in Categories /\ message.hash \in Songs
  OBVIOUS
<1> HIDE DEF message
<1> QED
  BY <1>1, <1>2, <1>3, MessageKeeps

(* What is lost, refused or a vote that has been taken in leaves nothing behind. *)
LEMMA SilenceKeepsPages ==
  ASSUME ServerTypes, FreshPagesShow, NEW p \in Pages, NEW c \in Connections,
         net' = [net EXCEPT ![p][c] = Silent], UNCHANGED <<serverVars, pageVars>>
  PROVE  ServerTypes' /\ FreshPagesShow'
<1>1. \A n \in Nat : Comes(mHistory, n, Silent)
  BY DEF Comes, Silent
<1>2. Silent.kind # "vote"
  BY DEF Silent
<1> QED
  BY <1>1, <1>2, MessageKeeps

LEMMA ApiPlaylistKeepsPages ==
  ASSUME ServerTypes, FreshPagesShow, NEW p \in Pages, NEW c \in Connections, ApiPlaylist(p, c)
  PROVE  ServerTypes' /\ FreshPagesShow'
<1> DEFINE message == [kind |-> "answer", entries |-> Entries(net[p][c].start)]
<1>1. net' = [net EXCEPT ![p][c] = message] /\ UNCHANGED <<serverVars, pageVars>> /\ net[p][c].kind = "playlist"
  BY DEF ApiPlaylist
<1>2. ASSUME NEW n \in Nat, Shows(mHistory, n, maxSongIndex[p], songs[p], net[p])
      PROVE  Comes(mHistory, n, message)
  <2>1. net[p][c].start \in 0..n /\ n <= Len(mHistory)
    BY <1>1, <1>2 DEF Shows, Comes
  <2> DEFINE start == net[p][c].start
             k == Len(mHistory) - start
  <2>2. Len(mHistory) \in Nat
    BY DEF ServerTypes
  <2>3. start \in 0..n /\ k \in Nat /\ start + k <= Len(mHistory)
    BY <2>1, <2>2
  <2>4. message.entries = EntriesFrom(mHistory, start, k)
    BY DEF Entries, EntriesFrom
  <2>5. message.kind # "playlist"
    OBVIOUS
  <2> HIDE DEF start, k, message
  <2> QED
    BY <2>3, <2>4, <2>5 DEF Comes
<1>3. message.kind # "vote"
  OBVIOUS
<1> HIDE DEF message
<1> QED
  BY <1>1, <1>2, <1>3, MessageKeeps

LEMMA AnsweredKeepsPages ==
  ASSUME ServerTypes, FreshPagesShow, NEW p \in Pages, NEW c \in Connections, Answered(p, c)
  PROVE  ServerTypes' /\ FreshPagesShow'
<1> DEFINE shown == AddSongs([max |-> maxSongIndex[p], songs |-> songs[p]], net[p][c].entries)
<1>1. /\ maxSongIndex' = [maxSongIndex EXCEPT ![p] = shown.max] /\ songs' = [songs EXCEPT ![p] = shown.songs]
      /\ net' = [net EXCEPT ![p][c] = Silent] /\ net[p][c].kind = "answer"
      /\ openedIn' = openedIn /\ mHistory' = mHistory /\ run' = run
  BY DEF Answered, serverVars
<1>2. /\ DOMAIN net' = Pages /\ \A q \in Pages : DOMAIN net'[q] = Connections
      /\ \A q \in Pages : q # p => net'[q] = net[q]
      /\ \A q \in Pages, d \in Connections : net'[q][d] = net[q][d] \/ net'[q][d] = Silent
  <2>1. /\ DOMAIN net' = Pages /\ \A q \in Pages : DOMAIN net'[q] = Connections
        /\ net'[p][c] = Silent
        /\ \A q \in Pages, d \in Connections : ~(q = p /\ d = c) => net'[q][d] = net[q][d]
        /\ \A q \in Pages : q # p => net'[q] = net[q]
    BY <1>1, MessagePut
  <2> QED
    BY <2>1
<1>3. Silent.kind # "vote"
  BY DEF Silent
<1>4. ServerTypes'
  BY <1>1, <1>2, <1>3 DEF ServerTypes
<1>5. ASSUME NEW q \in Pages, Fresh(q)'
      PROVE  ShowsHistory(q)'
  <2>1. Fresh(q)
    BY <1>1, <1>5 DEF Fresh
  <2>2. PICK n \in Nat : Shows(mHistory, n, maxSongIndex[q], songs[q], net[q])
    BY <2>1 DEF FreshPagesShow, ShowsHistory
  <2>3. CASE q = p
    <3>1. \E m \in Nat : Shows(mHistory, m, shown.max, shown.songs, net'[p])
      BY <1>1, <1>2, <2>2, <2>3, ShowsAnswer DEF ServerTypes
    <3>2. maxSongIndex'[p] = shown.max /\ songs'[p] = shown.songs
      BY <1>1 DEF ServerTypes
    <3> HIDE DEF shown
    <3> QED
      BY <1>1, <2>3, <3>1, <3>2 DEF ShowsHistory
  <2>4. CASE q # p
    <3>1. maxSongIndex'[q] = maxSongIndex[q] /\ songs'[q] = songs[q] /\ net'[q] = net[q]
      BY <1>1, <1>2, <2>4
    <3> QED
      BY <1>1, <2>2, <3>1 DEF ShowsHistory
  <2> QED
    BY <2>3, <2>4
<1> QED
  BY <1>4, <1>5 DEF FreshPagesShow

(* A page that has just been loaded shows nothing and waits for nothing. *)
LEMMA ReloadKeepsPages ==
  ASSUME ServerTypes, FreshPagesShow, NEW p \in Pages, Reload(p)
  PROVE  ServerTypes' /\ FreshPagesShow'
<1>1. /\ maxSongIndex' = [maxSongIndex EXCEPT ![p] = -1] /\ songs' = [songs EXCEPT ![p] = <<>>]
      /\ openedIn' = [openedIn EXCEPT ![p] = run]
      /\ net' = [net EXCEPT ![p] = [c \in Connections |-> Silent]]
      /\ mHistory' = mHistory /\ run' = run
  BY DEF Reload, NewPage, serverVars
<1>2. Silent.kind # "vote"
  BY DEF Silent
<1>3. ServerTypes'
  BY <1>1, <1>2 DEF ServerTypes
<1>4. ASSUME NEW q \in Pages, Fresh(q)'
      PROVE  ShowsHistory(q)'
  <2>1. CASE q = p
    <3>1. maxSongIndex'[p] = 0 - 1 /\ songs'[p] = [i \in 1..0 |-> mHistory[i]]
      BY <1>1 DEF ServerTypes
    <3>2. \A d \in Connections : net'[p][d] = Silent
      BY <1>1 DEF ServerTypes
    <3>3. Comes(mHistory, 0, Silent)
      BY DEF Comes, Silent
    <3>4. 0 \in 0..Len(mHistory)
      BY DEF ServerTypes
    <3>5. Shows(mHistory, 0, maxSongIndex'[p], songs'[p], net'[p])
      BY <3>1, <3>2, <3>3, <3>4 DEF Shows
    <3> QED
      BY <1>1, <2>1, <3>5 DEF ShowsHistory
  <2>2. CASE q # p
    <3>1. maxSongIndex'[q] = maxSongIndex[q] /\ songs'[q] = songs[q] /\ net'[q] = net[q] /\ openedIn'[q] = openedIn[q]
      BY <1>1, <2>2
    <3>2. Fresh(q)
      BY <1>1, <1>4, <3>1 DEF Fresh
    <3> QED
      BY <1>1, <3>1, <3>2 DEF FreshPagesShow, ShowsHistory
  <2> QED
    BY <2>1, <2>2
<1> QED
  BY <1>3, <1>4 DEF FreshPagesShow

(* A song that is played comes after all that is shown or under way. *)
LEMMA PlaybackKeepsPages ==
  ASSUME ServerTypes, FreshPagesShow, NEW hash \in Songs, StartedPlayback(hash)
  PROVE  ServerTypes' /\ FreshPagesShow'
<1>1. mHistory' = Append(mHistory, hash) /\ run' = run /\ UNCHANGED <<pageVars, net>>
  BY DEF StartedPlayback
<1>2. mHistory \in Seq(Songs)
  BY DEF ServerTypes
<1>3. /\ mHistory' \in Seq(Songs) /\ Len(mHistory) <= Len(mHistory')
      /\ \A i \in 1..Len(mHistory) : mHistory'[i] = mHistory[i]
  BY <1>1, <1>2
<1>4. ServerTypes'
  BY <1>1, <1>3 DEF ServerTypes, pageVars
<1>5. ASSUME NEW q \in Pages, Fresh(q)'
      PROVE  ShowsHistory(q)'
  <2>1. Fresh(q)
    BY <1>1, <1>5 DEF Fresh, pageVars
  <2>2. PICK n \in Nat : Shows(mHistory, n, maxSongIndex[q], songs[q], net[q])
    BY <2>1 DEF FreshPagesShow, ShowsHistory
  <2>3. Shows(mHistory', n, maxSongIndex[q], songs[q], net[q])
    BY <1>2, <1>3, <2>2, ShowsLater
  <2> QED
    BY <1>1, <2>3 DEF ShowsHistory, pageVars
<1> QED
  BY <1>4, <1>5 DEF FreshPagesShow

(* After the program has been started anew no page is fresh. *)
LEMMA RestartKeepsPages ==
  ASSUME ServerTypes, FreshPagesShow, Restart
  PROVE  ServerTypes' /\ FreshPagesShow'
<1>1. /\ run' = run + 1 /\ mHistory' = <<>> /\ UNCHANGED pageVars
      /\ net' = [p \in Pages |-> [c \in Connections |-> IF net[p][c].kind = "answer" THEN net[p][c] ELSE Silent]]
  BY DEF Restart
<1>2. \A p \in Pages : openedIn[p] \in 0..run /\ run \in Nat
  BY DEF ServerTypes
<1>3. \A p \in Pages : openedIn'[p] \in 0..run' /\ ~(openedIn'[p] = run')
  BY <1>1, <1>2 DEF pageVars
<1>4. \A p \in Pages, c \in Connections : net'[p][c].kind # "vote"
  BY <1>1 DEF Silent
<1>5. ServerTypes'
  BY <1>1, <1>2, <1>3, <1>4 DEF ServerTypes, pageVars
<1> QED
  BY <1>3, <1>5 DEF FreshPagesShow, Fresh

LEMMA PagesInductive == ServerTypes /\ FreshPagesShow /\ [ServerNext]_vars => ServerTypes' /\ FreshPagesShow'
<1> SUFFICES ASSUME ServerTypes, FreshPagesShow, [ServerNext]_vars
             PROVE  ServerTypes' /\ FreshPagesShow'
  OBVIOUS
<1>1. ASSUME NEW p \in Pages, Page(p)
      PROVE  ServerTypes' /\ FreshPagesShow'
  <2>1. ASSUME NEW c \in Connections, Lose(p, c)
        PROVE  ServerTypes' /\ FreshPagesShow'
    BY <2>1, SilenceKeepsPages DEF Lose
  <2> QED
    BY <1>1, <2>1, ReloadKeepsPages, PollKeepsPages, AnsweredKeepsPages, VoteKeepsPages DEF Page
<1>2. ASSUME NEW p \in Pages, NEW c \in Connections, Api(p, c) \/ Refuse(p, c)
      PROVE  ServerTypes' /\ FreshPagesShow'
  <2>1. CASE ApiPlaylist(p, c)
    BY <2>1, ApiPlaylistKeepsPages
  <2>2. CASE ApiVote(p, c)
    BY <2>2, SilenceKeepsPages DEF ApiVote
  <2>3. CASE Refuse(p, c)
    BY <2>3, SilenceKeepsPages DEF Refuse
  <2> QED
    BY <1>2, <2>1, <2>2, <2>3 DEF Api
<1>3. CASE mHistory' = mHistory /\ run' = run /\ UNCHANGED <<pageVars, net>>
  BY <1>3 DEF ServerTypes, FreshPagesShow, Fresh, ShowsHistory, pageVars
<1>4. StopServer \/ StartServer => mHistory' = mHistory /\ run' = run /\ UNCHANGED <<pageVars, net>>
  BY DEF StopServer, StartServer
<1>5. UNCHANGED vars => mHistory' = mHistory /\ run' = run /\ UNCHANGED <<pageVars, net>>
  BY DEF vars, pageVars
<1> QED
  BY <1>1, <1>2, <1>3, <1>4, <1>5, PlaybackKeepsPages, RestartKeepsPages DEF ServerNext, Server

LEMMA PagesInit == ServerInit => ServerTypes /\ FreshPagesShow
<1> SUFFICES ASSUME ServerInit PROVE ServerTypes /\ FreshPagesShow
  OBVIOUS
<1>1. /\ mHistory = <<>> /\ run = 1 /\ openedIn = [p \in Pages |-> 1]
      /\ maxSongIndex = [p \in Pages |-> -1] /\ songs = [p \in Pages |-> <<>>]
      /\ net = [p \in Pages |-> [c \in Connections |-> Silent]]
  BY DEF ServerInit, NewPage
<1>2. Silent.kind # "vote" /\ Comes(mHistory, 0, Silent)
  BY DEF Silent, Comes
<1>3. ServerTypes
  BY <1>1, <1>2 DEF ServerTypes
<1>4. ASSUME NEW p \in Pages
      PROVE  ShowsHistory(p)
  <2>1. maxSongIndex[p] = 0 - 1 /\ songs[p] = [i \in 1..0 |-> mHistory[i]] /\ 0 \in 0..Len(mHistory)
    BY <1>1
  <2>2. Shows(mHistory, 0, maxSongIndex[p], songs[p], net[p])
    BY <1>1, <1>2, <2>1 DEF Shows
  <2> QED
    BY <2>2 DEF ShowsHistory
<1> QED
  BY <1>3, <1>4 DEF FreshPagesShow

LEMMA ShownIsPrefix == ServerTypes /\ FreshPagesShow => PagesShowTheHistory
<1> SUFFICES ASSUME ServerTypes, NEW p \in Pages, ShowsHistory(p)
             PROVE  IsPrefix(songs[p], mHistory) /\ maxSongIndex[p] = Len(songs[p]) - 1
  BY DEF FreshPagesShow, PagesShowTheHistory
<1>1. PICK n \in Nat : Shows(mHistory, n, maxSongIndex[p], songs[p], net[p])
  BY DEF ShowsHistory
<1> DEFINE list == songs[p]
<1>2. list = [i \in 1..n |-> mHistory[i]] /\ n <= Len(mHistory) /\ maxSongIndex[p] = n - 1
  BY <1>1 DEF Shows
<1>3. mHistory \in Seq(Songs)
  BY DEF ServerTypes
<1> HIDE DEF list
<1>4. list \in Seq(Songs) /\ Len(list) = n
  BY <1>2, <1>3
<1>5. SubSeq(mHistory, 1, n) = [i \in 1..n |-> mHistory[i]]
  BY <1>2, <1>3
<1>6. SubSeq(list, 1, n) = list
  BY <1>4
<1> QED
  BY <1>2, <1>4, <1>5, <1>6 DEF IsPrefix, list

(***************************************************************************)
(* A page that was loaded since the program was started shows the songs in *)
(* the order in which they were played, none of them twice and none left   *)
(* out (src/res/VoteServer/static/lvs.js:65,                               *)
(* src/src/LocalVoteServer.cpp:315), for any number of pages, connections  *)
(* and songs, and in whatever order the questions are answered.            *)
(***************************************************************************)
THEOREM PagesAlwaysShowTheHistory == ServerSpec => []PagesShowTheHistory
<1> QED
  BY PagesInit, PagesInductive, ShownIsPrefix, PTL DEF ServerSpec

(***************************************************************************)
(* What the server does to the library is what the library allows: every   *)
(* step of it is one of the library's or leaves the library alone, so that *)
(* what is true of the library is true of it behind the server.            *)
(***************************************************************************)
THEOREM ServerUsesTheLibrary == ServerSpec => Spec
<1>1. ServerInit => Init
  BY DEF ServerInit
<1>2. ASSUME ServerTypes, [ServerNext]_vars
      PROVE  [Next]_exchangeVars
  <2>1. ASSUME NEW p \in Pages, NEW c \in Connections, ApiVote(p, c)
        PROVE  Next
    <3>1. net[p][c].category \in Categories /\ net[p][c].hash \in Songs
      BY <1>2, <2>1 DEF ServerTypes, ApiVote
    <3>2. AddVote(Home, net[p][c].category, net[p][c].hash, Value)
      BY <2>1 DEF ApiVote
    <3>3. Home \in Libraries /\ Value \in Values
      BY VoteServerAssumption
    <3> QED
      BY <3>1, <3>2, <3>3 DEF Next
  <2>2. ASSUME NEW hash \in Songs, StartedPlayback(hash)
        PROVE  Next
    BY <2>2, VoteServerAssumption DEF StartedPlayback, Next
  <2>3. ASSUME NEW p \in Pages, Page(p)
        PROVE  UNCHANGED exchangeVars
    BY <2>3 DEF Page, Reload, PollPlaylist, Answered, Lose, Vote
  <2>4. ASSUME NEW p \in Pages, NEW c \in Connections, ApiPlaylist(p, c) \/ Refuse(p, c)
        PROVE  UNCHANGED exchangeVars
    BY <2>4 DEF ApiPlaylist, Refuse
  <2>5. StopServer \/ StartServer \/ Restart => UNCHANGED exchangeVars
    BY DEF StopServer, StartServer, Restart
  <2>6. UNCHANGED vars => UNCHANGED exchangeVars
    BY DEF vars
  <2> QED
    BY <1>2, <2>1, <2>2, <2>3, <2>4, <2>5, <2>6 DEF ServerNext, Server, Api
<1> QED
  BY <1>1, <1>2, PagesInit, PagesInductive, PTL DEF ServerSpec, Spec

-----------------------------------------------------------------------------
(* The dates of what the user set and of when a song was played. *)

LEMMA ReloadedIs ==
  ASSUME NEW d, IsDated(d)
  PROVE  /\ IsDated(Reloaded(d)) /\ Reloaded(d).date = d.date /\ Reloaded(d).present = d.present
         /\ d.present => Reloaded(d) = d
         /\ d = Unset => Reloaded(d) = d
<1>1. CASE d.present
  BY <1>1 DEF IsDated, Reloaded, Unset
<1>2. CASE ~d.present
  <2> DEFINE r == [d EXCEPT !.value = Default]
  <2>1. Reloaded(d) = r
    BY <1>2 DEF Reloaded
  <2>2. r = [present |-> d.present, value |-> Default, date |-> d.date]
    BY DEF IsDated
  <2>3. d.present \in BOOLEAN /\ d.date \in Nat
    BY DEF IsDated
  <2> HIDE DEF r
  <2>4. r.present = d.present /\ r.value = Default /\ r.date = d.date
    BY <2>2
  <2>5. d = Unset => r = d
    <3>1. d = Unset => d.present = FALSE /\ d.date = 0
      BY DEF Unset
    <3> QED
      BY <2>2, <3>1 DEF Unset
  <2>6. IsDated(r)
    BY <2>2, <2>3, <2>4 DEF IsDated
  <2> QED
    BY <1>2, <2>1, <2>4, <2>5, <2>6
<1> QED
  BY <1>1, <1>2 DEF IsDated

LEMMA UpdatedIs ==
  ASSUME NEW own, NEW other, IsDated(own), IsDated(other)
  PROVE  LET u == UpdatedIfNewer(own, other)
         IN  /\ IsDated(u)
             /\ other.date = 0 \/ own.date > other.date => u = own
             /\ ~(other.date = 0 \/ own.date > other.date) =>
                  u.present /\ u.date = other.date /\ u.value = other.value /\ (other.present => u = other)
<1>1. CASE other.date = 0 \/ own.date > other.date
  BY <1>1 DEF UpdatedIfNewer
<1>2. CASE ~(other.date = 0 \/ own.date > other.date)
  <2> DEFINE u == [other EXCEPT !.present = TRUE]
  <2>1. UpdatedIfNewer(own, other) = u
    BY <1>2 DEF UpdatedIfNewer
  <2>2. other = [present |-> other.present, value |-> other.value, date |-> other.date] /\ other.date \in Nat
    BY DEF IsDated
  <2>3. u = [present |-> TRUE, value |-> other.value, date |-> other.date]
    <3> DEFINE r == [present |-> other.present, value |-> other.value, date |-> other.date]
    <3>1. u = [r EXCEPT !.present = TRUE]
      BY <2>2, Zenon
    <3>2. ASSUME NEW answer
          PROVE  [r EXCEPT !.present = answer] = [present |-> answer, value |-> other.value, date |-> other.date]
      OBVIOUS
    <3> QED
      BY <3>1, <3>2, Zenon
  <2> HIDE DEF u
  <2>4. u.present = TRUE /\ u.value = other.value /\ u.date = other.date
    BY <2>3
  <2>5. IsDated(u)
    BY <2>2, <2>3, <2>4 DEF IsDated
  <2>6. other.present => u = other
    <3>1. other.present \in BOOLEAN
      BY DEF IsDated
    <3>2. other.present => other.present = TRUE
      BY <3>1
    <3> QED
      BY <2>2, <2>3, <3>2
  <2> QED
    BY <1>2, <2>1, <2>4, <2>5, <2>6
<1> QED
  BY <1>1, <1>2

(* A value that was never set has no date, and one that has a date was not cleared. *)
IsKept(d) == IsDated(d) /\ (d.date = 0 => d = Unset) /\ (d.date # 0 => d.present)

(* Two libraries that take a value from each other end with the one that was set last. *)
LEMMA ExchangeAgrees ==
  ASSUME NEW own, NEW other, IsKept(own), IsKept(other)
  PROVE  LET mine == UpdatedIfNewer(own, Reloaded(other))
             theirs == UpdatedIfNewer(other, Reloaded(mine))
         IN  /\ mine = theirs /\ mine \in {own, other}
             /\ own.date <= mine.date /\ other.date <= mine.date
<1> DEFINE mine == UpdatedIfNewer(own, Reloaded(other))
           theirs == UpdatedIfNewer(other, Reloaded(mine))
<1>1. ASSUME NEW d, IsKept(d)
      PROVE  Reloaded(d) = d
  BY <1>1, ReloadedIs DEF IsKept
<1>2. Reloaded(other) = other /\ Reloaded(own) = own
  BY <1>1
<1>3. own.date \in Nat /\ other.date \in Nat
  BY DEF IsKept, IsDated
<1>4. /\ other.date = 0 \/ own.date > other.date => mine = own
      /\ ~(other.date = 0 \/ own.date > other.date) => mine = other
  BY <1>2, UpdatedIs DEF IsKept
<1>5. theirs = UpdatedIfNewer(other, mine)
  <2> HIDE DEF mine
  <2>1. mine = own \/ mine = other
    BY <1>4
  <2> QED
    BY <1>2, <2>1
<1> HIDE DEF mine, theirs
<1>6. CASE other.date = 0 \/ own.date > other.date
  <2>1. mine = own
    BY <1>4, <1>6
  <2>2. CASE own.date = 0
    <3>1. other.date = 0
      BY <1>3, <1>6, <2>2
    <3>2. own = Unset /\ other = Unset
      BY <2>2, <3>1 DEF IsKept
    <3>3. theirs = other
      BY <1>5, <2>1, <2>2, UpdatedIs DEF IsKept
    <3> QED
      BY <1>3, <2>1, <2>2, <3>1, <3>2, <3>3 DEF mine, theirs
  <2>3. CASE own.date # 0
    <3>1. ~(own.date = 0 \/ other.date > own.date) /\ own.present
      BY <1>3, <1>6, <2>3 DEF IsKept
    <3>2. theirs = own
      BY <1>5, <2>1, <3>1, UpdatedIs DEF IsKept
    <3>3. other.date <= own.date
      BY <1>3, <1>6
    <3> QED
      BY <1>3, <2>1, <3>2, <3>3 DEF mine, theirs
  <2> QED
    BY <2>2, <2>3
<1>7. CASE ~(other.date = 0 \/ own.date > other.date)
  <2>1. mine = other
    BY <1>4, <1>7
  <2>2. ~(other.date = 0 \/ other.date > other.date) /\ other.present
    BY <1>3, <1>7 DEF IsKept
  <2>3. theirs = other
    BY <1>5, <2>1, <2>2, UpdatedIs DEF IsKept
  <2>4. own.date <= other.date
    BY <1>3, <1>7
  <2> QED
    BY <1>3, <2>1, <2>3, <2>4 DEF mine, theirs
<1> QED
  BY <1>6, <1>7

(* The clocks of the libraries are at most a day apart. *)
ClocksAgree == \A lib, other \in Libraries : Skew[lib] <= Skew[other] + 1

(* What a library keeps of a song: a cleared value keeps its date, a song that was played keeps when, and   *)
(* no clock takes that for later than the next day.                                                          *)
SongDated(song, today) ==
  /\ IsDated(song.manual) /\ (song.manual.date = 0 => song.manual = Unset)
  /\ IsKept(song.lastPlayed)
  /\ \A lib \in Libraries : song.lastPlayed.date <= today + Skew[lib] + 1

SongsDated == \A lib \in Libraries : \A hash \in Known[lib] : SongDated(shared[lib][hash], day)

LEMMA LaterStillDated ==
  ASSUME LibraryExchangeAssumption, NEW song, NEW today \in Nat, SongDated(song, today)
  PROVE  SongDated(song, today + 1)
<1>1. song.lastPlayed.date \in Nat
  BY DEF SongDated, IsKept, IsDated
<1>2. \A lib \in Libraries : Skew[lib] \in Nat
  BY DEF LibraryExchangeAssumption
<1>3. \A lib \in Libraries : song.lastPlayed.date <= (today + 1) + Skew[lib] + 1
  BY <1>1, <1>2 DEF SongDated
<1> QED
  BY <1>3 DEF SongDated

(* A step that begins a day and leaves all songs but one alone. *)
LEMMA OneSongDated ==
  ASSUME ExchangeTypes, SongsDated, NEW lib \in Libraries, NEW hash \in Known[lib], NEW new,
         shared' = [shared EXCEPT ![lib] = [shared[lib] EXCEPT ![hash] = new]],
         day' = day + 1, SongDated(new, day + 1)
  PROVE  SongsDated'
<1>1. \A l \in Libraries : \A h \in Known[l] :
        shared'[l][h] = IF l = lib /\ h = hash THEN new ELSE shared[l][h]
  <2>1. /\ shared'[lib] = [shared[lib] EXCEPT ![hash] = new]
        /\ \A l \in Libraries : l # lib => shared'[l] = shared[l]
    BY DEF ExchangeTypes
  <2>2. \A h \in Known[lib] : shared'[lib][h] = IF h = hash THEN new ELSE shared[lib][h]
    BY <2>1 DEF ExchangeTypes
  <2> QED
    BY <2>1, <2>2
<1>2. \A l \in Libraries : \A h \in Known[l] : SongDated(shared[l][h], day + 1)
  BY LaterStillDated, LibraryExchangeAssumption DEF SongsDated, ExchangeTypes
<1>3. \A l \in Libraries : \A h \in Known[l] : SongDated(shared'[l][h], day')
  BY <1>1, <1>2
<1> QED
  BY <1>3 DEF SongsDated, SongDated

LEMMA NoSongDated ==
  ASSUME ExchangeTypes, SongsDated, shared' = shared, day' = day + 1 \/ day' = day
  PROVE  SongsDated'
<1> SUFFICES ASSUME NEW l \in Libraries, NEW h \in Known[l]
             PROVE  SongDated(shared'[l][h], day')
  BY DEF SongsDated, SongDated
<1>1. SongDated(shared[l][h], day + 1)
  BY LaterStillDated, LibraryExchangeAssumption DEF SongsDated, ExchangeTypes
<1>2. SongDated(shared[l][h], day)
  BY DEF SongsDated
<1> QED
  BY <1>1, <1>2

LEMMA DatedIs ==
  ASSUME NEW value, NEW date \in Nat
  PROVE  /\ Dated(value, date).present = TRUE /\ Dated(value, date).value = value /\ Dated(value, date).date = date
         /\ IsDated(Dated(value, date))
         /\ IsDated(Unset) /\ Unset.date = 0 /\ Unset.present = FALSE
<1>1. /\ Dated(value, date).present = TRUE /\ Dated(value, date).value = value /\ Dated(value, date).date = date
      /\ Unset.date = 0 /\ Unset.present = FALSE /\ Unset.value = Default
  BY DEF Dated, Unset
<1>2. /\ Dated(value, date) = [present |-> TRUE, value |-> value, date |-> date]
      /\ Unset = [present |-> FALSE, value |-> Default, date |-> 0]
  BY DEF Dated, Unset
<1> QED
  BY <1>1, <1>2 DEF IsDated

LEMMA PlaybackKeepsDates ==
  ASSUME ClocksAgree, ExchangeTypes, SongsDated,
         NEW lib \in Libraries, NEW hash \in Songs, SongPlaybackStarted(lib, hash)
  PROVE  SongsDated'
<1> DEFINE old == shared[lib][hash]
           dated == Dated(Tomorrow(lib), Tomorrow(lib))
           new == [old EXCEPT !.lastPlayed = dated]
<1>1. /\ hash \in Known[lib] /\ day' = day + 1
      /\ shared' = [shared EXCEPT ![lib] = [shared[lib] EXCEPT ![hash] = new]]
  BY DEF SongPlaybackStarted, DayBegins
<1>2. DOMAIN old = {"manual", "lastPlayed", "rating"} /\ SongDated(old, day + 1) /\ day \in Nat
  BY <1>1, LaterStillDated, LibraryExchangeAssumption DEF ExchangeTypes, SongsDated
<1>3. \A other \in Libraries : Skew[other] \in Nat /\ Skew[lib] \in Nat
  BY LibraryExchangeAssumption DEF LibraryExchangeAssumption
<1>4. /\ Tomorrow(lib) = day + Skew[lib] + 1 /\ Tomorrow(lib) \in Nat /\ Tomorrow(lib) # 0
      /\ \A other \in Libraries : Tomorrow(lib) <= (day + 1) + Skew[other] + 1
  BY <1>2, <1>3 DEF Tomorrow, Now, ClocksAgree
<1>5. dated.date = Tomorrow(lib) /\ dated.present /\ IsDated(dated)
  BY <1>4, DatedIs
<1> HIDE DEF old, dated
<1>6. new.lastPlayed = dated /\ new.manual = old.manual
  BY <1>2
<1>7. SongDated(new, day + 1)
  <2> HIDE DEF new
  <2>1. IsKept(dated) /\ \A other \in Libraries : dated.date <= (day + 1) + Skew[other] + 1
    BY <1>4, <1>5 DEF IsKept
  <2> QED
    BY <1>2, <1>6, <2>1 DEF SongDated
<1> HIDE DEF new
<1> QED
  BY <1>1, <1>7, OneSongDated

LEMMA ManualKeepsDates ==
  ASSUME ExchangeTypes, SongsDated, NEW lib \in Libraries, NEW hash \in Known[lib], NEW dated,
         shared' = [shared EXCEPT ![lib][hash].manual = dated], day' = day + 1,
         IsDated(dated), dated.date = 0 => dated = Unset
  PROVE  SongsDated'
<1> DEFINE old == shared[lib][hash]
           new == [old EXCEPT !.manual = dated]
<1>1. shared' = [shared EXCEPT ![lib] = [shared[lib] EXCEPT ![hash] = new]]
  OBVIOUS
<1>2. DOMAIN old = {"manual", "lastPlayed", "rating"} /\ SongDated(old, day + 1)
  BY LaterStillDated, LibraryExchangeAssumption DEF ExchangeTypes, SongsDated
<1> HIDE DEF old
<1>3. new.manual = dated /\ new.lastPlayed = old.lastPlayed
  BY <1>2
<1> HIDE DEF new
<1>4. SongDated(new, day + 1)
  BY <1>2, <1>3 DEF SongDated
<1> QED
  BY <1>1, <1>4, OneSongDated

LEMMA ClearedIs ==
  ASSUME NEW d, IsDated(d), d.date = 0 => d = Unset
  PROVE  IsDated(Cleared(d)) /\ (Cleared(d).date = 0 => Cleared(d) = Unset)
<1>1. /\ Cleared(d) = [present |-> FALSE, value |-> d.value, date |-> d.date]
      /\ d = [present |-> d.present, value |-> d.value, date |-> d.date]
  <2> DEFINE r == [present |-> d.present, value |-> d.value, date |-> d.date]
  <2>1. d = r
    BY DEF IsDated
  <2>2. Cleared(d) = [r EXCEPT !.present = FALSE]
    BY <2>1, Zenon DEF Cleared
  <2>3. ASSUME NEW answer
        PROVE  [r EXCEPT !.present = answer] = [present |-> answer, value |-> d.value, date |-> d.date]
    OBVIOUS
  <2> QED
    BY <2>1, <2>2, <2>3, Zenon
<1> DEFINE c == Cleared(d)
<1>2. d.date \in Nat /\ (d.date = 0 => d.value = Default)
  BY DEF IsDated, Unset
<1> HIDE DEF c
<1>3. c = [present |-> FALSE, value |-> d.value, date |-> d.date]
  BY <1>1 DEF c
<1>4. c.present = FALSE /\ c.value = d.value /\ c.date = d.date
  BY <1>3
<1>5. IsDated(c)
  BY <1>2, <1>3, <1>4 DEF IsDated
<1>6. c.date = 0 => c = Unset
  BY <1>2, <1>3, <1>4 DEF Unset
<1> QED
  BY <1>5, <1>6 DEF c

LEMMA VoteKeepsDates ==
  ASSUME ExchangeTypes, SongsDated,
         NEW lib \in Libraries, NEW c \in Categories, NEW hash \in Songs, NEW value, AddVote(lib, c, hash, value)
  PROVE  SongsDated'
<1> DEFINE table == Append(votes[lib][c], [time |-> Tomorrow(lib), hash |-> hash, value |-> value])
           dated == Dated(AverageOf(table, hash), Tomorrow(lib))
           old == shared[lib][hash]
           new == [old EXCEPT !.rating = [old.rating EXCEPT ![c] = dated]]
<1>1. /\ day' = day + 1
      /\ IF hash \in Known[lib] THEN shared' = [shared EXCEPT ![lib][hash].rating[c] = dated] ELSE UNCHANGED shared
  BY DEF AddVote, DayBegins
<1> HIDE DEF dated
<1>2. CASE hash \in Known[lib]
  <2>1. shared' = [shared EXCEPT ![lib] = [shared[lib] EXCEPT ![hash] = new]]
    BY <1>1, <1>2
  <2>2. DOMAIN old = {"manual", "lastPlayed", "rating"} /\ SongDated(old, day + 1)
    BY <1>2, LaterStillDated, LibraryExchangeAssumption DEF ExchangeTypes, SongsDated
  <2> HIDE DEF old
  <2>3. new.manual = old.manual /\ new.lastPlayed = old.lastPlayed
    BY <2>2
  <2> HIDE DEF new
  <2>4. SongDated(new, day + 1)
    BY <2>2, <2>3 DEF SongDated
  <2> QED
    BY <1>1, <1>2, <2>1, <2>4, OneSongDated
<1>3. CASE hash \notin Known[lib]
  BY <1>1, <1>3, NoSongDated
<1> QED
  BY <1>2, <1>3

LEMMA ImportKeepsDates ==
  ASSUME ExchangeTypes, SongsDated,
         NEW to \in Libraries, NEW from \in Libraries, NEW options, Import(to, from, options)
  PROVE  SongsDated'
<1>1. day' = day
  BY DEF Import
<1>2. ASSUME NEW own, NEW other, SongDated(own, day), SongDated(other, day)
      PROVE  LET manual == ManualMerged(own, other, options)
                 lastPlayed == LastPlayedMerged(own, other, options)
             IN  /\ IsDated(manual) /\ (manual.date = 0 => manual = Unset)
                 /\ IsKept(lastPlayed)
                 /\ \A lib \in Libraries : lastPlayed.date <= day + Skew[lib] + 1
  <2> DEFINE m == Reloaded(other.manual)
             played == Reloaded(other.lastPlayed)
  <2>1. IsDated(own.manual) /\ IsDated(m) /\ IsDated(own.lastPlayed) /\ IsDated(played)
    BY <1>2, ReloadedIs DEF SongDated, IsKept
  <2>2. played.date = other.lastPlayed.date
    BY <1>2, ReloadedIs DEF SongDated, IsKept
  <2> HIDE DEF m, played
  <2> DEFINE manual == UpdatedIfNewer(own.manual, m)
             lastPlayed == UpdatedIfNewer(own.lastPlayed, played)
  <2>3. IsDated(manual) /\ IsDated(lastPlayed)
    BY <2>1, UpdatedIs
  <2>4. manual = own.manual \/ (manual.date # 0)
    BY <2>1, UpdatedIs
  <2>5. lastPlayed = own.lastPlayed \/ (lastPlayed.present /\ lastPlayed.date # 0 /\ lastPlayed.date = played.date)
    BY <2>1, UpdatedIs
  <2> HIDE DEF manual, lastPlayed
  <2>6. manual.date = 0 => manual = Unset
    BY <1>2, <2>4 DEF SongDated
  <2>7. IsKept(lastPlayed) /\ \A lib \in Libraries : lastPlayed.date <= day + Skew[lib] + 1
    BY <1>2, <2>2, <2>3, <2>5 DEF SongDated, IsKept
  <2>8. ManualMerged(own, other, options) = manual \/ ManualMerged(own, other, options) = own.manual
    BY DEF ManualMerged, manual, m
  <2>9. LastPlayedMerged(own, other, options) = lastPlayed \/ LastPlayedMerged(own, other, options) = own.lastPlayed
    BY DEF LastPlayedMerged, lastPlayed, played
  <2> QED
    BY <1>2, <2>3, <2>6, <2>7, <2>8, <2>9 DEF SongDated
<1>3. ASSUME NEW h \in Known[to]
      PROVE  SongDated(shared'[to][h], day)
  <2>1. SongDated(shared[to][h], day)
    BY DEF SongsDated
  <2>2. CASE h \in Known[from]
    <3>1. SongDated(shared[from][h], day)
      BY <2>2 DEF SongsDated
    <3>2. /\ shared'[to][h].manual = ManualMerged(shared[to][h], shared[from][h], options)
          /\ shared'[to][h].lastPlayed = LastPlayedMerged(shared[to][h], shared[from][h], options)
      BY <2>2, ImportedAre
    <3> QED
      BY <1>2, <2>1, <3>1, <3>2 DEF SongDated
  <2>3. CASE h \notin Known[from]
    <3>1. shared'[to][h].manual = shared[to][h].manual /\ shared'[to][h].lastPlayed = shared[to][h].lastPlayed
      BY <2>3, ImportedAre
    <3> QED
      BY <2>1, <3>1 DEF SongDated
  <2> QED
    BY <2>2, <2>3
<1>4. \A l \in Libraries : l # to => shared'[l] = shared[l]
  BY ImportedAre
<1>5. \A l \in Libraries : \A h \in Known[l] : SongDated(shared'[l][h], day')
  BY <1>1, <1>3, <1>4 DEF SongsDated
<1> QED
  BY <1>5 DEF SongsDated, SongDated

LEMMA DatesInductive ==
  ASSUME ClocksAgree, ExchangeTypes, SongsDated, [Next]_exchangeVars
  PROVE  SongsDated'
<1>1. ASSUME NEW lib \in Libraries, NEW hash \in Songs, RemoveSong(lib, hash)
      PROVE  SongsDated'
  BY <1>1, NoSongDated DEF RemoveSong, DayBegins
<1>2. ASSUME NEW lib \in Libraries, NEW hash \in Songs, ClearManual(lib, hash)
      PROVE  SongsDated'
  <2> DEFINE dated == Cleared(shared[lib][hash].manual)
  <2>1. hash \in Known[lib] /\ shared' = [shared EXCEPT ![lib][hash].manual = dated] /\ day' = day + 1
    BY <1>2 DEF ClearManual, DayBegins
  <2>2. IsDated(dated) /\ (dated.date = 0 => dated = Unset)
    BY <2>1, ClearedIs DEF SongsDated, SongDated
  <2> HIDE DEF dated
  <2> QED
    BY <2>1, <2>2, ManualKeepsDates
<1>3. ASSUME NEW lib \in Libraries, NEW hash \in Songs, NEW value \in Values, SetManual(lib, hash, value)
      PROVE  SongsDated'
  <2> DEFINE dated == Dated(value, Tomorrow(lib))
  <2>1. hash \in Known[lib] /\ shared' = [shared EXCEPT ![lib][hash].manual = dated] /\ day' = day + 1
    BY <1>3 DEF SetManual, DayBegins
  <2>2. Tomorrow(lib) \in Nat /\ Tomorrow(lib) # 0
    <3>1. Skew[lib] \in Nat /\ day \in Nat
      BY LibraryExchangeAssumption DEF LibraryExchangeAssumption, ExchangeTypes
    <3> QED
      BY <3>1 DEF Tomorrow, Now
  <2>3. IsDated(dated) /\ dated.date # 0
    BY <2>2, DatedIs
  <2> HIDE DEF dated
  <2> QED
    BY <2>1, <2>3, ManualKeepsDates
<1>4. ASSUME NEW lib \in Libraries, ClearRemovedSongs(lib)
      PROVE  SongsDated'
  BY <1>4, NoSongDated DEF ClearRemovedSongs
<1>5. CASE UNCHANGED exchangeVars
  BY <1>5, NoSongDated DEF exchangeVars
<1> QED
  BY <1>1, <1>2, <1>3, <1>4, <1>5, PlaybackKeepsDates, VoteKeepsDates, ImportKeepsDates DEF Next

LEMMA DatesInit ==
  ASSUME Init
  PROVE  SongsDated
<1> SUFFICES ASSUME NEW lib \in Libraries, NEW hash \in Known[lib]
             PROVE  SongDated(shared[lib][hash], day)
  BY DEF SongsDated
<1>1. shared[lib][hash].manual = Unset /\ shared[lib][hash].lastPlayed = Unset /\ day = 0
  BY DEF Init
<1>2. IsDated(Unset) /\ Unset.date = 0 /\ 0 \in Nat
  BY DatedIs
<1>3. \A other \in Libraries : 0 <= 0 + Skew[other] + 1
  BY LibraryExchangeAssumption DEF LibraryExchangeAssumption
<1> QED
  BY <1>1, <1>2, <1>3 DEF SongDated, IsKept

(* Of a dividend that is at most m times the divisor. *)
LEMMA DivBounds ==
  ASSUME NEW a \in Nat, NEW b \in Nat, b > 0, NEW m \in Nat, a <= m * b
  PROVE  a \div b \in 0..m
<1> DEFINE q == a \div b
<1>1. q \in Int /\ q * b <= a /\ a < (q + 1) * b
  OBVIOUS
<1>2. q >= 0
  <2> SUFFICES ASSUME q + 1 <= 0 PROVE FALSE
    BY <1>1
  <2>1. (q + 1) * b <= 0
    BY <1>1
  <2> QED
    BY <1>1, <2>1
<1>3. q <= m
  <2> SUFFICES ASSUME q - m >= 1 PROVE FALSE
    BY <1>1
  <2>1. (q - m) * b > 0
    BY <1>1
  <2>2. (q - m) * b = q * b - m * b
    BY <1>1
  <2> QED
    BY <1>1, <2>1, <2>2
<1> QED
  BY <1>1, <1>2, <1>3

LEMMA WeightIs ==
  ASSUME NEW days \in Int, days + 1 \in Nat
  PROVE  WeightDefined(days)
<1> DEFINE a == 10000 * (days + 1)
           b == days + 2
           m == 10000
<1>1. a \in Nat /\ b \in Nat /\ b > 0 /\ m \in Nat /\ a <= m * b
  OBVIOUS
<1>2. Divisor(days) = b
  BY DEF Divisor
<1>3. Penalized(days) = a \div b
  BY DEF Penalized, Divisor
<1>4. WeightDefined(days) <=> Divisor(days) > 0 /\ Penalized(days) \in 0..m
  BY DEF WeightDefined
<1> HIDE DEF a, b, m
<1>5. a \div b \in 0..m
  BY <1>1, DivBounds
<1> QED
  BY <1>1, <1>2, <1>3, <1>4, <1>5

LEMMA WeightsAre ==
  ASSUME ExchangeTypes, SongsDated
  PROVE  WeightsDefined
<1> SUFFICES ASSUME NEW lib \in Libraries, NEW hash \in Known[lib]
             PROVE  WeightDefined(NumDays(lib, hash))
  BY DEF WeightsDefined
<1>1. SongDated(shared[lib][hash], day)
  BY DEF SongsDated
<1>2. Skew[lib] \in Nat /\ day \in Nat
  BY LibraryExchangeAssumption DEF LibraryExchangeAssumption, ExchangeTypes
<1>3. shared[lib][hash].lastPlayed.date \in Nat /\ shared[lib][hash].lastPlayed.date <= day + Skew[lib] + 1
  BY <1>1 DEF SongDated, IsKept, IsDated
<1>4. NumDays(lib, hash) \in Int /\ NumDays(lib, hash) + 1 \in Nat
  BY <1>2, <1>3 DEF NumDays, Now
<1> QED
  BY <1>4, WeightIs

LEMMA ExchangesConverge ==
  ASSUME ExchangeTypes, SongsDated
  PROVE  ExchangeConverges
<1> SUFFICES ASSUME NEW lib \in Libraries, NEW other \in Libraries
             PROVE  LET mine == SharedMerged(shared[lib], shared[other], Options, <<>>)
                        theirs == SharedMerged(shared[other], mine, Options, <<>>)
                    IN  \A hash \in Known[lib] \cap Known[other] :
                          LET old == {shared[lib][hash].manual, shared[other][hash].manual}
                          IN  /\ mine[hash].lastPlayed = theirs[hash].lastPlayed
                              /\ (\A dated \in old : dated.date = 0 \/ dated.present) =>
                                   /\ mine[hash].manual = theirs[hash].manual /\ mine[hash].manual \in old
                                   /\ \A dated \in old : dated.date <= mine[hash].manual.date
  BY DEF ExchangeConverges
<1> DEFINE mine == SharedMerged(shared[lib], shared[other], Options, <<>>)
           theirs == SharedMerged(shared[other], mine, Options, <<>>)
<1>1. DOMAIN shared[lib] = Known[lib] /\ DOMAIN shared[other] = Known[other]
  BY DEF ExchangeTypes
<1>2. DOMAIN mine = Known[lib]
  BY <1>1 DEF SharedMerged
<1>3. ASSUME NEW hash \in Known[lib] \cap Known[other]
      PROVE  LET old == {shared[lib][hash].manual, shared[other][hash].manual}
             IN  /\ mine[hash].lastPlayed = theirs[hash].lastPlayed
                 /\ (\A dated \in old : dated.date = 0 \/ dated.present) =>
                      /\ mine[hash].manual = theirs[hash].manual /\ mine[hash].manual \in old
                      /\ \A dated \in old : dated.date <= mine[hash].manual.date
  <2> DEFINE a == shared[lib][hash]
             b == shared[other][hash]
  <2>1. /\ mine[hash].manual = UpdatedIfNewer(a.manual, Reloaded(b.manual))
        /\ mine[hash].lastPlayed = UpdatedIfNewer(a.lastPlayed, Reloaded(b.lastPlayed))
    <3>1. hash \in DOMAIN shared[lib] /\ hash \in DOMAIN shared[other]
      BY <1>1
    <3>2. /\ mine[hash].manual = ManualMerged(a, b, Options)
          /\ mine[hash].lastPlayed = LastPlayedMerged(a, b, Options)
      BY <3>1, SharedMergedIs
    <3> QED
      BY <3>2 DEF ManualMerged, LastPlayedMerged, Options
  <2>2. /\ theirs[hash].manual = UpdatedIfNewer(b.manual, Reloaded(mine[hash].manual))
        /\ theirs[hash].lastPlayed = UpdatedIfNewer(b.lastPlayed, Reloaded(mine[hash].lastPlayed))
    <3> HIDE DEF mine
    <3>1. hash \in DOMAIN shared[other] /\ hash \in DOMAIN mine
      BY <1>1, <1>2
    <3>2. /\ theirs[hash].manual = ManualMerged(b, mine[hash], Options)
          /\ theirs[hash].lastPlayed = LastPlayedMerged(b, mine[hash], Options)
      BY <3>1, SharedMergedIs
    <3> QED
      BY <3>2 DEF ManualMerged, LastPlayedMerged, Options
  <2>3. SongDated(a, day) /\ SongDated(b, day)
    BY DEF SongsDated
  <2> HIDE DEF mine, theirs, a, b
  <2>4. mine[hash].lastPlayed = theirs[hash].lastPlayed
    BY <2>1, <2>2, <2>3, ExchangeAgrees DEF SongDated
  <2>5. ASSUME \A dated \in {a.manual, b.manual} : dated.date = 0 \/ dated.present
        PROVE  /\ mine[hash].manual = theirs[hash].manual /\ mine[hash].manual \in {a.manual, b.manual}
               /\ \A dated \in {a.manual, b.manual} : dated.date <= mine[hash].manual.date
    <3>1. IsKept(a.manual) /\ IsKept(b.manual)
      BY <2>3, <2>5 DEF SongDated, IsKept
    <3> QED
      BY <2>1, <2>2, <3>1, ExchangeAgrees
  <2> QED
    BY <2>4, <2>5 DEF a, b
<1> QED
  BY <1>3

(***************************************************************************)
(* What two libraries take from each other they agree on afterwards, and   *)
(* it is what was set last (src/src/DatedOptional.hpp:256); and a date     *)
(* that came from the other library divides by no zero                     *)
(* (src/src/DB/Database.cpp:1946) - for any libraries and any number of    *)
(* days, as long as their clocks are at most a day apart.                  *)
(***************************************************************************)
THEOREM DatesAlwaysCarryOver == ClocksAgree => (Spec => []DatesCarryOver)
<1> SUFFICES ASSUME ClocksAgree PROVE Spec => []DatesCarryOver
  OBVIOUS
<1> DEFINE I == ExchangeTypes /\ RatingsAsCast /\ SongsDated
<1>1. Init => I
  BY InitTypes, RatingsInit, DatesInit
<1>2. I /\ [Next]_exchangeVars => I'
  BY RatingsInductive, DatesInductive
<1>3. I => DatesCarryOver
  BY WeightsAre, ExchangesConverge DEF DatesCarryOver
<1> HIDE DEF I
<1> QED
  BY <1>1, <1>2, <1>3, PTL DEF Spec
===============================================================================
