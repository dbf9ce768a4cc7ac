--------------------------- MODULE PlaylistProofs ---------------------------
(***************************************************************************)
(* Proofs about Playlist.tla, for every list: edits leave the current item *)
(* the current one (EditsNeverMoveCurrent), drags gather the dragged rows  *)
(* and nothing is in the list twice (RowsAlwaysWhole), what has been       *)
(* played keeps its times (HistoryNeverRewritten), and what is yet to be   *)
(* played is scheduled back to back (DueTimesAlwaysAddUp).                 *)
(*                                                                         *)
(* A drag moves its rows one by one.  Each move changes what the rows and  *)
(* the destination mean; what the moves do not change is which items are   *)
(* to precede which at the end (DropOneKeepsOrder).  With no row left to   *)
(* move, that is the order of the list.                                    *)
(*                                                                         *)
(* The operations that loop are recursive functions; RecursionExists says  *)
(* that there is such a function, RangeInduction what it computes.         *)
(*                                                                         *)
(* The last part is about Party.tla: with the songs picked at random, the  *)
(* index stays with the track and the music goes on (PartyAlwaysGoesOn).   *)
(***************************************************************************)
EXTENDS Playlist, Party, SequenceTheorems, FiniteSetTheorems, TLAPS

-----------------------------------------------------------------------------
(* Each item of a playlist is one of the items. *)
LEMMA ItemAtType ==
  ASSUME NEW S, NEW p \in Playlists(S), NEW i \in Nat, IsValidIndex(p, i)
  PROVE  ItemAt(p, i) \in S
BY DEF Playlists, IsValidIndex, ItemAt, Size

LEMMA AddType ==
  ASSUME NEW S, NEW p \in Playlists(S), NEW t \in S
  PROVE  AddItem(p, t) \in Playlists(S)
BY DEF Playlists, AddItem

(* Sequences with an element inserted or removed, index by index. *)
LEMMA InsertAtElements ==
  ASSUME NEW S, NEW s \in Seq(S), NEW k \in 1..(Len(s) + 1), NEW e \in S
  PROVE  /\ InsertAt(s, k, e) \in Seq(S)
         /\ Len(InsertAt(s, k, e)) = Len(s) + 1
         /\ \A j \in 1..(Len(s) + 1) :
              InsertAt(s, k, e)[j] = IF j < k THEN s[j] ELSE IF j = k THEN e ELSE s[j - 1]
<1> DEFINE left == SubSeq(s, 1, k - 1)
           right == SubSeq(s, k, Len(s))
<1>1. /\ left \in Seq(S) /\ Len(left) = k - 1
      /\ \A j \in 1..(k - 1) : left[j] = s[j]
  BY SubSeqProperties
<1>2. /\ right \in Seq(S) /\ Len(right) = Len(s) - k + 1
      /\ \A j \in 1..(Len(s) - k + 1) : right[j] = s[k + j - 1]
  BY SubSeqProperties
<1> DEFINE start == left \o <<e>>
<1>3. /\ start \in Seq(S) /\ Len(start) = k
      /\ \A j \in 1..k : start[j] = IF j < k THEN s[j] ELSE e
  <2>1. <<e>> \in Seq(S) /\ Len(<<e>>) = 1 /\ <<e>>[1] = e
    OBVIOUS
  <2> HIDE DEF left
  <2> QED
    BY <1>1, <2>1, ConcatProperties
<1> HIDE DEF left, right, start
<1>4. /\ start \o right \in Seq(S)
      /\ Len(start \o right) = Len(s) + 1
      /\ \A j \in 1..(Len(s) + 1) :
           (start \o right)[j] = IF j <= k THEN start[j] ELSE right[j - k]
  <2>1. Len(start) + Len(right) = Len(s) + 1
    BY <1>2, <1>3, LenProperties
  <2>2. /\ start \o right \in Seq(S)
        /\ Len(start \o right) = Len(start) + Len(right)
        /\ \A j \in 1..(Len(start) + Len(right)) :
             (start \o right)[j] = IF j <= Len(start) THEN start[j] ELSE right[j - Len(start)]
    BY <1>2, <1>3, ConcatProperties
  <2> QED
    BY <1>3, <2>1, <2>2
<1>5. InsertAt(s, k, e) = start \o right
  BY DEF InsertAt, start, left, right
<1> QED
  BY <1>2, <1>3, <1>4, <1>5

LEMMA RemoveAtElements ==
  ASSUME NEW S, NEW s \in Seq(S), NEW k \in 1..Len(s)
  PROVE  /\ RemoveAt(s, k) \in Seq(S)
         /\ Len(RemoveAt(s, k)) = Len(s) - 1
         /\ \A j \in 1..(Len(s) - 1) : RemoveAt(s, k)[j] = IF j < k THEN s[j] ELSE s[j + 1]
<1> DEFINE left == SubSeq(s, 1, k - 1)
           right == SubSeq(s, k + 1, Len(s))
<1>1. /\ left \in Seq(S) /\ Len(left) = k - 1
      /\ \A j \in 1..(k - 1) : left[j] = s[j]
  BY SubSeqProperties
<1>2. /\ right \in Seq(S) /\ Len(right) = Len(s) - k
      /\ \A j \in 1..(Len(s) - k) : right[j] = s[k + j]
  BY SubSeqProperties
<1> HIDE DEF left, right
<1>3. /\ left \o right \in Seq(S)
      /\ Len(left \o right) = Len(s) - 1
      /\ \A j \in 1..(Len(s) - 1) :
           (left \o right)[j] = IF j <= k - 1 THEN left[j] ELSE right[j - (k - 1)]
  BY <1>1, <1>2, ConcatProperties
<1>4. RemoveAt(s, k) = left \o right
  BY DEF RemoveAt, left, right
<1>5. ASSUME NEW j \in 1..(Len(s) - 1)
      PROVE  (left \o right)[j] = IF j < k THEN s[j] ELSE s[j + 1]
  <2>1. CASE j < k
    BY <1>1, <1>3, <2>1
  <2>2. CASE ~(j < k)
    <3>1. j - (k - 1) \in 1..(Len(s) - k) /\ k + (j - (k - 1)) = j + 1
      BY <2>2, LenProperties
    <3>2. right[j - (k - 1)] = s[j + 1]
      BY <1>2, <3>1
    <3> QED
      BY <1>3, <2>2, <3>2
  <2> QED
    BY <2>1, <2>2
<1> QED
  BY <1>3, <1>4, <1>5

LEMMA InsertType ==
  ASSUME NEW S, NEW p \in Playlists(S), NEW i \in Nat, NEW t \in S
  PROVE  InsertItem(p, i, t) \in Playlists(S)
<1> DEFINE place == IF i > Size(p) THEN Size(p) ELSE i
<1>1. p.items \in Seq(S) /\ p.cur \in Nat /\ place + 1 \in 1..(Len(p.items) + 1)
  BY DEF Playlists, Size
<1> HIDE DEF place
<1>2. InsertAt(p.items, place + 1, t) \in Seq(S)
  BY <1>1, InsertAtElements
<1>3. InsertItem(p, i, t) = [items |-> InsertAt(p.items, place + 1, t),
                              cur |-> IF place <= p.cur THEN p.cur + 1 ELSE p.cur]
  BY DEF InsertItem, place
<1> QED
  BY <1>1, <1>2, <1>3 DEF Playlists

LEMMA ReplaceType ==
  ASSUME NEW S, NEW p \in Playlists(S), NEW i \in Nat, IsValidIndex(p, i), NEW t \in S
  PROVE  ReplaceItem(p, i, t) \in Playlists(S)
BY DEF Playlists, ReplaceItem, ReplaceAt, IsValidIndex, Size

LEMMA DeleteType ==
  ASSUME NEW S, NEW p \in Playlists(S), NEW i \in Nat, IsValidIndex(p, i)
  PROVE  DeleteItem(p, i) \in Playlists(S)
BY RemoveAtElements DEF Playlists, DeleteItem, IsValidIndex, Size

(* The shift loops of moveItem() stay within the list. *)
LEMMA MoveSourceRange ==
  ASSUME NEW n \in Nat, NEW from \in 0..(n - 1), NEW target \in 0..(n - 1), NEW k \in 0..(n - 1)
  PROVE  MoveSource(k, from, target) \in 0..(n - 1)
BY DEF MoveSource

LEMMA MoveType ==
  ASSUME NEW S, NEW p \in Playlists(S),
         NEW from \in 0..(Size(p) - 1), NEW to \in 0..Size(p),
         to < Size(p) \/ from < to
  PROVE  MoveItem(p, from, to) \in Playlists(S)
<1> DEFINE target == MoveTarget(from, to)
<1>1. Size(p) \in Nat /\ p.items \in Seq(S) /\ p.cur \in Nat
  BY DEF Playlists, Size
<1>2. target \in 0..(Size(p) - 1)
  BY <1>1 DEF MoveTarget
<1>3. \A k \in 1..Size(p) : ItemAt(p, MoveSource(k - 1, from, target)) \in S
  <2> TAKE k \in 1..Size(p)
  <2>1. MoveSource(k - 1, from, target) \in 0..(Size(p) - 1)
    BY <1>1, <1>2, MoveSourceRange
  <2> QED
    BY <1>1, <2>1 DEF ItemAt, Size
<1>4. [k \in 1..Size(p) |-> ItemAt(p, MoveSource(k - 1, from, target))] \in Seq(S)
  BY <1>1, <1>3, IsASeq
<1>5. CurAfterMove(p.cur, from, target) \in Nat
  BY <1>1, <1>2 DEF CurAfterMove
<1> QED
  BY <1>4, <1>5 DEF MoveItem, Playlists

-----------------------------------------------------------------------------
USE PlaylistAssumption
(* An index is one of an item of the list. *)
LEMMA CurrentIsAt ==
  ASSUME NEW p \in Playlists(Items), Current(p) # NoItem
  PROVE  p.cur \in 0..(Len(p.items) - 1) /\ Current(p) = p.items[p.cur + 1]
BY DEF Current, IsValidIndex, Playlists, Size, ItemAt

LEMMA ValidCurrent ==
  ASSUME NEW q, NEW k \in Nat, q.cur = k, Len(q.items) \in Nat, k < Len(q.items)
  PROVE  Current(q) = q.items[k + 1]
BY DEF Current, IsValidIndex, Size, ItemAt

LEMMA AddKeepsCurrent ==
  ASSUME NEW p \in Playlists(Items), NEW t \in Items, Current(p) # NoItem
  PROVE  Current(AddItem(p, t)) = Current(p)
<1> DEFINE q == AddItem(p, t)
<1>1. p.items \in Seq(Items) /\ Len(p.items) \in Nat
  BY DEF Playlists
<1>2. q.cur = p.cur /\ q.items = Append(p.items, t)
  BY DEF AddItem, Playlists
<1>3. Len(q.items) = Len(p.items) + 1 /\ \A j \in 1..Len(p.items) : q.items[j] = p.items[j]
  BY <1>1, <1>2
<1> HIDE DEF q
<1>4. q.items[p.cur + 1] = p.items[p.cur + 1] /\ IsValidIndex(q, q.cur)
  <2>1. p.cur \in 0..(Len(p.items) - 1)
    BY CurrentIsAt
  <2>2. Len(q.items) = Len(p.items) + 1
    BY <1>3
  <2>3. p.cur + 1 \in 1..Len(p.items) /\ p.cur >= 0 /\ p.cur < Len(q.items)
    <3>1. ASSUME NEW n \in Nat, NEW c \in 0..(n - 1)
          PROVE  c + 1 \in 1..n /\ c >= 0 /\ c < n + 1
      OBVIOUS
    <3> QED
      BY ONLY <1>1, <2>1, <2>2, <3>1
  <2> QED
    BY <1>2, <1>3, <2>3 DEF IsValidIndex, Size
<1> QED
  BY <1>2, <1>4, CurrentIsAt DEF Current, ItemAt, q

(* An index moved along with its element, past an insertion or a removal at i + 1. *)
LEMMA IndexAfterInsertion ==
  ASSUME NEW n \in Nat, NEW i \in 0..n, NEW c \in 0..(n - 1), NEW s, NEW t, NEW r, NEW k,
         \A j \in 1..(n + 1) : r[j] = IF j < i + 1 THEN s[j] ELSE IF j = i + 1 THEN t ELSE s[j - 1],
         k = IF i <= c THEN c + 1 ELSE c
  PROVE  k \in 0..n /\ r[k + 1] = s[c + 1]
<1>1. CASE i <= c
  <2>1. k = c + 1 /\ k + 1 \in 1..(n + 1) /\ ~(k + 1 < i + 1) /\ k + 1 # i + 1 /\ (k + 1) - 1 = c + 1
    BY <1>1
  <2> QED
    BY <2>1
<1>2. CASE ~(i <= c)
  <2>1. k = c /\ k + 1 \in 1..(n + 1) /\ k + 1 < i + 1
    BY <1>2
  <2> QED
    BY <2>1
<1> QED
  BY <1>1, <1>2

LEMMA IndexAfterRemoval ==
  ASSUME NEW n \in Nat, NEW i \in 0..(n - 1), NEW c \in 0..(n - 1), i # c, NEW s, NEW r, NEW k,
         \A j \in 1..(n - 1) : r[j] = IF j < i + 1 THEN s[j] ELSE s[j + 1],
         k = IF c > i THEN c - 1 ELSE c
  PROVE  k \in 0..(n - 2) /\ r[k + 1] = s[c + 1]
<1>1. CASE c > i
  <2>1. k = c - 1 /\ k + 1 = c /\ c \in 1..(n - 1) /\ ~(c < i + 1)
    BY <1>1
  <2> QED
    BY <2>1
<1>2. CASE ~(c > i)
  <2>1. k = c /\ k + 1 \in 1..(n - 1) /\ k + 1 < i + 1
    BY <1>2
  <2> QED
    BY <2>1
<1> QED
  BY <1>1, <1>2

LEMMA InsertKeepsCurrent ==
  ASSUME NEW p \in Playlists(Items), NEW i \in 0..Size(p), NEW t \in Items, Current(p) # NoItem
  PROVE  Current(InsertItem(p, i, t)) = Current(p)
<1> DEFINE s == p.items
           c == p.cur
           r == InsertAt(s, i + 1, t)
           k == IF i <= c THEN c + 1 ELSE c
<1>1. s \in Seq(Items) /\ i \in 0..Len(s) /\ c \in 0..(Len(s) - 1) /\ Current(p) = s[c + 1]
  BY CurrentIsAt DEF Playlists, Size
<1>2. InsertItem(p, i, t) = [items |-> r, cur |-> k]
  <2>1. ~(i > Size(p))
    BY <1>1 DEF Size
  <2> QED
    BY <2>1 DEF InsertItem
<1> HIDE DEF s, c, k
<1>3. Len(s) \in Nat /\ i + 1 \in 1..(Len(s) + 1)
  BY <1>1, LenProperties
<1>4. /\ Len(r) = Len(s) + 1
      /\ \A j \in 1..(Len(s) + 1) :
           r[j] = IF j < i + 1 THEN s[j] ELSE IF j = i + 1 THEN t ELSE s[j - 1]
  <2> DEFINE m == i + 1
  <2>1. m \in 1..(Len(s) + 1)
    BY <1>3
  <2> HIDE DEF m, r
  <2>2. r = InsertAt(s, m, t)
    BY DEF r, m
  <2>3. /\ Len(InsertAt(s, m, t)) = Len(s) + 1
        /\ \A j \in 1..(Len(s) + 1) :
             InsertAt(s, m, t)[j] = IF j < m THEN s[j] ELSE IF j = m THEN t ELSE s[j - 1]
    BY <1>1, <2>1, InsertAtElements
  <2> QED
    BY <2>2, <2>3 DEF m
<1> HIDE DEF r
<1>5. k = IF i <= c THEN c + 1 ELSE c
  BY DEF k
<1>6. k \in 0..Len(s) /\ r[k + 1] = s[c + 1]
  BY <1>1, <1>3, <1>4, <1>5, IndexAfterInsertion
<1> DEFINE q == InsertItem(p, i, t)
<1>7. q.items = r /\ q.cur = k
  BY <1>2
<1> HIDE DEF q
<1>8. k \in Nat /\ Len(q.items) \in Nat /\ k < Len(q.items)
  BY <1>3, <1>4, <1>6, <1>7
<1>9. Current(q) = r[k + 1]
  BY <1>7, <1>8, ValidCurrent
<1> QED
  BY <1>1, <1>6, <1>9 DEF q

LEMMA DeleteKeepsCurrent ==
  ASSUME NEW p \in Playlists(Items), NEW i \in 0..(Size(p) - 1), i # p.cur, Current(p) # NoItem
  PROVE  Current(DeleteItem(p, i)) = Current(p)
<1> DEFINE s == p.items
           c == p.cur
           r == RemoveAt(s, i + 1)
           k == IF c > i THEN c - 1 ELSE c
<1>1. /\ s \in Seq(Items) /\ i \in 0..(Len(s) - 1) /\ i # c
      /\ c \in 0..(Len(s) - 1) /\ Current(p) = s[c + 1]
  BY CurrentIsAt DEF Playlists, Size
<1>2. DeleteItem(p, i) = [items |-> r, cur |-> k]
  BY DEF DeleteItem
<1> HIDE DEF s, c, k
<1>3. Len(s) \in Nat /\ i + 1 \in 1..Len(s)
  BY <1>1, LenProperties
<1>4. /\ Len(r) = Len(s) - 1
      /\ \A j \in 1..(Len(s) - 1) : r[j] = IF j < i + 1 THEN s[j] ELSE s[j + 1]
  BY <1>1, <1>3, RemoveAtElements
<1> HIDE DEF r
<1>5. k = IF c > i THEN c - 1 ELSE c
  BY DEF k
<1>6. k \in 0..(Len(s) - 2) /\ r[k + 1] = s[c + 1]
  <2> DEFINE n == Len(s)
  <2>1. n \in Nat /\ i \in 0..(n - 1) /\ c \in 0..(n - 1) /\ i # c
    BY <1>1, <1>3
  <2>2. \A j \in 1..(n - 1) : r[j] = IF j < i + 1 THEN s[j] ELSE s[j + 1]
    BY <1>4
  <2> HIDE DEF n
  <2>3. k \in 0..(n - 2) /\ r[k + 1] = s[c + 1]
    BY <1>5, <2>1, <2>2, IndexAfterRemoval
  <2> QED
    BY <2>3 DEF n
<1> DEFINE q == DeleteItem(p, i)
<1>7. q.items = r /\ q.cur = k
  BY <1>2
<1> HIDE DEF q
<1>8. k \in Nat /\ Len(q.items) \in Nat /\ k < Len(q.items)
  BY <1>3, <1>4, <1>6, <1>7
<1>9. Current(q) = r[k + 1]
  BY <1>7, <1>8, ValidCurrent
<1> QED
  BY <1>1, <1>6, <1>9 DEF q

(* The index moved along with its element, past a move from one index to another. *)
LEMMA IndexAfterMove ==
  ASSUME NEW n \in Nat, NEW from \in 0..(n - 1), NEW target \in 0..(n - 1), NEW c \in 0..(n - 1),
         ~(from < c /\ target = c)
  PROVE  /\ CurAfterMove(c, from, target) \in 0..(n - 1)
         /\ MoveSource(CurAfterMove(c, from, target), from, target) = c
BY DEF CurAfterMove, MoveSource

LEMMA MoveKeepsCurrent ==
  ASSUME NEW p \in Playlists(Items), NEW from \in 0..(Size(p) - 1), NEW to \in 0..Size(p),
         ~(from < p.cur /\ to = p.cur + 1), Current(p) # NoItem
  PROVE  Current(MoveItem(p, from, to)) = Current(p)
<1> DEFINE n == Size(p)
           target == MoveTarget(from, to)
           k == CurAfterMove(p.cur, from, target)
           q == MoveItem(p, from, to)
<1>1. n \in Nat /\ p.cur \in 0..(n - 1) /\ Current(p) = p.items[p.cur + 1]
  BY CurrentIsAt DEF Playlists, Size
<1>2. target \in 0..(n - 1) /\ ~(from < p.cur /\ target = p.cur)
  BY <1>1 DEF MoveTarget
<1>3. /\ q.cur = k
      /\ q.items = [j \in 1..n |-> p.items[MoveSource(j - 1, from, target) + 1]]
  BY DEF MoveItem, ItemAt
<1> HIDE DEF n, target, q
<1>4. k \in 0..(n - 1) /\ MoveSource(k, from, target) = p.cur
  BY <1>1, <1>2, IndexAfterMove DEF n
<1> HIDE DEF k
<1>5. k \in Nat /\ k + 1 \in 1..n /\ (k + 1) - 1 = k
  BY <1>1, <1>4
<1>6. q.items[k + 1] = p.items[p.cur + 1]
  BY <1>3, <1>4, <1>5
<1>7. Len(q.items) = n
  <2>1. DOMAIN q.items = 1..n /\ q.items \in Seq(Items)
    BY <1>1, <1>3, MoveType DEF n, q, Playlists
  <2> QED
    BY <1>1, <2>1, LenProperties
<1>8. q.cur = k /\ Len(q.items) \in Nat /\ k < Len(q.items)
  BY <1>1, <1>3, <1>4, <1>7
<1>9. Current(q) = q.items[k + 1]
  BY <1>5, <1>8, ValidCurrent
<1> QED
  BY <1>1, <1>6, <1>9 DEF q

LEMMA EditsKeep == TypeOK => EditsKeepCurrent
<1> SUFFICES ASSUME TypeOK, Current(pl) # NoItem
             PROVE  /\ \A t \in Fresh : Current(AddItem(pl, t)) = Current(pl)
                    /\ \A t \in Fresh, i \in 0..Size(pl) :
                         Current(InsertItem(pl, i, t)) = Current(pl)
                    /\ \A i \in Indices \ {pl.cur} : Current(DeleteItem(pl, i)) = Current(pl)
                    /\ \A from \in Indices, to \in 0..Size(pl) :
                         ~(from < pl.cur /\ to = pl.cur + 1) => Current(MoveItem(pl, from, to)) = Current(pl)
  BY DEF EditsKeepCurrent
<1>1. pl \in Playlists(Items) /\ Fresh \subseteq Items /\ Indices = 0..(Size(pl) - 1)
  BY DEF TypeOK, Fresh, Indices
<1>2. \A from \in Indices, to \in 0..Size(pl) :
        ~(from < pl.cur /\ to = pl.cur + 1) => Current(MoveItem(pl, from, to)) = Current(pl)
  BY <1>1, MoveKeepsCurrent
<1> QED
  BY <1>1, <1>2, AddKeepsCurrent, InsertKeepsCurrent, DeleteKeepsCurrent

-----------------------------------------------------------------------------
(* Induction over a range of numbers, for sets of them. *)
LEMMA RangeInduction ==
  ASSUME NEW lo \in Int, NEW hi \in Int, NEW P, lo \in P,
         \A k \in (lo + 1)..hi : k - 1 \in P => k \in P
  PROVE  \A k \in lo..hi : k \in P
<1> SUFFICES ASSUME NEW k \in lo..hi, k \notin P
             PROVE  FALSE
  OBVIOUS
<1> DEFINE Failing == {m \in Nat : lo + m \in (lo..hi) \ P}
           R == {x \in Nat \X Nat : x[1] < x[2]}
<1>1. k - lo \in Nat /\ lo + (k - lo) = k
  OBVIOUS
<1>2. k - lo \in Failing
  BY <1>1
<1>3. IsWellFoundedOn(R, Nat)
  BY NatLessThanWellFounded DEF OpToRel
<1>4. PICK m \in Failing : \A y \in Failing : ~(<<y, m>> \in R)
  <2>1. Failing \subseteq Nat /\ Failing # {}
    BY <1>2
  <2> HIDE DEF R, Failing
  <2> QED
    BY <1>3, <2>1, WFMin
<1>5. m \in Nat /\ lo + m \in lo..hi /\ lo + m \notin P
  BY <1>4
<1>6. m # 0
  BY <1>5
<1>7. m - 1 \in Nat /\ lo + (m - 1) = (lo + m) - 1 /\ lo + m \in (lo + 1)..hi /\ lo + (m - 1) \in lo..hi
  BY <1>5, <1>6
<1>8. lo + (m - 1) \notin P
  BY <1>5, <1>7
<1>9. m - 1 \in Failing /\ <<m - 1, m>> \in R
  BY <1>5, <1>7, <1>8
<1> QED
  BY <1>4, <1>9

(* A function given by its first value and a step from each value to the next exists. *)
Recursion(V, lo, hi, base, step) ==
  /\ lo \in Int /\ hi \in Int /\ lo <= hi
  /\ base \in V
  /\ step \in [((lo + 1)..hi) \X V -> V]

Follows(f, V, lo, hi, base, step) ==
  /\ f \in [lo..hi -> V]
  /\ \A k \in lo..hi : f[k] = IF k = lo THEN base ELSE step[<<k, f[k - 1]>>]

LEMMA RecursionExists ==
  ASSUME NEW V, NEW lo, NEW hi, NEW base, NEW step, Recursion(V, lo, hi, base, step)
  PROVE  \E f : Follows(f, V, lo, hi, base, step)
<1> USE DEF Recursion
<1> DEFINE Steps(f, m) == \A k \in lo..m : f[k] = IF k = lo THEN base ELSE step[<<k, f[k - 1]>>]
           Defined == {m \in lo..hi : \E f \in [lo..m -> V] : Steps(f, m)}
<1>1. lo \in Defined
  <2> DEFINE f == [k \in lo..lo |-> base]
  <2>1. f \in [lo..lo -> V] /\ Steps(f, lo) /\ lo \in lo..hi
    OBVIOUS
  <2> QED
    BY <2>1
<1>2. ASSUME NEW m \in (lo + 1)..hi, m - 1 \in Defined
      PROVE  m \in Defined
  <2>1. PICK f \in [lo..(m - 1) -> V] : Steps(f, m - 1)
    BY <1>2
  <2> DEFINE g == [k \in lo..m |-> IF k = m THEN step[<<m, f[m - 1]>>] ELSE f[k]]
  <2>2. m \in Int /\ m - 1 \in lo..(m - 1) /\ \A k \in lo..m : k = m \/ k \in lo..(m - 1)
    OBVIOUS
  <2>3. step[<<m, f[m - 1]>>] \in V
    BY <2>2
  <2>4. g \in [lo..m -> V]
    BY <2>2, <2>3
  <2>5. ASSUME NEW k \in lo..m
        PROVE  g[k] = IF k = lo THEN base ELSE step[<<k, g[k - 1]>>]
    <3>1. CASE k = m
      <4>1. g[k] = step[<<m, f[m - 1]>>] /\ g[k - 1] = f[m - 1] /\ k # lo
        BY <2>2, <3>1
      <4> QED
        BY <3>1, <4>1
    <3>2. CASE k # m
      <4>1. k \in lo..(m - 1) /\ g[k] = f[k]
        BY <2>2, <3>2
      <4>2. k # lo => k - 1 \in lo..m /\ k - 1 # m /\ g[k - 1] = f[k - 1]
        BY <2>2, <4>1
      <4> HIDE DEF g
      <4> QED
        BY <2>1, <4>1, <4>2
    <3> QED
      BY <3>1, <3>2
  <2>6. m \in lo..hi
    OBVIOUS
  <2> HIDE DEF g
  <2> QED
    BY <2>4, <2>5, <2>6
<1> HIDE DEF Defined
<1>3. \A m \in lo..hi : m \in Defined
  BY <1>1, <1>2, RangeInduction
<1>4. hi \in Defined
  BY <1>3
<1> QED
  BY <1>4 DEF Defined, Follows

LEMMA CountInduction ==
  ASSUME NEW n \in Nat, NEW P, 0 \in P, \A k \in 1..n : k - 1 \in P => k \in P
  PROVE  \A k \in 0..n : k \in P
<1>1. 0 \in Int /\ n \in Int /\ (0 + 1)..n = 1..n
  OBVIOUS
<1> QED
  BY <1>1, RangeInduction

-----------------------------------------------------------------------------
(* An item object is in the playlist at most once. *)
LEMMA InsertedElements ==
  ASSUME NEW n \in Nat, NEW m \in 1..(n + 1), NEW s, NEW t, NEW r,
         \A j \in 1..(n + 1) : r[j] = IF j < m THEN s[j] ELSE IF j = m THEN t ELSE s[j - 1]
  PROVE  /\ {r[j] : j \in 1..(n + 1)} = {s[j] : j \in 1..n} \cup {t}
         /\ (/\ \A x, y \in 1..n : s[x] = s[y] => x = y
             /\ t \notin {s[j] : j \in 1..n})
            => \A x, y \in 1..(n + 1) : r[x] = r[y] => x = y
<1>1. \A j \in 1..n : (j < m => j \in 1..(n + 1)) /\ (~(j < m) => j + 1 \in 1..(n + 1) /\ ~(j + 1 < m) /\ j + 1 # m)
  OBVIOUS
<1>2. \A j \in 1..n : s[j] = IF j < m THEN r[j] ELSE r[j + 1]
  BY <1>1
<1>3. \A j \in 1..(n + 1) : (j < m => j \in 1..n) /\ (~(j < m) /\ j # m => j - 1 \in 1..n)
  OBVIOUS
<1>4. r[m] = t /\ m \in 1..(n + 1)
  OBVIOUS
<1>5. {r[j] : j \in 1..(n + 1)} = {s[j] : j \in 1..n} \cup {t}
  <2>1. ASSUME NEW j \in 1..(n + 1)
        PROVE  r[j] \in {s[i] : i \in 1..n} \cup {t}
    BY <1>3
  <2>2. ASSUME NEW j \in 1..n
        PROVE  s[j] \in {r[i] : i \in 1..(n + 1)}
    BY <1>1, <1>2
  <2> QED
    BY <1>4, <2>1, <2>2
<1>6. ASSUME \A x, y \in 1..n : s[x] = s[y] => x = y,
             t \notin {s[j] : j \in 1..n},
             NEW x \in 1..(n + 1), NEW y \in 1..(n + 1), r[x] = r[y]
      PROVE  x = y
  <2>1. CASE x = m
    BY <1>3, <1>4, <1>6, <2>1
  <2>2. CASE y = m
    BY <1>3, <1>4, <1>6, <2>2
  <2>3. CASE x # m /\ y # m
    <3> DEFINE u == IF x < m THEN x ELSE x - 1
               v == IF y < m THEN y ELSE y - 1
    <3>1. u \in 1..n /\ v \in 1..n /\ r[x] = s[u] /\ r[y] = s[v]
      BY <1>3, <2>3
    <3>2. u = v => x = y
      BY <2>3
    <3> HIDE DEF u, v
    <3> QED
      BY <1>6, <3>1, <3>2
  <2> QED
    BY <2>1, <2>2, <2>3
<1> QED
  BY <1>5, <1>6

LEMMA ListElements ==
  ASSUME NEW p \in Playlists(Items)
  PROVE  /\ p.items \in Seq(Items) /\ p.cur \in Nat /\ Len(p.items) \in Nat
         /\ Size(p) = Len(p.items) /\ DOMAIN p.items = 1..Len(p.items)
         /\ ItemsOf(p) = {p.items[j] : j \in 1..Len(p.items)}
         /\ (IsInjective(p.items) <=> \A x, y \in 1..Len(p.items) : p.items[x] = p.items[y] => x = y)
<1>1. p.items \in Seq(Items) /\ p.cur \in Nat
  BY DEF Playlists
<1>2. Len(p.items) \in Nat /\ DOMAIN p.items = 1..Len(p.items)
  BY <1>1, LenProperties
<1>3. ItemsOf(p) = {p.items[j] : j \in 1..Len(p.items)}
  BY <1>2 DEF ItemsOf, ToSet
<1>4. IsInjective(p.items) <=> \A x, y \in 1..Len(p.items) : p.items[x] = p.items[y] => x = y
  BY <1>2 DEF IsInjective
<1> QED
  BY <1>1, <1>2, <1>3, <1>4 DEF Size

(* An item is above the current one when its place is before that of the current one. *)
LEMMA AboveElements ==
  ASSUME NEW p \in Playlists(Items), NEW t
  PROVE  t \in Above(p) <=> \E j \in 1..Len(p.items) : j <= p.cur /\ t = p.items[j]
<1>1. p.cur \in Nat /\ Len(p.items) \in Nat /\ Size(p) = Len(p.items)
  BY ListElements
<1> DEFINE m == IF p.cur < Len(p.items) THEN p.cur ELSE Len(p.items)
<1>2. Above(p) = {p.items[k + 1] : k \in 0..(m - 1)}
  BY <1>1 DEF Above, ItemAt
<1>3. \A k \in 0..(m - 1) : k + 1 \in 1..Len(p.items) /\ k + 1 <= p.cur
  BY <1>1
<1>4. \A j \in 1..Len(p.items) : j <= p.cur => j - 1 \in 0..(m - 1) /\ (j - 1) + 1 = j
  BY <1>1
<1> HIDE DEF m
<1> QED
  BY <1>2, <1>3, <1>4

LEMMA InsertKeepsWhole ==
  ASSUME NEW p \in Playlists(Items), IsInjective(p.items), NEW i \in Nat, NEW t \in Items \ ItemsOf(p)
  PROVE  /\ InsertItem(p, i, t) \in Playlists(Items)
         /\ IsInjective(InsertItem(p, i, t).items)
         /\ ItemsOf(InsertItem(p, i, t)) = ItemsOf(p) \cup {t}
         /\ Above(p) \subseteq Above(InsertItem(p, i, t))
<1> DEFINE s == p.items
           n == Len(s)
           spot == IF i > n THEN n ELSE i
           r == InsertAt(s, spot + 1, t)
           q == InsertItem(p, i, t)
<1>1. q \in Playlists(Items)
  BY InsertType
<1>2. n \in Nat /\ p.cur \in Nat /\ s \in Seq(Items) /\ Size(p) = n
  BY ListElements
<1>3. spot \in 0..n
  BY <1>2
<1>4. q.items = r /\ q.cur = IF spot <= p.cur THEN p.cur + 1 ELSE p.cur
  BY <1>2 DEF InsertItem
<1> HIDE DEF spot
<1> DEFINE m == spot + 1
<1>5. m \in 1..(n + 1)
  BY <1>2, <1>3
<1> HIDE DEF m
<1>6. Len(r) = n + 1 /\ \A j \in 1..(n + 1) : r[j] = IF j < m THEN s[j] ELSE IF j = m THEN t ELSE s[j - 1]
  <2>1. r = InsertAt(s, m, t) /\ t \in Items
    BY DEF m
  <2> HIDE DEF r
  <2>2. m \in 1..(Len(s) + 1) /\ s \in Seq(Items)
    BY <1>2, <1>5
  <2> HIDE DEF s
  <2>3. /\ Len(InsertAt(s, m, t)) = Len(s) + 1
        /\ \A j \in 1..(Len(s) + 1) :
             InsertAt(s, m, t)[j] = IF j < m THEN s[j] ELSE IF j = m THEN t ELSE s[j - 1]
    BY ONLY <2>1, <2>2, InsertAtElements, SMTT(30)
  <2> QED
    BY <2>1, <2>3
<1> HIDE DEF r, q
<1>7. ItemsOf(p) = {s[j] : j \in 1..n} /\ \A x, y \in 1..n : s[x] = s[y] => x = y
  BY ListElements
<1>8. /\ ItemsOf(q) = {r[j] : j \in 1..(n + 1)}
      /\ (IsInjective(q.items) <=> \A x, y \in 1..(n + 1) : r[x] = r[y] => x = y)
  <2>1. q.items = r /\ Len(q.items) = n + 1
    BY <1>4, <1>6
  <2> HIDE DEF s, n
  <2>2. /\ ItemsOf(q) = {q.items[j] : j \in 1..Len(q.items)}
        /\ (IsInjective(q.items) <=> \A x, y \in 1..Len(q.items) : q.items[x] = q.items[y] => x = y)
    BY <1>1, ListElements
  <2> QED
    BY <2>1, <2>2
<1> HIDE DEF s, n
<1>9. /\ {r[j] : j \in 1..(n + 1)} = {s[j] : j \in 1..n} \cup {t}
      /\ \A x, y \in 1..(n + 1) : r[x] = r[y] => x = y
  <2>1. t \notin {s[j] : j \in 1..n}
    BY <1>7
  <2>2. n \in Nat
    BY <1>2
  <2>3. \A j \in 1..(n + 1) : r[j] = IF j < m THEN s[j] ELSE IF j = m THEN t ELSE s[j - 1]
    BY <1>6
  <2>4. /\ {r[j] : j \in 1..(n + 1)} = {s[j] : j \in 1..n} \cup {t}
        /\ (/\ \A x, y \in 1..n : s[x] = s[y] => x = y
            /\ t \notin {s[j] : j \in 1..n})
           => \A x, y \in 1..(n + 1) : r[x] = r[y] => x = y
    BY ONLY <1>5, <2>2, <2>3, InsertedElements, SMTT(30)
  <2> QED
    BY <1>7, <2>1, <2>4
<1>10. ASSUME NEW u \in Above(p)
       PROVE  u \in Above(q)
  <2>1. PICK j \in 1..n : j <= p.cur /\ u = s[j]
    BY AboveElements DEF s, n
  <2> DEFINE k == IF j < m THEN j ELSE j + 1
  <2>2. k \in 1..(n + 1) /\ r[k] = s[j]
    BY <1>2, <1>5, <1>6
  <2>3. k <= q.cur
    BY <1>2, <1>3, <1>4, <2>1 DEF m
  <2> QED
    BY <1>1, <1>4, <1>6, <2>1, <2>2, <2>3, AboveElements
<1> QED
  BY <1>1, <1>7, <1>8, <1>9, <1>10 DEF q

LEMMA AddKeepsWhole ==
  ASSUME NEW p \in Playlists(Items), IsInjective(p.items), NEW t \in Items \ ItemsOf(p)
  PROVE  AddItem(p, t) \in Playlists(Items) /\ IsInjective(AddItem(p, t).items)
<1> DEFINE q == AddItem(p, t)
<1>1. q \in Playlists(Items)
  BY AddType
<1>2. q.items = Append(p.items, t) /\ p.items \in Seq(Items) /\ Len(p.items) \in Nat
  BY ListElements DEF AddItem
<1>3. Len(q.items) = Len(p.items) + 1 /\ q.items[Len(p.items) + 1] = t
      /\ \A j \in 1..Len(p.items) : q.items[j] = p.items[j]
  BY <1>2
<1> HIDE DEF q
<1>4. \A j \in 1..Len(p.items) : p.items[j] # t
  BY ListElements
<1>5. \A x, y \in 1..Len(p.items) : p.items[x] = p.items[y] => x = y
  BY ListElements
<1>6. \A x \in 1..(Len(p.items) + 1) : x \in 1..Len(p.items) \/ x = Len(p.items) + 1
  BY <1>2
<1>7. \A x, y \in 1..(Len(p.items) + 1) : q.items[x] = q.items[y] => x = y
  BY <1>3, <1>4, <1>5, <1>6
<1> QED
  BY <1>1, <1>3, <1>7, ListElements DEF q

LEMMA ReplaceKeepsWhole ==
  ASSUME NEW p \in Playlists(Items), IsInjective(p.items), NEW i \in Nat, IsValidIndex(p, i),
         NEW t \in Items \ ItemsOf(p)
  PROVE  ReplaceItem(p, i, t) \in Playlists(Items) /\ IsInjective(ReplaceItem(p, i, t).items)
<1> DEFINE q == ReplaceItem(p, i, t)
<1>1. q \in Playlists(Items)
  BY ReplaceType
<1>2. q.items = [p.items EXCEPT ![i + 1] = t] /\ p.items \in Seq(Items) /\ Len(p.items) \in Nat
  BY ListElements DEF ReplaceItem, ReplaceAt
<1>3. Len(q.items) = Len(p.items)
      /\ \A j \in 1..Len(p.items) : q.items[j] = IF j = i + 1 THEN t ELSE p.items[j]
  BY <1>2
<1> HIDE DEF q
<1>4. \A j \in 1..Len(p.items) : p.items[j] # t
  BY ListElements
<1>5. \A x, y \in 1..Len(p.items) : p.items[x] = p.items[y] => x = y
  BY ListElements
<1>6. \A x, y \in 1..Len(p.items) : q.items[x] = q.items[y] => x = y
  BY <1>3, <1>4, <1>5
<1> QED
  BY <1>1, <1>3, <1>6, ListElements DEF q

LEMMA DeleteKeepsWhole ==
  ASSUME NEW p \in Playlists(Items), IsInjective(p.items), NEW i \in Nat, IsValidIndex(p, i)
  PROVE  DeleteItem(p, i) \in Playlists(Items) /\ IsInjective(DeleteItem(p, i).items)
<1> DEFINE q == DeleteItem(p, i)
           s == p.items
           n == Len(s)
           k == i + 1
<1>1. q \in Playlists(Items)
  BY DeleteType
<1>2. n \in Nat /\ s \in Seq(Items) /\ k \in 1..n
  BY ListElements DEF IsValidIndex
<1> HIDE DEF k
<1>3. q.items = RemoveAt(s, k)
  BY DEF DeleteItem, k
<1> HIDE DEF q
<1>4. Len(q.items) = n - 1 /\ \A j \in 1..(n - 1) : q.items[j] = IF j < k THEN s[j] ELSE s[j + 1]
  <2>1. k \in 1..Len(s) /\ s \in Seq(Items)
    BY <1>2
  <2>2. /\ Len(RemoveAt(s, k)) = Len(s) - 1
        /\ \A j \in 1..(Len(s) - 1) : RemoveAt(s, k)[j] = IF j < k THEN s[j] ELSE s[j + 1]
    BY <2>1, RemoveAtElements
  <2> QED
    BY <1>3, <2>2
<1>5. \A x, y \in 1..n : s[x] = s[y] => x = y
  BY ListElements
<1> HIDE DEF s, n
<1>6. ASSUME NEW x \in 1..(n - 1), NEW y \in 1..(n - 1), q.items[x] = q.items[y]
      PROVE  x = y
  <2> DEFINE u == IF x < k THEN x ELSE x + 1
             v == IF y < k THEN y ELSE y + 1
  <2>1. u \in 1..n /\ v \in 1..n /\ (u = v => x = y)
    BY <1>2
  <2>2. q.items[x] = s[u] /\ q.items[y] = s[v]
    BY <1>4
  <2> HIDE DEF u, v
  <2> QED
    BY <1>5, <1>6, <2>1, <2>2
<1> QED
  BY <1>1, <1>4, <1>6, ListElements DEF q

LEMMA MoveSourceDistinct ==
  ASSUME NEW n \in Nat, NEW from \in 0..(n - 1), NEW target \in 0..(n - 1),
         NEW j \in 0..(n - 1), NEW k \in 0..(n - 1),
         MoveSource(j, from, target) = MoveSource(k, from, target)
  PROVE  j = k
BY DEF MoveSource

LEMMA MoveKeepsWhole ==
  ASSUME NEW p \in Playlists(Items), IsInjective(p.items),
         NEW from \in 0..(Size(p) - 1), NEW to \in 0..Size(p)
  PROVE  /\ MoveItem(p, from, to) \in Playlists(Items)
         /\ IsInjective(MoveItem(p, from, to).items)
         /\ Size(MoveItem(p, from, to)) = Size(p)
<1> DEFINE n == Size(p)
           target == MoveTarget(from, to)
           q == MoveItem(p, from, to)
           Old(j) == MoveSource(j - 1, from, target) + 1
<1>1. n \in Nat /\ n = Len(p.items) /\ \A x, y \in 1..n : p.items[x] = p.items[y] => x = y
  BY ListElements
<1>2. from \in 0..(n - 1) /\ target \in 0..(n - 1)
  BY <1>1 DEF MoveTarget
<1>3. q.items = [j \in 1..n |-> p.items[Old(j)]]
  BY DEF MoveItem, ItemAt
<1>4. q \in Playlists(Items)
  BY <1>1, MoveType
<1>5. \A j \in 1..n : j - 1 \in 0..(n - 1) /\ Old(j) \in 1..n
  <2> TAKE j \in 1..n
  <2>1. j - 1 \in 0..(n - 1)
    BY <1>1
  <2>2. MoveSource(j - 1, from, target) \in 0..(n - 1)
    BY <1>1, <1>2, <2>1, MoveSourceRange
  <2> QED
    BY <1>1, <2>1, <2>2
<1> HIDE DEF n, target, q
<1>6. ASSUME NEW x \in 1..n, NEW y \in 1..n, Old(x) = Old(y)
      PROVE  x = y
  <2>1. x - 1 \in 0..(n - 1) /\ y - 1 \in 0..(n - 1)
    BY <1>5
  <2>2. MoveSource(x - 1, from, target) \in 0..(n - 1) /\ MoveSource(y - 1, from, target) \in 0..(n - 1)
    BY <1>1, <1>2, <2>1, MoveSourceRange
  <2>3. MoveSource(x - 1, from, target) = MoveSource(y - 1, from, target)
    BY <1>1, <1>6, <2>2
  <2>4. x - 1 = y - 1
    BY <1>1, <1>2, <2>1, <2>3, MoveSourceDistinct
  <2> QED
    BY <2>4
<1> HIDE DEF Old
<1>7. Len(q.items) = n /\ \A x, y \in 1..n : q.items[x] = q.items[y] => x = y
  <2>1. Len(q.items) = n
    <3>1. q.items \in Seq(Items) /\ DOMAIN q.items = 1..n
      BY <1>3, <1>4, ListElements
    <3> QED
      BY <1>1, <3>1, LenProperties
  <2>2. ASSUME NEW x \in 1..n, NEW y \in 1..n, q.items[x] = q.items[y]
        PROVE  x = y
    <3>1. q.items[x] = p.items[Old(x)] /\ q.items[y] = p.items[Old(y)]
      BY <1>3
    <3>2. Old(x) = Old(y)
      BY <1>1, <1>5, <2>2, <3>1
    <3> QED
      BY <1>6, <3>2
  <2> QED
    BY <2>1, <2>2
<1>8. Size(q) = n /\ IsInjective(q.items)
  BY <1>4, <1>7, ListElements
<1> QED
  BY <1>4, <1>8 DEF n, q

(* What removeSong() leaves are items of the list, each once. *)
LEMMA RemoveKeepsWhole ==
  ASSUME NEW p \in Playlists(Items), IsInjective(p.items), NEW S
  PROVE  RemoveItems(p, S) \in Playlists(Items) /\ IsInjective(RemoveItems(p, S).items)
<1> DEFINE s == p.items
           n == Size(p)
           After(k, v) == IF s[k] \in S THEN v ELSE Append(v, s[k])
           F(f) == [k \in 0..n |-> IF k = 0 THEN <<>> ELSE After(k, f[k - 1])]
           kept == CHOOSE f : f = F(f)
<1>1. RemoveItems(p, S) = [p EXCEPT !.items = kept[n]]
  BY DEF RemoveItems
<1>2. n \in Nat /\ n = Len(s) /\ s \in Seq(Items) /\ \A x, y \in 1..n : s[x] = s[y] => x = y
  BY ListElements
<1> HIDE DEF n, s
<1>3. ASSUME NEW k \in 1..n, NEW v \in Seq(Items)
      PROVE  After(k, v) \in Seq(Items)
  <2>1. s[k] \in Items
    BY <1>2
  <2> QED
    BY <2>1
<1>4. \E f : f = F(f)
  <2> DEFINE step == [x \in (1..n) \X Seq(Items) |-> After(x[1], x[2])]
  <2>1. step \in [(1..n) \X Seq(Items) -> Seq(Items)]
    BY <1>3
  <2>2. \A k \in 1..n, v \in Seq(Items) : step[<<k, v>>] = After(k, v)
    OBVIOUS
  <2> HIDE DEF step, After
  <2>3. n \in Nat /\ Recursion(Seq(Items), 0, n, <<>>, step)
    BY <1>2, <2>1 DEF Recursion
  <2>4. PICK f : Follows(f, Seq(Items), 0, n, <<>>, step)
    BY <2>3, RecursionExists
  <2>5. f \in [0..n -> Seq(Items)] /\ \A k \in 0..n : f[k] = IF k = 0 THEN <<>> ELSE step[<<k, f[k - 1]>>]
    BY <2>4 DEF Follows
  <2>6. \A k \in 0..n : f[k] = IF k = 0 THEN <<>> ELSE After(k, f[k - 1])
    <3> TAKE k \in 0..n
    <3>1. k # 0 => k \in 1..n /\ k - 1 \in 0..n
      BY <2>3
    <3>2. k # 0 => f[k - 1] \in Seq(Items)
      BY <2>5, <3>1
    <3> QED
      BY <2>2, <2>5, <3>1, <3>2
  <2>7. f = F(f)
    BY <2>5, <2>6
  <2> QED
    BY <2>7
<1>5. kept = F(kept)
  BY <1>4
<1> HIDE DEF kept
<1>6. kept[0] = <<>> /\ \A k \in 1..n : kept[k] = After(k, kept[k - 1])
  <2>1. 0 \in 0..n /\ \A k \in 1..n : k \in 0..n /\ k # 0
    BY <1>2
  <2> HIDE DEF After
  <2>2. \A k \in 0..n : kept[k] = IF k = 0 THEN <<>> ELSE After(k, kept[k - 1])
    BY <1>5
  <2> QED
    BY <2>1, <2>2
<1> DEFINE Whole(k, v) ==
             /\ v \in Seq(Items)
             /\ \A x \in 1..Len(v) : \E y \in 1..k : v[x] = s[y]
             /\ \A x, y \in 1..Len(v) : v[x] = v[y] => x = y
           P == {k \in 0..n : Whole(k, kept[k])}
<1>7. 0 \in P
  <2>1. 0 \in 0..n /\ kept[0] = <<>>
    BY <1>2, <1>6
  <2>2. <<>> \in Seq(Items) /\ Len(<<>>) = 0 /\ 1..0 = {}
    OBVIOUS
  <2>3. Whole(0, kept[0])
    BY <2>1, <2>2
  <2> QED
    BY <2>1, <2>3
<1>8. ASSUME NEW k \in 1..n, k - 1 \in P
      PROVE  Whole(k, kept[k])
  <2> DEFINE v == kept[k - 1]
             w == kept[k]
  <2>1. Whole(k - 1, v)
    BY <1>8
  <2>2. w = After(k, v)
    BY <1>6
  <2> HIDE DEF v, w
  <2>3. CASE s[k] \in S
    <3>1. w = v
      BY <2>2, <2>3
    <3>2. 1..(k - 1) \subseteq 1..k
      OBVIOUS
    <3> QED
      BY <2>1, <3>1, <3>2 DEF w
  <2>4. CASE s[k] \notin S
    <3>1. w = Append(v, s[k]) /\ s[k] \in Items
      BY <1>2, <2>2, <2>4
    <3>2. /\ w \in Seq(Items) /\ Len(v) \in Nat /\ Len(w) = Len(v) + 1
          /\ w[Len(v) + 1] = s[k] /\ \A x \in 1..Len(v) : w[x] = v[x]
      BY <2>1, <3>1
    <3>3. \A y \in 1..(k - 1) : y \in 1..k /\ y \in 1..n /\ y # k
      BY <1>2
    <3>4. \A x \in 1..Len(v) : w[x] # s[k]
      BY <1>2, <2>1, <3>2, <3>3
    <3>5. \A x \in 1..(Len(v) + 1) : x \in 1..Len(v) \/ x = Len(v) + 1
      BY <3>2
    <3>6. \A x, y \in 1..Len(w) : w[x] = w[y] => x = y
      BY <2>1, <3>2, <3>4, <3>5
    <3>7. \A x \in 1..Len(w) : \E y \in 1..k : w[x] = s[y]
      <4>1. k \in 1..k
        OBVIOUS
      <4> QED
        BY <2>1, <3>2, <3>3, <3>5, <4>1
    <3> QED
      BY <3>2, <3>6, <3>7 DEF w
  <2> QED
    BY <2>3, <2>4
<1>9. \A k \in 0..n : k \in P
  <2>1. n \in Nat /\ \A k \in 1..n : k \in 0..n
    BY <1>2
  <2>2. \A k \in 1..n : k - 1 \in P => k \in P
    BY <1>8, <2>1
  <2> HIDE DEF P
  <2> QED
    BY <1>7, <2>1, <2>2, CountInduction
<1> HIDE DEF P
<1>10. kept[n] \in Seq(Items) /\ \A x, y \in 1..Len(kept[n]) : kept[n][x] = kept[n][y] => x = y
  <2>1. n \in P
    BY <1>2, <1>9
  <2> QED
    BY <2>1 DEF P
<1>11. RemoveItems(p, S) \in Playlists(Items) /\ RemoveItems(p, S).items = kept[n]
  BY <1>1, <1>10 DEF Playlists
<1> QED
  BY <1>10, <1>11, ListElements

-----------------------------------------------------------------------------
(* A drag: the rows still to move, the lowest on screen of them first. *)
Drags ==
  {drag \in [pl : Playlists(Items), cleared : SUBSET Items, dest : Nat, rows : SUBSET Nat] :
     /\ IsInjective(drag.pl.items)
     /\ drag.dest \in 0..Size(drag.pl)
     /\ drag.rows \subseteq 0..(Size(drag.pl) - 1)}

LEMMA LowestRow ==
  ASSUME NEW n \in Nat, NEW S \in SUBSET (0..n), S # {}
  PROVE  Max(S) \in S /\ \A y \in S : y <= Max(S)
<1> DEFINE P == {k \in 0..n : (\A y \in S : y > k) \/ \E x \in S : \A y \in S : y <= k => y <= x}
<1>1. 0 \in P
  <2>1. CASE 0 \in S
    BY <2>1
  <2>2. CASE 0 \notin S
    BY <2>2
  <2> QED
    BY <2>1, <2>2
<1>2. ASSUME NEW k \in 1..n, k - 1 \in P
      PROVE  k \in P
  <2>1. CASE k \in S
    BY <2>1
  <2>2. CASE k \notin S
    <3>1. \A y \in S : (y > k - 1 => y > k) /\ (y <= k => y <= k - 1)
      BY <2>2
    <3>2. k \in 0..n
      OBVIOUS
    <3>3. CASE \A y \in S : y > k - 1
      BY <3>1, <3>2, <3>3
    <3>4. CASE \E x \in S : \A y \in S : y <= k - 1 => y <= x
      BY <3>1, <3>2, <3>4
    <3> QED
      BY <1>2, <3>3, <3>4
  <2> QED
    BY <2>1, <2>2
<1>3. n \in P
  <2> HIDE DEF P
  <2> QED
    BY <1>1, <1>2, CountInduction
<1>4. \E x \in S : \A y \in S : y <= x
  <2>1. \A y \in S : y <= n /\ ~(y > n)
    OBVIOUS
  <2>2. (\A y \in S : y > n) \/ \E x \in S : \A y \in S : y <= n => y <= x
    BY <1>3
  <2> QED
    BY <2>1, <2>2
<1>5. \E x \in S : \A y \in S : x >= y
  BY <1>4
<1> QED
  BY <1>5 DEF Max

(* The rows still to move, re-indexed. *)
RowsLeft(rows, row, dest) == {ShiftedRow(r, row, dest) : r \in rows \ {row}}

LEMMA ShiftedRows ==
  ASSUME NEW n \in Nat, NEW rows \in SUBSET (0..(n - 1)), NEW row \in rows, \A r \in rows : r <= row,
         NEW dest \in 0..n
  PROVE  /\ RowsLeft(rows, row, dest) \subseteq 0..(n - 1)
         /\ IsFiniteSet(rows)
         /\ Cardinality(RowsLeft(rows, row, dest)) = Cardinality(rows) - 1
<1> DEFINE S == rows \ {row}
           T == RowsLeft(rows, row, dest)
           f == [r \in S |-> ShiftedRow(r, row, dest)]
<1>1. \A r \in S : r \in 0..(row - 1) /\ ShiftedRow(r, row, dest) \in 0..(n - 1)
  BY DEF ShiftedRow
<1>2. IsFiniteSet(rows)
  <2>1. rows \in SUBSET Nat /\ \A r \in rows : r <= n
    OBVIOUS
  <2> QED
    BY <2>1, FS_BoundedSetOfNaturals
<1>3. IsFiniteSet(S) /\ Cardinality(S) = Cardinality(rows) - 1
  BY <1>2, FS_RemoveElement
<1>4. \A r, q \in S : ShiftedRow(r, row, dest) = ShiftedRow(q, row, dest) => r = q
  BY <1>1 DEF ShiftedRow
<1>5. f \in Bijection(S, T)
  <2>1. f \in [S -> T] /\ DOMAIN f = S /\ \A r \in S : f[r] = ShiftedRow(r, row, dest)
    BY DEF RowsLeft
  <2>2. f \in Injection(S, T)
    BY <1>4, <2>1 DEF Injection, IsInjective
  <2>3. \A t \in T : \E r \in S : f[r] = t
    BY <2>1 DEF RowsLeft
  <2> HIDE DEF f, S, T
  <2> QED
    BY <2>1, <2>2, <2>3 DEF Bijection, Surjection
<1>6. Cardinality(T) = Cardinality(S)
  BY <1>3, <1>5, FS_Bijection DEF ExistsBijection
<1> QED
  BY <1>1, <1>2, <1>3, <1>6 DEF RowsLeft

LEMMA DropOneKeepsWhole ==
  ASSUME NEW drag \in Drags, drag.rows # {}
  PROVE  /\ DropOne(drag) \in Drags
         /\ Size(DropOne(drag).pl) = Size(drag.pl)
         /\ Cardinality(DropOne(drag).rows) = Cardinality(drag.rows) - 1
<1> DEFINE p == drag.pl
           n == Size(p)
           rows == drag.rows
           row == Max(rows)
           moves == row # drag.dest /\ row + 1 # drag.dest
           dest == IF row < drag.dest THEN drag.dest - 1 ELSE drag.dest
           q == IF moves THEN MoveItem(p, row, drag.dest) ELSE p
           cleared == IF moves THEN drag.cleared \cup ClearedByMove(p, row, drag.dest) ELSE drag.cleared
           left == RowsLeft(rows, row, dest)
<1>1. DropOne(drag) = [pl |-> q, cleared |-> cleared, dest |-> dest, rows |-> left]
  BY DEF DropOne, RowsLeft
<1>2. /\ p \in Playlists(Items) /\ IsInjective(p.items) /\ drag.cleared \subseteq Items
      /\ drag.dest \in 0..n /\ rows \subseteq 0..(n - 1)
  BY DEF Drags
<1>3. n \in Nat
  BY <1>2, ListElements
<1>4. row \in rows /\ \A r \in rows : r <= row
  BY <1>2, <1>3, LowestRow
<1> HIDE DEF p, n, rows, row
<1>5. row \in 0..(n - 1) /\ dest \in 0..n
  BY <1>2, <1>3, <1>4
<1>6. q \in Playlists(Items) /\ IsInjective(q.items) /\ Size(q) = n
  <2>1. /\ MoveItem(p, row, drag.dest) \in Playlists(Items)
        /\ IsInjective(MoveItem(p, row, drag.dest).items)
        /\ Size(MoveItem(p, row, drag.dest)) = n
    BY <1>2, <1>5, MoveKeepsWhole DEF n
  <2> QED
    BY <1>2, <2>1 DEF n
<1>7. cleared \subseteq Items
  <2>1. IsValidIndex(p, row) /\ row \in Nat
    BY <1>3, <1>5 DEF IsValidIndex, n
  <2>2. ItemAt(p, row) \in Items
    BY <1>2, <2>1, ItemAtType
  <2> QED
    BY <1>2, <2>2 DEF ClearedByMove
<1>8. left \subseteq 0..(n - 1) /\ Cardinality(left) = Cardinality(rows) - 1
  <2>1. n \in Nat /\ rows \in SUBSET (0..(n - 1)) /\ row \in rows /\ (\A r \in rows : r <= row) /\ dest \in 0..n
    BY <1>2, <1>3, <1>4, <1>5
  <2> HIDE DEF dest
  <2> QED
    BY ONLY <2>1, ShiftedRows, SMTT(30)
<1> HIDE DEF q, cleared, dest, left
<1> DEFINE next == [pl |-> q, cleared |-> cleared, dest |-> dest, rows |-> left]
<1>9. next \in Drags
  <2>1. dest \in Nat /\ left \subseteq Nat
    BY <1>3, <1>5, <1>8
  <2>2. next \in [pl : Playlists(Items), cleared : SUBSET Items, dest : Nat, rows : SUBSET Nat]
    BY <1>6, <1>7, <2>1
  <2> QED
    BY <1>5, <1>6, <1>8, <2>2 DEF Drags
<1> HIDE DEF next
<1> QED
  BY <1>1, <1>6, <1>8, <1>9 DEF n, p, rows, next

(* Where the item at j was before the lowest row was moved above the row `to`, and that row then. *)
Source(j, row, to) == IF row + 1 # to THEN MoveSource(j, row, MoveTarget(row, to)) ELSE j

DestAfter(row, to) == IF row < to THEN to - 1 ELSE to

LEMMA SourceIs ==
  ASSUME NEW n \in Nat, NEW row \in 0..(n - 1), NEW to \in 0..n, row # to, NEW j \in 0..(n - 1)
  PROVE  /\ Source(j, row, to) \in 0..(n - 1)
         /\ Source(j, row, to) = row <=> j = DestAfter(row, to)
         /\ Source(j, row, to) # row => (j < DestAfter(row, to) <=> Source(j, row, to) < to)
         /\ row < to /\ Source(j, row, to) < row => j = Source(j, row, to)
         /\ to < row /\ Source(j, row, to) < row =>
              j = IF Source(j, row, to) < to THEN Source(j, row, to) ELSE Source(j, row, to) + 1
BY DEF Source, DestAfter, MoveSource, MoveTarget

LEMMA SourcesOrdered ==
  ASSUME NEW n \in Nat, NEW row \in 0..(n - 1), NEW to \in 0..n, row # to,
         NEW j \in 0..(n - 1), NEW k \in 0..(n - 1), Source(j, row, to) # row, Source(k, row, to) # row
  PROVE  j < k <=> Source(j, row, to) < Source(k, row, to)
BY DEF Source, MoveSource, MoveTarget

LEMMA PartsAfterMove ==
  ASSUME NEW n \in Nat, NEW rows \in SUBSET (0..(n - 1)), NEW row \in rows, \A r \in rows : r <= row,
         NEW to \in 0..n, to \notin rows, NEW j \in 0..(n - 1)
  PROVE  /\ DestAfter(row, to) \notin RowsLeft(rows, row, DestAfter(row, to))
         /\ Source(j, row, to) # row =>
              Part(j, RowsLeft(rows, row, DestAfter(row, to)), DestAfter(row, to))
                = Part(Source(j, row, to), rows, to)
         /\ Source(j, row, to) = row =>
              Part(j, RowsLeft(rows, row, DestAfter(row, to)), DestAfter(row, to)) = 2
<1> DEFINE i == Source(j, row, to)
           dest == DestAfter(row, to)
           left == RowsLeft(rows, row, dest)
<1>1. row \in 0..(n - 1) /\ row # to
  OBVIOUS
<1>2. /\ i \in 0..(n - 1)
      /\ i = row <=> j = dest
      /\ i # row => (j < dest <=> i < to)
      /\ row < to /\ i < row => j = i
      /\ to < row /\ i < row => j = IF i < to THEN i ELSE i + 1
  BY <1>1, SourceIs
<1>3. dest = IF row < to THEN to - 1 ELSE to
  BY <1>1 DEF DestAfter
<1>4. \A r \in rows \ {row} : r < row /\ r \in 0..(n - 1) /\ r # to
  OBVIOUS
<1>5. \A r \in rows \ {row} :
        ShiftedRow(r, row, dest) = IF to < row /\ r > to THEN r + 1 ELSE r
  BY <1>1, <1>3, <1>4 DEF ShiftedRow
<1>6. left = {IF to < row /\ r > to THEN r + 1 ELSE r : r \in rows \ {row}}
  BY <1>5 DEF RowsLeft
<1>7. dest \notin left
  BY <1>1, <1>3, <1>4, <1>6
<1> HIDE DEF i, dest, left
<1>8. ASSUME i # row
      PROVE  j \in left <=> i \in rows
  <2>1. ASSUME i \in rows
        PROVE  j \in left
    <3>1. i \in rows \ {row} /\ i < row /\ i # to
      BY <1>4, <1>8, <2>1
    <3>2. j = IF to < row /\ i > to THEN i + 1 ELSE i
      BY <1>1, <1>2, <3>1
    <3> QED
      BY <1>6, <3>1, <3>2
  <2>2. ASSUME j \in left
        PROVE  i \in rows
    <3>1. PICK r \in rows \ {row} : j = IF to < row /\ r > to THEN r + 1 ELSE r
      BY <1>6, <2>2
    <3>2. r < row /\ r \in 0..(n - 1) /\ r # to /\ r \in rows
      BY <1>4
    <3>3. i = r
      <4> USE DEF i, Source, MoveSource, MoveTarget
      <4>1. CASE row < to
        BY <1>1, <3>1, <3>2, <4>1
      <4>2. CASE to < row
        BY <1>1, <3>1, <3>2, <4>2
      <4> QED
        BY <1>1, <4>1, <4>2
    <3> QED
      BY <3>2, <3>3
  <2> QED
    BY <2>1, <2>2
<1>9. i # row => Part(j, left, dest) = Part(i, rows, to)
  <2> SUFFICES ASSUME i # row PROVE Part(j, left, dest) = Part(i, rows, to)
    OBVIOUS
  <2>1. (j \in left <=> i \in rows) /\ (j < dest <=> i < to)
    BY <1>2, <1>8
  <2> QED
    BY <2>1 DEF Part
<1>10. i = row => Part(j, left, dest) = 2
  <2> SUFFICES ASSUME i = row PROVE Part(j, left, dest) = 2
    OBVIOUS
  <2>1. j = dest /\ j \notin left /\ ~(j < dest)
    BY <1>2, <1>7
  <2> QED
    BY <2>1 DEF Part
<1> QED
  BY <1>7, <1>9, <1>10 DEF i, dest, left

LEMMA MovedItems ==
  ASSUME NEW p \in Playlists(Items), NEW from \in 0..(Size(p) - 1), NEW to \in 0..Size(p)
  PROVE  /\ \A j \in 0..(Size(p) - 1) :
              ItemAt(MoveItem(p, from, to), j) = ItemAt(p, MoveSource(j, from, MoveTarget(from, to)))
         /\ ItemsOf(MoveItem(p, from, to)) = ItemsOf(p)
<1> DEFINE n == Size(p)
           target == MoveTarget(from, to)
           q == MoveItem(p, from, to)
<1>1. n \in Nat /\ n = Len(p.items) /\ ItemsOf(p) = {p.items[j] : j \in 1..n}
  BY ListElements
<1>2. from \in 0..(n - 1) /\ target \in 0..(n - 1)
  BY <1>1 DEF MoveTarget
<1>3. q.items = [k \in 1..n |-> ItemAt(p, MoveSource(k - 1, from, target))]
  BY DEF MoveItem
<1> HIDE DEF n, target, q
<1>4. ASSUME NEW j \in 0..(n - 1)
      PROVE  ItemAt(q, j) = ItemAt(p, MoveSource(j, from, target))
  <2>1. j + 1 \in 1..n /\ (j + 1) - 1 = j
    BY <1>1
  <2> QED
    BY <1>3, <2>1 DEF ItemAt
<1>5. ItemsOf(q) = {ItemAt(q, j) : j \in 0..(n - 1)}
  <2>1. DOMAIN q.items = 1..n
    BY <1>3
  <2>2. ItemsOf(q) = {q.items[k] : k \in 1..n}
    BY <2>1 DEF ItemsOf, ToSet
  <2>3. \A k \in 1..n : k - 1 \in 0..(n - 1) /\ (k - 1) + 1 = k
    BY <1>1
  <2>4. \A j \in 0..(n - 1) : j + 1 \in 1..n
    BY <1>1
  <2> QED
    BY <2>2, <2>3, <2>4 DEF ItemAt
<1>6. ItemsOf(p) = {ItemAt(p, i) : i \in 0..(n - 1)}
  <2>3. \A k \in 1..n : k - 1 \in 0..(n - 1) /\ (k - 1) + 1 = k
    BY <1>1
  <2>4. \A j \in 0..(n - 1) : j + 1 \in 1..n
    BY <1>1
  <2> QED
    BY <1>1, <2>3, <2>4 DEF ItemAt
<1>7. ASSUME NEW i \in 0..(n - 1)
      PROVE  ItemAt(p, i) \in ItemsOf(q)
  <2> DEFINE j == MoveSource(i, target, from)
  <2>1. j \in 0..(n - 1) /\ MoveSource(j, from, target) = i
    BY <1>1, <1>2 DEF MoveSource
  <2> QED
    BY <1>4, <1>5, <2>1
<1>8. ASSUME NEW j \in 0..(n - 1)
      PROVE  ItemAt(q, j) \in ItemsOf(p)
  <2>1. MoveSource(j, from, target) \in 0..(n - 1)
    BY <1>1, <1>2, MoveSourceRange
  <2> QED
    BY <1>4, <1>6, <2>1
<1>9. ItemsOf(q) = ItemsOf(p)
  BY <1>5, <1>6, <1>7, <1>8
<1> QED
  BY <1>4, <1>9 DEF n, target, q

(* The item t is to precede u at the end of the drag. *)
Precedes(drag, t, u) ==
  \E j, k \in 0..(Size(drag.pl) - 1) :
    t = ItemAt(drag.pl, j) /\ u = ItemAt(drag.pl, k) /\ InFront(j, k, drag.rows, drag.dest)

LEMMA DropOneKeepsOrder ==
  ASSUME NEW drag \in Drags, drag.rows # {}, drag.dest \notin drag.rows
  PROVE  /\ DropOne(drag).dest \notin DropOne(drag).rows
         /\ ItemsOf(DropOne(drag).pl) = ItemsOf(drag.pl)
         /\ \A t, u : Precedes(DropOne(drag), t, u) => Precedes(drag, t, u)
<1> DEFINE p == drag.pl
           n == Size(p)
           rows == drag.rows
           to == drag.dest
           row == Max(rows)
           dest == DestAfter(row, to)
           left == RowsLeft(rows, row, dest)
           q == IF row + 1 # to THEN MoveItem(p, row, to) ELSE p
           next == DropOne(drag)
           i(j) == Source(j, row, to)
<1>1. p \in Playlists(Items) /\ to \in 0..n /\ rows \in SUBSET (0..(n - 1)) /\ to \notin rows
  BY DEF Drags
<1>2. n \in Nat
  BY <1>1, ListElements
<1>3. row \in rows /\ \A r \in rows : r <= row
  <2>1. rows \in SUBSET (0..n) /\ rows # {}
    BY <1>1, <1>2
  <2> HIDE DEF n, rows
  <2> QED
    BY <1>2, <2>1, LowestRow
<1>4. row # to /\ row \in 0..(n - 1)
  BY <1>1, <1>3
<1>5. next.pl = q /\ next.dest = dest /\ next.rows = left
  BY <1>4 DEF DropOne, DestAfter, RowsLeft
<1>6. Size(q) = n
  BY <1>5, DropOneKeepsWhole
<1>7. /\ \A j \in 0..(n - 1) : ItemAt(q, j) = ItemAt(p, i(j))
      /\ ItemsOf(q) = ItemsOf(p)
  <2>1. /\ \A j \in 0..(n - 1) :
             ItemAt(MoveItem(p, row, to), j) = ItemAt(p, MoveSource(j, row, MoveTarget(row, to)))
        /\ ItemsOf(MoveItem(p, row, to)) = ItemsOf(p)
    BY <1>1, <1>4, MovedItems
  <2> QED
    BY <2>1 DEF Source
<1> HIDE DEF p, n, rows, to, row, dest, left, q, next
<1>8. dest \notin left
  <2>1. 0 \in 0..(n - 1)
    BY <1>2, <1>4
  <2> QED
    BY <1>1, <1>2, <1>3, <2>1, PartsAfterMove DEF dest, left
<1>9. \A j \in 0..(n - 1) :
        /\ i(j) \in 0..(n - 1)
        /\ i(j) # row => Part(j, left, dest) = Part(i(j), rows, to)
        /\ i(j) = row => Part(j, left, dest) = 2 /\ j = dest
  <2> TAKE j \in 0..(n - 1)
  <2>1. i(j) \in 0..(n - 1) /\ (i(j) = row <=> j = dest)
    BY <1>1, <1>2, <1>4, SourceIs DEF dest
  <2>2. /\ i(j) # row => Part(j, left, dest) = Part(i(j), rows, to)
        /\ i(j) = row => Part(j, left, dest) = 2
    BY <1>1, <1>2, <1>3, PartsAfterMove DEF dest, left
  <2> QED
    BY <2>1, <2>2
<1>10. ASSUME NEW j \in 0..(n - 1), NEW k \in 0..(n - 1), InFront(j, k, left, dest)
       PROVE  InFront(i(j), i(k), rows, to)
  <2> DEFINE x == i(j)
             y == i(k)
  <2>1. /\ x \in 0..(n - 1) /\ y \in 0..(n - 1)
        /\ x # row => Part(j, left, dest) = Part(x, rows, to)
        /\ y # row => Part(k, left, dest) = Part(y, rows, to)
        /\ x = row => Part(j, left, dest) = 2 /\ j = dest
        /\ y = row => Part(k, left, dest) = 2 /\ k = dest
    BY <1>9
  <2>2. x # row /\ y # row => (j < k <=> x < y)
    BY <1>1, <1>2, <1>4, SourcesOrdered
  <2> SUFFICES InFront(x, y, rows, to)
    OBVIOUS
  <2> HIDE DEF x, y
  <2>3. \A r : Part(r, rows, to) \in 0..2 /\ Part(r, left, dest) \in 0..2
    BY DEF Part
  <2>4. Part(row, rows, to) = 1
    BY <1>3 DEF Part
  <2>5. CASE x # row /\ y # row
    BY <1>10, <2>1, <2>2, <2>5 DEF InFront
  <2>6. CASE x = row
    <3>1. Part(k, left, dest) = 2 /\ j < k /\ j = dest
      BY <1>10, <2>1, <2>3, <2>6 DEF InFront
    <3>2. y # row
      BY <2>1, <3>1
    <3>3. Part(y, rows, to) = 2
      BY <2>1, <3>1, <3>2
    <3> QED
      BY <2>4, <2>6, <3>3 DEF InFront
  <2>7. CASE x # row /\ y = row
    <3>1. CASE Part(j, left, dest) = 2
      <4>1. j < dest
        BY <1>10, <2>1, <2>7, <3>1 DEF InFront
      <4> QED
        BY <3>1, <4>1 DEF Part
    <3>2. CASE Part(j, left, dest) # 2
      <4>1. Part(x, rows, to) \in {0, 1}
        BY <2>1, <2>3, <2>7, <3>2
      <4>2. Part(x, rows, to) = 1 => x < row
        BY <1>1, <1>2, <1>3, <2>1, <2>7 DEF Part
      <4> QED
        BY <2>4, <2>7, <4>1, <4>2 DEF InFront
    <3> QED
      BY <3>1, <3>2
  <2> QED
    BY <2>5, <2>6, <2>7
<1>11. ASSUME NEW t, NEW u, Precedes(next, t, u)
       PROVE  Precedes(drag, t, u)
  <2>1. PICK j \in 0..(n - 1), k \in 0..(n - 1) :
          t = ItemAt(q, j) /\ u = ItemAt(q, k) /\ InFront(j, k, left, dest)
    BY <1>5, <1>6, <1>11 DEF Precedes
  <2>2. t = ItemAt(p, i(j)) /\ u = ItemAt(p, i(k)) /\ InFront(i(j), i(k), rows, to)
    BY <1>7, <1>10, <2>1
  <2>3. i(j) \in 0..(n - 1) /\ i(k) \in 0..(n - 1)
    BY <1>9
  <2> HIDE DEF i
  <2> QED
    BY <2>2, <2>3 DEF Precedes, p, n, rows, to
<1> QED
  BY <1>5, <1>7, <1>8, <1>11 DEF p, next

(* The drag ends with all rows moved, as its steps have it. *)
LEMMA DroppedKeepsWhole ==
  ASSUME NEW p \in Playlists(Items), IsInjective(p.items),
         NEW rows \in SUBSET (0..(Size(p) - 1)), NEW dest \in 0..Size(p)
  PROVE  /\ Dropped(p, rows, dest) \in Drags
         /\ Dropped(p, rows, dest).rows = {}
         /\ Size(Dropped(p, rows, dest).pl) = Size(p)
         /\ dest \notin rows =>
              /\ ItemsOf(Dropped(p, rows, dest).pl) = ItemsOf(p)
              /\ \A t, u : Precedes(Dropped(p, rows, dest), t, u) =>
                             Precedes([pl |-> p, cleared |-> {}, dest |-> dest, rows |-> rows], t, u)
<1> DEFINE N == Cardinality(rows)
           drag == [pl |-> p, cleared |-> {}, dest |-> dest, rows |-> rows]
           F(f) == [n \in 0..N |-> IF n = 0 THEN drag ELSE DropOne(f[n - 1])]
           D == CHOOSE f : f = F(f)
<1>1. Dropped(p, rows, dest) = D[N]
  BY DEF Dropped
<1>2. Size(p) \in Nat
  BY ListElements
<1>3. IsFiniteSet(rows) /\ N \in Nat
  <2>1. rows \in SUBSET Nat /\ \A r \in rows : r <= Size(p)
    BY <1>2
  <2>2. IsFiniteSet(rows)
    BY <1>2, <2>1, FS_BoundedSetOfNaturals
  <2> QED
    BY <2>2, FS_CardinalityType
<1>4. drag \in Drags
  <2>1. drag \in [pl : Playlists(Items), cleared : SUBSET Items, dest : Nat, rows : SUBSET Nat]
    BY <1>2
  <2> QED
    BY <2>1 DEF Drags
<1>5. ASSUME NEW d \in Drags
      PROVE  IsFiniteSet(d.rows) /\ Cardinality(d.rows) \in Nat /\ (Cardinality(d.rows) = 0 <=> d.rows = {})
  <2>1. d.pl \in Playlists(Items) /\ d.rows \subseteq 0..(Size(d.pl) - 1)
    BY DEF Drags
  <2>2. Size(d.pl) \in Nat
    BY <2>1, ListElements
  <2>3. d.rows \in SUBSET Nat /\ \A r \in d.rows : r <= Size(d.pl)
    BY <2>1, <2>2
  <2>4. IsFiniteSet(d.rows)
    BY <2>2, <2>3, FS_BoundedSetOfNaturals
  <2> QED
    BY <2>4, FS_CardinalityType, FS_EmptySet
<1> HIDE DEF N
<1>6. drag.pl = p /\ drag.rows = rows /\ drag.dest = dest /\ Cardinality(drag.rows) = N
  BY DEF N
<1> HIDE DEF drag
<1>7. \E f : f = F(f)
  <2> DEFINE After(v) == IF v.rows = {} THEN v ELSE DropOne(v)
             step == [x \in (1..N) \X Drags |-> After(x[2])]
  <2>1. \A v \in Drags : After(v) \in Drags
    BY DropOneKeepsWhole
  <2>2. Recursion(Drags, 0, N, drag, step)
    BY <1>3, <1>4, <2>1 DEF Recursion
  <2>3. \A k \in 1..N, v \in Drags : step[<<k, v>>] = After(v)
    OBVIOUS
  <2> HIDE DEF step
  <2>4. PICK f : Follows(f, Drags, 0, N, drag, step)
    BY <2>2, RecursionExists
  <2>5. f \in [0..N -> Drags] /\ f[0] = drag /\ \A k \in 1..N : f[k] = After(f[k - 1])
    <3>1. f \in [0..N -> Drags] /\ \A k \in 0..N : f[k] = IF k = 0 THEN drag ELSE step[<<k, f[k - 1]>>]
      BY <2>4 DEF Follows
    <3>2. 0 \in 0..N /\ \A k \in 1..N : k \in 0..N /\ k # 0 /\ k - 1 \in 0..N
      BY <1>3
    <3> HIDE DEF After
    <3> QED
      BY <2>3, <3>1, <3>2
  <2> DEFINE P == {k \in 0..N : Cardinality(f[k].rows) = N - k}
  <2>6. 0 \in P
    BY <1>3, <1>6, <2>5
  <2>7. ASSUME NEW k \in 1..N, k - 1 \in P
        PROVE  f[k - 1].rows # {} /\ k \in P
    <3> DEFINE v == f[k - 1]
    <3>1. k - 1 \in 0..N /\ k \in 0..N /\ N - (k - 1) # 0 /\ (N - (k - 1)) - 1 = N - k
      BY <1>3
    <3>2. v \in Drags /\ Cardinality(v.rows) = N - (k - 1)
      BY <2>5, <2>7, <3>1
    <3> HIDE DEF v
    <3>3. v.rows # {}
      BY <1>5, <3>1, <3>2
    <3>4. f[k] = DropOne(v)
      BY <2>5, <3>3 DEF v
    <3>5. Cardinality(f[k].rows) = N - k
      BY <3>1, <3>2, <3>3, <3>4, DropOneKeepsWhole
    <3> QED
      BY <3>1, <3>3, <3>5 DEF v
  <2>8. \A k \in 0..N : k \in P
    <3> HIDE DEF P
    <3> QED
      BY <1>3, <2>6, <2>7, CountInduction
  <2>9. \A k \in 0..N : f[k] = IF k = 0 THEN drag ELSE DropOne(f[k - 1])
    <3> TAKE k \in 0..N
    <3>1. k # 0 => k \in 1..N /\ k - 1 \in 0..N
      BY <1>3
    <3> HIDE DEF P
    <3> QED
      BY <2>5, <2>7, <2>8, <3>1
  <2>10. f = F(f)
    BY <2>5, <2>9
  <2> QED
    BY <2>10
<1>8. D = F(D)
  BY <1>7
<1> HIDE DEF D
<1>9. D[0] = drag /\ \A k \in 1..N : D[k] = DropOne(D[k - 1])
  <2>1. 0 \in 0..N /\ \A k \in 1..N : k \in 0..N /\ k # 0
    BY <1>3
  <2>2. \A k \in 0..N : D[k] = IF k = 0 THEN drag ELSE DropOne(D[k - 1])
    BY <1>8
  <2> QED
    BY <2>1, <2>2
<1> DEFINE Right(d) ==
             /\ d \in Drags
             /\ Size(d.pl) = Size(p)
             /\ dest \notin rows =>
                  /\ d.dest \notin d.rows
                  /\ ItemsOf(d.pl) = ItemsOf(p)
                  /\ \A t, u : Precedes(d, t, u) => Precedes(drag, t, u)
           P == {k \in 0..N : Right(D[k]) /\ Cardinality(D[k].rows) = N - k}
<1>10. 0 \in P
  BY <1>3, <1>4, <1>6, <1>9
<1>11. ASSUME NEW k \in 1..N, k - 1 \in P
       PROVE  k \in P
  <2> DEFINE v == D[k - 1]
  <2>1. k - 1 \in 0..N /\ k \in 0..N /\ N - (k - 1) # 0 /\ (N - (k - 1)) - 1 = N - k
    BY <1>3
  <2>2. Right(v) /\ Cardinality(v.rows) = N - (k - 1)
    BY <1>11
  <2>3. D[k] = DropOne(v)
    BY <1>9
  <2> HIDE DEF v
  <2>4. v.rows # {}
    BY <1>5, <2>1, <2>2
  <2>5. Right(DropOne(v)) /\ Cardinality(DropOne(v).rows) = N - k
    <3>1. /\ DropOne(v) \in Drags
          /\ Size(DropOne(v).pl) = Size(p)
          /\ Cardinality(DropOne(v).rows) = N - k
      BY <2>1, <2>2, <2>4, DropOneKeepsWhole
    <3>2. dest \notin rows =>
            /\ DropOne(v).dest \notin DropOne(v).rows
            /\ ItemsOf(DropOne(v).pl) = ItemsOf(p)
            /\ \A t, u : Precedes(DropOne(v), t, u) => Precedes(drag, t, u)
      BY <2>2, <2>4, DropOneKeepsOrder
    <3> QED
      BY <3>1, <3>2
  <2> HIDE DEF Right
  <2> QED
    BY <2>1, <2>3, <2>5
<1>12. N \in P
  <2> HIDE DEF P
  <2>1. \A k \in 0..N : k \in P
    BY <1>3, <1>10, <1>11, CountInduction
  <2> QED
    BY <1>3, <2>1
<1>13. Right(D[N]) /\ Cardinality(D[N].rows) = 0
  BY <1>3, <1>12
<1>14. D[N].rows = {}
  BY <1>5, <1>13
<1> QED
  BY <1>1, <1>13, <1>14 DEF drag

LEMMA DragsGather ==
  ASSUME pl \in Playlists(Items), IsInjective(pl.items)
  PROVE  DropGathersRows
<1> SUFFICES ASSUME NEW rows \in SUBSET Indices, NEW dest \in 0..Size(pl), dest \notin rows
             PROVE  LET q == Dropped(pl, rows, dest).pl
                    IN  /\ Size(q) = Size(pl) /\ ItemsOf(q) = ItemsOf(pl)
                        /\ \A j, k \in Indices : InFront(j, k, rows, dest) =>
                             PlaceOf(q, ItemAt(pl, j)) < PlaceOf(q, ItemAt(pl, k))
  BY DEF DropGathersRows
<1> DEFINE n == Size(pl)
           end == Dropped(pl, rows, dest)
           start == [pl |-> pl, cleared |-> {}, dest |-> dest, rows |-> rows]
           q == end.pl
<1>1. n \in Nat /\ Indices = 0..(n - 1) /\ n = Len(pl.items)
  BY ListElements DEF Indices
<1>2. /\ end \in Drags /\ end.rows = {} /\ Size(q) = n /\ ItemsOf(q) = ItemsOf(pl)
      /\ \A t, u : Precedes(end, t, u) => Precedes(start, t, u)
  <2>1. rows \in SUBSET (0..(Size(pl) - 1))
    BY <1>1
  <2> QED
    BY <2>1, DroppedKeepsWhole
<1>3. start.pl = pl /\ start.rows = rows /\ start.dest = dest
  OBVIOUS
<1> HIDE DEF end, start, n
<1>4. q \in Playlists(Items) /\ end.dest \in Nat
  BY <1>2 DEF Drags
<1>5. ASSUME NEW k \in 0..(n - 1)
      PROVE  PlaceOf(q, ItemAt(pl, k)) \in 0..(n - 1) /\ ItemAt(q, PlaceOf(q, ItemAt(pl, k))) = ItemAt(pl, k)
  <2>1. ItemAt(pl, k) \in ItemsOf(pl)
    <3>1. k + 1 \in 1..n
      BY <1>1
    <3> QED
      BY <1>1, <3>1, ListElements DEF ItemAt
  <2>2. PICK x \in 1..n : ItemAt(pl, k) = q.items[x]
    <3>1. Len(q.items) = n /\ ItemsOf(q) = {q.items[x] : x \in 1..Len(q.items)}
      BY <1>2, <1>4, ListElements
    <3> QED
      BY <1>2, <2>1, <3>1
  <2>3. x - 1 \in 0..(n - 1) /\ ItemAt(q, x - 1) = ItemAt(pl, k)
    BY <1>1, <2>2 DEF ItemAt
  <2> QED
    BY <1>2, <2>3 DEF PlaceOf
<1>6. ASSUME NEW x \in 0..(n - 1), NEW y \in 0..(n - 1), x < y
      PROVE  Precedes(start, ItemAt(q, x), ItemAt(q, y))
  <2>1. Part(x, {}, end.dest) \in {0, 2} /\ Part(y, {}, end.dest) \in {0, 2}
        /\ (Part(x, {}, end.dest) = 0 <=> x < end.dest) /\ (Part(y, {}, end.dest) = 0 <=> y < end.dest)
    BY DEF Part
  <2>2. InFront(x, y, {}, end.dest)
    BY <1>1, <1>4, <1>6, <2>1 DEF InFront
  <2>3. Precedes(end, ItemAt(q, x), ItemAt(q, y))
    BY <1>2, <2>2 DEF Precedes
  <2> QED
    BY <1>2, <2>3
<1>7. \A x, y \in 0..(n - 1) : ItemAt(pl, x) = ItemAt(pl, y) => x = y
  <2> TAKE x \in 0..(n - 1), y \in 0..(n - 1)
  <2>1. x + 1 \in 1..n /\ y + 1 \in 1..n
    BY <1>1
  <2>2. pl.items[x + 1] = pl.items[y + 1] => x + 1 = y + 1
    BY <1>1, <2>1, ListElements
  <2> QED
    BY <1>1, <2>2 DEF ItemAt
<1>8. \A r : Part(r, rows, dest) \in 0..2
  BY DEF Part
<1>9. ASSUME NEW j \in 0..(n - 1), NEW k \in 0..(n - 1), InFront(j, k, rows, dest)
      PROVE  PlaceOf(q, ItemAt(pl, j)) < PlaceOf(q, ItemAt(pl, k))
  <2> DEFINE x == PlaceOf(q, ItemAt(pl, j))
             y == PlaceOf(q, ItemAt(pl, k))
  <2>1. /\ x \in 0..(n - 1) /\ ItemAt(q, x) = ItemAt(pl, j)
        /\ y \in 0..(n - 1) /\ ItemAt(q, y) = ItemAt(pl, k)
    BY <1>5
  <2> SUFFICES ASSUME ~(x < y) PROVE FALSE
    OBVIOUS
  <2> HIDE DEF x, y
  <2>2. j # k
    <3>1. ~InFront(j, j, rows, dest)
      <4>1. Part(j, rows, dest) \in Int /\ j \in Int
        BY <1>1, <1>8
      <4> QED
        BY <4>1 DEF InFront
    <3> QED
      BY <1>9, <3>1
  <2>3. x # y
    BY <1>7, <2>1, <2>2
  <2>4. y < x
    BY <1>1, <2>1, <2>3
  <2>5. Precedes(start, ItemAt(pl, k), ItemAt(pl, j))
    BY <1>6, <2>1, <2>4
  <2>6. PICK b, a \in 0..(n - 1) :
          ItemAt(pl, k) = ItemAt(pl, b) /\ ItemAt(pl, j) = ItemAt(pl, a) /\ InFront(b, a, rows, dest)
    BY <1>3, <2>5 DEF Precedes, n
  <2>7. InFront(k, j, rows, dest)
    BY <1>7, <2>6
  <2> QED
    BY <1>1, <1>8, <1>9, <2>7 DEF InFront
<1> QED
  BY <1>1, <1>2, <1>9 DEF n, end

-----------------------------------------------------------------------------
(* insertItems() keeps what was above the current item above it. *)
LEMMA InsertedItems ==
  ASSUME NEW p \in Playlists(Items), IsInjective(p.items), NEW i \in Nat,
         NEW ts \in Seq(Items), IsInjective(ts), ToSet(ts) \subseteq Items \ ItemsOf(p)
  PROVE  /\ InsertItems(p, i, ts) \in Playlists(Items)
         /\ IsInjective(InsertItems(p, i, ts).items)
         /\ Above(p) \subseteq Above(InsertItems(p, i, ts))
<1> DEFINE N == Len(ts)
           F(f) == [n \in 0..N |-> IF n = 0 THEN p ELSE InsertItem(f[n - 1], i + n - 1, ts[n])]
           I == CHOOSE f : f = F(f)
<1>1. InsertItems(p, i, ts) = I[N]
  BY DEF InsertItems
<1>2. N \in Nat /\ DOMAIN ts = 1..N /\ \A n \in 1..N : ts[n] \in Items \ ItemsOf(p)
  BY DEF ToSet
<1>3. \A x, y \in 1..N : ts[x] = ts[y] => x = y
  BY <1>2 DEF IsInjective
<1> HIDE DEF N
<1>4. \A n \in 1..N : i + n - 1 \in Nat
  BY <1>2
<1>5. \E f : f = F(f)
  <2> DEFINE step == [x \in (1..N) \X Playlists(Items) |-> InsertItem(x[2], i + x[1] - 1, ts[x[1]])]
  <2>1. \A n \in 1..N, v \in Playlists(Items) : InsertItem(v, i + n - 1, ts[n]) \in Playlists(Items)
    BY <1>2, <1>4, InsertType
  <2>2. Recursion(Playlists(Items), 0, N, p, step)
    BY <1>2, <2>1 DEF Recursion
  <2>3. \A n \in 1..N, v \in Playlists(Items) : step[<<n, v>>] = InsertItem(v, i + n - 1, ts[n])
    OBVIOUS
  <2> HIDE DEF step
  <2>4. PICK f : Follows(f, Playlists(Items), 0, N, p, step)
    BY <2>2, RecursionExists
  <2>5. f \in [0..N -> Playlists(Items)] /\ \A n \in 0..N : f[n] = IF n = 0 THEN p ELSE step[<<n, f[n - 1]>>]
    BY <2>4 DEF Follows
  <2>6. \A n \in 0..N : f[n] = IF n = 0 THEN p ELSE InsertItem(f[n - 1], i + n - 1, ts[n])
    <3> TAKE n \in 0..N
    <3>1. n # 0 => n \in 1..N /\ n - 1 \in 0..N
      BY <1>2
    <3> QED
      BY <2>3, <2>5, <3>1
  <2>7. f = F(f)
    BY <2>5, <2>6
  <2> QED
    BY <2>7
<1>6. I = F(I)
  BY <1>5
<1> HIDE DEF I
<1>7. I[0] = p /\ \A n \in 1..N : I[n] = InsertItem(I[n - 1], i + n - 1, ts[n])
  <2>1. 0 \in 0..N /\ \A n \in 1..N : n \in 0..N /\ n # 0
    BY <1>2
  <2>2. \A n \in 0..N : I[n] = IF n = 0 THEN p ELSE InsertItem(I[n - 1], i + n - 1, ts[n])
    BY <1>6
  <2> QED
    BY <2>1, <2>2
<1> DEFINE Right(n, v) ==
             /\ v \in Playlists(Items) /\ IsInjective(v.items)
             /\ ItemsOf(v) = ItemsOf(p) \cup {ts[k] : k \in 1..n}
             /\ Above(p) \subseteq Above(v)
           P == {n \in 0..N : Right(n, I[n])}
<1>8. 0 \in P
  BY <1>2, <1>7
<1>9. ASSUME NEW n \in 1..N, n - 1 \in P
      PROVE  n \in P
  <2> DEFINE v == I[n - 1]
  <2>1. Right(n - 1, v) /\ n \in 0..N
    BY <1>2, <1>9
  <2>2. I[n] = InsertItem(v, i + n - 1, ts[n])
    BY <1>7
  <2> HIDE DEF v
  <2>3. ts[n] \notin ItemsOf(v)
    <3>1. \A k \in 1..(n - 1) : k \in 1..N /\ k # n
      BY <1>2
    <3> QED
      BY <1>2, <1>3, <2>1, <3>1
  <2>4. 1..n = 1..(n - 1) \cup {n}
    BY <1>2
  <2>5. /\ InsertItem(v, i + n - 1, ts[n]) \in Playlists(Items)
        /\ IsInjective(InsertItem(v, i + n - 1, ts[n]).items)
        /\ ItemsOf(InsertItem(v, i + n - 1, ts[n])) = ItemsOf(v) \cup {ts[n]}
        /\ Above(v) \subseteq Above(InsertItem(v, i + n - 1, ts[n]))
    BY <1>2, <1>4, <2>1, <2>3, InsertKeepsWhole
  <2>6. {ts[k] : k \in 1..n} = {ts[k] : k \in 1..(n - 1)} \cup {ts[n]}
    BY <2>4
  <2>7. Right(n, I[n])
    BY <2>1, <2>2, <2>5, <2>6
  <2> QED
    BY <2>1, <2>7
<1>10. N \in P
  <2> HIDE DEF P
  <2>1. \A n \in 0..N : n \in P
    BY <1>2, <1>8, <1>9, CountInduction
  <2> QED
    BY <1>2, <2>1
<1> QED
  BY <1>1, <1>10

-----------------------------------------------------------------------------
(* Playback times. *)
Times ==
  {time \in [started : MaybeTime, ended : MaybeTime] : time.started = NoTime <=> time.ended = NoTime}

(* updateItemTimesFromCurrent() leaves the items above the current one alone. *)
LEMMA UpdateSparesAbove ==
  ASSUME NEW p \in Playlists(Items), IsInjective(p.items), NEW ts, NEW t \in Items, t \in Above(p)
  PROVE  WithUpdatedTimes(ts, p)[t] = ts[t]
<1> DEFINE n == Size(p)
           after == {k \in (p.cur + 1)..(n - 1) : ItemAt(p, k) = t}
<1>1. /\ p.cur \in Nat /\ n \in Nat /\ n = Len(p.items)
      /\ \A x, y \in 1..n : p.items[x] = p.items[y] => x = y
  BY ListElements
<1>2. PICK j \in 1..n : j <= p.cur /\ t = p.items[j]
  BY <1>1, AboveElements
<1>3. after = {}
  <2> SUFFICES ASSUME NEW k \in (p.cur + 1)..(n - 1), ItemAt(p, k) = t
               PROVE  FALSE
    OBVIOUS
  <2>1. k + 1 \in 1..n /\ k + 1 # j
    BY <1>1, <1>2
  <2> QED
    BY <1>1, <1>2, <2>1 DEF ItemAt
<1> QED
  BY <1>3 DEF WithUpdatedTimes, WithTimesAfter, IndicesAfter

LEMMA PlusType ==
  ASSUME NEW t \in Items, NEW time \in MaybeTime
  PROVE  /\ Plus(time, Duration(t)) \in MaybeTime
         /\ Plus(time, Duration(t)) = NoTime <=> time = NoTime
<1>1. Duration(t) \in Int
  BY DEF Duration
<1> QED
  BY <1>1 DEF Plus, MaybeTime

LEMMA UpdateType ==
  ASSUME NEW p \in Playlists(Items), NEW ts \in [Items -> Times]
  PROVE  WithUpdatedTimes(ts, p) \in [Items -> Times]
<1>1. CASE ~IsValidIndex(p, p.cur)
  BY <1>1 DEF WithUpdatedTimes
<1>2. CASE IsValidIndex(p, p.cur)
  <2> DEFINE last == p.cur
             hi == Size(p) - 1
             first == ts[ItemAt(p, last)].ended
             F(f) == [k \in last..hi |-> IF k = last THEN first ELSE Plus(f[k - 1], Duration(ItemAt(p, k)))]
             End == EndsFrom(ts, p, last)
             IndicesOf(t) == IndicesAfter(p, last, t)
  <2>1. WithUpdatedTimes(ts, p) =
          [t \in Items |-> IF IndicesOf(t) = {} THEN ts[t] ELSE TimesAt(End, Max(IndicesOf(t)))]
    BY <1>2 DEF WithUpdatedTimes, WithTimesAfter
  <2>0. /\ End = CHOOSE f : f = F(f)
        /\ \A t : IndicesOf(t) = {k \in (last + 1)..hi : ItemAt(p, k) = t}
    BY DEF EndsFrom, IndicesAfter
  <2>2. last \in Nat /\ Size(p) \in Nat /\ hi \in Int /\ last \in 0..hi
    BY <1>2, ListElements DEF IsValidIndex
  <2>3. \A k \in last..hi : ItemAt(p, k) \in Items
    <3> TAKE k \in last..hi
    <3>1. k \in Nat /\ IsValidIndex(p, k)
      BY <2>2 DEF IsValidIndex
    <3> QED
      BY <3>1, ItemAtType
  <2>4. first \in MaybeTime
    <3>1. ItemAt(p, last) \in Items
      BY <2>2, <2>3
    <3> QED
      BY <3>1 DEF Times
  <2> HIDE DEF last, hi, first
  <2>5. \A k \in (last + 1)..hi : k \in last..hi /\ k # last /\ k - 1 \in last..hi
    BY <2>2
  <2>6. \E f : f = F(f)
    <3> DEFINE step == [x \in ((last + 1)..hi) \X MaybeTime |-> Plus(x[2], Duration(ItemAt(p, x[1])))]
    <3>1. \A k \in (last + 1)..hi, v \in MaybeTime : Plus(v, Duration(ItemAt(p, k))) \in MaybeTime
      BY <2>3, <2>5, PlusType
    <3>2. last \in Int /\ hi \in Int /\ last <= hi
      BY <2>2 DEF hi
    <3>3. Recursion(MaybeTime, last, hi, first, step)
      BY <2>4, <3>1, <3>2 DEF Recursion
    <3>4. \A k \in (last + 1)..hi, v \in MaybeTime : step[<<k, v>>] = Plus(v, Duration(ItemAt(p, k)))
      OBVIOUS
    <3> HIDE DEF step
    <3>5. PICK f : Follows(f, MaybeTime, last, hi, first, step)
      BY <3>3, RecursionExists
    <3>6. f \in [last..hi -> MaybeTime]
          /\ \A k \in last..hi : f[k] = IF k = last THEN first ELSE step[<<k, f[k - 1]>>]
      BY <3>5 DEF Follows
    <3>7. \A k \in last..hi : f[k] = IF k = last THEN first ELSE Plus(f[k - 1], Duration(ItemAt(p, k)))
      <4> TAKE k \in last..hi
      <4>1. k # last => k \in (last + 1)..hi /\ f[k - 1] \in MaybeTime
        BY <3>2, <3>6
      <4> QED
        BY <3>4, <3>6, <4>1
    <3>8. f = F(f)
      BY <3>6, <3>7
    <3> QED
      BY <3>8
  <2> HIDE DEF End, IndicesOf
  <2>7. End = F(End)
    BY <2>0, <2>6
  <2>8. \A k \in last..hi : End[k] \in MaybeTime
    <3> DEFINE P == {k \in last..hi : End[k] \in MaybeTime}
    <3>1. last \in last..hi /\ last \in Int /\ hi \in Int
      BY <2>2 DEF hi
    <3>2. \A k \in last..hi : End[k] = IF k = last THEN first ELSE Plus(End[k - 1], Duration(ItemAt(p, k)))
      BY <2>7
    <3>3. last \in P
      BY <2>4, <3>1, <3>2
    <3>4. ASSUME NEW k \in (last + 1)..hi, k - 1 \in P
          PROVE  k \in P
      <4>1. Plus(End[k - 1], Duration(ItemAt(p, k))) \in MaybeTime
        BY <2>3, <2>5, <3>4, PlusType
      <4> QED
        BY <2>5, <3>2, <4>1
    <3>5. \A k \in last..hi : k \in P
      <4> HIDE DEF P
      <4> QED
        BY <3>1, <3>3, <3>4, RangeInduction
    <3> QED
      BY <3>5
  <2>9. ASSUME NEW t \in Items, IndicesOf(t) # {}
        PROVE  TimesAt(End, Max(IndicesOf(t))) \in Times
    <3>1. IndicesOf(t) \in SUBSET (0..Size(p))
      BY <2>0, <2>2 DEF hi
    <3> DEFINE k == Max(IndicesOf(t))
    <3>2. k \in IndicesOf(t)
      BY <2>2, <2>9, <3>1, LowestRow
    <3>3. k \in (last + 1)..hi
      BY <2>0, <3>2
    <3> HIDE DEF k
    <3>4. End[k] \in MaybeTime /\ End[k - 1] \in MaybeTime
      BY <2>5, <2>8, <3>3
    <3>5. End[k] = Plus(End[k - 1], Duration(ItemAt(p, k))) /\ ItemAt(p, k) \in Items
      BY <2>3, <2>5, <2>7, <3>3
    <3>6. End[k] = NoTime <=> End[k - 1] = NoTime
      BY <3>4, <3>5, PlusType
    <3> QED
      BY <3>4, <3>6 DEF k, Times, TimesAt
  <2> QED
    BY <2>1, <2>9
<1> QED
  BY <1>1, <1>2

LEMMA ForgettingType ==
  ASSUME NEW ts \in [Items -> Times], NEW S
  PROVE  /\ Forgetting(ts, S) \in [Items -> Times]
         /\ \A t \in Items : Forgetting(ts, S)[t] \in {ts[t], NoTimes}
BY DEF Forgetting, NoTimes, Times, MaybeTime

(* An insertion leaves the times of what is above the current item. *)
LEMMA InsertTimes ==
  ASSUME NEW p \in Playlists(Items), IsInjective(p.items), NEW i \in Nat,
         NEW ts \in Seq(Items), IsInjective(ts), ToSet(ts) \subseteq Items \ ItemsOf(p),
         NEW old \in [Items -> Times]
  PROVE  /\ TimesAfterInsert(old, p, i, ts) \in [Items -> Times]
         /\ \A t \in Items : t \in Above(p) => TimesAfterInsert(old, p, i, ts)[t] = old[t]
<1> DEFINE N == Len(ts)
           q(n) == InsertItems(p, i, SubSeq(ts, 1, n))
           After(n, v) == IF i + n - 1 > q(n).cur THEN WithUpdatedTimes(v, q(n)) ELSE v
           F(f) == [n \in 0..N |-> IF n = 0 THEN old ELSE After(n, f[n - 1])]
           T == CHOOSE f : f = F(f)
<1>1. TimesAfterInsert(old, p, i, ts) = T[N]
  BY DEF TimesAfterInsert
<1>2. N \in Nat
  OBVIOUS
<1>3. ASSUME NEW n \in 1..N
      PROVE  q(n) \in Playlists(Items) /\ IsInjective(q(n).items) /\ Above(p) \subseteq Above(q(n))
  <2> DEFINE s == SubSeq(ts, 1, n)
  <2>1. s \in Seq(Items) /\ Len(s) = n /\ \A k \in 1..n : s[k] = ts[k] /\ k \in 1..N
    BY SubSeqProperties
  <2>2. DOMAIN s = 1..n /\ DOMAIN ts = 1..N
    BY <2>1
  <2> HIDE DEF s, N
  <2>3. IsInjective(s)
    BY <2>1, <2>2 DEF IsInjective
  <2>4. ToSet(s) \subseteq Items \ ItemsOf(p)
    BY <2>1, <2>2 DEF ToSet
  <2> QED
    BY <2>1, <2>3, <2>4, InsertedItems DEF s
<1> HIDE DEF N, q
<1>4. ASSUME NEW n \in 1..N, NEW v \in [Items -> Times]
      PROVE  After(n, v) \in [Items -> Times] /\ \A t \in Items : t \in Above(p) => After(n, v)[t] = v[t]
  <2>1. WithUpdatedTimes(v, q(n)) \in [Items -> Times]
    BY <1>3, UpdateType
  <2>2. \A t \in Items : t \in Above(p) => WithUpdatedTimes(v, q(n))[t] = v[t]
    BY <1>3, UpdateSparesAbove
  <2> QED
    BY <2>1, <2>2
<1> HIDE DEF After
<1>5. \E f : f = F(f)
  <2> DEFINE step == [x \in (1..N) \X [Items -> Times] |-> After(x[1], x[2])]
  <2>1. Recursion([Items -> Times], 0, N, old, step)
    BY <1>2, <1>4 DEF Recursion
  <2>2. \A n \in 1..N, v \in [Items -> Times] : step[<<n, v>>] = After(n, v)
    OBVIOUS
  <2> HIDE DEF step
  <2>3. PICK f : Follows(f, [Items -> Times], 0, N, old, step)
    BY <2>1, RecursionExists
  <2>4. f \in [0..N -> [Items -> Times]] /\ \A n \in 0..N : f[n] = IF n = 0 THEN old ELSE step[<<n, f[n - 1]>>]
    BY <2>3 DEF Follows
  <2>5. \A n \in 0..N : f[n] = IF n = 0 THEN old ELSE After(n, f[n - 1])
    <3> TAKE n \in 0..N
    <3>1. n # 0 => n \in 1..N /\ n - 1 \in 0..N
      BY <1>2
    <3> HIDE DEF N
    <3>2. n # 0 => f[n - 1] \in [Items -> Times]
      BY <2>4, <3>1
    <3> QED
      BY <2>2, <2>4, <3>1, <3>2
  <2>6. f = F(f)
    BY <2>4, <2>5
  <2> QED
    BY <2>6
<1>6. T = F(T)
  BY <1>5
<1> HIDE DEF T
<1>7. T[0] = old /\ \A n \in 1..N : T[n] = After(n, T[n - 1])
  <2>1. 0 \in 0..N /\ \A n \in 1..N : n \in 0..N /\ n # 0
    BY <1>2
  <2>2. \A n \in 0..N : T[n] = IF n = 0 THEN old ELSE After(n, T[n - 1])
    BY <1>6
  <2> QED
    BY <2>1, <2>2
<1> DEFINE P == {n \in 0..N : T[n] \in [Items -> Times] /\ \A t \in Items : t \in Above(p) => T[n][t] = old[t]}
<1>8. 0 \in P
  BY <1>2, <1>7
<1>9. ASSUME NEW n \in 1..N, n - 1 \in P
      PROVE  n \in P
  <2> DEFINE v == T[n - 1]
  <2>1. n \in 0..N
    BY <1>2
  <2>2. v \in [Items -> Times] /\ \A t \in Items : t \in Above(p) => v[t] = old[t]
    BY <1>9
  <2>3. T[n] = After(n, v)
    BY <1>7
  <2> HIDE DEF v
  <2>4. After(n, v) \in [Items -> Times] /\ \A t \in Items : t \in Above(p) => After(n, v)[t] = v[t]
    BY <1>4, <2>2
  <2> QED
    BY <2>1, <2>2, <2>3, <2>4
<1>10. N \in P
  <2> HIDE DEF P
  <2>1. \A n \in 0..N : n \in P
    BY <1>2, <1>8, <1>9, CountInduction
  <2> QED
    BY <1>2, <2>1
<1> QED
  BY <1>1, <1>10

-----------------------------------------------------------------------------
(***************************************************************************)
(* The invariant: the types, each item object at most once, and an item    *)
(* has both of its times or none.                                          *)
(***************************************************************************)
ListInv == TypeOK /\ NoDuplicates /\ times \in [Items -> Times]

(* What has been played keeps its times, or loses them. *)
HistoryKept == \A t \in Above(pl) \cap Above(pl') : times'[t] \in {times[t], NoTimes}

LEMMA InitList == Init => ListInv
<1> SUFFICES ASSUME Init PROVE ListInv
  OBVIOUS
<1>1. pl \in Playlists(Items) /\ pl.items = <<>>
  BY DEF Init, EmptyPlaylist, Playlists
<1>2. IsInjective(pl.items)
  BY <1>1 DEF IsInjective
<1>3. times \in [Items -> Times]
  BY DEF Init, NoTimes, Times, MaybeTime
<1> QED
  BY <1>1, <1>2, <1>3 DEF ListInv, TypeOK, NoDuplicates, Times

LEMMA AboveAreItems ==
  ASSUME NEW p \in Playlists(Items), NEW t \in Above(p)
  PROVE  t \in Items
<1>1. PICK j \in 1..Len(p.items) : t = p.items[j]
  BY AboveElements
<1>2. p.items \in Seq(Items)
  BY ListElements
<1> QED
  BY <1>1, <1>2

(* The steps whose new times are an update of the old ones, or of what is left of them. *)
LEMMA UpdatedStep ==
  ASSUME NEW p \in Playlists(Items), IsInjective(p.items), times \in [Items -> Times],
         NEW kept \in [Items -> Times],
         \A t \in Items : t \in Above(p) => kept[t] \in {times[t], NoTimes},
         pl' = p, times' = WithUpdatedTimes(kept, p) \/ times' = kept
  PROVE  ListInv' /\ HistoryKept
<1>1. times' \in [Items -> Times]
  BY UpdateType
<1>2. \A t \in Items : t \in Above(p) => times'[t] = kept[t]
  BY UpdateSparesAbove
<1> QED
  BY <1>1, <1>2, AboveAreItems DEF ListInv, HistoryKept, TypeOK, NoDuplicates, Times

LEMMA StepKeepsList == ListInv /\ Step => ListInv' /\ HistoryKept
<1> SUFFICES ASSUME ListInv, Step
             PROVE  ListInv' /\ HistoryKept
  OBVIOUS
<1>1. pl \in Playlists(Items) /\ IsInjective(pl.items) /\ times \in [Items -> Times]
  BY DEF ListInv, TypeOK, NoDuplicates, Times
<1>2. pl.cur \in Nat /\ Size(pl) \in Nat /\ Indices = 0..(Size(pl) - 1)
  BY <1>1, ListElements DEF Indices
<1>3. \A i \in Indices : i \in Nat /\ IsValidIndex(pl, i)
  BY <1>2 DEF IsValidIndex
<1>4. ASSUME NEW t \in Items, Add(t)
      PROVE  ListInv' /\ HistoryKept
  <2>1. pl' = AddItem(pl, t) /\ times' = WithUpdatedTimes(times, pl') /\ t \in Items \ ItemsOf(pl)
    BY <1>4 DEF Add, Fresh
  <2>2. AddItem(pl, t) \in Playlists(Items) /\ IsInjective(AddItem(pl, t).items)
    BY <1>1, <2>1, AddKeepsWhole
  <2> QED
    BY <1>1, <2>1, <2>2, UpdatedStep
<1>5. ASSUME NEW i \in 0..Size(pl), NEW ts \in {<<t>> : t \in Items} \cup {<<t, u>> : t, u \in Items}, Insert(i, ts)
      PROVE  ListInv' /\ HistoryKept
  <2>1. ts \in Seq(Items) /\ i \in Nat
    <3>1. \A t, u \in Items : <<t>> \in Seq(Items) /\ <<t, u>> \in Seq(Items)
      OBVIOUS
    <3>2. i \in Nat
      BY <1>2
    <3>3. (\E t \in Items : ts = <<t>>) \/ (\E t, u \in Items : ts = <<t, u>>)
      OBVIOUS
    <3>4. CASE \E t \in Items : ts = <<t>>
      BY <3>1, <3>2, <3>4
    <3>5. CASE \E t, u \in Items : ts = <<t, u>>
      BY <3>1, <3>2, <3>5
    <3> QED
      BY <3>3, <3>4, <3>5
  <2>2. ToSet(ts) \subseteq Items \ ItemsOf(pl) /\ IsInjective(ts) /\ pl' = InsertItems(pl, i, ts)
    BY <1>5 DEF Insert, Fresh
  <2>3. pl' \in Playlists(Items) /\ IsInjective(pl'.items) /\ Above(pl) \subseteq Above(pl')
    BY <1>1, <2>1, <2>2, InsertedItems
  <2>4. times' \in [Items -> Times] /\ \A t \in Items : t \in Above(pl) => times'[t] = times[t]
    BY <1>1, <1>5, <2>1, <2>2, InsertTimes DEF Insert
  <2> QED
    BY <1>1, <2>3, <2>4, AboveAreItems DEF ListInv, HistoryKept, TypeOK, NoDuplicates, Times
<1>6. ASSUME NEW i \in Indices, NEW t \in Items, Replace(i, t)
      PROVE  ListInv' /\ HistoryKept
  <2> DEFINE kept == Forgetting(times, {ItemAt(pl, i)})
  <2>1. pl' = ReplaceItem(pl, i, t) /\ t \in Items \ ItemsOf(pl)
        /\ (times' = WithUpdatedTimes(kept, pl') \/ times' = kept)
    BY <1>6 DEF Replace, Fresh
  <2>2. ReplaceItem(pl, i, t) \in Playlists(Items) /\ IsInjective(ReplaceItem(pl, i, t).items)
    BY <1>1, <1>3, <2>1, ReplaceKeepsWhole
  <2>3. kept \in [Items -> Times] /\ \A u \in Items : kept[u] \in {times[u], NoTimes}
    BY <1>1, ForgettingType
  <2> HIDE DEF kept
  <2> QED
    BY <1>1, <2>1, <2>2, <2>3, UpdatedStep
<1>7. ASSUME NEW i \in Indices, Delete(i)
      PROVE  ListInv' /\ HistoryKept
  <2> DEFINE kept == Forgetting(times, {ItemAt(pl, i)})
  <2>1. pl' = DeleteItem(pl, i) /\ times' = kept
    BY <1>7 DEF Delete
  <2>2. DeleteItem(pl, i) \in Playlists(Items) /\ IsInjective(DeleteItem(pl, i).items)
    BY <1>1, <1>3, DeleteKeepsWhole
  <2>3. kept \in [Items -> Times] /\ \A u \in Items : kept[u] \in {times[u], NoTimes}
    BY <1>1, ForgettingType
  <2> HIDE DEF kept
  <2> QED
    BY <1>1, <2>1, <2>2, <2>3, UpdatedStep
<1>8. ASSUME NEW s \in Songs, RemoveSong(s)
      PROVE  ListInv' /\ HistoryKept
  <2> DEFINE S == {t \in ItemsOf(pl) : SongOf[t] = s}
             kept == Forgetting(times, S)
  <2>1. pl' = RemoveItems(pl, S) /\ times' = kept
    BY <1>8 DEF RemoveSong
  <2> HIDE DEF S
  <2>2. RemoveItems(pl, S) \in Playlists(Items) /\ IsInjective(RemoveItems(pl, S).items)
    BY <1>1, RemoveKeepsWhole
  <2>3. kept \in [Items -> Times] /\ \A u \in Items : kept[u] \in {times[u], NoTimes}
    BY <1>1, ForgettingType
  <2> HIDE DEF kept
  <2> QED
    BY <1>1, <2>1, <2>2, <2>3, UpdatedStep
<1>9. ASSUME NEW rows \in SUBSET Indices, NEW dest \in 0..Size(pl), Drop(rows, dest)
      PROVE  ListInv' /\ HistoryKept
  <2> DEFINE drag == Dropped(pl, rows, dest)
             kept == Forgetting(times, drag.cleared)
  <2>1. pl' = drag.pl /\ times' = WithUpdatedTimes(kept, drag.pl)
    BY <1>9 DEF Drop
  <2>2. drag \in Drags
    BY <1>1, <1>2, DroppedKeepsWhole
  <2> HIDE DEF drag
  <2>3. drag.pl \in Playlists(Items) /\ IsInjective(drag.pl.items)
    BY <2>2 DEF Drags
  <2>4. kept \in [Items -> Times] /\ \A u \in Items : kept[u] \in {times[u], NoTimes}
    BY <1>1, ForgettingType
  <2> HIDE DEF kept
  <2> QED
    BY <1>1, <2>1, <2>3, <2>4, UpdatedStep
<1>10. ASSUME GoNext \/ GoPrev \/ \E i \in Indices : SetCurrent(i)
       PROVE  ListInv' /\ HistoryKept
  <2>1. times' = times /\ \E c \in Nat : pl' = [pl EXCEPT !.cur = c]
    <3>1. CASE GoNext
      <4>1. pl' = [pl EXCEPT !.cur = pl.cur + 1]
        BY <1>1, <3>1 DEF GoNext, NextItem, Playlists
      <4>2. pl.cur + 1 \in Nat
        BY <1>2
      <4> QED
        BY <3>1, <4>1, <4>2 DEF GoNext
    <3>2. CASE GoPrev
      <4>1. pl' = [pl EXCEPT !.cur = pl.cur - 1] /\ pl.cur - 1 \in Nat
        BY <1>1, <1>2, <3>2 DEF GoPrev, PrevItem, HasPrev, Playlists
      <4> QED
        BY <3>2, <4>1 DEF GoPrev
    <3>3. CASE \E i \in Indices : SetCurrent(i)
      BY <1>3, <3>3 DEF SetCurrent, SetCurrentItem
    <3> QED
      BY <1>10, <3>1, <3>2, <3>3
  <2>2. pl'.items = pl.items /\ pl' \in Playlists(Items)
    BY <1>1, <2>1 DEF Playlists
  <2> QED
    BY <1>1, <2>1, <2>2 DEF ListInv, HistoryKept, TypeOK, NoDuplicates, Times
<1>11. ASSUME NEW now \in Instants, TrackStarted(now)
       PROVE  ListInv' /\ HistoryKept
  <2> DEFINE t == ItemAt(pl, pl.cur)
             kept == [times EXCEPT ![t] = [started |-> now, ended |-> now + Duration(t)]]
  <2>1. IsValidIndex(pl, pl.cur) /\ pl' = pl /\ times' = WithUpdatedTimes(kept, pl)
    BY <1>11 DEF TrackStarted
  <2>2. t \in Items
    BY <1>1, <1>2, <2>1, ItemAtType
  <2>3. Duration(t) \in Int /\ now \in Int
    BY <2>2 DEF Duration
  <2>4. kept \in [Items -> Times]
    <3> DEFINE new == [started |-> now, ended |-> now + Duration(t)]
    <3>1. new \in Times
      BY <2>3 DEF Times, MaybeTime
    <3>2. kept = [times EXCEPT ![t] = new]
      OBVIOUS
    <3>3. times \in [Items -> Times]
      BY <1>1
    <3> HIDE DEF new, t, kept
    <3>4. \A ts \in [Items -> Times], e \in Times : [ts EXCEPT ![t] = e] \in [Items -> Times]
      OBVIOUS
    <3> QED
      BY <3>1, <3>2, <3>3, <3>4
  <2>5. \A u \in Items : u \in Above(pl) => u # t
    <3>1. pl.cur + 1 \in 1..Len(pl.items) /\ \A j \in 1..Len(pl.items) : j <= pl.cur => j # pl.cur + 1
      <4>1. pl.cur < Size(pl) /\ Size(pl) = Len(pl.items)
        BY <1>1, <2>1, ListElements DEF IsValidIndex
      <4> QED
        BY <1>2, <4>1
    <3>2. \A x, y \in 1..Len(pl.items) : pl.items[x] = pl.items[y] => x = y
      BY <1>1, ListElements
    <3>3. ASSUME NEW u \in Items, u \in Above(pl)
          PROVE  u # t
      <4>1. PICK j \in 1..Len(pl.items) : j <= pl.cur /\ u = pl.items[j]
        BY <1>1, <3>3, AboveElements
      <4> QED
        BY <3>1, <3>2, <4>1 DEF ItemAt
    <3> QED
      BY <3>3
  <2> HIDE DEF t
  <2>6. \A u \in Items : u \in Above(pl) => kept[u] = times[u]
    BY <1>1, <2>5
  <2> HIDE DEF kept
  <2> QED
    BY <1>1, <2>1, <2>4, <2>6, UpdatedStep
<1>12. ASSUME PlaybackStopped
       PROVE  ListInv' /\ HistoryKept
  <2> DEFINE kept == Forgetting(times, {ItemAt(pl, k) : k \in (pl.cur + 1)..(Size(pl) - 1)})
  <2>1. pl' = pl /\ times' = kept
    BY <1>12 DEF PlaybackStopped
  <2>2. kept \in [Items -> Times] /\ \A u \in Items : kept[u] \in {times[u], NoTimes}
    BY <1>1, ForgettingType
  <2> HIDE DEF kept
  <2> QED
    BY <1>1, <2>1, <2>2, UpdatedStep
<1> QED
  BY <1>4, <1>5, <1>6, <1>7, <1>8, <1>9, <1>10, <1>11, <1>12 DEF Step

LEMMA StutterKeepsList == ListInv /\ UNCHANGED vars => ListInv' /\ HistoryKept
BY DEF ListInv, TypeOK, NoDuplicates, HistoryKept, vars

(* Whatever is added, replaced, moved or removed, the playlist is one, and no item is in it twice. *)
THEOREM ListsAreWhole == Spec => []ListInv
<1>1. ListInv /\ [Next]_vars => ListInv'
  BY StepKeepsList, StutterKeepsList DEF Next
<1> QED
  BY InitList, <1>1, PTL DEF Spec

(* insertItem(), deleteItem() and moveItem() always move the index along with the current item. *)
THEOREM EditsNeverMoveCurrent == Spec => []EditsKeepCurrent
<1>1. ListInv => EditsKeepCurrent
  BY EditsKeep DEF ListInv
<1> QED
  BY <1>1, ListsAreWhole, PTL

(***************************************************************************)
(* Every drag of rows to a place between the others gathers them there in  *)
(* their order (dropMimeData()), and no item is ever in the list twice.    *)
(***************************************************************************)
THEOREM RowsAlwaysWhole == Spec => []RowsStayWhole
<1>1. ListInv => RowsStayWhole
  BY DragsGather DEF ListInv, TypeOK, NoDuplicates, RowsStayWhole
<1> QED
  BY <1>1, ListsAreWhole, PTL

(* No operation rewrites the times of what has been played. *)
THEOREM HistoryNeverRewritten == Spec => HistoryNotRewritten
<1>1. ListInv /\ [Next]_vars => [HistoryKept]_vars
  BY StepKeepsList DEF Next
<1> QED
  BY <1>1, ListsAreWhole, PTL DEF Spec, HistoryNotRewritten, HistoryKept

(***************************************************************************)
(* updateItemsStartEndTimes() schedules each later item to start after the *)
(* durations of all the items between.                                     *)
(***************************************************************************)
LEMMA UpdateAddsUp == ListInv => DueTimesAddUp
<1> DEFINE p == pl
           last == p.cur
           hi == Size(p) - 1
           start == times[Current(p)].ended
           updated == WithUpdatedTimes(times, p)
<1> SUFFICES ASSUME ListInv, Current(p) # NoItem, times[Current(p)] # NoTimes,
                    NEW k \in Indices, k > last
             PROVE  updated[ItemAt(p, k)].started = start + Together(p, last)[k - 1]
  BY DEF DueTimesAddUp
<1>1. p \in Playlists(Items) /\ IsInjective(p.items) /\ times \in [Items -> Times]
  BY DEF ListInv, TypeOK, NoDuplicates
<1>2. /\ last \in Nat /\ Size(p) \in Nat /\ Size(p) = Len(p.items) /\ hi \in Int
      /\ IsValidIndex(p, last) /\ last \in 0..hi /\ Current(p) = ItemAt(p, last)
  <2>1. p.cur \in Nat /\ Size(p) \in Nat /\ Size(p) = Len(p.items)
    BY <1>1, ListElements
  <2>2. IsValidIndex(p, p.cur) /\ Current(p) = ItemAt(p, p.cur)
    BY DEF Current
  <2> QED
    BY <2>1, <2>2 DEF IsValidIndex
<1>3. \A m \in last..hi : ItemAt(p, m) \in Items /\ Duration(ItemAt(p, m)) \in Int
  <2> TAKE m \in last..hi
  <2>1. m \in Nat /\ IsValidIndex(p, m)
    BY <1>2 DEF IsValidIndex
  <2>2. ItemAt(p, m) \in Items
    BY <1>1, <2>1, ItemAtType
  <2> QED
    BY <2>2 DEF Duration
<1>4. start \in Int
  <2>0. last \in last..hi
    BY <1>2
  <2>1. Current(p) \in Items
    BY <1>2, <1>3, <2>0
  <2>2. times[Current(p)] \in Times
    BY <1>1, <2>1
  <2> QED
    BY <2>2 DEF Times, MaybeTime, NoTimes
<1>5. k \in (last + 1)..hi /\ k - 1 \in last..hi
  BY <1>2 DEF Indices
<1> DEFINE F(f) == [m \in last..hi |->
                      IF m = last THEN times[ItemAt(p, last)].ended
                      ELSE Plus(f[m - 1], Duration(ItemAt(p, m)))]
           End == EndsFrom(times, p, last)
           G(f) == [m \in last..hi |-> IF m = last THEN 0 ELSE f[m - 1] + Duration(ItemAt(p, m))]
           Sum == CHOOSE f : f = G(f)
           IndicesOf(t) == IndicesAfter(p, last, t)
<1>6. updated = [t \in Items |->
                   IF IndicesOf(t) = {} THEN times[t] ELSE TimesAt(End, Max(IndicesOf(t)))]
  BY <1>2 DEF WithUpdatedTimes, WithTimesAfter
<1>6a. /\ End = CHOOSE f : f = F(f)
       /\ \A t : IndicesOf(t) = {m \in (last + 1)..hi : ItemAt(p, m) = t}
  BY DEF EndsFrom, IndicesAfter
<1> HIDE DEF End, IndicesOf
<1>7. Together(p, last) = Sum
  BY DEF Together
<1> HIDE DEF p, last, hi, start, updated
<1>8. \A m \in (last + 1)..hi : m \in last..hi /\ m # last /\ m - 1 \in last..hi
  BY <1>2
(* The sums exist, and so do the ends, which are the sums after the start. *)
<1>9. \E g : g \in [last..hi -> Int] /\ g = G(g)
  <2> DEFINE step == [x \in ((last + 1)..hi) \X Int |-> x[2] + Duration(ItemAt(p, x[1]))]
  <2>1. \A m \in (last + 1)..hi, v \in Int : v + Duration(ItemAt(p, m)) \in Int
    BY <1>3, <1>8
  <2>2. last \in Int /\ hi \in Int /\ last <= hi
    BY <1>2
  <2>3. Recursion(Int, last, hi, 0, step)
    BY <2>1, <2>2 DEF Recursion
  <2>4. \A m \in (last + 1)..hi, v \in Int : step[<<m, v>>] = v + Duration(ItemAt(p, m))
    OBVIOUS
  <2> HIDE DEF step
  <2>5. PICK f : Follows(f, Int, last, hi, 0, step)
    BY <2>3, RecursionExists
  <2>6. f \in [last..hi -> Int] /\ \A m \in last..hi : f[m] = IF m = last THEN 0 ELSE step[<<m, f[m - 1]>>]
    BY <2>5 DEF Follows
  <2>7. \A m \in last..hi : f[m] = IF m = last THEN 0 ELSE f[m - 1] + Duration(ItemAt(p, m))
    <3> TAKE m \in last..hi
    <3>1. m # last => m \in (last + 1)..hi /\ m - 1 \in last..hi
      BY <2>2
    <3>2. m # last => f[m - 1] \in Int
      BY <2>6, <3>1
    <3> QED
      BY <2>4, <2>6, <3>1, <3>2
  <2>8. f = G(f)
    BY <2>6, <2>7
  <2> QED
    BY <2>6, <2>8
<1>10. Sum = G(Sum)
  BY <1>9
<1> HIDE DEF Sum
<1>11. Sum[last] = 0 /\ \A m \in (last + 1)..hi : Sum[m] = Sum[m - 1] + Duration(ItemAt(p, m))
  <2>1. \A m \in last..hi : Sum[m] = IF m = last THEN 0 ELSE Sum[m - 1] + Duration(ItemAt(p, m))
    BY <1>10
  <2>2. last \in last..hi
    BY <1>2
  <2> QED
    BY <1>8, <2>1, <2>2
<1>12. \A m \in last..hi : Sum[m] \in Int
  <2> DEFINE P == {m \in last..hi : Sum[m] \in Int}
  <2>1. last \in P
    BY <1>2, <1>11
  <2>2. ASSUME NEW m \in (last + 1)..hi, m - 1 \in P
        PROVE  m \in P
    BY <1>3, <1>8, <1>11, <2>2
  <2>3. \A m \in last..hi : m \in P
    <3> HIDE DEF P
    <3>1. last \in Int /\ hi \in Int
      BY <1>2
    <3> QED
      BY <2>1, <2>2, <3>1, RangeInduction
  <2> QED
    BY <2>3
<1>13. times[ItemAt(p, last)].ended = start
  BY <1>2 DEF start
<1>14. \E f : f = F(f)
  <2> DEFINE f == [m \in last..hi |-> start + Sum[m]]
  <2>1. ASSUME NEW m \in last..hi
        PROVE  f[m] = IF m = last THEN start ELSE Plus(f[m - 1], Duration(ItemAt(p, m)))
    <3>1. CASE m = last
      BY <1>4, <1>11, <3>1
    <3>2. CASE m # last
      <4>1. m \in (last + 1)..hi /\ m - 1 \in last..hi
        BY <1>2, <3>2
      <4>2. Sum[m] = Sum[m - 1] + Duration(ItemAt(p, m)) /\ Sum[m - 1] \in Int /\ Duration(ItemAt(p, m)) \in Int
        BY <1>3, <1>11, <1>12, <4>1
      <4>3. f[m - 1] = start + Sum[m - 1] /\ f[m] = start + Sum[m] /\ start + Sum[m - 1] \in Int
        BY <1>4, <4>1, <4>2
      <4>4. start + Sum[m - 1] # NoTime
        BY <4>3
      <4>5. Plus(start + Sum[m - 1], Duration(ItemAt(p, m))) = (start + Sum[m - 1]) + Duration(ItemAt(p, m))
        BY <4>4 DEF Plus
      <4> QED
        BY <1>4, <3>2, <4>2, <4>3, <4>5
    <3> QED
      BY <3>1, <3>2
  <2>2. f = F(f)
    BY <1>13, <2>1
  <2> QED
    BY <2>2
<1>15. End = F(End)
  BY <1>14, <1>6a
<1>16. \A m \in last..hi : End[m] = start + Sum[m]
  <2> DEFINE P == {m \in last..hi : End[m] = start + Sum[m]}
  <2>1. \A m \in last..hi : End[m] = IF m = last THEN start ELSE Plus(End[m - 1], Duration(ItemAt(p, m)))
    BY <1>13, <1>15
  <2>2. last \in P
    BY <1>2, <1>4, <1>11, <2>1
  <2>3. ASSUME NEW m \in (last + 1)..hi, m - 1 \in P
        PROVE  m \in P
    <3>1. m \in last..hi /\ m # last /\ m - 1 \in last..hi
      BY <1>8
    <3>2. Sum[m] = Sum[m - 1] + Duration(ItemAt(p, m)) /\ Sum[m - 1] \in Int /\ Duration(ItemAt(p, m)) \in Int
      BY <1>3, <1>11, <1>12, <3>1
    <3>3. End[m - 1] = start + Sum[m - 1] /\ End[m - 1] \in Int /\ End[m - 1] # NoTime
      BY <1>4, <2>3, <3>2
    <3>4. End[m] = End[m - 1] + Duration(ItemAt(p, m))
      BY <2>1, <3>1, <3>3 DEF Plus
    <3> QED
      BY <1>4, <3>1, <3>2, <3>3, <3>4
  <2>4. \A m \in last..hi : m \in P
    <3> HIDE DEF P
    <3>1. last \in Int /\ hi \in Int
      BY <1>2
    <3> QED
      BY <2>2, <2>3, <3>1, RangeInduction
  <2> QED
    BY <2>4
<1>17. IndicesOf(ItemAt(p, k)) = {k}
  <2> SUFFICES ASSUME NEW m \in (last + 1)..hi, ItemAt(p, m) = ItemAt(p, k)
               PROVE  m = k
    BY <1>5, <1>6a
  <2>1. m + 1 \in 1..Len(p.items) /\ k + 1 \in 1..Len(p.items)
    BY <1>2, <1>5 DEF hi
  <2>2. m + 1 = k + 1
    BY <1>1, <2>1, ListElements DEF ItemAt
  <2> QED
    BY <1>2, <1>5, <2>2
<1>18. Max({k}) = k
  BY <1>5 DEF Max
<1>19. ItemAt(p, k) \in Items
  BY <1>3, <1>5, <1>8
<1>20. updated[ItemAt(p, k)].started = End[k - 1]
  BY <1>6, <1>17, <1>18, <1>19 DEF TimesAt
<1> QED
  BY <1>5, <1>7, <1>16, <1>20

THEOREM DueTimesAlwaysAddUp == Spec => []DueTimesAddUp
  BY UpdateAddsUp, ListsAreWhole, PTL

-----------------------------------------------------------------------------
HIDE PlaylistAssumption

(* What SetCurrentItem(), NextItem() and an appending of rows change of a playlist, and what not. *)
LEMMA Changed ==
  ASSUME NEW S, NEW p \in [items : S, cur : Nat], NEW items \in S, NEW cur \in Nat
  PROVE  /\ [p EXCEPT !.items = items] = [items |-> items, cur |-> p.cur]
         /\ [p EXCEPT !.cur = cur] = [items |-> p.items, cur |-> cur]
         /\ [items |-> items, cur |-> cur] \in [items : S, cur : Nat]
OBVIOUS

(* The rows of the player window's playlist. *)
Entries == [song : ToSet(Tracks), filter : Filters \cup {NoFilter}]

PartyTypes ==
  /\ PartyTypeOK
  /\ library \in Seq(ToSet(Tracks))
  /\ matches \in [Filters -> SUBSET ToSet(Tracks)]
  /\ offered \in Seq(Objects) /\ shown \in Seq(Objects)

(* The rows are inserted and removed where the index follows. *)
LEMMA InsertedEntry ==
  ASSUME NEW p \in Playlists(Entries), NEW i \in 0..Size(p), NEW r \in Entries
  PROVE  /\ InsertItem(p, i, r) \in Playlists(Entries)
         /\ Size(InsertItem(p, i, r)) = Size(p) + 1
         /\ InsertItem(p, i, r).cur = IF i <= p.cur THEN p.cur + 1 ELSE p.cur
         /\ InsertItem(p, i, r).items[i + 1] = r
         /\ IsValidIndex(p, p.cur) =>
              ItemAt(InsertItem(p, i, r), InsertItem(p, i, r).cur) = ItemAt(p, p.cur)
<1> DEFINE s == p.items
           n == Len(s)
           q == InsertItem(p, i, r)
<1>1. s \in Seq(Entries) /\ p.cur \in Nat /\ n \in Nat /\ i \in 0..n /\ Size(p) = n
  BY DEF Playlists, Size
<1>2. q.items = InsertAt(s, i + 1, r) /\ q.cur = IF i <= p.cur THEN p.cur + 1 ELSE p.cur
  BY <1>1 DEF InsertItem
<1>3. i + 1 \in 1..(n + 1)
  BY <1>1
<1> DEFINE m == i + 1
<1> HIDE DEF s, n, q, m
<1>4. /\ q.items \in Seq(Entries)
      /\ Len(q.items) = n + 1
      /\ \A j \in 1..(n + 1) : q.items[j] = IF j < m THEN s[j] ELSE IF j = m THEN r ELSE s[j - 1]
  <2>1. q.items = InsertAt(s, m, r) /\ m \in 1..(Len(s) + 1) /\ n = Len(s)
    BY <1>2, <1>3 DEF m, n
  <2>2. /\ InsertAt(s, m, r) \in Seq(Entries)
        /\ Len(InsertAt(s, m, r)) = Len(s) + 1
        /\ \A j \in 1..(Len(s) + 1) :
             InsertAt(s, m, r)[j] = IF j < m THEN s[j] ELSE IF j = m THEN r ELSE s[j - 1]
    <3>1. s \in Seq(Entries) /\ m \in 1..(Len(s) + 1)
      BY <1>1, <2>1
    <3> QED
      BY <3>1, InsertAtElements
  <2> QED
    BY <2>1, <2>2
<1> USE DEF m
<1>5. q \in Playlists(Entries)
  BY <1>1, InsertType DEF q
<1>6. q.items[i + 1] = r
  BY <1>1, <1>3, <1>4
<1>7. ASSUME IsValidIndex(p, p.cur)
      PROVE  ItemAt(q, q.cur) = ItemAt(p, p.cur)
  <2>1. p.cur \in 0..(n - 1)
    BY <1>1, <1>7 DEF IsValidIndex
  <2>2. q.cur \in 0..n /\ q.items[q.cur + 1] = s[p.cur + 1]
    <3>1. /\ n \in Nat /\ i \in 0..n
          /\ \A j \in 1..(n + 1) :
               q.items[j] = IF j < i + 1 THEN s[j] ELSE IF j = i + 1 THEN r ELSE s[j - 1]
      BY <1>1, <1>4
    <3> HIDE DEF m
    <3> QED
      BY <1>2, <2>1, <3>1, IndexAfterInsertion
  <2> QED
    BY <2>2 DEF ItemAt, s
<1> QED
  BY <1>1, <1>2, <1>4, <1>5, <1>6, <1>7 DEF q, Size

(* What insertions of some rows at or above an index have in common. *)
Lengthened(p, q, i, n) ==
  /\ q \in Playlists(Entries)
  /\ Size(q) = Size(p) + n
  /\ q.cur = IF i <= p.cur THEN p.cur + n ELSE p.cur
  /\ IsValidIndex(p, p.cur) => ItemAt(q, q.cur) = ItemAt(p, p.cur)

LEMMA LengthenedByOne ==
  ASSUME NEW p \in Playlists(Entries), NEW i \in 0..Size(p), NEW n \in Nat, NEW q, Lengthened(p, q, i, n),
         NEW m \in i..(i + n), m = i \/ m = i + n, NEW r \in Entries
  PROVE  Lengthened(p, InsertItem(q, m, r), i, n + 1) /\ InsertItem(q, m, r).items[m + 1] = r
<1>1. /\ q \in Playlists(Entries) /\ Size(q) = Size(p) + n
      /\ q.cur = IF i <= p.cur THEN p.cur + n ELSE p.cur
      /\ IsValidIndex(p, p.cur) => ItemAt(q, q.cur) = ItemAt(p, p.cur)
  BY DEF Lengthened
<1>2. Size(p) \in Nat /\ p.cur \in Nat
  BY DEF Playlists, Size
<1>3. m \in 0..Size(q)
  BY <1>1, <1>2
<1> DEFINE u == InsertItem(q, m, r)
<1>4. /\ u \in Playlists(Entries) /\ Size(u) = Size(q) + 1
      /\ u.cur = IF m <= q.cur THEN q.cur + 1 ELSE q.cur
      /\ u.items[m + 1] = r
      /\ IsValidIndex(q, q.cur) => ItemAt(u, u.cur) = ItemAt(q, q.cur)
  BY <1>1, <1>3, InsertedEntry
<1> HIDE DEF u
<1>5. u.cur = IF i <= p.cur THEN p.cur + (n + 1) ELSE p.cur
  BY <1>1, <1>2, <1>4
<1>6. IsValidIndex(p, p.cur) => IsValidIndex(q, q.cur)
  BY <1>1, <1>2 DEF IsValidIndex
<1> QED
  BY <1>1, <1>2, <1>4, <1>5, <1>6 DEF Lengthened, u

LEMMA PickedAreInserted ==
  ASSUME NEW p \in Playlists(Entries), NEW i \in 0..Size(p), NEW rows \in Seq(Entries)
  PROVE  /\ Lengthened(p, InsertPicked(p, i, rows), i, Len(rows))
         /\ rows # <<>> => InsertPicked(p, i, rows).items[i + 1] = rows[1]
<1> DEFINE N == Len(rows)
           After(k, v) == InsertItem(v, i, rows[N - k + 1])
           F(f) == [k \in 0..N |-> IF k = 0 THEN p ELSE After(k, f[k - 1])]
           I == CHOOSE f : f = F(f)
           V == Playlists(Entries)
<1>1. InsertPicked(p, i, rows) = I[N]
  BY DEF InsertPicked
<1>2. N \in Nat /\ i \in Nat /\ Size(p) \in Nat /\ p.cur \in Nat
  BY DEF Playlists, Size
<1>3. \A k \in 1..N : rows[N - k + 1] \in Entries
  <2> TAKE k \in 1..N
  <2>1. N - k + 1 \in 1..N
    BY <1>2
  <2> QED
    BY <2>1
<1>4. \A k \in 1..N, v \in V : After(k, v) \in V
  BY <1>2, <1>3, InsertType
<1> HIDE DEF N
<1>5. \E f : f = F(f)
  <2> DEFINE step == [x \in (1..N) \X V |-> After(x[1], x[2])]
  <2>1. step \in [(1..N) \X V -> V] /\ \A k \in 1..N, v \in V : step[<<k, v>>] = After(k, v)
    BY <1>4
  <2> HIDE DEF step, After, V
  <2>2. Recursion(V, 0, N, p, step)
    BY <1>2, <2>1 DEF Recursion, V
  <2>3. PICK f : Follows(f, V, 0, N, p, step)
    BY <2>2, RecursionExists
  <2>4. f \in [0..N -> V] /\ \A k \in 0..N : f[k] = IF k = 0 THEN p ELSE step[<<k, f[k - 1]>>]
    BY <2>3 DEF Follows
  <2>5. \A k \in 0..N : k # 0 => k \in 1..N /\ k - 1 \in 0..N
    BY <1>2
  <2>6. \A k \in 0..N : f[k] = IF k = 0 THEN p ELSE After(k, f[k - 1])
    BY <2>1, <2>4, <2>5
  <2>7. f = F(f)
    BY <2>4, <2>6
  <2> QED
    BY <2>7
<1>6. I = F(I)
  BY <1>5
<1> HIDE DEF I
<1>7. I[0] = p /\ \A k \in 1..N : I[k] = After(k, I[k - 1])
  <2>1. 0 \in 0..N /\ \A k \in 1..N : k \in 0..N /\ k # 0
    BY <1>2
  <2> HIDE DEF After
  <2>2. \A k \in 0..N : I[k] = IF k = 0 THEN p ELSE After(k, I[k - 1])
    BY <1>6
  <2> QED
    BY <2>1, <2>2
<1> DEFINE Ok(k) == Lengthened(p, I[k], i, k) /\ (k # 0 => I[k].items[i + 1] = rows[N - k + 1])
           P == {k \in 0..N : Ok(k)}
<1>8. 0 \in P
  BY <1>2, <1>7 DEF Lengthened
<1>9. \A k \in 1..N : k - 1 \in P => k \in P
  <2> SUFFICES ASSUME NEW k \in 1..N, k - 1 \in P PROVE k \in P
    OBVIOUS
  <2>1. Lengthened(p, I[k - 1], i, k - 1) /\ k - 1 \in Nat /\ i \in i..(i + (k - 1)) /\ (k - 1) + 1 = k
    BY <1>2
  <2>2. Lengthened(p, InsertItem(I[k - 1], i, rows[N - k + 1]), i, (k - 1) + 1)
        /\ InsertItem(I[k - 1], i, rows[N - k + 1]).items[i + 1] = rows[N - k + 1]
    BY <1>3, <2>1, LengthenedByOne
  <2> QED
    BY <1>7, <2>1, <2>2
<1>10. N \in P
  <2> HIDE DEF P
  <2>1. N \in Nat
    BY <1>2
  <2>2. \A k \in 0..N : k \in P
    BY <1>8, <1>9, <2>1, CountInduction
  <2> QED
    BY <2>1, <2>2
<1>11. rows # <<>> => N # 0 /\ N - N + 1 = 1
  BY <1>2 DEF N
<1> QED
  BY <1>1, <1>10, <1>11 DEF N

LEMMA LoadedAreInserted ==
  ASSUME NEW p \in Playlists(Entries), NEW i \in 0..Size(p), NEW rows \in Seq(Entries)
  PROVE  Lengthened(p, InsertItems(p, i, rows), i, Len(rows))
<1> DEFINE N == Len(rows)
           After(k, v) == InsertItem(v, i + k - 1, rows[k])
           F(f) == [k \in 0..N |-> IF k = 0 THEN p ELSE After(k, f[k - 1])]
           I == CHOOSE f : f = F(f)
           V == Playlists(Entries)
<1>1. InsertItems(p, i, rows) = I[N]
  BY DEF InsertItems
<1>2. N \in Nat /\ i \in Nat /\ Size(p) \in Nat /\ p.cur \in Nat
  BY DEF Playlists, Size
<1>3. \A k \in 1..N : rows[k] \in Entries /\ i + k - 1 \in Nat
  BY <1>2
<1>4. \A k \in 1..N, v \in V : After(k, v) \in V
  BY <1>2, <1>3, InsertType
<1> HIDE DEF N
<1>5. \E f : f = F(f)
  <2> DEFINE step == [x \in (1..N) \X V |-> After(x[1], x[2])]
  <2>1. step \in [(1..N) \X V -> V] /\ \A k \in 1..N, v \in V : step[<<k, v>>] = After(k, v)
    BY <1>4
  <2> HIDE DEF step, After, V
  <2>2. Recursion(V, 0, N, p, step)
    BY <1>2, <2>1 DEF Recursion, V
  <2>3. PICK f : Follows(f, V, 0, N, p, step)
    BY <2>2, RecursionExists
  <2>4. f \in [0..N -> V] /\ \A k \in 0..N : f[k] = IF k = 0 THEN p ELSE step[<<k, f[k - 1]>>]
    BY <2>3 DEF Follows
  <2>5. \A k \in 0..N : k # 0 => k \in 1..N /\ k - 1 \in 0..N
    BY <1>2
  <2>6. \A k \in 0..N : f[k] = IF k = 0 THEN p ELSE After(k, f[k - 1])
    BY <2>1, <2>4, <2>5
  <2>7. f = F(f)
    BY <2>4, <2>6
  <2> QED
    BY <2>7
<1>6. I = F(I)
  BY <1>5
<1> HIDE DEF I
<1>7. I[0] = p /\ \A k \in 1..N : I[k] = After(k, I[k - 1])
  <2>1. 0 \in 0..N /\ \A k \in 1..N : k \in 0..N /\ k # 0
    BY <1>2
  <2> HIDE DEF After
  <2>2. \A k \in 0..N : I[k] = IF k = 0 THEN p ELSE After(k, I[k - 1])
    BY <1>6
  <2> QED
    BY <2>1, <2>2
<1> DEFINE P == {k \in 0..N : Lengthened(p, I[k], i, k)}
<1>8. 0 \in P
  BY <1>2, <1>7 DEF Lengthened
<1>9. \A k \in 1..N : k - 1 \in P => k \in P
  <2> SUFFICES ASSUME NEW k \in 1..N, k - 1 \in P PROVE k \in P
    OBVIOUS
  <2>1. /\ Lengthened(p, I[k - 1], i, k - 1) /\ k - 1 \in Nat /\ (k - 1) + 1 = k
        /\ i + k - 1 \in i..(i + (k - 1)) /\ i + k - 1 = i + (k - 1)
    BY <1>2
  <2>2. Lengthened(p, InsertItem(I[k - 1], i + k - 1, rows[k]), i, (k - 1) + 1)
    BY <1>3, <2>1, LengthenedByOne
  <2> QED
    BY <1>7, <2>1, <2>2
<1>10. N \in P
  <2> HIDE DEF P
  <2>1. N \in Nat
    BY <1>2
  <2>2. \A k \in 0..N : k \in P
    BY <1>8, <1>9, <2>1, CountInduction
  <2> QED
    BY <2>1, <2>2
<1> QED
  BY <1>1, <1>10 DEF N

-----------------------------------------------------------------------------
LEMMA LeastIndex ==
  ASSUME NEW n \in Nat, NEW S \in SUBSET (1..n), S # {}
  PROVE  Min(S) \in S
<1> SUFFICES ASSUME \A x \in S : \E y \in S : ~(x <= y) PROVE FALSE
  BY DEF Min
<1> DEFINE P == {k \in 0..n : \A y \in S : y > k}
<1>1. 0 \in P
  OBVIOUS
<1>2. \A k \in 1..n : k - 1 \in P => k \in P
  <2> SUFFICES ASSUME NEW k \in 1..n, k - 1 \in P, NEW y \in S, ~(y > k) PROVE FALSE
    OBVIOUS
  <2>1. \A x \in S : x \in Nat /\ x > k - 1
    OBVIOUS
  <2>2. y = k
    BY <2>1
  <2>3. \A x \in S : y <= x
    BY <2>1, <2>2
  <2> QED
    BY <2>3
<1>3. \A k \in 0..n : k \in P
  <2> HIDE DEF P
  <2> QED
    BY <1>1, <1>2, CountInduction
<1>4. PICK y \in S : TRUE
  OBVIOUS
<1>5. n \in P
  BY <1>3
<1>6. y > n /\ y \in 1..n
  BY <1>5
<1> QED
  BY <1>6

(* pickSongForFilter() returns a song of the library, or none if nothing but the avoided song matches. *)
LEMMA PickedSongs ==
  ASSUME PartyTypes, NEW f \in Filters, NEW avoid, NEW s \in PickSongForFilter(f, avoid)
  PROVE  /\ s \in ToSet(Tracks) \cup {NoSong}
         /\ (\E t \in ToSet(library) : t # avoid /\ t \in matches[f]) => s # NoSong
<1> DEFINE fit == {k \in DOMAIN library : library[k] # avoid /\ library[k] \in matches[f]}
<1>1. /\ library \in Seq(ToSet(Tracks)) /\ matches[f] \subseteq ToSet(Tracks)
      /\ DOMAIN library = 1..Len(library) /\ NoSong \notin ToSet(Tracks)
  BY PartyAssumption DEF PartyTypes
<1>2. fit # {} => \E k \in fit : s = library[k]
  BY DEF PickSongForFilter
<1>3. fit = {} => (s = avoid /\ avoid \in matches[f]) \/ s = NoSong
  BY DEF PickSongForFilter
<1>4. \A k \in fit : library[k] \in ToSet(Tracks)
  BY <1>1
<1>5. (\E t \in ToSet(library) : t # avoid /\ t \in matches[f]) => fit # {}
  BY DEF ToSet
<1> HIDE DEF fit
<1> QED
  BY <1>1, <1>2, <1>3, <1>4, <1>5

(* pickSongsForTemplate() returns rows, and at least one if one of the items matches anything. *)
LEMMA PickedRows ==
  ASSUME PartyTypes, NEW object \in Objects, NEW rows \in PickSongsForTemplate(object)
  PROVE  /\ rows \in Seq(Entries)
         /\ (\E f \in ToSet(PicksOf[object]) : \E s \in ToSet(library) : s \in matches[f]) => rows # <<>>
<1> DEFINE picks == PicksOf[object]
           N == Len(picks)
           V == SUBSET Seq(Entries)
           F(f) == [n \in 0..N |-> IF n = 0 THEN {<<>>} ELSE WithOneOf(picks[n], f[n - 1])]
           Picked == CHOOSE f : f = F(f)
           Matching(n) == \E s \in ToSet(library) : s \in matches[picks[n]]
<1>1. rows \in Picked[N]
  BY DEF PickSongsForTemplate
<1>2. picks \in Seq(Filters) /\ N \in Nat /\ \A n \in 1..N : picks[n] \in Filters
  BY PartyAssumption DEF Objects
<1>3. ASSUME NEW n \in 1..N, NEW v \in V, NEW r \in WithOneOf(picks[n], v)
      PROVE  /\ r \in Seq(Entries)
             /\ (r \in v /\ ~Matching(n)) \/ r # <<>>
  <2>1. PICK q \in v, s \in PickSongForFilter(picks[n], NoSong) :
          r = IF s = NoSong THEN q ELSE Append(q, Row(s, picks[n]))
    BY DEF WithOneOf
  <2>2. s \in ToSet(Tracks) \cup {NoSong} /\ (Matching(n) => s # NoSong)
    <3>1. matches[picks[n]] \subseteq ToSet(Tracks) /\ NoSong \notin ToSet(Tracks)
      BY <1>2, PartyAssumption DEF PartyTypes
    <3> QED
      BY <1>2, <3>1, PickedSongs
  <2>3. q \in Seq(Entries)
    OBVIOUS
  <2>4. CASE s = NoSong
    BY <2>1, <2>2, <2>3, <2>4
  <2>5. CASE s # NoSong
    <3>1. Row(s, picks[n]) \in Entries
      BY <1>2, <2>2, <2>5 DEF Row, Entries
    <3>2. r = Append(q, Row(s, picks[n]))
      BY <2>1, <2>5
    <3>3. r \in Seq(Entries) /\ Len(r) = Len(q) + 1 /\ Len(q) \in Nat
      BY <2>3, <3>1, <3>2
    <3> QED
      BY <3>3
  <2> QED
    BY <2>4, <2>5
<1> HIDE DEF N, picks, Matching
<1>4. \E f : f = F(f)
  <2> DEFINE step == [x \in (1..N) \X V |-> WithOneOf(picks[x[1]], x[2])]
  <2>1. step \in [(1..N) \X V -> V] /\ \A n \in 1..N, v \in V : step[<<n, v>>] = WithOneOf(picks[n], v)
    <3>1. \A n \in 1..N, v \in V : WithOneOf(picks[n], v) \in V
      BY <1>3
    <3> HIDE DEF V
    <3> QED
      BY <3>1
  <2>2. {<<>>} \in V
    OBVIOUS
  <2> HIDE DEF step, V
  <2>3. Recursion(V, 0, N, {<<>>}, step)
    BY <1>2, <2>1, <2>2 DEF Recursion
  <2>4. PICK f : Follows(f, V, 0, N, {<<>>}, step)
    BY <2>3, RecursionExists
  <2>5. f \in [0..N -> V] /\ \A n \in 0..N : f[n] = IF n = 0 THEN {<<>>} ELSE step[<<n, f[n - 1]>>]
    BY <2>4 DEF Follows
  <2>6. \A n \in 0..N : n # 0 => n \in 1..N /\ n - 1 \in 0..N
    BY <1>2
  <2>7. \A n \in 0..N : f[n] = IF n = 0 THEN {<<>>} ELSE WithOneOf(picks[n], f[n - 1])
    BY <2>1, <2>5, <2>6
  <2>8. f = F(f)
    BY <2>5, <2>7
  <2> QED
    BY <2>8
<1>5. Picked = F(Picked)
  BY <1>4
<1> HIDE DEF Picked
<1>6. Picked[0] = {<<>>} /\ \A n \in 1..N : Picked[n] = WithOneOf(picks[n], Picked[n - 1])
  <2>1. 0 \in 0..N /\ \A n \in 1..N : n \in 0..N /\ n # 0
    BY <1>2
  <2>2. \A n \in 0..N : Picked[n] = IF n = 0 THEN {<<>>} ELSE WithOneOf(picks[n], Picked[n - 1])
    BY <1>5
  <2> QED
    BY <2>1, <2>2
<1> DEFINE Ok(n) == /\ Picked[n] \in V
                    /\ (\E m \in 1..n : Matching(m)) => \A r \in Picked[n] : r # <<>>
           P == {n \in 0..N : Ok(n)}
<1>7. 0 \in P
  <2>1. 0 \in 0..N /\ 1..0 = {}
    BY <1>2
  <2>2. {<<>>} \in V
    OBVIOUS
  <2> QED
    BY <1>6, <2>1, <2>2
<1>8. \A n \in 1..N : n - 1 \in P => n \in P
  <2> SUFFICES ASSUME NEW n \in 1..N, n - 1 \in P PROVE n \in P
    OBVIOUS
  <2>1. Picked[n - 1] \in V /\ Picked[n] = WithOneOf(picks[n], Picked[n - 1])
    BY <1>6
  <2>2. Picked[n] \in V
    BY <1>3, <2>1
  <2>3. ASSUME NEW m \in 1..n, Matching(m), NEW r \in Picked[n]
        PROVE  r # <<>>
    <3>1. CASE m = n
      BY <1>3, <2>1, <2>3, <3>1
    <3>2. CASE m # n
      <4>1. m \in 1..(n - 1)
        BY <1>2, <3>2
      <4>2. \A q \in Picked[n - 1] : q # <<>>
        BY <2>3, <4>1
      <4> QED
        BY <1>3, <2>1, <2>3, <4>2
    <3> QED
      BY <3>1, <3>2
  <2>4. n \in 0..N
    BY <1>2
  <2> QED
    BY <2>2, <2>3, <2>4
<1>9. Ok(N)
  <2> HIDE DEF P
  <2>1. \A n \in 0..N : n \in P
    BY <1>2, <1>7, <1>8, CountInduction
  <2>2. N \in 0..N
    BY <1>2
  <2> QED
    BY <2>1, <2>2 DEF P
<1>10. (\E f \in ToSet(PicksOf[object]) : \E s \in ToSet(library) : s \in matches[f]) => \E m \in 1..N : Matching(m)
  <2>1. DOMAIN picks = 1..N
    BY <1>2 DEF N
  <2>2. ToSet(PicksOf[object]) = {picks[m] : m \in 1..N}
    BY <2>1 DEF ToSet, picks
  <2> QED
    BY <2>2 DEF Matching
<1> QED
  BY <1>1, <1>9, <1>10

-----------------------------------------------------------------------------
(* A loaded playlist consists of songs of the library. *)
LEMMA FoundByHash ==
  ASSUME PartyTypes, NEW hash
  PROVE  SongFromHash(library, hash) \in ToSet(Tracks) \cup {NoSong}
<1> DEFINE found == {k \in DOMAIN library : HashOf[library[k]] = hash}
<1>1. library \in Seq(ToSet(Tracks)) /\ Len(library) \in Nat /\ DOMAIN library = 1..Len(library)
  BY DEF PartyTypes
<1>2. found \in SUBSET (1..Len(library))
  BY <1>1
<1>3. SongFromHash(library, hash) = IF found = {} THEN NoSong ELSE library[Min(found)]
  BY DEF SongFromHash
<1> HIDE DEF found
<1>4. CASE found # {}
  <2>1. Min(found) \in 1..Len(library)
    BY <1>1, <1>2, <1>4, LeastIndex
  <2> QED
    BY <1>1, <1>3, <1>4, <2>1
<1> QED
  BY <1>3, <1>4

LEMMA LoadedRows ==
  ASSUME PartyTypes
  PROVE  DoImport(File, library, Filters) \in Seq(Entries)
<1> DEFINE N == Len(File)
           Values == {File[k].value : k \in 1..N} \cup {NoSong, NoFilter}
           V == [hash : Values, filter : Values, rows : Seq(Entries)]
           base == [hash |-> NoSong, filter |-> NoFilter, rows |-> <<>>]
           After(k, v) == LineRead(v, File[k], library, Filters)
           F(f) == [k \in 0..N |-> IF k = 0 THEN base ELSE After(k, f[k - 1])]
           Flags == CHOOSE f : f = F(f)
<1>1. DoImport(File, library, Filters) = Flags[N].rows
  BY DEF DoImport
<1>2. N \in Nat
  BY PartyAssumption
<1>3. base \in V
  OBVIOUS
<1>4. ASSUME NEW k \in 1..N, NEW v \in V
      PROVE  After(k, v) \in V
  <2> DEFINE line == File[k]
             song == SongFromHash(library, v.hash)
             filter == IF v.filter \in Filters THEN v.filter ELSE NoFilter
             read == [hash |-> NoSong, filter |-> NoFilter, rows |-> Append(v.rows, Row(song, filter))]
  <2>1. line.value \in Values /\ NoSong \in Values /\ NoFilter \in Values
    OBVIOUS
  <2> HIDE DEF Values, line
  <2>2. CASE line.kind = "filter"
    BY <2>1, <2>2 DEF LineRead, line
  <2>3. CASE line.kind = "hash"
    BY <2>1, <2>3 DEF LineRead, line
  <2>4. CASE line.kind \notin {"filter", "hash"}
    <3>1. After(k, v) = IF song = NoSong THEN v ELSE read
      BY <2>4 DEF LineRead, line, NameLine
    <3>2. song \in ToSet(Tracks) \cup {NoSong}
      BY FoundByHash
    <3>3. CASE song # NoSong
      <4>1. Row(song, filter) \in Entries
        BY <3>2, <3>3 DEF Row, Entries
      <4> HIDE DEF song, filter
      <4>2. Append(v.rows, Row(song, filter)) \in Seq(Entries)
        BY <4>1
      <4> QED
        BY <2>1, <3>1, <3>3, <4>2
    <3> QED
      BY <3>1, <3>3
  <2> QED
    BY <2>2, <2>3, <2>4
<1> HIDE DEF N, base, V
<1>5. \E f : f = F(f)
  <2> DEFINE step == [x \in (1..N) \X V |-> After(x[1], x[2])]
  <2>1. step \in [(1..N) \X V -> V] /\ \A k \in 1..N, v \in V : step[<<k, v>>] = After(k, v)
    BY <1>4
  <2> HIDE DEF step, After
  <2>2. Recursion(V, 0, N, base, step)
    BY <1>2, <1>3, <2>1 DEF Recursion
  <2>3. PICK f : Follows(f, V, 0, N, base, step)
    BY <2>2, RecursionExists
  <2>4. f \in [0..N -> V] /\ \A k \in 0..N : f[k] = IF k = 0 THEN base ELSE step[<<k, f[k - 1]>>]
    BY <2>3 DEF Follows
  <2>5. \A k \in 0..N : k # 0 => k \in 1..N /\ k - 1 \in 0..N
    BY <1>2
  <2>6. \A k \in 0..N : f[k] = IF k = 0 THEN base ELSE After(k, f[k - 1])
    BY <2>1, <2>4, <2>5
  <2>7. f = F(f)
    BY <2>4, <2>6
  <2> QED
    BY <2>7
<1>6. Flags = F(Flags)
  BY <1>5
<1> HIDE DEF Flags, After
<1>7. \A k \in 0..N : Flags[k] = IF k = 0 THEN base ELSE After(k, Flags[k - 1])
  BY <1>6
<1> DEFINE P == {k \in 0..N : Flags[k] \in V}
<1>8. 0 \in P
  BY <1>2, <1>3, <1>7
<1>9. \A k \in 1..N : k - 1 \in P => k \in P
  <2> SUFFICES ASSUME NEW k \in 1..N, k - 1 \in P PROVE k \in P
    OBVIOUS
  <2>1. k \in 0..N /\ k # 0
    BY <1>2
  <2> QED
    BY <1>4, <1>7, <2>1
<1>10. Flags[N] \in V
  <2> HIDE DEF P
  <2>1. \A k \in 0..N : k \in P
    BY <1>2, <1>8, <1>9, CountInduction
  <2>2. N \in 0..N
    BY <1>2
  <2> QED
    BY <2>1, <2>2 DEF P
<1> QED
  BY <1>1, <1>10 DEF V

(* What is left of a list, and how long it is. *)
LEMMA RemainingRows ==
  ASSUME NEW T, NEW s \in Seq(T), NEW gone \in SUBSET (1..Len(s))
  PROVE  /\ Remaining(s, gone) \in Seq(T)
         /\ Len(Remaining(s, gone)) = Len(s) - Cardinality(gone)
         /\ gone = {} => Remaining(s, gone) = s
<1> DEFINE N == Len(s)
           V == Seq(T)
           After(k, v) == IF k \in gone THEN v ELSE Append(v, s[k])
           F(f) == [k \in 0..N |-> IF k = 0 THEN <<>> ELSE After(k, f[k - 1])]
           Kept == CHOOSE f : f = F(f)
           Gone(k) == gone \cap (1..k)
<1>1. Remaining(s, gone) = Kept[N]
  BY DEF Remaining
<1>2. N \in Nat /\ \A k \in 1..N : s[k] \in T
  OBVIOUS
<1>3. \A k \in 1..N, v \in V : After(k, v) \in V
  BY <1>2
<1> HIDE DEF N
<1>4. \E f : f = F(f)
  <2> DEFINE step == [x \in (1..N) \X V |-> After(x[1], x[2])]
  <2>1. step \in [(1..N) \X V -> V] /\ \A k \in 1..N, v \in V : step[<<k, v>>] = After(k, v)
    BY <1>3
  <2>2. <<>> \in V
    OBVIOUS
  <2> HIDE DEF step, After, V
  <2>3. Recursion(V, 0, N, <<>>, step)
    BY <1>2, <2>1, <2>2 DEF Recursion
  <2>4. PICK f : Follows(f, V, 0, N, <<>>, step)
    BY <2>3, RecursionExists
  <2>5. f \in [0..N -> V] /\ \A k \in 0..N : f[k] = IF k = 0 THEN <<>> ELSE step[<<k, f[k - 1]>>]
    BY <2>4 DEF Follows
  <2>6. \A k \in 0..N : k # 0 => k \in 1..N /\ k - 1 \in 0..N
    BY <1>2
  <2>7. \A k \in 0..N : f[k] = IF k = 0 THEN <<>> ELSE After(k, f[k - 1])
    BY <2>1, <2>5, <2>6
  <2>8. f = F(f)
    BY <2>5, <2>7
  <2> QED
    BY <2>8
<1>5. Kept = F(Kept)
  BY <1>4
<1> HIDE DEF Kept
<1>6. Kept[0] = <<>> /\ \A k \in 1..N : Kept[k] = After(k, Kept[k - 1])
  <2>1. 0 \in 0..N /\ \A k \in 1..N : k \in 0..N /\ k # 0
    BY <1>2
  <2> HIDE DEF After
  <2>2. \A k \in 0..N : Kept[k] = IF k = 0 THEN <<>> ELSE After(k, Kept[k - 1])
    BY <1>5
  <2> QED
    BY <2>1, <2>2
<1>7. \A k \in 0..N : IsFiniteSet(Gone(k)) /\ Cardinality(Gone(k)) \in Nat
  <2> TAKE k \in 0..N
  <2>1. IsFiniteSet(1..k)
    BY <1>2, FS_Interval
  <2>2. IsFiniteSet(Gone(k))
    BY <2>1, FS_Subset
  <2> QED
    BY <2>2, FS_CardinalityType
<1> DEFINE Ok(k) == /\ Kept[k] \in V
                    /\ Len(Kept[k]) = k - Cardinality(Gone(k))
                    /\ gone = {} => \A j \in 1..k : Kept[k][j] = s[j]
           P == {k \in 0..N : Ok(k)}
<1>8. 0 \in P
  <2>1. Gone(0) = {} /\ 1..0 = {} /\ 0 \in 0..N
    BY <1>2
  <2>2. Cardinality(Gone(0)) = 0
    BY <2>1, FS_EmptySet
  <2>3. <<>> \in V /\ Len(<<>>) = 0
    OBVIOUS
  <2>4. Kept[0] = <<>>
    BY <1>6
  <2> HIDE DEF V, Gone
  <2>5. Ok(0)
    BY <2>1, <2>2, <2>3, <2>4
  <2> QED
    BY <2>1, <2>5
<1>9. \A k \in 1..N : k - 1 \in P => k \in P
  <2> SUFFICES ASSUME NEW k \in 1..N, Ok(k - 1)
               PROVE  Ok(k)
    <3> HIDE DEF Ok
    <3>1. \A k \in 1..N : k \in 0..N
      BY <1>2
    <3> QED
      BY <3>1
  <2>0. k \in 0..N /\ k - 1 \in 0..N
    BY <1>2
  <2> DEFINE v == Kept[k - 1]
             g == Gone(k - 1)
  <2>1. /\ v \in V /\ Len(v) = (k - 1) - Cardinality(g)
        /\ gone = {} => \A j \in 1..(k - 1) : v[j] = s[j]
        /\ Kept[k] = After(k, v)
    BY <1>6
  <2>2. IsFiniteSet(g) /\ Cardinality(g) \in Nat /\ k \notin g /\ k \in Nat
    <3>1. k \notin 1..(k - 1) /\ k \in Nat
      BY <1>2
    <3> QED
      BY <1>7, <2>0, <3>1
  <2>3. CASE k \in gone
    <3>1. Gone(k) = g \cup {k}
      BY <1>2, <2>3
    <3>2. Cardinality(Gone(k)) = Cardinality(g) + 1
      BY <2>2, <3>1, FS_AddElement
    <3>3. Kept[k] = v
      BY <2>1, <2>3
    <3> HIDE DEF v, g, Gone, V
    <3>4. Kept[k] \in V /\ Len(Kept[k]) = k - Cardinality(Gone(k)) /\ gone # {}
      BY <2>1, <2>2, <2>3, <3>2, <3>3
    <3> QED
      BY <3>4
  <2>4. CASE k \notin gone
    <3>1. Gone(k) = g
      BY <1>2, <2>4
    <3>2. Kept[k] = Append(v, s[k]) /\ s[k] \in T
      BY <1>2, <2>1, <2>4
    <3> HIDE DEF v, g, Gone
    <3>3. /\ Kept[k] \in V /\ Len(Kept[k]) = Len(v) + 1 /\ Kept[k][Len(v) + 1] = s[k]
          /\ \A j \in 1..Len(v) : Kept[k][j] = v[j]
      BY <2>1, <3>2
    <3>4. Len(Kept[k]) = k - Cardinality(Gone(k))
      BY <2>1, <2>2, <3>1, <3>3
    <3>5. ASSUME gone = {}, NEW j \in 1..k
          PROVE  Kept[k][j] = s[j]
      <4>1. Cardinality(g) = 0
        BY <3>5, FS_EmptySet DEF g, Gone
      <4>2. Len(v) = k - 1
        BY <2>1, <2>2, <4>1
      <4>3. j \in 1..(k - 1) \/ j = k
        BY <2>2
      <4> QED
        BY <2>1, <2>2, <3>3, <3>5, <4>2, <4>3
    <3> QED
      BY <3>3, <3>4, <3>5
  <2> QED
    BY <2>3, <2>4
<1>10. Ok(N)
  <2> HIDE DEF P
  <2>1. \A k \in 0..N : k \in P
    BY <1>2, <1>8, <1>9, CountInduction
  <2>2. N \in 0..N
    BY <1>2
  <2> QED
    BY <2>1, <2>2 DEF P
<1>11. Gone(N) = gone
  BY <1>2 DEF N
<1>12. ASSUME gone = {}
       PROVE  Kept[N] = s
  <2>1. Len(Kept[N]) = N
    BY <1>2, <1>10, <1>11, <1>12, FS_EmptySet
  <2>2. Kept[N] \in Seq(T) /\ \A j \in 1..N : Kept[N][j] = s[j]
    BY <1>10, <1>12
  <2> QED
    BY <2>1, <2>2, SeqEqual DEF N
<1> QED
  BY <1>1, <1>10, <1>11, <1>12 DEF N

LEMMA RowsBefore ==
  ASSUME NEW n \in Nat, NEW rows \in SUBSET (0..(n - 1)), NEW k \in Nat
  PROVE  /\ Cardinality({r \in rows : r < k}) \in 0..k
         /\ IsFiniteSet(rows) /\ Cardinality(rows) \in 0..n
         /\ k < n /\ k \notin rows => k - Cardinality({r \in rows : r < k}) \in 0..((n - Cardinality(rows)) - 1)
<1> DEFINE before == {r \in rows : r < k}
           after == {r \in rows : r > k}
<1>0. ASSUME NEW r \in rows
      PROVE  /\ r \in Nat
             /\ r < k => r \in 0..(k - 1)
             /\ r > k => r \in (k + 1)..(n - 1)
  <2>1. r \in 0..(n - 1)
    OBVIOUS
  <2> QED
    BY <2>1
<1>1. IsFiniteSet(0..(n - 1)) /\ Cardinality(0..(n - 1)) = n
  BY FS_Interval
<1>2. IsFiniteSet(rows) /\ Cardinality(rows) \in Nat /\ Cardinality(rows) <= n
  BY <1>1, FS_Subset, FS_CardinalityType
<1>3. IsFiniteSet(before) /\ Cardinality(before) \in Nat /\ Cardinality(before) <= k
  <2>1. IsFiniteSet(0..(k - 1)) /\ Cardinality(0..(k - 1)) = k
    BY FS_Interval
  <2>2. before \subseteq 0..(k - 1)
    BY <1>0
  <2> QED
    BY <2>1, <2>2, FS_Subset, FS_CardinalityType
<1>4. ASSUME k < n, k \notin rows
      PROVE  k - Cardinality(before) \in 0..((n - Cardinality(rows)) - 1)
  <2>1. IsFiniteSet((k + 1)..(n - 1)) /\ Cardinality((k + 1)..(n - 1)) = (n - 1) - k
    BY <1>4, FS_Interval
  <2>2. after \subseteq (k + 1)..(n - 1)
    BY <1>0
  <2>3. IsFiniteSet(after) /\ Cardinality(after) \in Nat /\ Cardinality(after) <= (n - 1) - k
    BY <2>1, <2>2, FS_Subset, FS_CardinalityType
  <2>4. rows = before \cup after /\ before \cap after = {}
    <3>1. \A r \in rows : r < k \/ r > k
      BY <1>0, <1>4
    <3>2. \A r \in rows : ~(r < k /\ r > k)
      BY <1>0
    <3> QED
      BY <3>1, <3>2
  <2> HIDE DEF before, after
  <2>5. Cardinality(rows) = Cardinality(before) + Cardinality(after)
    <3>1. Cardinality(before \cup after) = Cardinality(before) + Cardinality(after) - Cardinality(before \cap after)
      BY <1>3, <2>3, FS_Union
    <3>2. Cardinality(before \cap after) = 0
      BY <2>4, FS_EmptySet
    <3> QED
      BY <1>3, <2>3, <2>4, <3>1, <3>2
  <2> QED
    BY <1>3, <2>3, <2>5
<1> HIDE DEF before, after
<1>5. Cardinality(before) \in 0..k /\ Cardinality(rows) \in 0..n
  BY <1>2, <1>3
<1> QED
  BY <1>2, <1>4, <1>5 DEF before

LEMMA WithoutRowsType ==
  ASSUME PartyTypes, NEW rows \in SUBSET Rows
  PROVE  /\ WithoutRows(rows) \in Seq(Entries)
         /\ Len(WithoutRows(rows)) = Size(list) - Cardinality(rows)
         /\ rows = {} => WithoutRows(rows) = list.items
<1> DEFINE gone == {r + 1 : r \in rows}
<1>1. list.items \in Seq(Entries) /\ Size(list) \in Nat /\ Size(list) = Len(list.items)
  BY DEF PartyTypes, PartyTypeOK, Playlists, Entries, Size
<1>2. rows \in SUBSET (0..(Size(list) - 1))
  BY DEF Rows
<1>3. gone \in SUBSET (1..Len(list.items))
  <2> SUFFICES ASSUME NEW r \in rows PROVE r + 1 \in 1..Len(list.items)
    OBVIOUS
  <2>1. r \in 0..(Size(list) - 1)
    BY <1>2
  <2> QED
    BY <1>1, <2>1
<1>4. Cardinality(gone) = Cardinality(rows)
  <2> DEFINE f == [r \in rows |-> r + 1]
  <2>1. IsFiniteSet(rows)
    BY <1>1, <1>2, RowsBefore
  <2>2. \A r \in rows : r \in Int
    BY <1>2
  <2>3. f \in Bijection(rows, gone)
    BY <2>2 DEF Bijection, Injection, Surjection, IsInjective
  <2>4. ExistsBijection(rows, gone)
    BY <2>3 DEF ExistsBijection
  <2> QED
    BY <2>1, <2>4, FS_Bijection
<1>5. WithoutRows(rows) = Remaining(list.items, gone)
  BY DEF WithoutRows
<1>6. rows = {} => gone = {}
  OBVIOUS
<1> HIDE DEF gone
<1> QED
  BY <1>1, <1>3, <1>4, <1>5, <1>6, RemainingRows

-----------------------------------------------------------------------------
(***************************************************************************)
(* The index is that of the track from when it is asked for, not only when *)
(* it plays, unless it is known to have drifted.                           *)
(***************************************************************************)
IndexAtTrack == mode \in {"starting", "playing"} /\ ~drifted => at = list.cur

PartyInv == PartyTypes /\ NeverRunsDry /\ StartsTheFirst /\ IndexAtTrack

Modes == {"stopped", "starting", "playing", "fading"}

LEMMA TypesAre ==
  PartyTypes <=>
    /\ list \in Playlists(Entries) /\ mode \in Modes /\ at \in -1..(Size(list) - 1)
    /\ combo \in Objects \cup {NoObject} /\ box \in BOOLEAN /\ assured \in BOOLEAN /\ drifted \in BOOLEAN
    /\ library \in Seq(ToSet(Tracks)) /\ matches \in [Filters -> SUBSET ToSet(Tracks)]
    /\ offered \in Seq(Objects) /\ shown \in Seq(Objects)
BY DEF PartyTypes, PartyTypeOK, Entries, Modes

(* The same of the next state, where no definition is to be seen through. *)
LEMMA AreTypes ==
  ASSUME list' \in Playlists(Entries), mode' \in Modes, at' \in -1..(Size(list') - 1),
         combo' \in Objects \cup {NoObject}, box' \in BOOLEAN, assured' \in BOOLEAN, drifted' \in BOOLEAN,
         library' \in Seq(ToSet(Tracks)), matches' \in [Filters -> SUBSET ToSet(Tracks)],
         offered' \in Seq(Objects), shown' \in Seq(Objects)
  PROVE  PartyTypes'
BY DEF PartyTypes, PartyTypeOK, Entries, Modes, Objects

(* The settings are the only variables that an edit of the playlist leaves alone. *)
LEMMA EditedTypes ==
  ASSUME PartyTypes, UNCHANGED settings, list' \in Playlists(Entries), mode' \in Modes,
         at' \in -1..(Size(list') - 1), assured' \in BOOLEAN, drifted' \in BOOLEAN
  PROVE  PartyTypes'
BY DEF PartyTypes, PartyTypeOK, settings, Modes, Entries, Objects

(* What has been asked for is the current item, or something has drifted. *)
AskedFor ==
  /\ mode \in {"stopped", "starting", "fading"}
  /\ at \in -1..(Size(list) - 1)
  /\ drifted \in BOOLEAN
  /\ mode = "starting" /\ ~drifted => at = list.cur
  /\ IsValidIndex(list, list.cur) /\ ~drifted => mode # "stopped"

LEMMA StartAsks ==
  ASSUME list' \in Playlists(Entries), drifted \in BOOLEAN, StartCurrent
  PROVE  AskedFor' /\ (IsValidIndex(list', list'.cur) => mode' = "starting" /\ ~drifted')
<1>1. list'.items \in Seq(Entries) /\ list'.cur \in Nat /\ Size(list') = Len(list'.items) /\ Size(list') \in Nat
  BY DEF Playlists, Size
<1>2. CASE list'.items = <<>>
  <2>1. Size(list') = 0
    BY <1>1, <1>2
  <2>2. mode' = "stopped" /\ at' = -1 /\ drifted' = drifted
    BY <1>2 DEF StartCurrent
  <2> QED
    BY <1>1, <2>1, <2>2 DEF AskedFor, IsValidIndex
<1>3. CASE list'.items # <<>> /\ IsValidIndex(list', list'.cur)
  <2>1. mode' = "starting" /\ at' = list'.cur /\ drifted' = FALSE
    BY <1>3 DEF StartCurrent
  <2>2. list'.cur \in -1..(Size(list') - 1)
    BY <1>1, <1>3 DEF IsValidIndex
  <2> QED
    BY <2>1, <2>2 DEF AskedFor
<1>4. CASE list'.items # <<>> /\ ~IsValidIndex(list', list'.cur)
  <2>1. mode' \in {"stopped", "starting"} /\ at' = -1 /\ drifted' = TRUE
    BY <1>4 DEF StartCurrent
  <2>2. -1 \in -1..(Size(list') - 1)
    BY <1>1
  <2> QED
    BY <1>4, <2>1, <2>2 DEF AskedFor
<1> QED
  BY <1>2, <1>3, <1>4

LEMMA JumpAsks ==
  ASSUME PartyTypes, list' \in Playlists(Entries), NEW index \in -1..(Size(list') - 1), JumpTo(index)
  PROVE  AskedFor'
<1>1. mode \in Modes /\ drifted \in BOOLEAN
  BY TypesAre
<1>2. CASE mode = "stopped"
  <2>1. StartCurrent
    BY <1>2 DEF JumpTo
  <2> QED
    BY <1>1, <2>1, StartAsks
<1>3. CASE mode # "stopped"
  <2>1. /\ at' = index /\ mode' \in IF mode = "starting" THEN {"fading", "starting"} ELSE {"fading"}
        /\ drifted' = (drifted \/ mode' = "starting")
    BY <1>3 DEF JumpTo, Fade
  <2> QED
    BY <1>1, <2>1 DEF AskedFor
<1> QED
  BY <1>2, <1>3

(* With the track that was asked for under way, and not yet playing. *)
LEMMA AskedKeeps ==
  ASSUME PartyTypes, UNCHANGED settings, list' \in Playlists(Entries), assured' \in BOOLEAN, AskedFor',
         wanted' # NoRow => /\ ~drifted' /\ IsValidIndex(list', list'.cur)
                            /\ ItemAt(list', list'.cur) = wanted'
  PROVE  PartyInv'
<1>1. mode' \in Modes /\ at' \in -1..(Size(list') - 1) /\ drifted' \in BOOLEAN
  BY DEF AskedFor, Modes
<1>2. PartyTypes'
  BY <1>1, EditedTypes
<1>3. NeverRunsDry' /\ IndexAtTrack'
  BY DEF AskedFor, NeverRunsDry, IndexAtTrack
<1>4. StartsTheFirst'
  BY DEF AskedFor, StartsTheFirst
<1> QED
  BY <1>2, <1>3, <1>4 DEF PartyInv

(* Rows are added, and the index follows. *)
Grown(i, n) ==
  /\ list' \in Playlists(Entries)
  /\ Size(list') = Size(list) + n
  /\ IsValidIndex(list, list.cur) =>
       /\ list'.cur = IF i <= list.cur THEN list.cur + n ELSE list.cur
       /\ ItemAt(list', list'.cur) = ItemAt(list, list.cur)

LEMMA GrownKeeps ==
  ASSUME PartyInv, NEW i \in 0..Size(list), NEW n \in Nat, Grown(i, n),
         at' = IF at >= i THEN at + n ELSE at,
         UNCHANGED <<settings, mode, assured, wanted, drifted>>
  PROVE  PartyInv'
<1>1. /\ PartyTypes /\ list.cur \in Nat /\ Size(list) \in Nat /\ at \in -1..(Size(list) - 1)
      /\ mode \in Modes /\ assured \in BOOLEAN /\ drifted \in BOOLEAN
  BY TypesAre DEF PartyInv, Playlists, Size
<1>2. /\ list' \in Playlists(Entries) /\ Size(list') = Size(list) + n
      /\ UNCHANGED settings /\ mode' = mode /\ assured' = assured /\ wanted' = wanted /\ drifted' = drifted
  BY DEF Grown
<1>3. at' \in -1..(Size(list') - 1)
  BY <1>1, <1>2
<1>4. PartyTypes'
  BY <1>1, <1>2, <1>3, EditedTypes
<1>5. IsValidIndex(list, list.cur) =>
        /\ list'.cur = IF i <= list.cur THEN list.cur + n ELSE list.cur
        /\ IsValidIndex(list', list'.cur) /\ ItemAt(list', list'.cur) = ItemAt(list, list.cur)
  BY <1>1, <1>2 DEF Grown, IsValidIndex
<1>6. NeverRunsDry'
  <2> SUFFICES ASSUME mode = "playing", assured PROVE list'.cur + 1 < Size(list')
    BY <1>2 DEF NeverRunsDry, HasNext
  <2>1. list.cur + 1 < Size(list)
    BY DEF PartyInv, NeverRunsDry, HasNext
  <2>2. IsValidIndex(list, list.cur)
    BY <1>1, <2>1 DEF IsValidIndex
  <2> QED
    BY <1>1, <1>2, <1>5, <2>1, <2>2
<1>7. StartsTheFirst'
  BY <1>2, <1>5 DEF PartyInv, StartsTheFirst
<1>8. IndexAtTrack'
  <2> SUFFICES ASSUME mode \in {"starting", "playing"}, ~drifted PROVE at' = list'.cur
    BY <1>2 DEF IndexAtTrack
  <2>1. at = list.cur
    BY DEF PartyInv, IndexAtTrack
  <2>2. IsValidIndex(list, list.cur)
    BY <1>1, <2>1 DEF IsValidIndex
  <2> QED
    BY <1>1, <1>5, <2>1, <2>2
<1> QED
  BY <1>4, <1>6, <1>7, <1>8 DEF PartyInv

LEMMA AppendedRows ==
  ASSUME NEW p \in Playlists(Entries), NEW rows \in Seq(Entries)
  PROVE  LET q == [p EXCEPT !.items = @ \o rows]
         IN  /\ q \in Playlists(Entries) /\ q.cur = p.cur
             /\ Size(q) = Size(p) + Len(rows)
             /\ IsValidIndex(p, p.cur) => ItemAt(q, q.cur) = ItemAt(p, p.cur)
<1> DEFINE q == [p EXCEPT !.items = @ \o rows]
<1>1. p.items \in Seq(Entries) /\ p.cur \in Nat /\ Len(p.items) \in Nat /\ Len(rows) \in Nat
  BY DEF Playlists
<1>2. q \in Playlists(Entries) /\ q.cur = p.cur /\ q.items = p.items \o rows
  <2>1. p.items \o rows \in Seq(Entries)
    BY <1>1
  <2>2. p \in [items : Seq(Entries), cur : Nat]
    BY DEF Playlists
  <2>3. q = [items |-> p.items \o rows, cur |-> p.cur]
    <3> DEFINE joined == p.items \o rows
    <3>1. joined \in Seq(Entries) /\ q = [p EXCEPT !.items = joined]
      BY <2>1
    <3> HIDE DEF joined, q
    <3>2. [p EXCEPT !.items = joined] = [items |-> joined, cur |-> p.cur]
      BY <1>1, <2>2, <3>1, Changed
    <3> QED
      BY <3>1, <3>2 DEF joined
  <2> HIDE DEF q
  <2>4. [items |-> p.items \o rows, cur |-> p.cur] \in Playlists(Entries)
    BY <1>1, <2>1 DEF Playlists
  <2> QED
    BY <2>3, <2>4
<1>3. /\ Len(p.items \o rows) = Len(p.items) + Len(rows)
      /\ \A k \in 1..Len(p.items) : (p.items \o rows)[k] = p.items[k]
  BY <1>1
<1> HIDE DEF q
<1>4. IsValidIndex(p, p.cur) => ItemAt(q, q.cur) = ItemAt(p, p.cur)
  <2> SUFFICES ASSUME IsValidIndex(p, p.cur) PROVE q.items[p.cur + 1] = p.items[p.cur + 1]
    BY <1>2 DEF ItemAt
  <2>1. p.cur + 1 \in 1..Len(p.items)
    BY <1>1 DEF IsValidIndex, Size
  <2> QED
    BY <1>2, <1>3, <2>1
<1>5. Size(q) = Size(p) + Len(rows)
  BY <1>2, <1>3 DEF Size
<1> QED
  BY <1>2, <1>4, <1>5 DEF q

LEMMA QuickPlayKeeps ==
  ASSUME PartyInv, NEW object \in ToSet(shown), NEW row \in Rows \cup {-1}, NEW now \in BOOLEAN,
         QuickPlay(object, row, now)
  PROVE  PartyInv'
<1> DEFINE index == IF row < 0 THEN Size(list) ELSE row + 1
<1>1. /\ PartyTypes /\ list \in Playlists(Entries) /\ list.cur \in Nat /\ Size(list) \in Nat
      /\ at \in -1..(Size(list) - 1) /\ assured \in BOOLEAN /\ shown \in Seq(Objects)
  BY TypesAre DEF PartyInv, Playlists, Size
<1>2. object \in Objects
  BY <1>1 DEF ToSet
<1>3. index \in 0..Size(list)
  BY <1>1 DEF Rows
<1> HIDE DEF index
<1>4. PICK rows \in PickSongsForTemplate(object) :
        LET inserted == InsertPicked(list, index, rows)
            moved    == IF at >= index THEN at + Len(rows) ELSE at
        IN  /\ rows # <<>>
            /\ list' = IF now THEN SetCurrentItem(inserted, index) ELSE inserted
            /\ IF now
               THEN JumpTo(moved) /\ wanted' = IF drifted' THEN NoRow ELSE rows[1]
               ELSE at' = moved /\ UNCHANGED <<mode, wanted, drifted>>
            /\ UNCHANGED <<settings, assured>>
  BY DEF QuickPlay, index
<1> DEFINE inserted == InsertPicked(list, index, rows)
           moved == IF at >= index THEN at + Len(rows) ELSE at
<1>5. rows \in Seq(Entries) /\ Len(rows) \in Nat /\ Len(rows) # 0
  <2>1. rows \in Seq(Entries)
    BY <1>1, <1>2, PickedRows
  <2>2. rows # <<>>
    BY <1>4
  <2> QED
    BY <2>1, <2>2, EmptySeq
<1>6. Lengthened(list, inserted, index, Len(rows)) /\ inserted.items[index + 1] = rows[1]
  BY <1>1, <1>3, <1>4, <1>5, PickedAreInserted
<1>7. CASE ~now
  <2>1. list' = inserted /\ at' = moved /\ UNCHANGED <<settings, mode, assured, wanted, drifted>>
    BY <1>4, <1>7
  <2> HIDE DEF inserted
  <2>2. Grown(index, Len(rows))
    BY <1>6, <2>1 DEF Lengthened, Grown
  <2> QED
    BY <1>3, <1>5, <2>1, <2>2, GrownKeeps
<1>8. CASE now
  <2>1. /\ list' = SetCurrentItem(inserted, index) /\ JumpTo(moved) /\ UNCHANGED settings
        /\ assured' = assured /\ wanted' = IF drifted' THEN NoRow ELSE rows[1]
    BY <1>4, <1>8
  <2> HIDE DEF inserted
  <2>2. inserted \in Playlists(Entries) /\ Size(inserted) = Size(list) + Len(rows)
    BY <1>6 DEF Lengthened
  <2>3. list' \in Playlists(Entries) /\ list'.cur = index /\ list'.items = inserted.items
    <3>1. index \in Nat /\ inserted \in [items : Seq(Entries), cur : Nat]
      BY <1>1, <1>3, <2>2 DEF Playlists
    <3>2. [inserted EXCEPT !.cur = index] = [items |-> inserted.items, cur |-> index]
      BY <3>1, Changed
    <3> QED
      BY <2>1, <3>1, <3>2 DEF SetCurrentItem, Playlists
  <2>4. Size(list') = Size(list) + Len(rows)
    BY <2>2, <2>3 DEF Size
  <2>5. moved \in -1..(Size(list') - 1)
    BY <1>1, <1>3, <1>5, <2>4
  <2> HIDE DEF moved
  <2>6. AskedFor'
    BY <1>1, <2>1, <2>3, <2>5, JumpAsks
  <2>7. IsValidIndex(list', list'.cur) /\ ItemAt(list', list'.cur) = rows[1]
    BY <1>1, <1>3, <1>5, <1>6, <2>3, <2>4 DEF IsValidIndex, ItemAt
  <2> QED
    BY <1>1, <2>1, <2>3, <2>6, <2>7, AskedKeeps
<1> QED
  BY <1>7, <1>8

LEMMA AddFromTemplateKeeps ==
  ASSUME PartyInv, NEW object \in ToSet(offered), AddFromTemplate(object)
  PROVE  PartyInv'
<1>1. /\ PartyTypes /\ list \in Playlists(Entries) /\ Size(list) \in Nat /\ list.cur \in Nat
      /\ at \in -1..(Size(list) - 1) /\ offered \in Seq(Objects)
  BY TypesAre DEF PartyInv, Playlists, Size
<1>2. object \in Objects
  BY <1>1 DEF ToSet
<1>3. PICK rows \in PickSongsForTemplate(object) :
        list' = [list EXCEPT !.items = @ \o rows] /\ UNCHANGED <<settings, mode, at, assured, wanted, drifted>>
  BY DEF AddFromTemplate
<1>4. rows \in Seq(Entries) /\ Len(rows) \in Nat
  BY <1>1, <1>2, PickedRows
<1>5. /\ list' \in Playlists(Entries) /\ list'.cur = list.cur /\ Size(list') = Size(list) + Len(rows)
      /\ IsValidIndex(list, list.cur) => ItemAt(list', list'.cur) = ItemAt(list, list.cur)
  BY <1>1, <1>3, <1>4, AppendedRows
<1>6. Grown(Size(list), Len(rows))
  BY <1>1, <1>5 DEF Grown, IsValidIndex
<1>7. at' = IF at >= Size(list) THEN at + Len(rows) ELSE at
  BY <1>1, <1>3
<1>8. Size(list) \in 0..Size(list)
  BY <1>1
<1> QED
  BY <1>3, <1>4, <1>6, <1>7, <1>8, GrownKeeps

LEMMA LoadPlaylistKeeps ==
  ASSUME PartyInv, NEW row \in Rows \cup {-1}, LoadPlaylist(row)
  PROVE  PartyInv'
<1> DEFINE rows == DoImport(File, library, Filters)
           pos == IF row < 0 THEN Size(list) - 1 ELSE row
<1>1. /\ PartyTypes /\ list \in Playlists(Entries) /\ Size(list) \in Nat /\ at \in -1..(Size(list) - 1)
  BY TypesAre DEF PartyInv, Playlists, Size
<1>2. pos + 1 \in 0..Size(list) /\ pos \in Int
  BY <1>1 DEF Rows
<1>3. /\ list' = InsertItems(list, pos + 1, rows) /\ at' = IF at > pos THEN at + Len(rows) ELSE at
      /\ UNCHANGED <<settings, mode, assured, wanted, drifted>>
  BY DEF LoadPlaylist
<1>4. rows \in Seq(Entries) /\ Len(rows) \in Nat
  BY <1>1, LoadedRows
<1> HIDE DEF rows, pos
<1>5. Lengthened(list, list', pos + 1, Len(rows))
  BY <1>1, <1>2, <1>3, <1>4, LoadedAreInserted
<1>6. Grown(pos + 1, Len(rows))
  BY <1>5 DEF Lengthened, Grown
<1>7. at' = IF at >= pos + 1 THEN at + Len(rows) ELSE at
  BY <1>1, <1>2, <1>3
<1> QED
  BY <1>2, <1>3, <1>4, <1>6, <1>7, GrownKeeps

LEMMA ReplaceSongKeeps ==
  ASSUME PartyInv, NEW i \in Rows, ReplaceSong(i)
  PROVE  PartyInv'
<1> DEFINE row == ItemAt(list, i)
           index == IF at = i THEN -1 ELSE at
<1>1. /\ PartyTypes /\ list \in Playlists(Entries) /\ Size(list) \in Nat /\ at \in -1..(Size(list) - 1)
      /\ mode \in Modes /\ assured \in BOOLEAN /\ drifted \in BOOLEAN
      /\ library \in Seq(ToSet(Tracks)) /\ matches \in [Filters -> SUBSET ToSet(Tracks)]
      /\ offered \in Seq(Objects) /\ shown \in Seq(Objects)
  BY TypesAre DEF PartyInv, Playlists, Size
<1>2. i \in Nat /\ IsValidIndex(list, i)
  BY <1>1 DEF Rows, IsValidIndex
<1>3. row \in Entries
  BY <1>1, <1>2, ItemAtType
<1>4. row.filter \in Filters
  BY <1>3 DEF ReplaceSong, Entries
<1>5. PICK s \in PickSongForFilter(row.filter, row.song) \ {row.song} :
        IF s = NoSong
        THEN Restarted
        ELSE /\ list' = ReplaceItem(list, i, Row(s, row.filter))
             /\ wanted' = NoRow
             /\ \/ i = list.cur /\ JumpTo(index)
                \/ /\ at' = index
                   /\ drifted' = (drifted \/ at = i)
                   /\ UNCHANGED mode
             /\ UNCHANGED <<settings, assured>>
  BY DEF ReplaceSong
<1> HIDE DEF row
<1>6. CASE s = NoSong
  <2>1. /\ list' = EmptyPlaylist /\ mode' = "stopped" /\ at' = -1 /\ shown' = offered
        /\ combo' \in ToSet(offered) \cup {NoObject} /\ box' \in BOOLEAN
        /\ assured' = FALSE /\ wanted' = NoRow /\ drifted' = FALSE
        /\ UNCHANGED <<library, matches, offered>>
    BY <1>5, <1>6 DEF Restarted
  <2>2. list' \in Playlists(Entries) /\ Size(list') = 0
    BY <2>1 DEF EmptyPlaylist, Playlists, Size
  <2>3. combo' \in Objects \cup {NoObject}
    BY <1>1, <2>1 DEF ToSet
  <2>4. PartyTypes'
    <3>1. /\ list' \in Playlists(Entries) /\ mode' \in Modes /\ at' \in -1..(Size(list') - 1)
          /\ box' \in BOOLEAN /\ assured' \in BOOLEAN /\ drifted' \in BOOLEAN
      <4>1. -1 \in -1..(0 - 1)
        OBVIOUS
      <4> QED
        BY <2>1, <2>2, <4>1 DEF Modes
    <3>2. /\ library' \in Seq(ToSet(Tracks)) /\ matches' \in [Filters -> SUBSET ToSet(Tracks)]
          /\ offered' \in Seq(Objects) /\ shown' \in Seq(Objects)
      BY <1>1, <2>1
    <3> QED
      BY <2>3, <3>1, <3>2, AreTypes
  <2> QED
    BY <2>1, <2>4 DEF PartyInv, NeverRunsDry, StartsTheFirst, IndexAtTrack
<1>7. CASE s # NoSong
  <2>1. s \in ToSet(Tracks)
    BY <1>1, <1>4, <1>5, <1>7, PickedSongs
  <2>2. Row(s, row.filter) \in Entries
    BY <1>4, <2>1 DEF Row, Entries
  <2>3. list' = ReplaceItem(list, i, Row(s, row.filter)) /\ wanted' = NoRow /\ UNCHANGED settings /\ assured' = assured
    BY <1>5, <1>7
  <2>4. list' \in Playlists(Entries)
    BY <1>1, <1>2, <2>2, <2>3, ReplaceType
  <2>5. list'.cur = list.cur /\ Size(list') = Size(list)
    BY <1>1, <1>2, <2>3 DEF ReplaceItem, ReplaceAt, Size, Playlists
  <2>6. index \in -1..(Size(list') - 1)
    BY <1>1, <2>5
  <2>7. CASE JumpTo(index)
    <3> HIDE DEF index
    <3>1. AskedFor'
      BY <1>1, <2>4, <2>6, <2>7, JumpAsks
    <3> QED
      BY <1>1, <2>3, <2>4, <3>1, AskedKeeps
  <2>8. CASE at' = index /\ drifted' = (drifted \/ at = i) /\ UNCHANGED mode
    <3>1. PartyTypes'
      BY <1>1, <2>3, <2>4, <2>6, <2>8, EditedTypes
    <3>2. NeverRunsDry'
      BY <2>3, <2>5, <2>8 DEF PartyInv, NeverRunsDry, HasNext
    <3>3. IndexAtTrack'
      BY <1>1, <2>5, <2>8 DEF PartyInv, IndexAtTrack
    <3> QED
      BY <2>3, <3>1, <3>2, <3>3 DEF PartyInv, StartsTheFirst
  <2> QED
    BY <1>5, <1>7, <2>7, <2>8
<1> QED
  BY <1>6, <1>7

(***************************************************************************)
(* Rows go: what is left of the index is that of the track, unless the     *)
(* track is among them, which then no longer plays.                        *)
(***************************************************************************)
TrackLeft(rows) ==
  /\ mode' \in Modes
  /\ at \notin rows => mode' = mode /\ at' = at - Cardinality({r \in rows : r < at})
  /\ at \in rows => mode' # "playing" /\ (mode' = "starting" => mode = "starting")
                    /\ (mode' = "stopped" => mode = "stopped")
  /\ at' \in -1..((Size(list) - Cardinality(rows)) - 1)

LEMMA TrackIsLeft ==
  ASSUME PartyTypes, NEW rows \in SUBSET Rows, TrackWithout(rows)
  PROVE  TrackLeft(rows)
<1> DEFINE before == Cardinality({r \in rows : r < at})
           n == Size(list)
           gone == Cardinality(rows)
<1>1. n \in Nat /\ at \in -1..(n - 1) /\ mode \in Modes
  BY TypesAre DEF Playlists, Size
<1>2. rows \in SUBSET (0..(n - 1))
  BY DEF Rows
<1>3. IsFiniteSet(rows) /\ gone \in 0..n
  BY <1>1, <1>2, RowsBefore
<1>4. -1 \in -1..((n - gone) - 1)
  BY <1>1, <1>3
<1>5. CASE at \in rows
  <2>1. at' = -1
    BY <1>5 DEF TrackWithout, Fade
  <2>2. mode' \in IF mode = "starting" THEN {"fading", "starting"}
                  ELSE IF mode = "playing" THEN {"fading"} ELSE {mode}
    BY <1>5 DEF TrackWithout, Fade
  <2>3. /\ mode' \in Modes /\ mode' # "playing" /\ (mode' = "starting" => mode = "starting")
        /\ mode' = "stopped" => mode = "stopped"
    BY <1>1, <2>2 DEF Modes
  <2> HIDE DEF gone, n
  <2> QED
    BY <1>4, <1>5, <2>1, <2>3 DEF TrackLeft, gone, n
<1>6. CASE at \notin rows
  <2>1. at' = at - before /\ mode' = mode
    BY <1>6 DEF TrackWithout
  <2>2. at - before \in -1..((n - gone) - 1)
    <3>1. CASE at = -1
      <4>1. {r \in rows : r < at} = {}
        <5> SUFFICES ASSUME NEW r \in rows PROVE ~(r < at)
          OBVIOUS
        <5>1. r \in 0..(n - 1)
          BY <1>2
        <5> HIDE DEF n
        <5> QED
          BY <1>1, <3>1, <5>1
      <4>2. before = 0
        BY <4>1, FS_EmptySet
      <4> HIDE DEF before, n, gone
      <4> QED
        BY <1>4, <3>1, <4>2
    <3>2. CASE at # -1
      <4>1. at \in Nat /\ at < n
        BY <1>1, <3>2
      <4>2. at - before \in 0..((n - gone) - 1)
        BY <1>1, <1>2, <1>6, <4>1, RowsBefore
      <4> HIDE DEF before, n, gone
      <4> QED
        BY <1>1, <1>3, <4>2
    <3> QED
      BY <3>1, <3>2
  <2> HIDE DEF before, gone, n
  <2>3. mode' \in Modes /\ mode' = mode /\ at' = at - before /\ at' \in -1..((n - gone) - 1)
    BY <1>1, <2>1, <2>2
  <2> QED
    BY <1>6, <2>3 DEF TrackLeft, before, gone, n
<1> QED
  BY <1>5, <1>6

LEMMA DeleteSelectedKeeps ==
  ASSUME PartyInv, NEW rows \in SUBSET Rows, DeleteSelected(rows)
  PROVE  PartyInv'
<1> DEFINE before == Cardinality({r \in rows : r < list.cur})
<1>1. /\ PartyTypes /\ list \in Playlists(Entries) /\ Size(list) \in Nat /\ list.cur \in Nat
      /\ at \in -1..(Size(list) - 1) /\ mode \in Modes /\ drifted \in BOOLEAN
  BY TypesAre DEF PartyInv, Playlists, Size
<1>2. /\ list' = [items |-> WithoutRows(rows), cur |-> list.cur - before]
      /\ TrackWithout(rows)
      /\ drifted' = (drifted \/ (at \in rows /\ mode' = "starting"))
      /\ wanted' = NoRow /\ assured' = FALSE /\ UNCHANGED settings
  BY DEF DeleteSelected
<1>3. rows \in SUBSET (0..(Size(list) - 1))
  BY DEF Rows
<1>4. before \in 0..list.cur
  BY <1>1, <1>3, RowsBefore
<1>5. WithoutRows(rows) \in Seq(Entries) /\ Len(WithoutRows(rows)) = Size(list) - Cardinality(rows)
  BY <1>1, WithoutRowsType
<1>6. TrackLeft(rows)
  BY <1>1, <1>2, TrackIsLeft
<1>7. list' \in Playlists(Entries) /\ list'.cur = list.cur - before
      /\ Size(list') = Size(list) - Cardinality(rows)
  <2> DEFINE left == WithoutRows(rows)
  <2>1. left \in Seq(Entries) /\ list.cur - before \in Nat /\ list' = [items |-> left, cur |-> list.cur - before]
    BY <1>1, <1>2, <1>4, <1>5
  <2> HIDE DEF left, before
  <2>2. list' \in Playlists(Entries) /\ list'.cur = list.cur - before /\ list'.items = left
    BY <2>1 DEF Playlists
  <2> QED
    BY <1>5, <2>2 DEF Size, left
<1>8. IndexAtTrack'
  <2> SUFFICES ASSUME mode' \in {"starting", "playing"}, ~drifted' PROVE at' = list'.cur
    BY DEF IndexAtTrack
  <2>1. at \notin rows
    BY <1>1, <1>2, <1>6 DEF TrackLeft
  <2>2. mode' = mode /\ at' = at - Cardinality({r \in rows : r < at}) /\ ~drifted
    BY <1>2, <1>6, <2>1 DEF TrackLeft
  <2>3. at = list.cur
    BY <2>2 DEF PartyInv, IndexAtTrack
  <2> QED
    BY <1>7, <2>2, <2>3
<1> HIDE DEF before
<1>9. PartyTypes'
  <2>1. mode' \in Modes /\ at' \in -1..(Size(list') - 1) /\ assured' \in BOOLEAN /\ drifted' \in BOOLEAN
    BY <1>1, <1>2, <1>6, <1>7 DEF TrackLeft
  <2> QED
    BY <1>1, <1>2, <1>7, <2>1, EditedTypes
<1> QED
  BY <1>2, <1>8, <1>9 DEF PartyInv, NeverRunsDry, StartsTheFirst

LEMMA LibraryRemovesKeeps ==
  ASSUME PartyInv, NEW s \in ToSet(library), LibraryRemoves(s)
  PROVE  PartyInv'
<1> DEFINE rows == {k \in 0..(Size(list) - 1) : ItemAt(list, k).song = s}
           gone == {k \in DOMAIN library : library[k] = s}
<1>1. /\ PartyTypes /\ list \in Playlists(Entries) /\ Size(list) \in Nat /\ list.cur \in Nat
      /\ at \in -1..(Size(list) - 1) /\ mode \in Modes /\ drifted \in BOOLEAN /\ assured \in BOOLEAN
      /\ library \in Seq(ToSet(Tracks)) /\ matches \in [Filters -> SUBSET ToSet(Tracks)]
      /\ offered \in Seq(Objects) /\ shown \in Seq(Objects) /\ box \in BOOLEAN
      /\ combo \in Objects \cup {NoObject}
  BY TypesAre DEF PartyInv, Playlists, Size
<1>2. rows \in SUBSET Rows /\ gone \in SUBSET (1..Len(library))
  BY <1>1 DEF Rows
<1>3. /\ library' = Remaining(library, gone)
      /\ list' = [list EXCEPT !.items = WithoutRows(rows)]
      /\ TrackWithout(rows)
      /\ drifted' = (drifted \/ \E r \in rows : r <= list.cur)
      /\ wanted' = IF rows = {} THEN wanted ELSE NoRow
      /\ assured' = (assured /\ rows = {})
      /\ UNCHANGED <<matches, offered, shown, combo, box>>
  BY DEF LibraryRemoves
<1> HIDE DEF rows, gone
<1>4. library' \in Seq(ToSet(Tracks))
  BY <1>1, <1>2, <1>3, RemainingRows
<1>5. /\ WithoutRows(rows) \in Seq(Entries) /\ Len(WithoutRows(rows)) = Size(list) - Cardinality(rows)
      /\ rows = {} => WithoutRows(rows) = list.items
  BY <1>1, <1>2, WithoutRowsType
<1>6. TrackLeft(rows)
  BY <1>1, <1>2, <1>3, TrackIsLeft
<1>7. /\ list' \in Playlists(Entries) /\ list'.cur = list.cur /\ Size(list') = Size(list) - Cardinality(rows)
      /\ rows = {} => list' = list
  <2> DEFINE left == WithoutRows(rows)
  <2>1. left \in Seq(Entries) /\ list' = [list EXCEPT !.items = left] /\ list \in [items : Seq(Entries), cur : Nat]
    BY <1>1, <1>3, <1>5 DEF Playlists
  <2>2. rows = {} => left = list.items
    BY <1>5
  <2> HIDE DEF left
  <2>3. /\ list' \in [items : Seq(Entries), cur : Nat] /\ list'.cur = list.cur /\ list'.items = left
        /\ left = list.items => list' = list
    BY <2>1
  <2>4. list' \in Playlists(Entries)
    BY <2>3 DEF Playlists
  <2> QED
    BY <1>5, <2>2, <2>3, <2>4 DEF Size, left
<1>8. ASSUME rows = {}
      PROVE  mode' = mode /\ at' = at
  <2>1. at \notin rows /\ {r \in rows : r < at} = {}
    BY <1>8
  <2>2. Cardinality({r \in rows : r < at}) = 0
    BY <2>1, FS_EmptySet
  <2> QED
    BY <1>1, <1>6, <2>1, <2>2 DEF TrackLeft
<1>9. PartyTypes'
  <2>1. mode' \in Modes /\ at' \in -1..(Size(list') - 1) /\ assured' \in BOOLEAN /\ drifted' \in BOOLEAN
    BY <1>1, <1>3, <1>6, <1>7 DEF TrackLeft
  <2> QED
    BY <1>1, <1>3, <1>4, <1>7, <2>1, AreTypes
<1>10. NeverRunsDry'
  <2> SUFFICES ASSUME mode' = "playing", assured' PROVE HasNext(list')
    BY DEF NeverRunsDry
  <2>1. rows = {} /\ assured
    BY <1>3
  <2> QED
    BY <1>7, <1>8, <2>1 DEF PartyInv, NeverRunsDry
<1>11. StartsTheFirst'
  <2> SUFFICES ASSUME wanted' # NoRow
               PROVE  mode' \in {"starting", "fading"} /\ IsValidIndex(list', list'.cur)
                      /\ ItemAt(list', list'.cur) = wanted'
    BY DEF StartsTheFirst
  <2>1. rows = {} /\ wanted' = wanted
    BY <1>3
  <2> QED
    BY <1>7, <1>8, <2>1 DEF PartyInv, StartsTheFirst
<1>12. IndexAtTrack'
  <2> SUFFICES ASSUME mode' \in {"starting", "playing"}, ~drifted' PROVE at' = list'.cur
    BY DEF IndexAtTrack
  <2>1. ~drifted /\ \A r \in rows : ~(r <= list.cur)
    BY <1>3
  <2>2. mode \in {"starting", "playing"}
    BY <1>6 DEF TrackLeft
  <2>3. at = list.cur
    BY <2>1, <2>2 DEF PartyInv, IndexAtTrack
  <2>4. at \notin rows
    BY <1>1, <2>1, <2>3
  <2>5. {r \in rows : r < at} = {}
    <3> SUFFICES ASSUME NEW r \in rows, r < at PROVE FALSE
      OBVIOUS
    <3>1. r \in Nat
      BY <1>1, <1>2 DEF Rows
    <3> QED
      BY <1>1, <2>1, <2>3, <3>1
  <2>6. Cardinality({r \in rows : r < at}) = 0
    BY <2>5, FS_EmptySet
  <2> QED
    BY <1>1, <1>6, <1>7, <2>3, <2>4, <2>6 DEF TrackLeft
<1> QED
  BY <1>9, <1>10, <1>11, <1>12 DEF PartyInv

LEMMA JumpKeeps ==
  ASSUME PartyInv, NEW row \in Rows, Jump(row)
  PROVE  PartyInv'
<1>1. /\ PartyTypes /\ list \in Playlists(Entries) /\ Size(list) \in Nat /\ at \in -1..(Size(list) - 1)
  BY TypesAre DEF PartyInv, Playlists, Size
<1>2. row \in Nat
  BY <1>1 DEF Rows
<1>3. list' = SetCurrentItem(list, row) /\ JumpTo(at) /\ wanted' = NoRow /\ assured' = FALSE /\ UNCHANGED settings
  BY DEF Jump
<1>4. list' \in Playlists(Entries) /\ Size(list') = Size(list)
  BY <1>1, <1>2, <1>3 DEF SetCurrentItem, Playlists, Size
<1>5. AskedFor'
  BY <1>1, <1>3, <1>4, JumpAsks
<1> QED
  BY <1>1, <1>3, <1>4, <1>5, AskedKeeps

(* Play, the end of a fade-out and that of a track start the current item of the list, if any. *)
LEMMA StartKeeps ==
  ASSUME PartyInv, UNCHANGED settings, list' \in Playlists(Entries), assured' \in BOOLEAN, StartCurrent,
         wanted' # NoRow => ~drifted' /\ IsValidIndex(list', list'.cur) /\ ItemAt(list', list'.cur) = wanted'
  PROVE  PartyInv'
<1>1. PartyTypes /\ drifted \in BOOLEAN
  BY TypesAre DEF PartyInv
<1>2. AskedFor'
  BY <1>1, StartAsks
<1> QED
  BY <1>1, <1>2, AskedKeeps

LEMMA PlayKeeps ==
  ASSUME PartyInv, Play
  PROVE  PartyInv'
<1>1. /\ list \in Playlists(Entries) /\ assured \in BOOLEAN /\ list' = list /\ assured' = assured
      /\ wanted' = wanted /\ UNCHANGED settings /\ StartCurrent
  BY TypesAre DEF PartyInv, Play
<1>2. wanted = NoRow
  BY DEF PartyInv, StartsTheFirst, Play
<1> QED
  BY <1>1, <1>2, StartKeeps

LEMMA FadedOutKeeps ==
  ASSUME PartyInv, FadedOut
  PROVE  PartyInv'
<1>1. /\ list \in Playlists(Entries) /\ list' = list /\ assured' = FALSE
      /\ wanted' = wanted /\ UNCHANGED settings /\ StartCurrent /\ drifted \in BOOLEAN
  BY TypesAre DEF PartyInv, FadedOut
<1>2. wanted # NoRow => IsValidIndex(list, list.cur) /\ ItemAt(list, list.cur) = wanted
  BY DEF PartyInv, StartsTheFirst
<1>3. IsValidIndex(list', list'.cur) => ~drifted'
  BY <1>1, StartAsks
<1> QED
  BY <1>1, <1>2, <1>3, StartKeeps

LEMMA StopPlayingKeeps ==
  ASSUME PartyInv, StopPlaying
  PROVE  PartyInv'
<1>1. /\ PartyTypes /\ list \in Playlists(Entries) /\ Size(list) \in Nat /\ at \in -1..(Size(list) - 1)
      /\ mode \in Modes /\ drifted \in BOOLEAN
  BY TypesAre DEF PartyInv, Playlists, Size
<1>2. list' = list /\ wanted' = NoRow /\ assured' = FALSE /\ UNCHANGED settings
  BY DEF StopPlaying
<1>3. CASE mode' = "stopped" /\ at' = -1 /\ drifted' = FALSE
  <2>1. mode' \in Modes /\ at' \in -1..(Size(list') - 1) /\ list' \in Playlists(Entries)
        /\ assured' \in BOOLEAN /\ drifted' \in BOOLEAN
    <3>1. -1 \in -1..(Size(list) - 1)
      BY <1>1
    <3> QED
      BY <1>1, <1>2, <1>3, <3>1 DEF Modes
  <2>2. PartyTypes'
    BY <1>1, <1>2, <2>1, EditedTypes
  <2> QED
    BY <1>2, <1>3, <2>2 DEF PartyInv, NeverRunsDry, StartsTheFirst, IndexAtTrack
<1>4. CASE mode = "starting" /\ UNCHANGED <<mode, at, drifted>>
  <2>1. PartyTypes'
    BY <1>1, <1>2, <1>4, EditedTypes
  <2> QED
    BY <1>2, <1>4, <2>1 DEF PartyInv, NeverRunsDry, StartsTheFirst, IndexAtTrack
<1> QED
  BY <1>3, <1>4 DEF StopPlaying

(* The last row appends, and there is something to append. *)
LEMMA StartedKeeps ==
  ASSUME PartyInv, Started
  PROVE  PartyInv'
<1> DEFINE appends == IsAtEnd(list) /\ box /\ combo # NoObject
           athand == \E f \in ToSet(PicksOf[combo]) : \E s \in ToSet(library) : s \in matches[f]
<1>1. /\ PartyTypes /\ list \in Playlists(Entries) /\ Size(list) \in Nat /\ list.cur \in Nat
      /\ at \in -1..(Size(list) - 1) /\ drifted \in BOOLEAN /\ combo \in Objects \cup {NoObject}
  BY TypesAre DEF PartyInv, Playlists, Size
<1>2. PICK rows \in IF appends THEN PickSongsForTemplate(combo) ELSE {<<>>} :
        list' = [list EXCEPT !.items = @ \o rows]
  BY DEF Started
<1>3. /\ mode = "starting" /\ mode' = "playing" /\ wanted' = NoRow /\ UNCHANGED settings
      /\ at' = at /\ drifted' = drifted
      /\ assured' = (IsValidIndex(list, list.cur) /\ box /\ combo # NoObject /\ athand)
  BY DEF Started
<1> HIDE DEF athand
<1>4. rows \in Seq(Entries) /\ (appends /\ athand => rows # <<>>)
  <2>1. CASE appends
    <3>1. combo \in Objects /\ rows \in PickSongsForTemplate(combo)
      BY <1>1, <1>2, <2>1
    <3> QED
      BY <1>1, <3>1, PickedRows DEF athand
  <2>2. CASE ~appends
    <3>1. rows = <<>>
      BY <1>2, <2>2
    <3> QED
      BY <2>2, <3>1
  <2> QED
    BY <2>1, <2>2
<1>5. /\ list' \in Playlists(Entries) /\ list'.cur = list.cur /\ Size(list') = Size(list) + Len(rows)
  BY <1>1, <1>2, <1>4, AppendedRows
<1>6. Len(rows) \in Nat /\ (rows # <<>> => Len(rows) > 0)
  <2>1. Len(rows) \in Nat
    BY <1>4
  <2>2. rows # <<>> => Len(rows) # 0
    BY <1>4, EmptySeq
  <2> QED
    BY <2>1, <2>2
<1>7. PartyTypes'
  <2>1. /\ mode' \in Modes /\ at' \in -1..(Size(list') - 1) /\ assured' \in BOOLEAN /\ drifted' \in BOOLEAN
    BY <1>1, <1>3, <1>5, <1>6 DEF Modes
  <2> QED
    BY <1>1, <1>3, <1>5, <2>1, EditedTypes
<1>8. NeverRunsDry'
  <2> SUFFICES ASSUME assured' PROVE list'.cur + 1 < Size(list')
    BY DEF NeverRunsDry, HasNext
  <2>1. IsValidIndex(list, list.cur) /\ box /\ combo # NoObject /\ athand
    BY <1>3
  <2>2. list.cur < Size(list)
    BY <2>1 DEF IsValidIndex
  <2>3. CASE IsAtEnd(list)
    <3>1. Len(rows) > 0
      BY <1>4, <1>6, <2>1, <2>3
    <3> QED
      BY <1>1, <1>5, <1>6, <2>2, <3>1
  <2>4. CASE ~IsAtEnd(list)
    <3>1. list.cur + 1 < Size(list)
      BY <1>1, <2>2, <2>4 DEF IsAtEnd
    <3> QED
      BY <1>1, <1>5, <1>6, <3>1
  <2> QED
    BY <2>3, <2>4
<1>9. IndexAtTrack'
  BY <1>3, <1>5 DEF PartyInv, IndexAtTrack
<1> QED
  BY <1>3, <1>7, <1>8, <1>9 DEF PartyInv, StartsTheFirst

LEMMA FinishedKeeps ==
  ASSUME PartyInv, Finished
  PROVE  PartyInv'
<1>1. /\ PartyTypes /\ list \in Playlists(Entries) /\ Size(list) \in Nat
  BY TypesAre DEF PartyInv, Playlists, Size
<1>2. /\ mode = "playing" /\ list' = NextItem(list) /\ assured' = FALSE /\ wanted' = wanted /\ UNCHANGED settings
      /\ IF HasNext(list) THEN StartCurrent ELSE mode' = "stopped" /\ at' = -1 /\ drifted' = FALSE
  BY DEF Finished
<1>3. list' \in Playlists(Entries) /\ Size(list') = Size(list)
  <2>1. list \in [items : Seq(Entries), cur : Nat]
    BY <1>1 DEF Playlists
  <2>2. list' \in [items : Seq(Entries), cur : Nat] /\ list'.items = list.items
    <3>1. list.items \in Seq(Entries) /\ list.cur \in Nat /\ list.cur + 1 \in Nat
      BY <2>1
    <3>2. [list EXCEPT !.cur = list.cur + 1] = [items |-> list.items, cur |-> list.cur + 1]
      BY <2>1, <3>1, Changed
    <3>3. [items |-> list.items, cur |-> list.cur + 1] \in [items : Seq(Entries), cur : Nat]
      BY <3>1
    <3>4. CASE HasNext(list)
      BY <1>2, <3>2, <3>3, <3>4 DEF NextItem
    <3>5. CASE ~HasNext(list)
      BY <1>2, <2>1, <3>5 DEF NextItem
    <3> QED
      BY <3>4, <3>5
  <2> QED
    BY <2>2 DEF Playlists, Size
<1>4. wanted' = NoRow
  BY <1>2 DEF PartyInv, StartsTheFirst
<1>5. CASE HasNext(list)
  BY <1>2, <1>3, <1>4, <1>5, StartKeeps
<1>6. CASE ~HasNext(list)
  <2>1. mode' \in Modes /\ at' \in -1..(Size(list') - 1) /\ assured' \in BOOLEAN /\ drifted' \in BOOLEAN
    <3>1. -1 \in -1..(Size(list') - 1)
      BY <1>1, <1>3
    <3> QED
      BY <1>2, <1>6, <3>1 DEF Modes
  <2>2. PartyTypes'
    BY <1>1, <1>2, <1>3, <2>1, EditedTypes
  <2> QED
    BY <1>2, <1>4, <1>6, <2>2 DEF PartyInv, NeverRunsDry, StartsTheFirst, IndexAtTrack
<1> QED
  BY <1>5, <1>6

(* Tags, templates, favourite filters and the settings change what is picked later on, and no row. *)
LEMMA SettingsKeep ==
  ASSUME PartyInv, UNCHANGED <<list, mode, at, library, assured, wanted, drifted>>,
         matches' \in [Filters -> SUBSET ToSet(Tracks)], offered' \in Seq(Objects), shown' \in Seq(Objects),
         combo' \in Objects \cup {NoObject}, box' \in BOOLEAN
  PROVE  PartyInv'
<1>1. /\ list \in Playlists(Entries) /\ mode \in Modes /\ at \in -1..(Size(list) - 1)
      /\ library \in Seq(ToSet(Tracks)) /\ assured \in BOOLEAN /\ drifted \in BOOLEAN
  BY TypesAre DEF PartyInv
<1>2. PartyTypes'
  BY <1>1, AreTypes
<1> QED
  BY <1>2 DEF PartyInv, NeverRunsDry, StartsTheFirst, IndexAtTrack

LEMMA SettingsChangeKeeps ==
  ASSUME PartyInv,
         \/ \E tagging \in Taggings : TagsChange(tagging)
         \/ \E offers \in OfferLists : OffersChange(offers)
         \/ TemplatesClosed
         \/ \E object \in ToSet(shown) : ComboChosen(object)
         \/ BoxToggled
         \/ UNCHANGED partyVars
  PROVE  PartyInv'
<1>1. /\ matches \in [Filters -> SUBSET ToSet(Tracks)] /\ offered \in Seq(Objects) /\ shown \in Seq(Objects)
      /\ combo \in Objects \cup {NoObject} /\ box \in BOOLEAN
  BY TypesAre DEF PartyInv
<1>2. ASSUME NEW tagging \in Taggings, TagsChange(tagging)
      PROVE  PartyInv'
  <2>1. tagging \in [Filters -> SUBSET ToSet(Tracks)]
    BY PartyAssumption
  <2> QED
    BY <1>1, <1>2, <2>1, SettingsKeep DEF TagsChange
<1>3. ASSUME NEW offers \in OfferLists, OffersChange(offers)
      PROVE  PartyInv'
  <2>1. offers \in Seq(Objects)
    BY PartyAssumption DEF Objects
  <2> QED
    BY <1>1, <1>3, <2>1, SettingsKeep DEF OffersChange, others
<1>4. CASE TemplatesClosed
  <2>1. combo' \in Objects \cup {NoObject}
    <3>1. \A o \in ToSet(offered) : o \in Objects
      BY <1>1 DEF ToSet
    <3>2. offered # <<>> => Head(offered) \in Objects
      BY <1>1
    <3> QED
      BY <1>1, <1>4, <3>1, <3>2 DEF TemplatesClosed
  <2> QED
    BY <1>1, <1>4, <2>1, SettingsKeep DEF TemplatesClosed, others
<1>5. ASSUME NEW object \in ToSet(shown), ComboChosen(object)
      PROVE  PartyInv'
  <2>1. object \in Objects
    BY <1>1 DEF ToSet
  <2> QED
    BY <1>1, <1>5, <2>1, SettingsKeep DEF ComboChosen, others
<1>6. CASE BoxToggled
  <2>1. box' \in BOOLEAN
    BY <1>1, <1>6 DEF BoxToggled
  <2> QED
    BY <1>1, <1>6, <2>1, SettingsKeep DEF BoxToggled, others
<1>7. CASE UNCHANGED partyVars
  BY <1>1, <1>7, SettingsKeep DEF partyVars
<1> QED
  BY <1>2, <1>3, <1>4, <1>5, <1>6, <1>7

LEMMA PartyStarts == PartyInit => PartyInv
<1> SUFFICES ASSUME PartyInit PROVE PartyInv
  OBVIOUS
<1>1. list = EmptyPlaylist /\ mode = "stopped" /\ at = -1 /\ assured = FALSE /\ wanted = NoRow /\ drifted = FALSE
  BY DEF PartyInit
<1>2. list \in Playlists(Entries) /\ Size(list) = 0
  BY <1>1 DEF EmptyPlaylist, Playlists, Size
<1>3. at \in -1..(Size(list) - 1) /\ mode \in Modes /\ assured \in BOOLEAN /\ drifted \in BOOLEAN
  <2>1. -1 \in -1..(0 - 1)
    OBVIOUS
  <2> QED
    BY <1>1, <1>2, <2>1 DEF Modes
<1>4. offered \in Seq(Objects) /\ shown \in Seq(Objects)
  BY PartyAssumption DEF PartyInit, Objects
<1>5. combo \in Objects \cup {NoObject}
  BY <1>4 DEF PartyInit, ToSet
<1>6. library \in Seq(ToSet(Tracks)) /\ matches \in [Filters -> SUBSET ToSet(Tracks)] /\ box \in BOOLEAN
  BY PartyAssumption DEF PartyInit
<1>7. PartyTypes
  BY <1>2, <1>3, <1>4, <1>5, <1>6, TypesAre
<1> QED
  BY <1>1, <1>7 DEF PartyInv, NeverRunsDry, StartsTheFirst, IndexAtTrack

LEMMA PartyStays == PartyInv /\ [PartyNext]_partyVars => PartyInv'
<1> SUFFICES ASSUME PartyInv, [PartyNext]_partyVars PROVE PartyInv'
  OBVIOUS
<1>1. ASSUME NEW object \in ToSet(shown), NEW row \in Rows \cup {-1}, NEW now \in BOOLEAN, QuickPlay(object, row, now)
      PROVE  PartyInv'
  BY <1>1, QuickPlayKeeps
<1>2. ASSUME NEW object \in ToSet(offered), AddFromTemplate(object)
      PROVE  PartyInv'
  BY <1>2, AddFromTemplateKeeps
<1>3. ASSUME NEW row \in Rows \cup {-1}, LoadPlaylist(row)
      PROVE  PartyInv'
  BY <1>3, LoadPlaylistKeeps
<1>4. ASSUME NEW i \in Rows, ReplaceSong(i)
      PROVE  PartyInv'
  BY <1>4, ReplaceSongKeeps
<1>5. ASSUME NEW rows \in SUBSET Rows, DeleteSelected(rows)
      PROVE  PartyInv'
  BY <1>5, DeleteSelectedKeeps
<1>6. ASSUME NEW s \in ToSet(library), LibraryRemoves(s)
      PROVE  PartyInv'
  BY <1>6, LibraryRemovesKeeps
<1>7. ASSUME NEW row \in Rows, Jump(row)
      PROVE  PartyInv'
  BY <1>7, JumpKeeps
<1>8. CASE Play
  BY <1>8, PlayKeeps
<1>9. CASE StopPlaying
  BY <1>9, StopPlayingKeeps
<1>10. CASE FadedOut
  BY <1>10, FadedOutKeeps
<1>11. CASE Started
  BY <1>11, StartedKeeps
<1>12. CASE Finished
  BY <1>12, FinishedKeeps
<1>13. CASE \/ \E tagging \in Taggings : TagsChange(tagging)
            \/ \E offers \in OfferLists : OffersChange(offers)
            \/ TemplatesClosed
            \/ \E object \in ToSet(shown) : ComboChosen(object)
            \/ BoxToggled
            \/ UNCHANGED partyVars
  BY <1>13, SettingsChangeKeeps
<1> QED
  BY <1>1, <1>2, <1>3, <1>4, <1>5, <1>6, <1>7, <1>8, <1>9, <1>10, <1>11, <1>12, <1>13 DEF PartyNext

(***************************************************************************)
(* Whatever is edited in the player window, whatever leaves the library    *)
(* and whatever is tagged or offered meanwhile: the song picked first is   *)
(* the one that quick play starts, the index stays with the track, and     *)
(* with songs at hand to append a track is never the last one.             *)
(***************************************************************************)
THEOREM PartyAlwaysGoesOn == PartySpec => []PartyGoesOn
<1>1. PartyInv => PartyGoesOn
  <2> SUFFICES ASSUME PartyInv PROVE PartyGoesOn
    OBVIOUS
  <2>1. PartyTypeOK /\ NeverRunsDry /\ StartsTheFirst
    BY DEF PartyInv, PartyTypes
  <2>2. IndexFollowsTrack
    BY DEF PartyInv, IndexAtTrack, IndexFollowsTrack
  <2> QED
    BY <2>1, <2>2 DEF PartyGoesOn
<1> QED
  BY <1>1, PartyStarts, PartyStays, PTL DEF PartySpec
=============================================================================
