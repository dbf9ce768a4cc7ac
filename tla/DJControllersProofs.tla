-------------------------- MODULE DJControllersProofs --------------------------
(***************************************************************************)
(* Proofs about DJControllers.tla.                                         *)
(*                                                                         *)
(* The pairs (PairsAlwaysMatch).  Until an answer is late, nobody but the  *)
(* device that is asked at this moment has yet to answer, and only as long *)
(* as the scan waits for it (AnswersAwaited).  A device that is known by   *)
(* its name is not listened to, so that no input is taken for an answer.   *)
(*                                                                         *)
(* The LEDs (LedsAlwaysLit).  LedsLit is inductive, given the pairs.       *)
(*                                                                         *)
(* The keys (KeysAlwaysHandledOnce).  No two controllers have the same     *)
(* port (NoTwins), as a port that can be opened is that of none, and the   *)
(* one that was asked is free until it answers (AskedIsFree).  So an input *)
(* is queued at most once, and KeysCounted counts it as long as it is in a *)
(* queue.                                                                  *)
(*                                                                         *)
(* The scans (ControllersAlwaysFound).  Unless a device came or left since *)
(* the last scan began, each that was asked so far has a controller or has *)
(* yet to answer (AskedSoFar), and a scan asks all of them.  A controller  *)
(* is on the list as long as its device is there (PluggedAreListed), and   *)
(* as long as devices only come, or only leave, the counts tell of it      *)
(* (CountedSince).                                                         *)
(***************************************************************************)
EXTENDS DJControllers, FiniteSetTheorems, SequenceTheorems, TLAPS

-----------------------------------------------------------------------------
(* The devices and the controllers so far, and the types. *)
Known == DOMAIN kinds
Found == DOMAIN controllers
Windows == {"PlayerWindow", "ClassroomWindow"}

Ports(devices) == [in : devices, out : Nat \cup {Single}]
Events(cs) == [type : {"input"}, from : cs, input : Inputs] \cup [type : {"unplugged"}, from : cs]
Askings(devices, found) ==
  [phase : {"asking"}, ins : SUBSET devices, numIn : Nat, numOut : Nat, asked : Nat, out : Nat,
   waiting : BOOLEAN, evt : Nat, found : found]
Calls == [window : Windows, input : Inputs]
Scans(devices, cs) == [phase : {"starting", "idle"}] \cup Askings(devices, Seq(cs))

TypeOK ==
  /\ exclusive \in BOOLEAN /\ opened \in BOOLEAN /\ greeted \in BOOLEAN /\ fault \in BOOLEAN
  /\ kinds \in Seq({"single", "dual"})
  /\ plugged \subseteq Known /\ answers \subseteq Known /\ since \subseteq {"came", "left"}
  /\ scan \in Scans(Known, Found) /\ lastIn \in Nat /\ lastOut \in Nat
  /\ controllers \in Seq(Ports(Known))
  /\ detected \in Seq(Found) /\ connected \in Seq(Found) /\ heard \subseteq Found
  /\ inbox \in Seq(Events(Found)) /\ calls \in Seq(Calls)
  /\ told \in Nat /\ lit \subseteq Int
  /\ windows \in [Windows -> [tempo : Int, volume : Int, row : Int, started : Nat]]
  /\ bounds \in Bounds /\ late \in Nat /\ events \in Nat /\ unplugs \in Nat

Asking == scan.phase = "asking"

-----------------------------------------------------------------------------
(* The pairs. *)
ListensToDuals == Asking => \A device \in scan.ins : ~KnownByName(device)

AnswersAwaited ==
  /\ ~Asking => answers = {}
  /\ Asking =>
       /\ scan.evt \in 0..1 /\ (scan.evt = 1 => scan.waiting) /\ (scan.waiting => scan.asked > 0)
       /\ answers \subseteq {scan.out}
       /\ ~scan.waiting \/ scan.evt = 1 => answers = {}

PairInvariant == ListensToDuals /\ (late = 0 => AnswersAwaited) /\ PairsMatch

(* The LEDs. *)
LedInvariant == (greeted \/ told > 0 => opened) /\ LedsLit

(* The keys. *)
InputsIn(queue) == {i \in DOMAIN queue : queue[i].type = "input"}
SinglesAreSingle == \A c \in Found : ~IsDual(c) => KnownByName(controllers[c].in)
NoTwins == \A c, d \in Found : controllers[c].in = controllers[d].in => c = d
AskedIsFree == Asking => (scan.waiting /\ scan.evt = 0 => \A c \in Found : controllers[c].out # scan.out)
KeysCounted ==
  windows["PlayerWindow"].started + windows["ClassroomWindow"].started
    + Len(calls) + Cardinality(InputsIn(inbox)) <= events
KeyInvariant == SinglesAreSingle /\ (exclusive /\ late = 0 => NoTwins /\ AskedIsFree /\ KeysCounted)

(* The scans. *)
Covered(device) == \E c \in Found : controllers[c].in = device
UnpluggedAreGone ==
  \A e \in ToSet(inbox) : e.type = "unplugged" => controllers[e.from].in \notin plugged
PluggedAreListed ==
  \A c \in Found : controllers[c].in \in plugged =>
    c \in ToSet(detected) \/ (Asking /\ c \in ToSet(scan.found))
CountedSince(count) ==
  /\ since = {} => NumIn = count
  /\ since = {"came"} => NumIn > count
  /\ since = {"left"} => NumIn < count
AskedSoFar ==
  /\ scan.numOut = NumOut /\ scan.asked <= scan.numOut
  /\ \A device \in plugged : Covered(device) \/ (~KnownByName(device) /\ device \in scan.ins)
  /\ \A n \in 1..scan.asked, device \in plugged :
       InOrder(DualsOf(plugged))[n] = device => Covered(device) \/ device \in answers
FoundInvariant ==
  /\ UnpluggedAreGone /\ PluggedAreListed
  /\ scan.phase = "idle" => CountedSince(lastIn)
  /\ Asking => CountedSince(scan.numIn)
  /\ late = 0 /\ since = {} =>
       /\ Asking => AskedSoFar
       /\ scan.phase = "idle" => \A device \in plugged : Covered(device)

-----------------------------------------------------------------------------
(* Lists. *)

(* Each of the numbers is at one place: as many are less than it as places are before. *)
LEMMA InOrderElements ==
  ASSUME NEW S \in SUBSET Int, IsFiniteSet(S)
  PROVE  /\ InOrder(S) \in Seq(S) /\ Len(InOrder(S)) = Cardinality(S) /\ Cardinality(S) \in Nat
         /\ \A i, j \in 1..Cardinality(S) : InOrder(S)[i] = InOrder(S)[j] => i = j
         /\ \A m \in S : \E i \in 1..Cardinality(S) : InOrder(S)[i] = m
<1> DEFINE n == Cardinality(S)
           Below(m) == {k \in S : k < m}
           rank == [m \in S |-> Cardinality(Below(m)) + 1]
<1>1. n \in Nat
  BY FS_CardinalityType
<1>2. ASSUME NEW m \in S
      PROVE  Cardinality(Below(m)) \in 0..(n - 1)
  <2>1. Below(m) \in SUBSET S /\ Below(m) # S
    OBVIOUS
  <2> HIDE DEF Below
  <2>2. IsFiniteSet(Below(m)) /\ Cardinality(Below(m)) <= n /\ Cardinality(Below(m)) # n
    BY <2>1, FS_Subset
  <2>3. Cardinality(Below(m)) \in Nat
    BY <2>2, FS_CardinalityType
  <2> QED
    BY <1>1, <2>2, <2>3
<1>3. ASSUME NEW k \in S, NEW m \in S, k < m
      PROVE  Cardinality(Below(k)) < Cardinality(Below(m))
  <2> k \in Int /\ m \in Int /\ \A l \in S : l \in Int
    OBVIOUS
  <2>0. \A l \in S : l < k => l < m
    BY <1>3
  <2>1. Below(k) \in SUBSET Below(m) /\ Below(m) \in SUBSET S
    BY <2>0
  <2>2. k \in Below(m) /\ k \notin Below(k)
    BY <1>3
  <2> HIDE DEF Below
  <2>3. IsFiniteSet(Below(m))
    BY <2>1, FS_Subset
  <2>4. Cardinality(Below(k)) <= Cardinality(Below(m)) /\ Cardinality(Below(k)) # Cardinality(Below(m))
    BY <2>1, <2>2, <2>3, FS_Subset
  <2> QED
    BY <1>2, <2>4
<1>4. rank \in [S -> 1..n]
  BY <1>1, <1>2
<1>5. \A k, m \in S : rank[k] = rank[m] => k = m
  <2> SUFFICES ASSUME NEW k \in S, NEW m \in S, rank[k] = rank[m], k # m PROVE FALSE
    OBVIOUS
  <2> k \in Int /\ m \in Int
    OBVIOUS
  <2>1. Cardinality(Below(k)) = Cardinality(Below(m))
    BY <1>2
  <2> HIDE DEF Below, rank
  <2>2. ~(k < m) /\ ~(m < k)
    BY <1>2, <1>3, <2>1
  <2> QED
    BY <2>2
<1>6. rank \in Injection(S, 1..n)
  BY <1>4, <1>5 DEF Injection, IsInjective
<1>7. IsFiniteSet(1..n) /\ Cardinality(1..n) = n
  BY <1>1, FS_Interval
<1>8. rank \in Surjection(S, 1..n)
  BY <1>6, <1>7, FS_Injection
<1>9. \A i \in 1..n : \E m \in S : rank[m] = i
  BY <1>8 DEF Surjection
<1>10. ASSUME NEW i \in 1..n
       PROVE  InOrder(S)[i] \in S /\ rank[InOrder(S)[i]] = i
  <2>1. PICK m \in S : rank[m] = i
    BY <1>9
  <2>2. Cardinality(Below(m)) = i - 1
    BY <1>2, <2>1
  <2>3. InOrder(S)[i] = CHOOSE k \in S : Cardinality(Below(k)) = i - 1
    BY DEF InOrder
  <2>4. InOrder(S)[i] \in S /\ Cardinality(Below(InOrder(S)[i])) = i - 1
    BY <2>2, <2>3
  <2> QED
    BY <1>1, <2>4
<1>11. InOrder(S) = [i \in 1..n |-> InOrder(S)[i]]
  <2> DEFINE f(i) == CHOOSE m \in S : Cardinality(Below(m)) = i - 1
  <2>1. InOrder(S) = [i \in 1..n |-> f(i)]
    BY DEF InOrder
  <2> HIDE DEF f
  <2> QED
    BY <2>1
<1> HIDE DEF n, rank, Below
<1>12. InOrder(S) \in Seq(S) /\ Len(InOrder(S)) = n
  BY <1>1, <1>10, <1>11
<1>13. ASSUME NEW i \in 1..n, NEW j \in 1..n, InOrder(S)[i] = InOrder(S)[j]
       PROVE  i = j
  BY <1>10, <1>13
<1>14. ASSUME NEW m \in S
       PROVE  \E i \in 1..n : InOrder(S)[i] = m
  <2>1. rank[m] \in 1..n
    BY <1>4
  <2>2. InOrder(S)[rank[m]] = m
    BY <1>5, <1>10, <2>1
  <2> QED
    BY <2>1, <2>2
<1> QED
  BY <1>1, <1>12, <1>13, <1>14 DEF n

IsJoined(u, s, t) ==
  /\ Len(u) = Len(s) + Len(t)
  /\ \A i \in 1..Len(s) + Len(t) : u[i] = IF i <= Len(s) THEN s[i] ELSE t[i - Len(s)]

LEMMA Joins ==
  ASSUME NEW S, NEW s \in Seq(S), NEW t \in Seq(S)
  PROVE  s \o t \in Seq(S) /\ IsJoined(s \o t, s, t)
<1>1. s \o t \in Seq(S)
  BY ConcatProperties
<1>2. Len(s \o t) = Len(s) + Len(t)
  BY ConcatProperties
<1>3. \A i \in 1..Len(s) + Len(t) : (s \o t)[i] = IF i <= Len(s) THEN s[i] ELSE t[i - Len(s)]
  BY ConcatProperties
<1> QED
  BY <1>1, <1>2, <1>3 DEF IsJoined

LEMMA ToSetElements ==
  ASSUME NEW S, NEW s \in Seq(S)
  PROVE  ToSet(s) \subseteq S /\ \A x : x \in ToSet(s) <=> \E i \in 1..Len(s) : s[i] = x
BY DEF ToSet

(* What is taken off a list is on it no more than before, and all else still is. *)
LEMMA WithoutElements ==
  ASSUME NEW S, NEW list \in Seq(S), NEW c
  PROVE  /\ Without(list, c) \in Seq(S)
         /\ ToSet(Without(list, c)) \subseteq ToSet(list)
         /\ ToSet(list) \subseteq ToSet(Without(list, c)) \cup {c}
<1>1. CASE c \notin ToSet(list)
  BY <1>1 DEF Without
<1> \A x : x \in ToSet(list) <=> \E i \in 1..Len(list) : list[i] = x
  BY ToSetElements
<1>2. CASE c \in ToSet(list)
  <2> DEFINE k == CHOOSE i \in DOMAIN list : list[i] = c
             left == SubSeq(list, 1, k - 1)
             right == SubSeq(list, k + 1, Len(list))
  <2>1. k \in 1..Len(list) /\ list[k] = c
    BY <1>2 DEF ToSet
  <2>2. Without(list, c) = left \o right
    BY <1>2 DEF Without, RemoveAt
  <2> HIDE DEF k
  <2> Len(list) \in Nat /\ k \in Int
    BY <2>1
  <2>3. left \in Seq(S) /\ Len(left) = k - 1 /\ \A j \in 1..(k - 1) : left[j] = list[j]
    BY <2>1, SubSeqProperties
  <2>4. right \in Seq(S) /\ Len(right) = Len(list) - k /\ \A j \in 1..(Len(list) - k) : right[j] = list[k + j]
    BY <2>1, SubSeqProperties
  <2> HIDE DEF left, right
  <2>50. left \in Seq(S) /\ right \in Seq(S)
    BY <2>3, <2>4
  <2>51. PICK joined : joined = left \o right
    OBVIOUS
  <2>52. left \o right \in Seq(S) /\ IsJoined(left \o right, left, right)
    BY <2>50, Joins
  <2>53. joined \in Seq(S) /\ IsJoined(joined, left, right)
    BY ONLY <2>51, <2>52, Zenon
  <2>5. /\ joined = left \o right /\ Len(joined) = (k - 1) + (Len(list) - k)
        /\ \A j \in 1..(k - 1) + (Len(list) - k) :
             joined[j] = IF j <= k - 1 THEN left[j] ELSE right[j - (k - 1)]
    BY <2>3, <2>4, <2>51, <2>53, Zenon DEF IsJoined
  <2>6. ASSUME NEW j \in 1..(Len(list) - 1)
        PROVE  joined[j] = IF j < k THEN list[j] ELSE list[j + 1]
    <3>0. j \in 1..(k - 1) + (Len(list) - k)
      BY <2>1
    <3>1. CASE j < k
      BY <2>1, <2>3, <2>5, <3>0, <3>1
    <3>2. CASE ~(j < k)
      <4>1. j - (k - 1) \in 1..(Len(list) - k) /\ k + (j - (k - 1)) = j + 1
        BY <2>1, <3>2
      <4>2. right[j - (k - 1)] = list[j + 1]
        BY <2>4, <4>1
      <4>3. ~(j <= k - 1)
        BY <3>2
      <4> QED
        BY <2>5, <3>0, <3>2, <4>2, <4>3
    <3> QED
      BY <3>1, <3>2
  <2> joined \in Seq(S)
    BY <2>53
  <2> \A x : x \in ToSet(joined) <=> \E i \in 1..Len(joined) : joined[i] = x
    BY ToSetElements
  <2>7. Len(joined) = Len(list) - 1
    BY <2>1, <2>5
  <2>8. ASSUME NEW i \in 1..Len(list), i # k
        PROVE  list[i] \in ToSet(joined)
    <3>1. CASE i < k
      <4>1. i \in 1..(Len(list) - 1)
        BY <2>1, <3>1
      <4> QED
        BY <2>6, <2>7, <3>1, <4>1
    <3>2. CASE i > k
      <4>1. i - 1 \in 1..(Len(list) - 1) /\ ~(i - 1 < k) /\ (i - 1) + 1 = i
        BY <2>1, <3>2
      <4>2. joined[i - 1] = list[i]
        BY <2>6, <4>1
      <4> QED
        BY <2>7, <4>1, <4>2
    <3> QED
      BY <2>1, <2>8, <3>1, <3>2
  <2>9. ASSUME NEW x \in ToSet(joined)
        PROVE  x \in ToSet(list)
    <3>1. PICK j \in 1..(Len(list) - 1) : joined[j] = x
      BY <2>7
    <3>2. j \in 1..Len(list) /\ j + 1 \in 1..Len(list)
      BY <2>1
    <3> QED
      BY <2>6, <3>1, <3>2
  <2>10. \A x \in ToSet(list) : x \in ToSet(joined) \cup {c}
    BY <2>1, <2>8
  <2> QED
    BY <2>2, <2>5, <2>53, <2>9, <2>10
<1> QED
  BY <1>1, <1>2

LEMMA AppendedElements ==
  ASSUME NEW S, NEW s \in Seq(S), NEW x \in S
  PROVE  ToSet(Append(s, x)) = ToSet(s) \cup {x}
<1> DEFINE t == Append(s, x)
<1>1. /\ t \in Seq(S) /\ Len(t) = Len(s) + 1 /\ Len(s) \in Nat
      /\ t[Len(s) + 1] = x /\ \A i \in 1..Len(s) : t[i] = s[i]
  BY AppendProperties, LenProperties
<1> HIDE DEF t
<1>2. /\ \A y : y \in ToSet(s) <=> \E i \in 1..Len(s) : s[i] = y
      /\ \A y : y \in ToSet(t) <=> \E i \in 1..Len(t) : t[i] = y
  BY <1>1, ToSetElements
<1>3. /\ \A i \in 1..Len(s) : i \in 1..Len(t)
      /\ Len(s) + 1 \in 1..Len(t)
      /\ \A i \in 1..Len(t) : i \in 1..Len(s) \/ i = Len(s) + 1
  BY <1>1
<1>4. ASSUME NEW y \in ToSet(t)
      PROVE  y \in ToSet(s) \cup {x}
  BY <1>1, <1>2, <1>3, <1>4
<1>5. ASSUME NEW y \in ToSet(s) \cup {x}
      PROVE  y \in ToSet(t)
  BY <1>1, <1>2, <1>3, <1>5
<1> QED
  BY <1>4, <1>5 DEF t

LEMMA JoinedElements ==
  ASSUME NEW S, NEW s \in Seq(S), NEW t \in Seq(S)
  PROVE  /\ s \o t \in Seq(S) /\ Len(s \o t) = Len(s) + Len(t)
         /\ ToSet(s \o t) = ToSet(s) \cup ToSet(t)
<1>0. PICK u : u = s \o t
  OBVIOUS
<1>1. u \in Seq(S) /\ IsJoined(u, s, t)
  BY <1>0, Joins
<1> USE DEF IsJoined
<1>2. /\ \A x : x \in ToSet(s) <=> \E i \in 1..Len(s) : s[i] = x
      /\ \A x : x \in ToSet(t) <=> \E i \in 1..Len(t) : t[i] = x
      /\ \A x : x \in ToSet(u) <=> \E i \in 1..Len(u) : u[i] = x
  BY <1>1, ToSetElements
<1>3. ASSUME NEW i \in 1..Len(t)
      PROVE  t[i] \in ToSet(u)
  <2>1. Len(s) + i \in 1..Len(s) + Len(t) /\ ~(Len(s) + i <= Len(s)) /\ (Len(s) + i) - Len(s) = i
    OBVIOUS
  <2> QED
    BY <1>1, <1>2, <2>1
<1>4. ASSUME NEW i \in 1..Len(s)
      PROVE  s[i] \in ToSet(u)
  BY <1>1, <1>2
<1>5. ASSUME NEW i \in 1..Len(u)
      PROVE  u[i] \in ToSet(s) \cup ToSet(t)
  <2>1. CASE i <= Len(s)
    BY <1>1, <1>2, <2>1
  <2>2. CASE ~(i <= Len(s))
    <3>1. i - Len(s) \in 1..Len(t)
      BY <1>1, <2>2
    <3> QED
      BY <1>1, <1>2, <2>2, <3>1
  <2> QED
    BY <2>1, <2>2
<1>6. \A x \in ToSet(u) : x \in ToSet(s) \cup ToSet(t)
  BY <1>2, <1>5
<1>7. \A x \in ToSet(s) \cup ToSet(t) : x \in ToSet(u)
  BY <1>2, <1>3, <1>4
<1>8. Len(u) = Len(s) + Len(t)
  BY <1>1
<1> QED
  BY <1>0, <1>1, <1>6, <1>7, <1>8

-----------------------------------------------------------------------------
(* The types: what is known only grows. *)

LEMMA SeqGrows == ASSUME NEW A, NEW B, A \subseteq B PROVE Seq(A) \subseteq Seq(B)
BY SeqMonotonic

LEMMA ScansGrow ==
  ASSUME NEW A, NEW B, A \subseteq B, NEW C, NEW D, C \subseteq D
  PROVE  Scans(A, C) \subseteq Scans(B, D)
<1>1. Seq(C) \subseteq Seq(D) /\ SUBSET A \subseteq SUBSET B
  BY SeqGrows
<1> QED
  BY <1>1 DEF Scans, Askings

LEMMA ScanFinds ==
  ASSUME NEW A, NEW F, NEW G, NEW x \in Askings(A, F), NEW found \in G
  PROVE  [x EXCEPT !.found = found, !.evt = @ + 1] \in Askings(A, G)
<1>1. [x EXCEPT !.found = found] \in Askings(A, G) /\ x.evt + 1 \in Nat
  BY DEF Askings
<1>2. \A y \in Askings(A, G), n \in Nat : [y EXCEPT !.evt = n] \in Askings(A, G)
  BY DEF Askings
<1>3. [[x EXCEPT !.found = found] EXCEPT !.evt = x.evt + 1] = [x EXCEPT !.found = found, !.evt = x.evt + 1]
  OBVIOUS
<1> QED
  BY <1>1, <1>2, <1>3

LEMMA ScanAsks ==
  ASSUME NEW A, NEW F, NEW x \in Askings(A, F), NEW n \in Nat, NEW device \in Nat, NEW waiting \in BOOLEAN
  PROVE  /\ [x EXCEPT !.asked = n, !.out = device, !.waiting = waiting] \in Askings(A, F)
         /\ [x EXCEPT !.waiting = waiting, !.evt = n] \in Askings(A, F)
         /\ [x EXCEPT !.waiting = waiting] \in Askings(A, F)
<1>1. \A y \in Askings(A, F) : [y EXCEPT !.asked = n] \in Askings(A, F)
  BY DEF Askings
<1>2. \A y \in Askings(A, F) : [y EXCEPT !.out = device] \in Askings(A, F)
  BY DEF Askings
<1>3. \A y \in Askings(A, F) : [y EXCEPT !.waiting = waiting] \in Askings(A, F)
  BY DEF Askings
<1>4. \A y \in Askings(A, F) : [y EXCEPT !.evt = n] \in Askings(A, F)
  BY DEF Askings
<1>5. /\ [[[x EXCEPT !.asked = n] EXCEPT !.out = device] EXCEPT !.waiting = waiting]
           = [x EXCEPT !.asked = n, !.out = device, !.waiting = waiting]
      /\ [[x EXCEPT !.waiting = waiting] EXCEPT !.evt = n] = [x EXCEPT !.waiting = waiting, !.evt = n]
  OBVIOUS
<1> QED
  BY <1>1, <1>2, <1>3, <1>4, <1>5

LEMMA EventsGrow ==
  ASSUME NEW C, NEW D, C \subseteq D
  PROVE  Seq(Events(C)) \subseteq Seq(Events(D))
<1>1. Events(C) \subseteq Events(D)
  BY DEF Events
<1> QED
  BY <1>1, SeqGrows

LEMMA PortsGrow ==
  ASSUME NEW A, NEW B, A \subseteq B
  PROVE  Seq(Ports(A)) \subseteq Seq(Ports(B))
<1>1. Ports(A) \subseteq Ports(B)
  BY DEF Ports
<1> QED
  BY <1>1, SeqGrows

LEMMA FoundType ==
  ASSUME TypeOK
  PROVE  /\ Found = 1..Len(controllers) /\ Len(controllers) \in Nat /\ Found \subseteq Nat
         /\ Known = 1..Len(kinds) /\ Len(kinds) \in Nat /\ Known \subseteq Nat
         /\ IsFiniteSet(plugged) /\ NumIn \in Nat /\ NumOut \in Nat
         /\ \A c \in Found : controllers[c] \in Ports(Known) /\ controllers[c].in \in Known
         /\ \A c \in Found : controllers[c].out \in Nat \cup {Single}
<1>1. Known = 1..Len(kinds) /\ Len(kinds) \in Nat /\ Found = 1..Len(controllers) /\ Len(controllers) \in Nat
  BY DEF TypeOK, Known, Found
<1>2. IsFiniteSet(Known)
  BY <1>1, FS_Interval
<1>3. plugged \in SUBSET Known /\ DualsOf(plugged) \in SUBSET Known
  BY DEF TypeOK, DualsOf
<1>4. IsFiniteSet(plugged) /\ IsFiniteSet(DualsOf(plugged))
  BY <1>2, <1>3, FS_Subset
<1>5. NumIn \in Nat /\ NumOut \in Nat
  BY <1>4, FS_CardinalityType DEF NumIn, NumOut
<1>6. \A c \in Found : controllers[c] \in Ports(Known)
  BY <1>1 DEF TypeOK
<1> QED
  BY <1>1, <1>4, <1>5, <1>6 DEF Ports

LEMMA DualsAreFinite ==
  ASSUME TypeOK
  PROVE  DualsOf(plugged) \in SUBSET Int /\ IsFiniteSet(DualsOf(plugged))
<1>1. plugged \subseteq Known /\ Known \subseteq Nat /\ IsFiniteSet(plugged)
  BY FoundType DEF TypeOK
<1>2. DualsOf(plugged) \subseteq plugged
  BY DEF DualsOf
<1>3. IsFiniteSet(DualsOf(plugged))
  BY <1>1, <1>2, FS_Subset
<1>4. \A device \in DualsOf(plugged) : device \in Nat
  BY ONLY <1>1, <1>2
<1>5. \A device \in DualsOf(plugged) : device \in Int
  BY ONLY <1>4
<1> QED
  BY <1>3, <1>5

LEMMA CountsAre ==
  ASSUME TypeOK
  PROVE  /\ windows["PlayerWindow"].started \in Nat /\ windows["ClassroomWindow"].started \in Nat
         /\ Len(calls) \in Nat
<1>1. windows \in [Windows -> [tempo : Int, volume : Int, row : Int, started : Nat]]
  BY DEF TypeOK
<1>2. "PlayerWindow" \in Windows /\ "ClassroomWindow" \in Windows
  BY DEF Windows
<1>3. \A w \in Windows : windows[w].started \in Nat
  BY <1>1
<1>4. calls \in Seq(Calls)
  BY DEF TypeOK
<1> QED
  BY <1>2, <1>3, <1>4

LEMMA PlugInTypes ==
  ASSUME TypeOK, NEW kind \in {"single", "dual"}, PlugIn(kind)
  PROVE  TypeOK'
<1>1. kinds' \in Seq({"single", "dual"}) /\ Len(kinds') = Len(kinds) + 1 /\ Known' = 1..Len(kinds) + 1
  BY DEF TypeOK, PlugIn, Known
<1>2. Known = 1..Len(kinds) /\ Len(kinds) \in Nat
  BY FoundType
<1>3. Known \subseteq Known' /\ Len(kinds') \in Known'
  BY <1>1, <1>2
<1>4. /\ controllers' \in Seq(Ports(Known')) /\ Found' = Found /\ scan' \in Scans(Known', Found')
      /\ plugged' \subseteq Known' /\ answers' \subseteq Known'
  <2>1. controllers' = controllers /\ scan' = scan /\ answers' = answers /\ plugged' = plugged \cup {Len(kinds')}
    BY DEF PlugIn, scanning, lists
  <2>2. Found' = Found
    BY <2>1 DEF Found
  <2> QED
    BY <1>3, <2>1, <2>2, PortsGrow, ScansGrow DEF TypeOK
<1>5. since' \subseteq {"came", "left"}
  BY DEF TypeOK, PlugIn
<1> QED
  BY <1>1, <1>4, <1>5 DEF TypeOK, PlugIn, scanning, lists, main, counters

LEMMA UnplugTypes ==
  ASSUME TypeOK, NEW device \in plugged, Unplug(device)
  PROVE  TypeOK'
<1>1. Known' = Known /\ Found' = Found
  BY DEF Unplug, lists, Known, Found
<1> QED
  BY <1>1 DEF TypeOK, Unplug, lists, main

(* The scan, its controllers and nothing else that depends on them. *)
LEMMA ReceivedTypes ==
  ASSUME TypeOK, NEW device \in Known, NEW message, Received(device, message),
         kinds' = kinds, detected' = detected, connected' = connected, heard' = heard
  PROVE  /\ controllers' \in Seq(Ports(Known')) /\ Known' = Known /\ Found \subseteq Found'
         /\ scan' \in Scans(Known', Found')
         /\ detected' \in Seq(Found') /\ connected' \in Seq(Found') /\ heard' \subseteq Found'
         /\ fault' \in BOOLEAN
<1>0. Known' = Known
  BY DEF Known
<1>1. fault' \in BOOLEAN
  BY DEF Received
<1>2. CASE UNCHANGED <<controllers, scan>>
  BY <1>0, <1>1, <1>2 DEF TypeOK, Found
<1>3. CASE /\ controllers' = Append(controllers, [in |-> device, out |-> scan.out])
           /\ scan.phase = "asking"
           /\ scan' = [scan EXCEPT !.found = Append(@, Len(controllers')), !.evt = @ + 1]
  <2>1. scan \in Askings(Known, Seq(Found)) /\ scan.found \in Seq(Found)
    BY <1>3 DEF TypeOK, Scans, Askings
  <2>2. [in |-> device, out |-> scan.out] \in Ports(Known)
    BY <2>1 DEF Ports, Askings
  <2>3. /\ controllers' \in Seq(Ports(Known)) /\ Len(controllers') = Len(controllers) + 1
        /\ Found' = 1..Len(controllers) + 1
    BY <1>3, <2>2 DEF TypeOK, Found
  <2>4. Found \subseteq Found' /\ Len(controllers') \in Found'
    BY <2>3, FoundType
  <2>5. scan.found \in Seq(Found') /\ detected \in Seq(Found') /\ connected \in Seq(Found')
    BY <2>1, <2>4, SeqGrows DEF TypeOK
  <2> DEFINE found == Append(scan.found, Len(controllers'))
  <2>6. found \in Seq(Found')
    BY <2>4, <2>5
  <2> HIDE DEF found
  <2>7. scan' = [scan EXCEPT !.found = found, !.evt = @ + 1]
    BY <1>3 DEF found
  <2>8. scan' \in Askings(Known, Seq(Found'))
    BY ONLY <2>1, <2>6, <2>7, ScanFinds
  <2> QED
    BY <1>0, <1>1, <2>3, <2>4, <2>5, <2>8 DEF Scans, TypeOK
<1> QED
  BY <1>2, <1>3 DEF Received

LEMMA AnswerTypes ==
  ASSUME TypeOK, NEW device \in plugged, Answer(device)
  PROVE  TypeOK'
<1>1. device \in Known /\ kinds' = kinds /\ detected' = detected /\ connected' = connected /\ heard' = heard
  BY DEF TypeOK, Answer, ports
<1>2. Received(device, "answer")
  BY DEF Answer
<1>3. /\ controllers' \in Seq(Ports(Known')) /\ Known' = Known /\ Found \subseteq Found'
      /\ scan' \in Scans(Known', Found')
      /\ detected' \in Seq(Found') /\ connected' \in Seq(Found') /\ heard' \subseteq Found'
      /\ fault' \in BOOLEAN
  BY <1>1, <1>2, ReceivedTypes
<1>4. inbox' \in Seq(Events(Found'))
  BY <1>3, EventsGrow DEF TypeOK, Answer
<1> QED
  BY <1>3, <1>4 DEF TypeOK, Answer, ports, main, counters

LEMMA InputTypes ==
  ASSUME TypeOK, NEW device \in plugged, NEW input \in Inputs, Input(device, input)
  PROVE  TypeOK'
<1> DEFINE cs == {c \in DOMAIN controllers : controllers[c].in = device /\ (IsDual(c) => c \in heard)}
           of == InOrder(cs)
           new == [i \in DOMAIN of |-> [type |-> "input", from |-> of[i], input |-> input]]
<1>1. device \in Known /\ kinds' = kinds /\ detected' = detected /\ connected' = connected /\ heard' = heard
  BY DEF TypeOK, Input, ports
<1>2. Received(device, "input") /\ inbox' = inbox \o new /\ events' \in Nat
  BY DEF TypeOK, Input
<1>3. /\ controllers' \in Seq(Ports(Known')) /\ Known' = Known /\ Found \subseteq Found'
      /\ scan' \in Scans(Known', Found')
      /\ detected' \in Seq(Found') /\ connected' \in Seq(Found') /\ heard' \subseteq Found'
      /\ fault' \in BOOLEAN
  BY <1>1, <1>2, ReceivedTypes
<1>4. cs \in SUBSET Found /\ IsFiniteSet(cs) /\ cs \in SUBSET Int
  <2>1. cs \in SUBSET Found
    BY DEF Found
  <2> HIDE DEF cs
  <2>2. IsFiniteSet(Found) /\ Found \subseteq Int
    <3>1. Found = 1..Len(controllers) /\ Len(controllers) \in Int /\ 1 \in Int
      BY FoundType
    <3>2. IsFiniteSet(1..Len(controllers))
      BY <3>1, FS_Interval
    <3> QED
      BY <3>1, <3>2
  <2> QED
    BY <2>1, <2>2, FS_Subset
<1> HIDE DEF cs
<1>51. of \in Seq(cs)
  BY <1>4, InOrderElements
<1> HIDE DEF of
<1>5. \A i \in DOMAIN of : of[i] \in Found
  <2>1. \A i \in DOMAIN of : of[i] \in cs
    BY <1>51
  <2> QED
    BY <1>4, <2>1
<1>6. \A i \in DOMAIN of : new[i] \in Events(Found)
  BY <1>5 DEF Events
<1>7. new \in Seq(Events(Found))
  BY <1>51, <1>6
<1> HIDE DEF new
<1>8. inbox' \in Seq(Events(Found))
  BY <1>2, <1>7, Joins DEF TypeOK
<1>9. inbox' \in Seq(Events(Found'))
  BY <1>3, <1>8, EventsGrow
<1> QED
  BY <1>2, <1>3, <1>9 DEF TypeOK, Input, ports, main

LEMMA ReportTypes ==
  ASSUME TypeOK, NEW c \in DOMAIN controllers, Report(c)
  PROVE  TypeOK'
<1>1. Known' = Known /\ Found' = Found
  BY DEF Report, ports, Known, Found
<1>2. [type |-> "unplugged", from |-> c] \in Events(Found)
  BY DEF Events, Found
<1>31. inbox \in Seq(Events(Found))
  BY DEF TypeOK
<1>32. inbox' = inbox \/ inbox' = Append(inbox, [type |-> "unplugged", from |-> c])
  BY DEF Report
<1>3. inbox' \in Seq(Events(Found))
  BY <1>2, <1>31, <1>32
<1>4. detected' \in Seq(Found)
  BY WithoutElements DEF TypeOK, Report
<1> QED
  BY <1>1, <1>3, <1>4 DEF TypeOK, Report, ports, scanning, main, counters

-----------------------------------------------------------------------------
LEMMA StartScanTypes ==
  ASSUME TypeOK, StartScan
  PROVE  TypeOK'
<1> DEFINE ins == {device \in plugged : CanOpenIn(device)}
           singles == {device \in ins : KnownByName(device)}
           new == [i \in 1..Cardinality(singles) |-> [in |-> InOrder(singles)[i], out |-> Single]]
           cs == [i \in DOMAIN new |-> Len(controllers) + i]
           start == [phase |-> "asking", ins |-> Remaining(ins, singles), numIn |-> NumIn, numOut |-> NumOut,
                     asked |-> 0, out |-> 0, waiting |-> FALSE, evt |-> 0, found |-> <<>>]
<1>1. controllers' = controllers \o new /\ AddAll(cs) /\ scan' = start
  BY DEF StartScan
<1>2. singles \in SUBSET plugged /\ Remaining(ins, singles) \subseteq Known
  BY DEF TypeOK, Remaining
<1> HIDE DEF ins, singles
<1>3. IsFiniteSet(singles) /\ singles \subseteq Known /\ singles \in SUBSET Int
  <2>1. plugged \subseteq Known /\ Known \subseteq Nat /\ IsFiniteSet(plugged)
    BY FoundType DEF TypeOK
  <2>2. singles \subseteq plugged
    BY <1>2
  <2>3. IsFiniteSet(singles)
    BY <2>1, <2>2, FS_Subset
  <2> QED
    BY <2>1, <2>2, <2>3
<1>4. /\ Cardinality(singles) \in Nat
      /\ \A i \in 1..Cardinality(singles) : InOrder(singles)[i] \in singles
  BY <1>3, InOrderElements, ElementOfSeq
<1>5. new \in Seq(Ports(Known)) /\ Len(new) = Cardinality(singles) /\ DOMAIN new = 1..Cardinality(singles)
  <2>1. \A i \in 1..Cardinality(singles) : new[i] \in Ports(Known)
    BY <1>3, <1>4 DEF Ports
  <2> QED
    BY <1>4, <2>1
<1> HIDE DEF new
<1>6. controllers' \in Seq(Ports(Known)) /\ Len(controllers') = Len(controllers) + Len(new)
  BY <1>1, <1>5, Joins DEF TypeOK, IsJoined
<1>71. Known' = Known
  BY DEF Known, StartScan
<1>72. Found' = 1..Len(controllers')
  BY <1>6 DEF Found
<1>7. Found' = 1..Len(controllers) + Len(new) /\ Found \subseteq Found' /\ Known' = Known
  BY <1>4, <1>5, <1>6, <1>71, <1>72, FoundType
<1>8. cs \in Seq(Found') /\ Len(cs) = Len(new)
  <2>1. \A i \in 1..Len(new) : Len(controllers) + i \in Found'
    BY <1>4, <1>5, <1>7, FoundType
  <2> QED
    BY <1>4, <1>5, <2>1
<1> HIDE DEF cs
<1>9. detected \in Seq(Found') /\ connected \in Seq(Found')
  BY <1>7, SeqGrows DEF TypeOK
<1>10. /\ detected' \in Seq(Found') /\ connected' \in Seq(Found') /\ heard' \subseteq Found'
       /\ told' \in Nat
  <2>1. detected' \in Seq(Found') /\ connected' \in Seq(Found')
    BY <1>1, <1>8, <1>9, Joins DEF AddAll, NewControllersDetected
  <2>21. ToSet(cs) \subseteq Found' /\ heard \subseteq Found
    BY <1>8, ToSetElements DEF TypeOK
  <2>22. heard' = heard \cup ToSet(cs)
    BY <1>1 DEF AddAll, NewControllersDetected
  <2>2. heard' \subseteq Found'
    BY <1>7, <2>21, <2>22
  <2>3. told' \in Nat
    BY <1>1, <1>8 DEF AddAll, NewControllersDetected, TypeOK
  <2> QED
    BY <2>1, <2>2, <2>3
<1>11. start \in Askings(Known, Seq(Found'))
  <2>1. <<>> \in Seq(Found')
    OBVIOUS
  <2> QED
    BY <1>2, <2>1, FoundType DEF Askings
<1>12. inbox' \in Seq(Events(Found'))
  BY <1>7, EventsGrow DEF TypeOK, StartScan
<1> QED
  BY <1>1, <1>6, <1>7, <1>10, <1>11, <1>12 DEF TypeOK, StartScan, counters, Scans

LEMMA AskTypes ==
  ASSUME TypeOK, Ask
  PROVE  TypeOK'
<1> DEFINE outs == InOrder(DualsOf(plugged))
           device == IF scan.asked < Len(outs) THEN outs[scan.asked + 1] ELSE 0
           open == device # 0 /\ CanOpenOut(device)
<1>1. /\ scan.phase = "asking"
      /\ scan' = [scan EXCEPT !.asked = @ + 1, !.out = IF open THEN device ELSE 0, !.waiting = Waits(open)]
      /\ answers' = IF open THEN answers \cup {device} ELSE answers
  BY DEF Ask
<1>2. scan \in Askings(Known, Seq(Found)) /\ scan.asked \in Nat
  BY <1>1 DEF TypeOK, Scans, Askings
<1>3. DualsOf(plugged) \subseteq Known /\ IsFiniteSet(DualsOf(plugged)) /\ DualsOf(plugged) \in SUBSET Int
  BY FoundType, FS_Subset DEF TypeOK, DualsOf
<1>4. device \in Nat /\ (device # 0 => device \in Known)
  <2>1. outs \in Seq(DualsOf(plugged))
    BY <1>3, InOrderElements
  <2> HIDE DEF outs
  <2>2. scan.asked < Len(outs) => outs[scan.asked + 1] \in DualsOf(plugged)
    BY <1>2, <2>1
  <2> QED
    BY <1>3, <2>2, FoundType
<1>5. open \in BOOLEAN
  OBVIOUS
<1> HIDE DEF open, device
<1>6. scan' \in Askings(Known, Seq(Found)) /\ answers' \subseteq Known
  <2>1. (IF open THEN device ELSE 0) \in Nat /\ Waits(open) \in BOOLEAN /\ scan.asked + 1 \in Nat
    BY <1>2, <1>4, <1>5 DEF Waits
  <2>2. scan' \in Askings(Known, Seq(Found))
    BY <1>1, <1>2, <2>1, ScanAsks
  <2>3. answers' \subseteq Known
    BY <1>1, <1>4 DEF TypeOK, open
  <2> QED
    BY <2>2, <2>3
<1>7. Known' = Known /\ Found' = Found
  BY DEF Ask, ports, lists, Known, Found
<1> QED
  BY <1>6, <1>7 DEF TypeOK, Ask, ports, lists, main, counters, Scans

LEMMA WaitTypes ==
  ASSUME TypeOK, Acquire \/ Timeout
  PROVE  TypeOK'
<1>1. scan \in Askings(Known, Seq(Found)) /\ scan.evt \in Nat
  BY DEF TypeOK, Scans, Askings, Acquire, Timeout
<1>2. CASE Acquire
  <2>1. scan.evt - 1 \in Nat
    BY <1>1, <1>2 DEF Acquire
  <2>2. scan' \in Askings(Known, Seq(Found))
    BY <1>1, <1>2, <2>1, ScanAsks DEF Acquire
  <2>3. Known' = Known /\ Found' = Found
    BY <1>2 DEF Acquire, ports, lists, Known, Found
  <2> QED
    BY <1>2, <2>2, <2>3 DEF TypeOK, Acquire, ports, lists, main, counters, Scans
<1>3. CASE Timeout
  <2>1. scan' \in Askings(Known, Seq(Found))
    BY <1>1, <1>3, ScanAsks DEF Timeout
  <2>2. Known' = Known /\ Found' = Found
    BY <1>3 DEF Timeout, ports, lists, Known, Found
  <2>3. late' \in Nat
    BY <1>3 DEF TypeOK, Timeout
  <2> QED
    BY <1>3, <2>1, <2>2, <2>3 DEF TypeOK, Timeout, ports, lists, main, Scans
<1> QED
  BY <1>2, <1>3

LEMMA FinishScanTypes ==
  ASSUME TypeOK, FinishScan
  PROVE  TypeOK'
<1>1. scan \in Askings(Known, Seq(Found)) /\ scan.found \in Seq(Found) /\ scan.numIn \in Nat
  BY DEF TypeOK, Scans, Askings, FinishScan
<1>2. Known' = Known /\ Found' = Found
  BY DEF FinishScan, ports, Known, Found
<1>3. AddAll(scan.found)
  BY DEF FinishScan
<1>4. detected' \in Seq(Found) /\ connected' \in Seq(Found)
  BY <1>1, <1>3, Joins DEF AddAll, NewControllersDetected, TypeOK
<1>5. heard' \subseteq Found /\ told' \in Nat
  <2>1. ToSet(scan.found) \subseteq Found
    BY <1>1, ToSetElements
  <2> QED
    BY <1>1, <1>3, <2>1 DEF AddAll, NewControllersDetected, TypeOK
<1>6. scan' \in Scans(Known, Found)
  BY DEF FinishScan, Idle, Scans
<1>7. lastIn' \in Nat /\ lastOut' \in Nat
  BY <1>1, FoundType DEF FinishScan, CountedIn
<1> QED
  BY <1>2, <1>4, <1>5, <1>6, <1>7 DEF TypeOK, FinishScan, ports, counters

LEMMA HandleUnpluggedTypes ==
  ASSUME TypeOK, HandleUnplugged
  PROVE  TypeOK'
<1>1. Known' = Known /\ Found' = Found
  BY DEF HandleUnplugged, ports, Known, Found
<1>2. inbox' \in Seq(Events(Found))
  BY DEF HandleUnplugged, TypeOK
<1>3. /\ detected' \in Seq(Found) /\ connected' \in Seq(Found) /\ heard' \subseteq Found
      /\ fault' \in BOOLEAN
  <2>1. CASE UNCHANGED <<detected, connected, heard, fault>>
    BY <2>1 DEF TypeOK
  <2>2. CASE Disconnected(Head(inbox).from)
    <3>1. PICK c, removed : /\ detected' = Without(detected, c) /\ connected' = Without(connected, removed)
                            /\ heard' = heard \ {removed} /\ fault' \in BOOLEAN
      BY <2>2 DEF Disconnected, ControllerDisconnected
    <3> QED
      BY <3>1, WithoutElements DEF TypeOK
  <2> QED
    BY <2>1, <2>2 DEF HandleUnplugged
<1> QED
  BY <1>1, <1>2, <1>3 DEF TypeOK, HandleUnplugged, ports, scanning, main, counters

(* A call is for one of the windows, if for any. *)
LEMMA HandlersType ==
  ASSUME TypeOK, NEW context
  PROVE  Handlers(context) = <<>> \/ (Handlers(context) = <<context>> /\ context \in Windows)
BY DEF Handlers, TypeOK

LEMMA DispatchedCalls ==
  ASSUME TypeOK, Dispatch
  PROVE  /\ inbox # <<>> /\ Head(inbox) \in Events(Found) /\ Head(inbox).type = "input"
         /\ inbox' = Tail(inbox)
         /\ calls' = calls \/ \E call \in Calls : calls' = Append(calls, call)
<1>1. inbox # <<>> /\ Head(inbox) \in Events(Found) /\ Head(inbox).type = "input" /\ inbox' = Tail(inbox)
  BY DEF TypeOK, Dispatch
<1>2. Head(inbox).input \in Inputs
  BY <1>1 DEF Events
<1> DEFINE input == Head(inbox).input
           new(handlers) == [i \in DOMAIN handlers |-> [window |-> handlers[i], input |-> input]]
<1>3. CASE UNCHANGED calls
  BY <1>1, <1>3
<1>4. ASSUME NEW chain \in Focused, calls' = calls \o new(Handlers(CurrentContext(chain)))
      PROVE  calls' = calls \/ \E call \in Calls : calls' = Append(calls, call)
  <2> DEFINE context == CurrentContext(chain)
  <2> HIDE DEF context, input
  <2>0. calls' = calls \o new(Handlers(context))
    BY <1>4 DEF context, input
  <2>1. CASE Handlers(context) = <<>>
    <3>1. new(Handlers(context)) = <<>>
      BY <2>1
    <3>2. calls \o <<>> = calls
      BY DEF TypeOK
    <3> QED
      BY <2>0, <3>1, <3>2
  <2>2. CASE Handlers(context) = <<context>> /\ context \in Windows
    <3> DEFINE call == [window |-> context, input |-> input]
    <3>1. call \in Calls
      BY <1>2, <2>2 DEF input, Calls
    <3>2. new(<<context>>) = <<call>>
      OBVIOUS
    <3>3. calls \o <<call>> = Append(calls, call)
      BY <3>1, AppendIsConcat DEF TypeOK
    <3> QED
      BY <2>0, <2>2, <3>1, <3>2, <3>3
  <2> QED
    BY <2>1, <2>2, HandlersType
<1> QED
  BY <1>1, <1>3, <1>4 DEF Dispatch

LEMMA DispatchTypes ==
  ASSUME TypeOK, Dispatch
  PROVE  TypeOK'
<1>1. Known' = Known /\ Found' = Found
  BY DEF Dispatch, ports, lists, Known, Found
<1>2. inbox' \in Seq(Events(Found))
  <2>1. inbox \in Seq(Events(Found)) /\ inbox # <<>> /\ inbox' = Tail(inbox)
    BY DispatchedCalls DEF TypeOK
  <2> QED
    BY <2>1
<1>3. calls' \in Seq(Calls)
  <2>1. calls \in Seq(Calls)
    BY DEF TypeOK
  <2>2. calls' = calls \/ \E call \in Calls : calls' = Append(calls, call)
    BY DispatchedCalls
  <2>3. \A call \in Calls :
          Append(calls, call) \in Seq(Calls)
    BY <2>1, AppendProperties
  <2> QED
    BY <2>1, <2>2, <2>3, Zenon
<1> QED
  BY <1>1, <1>2, <1>3 DEF TypeOK, Dispatch, ports, scanning, lists, counters

LEMMA SetLedsTypes ==
  ASSUME TypeOK, SetLeds
  PROVE  TypeOK'
<1>1. Known' = Known /\ Found' = Found
  BY DEF SetLeds, ports, lists, Known, Found
<1>2. ToSet(connected) \subseteq Found
  BY ToSetElements DEF TypeOK
<1>3. lit' \subseteq Int /\ fault' \in BOOLEAN
  <2> DEFINE outs == {controllers[c].out : c \in ToSet(connected)} \ {Single}
  <2>1. outs \subseteq Nat
    BY <1>2, FoundType
  <2>2. lit' = lit \cup (outs \ {0}) /\ fault' = (0 \in outs)
    BY DEF SetLeds, LightUp, LedTargets
  <2> HIDE DEF outs
  <2> QED
    BY <2>1, <2>2 DEF TypeOK
<1> QED
  BY <1>1, <1>3 DEF TypeOK, SetLeds, ports, scanning, lists, counters

WindowStates == [tempo : Int, volume : Int, row : Int, started : Nat]

LEMMA ClampedType == ASSUME NEW row \in Int PROVE Clamped(row) \in Int
BY DJControllersAssumption DEF Clamped

LEMMA PercentType ==
  ASSUME NEW value \in Int
  PROVE  Percent(value) \in Int /\ PercentFromMiddle(value) \in Int
BY DEF Percent, PercentFromMiddle

(* A window starts something at most once for each call. *)
LEMMA HandledType ==
  ASSUME NEW w \in WindowStates, NEW input \in Inputs
  PROVE  /\ HandledByPlayer(w, input) \in WindowStates
         /\ HandledByPlayer(w, input).started \in {w.started, w.started + 1}
         /\ HandledByClassroom(w, input) \in WindowStates
         /\ HandledByClassroom(w, input).started \in {w.started, w.started + 1}
<1>1. /\ w.row \in Int /\ w.started \in Nat /\ input.value \in Int
      /\ input.name \in {"play", "enter", "pitch", "volume", "browse", "jog"}
  BY DJControllersAssumption DEF WindowStates
<1>2. /\ Percent(input.value) \in Int /\ PercentFromMiddle(input.value) \in Int
      /\ Clamped(w.row - input.value) \in Int /\ Clamped(w.row + input.value) \in Int
  BY <1>1, PercentType, ClampedType
<1>3. \A n \in Int : /\ [w EXCEPT !.tempo = n] \in WindowStates /\ [w EXCEPT !.tempo = n].started = w.started
                     /\ [w EXCEPT !.volume = n] \in WindowStates /\ [w EXCEPT !.volume = n].started = w.started
                     /\ [w EXCEPT !.row = n] \in WindowStates /\ [w EXCEPT !.row = n].started = w.started
  BY DEF WindowStates
<1>4. /\ [w EXCEPT !.started = @ + 1] \in WindowStates
      /\ [w EXCEPT !.started = @ + 1].started = w.started + 1
  BY DEF WindowStates
<1>5. Percent(input.value) - 50 \in Int
  BY <1>2
<1>6. /\ HandledByPlayer(w, input) \in WindowStates
      /\ HandledByPlayer(w, input).started \in {w.started, w.started + 1}
  BY <1>1, <1>2, <1>3, <1>4, <1>5 DEF HandledByPlayer
<1>7. /\ HandledByClassroom(w, input) \in WindowStates
      /\ HandledByClassroom(w, input).started \in {w.started, w.started + 1}
  BY <1>1, <1>2, <1>3, <1>4, <1>5 DEF HandledByClassroom
<1> QED
  BY <1>6, <1>7

LEMMA HandleCallTypes ==
  ASSUME TypeOK, HandleCall
  PROVE  /\ TypeOK'
         /\ windows'["PlayerWindow"].started + windows'["ClassroomWindow"].started
              <= windows["PlayerWindow"].started + windows["ClassroomWindow"].started + 1
<1> DEFINE call == Head(calls)
           new == IF call.window = "PlayerWindow" THEN HandledByPlayer(windows[call.window], call.input)
                                                  ELSE HandledByClassroom(windows[call.window], call.input)
<1>1. call \in Calls /\ calls' \in Seq(Calls)
  <2>1. calls \in Seq(Calls) /\ calls # <<>> /\ calls' = Tail(calls)
    BY DEF HandleCall, TypeOK
  <2> QED
    BY <2>1
<1>2. windows' = [windows EXCEPT ![call.window] = new] /\ windows \in [Windows -> WindowStates]
  BY DEF HandleCall, TypeOK, WindowStates
<1> HIDE DEF call
<1>3. call.window \in Windows /\ windows[call.window] \in WindowStates /\ call.input \in Inputs
  BY <1>1, <1>2 DEF Calls
<1>4. new \in WindowStates /\ new.started \in {windows[call.window].started, windows[call.window].started + 1}
  BY <1>3, HandledType
<1> HIDE DEF new
<1>5. windows' \in [Windows -> WindowStates]
  BY <1>2, <1>3, <1>4
<1>6. Known' = Known /\ Found' = Found
  BY DEF HandleCall, ports, lists, Known, Found
<1>7. TypeOK'
  BY <1>1, <1>5, <1>6 DEF TypeOK, HandleCall, ports, scanning, lists, counters, WindowStates
<1>8. windows["PlayerWindow"].started \in Nat /\ windows["ClassroomWindow"].started \in Nat
  BY <1>2 DEF Windows, WindowStates
<1>9. CASE call.window = "PlayerWindow"
  <2>1. windows'["PlayerWindow"] = new /\ windows'["ClassroomWindow"] = windows["ClassroomWindow"]
    BY <1>2, <1>9 DEF Windows
  <2> QED
    BY <1>4, <1>7, <1>8, <1>9, <2>1
<1>10. CASE call.window = "ClassroomWindow"
  <2>1. windows'["ClassroomWindow"] = new /\ windows'["PlayerWindow"] = windows["PlayerWindow"]
    BY <1>2, <1>10 DEF Windows
  <2> QED
    BY <1>4, <1>7, <1>8, <1>10, <2>1
<1> QED
  BY <1>3, <1>9, <1>10 DEF Windows

LEMMA InitTypes == Init => TypeOK
<1> SUFFICES ASSUME Init PROVE TypeOK
  OBVIOUS
<1>1. Window \in WindowStates
  BY DEF Window, WindowStates
<1>2. windows \in [Windows -> WindowStates]
  BY <1>1 DEF Init, Windows
<1>3. scan \in Scans(Known, Found)
  BY DEF Init, Scans
<1>4. /\ kinds \in Seq({"single", "dual"}) /\ controllers \in Seq(Ports(Known)) /\ detected \in Seq(Found)
      /\ connected \in Seq(Found) /\ inbox \in Seq(Events(Found)) /\ calls \in Seq(Calls)
  BY DEF Init
<1> QED
  BY <1>2, <1>3, <1>4 DEF TypeOK, Init, WindowStates

LEMMA TypeStep ==
  ASSUME TypeOK, [Next]_vars
  PROVE  TypeOK'
<1>1. CASE UNCHANGED vars
  <2>1. Known' = Known /\ Found' = Found
    BY <1>1 DEF vars, ports, lists, Known, Found
  <2> QED
    BY <1>1, <2>1 DEF vars, ports, scanning, lists, main, counters, TypeOK
<1>2. CASE Devices
  BY <1>2, PlugInTypes, UnplugTypes, AnswerTypes, InputTypes, ReportTypes DEF Devices
<1>3. CASE Scan
  BY <1>3, StartScanTypes, AskTypes, WaitTypes, FinishScanTypes DEF Scan
<1>4. CASE OpenWindows
  <2>1. Known' = Known /\ Found' = Found
    BY <1>4 DEF OpenWindows, ports, lists, Known, Found
  <2> QED
    BY <1>4, <2>1 DEF OpenWindows, ports, scanning, lists, counters, TypeOK
<1> QED
  BY <1>1, <1>2, <1>3, <1>4, HandleUnpluggedTypes, DispatchTypes, SetLedsTypes, HandleCallTypes DEF Next, Main

-----------------------------------------------------------------------------
(* The pairs. *)

LEMMA AskingType ==
  ASSUME TypeOK, Asking
  PROVE  /\ scan \in Askings(Known, Seq(Found))
         /\ scan.ins \subseteq Known /\ scan.numIn \in Nat /\ scan.numOut \in Nat /\ scan.asked \in Nat
         /\ scan.out \in Nat /\ scan.waiting \in BOOLEAN /\ scan.evt \in Nat /\ scan.found \in Seq(Found)
<1>1. scan \in Askings(Known, Seq(Found))
  BY DEF TypeOK, Asking, Scans
<1> QED
  BY <1>1 DEF Askings

(* What a device is does not change. *)
LEMMA KindsKept ==
  ASSUME TypeOK, [Next]_vars
  PROVE  \A device \in Known : kinds'[device] = kinds[device]
<1>1. ASSUME NEW kind \in {"single", "dual"}, PlugIn(kind)
      PROVE  \A device \in Known : kinds'[device] = kinds[device]
  <2>1. kinds' = Append(kinds, kind) /\ kinds \in Seq({"single", "dual"})
    BY <1>1 DEF PlugIn, TypeOK
  <2> QED
    BY <2>1 DEF Known
<1>2. CASE UNCHANGED kinds
  BY <1>2
<1>3. CASE Devices
  BY <1>1, <1>2, <1>3 DEF Devices, Unplug, Answer, Input, Report, ports
<1>4. CASE Scan
  BY <1>2, <1>4 DEF Scan, StartScan, Ask, Acquire, Timeout, FinishScan, ports
<1>5. CASE HandleUnplugged \/ Dispatch \/ Main \/ UNCHANGED vars
  BY <1>2, <1>5 DEF HandleUnplugged, Dispatch, Main, OpenWindows, SetLeds, HandleCall, ports, vars
<1> QED
  BY <1>3, <1>4, <1>5 DEF Next

(* Nothing but a scan or an answer concerns the pairs. *)
LEMMA PairKept ==
  ASSUME TypeOK, PairInvariant, UNCHANGED <<scan, controllers, late>>, answers' \subseteq answers,
         \A device \in Known : kinds'[device] = kinds[device]
  PROVE  PairInvariant'
<1>1. ListensToDuals'
  BY AskingType DEF PairInvariant, ListensToDuals, Asking, KnownByName
<1>2. late' = 0 => AnswersAwaited'
  BY DEF PairInvariant, AnswersAwaited, Asking
<1>3. PairsMatch'
  BY DEF PairInvariant, PairsMatch, IsDual
<1> QED
  BY <1>1, <1>2, <1>3 DEF PairInvariant

LEMMA EvtReleased ==
  ASSUME NEW A, NEW F, NEW x \in Askings(A, F), NEW found, NEW n
  PROVE  LET y == [x EXCEPT !.found = found, !.evt = n]
         IN  /\ y.phase = "asking" /\ y.ins = x.ins /\ y.numIn = x.numIn /\ y.numOut = x.numOut
             /\ y.asked = x.asked /\ y.out = x.out /\ y.waiting = x.waiting /\ y.evt = n /\ y.found = found
BY DEF Askings

(* What a message that is taken for an answer does. *)
IsPaired(device) ==
  /\ Asking /\ device \in scan.ins /\ scan.asked > 0
  /\ controllers' = Append(controllers, [in |-> device, out |-> scan.out])
  /\ scan' = [scan EXCEPT !.found = Append(@, Len(controllers')), !.evt = @ + 1]

LEMMA PairedEffect ==
  ASSUME TypeOK, NEW device, IsPaired(device)
  PROVE  /\ Asking' /\ scan'.ins = scan.ins /\ scan'.numIn = scan.numIn /\ scan'.numOut = scan.numOut
         /\ scan'.asked = scan.asked /\ scan'.out = scan.out /\ scan'.waiting = scan.waiting
         /\ scan'.evt = scan.evt + 1
         /\ ToSet(scan'.found) = ToSet(scan.found) \cup {Len(controllers) + 1}
         /\ Found' = Found \cup {Len(controllers) + 1} /\ Len(controllers) + 1 \notin Found
         /\ \A c \in Found : controllers'[c] = controllers[c]
         /\ controllers'[Len(controllers) + 1].in = device
         /\ controllers'[Len(controllers) + 1].out = scan.out
         /\ scan.out # Single
<1>1. /\ scan \in Askings(Known, Seq(Found)) /\ scan.found \in Seq(Found) /\ device \in Known /\ scan.out \in Nat
      /\ scan.evt \in Nat
  BY AskingType DEF IsPaired
<1> DEFINE pair == [in |-> device, out |-> scan.out]
           found == Append(scan.found, Len(controllers'))
<1>2. pair \in Ports(Known)
  BY <1>1 DEF Ports
<1>21. pair.in = device /\ pair.out = scan.out
  OBVIOUS
<1> HIDE DEF pair
<1>3. controllers \in Seq(Ports(Known)) /\ controllers' = Append(controllers, pair)
  BY DEF TypeOK, IsPaired, pair
<1>4. /\ Len(controllers') = Len(controllers) + 1 /\ Found' = Found \cup {Len(controllers) + 1}
      /\ Len(controllers) + 1 \notin Found
      /\ \A c \in Found : controllers'[c] = controllers[c]
      /\ controllers'[Len(controllers) + 1] = pair
  BY <1>2, <1>3 DEF Found
<1>5. scan' = [scan EXCEPT !.found = found, !.evt = scan.evt + 1]
  BY DEF IsPaired
<1>6. ToSet(found) = ToSet(scan.found) \cup {Len(controllers) + 1}
  <2>1. /\ found = Append(scan.found, Len(controllers) + 1) /\ scan.found \in Seq(Nat)
        /\ Len(controllers) + 1 \in Nat
    BY <1>1, <1>3, <1>4, SeqGrows, FoundType
  <2> QED
    BY <2>1, AppendedElements
<1> HIDE DEF found
<1>7. /\ scan'.phase = "asking" /\ scan'.ins = scan.ins /\ scan'.numIn = scan.numIn /\ scan'.numOut = scan.numOut
      /\ scan'.asked = scan.asked /\ scan'.out = scan.out /\ scan'.waiting = scan.waiting
      /\ scan'.evt = scan.evt + 1 /\ scan'.found = found
  BY <1>1, <1>5, EvtReleased
<1> QED
  BY <1>1, <1>21, <1>4, <1>6, <1>7 DEF Asking, Single

(* An input is never taken for an answer; an answer is of the device that is asked. *)
LEMMA InputNotPaired ==
  ASSUME TypeOK, PairInvariant, NEW device, Received(device, "input")
  PROVE  UNCHANGED <<controllers, scan>>
BY DEF Received, IsAnswer, PairInvariant, ListensToDuals, Asking

LEMMA AnswerPairs ==
  ASSUME NEW device, Received(device, "answer")
  PROVE  UNCHANGED <<controllers, scan>> \/ IsPaired(device)
BY DEF Received, IsPaired, Asking

LEMMA PairAnswer ==
  ASSUME TypeOK, PairInvariant, NEW device \in plugged, Answer(device)
  PROVE  PairInvariant'
<1>1. device \in answers /\ answers' = answers \ {device} /\ kinds' = kinds /\ late' = late
  BY DEF Answer, ports, counters
<1>2. CASE UNCHANGED <<controllers, scan>>
  BY <1>1, <1>2, PairKept
<1>3. CASE IsPaired(device)
  <2>1. /\ Asking' /\ scan'.ins = scan.ins /\ scan'.asked = scan.asked /\ scan'.out = scan.out
        /\ scan'.waiting = scan.waiting /\ scan'.evt = scan.evt + 1
        /\ Found' = Found \cup {Len(controllers) + 1}
        /\ \A c \in Found : controllers'[c] = controllers[c]
        /\ controllers'[Len(controllers) + 1].in = device
        /\ controllers'[Len(controllers) + 1].out = scan.out
    BY <1>3, PairedEffect
  <2>2. Asking /\ scan.evt \in Nat /\ scan.waiting \in BOOLEAN
    BY <1>3, AskingType DEF IsPaired
  <2>3. ListensToDuals'
    BY <1>1, <2>1, <2>2 DEF PairInvariant, ListensToDuals, KnownByName
  <2>4. ASSUME late = 0
        PROVE  AnswersAwaited' /\ scan.out = device
    <3>1. scan.out = device /\ scan.evt = 0 /\ scan.waiting /\ answers' = {} /\ scan.asked > 0
      BY <1>1, <2>2, <2>4 DEF PairInvariant, AnswersAwaited
    <3> QED
      BY <2>1, <2>2, <3>1 DEF AnswersAwaited
  <2>5. PairsMatch'
    BY <1>1, <2>1, <2>4 DEF PairInvariant, PairsMatch, IsDual, Found
  <2> QED
    BY <1>1, <2>3, <2>4, <2>5 DEF PairInvariant
<1> QED
  BY <1>2, <1>3, AnswerPairs DEF Answer

(* What a scan begins with: each device that is known by its name and can be *)
(* opened becomes one new controller, and the ports of the others are kept.  *)
NewlyFound == Found' \ Found

StartedFound ==
  /\ Found \subseteq Found'
  /\ \A c \in Found : controllers'[c] = controllers[c]
  /\ \A c \in NewlyFound :
       /\ controllers'[c].out = Single /\ controllers'[c].in \in plugged
       /\ CanOpenIn(controllers'[c].in) /\ KnownByName(controllers'[c].in)
  /\ \A c, d \in NewlyFound : controllers'[c].in = controllers'[d].in => c = d
  /\ \A device \in plugged :
       CanOpenIn(device) /\ KnownByName(device) => \E c \in NewlyFound : controllers'[c].in = device

StartedLists ==
  /\ ToSet(detected') = ToSet(detected) \cup NewlyFound
  /\ ToSet(connected') = ToSet(connected) \cup NewlyFound
  /\ told' \in Nat /\ told' >= told /\ (~opened => told' = told)
  /\ opened /\ NewlyFound # {} => told' > 0

StartedScan ==
  /\ Asking' /\ scan'.asked = 0 /\ scan'.out = 0 /\ scan'.waiting = FALSE /\ scan'.evt = 0
  /\ scan'.numIn = NumIn /\ scan'.numOut = NumOut /\ ToSet(scan'.found) = {}
  /\ \A device : device \in scan'.ins <=> device \in plugged /\ CanOpenIn(device) /\ ~KnownByName(device)

LEMMA StartScanEffect ==
  ASSUME TypeOK, StartScan
  PROVE  StartedFound /\ StartedLists /\ StartedScan /\ ~Asking
<1> DEFINE ins == {device \in plugged : CanOpenIn(device)}
           singles == {device \in ins : KnownByName(device)}
           new == [i \in 1..Cardinality(singles) |-> [in |-> InOrder(singles)[i], out |-> Single]]
           cs == [i \in DOMAIN new |-> Len(controllers) + i]
           start == [phase |-> "asking", ins |-> Remaining(ins, singles), numIn |-> NumIn, numOut |-> NumOut,
                     asked |-> 0, out |-> 0, waiting |-> FALSE, evt |-> 0, found |-> <<>>]
<1>1. controllers' = controllers \o new /\ AddAll(cs) /\ scan' = start
  BY DEF StartScan
<1>2. singles \in SUBSET plugged
  OBVIOUS
<1>21. /\ \A device : device \in singles <=> device \in plugged /\ CanOpenIn(device) /\ KnownByName(device)
       /\ \A device : device \in Remaining(ins, singles) <=> device \in plugged /\ CanOpenIn(device) /\ ~KnownByName(device)
  BY DEF Remaining
<1>22. StartedScan
  <2>1. ToSet(<<>>) = {}
    BY DEF ToSet
  <2> HIDE DEF ins, singles
  <2> QED
    BY <1>1, <1>21, <2>1 DEF StartedScan, Asking
<1>23. ~Asking
  BY DEF StartScan, Asking
<1> HIDE DEF ins, singles, start
<1>3. IsFiniteSet(singles) /\ singles \subseteq Known /\ singles \in SUBSET Int
  <2>1. plugged \subseteq Known /\ Known \subseteq Nat /\ IsFiniteSet(plugged)
    BY FoundType DEF TypeOK
  <2>2. singles \subseteq plugged
    BY <1>2
  <2>3. IsFiniteSet(singles)
    BY <2>1, <2>2, FS_Subset
  <2> QED
    BY <2>1, <2>2, <2>3
<1> DEFINE n == Cardinality(singles)
           m == Len(controllers)
<1>4. /\ n \in Nat
      /\ \A i \in 1..n : InOrder(singles)[i] \in singles
      /\ \A i, j \in 1..n : InOrder(singles)[i] = InOrder(singles)[j] => i = j
      /\ \A device \in singles : \E i \in 1..n : InOrder(singles)[i] = device
  BY <1>3, InOrderElements, ElementOfSeq
<1>5. /\ Len(new) = n /\ DOMAIN new = 1..n
      /\ \A i \in 1..n : new[i].in = InOrder(singles)[i] /\ new[i].out = Single
  BY <1>4
<1>51. new \in Seq(Ports(Known))
  <2>1. \A i \in 1..n : new[i] \in Ports(Known)
    BY <1>3, <1>4 DEF Ports
  <2> QED
    BY <1>4, <2>1
<1> HIDE DEF new, n
<1>6. controllers' \in Seq(Ports(Known)) /\ IsJoined(controllers', controllers, new)
  BY <1>1, <1>51, Joins DEF TypeOK
<1>7. m \in Nat /\ Found = 1..m /\ Found' = 1..m + n
  BY <1>5, <1>6, FoundType DEF Found, IsJoined
<1>8. \A c \in Found : controllers'[c] = controllers[c]
  BY <1>4, <1>5, <1>6, <1>7 DEF IsJoined
<1> HIDE DEF m
<1>9. NewlyFound = {m + i : i \in 1..n}
  <2>1. \A c \in NewlyFound : c - m \in 1..n /\ c = m + (c - m)
    BY <1>4, <1>7 DEF NewlyFound
  <2>2. \A i \in 1..n : m + i \in NewlyFound
    BY <1>4, <1>7 DEF NewlyFound
  <2> QED
    BY <2>1, <2>2
<1>10. ASSUME NEW i \in 1..n
       PROVE  controllers'[m + i] = new[i]
  <2>1. m + i \in 1..m + n /\ ~(m + i <= m) /\ (m + i) - m = i
    BY <1>4, <1>7
  <2> QED
    BY <1>5, <1>6, <2>1 DEF IsJoined, m
<1>11. StartedFound
  <2>1. Found \subseteq Found'
    BY <1>4, <1>7
  <2>2. ASSUME NEW c \in NewlyFound
        PROVE  /\ controllers'[c].out = Single /\ controllers'[c].in \in plugged
               /\ CanOpenIn(controllers'[c].in) /\ KnownByName(controllers'[c].in)
    <3>1. PICK i \in 1..n : c = m + i
      BY <1>9
    <3>2. controllers'[c].out = Single /\ controllers'[c].in \in singles
      BY <1>4, <1>5, <1>10, <3>1
    <3> QED
      BY <1>21, <3>2
  <2>3. ASSUME NEW c \in NewlyFound, NEW d \in NewlyFound, controllers'[c].in = controllers'[d].in
        PROVE  c = d
    <3>1. PICK i \in 1..n : c = m + i
      BY <1>9
    <3>2. PICK j \in 1..n : d = m + j
      BY <1>9
    <3> QED
      BY <1>4, <1>5, <1>10, <2>3, <3>1, <3>2
  <2>4. ASSUME NEW device \in plugged, CanOpenIn(device), KnownByName(device)
        PROVE  \E c \in NewlyFound : controllers'[c].in = device
    <3>1. PICK i \in 1..n : InOrder(singles)[i] = device
      BY <1>4, <1>21, <2>4
    <3> QED
      BY <1>5, <1>9, <1>10, <3>1
  <2> QED
    BY <1>8, <2>1, <2>2, <2>3, <2>4 DEF StartedFound
<1>12. cs \in Seq(Nat) /\ Len(cs) = n /\ ToSet(cs) = NewlyFound
  <2>1. cs = [i \in 1..n |-> m + i]
    BY <1>5 DEF m
  <2> HIDE DEF cs
  <2>2. cs \in Seq(Nat) /\ Len(cs) = n
    BY <1>4, <1>7, <2>1
  <2>3. \A x : x \in ToSet(cs) <=> \E i \in 1..Len(cs) : cs[i] = x
    BY <2>2, ToSetElements
  <2> QED
    BY <1>9, <2>1, <2>2, <2>3
<1> HIDE DEF cs
<1>13. StartedLists
  <2>1. detected \in Seq(Nat) /\ connected \in Seq(Nat) /\ told \in Nat
    BY FoundType, SeqGrows DEF TypeOK
  <2>2. /\ detected' = detected \o cs /\ connected' = connected \o cs
        /\ told' = told + (IF opened THEN Len(cs) ELSE 0)
    BY <1>1 DEF AddAll, NewControllersDetected
  <2>3. ToSet(detected') = ToSet(detected) \cup NewlyFound /\ ToSet(connected') = ToSet(connected) \cup NewlyFound
    BY <1>12, <2>1, <2>2, JoinedElements
  <2>4. NewlyFound # {} => n > 0
    BY <1>4, <1>9
  <2> QED
    BY <1>4, <1>12, <2>1, <2>2, <2>3, <2>4 DEF StartedLists
<1> QED
  BY <1>11, <1>13, <1>22, <1>23

LEMMA PairStartScan ==
  ASSUME TypeOK, PairInvariant, StartScan
  PROVE  PairInvariant'
<1>1. StartedFound /\ StartedScan /\ ~Asking
  BY StartScanEffect
<1>2. kinds' = kinds /\ answers' = answers /\ late' = late
  BY DEF StartScan, counters
<1>3. ListensToDuals'
  BY <1>1, <1>2 DEF StartedScan, ListensToDuals, KnownByName
<1>4. late' = 0 => AnswersAwaited'
  BY <1>1, <1>2 DEF StartedScan, AnswersAwaited, PairInvariant
<1>5. PairsMatch'
  BY <1>1, <1>2 DEF StartedFound, NewlyFound, PairsMatch, PairInvariant, IsDual, Found
<1> QED
  BY <1>3, <1>4, <1>5 DEF PairInvariant

LEMMA ScanAsked ==
  ASSUME NEW A, NEW F, NEW x \in Askings(A, F), NEW n, NEW device, NEW waiting
  PROVE  LET y == [x EXCEPT !.asked = n, !.out = device, !.waiting = waiting]
             z == [x EXCEPT !.waiting = waiting, !.evt = n]
             w == [x EXCEPT !.waiting = waiting]
         IN  /\ y.phase = "asking" /\ y.ins = x.ins /\ y.numIn = x.numIn /\ y.numOut = x.numOut
             /\ y.asked = n /\ y.out = device /\ y.waiting = waiting /\ y.evt = x.evt /\ y.found = x.found
             /\ z.phase = "asking" /\ z.ins = x.ins /\ z.numIn = x.numIn /\ z.numOut = x.numOut
             /\ z.asked = x.asked /\ z.out = x.out /\ z.waiting = waiting /\ z.evt = n /\ z.found = x.found
             /\ w.phase = "asking" /\ w.ins = x.ins /\ w.numIn = x.numIn /\ w.numOut = x.numOut
             /\ w.asked = x.asked /\ w.out = x.out /\ w.waiting = waiting /\ w.evt = x.evt /\ w.found = x.found
BY DEF Askings

(* The next port: of a device that is there, if its turn comes. *)
AskedNext(device, open) ==
  /\ scan'.asked = scan.asked + 1 /\ scan'.waiting = open /\ open \in BOOLEAN
  /\ open = (device # 0 /\ CanOpenOut(device))
  /\ scan'.out = (IF open THEN device ELSE 0)
  /\ answers' = (IF open THEN answers \cup {device} ELSE answers)
  /\ device = (IF scan.asked < Cardinality(DualsOf(plugged)) THEN InOrder(DualsOf(plugged))[scan.asked + 1] ELSE 0)

LEMMA AskEffect ==
  ASSUME TypeOK, Ask
  PROVE  /\ Asking /\ ~scan.waiting /\ scan.asked < scan.numOut
         /\ Asking' /\ scan'.ins = scan.ins /\ scan'.numIn = scan.numIn /\ scan'.numOut = scan.numOut
         /\ scan'.evt = scan.evt /\ scan'.found = scan.found
         /\ \E device, open : AskedNext(device, open)
<1> DEFINE outs == InOrder(DualsOf(plugged))
           device == IF scan.asked < Len(outs) THEN outs[scan.asked + 1] ELSE 0
           open == device # 0 /\ CanOpenOut(device)
<1>1. /\ Asking /\ ~scan.waiting /\ scan.asked < scan.numOut
      /\ scan' = [scan EXCEPT !.asked = @ + 1, !.out = IF open THEN device ELSE 0, !.waiting = open]
      /\ answers' = IF open THEN answers \cup {device} ELSE answers
  BY DEF Ask, Asking, Waits
<1>2. DualsOf(plugged) \in SUBSET Int /\ IsFiniteSet(DualsOf(plugged))
  BY DualsAreFinite
<1>3. Len(outs) = Cardinality(DualsOf(plugged))
  BY <1>2, InOrderElements
<1>4. device = IF scan.asked < Cardinality(DualsOf(plugged)) THEN InOrder(DualsOf(plugged))[scan.asked + 1] ELSE 0
  BY <1>3
<1>5. open \in BOOLEAN /\ open = (device # 0 /\ CanOpenOut(device))
  OBVIOUS
<1> HIDE DEF device, open
<1>6. scan \in Askings(Known, Seq(Found))
  BY <1>1, AskingType
<1> DEFINE out == IF open THEN device ELSE 0
           next == scan.asked + 1
<1>61. scan' = [scan EXCEPT !.asked = next, !.out = out, !.waiting = open]
  BY <1>1
<1> HIDE DEF out, next
<1>7. /\ Asking' /\ scan'.ins = scan.ins /\ scan'.numIn = scan.numIn /\ scan'.numOut = scan.numOut
      /\ scan'.asked = next /\ scan'.out = out /\ scan'.waiting = open /\ scan'.evt = scan.evt
      /\ scan'.found = scan.found
  BY <1>6, <1>61, ScanAsked DEF Asking
<1>8. AskedNext(device, open)
  BY <1>1, <1>4, <1>5, <1>7 DEF AskedNext, out, next
<1> QED
  BY <1>1, <1>7, <1>8

LEMMA WaitEffect ==
  ASSUME TypeOK, Acquire \/ Timeout
  PROVE  /\ Asking /\ scan.waiting
         /\ Asking' /\ scan'.ins = scan.ins /\ scan'.numIn = scan.numIn /\ scan'.numOut = scan.numOut
         /\ scan'.asked = scan.asked /\ scan'.out = scan.out /\ scan'.waiting = FALSE
         /\ scan'.found = scan.found
         /\ \/ Acquire /\ scan.evt > 0 /\ scan'.evt = scan.evt - 1
            \/ Timeout /\ scan.evt = 0 /\ scan'.evt = scan.evt
<1>1. Asking /\ scan.waiting
  BY DEF Acquire, Timeout, Asking
<1>2. scan \in Askings(Known, Seq(Found))
  BY <1>1, AskingType
<1>3. CASE Acquire
  <2> DEFINE n == scan.evt - 1
  <2>1. scan' = [scan EXCEPT !.waiting = FALSE, !.evt = n]
    BY <1>3 DEF Acquire
  <2> HIDE DEF n
  <2>2. /\ Asking' /\ scan'.ins = scan.ins /\ scan'.numIn = scan.numIn /\ scan'.numOut = scan.numOut
        /\ scan'.asked = scan.asked /\ scan'.out = scan.out /\ scan'.waiting = FALSE /\ scan'.evt = n
        /\ scan'.found = scan.found
    BY <1>2, <2>1, ScanAsked DEF Asking
  <2>3. scan.evt > 0 /\ n = scan.evt - 1
    BY <1>3 DEF n, Acquire
  <2>4. Acquire /\ scan.evt > 0 /\ scan'.evt = scan.evt - 1
    BY <1>3, <2>2, <2>3
  <2> QED
    BY <1>1, <2>2, <2>4
<1>4. CASE Timeout
  <2>1. scan' = [scan EXCEPT !.waiting = FALSE]
    BY <1>4 DEF Timeout
  <2>2. /\ Asking' /\ scan'.ins = scan.ins /\ scan'.numIn = scan.numIn /\ scan'.numOut = scan.numOut
        /\ scan'.asked = scan.asked /\ scan'.out = scan.out /\ scan'.waiting = FALSE /\ scan'.evt = scan.evt
        /\ scan'.found = scan.found
    BY <1>2, <2>1, ScanAsked DEF Asking
  <2> QED
    BY <1>1, <1>4, <2>2 DEF Timeout
<1> QED
  BY <1>3, <1>4

LEMMA PairAsk ==
  ASSUME TypeOK, PairInvariant, Ask
  PROVE  PairInvariant'
<1>1. /\ Asking /\ ~scan.waiting /\ Asking' /\ scan'.ins = scan.ins /\ scan'.evt = scan.evt
  BY AskEffect
<1>2. PICK device, open : AskedNext(device, open)
  BY AskEffect
<1>3. kinds' = kinds /\ controllers' = controllers /\ late' = late
  BY DEF Ask, ports, lists, counters
<1>4. scan.asked \in Nat /\ scan.evt \in Nat
  BY <1>1, AskingType
<1>5. ListensToDuals' /\ PairsMatch'
  BY <1>1, <1>3 DEF PairInvariant, ListensToDuals, PairsMatch, KnownByName, IsDual
<1>6. late = 0 => AnswersAwaited'
  BY <1>1, <1>2, <1>4 DEF PairInvariant, AnswersAwaited, AskedNext
<1> QED
  BY <1>3, <1>5, <1>6 DEF PairInvariant

LEMMA PairWait ==
  ASSUME TypeOK, PairInvariant, Acquire \/ Timeout
  PROVE  PairInvariant'
<1>1. /\ Asking /\ scan.waiting /\ Asking' /\ scan'.ins = scan.ins
      /\ scan'.asked = scan.asked /\ scan'.out = scan.out /\ scan'.waiting = FALSE
      /\ \/ Acquire /\ scan.evt > 0 /\ scan'.evt = scan.evt - 1
         \/ Timeout /\ scan.evt = 0 /\ scan'.evt = scan.evt
  BY WaitEffect
<1>2. kinds' = kinds /\ controllers' = controllers /\ answers' = answers
  BY DEF Acquire, Timeout, ports, lists
<1>3. scan.evt \in Nat /\ late \in Nat
  BY <1>1, AskingType DEF TypeOK
<1>4. ListensToDuals'
  BY <1>1, <1>2 DEF PairInvariant, ListensToDuals, KnownByName
<1>5. ASSUME late' = 0
      PROVE  late = 0 /\ (Timeout => scan.out \notin answers)
  BY <1>3, <1>5, <1>1 DEF Acquire, Timeout, counters
<1>6. PairsMatch'
  BY <1>2, <1>5 DEF PairInvariant, PairsMatch, IsDual
<1>7. late' = 0 => AnswersAwaited'
  BY <1>1, <1>2, <1>3, <1>5 DEF PairInvariant, AnswersAwaited
<1> QED
  BY <1>4, <1>6, <1>7 DEF PairInvariant

LEMMA PairFinishScan ==
  ASSUME TypeOK, PairInvariant, FinishScan
  PROVE  PairInvariant'
<1>1. /\ Asking /\ ~scan.waiting /\ ~Asking' /\ kinds' = kinds /\ controllers' = controllers
      /\ late' = late /\ answers' = answers
  BY DEF FinishScan, Asking, Idle, ports, counters
<1> QED
  BY <1>1 DEF PairInvariant, ListensToDuals, AnswersAwaited, PairsMatch, IsDual

LEMMA PairStep ==
  ASSUME TypeOK, PairInvariant, [Next]_vars
  PROVE  PairInvariant'
<1>1. \A device \in Known : kinds'[device] = kinds[device]
  BY KindsKept
<1>2. CASE Scan
  BY <1>2, PairStartScan, PairAsk, PairWait, PairFinishScan DEF Scan
<1>3. ASSUME NEW device \in plugged, NEW input \in Inputs, Input(device, input)
      PROVE  PairInvariant'
  <2>1. UNCHANGED <<scan, controllers, late, answers>>
    BY <1>3, InputNotPaired DEF Input
  <2> QED
    BY <1>1, <2>1, PairKept
<1>4. CASE Devices
  <2>1. CASE \E kind \in {"single", "dual"} : PlugIn(kind)
    BY <1>1, <2>1, PairKept DEF PlugIn, scanning, lists, counters
  <2>2. CASE \E device \in plugged : Unplug(device)
    BY <1>1, <2>2, PairKept DEF Unplug, lists
  <2>3. CASE \E c \in DOMAIN controllers : Report(c)
    BY <1>1, <2>3, PairKept DEF Report, scanning, counters
  <2> QED
    BY <1>3, <1>4, <2>1, <2>2, <2>3, PairAnswer DEF Devices
<1>5. CASE HandleUnplugged \/ Dispatch \/ Main \/ UNCHANGED vars
  BY <1>1, <1>5, PairKept DEF HandleUnplugged, Dispatch, Main, OpenWindows, SetLeds, HandleCall,
     vars, scanning, lists, counters
<1> QED
  BY <1>2, <1>4, <1>5 DEF Next

LEMMA InitPairs == Init => PairInvariant
BY DEF Init, PairInvariant, ListensToDuals, AnswersAwaited, PairsMatch, Asking

(* The types of what is kept are right. *)
THEOREM TypeCorrect == Spec => []TypeOK
<1>1. TypeOK /\ [Next]_vars => TypeOK'
  BY TypeStep
<1> QED
  BY <1>1, InitTypes, PTL DEF Spec

(* The two ports of a controller are of one device, as long as no answer is  *)
(* late: MidiEnumerator::detectDualPortControllers() takes the OUT port that *)
(* was asked last for that of whoever answers.                               *)
THEOREM PairsAlwaysMatch == Spec => []PairsMatch
<1>1. PairInvariant /\ TypeOK /\ [Next]_vars => PairInvariant'
  BY PairStep
<1>2. PairInvariant => PairsMatch
  BY DEF PairInvariant
<1> QED
  BY <1>1, <1>2, InitPairs, TypeCorrect, PTL DEF Spec

-----------------------------------------------------------------------------
(* The LEDs: whoever is told of a controller is told once the windows are there. *)

LEMMA LedsKept ==
  ASSUME TypeOK, PairsMatch, LedInvariant, UNCHANGED <<told, greeted, late>>, opened => opened', lit' = lit,
         ToSet(connected') \subseteq ToSet(connected), Found \subseteq Found',
         \A c \in Found : controllers'[c] = controllers[c]
  PROVE  LedInvariant'
<1>1. ToSet(connected) \subseteq Found
  BY ToSetElements DEF TypeOK
<1>2. LedsLit'
  BY <1>1 DEF LedInvariant, LedsLit, IsDual
<1> QED
  BY <1>2 DEF LedInvariant

(* Where windows are told of what is new, it is not the turn of the LEDs yet. *)
LEMMA LedsToBeSet ==
  ASSUME TypeOK, LedInvariant, UNCHANGED <<opened, greeted, late, lit>>,
         told' \in Nat, told' >= told, ~opened => told' = told, NEW new,
         opened /\ new # {} => told' > 0, ToSet(connected') = ToSet(connected) \cup new,
         \A c \in Found : controllers'[c] = controllers[c]
  PROVE  LedInvariant'
<1>1. ToSet(connected) \subseteq Found /\ told \in Nat
  BY ToSetElements DEF TypeOK
<1>2. (greeted \/ told' > 0) => opened
  BY <1>1 DEF LedInvariant
<1>3. LedsLit'
  <2> SUFFICES ASSUME greeted, told' = 0, late = 0
               PROVE  \A c \in ToSet(connected') : IsDual(c)' => controllers'[c].in \in lit
    BY DEF LedsLit
  <2>1. told = 0 /\ new = {}
    BY <1>1, <1>2
  <2> QED
    BY <1>1, <2>1 DEF LedInvariant, LedsLit, IsDual
<1> QED
  BY <1>2, <1>3 DEF LedInvariant

LEMMA LedsSet ==
  ASSUME TypeOK, PairsMatch, LedInvariant, SetLeds
  PROVE  LedInvariant'
<1>1. ToSet(connected) \subseteq Found /\ told \in Nat
  BY ToSetElements DEF TypeOK
<1>2. opened /\ opened' = opened /\ late' = late /\ controllers' = controllers /\ connected' = connected
  BY DEF SetLeds, LedInvariant, lists, counters
<1> DEFINE outs == {controllers[c].out : c \in ToSet(connected)} \ {Single}
<1>3. lit' = lit \cup (outs \ {0})
  BY DEF SetLeds, LightUp, LedTargets
<1>4. ASSUME late = 0, NEW c \in ToSet(connected), IsDual(c)
      PROVE  controllers[c].in \in lit'
  <2>1. c \in Found /\ controllers[c].out = controllers[c].in
    BY <1>1, <1>4 DEF PairsMatch, Found
  <2>2. controllers[c].in \in Known /\ controllers[c].in # 0
    BY <2>1, FoundType
  <2>3. controllers[c].out \in outs
    BY <1>4 DEF IsDual
  <2> QED
    BY <1>3, <2>1, <2>2, <2>3
<1>5. LedsLit'
  BY <1>2, <1>4 DEF LedsLit, IsDual
<1> QED
  BY <1>2, <1>5 DEF LedInvariant

LEMMA LedStep ==
  ASSUME TypeOK, PairInvariant, LedInvariant, [Next]_vars
  PROVE  LedInvariant'
<1>0. PairsMatch
  BY DEF PairInvariant
<1>1. ASSUME NEW device \in plugged, Answer(device)
      PROVE  LedInvariant'
  <2>1. UNCHANGED <<told, greeted, late, opened, lit, connected>> /\ Received(device, "answer")
    BY <1>1 DEF Answer, main, counters
  <2>2. Found \subseteq Found' /\ \A c \in Found : controllers'[c] = controllers[c]
    BY <2>1, AnswerPairs, PairedEffect DEF Found
  <2> QED
    BY <1>0, <2>1, <2>2, LedsKept
<1>2. ASSUME NEW device \in plugged, NEW input \in Inputs, Input(device, input)
      PROVE  LedInvariant'
  <2>1. UNCHANGED <<told, greeted, late, opened, lit, connected, controllers>>
    BY <1>2, InputNotPaired DEF Input, main
  <2>2. Found' = Found
    BY <2>1 DEF Found
  <2> QED
    BY <1>0, <2>1, <2>2, LedsKept
<1>3. CASE StartScan
  <2>1. StartedFound /\ StartedLists
    BY <1>3, StartScanEffect
  <2>2. UNCHANGED <<opened, greeted, late, lit>>
    BY <1>3 DEF StartScan, counters
  <2> QED
    BY <2>1, <2>2, LedsToBeSet DEF StartedFound, StartedLists
<1>4. CASE FinishScan
  <2>1. /\ UNCHANGED <<opened, greeted, late, lit, controllers>>
        /\ connected' = connected \o scan.found /\ told' = told + (IF opened THEN Len(scan.found) ELSE 0)
    BY <1>4 DEF FinishScan, AddAll, NewControllersDetected, counters
  <2>2. connected \in Seq(Found) /\ scan.found \in Seq(Found) /\ told \in Nat
    BY <1>4, AskingType DEF TypeOK, FinishScan, Asking
  <2>3. ToSet(connected') = ToSet(connected) \cup ToSet(scan.found)
    BY <2>1, <2>2, JoinedElements
  <2>4. ToSet(scan.found) # {} => Len(scan.found) > 0
    BY <2>2, ToSetElements
  <2>5. /\ told' \in Nat /\ told' >= told /\ (~opened => told' = told)
        /\ (opened /\ ToSet(scan.found) # {} => told' > 0)
    BY <2>1, <2>2, <2>4
  <2> QED
    BY <2>1, <2>3, <2>5, LedsToBeSet
<1>5. CASE HandleUnplugged
  <2>1. UNCHANGED <<told, greeted, late, opened, lit, controllers>>
    BY <1>5 DEF HandleUnplugged, main, counters
  <2>2. ToSet(connected') \subseteq ToSet(connected)
    BY <1>5, WithoutElements DEF HandleUnplugged, Disconnected, ControllerDisconnected, TypeOK
  <2>3. Found' = Found
    BY <2>1 DEF Found
  <2> QED
    BY <1>0, <2>1, <2>2, <2>3, LedsKept
<1>6. CASE SetLeds
  BY <1>0, <1>6, LedsSet
<1>7. CASE \/ \E kind \in {"single", "dual"} : PlugIn(kind)
           \/ \E device \in plugged : Unplug(device)
           \/ \E c \in DOMAIN controllers : Report(c)
           \/ Ask \/ Acquire \/ Timeout \/ Dispatch \/ OpenWindows \/ HandleCall \/ UNCHANGED vars
  <2>1. controllers' = controllers /\ connected' = connected
    BY <1>7 DEF PlugIn, Unplug, Report, Ask, Acquire, Timeout, Dispatch, OpenWindows, HandleCall, vars, lists
  <2>2. (UNCHANGED <<told, greeted, lit>>) /\ (opened => opened')
    <3>1. CASE OpenWindows
      BY <3>1 DEF OpenWindows
    <3>2. CASE Dispatch \/ HandleCall
      BY <3>2 DEF Dispatch, HandleCall
    <3>3. CASE UNCHANGED main
      BY <3>3 DEF main
    <3> QED
      BY <1>7, <3>1, <3>2, <3>3 DEF PlugIn, Unplug, Report, Ask, Acquire, Timeout, vars
  <2>3. Found' = Found
    BY <2>1 DEF Found
  <2>4. CASE late' = late
    BY <1>0, <2>1, <2>2, <2>3, <2>4, LedsKept
  <2>5. CASE late' # late
    <3>1. Timeout /\ late' = late + 1 /\ late \in Nat
      BY <1>7, <2>5 DEF PlugIn, Unplug, Report, Ask, Acquire, Timeout, Dispatch, OpenWindows, HandleCall, vars,
         counters, TypeOK
    <3> QED
      BY <2>2, <3>1 DEF LedInvariant, LedsLit
  <2> QED
    BY <2>4, <2>5
<1> QED
  BY <1>1, <1>2, <1>3, <1>4, <1>5, <1>6, <1>7 DEF Next, Devices, Scan, Main

LEMMA InitLeds == Init => LedInvariant
BY DEF Init, LedInvariant, LedsLit

(* A controller that is connected is lit once all that the windows have been *)
(* told of it is handled, though some of the controllers were there before   *)
(* the windows (PlayerWindow::djControllerConnected() lights all of them).   *)
THEOREM LedsAlwaysLit == Spec => []LedsLit
<1>1. LedInvariant /\ PairInvariant /\ TypeOK /\ [Next]_vars => LedInvariant'
  BY LedStep
<1>2. PairInvariant /\ TypeOK /\ [Next]_vars => PairInvariant'
  BY PairStep
<1>3. LedInvariant => LedsLit
  BY DEF LedInvariant
<1> QED
  BY <1>1, <1>2, <1>3, InitPairs, InitLeds, TypeCorrect, PTL DEF Spec

-----------------------------------------------------------------------------
(* The keys: those of a device are those of one controller. *)

LEMMA InputsFinite ==
  ASSUME NEW S, NEW queue \in Seq(S)
  PROVE  IsFiniteSet(InputsIn(queue)) /\ Cardinality(InputsIn(queue)) \in Nat
<1>1. InputsIn(queue) \in SUBSET (1..Len(queue)) /\ IsFiniteSet(1..Len(queue))
  BY FS_Interval DEF InputsIn
<1> QED
  BY <1>1, FS_Subset, FS_CardinalityType

(* A queue grows by no more inputs than it has new events. *)
LEMMA InputsJoined ==
  ASSUME NEW S, NEW queue \in Seq(S), NEW new \in Seq(S), Len(new) <= 1
  PROVE  Cardinality(InputsIn(queue \o new)) <= Cardinality(InputsIn(queue)) + 1
<1> DEFINE longer == queue \o new
<1>1. longer \in Seq(S) /\ IsJoined(longer, queue, new)
  BY Joins
<1> HIDE DEF longer
<1>2. InputsIn(longer) \subseteq InputsIn(queue) \cup {Len(queue) + 1}
  <2> SUFFICES ASSUME NEW i \in InputsIn(longer), i # Len(queue) + 1 PROVE i \in InputsIn(queue)
    OBVIOUS
  <2>1. i \in 1..Len(queue) + Len(new) /\ longer[i].type = "input" /\ Len(new) \in Nat /\ Len(queue) \in Nat
    BY <1>1 DEF InputsIn, IsJoined
  <2>2. i \in 1..Len(queue)
    BY <2>1
  <2>3. longer[i] = queue[i]
    BY <1>1, <2>1, <2>2 DEF IsJoined
  <2> QED
    BY <2>1, <2>2, <2>3 DEF InputsIn
<1>3. IsFiniteSet(InputsIn(queue)) /\ Cardinality(InputsIn(queue)) \in Nat
  BY InputsFinite
<1>4. /\ IsFiniteSet(InputsIn(queue) \cup {Len(queue) + 1})
      /\ Cardinality(InputsIn(queue) \cup {Len(queue) + 1}) <= Cardinality(InputsIn(queue)) + 1
  <2> DEFINE P == InputsIn(queue)
             k == Len(queue) + 1
  <2> HIDE DEF P, k
  <2>1. IsFiniteSet(P) /\ Cardinality(P) \in Nat
    BY <1>3 DEF P
  <2>2. /\ IsFiniteSet(P \cup {k})
        /\ Cardinality(P \cup {k}) = IF k \in P THEN Cardinality(P) ELSE Cardinality(P) + 1
    BY <2>1, FS_AddElement
  <2>3. Cardinality(P \cup {k}) <= Cardinality(P) + 1
    BY <2>1, <2>2
  <2> QED
    BY <2>2, <2>3 DEF P, k
<1>5. Cardinality(InputsIn(longer)) <= Cardinality(InputsIn(queue) \cup {Len(queue) + 1})
  BY <1>2, <1>4, FS_Subset
<1>6. Cardinality(InputsIn(longer)) \in Nat /\ Cardinality(InputsIn(queue) \cup {Len(queue) + 1}) \in Nat
  BY <1>1, <1>4, InputsFinite, FS_CardinalityType
<1> QED
  BY <1>3, <1>4, <1>5, <1>6 DEF longer

LEMMA InputsAppended ==
  ASSUME NEW S, NEW queue \in Seq(S), NEW e \in S, e.type # "input"
  PROVE  InputsIn(Append(queue, e)) = InputsIn(queue)
<1> DEFINE longer == Append(queue, e)
<1>1. /\ DOMAIN longer = 1..Len(queue) + 1 /\ longer[Len(queue) + 1] = e /\ DOMAIN queue = 1..Len(queue)
      /\ Len(queue) \in Nat /\ \A i \in 1..Len(queue) : longer[i] = queue[i]
  OBVIOUS
<1> HIDE DEF longer
<1>2. \A i \in 1..Len(queue) + 1 : i = Len(queue) + 1 \/ i \in 1..Len(queue)
  BY <1>1
<1>3. InputsIn(longer) = InputsIn(queue)
  BY <1>1, <1>2 DEF InputsIn
<1> QED
  BY <1>3 DEF longer

LEMMA InputsTail ==
  ASSUME NEW S, NEW queue \in Seq(S), queue # <<>>
  PROVE  /\ Cardinality(InputsIn(Tail(queue))) <= Cardinality(InputsIn(queue))
         /\ Head(queue).type = "input" => Cardinality(InputsIn(Tail(queue))) + 1 <= Cardinality(InputsIn(queue))
<1> DEFINE rest == Tail(queue)
           f == [i \in InputsIn(rest) |-> i + 1]
           late1 == InputsIn(queue) \ {1}
<1>1. /\ rest \in Seq(S) /\ Len(rest) = Len(queue) - 1 /\ Len(queue) \in Nat /\ Len(queue) > 0
      /\ \A i \in 1..Len(queue) - 1 : rest[i] = queue[i + 1]
  OBVIOUS
<1>2. IsFiniteSet(InputsIn(queue)) /\ Cardinality(InputsIn(queue)) \in Nat
  BY InputsFinite
<1>3. /\ IsFiniteSet(late1) /\ Cardinality(late1) \in Nat
      /\ Cardinality(late1) = IF 1 \in InputsIn(queue) THEN Cardinality(InputsIn(queue)) - 1
                                                         ELSE Cardinality(InputsIn(queue))
  BY <1>2, FS_RemoveElement, FS_CardinalityType
<1> HIDE DEF rest
<1>4. ASSUME NEW i \in InputsIn(rest)
      PROVE  i \in Nat /\ i + 1 \in late1
  <2>1. i \in 1..Len(queue) - 1 /\ rest[i].type = "input"
    BY <1>1 DEF InputsIn
  <2>2. i + 1 \in 1..Len(queue) /\ i + 1 # 1 /\ queue[i + 1].type = "input"
    BY <1>1, <2>1
  <2> QED
    BY <2>1, <2>2 DEF InputsIn
<1> HIDE DEF late1
<1>5. f \in Injection(InputsIn(rest), late1)
  BY <1>4 DEF Injection, IsInjective
<1>6. Cardinality(InputsIn(rest)) <= Cardinality(late1)
  BY <1>3, <1>5, FS_Injection
<1>7. Head(queue).type = "input" => 1 \in InputsIn(queue)
  BY <1>1 DEF InputsIn
<1>8. Cardinality(InputsIn(rest)) \in Nat
  BY <1>1, InputsFinite
<1> QED
  BY <1>2, <1>3, <1>6, <1>7, <1>8 DEF rest

(* Whatever concerns neither the controllers nor the keys. *)
LEMMA KeysKept ==
  ASSUME TypeOK, KeyInvariant, UNCHANGED <<controllers, exclusive, windows, calls, inbox, events>>,
         late' = 0 => late = 0, \A device \in Known : kinds'[device] = kinds[device],
         exclusive /\ late' = 0 => AskedIsFree'
  PROVE  KeyInvariant'
<1>1. SinglesAreSingle'
  BY FoundType DEF KeyInvariant, SinglesAreSingle, IsDual, KnownByName, Found
<1>2. NoTwins => NoTwins'
  BY DEF NoTwins, Found
<1>3. KeysCounted => KeysCounted'
  BY DEF KeysCounted
<1> QED
  BY <1>1, <1>2, <1>3 DEF KeyInvariant

LEMMA FreeKept ==
  ASSUME AskedIsFree, controllers' = controllers, scan' = scan
  PROVE  AskedIsFree'
BY DEF AskedIsFree, Asking, Found

LEMMA KeyAnswer ==
  ASSUME TypeOK, PairInvariant, KeyInvariant, NEW device \in plugged, Answer(device)
  PROVE  KeyInvariant'
<1>1. /\ device \in answers /\ kinds' = kinds /\ exclusive' = exclusive
      /\ UNCHANGED <<windows, calls, inbox, events, late>> /\ Received(device, "answer")
  BY DEF Answer, ports, main, counters
<1>2. CASE UNCHANGED <<controllers, scan>>
  BY <1>1, <1>2, KeysKept, FreeKept DEF KeyInvariant
<1>3. CASE IsPaired(device)
  <2>1. /\ Asking' /\ scan'.out = scan.out /\ scan'.evt = scan.evt + 1
        /\ Found' = Found \cup {Len(controllers) + 1} /\ Len(controllers) + 1 \notin Found
        /\ \A c \in Found : controllers'[c] = controllers[c]
        /\ controllers'[Len(controllers) + 1].in = device
        /\ controllers'[Len(controllers) + 1].out = scan.out /\ scan.out # Single
    BY <1>3, PairedEffect
  <2>2. Asking /\ device \in scan.ins /\ scan.evt \in Nat
    BY <1>3, AskingType DEF IsPaired
  <2>3. SinglesAreSingle'
    BY <1>1, <2>1 DEF KeyInvariant, SinglesAreSingle, IsDual, KnownByName
  <2>4. ASSUME exclusive, late = 0
        PROVE  NoTwins' /\ AskedIsFree'
    <3>1. scan.out = device /\ scan.evt = 0 /\ scan.waiting
      BY <1>1, <2>2, <2>4 DEF PairInvariant, AnswersAwaited
    <3>2. ASSUME NEW c \in Found
          PROVE  controllers[c].in # device
      <4>1. CASE IsDual(c)
        BY <2>2, <2>4, <3>1, <4>1 DEF KeyInvariant, AskedIsFree, PairInvariant, PairsMatch, Found
      <4>2. CASE ~IsDual(c)
        BY <2>2, <4>2 DEF KeyInvariant, SinglesAreSingle, PairInvariant, ListensToDuals
      <4> QED
        BY <4>1, <4>2
    <3>3. NoTwins'
      BY <2>1, <2>4, <3>2 DEF KeyInvariant, NoTwins
    <3>4. AskedIsFree'
      BY <2>1, <3>1 DEF AskedIsFree
    <3> QED
      BY <3>3, <3>4
  <2>5. KeysCounted => KeysCounted'
    BY <1>1 DEF KeysCounted
  <2> QED
    BY <1>1, <2>3, <2>4, <2>5 DEF KeyInvariant
<1> QED
  BY <1>1, <1>2, <1>3, AnswerPairs

LEMMA KeyStartScan ==
  ASSUME TypeOK, KeyInvariant, StartScan
  PROVE  KeyInvariant'
<1>1. StartedFound /\ StartedScan
  BY StartScanEffect
<1>2. kinds' = kinds /\ exclusive' = exclusive /\ UNCHANGED <<windows, calls, inbox, events, late>>
  BY DEF StartScan, counters
<1>3. SinglesAreSingle'
  BY <1>1, <1>2 DEF StartedFound, NewlyFound, KeyInvariant, SinglesAreSingle, IsDual, KnownByName
<1>4. ASSUME exclusive, late = 0
      PROVE  NoTwins'
  <2>1. \A c \in Found, d \in NewlyFound : controllers'[c].in # controllers'[d].in
    BY <1>1, <1>4 DEF StartedFound, CanOpenIn, Found
  <2>2. \A c, d \in Found : controllers'[c].in = controllers'[d].in => c = d
    BY <1>1, <1>2, <1>4 DEF StartedFound, KeyInvariant, NoTwins
  <2> QED
    BY <1>1, <2>1, <2>2 DEF StartedFound, NewlyFound, NoTwins
<1>5. AskedIsFree'
  BY <1>1 DEF StartedScan, AskedIsFree
<1>6. KeysCounted => KeysCounted'
  BY <1>2 DEF KeysCounted
<1> QED
  BY <1>2, <1>3, <1>4, <1>5, <1>6 DEF KeyInvariant

LEMMA KeyAsk ==
  ASSUME TypeOK, KeyInvariant, Ask
  PROVE  KeyInvariant'
<1>1. Asking /\ Asking'
  BY AskEffect
<1>2. PICK device, open : AskedNext(device, open)
  BY AskEffect
<1>3. /\ UNCHANGED <<controllers, exclusive, windows, calls, inbox, events, late>> /\ kinds' = kinds
  BY DEF Ask, ports, lists, main, counters
<1>4. exclusive => AskedIsFree'
  BY <1>1, <1>2, <1>3 DEF AskedNext, AskedIsFree, CanOpenOut, Found
<1> QED
  BY <1>3, <1>4, KeysKept

LEMMA KeyWait ==
  ASSUME TypeOK, KeyInvariant, Acquire \/ Timeout
  PROVE  KeyInvariant'
<1>1. Asking' /\ scan'.waiting = FALSE
  BY WaitEffect
<1>2. AskedIsFree'
  BY <1>1 DEF AskedIsFree
<1>3. /\ UNCHANGED <<controllers, exclusive, windows, calls, inbox, events>> /\ kinds' = kinds
  BY DEF Acquire, Timeout, ports, lists, main, counters
<1>4. late' = 0 => late = 0
  BY DEF Acquire, Timeout, counters, TypeOK
<1> QED
  BY <1>2, <1>3, <1>4, KeysKept

LEMMA KeyInput ==
  ASSUME TypeOK, PairInvariant, KeyInvariant, NEW device \in plugged, NEW input \in Inputs, Input(device, input)
  PROVE  KeyInvariant'
<1> DEFINE cs == {c \in DOMAIN controllers : controllers[c].in = device /\ (IsDual(c) => c \in heard)}
           of == InOrder(cs)
           new == [i \in DOMAIN of |-> [type |-> "input", from |-> of[i], input |-> input]]
<1>1. /\ inbox' = inbox \o new /\ events' = events + 1 /\ UNCHANGED <<controllers, scan>>
      /\ UNCHANGED <<exclusive, kinds, windows, calls, late>>
  BY InputNotPaired DEF Input, ports, main
<1>2. cs \in SUBSET Found /\ \A c \in cs : controllers[c].in = device
  BY DEF Found
<1> HIDE DEF cs
<1>3. IsFiniteSet(cs) /\ cs \in SUBSET Int /\ cs \subseteq Found
  <2>1. IsFiniteSet(Found) /\ Found \subseteq Int
    BY FoundType, FS_Interval
  <2> QED
    BY <1>2, <2>1, FS_Subset
<1>4. of \in Seq(cs) /\ Len(of) = Cardinality(cs)
  BY <1>3, InOrderElements
<1> HIDE DEF of
<1>5. new \in Seq(Events(Found)) /\ Len(new) = Cardinality(cs)
  <2>1. \A i \in DOMAIN of : of[i] \in cs
    BY <1>4
  <2>2. \A i \in DOMAIN of : new[i] \in Events(Found)
    BY <1>3, <2>1 DEF Events
  <2> QED
    BY <1>4, <2>2
<1> HIDE DEF new
<1>6. SinglesAreSingle' /\ (AskedIsFree => AskedIsFree') /\ (NoTwins => NoTwins')
  BY <1>1, FreeKept DEF KeyInvariant, SinglesAreSingle, IsDual, KnownByName, Found, NoTwins
<1>7. ASSUME NoTwins, KeysCounted
      PROVE  KeysCounted'
  <2>1. Cardinality(cs) <= 1
    <3>1. CASE cs = {}
      BY <3>1, FS_EmptySet
    <3>2. ASSUME NEW c \in cs
          PROVE  Cardinality(cs) <= 1
      <4>1. cs = {c}
        BY <1>2, <1>7 DEF NoTwins
      <4>2. Cardinality({c}) = 1
        BY FS_Singleton
      <4> QED
        BY <4>1, <4>2
    <3> QED
      BY <3>1, <3>2
  <2>2. inbox \in Seq(Events(Found)) /\ calls \in Seq(Calls) /\ events \in Nat
    BY DEF TypeOK
  <2>3. Cardinality(InputsIn(inbox')) <= Cardinality(InputsIn(inbox)) + 1
    BY <1>1, <1>5, <2>1, <2>2, InputsJoined
  <2>4. Cardinality(InputsIn(inbox)) \in Nat
    BY <2>2, InputsFinite
  <2>5. Cardinality(InputsIn(inbox')) \in Nat
    BY <1>1, <1>5, <2>2, Joins, InputsFinite
  <2>6. windows["PlayerWindow"].started \in Nat /\ windows["ClassroomWindow"].started \in Nat /\ Len(calls) \in Nat
    BY CountsAre
  <2>7. events \in Nat
    BY <2>2
  <2> DEFINE kept == windows["PlayerWindow"].started + windows["ClassroomWindow"].started + Len(calls)
             before == Cardinality(InputsIn(inbox))
             after == Cardinality(InputsIn(inbox'))
  <2>8. kept \in Nat
    BY <2>6
  <2>9. kept + before <= events /\ (KeysCounted' <=> kept + after <= events')
    BY <1>1, <1>7 DEF KeysCounted
  <2> HIDE DEF kept, before, after
  <2>10. before \in Nat /\ after \in Nat /\ after <= before + 1 /\ events' = events + 1
    BY <1>1, <2>3, <2>4, <2>5 DEF before, after
  <2> QED
    BY <2>7, <2>8, <2>9, <2>10
<1> QED
  BY <1>1, <1>6, <1>7 DEF KeyInvariant

LEMMA KeyReport ==
  ASSUME TypeOK, KeyInvariant, NEW c \in DOMAIN controllers, Report(c)
  PROVE  KeyInvariant'
<1>1. UNCHANGED <<controllers, exclusive, kinds, scan, windows, calls, events, late>>
  BY DEF Report, ports, scanning, main, counters
<1>2. InputsIn(inbox') = InputsIn(inbox)
  <2> DEFINE e == [type |-> "unplugged", from |-> c]
  <2>1. e \in Events(Found) /\ e.type # "input"
    BY DEF Events, Found
  <2> HIDE DEF e
  <2>2. inbox' = inbox \/ inbox' = Append(inbox, e)
    BY DEF Report, e
  <2>3. inbox \in Seq(Events(Found))
    BY DEF TypeOK
  <2>4. InputsIn(Append(inbox, e)) = InputsIn(inbox)
    BY <2>1, <2>3, InputsAppended
  <2> QED
    BY <2>2, <2>4
<1>3. SinglesAreSingle' /\ (AskedIsFree => AskedIsFree') /\ (NoTwins => NoTwins')
  BY <1>1, FreeKept DEF KeyInvariant, SinglesAreSingle, IsDual, KnownByName, Found, NoTwins
<1>4. KeysCounted => KeysCounted'
  BY <1>1, <1>2 DEF KeysCounted
<1> QED
  BY <1>1, <1>3, <1>4 DEF KeyInvariant

LEMMA KeyTaken ==
  ASSUME TypeOK, KeyInvariant, HandleUnplugged \/ Dispatch
  PROVE  KeyInvariant'
<1>1. UNCHANGED <<controllers, exclusive, kinds, scan, windows, events, late>>
  BY DEF HandleUnplugged, Dispatch, ports, scanning, lists, main, counters
<1>2. /\ inbox \in Seq(Events(Found)) /\ inbox # <<>> /\ inbox' = Tail(inbox) /\ calls \in Seq(Calls)
      /\ events \in Nat
  BY DEF HandleUnplugged, Dispatch, TypeOK
<1>3. SinglesAreSingle' /\ (AskedIsFree => AskedIsFree') /\ (NoTwins => NoTwins')
  BY <1>1, FreeKept DEF KeyInvariant, SinglesAreSingle, IsDual, KnownByName, Found, NoTwins
<1>4. Cardinality(InputsIn(inbox)) \in Nat /\ Cardinality(InputsIn(inbox')) \in Nat
  <2>1. Tail(inbox) \in Seq(Events(Found))
    BY <1>2
  <2> QED
    BY <1>2, <2>1, InputsFinite
<1>5. Len(calls') + Cardinality(InputsIn(inbox')) <= Len(calls) + Cardinality(InputsIn(inbox)) /\ Len(calls') \in Nat
  <2>1. CASE HandleUnplugged
    BY <1>2, <1>4, <2>1, InputsTail DEF HandleUnplugged, main
  <2>2. CASE Dispatch
    <3>1. Head(inbox).type = "input" /\ Len(calls) \in Nat
      BY <1>2, <2>2 DEF Dispatch
    <3>2. Cardinality(InputsIn(inbox')) + 1 <= Cardinality(InputsIn(inbox))
      BY <1>2, <3>1, InputsTail
    <3>3. Len(calls') <= Len(calls) + 1 /\ Len(calls') \in Nat
      BY <1>2, <2>2, <3>1, DispatchedCalls, AppendProperties
    <3> QED
      BY <1>4, <3>1, <3>2, <3>3
  <2> QED
    BY <2>1, <2>2
<1>6. windows["PlayerWindow"].started \in Nat /\ windows["ClassroomWindow"].started \in Nat /\ Len(calls) \in Nat
  BY CountsAre
<1>7. KeysCounted => KeysCounted'
  <2> DEFINE handled == windows["PlayerWindow"].started + windows["ClassroomWindow"].started
             before == Len(calls) + Cardinality(InputsIn(inbox))
             after == Len(calls') + Cardinality(InputsIn(inbox'))
  <2>1. handled \in Nat
    BY <1>6
  <2>4. before \in Nat
    BY <1>4, <1>6
  <2>5. after \in Nat /\ after <= before
    BY <1>4, <1>5
  <2>0. events \in Nat
    BY <1>2
  <2>2. KeysCounted <=> handled + before <= events
    BY <1>4, <1>6 DEF KeysCounted
  <2>3. KeysCounted' <=> handled + after <= events
    BY <1>1, <1>4, <1>5, <1>6 DEF KeysCounted
  <2> HIDE DEF handled, before, after
  <2> QED
    BY <2>0, <2>1, <2>2, <2>3, <2>4, <2>5
<1> QED
  BY <1>1, <1>3, <1>7 DEF KeyInvariant

LEMMA KeyHandled ==
  ASSUME TypeOK, KeyInvariant, HandleCall
  PROVE  KeyInvariant'
<1>1. UNCHANGED <<controllers, exclusive, kinds, scan, inbox, events, late>>
  BY DEF HandleCall, ports, scanning, lists, counters
<1>2. inbox \in Seq(Events(Found)) /\ calls \in Seq(Calls) /\ calls # <<>> /\ calls' = Tail(calls) /\ events \in Nat
  BY DEF HandleCall, TypeOK
<1>3. SinglesAreSingle' /\ (AskedIsFree => AskedIsFree') /\ (NoTwins => NoTwins')
  BY <1>1, FreeKept DEF KeyInvariant, SinglesAreSingle, IsDual, KnownByName, Found, NoTwins
<1>4. Cardinality(InputsIn(inbox)) \in Nat
  BY <1>2, InputsFinite
<1>5. Len(calls') = Len(calls) - 1 /\ Len(calls) \in Nat
  BY <1>2
<1>6. /\ windows'["PlayerWindow"].started + windows'["ClassroomWindow"].started
          <= windows["PlayerWindow"].started + windows["ClassroomWindow"].started + 1
      /\ TypeOK'
  BY HandleCallTypes
<1>7. /\ windows["PlayerWindow"].started \in Nat /\ windows["ClassroomWindow"].started \in Nat
      /\ windows'["PlayerWindow"].started \in Nat /\ windows'["ClassroomWindow"].started \in Nat
  BY <1>6 DEF TypeOK, Windows
<1>8. InputsIn(inbox)' = InputsIn(inbox)
  BY <1>1 DEF InputsIn
<1>9. KeysCounted => KeysCounted'
  <2> DEFINE before == windows["PlayerWindow"].started + windows["ClassroomWindow"].started
             after == windows'["PlayerWindow"].started + windows'["ClassroomWindow"].started
             queued == Cardinality(InputsIn(inbox))
  <2>1. before \in Nat /\ after \in Nat /\ after <= before + 1
    BY <1>6, <1>7
  <2>2. KeysCounted <=> before + Len(calls) + queued <= events
    BY DEF KeysCounted
  <2>3. KeysCounted' <=> after + Len(calls') + queued <= events
    BY <1>1, <1>8 DEF KeysCounted
  <2> HIDE DEF before, after, queued
  <2>4. queued \in Nat /\ events \in Nat
    BY <1>2, <1>4 DEF queued
  <2> QED
    BY <1>5, <2>1, <2>2, <2>3, <2>4
<1> QED
  BY <1>1, <1>3, <1>9 DEF KeyInvariant

LEMMA KeyStep ==
  ASSUME TypeOK, PairInvariant, KeyInvariant, [Next]_vars
  PROVE  KeyInvariant'
<1>1. \A device \in Known : kinds'[device] = kinds[device]
  BY KindsKept
<1>2. CASE \/ \E kind \in {"single", "dual"} : PlugIn(kind)
           \/ \E device \in plugged : Unplug(device)
           \/ OpenWindows \/ SetLeds \/ UNCHANGED vars
  <2>1. UNCHANGED <<controllers, exclusive, windows, calls, inbox, events, late, scan>>
    BY <1>2 DEF PlugIn, Unplug, OpenWindows, SetLeds, vars, ports, scanning, lists, main, counters
  <2> QED
    BY <1>1, <2>1, KeysKept, FreeKept DEF KeyInvariant
<1>3. CASE FinishScan
  <2>1. /\ UNCHANGED <<controllers, exclusive, windows, calls, inbox, events, late>> /\ ~Asking'
    BY <1>3 DEF FinishScan, ports, counters, Idle, Asking
  <2>2. AskedIsFree'
    BY <2>1 DEF AskedIsFree
  <2> QED
    BY <1>1, <2>1, <2>2, KeysKept
<1> QED
  BY <1>2, <1>3, KeyAnswer, KeyInput, KeyReport, KeyStartScan, KeyAsk, KeyWait, KeyTaken, KeyHandled
     DEF Next, Devices, Scan, Main

LEMMA InitKeys == Init => KeyInvariant
<1> SUFFICES ASSUME Init PROVE KeyInvariant
  OBVIOUS
<1>1. InputsIn(inbox) = {}
  BY DEF Init, InputsIn
<1>2. Cardinality(InputsIn(inbox)) = 0
  BY <1>1, FS_EmptySet
<1>3. windows["PlayerWindow"].started = 0 /\ windows["ClassroomWindow"].started = 0
  BY DEF Init, Window
<1>4. KeysCounted
  BY <1>2, <1>3 DEF Init, KeysCounted
<1>5. Found = {} /\ ~Asking
  BY DEF Init, Found, Asking
<1> QED
  BY <1>4, <1>5 DEF KeyInvariant, SinglesAreSingle, NoTwins, AskedIsFree

(* Where a port cannot be opened twice, and no answer is late, no key is     *)
(* handled more than once, however often MidiEnumerator::rescanPorts() runs. *)
THEOREM KeysAlwaysHandledOnce == Spec => []KeysHandledOnce
<1>1. KeyInvariant /\ PairInvariant /\ TypeOK /\ [Next]_vars => KeyInvariant'
  BY KeyStep
<1>2. PairInvariant /\ TypeOK /\ [Next]_vars => PairInvariant'
  BY PairStep
<1>3. KeyInvariant /\ TypeOK => KeysHandledOnce
  <2> SUFFICES ASSUME KeyInvariant, TypeOK, exclusive, late = 0
               PROVE  windows["PlayerWindow"].started + windows["ClassroomWindow"].started <= events
    BY DEF KeysHandledOnce
  <2>1. inbox \in Seq(Events(Found)) /\ calls \in Seq(Calls) /\ events \in Nat
    BY DEF TypeOK
  <2>2. Cardinality(InputsIn(inbox)) \in Nat /\ Len(calls) \in Nat
    BY <2>1, InputsFinite
  <2>3. windows["PlayerWindow"].started \in Nat /\ windows["ClassroomWindow"].started \in Nat
    BY DEF TypeOK, Windows
  <2> QED
    BY <2>1, <2>2, <2>3 DEF KeyInvariant, KeysCounted
<1> QED
  BY <1>1, <1>2, <1>3, InitPairs, InitKeys, TypeCorrect, PTL DEF Spec

-----------------------------------------------------------------------------
(* The scans: what is there is found, and what was found is listed. *)

ControllersKept == Found \subseteq Found' /\ \A c \in Found : controllers'[c] = controllers[c]

(* A device that is gone does not come back. *)
LEMMA GoneStayGone ==
  ASSUME TypeOK, UnpluggedAreGone, ControllersKept, plugged' \cap Known \subseteq plugged,
         \A e \in ToSet(inbox') :
           \/ e \in ToSet(inbox) \/ e.type # "unplugged"
           \/ e.from \in Found /\ controllers[e.from].in \notin plugged
  PROVE  UnpluggedAreGone'
<1>1. ToSet(inbox) \subseteq Events(Found)
  BY ToSetElements DEF TypeOK
<1>2. \A e \in ToSet(inbox) : e.from \in Found
  BY <1>1 DEF Events
<1>3. \A c \in Found : controllers[c].in \in Known
  BY FoundType
<1> QED
  BY <1>2, <1>3 DEF UnpluggedAreGone, ControllersKept

LEMMA TailElements ==
  ASSUME NEW S, NEW s \in Seq(S), s # <<>>
  PROVE  ToSet(Tail(s)) \subseteq ToSet(s) /\ Head(s) \in ToSet(s)
<1>1. /\ Tail(s) \in Seq(S) /\ Len(Tail(s)) = Len(s) - 1 /\ Head(s) = s[1] /\ Len(s) \in Nat /\ Len(s) > 0
      /\ \A i \in 1..Len(s) - 1 : Tail(s)[i] = s[i + 1]
  OBVIOUS
<1> DEFINE rest == Tail(s)
<1>2. rest \in Seq(S)
  BY <1>1
<1> HIDE DEF rest
<1>3. \A x : x \in ToSet(rest) <=> \E i \in 1..Len(rest) : rest[i] = x
  BY <1>2, ToSetElements
<1>4. \A x : x \in ToSet(s) <=> \E i \in 1..Len(s) : s[i] = x
  BY ToSetElements
<1>5. \A i \in 1..Len(s) - 1 : i + 1 \in 1..Len(s)
  BY <1>1
<1>6. Len(rest) = Len(s) - 1 /\ \A i \in 1..Len(s) - 1 : rest[i] = s[i + 1]
  BY <1>1 DEF rest
<1>7. ToSet(rest) \subseteq ToSet(s)
  BY <1>3, <1>4, <1>5, <1>6
<1> QED
  BY <1>1, <1>4, <1>7 DEF rest

LEMMA SinglesAppended ==
  ASSUME NEW S, NEW s \in Seq(S), NEW e \in S
  PROVE  ToSet(Append(s, e)) = ToSet(s) \cup {e}
<1> DEFINE longer == Append(s, e)
<1>1. /\ longer \in Seq(S) /\ Len(longer) = Len(s) + 1 /\ longer[Len(s) + 1] = e /\ Len(s) \in Nat
      /\ \A i \in 1..Len(s) : longer[i] = s[i]
  OBVIOUS
<1> HIDE DEF longer
<1>2. \A x : x \in ToSet(longer) <=> \E i \in 1..Len(longer) : longer[i] = x
  BY <1>1, ToSetElements
<1>3. \A x : x \in ToSet(s) <=> \E i \in 1..Len(s) : s[i] = x
  BY ToSetElements
<1>4. 1..Len(longer) = (1..Len(s)) \cup {Len(s) + 1}
  BY <1>1
<1>5. ToSet(longer) = ToSet(s) \cup {e}
  BY <1>1, <1>2, <1>3, <1>4
<1> QED
  BY <1>5 DEF longer

(* What was covered, and what was asked, as long as nothing is plugged in or out. *)
LEMMA CoveredKept ==
  ASSUME ControllersKept, NEW device, Covered(device)
  PROVE  Covered(device)'
BY DEF ControllersKept, Covered

(* As far as the devices are the same, and no scan begins, asks or ends. *)
LEMMA FoundKept ==
  ASSUME TypeOK, FoundInvariant, UNCHANGED <<kinds, plugged, since, scan, lastIn, answers, controllers>>,
         late' = 0 => late = 0,
         \A c \in ToSet(detected) : c \in ToSet(detected') \/ controllers[c].in \notin plugged,
         UnpluggedAreGone'
  PROVE  FoundInvariant'
<1>1. Found' = Found /\ NumIn' = NumIn /\ NumOut' = NumOut /\ Asking' = Asking
      /\ DualsOf(plugged)' = DualsOf(plugged)
  BY DEF Found, NumIn, NumOut, DualsOf, Asking
<1>2. PluggedAreListed'
  BY <1>1 DEF FoundInvariant, PluggedAreListed
<1>3. \A count : CountedSince(count) => CountedSince(count)'
  BY <1>1 DEF CountedSince
<1>4. \A device : Covered(device) => Covered(device)'
  BY <1>1 DEF Covered
<1>5. AskedSoFar => AskedSoFar'
  BY <1>1, <1>4 DEF AskedSoFar, KnownByName
<1>6. scan.phase = "idle" => CountedSince(lastIn)'
  BY <1>3 DEF FoundInvariant
<1>7. Asking => CountedSince(scan.numIn)'
  BY <1>3 DEF FoundInvariant
<1> QED
  BY <1>1, <1>2, <1>4, <1>5, <1>6, <1>7 DEF FoundInvariant

LEMMA FoundPlugIn ==
  ASSUME TypeOK, FoundInvariant, NEW kind \in {"single", "dual"}, PlugIn(kind)
  PROVE  FoundInvariant'
<1>1. UNCHANGED <<scan, lastIn, controllers, detected, inbox>> /\ since' = since \cup {"came"}
  BY DEF PlugIn, scanning, lists
<1>2. plugged' = plugged \cup {Len(kinds) + 1} /\ Len(kinds) + 1 \notin Known
  <2>1. Known = 1..Len(kinds) /\ Len(kinds) \in Nat
    BY FoundType
  <2>2. kinds \in Seq({"single", "dual"}) /\ kinds' = Append(kinds, kind) /\ plugged' = plugged \cup {Len(kinds')}
    BY DEF PlugIn, TypeOK
  <2>3. Len(kinds') = Len(kinds) + 1
    BY <2>2
  <2> QED
    BY <2>1, <2>2, <2>3
<1>3. Found' = Found /\ ControllersKept /\ Asking' = Asking
  BY <1>1 DEF Found, ControllersKept, Asking
<1>4. NumIn' = NumIn + 1 /\ NumIn \in Nat
  <2>1. IsFiniteSet(plugged) /\ Len(kinds) + 1 \notin plugged
    BY <1>2, FoundType DEF TypeOK
  <2>2. Cardinality(plugged \cup {Len(kinds) + 1}) = Cardinality(plugged) + 1
    BY <2>1, FS_AddElement
  <2> QED
    BY <1>2, <2>2, FoundType DEF NumIn
<1>5. UnpluggedAreGone'
  BY <1>1, <1>2, <1>3, GoneStayGone DEF FoundInvariant
<1>6. PluggedAreListed'
  BY <1>1, <1>2, <1>3, FoundType DEF FoundInvariant, PluggedAreListed
<1>7. ASSUME NEW count \in Nat, CountedSince(count)
      PROVE  CountedSince(count)'
  <2>1. "came" \in since' /\ "came" # "left"
    BY <1>1
  <2>2. since' # {} /\ since' # {"left"}
    BY <2>1
  <2>3. since' = {"came"} => since = {} \/ since = {"came"}
    BY <1>1
  <2> QED
    BY <1>4, <1>7, <2>2, <2>3 DEF CountedSince
<1>8. since' # {}
  BY <1>1
<1>9. (scan'.phase = "idle" => CountedSince(lastIn)') /\ (Asking' => CountedSince(scan.numIn)')
  BY <1>1, <1>3, <1>7, AskingType DEF FoundInvariant, TypeOK
<1> QED
  BY <1>1, <1>5, <1>6, <1>8, <1>9 DEF FoundInvariant

LEMMA FoundUnplug ==
  ASSUME TypeOK, FoundInvariant, NEW device \in plugged, Unplug(device)
  PROVE  FoundInvariant'
<1>1. /\ UNCHANGED <<scan, lastIn, controllers, detected, inbox, kinds>> /\ since' = since \cup {"left"}
      /\ plugged' = plugged \ {device}
  BY DEF Unplug, lists
<1>3. Found' = Found /\ ControllersKept /\ Asking' = Asking
  BY <1>1 DEF Found, ControllersKept, Asking
<1>4. NumIn' = NumIn - 1 /\ NumIn \in Nat
  <2>1. Cardinality(plugged \ {device}) = Cardinality(plugged) - 1
    BY FoundType, FS_RemoveElement
  <2> QED
    BY <1>1, <2>1, FoundType DEF NumIn
<1>5. UnpluggedAreGone'
  BY <1>1, <1>3, GoneStayGone DEF FoundInvariant
<1>6. PluggedAreListed'
  BY <1>1, <1>3 DEF FoundInvariant, PluggedAreListed
<1>7. ASSUME NEW count \in Nat, CountedSince(count)
      PROVE  CountedSince(count)'
  <2>1. "left" \in since' /\ "came" # "left"
    BY <1>1
  <2>2. since' # {} /\ since' # {"came"}
    BY <2>1
  <2>3. since' = {"left"} => since = {} \/ since = {"left"}
    BY <1>1
  <2> QED
    BY <1>4, <1>7, <2>2, <2>3 DEF CountedSince
<1>8. since' # {}
  BY <1>1
<1>9. (scan'.phase = "idle" => CountedSince(lastIn)') /\ (Asking' => CountedSince(scan.numIn)')
  BY <1>1, <1>3, <1>7, AskingType DEF FoundInvariant, TypeOK
<1> QED
  BY <1>1, <1>5, <1>6, <1>8, <1>9 DEF FoundInvariant

LEMMA FoundAnswer ==
  ASSUME TypeOK, PairInvariant, FoundInvariant, NEW device \in plugged, Answer(device)
  PROVE  FoundInvariant'
<1>1. /\ UNCHANGED <<kinds, plugged, since, lastIn, detected, inbox, late>> /\ device \in answers
      /\ answers' = answers \ {device} /\ Received(device, "answer")
  BY DEF Answer, ports, main, counters
<1>2. NumIn' = NumIn /\ NumOut' = NumOut /\ DualsOf(plugged)' = DualsOf(plugged)
  BY <1>1 DEF NumIn, NumOut, DualsOf
(* Nobody listens to it: then it is of a controller, if the scan knows it at all. *)
<1>3. CASE UNCHANGED <<controllers, scan>>
  <2>1. Found' = Found /\ Asking' = Asking /\ ControllersKept
    BY <1>3 DEF Found, Asking, ControllersKept
  <2>2. UnpluggedAreGone'
    BY <1>1, <2>1, GoneStayGone DEF FoundInvariant
  <2>3. PluggedAreListed'
    BY <1>1, <1>3, <2>1 DEF FoundInvariant, PluggedAreListed
  <2>4. \A count : CountedSince(count) => CountedSince(count)'
    BY <1>1, <1>2 DEF CountedSince
  <2>5. \A d : Covered(d) => Covered(d)'
    BY <2>1, CoveredKept
  <2>6. ASSUME late = 0, Asking, AskedSoFar
        PROVE  AskedSoFar'
    <3>1. Covered(device)
      <4>1. CASE device \notin scan.ins
        BY <2>6, <4>1 DEF AskedSoFar
      <4>2. CASE device \in scan.ins
        <5>1. scan.asked > 0
          BY <1>1, <2>6, AskingType DEF PairInvariant, AnswersAwaited
        <5>2. controllers' = Append(controllers, [in |-> device, out |-> scan.out])
          BY <1>1, <2>6, <4>2, <5>1 DEF Received, IsAnswer, Asking
        <5>3. FALSE
          <6>1. Len(Append(controllers, [in |-> device, out |-> scan.out])) = Len(controllers) + 1
            <7>1. [in |-> device, out |-> scan.out] \in Ports(Known)
              BY <2>6, AskingType DEF TypeOK, Ports
            <7> QED
              BY <7>1 DEF TypeOK
          <6> QED
            BY <1>3, <5>2, <6>1, FoundType
        <5> QED
          BY <5>3
      <4> QED
        BY <4>1, <4>2
    <3>2. scan'.numOut = NumOut' /\ scan'.asked <= scan'.numOut
      BY <1>2, <1>3, <2>6 DEF AskedSoFar
    <3>3. \A d \in plugged : Covered(d)' \/ (~KnownByName(d) /\ d \in scan.ins)
      BY <2>5, <2>6 DEF AskedSoFar
    <3>4. \A n \in 1..scan.asked, d \in plugged :
            InOrder(DualsOf(plugged))[n] = d => Covered(d)' \/ d \in answers'
      BY <1>1, <2>5, <2>6, <3>1 DEF AskedSoFar
    <3> QED
      BY <1>1, <1>2, <1>3, <3>2, <3>3, <3>4 DEF AskedSoFar, KnownByName
  <2> QED
    BY <1>1, <1>3, <2>1, <2>2, <2>3, <2>4, <2>5, <2>6 DEF FoundInvariant
<1>4. CASE IsPaired(device)
  <2>1. /\ Asking' /\ scan'.ins = scan.ins /\ scan'.numIn = scan.numIn /\ scan'.numOut = scan.numOut
        /\ scan'.asked = scan.asked
        /\ ToSet(scan'.found) = ToSet(scan.found) \cup {Len(controllers) + 1}
        /\ Found' = Found \cup {Len(controllers) + 1}
        /\ \A c \in Found : controllers'[c] = controllers[c]
        /\ controllers'[Len(controllers) + 1].in = device
    BY <1>4, PairedEffect
  <2>2. Asking /\ ControllersKept
    BY <1>4, <2>1 DEF IsPaired, ControllersKept
  <2>3. UnpluggedAreGone'
    BY <1>1, <2>2, GoneStayGone DEF FoundInvariant
  <2>4. PluggedAreListed'
    BY <1>1, <2>1, <2>2 DEF FoundInvariant, PluggedAreListed
  <2>5. CountedSince(scan.numIn)'
    BY <1>1, <1>2, <2>1, <2>2 DEF FoundInvariant, CountedSince
  <2>6. Covered(device)'
    BY <2>1 DEF Covered
  <2>7. \A d : Covered(d) => Covered(d)'
    BY <2>2, CoveredKept
  <2>8. ASSUME AskedSoFar
        PROVE  AskedSoFar'
    <3>1. scan'.numOut = NumOut' /\ scan'.asked <= scan'.numOut
      BY <1>2, <2>1, <2>8 DEF AskedSoFar
    <3>2. \A d \in plugged : Covered(d)' \/ (~KnownByName(d) /\ d \in scan.ins)
      BY <2>7, <2>8 DEF AskedSoFar
    <3>3. \A n \in 1..scan.asked, d \in plugged :
            InOrder(DualsOf(plugged))[n] = d => Covered(d)' \/ d \in answers'
      BY <1>1, <2>6, <2>7, <2>8 DEF AskedSoFar
    <3> QED
      BY <1>1, <1>2, <2>1, <3>1, <3>2, <3>3 DEF AskedSoFar, KnownByName
  <2>9. scan'.phase = "asking"
    BY <2>1 DEF Asking
  <2> QED
    BY <1>1, <2>1, <2>2, <2>3, <2>4, <2>5, <2>8, <2>9 DEF FoundInvariant
<1> QED
  BY <1>1, <1>3, <1>4, AnswerPairs

LEMMA FoundStartScan ==
  ASSUME TypeOK, FoundInvariant, StartScan
  PROVE  FoundInvariant'
<1>1. StartedFound /\ StartedLists /\ StartedScan /\ ~Asking
  BY StartScanEffect
<1>2. UNCHANGED <<kinds, plugged, inbox, late>> /\ since' = {}
  BY DEF StartScan, counters
<1>3. NumIn' = NumIn /\ NumOut' = NumOut /\ DualsOf(plugged)' = DualsOf(plugged)
  BY <1>2 DEF NumIn, NumOut, DualsOf
<1>4. ControllersKept
  BY <1>1 DEF StartedFound, ControllersKept
<1>5. UnpluggedAreGone'
  BY <1>2, <1>4, GoneStayGone DEF FoundInvariant
<1>6. PluggedAreListed'
  BY <1>1, <1>2 DEF FoundInvariant, PluggedAreListed, StartedFound, StartedLists, NewlyFound
<1>7. CountedSince(scan.numIn)'
  BY <1>1, <1>2, <1>3 DEF StartedScan, CountedSince
<1>8. ASSUME NEW device \in plugged
      PROVE  Covered(device)' \/ (~KnownByName(device) /\ device \in scan'.ins)
  <2>1. CASE ~CanOpenIn(device)
    <3>1. Covered(device)
      BY <2>1 DEF CanOpenIn, Covered, Found
    <3> QED
      BY <1>4, <3>1, CoveredKept
  <2>2. CASE CanOpenIn(device) /\ KnownByName(device)
    BY <1>1, <2>2 DEF StartedFound, Covered, NewlyFound
  <2>3. CASE CanOpenIn(device) /\ ~KnownByName(device)
    BY <1>1, <2>3 DEF StartedScan
  <2> QED
    BY <2>1, <2>2, <2>3
<1>9. AskedSoFar'
  <2>1. scan'.numOut = NumOut' /\ scan'.asked <= scan'.numOut /\ scan'.asked = 0
    BY <1>1, <1>3, FoundType DEF StartedScan
  <2> QED
    BY <1>2, <1>8, <2>1 DEF AskedSoFar, KnownByName
<1>10. scan'.phase = "asking"
  BY <1>1 DEF StartedScan, Asking
<1> QED
  BY <1>5, <1>6, <1>7, <1>9, <1>10 DEF FoundInvariant, Asking

LEMMA FoundAsk ==
  ASSUME TypeOK, PairInvariant, FoundInvariant, Ask
  PROVE  FoundInvariant'
<1>1. /\ Asking /\ ~scan.waiting /\ scan.asked < scan.numOut
      /\ Asking' /\ scan'.ins = scan.ins /\ scan'.numIn = scan.numIn /\ scan'.numOut = scan.numOut
      /\ scan'.found = scan.found
  BY AskEffect
<1>2. PICK device, open : AskedNext(device, open)
  BY AskEffect
<1>3. UNCHANGED <<kinds, plugged, since, controllers, detected, inbox, late>>
  BY DEF Ask, ports, lists, main, counters
<1>4. /\ Found' = Found /\ ControllersKept /\ NumIn' = NumIn /\ NumOut' = NumOut
      /\ DualsOf(plugged)' = DualsOf(plugged)
  BY <1>3 DEF Found, ControllersKept, NumIn, NumOut, DualsOf
<1>5. UnpluggedAreGone'
  BY <1>3, <1>4, GoneStayGone DEF FoundInvariant
<1>6. PluggedAreListed'
  BY <1>1, <1>3, <1>4 DEF FoundInvariant, PluggedAreListed
<1>7. CountedSince(scan.numIn)'
  BY <1>1, <1>3, <1>4 DEF FoundInvariant, CountedSince
<1>8. \A d : Covered(d) => Covered(d)'
  BY <1>4, CoveredKept
<1>9. ASSUME late = 0, since = {}
      PROVE  AskedSoFar'
  <2>1. AskedSoFar
    BY <1>1, <1>9 DEF FoundInvariant
  <2>2. scan.asked \in Nat /\ scan.numOut \in Nat
    BY <1>1, AskingType
  <2> DEFINE outs == InOrder(DualsOf(plugged))
             n == scan.asked + 1
  <2>3. scan.asked < Cardinality(DualsOf(plugged)) /\ device = outs[n]
    BY <1>1, <1>2, <2>1 DEF AskedSoFar, NumOut, AskedNext
  <2>4. device \in DualsOf(plugged)
    <3>1. DualsOf(plugged) \in SUBSET Int /\ IsFiniteSet(DualsOf(plugged))
      BY DualsAreFinite
    <3>2. outs \in Seq(DualsOf(plugged)) /\ Len(outs) = Cardinality(DualsOf(plugged))
      BY <3>1, InOrderElements
    <3>3. n \in 1..Len(outs)
      BY <2>2, <2>3, <3>2
    <3> HIDE DEF outs, n
    <3> QED
      BY <2>3, <3>2, <3>3
  <2>5. device \in plugged /\ device # 0
    BY <2>4, FoundType DEF DualsOf, TypeOK
  <2>6. Covered(device)' \/ device \in answers'
    <3>1. CASE open
      BY <1>2, <3>1 DEF AskedNext
    <3>2. CASE ~open
      <4>1. PICK c \in Found : controllers[c].out = device
        BY <1>2, <2>5, <3>2 DEF AskedNext, CanOpenOut, Found
      <4>2. IsDual(c)
        BY <2>4, <4>1, FoundType DEF IsDual, Single, DualsOf, TypeOK
      <4>3. controllers[c].in = device
        BY <1>9, <4>1, <4>2 DEF PairInvariant, PairsMatch, Found
      <4> QED
        BY <1>8, <4>3 DEF Covered
    <3> QED
      BY <1>2, <3>1, <3>2 DEF AskedNext
  <2>7. answers \subseteq answers' /\ scan'.asked = n
    BY <1>2 DEF AskedNext
  <2>8. ASSUME NEW k \in 1..n, NEW d \in plugged, outs[k] = d
        PROVE  Covered(d)' \/ d \in answers'
    <3>1. CASE k = n
      BY <2>3, <2>6, <2>8, <3>1
    <3>2. CASE k # n
      <4>1. k \in 1..scan.asked
        BY <2>2, <3>2
      <4>2. Covered(d) \/ d \in answers
        BY <2>1, <2>8, <4>1 DEF AskedSoFar
      <4> QED
        BY <1>8, <2>7, <4>2
    <3> QED
      BY <3>1, <3>2
  <2>9. \A d \in plugged : Covered(d)' \/ (~KnownByName(d) /\ d \in scan.ins)
    BY <1>8, <2>1 DEF AskedSoFar
  <2>10. scan'.numOut = NumOut' /\ scan'.asked <= scan'.numOut
    BY <1>1, <1>4, <2>1, <2>2, <2>7 DEF AskedSoFar
  <2> QED
    BY <1>1, <1>3, <1>4, <2>7, <2>8, <2>9, <2>10 DEF AskedSoFar, KnownByName
<1>10. scan'.phase = "asking"
  BY <1>1 DEF Asking
<1> QED
  BY <1>1, <1>3, <1>5, <1>6, <1>7, <1>9, <1>10 DEF FoundInvariant

LEMMA FoundWait ==
  ASSUME TypeOK, FoundInvariant, Acquire \/ Timeout
  PROVE  FoundInvariant'
<1>1. /\ Asking /\ Asking' /\ scan'.ins = scan.ins /\ scan'.numIn = scan.numIn /\ scan'.numOut = scan.numOut
      /\ scan'.asked = scan.asked /\ scan'.found = scan.found
  BY WaitEffect
<1>2. UNCHANGED <<kinds, plugged, since, controllers, detected, inbox, answers>>
  BY DEF Acquire, Timeout, ports, lists, main
<1>3. late' = 0 => late = 0
  BY DEF Acquire, Timeout, counters, TypeOK
<1>4. /\ Found' = Found /\ ControllersKept /\ NumIn' = NumIn /\ NumOut' = NumOut
      /\ DualsOf(plugged)' = DualsOf(plugged)
  BY <1>2 DEF Found, ControllersKept, NumIn, NumOut, DualsOf
<1>5. UnpluggedAreGone'
  BY <1>2, <1>4, GoneStayGone DEF FoundInvariant
<1>6. PluggedAreListed'
  BY <1>1, <1>2, <1>4 DEF FoundInvariant, PluggedAreListed
<1>7. CountedSince(scan.numIn)'
  BY <1>1, <1>2, <1>4 DEF FoundInvariant, CountedSince
<1>8. \A d : Covered(d) => Covered(d)'
  BY <1>4, CoveredKept
<1>9. AskedSoFar => AskedSoFar'
  BY <1>1, <1>2, <1>4, <1>8 DEF AskedSoFar, KnownByName
<1>10. scan'.phase = "asking"
  BY <1>1 DEF Asking
<1> QED
  BY <1>1, <1>2, <1>3, <1>5, <1>6, <1>7, <1>9, <1>10 DEF FoundInvariant

(* A scan that has asked all ports has found all devices. *)
LEMMA FoundFinishScan ==
  ASSUME TypeOK, PairInvariant, FoundInvariant, FinishScan
  PROVE  FoundInvariant'
<1>1. /\ Asking /\ ~scan.waiting /\ scan.asked = scan.numOut /\ scan'.phase = "idle" /\ ~Asking'
      /\ lastIn' = scan.numIn /\ detected' = detected \o scan.found
  BY DEF FinishScan, Asking, Idle, CountedIn, AddAll
<1>2. UNCHANGED <<kinds, plugged, since, controllers, inbox, answers, late>>
  BY DEF FinishScan, ports, counters
<1>4. Found' = Found /\ ControllersKept /\ NumIn' = NumIn
  BY <1>2 DEF Found, ControllersKept, NumIn
<1>5. UnpluggedAreGone'
  BY <1>2, <1>4, GoneStayGone DEF FoundInvariant
<1>6. PluggedAreListed'
  <2>1. ToSet(detected') = ToSet(detected) \cup ToSet(scan.found)
    BY <1>1, AskingType, JoinedElements DEF TypeOK
  <2> QED
    BY <1>1, <1>2, <1>4, <2>1 DEF FoundInvariant, PluggedAreListed
<1>7. CountedSince(lastIn)'
  BY <1>1, <1>2, <1>4 DEF FoundInvariant, CountedSince
<1>8. \A d : Covered(d) => Covered(d)'
  BY <1>4, CoveredKept
<1>9. ASSUME late = 0, since = {}, NEW device \in plugged
      PROVE  Covered(device)
  <2>1. AskedSoFar /\ answers = {}
    BY <1>1, <1>9 DEF FoundInvariant, PairInvariant, AnswersAwaited
  <2>2. CASE KnownByName(device)
    BY <2>1, <2>2 DEF AskedSoFar
  <2>3. CASE ~KnownByName(device)
    <3>1. device \in DualsOf(plugged)
      BY <2>3, FoundType DEF KnownByName, DualsOf, TypeOK
    <3>2. DualsOf(plugged) \in SUBSET Int /\ IsFiniteSet(DualsOf(plugged))
      BY DualsAreFinite
    <3>3. PICK n \in 1..Cardinality(DualsOf(plugged)) : InOrder(DualsOf(plugged))[n] = device
      BY <3>1, <3>2, InOrderElements
    <3>4. n \in 1..scan.asked
      BY <1>1, <2>1 DEF AskedSoFar, NumOut
    <3> QED
      BY <2>1, <3>3, <3>4 DEF AskedSoFar
  <2> QED
    BY <2>2, <2>3
<1> QED
  BY <1>1, <1>2, <1>5, <1>6, <1>7, <1>8, <1>9 DEF FoundInvariant

LEMMA FoundStep ==
  ASSUME TypeOK, PairInvariant, FoundInvariant, [Next]_vars
  PROVE  FoundInvariant'
<1>1. ASSUME NEW device \in plugged, NEW input \in Inputs, Input(device, input)
      PROVE  FoundInvariant'
  <2>1. /\ UNCHANGED <<kinds, plugged, since, scan, lastIn, answers, controllers, detected, late>>
    BY <1>1, InputNotPaired DEF Input, ports
  <2>2. \A e \in ToSet(inbox') : e \in ToSet(inbox) \/ e.type # "unplugged"
    <3> DEFINE cs == {c \in DOMAIN controllers : controllers[c].in = device /\ (IsDual(c) => c \in heard)}
               of == InOrder(cs)
               new == [i \in DOMAIN of |-> [type |-> "input", from |-> of[i], input |-> input]]
               Q == Events(Found) \cup {[type |-> "input", from |-> of[i], input |-> input] : i \in DOMAIN of}
    <3>1. inbox' = inbox \o new
      BY <1>1 DEF Input
    <3>2. IsFiniteSet(cs) /\ cs \in SUBSET Int
      <4>1. IsFiniteSet(Found) /\ Found \subseteq Int /\ cs \in SUBSET Found
        BY FoundType, FS_Interval DEF Found
      <4> HIDE DEF cs
      <4> QED
        BY <4>1, FS_Subset
    <3>3. of \in Seq(cs)
      BY <3>2, InOrderElements
    <3> HIDE DEF of, cs
    <3>4. new \in Seq(Q) /\ \A i \in 1..Len(new) : new[i].type = "input"
      BY <3>3
    <3>5. inbox \in Seq(Q)
      BY SeqGrows DEF TypeOK
    <3> HIDE DEF new, Q
    <3>6. ToSet(inbox') = ToSet(inbox) \cup ToSet(new)
      BY <3>1, <3>4, <3>5, JoinedElements
    <3>7. \A e \in ToSet(new) : e.type = "input"
      BY <3>4, ToSetElements
    <3> QED
      BY <3>6, <3>7
  <2>3. ControllersKept
    BY <2>1 DEF ControllersKept, Found
  <2>4. UnpluggedAreGone'
    BY <2>1, <2>2, <2>3, GoneStayGone DEF FoundInvariant
  <2> QED
    BY <2>1, <2>4, FoundKept
<1>2. ASSUME NEW c \in DOMAIN controllers, Report(c)
      PROVE  FoundInvariant'
  <2>1. UNCHANGED <<kinds, plugged, since, scan, lastIn, answers, controllers, late>> /\ controllers[c].in \notin plugged
    BY <1>2 DEF Report, ports, scanning, counters
  <2>2. inbox' = inbox \/ inbox' = Append(inbox, [type |-> "unplugged", from |-> c])
    BY <1>2 DEF Report
  <2> DEFINE e == [type |-> "unplugged", from |-> c]
  <2>3. e \in Events(Found) /\ e.from = c /\ c \in Found
    BY DEF Events, Found
  <2> HIDE DEF e
  <2>4. ToSet(inbox') \subseteq ToSet(inbox) \cup {e}
    <3>1. inbox \in Seq(Events(Found)) /\ (inbox' = inbox \/ inbox' = Append(inbox, e))
      BY <2>2 DEF TypeOK, e
    <3>2. ToSet(Append(inbox, e)) = ToSet(inbox) \cup {e}
      BY <2>3, <3>1, SinglesAppended
    <3> QED
      BY <3>1, <3>2
  <2>5. ControllersKept
    BY <2>1 DEF ControllersKept, Found
  <2>6. UnpluggedAreGone'
    BY <2>1, <2>3, <2>4, <2>5, GoneStayGone DEF FoundInvariant
  <2>7. \A d \in ToSet(detected) : d \in ToSet(detected') \/ controllers[d].in \notin plugged
    BY <1>2, <2>1, WithoutElements DEF Report, TypeOK
  <2> QED
    BY <2>1, <2>6, <2>7, FoundKept
<1>3. CASE HandleUnplugged \/ Dispatch
  <2>1. /\ UNCHANGED <<kinds, plugged, since, scan, lastIn, answers, controllers, late>>
        /\ inbox # <<>> /\ inbox' = Tail(inbox)
    BY <1>3 DEF HandleUnplugged, Dispatch, ports, scanning, lists, counters
  <2>2. inbox \in Seq(Events(Found)) /\ ToSet(Tail(inbox)) \subseteq ToSet(inbox) /\ Head(inbox) \in ToSet(inbox)
    BY <2>1, TailElements DEF TypeOK
  <2>3. ControllersKept
    BY <2>1 DEF ControllersKept, Found
  <2>4. UnpluggedAreGone'
    BY <2>1, <2>2, <2>3, GoneStayGone DEF FoundInvariant
  <2>5. \A d \in ToSet(detected) : d \in ToSet(detected') \/ controllers[d].in \notin plugged
    <3>1. CASE detected' = detected
      BY <3>1
    <3>2. CASE HandleUnplugged /\ Disconnected(Head(inbox).from)
      <4>1. Head(inbox).type = "unplugged"
        BY <3>2 DEF HandleUnplugged
      <4>2. controllers[Head(inbox).from].in \notin plugged
        BY <2>2, <4>1 DEF FoundInvariant, UnpluggedAreGone
      <4>3. detected' = Without(detected, Head(inbox).from)
        BY <3>2 DEF Disconnected
      <4> QED
        BY <4>2, <4>3, WithoutElements DEF TypeOK
    <3> QED
      BY <1>3, <3>1, <3>2 DEF HandleUnplugged, Dispatch, lists
  <2> QED
    BY <2>1, <2>4, <2>5, FoundKept
<1>4. CASE OpenWindows \/ SetLeds \/ HandleCall \/ UNCHANGED vars
  <2>1. UNCHANGED <<kinds, plugged, since, scan, lastIn, answers, controllers, detected, inbox, late>>
    BY <1>4 DEF OpenWindows, SetLeds, HandleCall, vars, ports, scanning, lists, counters
  <2>2. ControllersKept
    BY <2>1 DEF ControllersKept, Found
  <2>3. UnpluggedAreGone'
    BY <2>1, <2>2, GoneStayGone DEF FoundInvariant
  <2> QED
    BY <2>1, <2>3, FoundKept
<1> QED
  BY <1>1, <1>2, <1>3, <1>4, FoundPlugIn, FoundUnplug, FoundAnswer, FoundStartScan, FoundAsk, FoundWait, FoundFinishScan
     DEF Next, Devices, Scan, Main

LEMMA InitFound == Init => FoundInvariant
<1> SUFFICES ASSUME Init PROVE FoundInvariant
  OBVIOUS
<1>1. Found = {} /\ ToSet(inbox) = {} /\ scan.phase = "starting"
  BY DEF Init, Found, ToSet
<1> QED
  BY <1>1 DEF FoundInvariant, UnpluggedAreGone, PluggedAreListed, Asking

(* As long as no answer is late, a device is found once the counts of the     *)
(* ports are those of the last scan, unless one came and another left since:  *)
(* MidiEnumerator::periodicUpdate() has nothing but these counts to tell it when *)
(* to scan anew.                                                              *)
THEOREM ControllersAlwaysFound == Spec => []ControllersFound
<1>1. FoundInvariant /\ PairInvariant /\ TypeOK /\ [Next]_vars => FoundInvariant'
  BY FoundStep
<1>2. PairInvariant /\ TypeOK /\ [Next]_vars => PairInvariant'
  BY PairStep
<1>3. FoundInvariant /\ TypeOK => ControllersFound
  <2> SUFFICES ASSUME FoundInvariant, TypeOK, scan.phase = "idle", lastIn = NumIn, since # {"came", "left"}, late = 0,
                      NEW device \in plugged
               PROVE  device \in {controllers[c].in : c \in ToSet(detected)}
    BY DEF ControllersFound
  <2>1. CountedSince(lastIn) /\ NumIn \in Nat
    BY FoundType DEF FoundInvariant
  <2>2. since # {"came"} /\ since # {"left"}
    BY <2>1 DEF CountedSince
  <2>3. since = {}
    BY <2>2 DEF TypeOK
  <2>4. PICK c \in Found : controllers[c].in = device
    BY <2>3 DEF FoundInvariant, Covered
  <2>5. c \in ToSet(detected)
    BY <2>4 DEF FoundInvariant, PluggedAreListed, Asking
  <2> QED
    BY <2>4, <2>5
<1> QED
  BY <1>1, <1>2, <1>3, InitPairs, InitFound, TypeCorrect, PTL DEF Spec
===============================================================================
