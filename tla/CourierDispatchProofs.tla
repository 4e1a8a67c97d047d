----------------------- MODULE CourierDispatchProofs -----------------------
(***************************************************************************)
(* Proofs about CourierDispatch, for every set of cities, couriers and     *)
(* orders, every distance and every number of calls and crashes:           *)
(*  - the type invariant and that no order is ever about twice;            *)
(*  - the account of the orders that left the lists;                       *)
(*  - where every city has one courier, that a scan finds the closest of   *)
(*    the orders it passes, and, while the server lives, that the dispatch *)
(*    implements OrderPool.                                                *)
(***************************************************************************)
EXTENDS CourierDispatch, FiniteSetTheorems, SequenceTheorems, WellFoundedInduction, TLAPS

-----------------------------------------------------------------------------
(* The Redis commands on a list. *)

(* A non-empty set of positions has a least one, and Min is it: the initial
   segments up to the positions are well-founded under strict inclusion. *)
LEMMA MinOfPositions ==
  ASSUME NEW n \in Nat, NEW I \in SUBSET (1 .. n), I # {}
  PROVE  Min(I) \in I /\ \A j \in I : Min(I) <= j
<1> DEFINE T == {1 .. i : i \in I}
<1>1. T \subseteq FiniteSubsetsOf(1 .. n)
  BY FS_Interval, FS_Subset DEF FiniteSubsetsOf
<1>2. PICK x \in T : \A y \in T : <<y, x>> \notin StrictSubsetOrdering(1 .. n)
  <2>1. T # {}
    OBVIOUS
  <2>2. IsWellFoundedOn(StrictSubsetOrdering(1 .. n), FiniteSubsetsOf(1 .. n))
    BY FS_StrictSubsetOrderingWellFounded
  <2> HIDE DEF T
  <2> QED
    BY <1>1, <2>1, <2>2, WFMin
<1>3. PICK m \in I : x = 1 .. m
  OBVIOUS
<1>4. \A j \in I : m <= j
  <2> SUFFICES ASSUME NEW j \in I, j < m
               PROVE  FALSE
    OBVIOUS
  <2>1. 1 .. j \in T /\ 1 .. j \subseteq 1 .. m /\ m \in 1 .. m /\ m \notin 1 .. j
    OBVIOUS
  <2>2. 1 .. j \in SUBSET (1 .. n) /\ 1 .. m \in SUBSET (1 .. n)
    OBVIOUS
  <2>3. <<1 .. j, x>> \in StrictSubsetOrdering(1 .. n)
    BY <1>3, <2>1, <2>2 DEF StrictSubsetOrdering
  <2> QED
    BY <1>2, <2>1, <2>3
<1> QED
  BY <1>4 DEF Min

(* LREM drops one position, that of a marker, or nothing. *)
LEMMA LRemProperties ==
  ASSUME NEW S, NEW s \in Seq(S)
  PROVE  /\ LRem(s) \in Seq(S)
         /\ \/ LRem(s) = s
            \/ \E k \in 1 .. Len(s) :
                 /\ s[k] = RemoveIt
                 /\ Len(LRem(s)) = Len(s) - 1
                 /\ \A i \in 1 .. Len(s) - 1 : LRem(s)[i] = IF i < k THEN s[i] ELSE s[i + 1]
<1>1. CASE ~ \E i \in 1 .. Len(s) : s[i] = RemoveIt
  BY <1>1 DEF LRem, RemoveFirst
<1>2. CASE \E i \in 1 .. Len(s) : s[i] = RemoveIt
  <2> DEFINE I == {i \in 1 .. Len(s) : s[i] = RemoveIt}
             k == Min(I)
             a == SubSeq(s, 1, k - 1)
             b == SubSeq(s, k + 1, Len(s))
  <2>1. k \in 1 .. Len(s) /\ s[k] = RemoveIt
    <3>1. I \in SUBSET (1 .. Len(s)) /\ I # {} /\ Len(s) \in Nat
      BY <1>2
    <3>2. Min(I) \in I
      <4> HIDE DEF I
      <4> QED  BY <3>1, MinOfPositions
    <3> QED
      BY <3>2
  <2>2. LRem(s) = a \o b
    BY <1>2 DEF LRem, RemoveFirst, RemoveAt, SelectInSeq
  <2> HIDE DEF I, k
  <2>3. a \in Seq(S) /\ Len(a) = k - 1 /\ \A i \in 1 .. k - 1 : a[i] = s[i]
    BY <2>1
  <2>4. b \in Seq(S) /\ Len(b) = Len(s) - k /\ \A i \in 1 .. Len(s) - k : b[i] = s[k + i]
    BY <2>1
  <2> HIDE DEF a, b
  <2>5. a \o b \in Seq(S) /\ Len(a \o b) = Len(s) - 1
    <3>1. a \o b \in Seq(S) /\ Len(a \o b) = Len(a) + Len(b)
      BY <2>3, <2>4, ConcatProperties
    <3> QED
      BY <2>1, <2>3, <2>4, <3>1
  <2>6. ASSUME NEW i \in 1 .. Len(s) - 1
        PROVE  (a \o b)[i] = IF i < k THEN s[i] ELSE s[i + 1]
    <3>1. CASE i < k
      BY <2>1, <2>3, <2>4, <3>1, ConcatProperties
    <3>2. CASE ~(i < k)
      <4>1. (a \o b)[i] = b[i - (k - 1)]
        BY <2>1, <2>3, <2>4, <3>2, ConcatProperties
      <4>2. i - (k - 1) \in 1 .. Len(s) - k /\ k + (i - (k - 1)) = i + 1
        BY <2>1, <3>2
      <4> QED
        BY <2>4, <3>2, <4>1, <4>2
    <3> QED
      BY <3>1, <3>2
  <2> QED
    BY <2>1, <2>2, <2>5, <2>6
<1> QED
  BY <1>1, <1>2

LEMMA RPopProperties ==
  ASSUME NEW S, NEW s \in Seq(S), s # <<>>
  PROVE  /\ RPop(s) \in Seq(S) /\ Last(s) \in S
         /\ Len(RPop(s)) = Len(s) - 1 /\ Len(s) \in Nat \ {0}
         /\ \A i \in 1 .. Len(s) - 1 : RPop(s)[i] = s[i]
<1>1. Len(s) \in Nat \ {0}
  BY EmptySeq
<1>2. RPop(s) = SubSeq(s, 1, Len(s) - 1)
  BY DEF RPop, Front
<1>3. \A i \in 1 .. Len(s) : s[i] \in S
  BY ElementOfSeq
<1>4. /\ SubSeq(s, 1, Len(s) - 1) \in Seq(S)
      /\ Len(SubSeq(s, 1, Len(s) - 1)) = Len(s) - 1
      /\ \A i \in 1 .. Len(s) - 1 : SubSeq(s, 1, Len(s) - 1)[i] = s[i]
  <2> PICK n \in Nat : n = Len(s) - 1
    BY <1>1
  <2>1. \A i \in 1 .. n : s[i] \in S
    BY <1>1, <1>3
  <2>2. /\ SubSeq(s, 1, n) \in Seq(S)
        /\ Len(SubSeq(s, 1, n)) = IF 1 <= n THEN n - 1 + 1 ELSE 0
        /\ \A i \in 1 .. n - 1 + 1 : SubSeq(s, 1, n)[i] = s[1 + i - 1]
    BY <2>1, SubSeqProperties
  <2> QED
    BY <2>2
<1>5. Last(s) \in S
  BY <1>1, <1>3 DEF Last
<1> QED
  BY <1>1, <1>2, <1>4, <1>5

LEMMA RotateProperties ==
  ASSUME NEW S, NEW s \in Seq(S), s # <<>>
  PROVE  /\ Rotate(s) \in Seq(S)
         /\ Len(Rotate(s)) = Len(s) /\ Len(s) \in Nat \ {0}
         /\ \A i \in 1 .. Len(s) : Rotate(s)[i] = IF i = 1 THEN s[Len(s)] ELSE s[i - 1]
<1> DEFINE f == RPop(s)
           h == <<Last(s)>>
<1>1. /\ f \in Seq(S) /\ Last(s) \in S
      /\ Len(f) = Len(s) - 1 /\ Len(s) \in Nat \ {0}
      /\ \A i \in 1 .. Len(s) - 1 : f[i] = s[i]
  BY RPopProperties
<1>2. h \in Seq(S) /\ Len(h) = 1 /\ h[1] = s[Len(s)]
  BY <1>1 DEF Last
<1>3. Rotate(s) = h \o f
  BY DEF Rotate, RPop
<1> HIDE DEF f, h
<1>4. /\ h \o f \in Seq(S) /\ Len(h \o f) = Len(h) + Len(f)
      /\ \A i \in 1 .. Len(h) + Len(f) :
           (h \o f)[i] = IF i <= Len(h) THEN h[i] ELSE f[i - Len(h)]
  BY <1>1, <1>2, ConcatProperties
<1>5. ASSUME NEW i \in 1 .. Len(s)
      PROVE  (h \o f)[i] = IF i = 1 THEN s[Len(s)] ELSE s[i - 1]
  <2>1. (h \o f)[i] = IF i <= 1 THEN h[i] ELSE f[i - 1]
    BY <1>1, <1>2, <1>4
  <2> QED
    BY <1>1, <1>2, <2>1
<1> QED
  BY <1>1, <1>2, <1>3, <1>4, <1>5

-----------------------------------------------------------------------------
(* No command puts an order into a list twice. *)

Distinct(s) == \A i, j \in DOMAIN s : s[i] \in Orders /\ s[i] = s[j] => i = j
In(s, o) == \E i \in DOMAIN s : s[i] = o
ListsDistinct(L) ==
  \A x, y \in Cities : \A i \in DOMAIN L[x], j \in DOMAIN L[y] :
     L[x][i] \in Orders /\ L[x][i] = L[y][j] => x = y /\ i = j

LEMMA AppendDistinct ==
  ASSUME NEW s \in Seq(Entry), Distinct(s), NEW o \in Orders, ~ In(s, o)
  PROVE  /\ Append(s, o) \in Seq(Entry) /\ Distinct(Append(s, o))
         /\ \A p \in Orders : In(Append(s, o), p) => p = o \/ In(s, p)
<1>1. o \in Entry
  BY DEF Entry
<1>2. /\ Append(s, o) \in Seq(Entry)
      /\ DOMAIN Append(s, o) = 1 .. Len(s) + 1 /\ DOMAIN s = 1 .. Len(s) /\ Len(s) \in Nat
      /\ \A i \in 1 .. Len(s) : Append(s, o)[i] = s[i]
      /\ Append(s, o)[Len(s) + 1] = o
  BY <1>1
<1> QED
  BY <1>2 DEF Distinct, In

LEMMA RPopDistinct ==
  ASSUME NEW s \in Seq(Entry), s # <<>>, Distinct(s)
  PROVE  /\ RPop(s) \in Seq(Entry) /\ Distinct(RPop(s)) /\ Last(s) \in Entry
         /\ \A p \in Orders : In(RPop(s), p) => In(s, p) /\ p # Last(s)
         /\ In(s, Last(s))
<1>1. /\ RPop(s) \in Seq(Entry) /\ Last(s) \in Entry /\ Last(s) = s[Len(s)]
      /\ DOMAIN RPop(s) = 1 .. Len(s) - 1 /\ DOMAIN s = 1 .. Len(s) /\ Len(s) \in Nat \ {0}
      /\ \A i \in 1 .. Len(s) - 1 : RPop(s)[i] = s[i]
  BY RPopProperties DEF Last
<1> QED
  BY <1>1 DEF Distinct, In

LEMMA RotateDistinct ==
  ASSUME NEW s \in Seq(Entry), s # <<>>, Distinct(s)
  PROVE  /\ Rotate(s) \in Seq(Entry) /\ Distinct(Rotate(s))
         /\ \A p \in Orders : In(Rotate(s), p) => In(s, p)
<1>1. /\ Rotate(s) \in Seq(Entry)
      /\ DOMAIN Rotate(s) = 1 .. Len(s) /\ DOMAIN s = 1 .. Len(s) /\ Len(s) \in Nat \ {0}
      /\ \A i \in 1 .. Len(s) : Rotate(s)[i] = IF i = 1 THEN s[Len(s)] ELSE s[i - 1]
  BY RotateProperties
<1>2. Distinct(Rotate(s))
  <2> SUFFICES ASSUME NEW i \in 1 .. Len(s), NEW j \in 1 .. Len(s),
                      Rotate(s)[i] \in Orders, Rotate(s)[i] = Rotate(s)[j]
               PROVE  i = j
    BY <1>1 DEF Distinct
  <2> DEFINE from(k) == IF k = 1 THEN Len(s) ELSE k - 1
  <2>1. from(i) \in DOMAIN s /\ from(j) \in DOMAIN s /\ s[from(i)] = s[from(j)]
        /\ s[from(i)] \in Orders
    BY <1>1
  <2>2. from(i) = from(j)
    BY <2>1 DEF Distinct
  <2> QED
    BY <1>1, <2>2
<1>3. \A p \in Orders : In(Rotate(s), p) => In(s, p)
  BY <1>1 DEF In
<1> QED
  BY <1>1, <1>2, <1>3

LEMMA LSetDistinct ==
  ASSUME NEW s \in Seq(Entry), Distinct(s), NEW i \in Nat, i < Len(s)
  PROVE  /\ LSet(s, i) \in Seq(Entry) /\ Distinct(LSet(s, i))
         /\ \A p \in Orders : In(LSet(s, i), p) => In(s, p)
<1>1. RemoveIt \in Entry /\ RemoveIt \notin Orders /\ i + 1 \in 1 .. Len(s)
  BY ConstantsAssumption DEF Entry
<1>2. /\ LSet(s, i) \in Seq(Entry)
      /\ DOMAIN LSet(s, i) = DOMAIN s
      /\ \A j \in DOMAIN s : LSet(s, i)[j] = IF j = i + 1 THEN RemoveIt ELSE s[j]
  BY <1>1 DEF LSet
<1> QED
  BY <1>1, <1>2 DEF Distinct, In

LEMMA LRemDistinct ==
  ASSUME NEW s \in Seq(Entry), Distinct(s)
  PROVE  /\ LRem(s) \in Seq(Entry) /\ Distinct(LRem(s))
         /\ \A p \in Orders : In(LRem(s), p) => In(s, p)
<1>1. LRem(s) \in Seq(Entry)
  BY LRemProperties
<1>2. CASE LRem(s) = s
  BY <1>1, <1>2
<1>3. CASE \E k \in 1 .. Len(s) :
             /\ s[k] = RemoveIt
             /\ Len(LRem(s)) = Len(s) - 1
             /\ \A i \in 1 .. Len(s) - 1 : LRem(s)[i] = IF i < k THEN s[i] ELSE s[i + 1]
  <2>1. PICK k \in 1 .. Len(s) :
             /\ Len(LRem(s)) = Len(s) - 1
             /\ \A i \in 1 .. Len(s) - 1 : LRem(s)[i] = IF i < k THEN s[i] ELSE s[i + 1]
    BY <1>3
  <2>2. DOMAIN LRem(s) = 1 .. Len(s) - 1 /\ DOMAIN s = 1 .. Len(s) /\ Len(s) \in Nat
    BY <1>1, <2>1
  <2> DEFINE from(i) == IF i < k THEN i ELSE i + 1
  <2>3. ASSUME NEW i \in 1 .. Len(s) - 1
        PROVE  from(i) \in DOMAIN s /\ LRem(s)[i] = s[from(i)]
    BY <2>1, <2>2
  <2>4. ASSUME NEW i \in 1 .. Len(s) - 1, NEW j \in 1 .. Len(s) - 1, from(i) = from(j)
        PROVE  i = j
    BY <2>2, <2>4
  <2> HIDE DEF from
  <2> QED
    BY <1>1, <2>2, <2>3, <2>4 DEF Distinct, In
<1> QED
  BY <1>2, <1>3, LRemProperties

(* Updating the list of one city, with at most one order n that no list held. *)
LEMMA ListUpdate ==
  ASSUME NEW L \in [Cities -> Seq(Entry)], ListsDistinct(L),
         NEW x \in Cities, NEW l \in Seq(Entry), Distinct(l), NEW n,
         \A y \in Cities : n \in Orders => ~ In(L[y], n),
         \A p \in Orders : In(l, p) => p = n \/ In(L[x], p)
  PROVE  /\ [L EXCEPT ![x] = l] \in [Cities -> Seq(Entry)]
         /\ ListsDistinct([L EXCEPT ![x] = l])
<1> DEFINE M == [L EXCEPT ![x] = l]
<1>1. M \in [Cities -> Seq(Entry)] /\ M[x] = l /\ \A y \in Cities \ {x} : M[y] = L[y]
  OBVIOUS
<1> HIDE DEF M
<1>2. SUFFICES ASSUME NEW y \in Cities, NEW z \in Cities,
                      NEW i \in DOMAIN M[y], NEW j \in DOMAIN M[z],
                      M[y][i] \in Orders, M[y][i] = M[z][j]
               PROVE  y = z /\ i = j
  BY <1>1 DEF ListsDistinct, M
<1>3. CASE y = x /\ z = x
  BY <1>1, <1>2, <1>3 DEF Distinct
<1>4. CASE y # x /\ z # x
  BY <1>1, <1>2, <1>4 DEF ListsDistinct
<1>5. ASSUME NEW w \in Cities \ {x}, NEW u \in DOMAIN l, NEW v \in DOMAIN L[w],
             l[u] \in Orders, l[u] = L[w][v]
      PROVE  FALSE
  <2>1. In(l, l[u]) /\ In(L[w], l[u])
    BY <1>5 DEF In
  <2>2. PICK k \in DOMAIN L[x] : L[x][k] = l[u]
    BY <1>5, <2>1 DEF In
  <2> QED
    BY <1>5, <2>2 DEF ListsDistinct
<1>6. CASE y = x /\ z # x
  BY <1>1, <1>2, <1>5, <1>6
<1>7. CASE y # x /\ z = x
  BY <1>1, <1>2, <1>5, <1>7
<1> QED
  BY <1>3, <1>4, <1>6, <1>7

-----------------------------------------------------------------------------
(* The invariant of the dispatch. *)

(* A server that has just started satisfies it. *)
THEOREM InitInv == Init => DispatchInv
<1> SUFFICES ASSUME Init
             PROVE  DispatchInv
  OBVIOUS
<1> USE DEF Init
<1>1. TypeOK
  BY ConstantsAssumption DEF TypeOK, ScanType, NoScan, PC, Entry
<1>2. HolderHolds /\ PlacedFirst /\ NoDuplicates
  BY ConstantsAssumption DEF HolderHolds, PlacedFirst, NoDuplicates, Queued, Held
<1> QED
  BY <1>1, <1>2 DEF DispatchInv

(* The lists as the lemmas about them see them. *)
LEMMA ListsSeen ==
  ASSUME TypeOK, NoDuplicates, PlacedFirst
  PROVE  /\ ListsDistinct(list)
         /\ \A x \in Cities : list[x] \in Seq(Entry) /\ Distinct(list[x])
         /\ \A o \in Orders : o \in Queued <=> \E x \in Cities : In(list[x], o)
BY DEF TypeOK, NoDuplicates, ListsDistinct, Distinct, In, Queued

(* A step that rewrites the list of one city, and puts in at most the order n,
   which no list holds. *)
LEMMA OneCity ==
  ASSUME DispatchInv, NEW x \in Cities, NEW l \in Seq(Entry), Distinct(l), NEW n,
         n \notin Queued,
         \A p \in Orders : In(l, p) => p = n \/ In(list[x], p),
         list' = [list EXCEPT ![x] = l]
  PROVE  /\ list' \in [Cities -> Seq(Entry)]
         /\ ListsDistinct(list')
         /\ Queued' \subseteq Queued \cup {n}
<1> USE DEF DispatchInv
<1>1. /\ ListsDistinct(list) /\ list \in [Cities -> Seq(Entry)]
      /\ \A y \in Cities : n \in Orders => ~ In(list[y], n)
  BY ListsSeen DEF TypeOK
<1>2. list' \in [Cities -> Seq(Entry)] /\ ListsDistinct(list')
  BY <1>1, ListUpdate
<1>3. ASSUME NEW o \in Queued'
      PROVE  o \in Queued \cup {n}
  <2>1. o \in Orders /\ \E y \in Cities : In(list'[y], o)
    BY <1>3 DEF Queued, In
  <2>2. PICK y \in Cities : In(list'[y], o)
    BY <2>1
  <2>3. \A z \in Cities : list'[z] = IF z = x THEN l ELSE list[z]
    BY <1>1
  <2> QED
    BY <2>1, <2>2, <2>3, ListsSeen
<1> QED
  BY <1>2, <1>3

(* A step that leaves the lists alone and at most drops what is in hand. *)
LEMMA HandsOnly ==
  ASSUME DispatchInv, list' = list, placed \subseteq placed',
         \A c \in Couriers : held'[c] = held[c] \/ held'[c] = None
  PROVE  NoDuplicates' /\ PlacedFirst'
<1>1. Queued' = Queued /\ Held' \subseteq Held
  BY DEF Queued, Held
<1>2. PlacedFirst'
  BY <1>1 DEF DispatchInv, PlacedFirst
<1>3. NoDuplicates'
  BY <1>1 DEF DispatchInv, NoDuplicates
<1> QED
  BY <1>2, <1>3

(* A step that rewrites a list without a new order, and does the same. *)
LEMMA ListOnly ==
  ASSUME DispatchInv, NEW x \in Cities, NEW l \in Seq(Entry), Distinct(l),
         \A p \in Orders : In(l, p) => In(list[x], p),
         list' = [list EXCEPT ![x] = l], placed \subseteq placed',
         \A c \in Couriers : held'[c] = held[c] \/ held'[c] = None
  PROVE  list' \in [Cities -> Seq(Entry)] /\ NoDuplicates' /\ PlacedFirst'
<1>1. None \notin Queued
  BY ConstantsAssumption DEF Queued
<1>2. list' \in [Cities -> Seq(Entry)] /\ ListsDistinct(list') /\ Queued' \subseteq Queued \cup {None}
  BY <1>1, OneCity
<1>3. Queued' \subseteq Queued /\ Held' \subseteq Held
  <2>1. None \notin Queued'
    BY ConstantsAssumption DEF Queued
  <2>2. Held' \subseteq Held
    BY DEF Held
  <2> QED
    BY <1>2, <2>1, <2>2
<1>4. PlacedFirst'
  BY <1>3 DEF DispatchInv, PlacedFirst
<1>5. NoDuplicates'
  BY <1>2, <1>3 DEF DispatchInv, NoDuplicates, ListsDistinct
<1> QED
  BY <1>2, <1>4, <1>5

LEMMA EndTypes ==
  ASSUME DispatchInv, NEW c \in Couriers, End(c)
  PROVE  /\ pc' \in [Couriers -> PC] /\ scan' \in [Couriers -> ScanType]
         /\ held' \in [Couriers -> Orders \cup {None}]
         /\ HolderHolds'
         /\ \A d \in Couriers : held'[d] = held[d] \/ held'[d] = None
BY ConstantsAssumption
   DEF DispatchInv, TypeOK, HolderHolds, End, Goto, NoScan, ScanType, PC, Entry

LEMMA ReplyTypes ==
  ASSUME DispatchInv, NEW c \in Couriers, NEW o, Reply(c, o)
  PROVE  End(c) /\ handed' \in [Orders -> Nat] /\ paid' \in Nat
<1>1. /\ handed \in [Orders -> Nat] /\ handed' = [handed EXCEPT ![o] = @ + 1] /\ End(c)
      /\ paid' \in Nat
  BY DEF DispatchInv, TypeOK, Reply
<1>2. CASE o \in Orders
  BY <1>1, <1>2
<1>3. CASE o \notin Orders
  <2>1. handed' = handed
    BY <1>1, <1>3
  <2> QED
    BY <1>1, <2>1
<1> QED
  BY <1>2, <1>3

LEMMA PlaceStep ==
  ASSUME DispatchInv, NEW o \in Orders, Place(o)
  PROVE  DispatchInv'
<1> DEFINE x == OrderCity[o]
<1>1. x \in Cities /\ o \notin Queued /\ o \notin Held
  BY ConstantsAssumption DEF Place, DispatchInv, PlacedFirst
<1>2. list[x] \in Seq(Entry) /\ Distinct(list[x]) /\ ~ In(list[x], o)
  BY <1>1, ListsSeen DEF DispatchInv
<1> DEFINE l == Append(list[x], o)
<1>3. l \in Seq(Entry) /\ Distinct(l) /\ \A p \in Orders : In(l, p) => p = o \/ In(list[x], p)
  BY <1>2, AppendDistinct
<1>4. list' = [list EXCEPT ![x] = l]
  BY DEF Place
<1> HIDE DEF l, x
<1>5. list' \in [Cities -> Seq(Entry)] /\ ListsDistinct(list') /\ Queued' \subseteq Queued \cup {o}
  BY <1>1, <1>3, <1>4, OneCity
<1>6. UNCHANGED <<registry, conn, pc, scan, held, handed, paid, calls, crashes>>
      /\ placed' = placed \cup {o}
  BY DEF Place, localVars, bounds
<1>7. TypeOK' /\ HolderHolds'
  BY <1>5, <1>6 DEF DispatchInv, TypeOK, HolderHolds
<1>8. Held' = Held
  BY <1>6 DEF Held
<1>9. PlacedFirst'
  BY <1>5, <1>6, <1>8 DEF DispatchInv, PlacedFirst
<1>10. ASSUME NEW c \in Couriers, held'[c] # None
       PROVE  held'[c] \notin Queued'
  <2>1. held[c] \in Held
    BY <1>6, <1>10 DEF Held
  <2> QED
    BY <1>1, <1>5, <1>6, <1>10, <2>1 DEF DispatchInv, NoDuplicates
<1>11. NoDuplicates'
  BY <1>5, <1>6, <1>10 DEF DispatchInv, NoDuplicates, ListsDistinct
<1> QED
  BY <1>7, <1>9, <1>11 DEF DispatchInv

LEMMA BRPopLPushStep ==
  ASSUME DispatchInv, NEW c \in Couriers, BRPopLPush(c)
  PROVE  DispatchInv'
<1> DEFINE x == City(c)
           l == Rotate(list[x])
<1>1. x \in Cities /\ list[x] # <<>>
  BY ConstantsAssumption DEF City, BRPopLPush
<1>2. l \in Seq(Entry) /\ Distinct(l) /\ \A p \in Orders : In(l, p) => In(list[x], p)
  BY <1>1, ListsSeen, RotateDistinct DEF DispatchInv
<1>3. /\ list' = [list EXCEPT ![x] = l] /\ conn' = Tail(conn) /\ conn # <<>>
      /\ pc' = [pc EXCEPT ![c] = "getOrder"]
      /\ UNCHANGED <<registry, scan, held, placed, handed, paid, calls, crashes>>
  BY <1>1 DEF BRPopLPush, Goto, ghosts, bounds, DispatchInv, TypeOK
<1> HIDE DEF x, l
<1>4. list' \in [Cities -> Seq(Entry)] /\ NoDuplicates' /\ PlacedFirst'
  BY <1>1, <1>2, <1>3, ListOnly
<1>5. TypeOK' /\ HolderHolds'
  BY <1>3, <1>4 DEF DispatchInv, TypeOK, HolderHolds, PC
<1> QED
  BY <1>4, <1>5 DEF DispatchInv

LEMMA AddOrderStep ==
  ASSUME DispatchInv, NEW c \in Couriers, AddOrder(c)
  PROVE  DispatchInv'
<1> DEFINE x == City(c)
           o == held[c]
           l == Append(list[x], o)
<1>1. x \in Cities /\ o \in Orders /\ o \notin Queued /\ o \in Held
  BY ConstantsAssumption
     DEF City, AddOrder, DispatchInv, HolderHolds, NoDuplicates, Held
<1>2. list[x] \in Seq(Entry) /\ Distinct(list[x]) /\ ~ In(list[x], o)
  BY <1>1, ListsSeen DEF DispatchInv
<1>3. l \in Seq(Entry) /\ Distinct(l) /\ \A p \in Orders : In(l, p) => p = o \/ In(list[x], p)
  BY <1>1, <1>2, AppendDistinct
<1>4. /\ list' = [list EXCEPT ![x] = l] /\ conn' = Append(conn, c)
      /\ held' = [held EXCEPT ![c] = None]
      /\ pc' = [pc EXCEPT ![c] = "brpoplpush"]
      /\ UNCHANGED <<registry, scan, placed, handed, paid, calls, crashes>>
  BY <1>1 DEF AddOrder, Goto, ghosts, bounds, DispatchInv, TypeOK
<1> HIDE DEF x, o, l
<1>5. list' \in [Cities -> Seq(Entry)] /\ ListsDistinct(list') /\ Queued' \subseteq Queued \cup {o}
  BY <1>1, <1>3, <1>4, OneCity
<1>6. TypeOK' /\ HolderHolds'
  BY <1>4, <1>5 DEF DispatchInv, TypeOK, HolderHolds, PC
<1>7. \A d \in Couriers : held'[d] = IF d = c THEN None ELSE held[d]
  BY <1>4 DEF DispatchInv, TypeOK
<1>8. Held' \subseteq Held
  BY <1>7 DEF Held
<1>9. PlacedFirst'
  BY <1>1, <1>4, <1>5, <1>8 DEF DispatchInv, PlacedFirst
<1>10. ASSUME NEW d \in Couriers, held'[d] # None
       PROVE  held'[d] \notin Queued'
  <2>1. d # c /\ held[d] # None /\ held'[d] = held[d]
    BY <1>7, <1>10
  <2>2. held[d] # o
    BY <1>1, <2>1 DEF o, DispatchInv, NoDuplicates
  <2> QED
    BY <1>5, <2>1, <2>2 DEF DispatchInv, NoDuplicates
<1>11. NoDuplicates'
  BY <1>5, <1>7, <1>10 DEF DispatchInv, NoDuplicates, ListsDistinct
<1> QED
  BY <1>6, <1>9, <1>11 DEF DispatchInv

LEMMA GetOrderStep ==
  ASSUME DispatchInv, NEW c \in Couriers, GetOrder(c)
  PROVE  DispatchInv'
<1> DEFINE x == City(c)
           s == list[x]
<1>1. x \in Cities /\ s \in Seq(Entry) /\ Distinct(s)
  BY ConstantsAssumption, ListsSeen DEF City, DispatchInv
<1>2. UNCHANGED <<registry, conn, placed, handed, paid, calls, crashes>>
  BY DEF GetOrder, ghosts, bounds
<1>3. CASE s = <<>>
  <2>1. End(c) /\ list' = list
    BY <1>3 DEF GetOrder
  <2>2. NoDuplicates' /\ PlacedFirst'
    BY <1>2, <2>1, EndTypes, HandsOnly
  <2> QED
    BY <1>2, <2>1, <2>2, EndTypes DEF DispatchInv, TypeOK
<1>4. CASE s # <<>>
  <2> DEFINE o == Last(s)
             l == RPop(s)
  <2>1. /\ l \in Seq(Entry) /\ Distinct(l) /\ o \in Entry /\ In(s, o)
        /\ \A p \in Orders : In(l, p) => In(s, p) /\ p # o
    BY <1>1, <1>4, RPopDistinct
  <2>2. list' = [list EXCEPT ![x] = l]
    BY <1>1, <1>4 DEF GetOrder, DispatchInv, TypeOK
  <2>3. CASE o = RemoveIt
    <3>1. End(c)
      BY <1>4, <2>3 DEF GetOrder
    <3>2. list' \in [Cities -> Seq(Entry)] /\ NoDuplicates' /\ PlacedFirst'
      <4> HIDE DEF x, l, o
      <4> QED  BY <1>1, <1>2, <2>1, <2>2, <3>1, EndTypes, ListOnly DEF s
    <3> QED
      BY <1>2, <3>1, <3>2, EndTypes DEF DispatchInv, TypeOK
  <2>4. CASE o # RemoveIt
    <3>1. /\ o \in Orders
          /\ held' = [held EXCEPT ![c] = o]
          /\ pc' = [pc EXCEPT ![c] = "measure"]
          /\ scan' = scan
      BY <1>4, <2>1, <2>4 DEF GetOrder, Goto, Entry
    <3> HIDE DEF x, o, l
    <3>2. /\ list' \in [Cities -> Seq(Entry)] /\ ListsDistinct(list')
          /\ Queued' \subseteq Queued
      <4>1. None \notin Queued /\ None \notin Queued'
        BY ConstantsAssumption DEF Queued
      <4>2. \A p \in Orders : In(l, p) => p = None \/ In(list[x], p)
        BY <2>1 DEF s
      <4> QED
        BY <1>1, <2>1, <2>2, <4>1, <4>2, OneCity
    <3>3. o \in Queued /\ o \notin Queued'
      <4>1. o \in Queued
        BY <1>1, <2>1, <3>1, ListsSeen DEF DispatchInv, s
      <4>2. \A y \in Cities : list'[y] = IF y = x THEN l ELSE list[y]
        BY <2>2 DEF DispatchInv, TypeOK
      <4>3. ASSUME NEW y \in Cities, NEW i \in DOMAIN list'[y], list'[y][i] = o
            PROVE  FALSE
        <5>1. CASE y = x
          BY <1>1, <2>1, <3>1, <4>2, <4>3, <5>1 DEF In
        <5>2. CASE y # x
          <6>1. PICK j \in DOMAIN s : s[j] = o
            BY <2>1 DEF In
          <6> QED
            BY <1>1, <3>1, <4>2, <4>3, <5>2, <6>1 DEF DispatchInv, NoDuplicates, s
        <5> QED
          BY <5>1, <5>2
      <4> QED
        BY <4>1, <4>3 DEF Queued
    <3>4. TypeOK' /\ HolderHolds'
      BY <1>2, <3>1, <3>2 DEF DispatchInv, TypeOK, HolderHolds, PC
    <3>5. \A d \in Couriers : held'[d] = IF d = c THEN o ELSE held[d]
      BY <3>1 DEF DispatchInv, TypeOK
    <3>6. Held' \subseteq Held \cup {o}
      BY <3>5 DEF Held
    <3>7. PlacedFirst'
      BY <1>2, <3>2, <3>3, <3>6 DEF DispatchInv, PlacedFirst
    <3>8. \A d \in Couriers : held'[d] # None => held'[d] \notin Queued'
      BY <3>2, <3>3, <3>5 DEF DispatchInv, NoDuplicates
    <3>9. \A d, e \in Couriers : held'[d] # None /\ held'[d] = held'[e] => d = e
      <4>1. o # None
        BY <3>1, ConstantsAssumption
      <4> QED
        BY <3>3, <3>5, <4>1 DEF DispatchInv, NoDuplicates
    <3>10. NoDuplicates'
      BY <3>2, <3>8, <3>9 DEF NoDuplicates, ListsDistinct
    <3> QED
      BY <3>4, <3>7, <3>10 DEF DispatchInv
  <2> QED
    BY <2>3, <2>4
<1> QED
  BY <1>3, <1>4

LEMMA RemoveSetStep ==
  ASSUME DispatchInv, NEW c \in Couriers, RemoveSet(c)
  PROVE  DispatchInv'
<1> DEFINE x == City(c)
           i == scan[c].index
           l == LSet(list[x], i)
<1>1. x \in Cities /\ list[x] \in Seq(Entry) /\ Distinct(list[x]) /\ i \in Nat
  BY ConstantsAssumption, ListsSeen DEF City, DispatchInv, TypeOK, ScanType
<1>2. UNCHANGED <<registry, conn, placed, handed, paid, calls, crashes>>
  BY DEF RemoveSet, ghosts, bounds
<1>3. CASE i < Len(list[x])
  <2>1. l \in Seq(Entry) /\ Distinct(l) /\ \A p \in Orders : In(l, p) => In(list[x], p)
    BY <1>1, <1>3, LSetDistinct
  <2>2. /\ list' = [list EXCEPT ![x] = l]
        /\ pc' = [pc EXCEPT ![c] = "rmRem"]
        /\ UNCHANGED <<scan, held>>
    BY <1>1, <1>3 DEF RemoveSet, Goto, DispatchInv, TypeOK
  <2>3. list' \in [Cities -> Seq(Entry)] /\ NoDuplicates' /\ PlacedFirst'
    <3> HIDE DEF x, l, i
    <3> QED  BY <1>1, <1>2, <2>1, <2>2, ListOnly
  <2>4. TypeOK' /\ HolderHolds'
    BY <1>2, <2>2, <2>3 DEF DispatchInv, TypeOK, HolderHolds, PC
  <2> QED
    BY <2>3, <2>4 DEF DispatchInv
<1>4. CASE ~(i < Len(list[x]))
  <2>1. End(c) /\ list' = list
    BY <1>4 DEF RemoveSet
  <2>2. NoDuplicates' /\ PlacedFirst'
    BY <1>2, <2>1, EndTypes, HandsOnly
  <2> QED
    BY <1>2, <2>1, <2>2, EndTypes DEF DispatchInv, TypeOK
<1> QED
  BY <1>3, <1>4

LEMMA RemoveRemStep ==
  ASSUME DispatchInv, NEW c \in Couriers, RemoveRem(c)
  PROVE  DispatchInv'
<1> DEFINE x == City(c)
           l == LRem(list[x])
<1>1. x \in Cities /\ list[x] \in Seq(Entry) /\ Distinct(list[x])
  BY ConstantsAssumption, ListsSeen DEF City, DispatchInv
<1>2. l \in Seq(Entry) /\ Distinct(l) /\ \A p \in Orders : In(l, p) => In(list[x], p)
  BY <1>1, LRemDistinct
<1>3. /\ list' = [list EXCEPT ![x] = l]
      /\ UNCHANGED <<registry, conn, placed, calls, crashes>>
  BY <1>1 DEF RemoveRem, bounds, DispatchInv, TypeOK
<1>4. End(c) /\ handed' \in [Orders -> Nat] /\ paid' \in Nat
  <2>1. CASE scan[c].read = RemoveIt
    BY <2>1 DEF RemoveRem, DispatchInv, TypeOK
  <2>2. CASE scan[c].read # RemoveIt
    <3>1. Reply(c, scan[c].order)
      BY <2>2 DEF RemoveRem
    <3> QED
      BY <3>1, ReplyTypes DEF DispatchInv, TypeOK
  <2> QED
    BY <2>1, <2>2
<1> HIDE DEF x, l
<1>5. list' \in [Cities -> Seq(Entry)] /\ NoDuplicates' /\ PlacedFirst'
  BY <1>1, <1>2, <1>3, <1>4, EndTypes, ListOnly
<1> QED
  BY <1>3, <1>4, <1>5, EndTypes DEF DispatchInv, TypeOK

LEMMA WaitingStep ==
  ASSUME DispatchInv, NEW c \in Couriers,
         Call(c) \/ GetLen(c) \/ AddCoursier(c) \/ Measure(c)
  PROVE  DispatchInv'
<1>1. list' = list /\ placed' = placed
  BY DEF Call, GetLen, AddCoursier, Measure, listVars, ghosts
<1>2. CASE Call(c)
  <2>1. TypeOK' /\ HolderHolds' /\ held' = held
    BY <1>2 DEF Call, Goto, listVars, ghosts, DispatchInv, TypeOK, HolderHolds, PC
  <2> QED
    BY <1>1, <2>1, HandsOnly DEF DispatchInv
<1>3. CASE GetLen(c)
  <2> DEFINE l == IF list[City(c)] = <<>> THEN "addCoursier" ELSE "first"
  <2>1. /\ pc' = [pc EXCEPT ![c] = l] /\ l \in PC \ {"measure", "addOrder"}
        /\ conn' = Append(conn, c) \/ conn' = conn
        /\ UNCHANGED <<list, registry, scan, held, placed, handed, paid, calls, crashes>>
    BY <1>3 DEF GetLen, Goto, listVars, ghosts, bounds, PC
  <2> HIDE DEF l
  <2>2. conn' \in Seq(Couriers) /\ pc' \in [Couriers -> PC]
    <3>1. conn \in Seq(Couriers) /\ pc \in [Couriers -> PC]
      BY DEF DispatchInv, TypeOK
    <3>2. Append(conn, c) \in Seq(Couriers)
      BY <3>1
    <3>3. pc' \in [Couriers -> PC]
      BY <2>1, <3>1
    <3> QED
      BY <2>1, <3>1, <3>2, <3>3
  <2>3. TypeOK' /\ HolderHolds'
    BY <2>1, <2>2 DEF DispatchInv, TypeOK, HolderHolds
  <2> QED
    BY <1>1, <2>1, <2>3, HandsOnly DEF DispatchInv
<1>4. CASE AddCoursier(c)
  <2>1. registry' \in [Cities -> Seq(Couriers)] /\ conn' \in Seq(Couriers)
    BY <1>4, ConstantsAssumption DEF AddCoursier, City, DispatchInv, TypeOK
  <2>2. TypeOK' /\ HolderHolds' /\ held' = held
    BY <1>4, <2>1 DEF AddCoursier, Goto, ghosts, bounds, DispatchInv, TypeOK, HolderHolds, PC
  <2> QED
    BY <1>1, <2>2, HandsOnly DEF DispatchInv
<1>5. CASE Measure(c)
  <2>1. PICK d \in Distances(c, held[c]) :
          IF Within(d, Rayon[c])
          THEN Reply(c, held[c])
          ELSE Goto(c, "addOrder") /\ UNCHANGED <<scan, held, handed, paid>>
    BY <1>5 DEF Measure
  <2>2. pc[c] = "measure" /\ UNCHANGED <<list, registry, conn, placed, calls, crashes>>
    BY <1>5 DEF Measure, listVars, bounds
  <2>3. CASE Within(d, Rayon[c])
    <3>1. End(c) /\ handed' \in [Orders -> Nat] /\ paid' \in Nat
      BY <2>1, <2>3, ReplyTypes
    <3> QED
      BY <2>2, <3>1, EndTypes, HandsOnly DEF DispatchInv, TypeOK
  <2>4. CASE ~ Within(d, Rayon[c])
    <3>1. TypeOK' /\ HolderHolds' /\ held' = held
      BY <2>1, <2>2, <2>4 DEF Goto, DispatchInv, TypeOK, HolderHolds, PC
    <3> QED
      BY <2>2, <3>1, HandsOnly DEF DispatchInv
  <2> QED
    BY <2>3, <2>4
<1> QED
  BY <1>2, <1>3, <1>4, <1>5

(* A scanning step changes the locals of its request, or ends the request. *)
LEMMA ScanLocals ==
  ASSUME DispatchInv, NEW c \in Couriers, NEW l \in PC \ {"measure", "addOrder"},
         UNCHANGED <<listVars, conn, ghosts, bounds>>,
         \/ End(c)
         \/ Goto(c, l) /\ held' = held /\ scan' \in [Couriers -> ScanType]
  PROVE  DispatchInv'
<1>1. UNCHANGED <<list, registry, conn, placed, handed, paid, calls, crashes>>
  BY DEF listVars, ghosts, bounds
<1>2. CASE End(c)
  BY <1>1, <1>2, EndTypes, HandsOnly DEF DispatchInv, TypeOK
<1>3. CASE Goto(c, l) /\ held' = held /\ scan' \in [Couriers -> ScanType]
  <2>1. TypeOK' /\ HolderHolds'
    BY <1>1, <1>3 DEF Goto, DispatchInv, TypeOK, HolderHolds
  <2> QED
    BY <1>1, <1>3, <2>1, HandsOnly DEF DispatchInv
<1> QED
  BY <1>2, <1>3

LEMMA DistancesType ==
  ASSUME NEW c \in Couriers, NEW o \in Orders, NEW d \in Distances(c, o)
  PROVE  d \in Nat \cup {None}
BY ConstantsAssumption DEF Distances

LEMMA WeighType ==
  ASSUME NEW s \in ScanType, NEW o \in Orders, NEW d \in Nat \cup {None}
  PROVE  Weigh(s, o, d) \in ScanType
<1>1. [s EXCEPT !.curs = @ + 1] \in ScanType
  BY DEF ScanType
<1>2. [curs |-> s.curs + 1, order |-> o, dist |-> d, index |-> s.curs, read |-> None]
        \in ScanType
  BY DEF ScanType
<1> QED
  BY <1>1, <1>2 DEF Weigh

LEMMA ScanStep ==
  ASSUME DispatchInv, NEW c \in Couriers,
         First(c) \/ Loop(c) \/ GetOrderAt(c) \/ RemoveIndex(c)
  PROVE  DispatchInv'
<1>1. UNCHANGED <<listVars, conn, ghosts, bounds>>
  BY DEF First, Loop, GetOrderAt, RemoveIndex
<1>2. scan \in [Couriers -> ScanType] /\ scan[c] \in ScanType
  BY DEF DispatchInv, TypeOK
<1>3. CASE First(c)
  <2> DEFINE o == At(list[City(c)], 0)
  <2>1. CASE ~ Readable(o)
    BY <1>1, <1>3, <2>1, ScanLocals DEF First, PC
  <2>2. CASE Readable(o)
    <3>1. PICK d \in Distances(c, o) :
            /\ scan' = [scan EXCEPT ![c] = [curs |-> 1, order |-> o, dist |-> d,
                                            index |-> 0, read |-> None]]
            /\ Goto(c, "loop") /\ held' = held
      BY <1>3, <2>2 DEF First
    <3>2. o \in Orders
      BY <2>2 DEF Readable
    <3>3. d \in Nat \cup {None}
      BY <3>2, DistancesType
    <3> HIDE DEF o
    <3>4. scan' \in [Couriers -> ScanType]
      BY <1>2, <3>1, <3>2, <3>3 DEF ScanType
    <3> QED
      BY <1>1, <3>1, <3>4, ScanLocals DEF PC
  <2> QED
    BY <2>1, <2>2
<1>4. CASE Loop(c)
  BY <1>1, <1>2, <1>4, ScanLocals DEF Loop, PC
<1>5. CASE GetOrderAt(c)
  <2> DEFINE o == At(list[City(c)], scan[c].curs)
  <2>1. CASE ~ Readable(o)
    BY <1>1, <1>5, <2>1, ScanLocals DEF GetOrderAt, PC
  <2>2. CASE Readable(o)
    <3>1. PICK d \in Distances(c, o) :
            /\ scan' = [scan EXCEPT ![c] = Weigh(@, o, d)]
            /\ Goto(c, "loop") /\ held' = held
      BY <1>5, <2>2 DEF GetOrderAt
    <3>2. o \in Orders
      BY <2>2 DEF Readable
    <3>3. d \in Nat \cup {None}
      BY <3>2, DistancesType
    <3> HIDE DEF o
    <3>4. Weigh(scan[c], o, d) \in ScanType
      BY <1>2, <3>2, <3>3, WeighType
    <3>5. scan' \in [Couriers -> ScanType]
      BY <1>2, <3>1, <3>4
    <3> QED
      BY <1>1, <3>1, <3>5, ScanLocals DEF PC
  <2> QED
    BY <2>1, <2>2
<1>6. CASE RemoveIndex(c)
  <2>1. At(list[City(c)], scan[c].index) \in Entry \cup {None}
    BY <1>2, ConstantsAssumption DEF At, City, DispatchInv, TypeOK, ScanType
  <2>2. scan' \in [Couriers -> ScanType]
    BY <1>2, <1>6, <2>1 DEF RemoveIndex, ScanType
  <2> QED
    BY <1>1, <1>6, <2>2, ScanLocals DEF RemoveIndex, PC
<1> QED
  BY <1>3, <1>4, <1>5, <1>6

LEMMA CrashStep ==
  ASSUME DispatchInv, IsFiniteSet(Couriers), Crash
  PROVE  DispatchInv'
<1>1. /\ UNCHANGED <<list, registry, placed, handed, calls>>
      /\ conn' = <<>>
      /\ pc' = [c \in Couriers |-> "idle"] /\ scan' = [c \in Couriers |-> NoScan]
      /\ held' = [c \in Couriers |-> None]
      /\ crashes' = crashes + 1 /\ paid' = paid + Cardinality(InFlight)
  BY DEF Crash, listVars
<1>2. Cardinality(InFlight) \in Nat
  BY FS_Subset, FS_CardinalityType DEF InFlight
<1>3. TypeOK' /\ HolderHolds'
  BY <1>1, <1>2, ConstantsAssumption
     DEF DispatchInv, TypeOK, HolderHolds, NoScan, ScanType, PC, Entry
<1> QED
  BY <1>1, <1>3, HandsOnly DEF DispatchInv

(* Every step of a request, and every step of its surroundings, keeps the   *)
(* dispatch's invariant.                                                    *)
THEOREM StepInv == DispatchInv /\ [Next]_vars => DispatchInv'
<1> SUFFICES ASSUME DispatchInv, [Next]_vars
             PROVE  DispatchInv'
  OBVIOUS
<1>1. CASE UNCHANGED vars
  BY <1>1 DEF vars, listVars, localVars, ghosts, bounds, DispatchInv, TypeOK, HolderHolds,
              PlacedFirst, NoDuplicates, Queued, Held
<1>2. ASSUME NEW o \in Orders, Place(o)
      PROVE  DispatchInv'
  BY <1>2, PlaceStep
<1>3. ASSUME NEW c \in Couriers, Call(c)
      PROVE  DispatchInv'
  BY <1>3, WaitingStep
<1>4. ASSUME NEW c \in Couriers, Step(c)
      PROVE  DispatchInv'
  BY <1>4, WaitingStep, BRPopLPushStep, GetOrderStep, AddOrderStep, ScanStep,
     RemoveSetStep, RemoveRemStep DEF Step
<1>5. CASE Crash
  BY <1>5, CrashStep, ConstantsAssumption
<1> QED
  BY <1>1, <1>2, <1>3, <1>4, <1>5 DEF Next

(* The lists, the pipeline and the locals of every request keep their shape,
   for any number of cities, couriers, orders, calls and crashes. *)
THEOREM TypeCorrect == Spec => []TypeOK
<1>1. DispatchInv => TypeOK
  BY DEF DispatchInv
<1> QED
  BY <1>1, InitInv, StepInv, PTL DEF Spec

(* However requests interleave with each other and with crashes, no order is
   ever in the lists twice, in a list and in hand, or in two hands. *)
THEOREM NeverDuplicated == Spec => []NoDuplicates
<1>1. DispatchInv => NoDuplicates
  BY DEF DispatchInv
<1> QED
  BY <1>1, InitInv, StepInv, PTL DEF Spec

-----------------------------------------------------------------------------
(* No command loses an order but the last of RPOP and the one LSET covers.  *)
LEMMA AppendKeeps ==
  ASSUME NEW s \in Seq(Entry), NEW o \in Orders
  PROVE  In(Append(s, o), o) /\ \A p \in Orders : In(s, p) => In(Append(s, o), p)
<1>1. /\ DOMAIN Append(s, o) = 1 .. Len(s) + 1 /\ DOMAIN s = 1 .. Len(s) /\ Len(s) \in Nat
      /\ \A i \in 1 .. Len(s) : Append(s, o)[i] = s[i]
      /\ Append(s, o)[Len(s) + 1] = o
  <2>1. o \in Entry
    BY DEF Entry
  <2> QED
    BY <2>1
<1> HIDE DEF In
<1> QED
  BY <1>1 DEF In

LEMMA RPopKeeps ==
  ASSUME NEW s \in Seq(Entry), s # <<>>
  PROVE  \A p \in Orders : In(s, p) => In(RPop(s), p) \/ p = Last(s)
<1>1. /\ Last(s) = s[Len(s)]
      /\ DOMAIN RPop(s) = 1 .. Len(s) - 1 /\ DOMAIN s = 1 .. Len(s) /\ Len(s) \in Nat \ {0}
      /\ \A i \in 1 .. Len(s) - 1 : RPop(s)[i] = s[i]
  BY RPopProperties DEF Last
<1> QED
  BY <1>1 DEF In

LEMMA RotateKeeps ==
  ASSUME NEW s \in Seq(Entry), s # <<>>
  PROVE  \A p \in Orders : In(s, p) => In(Rotate(s), p)
<1>1. /\ DOMAIN Rotate(s) = 1 .. Len(s) /\ DOMAIN s = 1 .. Len(s) /\ Len(s) \in Nat \ {0}
      /\ \A i \in 1 .. Len(s) : Rotate(s)[i] = IF i = 1 THEN s[Len(s)] ELSE s[i - 1]
  BY RotateProperties
<1>2. ASSUME NEW i \in 1 .. Len(s)
      PROVE  In(Rotate(s), s[i])
  <2>1. CASE i = Len(s)
    BY <1>1, <2>1 DEF In
  <2>2. CASE i # Len(s)
    <3>0. Len(s) \in Nat
      OBVIOUS
    <3>1. i + 1 \in 1 .. Len(s) /\ i + 1 # 1 /\ (i + 1) - 1 = i
      BY <2>2, <3>0
    <3>2. Rotate(s)[i + 1] = s[i]
      BY <1>1, <3>1
    <3> QED
      BY <1>1, <3>1, <3>2 DEF In
  <2> QED
    BY <2>1, <2>2
<1> QED
  BY <1>1, <1>2 DEF In

LEMMA LSetKeeps ==
  ASSUME NEW s \in Seq(Entry), NEW i \in Nat, i < Len(s)
  PROVE  \A p \in Orders : In(s, p) => In(LSet(s, i), p) \/ p = s[i + 1]
<1>1. /\ DOMAIN LSet(s, i) = DOMAIN s
      /\ \A j \in DOMAIN s : LSet(s, i)[j] = IF j = i + 1 THEN RemoveIt ELSE s[j]
  BY DEF LSet
<1> QED
  BY <1>1 DEF In

LEMMA LRemKeeps ==
  ASSUME NEW s \in Seq(Entry)
  PROVE  \A p \in Orders : In(s, p) => In(LRem(s), p)
<1>1. CASE LRem(s) = s
  BY <1>1
<1>2. CASE \E k \in 1 .. Len(s) :
             /\ s[k] = RemoveIt
             /\ Len(LRem(s)) = Len(s) - 1
             /\ \A i \in 1 .. Len(s) - 1 : LRem(s)[i] = IF i < k THEN s[i] ELSE s[i + 1]
  <2>1. PICK k \in 1 .. Len(s) :
             /\ s[k] = RemoveIt
             /\ Len(LRem(s)) = Len(s) - 1
             /\ \A i \in 1 .. Len(s) - 1 : LRem(s)[i] = IF i < k THEN s[i] ELSE s[i + 1]
    BY <1>2
  <2>2. DOMAIN LRem(s) = 1 .. Len(s) - 1 /\ DOMAIN s = 1 .. Len(s) /\ Len(s) \in Nat
    BY <2>1, LRemProperties
  <2> SUFFICES ASSUME NEW i \in 1 .. Len(s), s[i] \in Orders
               PROVE  In(LRem(s), s[i])
    BY <2>2 DEF In
  <2>3. i # k
    BY <2>1, ConstantsAssumption
  <2>4. CASE i < k
    <3>1. i \in 1 .. Len(s) - 1 /\ LRem(s)[i] = s[i]
      BY <2>1, <2>2, <2>4
    <3> QED
      BY <2>2, <3>1 DEF In
  <2>5. CASE i > k
    <3>1. i - 1 \in 1 .. Len(s) - 1 /\ ~(i - 1 < k) /\ (i - 1) + 1 = i
      BY <2>2, <2>5
    <3>2. LRem(s)[i - 1] = s[i]
      BY <2>1, <3>1
    <3> QED
      BY <2>2, <3>1, <3>2 DEF In
  <2> QED
    BY <2>2, <2>3, <2>4, <2>5
<1> QED
  BY <1>1, <1>2, LRemProperties

(* A step that rewrites one list and drops at most the orders of D from it. *)
LEMMA QueueKeeps ==
  ASSUME TypeOK, NEW x \in Cities, NEW l, list' = [list EXCEPT ![x] = l], NEW D,
         \A p \in Orders : In(list[x], p) => In(l, p) \/ p \in D
  PROVE  Queued \subseteq Queued' \cup D
<1>1. \A y \in Cities : list'[y] = IF y = x THEN l ELSE list[y]
  BY DEF TypeOK
<1>2. ASSUME NEW o \in Orders, NEW y \in Cities, In(list[y], o), o \notin D
      PROVE  \E z \in Cities : In(list'[z], o)
  BY <1>1, <1>2
<1> QED
  BY <1>2 DEF Queued, In

-----------------------------------------------------------------------------
(* The account of the orders that left the lists.                           *)

(* Only a request that measures or pushes back has an order in hand. *)
Hands == \A c \in Couriers : held[c] # None => pc[c] \in {"measure", "addOrder"}

AccountInv == /\ DispatchInv /\ Hands
              /\ IsFiniteSet(placed) /\ RemovalAccounting

LEMMA FiniteSets ==
  ASSUME IsFiniteSet(placed)
  PROVE  /\ IsFiniteSet(Gone) /\ Cardinality(Gone) \in Nat
         /\ IsFiniteSet(Removing) /\ Cardinality(Removing) \in Nat
<1>1. Gone \in SUBSET placed /\ Removing \in SUBSET Couriers /\ IsFiniteSet(Couriers)
  BY ConstantsAssumption DEF Gone, Removing
<1>2. IsFiniteSet(Gone) /\ IsFiniteSet(Removing)
  BY <1>1, FS_Subset
<1> QED
  BY <1>2, FS_CardinalityType

(* A step after which nothing more is gone, or one order, and that is paid. *)
Settles ==
  /\ Gone' \subseteq Gone
  /\ paid' + Cardinality(Removing') >= paid + Cardinality(Removing)
PaysFor(o) ==
  /\ Gone' \subseteq Gone \cup {o}
  /\ paid' + Cardinality(Removing') >= paid + Cardinality(Removing) + 1

LEMMA Covered ==
  ASSUME NEW m \in Nat, NEW n \in Nat, NEW j \in Nat, NEW k \in Nat, NEW p \in Nat, NEW q \in Nat,
         n <= p + k,
         (m <= n /\ q + j >= p + k) \/ (m <= n + 1 /\ q + j >= p + k + 1)
  PROVE  m <= q + j
OBVIOUS

LEMMA AccountKept ==
  ASSUME AccountInv, IsFiniteSet(placed)', paid' \in Nat,
         Settles \/ \E o : PaysFor(o)
  PROVE  RemovalAccounting'
<1> DEFINE n == Cardinality(Gone)
           m == Cardinality(Gone')
           k == Cardinality(Removing)
           j == Cardinality(Removing')
<1>1. /\ IsFiniteSet(Gone) /\ n \in Nat /\ k \in Nat /\ paid \in Nat /\ n <= paid + k
  BY FiniteSets DEF AccountInv, RemovalAccounting, DispatchInv, TypeOK
<1>2. m \in Nat /\ j \in Nat
  <2>1. Gone' \in SUBSET placed' /\ Removing' \in SUBSET Couriers /\ IsFiniteSet(Couriers)
    BY ConstantsAssumption DEF Gone, Removing
  <2>2. IsFiniteSet(Gone') /\ IsFiniteSet(Removing')
    BY <2>1, FS_Subset
  <2> QED
    BY <2>2, FS_CardinalityType
<1>3. CASE Settles
  <2>1. Gone' \in SUBSET Gone
    BY <1>3 DEF Settles
  <2>2. m <= n
    BY <1>1, <2>1, FS_Subset
  <2>3. paid' + j >= paid + k
    BY <1>3 DEF Settles
  <2>4. m <= paid' + j
    BY <1>1, <1>2, <2>2, <2>3, Covered
  <2> QED
    BY <2>4 DEF RemovalAccounting
<1>4. CASE \E o : PaysFor(o)
  <2>1. PICK o : PaysFor(o)
    BY <1>4
  <2>2. Gone' \in SUBSET (Gone \cup {o}) /\ paid' + j >= paid + k + 1
    BY <2>1 DEF PaysFor
  <2>3. IsFiniteSet(Gone \cup {o}) /\ Cardinality(Gone \cup {o}) <= n + 1
    <3>1. /\ IsFiniteSet(Gone \cup {o})
          /\ Cardinality(Gone \cup {o}) = IF o \in Gone THEN n ELSE n + 1
      BY <1>1, FS_AddElement
    <3> QED
      BY <1>1, <3>1
  <2>4. m <= Cardinality(Gone \cup {o}) /\ Cardinality(Gone \cup {o}) \in Nat
    BY <2>2, <2>3, FS_Subset, FS_CardinalityType
  <2>5. m <= paid' + j
    <3>1. m <= n + 1
      BY <1>1, <1>2, <2>3, <2>4
    <3> QED
      BY <1>1, <1>2, <2>2, <3>1, Covered
  <2> QED
    BY <2>5 DEF RemovalAccounting
<1> QED
  BY <1>3, <1>4

(* What is not gone stays, unless a list or a hand loses it. *)
LEMMA GoneKept ==
  ASSUME NEW D, placed' = placed, Queued \cup Held \subseteq Queued' \cup Held' \cup D
  PROVE  Gone' \subseteq Gone \cup D
BY DEF Gone

LEMMA SameQueue ==
  ASSUME UNCHANGED list
  PROVE  Queued' = Queued
BY DEF Queued

LEMMA EndHands ==
  ASSUME DispatchInv, Hands, NEW c \in Couriers, End(c)
  PROVE  /\ Hands' /\ Held \subseteq Held' \cup {held[c]}
         /\ pc[c] \notin {"measure", "addOrder"} => Held \subseteq Held'
         /\ Removing' = Removing \ {c}
<1>1. /\ \A d \in Couriers : pc'[d] = IF d = c THEN "idle" ELSE pc[d]
      /\ \A d \in Couriers : held'[d] = IF d = c THEN None ELSE held[d]
  BY DEF End, Goto, DispatchInv, TypeOK
<1>2. Hands'
  BY <1>1 DEF Hands
<1>3. Held \subseteq Held' \cup {held[c]}
  <2> SUFFICES ASSUME NEW d \in Couriers, held[d] # None, held[d] # held[c]
               PROVE  held[d] \in Held'
    BY DEF Held
  <2>1. held'[d] = held[d]
    BY <1>1
  <2> QED
    BY <2>1 DEF Held
<1>4. pc[c] \notin {"measure", "addOrder"} => held[c] = None
  BY DEF Hands
<1>5. None \notin Held
  BY DEF Held
<1>6. Removing' = Removing \ {c}
  BY <1>1 DEF Removing
<1> QED
  BY <1>2, <1>3, <1>4, <1>5, <1>6

LEMMA GotoHands ==
  ASSUME DispatchInv, Hands, NEW c \in Couriers, NEW l, Goto(c, l), UNCHANGED held,
         pc[c] \in {"measure", "addOrder"} => l \in {"measure", "addOrder"}
  PROVE  /\ Hands' /\ Held' = Held
         /\ Removing' = IF l = "rmRem" THEN Removing \cup {c} ELSE Removing \ {c}
<1>1. \A d \in Couriers : pc'[d] = IF d = c THEN l ELSE pc[d]
  BY DEF Goto, DispatchInv, TypeOK
<1>2. Hands'
  BY <1>1 DEF Hands
<1>3. Held' = Held
  BY DEF Held
<1>4. Removing' = IF l = "rmRem" THEN Removing \cup {c} ELSE Removing \ {c}
  <2>1. l = "rmRem" => Removing' = Removing \cup {c}
    BY <1>1 DEF Removing
  <2>2. l # "rmRem" => Removing' = Removing \ {c}
    BY <1>1 DEF Removing
  <2> QED
    BY <2>1, <2>2
<1> QED
  BY <1>2, <1>3, <1>4

(* The steps of one request: what each does to the account. *)
Accounts == Hands' /\ placed' = placed /\ (Settles \/ \E o : PaysFor(o))

LEMMA Quiet ==
  ASSUME AccountInv, NEW c \in Couriers, pc[c] # "rmRem",
         UNCHANGED <<list, placed, paid>>,
         \/ End(c) /\ pc[c] \notin {"measure", "addOrder"}
         \/ \E l : /\ l # "rmRem" /\ Goto(c, l) /\ UNCHANGED held
                   /\ pc[c] \in {"measure", "addOrder"} => l \in {"measure", "addOrder"}
  PROVE  Accounts
<1>1. Hands' /\ Held \subseteq Held' /\ Removing' = Removing
  <2>1. c \notin Removing
    BY DEF Removing
  <2>2. CASE End(c) /\ pc[c] \notin {"measure", "addOrder"}
    BY <2>1, <2>2, EndHands DEF AccountInv
  <2>3. CASE \E l : /\ l # "rmRem" /\ Goto(c, l) /\ UNCHANGED held
                    /\ pc[c] \in {"measure", "addOrder"} => l \in {"measure", "addOrder"}
    <3>1. PICK l : /\ l # "rmRem" /\ Goto(c, l) /\ UNCHANGED held
                   /\ pc[c] \in {"measure", "addOrder"} => l \in {"measure", "addOrder"}
      BY <2>3
    <3> QED
      BY <2>1, <3>1, GotoHands DEF AccountInv
  <2> QED
    BY <2>2, <2>3
<1>2. Gone' \subseteq Gone
  <2>1. Gone' \subseteq Gone \cup {}
    BY <1>1, SameQueue, GoneKept
  <2> QED
    BY <2>1
<1>3. paid + Cardinality(Removing) \in Nat
  BY FiniteSets DEF AccountInv, DispatchInv, TypeOK
<1>4. paid' + Cardinality(Removing') = paid + Cardinality(Removing)
  BY <1>1
<1> QED
  BY <1>1, <1>2, <1>3, <1>4 DEF Accounts, Settles

LEMMA QuietSteps ==
  ASSUME AccountInv, NEW c \in Couriers,
         \/ Call(c) \/ GetLen(c) \/ AddCoursier(c)
         \/ First(c) \/ Loop(c) \/ GetOrderAt(c) \/ RemoveIndex(c)
  PROVE  Accounts
<1>1. CASE Call(c)
  BY <1>1, Quiet DEF Call, listVars, ghosts
<1>2. CASE GetLen(c)
  BY <1>2, Quiet DEF GetLen, listVars, ghosts
<1>3. CASE AddCoursier(c)
  BY <1>3, Quiet DEF AddCoursier, ghosts
<1>4. CASE First(c)
  <2>1. \/ End(c)
        \/ Goto(c, "loop") /\ UNCHANGED held
    BY <1>4 DEF First
  <2>2. pc[c] = "first" /\ UNCHANGED <<list, placed, paid>>
    BY <1>4 DEF First, listVars, ghosts
  <2> QED
    BY <2>1, <2>2, Quiet
<1>5. CASE Loop(c)
  <2>1. \/ End(c)
        \/ (Goto(c, "getOrderAt") \/ Goto(c, "rmIndex")) /\ UNCHANGED held
    BY <1>5 DEF Loop
  <2>2. pc[c] = "loop" /\ UNCHANGED <<list, placed, paid>>
    BY <1>5 DEF Loop, listVars, ghosts
  <2> QED
    BY <2>1, <2>2, Quiet
<1>6. CASE GetOrderAt(c)
  <2>1. \/ End(c)
        \/ Goto(c, "loop") /\ UNCHANGED held
    BY <1>6 DEF GetOrderAt
  <2>2. pc[c] = "getOrderAt" /\ UNCHANGED <<list, placed, paid>>
    BY <1>6 DEF GetOrderAt, listVars, ghosts
  <2> QED
    BY <2>1, <2>2, Quiet
<1>7. CASE RemoveIndex(c)
  <2>1. Goto(c, "rmSet") /\ UNCHANGED held
    BY <1>7 DEF RemoveIndex
  <2>2. pc[c] = "rmIndex" /\ UNCHANGED <<list, placed, paid>>
    BY <1>7 DEF RemoveIndex, listVars, ghosts
  <2> QED
    BY <2>1, <2>2, Quiet
<1> QED
  BY <1>1, <1>2, <1>3, <1>4, <1>5, <1>6, <1>7

LEMMA ListTyped ==
  ASSUME DispatchInv, NEW c \in Couriers
  PROVE  /\ City(c) \in Cities /\ list[City(c)] \in Seq(Entry) /\ TypeOK
         /\ paid \in Nat
BY ConstantsAssumption DEF DispatchInv, TypeOK, City

LEMMA BRPopLPushAccount ==
  ASSUME AccountInv, NEW c \in Couriers, BRPopLPush(c)
  PROVE  Accounts
<1> DEFINE x == City(c)
           l == Rotate(list[x])
<1>1. /\ x \in Cities /\ list[x] \in Seq(Entry) /\ list[x] # <<>> /\ TypeOK /\ paid \in Nat
      /\ list' = [list EXCEPT ![x] = l] /\ UNCHANGED <<placed, paid, held>>
      /\ Goto(c, "getOrder") /\ pc[c] = "brpoplpush"
  BY ListTyped DEF AccountInv, BRPopLPush, ghosts
<1>2. \A p \in Orders : In(list[x], p) => In(l, p)
  BY <1>1, RotateKeeps
<1> HIDE DEF x, l
<1>3. Queued \subseteq Queued' \cup {}
  BY <1>1, <1>2, QueueKeeps
<1>4. Hands' /\ Held' = Held /\ Removing' = Removing
  BY <1>1, GotoHands DEF AccountInv, Removing
<1>5. Gone' \subseteq Gone \cup {}
  BY <1>1, <1>3, <1>4, GoneKept
<1>6. paid + Cardinality(Removing) \in Nat
  BY <1>1, FiniteSets DEF AccountInv
<1>7. paid' + Cardinality(Removing') = paid + Cardinality(Removing)
  BY <1>1, <1>4
<1> QED
  BY <1>1, <1>4, <1>5, <1>6, <1>7 DEF Accounts, Settles

LEMMA AddOrderAccount ==
  ASSUME AccountInv, NEW c \in Couriers, AddOrder(c)
  PROVE  Accounts
<1> DEFINE x == City(c)
           o == held[c]
           l == Append(list[x], o)
<1>1. /\ x \in Cities /\ list[x] \in Seq(Entry) /\ TypeOK /\ paid \in Nat
      /\ list' = [list EXCEPT ![x] = l] /\ UNCHANGED <<placed, paid>>
      /\ held' = [held EXCEPT ![c] = None]
      /\ pc' = [pc EXCEPT ![c] = "brpoplpush"] /\ pc[c] = "addOrder" /\ o \in Orders
  BY ListTyped DEF AccountInv, AddOrder, ghosts, Goto, DispatchInv, HolderHolds
<1>2. In(l, o) /\ \A p \in Orders : In(list[x], p) => In(l, p)
  BY <1>1, AppendKeeps
<1> HIDE DEF x, l
<1>3. Queued \subseteq Queued' \cup {}
  BY <1>1, <1>2, QueueKeeps
<1>4. o \in Queued'
  <2>1. list'[x] = l
    BY <1>1 DEF TypeOK
  <2> QED
    BY <1>1, <1>2, <2>1 DEF Queued, In
<1>5. /\ \A d \in Couriers : held'[d] = IF d = c THEN None ELSE held[d]
      /\ \A d \in Couriers : pc'[d] = IF d = c THEN "brpoplpush" ELSE pc[d]
  BY <1>1 DEF TypeOK
<1>6. Hands' /\ Removing' = Removing
  BY <1>1, <1>5 DEF AccountInv, Hands, Removing
<1>7. Held \subseteq Held' \cup {o}
  <2> SUFFICES ASSUME NEW d \in Couriers, held[d] # None, held[d] # o
               PROVE  held[d] \in Held'
    BY DEF Held
  <2>1. held'[d] = held[d]
    BY <1>5
  <2> QED
    BY <2>1 DEF Held
<1>8. Gone' \subseteq Gone \cup {}
  BY <1>1, <1>3, <1>4, <1>7, GoneKept
<1>9. paid + Cardinality(Removing) \in Nat
  BY <1>1, FiniteSets DEF AccountInv
<1>10. paid' + Cardinality(Removing') = paid + Cardinality(Removing)
  BY <1>1, <1>6
<1> QED
  BY <1>1, <1>6, <1>8, <1>9, <1>10 DEF Accounts, Settles

LEMMA GetOrderAccount ==
  ASSUME AccountInv, NEW c \in Couriers, GetOrder(c)
  PROVE  Accounts
<1> DEFINE x == City(c)
           s == list[x]
           o == Last(s)
           l == RPop(s)
<1>1. /\ x \in Cities /\ s \in Seq(Entry) /\ TypeOK /\ DispatchInv /\ Hands
      /\ pc[c] = "getOrder" /\ UNCHANGED <<placed, paid>>
  BY ListTyped DEF AccountInv, GetOrder, ghosts
<1>2. CASE s = <<>>
  BY <1>1, <1>2, Quiet DEF GetOrder
<1>3. CASE s # <<>>
  <2>1. list' = [list EXCEPT ![x] = l]
    BY <1>3 DEF GetOrder
  <2>2. \A p \in Orders : In(list[x], p) => In(l, p) \/ p \in {o}
    BY <1>1, <1>3, RPopKeeps
  <2>3. c \notin Removing
    BY <1>1 DEF Removing
  <2>4. o = RemoveIt => End(c)
    BY <1>3 DEF GetOrder
  <2>5. o # RemoveIt => Goto(c, "measure") /\ held' = [held EXCEPT ![c] = o]
    BY <1>3 DEF GetOrder
  <2> HIDE DEF x, s, l, o
  <2>6. Queued \subseteq Queued' \cup {o}
    BY <1>1, <2>1, <2>2, QueueKeeps
  <2>7. Hands' /\ Held \cup (Queued \cap {o}) \subseteq Held' /\ Removing' = Removing
    <3>1. CASE o = RemoveIt
      <4>1. o \notin Queued
        BY <3>1, ConstantsAssumption DEF Queued
      <4>2. Hands' /\ Held \subseteq Held' /\ Removing' = Removing \ {c}
        BY <1>1, <2>4, <3>1, EndHands
      <4> QED
        BY <2>3, <4>1, <4>2
    <3>2. CASE o # RemoveIt
      <4>1. /\ \A d \in Couriers : pc'[d] = IF d = c THEN "measure" ELSE pc[d]
            /\ \A d \in Couriers : held'[d] = IF d = c THEN o ELSE held[d]
        BY <1>1, <2>5, <3>2 DEF Goto, TypeOK
      <4>2. held[c] = None
        BY <1>1 DEF Hands
      <4>3. Hands' /\ Removing' = Removing
        BY <1>1, <4>1 DEF Hands, Removing
      <4>4. Held \subseteq Held'
        <5> SUFFICES ASSUME NEW d \in Couriers, held[d] # None
                     PROVE  held[d] \in Held'
          BY DEF Held
        <5>1. held'[d] = held[d]
          BY <4>1, <4>2
        <5> QED
          BY <5>1 DEF Held
      <4>5. o \in Queued => o \in Held'
        <5>1. o \in Queued => o # None
          BY ConstantsAssumption DEF Queued
        <5>2. held'[c] = o
          BY <4>1
        <5> QED
          BY <5>1, <5>2 DEF Held
      <4> QED
        BY <4>3, <4>4, <4>5
    <3> QED
      BY <3>1, <3>2
  <2>8. Gone' \subseteq Gone \cup {}
    <3>1. Queued \cup Held \subseteq Queued' \cup Held' \cup {}
      BY <2>6, <2>7
    <3> QED
      BY <1>1, <3>1, GoneKept
  <2>9. paid + Cardinality(Removing) \in Nat
    BY <1>1, FiniteSets DEF AccountInv, TypeOK
  <2>10. paid' + Cardinality(Removing') = paid + Cardinality(Removing)
    BY <1>1, <2>7
  <2> QED
    BY <1>1, <2>7, <2>8, <2>9, <2>10 DEF Accounts, Settles
<1> QED
  BY <1>2, <1>3

LEMMA MeasureAccount ==
  ASSUME AccountInv, NEW c \in Couriers, Measure(c)
  PROVE  Accounts
<1>1. /\ DispatchInv /\ Hands /\ paid \in Nat /\ pc[c] = "measure" /\ UNCHANGED <<list, placed>>
  BY ListTyped DEF AccountInv, Measure, listVars
<1>2. \/ End(c) /\ paid' = paid + 1
      \/ Goto(c, "addOrder") /\ UNCHANGED <<held, paid>>
  BY DEF Measure, Reply
<1>3. CASE Goto(c, "addOrder") /\ UNCHANGED <<held, paid>>
  BY <1>1, <1>3, Quiet
<1>4. CASE End(c) /\ paid' = paid + 1
  <2>1. Hands' /\ Held \subseteq Held' \cup {held[c]} /\ Removing' = Removing \ {c}
    BY <1>1, <1>4, EndHands
  <2>2. Removing' = Removing
    BY <1>1, <2>1 DEF Removing
  <2>3. Gone' \subseteq Gone \cup {held[c]}
    BY <1>1, <2>1, SameQueue, GoneKept
  <2>4. Cardinality(Removing) \in Nat
    BY FiniteSets DEF AccountInv
  <2>5. paid' + Cardinality(Removing') >= paid + Cardinality(Removing) + 1
    BY <1>1, <1>4, <2>2, <2>4
  <2> QED
    BY <1>1, <2>1, <2>3, <2>5 DEF Accounts, PaysFor
<1> QED
  BY <1>2, <1>3, <1>4

LEMMA RemoveSetAccount ==
  ASSUME AccountInv, NEW c \in Couriers, RemoveSet(c)
  PROVE  Accounts
<1> DEFINE x == City(c)
           i == scan[c].index
           l == LSet(list[x], i)
           o == list[x][i + 1]
<1>1. /\ x \in Cities /\ list[x] \in Seq(Entry) /\ TypeOK /\ DispatchInv /\ Hands /\ i \in Nat
      /\ paid \in Nat /\ pc[c] = "rmSet" /\ UNCHANGED <<placed, paid>> /\ scan[c] \in ScanType
  BY ListTyped DEF AccountInv, RemoveSet, ghosts, TypeOK, ScanType
<1>2. CASE ~(i < Len(list[x]))
  <2>1. End(c) /\ UNCHANGED list
    BY <1>2 DEF RemoveSet
  <2> QED
    BY <1>1, <2>1, Quiet
<1>3. CASE i < Len(list[x])
  <2>1. list' = [list EXCEPT ![x] = l] /\ Goto(c, "rmRem") /\ UNCHANGED held
    BY <1>3 DEF RemoveSet
  <2>2. \A p \in Orders : In(list[x], p) => In(l, p) \/ p \in {o}
    BY <1>1, <1>3, LSetKeeps
  <2> HIDE DEF x, i, l, o
  <2>3. Queued \subseteq Queued' \cup {o}
    BY <1>1, <2>1, <2>2, QueueKeeps
  <2>4. Hands' /\ Held' = Held /\ Removing' = Removing \cup {c} /\ c \notin Removing
    BY <1>1, <2>1, GotoHands DEF Removing
  <2>5. Gone' \subseteq Gone \cup {o}
    BY <1>1, <2>3, <2>4, GoneKept
  <2>6. IsFiniteSet(Removing) /\ Cardinality(Removing) \in Nat
    BY FiniteSets DEF AccountInv
  <2>7. Cardinality(Removing') = Cardinality(Removing) + 1
    BY <2>4, <2>6, FS_AddElement
  <2>8. paid' + Cardinality(Removing') >= paid + Cardinality(Removing) + 1
    BY <1>1, <2>6, <2>7
  <2> QED
    BY <1>1, <2>4, <2>5, <2>8 DEF Accounts, PaysFor
<1> QED
  BY <1>2, <1>3

LEMMA RemoveRemAccount ==
  ASSUME AccountInv, NEW c \in Couriers, RemoveRem(c)
  PROVE  Accounts
<1> DEFINE x == City(c)
           l == LRem(list[x])
<1>1. /\ x \in Cities /\ list[x] \in Seq(Entry) /\ TypeOK /\ DispatchInv /\ Hands
      /\ paid \in Nat /\ pc[c] = "rmRem" /\ UNCHANGED placed
      /\ list' = [list EXCEPT ![x] = l]
  BY ListTyped DEF AccountInv, RemoveRem
<1>2. End(c) /\ paid' = paid + 1
  BY DEF RemoveRem, Reply
<1>3. \A p \in Orders : In(list[x], p) => In(l, p)
  BY <1>1, LRemKeeps
<1> HIDE DEF x, l
<1>4. Queued \subseteq Queued' \cup {}
  BY <1>1, <1>3, QueueKeeps
<1>5. Hands' /\ Held \subseteq Held' /\ Removing' = Removing \ {c} /\ c \in Removing
  BY <1>1, <1>2, EndHands DEF Removing
<1>6. Gone' \subseteq Gone \cup {}
  BY <1>1, <1>4, <1>5, GoneKept
<1>7. IsFiniteSet(Removing) /\ Cardinality(Removing) \in Nat
  BY FiniteSets DEF AccountInv
<1>8. Cardinality(Removing') = Cardinality(Removing) - 1
  BY <1>5, <1>7, FS_RemoveElement
<1>9. paid' + Cardinality(Removing') >= paid + Cardinality(Removing)
  BY <1>1, <1>2, <1>7, <1>8
<1> QED
  BY <1>1, <1>5, <1>6, <1>9 DEF Accounts, Settles

LEMMA PlaceAccount ==
  ASSUME AccountInv, NEW o \in Orders, Place(o)
  PROVE  Hands' /\ IsFiniteSet(placed)' /\ Settles
<1> DEFINE x == OrderCity[o]
           l == Append(list[x], o)
<1>1. /\ x \in Cities /\ list[x] \in Seq(Entry) /\ TypeOK
      /\ placed' = placed \cup {o} /\ UNCHANGED <<pc, held, paid>>
      /\ list' = [list EXCEPT ![x] = l]
  BY ConstantsAssumption DEF AccountInv, DispatchInv, TypeOK, Place, localVars
<1>2. In(l, o) /\ \A p \in Orders : In(list[x], p) => In(l, p)
  BY <1>1, AppendKeeps
<1> HIDE DEF x, l
<1>3. Queued \subseteq Queued' \cup {}
  BY <1>1, <1>2, QueueKeeps
<1>4. o \in Queued'
  <2>1. list'[x] = l
    BY <1>1 DEF TypeOK
  <2> QED
    BY <1>1, <1>2, <2>1 DEF Queued, In
<1>5. Hands' /\ Held' = Held /\ Removing' = Removing
  BY <1>1 DEF AccountInv, Hands, Held, Removing
<1>6. Gone' \subseteq Gone
  BY <1>1, <1>3, <1>4, <1>5 DEF Gone
<1>7. IsFiniteSet(placed)'
  BY <1>1, FS_AddElement DEF AccountInv
<1>8. paid + Cardinality(Removing) \in Nat
  BY <1>1, FiniteSets DEF AccountInv, TypeOK
<1>9. paid' + Cardinality(Removing') = paid + Cardinality(Removing)
  BY <1>1, <1>5
<1> QED
  BY <1>5, <1>6, <1>7, <1>8, <1>9 DEF Settles

(* A crash loses what the requests have in hand, at most one order each. *)
LEMMA CrashAccount ==
  ASSUME AccountInv, Crash
  PROVE  Hands' /\ IsFiniteSet(placed)' /\ RemovalAccounting'
<1> DEFINE M == {c \in Couriers : pc[c] \in {"measure", "addOrder"}}
           f == [c \in M |-> held[c]]
           T == {held[c] : c \in M}
<1>1. /\ UNCHANGED <<list, placed>> /\ paid \in Nat /\ paid' = paid + Cardinality(InFlight)
      /\ pc' = [c \in Couriers |-> "idle"] /\ held' = [c \in Couriers |-> None]
  BY DEF AccountInv, DispatchInv, TypeOK, Crash, listVars
<1>2. /\ IsFiniteSet(Gone) /\ Cardinality(Gone) \in Nat
      /\ IsFiniteSet(Removing) /\ Cardinality(Removing) \in Nat
      /\ Cardinality(Gone) <= paid + Cardinality(Removing)
  BY FiniteSets DEF AccountInv, RemovalAccounting
<1>3. IsFiniteSet(M) /\ Cardinality(M) \in Nat
  <2>1. M \in SUBSET Couriers
    OBVIOUS
  <2> HIDE DEF M
  <2>2. IsFiniteSet(M)
    BY <2>1, ConstantsAssumption, FS_Subset
  <2> QED
    BY <2>2, FS_CardinalityType
<1>4. Cardinality(InFlight) = Cardinality(M) + Cardinality(Removing)
  <2>1. InFlight = M \cup Removing /\ M \cap Removing = {}
    BY DEF InFlight, Removing
  <2> HIDE DEF M
  <2>2. Cardinality(M \cup Removing)
          = Cardinality(M) + Cardinality(Removing) - Cardinality(M \cap Removing)
    BY <1>2, <1>3, FS_Union
  <2>3. Cardinality(M \cap Removing) = 0
    BY <2>1, FS_EmptySet
  <2> QED
    BY <1>2, <1>3, <2>1, <2>2, <2>3
<1>5. IsFiniteSet(T) /\ Cardinality(T) <= Cardinality(M) /\ Cardinality(T) \in Nat
  <2>1. f \in Surjection(M, T)
    BY DEF Surjection
  <2> HIDE DEF f, M, T
  <2>2. IsFiniteSet(T) /\ Cardinality(T) <= Cardinality(M)
    BY <1>3, <2>1, FS_Surjection
  <2> QED
    BY <2>2, FS_CardinalityType
<1>6. Gone' \subseteq Gone \cup T
  <2>1. Held \subseteq T
    BY DEF AccountInv, Hands, Held
  <2> QED
    BY <1>1, <2>1, SameQueue, GoneKept
<1>7. Cardinality(Gone') <= Cardinality(Gone) + Cardinality(M) /\ Cardinality(Gone') \in Nat
  <2> HIDE DEF T, M
  <2>1. /\ IsFiniteSet(Gone \cup T)
        /\ Cardinality(Gone \cup T) = Cardinality(Gone) + Cardinality(T) - Cardinality(Gone \cap T)
    BY <1>2, <1>5, FS_Union
  <2>2. Cardinality(Gone \cap T) \in Nat /\ Cardinality(Gone \cup T) \in Nat
    <3>1. Gone \cap T \in SUBSET Gone
      OBVIOUS
    <3>2. IsFiniteSet(Gone \cap T)
      BY <1>2, <3>1, FS_Subset
    <3> QED
      BY <2>1, <3>2, FS_CardinalityType
  <2>3. IsFiniteSet(Gone') /\ Cardinality(Gone') <= Cardinality(Gone \cup T)
    <3>1. Gone' \in SUBSET (Gone \cup T)
      BY <1>6
    <3> QED
      BY <2>1, <3>1, FS_Subset
  <2>4. Cardinality(Gone') \in Nat
    BY <2>3, FS_CardinalityType
  <2> QED
    BY <1>2, <1>3, <1>5, <2>1, <2>2, <2>3, <2>4
<1>8. Cardinality(Removing') = 0
  <2>1. Removing' = {}
    BY <1>1 DEF Removing
  <2> QED
    BY <2>1, FS_EmptySet
<1>9. Hands' /\ IsFiniteSet(placed)'
  BY <1>1 DEF Hands, AccountInv
<1>10. Cardinality(Gone') <= paid'
  <2> HIDE DEF M
  <2> QED
    BY <1>1, <1>2, <1>3, <1>4, <1>7
<1>11. paid' \in Nat
  <2> HIDE DEF M
  <2> QED
    BY <1>1, <1>2, <1>3, <1>4
<1> QED
  BY <1>8, <1>9, <1>10, <1>11 DEF RemovalAccounting

LEMMA AccountStep == AccountInv /\ [Next]_vars => AccountInv'
<1> SUFFICES ASSUME AccountInv, [Next]_vars PROVE AccountInv'
  OBVIOUS
<1>1. DispatchInv'
  BY StepInv DEF AccountInv
<1>2. paid' \in Nat
  BY <1>1 DEF DispatchInv, TypeOK
<1>3. ASSUME Accounts PROVE AccountInv'
  <2>1. IsFiniteSet(placed)'
    BY <1>3 DEF Accounts, AccountInv
  <2>2. RemovalAccounting'
    BY <1>2, <1>3, <2>1, AccountKept DEF Accounts
  <2> QED
    BY <1>1, <1>3, <2>1, <2>2 DEF AccountInv, Accounts
<1>4. ASSUME NEW o \in Orders, Place(o) PROVE AccountInv'
  <2>1. Hands' /\ IsFiniteSet(placed)' /\ Settles
    BY <1>4, PlaceAccount
  <2>2. RemovalAccounting'
    BY <1>2, <2>1, AccountKept
  <2> QED
    BY <1>1, <2>1, <2>2 DEF AccountInv
<1>5. ASSUME NEW c \in Couriers, Call(c) \/ Step(c) PROVE AccountInv'
  <2>1. Accounts
    BY <1>5, QuietSteps, BRPopLPushAccount, GetOrderAccount, MeasureAccount, AddOrderAccount,
       RemoveSetAccount, RemoveRemAccount DEF Step
  <2> QED
    BY <1>3, <2>1
<1>6. CASE Crash
  BY <1>1, <1>6, CrashAccount DEF AccountInv
<1>7. CASE UNCHANGED vars
  <2>1. UNCHANGED <<list, pc, held, placed, paid>>
    BY <1>7 DEF vars, listVars, localVars, ghosts
  <2> QED
    BY <1>1, <2>1 DEF AccountInv, Hands, RemovalAccounting, Gone, Queued, Held, Removing
<1> QED
  BY <1>4, <1>5, <1>6, <1>7 DEF Next

LEMMA AccountInit == Init => AccountInv
<1> SUFFICES ASSUME Init PROVE AccountInv
  OBVIOUS
<1>1. placed = {} /\ Gone = {} /\ Removing = {} /\ paid = 0
  BY DEF Init, Gone, Removing
<1>2. RemovalAccounting /\ IsFiniteSet(placed)
  BY <1>1, FS_EmptySet DEF RemovalAccounting
<1>3. Hands
  BY DEF Init, Hands
<1> QED
  BY <1>2, <1>3, InitInv DEF AccountInv

(* A call costs the city at most one order: every order that is in no list  *)
(* and in no hand was carried by a reply, or its removal's reply was lost,  *)
(* or its removal is under way.                                             *)
THEOREM RemovalsArePaid == Spec => []RemovalAccounting
<1>1. AccountInv => RemovalAccounting
  BY DEF AccountInv
<1> QED
  BY AccountInit, <1>1, AccountStep, PTL DEF Spec

-----------------------------------------------------------------------------
(* Where every city has one courier: what its scan knows of its list.       *)
OnePerCity == \A c, d \in Couriers : City(c) = City(d) => c = d

Remembers(c) == pc[c] \in {"loop", "getOrderAt", "rmIndex", "rmSet"}
Follows(c) ==
  LET s == scan[c]
      l == list[City(c)]
  IN
  /\ Remembers(c) \/ pc[c] = "rmRem" => s.order \in placed
  /\ Remembers(c) => s.index < s.curs /\ s.curs <= Len(l) /\ At(l, s.index) = s.order
  /\ pc[c] = "rmSet" => s.read = s.order
  /\ pc[c] = "rmRem" => s.read = s.order /\ ~ In(l, s.order)

(* While no request to the routing API fails, it also remembers the least
   distance of the orders it passed. *)
SeenCloser(c) == Remembers(c) =>
  /\ scan[c].dist \in Nat
  /\ \A i \in 0 .. scan[c].curs - 1 :
       LET o == At(list[City(c)], i) IN o \in Orders => scan[c].dist <= Distance[c][o]

SerialInv == DispatchInv /\ \A c \in Couriers : Follows(c)
ScanInv == SerialInv /\ \A c \in Couriers : SeenCloser(c)

Grown(new, old) == new = old \/ \E o \in Orders \ placed : new = Append(old, o)

(* What the others do to a courier and to the list of its city. *)
LEMMA Aside ==
  ASSUME DispatchInv, OnePerCity, [Next]_vars, NEW c \in Couriers
  PROVE  \/ Step(c) \/ Call(c)
         \/ pc'[c] = "idle"
         \/ /\ pc'[c] = pc[c] /\ scan'[c] = scan[c]
            /\ Grown(list'[City(c)], list[City(c)])
<1>0. /\ TypeOK /\ City(c) \in Cities /\ list \in [Cities -> Seq(Entry)]
      /\ pc \in [Couriers -> PC] /\ scan \in [Couriers -> ScanType]
  BY ListTyped DEF TypeOK
<1>1. CASE UNCHANGED vars
  BY <1>1 DEF vars, listVars, localVars, Grown
<1>2. ASSUME NEW o \in Orders, Place(o)
      PROVE  /\ pc'[c] = pc[c] /\ scan'[c] = scan[c]
             /\ Grown(list'[City(c)], list[City(c)])
  <2>1. /\ list' = [list EXCEPT ![OrderCity[o]] = Append(@, o)] /\ o \in Orders \ placed
        /\ UNCHANGED <<pc, scan>>
    BY <1>2 DEF Place, localVars
  <2>2. list'[City(c)] = list[City(c)] \/ list'[City(c)] = Append(list[City(c)], o)
    BY <1>0, <2>1
  <2> QED
    BY <2>1, <2>2 DEF Grown
<1>3. ASSUME NEW d \in Couriers \ {c}, Call(d)
      PROVE  /\ pc'[c] = pc[c] /\ scan'[c] = scan[c]
             /\ Grown(list'[City(c)], list[City(c)])
  BY <1>0, <1>3 DEF Call, Goto, listVars, Grown
<1>4. ASSUME NEW d \in Couriers \ {c}, Step(d)
      PROVE  /\ pc'[c] = pc[c] /\ scan'[c] = scan[c]
             /\ Grown(list'[City(c)], list[City(c)])
  <2>1. City(d) # City(c)
    BY DEF OnePerCity
  <2>2. ASSUME NEW q \in Couriers \ {c}, End(q) PROVE pc'[c] = pc[c] /\ scan'[c] = scan[c]
    BY <1>0, <2>2 DEF End, Goto
  <2>3. ASSUME NEW q \in Couriers \ {c}, NEW l, Goto(q, l) PROVE pc'[c] = pc[c]
    BY <1>0, <2>3 DEF Goto
  <2>4. ASSUME NEW l, list' = [list EXCEPT ![City(d)] = l] PROVE list'[City(c)] = list[City(c)]
    BY <1>0, <2>1, <2>4
  <2>5. list'[City(c)] = list[City(c)]
    <3>1. CASE GetLen(d) \/ AddCoursier(d) \/ Measure(d) \/ First(d) \/ Loop(d)
               \/ GetOrderAt(d) \/ RemoveIndex(d)
      BY <3>1 DEF GetLen, AddCoursier, Measure, First, Loop, GetOrderAt, RemoveIndex, listVars
    <3>2. CASE BRPopLPush(d) \/ AddOrder(d) \/ RemoveRem(d)
      BY <2>4, <3>2 DEF BRPopLPush, AddOrder, RemoveRem
    <3>3. CASE GetOrder(d)
      BY <2>4, <3>3 DEF GetOrder
    <3>4. CASE RemoveSet(d)
      BY <2>4, <3>4 DEF RemoveSet
    <3> QED
      BY <1>4, <3>1, <3>2, <3>3, <3>4 DEF Step
  <2>6. pc'[c] = pc[c] /\ scan'[c] = scan[c]
    <3>1. CASE GetLen(d) \/ AddCoursier(d) \/ BRPopLPush(d) \/ AddOrder(d)
      <4>1. UNCHANGED scan
        BY <3>1 DEF GetLen, AddCoursier, BRPopLPush, AddOrder
      <4>2. \E l : Goto(d, l)
        BY <3>1 DEF GetLen, AddCoursier, BRPopLPush, AddOrder
      <4> QED
        BY <2>3, <4>1, <4>2
    <3>2. CASE GetOrder(d)
      <4>1. End(d) \/ (Goto(d, "measure") /\ UNCHANGED scan)
        BY <3>2 DEF GetOrder
      <4> QED
        BY <2>2, <2>3, <4>1
    <3>3. CASE Measure(d)
      <4>1. End(d) \/ (Goto(d, "addOrder") /\ UNCHANGED scan)
        BY <3>3 DEF Measure, Reply
      <4> QED
        BY <2>2, <2>3, <4>1
    <3>4. CASE First(d) \/ GetOrderAt(d) \/ RemoveIndex(d)
      <4>1. End(d) \/ \E l, s : Goto(d, l) /\ scan' = [scan EXCEPT ![d] = s]
        <5>1. First(d) => End(d) \/ \E l, s : Goto(d, l) /\ scan' = [scan EXCEPT ![d] = s]
          BY Zenon DEF First
        <5>2. GetOrderAt(d) => End(d) \/ \E l, s : Goto(d, l) /\ scan' = [scan EXCEPT ![d] = s]
          BY Zenon DEF GetOrderAt
        <5>3. RemoveIndex(d) =>
                scan' = [scan EXCEPT ![d] = [scan[d] EXCEPT
                           !.read = At(list[City(d)], scan[d].index)]] /\ Goto(d, "rmSet")
          BY DEF RemoveIndex
        <5> QED
          BY <3>4, <5>1, <5>2, <5>3
      <4>2. ASSUME NEW s, scan' = [scan EXCEPT ![d] = s] PROVE scan'[c] = scan[c]
        BY <1>0, <4>2
      <4> QED
        BY <2>2, <2>3, <4>1, <4>2
    <3>5. CASE Loop(d)
      <4>1. End(d) \/ \E l : Goto(d, l) /\ UNCHANGED scan
        BY <3>5 DEF Loop
      <4> QED
        BY <2>2, <2>3, <4>1
    <3>6. CASE RemoveSet(d)
      <4>1. End(d) \/ (Goto(d, "rmRem") /\ UNCHANGED scan)
        BY <3>6 DEF RemoveSet
      <4> QED
        BY <2>2, <2>3, <4>1
    <3>7. CASE RemoveRem(d)
      <4>1. End(d)
        BY <3>7 DEF RemoveRem, Reply
      <4> QED
        BY <2>2, <4>1
    <3> QED
      BY <1>4, <3>1, <3>2, <3>3, <3>4, <3>5, <3>6, <3>7 DEF Step
  <2> QED
    BY <2>5, <2>6 DEF Grown
<1>5. CASE Crash
  BY <1>5 DEF Crash
<1> QED
  BY <1>1, <1>2, <1>3, <1>4, <1>5 DEF Next

(* A list that grew holds the orders it held, where it held them. *)
LEMMA GrownKeeps ==
  ASSUME NEW old \in Seq(Entry), NEW new, Grown(new, old)
  PROVE  /\ new \in Seq(Entry) /\ Len(old) <= Len(new) /\ Len(old) \in Nat
         /\ \A i \in 0 .. Len(old) - 1 : At(new, i) = At(old, i)
         /\ \A p \in placed : In(new, p) => In(old, p)
<1>1. CASE new = old
  BY <1>1
<1>2. CASE \E o \in Orders \ placed : new = Append(old, o)
  <2>1. PICK o \in Orders \ placed : new = Append(old, o)
    BY <1>2
  <2>2. /\ new \in Seq(Entry) /\ Len(new) = Len(old) + 1 /\ Len(old) \in Nat
        /\ \A i \in 1 .. Len(old) : new[i] = old[i]
        /\ new[Len(old) + 1] = o
        /\ DOMAIN new = 1 .. Len(old) + 1 /\ DOMAIN old = 1 .. Len(old)
    <3>1. o \in Entry
      BY <2>1 DEF Entry
    <3> QED
      BY <2>1, <3>1
  <2>3. \A i \in 0 .. Len(old) - 1 : At(new, i) = At(old, i)
    BY <2>2 DEF At
  <2>4. \A p \in placed : In(new, p) => In(old, p)
    BY <2>1, <2>2 DEF In
  <2> QED
    BY <2>2, <2>3, <2>4
<1> QED
  BY <1>1, <1>2 DEF Grown

LEMMA Forgets ==
  ASSUME NEW c \in Couriers,
         pc'[c] \notin {"loop", "getOrderAt", "rmIndex", "rmSet", "rmRem"}
  PROVE  Follows(c)' /\ SeenCloser(c)'
BY DEF Follows, SeenCloser, Remembers

LEMMA EndForgets ==
  ASSUME DispatchInv, NEW c \in Couriers, End(c)
  PROVE  Follows(c)' /\ SeenCloser(c)'
<1>1. pc'[c] = "idle"
  BY DEF End, Goto, DispatchInv, TypeOK
<1> QED
  BY <1>1, Forgets

LEMMA AtTyped ==
  ASSUME NEW s \in Seq(Entry), NEW i \in Nat
  PROVE  /\ At(s, i) \in Entry \cup {None}
         /\ At(s, i) \in Orders => i < Len(s) /\ In(s, At(s, i))
         /\ i < Len(s) => At(s, i) = s[i + 1]
<1>1. i < Len(s) => i + 1 \in 1 .. Len(s) /\ s[i + 1] \in Entry
  OBVIOUS
<1> QED
  BY <1>1, ConstantsAssumption DEF At, In

LEMMA AsideFollows ==
  ASSUME SerialInv, placed \subseteq placed', NEW c \in Couriers,
         pc'[c] = pc[c], scan'[c] = scan[c], Grown(list'[City(c)], list[City(c)])
  PROVE  Follows(c)' /\ (SeenCloser(c) => SeenCloser(c)')
<1> DEFINE old == list[City(c)]
           new == list'[City(c)]
           s == scan[c]
<1>1. /\ Follows(c) /\ old \in Seq(Entry) /\ s \in ScanType
  BY ListTyped DEF SerialInv, DispatchInv, TypeOK
<1>2. /\ Len(old) <= Len(new) /\ Len(old) \in Nat /\ Len(new) \in Nat
      /\ \A i \in 0 .. Len(old) - 1 : At(new, i) = At(old, i)
      /\ \A p \in placed : In(new, p) => In(old, p)
  <2> HIDE DEF old, new
  <2>1. Grown(new, old)
    BY DEF old, new
  <2> QED
    BY <1>1, <2>1, GrownKeeps
<1>3. s.index \in Nat /\ s.curs \in Nat
  BY <1>1 DEF ScanType
<1>4. Remembers(c) => s.index \in 0 .. Len(old) - 1 /\ s.curs <= Len(new) /\ s.index < s.curs
                      /\ \A i \in 0 .. s.curs - 1 : i \in 0 .. Len(old) - 1
  BY <1>1, <1>2, <1>3 DEF Follows
<1>5. Follows(c)'
  BY <1>1, <1>2, <1>4 DEF Follows, Remembers, City
<1>6. SeenCloser(c) => SeenCloser(c)'
  BY <1>2, <1>4 DEF SeenCloser, Remembers, City
<1> QED
  BY <1>5, <1>6

LEMMA FirstFollows ==
  ASSUME SerialInv, NEW c \in Couriers, First(c)
  PROVE  Follows(c)' /\ (~ApiMayFail => SeenCloser(c)')
<1> DEFINE l == list[City(c)]
           o == At(l, 0)
<1>1. DispatchInv /\ l \in Seq(Entry) /\ pc \in [Couriers -> PC] /\ scan \in [Couriers -> ScanType]
  BY ListTyped DEF SerialInv, DispatchInv, TypeOK
<1>2. CASE ~ Readable(o)
  BY <1>1, <1>2, EndForgets DEF First
<1>3. CASE Readable(o)
  <2>1. PICK d \in Distances(c, o) :
          /\ scan' = [scan EXCEPT ![c] = [curs |-> 1, order |-> o, dist |-> d,
                                          index |-> 0, read |-> None]]
          /\ Goto(c, "loop")
    BY <1>3 DEF First
  <2>2. UNCHANGED <<list, placed>>
    BY DEF First, listVars, ghosts
  <2>3. o \in Orders /\ 0 < Len(l) /\ o \in placed
    <3>1. o \in Orders /\ 0 < Len(l) /\ In(l, o)
      BY <1>1, <1>3, AtTyped DEF Readable
    <3>2. o \in Queued
      BY <1>1, <3>1, ListsSeen, ListTyped DEF DispatchInv
    <3> QED
      BY <1>1, <3>1, <3>2 DEF DispatchInv, PlacedFirst
  <2>4. /\ pc'[c] = "loop"
        /\ scan'[c] = [curs |-> 1, order |-> o, dist |-> d, index |-> 0, read |-> None]
    BY <1>1, <2>1 DEF Goto
  <2>5. Len(l) \in Nat
    BY <1>1
  <2>6. Follows(c)'
    <3>1. /\ scan'[c].order = o /\ scan'[c].index = 0 /\ scan'[c].curs = 1
          /\ list'[City(c)] = l
      BY <2>2, <2>4
    <3> HIDE DEF o
    <3>2. o = At(l, 0)
      BY DEF o
    <3> QED
      BY <2>2, <2>3, <2>4, <2>5, <3>1, <3>2 DEF Follows, Remembers, City
  <2>7. ASSUME ~ApiMayFail PROVE SeenCloser(c)'
    <3>1. d = Distance[c][o] /\ d \in Nat
      BY <2>1, <2>3, <2>7, ConstantsAssumption DEF Distances
    <3>2. \A i \in 0 .. 1 - 1 : At(l, i) = o
      OBVIOUS
    <3>3. scan'[c].dist = d /\ scan'[c].curs = 1 /\ list'[City(c)] = l
      BY <2>2, <2>4
    <3> HIDE DEF o, l
    <3> QED
      BY <3>1, <3>2, <3>3 DEF SeenCloser, City
  <2> QED
    BY <2>6, <2>7
<1> QED
  BY <1>2, <1>3

LEMMA GetOrderAtFollows ==
  ASSUME SerialInv, NEW c \in Couriers, GetOrderAt(c)
  PROVE  Follows(c)' /\ (~ApiMayFail /\ SeenCloser(c) => SeenCloser(c)')
<1> DEFINE l == list[City(c)]
           s == scan[c]
           o == At(l, s.curs)
<1>1. /\ DispatchInv /\ l \in Seq(Entry) /\ pc \in [Couriers -> PC] /\ scan \in [Couriers -> ScanType]
      /\ s \in ScanType /\ pc[c] = "getOrderAt" /\ Follows(c) /\ Len(l) \in Nat
  BY ListTyped DEF SerialInv, DispatchInv, TypeOK, GetOrderAt
<1>2. s.curs \in Nat /\ s.index \in Nat
  BY <1>1 DEF ScanType
<1>3. CASE ~ Readable(o)
  BY <1>1, <1>3, EndForgets DEF GetOrderAt
<1>4. CASE Readable(o)
  <2>1. PICK d \in Distances(c, o) :
          /\ scan' = [scan EXCEPT ![c] = Weigh(@, o, d)]
          /\ Goto(c, "loop")
    BY <1>4 DEF GetOrderAt
  <2>2. UNCHANGED <<list, placed>>
    BY DEF GetOrderAt, listVars, ghosts
  <2>3. o \in Orders /\ s.curs < Len(l) /\ o \in placed
    <3>1. o \in Orders /\ s.curs < Len(l) /\ In(l, o)
      BY <1>1, <1>2, <1>4, AtTyped DEF Readable
    <3>2. o \in Queued
      BY <1>1, <3>1, ListsSeen, ListTyped DEF DispatchInv
    <3> QED
      BY <1>1, <3>1, <3>2 DEF DispatchInv, PlacedFirst
  <2>4. /\ pc'[c] = "loop" /\ scan'[c] = Weigh(s, o, d)
    BY <1>1, <2>1 DEF Goto
  <2>5. /\ s.order \in placed /\ s.index < s.curs /\ At(l, s.index) = s.order
    BY <1>1 DEF Follows, Remembers
  <2>6. \/ /\ Closer(d, s.dist)
           /\ scan'[c].curs = s.curs + 1 /\ scan'[c].index = s.curs
           /\ scan'[c].order = o /\ scan'[c].dist = d
        \/ /\ ~Closer(d, s.dist)
           /\ scan'[c].curs = s.curs + 1 /\ scan'[c].index = s.index
           /\ scan'[c].order = s.order /\ scan'[c].dist = s.dist
    <3> DEFINE t == [s EXCEPT !.curs = @ + 1]
    <3>1. /\ t.curs = s.curs + 1 /\ t.index = s.index /\ t.order = s.order /\ t.dist = s.dist
      BY <1>1 DEF ScanType
    <3> HIDE DEF t
    <3>2. Weigh(s, o, d) = IF Closer(d, s.dist)
            THEN [curs |-> s.curs + 1, order |-> o, dist |-> d, index |-> s.curs, read |-> None]
            ELSE t
      BY DEF Weigh, t
    <3> HIDE DEF s, o
    <3> QED
      BY <2>4, <3>1, <3>2
  <2>7. list'[City(c)] = l /\ o = At(l, s.curs)
    BY <2>2
  <2> HIDE DEF l, o, s
  <2>8. Follows(c)'
    BY <1>1, <1>2, <2>2, <2>3, <2>4, <2>5, <2>6, <2>7 DEF Follows, Remembers, City
  <2>9. ASSUME ~ApiMayFail, SeenCloser(c) PROVE SeenCloser(c)'
    <3>1. d = Distance[c][o] /\ d \in Nat
      BY <2>1, <2>3, <2>9, ConstantsAssumption DEF Distances
    <3>2. /\ s.dist \in Nat
          /\ \A i \in 0 .. s.curs - 1 : At(l, i) \in Orders => s.dist <= Distance[c][At(l, i)]
      BY <1>1, <2>9 DEF SeenCloser, Remembers, s, l
    <3>3. scan'[c].dist \in Nat /\ scan'[c].dist <= d /\ scan'[c].dist <= s.dist
      BY <2>6, <3>1, <3>2, ConstantsAssumption DEF Closer
    <3>4. ASSUME NEW i \in 0 .. scan'[c].curs - 1, At(l, i) \in Orders
          PROVE  scan'[c].dist <= Distance[c][At(l, i)]
      <4>1. CASE i = s.curs
        BY <2>7, <3>1, <3>3, <4>1
      <4>2. CASE i # s.curs
        <5>1. i \in 0 .. s.curs - 1
          BY <1>2, <2>6, <4>2
        <5>2. s.dist <= Distance[c][At(l, i)] /\ Distance[c][At(l, i)] \in Nat
          BY <3>2, <3>4, <5>1, ConstantsAssumption
        <5> QED
          BY <3>2, <3>3, <5>2
      <4> QED
        BY <4>1, <4>2
    <3> QED
      BY <2>7, <3>3, <3>4 DEF SeenCloser, City
  <2> QED
    BY <2>8, <2>9
<1> QED
  BY <1>3, <1>4

LEMMA LoopFollows ==
  ASSUME SerialInv, NEW c \in Couriers, Loop(c)
  PROVE  Follows(c)' /\ (SeenCloser(c) => SeenCloser(c)')
<1>1. /\ DispatchInv /\ pc \in [Couriers -> PC] /\ Follows(c) /\ pc[c] = "loop"
      /\ UNCHANGED <<list, placed>>
  BY DEF SerialInv, DispatchInv, TypeOK, Loop, listVars, ghosts
<1>2. CASE End(c)
  BY <1>1, <1>2, EndForgets
<1>3. CASE (Goto(c, "getOrderAt") \/ Goto(c, "rmIndex")) /\ UNCHANGED scan
  <2>1. pc'[c] \in {"getOrderAt", "rmIndex"}
    BY <1>1, <1>3 DEF Goto
  <2> QED
    BY <1>1, <1>3, <2>1 DEF Follows, SeenCloser, Remembers, City
<1> QED
  BY <1>2, <1>3 DEF Loop

LEMMA RemoveIndexFollows ==
  ASSUME SerialInv, NEW c \in Couriers, RemoveIndex(c)
  PROVE  Follows(c)' /\ (SeenCloser(c) => SeenCloser(c)')
<1> DEFINE o == At(list[City(c)], scan[c].index)
           t == [scan[c] EXCEPT !.read = o]
<1>1. /\ pc \in [Couriers -> PC] /\ scan \in [Couriers -> ScanType] /\ Follows(c)
      /\ pc[c] = "rmIndex" /\ UNCHANGED <<list, placed>>
  BY DEF SerialInv, DispatchInv, TypeOK, RemoveIndex, listVars, ghosts
<1>2. pc'[c] = "rmSet" /\ scan'[c] = t
  <2>1. Goto(c, "rmSet") /\ scan' = [scan EXCEPT ![c] = t]
    BY DEF RemoveIndex
  <2> HIDE DEF t
  <2> QED
    BY <1>1, <2>1 DEF Goto
<1>3. /\ t.read = o /\ t.order = scan[c].order /\ t.index = scan[c].index
      /\ t.curs = scan[c].curs /\ t.dist = scan[c].dist
  <2>1. scan[c] \in ScanType
    BY <1>1
  <2> HIDE DEF o
  <2> QED
    BY <2>1 DEF ScanType
<1>4. o = scan[c].order
  BY <1>1 DEF Follows, Remembers
<1> HIDE DEF o, t
<1> QED
  BY <1>1, <1>2, <1>3, <1>4 DEF Follows, SeenCloser, Remembers, City

LEMMA RemoveSetFollows ==
  ASSUME SerialInv, NEW c \in Couriers, RemoveSet(c)
  PROVE  /\ Follows(c)' /\ SeenCloser(c)'
         /\ scan[c].order = list[City(c)][scan[c].index + 1]
         /\ scan[c].index < Len(list[City(c)]) /\ scan[c].order \in placed
<1> DEFINE old == list[City(c)]
           i == scan[c].index
           o == scan[c].order
           new == LSet(old, i)
<1>1. /\ DispatchInv /\ TypeOK /\ City(c) \in Cities /\ old \in Seq(Entry)
      /\ pc[c] = "rmSet" /\ Follows(c) /\ UNCHANGED placed
  BY ListTyped DEF SerialInv, RemoveSet, ghosts
<1>2. i \in Nat /\ scan[c].curs \in Nat /\ Len(old) \in Nat
  BY <1>1 DEF TypeOK, ScanType
<1>3. i < Len(old) /\ At(old, i) = o /\ o \in placed /\ o \in Orders /\ scan[c].read = o
  BY <1>1, <1>2 DEF Follows, Remembers, TypeOK
<1>4. o = old[i + 1]
  BY <1>1, <1>2, <1>3, AtTyped
<1>5. list' = [list EXCEPT ![City(c)] = new] /\ Goto(c, "rmRem") /\ UNCHANGED scan
  BY <1>3 DEF RemoveSet
<1>6. list'[City(c)] = new /\ pc'[c] = "rmRem"
  <2> HIDE DEF new
  <2> QED
    BY <1>1, <1>5 DEF TypeOK, Goto
<1>7. ~ In(new, o)
  <2>1. Distinct(old)
    BY <1>1, ListsSeen DEF DispatchInv
  <2>2. /\ DOMAIN new = DOMAIN old /\ i + 1 \in DOMAIN old
        /\ \A j \in DOMAIN old : new[j] = IF j = i + 1 THEN RemoveIt ELSE old[j]
    BY <1>1, <1>2, <1>3 DEF LSet
  <2> HIDE DEF new
  <2> QED
    BY <1>3, <1>4, <2>1, <2>2, ConstantsAssumption DEF In, Distinct
<1>8. Follows(c)'
  <2> HIDE DEF new
  <2> QED
    BY <1>1, <1>3, <1>5, <1>6, <1>7 DEF Follows, Remembers, City
<1>9. SeenCloser(c)'
  BY <1>6 DEF SeenCloser, Remembers
<1> QED
  BY <1>3, <1>4, <1>8, <1>9

LEMMA PlacedGrows == [Next]_vars => placed \subseteq placed'
<1>1. ASSUME NEW c \in Couriers, Step(c) PROVE UNCHANGED placed
  BY <1>1 DEF Step, GetLen, AddCoursier, BRPopLPush, GetOrder, Measure, AddOrder, First, Loop,
              GetOrderAt, RemoveIndex, RemoveSet, RemoveRem, ghosts
<1>2. ASSUME NEW o \in Orders, Place(o) PROVE placed \subseteq placed'
  BY <1>2 DEF Place
<1>3. (\E c \in Couriers : Call(c)) \/ Crash \/ UNCHANGED vars => UNCHANGED placed
  BY DEF Call, Crash, vars, ghosts
<1> QED
  BY <1>1, <1>2, <1>3 DEF Next

LEMMA FollowsStep ==
  ASSUME OnePerCity, SerialInv, [Next]_vars, NEW c \in Couriers
  PROVE  Follows(c)' /\ (~ApiMayFail /\ SeenCloser(c) => SeenCloser(c)')
<1> DEFINE Goal == Follows(c)' /\ (~ApiMayFail /\ SeenCloser(c) => SeenCloser(c)')
<1>0. DispatchInv /\ pc \in [Couriers -> PC] /\ placed \subseteq placed'
  BY PlacedGrows DEF SerialInv, DispatchInv, TypeOK
<1>1. ASSUME pc'[c] \notin {"loop", "getOrderAt", "rmIndex", "rmSet", "rmRem"} PROVE Goal
  BY <1>1, Forgets
<1>2. ASSUME End(c) PROVE Goal
  BY <1>0, <1>2, EndForgets
<1>3. ASSUME NEW l, Goto(c, l), l \notin {"loop", "getOrderAt", "rmIndex", "rmSet", "rmRem"} PROVE Goal
  <2>1. pc'[c] = l
    BY <1>0, <1>3 DEF Goto
  <2> HIDE DEF Goal
  <2> QED
    BY <1>1, <1>3, <2>1
<1> HIDE DEF Goal
<1>4. Call(c) \/ GetLen(c) \/ AddCoursier(c) \/ BRPopLPush(c) \/ AddOrder(c) => Goal
  <2>1. Call(c) \/ AddCoursier(c) \/ BRPopLPush(c) \/ AddOrder(c) => Goal
    BY <1>3 DEF Call, AddCoursier, BRPopLPush, AddOrder
  <2>2. GetLen(c) => Goal
    <3>1. SUFFICES ASSUME GetLen(c) PROVE Goal
      OBVIOUS
    <3>2. Goto(c, "addCoursier") \/ Goto(c, "first")
      BY <3>1 DEF GetLen
    <3> QED
      BY <1>3, <3>2
  <2> QED
    BY <2>1, <2>2
<1>5. ASSUME GetOrder(c) PROVE Goal
  <2>1. End(c) \/ Goto(c, "measure")
    BY <1>5 DEF GetOrder
  <2> QED
    BY <1>2, <1>3, <2>1
<1>6. ASSUME Measure(c) PROVE Goal
  <2>1. End(c) \/ Goto(c, "addOrder")
    BY <1>6 DEF Measure, Reply
  <2> QED
    BY <1>2, <1>3, <2>1
<1>7. ASSUME RemoveRem(c) PROVE Goal
  <2>1. End(c)
    BY <1>7 DEF RemoveRem, Reply
  <2> QED
    BY <1>2, <2>1
<1>8. ASSUME First(c) \/ Loop(c) \/ GetOrderAt(c) \/ RemoveIndex(c) \/ RemoveSet(c) PROVE Goal
  BY <1>8, FirstFollows, LoopFollows, GetOrderAtFollows, RemoveIndexFollows, RemoveSetFollows DEF Goal
<1>9. ASSUME pc'[c] = pc[c], scan'[c] = scan[c], Grown(list'[City(c)], list[City(c)]) PROVE Goal
  BY <1>0, <1>9, AsideFollows DEF Goal
<1>10. ASSUME pc'[c] = "idle" PROVE Goal
  BY <1>1, <1>10
<1>11. Goal
  BY <1>0, <1>4, <1>5, <1>6, <1>7, <1>8, <1>9, <1>10, Aside DEF Step
<1> QED
  BY <1>11 DEF Goal

LEMMA SerialStep == OnePerCity /\ SerialInv /\ [Next]_vars => SerialInv'
<1> SUFFICES ASSUME OnePerCity, SerialInv, [Next]_vars PROVE SerialInv'
  OBVIOUS
<1> QED
  BY StepInv, FollowsStep DEF SerialInv

LEMMA SerialInit == Init => ScanInv
<1> SUFFICES ASSUME Init PROVE ScanInv
  OBVIOUS
<1>1. \A c \in Couriers : pc[c] = "idle"
  BY DEF Init
<1> QED
  BY <1>1, InitInv DEF ScanInv, SerialInv, Follows, SeenCloser, Remembers

(* What a scan removes is the closest of the orders it passed, where every  *)
(* city has one courier and the routing API answers.                        *)
THEOREM ScansFindTheClosest == OnePerCity /\ ~ApiMayFail => (Spec => []ScanIsClosest)
<1> SUFFICES ASSUME OnePerCity, ~ApiMayFail PROVE Spec => []ScanIsClosest
  OBVIOUS
<1>1. ScanInv /\ [Next]_vars => ScanInv'
  <2> SUFFICES ASSUME ScanInv, [Next]_vars PROVE ScanInv'
    OBVIOUS
  <2>1. SerialInv'
    BY SerialStep DEF ScanInv
  <2>2. \A c \in Couriers : SeenCloser(c)'
    BY FollowsStep DEF ScanInv
  <2> QED
    BY <2>1, <2>2 DEF ScanInv
<1>2. ScanInv => ScanIsClosest
  BY DEF ScanInv, SeenCloser, ScanIsClosest, Scanning, Remembers
<1> QED
  BY SerialInit, <1>1, <1>2, PTL DEF Spec

-----------------------------------------------------------------------------
(* Where every city has one courier and the server does not die, the        *)
(* dispatch implements OrderPool.                                           *)
Waiting == Queued \cup Held \cup Removed

(* An order is in the list, in the hands or in the scan of its own city. *)
Home ==
  /\ \A x \in Cities, p \in Orders : In(list[x], p) => OrderCity[p] = x
  /\ \A c \in Couriers : held[c] # None => OrderCity[held[c]] = City(c)
  /\ \A c \in Removing : OrderCity[scan[c].order] = City(c)

HandedOnce == \A o \in Orders : o \in Waiting \/ o \notin placed => handed[o] = 0

PoolInv == SerialInv /\ Hands /\ Home /\ HandedOnce

(* A step of the pool, and what it keeps. *)
PoolPlace(o) ==
  /\ o \in Orders \ placed /\ placed' = placed \cup {o}
  /\ Waiting' = Waiting \cup {o} /\ UNCHANGED handed
PoolHand(o) ==
  /\ o \in Orders /\ o \in Waiting /\ Waiting' = Waiting \ {o}
  /\ handed' = [handed EXCEPT ![o] = @ + 1] /\ UNCHANGED placed
PoolQuiet == UNCHANGED <<placed, Waiting, handed>>
PoolStep == PoolQuiet \/ \E o \in Orders : PoolPlace(o) \/ PoolHand(o)

LEMMA WaitingPlaced ==
  ASSUME SerialInv
  PROVE  Waiting \subseteq placed
BY DEF SerialInv, DispatchInv, PlacedFirst, Waiting, Removed, Removing, Follows, Remembers

LEMMA StepHandsOver ==
  ASSUME PoolInv, PoolStep, placed' \subseteq Orders
  PROVE  /\ [Pool!Next]_<<placed, Waiting, handed>>
         /\ HandedOnce'
<1>0. handed \in [Orders -> Nat] /\ HandedOnce /\ Waiting \subseteq placed /\ placed \subseteq Orders
  BY WaitingPlaced DEF PoolInv, SerialInv, DispatchInv, TypeOK
<1> HIDE DEF Waiting
<1>1. CASE PoolQuiet
  BY <1>0, <1>1 DEF PoolQuiet, HandedOnce
<1>2. ASSUME NEW o \in Orders, PoolPlace(o)
      PROVE  Pool!Next /\ HandedOnce'
  <2>1. Pool!Place(o)
    BY <1>2 DEF PoolPlace, Pool!Place, Waiting
  <2>2. HandedOnce'
    BY <1>0, <1>2 DEF PoolPlace, HandedOnce
  <2> QED
    BY <2>1, <2>2 DEF Pool!Next
<1>3. ASSUME NEW o \in Orders, PoolHand(o)
      PROVE  Pool!Next /\ HandedOnce'
  <2> DEFINE n == handed[o] + 1
  <2>0. handed[o] = 0 /\ n = 1 /\ handed' = [handed EXCEPT ![o] = n]
    BY <1>0, <1>3 DEF PoolHand, HandedOnce
  <2> HIDE DEF n
  <2>1. handed[o] = 0 /\ handed' = [handed EXCEPT ![o] = 1]
    BY <2>0
  <2>2. Pool!Hand(o)
    BY <1>3, <2>1 DEF PoolHand, Pool!Hand, Waiting
  <2>3. HandedOnce'
    BY <1>0, <1>3, <2>1 DEF PoolHand, HandedOnce
  <2> QED
    BY <2>2, <2>3 DEF Pool!Next
<1> QED
  BY <1>1, <1>2, <1>3 DEF PoolStep

(* Its two halves: the lists, and the locals of the requests. *)
ListsHome == \A x \in Cities, p \in Orders : In(list[x], p) => OrderCity[p] = x
Settled ==
  /\ \A c \in Couriers : held[c] # None => OrderCity[held[c]] = City(c)
  /\ \A c \in Removing : OrderCity[scan[c].order] = City(c)

(* What a command makes of a list when the order o is all it takes. *)
Takes(l, s, o) ==
  /\ \A p \in Orders : In(l, p) => In(s, p) /\ p # o
  /\ \A p \in Orders : In(s, p) => In(l, p) \/ p = o

LEMMA QueueIs ==
  ASSUME TypeOK, Home, NEW x \in Cities, NEW l, list' = [list EXCEPT ![x] = l],
         NEW o, Takes(l, list[x], o), In(list[x], o) \/ o \notin Queued
  PROVE  Queued' = Queued \ {o} /\ ListsHome'
<1>0. /\ \A p \in Orders : In(l, p) => In(list[x], p) /\ p # o
      /\ \A p \in Orders : In(list[x], p) => In(l, p) \/ p = o
  BY DEF Takes
<1>1. \A y \in Cities : list'[y] = IF y = x THEN l ELSE list[y]
  BY DEF TypeOK
<1>2. Queued \subseteq Queued' \cup {o}
  <2>1. \A p \in Orders : In(list[x], p) => In(l, p) \/ p \in {o}
    BY <1>0
  <2> QED
    BY <2>1, QueueKeeps
<1>3. ASSUME NEW y \in Cities, NEW p \in Orders, In(list'[y], p)
      PROVE  In(list[y], p) /\ p # o
  <2>1. CASE y = x
    BY <1>0, <1>1, <1>3, <2>1
  <2>2. CASE y # x
    <3>1. In(list[y], p)
      BY <1>1, <1>3, <2>2
    <3>2. p = o => In(list[x], o)
      BY <3>1 DEF Queued, In
    <3>3. p # o
      BY <2>2, <3>1, <3>2 DEF Home
    <3> QED
      BY <3>1, <3>3
  <2> QED
    BY <2>1, <2>2
<1>4. Queued' \subseteq Queued \ {o}
  BY <1>3 DEF Queued, In
<1> QED
  BY <1>2, <1>3, <1>4 DEF Home, ListsHome

(* An order given to the list of its city. *)
LEMMA QueueGets ==
  ASSUME TypeOK, Home, NEW o \in Orders,
         list' = [list EXCEPT ![OrderCity[o]] = Append(list[OrderCity[o]], o)]
  PROVE  Queued' = Queued \cup {o} /\ ListsHome'
<1> DEFINE x == OrderCity[o]
           l == Append(list[x], o)
<1>1. x \in Cities /\ list[x] \in Seq(Entry) /\ o \in Entry
  BY ConstantsAssumption DEF TypeOK, Entry
<1>2. /\ DOMAIN l = 1 .. Len(list[x]) + 1 /\ DOMAIN list[x] = 1 .. Len(list[x])
      /\ Len(list[x]) \in Nat
      /\ \A i \in 1 .. Len(list[x]) : l[i] = list[x][i]
      /\ l[Len(list[x]) + 1] = o
  BY <1>1
<1>3. \A p : In(l, p) <=> In(list[x], p) \/ p = o
  <2>1. In(l, o)
    BY <1>2 DEF In
  <2>2. \A p : In(list[x], p) => In(l, p)
    BY <1>2 DEF In
  <2>3. \A p : In(l, p) => In(list[x], p) \/ p = o
    BY <1>2 DEF In
  <2> QED
    BY <2>1, <2>2, <2>3
<1>4. \A y \in Cities : list'[y] = IF y = x THEN l ELSE list[y]
  BY <1>1 DEF TypeOK
<1> HIDE DEF l
<1>5. \A y \in Cities : \A p : In(list'[y], p) <=> In(list[y], p) \/ (y = x /\ p = o)
  BY <1>3, <1>4
<1>6. Queued' = Queued \cup {o}
  <2>1. /\ Queued = {p \in Orders : \E y \in Cities : In(list[y], p)}
        /\ Queued' = {p \in Orders : \E y \in Cities : In(list'[y], p)}
    BY DEF Queued, In
  <2> QED
    BY <1>1, <1>5, <2>1
<1> QED
  BY <1>5, <1>6 DEF Home, ListsHome

(* An order in the hands or in the scan of a request is nowhere else. *)
LEMMA HeldAlone ==
  ASSUME OnePerCity, PoolInv, NEW c \in Couriers, held[c] # None
  PROVE  /\ held[c] \in Orders /\ held[c] \notin Queued \cup Removed
         /\ \A d \in Couriers \ {c} : held[d] # held[c]
<1>1. held[c] \in Orders /\ held[c] \notin Queued
  BY DEF PoolInv, SerialInv, DispatchInv, TypeOK, NoDuplicates
<1>2. \A d \in Couriers \ {c} : held[d] # held[c]
  BY DEF PoolInv, SerialInv, DispatchInv, NoDuplicates
<1>3. ASSUME NEW d \in Removing, scan[d].order = held[c] PROVE FALSE
  <2>1. City(d) = City(c) /\ d \in Couriers /\ pc[d] = "rmRem"
    BY <1>3 DEF PoolInv, Home, Removing
  <2>2. c = d
    BY <2>1 DEF OnePerCity
  <2> QED
    BY <2>1, <2>2 DEF PoolInv, Hands
<1> QED
  BY <1>1, <1>2, <1>3 DEF Removed

LEMMA RemovedAlone ==
  ASSUME OnePerCity, PoolInv, NEW c \in Removing
  PROVE  /\ scan[c].order \in Orders /\ scan[c].order \in placed
         /\ scan[c].read = scan[c].order
         /\ scan[c].order \notin Queued \cup Held
         /\ \A d \in Removing \ {c} : scan[d].order # scan[c].order
<1> DEFINE o == scan[c].order
<1>1. c \in Couriers /\ pc[c] = "rmRem" /\ Follows(c) /\ placed \subseteq Orders
  BY DEF Removing, PoolInv, SerialInv, DispatchInv, TypeOK
<1>2. o \in placed /\ o \in Orders /\ scan[c].read = o /\ ~ In(list[City(c)], o)
  BY <1>1 DEF Follows
<1>3. OrderCity[o] = City(c)
  BY DEF PoolInv, Home
<1>4. o \notin Queued
  <2> SUFFICES ASSUME NEW x \in Cities, In(list[x], o) PROVE FALSE
    BY DEF Queued, In
  <2>1. x = City(c)
    BY <1>2, <1>3 DEF PoolInv, Home
  <2> QED
    BY <1>2, <2>1
<1>5. ASSUME NEW d \in Couriers, held[d] # None, held[d] = o PROVE FALSE
  BY <1>5, HeldAlone DEF Removed
<1>6. \A d \in Removing \ {c} : scan[d].order # o
  BY <1>1, <1>3 DEF OnePerCity, PoolInv, Home, Removing
<1> QED
  BY <1>2, <1>4, <1>5, <1>6 DEF Held

(* The end of a request: the order it held or removed is let go. *)
LEMMA EndLets ==
  ASSUME OnePerCity, PoolInv, NEW c \in Couriers, End(c)
  PROVE  /\ Settled' /\ Held' = Held \ {held[c]}
         /\ Removed' = IF pc[c] = "rmRem" THEN Removed \ {scan[c].order} ELSE Removed
<1>1. /\ \A d \in Couriers : pc'[d] = IF d = c THEN "idle" ELSE pc[d]
      /\ \A d \in Couriers : held'[d] = IF d = c THEN None ELSE held[d]
      /\ \A d \in Couriers \ {c} : scan'[d] = scan[d]
  BY DEF End, Goto, PoolInv, SerialInv, DispatchInv, TypeOK
<1>2. Removing' = Removing \ {c}
  BY <1>1 DEF Removing
<1>3. \A d \in Removing' : d \in Couriers /\ scan'[d] = scan[d] /\ d \in Removing
  BY <1>1, <1>2 DEF Removing
<1>4. Settled'
  BY <1>1, <1>3 DEF Settled, PoolInv, Home, City
<1>5. Held' = Held \ {held[c]}
  <2>1. \A d \in Couriers \ {c} : held[d] # None => held[d] # held[c]
    BY HeldAlone
  <2> QED
    BY <1>1, <2>1 DEF Held
<1>6. Removed' = {scan[d].order : d \in Removing \ {c}}
  BY <1>2, <1>3 DEF Removed
<1>7. pc[c] # "rmRem" => Removed' = Removed
  BY <1>6 DEF Removed, Removing
<1>8. pc[c] = "rmRem" => Removed' = Removed \ {scan[c].order}
  <2> SUFFICES ASSUME pc[c] = "rmRem" PROVE Removed' = Removed \ {scan[c].order}
    OBVIOUS
  <2>1. c \in Removing
    BY DEF Removing
  <2>2. \A d \in Removing \ {c} : scan[d].order # scan[c].order
    BY <2>1, RemovedAlone
  <2> QED
    BY <1>6, <2>1, <2>2 DEF Removed
<1> QED
  BY <1>4, <1>5, <1>7, <1>8

(* A request that goes on without taking or giving an order. *)
LEMMA GotoLets ==
  ASSUME PoolInv, NEW c \in Couriers, NEW l, Goto(c, l), l # "rmRem", pc[c] # "rmRem",
         UNCHANGED held, \A d \in Couriers \ {c} : scan'[d] = scan[d]
  PROVE  Settled' /\ Held' = Held /\ Removed' = Removed
<1>1. \A d \in Couriers : pc'[d] = IF d = c THEN l ELSE pc[d]
  BY DEF Goto, PoolInv, SerialInv, DispatchInv, TypeOK
<1>2. Removing' = Removing /\ c \notin Removing
  BY <1>1 DEF Removing
<1>3. \A d \in Removing : d \in Couriers /\ scan'[d] = scan[d]
  BY <1>2 DEF Removing
<1> QED
  BY <1>2, <1>3 DEF Settled, PoolInv, Home, City, Held, Removed

LEMMA HomeIs == Home <=> ListsHome /\ Settled
BY DEF Home, ListsHome, Settled

-----------------------------------------------------------------------------
(* The steps, as steps of the pool. *)
Pools == PoolStep /\ Home'

LEMMA QuietPools ==
  ASSUME OnePerCity, PoolInv, NEW c \in Couriers, pc[c] # "rmRem",
         UNCHANGED <<list, placed, handed>>,
         \/ End(c) /\ pc[c] \notin {"measure", "addOrder"}
         \/ \E l : /\ l # "rmRem" /\ Goto(c, l) /\ UNCHANGED held
                   /\ \A d \in Couriers \ {c} : scan'[d] = scan[d]
  PROVE  Pools
<1>1. Settled' /\ Held' = Held /\ Removed' = Removed
  <2>1. CASE End(c) /\ pc[c] \notin {"measure", "addOrder"}
    <3>1. held[c] = None
      BY <2>1 DEF PoolInv, Hands
    <3>2. None \notin Held
      BY DEF Held
    <3>3. Settled' /\ Held' = Held \ {held[c]} /\ Removed' = Removed
      BY <2>1, EndLets
    <3> QED
      BY <3>1, <3>2, <3>3
  <2>2. CASE \E l : /\ l # "rmRem" /\ Goto(c, l) /\ UNCHANGED held
                    /\ \A d \in Couriers \ {c} : scan'[d] = scan[d]
    <3>1. PICK l : /\ l # "rmRem" /\ Goto(c, l) /\ UNCHANGED held
                   /\ \A d \in Couriers \ {c} : scan'[d] = scan[d]
      BY <2>2
    <3> QED
      BY <3>1, GotoLets
  <2> QED
    BY <2>1, <2>2
<1>2. ListsHome' /\ Queued' = Queued
  BY HomeIs, SameQueue DEF PoolInv, ListsHome, In
<1>3. Home'
  BY <1>1, <1>2 DEF Home, ListsHome, Settled
<1>4. PoolQuiet
  BY <1>1, <1>2 DEF PoolQuiet, Waiting
<1> QED
  BY <1>3, <1>4 DEF Pools, PoolStep

LEMMA ScanKept ==
  ASSUME PoolInv, NEW c \in Couriers, NEW s, scan' = [scan EXCEPT ![c] = s]
  PROVE  \A d \in Couriers \ {c} : scan'[d] = scan[d]
BY DEF PoolInv, SerialInv, DispatchInv, TypeOK

LEMMA ScanningPools ==
  ASSUME OnePerCity, PoolInv, NEW c \in Couriers,
         \/ Call(c) \/ GetLen(c) \/ AddCoursier(c)
         \/ First(c) \/ Loop(c) \/ GetOrderAt(c) \/ RemoveIndex(c)
  PROVE  Pools
<1>1. CASE Call(c)
  BY <1>1, QuietPools DEF Call, listVars, ghosts
<1>2. CASE GetLen(c)
  BY <1>2, QuietPools DEF GetLen, listVars, ghosts
<1>3. CASE AddCoursier(c)
  BY <1>3, QuietPools DEF AddCoursier, ghosts
<1>4. CASE First(c)
  <2>1. \/ End(c)
        \/ Goto(c, "loop") /\ UNCHANGED held /\ \E s : scan' = [scan EXCEPT ![c] = s]
    BY <1>4, Zenon DEF First
  <2>2. pc[c] = "first" /\ UNCHANGED <<list, placed, handed>>
    BY <1>4 DEF First, listVars, ghosts
  <2> QED
    BY <2>1, <2>2, QuietPools, ScanKept
<1>5. CASE Loop(c)
  <2>1. \/ End(c)
        \/ (Goto(c, "getOrderAt") \/ Goto(c, "rmIndex")) /\ UNCHANGED <<scan, held>>
    BY <1>5 DEF Loop
  <2>2. pc[c] = "loop" /\ UNCHANGED <<list, placed, handed>>
    BY <1>5 DEF Loop, listVars, ghosts
  <2> QED
    BY <2>1, <2>2, QuietPools
<1>6. CASE GetOrderAt(c)
  <2>1. \/ End(c)
        \/ Goto(c, "loop") /\ UNCHANGED held /\ \E s : scan' = [scan EXCEPT ![c] = s]
    BY <1>6, Zenon DEF GetOrderAt
  <2>2. pc[c] = "getOrderAt" /\ UNCHANGED <<list, placed, handed>>
    BY <1>6 DEF GetOrderAt, listVars, ghosts
  <2> QED
    BY <2>1, <2>2, QuietPools, ScanKept
<1>7. CASE RemoveIndex(c)
  <2>1. Goto(c, "rmSet") /\ UNCHANGED held
    BY <1>7 DEF RemoveIndex
  <2>2. \E s : scan' = [scan EXCEPT ![c] = s]
    <3>1. scan' = [scan EXCEPT ![c] = [scan[c] EXCEPT !.read = At(list[City(c)], scan[c].index)]]
      BY <1>7 DEF RemoveIndex
    <3> QED
      BY <3>1
  <2>3. pc[c] = "rmIndex" /\ UNCHANGED <<list, placed, handed>>
    BY <1>7 DEF RemoveIndex, listVars, ghosts
  <2> QED
    BY <2>1, <2>2, <2>3, QuietPools, ScanKept
<1> QED
  BY <1>1, <1>2, <1>3, <1>4, <1>5, <1>6, <1>7

LEMMA PlacePools ==
  ASSUME PoolInv, NEW o \in Orders, Place(o)
  PROVE  Pools
<1>1. /\ o \notin placed /\ placed' = placed \cup {o}
      /\ list' = [list EXCEPT ![OrderCity[o]] = Append(list[OrderCity[o]], o)]
      /\ UNCHANGED <<pc, scan, held, handed>>
  <2>1. OrderCity[o] \in Cities /\ TypeOK
    BY ConstantsAssumption DEF PoolInv, SerialInv, DispatchInv
  <2> QED
    BY <2>1 DEF Place, localVars, TypeOK
<1>2. TypeOK /\ Home
  BY DEF PoolInv, SerialInv, DispatchInv
<1>3. Queued' = Queued \cup {o} /\ ListsHome'
  BY <1>1, <1>2, QueueGets
<1>4. Removing' = Removing /\ Held' = Held
  BY <1>1 DEF Removing, Held
<1>5. Settled' /\ Removed' = Removed
  BY <1>1, <1>2, <1>4 DEF Settled, Home, City, Removed
<1>6. PoolPlace(o)
  BY <1>1, <1>3, <1>4, <1>5 DEF PoolPlace, Waiting
<1>7. Home'
  BY <1>3, <1>5 DEF Home, ListsHome, Settled
<1> QED
  BY <1>6, <1>7 DEF Pools, PoolStep

(* The waiting branch moves an order about, and hands over the one in hand. *)
LEMMA RotatePools ==
  ASSUME PoolInv, NEW c \in Couriers, BRPopLPush(c)
  PROVE  Pools
<1> DEFINE x == City(c)
           l == Rotate(list[x])
<1>1. /\ x \in Cities /\ list[x] \in Seq(Entry) /\ list[x] # <<>> /\ TypeOK /\ Home
      /\ Distinct(list[x])
      /\ list' = [list EXCEPT ![x] = l] /\ UNCHANGED <<placed, handed, held, scan>>
      /\ Goto(c, "getOrder") /\ pc[c] = "brpoplpush"
  BY ListTyped, ListsSeen DEF PoolInv, SerialInv, DispatchInv, BRPopLPush, ghosts
<1>2. \A p \in Orders : In(list[x], p) <=> In(l, p)
  BY <1>1, RotateKeeps, RotateDistinct
<1> HIDE DEF x, l
<1>3. Queued' = Queued /\ ListsHome'
  <2>1. None \notin Queued /\ None \notin Orders
    BY ConstantsAssumption DEF Queued
  <2>2. Takes(l, list[x], None)
    BY <1>2, <2>1 DEF Takes
  <2>3. Queued' = Queued \ {None} /\ ListsHome'
    BY <1>1, <2>1, <2>2, QueueIs
  <2> QED
    BY <2>1, <2>3
<1>4. Settled' /\ Held' = Held /\ Removed' = Removed
  BY <1>1, GotoLets
<1>5. PoolQuiet
  BY <1>1, <1>3, <1>4 DEF PoolQuiet, Waiting
<1>6. Home'
  BY <1>3, <1>4 DEF Home, ListsHome, Settled
<1> QED
  BY <1>5, <1>6 DEF Pools, PoolStep

LEMMA AddOrderPools ==
  ASSUME OnePerCity, PoolInv, NEW c \in Couriers, AddOrder(c)
  PROVE  Pools
<1> DEFINE o == held[c]
<1>1. /\ TypeOK /\ Home /\ o \in Orders /\ o # None /\ OrderCity[o] = City(c) /\ pc[c] = "addOrder"
      /\ City(c) \in Cities
  BY ConstantsAssumption, ListTyped
     DEF PoolInv, SerialInv, DispatchInv, HolderHolds, AddOrder, Home
<1>2. /\ list' = [list EXCEPT ![OrderCity[o]] = Append(list[OrderCity[o]], o)]
      /\ UNCHANGED <<placed, handed, scan>>
      /\ pc' = [pc EXCEPT ![c] = "brpoplpush"] /\ held' = [held EXCEPT ![c] = None]
  BY <1>1 DEF AddOrder, ghosts, Goto, TypeOK
<1>3. Queued' = Queued \cup {o} /\ ListsHome'
  BY <1>1, <1>2, QueueGets
<1>4. /\ \A d \in Couriers : held'[d] = IF d = c THEN None ELSE held[d]
      /\ \A d \in Couriers : pc'[d] = IF d = c THEN "brpoplpush" ELSE pc[d]
  BY <1>2 DEF TypeOK, PoolInv, SerialInv, DispatchInv
<1>5. Removing' = Removing
  BY <1>1, <1>4 DEF Removing
<1>6. Settled' /\ Removed' = Removed
  BY <1>1, <1>2, <1>4, <1>5 DEF Settled, Home, City, Removed
<1>7. Held' = Held \ {o} /\ o \in Held
  <2>1. \A d \in Couriers \ {c} : held[d] # None => held[d] # o
    BY <1>1, HeldAlone
  <2> QED
    BY <1>1, <1>4, <2>1 DEF Held
<1>8. PoolQuiet
  BY <1>2, <1>3, <1>6, <1>7 DEF PoolQuiet, Waiting
<1>9. Home'
  BY <1>3, <1>6 DEF Home, ListsHome, Settled
<1> QED
  BY <1>8, <1>9 DEF Pools, PoolStep

LEMMA GetOrderPools ==
  ASSUME OnePerCity, PoolInv, NEW c \in Couriers, GetOrder(c)
  PROVE  Pools
<1> DEFINE x == City(c)
           s == list[x]
           l == RPop(s)
           o == Last(s)
<1>1. /\ x \in Cities /\ s \in Seq(Entry) /\ TypeOK /\ Home /\ Distinct(s)
      /\ pc[c] = "getOrder" /\ UNCHANGED <<placed, handed>> /\ held[c] = None
  BY ListTyped, ListsSeen DEF PoolInv, SerialInv, DispatchInv, GetOrder, ghosts, Hands
<1>2. CASE s = <<>>
  <2>1. End(c) /\ UNCHANGED list
    BY <1>2 DEF GetOrder
  <2> QED
    BY <1>1, <2>1, QuietPools
<1>3. CASE s # <<>>
  <2>1. /\ o \in Entry /\ In(s, o)
        /\ Takes(l, s, o)
    BY <1>1, <1>3, RPopDistinct, RPopKeeps DEF Takes
  <2>2. list' = [list EXCEPT ![x] = l]
    BY <1>1, <1>3 DEF GetOrder, TypeOK
  <2>3. o = RemoveIt => End(c)
    BY <1>3 DEF GetOrder
  <2>4. o # RemoveIt =>
          /\ held' = [held EXCEPT ![c] = o] /\ pc' = [pc EXCEPT ![c] = "measure"]
          /\ UNCHANGED scan
    BY <1>3 DEF GetOrder, Goto
  <2> HIDE DEF l, o, x
  <2>5. Queued' = Queued \ {o} /\ ListsHome'
    BY <1>1, <2>1, <2>2, QueueIs
  <2>6. CASE o = RemoveIt
    <3>1. Settled' /\ Held' = Held \ {held[c]} /\ Removed' = Removed
      BY <1>1, <2>3, <2>6, EndLets
    <3>2. None \notin Held /\ RemoveIt \notin Queued
      BY ConstantsAssumption DEF Held, Queued
    <3>3. PoolQuiet
      BY <1>1, <2>5, <2>6, <3>1, <3>2 DEF PoolQuiet, Waiting
    <3>4. Home'
      BY <2>5, <3>1 DEF Home, ListsHome, Settled
    <3> QED
      BY <3>3, <3>4 DEF Pools, PoolStep
  <2>7. CASE o # RemoveIt
    <3>1. /\ \A d \in Couriers : held'[d] = IF d = c THEN o ELSE held[d]
          /\ \A d \in Couriers : pc'[d] = IF d = c THEN "measure" ELSE pc[d]
          /\ UNCHANGED scan
      BY <1>1, <2>4, <2>7 DEF TypeOK
    <3>2. o \in Orders /\ o # None /\ o \in Queued /\ OrderCity[o] = City(c)
      <4>1. o \in Orders
        BY <2>1, <2>7 DEF Entry
      <4> QED
        BY <1>1, <2>1, <4>1, ConstantsAssumption DEF Home, Queued, In, x
    <3>3. Removing' = Removing
      BY <1>1, <3>1 DEF Removing
    <3>4. Settled' /\ Removed' = Removed
      BY <1>1, <3>1, <3>2, <3>3 DEF Settled, Home, City, Removed
    <3>5. Held' = Held \cup {o}
      BY <1>1, <3>1, <3>2 DEF Held
    <3>6. PoolQuiet
      BY <1>1, <2>5, <3>2, <3>4, <3>5 DEF PoolQuiet, Waiting
    <3>7. Home'
      BY <2>5, <3>4 DEF Home, ListsHome, Settled
    <3> QED
      BY <3>6, <3>7 DEF Pools, PoolStep
  <2> QED
    BY <2>6, <2>7
<1> QED
  BY <1>2, <1>3

LEMMA MeasurePools ==
  ASSUME OnePerCity, PoolInv, NEW c \in Couriers, Measure(c)
  PROVE  Pools
<1>1. /\ pc[c] = "measure" /\ UNCHANGED <<list, placed>> /\ Home
      /\ held[c] \in Orders /\ held[c] # None
  BY ConstantsAssumption
     DEF Measure, listVars, PoolInv, SerialInv, DispatchInv, HolderHolds
<1>2. CASE Goto(c, "addOrder") /\ UNCHANGED <<scan, held, handed>>
  BY <1>1, <1>2, QuietPools
<1>3. CASE Reply(c, held[c])
  <2> DEFINE o == held[c]
  <2>1. End(c) /\ handed' = [handed EXCEPT ![o] = @ + 1]
    BY <1>3 DEF Reply
  <2>2. Settled' /\ Held' = Held \ {o} /\ Removed' = Removed
    BY <1>1, <2>1, EndLets
  <2>3. ListsHome' /\ Queued' = Queued
    BY <1>1, SameQueue DEF Home, ListsHome, In
  <2>4. o \in Held /\ o \notin Queued \cup Removed
    BY <1>1, HeldAlone DEF Held
  <2>5. Waiting' = Waiting \ {o} /\ o \in Waiting
    BY <2>2, <2>3, <2>4 DEF Waiting
  <2>6. PoolHand(o)
    BY <1>1, <2>1, <2>5 DEF PoolHand
  <2>7. Home'
    BY <2>2, <2>3 DEF Home, ListsHome, Settled
  <2> QED
    BY <1>1, <2>6, <2>7 DEF Pools, PoolStep
<1> QED
  BY <1>2, <1>3 DEF Measure

(* LSET moves the closest order from the list into the removal, and the reply
   after LREM hands it over. *)
LEMMA RemoveSetPools ==
  ASSUME OnePerCity, PoolInv, NEW c \in Couriers, RemoveSet(c)
  PROVE  Pools
<1> DEFINE x == City(c)
           i == scan[c].index
           o == scan[c].order
           l == LSet(list[x], i)
<1>1. /\ x \in Cities /\ list[x] \in Seq(Entry) /\ TypeOK /\ Home /\ Distinct(list[x])
      /\ pc[c] = "rmSet" /\ UNCHANGED <<placed, handed>> /\ i \in Nat /\ SerialInv
  BY ListTyped, ListsSeen
     DEF PoolInv, SerialInv, DispatchInv, RemoveSet, ghosts, TypeOK, ScanType
<1>2. o = list[x][i + 1] /\ i < Len(list[x]) /\ o \in placed /\ o \in Orders
  BY <1>1, RemoveSetFollows DEF TypeOK
<1>3. list' = [list EXCEPT ![x] = l] /\ Goto(c, "rmRem") /\ UNCHANGED <<scan, held>>
  BY <1>2 DEF RemoveSet
<1>4. In(list[x], o)
  BY <1>1, <1>2 DEF In
<1>5. Takes(l, list[x], o)
  <2>1. \A p \in Orders : In(list[x], p) => In(l, p) \/ p = o
    BY <1>1, <1>2, LSetKeeps
  <2>2. \A p \in Orders : In(l, p) => In(list[x], p)
    BY <1>1, <1>2, LSetDistinct
  <2>3. ~ In(l, o)
    <3>1. /\ DOMAIN l = DOMAIN list[x] /\ i + 1 \in DOMAIN list[x]
          /\ \A j \in DOMAIN list[x] : l[j] = IF j = i + 1 THEN RemoveIt ELSE list[x][j]
      BY <1>1, <1>2 DEF LSet
    <3> HIDE DEF l
    <3> QED
      BY <1>1, <1>2, <3>1, ConstantsAssumption DEF In, Distinct
  <2> QED
    BY <2>1, <2>2, <2>3 DEF Takes
<1> HIDE DEF l, i, o, x
<1>6. Queued' = Queued \ {o} /\ ListsHome' /\ o \in Queued
  <2>1. Queued' = Queued \ {o} /\ ListsHome'
    BY <1>1, <1>3, <1>4, <1>5, QueueIs
  <2> QED
    BY <1>1, <1>2, <1>4, <2>1 DEF Queued, In
<1>7. Removing' = Removing \cup {c}
  BY <1>1, <1>3 DEF Removing, Goto, TypeOK
<1>8. Removed' = Removed \cup {o} /\ Held' = Held
  BY <1>3, <1>7 DEF Removed, Held, o
<1>9. Settled'
  <2>1. OrderCity[o] = City(c)
    BY <1>1, <1>2, <1>4 DEF Home, x
  <2> QED
    BY <1>1, <1>3, <1>7, <2>1 DEF Settled, Home, City, o
<1>10. PoolQuiet
  BY <1>1, <1>6, <1>8 DEF PoolQuiet, Waiting
<1>11. Home'
  BY <1>6, <1>9 DEF Home, ListsHome, Settled
<1> QED
  BY <1>10, <1>11 DEF Pools, PoolStep

LEMMA RemoveRemPools ==
  ASSUME OnePerCity, PoolInv, NEW c \in Couriers, RemoveRem(c)
  PROVE  Pools
<1> DEFINE x == City(c)
           o == scan[c].order
           l == LRem(list[x])
<1>1. /\ x \in Cities /\ list[x] \in Seq(Entry) /\ TypeOK /\ Home /\ Distinct(list[x])
      /\ pc[c] = "rmRem" /\ UNCHANGED placed /\ list' = [list EXCEPT ![x] = l]
  BY ListTyped, ListsSeen DEF PoolInv, SerialInv, DispatchInv, RemoveRem
<1>2. c \in Removing
  BY <1>1 DEF Removing
<1>3. o \in Orders /\ scan[c].read # RemoveIt /\ o \notin Queued \cup Held
  BY <1>2, RemovedAlone, ConstantsAssumption
<1>4. End(c) /\ handed' = [handed EXCEPT ![o] = @ + 1]
  BY <1>3 DEF RemoveRem, Reply
<1>5. Queued' = Queued /\ ListsHome'
  <2>1. None \notin Queued /\ None \notin Orders
    BY ConstantsAssumption DEF Queued
  <2>2. Takes(l, list[x], None)
    <3>1. \A p \in Orders : In(l, p) <=> In(list[x], p)
      BY <1>1, LRemDistinct, LRemKeeps
    <3> QED
      BY <2>1, <3>1 DEF Takes
  <2> HIDE DEF l, x
  <2>3. Queued' = Queued \ {None} /\ ListsHome'
    BY <1>1, <2>1, <2>2, QueueIs
  <2> QED
    BY <2>1, <2>3
<1>6. Settled' /\ Held' = Held \ {held[c]} /\ Removed' = Removed \ {o}
  BY <1>1, <1>4, EndLets
<1>7. Held' = Held
  <2>1. held[c] = None
    BY <1>1 DEF PoolInv, Hands
  <2> QED
    BY <1>6, <2>1 DEF Held
<1>8. o \in Removed
  BY <1>2 DEF Removed
<1>9. o \in Waiting /\ Waiting' = Waiting \ {o}
  BY <1>3, <1>5, <1>6, <1>7, <1>8 DEF Waiting
<1> HIDE DEF o, l, x
<1>10. PoolHand(o)
  BY <1>1, <1>3, <1>4, <1>9 DEF PoolHand
<1>11. Home'
  BY <1>5, <1>6 DEF Home, ListsHome, Settled
<1> QED
  BY <1>3, <1>10, <1>11 DEF Pools, PoolStep

LEMMA PoolSteps ==
  ASSUME OnePerCity, MaxCrashes = 0, PoolInv, [Next]_vars
  PROVE  Pools
<1>1. CASE UNCHANGED vars
  <2>1. UNCHANGED <<list, pc, scan, held, placed, handed>>
    BY <1>1 DEF vars, listVars, localVars, ghosts
  <2>2. Removing' = Removing
    BY <2>1 DEF Removing
  <2>3. Queued' = Queued /\ Held' = Held /\ Removed' = Removed
    BY <2>1, <2>2 DEF Queued, Held, Removed
  <2>4. PoolQuiet
    BY <2>1, <2>3 DEF PoolQuiet, Waiting
  <2>5. Home'
    BY <2>1, <2>2 DEF PoolInv, Home, City, In
  <2> QED
    BY <2>4, <2>5 DEF Pools, PoolStep
<1>2. ASSUME NEW o \in Orders, Place(o) PROVE Pools
  BY <1>2, PlacePools
<1>3. ASSUME NEW c \in Couriers, Call(c) PROVE Pools
  BY <1>3, ScanningPools
<1>4. ASSUME NEW c \in Couriers, Step(c) PROVE Pools
  BY <1>4, ScanningPools, RotatePools, GetOrderPools, MeasurePools, AddOrderPools,
     RemoveSetPools, RemoveRemPools DEF Step
<1>5. ~ Crash
  BY DEF Crash, PoolInv, SerialInv, DispatchInv, TypeOK
<1> QED
  BY <1>1, <1>2, <1>3, <1>4, <1>5 DEF Next

(* The pool keeps its own books: that a request holds an order only while it
   measures or gives it back comes from the account. *)
LEMMA PoolKept ==
  ASSUME OnePerCity, MaxCrashes = 0, AccountInv, PoolInv, [Next]_vars
  PROVE  PoolInv' /\ [Pool!Next]_<<placed, Waiting, handed>>
<1>1. SerialInv'
  BY SerialStep DEF PoolInv
<1>2. Hands'
  BY AccountStep DEF AccountInv
<1>3. PoolStep /\ Home'
  BY PoolSteps DEF Pools
<1>4. placed' \subseteq Orders
  BY <1>1 DEF SerialInv, DispatchInv, TypeOK
<1>5. HandedOnce' /\ [Pool!Next]_<<placed, Waiting, handed>>
  BY <1>3, <1>4, StepHandsOver
<1> QED
  BY <1>1, <1>2, <1>3, <1>5 DEF PoolInv

LEMMA PoolStarts == Init => AccountInv /\ PoolInv /\ Pool!Init
<1> SUFFICES ASSUME Init PROVE AccountInv /\ PoolInv /\ Pool!Init
  OBVIOUS
<1>1. /\ \A c \in Couriers : pc[c] = "idle" /\ held[c] = None
      /\ \A x \in Cities : list[x] = <<>>
      /\ placed = {} /\ handed = [o \in Orders |-> 0]
  BY DEF Init
<1>2. Removing = {} /\ Held = {} /\ Queued = {}
  BY <1>1 DEF Removing, Held, Queued
<1>3. Home
  BY <1>1, <1>2 DEF Home, In
<1>4. Hands /\ HandedOnce
  BY <1>1 DEF Hands, HandedOnce
<1>5. Pool!Init
  BY <1>1, <1>2 DEF Pool!Init, Removed
<1> QED
  BY <1>3, <1>4, <1>5, SerialInit, AccountInit DEF PoolInv, ScanInv

(* Where every city has one courier and the server does not die, the lists, *)
(* the hands and the scans together are one pool of waiting orders: each    *)
(* enters it when it is placed and leaves it when it is handed over, once.  *)
THEOREM DispatchIsAPool == OnePerCity /\ MaxCrashes = 0 => (Spec => PoolSpec)
<1> SUFFICES ASSUME OnePerCity, MaxCrashes = 0 PROVE Spec => PoolSpec
  OBVIOUS
<1>1. AccountInv /\ PoolInv /\ [Next]_vars =>
        AccountInv' /\ PoolInv' /\ [Pool!Next]_<<placed, Waiting, handed>>
  BY AccountStep, PoolKept
<1>2. PoolSpec <=> Pool!Init /\ [][Pool!Next]_<<placed, Waiting, handed>>
  BY PTL DEF PoolSpec, Pool!Spec, Waiting
<1> QED
  BY PoolStarts, <1>1, <1>2, PTL DEF Spec
=============================================================================
