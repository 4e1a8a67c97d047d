----------------------------- MODULE EngineProofs -----------------------------
(***************************************************************************)
(* Proofs about Engine: about the search of GeospatialQuery, for any map,  *)
(* any packed tree over it, any query, and any order of candidates that    *)
(* are as near; then about a connection and its services, for any          *)
(* requests, any way the bytes of a request are split into reads, and any  *)
(* number of them on a connection.                                         *)
(***************************************************************************)
EXTENDS Engine, FiniteSetTheorems, SequenceTheorems, WellFoundedInduction, TLAPS

(***************************************************************************)
(* Points and boxes.                                                       *)
(***************************************************************************)

Points == Int \X Int

LEMMA Smallest ==
  ASSUME NEW S, S \subseteq Nat, S # {}
  PROVE  \E m \in S : \A k \in S : m <= k
<1>1. PICK m \in S : \A k \in S : ~(<<k, m>> \in OpToRel(<, Nat))
  BY NatLessThanWellFounded, WFMin
<1>2. \A k \in S : m <= k
  <2> SUFFICES ASSUME NEW k \in S, k < m PROVE FALSE
    OBVIOUS
  <2>1. <<k, m>> \in OpToRel(<, Nat)
    BY DEF OpToRel
  <2> QED
    BY <1>1, <2>1
<1> QED
  BY <1>2

LEMMA TwoOf ==
  ASSUME NEW a \in Int, NEW b \in Int
  PROVE  /\ Min({a, b}) = IF a <= b THEN a ELSE b
         /\ Max({a, b}) = IF a >= b THEN a ELSE b
<1>1. Min({a, b}) = IF a <= b THEN a ELSE b
  <2> DEFINE m == IF a <= b THEN a ELSE b
  <2>1. m \in {a, b} /\ \A y \in {a, b} : m <= y
    OBVIOUS
  <2>2. \A x \in {a, b} : (\A y \in {a, b} : x <= y) => x = m
    OBVIOUS
  <2> QED
    BY <2>1, <2>2 DEF Min
<1>2. Max({a, b}) = IF a >= b THEN a ELSE b
  <2> DEFINE m == IF a >= b THEN a ELSE b
  <2>1. m \in {a, b} /\ \A y \in {a, b} : m >= y
    OBVIOUS
  <2>2. \A x \in {a, b} : (\A y \in {a, b} : x >= y) => x = m
    OBVIOUS
  <2> QED
    BY <2>1, <2>2 DEF Max
<1> QED
  BY <1>1, <1>2

LEMMA WithinIs ==
  ASSUME NEW x \in Int, NEW low \in Int, NEW high \in Int, low <= high
  PROVE  Within(x, low, high) = IF x < low THEN low ELSE IF x > high THEN high ELSE x
<1>1. PICK m \in Int : m = IF x >= low THEN x ELSE low
  OBVIOUS
<1>2. Max({x, low}) = m
  BY <1>1, TwoOf
<1>3. Min({m, high}) = IF m <= high THEN m ELSE high
  BY TwoOf
<1> QED
  BY <1>1, <1>2, <1>3 DEF Within

LEMMA SquaresGrow ==
  ASSUME NEW a \in Int, NEW b \in Int, (0 <= a /\ a <= b) \/ (b <= a /\ a <= 0)
  PROVE  a * a <= b * b
<1>1. CASE 0 <= a /\ a <= b
  <2>1. a * a <= a * b
    BY <1>1, SMT
  <2>2. a * b <= b * b
    BY <1>1, SMT
  <2> QED
    BY <2>1, <2>2
<1>2. CASE b <= a /\ a <= 0
  <2>1. a * a <= a * b
    BY <1>2, SMT
  <2>2. a * b <= b * b
    BY <1>2, SMT
  <2> QED
    BY <2>1, <2>2
<1> QED
  BY <1>1, <1>2

(* The way from a number to an interval is no longer than to one inside it. *)
Nearer(x, a, b, c, d) ==
  /\ Within(x, a, b) \in Int /\ Within(x, c, d) \in Int
  /\ (x - Within(x, a, b)) * (x - Within(x, a, b)) <= (x - Within(x, c, d)) * (x - Within(x, c, d))

LEMMA NearerInterval ==
  ASSUME NEW x \in Int, NEW a \in Int, NEW b \in Int, NEW c \in Int, NEW d \in Int,
         a <= c, c <= d, d <= b
  PROVE  Nearer(x, a, b, c, d)
<1>1. PICK u \in Int : u = Within(x, a, b) /\ u = IF x < a THEN a ELSE IF x > b THEN b ELSE x
  BY WithinIs
<1>2. PICK w \in Int : w = Within(x, c, d) /\ w = IF x < c THEN c ELSE IF x > d THEN d ELSE x
  BY WithinIs
<1>3. (0 <= x - u /\ x - u <= x - w) \/ (x - w <= x - u /\ x - u <= 0)
  BY <1>1, <1>2
<1>4. (x - u) * (x - u) <= (x - w) * (x - w)
  <2> DEFINE p == x - u
             q == x - w
  <2>1. p \in Int /\ q \in Int
    OBVIOUS
  <2>2. (0 <= p /\ p <= q) \/ (q <= p /\ p <= 0)
    BY <1>3
  <2> HIDE DEF p, q
  <2>3. p * p <= q * q
    BY <2>1, <2>2, SquaresGrow
  <2> QED
    BY <2>3 DEF p, q
<1> QED
  BY <1>1, <1>2, <1>4 DEF Nearer

LEMMA SquareNat ==
  ASSUME NEW a \in Int
  PROVE  a * a \in Nat
<1>1. a * a \in Int
  OBVIOUS
<1>2. CASE a >= 0
  BY <1>2, SMT
<1>3. CASE a <= 0
  BY <1>3, SMT
<1> QED
  BY <1>2, <1>3

LEMMA SquaredNat ==
  ASSUME NEW p \in Points, NEW q \in Points
  PROVE  Squared(p, q) \in Nat
<1> DEFINE a == p[1] - q[1]
           b == p[2] - q[2]
<1>1. a \in Int /\ b \in Int
  BY DEF Points
<1> HIDE DEF a, b
<1>2. a * a \in Nat /\ b * b \in Nat
  BY <1>1, SquareNat
<1>3. a * a + b * b \in Nat
  BY <1>2
<1> QED
  BY <1>3 DEF Squared, a, b

LEMMA NearestIsPoint ==
  ASSUME NEW box, IsBox(box), NEW p \in Points
  PROVE  NearestIn(box, p) \in Points
<1>1. /\ p[1] \in Int /\ p[2] \in Int /\ box.min[1] \in Int /\ box.max[1] \in Int
      /\ box.min[2] \in Int /\ box.max[2] \in Int
      /\ box.min[1] <= box.max[1] /\ box.min[2] <= box.max[2]
  BY DEF IsBox, Points
<1>2. /\ box.min[1] <= box.min[1] /\ box.max[1] <= box.max[1]
      /\ box.min[2] <= box.min[2] /\ box.max[2] <= box.max[2]
  BY <1>1
<1>3. /\ Nearer(p[1], box.min[1], box.max[1], box.min[1], box.max[1])
      /\ Nearer(p[2], box.min[2], box.max[2], box.min[2], box.max[2])
  BY <1>1, <1>2, NearerInterval, Zenon
<1> QED
  BY <1>3 DEF Nearer, NearestIn, Points

(* A box is no farther from a point than what it encloses. *)
LEMMA EnclosingIsNearer ==
  ASSUME NEW outer, NEW inner, IsBox(outer), IsBox(inner), Encloses(outer, inner), NEW p \in Points
  PROVE  GetMinSquaredDist(outer, p) <= GetMinSquaredDist(inner, p)
<1>1. /\ p[1] \in Int /\ p[2] \in Int
      /\ outer.min[1] \in Int /\ outer.max[1] \in Int /\ outer.min[2] \in Int /\ outer.max[2] \in Int
      /\ inner.min[1] \in Int /\ inner.max[1] \in Int /\ inner.min[2] \in Int /\ inner.max[2] \in Int
      /\ outer.min[1] <= inner.min[1] /\ inner.min[1] <= inner.max[1] /\ inner.max[1] <= outer.max[1]
      /\ outer.min[2] <= inner.min[2] /\ inner.min[2] <= inner.max[2] /\ inner.max[2] <= outer.max[2]
  BY DEF IsBox, Points, Encloses
<1> DEFINE a == p[1] - Within(p[1], outer.min[1], outer.max[1])
           b == p[2] - Within(p[2], outer.min[2], outer.max[2])
           c == p[1] - Within(p[1], inner.min[1], inner.max[1])
           d == p[2] - Within(p[2], inner.min[2], inner.max[2])
<1>0. /\ Nearer(p[1], outer.min[1], outer.max[1], inner.min[1], inner.max[1])
      /\ Nearer(p[2], outer.min[2], outer.max[2], inner.min[2], inner.max[2])
  BY <1>1, NearerInterval, Zenon
<1>2. a \in Int /\ c \in Int /\ a * a <= c * c
  BY <1>0, <1>1 DEF Nearer
<1>3. b \in Int /\ d \in Int /\ b * b <= d * d
  BY <1>0, <1>1 DEF Nearer
<1>4. GetMinSquaredDist(outer, p) = a * a + b * b
  BY DEF GetMinSquaredDist, Squared, NearestIn
<1>5. GetMinSquaredDist(inner, p) = c * c + d * d
  BY DEF GetMinSquaredDist, Squared, NearestIn
<1> HIDE DEF a, b, c, d
<1>6. a * a \in Nat /\ b * b \in Nat /\ c * c \in Nat /\ d * d \in Nat
  BY <1>2, <1>3, SquareNat
<1>7. a * a + b * b <= c * c + d * d
  BY <1>2, <1>3, <1>6
<1> QED
  BY <1>4, <1>5, <1>7

LEMMA AroundIsBox ==
  ASSUME NEW segment, Location[segment.u] \in Points, Location[segment.v] \in Points
  PROVE  IsBox(Around(segment))
<1> DEFINE p == Location[segment.u]
           q == Location[segment.v]
           boxes == {[min |-> r, max |-> r] : r \in {p, q}}
<1>1. p[1] \in Int /\ p[2] \in Int /\ q[1] \in Int /\ q[2] \in Int
  BY DEF Points
<1>2. /\ {b.min[1] : b \in boxes} = {p[1], q[1]} /\ {b.min[2] : b \in boxes} = {p[2], q[2]}
      /\ {b.max[1] : b \in boxes} = {p[1], q[1]} /\ {b.max[2] : b \in boxes} = {p[2], q[2]}
  <2> DEFINE A == [min |-> p, max |-> p]
             B == [min |-> q, max |-> q]
  <2>1. boxes = {A, B}
    OBVIOUS
  <2>2. A.min = p /\ A.max = p /\ B.min = q /\ B.max = q
    OBVIOUS
  <2> HIDE DEF A, B, boxes, p, q
  <2> QED
    BY <2>1, <2>2
<1>3. Around(segment) = [min |-> <<Min({p[1], q[1]}), Min({p[2], q[2]})>>,
                         max |-> <<Max({p[1], q[1]}), Max({p[2], q[2]})>>]
  BY <1>2 DEF Around, Merged
<1> HIDE DEF p, q
<1>4. /\ Min({p[1], q[1]}) \in Int /\ Max({p[1], q[1]}) \in Int /\ Min({p[1], q[1]}) <= Max({p[1], q[1]})
      /\ Min({p[2], q[2]}) \in Int /\ Max({p[2], q[2]}) \in Int /\ Min({p[2], q[2]}) <= Max({p[2], q[2]})
  <2>1. \A a, b \in Int : Min({a, b}) \in Int /\ Max({a, b}) \in Int /\ Min({a, b}) <= Max({a, b})
    <3> TAKE a, b \in Int
    <3>1. Min({a, b}) = (IF a <= b THEN a ELSE b) /\ Max({a, b}) = IF a >= b THEN a ELSE b
      BY TwoOf
    <3> QED
      BY <3>1
  <2> QED
    BY <1>1, <2>1
<1> QED
  BY <1>3, <1>4 DEF IsBox

(***************************************************************************)
(* The tree.  The path of a segment leads from the root to its leaf: on    *)
(* every level it is below one node, whose offset the path gives.          *)
(***************************************************************************)

Objects == DOMAIN RTree.objects
Depth == Height(RTree)
Nodes == UNION {{[level |-> l, offset |-> o] : o \in 0..NodesOn(RTree, l) - 1} : l \in 0..Depth - 1}

IsPath(f, x, k) ==
  \A l \in k..Depth - 1 :
    f[l] \in Nat /\ f[l] = IF l = Depth - 1 THEN x \div LeafSize ELSE f[l + 1] \div BranchingFactor
Path(x) == CHOOSE f : IsPath(f, x, 0)
Under(node) == {x \in Objects : Path(x)[node.level] = node.offset}

Ends(segment) == Location[segment.u] \in Points /\ Location[segment.v] \in Points

LEMMA Sizes ==
  /\ BranchingFactor \in Nat \ {0} /\ LeafSize \in Nat \ {0}
  /\ Depth \in Nat \ {0}
  /\ \A l \in 0..Depth : RTree.starts[l] \in Nat
  /\ \A l \in 0..Depth - 1 : NodesOn(RTree, l) \in Int
  /\ NodesOn(RTree, 0) = 1 /\ RTree.starts[0] = 0
  /\ \A l \in 0..Depth - 2 : NodesOn(RTree, l) = Full(NodesOn(RTree, l + 1), BranchingFactor)
<1>1. BranchingFactor \in Nat \ {0} /\ LeafSize \in Nat \ {0}
  BY TreeAssumption
<1>2. Depth \in Nat \ {0} /\ RTree.starts \in [0..Depth -> Nat]
  BY MapAssumption DEF Packed, Depth
<1>3. \A l \in 0..Depth : RTree.starts[l] \in Nat
  BY <1>2
<1>4. \A l \in 0..Depth - 1 : NodesOn(RTree, l) \in Int
  BY <1>2, <1>3 DEF NodesOn
<1>5. NodesOn(RTree, 0) = 1 /\ RTree.starts[0] = 0
  BY MapAssumption DEF Packed
<1>6. \A l \in 0..Depth - 2 : NodesOn(RTree, l) = Full(NodesOn(RTree, l + 1), BranchingFactor)
  BY MapAssumption DEF Packed, Depth
<1> QED
  BY <1>1, <1>2, <1>3, <1>4, <1>5, <1>6

LEMMA ObjectsAre ==
  /\ Cardinality(Objects) \in Nat /\ Objects = 0..Cardinality(Objects) - 1 /\ IsFiniteSet(Objects)
  /\ NodesOn(RTree, Depth - 1) = Full(Cardinality(Objects), LeafSize)
  /\ \A x \in Objects : Ends(RTree.objects[x]) /\ IsBox(Around(RTree.objects[x]))
<1>1. Cardinality(Objects) \in Nat /\ Objects = 0..Cardinality(Objects) - 1
  BY MapAssumption DEF Packed, Objects
<1>2. IsFiniteSet(Objects)
  <2> DEFINE n == Cardinality(Objects)
  <2>1. n \in Nat /\ Objects = 0..n - 1
    BY <1>1
  <2> HIDE DEF n
  <2> QED
    BY <2>1, FS_Interval
<1>3. NodesOn(RTree, Depth - 1) = Full(Cardinality(Objects), LeafSize)
  BY MapAssumption DEF Packed, Objects, Depth
<1>4. \A x \in Objects : Ends(RTree.objects[x])
  BY MapAssumption DEF Objects, Ends, Points
<1>5. \A x \in Objects : IsBox(Around(RTree.objects[x]))
  BY <1>4, AroundIsBox DEF Ends
<1> QED
  BY <1>1, <1>2, <1>3, <1>4, <1>5

LEMMA Boxes ==
  ASSUME NEW node \in Nodes
  PROVE  /\ IsBox(BoxOf(RTree, node))
         /\ \A i \in child_indexes(RTree, node) :
               Encloses(BoxOf(RTree, node), IF is_leaf(RTree, node) THEN Around(RTree.objects[i]) ELSE RTree.nodes[i])
<1>0. PICK l \in 0..Depth - 1 : \E o \in 0..NodesOn(RTree, l) - 1 : node = [level |-> l, offset |-> o]
  BY DEF Nodes
<1>1. PICK o \in 0..NodesOn(RTree, l) - 1 : node = [level |-> l, offset |-> o]
  BY <1>0
<1>2. \A m \in 0..Depth - 1 : \A k \in 0..NodesOn(RTree, m) - 1 : \A n \in {[level |-> m, offset |-> k]} :
         /\ IsBox(BoxOf(RTree, n))
         /\ \A i \in child_indexes(RTree, n) :
               Encloses(BoxOf(RTree, n), IF is_leaf(RTree, n) THEN Around(RTree.objects[i]) ELSE RTree.nodes[i])
  BY MapAssumption DEF Packed, Depth
<1> QED
  BY <1>1, <1>2

(* Division by a positive number. *)
LEMMA Division ==
  ASSUME NEW a \in Nat, NEW b \in Nat \ {0}
  PROVE  a \div b \in Nat /\ (a \div b) * b <= a /\ a < (a \div b) * b + b
OBVIOUS

LEMMA Quotient ==
  ASSUME NEW a \in Nat, NEW b \in Nat \ {0}, NEW q \in Nat
  PROVE  a \div b = q <=> q * b <= a /\ a < q * b + b
<1> DEFINE d == a \div b
<1>1. d \in Nat /\ d * b <= a /\ a < d * b + b
  BY Division
<1> HIDE DEF d
<1>2. ASSUME q * b <= a, a < q * b + b PROVE d = q
  <2>1. CASE d < q
    <3>1. (d + 1) * b <= q * b
      BY <1>1, <2>1, SMT
    <3>2. (d + 1) * b = d * b + b
      BY <1>1
    <3> QED
      BY <1>1, <1>2, <3>1, <3>2
  <2>2. CASE q < d
    <3>1. (q + 1) * b <= d * b
      BY <1>1, <2>2, SMT
    <3>2. (q + 1) * b = q * b + b
      OBVIOUS
    <3> QED
      BY <1>1, <1>2, <3>1, <3>2
  <2> QED
    BY <1>1, <2>1, <2>2
<1> QED
  BY <1>1, <1>2 DEF d

(* What is packed into nodes fits into as many as that takes. *)
LEMMA FullHolds ==
  ASSUME NEW n \in Int, NEW size \in Nat \ {0}, NEW x \in Nat, x < n
  PROVE  x \div size < Full(n, size)
<1> DEFINE f == (n + size - 1) \div size
           q == x \div size
<1>1. f \in Nat /\ n + size - 1 < f * size + size
  <2>1. n + size - 1 \in Nat
    OBVIOUS
  <2> QED
    BY <2>1, Division
<1>2. q \in Nat /\ q * size <= x
  BY Division
<1> HIDE DEF f, q
<1>3. ~(f <= q)
  <2> SUFFICES ASSUME f <= q PROVE FALSE
    OBVIOUS
  <2>1. f * size <= q * size
    BY <1>1, <1>2, SMT
  <2> QED
    BY <1>1, <1>2, <2>1
<1>4. q < f
  BY <1>1, <1>2, <1>3
<1> QED
  BY <1>4 DEF f, q, Full

LEMMA PathIs ==
  ASSUME NEW x \in Nat
  PROVE  IsPath(Path(x), x, 0)
<1>0. Depth \in Nat \ {0} /\ BranchingFactor \in Nat \ {0} /\ LeafSize \in Nat \ {0}
  BY Sizes
<1> DEFINE Known == {k \in 0..Depth - 1 : \E f : IsPath(f, x, k)}
<1>1. Depth - 1 \in Known
  <2> DEFINE f == [l \in {Depth - 1} |-> x \div LeafSize]
  <2>1. x \div LeafSize \in Nat
    BY <1>0, Division
  <2>2. f[Depth - 1] = x \div LeafSize
    OBVIOUS
  <2> HIDE DEF f
  <2>3. IsPath(f, x, Depth - 1)
    BY <1>0, <2>1, <2>2 DEF IsPath
  <2> QED
    BY <1>0, <2>3
<1>2. PICK k \in Known : \A j \in Known : k <= j
  <2>1. Known \subseteq Nat
    OBVIOUS
  <2> HIDE DEF Known
  <2> QED
    BY <1>1, <2>1, Smallest
<1>3. PICK f : IsPath(f, x, k)
  OBVIOUS
<1>4. k = 0
  <2> SUFFICES ASSUME k # 0 PROVE FALSE
    OBVIOUS
  <2> DEFINE v == f[k] \div BranchingFactor
             g == [l \in k - 1..Depth - 1 |-> IF l = k - 1 THEN v ELSE f[l]]
  <2>1. k \in 1..Depth - 1 /\ f[k] \in Nat
    BY <1>0, <1>3 DEF IsPath
  <2>2. v \in Nat
    BY <1>0, <2>1, Division
  <2>3. \A l \in k - 1..Depth - 1 : g[l] = IF l = k - 1 THEN v ELSE f[l]
    OBVIOUS
  <2> HIDE DEF g
  <2>4. ASSUME NEW l \in k - 1..Depth - 1
        PROVE  g[l] \in Nat /\ g[l] = IF l = Depth - 1 THEN x \div LeafSize ELSE g[l + 1] \div BranchingFactor
    <3>1. CASE l = k - 1
      <4>1. g[l] = v /\ g[l + 1] = f[k] /\ l # Depth - 1
        BY <1>0, <2>1, <2>3, <3>1
      <4> QED
        BY <2>2, <4>1
    <3>2. CASE l # k - 1
      <4>1. l \in k..Depth - 1 /\ g[l] = f[l]
        BY <1>0, <2>1, <2>3, <3>2
      <4>2. l # Depth - 1 => g[l + 1] = f[l + 1]
        BY <1>0, <2>1, <2>3, <4>1
      <4>3. f[l] \in Nat /\ f[l] = IF l = Depth - 1 THEN x \div LeafSize ELSE f[l + 1] \div BranchingFactor
        BY <1>3, <4>1 DEF IsPath
      <4> QED
        BY <4>1, <4>2, <4>3
    <3> QED
      BY <3>1, <3>2
  <2>5. IsPath(g, x, k - 1)
    BY <2>4 DEF IsPath
  <2>6. k - 1 \in Known
    BY <1>0, <2>1, <2>5
  <2> HIDE DEF Known
  <2>7. k <= k - 1
    BY <1>2, <2>6
  <2> QED
    BY <2>1, <2>7
<1>5. \E y : IsPath(y, x, 0)
  BY <1>3, <1>4
<1> QED
  BY <1>5, Zenon DEF Path

LEMMA PathStep ==
  ASSUME NEW x \in Objects, NEW l \in 0..Depth - 1
  PROVE  Path(x)[l] \in Nat /\ Path(x)[l] = IF l = Depth - 1 THEN x \div LeafSize ELSE Path(x)[l + 1] \div BranchingFactor
<1>1. x \in Nat
  BY ObjectsAre
<1> QED
  BY <1>1, PathIs DEF IsPath

(* A statement about a node that carries over from any node to the one above *)
(* holds up to the root: the largest level it fails on.                       *)
LEMMA Upward ==
  ASSUME NEW Good, Depth - 1 \in Good,
         \A l \in 0..Depth - 2 : l + 1 \in Good => l \in Good
  PROVE  \A l \in 0..Depth - 1 : l \in Good
<1>0. Depth \in Nat \ {0}
  BY Sizes
<1> DEFINE Bad == {n \in 0..Depth - 1 : Depth - 1 - n \notin Good}
<1>1. ASSUME Bad # {} PROVE FALSE
  <2>1. PICK n \in Bad : \A m \in Bad : n <= m
    <3>1. Bad \subseteq Nat
      OBVIOUS
    <3> HIDE DEF Bad
    <3> QED
      BY <1>1, <3>1, Smallest
  <2>2. n # 0
    BY <1>0
  <2>3. n - 1 \in 0..Depth - 1 /\ n - 1 \notin Bad
    <3>1. n - 1 \in 0..Depth - 1
      BY <1>0, <2>2
    <3>2. n \in Nat
      BY <1>0
    <3> HIDE DEF Bad
    <3> QED
      BY <2>1, <3>1, <3>2
  <2>4. Depth - 1 - (n - 1) \in Good
    BY <2>3
  <2>5. Depth - 1 - n \in 0..Depth - 2 /\ Depth - 1 - (n - 1) = Depth - 1 - n + 1
    BY <1>0, <2>2
  <2>6. Depth - 1 - n \in Good
    BY <2>4, <2>5
  <2> QED
    BY <2>6
<1>2. ASSUME NEW l \in 0..Depth - 1 PROVE l \in Good
  <2>1. Depth - 1 - l \in 0..Depth - 1 /\ Depth - 1 - (Depth - 1 - l) = l
    BY <1>0
  <2>2. Depth - 1 - l \notin Bad
    BY <1>1
  <2> QED
    BY <2>1, <2>2
<1> QED
  BY <1>2

LEMMA PathWithin ==
  ASSUME NEW x \in Objects
  PROVE  \A l \in 0..Depth - 1 : Path(x)[l] < NodesOn(RTree, l)
<1>0. Depth \in Nat \ {0}
  BY Sizes
<1> DEFINE Good == {l \in 0..Depth - 1 : Path(x)[l] < NodesOn(RTree, l)}
<1>1. Depth - 1 \in Good
  <2> DEFINE n == Cardinality(Objects)
  <2>1. x \in Nat /\ n \in Int /\ x < n
    BY ObjectsAre
  <2>2. NodesOn(RTree, Depth - 1) = Full(n, LeafSize)
    BY ObjectsAre
  <2>3. Path(x)[Depth - 1] = x \div LeafSize
    BY <1>0, PathStep
  <2> HIDE DEF n
  <2>4. x \div LeafSize < Full(n, LeafSize)
    BY <2>1, Sizes, FullHolds
  <2> QED
    BY <1>0, <2>2, <2>3, <2>4
<1>2. ASSUME NEW l \in 0..Depth - 2, l + 1 \in Good PROVE l \in Good
  <2> DEFINE y == Path(x)[l + 1]
             n == NodesOn(RTree, l + 1)
  <2>1. y < n
    BY <1>2
  <2>2. y \in Nat /\ n \in Int
    BY <1>0, PathStep, Sizes
  <2>3. Path(x)[l] = y \div BranchingFactor
    BY <1>0, PathStep
  <2>4. NodesOn(RTree, l) = Full(n, BranchingFactor)
    BY Sizes
  <2> HIDE DEF y, n
  <2>5. y \div BranchingFactor < Full(n, BranchingFactor)
    BY <2>1, <2>2, Sizes, FullHolds
  <2> QED
    BY <1>0, <2>3, <2>4, <2>5
<1> HIDE DEF Good
<1>3. \A l \in 0..Depth - 1 : l \in Good
  BY <1>1, <1>2, Upward
<1> QED
  BY <1>3 DEF Good

LEMMA RootHolds ==
  Root \in Nodes /\ Under(Root) = Objects
<1>0. Depth \in Nat \ {0} /\ NodesOn(RTree, 0) = 1
  BY Sizes
<1>1. Root \in Nodes
  BY <1>0 DEF Root, Nodes
<1>2. ASSUME NEW x \in Objects PROVE Path(x)[0] = 0
  <2>1. Path(x)[0] < 1 /\ Path(x)[0] \in Nat
    BY <1>0, PathWithin, PathStep
  <2> QED
    BY <2>1
<1> QED
  BY <1>1, <1>2 DEF Under, Root

LEMMA LeafOrNot ==
  ASSUME NEW node \in Nodes
  PROVE  /\ is_leaf(RTree, node) <=> node.level = Depth - 1
         /\ node = [level |-> node.level, offset |-> node.offset]
         /\ node.level \in 0..Depth - 1 /\ node.offset \in 0..NodesOn(RTree, node.level) - 1
<1>0. PICK l \in 0..Depth - 1 : \E o \in 0..NodesOn(RTree, l) - 1 : node = [level |-> l, offset |-> o]
  BY DEF Nodes
<1>1. PICK o \in 0..NodesOn(RTree, l) - 1 : node = [level |-> l, offset |-> o]
  BY <1>0
<1>2. node.level = l /\ node.offset = o
  BY <1>1
<1>3. Depth = Cardinality(DOMAIN RTree.starts) - 1 /\ Depth \in Nat
  BY Sizes DEF Depth, Height
<1>4. Cardinality(DOMAIN RTree.starts) \in Int
  <2>1. RTree.starts \in [0..Depth -> Nat]
    BY MapAssumption DEF Packed, Depth
  <2>2. IsFiniteSet(DOMAIN RTree.starts)
    <3>1. IsFiniteSet(0..Depth)
      BY <1>3, FS_Interval
    <3> QED
      BY <2>1, <3>1
  <2> QED
    BY <2>2, FS_CardinalityType
<1> QED
  BY <1>1, <1>2, <1>3, <1>4 DEF is_leaf

LEMMA UpTo ==
  ASSUME NEW a \in Int, NEW b \in Int, NEW c \in Int, NEW i
  PROVE  i \in a..Min({b, c}) - 1 <=> i \in Int /\ a <= i /\ i < b /\ i < c
<1>1. Min({b, c}) = IF b <= c THEN b ELSE c
  BY TwoOf
<1> QED
  BY <1>1

(* A leaf is above the segments it lists. *)
LEMMA LeafHolds ==
  ASSUME NEW node \in Nodes, is_leaf(RTree, node)
  PROVE  Under(node) = child_indexes(RTree, node)
<1>0. Depth \in Nat \ {0} /\ LeafSize \in Nat \ {0}
  BY Sizes
<1> DEFINE o == node.offset
           n == Cardinality(Objects)
<1>1. node.level = Depth - 1 /\ o \in Nat
  BY LeafOrNot, Sizes
<1>2. child_indexes(RTree, node) = o * LeafSize..Min({o * LeafSize + LeafSize, n}) - 1
  BY DEF child_indexes, Objects
<1>3. n \in Nat /\ Objects = 0..n - 1
  BY ObjectsAre
<1> HIDE DEF o, n
<1>4. o * LeafSize \in Nat /\ o * LeafSize + LeafSize \in Int
  BY <1>0, <1>1
<1>5. ASSUME NEW x PROVE x \in Under(node) <=> x \in child_indexes(RTree, node)
  <2>1. x \in child_indexes(RTree, node) <=> x \in Int /\ o * LeafSize <= x /\ x < o * LeafSize + LeafSize /\ x < n
    BY <1>2, <1>3, <1>4, UpTo
  <2>2. CASE x \in Objects
    <3>1. x \in Nat /\ x < n
      BY <1>3, <2>2
    <3>2. Path(x)[Depth - 1] = x \div LeafSize
      BY <1>0, <2>2, PathStep
    <3>3. x \div LeafSize = o <=> o * LeafSize <= x /\ x < o * LeafSize + LeafSize
      BY <1>0, <1>1, <3>1, Quotient
    <3> QED
      BY <1>1, <2>1, <2>2, <3>1, <3>2, <3>3 DEF Under, o
  <2>3. CASE x \notin Objects
    <3> DEFINE m == o * LeafSize
    <3>0. m \in Nat /\ (x \in child_indexes(RTree, node) => x \in Int /\ m <= x /\ x < n)
      BY <1>4, <2>1
    <3> HIDE DEF m
    <3>1. x \in child_indexes(RTree, node) => x \in 0..n - 1
      BY <1>3, <3>0
    <3> QED
      BY <1>3, <2>3, <3>1 DEF Under
  <2> QED
    BY <2>2, <2>3
<1> QED
  BY <1>5

(* The node at a position on the level below. *)
Child(node, k) == [level |-> node.level + 1, offset |-> k]
Children(node) == {k \in 0..NodesOn(RTree, node.level + 1) - 1 : k \div BranchingFactor = node.offset}

LEMMA ChildIndexes ==
  ASSUME NEW node \in Nodes, ~is_leaf(RTree, node)
  PROVE  /\ node.level \in 0..Depth - 2
         /\ \A i \in child_indexes(RTree, node) :
               \E k \in Children(node) : Below(RTree, node, i) = Child(node, k) /\ RTree.nodes[i] = BoxOf(RTree, Child(node, k))
         /\ \A k \in Children(node) : \E i \in child_indexes(RTree, node) : Below(RTree, node, i) = Child(node, k)
<1>0. Depth \in Nat \ {0} /\ BranchingFactor \in Nat \ {0}
  BY Sizes
<1>1. node.level \in 0..Depth - 2 /\ node.offset \in Nat
  BY <1>0, LeafOrNot, Sizes
<1> DEFINE a == RTree.starts[node.level + 1]
           b == RTree.starts[node.level + 2]
           m == node.offset * BranchingFactor
<1>2. a \in Nat /\ b \in Nat /\ m \in Nat
  BY <1>0, <1>1, Sizes
<1>3. NodesOn(RTree, node.level + 1) = b - a
  BY <1>1 DEF NodesOn
<1>4. child_indexes(RTree, node) = a + m..Min({a + m + BranchingFactor, b}) - 1
  BY DEF child_indexes
<1>5. \A k : BoxOf(RTree, Child(node, k)) = RTree.nodes[a + k]
  BY DEF BoxOf, Child
<1>6. \A i : Below(RTree, node, i) = Child(node, i - a)
  BY DEF Below, Child
<1> HIDE DEF a, b
<1>7. ASSUME NEW i \in Int
      PROVE  i \in child_indexes(RTree, node) <=> i - a \in Children(node)
  <2>1. i \in child_indexes(RTree, node) <=> a + m <= i /\ i < a + m + BranchingFactor /\ i < b
    <3> HIDE DEF m
    <3>1. a + m \in Int /\ a + m + BranchingFactor \in Int
      BY <1>0, <1>2
    <3> QED
      BY <1>2, <1>4, <3>1, UpTo
  <2>2. CASE i - a \in Nat
    <3>1. (i - a) \div BranchingFactor = node.offset <=> m <= i - a /\ i - a < m + BranchingFactor
      BY <1>0, <1>1, <2>2, Quotient
    <3> HIDE DEF m
    <3>2. i - a \in Children(node) <=> i - a < b - a /\ m <= i - a /\ i - a < m + BranchingFactor
      BY <1>2, <1>3, <2>2, <3>1 DEF Children
    <3> QED
      BY <1>0, <1>2, <2>1, <3>2
  <2>3. CASE i - a \notin Nat
    <3> HIDE DEF m
    <3>1. i - a \notin Children(node)
      BY <2>3 DEF Children
    <3>2. ~(a + m <= i)
      BY <1>2, <2>3
    <3> QED
      BY <2>1, <3>1, <3>2
  <2> QED
    BY <2>2, <2>3
<1>8. ASSUME NEW i \in child_indexes(RTree, node)
      PROVE  \E k \in Children(node) : Below(RTree, node, i) = Child(node, k) /\ RTree.nodes[i] = BoxOf(RTree, Child(node, k))
  <2>1. i \in Int
    <3> HIDE DEF m
    <3>1. a + m \in Int /\ a + m + BranchingFactor \in Int
      BY <1>0, <1>2
    <3> QED
      BY <1>2, <1>4, <3>1, UpTo
  <2>2. i - a \in Children(node)
    BY <1>7, <2>1
  <2>3. RTree.nodes[i] = RTree.nodes[a + (i - a)]
    BY <1>2, <2>1
  <2> QED
    BY <1>5, <1>6, <2>2, <2>3
<1>9. ASSUME NEW k \in Children(node)
      PROVE  \E i \in child_indexes(RTree, node) : Below(RTree, node, i) = Child(node, k)
  <2>1. k \in Int
    BY DEF Children
  <2>2. PICK i \in Int : i = a + k
    BY <1>2, <2>1
  <2>3. i - a = k
    BY <1>2, <2>1, <2>2
  <2>4. i \in child_indexes(RTree, node)
    BY <1>7, <2>3
  <2> QED
    BY <1>6, <2>3, <2>4
<1> QED
  BY <1>1, <1>8, <1>9

(* A node that is no leaf is above what its children are above. *)
LEMMA NodeHolds ==
  ASSUME NEW node \in Nodes, ~is_leaf(RTree, node)
  PROVE  /\ \A k \in Children(node) : Child(node, k) \in Nodes /\ Under(Child(node, k)) \subseteq Under(node)
         /\ \A x \in Under(node) : \E k \in Children(node) : x \in Under(Child(node, k))
<1>0. Depth \in Nat \ {0}
  BY Sizes
<1>1. node.level \in 0..Depth - 2
  BY ChildIndexes
<1>2. ASSUME NEW x \in Objects
      PROVE  Path(x)[node.level] = Path(x)[node.level + 1] \div BranchingFactor
             /\ Path(x)[node.level + 1] \in 0..NodesOn(RTree, node.level + 1) - 1
  <2>1. Path(x)[node.level] = Path(x)[node.level + 1] \div BranchingFactor
    BY <1>0, <1>1, PathStep
  <2>2. Path(x)[node.level + 1] \in Nat /\ Path(x)[node.level + 1] < NodesOn(RTree, node.level + 1)
    BY <1>0, <1>1, PathStep, PathWithin
  <2>3. NodesOn(RTree, node.level + 1) \in Int
    BY <1>0, <1>1, Sizes
  <2> QED
    BY <2>1, <2>2, <2>3
<1>3. ASSUME NEW k \in Children(node)
      PROVE  Child(node, k) \in Nodes /\ Under(Child(node, k)) \subseteq Under(node)
  <2>1. k \in 0..NodesOn(RTree, node.level + 1) - 1 /\ k \div BranchingFactor = node.offset
    BY DEF Children
  <2>2. Child(node, k) \in Nodes
    BY <1>0, <1>1, <2>1 DEF Child, Nodes
  <2> QED
    BY <1>2, <2>1, <2>2 DEF Under, Child
<1>4. ASSUME NEW x \in Under(node)
      PROVE  \E k \in Children(node) : x \in Under(Child(node, k))
  <2>1. x \in Objects /\ Path(x)[node.level] = node.offset
    BY DEF Under
  <2>2. Path(x)[node.level + 1] \in Children(node)
    BY <1>2, <2>1 DEF Children
  <2>3. x \in Under(Child(node, Path(x)[node.level + 1]))
    BY <2>1 DEF Under, Child
  <2> QED
    BY <2>2, <2>3
<1> QED
  BY <1>3, <1>4

(* Where a segment is nearest to the point of a query, and how near it is. *)
Place(ask, x) == NearestIn(Around(RTree.objects[x]), ask.point)
Dist(ask, x) == Squared(ask.point, Place(ask, x))

LEMMA Distances ==
  ASSUME NEW ask, ask.point \in Points, NEW x \in Objects
  PROVE  Place(ask, x) \in Points /\ Dist(ask, x) \in Nat
<1>1. Place(ask, x) \in Points
  BY ObjectsAre, NearestIsPoint DEF Place
<1> QED
  BY <1>1, SquaredNat DEF Dist

LEMMA BoxDistances ==
  ASSUME NEW ask, ask.point \in Points, NEW node \in Nodes
  PROVE  GetMinSquaredDist(BoxOf(RTree, node), ask.point) \in Nat
<1>1. IsBox(BoxOf(RTree, node))
  BY Boxes
<1>2. NearestIn(BoxOf(RTree, node), ask.point) \in Points
  BY <1>1, NearestIsPoint
<1> QED
  BY <1>2, SquaredNat DEF GetMinSquaredDist

(* No child and no segment is nearer than the box of the node above it. *)
LEMMA ChildFarther ==
  ASSUME NEW ask, ask.point \in Points, NEW node \in Nodes, ~is_leaf(RTree, node), NEW k \in Children(node)
  PROVE  GetMinSquaredDist(BoxOf(RTree, node), ask.point) <= GetMinSquaredDist(BoxOf(RTree, Child(node, k)), ask.point)
<1>1. PICK i \in child_indexes(RTree, node) : Below(RTree, node, i) = Child(node, k)
  BY ChildIndexes
<1>2. PICK j \in Children(node) : Below(RTree, node, i) = Child(node, j) /\ RTree.nodes[i] = BoxOf(RTree, Child(node, j))
  BY ChildIndexes
<1>3. j = k
  BY <1>1, <1>2 DEF Child
<1>4. Encloses(BoxOf(RTree, node), BoxOf(RTree, Child(node, k)))
  BY <1>2, <1>3, Boxes
<1>5. IsBox(BoxOf(RTree, node)) /\ IsBox(BoxOf(RTree, Child(node, k)))
  BY Boxes, NodeHolds
<1> QED
  BY <1>4, <1>5, EnclosingIsNearer

LEMMA SegmentFarther ==
  ASSUME NEW ask, ask.point \in Points, NEW node \in Nodes, is_leaf(RTree, node), NEW x \in Under(node)
  PROVE  GetMinSquaredDist(BoxOf(RTree, node), ask.point) <= Dist(ask, x)
<1>1. x \in Objects /\ x \in child_indexes(RTree, node)
  BY LeafHolds DEF Under
<1>2. Encloses(BoxOf(RTree, node), Around(RTree.objects[x]))
  BY <1>1, Boxes
<1>3. IsBox(BoxOf(RTree, node)) /\ IsBox(Around(RTree.objects[x]))
  BY <1>1, Boxes, ObjectsAre
<1>4. GetMinSquaredDist(Around(RTree.objects[x]), ask.point) = Dist(ask, x)
  BY DEF GetMinSquaredDist, Dist, Place
<1> QED
  BY <1>2, <1>3, <1>4, EnclosingIsNearer

LEMMA NoneNearer ==
  ASSUME NEW ask, ask.point \in Points, NEW x \in Objects
  PROVE  \A node \in Nodes : x \in Under(node) => GetMinSquaredDist(BoxOf(RTree, node), ask.point) <= Dist(ask, x)
<1>0. Depth \in Nat \ {0}
  BY Sizes
<1> DEFINE On(l) == [level |-> l, offset |-> Path(x)[l]]
           Good == {l \in 0..Depth - 1 : GetMinSquaredDist(BoxOf(RTree, On(l)), ask.point) <= Dist(ask, x)}
<1>1. ASSUME NEW l \in 0..Depth - 1
      PROVE  On(l) \in Nodes /\ x \in Under(On(l)) /\ (is_leaf(RTree, On(l)) <=> l = Depth - 1)
  <2>1. Path(x)[l] \in 0..NodesOn(RTree, l) - 1
    <3>1. Path(x)[l] \in Nat /\ Path(x)[l] < NodesOn(RTree, l) /\ NodesOn(RTree, l) \in Int
      BY PathStep, PathWithin, Sizes
    <3> QED
      BY <3>1
  <2>2. On(l) \in Nodes
    BY <2>1 DEF Nodes
  <2>3. On(l).level = l /\ On(l).offset = Path(x)[l]
    OBVIOUS
  <2> HIDE DEF On
  <2>4. is_leaf(RTree, On(l)) <=> l = Depth - 1
    BY <2>2, <2>3, LeafOrNot
  <2> QED
    BY <2>2, <2>3, <2>4 DEF Under
<1>2. Depth - 1 \in Good
  <2>1. Depth - 1 \in 0..Depth - 1
    BY <1>0
  <2> HIDE DEF On
  <2> QED
    BY <1>1, <2>1, SegmentFarther
<1>3. ASSUME NEW l \in 0..Depth - 2, l + 1 \in Good PROVE l \in Good
  <2>1. l \in 0..Depth - 1 /\ l + 1 \in 0..Depth - 1 /\ l # Depth - 1
    BY <1>0
  <2>2. Path(x)[l] = Path(x)[l + 1] \div BranchingFactor
    BY <2>1, PathStep
  <2>3. Path(x)[l + 1] \in 0..NodesOn(RTree, l + 1) - 1
    <3>1. Path(x)[l + 1] \in Nat /\ Path(x)[l + 1] < NodesOn(RTree, l + 1) /\ NodesOn(RTree, l + 1) \in Int
      BY <2>1, PathStep, PathWithin, Sizes
    <3> QED
      BY <3>1
  <2>4. Path(x)[l + 1] \in Children(On(l)) /\ Child(On(l), Path(x)[l + 1]) = On(l + 1)
    BY <2>2, <2>3 DEF Children, Child
  <2>5. On(l) \in Nodes /\ ~is_leaf(RTree, On(l)) /\ On(l + 1) \in Nodes
    BY <1>1, <2>1
  <2>6. GetMinSquaredDist(BoxOf(RTree, On(l + 1)), ask.point) <= Dist(ask, x)
    BY <1>3
  <2> HIDE DEF On, Good
  <2>7. GetMinSquaredDist(BoxOf(RTree, On(l)), ask.point) <= GetMinSquaredDist(BoxOf(RTree, On(l + 1)), ask.point)
    BY <2>4, <2>5, ChildFarther
  <2>8. /\ GetMinSquaredDist(BoxOf(RTree, On(l)), ask.point) \in Nat
        /\ GetMinSquaredDist(BoxOf(RTree, On(l + 1)), ask.point) \in Nat /\ Dist(ask, x) \in Nat
    BY <2>5, BoxDistances, Distances
  <2>9. GetMinSquaredDist(BoxOf(RTree, On(l)), ask.point) <= Dist(ask, x)
    BY <2>6, <2>7, <2>8
  <2> QED
    BY <2>1, <2>9 DEF Good
<1> HIDE DEF Good
<1>4. \A l \in 0..Depth - 1 : l \in Good
  BY <1>2, <1>3, Upward
<1>5. ASSUME NEW node \in Nodes, x \in Under(node)
      PROVE  GetMinSquaredDist(BoxOf(RTree, node), ask.point) <= Dist(ask, x)
  <2>1. node.level \in 0..Depth - 1 /\ node = [level |-> node.level, offset |-> node.offset]
    BY LeafOrNot
  <2>2. node = On(node.level)
    BY <1>5, <2>1 DEF Under
  <2> QED
    BY <1>4, <2>1, <2>2 DEF Good
<1> QED
  BY <1>5

(***************************************************************************)
(* The search.  What it has put out or passed over, what is still below an *)
(* entry of its heap, and what is nearer than what.                        *)
(***************************************************************************)

WellAsked(ask) ==
  /\ ask.point \in Points /\ ask.alternatives \in BOOLEAN
  /\ ask.max_results \in Nat \cup {Unset} /\ ask.max_distance \in Nat \cup {Unset}

Usable(ask, x) == UseSegment(RTree.objects[x], ask) # Neither
Tiny(x) == IsTinyComponent(RTree.objects[x])
Near(ask, x) == ask.max_distance = Unset \/ Dist(ask, x) <= ask.max_distance

(* An entry of the heap, and the segments it stands for. *)
IsEntry(ask, c) ==
  /\ c.dist \in Int
  /\ \/ /\ c.segment = NoSegment /\ c.index \in Nodes
        /\ c.dist <= GetMinSquaredDist(BoxOf(RTree, c.index), ask.point)
     \/ c.segment \in Objects /\ c.dist = Dist(ask, c.segment) /\ c.at = Place(ask, c.segment)
Cover(c) == IF c.segment = NoSegment THEN Under(c.index) ELSE {c.segment}
Visited(queue) == {x \in Objects : \A c \in queue : x \notin Cover(c)}

HeapInv(ask, queue) ==
  /\ \A c \in queue : IsEntry(ask, c)
  /\ \A c, d \in queue : c = d \/ Cover(c) \cap Cover(d) = {}
  /\ \A x \in Visited(queue), c \in queue : Dist(ask, x) <= c.dist
  /\ \A x \in Visited(queue) : Near(ask, x)

(* The first places of any sort and of the big component, of what was seen. *)
Seen(s) == {x \in Visited(s.queue) : Usable(s.ask, x)}
IsFirst(ask, place, seen) ==
  IF place = Nowhere THEN seen = {}
  ELSE \E x \in seen : Place(ask, x) = place /\ \A y \in seen : Dist(ask, x) <= Dist(ask, y)
PlacesInv(s) ==
  /\ IsFirst(s.ask, s.nearest, Seen(s))
  /\ IsFirst(s.ask, s.big, {x \in Seen(s) : ~Tiny(x)})
  /\ s.big # Nowhere /\ s.nearest # s.big => \E x \in Seen(s) : Tiny(x) /\ Place(s.ask, x) = s.nearest

(* The results are the usable segments seen that the filter lets through. *)
Wanted(s, x) == s.ask.alternatives => Place(s.ask, x) = IF Tiny(x) THEN s.nearest ELSE s.big
Picked(s) == {x \in Seen(s) : Wanted(s, x)}
Stands(ask, r, x) ==
  /\ r.data.forward.id = RTree.objects[x].forward.id /\ r.data.position = RTree.objects[x].position
  /\ r.at = Place(ask, x) /\ r.dist = Dist(ask, x)
ResultsInv(s) ==
  /\ s.results \in Seq({s.results[k] : k \in DOMAIN s.results})
  /\ \A k \in 1..Len(s.results) : \E x \in Picked(s) : Stands(s.ask, s.results[k], x)
  /\ \A x \in Picked(s) : \E k \in 1..Len(s.results) : Stands(s.ask, s.results[k], x)
  /\ \A x \in Objects, j, k \in 1..Len(s.results) :
        Stands(s.ask, s.results[j], x) /\ Stands(s.ask, s.results[k], x) => j = k
  /\ \A j, k \in 1..Len(s.results) : j < k => s.results[j].dist <= s.results[k].dist
  /\ ~s.ask.alternatives /\ s.ask.max_results # Unset => Len(s.results) <= s.ask.max_results

RunningInv(s) == HeapInv(s.ask, s.queue) /\ PlacesInv(s) /\ ResultsInv(s)

IsSearch(s) == s = [f \in {"ask", "queue", "results", "nearest", "big", "phase"} |-> s[f]]
SearchInv ==
  /\ IsSearch(search)
  /\ search.phase \in {"idle", "running", "done"}
  /\ search.phase # "idle" => WellAsked(search.ask)
  /\ search.phase = "running" => RunningInv(search)
  /\ SearchExact

(* A query's candidates. *)
LEMMA EntryIs ==
  ASSUME NEW ask, WellAsked(ask), NEW c, IsEntry(ask, c)
  PROVE  /\ c.segment = NoSegment <=> c.segment \notin Objects
         /\ Cover(c) \subseteq Objects
         /\ \A x \in Cover(c) : c.dist <= Dist(ask, x)
<1>1. NoSegment \notin Objects
  BY ObjectsAre DEF NoSegment
<1>2. ask.point \in Points
  BY DEF WellAsked
<1>3. CASE c.segment = NoSegment
  <2>1. c.index \in Nodes /\ c.dist \in Int /\ c.dist <= GetMinSquaredDist(BoxOf(RTree, c.index), ask.point)
    BY <1>1, <1>3 DEF IsEntry
  <2>2. ASSUME NEW x \in Under(c.index) PROVE c.dist <= Dist(ask, x)
    <3>1. x \in Objects
      BY DEF Under
    <3>2. GetMinSquaredDist(BoxOf(RTree, c.index), ask.point) <= Dist(ask, x)
      BY <1>2, <2>1, <3>1, NoneNearer
    <3>3. GetMinSquaredDist(BoxOf(RTree, c.index), ask.point) \in Nat /\ Dist(ask, x) \in Nat
      BY <1>2, <2>1, <3>1, BoxDistances, Distances
    <3> QED
      BY <2>1, <3>2, <3>3
  <2> QED
    BY <1>1, <1>3, <2>2 DEF Cover, Under
<1>4. CASE c.segment # NoSegment
  <2>1. c.segment \in Objects /\ c.dist = Dist(ask, c.segment) /\ c.dist \in Int
    BY <1>4 DEF IsEntry
  <2> QED
    BY <1>4, <2>1 DEF Cover
<1> QED
  BY <1>3, <1>4

(* What may take the place of a node on the heap: entries no nearer that      *)
(* share out the segments below it.                                           *)
AreKids(ask, c, kids) ==
  /\ \A e \in kids : IsEntry(ask, e) /\ Cover(e) \subseteq Cover(c) /\ c.dist <= e.dist
  /\ \A d, e \in kids : d = e \/ Cover(d) \cap Cover(e) = {}
  /\ \A x \in Cover(c) : \E e \in kids : x \in Cover(e)

LEMMA KidsForNode ==
  ASSUME NEW ask, WellAsked(ask), NEW queue, HeapInv(ask, queue), NEW c \in queue, NEW kids, AreKids(ask, c, kids)
  PROVE  /\ Visited((queue \ {c}) \cup kids) = Visited(queue)
         /\ HeapInv(ask, (queue \ {c}) \cup kids)
<1> DEFINE next == (queue \ {c}) \cup kids
<1>1. Visited(next) = Visited(queue)
  <2>1. ASSUME NEW x \in Visited(queue) PROVE x \in Visited(next)
    BY DEF Visited, AreKids
  <2>2. ASSUME NEW x \in Visited(next) PROVE x \in Visited(queue)
    <3>1. x \notin Cover(c)
      BY DEF Visited, AreKids
    <3> QED
      BY <3>1 DEF Visited
  <2> QED
    BY <2>1, <2>2
<1>2. \A e \in next : IsEntry(ask, e)
  BY DEF HeapInv, AreKids
<1>3. ASSUME NEW d \in next, NEW e \in next, d # e PROVE Cover(d) \cap Cover(e) = {}
  <2>1. CASE d \in kids /\ e \in kids
    BY <1>3, <2>1 DEF AreKids
  <2>2. CASE d \in kids /\ e \notin kids
    <3>1. e \in queue /\ e # c /\ Cover(d) \subseteq Cover(c)
      BY <2>2 DEF AreKids
    <3>2. Cover(e) \cap Cover(c) = {}
      BY <3>1 DEF HeapInv
    <3> QED
      BY <3>1, <3>2
  <2>3. CASE d \notin kids /\ e \in kids
    <3>1. d \in queue /\ d # c /\ Cover(e) \subseteq Cover(c)
      BY <2>3 DEF AreKids
    <3>2. Cover(d) \cap Cover(c) = {}
      BY <3>1 DEF HeapInv
    <3> QED
      BY <3>1, <3>2
  <2>4. CASE d \notin kids /\ e \notin kids
    BY <1>3, <2>4 DEF HeapInv
  <2> QED
    BY <2>1, <2>2, <2>3, <2>4
<1>4. ASSUME NEW x \in Visited(next), NEW e \in next PROVE Dist(ask, x) <= e.dist
  <2>0. x \in Visited(queue)
    BY <1>1
  <2>1. CASE e \in queue
    BY <2>0, <2>1 DEF HeapInv
  <2>2. CASE e \in kids
    <3>1. Dist(ask, x) <= c.dist /\ c.dist <= e.dist
      BY <2>0, <2>2 DEF HeapInv, AreKids
    <3>2. Dist(ask, x) \in Nat
      BY <2>0, Distances DEF Visited, WellAsked
    <3>3. c.dist \in Int /\ e.dist \in Int
      BY <2>2 DEF HeapInv, AreKids, IsEntry
    <3> QED
      BY <3>1, <3>2, <3>3
  <2> QED
    BY <2>1, <2>2
<1>5. ASSUME NEW x \in Visited(next) PROVE Near(ask, x)
  BY <1>1 DEF HeapInv
<1> HIDE DEF next
<1>6. HeapInv(ask, next)
  BY <1>2, <1>3, <1>4, <1>5 DEF HeapInv
<1> QED
  BY <1>1, <1>6 DEF next

LEMMA LeafKids ==
  ASSUME NEW ask, WellAsked(ask), NEW c, IsEntry(ask, c), c.segment = NoSegment, is_leaf(RTree, c.index)
  PROVE  AreKids(ask, c, ExploreLeafNode(RTree, c.index, ask.point))
<1>0. c.index \in Nodes /\ NoSegment \notin Objects /\ c.dist \in Int /\ ask.point \in Points
  BY ObjectsAre DEF IsEntry, NoSegment, WellAsked
<1>1. Cover(c) = Under(c.index) /\ Under(c.index) = child_indexes(RTree, c.index)
  BY <1>0, LeafHolds DEF Cover
<1> DEFINE kids == ExploreLeafNode(RTree, c.index, ask.point)
           Entry(x) == [dist |-> Dist(ask, x), index |-> c.index, segment |-> x, at |-> Place(ask, x)]
<1>2. kids = {Entry(x) : x \in Cover(c)}
  BY <1>1 DEF ExploreLeafNode, Dist, Place
<1>3. ASSUME NEW x \in Cover(c)
      PROVE  /\ Entry(x).segment = x /\ IsEntry(ask, Entry(x))
             /\ Cover(Entry(x)) = {x} /\ c.dist <= Entry(x).dist
  <2>1. x \in Objects
    BY <1>1 DEF Under
  <2>2. Dist(ask, x) \in Int
    BY <1>0, <2>1, Distances
  <2>3. c.dist <= Dist(ask, x)
    BY EntryIs
  <2>4. /\ Entry(x).segment = x /\ Entry(x).dist = Dist(ask, x) /\ Entry(x).at = Place(ask, x)
        /\ x # NoSegment
    BY <1>0, <2>1
  <2> HIDE DEF Entry
  <2> QED
    BY <2>1, <2>2, <2>3, <2>4 DEF IsEntry, Cover
<1> HIDE DEF kids, Entry
<1>4. ASSUME NEW d \in kids, NEW e \in kids, d # e PROVE Cover(d) \cap Cover(e) = {}
  BY <1>2, <1>3, <1>4
<1>5. \A e \in kids : IsEntry(ask, e) /\ Cover(e) \subseteq Cover(c) /\ c.dist <= e.dist
  BY <1>2, <1>3
<1>6. \A x \in Cover(c) : \E e \in kids : x \in Cover(e)
  BY <1>2, <1>3
<1>7. AreKids(ask, c, kids)
  BY <1>4, <1>5, <1>6 DEF AreKids
<1> QED
  BY <1>7 DEF kids

LEMMA NodeKids ==
  ASSUME NEW ask, WellAsked(ask), NEW c, IsEntry(ask, c), c.segment = NoSegment, ~is_leaf(RTree, c.index)
  PROVE  AreKids(ask, c, ExploreTreeNode(RTree, c.index, ask.point))
<1>0. /\ c.index \in Nodes /\ c.dist \in Int /\ ask.point \in Points
      /\ c.dist <= GetMinSquaredDist(BoxOf(RTree, c.index), ask.point)
  BY ObjectsAre DEF IsEntry, NoSegment, WellAsked
<1>1. Cover(c) = Under(c.index)
  BY DEF Cover
<1> DEFINE kids == ExploreTreeNode(RTree, c.index, ask.point)
           Box(k) == GetMinSquaredDist(BoxOf(RTree, Child(c.index, k)), ask.point)
           Entry(k) == [dist |-> Box(k), index |-> Child(c.index, k), segment |-> NoSegment, at |-> ask.point]
<1>2. \A e \in kids : \E k \in Children(c.index) : e = Entry(k)
  BY <1>0, ChildIndexes DEF ExploreTreeNode
<1>3. \A k \in Children(c.index) : Entry(k) \in kids
  <2> TAKE k \in Children(c.index)
  <2>1. PICK i \in child_indexes(RTree, c.index) : Below(RTree, c.index, i) = Child(c.index, k)
    BY <1>0, ChildIndexes
  <2>2. PICK j \in Children(c.index) : Below(RTree, c.index, i) = Child(c.index, j) /\ RTree.nodes[i] = BoxOf(RTree, Child(c.index, j))
    BY <1>0, ChildIndexes
  <2>3. j = k
    BY <2>1, <2>2 DEF Child
  <2> QED
    BY <2>1, <2>2, <2>3 DEF ExploreTreeNode
<1>4. ASSUME NEW k \in Children(c.index)
      PROVE  /\ IsEntry(ask, Entry(k)) /\ Cover(Entry(k)) = Under(Child(c.index, k))
             /\ Cover(Entry(k)) \subseteq Cover(c) /\ c.dist <= Entry(k).dist
  <2>1. Child(c.index, k) \in Nodes /\ Under(Child(c.index, k)) \subseteq Under(c.index)
    BY <1>0, NodeHolds
  <2>2. Box(k) \in Nat /\ GetMinSquaredDist(BoxOf(RTree, c.index), ask.point) \in Nat
    BY <1>0, <2>1, BoxDistances
  <2>3. GetMinSquaredDist(BoxOf(RTree, c.index), ask.point) <= Box(k)
    BY <1>0, ChildFarther
  <2>4. c.dist <= Box(k)
    BY <1>0, <2>2, <2>3
  <2>5. Entry(k).segment = NoSegment /\ Entry(k).dist = Box(k) /\ Entry(k).index = Child(c.index, k)
    OBVIOUS
  <2>6. Box(k) <= GetMinSquaredDist(BoxOf(RTree, Child(c.index, k)), ask.point)
    BY <2>2
  <2> HIDE DEF Entry, Box
  <2>7. IsEntry(ask, Entry(k))
    BY <2>1, <2>2, <2>5, <2>6 DEF IsEntry
  <2>8. Cover(Entry(k)) = Under(Child(c.index, k))
    BY <2>5 DEF Cover
  <2> QED
    BY <1>1, <2>1, <2>4, <2>5, <2>7, <2>8
<1> HIDE DEF kids, Entry
<1>5. ASSUME NEW d \in kids, NEW e \in kids, d # e PROVE Cover(d) \cap Cover(e) = {}
  <2>1. PICK k \in Children(c.index) : d = Entry(k)
    BY <1>2
  <2>2. PICK j \in Children(c.index) : e = Entry(j)
    BY <1>2
  <2>3. j # k
    BY <1>5, <2>1, <2>2
  <2>4. Under(Child(c.index, k)) \cap Under(Child(c.index, j)) = {}
    BY <2>3 DEF Under, Child
  <2> QED
    BY <1>4, <2>1, <2>2, <2>4
<1>6. \A e \in kids : IsEntry(ask, e) /\ Cover(e) \subseteq Cover(c) /\ c.dist <= e.dist
  BY <1>2, <1>4
<1>7. \A x \in Cover(c) : \E e \in kids : x \in Cover(e)
  <2> TAKE x \in Cover(c)
  <2>1. PICK k \in Children(c.index) : x \in Under(Child(c.index, k))
    BY <1>0, <1>1, NodeHolds
  <2> QED
    BY <1>3, <1>4, <2>1
<1>8. AreKids(ask, c, kids)
  BY <1>5, <1>6, <1>7 DEF AreKids
<1> QED
  BY <1>8 DEF kids

(* A step that sees nothing more keeps what was found. *)
SameFinds(s, t) ==
  /\ t.ask = s.ask /\ t.results = s.results /\ t.nearest = s.nearest /\ t.big = s.big
  /\ Visited(t.queue) = Visited(s.queue)

(* What the results must be depends on what they are picked from only. *)
LEMMA ResultsSame ==
  ASSUME NEW s, NEW t, t.ask = s.ask, t.results = s.results, Picked(t) = Picked(s), ResultsInv(s)
  PROVE  ResultsInv(t)
<1> DEFINE
      Good(ask, results, picked) ==
        /\ results \in Seq({results[k] : k \in DOMAIN results})
        /\ \A k \in 1..Len(results) : \E y \in picked : Stands(ask, results[k], y)
        /\ \A y \in picked : \E k \in 1..Len(results) : Stands(ask, results[k], y)
        /\ \A y \in Objects, j, k \in 1..Len(results) :
              Stands(ask, results[j], y) /\ Stands(ask, results[k], y) => j = k
        /\ \A j, k \in 1..Len(results) : j < k => results[j].dist <= results[k].dist
        /\ ~ask.alternatives /\ ask.max_results # Unset => Len(results) <= ask.max_results
<1>1. Good(s.ask, s.results, Picked(s))
  BY DEF ResultsInv
<1>2. Good(t.ask, t.results, Picked(t))
  <2> HIDE DEF Good
  <2> QED
    BY <1>1, Zenon
<1> QED
  BY <1>2, Zenon DEF ResultsInv

LEMMA FindsKept ==
  ASSUME NEW s, NEW t, SameFinds(s, t), PlacesInv(s), ResultsInv(s)
  PROVE  PlacesInv(t) /\ ResultsInv(t)
<1>0. t.ask = s.ask /\ t.results = s.results /\ t.nearest = s.nearest /\ t.big = s.big
  BY DEF SameFinds
<1>1. Seen(t) = Seen(s)
  BY DEF SameFinds, Seen
<1>2. Picked(t) = Picked(s)
  BY <1>0, <1>1 DEF Picked, Wanted
<1>3. PlacesInv(t)
  <2>1. IsFirst(t.ask, t.nearest, Seen(t))
    BY <1>0, <1>1, Zenon DEF PlacesInv
  <2>2. IsFirst(t.ask, t.big, {x \in Seen(t) : ~Tiny(x)})
    BY <1>0, <1>1, Zenon DEF PlacesInv
  <2>3. t.big # Nowhere /\ t.nearest # t.big => \E x \in Seen(t) : Tiny(x) /\ Place(t.ask, x) = t.nearest
    BY <1>0, <1>1, Zenon DEF PlacesInv
  <2> QED
    BY <2>1, <2>2, <2>3, Zenon DEF PlacesInv
<1>4. ResultsInv(t)
  BY <1>0, <1>2, ResultsSame, Zenon
<1> QED
  BY <1>3, <1>4

(* A segment is taken from the heap. *)
LEMMA SegmentSeen ==
  ASSUME NEW ask, WellAsked(ask), NEW queue, HeapInv(ask, queue), NEW c \in Closest(queue),
         c.segment # NoSegment, Near(ask, c.segment)
  PROVE  /\ c.segment \in Objects \ Visited(queue)
         /\ c.dist = Dist(ask, c.segment) /\ c.at = Place(ask, c.segment)
         /\ Visited(queue \ {c}) = Visited(queue) \cup {c.segment}
         /\ \A x \in Visited(queue) : Dist(ask, x) <= Dist(ask, c.segment)
         /\ HeapInv(ask, queue \ {c})
<1>0. c \in queue /\ \A d \in queue : c.dist <= d.dist
  BY DEF Closest
<1>1. IsEntry(ask, c) /\ Cover(c) = {c.segment}
  BY <1>0 DEF HeapInv, Cover
<1>2. c.segment \in Objects /\ c.dist = Dist(ask, c.segment) /\ c.at = Place(ask, c.segment)
  BY <1>1 DEF IsEntry
<1>3. c.segment \notin Visited(queue)
  BY <1>0, <1>1 DEF Visited
<1>4. Visited(queue \ {c}) = Visited(queue) \cup {c.segment}
  <2>1. ASSUME NEW x \in Visited(queue \ {c}) PROVE x \in Visited(queue) \cup {c.segment}
    BY <1>1 DEF Visited
  <2>2. ASSUME NEW d \in queue \ {c} PROVE c.segment \notin Cover(d)
    <3>1. Cover(d) \cap Cover(c) = {}
      BY <1>0 DEF HeapInv
    <3> QED
      BY <1>1, <3>1
  <2>3. c.segment \in Visited(queue \ {c})
    BY <1>2, <2>2 DEF Visited
  <2>4. Visited(queue) \subseteq Visited(queue \ {c})
    BY DEF Visited
  <2> QED
    BY <2>1, <2>3, <2>4
<1>5. \A x \in Visited(queue) : Dist(ask, x) <= Dist(ask, c.segment)
  BY <1>0, <1>2 DEF HeapInv
<1>6. HeapInv(ask, queue \ {c})
  <2>1. \A x \in Visited(queue \ {c}), d \in queue \ {c} : Dist(ask, x) <= d.dist
    <3> TAKE x \in Visited(queue \ {c}), d \in queue \ {c}
    <3>1. CASE x \in Visited(queue)
      BY <3>1 DEF HeapInv
    <3>2. CASE x = c.segment
      BY <1>0, <1>2, <3>2
    <3> QED
      BY <1>4, <3>1, <3>2
  <2>2. \A x \in Visited(queue \ {c}) : Near(ask, x)
    BY <1>4 DEF HeapInv
  <2>3. \A d \in queue \ {c} : IsEntry(ask, d)
    BY DEF HeapInv
  <2>4. \A d, e \in queue \ {c} : d = e \/ Cover(d) \cap Cover(e) = {}
    BY DEF HeapInv
  <2> QED
    BY <2>1, <2>2, <2>3, <2>4 DEF HeapInv
<1> QED
  BY <1>2, <1>3, <1>4, <1>5, <1>6

(* What the first places and the results become when one more segment, no     *)
(* nearer than the others, is seen.                                           *)
SeesOne(s, t, x) ==
  /\ t.ask = s.ask /\ x \in Objects \ Visited(s.queue)
  /\ Visited(t.queue) = Visited(s.queue) \cup {x}
  /\ \A y \in Visited(s.queue) : Dist(s.ask, y) <= Dist(s.ask, x)

LEMMA PlaceIsSomewhere ==
  ASSUME NEW ask, WellAsked(ask), NEW x \in Objects
  PROVE  Place(ask, x) # Nowhere
<1>1. Place(ask, x) \in Points
  BY Distances DEF WellAsked
<1>2. \A p \in Points : p # <<>>
  BY DEF Points
<1> QED
  BY <1>1, <1>2 DEF Nowhere

LEMMA FirstKept ==
  ASSUME NEW ask, WellAsked(ask), NEW place, NEW seen \in SUBSET Objects, IsFirst(ask, place, seen),
         NEW x \in Objects, \A y \in seen : Dist(ask, y) <= Dist(ask, x)
  PROVE  IsFirst(ask, IF place = Nowhere THEN Place(ask, x) ELSE place, seen \cup {x})
<1>0. Place(ask, x) # Nowhere /\ Dist(ask, x) \in Nat
  BY PlaceIsSomewhere, Distances DEF WellAsked
<1>1. CASE place = Nowhere
  BY <1>0, <1>1 DEF IsFirst
<1>2. CASE place # Nowhere
  BY <1>2 DEF IsFirst
<1> QED
  BY <1>1, <1>2

LEMMA PassedUnusable ==
  ASSUME NEW s, NEW t, NEW x, SeesOne(s, t, x), ~Usable(s.ask, x), PlacesInv(s), ResultsInv(s),
         t.results = s.results, t.nearest = s.nearest, t.big = s.big
  PROVE  PlacesInv(t) /\ ResultsInv(t)
<1>0. t.ask = s.ask
  BY DEF SeesOne
<1>1. Seen(t) = Seen(s)
  BY DEF SeesOne, Seen
<1>2. Picked(t) = Picked(s)
  BY <1>0, <1>1 DEF Picked, Wanted
<1>3. PlacesInv(t)
  BY <1>0, <1>1 DEF PlacesInv
<1>4. ResultsInv(t)
  BY <1>0, <1>2, ResultsSame, Zenon
<1> QED
  BY <1>3, <1>4

LEMMA SeenMore ==
  ASSUME NEW s, NEW t, NEW x, SeesOne(s, t, x), Usable(s.ask, x)
  PROVE  Seen(t) = Seen(s) \cup {x} /\ x \notin Seen(s)
         /\ Seen(s) \subseteq Objects /\ x \in Objects
         /\ \A y \in Seen(s) : Dist(s.ask, y) <= Dist(s.ask, x)
BY DEF SeesOne, Seen, Visited

(* A usable segment elsewhere than at the place of its sort. *)
LEMMA PassedElsewhere ==
  ASSUME NEW s, WellAsked(s.ask), NEW t, NEW x, SeesOne(s, t, x), Usable(s.ask, x),
         PlacesInv(s), ResultsInv(s), s.ask.alternatives,
         Place(s.ask, x) # IF Tiny(x) THEN s.nearest ELSE s.big,
         (IF Tiny(x) THEN s.nearest ELSE s.big) # Nowhere,
         t.results = s.results, t.nearest = s.nearest, t.big = s.big
  PROVE  PlacesInv(t) /\ ResultsInv(t)
<1>0. t.ask = s.ask
  BY DEF SeesOne
<1>1. /\ Seen(t) = Seen(s) \cup {x} /\ x \notin Seen(s)
      /\ Seen(s) \subseteq Objects /\ x \in Objects
      /\ \A y \in Seen(s) : Dist(s.ask, y) <= Dist(s.ask, x)
  BY SeenMore
<1>2. Picked(t) = Picked(s)
  BY <1>0, <1>1 DEF Picked, Wanted
<1>3. s.nearest # Nowhere
  <2>1. CASE Tiny(x)
    BY <2>1
  <2>2. CASE ~Tiny(x)
    <3>1. \E y \in Seen(s) : ~Tiny(y)
      BY <2>2 DEF PlacesInv, IsFirst
    <3> QED
      BY <3>1 DEF PlacesInv, IsFirst
  <2> QED
    BY <2>1, <2>2
<1>4. IsFirst(t.ask, t.nearest, Seen(t))
  <2>1. IsFirst(s.ask, s.nearest, Seen(s) \cup {x})
    <3>1. IsFirst(s.ask, IF s.nearest = Nowhere THEN Place(s.ask, x) ELSE s.nearest, Seen(s) \cup {x})
      BY <1>1, FirstKept DEF PlacesInv
    <3> QED
      BY <1>3, <3>1
  <2> QED
    BY <1>0, <1>1, <2>1
<1>5. IsFirst(t.ask, t.big, {y \in Seen(t) : ~Tiny(y)})
  <2> DEFINE big == {y \in Seen(s) : ~Tiny(y)}
  <2>1. CASE Tiny(x)
    <3>1. {y \in Seen(t) : ~Tiny(y)} = big
      BY <1>1, <2>1
    <3> QED
      BY <1>0, <3>1 DEF PlacesInv
  <2>2. CASE ~Tiny(x)
    <3>1. {y \in Seen(t) : ~Tiny(y)} = big \cup {x}
      BY <1>1, <2>2
    <3>2. IsFirst(s.ask, s.big, big) /\ big \in SUBSET Objects /\ \A y \in big : Dist(s.ask, y) <= Dist(s.ask, x)
      BY <1>1 DEF PlacesInv
    <3> HIDE DEF big
    <3>3. IsFirst(s.ask, IF s.big = Nowhere THEN Place(s.ask, x) ELSE s.big, big \cup {x})
      BY <1>1, <3>2, FirstKept
    <3> QED
      BY <1>0, <2>2, <3>1, <3>3
  <2> QED
    BY <2>1, <2>2
<1>6. t.big # Nowhere /\ t.nearest # t.big => \E y \in Seen(t) : Tiny(y) /\ Place(t.ask, y) = t.nearest
  BY <1>0, <1>1 DEF PlacesInv
<1>7. ResultsInv(t)
  BY <1>0, <1>2, ResultsSame, Zenon
<1> QED
  BY <1>4, <1>5, <1>6, <1>7 DEF PlacesInv

IsAppended(seq, r, all) ==
  /\ all \in Seq({all[k] : k \in DOMAIN all})
  /\ Len(seq) \in Nat /\ Len(all) = Len(seq) + 1
  /\ \A k \in 1..Len(seq) : all[k] = seq[k]
  /\ all[Len(seq) + 1] = r

LEMMA Appended ==
  ASSUME NEW seq, NEW S, seq \in Seq(S), NEW r
  PROVE  IsAppended(seq, r, Append(seq, r))
<1>1. seq \in Seq(S \cup {r})
  OBVIOUS
<1>2. Append(seq, r) \in Seq(S \cup {r}) /\ Len(Append(seq, r)) = Len(seq) + 1 /\ Len(seq) \in Nat
  BY <1>1
<1>3. /\ \A k \in 1..Len(seq) : Append(seq, r)[k] = seq[k]
      /\ Append(seq, r)[Len(seq) + 1] = r
  BY <1>1
<1> DEFINE a == Append(seq, r)
<1>4. a \in Seq({a[k] : k \in DOMAIN a})
  <2> HIDE DEF a
  <2>1. a \in Seq(S \cup {r})
    BY <1>2 DEF a
  <2>2. DOMAIN a = 1..Len(a) /\ Len(a) \in Nat /\ a \in [1..Len(a) -> S \cup {r}]
    BY <2>1
  <2>3. a \in [1..Len(a) -> {a[k] : k \in DOMAIN a}]
    BY <2>2
  <2> QED
    BY <2>2, <2>3
<1> QED
  BY <1>2, <1>3, <1>4 DEF IsAppended

(* Two segments of the same ends are one. *)
LEMMA EndsTell ==
  ASSUME NEW ask, NEW r, NEW x \in Objects, NEW y \in Objects, Stands(ask, r, x), Stands(ask, r, y)
  PROVE  x = y
BY MapAssumption DEF Stands, Objects

(* A usable segment that the filter lets through. *)
TakesOne(s, t, x) ==
  /\ SeesOne(s, t, x) /\ Usable(s.ask, x)
  /\ t.nearest = IF s.nearest = Nowhere THEN Place(s.ask, x) ELSE s.nearest
  /\ t.big = IF s.big = Nowhere /\ ~Tiny(x) THEN Place(s.ask, x) ELSE s.big
  /\ s.ask.alternatives => (IF Tiny(x) THEN s.nearest ELSE s.big) \in {Nowhere, Place(s.ask, x)}
  /\ ~s.ask.alternatives /\ s.ask.max_results # Unset => Len(s.results) < s.ask.max_results
  /\ \E r : Stands(s.ask, r, x) /\ t.results = Append(s.results, r)

LEMMA TakenPlaces ==
  ASSUME NEW s, WellAsked(s.ask), NEW t, NEW x, TakesOne(s, t, x), PlacesInv(s)
  PROVE  PlacesInv(t)
<1>0. t.ask = s.ask
  BY DEF TakesOne, SeesOne
<1>1. /\ Seen(t) = Seen(s) \cup {x} /\ x \notin Seen(s)
      /\ Seen(s) \subseteq Objects /\ x \in Objects
      /\ \A y \in Seen(s) : Dist(s.ask, y) <= Dist(s.ask, x)
  BY SeenMore DEF TakesOne
<1>2. IsFirst(t.ask, t.nearest, Seen(t))
  <2>1. IsFirst(s.ask, IF s.nearest = Nowhere THEN Place(s.ask, x) ELSE s.nearest, Seen(s) \cup {x})
    BY <1>1, FirstKept DEF PlacesInv
  <2> QED
    BY <1>0, <1>1, <2>1 DEF TakesOne
<1>3. IsFirst(t.ask, t.big, {y \in Seen(t) : ~Tiny(y)})
  <2> DEFINE big == {y \in Seen(s) : ~Tiny(y)}
  <2>1. CASE Tiny(x)
    <3>1. {y \in Seen(t) : ~Tiny(y)} = big
      BY <1>1, <2>1
    <3>2. t.big = s.big
      BY <2>1 DEF TakesOne
    <3> QED
      BY <1>0, <3>1, <3>2 DEF PlacesInv
  <2>2. CASE ~Tiny(x)
    <3>1. {y \in Seen(t) : ~Tiny(y)} = big \cup {x}
      BY <1>1, <2>2
    <3>2. IsFirst(s.ask, s.big, big) /\ big \in SUBSET Objects /\ \A y \in big : Dist(s.ask, y) <= Dist(s.ask, x)
      BY <1>1 DEF PlacesInv
    <3> HIDE DEF big
    <3>3. IsFirst(s.ask, IF s.big = Nowhere THEN Place(s.ask, x) ELSE s.big, big \cup {x})
      BY <1>1, <3>2, FirstKept
    <3>4. t.big = IF s.big = Nowhere THEN Place(s.ask, x) ELSE s.big
      BY <2>2 DEF TakesOne
    <3> QED
      BY <1>0, <3>1, <3>3, <3>4
  <2> QED
    BY <2>1, <2>2
<1>4. ASSUME t.big # Nowhere, t.nearest # t.big
      PROVE  \E y \in Seen(t) : Tiny(y) /\ Place(t.ask, y) = t.nearest
  <2>0. Place(s.ask, x) # Nowhere
    BY <1>1, PlaceIsSomewhere
  <2>1. CASE s.nearest = Nowhere
    <3>1. t.nearest = Place(s.ask, x)
      BY <2>1 DEF TakesOne
    <3>2. CASE Tiny(x)
      BY <1>0, <1>1, <3>1, <3>2
    <3>3. CASE ~Tiny(x)
      <4>1. s.big # Nowhere
        BY <1>4, <3>1, <3>3 DEF TakesOne
      <4>2. \E y \in Seen(s) : ~Tiny(y)
        BY <4>1 DEF PlacesInv, IsFirst
      <4>3. Seen(s) = {}
        BY <2>1 DEF PlacesInv, IsFirst
      <4> QED
        BY <4>2, <4>3
    <3> QED
      BY <3>2, <3>3
  <2>2. CASE s.nearest # Nowhere /\ s.big # Nowhere
    <3>1. t.nearest = s.nearest /\ t.big = s.big
      BY <2>2 DEF TakesOne
    <3> QED
      BY <1>0, <1>1, <1>4, <2>2, <3>1 DEF PlacesInv
  <2>3. CASE s.nearest # Nowhere /\ s.big = Nowhere
    <3>1. t.nearest = s.nearest
      BY <2>3 DEF TakesOne
    <3>2. PICK y \in Seen(s) : Place(s.ask, y) = s.nearest
      BY <2>3 DEF PlacesInv, IsFirst
    <3>3. Tiny(y)
      BY <2>3 DEF PlacesInv, IsFirst
    <3> QED
      BY <1>0, <1>1, <3>1, <3>2, <3>3
  <2> QED
    BY <2>1, <2>2, <2>3
<1> QED
  BY <1>2, <1>3, <1>4 DEF PlacesInv

LEMMA TakenMore ==
  ASSUME NEW s, WellAsked(s.ask), NEW t, NEW x, TakesOne(s, t, x), PlacesInv(s)
  PROVE  Picked(t) = Picked(s) \cup {x}
<1>0. t.ask = s.ask
  BY DEF TakesOne, SeesOne
<1>1. Seen(t) = Seen(s) \cup {x} /\ x \notin Seen(s) /\ x \in Objects
  BY SeenMore DEF TakesOne
<1>2. Wanted(t, x)
  BY <1>0 DEF Wanted, TakesOne
<1>3. ASSUME NEW y \in Seen(s) PROVE Wanted(t, y) <=> Wanted(s, y)
  <2>1. s.nearest # Nowhere /\ t.nearest = s.nearest
    BY DEF PlacesInv, IsFirst, TakesOne
  <2>2. ~Tiny(y) => s.big # Nowhere /\ t.big = s.big
    BY DEF PlacesInv, IsFirst, TakesOne
  <2> QED
    BY <1>0, <2>1, <2>2 DEF Wanted
<1> QED
  BY <1>1, <1>2, <1>3 DEF Picked

LEMMA TakenResults ==
  ASSUME NEW s, WellAsked(s.ask), NEW t, NEW x, TakesOne(s, t, x), PlacesInv(s), ResultsInv(s)
  PROVE  ResultsInv(t)
<1>0. t.ask = s.ask /\ x \in Objects \ Visited(s.queue)
  BY DEF TakesOne, SeesOne
<1>1. Picked(t) = Picked(s) \cup {x}
  BY TakenMore
<1>2. PICK r : Stands(s.ask, r, x) /\ t.results = Append(s.results, r)
  BY DEF TakesOne
<1> DEFINE n == Len(s.results)
<1>20. IsAppended(s.results, r, t.results)
  <2>1. s.results \in Seq({s.results[k] : k \in DOMAIN s.results})
    BY DEF ResultsInv
  <2>2. IsAppended(s.results, r, Append(s.results, r))
    BY <2>1, Appended, Zenon
  <2> QED
    BY <1>2, <2>2
<1>3. /\ t.results \in Seq({t.results[k] : k \in DOMAIN t.results})
      /\ n \in Nat /\ Len(t.results) = n + 1
      /\ \A k \in 1..n : t.results[k] = s.results[k]
      /\ t.results[n + 1] = r
  BY <1>20 DEF IsAppended
<1> HIDE DEF n
<1>4. \A k \in 1..n : \E y \in Picked(s) : Stands(s.ask, s.results[k], y)
  BY DEF ResultsInv, n
<1>5. Picked(s) \subseteq Visited(s.queue) /\ Picked(s) \subseteq Objects
  BY DEF Picked, Seen, Visited
<1>6. ASSUME NEW k \in 1..n + 1
      PROVE  \E y \in Picked(t) : Stands(t.ask, t.results[k], y)
  <2>1. CASE k = n + 1
    BY <1>0, <1>1, <1>2, <1>3, <2>1
  <2>2. CASE k # n + 1
    <3>1. k \in 1..n
      BY <1>3, <2>2
    <3> QED
      BY <1>0, <1>1, <1>3, <1>4, <3>1
  <2> QED
    BY <2>1, <2>2
<1>7. ASSUME NEW y \in Picked(t)
      PROVE  \E k \in 1..n + 1 : Stands(t.ask, t.results[k], y)
  <2>1. CASE y = x
    <3>1. n + 1 \in 1..n + 1
      BY <1>3
    <3> QED
      BY <1>0, <1>2, <1>3, <2>1, <3>1
  <2>2. CASE y \in Picked(s)
    <3>1. PICK k \in 1..n : Stands(s.ask, s.results[k], y)
      BY <2>2 DEF ResultsInv, n
    <3>2. k \in 1..n + 1
      BY <1>3
    <3> QED
      BY <1>0, <1>3, <3>1, <3>2
  <2> QED
    BY <1>1, <2>1, <2>2
<1>8. ASSUME NEW k \in 1..n PROVE ~Stands(s.ask, s.results[k], x)
  <2>1. PICK y \in Picked(s) : Stands(s.ask, s.results[k], y)
    BY <1>4
  <2> QED
    BY <1>0, <1>5, <2>1, EndsTell
<1>9. ASSUME NEW y \in Objects, NEW j \in 1..n + 1, NEW k \in 1..n + 1,
             Stands(t.ask, t.results[j], y), Stands(t.ask, t.results[k], y)
      PROVE  j = k
  <2>1. CASE j \in 1..n /\ k \in 1..n
    BY <1>0, <1>3, <1>9, <2>1 DEF ResultsInv, n
  <2>2. CASE j = n + 1 /\ k \in 1..n
    <3>1. y = x
      BY <1>0, <1>2, <1>3, <1>9, <2>2, EndsTell
    <3> QED
      BY <1>0, <1>3, <1>8, <1>9, <2>2, <3>1
  <2>3. CASE j \in 1..n /\ k = n + 1
    <3>1. y = x
      BY <1>0, <1>2, <1>3, <1>9, <2>3, EndsTell
    <3> QED
      BY <1>0, <1>3, <1>8, <1>9, <2>3, <3>1
  <2>4. CASE j = n + 1 /\ k = n + 1
    BY <2>4
  <2> QED
    BY <1>3, <2>1, <2>2, <2>3, <2>4
<1>10. ASSUME NEW j \in 1..n + 1, NEW k \in 1..n + 1, j < k
       PROVE  t.results[j].dist <= t.results[k].dist
  <2>1. j \in 1..n /\ t.results[j] = s.results[j]
    BY <1>3, <1>10
  <2>2. CASE k \in 1..n
    BY <1>3, <1>10, <2>1, <2>2 DEF ResultsInv, n
  <2>3. CASE k = n + 1
    <3>1. PICK y \in Picked(s) : Stands(s.ask, s.results[j], y)
      BY <1>4, <2>1
    <3>2. Dist(s.ask, y) <= Dist(s.ask, x)
      BY <1>5, <3>1 DEF TakesOne, SeesOne
    <3> QED
      BY <1>2, <1>3, <2>1, <2>3, <3>1, <3>2 DEF Stands
  <2> QED
    BY <1>3, <2>2, <2>3
<1>11. ~t.ask.alternatives /\ t.ask.max_results # Unset => n + 1 <= t.ask.max_results
  <2> SUFFICES ASSUME ~s.ask.alternatives, s.ask.max_results # Unset PROVE n + 1 <= s.ask.max_results
    BY <1>0
  <2>1. n < s.ask.max_results
    BY DEF TakesOne, n
  <2>2. s.ask.max_results \in Nat
    BY DEF WellAsked
  <2> QED
    BY <1>3, <2>1, <2>2
<1> QED
  BY <1>3, <1>6, <1>7, <1>9, <1>10, <1>11 DEF ResultsInv

(***************************************************************************)
(* What a search has found when it stops.                                  *)
(***************************************************************************)

Stops(s) ==
  \/ s.queue = {}
  \/ \E c \in Closest(s.queue) :
        \/ s.ask.max_distance # Unset /\ c.dist > s.ask.max_distance
        \/ IF s.ask.alternatives THEN s.big # Nowhere /\ c.dist > Squared(s.ask.point, s.big)
           ELSE s.ask.max_results # Unset /\ Len(s.results) >= s.ask.max_results

(* A segment as it is seen in a look at all. *)
Sight(ask, x) ==
  [edge |-> RTree.objects[x].forward.id, position |-> RTree.objects[x].position, at |-> Place(ask, x),
   dist |-> Dist(ask, x), tiny |-> Tiny(x)]
Reach(ask) == {x \in Objects : Usable(ask, x) /\ Near(ask, x)}

LEMMA SightIs ==
  ASSUME NEW ask, NEW x
  PROVE  /\ Sight(ask, x).edge = RTree.objects[x].forward.id /\ Sight(ask, x).position = RTree.objects[x].position
         /\ Sight(ask, x).at = Place(ask, x) /\ Sight(ask, x).dist = Dist(ask, x) /\ Sight(ask, x).tiny = Tiny(x)
BY DEF Sight

LEMMA FitIs ==
  ASSUME NEW ask
  PROVE  Fit(ask) = {Sight(ask, x) : x \in {y \in Objects : Usable(ask, y)}}
<1> DEFINE Look(o) == [edge |-> o.forward.id, position |-> o.position, at |-> NearestIn(Around(o), ask.point),
                       dist |-> Squared(ask.point, NearestIn(Around(o), ask.point)), tiny |-> IsTinyComponent(o)]
           Fair == {o \in {RTree.objects[i] : i \in DOMAIN RTree.objects} : \A use \in {UseSegment(o, ask)} : use # Neither}
<1>1. Fit(ask) = UNION {{Look(o)} : o \in Fair}
  BY DEF Fit
<1>2. \A x \in Objects : Look(RTree.objects[x]) = Sight(ask, x)
  BY DEF Sight, Place, Dist, Tiny
<1>3. \A o : o \in Fair <=> \E x \in Objects : o = RTree.objects[x] /\ Usable(ask, x)
  BY DEF Objects, Usable
<1> HIDE DEF Look, Fair
<1>4. ASSUME NEW q \in Fit(ask) PROVE \E x \in Objects : Usable(ask, x) /\ q = Sight(ask, x)
  <2>1. PICK o \in Fair : q = Look(o)
    BY <1>1
  <2>2. PICK x \in Objects : o = RTree.objects[x] /\ Usable(ask, x)
    BY <1>3
  <2> QED
    BY <1>2, <2>1, <2>2
<1>5. ASSUME NEW x \in Objects, Usable(ask, x) PROVE Sight(ask, x) \in Fit(ask)
  BY <1>1, <1>2, <1>3, <1>5
<1> QED
  BY <1>4, <1>5

LEMMA ReachIs ==
  ASSUME NEW ask
  PROVE  WithinReach(ask) = {Sight(ask, x) : x \in Reach(ask)}
<1>1. Fit(ask) = {Sight(ask, x) : x \in {y \in Objects : Usable(ask, y)}}
  BY FitIs
<1>2. \A x : (ask.max_distance = Unset \/ Sight(ask, x).dist <= ask.max_distance) <=> Near(ask, x)
  BY SightIs DEF Near
<1> QED
  BY <1>1, <1>2 DEF WithinReach, Reach

LEMMA ObjectsDiffer ==
  ASSUME NEW x \in Objects, NEW y \in Objects,
         RTree.objects[x].forward.id = RTree.objects[y].forward.id,
         RTree.objects[x].position = RTree.objects[y].position
  PROVE  x = y
BY MapAssumption DEF Objects

LEMMA SightsDiffer ==
  ASSUME NEW ask, NEW x \in Objects, NEW y \in Objects, Sight(ask, x) = Sight(ask, y)
  PROVE  x = y
<1>1. /\ RTree.objects[x].forward.id = RTree.objects[y].forward.id
      /\ RTree.objects[x].position = RTree.objects[y].position
  BY SightIs
<1> QED
  BY <1>1, ObjectsDiffer

(* What is still below the heap is no nearer than its top. *)
LEMMA LeftFarther ==
  ASSUME NEW ask, WellAsked(ask), NEW queue, HeapInv(ask, queue), NEW c \in Closest(queue),
         NEW x \in Objects \ Visited(queue)
  PROVE  c.dist <= Dist(ask, x) /\ c.dist \in Int /\ Dist(ask, x) \in Int
<1>1. PICK e \in queue : x \in Cover(e)
  BY DEF Visited
<1>2. e.dist <= Dist(ask, x) /\ e.dist \in Int
  BY <1>1, EntryIs DEF HeapInv, IsEntry
<1>3. c.dist <= e.dist /\ c.dist \in Int
  BY DEF Closest, HeapInv, IsEntry
<1>4. Dist(ask, x) \in Int
  BY Distances DEF WellAsked
<1> QED
  BY <1>2, <1>3, <1>4

LEMMA TakenAre ==
  ASSUME NEW s, RunningInv(s)
  PROVE  /\ Picked(s) \subseteq Reach(s.ask) /\ Picked(s) \subseteq Visited(s.queue) /\ Picked(s) \subseteq Objects
         /\ Reach(s.ask) \subseteq Objects /\ IsFiniteSet(Reach(s.ask))
<1>1. Reach(s.ask) \subseteq Objects
  BY DEF Reach
<1>2. IsFiniteSet(Reach(s.ask))
  BY <1>1, ObjectsAre, FS_Subset
<1>3. Picked(s) \subseteq Reach(s.ask)
  BY DEF RunningInv, HeapInv, Picked, Seen, Reach, Visited
<1>4. Picked(s) \subseteq Visited(s.queue)
  BY DEF Picked, Seen
<1> QED
  BY <1>1, <1>2, <1>3, <1>4

IsChosen(s, q) ==
  \E k \in DOMAIN s.results : q.edge = s.results[k].data.forward.id /\ q.position = s.results[k].data.position
Sights(ask, S) == {Sight(ask, x) : x \in S}

LEMMA ResultsLen ==
  ASSUME NEW s, ResultsInv(s)
  PROVE  Len(s.results) \in Nat /\ DOMAIN s.results = 1..Len(s.results)
BY DEF ResultsInv

LEMMA ChosenAre ==
  ASSUME NEW s, RunningInv(s)
  PROVE  {q \in WithinReach(s.ask) : IsChosen(s, q)} = Sights(s.ask, Picked(s))
<1>0. ResultsInv(s) /\ DOMAIN s.results = 1..Len(s.results)
  BY ResultsLen DEF RunningInv
<1>1. ASSUME NEW x \in Reach(s.ask), IsChosen(s, Sight(s.ask, x)) PROVE x \in Picked(s)
  <2>1. PICK k \in 1..Len(s.results) : /\ RTree.objects[x].forward.id = s.results[k].data.forward.id
                                       /\ RTree.objects[x].position = s.results[k].data.position
    BY <1>0, <1>1, SightIs DEF IsChosen
  <2>2. PICK y \in Picked(s) : Stands(s.ask, s.results[k], y)
    BY <1>0 DEF ResultsInv
  <2>3. x \in Objects /\ y \in Objects
    BY TakenAre
  <2>4. x = y
    BY <2>1, <2>2, <2>3, ObjectsDiffer DEF Stands
  <2> QED
    BY <2>4
<1>2. ASSUME NEW x \in Picked(s) PROVE IsChosen(s, Sight(s.ask, x)) /\ x \in Reach(s.ask)
  <2>1. PICK k \in 1..Len(s.results) : Stands(s.ask, s.results[k], x)
    BY <1>0 DEF ResultsInv
  <2>2. /\ Sight(s.ask, x).edge = s.results[k].data.forward.id
        /\ Sight(s.ask, x).position = s.results[k].data.position
    BY <2>1, SightIs DEF Stands
  <2> QED
    BY <1>0, <2>2, TakenAre DEF IsChosen
<1>3. WithinReach(s.ask) = {Sight(s.ask, x) : x \in Reach(s.ask)}
  BY ReachIs
<1> QED
  BY <1>1, <1>2, <1>3 DEF Sights

LEMMA ChosenCount ==
  ASSUME NEW s, RunningInv(s)
  PROVE  /\ IsFiniteSet(Sights(s.ask, Picked(s))) /\ Cardinality(Sights(s.ask, Picked(s))) = Len(s.results)
         /\ IsFiniteSet(Sights(s.ask, Reach(s.ask)))
<1>0. ResultsInv(s) /\ Len(s.results) \in Nat
  BY ResultsLen DEF RunningInv
<1> DEFINE n == Len(s.results)
           One(k) == CHOOSE x \in Picked(s) : Stands(s.ask, s.results[k], x)
           f == [k \in 1..n |-> Sight(s.ask, One(k))]
           S == Sights(s.ask, Picked(s))
<1>1. ASSUME NEW k \in 1..n PROVE One(k) \in Picked(s) /\ Stands(s.ask, s.results[k], One(k))
  BY <1>0 DEF ResultsInv
<1>2. \A k \in 1..n : f[k] = Sight(s.ask, One(k))
  OBVIOUS
<1>3. f \in [1..n -> S]
  BY <1>1 DEF Sights
<1> HIDE DEF One, f
<1>4. f \in Injection(1..n, S)
  <2>1. ASSUME NEW j \in 1..n, NEW k \in 1..n, f[j] = f[k] PROVE j = k
    <3>1. One(j) = One(k)
      BY <1>1, <1>2, <2>1, SightsDiffer, TakenAre
    <3>2. One(j) \in Objects
      BY <1>1, TakenAre
    <3> QED
      BY <1>0, <1>1, <3>1, <3>2 DEF ResultsInv
  <2> HIDE DEF n, S
  <2>2. DOMAIN f = 1..n
    BY <1>3
  <2>3. IsInjective(f)
    BY <2>1, <2>2 DEF IsInjective
  <2> QED
    BY <1>3, <2>3 DEF Injection
<1>5. f \in Surjection(1..n, S)
  <2>1. ASSUME NEW q \in S PROVE \E k \in 1..n : f[k] = q
    <3>1. PICK x \in Picked(s) : q = Sight(s.ask, x)
      BY DEF Sights
    <3>2. PICK k \in 1..n : Stands(s.ask, s.results[k], x)
      BY <1>0 DEF ResultsInv
    <3>3. One(k) = x
      BY <1>1, <3>2, EndsTell, TakenAre
    <3> QED
      BY <1>2, <3>1, <3>3
  <2> QED
    BY <1>3, <2>1 DEF Surjection
<1> HIDE DEF n, S
<1>6. f \in Bijection(1..n, S)
  BY <1>4, <1>5 DEF Bijection
<1>7. IsFiniteSet(1..n) /\ Cardinality(1..n) = n
  BY <1>0, FS_Interval DEF n
<1>8. IsFiniteSet(S) /\ Cardinality(S) = n
  BY <1>6, <1>7, FS_Bijection DEF ExistsBijection
<1>9. IsFiniteSet(Sights(s.ask, Reach(s.ask)))
  <2> DEFINE R == Reach(s.ask)
             T == Sights(s.ask, Reach(s.ask))
             g == [x \in R |-> Sight(s.ask, x)]
  <2>1. IsFiniteSet(R)
    BY TakenAre
  <2>2. g \in [R -> T] /\ \A q \in T : \E x \in R : g[x] = q
    BY DEF Sights
  <2> HIDE DEF R, T, g
  <2>3. g \in Surjection(R, T)
    BY <2>2 DEF Surjection
  <2>4. IsFiniteSet(T)
    BY <2>1, <2>3, FS_Surjection
  <2> QED
    BY <2>4 DEF T
<1> QED
  BY <1>8, <1>9 DEF n, S

(* What SearchExact says of a search, and that it is so when it stops. *)
ExactIs(s, fit, taken) ==
  /\ Cardinality(taken) = Len(s.results)
  /\ \A k \in 1..Len(s.results) - 1 : s.results[k].dist <= s.results[k + 1].dist
  /\ IF s.ask.alternatives THEN BothSorts(fit, taken)
     ELSE /\ Len(s.results) = IF s.ask.max_results = Unset THEN Cardinality(fit)
                              ELSE Min({s.ask.max_results, Cardinality(fit)})
          /\ \A q \in taken, o \in fit \ taken : q.dist <= o.dist

(* What a search that is not full leaves is out of reach. *)
LEMMA NoneLeft ==
  ASSUME NEW s, WellAsked(s.ask), RunningInv(s),
         \/ s.queue = {}
         \/ \E c \in Closest(s.queue) : s.ask.max_distance # Unset /\ c.dist > s.ask.max_distance
  PROVE  Seen(s) = Reach(s.ask)
<1>1. Seen(s) \subseteq Reach(s.ask)
  BY DEF RunningInv, HeapInv, Seen, Reach, Visited
<1>2. ASSUME NEW x \in Reach(s.ask) PROVE x \in Visited(s.queue)
  <2>0. x \in Objects /\ Near(s.ask, x)
    BY DEF Reach
  <2>1. CASE s.queue = {}
    BY <2>0, <2>1 DEF Visited
  <2>2. CASE \E c \in Closest(s.queue) : s.ask.max_distance # Unset /\ c.dist > s.ask.max_distance
    <3>1. PICK c \in Closest(s.queue) : s.ask.max_distance # Unset /\ c.dist > s.ask.max_distance
      BY <2>2
    <3>2. SUFFICES ASSUME x \notin Visited(s.queue) PROVE FALSE
      OBVIOUS
    <3>3. HeapInv(s.ask, s.queue)
      BY DEF RunningInv
    <3>4. c.dist <= Dist(s.ask, x) /\ c.dist \in Int /\ Dist(s.ask, x) \in Int
      BY <2>0, <3>2, <3>3, LeftFarther
    <3>5. Dist(s.ask, x) <= s.ask.max_distance /\ s.ask.max_distance \in Int
      BY <2>0, <3>1 DEF Near, WellAsked
    <3> QED
      BY <3>1, <3>4, <3>5
  <2> QED
    BY <2>1, <2>2
<1> QED
  BY <1>1, <1>2 DEF Seen, Reach

LEMMA PlainExact ==
  ASSUME NEW s, WellAsked(s.ask), RunningInv(s), Stops(s), ~s.ask.alternatives
  PROVE  LET fit == Sights(s.ask, Reach(s.ask))
             taken == Sights(s.ask, Picked(s))
         IN /\ Len(s.results) = IF s.ask.max_results = Unset THEN Cardinality(fit)
                                ELSE Min({s.ask.max_results, Cardinality(fit)})
            /\ \A q \in taken, o \in fit \ taken : q.dist <= o.dist
<1> DEFINE fit == Sights(s.ask, Reach(s.ask))
           taken == Sights(s.ask, Picked(s))
           n == Len(s.results)
           most == s.ask.max_results
<1>1. /\ IsFiniteSet(taken) /\ Cardinality(taken) = n /\ IsFiniteSet(fit) /\ n \in Nat
  BY ChosenCount, ResultsLen DEF RunningInv
<1>2. taken \subseteq fit
  BY TakenAre DEF Sights
<1>3. Picked(s) = Seen(s)
  BY DEF Picked, Wanted
<1>4. Cardinality(fit) \in Nat /\ n <= Cardinality(fit)
  <2> HIDE DEF fit, taken
  <2> QED
    BY <1>1, <1>2, FS_Subset, FS_CardinalityType
<1>5. most \in Nat \/ most = Unset
  BY DEF WellAsked
<1>6. most # Unset => n <= most
  BY DEF RunningInv, ResultsInv
<1>7. Unset = -1
  BY DEF Unset
<1>8. CASE Seen(s) = Reach(s.ask)
  <2>1. fit = taken
    BY <1>3, <1>8
  <2>2. n = Cardinality(fit)
    BY <1>1, <2>1
  <2>3. most # Unset => Min({most, Cardinality(fit)}) = Cardinality(fit)
    <3> SUFFICES ASSUME most # Unset PROVE Min({most, Cardinality(fit)}) = Cardinality(fit)
      OBVIOUS
    <3>1. most \in Nat /\ n <= most
      BY <1>5, <1>6
    <3> DEFINE b == Cardinality(fit)
    <3>2. b \in Nat /\ b <= most
      BY <1>1, <2>2, <3>1
    <3> HIDE DEF b, most
    <3>3. Min({most, b}) = b
      BY <3>1, <3>2, TwoOf
    <3> QED
      BY <3>3 DEF b
  <2> QED
    BY <2>1, <2>2, <2>3
<1>9. CASE \E c \in Closest(s.queue) : most # Unset /\ n >= most
  <2>1. PICK c \in Closest(s.queue) : most # Unset /\ n >= most
    BY <1>9
  <2>2. most \in Nat /\ n = most
    BY <1>1, <1>5, <1>6, <2>1
  <2>3. Min({most, Cardinality(fit)}) = n
    <3> DEFINE b == Cardinality(fit)
    <3>1. b \in Nat /\ most <= b
      BY <1>4, <2>2
    <3> HIDE DEF b, most
    <3>2. Min({most, b}) = most
      BY <2>2, <3>1, TwoOf
    <3> QED
      BY <2>2, <3>2 DEF b
  <2>4. ASSUME NEW q \in taken, NEW o \in fit \ taken PROVE q.dist <= o.dist
    <3>1. PICK x \in Picked(s) : q = Sight(s.ask, x)
      BY DEF Sights
    <3>2. PICK y \in Reach(s.ask) : o = Sight(s.ask, y)
      BY DEF Sights
    <3>3. y \notin Picked(s)
      BY <2>4, <3>2 DEF Sights
    <3>4. x \in Visited(s.queue) /\ x \in Objects /\ y \in Objects \ Visited(s.queue)
      BY <1>3, <3>2, <3>3, TakenAre DEF Seen, Reach
    <3>5. HeapInv(s.ask, s.queue) /\ c \in s.queue
      BY DEF RunningInv, Closest
    <3>6. Dist(s.ask, x) <= c.dist
      BY <3>4, <3>5 DEF HeapInv
    <3>7. c.dist <= Dist(s.ask, y) /\ c.dist \in Int /\ Dist(s.ask, y) \in Int
      BY <3>4, <3>5, LeftFarther
    <3>8. Dist(s.ask, x) \in Int
      BY <3>4, Distances DEF WellAsked
    <3>9. Dist(s.ask, x) <= Dist(s.ask, y)
      BY <3>6, <3>7, <3>8
    <3> QED
      BY <3>1, <3>2, <3>9, SightIs
  <2> QED
    BY <2>1, <2>3, <2>4
<1> QED
  BY <1>8, <1>9, NoneLeft DEF Stops

LEMMA FirstIsNearest ==
  ASSUME NEW ask, NEW S, NEW x \in S, \A y \in S : Dist(ask, x) <= Dist(ask, y)
  PROVE  Place(ask, x) \in Nearest(Sights(ask, S))
<1>1. Sight(ask, x) \in Sights(ask, S)
  BY DEF Sights
<1>2. \A o \in Sights(ask, S) : Sight(ask, x).dist <= o.dist
  BY SightIs DEF Sights
<1>3. Sight(ask, x).at \in Nearest(Sights(ask, S))
  BY <1>1, <1>2 DEF Nearest
<1> QED
  BY <1>3, SightIs

LEMMA BigSights ==
  ASSUME NEW ask, NEW S
  PROVE  {q \in Sights(ask, S) : ~q.tiny} = Sights(ask, {x \in S : ~Tiny(x)})
BY SightIs DEF Sights

(* One place for the islands, one for the big component. *)
LEMMA AlternativesExact ==
  ASSUME NEW s, WellAsked(s.ask), RunningInv(s), Stops(s), s.ask.alternatives
  PROVE  BothSorts(Sights(s.ask, Reach(s.ask)), Sights(s.ask, Picked(s)))
<1> DEFINE fit == Sights(s.ask, Reach(s.ask))
           taken == Sights(s.ask, Picked(s))
           Wide == {x \in Reach(s.ask) : ~Tiny(x)}
           big == {q \in fit : ~q.tiny}
<1>0. PlacesInv(s) /\ HeapInv(s.ask, s.queue)
  BY DEF RunningInv
<1>1. big = Sights(s.ask, Wide)
  BY BigSights
<1>2. Seen(s) \subseteq Reach(s.ask) /\ Seen(s) \subseteq Objects /\ Reach(s.ask) \subseteq Objects
  BY <1>0 DEF HeapInv, Seen, Reach, Visited
<1>3. Picked(s) = {x \in Seen(s) : Place(s.ask, x) = IF Tiny(x) THEN s.nearest ELSE s.big}
  BY DEF Picked, Wanted
<1>4. \A x \in Objects : Dist(s.ask, x) \in Int
  BY Distances DEF WellAsked
<1>5. \A x \in Objects, y \in Objects : Place(s.ask, x) = Place(s.ask, y) => Dist(s.ask, x) = Dist(s.ask, y)
  BY DEF Dist
<1> HIDE DEF big
<1>6. CASE s.big = Nowhere
  <2>1. Seen(s) = Reach(s.ask)
    BY <1>6, NoneLeft DEF Stops
  <2>2. Wide = {}
    BY <1>0, <1>6, <2>1 DEF PlacesInv, IsFirst
  <2>3. big = {}
    BY <1>1, <2>2 DEF Sights
  <2>4. CASE fit = {}
    <3>1. taken = {}
      BY <1>2, <1>3, <2>4 DEF Sights
    <3> HIDE DEF taken, fit
    <3>2. BothSorts(fit, taken)
      BY <2>3, <2>4, <3>1 DEF BothSorts, big
    <3> QED
      BY <3>2 DEF fit, taken
  <2>5. CASE fit # {}
    <3>1. s.nearest # Nowhere
      BY <1>0, <2>1, <2>5 DEF PlacesInv, IsFirst, Sights
    <3>2. PICK x \in Seen(s) : Place(s.ask, x) = s.nearest /\ \A y \in Seen(s) : Dist(s.ask, x) <= Dist(s.ask, y)
      BY <1>0, <3>1 DEF PlacesInv, IsFirst
    <3>3. s.nearest \in Nearest(fit)
      BY <2>1, <3>2, FirstIsNearest
    <3>4. Picked(s) = {y \in Reach(s.ask) : Place(s.ask, y) = s.nearest}
      BY <1>3, <2>1, <2>2
    <3>5. taken = {q \in fit : q.at = s.nearest}
      BY <3>4, SightIs DEF Sights
    <3> HIDE DEF taken, fit
    <3>6. BothSorts(fit, taken)
      BY <2>3, <2>5, <3>3, <3>5 DEF BothSorts, big
    <3> QED
      BY <3>6 DEF fit, taken
  <2> QED
    BY <2>4, <2>5
<1>7. CASE s.big # Nowhere
  <2>1. PICK b \in Seen(s) : ~Tiny(b) /\ Place(s.ask, b) = s.big
                             /\ \A y \in Seen(s) : ~Tiny(y) => Dist(s.ask, b) <= Dist(s.ask, y)
    BY <1>0, <1>7 DEF PlacesInv, IsFirst
  <2>2. s.nearest # Nowhere
    BY <1>0, <2>1 DEF PlacesInv, IsFirst
  <2>3. PICK a \in Seen(s) : Place(s.ask, a) = s.nearest /\ \A y \in Seen(s) : Dist(s.ask, a) <= Dist(s.ask, y)
    BY <1>0, <2>2 DEF PlacesInv, IsFirst
  <2>4. ASSUME NEW y \in Reach(s.ask) \ Seen(s) PROVE Dist(s.ask, b) < Dist(s.ask, y)
    <3>1. CASE \E c \in Closest(s.queue) : c.dist > Squared(s.ask.point, s.big)
      <4>1. PICK c \in Closest(s.queue) : c.dist > Squared(s.ask.point, s.big)
        BY <3>1
      <4>2. Squared(s.ask.point, s.big) = Dist(s.ask, b)
        BY <2>1 DEF Dist
      <4>3. y \in Objects \ Visited(s.queue)
        BY <1>2, <2>4 DEF Seen, Reach
      <4>4. c.dist <= Dist(s.ask, y) /\ c.dist \in Int /\ Dist(s.ask, y) \in Int
        BY <1>0, <4>3, LeftFarther
      <4>5. Dist(s.ask, b) \in Int
        BY <1>2, <1>4
      <4> QED
        BY <4>1, <4>2, <4>4, <4>5
    <3>2. CASE Seen(s) = Reach(s.ask)
      BY <3>2
    <3> QED
      BY <3>1, <3>2, NoneLeft DEF Stops
  <2>5. Dist(s.ask, a) <= Dist(s.ask, b) /\ Dist(s.ask, a) \in Int /\ Dist(s.ask, b) \in Int
    BY <1>2, <1>4, <2>3
  <2>6. s.nearest \in Nearest(fit)
    <3>1. \A y \in Reach(s.ask) : Dist(s.ask, a) <= Dist(s.ask, y)
      <4> TAKE y \in Reach(s.ask)
      <4>1. CASE y \in Seen(s)
        BY <2>3, <4>1
      <4>2. CASE y \notin Seen(s)
        BY <1>2, <1>4, <2>4, <2>5, <4>2
      <4> QED
        BY <4>1, <4>2
    <3> QED
      BY <1>2, <2>3, <3>1, FirstIsNearest
  <2>7. s.big \in Nearest(big)
    <3>1. b \in Wide
      BY <1>2, <2>1
    <3>2. \A y \in Wide : Dist(s.ask, b) <= Dist(s.ask, y)
      <4> TAKE y \in Wide
      <4>1. CASE y \in Seen(s)
        BY <2>1, <4>1
      <4>2. CASE y \notin Seen(s)
        BY <1>2, <1>4, <2>4, <2>5, <4>2
      <4> QED
        BY <4>1, <4>2
    <3> HIDE DEF Wide
    <3>3. Place(s.ask, b) \in Nearest(Sights(s.ask, Wide))
      BY <3>1, <3>2, FirstIsNearest
    <3> QED
      BY <1>1, <2>1, <3>3
  <2>8. s.nearest # s.big => \E q \in fit : q.tiny /\ q.at = s.nearest
    <3> SUFFICES ASSUME s.nearest # s.big PROVE \E q \in fit : q.tiny /\ q.at = s.nearest
      OBVIOUS
    <3>1. PICK x \in Seen(s) : Tiny(x) /\ Place(s.ask, x) = s.nearest
      BY <1>0, <1>7 DEF PlacesInv
    <3>2. Sight(s.ask, x) \in fit
      BY <1>2, <3>1 DEF Sights
    <3> QED
      BY <3>1, <3>2, SightIs
  <2>9. Picked(s) = {x \in Reach(s.ask) : Place(s.ask, x) = IF Tiny(x) THEN s.nearest ELSE s.big}
    <3>1. ASSUME NEW x \in Reach(s.ask), Place(s.ask, x) = IF Tiny(x) THEN s.nearest ELSE s.big
          PROVE  x \in Seen(s)
      <4>1. x \in Objects /\ a \in Objects /\ b \in Objects
        BY <1>2
      <4>2. Dist(s.ask, x) = Dist(s.ask, a) \/ Dist(s.ask, x) = Dist(s.ask, b)
        BY <1>5, <2>1, <2>3, <3>1, <4>1
      <4>3. ~(Dist(s.ask, b) < Dist(s.ask, x))
        BY <2>5, <4>2
      <4> QED
        BY <2>4, <4>3
    <3> QED
      BY <1>2, <1>3, <3>1
  <2>10. taken = {q \in fit : q.at = IF q.tiny THEN s.nearest ELSE s.big}
    BY <2>9, SightIs DEF Sights
  <2>11. big # {}
    BY <2>7 DEF Nearest
  <2> HIDE DEF fit, taken
  <2>12. BothSorts(fit, taken)
    BY <2>6, <2>7, <2>8, <2>10, <2>11 DEF BothSorts, big
  <2> QED
    BY <2>12 DEF fit, taken
<1> QED
  BY <1>6, <1>7

LEMMA ExactWhenStopped ==
  ASSUME NEW s, WellAsked(s.ask), RunningInv(s), Stops(s)
  PROVE  \A fit \in {WithinReach(s.ask)} : \A taken \in {{q \in fit : IsChosen(s, q)}} : ExactIs(s, fit, taken)
<1> DEFINE fit == Sights(s.ask, Reach(s.ask))
           taken == Sights(s.ask, Picked(s))
<1>1. WithinReach(s.ask) = fit
  BY ReachIs DEF Sights
<1>2. {q \in WithinReach(s.ask) : IsChosen(s, q)} = taken
  BY ChosenAre
<1>3. Cardinality(taken) = Len(s.results)
  BY ChosenCount
<1>4. \A k \in 1..Len(s.results) - 1 : s.results[k].dist <= s.results[k + 1].dist
  <2>1. Len(s.results) \in Nat
    BY ResultsLen DEF RunningInv
  <2>2. \A k \in 1..Len(s.results) - 1 : k \in 1..Len(s.results) /\ k + 1 \in 1..Len(s.results) /\ k < k + 1
    BY <2>1
  <2> QED
    BY <2>2 DEF RunningInv, ResultsInv
<1>5. CASE s.ask.alternatives
  <2>1. BothSorts(fit, taken)
    BY <1>5, AlternativesExact
  <2> HIDE DEF fit, taken
  <2> QED
    BY <1>1, <1>2, <1>3, <1>4, <1>5, <2>1 DEF ExactIs
<1>6. CASE ~s.ask.alternatives
  <2>1. /\ Len(s.results) = IF s.ask.max_results = Unset THEN Cardinality(fit)
                            ELSE Min({s.ask.max_results, Cardinality(fit)})
        /\ \A q \in taken, o \in fit \ taken : q.dist <= o.dist
    BY <1>6, PlainExact
  <2> HIDE DEF fit, taken
  <2> QED
    BY <1>1, <1>2, <1>3, <1>4, <1>6, <2>1 DEF ExactIs
<1> QED
  BY <1>5, <1>6

(***************************************************************************)
(* The steps of a search.                                                  *)
(***************************************************************************)

LEMMA BegunHolds ==
  ASSUME NEW ask, WellAsked(ask)
  PROVE  /\ IsSearch(Begun(ask)) /\ Begun(ask).phase = "running" /\ Begun(ask).ask = ask
         /\ RunningInv(Begun(ask))
<1> DEFINE c == [dist |-> 0, index |-> Root, segment |-> NoSegment, at |-> ask.point]
           s == Begun(ask)
<1>1. /\ s.ask = ask /\ s.queue = {c} /\ s.results = <<>> /\ s.nearest = Nowhere /\ s.big = Nowhere
      /\ s.phase = "running" /\ IsSearch(s)
  BY DEF Begun, Idle, IsSearch
<1>2. c.dist = 0 /\ c.index = Root /\ c.segment = NoSegment
  OBVIOUS
<1> HIDE DEF c, s
<1>3. Cover(c) = Objects
  BY <1>2, RootHolds DEF Cover
<1>4. IsEntry(ask, c)
  <2>1. GetMinSquaredDist(BoxOf(RTree, Root), ask.point) \in Nat
    BY RootHolds, BoxDistances DEF WellAsked
  <2> QED
    BY <1>2, <2>1, RootHolds DEF IsEntry
<1>5. Visited(s.queue) = {}
  BY <1>1, <1>3 DEF Visited
<1>6. HeapInv(s.ask, s.queue)
  BY <1>1, <1>4, <1>5 DEF HeapInv
<1>7. Seen(s) = {} /\ Picked(s) = {}
  BY <1>5 DEF Seen, Picked
<1>8. PlacesInv(s)
  BY <1>1, <1>7 DEF PlacesInv, IsFirst
<1>9. ResultsInv(s)
  <2>1. s.results \in Seq({s.results[k] : k \in DOMAIN s.results}) /\ Len(s.results) = 0
    BY <1>1
  <2>2. 1..Len(s.results) = {}
    BY <2>1
  <2>3. ~s.ask.alternatives /\ s.ask.max_results # Unset => Len(s.results) <= s.ask.max_results
    BY <1>1, <2>1 DEF WellAsked
  <2> QED
    BY <1>7, <2>1, <2>2, <2>3 DEF ResultsInv
<1> QED
  BY <1>1, <1>6, <1>8, <1>9 DEF RunningInv, s

LEMMA ExploredHolds ==
  ASSUME NEW s, IsSearch(s), WellAsked(s.ask), RunningInv(s), NEW c \in Closest(s.queue), c.segment = NoSegment,
         NEW kids, kids = IF is_leaf(RTree, c.index) THEN ExploreLeafNode(RTree, c.index, s.ask.point)
                          ELSE ExploreTreeNode(RTree, c.index, s.ask.point),
         NEW t, t = [s EXCEPT !.queue = (@ \ {c}) \cup kids]
  PROVE  IsSearch(t) /\ t.phase = s.phase /\ t.ask = s.ask /\ RunningInv(t)
<1>1. /\ IsSearch(t) /\ t.phase = s.phase /\ t.ask = s.ask /\ t.results = s.results
      /\ t.nearest = s.nearest /\ t.big = s.big /\ t.queue = (s.queue \ {c}) \cup kids
  BY DEF IsSearch
<1>2. c \in s.queue /\ HeapInv(s.ask, s.queue) /\ IsEntry(s.ask, c)
  BY DEF Closest, RunningInv, HeapInv
<1>3. AreKids(s.ask, c, kids)
  BY <1>2, LeafKids, NodeKids
<1>4. Visited(t.queue) = Visited(s.queue) /\ HeapInv(t.ask, t.queue)
  BY <1>1, <1>2, <1>3, KidsForNode
<1>5. PlacesInv(t) /\ ResultsInv(t)
  BY <1>1, <1>4, FindsKept DEF SameFinds, RunningInv
<1> QED
  BY <1>1, <1>4, <1>5 DEF RunningInv

(* A segment with fewer directions enabled is still of its edge and at its position. *)
LEMMA EnablingKeeps ==
  ASSUME NEW F, NEW R, NEW o \in [u : DOMAIN Location, v : DOMAIN Location, forward : [id : F, enabled : BOOLEAN],
                            reverse : [id : R, enabled : BOOLEAN], position : Nat, is_startpoint : BOOLEAN],
         NEW a, NEW b, NEW d, d = [o EXCEPT !.forward.enabled = a, !.reverse.enabled = b]
  PROVE  d.forward.id = o.forward.id /\ d.position = o.position
<1>1. o.forward = [id |-> o.forward.id, enabled |-> o.forward.enabled]
  OBVIOUS
<1> PICK e : e = [o EXCEPT !.forward.enabled = a]
  OBVIOUS
<1>2. e.forward.id = o.forward.id /\ e.position = o.position
  BY <1>1
<1>3. d = [e EXCEPT !.reverse.enabled = b]
  OBVIOUS
<1>4. DOMAIN e = {"u", "v", "forward", "reverse", "position", "is_startpoint"}
  OBVIOUS
<1>5. d.forward = e.forward /\ d.position = e.position
  BY <1>3, <1>4
<1> QED
  BY <1>2, <1>5

(* A segment that is no reason to end the search. *)
LEMMA VisitedHolds ==
  ASSUME IsSearch(search), WellAsked(search.ask), RunningInv(search), VisitSegment
  PROVE  /\ IsSearch(search') /\ search'.phase = search.phase /\ search'.ask = search.ask
         /\ RunningInv(search')
<1> DEFINE s == search
           t == search'
<1>1. PICK c \in Closest(s.queue) :
         /\ c.segment # NoSegment /\ ~Terminates(c)
         /\ \E segment \in {RTree.objects[c.segment]} : \E use \in {Filter(c, segment)} :
               search' = [search EXCEPT
                   !.queue = @ \ {c},
                   !.results = IF use = Neither THEN @
                               ELSE Append(@, [at |-> c.at, dist |-> c.dist,
                                               data |-> [segment EXCEPT !.forward.enabled = @ /\ use[1],
                                                                        !.reverse.enabled = @ /\ use[2]]]),
                   !.nearest = IF use # Neither /\ @ = Nowhere THEN c.at ELSE @,
                   !.big = IF use # Neither /\ @ = Nowhere /\ ~IsTinyComponent(segment) THEN c.at ELSE @]
  BY DEF VisitSegment
<1>20. PICK o \in {RTree.objects[c.segment]} : \E use \in {Filter(c, o)} :
         search' = [search EXCEPT
            !.queue = @ \ {c},
            !.results = IF use = Neither THEN @
                        ELSE Append(@, [at |-> c.at, dist |-> c.dist,
                                        data |-> [o EXCEPT !.forward.enabled = @ /\ use[1],
                                                           !.reverse.enabled = @ /\ use[2]]]),
            !.nearest = IF use # Neither /\ @ = Nowhere THEN c.at ELSE @,
            !.big = IF use # Neither /\ @ = Nowhere /\ ~IsTinyComponent(o) THEN c.at ELSE @]
  BY <1>1
<1>21. PICK use \in {Filter(c, o)} :
         search' = [search EXCEPT
            !.queue = @ \ {c},
            !.results = IF use = Neither THEN @
                        ELSE Append(@, [at |-> c.at, dist |-> c.dist,
                                        data |-> [o EXCEPT !.forward.enabled = @ /\ use[1],
                                                           !.reverse.enabled = @ /\ use[2]]]),
            !.nearest = IF use # Neither /\ @ = Nowhere THEN c.at ELSE @,
            !.big = IF use # Neither /\ @ = Nowhere /\ ~IsTinyComponent(o) THEN c.at ELSE @]
  BY <1>20
<1>22. o = RTree.objects[c.segment] /\ use = Filter(c, o)
  OBVIOUS
<1> DEFINE x == c.segment
           r == [at |-> c.at, dist |-> c.dist,
                 data |-> [o EXCEPT !.forward.enabled = @ /\ use[1], !.reverse.enabled = @ /\ use[2]]]
<1>2. /\ IsSearch(t) /\ t.phase = s.phase /\ t.ask = s.ask /\ t.queue = s.queue \ {c}
      /\ t.results = IF use = Neither THEN s.results ELSE Append(s.results, r)
      /\ t.nearest = IF use # Neither /\ s.nearest = Nowhere THEN c.at ELSE s.nearest
      /\ t.big = IF use # Neither /\ s.big = Nowhere /\ ~IsTinyComponent(o) THEN c.at ELSE s.big
  <2> DEFINE results == IF use = Neither THEN s.results ELSE Append(s.results, r)
             nearest == IF use # Neither /\ s.nearest = Nowhere THEN c.at ELSE s.nearest
             big == IF use # Neither /\ s.big = Nowhere /\ ~IsTinyComponent(o) THEN c.at ELSE s.big
  <2>1. t = [s EXCEPT !.queue = s.queue \ {c}, !.results = results, !.nearest = nearest, !.big = big]
    BY <1>21
  <2>3. IsSearch(s)
    OBVIOUS
  <2> HIDE DEF s, t, results, nearest, big, r
  <2>2. /\ IsSearch(t) /\ t.phase = s.phase /\ t.ask = s.ask /\ t.queue = s.queue \ {c}
        /\ t.results = results /\ t.nearest = nearest /\ t.big = big
    BY <2>1, <2>3 DEF IsSearch
  <2> QED
    BY <2>2 DEF results, nearest, big
<1>3. HeapInv(s.ask, s.queue) /\ PlacesInv(s) /\ ResultsInv(s)
  BY DEF RunningInv
<1>4. x \in Objects /\ c.dist = Dist(s.ask, x) /\ c.dist \in Int
  <2>1. IsEntry(s.ask, c)
    BY <1>3 DEF Closest, HeapInv
  <2> QED
    BY <1>1, <2>1 DEF IsEntry
<1>5. Near(s.ask, x)
  <2>1. s.ask.max_distance = Unset \/ ~(c.dist > s.ask.max_distance)
    BY <1>1 DEF Terminates, TooFar
  <2>2. s.ask.max_distance = Unset \/ s.ask.max_distance \in Int
    BY DEF WellAsked
  <2> QED
    BY <1>4, <2>1, <2>2 DEF Near
<1>6. /\ x \in Objects \ Visited(s.queue) /\ c.at = Place(s.ask, x)
      /\ Visited(t.queue) = Visited(s.queue) \cup {x}
      /\ \A y \in Visited(s.queue) : Dist(s.ask, y) <= Dist(s.ask, x)
      /\ HeapInv(t.ask, t.queue)
  <2>1. WellAsked(s.ask)
    OBVIOUS
  <2> HIDE DEF s, t, r
  <2>2. /\ c.segment \in Objects \ Visited(s.queue)
        /\ c.at = Place(s.ask, c.segment)
        /\ Visited(s.queue \ {c}) = Visited(s.queue) \cup {c.segment}
        /\ \A y \in Visited(s.queue) : Dist(s.ask, y) <= Dist(s.ask, c.segment)
        /\ HeapInv(s.ask, s.queue \ {c})
    BY <1>1, <1>3, <1>5, <2>1, SegmentSeen
  <2> QED
    BY <1>2, <2>2
<1>7. SeesOne(s, t, x)
  BY <1>2, <1>6 DEF SeesOne
<1>8. /\ Tiny(x) = IsTinyComponent(o) /\ Usable(s.ask, x) = (UseSegment(o, s.ask) # Neither)
      /\ use = IF s.ask.alternatives
                  /\ (IF Tiny(x) THEN s.nearest \notin {Nowhere, c.at} ELSE s.big \notin {Nowhere, c.at})
               THEN Neither ELSE UseSegment(o, s.ask)
  BY <1>22 DEF Filter, Tiny, Usable
<1> HIDE DEF s, t
<1>9. CASE ~Usable(s.ask, x)
  <2>1. use = Neither
    BY <1>8, <1>9
  <2>2. t.results = s.results /\ t.nearest = s.nearest /\ t.big = s.big
    BY <1>2, <2>1
  <2>3. PlacesInv(t) /\ ResultsInv(t)
    BY <1>3, <1>7, <1>9, <2>2, PassedUnusable
  <2> QED
    BY <1>2, <1>6, <2>3 DEF RunningInv, s, t
<1>10. CASE /\ Usable(s.ask, x) /\ s.ask.alternatives
            /\ IF Tiny(x) THEN s.nearest \notin {Nowhere, c.at} ELSE s.big \notin {Nowhere, c.at}
  <2>1. use = Neither
    BY <1>8, <1>10
  <2>2. t.results = s.results /\ t.nearest = s.nearest /\ t.big = s.big
    BY <1>2, <2>1
  <2>3. /\ Place(s.ask, x) # IF Tiny(x) THEN s.nearest ELSE s.big
        /\ (IF Tiny(x) THEN s.nearest ELSE s.big) # Nowhere
    BY <1>6, <1>10
  <2>4. WellAsked(s.ask)
    BY DEF s
  <2>5. PlacesInv(t) /\ ResultsInv(t)
    BY <1>3, <1>7, <1>10, <2>2, <2>3, <2>4, PassedElsewhere
  <2> QED
    BY <1>2, <1>6, <2>5 DEF RunningInv, s, t
<1>11. CASE /\ Usable(s.ask, x)
            /\ ~(/\ s.ask.alternatives
                 /\ IF Tiny(x) THEN s.nearest \notin {Nowhere, c.at} ELSE s.big \notin {Nowhere, c.at})
  <2>1. use # Neither
    BY <1>8, <1>11
  <2>2. /\ t.results = Append(s.results, r)
        /\ t.nearest = IF s.nearest = Nowhere THEN Place(s.ask, x) ELSE s.nearest
        /\ t.big = IF s.big = Nowhere /\ ~Tiny(x) THEN Place(s.ask, x) ELSE s.big
    BY <1>2, <1>6, <1>8, <2>1
  <2>3. Stands(s.ask, r, x)
    <3>1. o \in [u : DOMAIN Location, v : DOMAIN Location, forward : [id : DOMAIN GetComponentID, enabled : BOOLEAN],
                 reverse : [id : DOMAIN GetComponentID \union {SPECIAL_SEGMENTID}, enabled : BOOLEAN],
                 position : Nat, is_startpoint : BOOLEAN]
      BY <1>4, <1>22, MapAssumption DEF Objects
    <3>2. r.data.forward.id = o.forward.id /\ r.data.position = o.position
      <4> PICK d : d = r.data
        OBVIOUS
      <4> PICK a : a = (o.forward.enabled /\ use[1])
        OBVIOUS
      <4> PICK b : b = (o.reverse.enabled /\ use[2])
        OBVIOUS
      <4>1. d = [o EXCEPT !.forward.enabled = a, !.reverse.enabled = b]
        OBVIOUS
      <4> QED
        BY <3>1, <4>1, EnablingKeeps
    <3>3. r.at = c.at /\ r.dist = c.dist
      OBVIOUS
    <3> HIDE DEF r
    <3> QED
      BY <1>4, <1>6, <1>22, <3>2, <3>3 DEF Stands
  <2>4. s.ask.alternatives => (IF Tiny(x) THEN s.nearest ELSE s.big) \in {Nowhere, Place(s.ask, x)}
    BY <1>6, <1>11
  <2>5. ~s.ask.alternatives /\ s.ask.max_results # Unset => Len(s.results) < s.ask.max_results
    <3>1. ~s.ask.alternatives => s.ask.max_results = Unset \/ ~(Len(s.results) >= s.ask.max_results)
      BY <1>1 DEF Terminates, s
    <3>2. s.ask.max_results = Unset \/ s.ask.max_results \in Int
      BY DEF WellAsked, s
    <3>3. Len(s.results) \in Int
      BY <1>3, ResultsLen
    <3> QED
      BY <3>1, <3>2, <3>3
  <2> HIDE DEF r
  <2>6. TakesOne(s, t, x)
    BY <1>7, <1>11, <2>2, <2>3, <2>4, <2>5 DEF TakesOne
  <2>7. WellAsked(s.ask)
    BY DEF s
  <2>8. PlacesInv(t) /\ ResultsInv(t)
    BY <1>3, <2>6, <2>7, TakenPlaces, TakenResults
  <2> QED
    BY <1>2, <1>6, <2>8 DEF RunningInv, s, t
<1> QED
  BY <1>9, <1>10, <1>11

(* What SearchExact says, of the search before a step and of that after it. *)
ExactOf(s) ==
  s.phase = "done" => \A fit \in {WithinReach(s.ask)} : \A taken \in {{q \in fit : IsChosen(s, q)}} : ExactIs(s, fit, taken)

LEMMA ExactSays == SearchExact <=> ExactOf(search)
BY DEF SearchExact, ExactOf, ExactIs, Taken, IsChosen

SearchInvOf(s) ==
  /\ IsSearch(s)
  /\ s.phase \in {"idle", "running", "done"}
  /\ s.phase # "idle" => WellAsked(s.ask)
  /\ s.phase = "running" => RunningInv(s)
  /\ ExactOf(s)

LEMMA InvSays == SearchInv <=> SearchInvOf(search)
BY ExactSays DEF SearchInv, SearchInvOf

LEMMA InvSaysNext == SearchInv' <=> SearchInvOf(search')
BY DEF SearchInv, SearchInvOf, SearchExact, ExactOf, ExactIs, Taken, IsChosen

LEMMA StoppedHolds ==
  ASSUME IsSearch(search), WellAsked(search.ask), RunningInv(search), Terminate
  PROVE  SearchInvOf(search')
<1> DEFINE s == search
           t == search'
<1>1. Stops(s)
  BY DEF Terminate, Terminates, TooFar, Stops
<1>2. IsSearch(t) /\ t.ask = s.ask /\ t.results = s.results /\ t.phase = "done"
  BY DEF Terminate, IsSearch
<1>3. \A fit \in {WithinReach(s.ask)} : \A taken \in {{q \in fit : IsChosen(s, q)}} : ExactIs(s, fit, taken)
  BY <1>1, ExactWhenStopped
<1>4. WellAsked(t.ask)
  BY <1>2
<1> HIDE DEF s, t
<1>5. \A q : IsChosen(t, q) <=> IsChosen(s, q)
  BY <1>2 DEF IsChosen
<1>6. \A fit, taken : ExactIs(t, fit, taken) <=> ExactIs(s, fit, taken)
  BY <1>2 DEF ExactIs
<1>7. ExactOf(t)
  BY <1>2, <1>3, <1>5, <1>6 DEF ExactOf
<1>8. SearchInvOf(t)
  BY <1>2, <1>4, <1>7 DEF SearchInvOf
<1> QED
  BY <1>8 DEF t

LEMMA SearchInvSteps == SearchInv /\ [SearchStep]_search => SearchInv'
<1>0. SUFFICES ASSUME SearchInvOf(search), [SearchStep]_search PROVE SearchInvOf(search')
  BY InvSays, InvSaysNext
<1>1. CASE ExploreNode
  <2>1. PICK c \in Closest(search.queue) :
           /\ c.segment = NoSegment
           /\ search' = [search EXCEPT !.queue = (@ \ {c}) \union
                            (IF is_leaf(RTree, c.index) THEN ExploreLeafNode(RTree, c.index, search.ask.point)
                             ELSE ExploreTreeNode(RTree, c.index, search.ask.point))]
    BY <1>1 DEF ExploreNode
  <2>2. search.phase = "running" /\ IsSearch(search) /\ WellAsked(search.ask) /\ RunningInv(search)
    BY <1>0, <1>1 DEF ExploreNode, SearchInvOf
  <2>3. IsSearch(search') /\ search'.phase = search.phase /\ search'.ask = search.ask /\ RunningInv(search')
    BY <2>1, <2>2, ExploredHolds
  <2> QED
    BY <2>2, <2>3 DEF SearchInvOf, ExactOf
<1>2. CASE Terminate
  BY <1>0, <1>2, StoppedHolds DEF Terminate, SearchInvOf
<1>3. CASE VisitSegment
  <2>1. search.phase = "running" /\ IsSearch(search) /\ WellAsked(search.ask) /\ RunningInv(search)
    BY <1>0, <1>3 DEF VisitSegment, SearchInvOf
  <2>2. IsSearch(search') /\ search'.phase = search.phase /\ search'.ask = search.ask /\ RunningInv(search')
    BY <1>3, <2>1, VisitedHolds
  <2> QED
    BY <2>1, <2>2 DEF SearchInvOf, ExactOf
<1>4. CASE UNCHANGED search
  BY <1>0, <1>4
<1> QED
  BY <1>0, <1>1, <1>2, <1>3, <1>4 DEF SearchStep
(***************************************************************************)
(* Loops.  Iteration computes a recursive function over the rounds; that   *)
(* there is one is shown here, for any set of states that the rounds stay  *)
(* in.                                                                     *)
(***************************************************************************)

LEMMA Inducted ==
  ASSUME NEW n \in Nat, NEW Good, 0 \in Good, \A i \in 1..n : i - 1 \in Good => i \in Good
  PROVE  0..n \subseteq Good
<1> DEFINE Bad == {i \in 0..n : i \notin Good}
<1> SUFFICES ASSUME Bad # {} PROVE FALSE
  OBVIOUS
<1>1. PICK m \in Bad : \A k \in Bad : m <= k
  <2>1. Bad \subseteq Nat
    OBVIOUS
  <2> HIDE DEF Bad
  <2> QED
    BY <2>1, Smallest
<1>2. m \in 1..n
  OBVIOUS
<1>3. m - 1 \in 0..n /\ ~(m <= m - 1)
  BY <1>2
<1>4. m - 1 \in Good
  BY <1>1, <1>3
<1> QED
  BY <1>2, <1>4

Runs(g, n, S, origin, F) == g \in [0..n -> S] /\ g[0] = origin /\ \A i \in 1..n : g[i] = F[i][g[i - 1]]

LEMMA LoopRuns ==
  ASSUME NEW n \in Nat, NEW S, NEW origin \in S, NEW F \in [1..n -> [S -> S]]
  PROVE  \E g : Runs(g, n, S, origin, F)
<1> DEFINE Upto(m) == \E g \in [0..m -> S] : g[0] = origin /\ \A i \in 1..m : g[i] = F[i][g[i - 1]]
           Good == {m \in 0..n : Upto(m)}
<1>1. 0 \in Good
  <2>1. Upto(0)
    <3> DEFINE g == [i \in 0..0 |-> origin]
    <3>1. g \in [0..0 -> S] /\ g[0] = origin /\ \A i \in 1..0 : g[i] = F[i][g[i - 1]]
      OBVIOUS
    <3> QED
      BY <3>1, Zenon
  <2> QED
    BY <2>1
<1>2. ASSUME NEW m \in 1..n, m - 1 \in Good PROVE m \in Good
  <2>1. PICK g \in [0..m - 1 -> S] : g[0] = origin /\ \A i \in 1..m - 1 : g[i] = F[i][g[i - 1]]
    BY <1>2
  <2> DEFINE h == [i \in 0..m |-> IF i = m THEN F[m][g[m - 1]] ELSE g[i]]
  <2>2. h \in [0..m -> S]
    <3>1. g[m - 1] \in S
      OBVIOUS
    <3>2. F[m][g[m - 1]] \in S
      BY <3>1
    <3>3. \A i \in 0..m : i # m => g[i] \in S
      OBVIOUS
    <3> QED
      BY <3>2, <3>3
  <2>3. h[0] = origin
    BY <2>1
  <2>4. \A i \in 1..m : h[i] = F[i][h[i - 1]]
    <3> SUFFICES ASSUME NEW i \in 1..m PROVE h[i] = F[i][h[i - 1]]
      OBVIOUS
    <3>1. h[i - 1] = g[i - 1]
      OBVIOUS
    <3>2. CASE i = m
      BY <3>1, <3>2
    <3>3. CASE i # m
      <4>1. i \in 1..m - 1 /\ h[i] = g[i]
        BY <3>3
      <4> QED
        BY <2>1, <3>1, <4>1
    <3> QED
      BY <3>2, <3>3
  <2> HIDE DEF h
  <2>5. Upto(m) /\ m \in 0..n
    BY <2>2, <2>3, <2>4
  <2> HIDE DEF Upto
  <2> QED
    BY <2>5
<1> HIDE DEF Upto
<1>3. 0..n \subseteq Good
  <2> HIDE DEF Good
  <2> QED
    BY <1>1, <1>2, Inducted
<1>4. n \in Good
  BY <1>3
<1>5. Upto(n)
  BY <1>4
<1> QED
  BY <1>5 DEF Upto, Runs

(***************************************************************************)
(* The candidates that are made of what a search with alternatives found.  *)
(***************************************************************************)

Has(list, component) == \E j \in DOMAIN list : list[j].component = component

LEMMA PhantomOf ==
  ASSUME NEW input, NEW d
  PROVE  /\ MakePhantomNode(input, d).component = GetComponentID[d.forward.id]
         /\ MakePhantomNode(input, d).forward.id = d.forward.id
BY DEF MakePhantomNode

Extends(all, list, component, P) ==
  all \in Seq(P) /\ \A c : Has(all, c) <=> Has(list, c) \/ c = component
OfMap(P) == \A p \in P : p.component = GetComponentID[p.forward.id]

LEMMA AddsCandidate ==
  ASSUME NEW P, NEW list \in Seq(P), NEW input, NEW d, MakePhantomNode(input, d) \in P,
         OfMap(P)
  PROVE  Extends(add_to_candidates(list, input, d), list, GetComponentID[d.forward.id], P)
<1> DEFINE new == MakePhantomNode(input, d)
           all == add_to_candidates(list, input, d)
           same == {i \in DOMAIN list : /\ list[i].forward.id = d.forward.id
                                        /\ list[i].reverse.id = d.reverse.id}
<1>0. \A p \in P : p.component = GetComponentID[p.forward.id]
  BY DEF OfMap
<1>1. new.component = GetComponentID[d.forward.id] /\ new.forward.id = d.forward.id /\ new \in P
  BY PhantomOf
<1> HIDE DEF new
<1>2. CASE same = {}
  <2>1. all = Append(list, new)
    BY <1>2 DEF add_to_candidates, new
  <2> HIDE DEF all, same
  <2>2. all \in Seq(P) /\ Len(all) = Len(list) + 1 /\ all[Len(list) + 1] = new
        /\ \A j \in 1..Len(list) : all[j] = list[j]
    BY <1>1, <2>1
  <2>3. DOMAIN all = 1..Len(list) + 1 /\ DOMAIN list = 1..Len(list) /\ Len(list) \in Nat
    BY <2>2
  <2>4. ASSUME NEW c PROVE Has(all, c) <=> Has(list, c) \/ c = GetComponentID[d.forward.id]
    <3>1. ASSUME NEW j \in DOMAIN all, all[j].component = c PROVE Has(list, c) \/ c = GetComponentID[d.forward.id]
      <4>1. CASE j = Len(list) + 1
        BY <1>1, <2>2, <3>1, <4>1
      <4>2. CASE j # Len(list) + 1
        <5>1. j \in 1..Len(list)
          BY <2>3, <4>2
        <5> QED
          BY <2>2, <2>3, <3>1, <5>1 DEF Has
      <4> QED
        BY <4>1, <4>2
    <3>2. ASSUME Has(list, c) PROVE Has(all, c)
      <4>1. PICK j \in DOMAIN list : list[j].component = c
        BY <3>2 DEF Has
      <4>2. j \in DOMAIN all /\ all[j] = list[j]
        BY <2>2, <2>3
      <4> QED
        BY <4>1, <4>2 DEF Has
    <3>3. ASSUME c = GetComponentID[d.forward.id] PROVE Has(all, c)
      <4>1. Len(list) + 1 \in DOMAIN all
        BY <2>3
      <4> QED
        BY <1>1, <2>2, <3>3, <4>1 DEF Has
    <3> QED
      BY <3>1, <3>2, <3>3 DEF Has
  <2> QED
    BY <2>2, <2>4 DEF all, Extends
<1>3. CASE same # {}
  <2>1. PICK m : m = Min(same)
    OBVIOUS
  <2>2. m \in same
    <3>1. same \subseteq Nat
      OBVIOUS
    <3> HIDE DEF same
    <3>2. \E k \in same : \A o \in same : k <= o
      BY <1>3, <3>1, Smallest
    <3> QED
      BY <2>1, <3>2 DEF Min
  <2>3. m \in DOMAIN list /\ list[m].forward.id = d.forward.id
    BY <2>2
  <2>4. PICK p \in {list[m], new} : all = [list EXCEPT ![m] = p]
    <3>1. all = [list EXCEPT ![m] = new] \/ all = [list EXCEPT ![m] = list[m]]
      <4> HIDE DEF all
      <4>1. \E b : all = [list EXCEPT ![m] = IF b THEN new ELSE list[m]]
        <5> HIDE DEF same
        <5> USE DEF all
        <5> QED
          BY <1>3, <2>1, Zenon DEF add_to_candidates, same, new
      <4> QED
        BY <4>1
    <3> QED
      BY <3>1
  <2> HIDE DEF all, same
  <2>5. p \in P /\ p.component = GetComponentID[d.forward.id]
    <3>1. list[m] \in P
      BY <2>3
    <3>2. list[m].component = GetComponentID[d.forward.id]
      BY <1>0, <2>3, <3>1
    <3> QED
      BY <1>1, <2>4, <3>1, <3>2
  <2>6. all \in Seq(P) /\ DOMAIN all = DOMAIN list /\ all[m] = p /\ \A j \in DOMAIN list : j # m => all[j] = list[j]
    BY <2>3, <2>4, <2>5
  <2>7. list[m].component = GetComponentID[d.forward.id]
    <3>1. list[m] \in P
      BY <2>3
    <3> QED
      BY <1>0, <2>3, <3>1
  <2>8. \A j \in DOMAIN list : all[j].component = list[j].component
    BY <2>5, <2>6, <2>7
  <2>9. ASSUME NEW c PROVE Has(all, c) <=> Has(list, c) \/ c = GetComponentID[d.forward.id]
    BY <2>3, <2>6, <2>7, <2>8 DEF Has
  <2> QED
    BY <2>6, <2>9 DEF all, Extends
<1> QED
  BY <1>2, <1>3

Gathers(f, input, nearest, results) ==
  f = [i \in 0..Len(results) |->
         IF i = 0 THEN NoCandidates
         ELSE CHOOSE next \in {AddSegment(input, nearest, s, results[i]) : s \in {f[i - 1]}} : TRUE]

GatherRuns(f, input, nearest, results, S) ==
  /\ f \in [0..Len(results) -> S]
  /\ f[0] = NoCandidates
  /\ \A i \in 1..Len(results) : f[i] = AddSegment(input, nearest, f[i - 1], results[i])
  /\ MakeAlternativeBigCandidates(input, nearest, results) = f[Len(results)]

LEMMA Gathered ==
  ASSUME NEW input, NEW nearest, NEW results, Len(results) \in Nat, NEW S, NoCandidates \in S,
         \A pair \in S, i \in 1..Len(results) : AddSegment(input, nearest, pair, results[i]) \in S
  PROVE  \E f : GatherRuns(f, input, nearest, results, S)
<1> DEFINE n == Len(results)
           f == CHOOSE x : Gathers(x, input, nearest, results)
           F == [i \in 1..n |-> [pair \in S |-> AddSegment(input, nearest, pair, results[i])]]
<1>1. MakeAlternativeBigCandidates(input, nearest, results) = f[n]
  BY DEF MakeAlternativeBigCandidates, IterateOver, Iterate, Gathers
<1>2. \A x, i : (CHOOSE next \in {AddSegment(input, nearest, s, results[i]) : s \in {x}} : TRUE)
                = AddSegment(input, nearest, x, results[i])
  OBVIOUS
<1>3. PICK g \in [0..n -> S] : g[0] = NoCandidates /\ \A i \in 1..n : g[i] = F[i][g[i - 1]]
  <2>1. F \in [1..n -> [S -> S]]
    OBVIOUS
  <2> HIDE DEF F
  <2>2. \E g : Runs(g, n, S, NoCandidates, F)
    BY <2>1, LoopRuns, Zenon
  <2> QED
    BY <2>2, Zenon DEF Runs
<1>4. \A i \in 1..n : g[i] = AddSegment(input, nearest, g[i - 1], results[i])
  <2> SUFFICES ASSUME NEW i \in 1..n PROVE g[i] = AddSegment(input, nearest, g[i - 1], results[i])
    OBVIOUS
  <2>1. i - 1 \in 0..n
    OBVIOUS
  <2>2. g[i - 1] \in S
    BY <2>1
  <2> QED
    BY <1>3, <2>2
<1>5. Gathers(g, input, nearest, results)
  <2>1. \A i \in 0..n :
          g[i] = IF i = 0 THEN NoCandidates
                 ELSE CHOOSE next \in {AddSegment(input, nearest, s, results[i]) : s \in {g[i - 1]}} : TRUE
    <3> SUFFICES ASSUME NEW i \in 0..n
                 PROVE  g[i] = IF i = 0 THEN NoCandidates
                        ELSE CHOOSE next \in {AddSegment(input, nearest, s, results[i]) : s \in {g[i - 1]}} : TRUE
      OBVIOUS
    <3>1. CASE i = 0
      BY <1>3, <3>1
    <3>2. CASE i # 0
      <4>1. i \in 1..n
        BY <3>2
      <4> QED
        BY <1>2, <1>4, <3>2, <4>1
    <3> QED
      BY <3>1, <3>2
  <2>2. g = [i \in 0..n |-> g[i]]
    OBVIOUS
  <2> QED
    BY <2>1, <2>2 DEF Gathers
<1>6. Gathers(f, input, nearest, results)
  BY <1>5
<1> HIDE DEF f, F
<1>7. f[0] = NoCandidates /\ \A i \in 1..n : f[i] = AddSegment(input, nearest, f[i - 1], results[i])
  <2>1. \A i \in 0..n : f[i] = IF i = 0 THEN NoCandidates ELSE AddSegment(input, nearest, f[i - 1], results[i])
    BY <1>2, <1>6 DEF Gathers
  <2>2. 0 \in 0..n /\ \A i \in 1..n : i \in 0..n /\ i # 0
    OBVIOUS
  <2> QED
    BY <2>1, <2>2
<1>8. f \in [0..n -> S]
  <2> DEFINE Good == {i \in 0..n : f[i] \in S}
  <2>1. 0 \in Good
    BY <1>7
  <2>2. ASSUME NEW i \in 1..n, i - 1 \in Good PROVE i \in Good
    BY <1>7, <2>2
  <2>3. 0..n \subseteq Good
    <3> HIDE DEF Good
    <3> QED
      BY <2>1, <2>2, Inducted
  <2>4. f = [i \in 0..n |-> f[i]]
    BY <1>6 DEF Gathers
  <2> QED
    BY <2>3, <2>4
<1> QED
  BY <1>1, <1>7, <1>8 DEF GatherRuns

(* The components at the nearest place, and those elsewhere. *)
Parted(found, nearest, results) ==
  /\ \A c : Has(found.first, c)
           <=> \E k \in 1..Len(results) : /\ results[k].at = nearest
                                         /\ c = GetComponentID[results[k].data.forward.id]
  /\ \A c : Has(found.second, c)
           <=> \E k \in 1..Len(results) : /\ results[k].at # nearest
                                         /\ c = GetComponentID[results[k].data.forward.id]
  /\ found.second # <<>> => \E c : Has(found.second, c)

LEMMA CandidatesAre ==
  ASSUME NEW input, NEW nearest, NEW results, Len(results) \in Nat
  PROVE  Parted(MakeAlternativeBigCandidates(input, nearest, results), nearest, results)
<1> DEFINE n == Len(results)
           P == {MakePhantomNode(input, results[k].data) : k \in 1..n}
           S == [first : Seq(P), second : Seq(P)]
           Of(k) == GetComponentID[results[k].data.forward.id]
<1>1. \A k \in 1..n : MakePhantomNode(input, results[k].data) \in P
  OBVIOUS
<1>2. OfMap(P)
  <2> SUFFICES ASSUME NEW k \in 1..n
               PROVE  MakePhantomNode(input, results[k].data).component
                      = GetComponentID[MakePhantomNode(input, results[k].data).forward.id]
    BY DEF OfMap
  <2> QED
    BY PhantomOf
<1> HIDE DEF P
<1>3. ASSUME NEW pair \in S, NEW i \in 1..n
      PROVE  /\ AddSegment(input, nearest, pair, results[i]) \in S
             /\ \A c : Has(AddSegment(input, nearest, pair, results[i]).first, c)
                       <=> Has(pair.first, c) \/ (results[i].at = nearest /\ c = Of(i))
             /\ \A c : Has(AddSegment(input, nearest, pair, results[i]).second, c)
                       <=> Has(pair.second, c) \/ (results[i].at # nearest /\ c = Of(i))
  <2> DEFINE d == results[i].data
             next == AddSegment(input, nearest, pair, results[i])
             a == add_to_candidates(pair.first, input, d)
             b == add_to_candidates(pair.second, input, d)
  <2>1. a \in Seq(P) /\ \A c : Has(a, c) <=> Has(pair.first, c) \/ c = Of(i)
    <3>1. pair.first \in Seq(P)
      OBVIOUS
    <3>2. MakePhantomNode(input, d) \in P
      BY <1>1
    <3>3. Extends(a, pair.first, Of(i), P)
      BY <1>2, <3>1, <3>2, AddsCandidate, Zenon
    <3> QED
      BY <3>3 DEF Extends
  <2>2. b \in Seq(P) /\ \A c : Has(b, c) <=> Has(pair.second, c) \/ c = Of(i)
    <3>1. pair.second \in Seq(P)
      OBVIOUS
    <3>2. MakePhantomNode(input, d) \in P
      BY <1>1
    <3>3. Extends(b, pair.second, Of(i), P)
      BY <1>2, <3>1, <3>2, AddsCandidate, Zenon
    <3> QED
      BY <3>3 DEF Extends
  <2>3. next = IF results[i].at = nearest THEN [pair EXCEPT !.first = a] ELSE [pair EXCEPT !.second = b]
    BY DEF AddSegment
  <2> HIDE DEF next, a, b, Of
  <2>4. /\ next \in S
        /\ next.first = IF results[i].at = nearest THEN a ELSE pair.first
        /\ next.second = IF results[i].at = nearest THEN pair.second ELSE b
    BY <2>1, <2>2, <2>3
  <2>5. /\ \A c : Has(next.first, c) <=> Has(pair.first, c) \/ (results[i].at = nearest /\ c = Of(i))
        /\ \A c : Has(next.second, c) <=> Has(pair.second, c) \/ (results[i].at # nearest /\ c = Of(i))
    <3>1. CASE results[i].at = nearest
      BY <2>1, <2>4, <3>1
    <3>2. CASE results[i].at # nearest
      BY <2>2, <2>4, <3>2
    <3> QED
      BY <3>1, <3>2
  <2> QED
    BY <2>4, <2>5 DEF next
<1>4. NoCandidates \in S
  BY DEF NoCandidates
<1>5. PICK f \in [0..n -> S] :
        /\ f[0] = NoCandidates
        /\ \A i \in 1..n : f[i] = AddSegment(input, nearest, f[i - 1], results[i])
        /\ MakeAlternativeBigCandidates(input, nearest, results) = f[n]
  <2> HIDE DEF S, Of
  <2>1. \A pair \in S, i \in 1..Len(results) : AddSegment(input, nearest, pair, results[i]) \in S
    BY <1>3
  <2>2. \E f : GatherRuns(f, input, nearest, results, S)
    BY <1>4, <2>1, Gathered, Zenon
  <2> QED
    BY <2>2, Zenon DEF GatherRuns
<1> HIDE DEF S, Of
<1> DEFINE Is(i) == /\ \A c : Has(f[i].first, c) <=> \E k \in 1..i : results[k].at = nearest /\ c = Of(k)
                    /\ \A c : Has(f[i].second, c) <=> \E k \in 1..i : results[k].at # nearest /\ c = Of(k)
           Good == {i \in 0..n : Is(i)}
<1>6. 0 \in Good
  <2>1. \A c : ~Has(f[0].first, c) /\ ~Has(f[0].second, c)
    BY <1>5 DEF NoCandidates, Has
  <2>2. Is(0)
    BY <2>1
  <2> HIDE DEF Is
  <2> QED
    BY <2>2
<1>7. ASSUME NEW i \in 1..n, i - 1 \in Good PROVE i \in Good
  <2>0. f[i - 1] \in S /\ f[i] = AddSegment(input, nearest, f[i - 1], results[i]) /\ Is(i - 1)
    BY <1>5, <1>7
  <2>1. 1..i = (1..i - 1) \cup {i}
    OBVIOUS
  <2> PICK pair \in S : pair = f[i - 1]
    BY <2>0
  <2>2. /\ \A c : Has(f[i].first, c) <=> Has(f[i - 1].first, c) \/ (results[i].at = nearest /\ c = Of(i))
        /\ \A c : Has(f[i].second, c) <=> Has(f[i - 1].second, c) \/ (results[i].at # nearest /\ c = Of(i))
    <3>1. f[i] = AddSegment(input, nearest, pair, results[i])
      BY <2>0
    <3>2. /\ \A c : Has(f[i].first, c) <=> Has(pair.first, c) \/ (results[i].at = nearest /\ c = Of(i))
          /\ \A c : Has(f[i].second, c) <=> Has(pair.second, c) \/ (results[i].at # nearest /\ c = Of(i))
      BY <1>3, <3>1, Zenon
    <3> QED
      BY <3>2
  <2>3. ASSUME NEW c PROVE Has(f[i].first, c) <=> \E k \in 1..i : results[k].at = nearest /\ c = Of(k)
    BY <2>0, <2>1, <2>2
  <2>4. ASSUME NEW c PROVE Has(f[i].second, c) <=> \E k \in 1..i : results[k].at # nearest /\ c = Of(k)
    BY <2>0, <2>1, <2>2
  <2>5. Is(i)
    BY <2>3, <2>4
  <2> HIDE DEF Is
  <2> QED
    BY <2>5
<1> HIDE DEF Is
<1>8. 0..n \subseteq Good
  <2> HIDE DEF Good
  <2> QED
    BY <1>6, <1>7, Inducted
<1>9. Is(n)
  <2>1. n \in Good
    BY <1>8
  <2> QED
    BY <2>1
<1>10. f[n].second # <<>> => \E c : Has(f[n].second, c)
  <2> SUFFICES ASSUME f[n].second # <<>> PROVE Has(f[n].second, f[n].second[1].component)
    OBVIOUS
  <2>1. n \in 0..n
    OBVIOUS
  <2>2. f[n].second \in Seq(P)
    BY <1>5, <2>1 DEF S
  <2>3. 1 \in DOMAIN f[n].second
    BY <2>2
  <2> QED
    BY <2>3 DEF Has
<1> QED
  BY <1>5, <1>9, <1>10 DEF Is, Of, Parted

(* What is put out is a segment of the map with its edges. *)
FromMap(r) ==
  \E x \in Objects : /\ r.data.forward.id = RTree.objects[x].forward.id
                     /\ r.data.position = RTree.objects[x].position
Formed(s) == Len(s.results) \in Nat /\ \A k \in 1..Len(s.results) : FromMap(s.results[k])
SmallAtNearest(s) ==
  \A k \in 1..Len(s.results) : GetComponentID[s.results[k].data.forward.id].is_tiny => s.results[k].at = s.nearest
FormInv(s) ==
  /\ s.phase # "idle" => Formed(s)
  /\ s.phase = "done" /\ s.ask.alternatives => SmallAtNearest(s)

LEMMA BegunFormed ==
  ASSUME NEW ask
  PROVE  FormInv(Begun(ask)) /\ FormInv(Idle)
BY DEF Begun, Idle, FormInv, Formed

LEMMA OneOfMap ==
  ASSUME NEW x \in Objects, NEW y \in Objects,
         RTree.objects[x].forward.id = RTree.objects[y].forward.id,
         RTree.objects[x].position = RTree.objects[y].position
  PROVE  x = y
BY MapAssumption DEF Objects

LEMMA StoppedFormed ==
  ASSUME NEW s, ResultsInv(s), Formed(s), s.ask.alternatives
  PROVE  SmallAtNearest(s)
<1> SUFFICES ASSUME NEW k \in 1..Len(s.results), GetComponentID[s.results[k].data.forward.id].is_tiny
             PROVE  s.results[k].at = s.nearest
  BY DEF SmallAtNearest
<1>1. PICK x \in Picked(s) : Stands(s.ask, s.results[k], x)
  BY DEF ResultsInv
<1>2. PICK y \in Objects : /\ s.results[k].data.forward.id = RTree.objects[y].forward.id
                           /\ s.results[k].data.position = RTree.objects[y].position
  BY DEF Formed, FromMap
<1>3. x \in Objects /\ Wanted(s, x)
  BY DEF Picked, Seen, Visited
<1>4. x = y
  BY <1>1, <1>2, <1>3, OneOfMap DEF Stands
<1>5. Tiny(x)
  BY <1>2, <1>4 DEF Tiny, IsTinyComponent
<1> QED
  BY <1>1, <1>3, <1>5 DEF Wanted, Stands

LEMMA FormSteps ==
  ASSUME SearchInvOf(search), FormInv(search), SearchStep
  PROVE  FormInv(search') /\ search'.ask = search.ask /\ search'.phase # "idle"
<1> DEFINE s == search
           t == search'
<1>0. s.phase = "running" /\ IsSearch(s) /\ WellAsked(s.ask) /\ RunningInv(s) /\ Formed(s)
  BY DEF SearchStep, ExploreNode, Terminate, VisitSegment, SearchInvOf, FormInv
<1>1. CASE ExploreNode
  <2>1. PICK queue : t = [s EXCEPT !.queue = queue]
    BY <1>1, Zenon DEF ExploreNode
  <2> HIDE DEF s, t
  <2>2. t.ask = s.ask /\ t.phase = s.phase /\ t.results = s.results
    BY <1>0, <2>1 DEF IsSearch
  <2>3. FormInv(t)
    BY <1>0, <2>2 DEF FormInv, Formed
  <2> QED
    BY <1>0, <2>2, <2>3 DEF s, t
<1>2. CASE Terminate
  <2>1. t = [s EXCEPT !.phase = "done", !.queue = {}]
    BY <1>2 DEF Terminate
  <2> HIDE DEF s, t
  <2>2. t.ask = s.ask /\ t.phase = "done" /\ t.results = s.results /\ t.nearest = s.nearest
    BY <1>0, <2>1 DEF IsSearch
  <2>3. s.ask.alternatives => SmallAtNearest(s)
    BY <1>0, StoppedFormed DEF RunningInv
  <2>4. FormInv(t)
    BY <1>0, <2>2, <2>3 DEF FormInv, Formed, SmallAtNearest
  <2> QED
    BY <2>2, <2>4 DEF s, t
<1>3. CASE VisitSegment
  <2>1. PICK c \in Closest(s.queue) :
         /\ c.segment # NoSegment
         /\ \E segment \in {RTree.objects[c.segment]} : \E use \in {Filter(c, segment)} :
               search' = [search EXCEPT
                   !.queue = @ \ {c},
                   !.results = IF use = Neither THEN @
                               ELSE Append(@, [at |-> c.at, dist |-> c.dist,
                                               data |-> [segment EXCEPT !.forward.enabled = @ /\ use[1],
                                                                        !.reverse.enabled = @ /\ use[2]]]),
                   !.nearest = IF use # Neither /\ @ = Nowhere THEN c.at ELSE @,
                   !.big = IF use # Neither /\ @ = Nowhere /\ ~IsTinyComponent(segment) THEN c.at ELSE @]
    BY <1>3 DEF VisitSegment
  <2> PICK o \in {RTree.objects[c.segment]} : \E use \in {Filter(c, o)} :
         search' = [search EXCEPT
            !.queue = @ \ {c},
            !.results = IF use = Neither THEN @
                        ELSE Append(@, [at |-> c.at, dist |-> c.dist,
                                        data |-> [o EXCEPT !.forward.enabled = @ /\ use[1],
                                                           !.reverse.enabled = @ /\ use[2]]]),
            !.nearest = IF use # Neither /\ @ = Nowhere THEN c.at ELSE @,
            !.big = IF use # Neither /\ @ = Nowhere /\ ~IsTinyComponent(o) THEN c.at ELSE @]
    BY <2>1
  <2>2. PICK use \in {Filter(c, o)} :
         search' = [search EXCEPT
            !.queue = @ \ {c},
            !.results = IF use = Neither THEN @
                        ELSE Append(@, [at |-> c.at, dist |-> c.dist,
                                        data |-> [o EXCEPT !.forward.enabled = @ /\ use[1],
                                                           !.reverse.enabled = @ /\ use[2]]]),
            !.nearest = IF use # Neither /\ @ = Nowhere THEN c.at ELSE @,
            !.big = IF use # Neither /\ @ = Nowhere /\ ~IsTinyComponent(o) THEN c.at ELSE @]
    OBVIOUS
  <2> DEFINE r == [at |-> c.at, dist |-> c.dist,
                   data |-> [o EXCEPT !.forward.enabled = @ /\ use[1], !.reverse.enabled = @ /\ use[2]]]
             results == IF use = Neither THEN s.results ELSE Append(s.results, r)
             nearest == IF use # Neither /\ s.nearest = Nowhere THEN c.at ELSE s.nearest
             big == IF use # Neither /\ s.big = Nowhere /\ ~IsTinyComponent(o) THEN c.at ELSE s.big
  <2>3. t = [s EXCEPT !.queue = s.queue \ {c}, !.results = results, !.nearest = nearest, !.big = big]
    BY <2>2
  <2>4. c.segment \in Objects
    BY <1>0, <2>1 DEF RunningInv, HeapInv, IsEntry, Closest
  <2>5. FromMap(r)
    <3>1. o \in [u : DOMAIN Location, v : DOMAIN Location, forward : [id : DOMAIN GetComponentID, enabled : BOOLEAN],
                 reverse : [id : DOMAIN GetComponentID \union {SPECIAL_SEGMENTID}, enabled : BOOLEAN],
                 position : Nat, is_startpoint : BOOLEAN]
      BY <2>4, MapAssumption DEF Objects
    <3>2. r.data.forward.id = o.forward.id /\ r.data.position = o.position
      <4> PICK d : d = r.data
        OBVIOUS
      <4> PICK a : a = (o.forward.enabled /\ use[1])
        OBVIOUS
      <4> PICK b : b = (o.reverse.enabled /\ use[2])
        OBVIOUS
      <4>1. d = [o EXCEPT !.forward.enabled = a, !.reverse.enabled = b]
        OBVIOUS
      <4> QED
        BY <3>1, <4>1, EnablingKeeps
    <3> HIDE DEF r
    <3> QED
      BY <2>4, <3>2 DEF FromMap
  <2>6. Len(results) \in Nat /\ \A k \in 1..Len(results) : FromMap(results[k])
    <3>1. s.results \in Seq({s.results[k] : k \in DOMAIN s.results}) /\ \A k \in 1..Len(s.results) : FromMap(s.results[k])
      BY <1>0 DEF RunningInv, ResultsInv, Formed
    <3> HIDE DEF r, s
    <3>2. IsAppended(s.results, r, Append(s.results, r))
      BY <3>1, Appended
    <3>3. CASE use = Neither
      BY <3>1, <3>3
    <3>4. CASE use # Neither
      <4>1. results = Append(s.results, r)
        BY <3>4
      <4> HIDE DEF results
      <4> QED
        BY <2>5, <3>1, <3>2, <4>1 DEF IsAppended
    <3> QED
      BY <3>3, <3>4
  <2> HIDE DEF s, t, results, nearest, big, r
  <2>7. t.ask = s.ask /\ t.phase = s.phase /\ t.results = results
    BY <1>0, <2>3 DEF IsSearch
  <2>8. FormInv(t)
    BY <1>0, <2>6, <2>7 DEF FormInv, Formed
  <2> QED
    BY <1>0, <2>7, <2>8 DEF s, t
<1> QED
  BY <1>1, <1>2, <1>3 DEF SearchStep

(* What the snapping of a coordinate gives for a route: candidates elsewhere *)
(* than at the nearest place are of the main network, and there are some of  *)
(* it if it is within reach.                                                 *)
IsBig(c) == \E n \in DOMAIN GetComponentID : ~GetComponentID[n].is_tiny /\ c = GetComponentID[n]
FoundWell(found, ask) ==
  /\ \A c : Has(found.second, c) => IsBig(c)
  /\ found.second # <<>> => \E c : Has(found.second, c)
  /\ (\E q \in WithinReach(ask) : ~q.tiny) => \E c : IsBig(c) /\ (Has(found.first, c) \/ Has(found.second, c))

LEMMA FoundIsWell ==
  ASSUME SearchInvOf(search), FormInv(search), search.phase = "done", search.ask.alternatives
  PROVE  FoundWell(Found, search.ask)
<1> DEFINE s == search
           found == MakeAlternativeBigCandidates(s.ask.point, s.nearest, s.results)
           Of(k) == GetComponentID[s.results[k].data.forward.id]
           n == Len(s.results)
<1>0. n \in Nat /\ Formed(s) /\ SmallAtNearest(s) /\ ExactOf(s)
  BY DEF FormInv, Formed, SearchInvOf
<1>1. Found = found
  BY DEF Found
<1>2. /\ \A c : Has(found.first, c) <=> \E k \in 1..n : s.results[k].at = s.nearest /\ c = Of(k)
      /\ \A c : Has(found.second, c) <=> \E k \in 1..n : s.results[k].at # s.nearest /\ c = Of(k)
      /\ found.second # <<>> => \E c : Has(found.second, c)
  <2>1. Parted(found, s.nearest, s.results)
    BY <1>0, CandidatesAre
  <2> HIDE DEF found, s
  <2> QED
    BY <2>1 DEF Parted
<1> HIDE DEF found, s
<1>3. \A k \in 1..n : s.results[k].data.forward.id \in DOMAIN GetComponentID
  BY <1>0, MapAssumption DEF Formed, FromMap, Objects
<1>4. ASSUME NEW c, Has(found.second, c) PROVE IsBig(c)
  <2>1. PICK k \in 1..n : s.results[k].at # s.nearest /\ c = Of(k)
    BY <1>2, <1>4
  <2>2. ~GetComponentID[s.results[k].data.forward.id].is_tiny
    BY <1>0, <2>1 DEF SmallAtNearest
  <2> QED
    BY <1>3, <2>1, <2>2 DEF IsBig
<1>5. ASSUME NEW q \in WithinReach(s.ask), ~q.tiny
      PROVE  \E c : IsBig(c) /\ (Has(found.first, c) \/ Has(found.second, c))
  <2> DEFINE fit == WithinReach(s.ask)
             taken == {p \in fit : IsChosen(s, p)}
             big == {p \in fit : ~p.tiny}
  <2>1. BothSorts(fit, taken)
    BY <1>0 DEF ExactOf, ExactIs, s
  <2>2. big # {}
    BY <1>5
  <2>3. PICK near \in Nearest(fit), place \in Nearest(big) : taken = {p \in fit : p.at = IF p.tiny THEN near ELSE place}
    BY <2>1, <2>2 DEF BothSorts
  <2>4. PICK p \in big : p.at = place
    BY <2>3 DEF Nearest
  <2>5. p \in taken
    BY <2>3, <2>4
  <2>6. PICK k \in DOMAIN s.results : /\ p.edge = s.results[k].data.forward.id
                                      /\ p.position = s.results[k].data.position
    BY <2>5 DEF IsChosen
  <2>7. PICK x \in Objects : /\ p.edge = RTree.objects[x].forward.id /\ p.position = RTree.objects[x].position
                             /\ p.tiny = Tiny(x)
    BY <2>4 DEF WithinReach, Fit, Objects, Tiny
  <2>8. k \in 1..n
    BY <1>0 DEF ExactOf
  <2>9. PICK y \in Objects : /\ s.results[k].data.forward.id = RTree.objects[y].forward.id
                             /\ s.results[k].data.position = RTree.objects[y].position
    BY <1>0, <2>8 DEF Formed, FromMap
  <2>10. x = y
    BY <2>6, <2>7, <2>9, OneOfMap
  <2>11. ~Of(k).is_tiny
    BY <2>4, <2>7, <2>9, <2>10 DEF Tiny, IsTinyComponent
  <2>12. IsBig(Of(k))
    BY <1>3, <2>8, <2>11 DEF IsBig
  <2>13. Has(found.first, Of(k)) \/ Has(found.second, Of(k))
    BY <1>2, <2>8
  <2> QED
    BY <2>12, <2>13
<1> QED
  BY <1>1, <1>2, <1>4, <1>5 DEF FoundWell, s

(***************************************************************************)
(* A request on its way: its characters, and what the parser holds after   *)
(* each of them.                                                           *)
(***************************************************************************)

Parser(state, name, value, uri, connection, status) ==
  [state |-> state, name |-> name, value |-> value, uri |-> uri, connection |-> connection, status |-> status]
Start(state) == Parser(state, <<>>, <<>>, <<>>, <<>>, "indeterminate")
Line(r, state) == Parser(state, <<>>, <<>>, <<r>>, <<>>, "indeterminate")
Header(r, state, value) == Parser(state, <<"Connection">>, value, <<r>>, <<>>, "indeterminate")

Closing(r) == r.connection = "close"

(* What a client that waits for an answer has sent. *)
Text(asked) == IF asked = <<>> THEN <<>> ELSE Characters(asked, FALSE)

FirstCharacters(r) ==
  <<Letters("GET"), Mark("space"), Letters(r), Mark("space"), Mark("H"), Mark("T"), Mark("T"), Mark("P"),
    Mark("slash"), Mark("digit"), Mark("dot"), Mark("digit"), Mark("CR"), Mark("LF")>>
LastCharacters(r) ==
  IF Closing(r)
  THEN <<Letters("Connection"), Mark("colon"), Mark("space"), Letters("close"), Mark("CR"), Mark("LF"),
         Mark("CR"), Mark("LF")>>
  ELSE <<Mark("CR"), Mark("LF")>>
Size(r) == IF Closing(r) THEN 22 ELSE 16
Sent(r) == [k \in 1..Size(r) |-> IF k <= 14 THEN FirstCharacters(r)[k] ELSE LastCharacters(r)[k - 14]]

FirstParsers(r) ==
  <<Start("method"), Start("uri"), Line(r, "uri"), Line(r, "http_version_h"), Line(r, "http_version_t_1"),
    Line(r, "http_version_t_2"), Line(r, "http_version_p"), Line(r, "http_version_slash"),
    Line(r, "http_version_major_start"), Line(r, "http_version_major"), Line(r, "http_version_minor_start"),
    Line(r, "http_version_minor"), Line(r, "expecting_newline_1"), Line(r, "header_line_start")>>
LastParsers(r) ==
  IF Closing(r)
  THEN <<Header(r, "header_name", <<>>), Header(r, "header_value", <<>>), Header(r, "header_value", <<>>),
         Header(r, "header_value", <<"close">>), Header(r, "expecting_newline_2", <<"close">>),
         Header(r, "header_line_start", <<"close">>),
         Parser("expecting_newline_3", <<"Connection">>, <<"close">>, <<r>>, <<"close">>, "indeterminate"),
         Parser("expecting_newline_3", <<"Connection">>, <<"close">>, <<r>>, <<"close">>, "valid")>>
  ELSE <<Line(r, "expecting_newline_3"), Parser("expecting_newline_3", <<>>, <<>>, <<r>>, <<>>, "valid")>>
ParserAt(r, k) ==
  IF k = 0 THEN NewParser ELSE IF k <= 14 THEN FirstParsers(r)[k] ELSE LastParsers(r)[k - 14]

(* u is s with t after it. *)
IsJoined(S, u, s, t) ==
  /\ u \in Seq(S) /\ Len(u) = Len(s) + Len(t)
  /\ u = [k \in 1..Len(u) |-> u[k]]
  /\ \A k \in 1..Len(s) + Len(t) : u[k] = IF k <= Len(s) THEN s[k] ELSE t[k - Len(s)]

LEMMA Joined ==
  ASSUME NEW S, NEW s \in Seq(S), NEW t \in Seq(S)
  PROVE  IsJoined(S, s \o t, s, t)
<1>1. s \o t \in Seq(S) /\ Len(s \o t) = Len(s) + Len(t)
  BY ConcatProperties
<1>2. s \o t \in [1..Len(s \o t) -> S]
  BY <1>1, LenProperties
<1>3. s \o t = [k \in 1..Len(s \o t) |-> (s \o t)[k]]
  BY <1>2
<1> QED
  BY <1>1, <1>3, ConcatProperties DEF IsJoined

Classes == {"space", "H", "T", "P", "slash", "digit", "dot", "CR", "LF", "colon"}
Anything(r) ==
  {Letters(text) : text \in {"GET", "Connection", "close", r}} \cup {Mark(class) : class \in Classes}

LEMMA Pieces ==
  ASSUME NEW r \in Requests
  PROVE  /\ <<Letters("GET"), Mark("space"), Letters(r)>> \in Seq(Anything(r))
         /\ <<Letters("Connection"), Mark("colon"), Mark("space"), Letters("close")>> \in Seq(Anything(r))
         /\ <<Mark("space")>> \in Seq(Anything(r))
         /\ Marks(<<"CR", "LF">>) = <<Mark("CR"), Mark("LF")>>
         /\ <<Mark("CR"), Mark("LF")>> \in Seq(Anything(r))
         /\ Marks(<<"H", "T", "T", "P", "slash", "digit", "dot", "digit">>)
              = <<Mark("H"), Mark("T"), Mark("T"), Mark("P"), Mark("slash"), Mark("digit"), Mark("dot"), Mark("digit")>>
         /\ <<Mark("H"), Mark("T"), Mark("T"), Mark("P"), Mark("slash"), Mark("digit"), Mark("dot"), Mark("digit")>>
              \in Seq(Anything(r))
<1>1. /\ Letters("GET") \in Anything(r) /\ Letters(r) \in Anything(r)
      /\ Letters("Connection") \in Anything(r) /\ Letters("close") \in Anything(r)
  BY DEF Anything
<1>2. \A class \in Classes : Mark(class) \in Anything(r)
  BY DEF Anything
<1>3. /\ Mark("space") \in Anything(r) /\ Mark("H") \in Anything(r) /\ Mark("T") \in Anything(r)
      /\ Mark("P") \in Anything(r) /\ Mark("slash") \in Anything(r) /\ Mark("digit") \in Anything(r)
      /\ Mark("dot") \in Anything(r) /\ Mark("CR") \in Anything(r) /\ Mark("LF") \in Anything(r)
      /\ Mark("colon") \in Anything(r)
  BY <1>2 DEF Classes
<1>4. Marks(<<"CR", "LF">>) = <<Mark("CR"), Mark("LF")>>
  <2> DEFINE end == <<"CR", "LF">>
  <2>1. DOMAIN end = 1..2 /\ end[1] = "CR" /\ end[2] = "LF"
    OBVIOUS
  <2>2. Marks(end) = [i \in 1..2 |-> Mark(end[i])]
    BY <2>1 DEF Marks
  <2> QED
    BY <2>1, <2>2
<1>5. Marks(<<"H", "T", "T", "P", "slash", "digit", "dot", "digit">>)
        = <<Mark("H"), Mark("T"), Mark("T"), Mark("P"), Mark("slash"), Mark("digit"), Mark("dot"), Mark("digit")>>
  <2> DEFINE version == <<"H", "T", "T", "P", "slash", "digit", "dot", "digit">>
  <2>1. DOMAIN version = 1..8
    OBVIOUS
  <2>2. Marks(version) = [i \in 1..8 |-> Mark(version[i])]
    BY <2>1 DEF Marks
  <2> QED
    BY <2>2
<1> QED
  BY <1>1, <1>3, <1>4, <1>5

LEMMA SentIs ==
  ASSUME NEW r \in Requests
  PROVE  Characters(r, FALSE) = Sent(r) /\ Sent(r) \in Seq(Anything(r)) /\ Len(Sent(r)) = Size(r)
<1> DEFINE S == Anything(r)
           version == <<Mark("H"), Mark("T"), Mark("T"), Mark("P"), Mark("slash"), Mark("digit"), Mark("dot"),
                        Mark("digit")>>
           end == <<Mark("CR"), Mark("LF")>>
           asked == <<Letters("GET"), Mark("space"), Letters(r)>>
           close == <<Letters("Connection"), Mark("colon"), Mark("space"), Letters("close")>>
           space == <<Mark("space")>>
           protocol == space \o version
           first == asked \o protocol
           line == first \o end
           header == close \o end
           more == line \o header
           kept == line \o end
           closed == more \o end
<1>space. space \in Seq(S) /\ Len(space) = 1
  BY Pieces
<1>version. version \in Seq(S) /\ Len(version) = 8
  BY Pieces
<1>asked. asked \in Seq(S) /\ Len(asked) = 3
  BY Pieces
<1>end. end \in Seq(S) /\ Len(end) = 2
  BY Pieces
<1>close. close \in Seq(S) /\ Len(close) = 4
  BY Pieces
<1>3. Characters(r, FALSE) = IF Closing(r) THEN closed ELSE (line \o <<>>) \o end
  BY Pieces DEF Characters, Closing
<1>4. /\ protocol \in Seq(S) /\ Len(protocol) = 9 /\ protocol = [k \in 1..9 |-> protocol[k]]
      /\ \A k \in 1..9 : protocol[k] = IF k <= 1 THEN space[k] ELSE version[k - 1]
  <2> HIDE DEF S, space, version
  <2>1. /\ space \o version \in Seq(S) /\ Len(space \o version) = Len(space) + Len(version)
        /\ space \o version = [k \in 1..Len(space \o version) |-> (space \o version)[k]]
        /\ \A k \in 1..Len(space) + Len(version) :
             (space \o version)[k] = IF k <= Len(space) THEN space[k] ELSE version[k - Len(space)]
    <3>1. IsJoined(S, space \o version, space, version)
      BY <1>space, <1>version, Joined, Zenon
    <3> QED
      BY <3>1 DEF IsJoined
  <2> DEFINE u == space \o version
  <2> HIDE DEF u
  <2>2. /\ u \in Seq(S) /\ Len(u) = Len(space) + Len(version) /\ u = [k \in 1..Len(u) |-> u[k]]
        /\ \A k \in 1..Len(space) + Len(version) : u[k] = IF k <= Len(space) THEN space[k] ELSE version[k - Len(space)]
    BY <2>1, Zenon DEF u
  <2>3. Len(u) = 9 /\ u = [k \in 1..9 |-> u[k]] /\ \A k \in 1..9 : u[k] = IF k <= 1 THEN space[k] ELSE version[k - 1]
    BY <1>space, <1>version, <2>2
  <2> QED
    BY <2>2, <2>3, Zenon DEF u
<1>5. /\ first \in Seq(S) /\ Len(first) = 12 /\ first = [k \in 1..12 |-> first[k]]
      /\ \A k \in 1..12 : first[k] = IF k <= 3 THEN asked[k] ELSE protocol[k - 3]
  <2> HIDE DEF S, asked, protocol
  <2>1. /\ asked \o protocol \in Seq(S) /\ Len(asked \o protocol) = Len(asked) + Len(protocol)
        /\ asked \o protocol = [k \in 1..Len(asked \o protocol) |-> (asked \o protocol)[k]]
        /\ \A k \in 1..Len(asked) + Len(protocol) :
             (asked \o protocol)[k] = IF k <= Len(asked) THEN asked[k] ELSE protocol[k - Len(asked)]
    <3>1. IsJoined(S, asked \o protocol, asked, protocol)
      BY <1>asked, <1>4, Joined, Zenon
    <3> QED
      BY <3>1 DEF IsJoined
  <2> DEFINE u == asked \o protocol
  <2> HIDE DEF u
  <2>2. /\ u \in Seq(S) /\ Len(u) = Len(asked) + Len(protocol) /\ u = [k \in 1..Len(u) |-> u[k]]
        /\ \A k \in 1..Len(asked) + Len(protocol) : u[k] = IF k <= Len(asked) THEN asked[k] ELSE protocol[k - Len(asked)]
    BY <2>1, Zenon DEF u
  <2>3. Len(u) = 12 /\ u = [k \in 1..12 |-> u[k]] /\ \A k \in 1..12 : u[k] = IF k <= 3 THEN asked[k] ELSE protocol[k - 3]
    BY <1>asked, <1>4, <2>2
  <2> QED
    BY <2>2, <2>3, Zenon DEF u
<1>6. /\ line \in Seq(S) /\ Len(line) = 14 /\ line = [k \in 1..14 |-> line[k]]
      /\ \A k \in 1..14 : line[k] = IF k <= 12 THEN first[k] ELSE end[k - 12]
  <2> HIDE DEF S, first, end
  <2>1. /\ first \o end \in Seq(S) /\ Len(first \o end) = Len(first) + Len(end)
        /\ first \o end = [k \in 1..Len(first \o end) |-> (first \o end)[k]]
        /\ \A k \in 1..Len(first) + Len(end) :
             (first \o end)[k] = IF k <= Len(first) THEN first[k] ELSE end[k - Len(first)]
    <3>1. IsJoined(S, first \o end, first, end)
      BY <1>5, <1>end, Joined, Zenon
    <3> QED
      BY <3>1 DEF IsJoined
  <2> DEFINE u == first \o end
  <2> HIDE DEF u
  <2>2. /\ u \in Seq(S) /\ Len(u) = Len(first) + Len(end) /\ u = [k \in 1..Len(u) |-> u[k]]
        /\ \A k \in 1..Len(first) + Len(end) : u[k] = IF k <= Len(first) THEN first[k] ELSE end[k - Len(first)]
    BY <2>1, Zenon DEF u
  <2>3. Len(u) = 14 /\ u = [k \in 1..14 |-> u[k]] /\ \A k \in 1..14 : u[k] = IF k <= 12 THEN first[k] ELSE end[k - 12]
    BY <1>5, <1>end, <2>2
  <2> QED
    BY <2>2, <2>3, Zenon DEF u
<1>7. ASSUME NEW k \in 1..14 PROVE line[k] = FirstCharacters(r)[k]
  <2>1. line[k] = IF k <= 12 THEN IF k <= 3 THEN asked[k] ELSE IF k = 4 THEN space[1] ELSE version[k - 4]
                  ELSE end[k - 12]
    <3> HIDE DEF line, first, protocol, asked, version, end, space
    <3>1. line[k] = IF k <= 12 THEN first[k] ELSE end[k - 12]
      BY <1>6
    <3>2. k <= 12 => first[k] = IF k <= 3 THEN asked[k] ELSE protocol[k - 3]
      BY <1>5
    <3>3. k \in 4..12 => protocol[k - 3] = IF k = 4 THEN space[1] ELSE version[k - 4]
      BY <1>4
    <3> QED
      BY <3>1, <3>2, <3>3
  <2> HIDE DEF line
  <2>2. k = 1 \/ k = 2 \/ k = 3 \/ k = 4 \/ k = 5 \/ k = 6 \/ k = 7 \/ k = 8 \/ k = 9 \/ k = 10 \/ k = 11
        \/ k = 12 \/ k = 13 \/ k = 14
    OBVIOUS
  <2> QED
    BY <2>1, <2>2 DEF FirstCharacters
<1>8. CASE ~Closing(r)
  <2>1. /\ kept \in Seq(S) /\ Len(kept) = 16 /\ kept = [k \in 1..16 |-> kept[k]]
        /\ \A k \in 1..16 : kept[k] = IF k <= 14 THEN line[k] ELSE end[k - 14]
    <3> HIDE DEF S, line, end
    <3>1. /\ line \o end \in Seq(S) /\ Len(line \o end) = Len(line) + Len(end)
          /\ line \o end = [k \in 1..Len(line \o end) |-> (line \o end)[k]]
          /\ \A k \in 1..Len(line) + Len(end) :
               (line \o end)[k] = IF k <= Len(line) THEN line[k] ELSE end[k - Len(line)]
      <4>1. IsJoined(S, line \o end, line, end)
        BY <1>6, <1>end, Joined, Zenon
      <4> QED
        BY <4>1 DEF IsJoined
    <3> DEFINE u == line \o end
    <3> HIDE DEF u
    <3>2. /\ u \in Seq(S) /\ Len(u) = Len(line) + Len(end) /\ u = [k \in 1..Len(u) |-> u[k]]
          /\ \A k \in 1..Len(line) + Len(end) : u[k] = IF k <= Len(line) THEN line[k] ELSE end[k - Len(line)]
      BY <3>1, Zenon DEF u
    <3>3. Len(u) = 16 /\ u = [k \in 1..16 |-> u[k]] /\ \A k \in 1..16 : u[k] = IF k <= 14 THEN line[k] ELSE end[k - 14]
      BY <1>6, <1>end, <3>2
    <3> QED
      BY <3>2, <3>3, Zenon DEF u
  <2>2. line \o <<>> = line
    <3> HIDE DEF line, S
    <3> QED
      BY <1>6, ConcatEmptySeq
  <2>3. \A k \in 1..16 : Sent(r)[k] = kept[k]
    <3> HIDE DEF line, kept
    <3> QED
      BY <1>7, <1>8, <2>1 DEF Sent, Size, LastCharacters
  <2>4. Sent(r) = [k \in 1..16 |-> Sent(r)[k]]
    BY <1>8 DEF Sent, Size
  <2>5. Characters(r, FALSE) = kept
    BY <1>3, <1>8, <2>2
  <2> HIDE DEF kept, S
  <2> QED
    BY <1>8, <2>1, <2>3, <2>4, <2>5 DEF S, Size
<1>9. CASE Closing(r)
  <2>1. /\ header \in Seq(S) /\ Len(header) = 6 /\ header = [k \in 1..6 |-> header[k]]
        /\ \A k \in 1..6 : header[k] = IF k <= 4 THEN close[k] ELSE end[k - 4]
    <3> HIDE DEF S, close, end
    <3>1. /\ close \o end \in Seq(S) /\ Len(close \o end) = Len(close) + Len(end)
          /\ close \o end = [k \in 1..Len(close \o end) |-> (close \o end)[k]]
          /\ \A k \in 1..Len(close) + Len(end) :
               (close \o end)[k] = IF k <= Len(close) THEN close[k] ELSE end[k - Len(close)]
      <4>1. IsJoined(S, close \o end, close, end)
        BY <1>close, <1>end, Joined, Zenon
      <4> QED
        BY <4>1 DEF IsJoined
    <3> DEFINE u == close \o end
    <3> HIDE DEF u
    <3>2. /\ u \in Seq(S) /\ Len(u) = Len(close) + Len(end) /\ u = [k \in 1..Len(u) |-> u[k]]
          /\ \A k \in 1..Len(close) + Len(end) : u[k] = IF k <= Len(close) THEN close[k] ELSE end[k - Len(close)]
      BY <3>1, Zenon DEF u
    <3>3. Len(u) = 6 /\ u = [k \in 1..6 |-> u[k]] /\ \A k \in 1..6 : u[k] = IF k <= 4 THEN close[k] ELSE end[k - 4]
      BY <1>close, <1>end, <3>2
    <3> QED
      BY <3>2, <3>3, Zenon DEF u
  <2>2. /\ more \in Seq(S) /\ Len(more) = 20 /\ more = [k \in 1..20 |-> more[k]]
        /\ \A k \in 1..20 : more[k] = IF k <= 14 THEN line[k] ELSE header[k - 14]
    <3> HIDE DEF S, line, header
    <3>1. /\ line \o header \in Seq(S) /\ Len(line \o header) = Len(line) + Len(header)
          /\ line \o header = [k \in 1..Len(line \o header) |-> (line \o header)[k]]
          /\ \A k \in 1..Len(line) + Len(header) :
               (line \o header)[k] = IF k <= Len(line) THEN line[k] ELSE header[k - Len(line)]
      <4>1. IsJoined(S, line \o header, line, header)
        BY <1>6, <2>1, Joined, Zenon
      <4> QED
        BY <4>1 DEF IsJoined
    <3> DEFINE u == line \o header
    <3> HIDE DEF u
    <3>2. /\ u \in Seq(S) /\ Len(u) = Len(line) + Len(header) /\ u = [k \in 1..Len(u) |-> u[k]]
          /\ \A k \in 1..Len(line) + Len(header) : u[k] = IF k <= Len(line) THEN line[k] ELSE header[k - Len(line)]
      BY <3>1, Zenon DEF u
    <3>3. Len(u) = 20 /\ u = [k \in 1..20 |-> u[k]] /\ \A k \in 1..20 : u[k] = IF k <= 14 THEN line[k] ELSE header[k - 14]
      BY <1>6, <2>1, <3>2
    <3> QED
      BY <3>2, <3>3, Zenon DEF u
  <2>3. /\ closed \in Seq(S) /\ Len(closed) = 22 /\ closed = [k \in 1..22 |-> closed[k]]
        /\ \A k \in 1..22 : closed[k] = IF k <= 20 THEN more[k] ELSE end[k - 20]
    <3> HIDE DEF S, more, end
    <3>1. /\ more \o end \in Seq(S) /\ Len(more \o end) = Len(more) + Len(end)
          /\ more \o end = [k \in 1..Len(more \o end) |-> (more \o end)[k]]
          /\ \A k \in 1..Len(more) + Len(end) :
               (more \o end)[k] = IF k <= Len(more) THEN more[k] ELSE end[k - Len(more)]
      <4>1. IsJoined(S, more \o end, more, end)
        BY <2>2, <1>end, Joined, Zenon
      <4> QED
        BY <4>1 DEF IsJoined
    <3> DEFINE u == more \o end
    <3> HIDE DEF u
    <3>2. /\ u \in Seq(S) /\ Len(u) = Len(more) + Len(end) /\ u = [k \in 1..Len(u) |-> u[k]]
          /\ \A k \in 1..Len(more) + Len(end) : u[k] = IF k <= Len(more) THEN more[k] ELSE end[k - Len(more)]
      BY <3>1, Zenon DEF u
    <3>3. Len(u) = 22 /\ u = [k \in 1..22 |-> u[k]] /\ \A k \in 1..22 : u[k] = IF k <= 20 THEN more[k] ELSE end[k - 20]
      BY <2>2, <1>end, <3>2
    <3> QED
      BY <3>2, <3>3, Zenon DEF u
  <2>4. ASSUME NEW k \in 15..22
        PROVE  LastCharacters(r)[k - 14] = IF k <= 20 THEN header[k - 14] ELSE end[k - 20]
    <3>1. k <= 20 => header[k - 14] = IF k - 14 <= 4 THEN close[k - 14] ELSE end[k - 18]
      <4> HIDE DEF header, close, end
      <4> QED
        BY <2>1
    <3> HIDE DEF header
    <3>2. k = 15 \/ k = 16 \/ k = 17 \/ k = 18 \/ k = 19 \/ k = 20 \/ k = 21 \/ k = 22
      OBVIOUS
    <3> QED
      BY <1>9, <3>1, <3>2 DEF LastCharacters
  <2>5. ASSUME NEW k \in 1..22 PROVE Sent(r)[k] = closed[k]
    <3> HIDE DEF line, header, more, end, closed
    <3>1. Sent(r)[k] = IF k <= 14 THEN line[k] ELSE LastCharacters(r)[k - 14]
      BY <1>7, <1>9 DEF Sent, Size
    <3>2. closed[k] = IF k <= 14 THEN line[k] ELSE IF k <= 20 THEN header[k - 14] ELSE end[k - 20]
      BY <2>2, <2>3
    <3> QED
      BY <2>4, <3>1, <3>2
  <2>6. Sent(r) = [k \in 1..22 |-> Sent(r)[k]]
    BY <1>9 DEF Sent, Size
  <2>7. Characters(r, FALSE) = closed
    BY <1>3, <1>9
  <2> HIDE DEF closed, S
  <2> QED
    BY <1>9, <2>3, <2>5, <2>6, <2>7 DEF S, Size
<1> QED
  BY <1>8, <1>9

(* One character more. *)
Step(p, c) == IF p.status = "indeterminate" THEN consume(p, c) ELSE p

LEMMA VersionStep ==
  ASSUME NEW p, NEW t \in VersionSteps, p.state = t[1]
  PROVE  consume(p, Mark(t[2])) = [p EXCEPT !.state = t[3]]
<1> PICK c : c = Mark(t[2])
  OBVIOUS
<1>1. c.class = t[2]
  BY DEF Mark
<1>2. \A s \in VersionSteps : s[1] = t[1] /\ s[2] = t[2] => s = t
  BY DEF VersionSteps
<1>3. p.state \notin {"method_start", "method", "uri", "header_line_start", "header_name", "header_value",
                      "expecting_newline_3"}
  BY DEF VersionSteps
<1> DEFINE steps == {s \in VersionSteps : s[1] = p.state /\ s[2] = c.class}
<1>4. steps = {t}
  BY <1>1, <1>2
<1>5. (CHOOSE s \in steps : TRUE) = t
  BY <1>4
<1>6. consume(p, c) = IF steps = {} THEN [p EXCEPT !.status = "invalid"]
                      ELSE [p EXCEPT !.state = (CHOOSE s \in steps : TRUE)[3]]
  BY <1>3 DEF consume
<1> QED
  BY <1>4, <1>5, <1>6

LEMMA FirstSteps ==
  ASSUME NEW r \in Requests, NEW k \in 1..14
  PROVE  Step(ParserAt(r, k - 1), FirstCharacters(r)[k]) = FirstParsers(r)[k]
<1>1. CASE k = 1
  <2>1. ParserAt(r, 0) = Start("method_start") /\ FirstCharacters(r)[1] = Letters("GET")
    BY DEF ParserAt, NewParser, Start, Parser, FirstCharacters
  <2>2. Step(Start("method_start"), Letters("GET")) = Start("method")
    BY DEF Step, consume, Start, Parser, Letters, Ordinary, CTL, Special
  <2> QED
    BY <1>1, <2>1, <2>2 DEF FirstParsers
<1>2. CASE k = 2
  <2>1. ParserAt(r, 1) = Start("method") /\ FirstCharacters(r)[2] = Mark("space")
    BY DEF ParserAt, FirstParsers, FirstCharacters
  <2>2. Step(Start("method"), Mark("space")) = Start("uri")
    BY DEF Step, consume, Start, Parser, Mark
  <2> QED
    BY <1>2, <2>1, <2>2 DEF FirstParsers
<1>3. CASE k = 3
  <2>1. ParserAt(r, 2) = Start("uri") /\ FirstCharacters(r)[3] = Letters(r)
    BY DEF ParserAt, FirstParsers, FirstCharacters
  <2>2. Step(Start("uri"), Letters(r)) = Line(r, "uri")
    BY DEF Step, consume, Start, Line, Parser, Letters, CTL
  <2> QED
    BY <1>3, <2>1, <2>2 DEF FirstParsers
<1>4. CASE k = 4
  <2>1. ParserAt(r, 3) = Line(r, "uri") /\ FirstCharacters(r)[4] = Mark("space")
    BY DEF ParserAt, FirstParsers, FirstCharacters
  <2>2. Step(Line(r, "uri"), Mark("space")) = Line(r, "http_version_h")
    BY DEF Step, consume, Line, Parser, Mark
  <2> QED
    BY <1>4, <2>1, <2>2 DEF FirstParsers
<1>5. ASSUME NEW t \in VersionSteps PROVE Step(Line(r, t[1]), Mark(t[2])) = Line(r, t[3])
  <2> PICK s : s = t[3]
    OBVIOUS
  <2>1. Line(r, t[1]).state = t[1] /\ Line(r, t[1]).status = "indeterminate"
    BY DEF Line, Parser
  <2>2. consume(Line(r, t[1]), Mark(t[2])) = [Line(r, t[1]) EXCEPT !.state = s]
    BY <2>1, VersionStep
  <2>3. [Line(r, t[1]) EXCEPT !.state = s] = Line(r, s)
    BY DEF Line, Parser
  <2> QED
    BY <2>1, <2>2, <2>3 DEF Step
<1>6. ASSUME NEW s, NEW c, NEW next, <<s, c, next>> \in VersionSteps,
             ParserAt(r, k - 1) = Line(r, s), FirstCharacters(r)[k] = Mark(c), FirstParsers(r)[k] = Line(r, next)
      PROVE  Step(ParserAt(r, k - 1), FirstCharacters(r)[k]) = FirstParsers(r)[k]
  <2>1. Step(Line(r, <<s, c, next>>[1]), Mark(<<s, c, next>>[2])) = Line(r, <<s, c, next>>[3])
    BY <1>5, <1>6
  <2> QED
    BY <1>6, <2>1
<1>7. CASE k = 5
  <2>1. <<"http_version_h", "H", "http_version_t_1">> \in VersionSteps
    BY DEF VersionSteps
  <2>2. /\ ParserAt(r, k - 1) = Line(r, "http_version_h") /\ FirstCharacters(r)[k] = Mark("H")
        /\ FirstParsers(r)[k] = Line(r, "http_version_t_1")
    BY <1>7 DEF ParserAt, FirstParsers, FirstCharacters
  <2> QED
    BY <1>6, <2>1, <2>2, Zenon
<1>8. CASE k = 6
  <2>1. <<"http_version_t_1", "T", "http_version_t_2">> \in VersionSteps
    BY DEF VersionSteps
  <2>2. /\ ParserAt(r, k - 1) = Line(r, "http_version_t_1") /\ FirstCharacters(r)[k] = Mark("T")
        /\ FirstParsers(r)[k] = Line(r, "http_version_t_2")
    BY <1>8 DEF ParserAt, FirstParsers, FirstCharacters
  <2> QED
    BY <1>6, <2>1, <2>2, Zenon
<1>9. CASE k = 7
  <2>1. <<"http_version_t_2", "T", "http_version_p">> \in VersionSteps
    BY DEF VersionSteps
  <2>2. /\ ParserAt(r, k - 1) = Line(r, "http_version_t_2") /\ FirstCharacters(r)[k] = Mark("T")
        /\ FirstParsers(r)[k] = Line(r, "http_version_p")
    BY <1>9 DEF ParserAt, FirstParsers, FirstCharacters
  <2> QED
    BY <1>6, <2>1, <2>2, Zenon
<1>10. CASE k = 8
  <2>1. <<"http_version_p", "P", "http_version_slash">> \in VersionSteps
    BY DEF VersionSteps
  <2>2. /\ ParserAt(r, k - 1) = Line(r, "http_version_p") /\ FirstCharacters(r)[k] = Mark("P")
        /\ FirstParsers(r)[k] = Line(r, "http_version_slash")
    BY <1>10 DEF ParserAt, FirstParsers, FirstCharacters
  <2> QED
    BY <1>6, <2>1, <2>2, Zenon
<1>11. CASE k = 9
  <2>1. <<"http_version_slash", "slash", "http_version_major_start">> \in VersionSteps
    BY DEF VersionSteps
  <2>2. /\ ParserAt(r, k - 1) = Line(r, "http_version_slash") /\ FirstCharacters(r)[k] = Mark("slash")
        /\ FirstParsers(r)[k] = Line(r, "http_version_major_start")
    BY <1>11 DEF ParserAt, FirstParsers, FirstCharacters
  <2> QED
    BY <1>6, <2>1, <2>2, Zenon
<1>12. CASE k = 10
  <2>1. <<"http_version_major_start", "digit", "http_version_major">> \in VersionSteps
    BY DEF VersionSteps
  <2>2. /\ ParserAt(r, k - 1) = Line(r, "http_version_major_start") /\ FirstCharacters(r)[k] = Mark("digit")
        /\ FirstParsers(r)[k] = Line(r, "http_version_major")
    BY <1>12 DEF ParserAt, FirstParsers, FirstCharacters
  <2> QED
    BY <1>6, <2>1, <2>2, Zenon
<1>13. CASE k = 11
  <2>1. <<"http_version_major", "dot", "http_version_minor_start">> \in VersionSteps
    BY DEF VersionSteps
  <2>2. /\ ParserAt(r, k - 1) = Line(r, "http_version_major") /\ FirstCharacters(r)[k] = Mark("dot")
        /\ FirstParsers(r)[k] = Line(r, "http_version_minor_start")
    BY <1>13 DEF ParserAt, FirstParsers, FirstCharacters
  <2> QED
    BY <1>6, <2>1, <2>2, Zenon
<1>14. CASE k = 12
  <2>1. <<"http_version_minor_start", "digit", "http_version_minor">> \in VersionSteps
    BY DEF VersionSteps
  <2>2. /\ ParserAt(r, k - 1) = Line(r, "http_version_minor_start") /\ FirstCharacters(r)[k] = Mark("digit")
        /\ FirstParsers(r)[k] = Line(r, "http_version_minor")
    BY <1>14 DEF ParserAt, FirstParsers, FirstCharacters
  <2> QED
    BY <1>6, <2>1, <2>2, Zenon
<1>15. CASE k = 13
  <2>1. <<"http_version_minor", "CR", "expecting_newline_1">> \in VersionSteps
    BY DEF VersionSteps
  <2>2. /\ ParserAt(r, k - 1) = Line(r, "http_version_minor") /\ FirstCharacters(r)[k] = Mark("CR")
        /\ FirstParsers(r)[k] = Line(r, "expecting_newline_1")
    BY <1>15 DEF ParserAt, FirstParsers, FirstCharacters
  <2> QED
    BY <1>6, <2>1, <2>2, Zenon
<1>16. CASE k = 14
  <2>1. <<"expecting_newline_1", "LF", "header_line_start">> \in VersionSteps
    BY DEF VersionSteps
  <2>2. /\ ParserAt(r, k - 1) = Line(r, "expecting_newline_1") /\ FirstCharacters(r)[k] = Mark("LF")
        /\ FirstParsers(r)[k] = Line(r, "header_line_start")
    BY <1>16 DEF ParserAt, FirstParsers, FirstCharacters
  <2> QED
    BY <1>6, <2>1, <2>2, Zenon
<1> QED
  BY <1>1, <1>2, <1>3, <1>4, <1>7, <1>8, <1>9, <1>10, <1>11, <1>12, <1>13, <1>14, <1>15, <1>16

LEMMA LastSteps ==
  ASSUME NEW r \in Requests, NEW k \in 15..Size(r)
  PROVE  Step(ParserAt(r, k - 1), LastCharacters(r)[k - 14]) = LastParsers(r)[k - 14]
<1>0. ParserAt(r, 14) = Line(r, "header_line_start")
  BY DEF ParserAt, FirstParsers
<1>1. CASE ~Closing(r)
  <2>1. CASE k = 15
    <3>1. Step(Line(r, "header_line_start"), Mark("CR")) = Line(r, "expecting_newline_3")
      BY DEF Step, consume, Line, Parser, Mark
    <3> QED
      BY <1>0, <1>1, <2>1, <3>1 DEF LastCharacters, LastParsers
  <2>2. CASE k = 16
    <3>1. ParserAt(r, 15) = Line(r, "expecting_newline_3")
      BY <1>1 DEF ParserAt, LastParsers
    <3>2. Step(Line(r, "expecting_newline_3"), Mark("LF"))
            = Parser("expecting_newline_3", <<>>, <<>>, <<r>>, <<>>, "valid")
      BY DEF Step, consume, Line, Parser, Mark
    <3> QED
      BY <1>1, <2>2, <3>1, <3>2 DEF LastCharacters, LastParsers
  <2> QED
    BY <1>1, <2>1, <2>2 DEF Size
<1>2. CASE Closing(r)
  <2>1. CASE k = 15
    <3>1. ParserAt(r, k - 1) = Line(r, "header_line_start")
      BY <1>0, <1>2, <2>1 DEF ParserAt, LastParsers
    <3>2. Step(Line(r, "header_line_start"),
               Letters("Connection"))
            = Header(r, "header_name", <<>>)
      BY DEF Step, consume, Line, Header, Parser, Letters, Ordinary, CTL, Special
    <3> QED
      BY <1>2, <2>1, <3>1, <3>2 DEF LastCharacters, LastParsers
  <2>2. CASE k = 16
    <3>1. ParserAt(r, k - 1) = Header(r, "header_name", <<>>)
      BY <1>0, <1>2, <2>2 DEF ParserAt, LastParsers
    <3>2. Step(Header(r, "header_name", <<>>),
               Mark("colon"))
            = Header(r, "header_value", <<>>)
      BY DEF Step, consume, Header, Parser, Mark
    <3> QED
      BY <1>2, <2>2, <3>1, <3>2 DEF LastCharacters, LastParsers
  <2>3. CASE k = 17
    <3>1. ParserAt(r, k - 1) = Header(r, "header_value", <<>>)
      BY <1>0, <1>2, <2>3 DEF ParserAt, LastParsers
    <3>2. Step(Header(r, "header_value", <<>>),
               Mark("space"))
            = Header(r, "header_value", <<>>)
      BY DEF Step, consume, Header, Parser, Mark
    <3> QED
      BY <1>2, <2>3, <3>1, <3>2 DEF LastCharacters, LastParsers
  <2>4. CASE k = 18
    <3>1. ParserAt(r, k - 1) = Header(r, "header_value", <<>>)
      BY <1>0, <1>2, <2>4 DEF ParserAt, LastParsers
    <3>2. Step(Header(r, "header_value", <<>>),
               Letters("close"))
            = Header(r, "header_value", <<"close">>)
      BY DEF Step, consume, Header, Parser, Letters, CTL
    <3> QED
      BY <1>2, <2>4, <3>1, <3>2 DEF LastCharacters, LastParsers
  <2>5. CASE k = 19
    <3>1. ParserAt(r, k - 1) = Header(r, "header_value", <<"close">>)
      BY <1>0, <1>2, <2>5 DEF ParserAt, LastParsers
    <3>2. Step(Header(r, "header_value", <<"close">>),
               Mark("CR"))
            = Header(r, "expecting_newline_2", <<"close">>)
      BY DEF Step, consume, Header, Parser, Mark
    <3> QED
      BY <1>2, <2>5, <3>1, <3>2 DEF LastCharacters, LastParsers
  <2>6. CASE k = 20
    <3>1. ParserAt(r, k - 1) = Header(r, "expecting_newline_2", <<"close">>)
      BY <1>0, <1>2, <2>6 DEF ParserAt, LastParsers
    <3> DEFINE t == <<"expecting_newline_2", "LF", "header_line_start">>
               p == Header(r, "expecting_newline_2", <<"close">>)
    <3>3. t \in VersionSteps
      BY DEF VersionSteps
    <3>4. p.state = t[1] /\ p.status = "indeterminate"
      BY DEF Header, Parser
    <3>5. [p EXCEPT !.state = "header_line_start"] = Header(r, "header_line_start", <<"close">>)
      BY DEF Header, Parser
    <3>6. consume(p, Mark(t[2])) = [p EXCEPT !.state = t[3]]
      <4> HIDE DEF p, t
      <4> QED
        BY <3>3, <3>4, VersionStep
    <3>2. Step(p, Mark("LF")) = Header(r, "header_line_start", <<"close">>)
      <4> HIDE DEF p
      <4> QED
        BY <3>4, <3>5, <3>6 DEF Step
    <3> QED
      BY <1>2, <2>6, <3>1, <3>2 DEF LastCharacters, LastParsers
  <2>7. CASE k = 21
    <3>1. ParserAt(r, k - 1) = Header(r, "header_line_start", <<"close">>)
      BY <1>0, <1>2, <2>7 DEF ParserAt, LastParsers
    <3>2. Step(Header(r, "header_line_start", <<"close">>),
               Mark("CR"))
            = Parser("expecting_newline_3", <<"Connection">>, <<"close">>, <<r>>, <<"close">>, "indeterminate")
      BY DEF Step, consume, Header, Parser, Mark
    <3> QED
      BY <1>2, <2>7, <3>1, <3>2 DEF LastCharacters, LastParsers
  <2>8. CASE k = 22
    <3>1. ParserAt(r, k - 1) = Parser("expecting_newline_3", <<"Connection">>, <<"close">>, <<r>>, <<"close">>, "indeterminate")
      BY <1>0, <1>2, <2>8 DEF ParserAt, LastParsers
    <3>2. Step(Parser("expecting_newline_3", <<"Connection">>, <<"close">>, <<r>>, <<"close">>, "indeterminate"),
               Mark("LF"))
            = Parser("expecting_newline_3", <<"Connection">>, <<"close">>, <<r>>, <<"close">>, "valid")
      BY DEF Step, consume, Parser, Mark
    <3> QED
      BY <1>2, <2>8, <3>1, <3>2 DEF LastCharacters, LastParsers
  <2> QED
    BY <1>2, <2>1, <2>2, <2>3, <2>4, <2>5, <2>6, <2>7, <2>8 DEF Size
<1> QED
  BY <1>1, <1>2

LEMMA Steps ==
  ASSUME NEW r \in Requests, NEW k \in 1..Size(r)
  PROVE  Step(ParserAt(r, k - 1), Sent(r)[k]) = ParserAt(r, k)
<1>1. Size(r) \in {16, 22}
  BY DEF Size
<1>2. CASE k <= 14
  BY <1>1, <1>2, FirstSteps DEF Sent, ParserAt
<1>3. CASE k > 14
  <2>1. Sent(r)[k] = LastCharacters(r)[k - 14] /\ ParserAt(r, k) = LastParsers(r)[k - 14]
    BY <1>1, <1>3 DEF Sent, ParserAt
  <2> QED
    BY <1>1, <1>3, <2>1, LastSteps
<1> QED
  BY <1>1, <1>2, <1>3

(* The parser has made out a request exactly at its end. *)
LEMMA Statuses ==
  ASSUME NEW r \in Requests, NEW k \in 0..Size(r)
  PROVE  /\ ParserAt(r, k).status = IF k = Size(r) THEN "valid" ELSE "indeterminate"
         /\ k = Size(r) => ParserAt(r, k).uri = <<r>>
<1>1. Size(r) \in {16, 22}
  BY DEF Size
<1>2. CASE k = 0
  BY <1>1, <1>2 DEF ParserAt, NewParser
<1>3. CASE k \in 1..14
  <2>1. ParserAt(r, k) = FirstParsers(r)[k]
    BY <1>3 DEF ParserAt
  <2>2. k = 1 \/ k = 2 \/ k = 3 \/ k = 4 \/ k = 5 \/ k = 6 \/ k = 7 \/ k = 8 \/ k = 9 \/ k = 10 \/ k = 11
        \/ k = 12 \/ k = 13 \/ k = 14
    BY <1>3
  <2>3. \A s : Start(s).status = "indeterminate" /\ Line(r, s).status = "indeterminate"
    BY DEF Start, Line, Parser
  <2>4. FirstParsers(r)[k].status = "indeterminate"
    BY <2>2, <2>3 DEF FirstParsers
  <2> QED
    BY <1>1, <1>3, <2>1, <2>4
<1>4. CASE k > 14
  <2>1. ParserAt(r, k) = LastParsers(r)[k - 14]
    BY <1>1, <1>4 DEF ParserAt
  <2>2. \A s, v : Header(r, s, v).status = "indeterminate" /\ Line(r, s).status = "indeterminate"
    BY DEF Header, Line, Parser
  <2>3. \A s, n, v, u, c, status : /\ Parser(s, n, v, u, c, status).status = status
                                   /\ Parser(s, n, v, u, c, status).uri = u
    BY DEF Parser
  <2>4. CASE Closing(r)
    <3>1. k = 15 \/ k = 16 \/ k = 17 \/ k = 18 \/ k = 19 \/ k = 20 \/ k = 21 \/ k = 22
      BY <1>4, <2>4 DEF Size
    <3> QED
      BY <2>1, <2>2, <2>3, <2>4, <3>1 DEF LastParsers, Size
  <2>5. CASE ~Closing(r)
    <3>1. k = 15 \/ k = 16
      BY <1>4, <2>5 DEF Size
    <3> QED
      BY <2>1, <2>2, <2>3, <2>5, <3>1 DEF LastParsers, Size
  <2> QED
    BY <2>4, <2>5
<1> QED
  BY <1>1, <1>2, <1>3, <1>4

(* The parser over the characters of a read: its loop as a function. *)
Passes(f, p, bytes) ==
  f = [i \in 0..Len(bytes) |->
         IF i = 0 THEN p ELSE CHOOSE next \in {Step(s, bytes[i]) : s \in {f[i - 1]}} : TRUE]

LEMMA ParseIs ==
  ASSUME NEW p, NEW bytes, NEW g, Len(bytes) \in Nat, Passes(g, p, bytes)
  PROVE  parse(p, bytes) = g[Len(bytes)]
<1> DEFINE n == Len(bytes)
           f == CHOOSE x : Passes(x, p, bytes)
<1>1. parse(p, bytes) = f[n]
  BY DEF parse, IterateOver, Iterate, Step, Passes
<1>2. Passes(f, p, bytes)
  OBVIOUS
<1> HIDE DEF f
<1>3. \A i \in 0..n : f[i] = IF i = 0 THEN p ELSE Step(f[i - 1], bytes[i])
  BY <1>2 DEF Passes
<1>4. \A i \in 0..n : g[i] = IF i = 0 THEN p ELSE Step(g[i - 1], bytes[i])
  BY DEF Passes
<1>5. \A i \in 0..n : f[i] = g[i]
  <2> DEFINE Bad == {i \in 0..n : f[i] # g[i]}
  <2> SUFFICES ASSUME Bad # {} PROVE FALSE
    OBVIOUS
  <2>1. PICK i \in Bad : \A j \in Bad : ~(<<j, i>> \in OpToRel(<, Nat))
    <3>1. Bad \subseteq Nat
      OBVIOUS
    <3> HIDE DEF Bad
    <3> QED
      BY <3>1, NatLessThanWellFounded, WFMin
  <2>0. i \in 0..n /\ f[i] # g[i]
    OBVIOUS
  <2>2. i # 0
    BY <1>3, <1>4, <2>0
  <2>3. i - 1 \in 0..n /\ i - 1 \notin Bad
    <3>1. <<i - 1, i>> \in OpToRel(<, Nat)
      BY <2>1, <2>2 DEF OpToRel
    <3>2. i - 1 \in 0..n
      BY <2>0, <2>2
    <3>3. i - 1 \notin Bad
      <4> HIDE DEF Bad
      <4> QED
        BY <2>1, <3>1, Zenon
    <3> QED
      BY <3>2, <3>3
  <2>4. f[i - 1] = g[i - 1]
    BY <2>3
  <2>5. f[i] = Step(f[i - 1], bytes[i]) /\ g[i] = Step(g[i - 1], bytes[i])
    BY <1>3, <1>4, <2>0, <2>2
  <2> QED
    BY <2>0, <2>4, <2>5
<1> QED
  BY <1>1, <1>5

(* A read that goes on in a request takes the parser on in it. *)
LEMMA ParsesOn ==
  ASSUME NEW r \in Requests, NEW k \in 0..Size(r), NEW m \in k..Size(r), NEW bytes,
         Len(bytes) = m - k, \A i \in 1..m - k : bytes[i] = Sent(r)[k + i]
  PROVE  parse(ParserAt(r, k), bytes) = ParserAt(r, m)
<1>1. Size(r) \in Nat
  BY DEF Size
<1> DEFINE g == [i \in 0..m - k |-> ParserAt(r, k + i)]
<1>2. \A i \in 1..m - k : ParserAt(r, k + i) = Step(g[i - 1], bytes[i])
  <2> SUFFICES ASSUME NEW i \in 1..m - k PROVE ParserAt(r, k + i) = Step(g[i - 1], bytes[i])
    OBVIOUS
  <2>1. k + i \in 1..Size(r) /\ (k + i) - 1 = k + (i - 1) /\ i - 1 \in 0..m - k
    BY <1>1
  <2>2. g[i - 1] = ParserAt(r, (k + i) - 1)
    BY <2>1
  <2>3. Step(ParserAt(r, (k + i) - 1), Sent(r)[k + i]) = ParserAt(r, k + i)
    BY <2>1, Steps
  <2> QED
    BY <2>2, <2>3
<1>3. Passes(g, ParserAt(r, k), bytes)
  <2>1. \A i \in 0..m - k :
          g[i] = IF i = 0 THEN ParserAt(r, k) ELSE CHOOSE next \in {Step(s, bytes[i]) : s \in {g[i - 1]}} : TRUE
    <3> SUFFICES ASSUME NEW i \in 0..m - k
                 PROVE  g[i] = IF i = 0 THEN ParserAt(r, k)
                               ELSE CHOOSE next \in {Step(s, bytes[i]) : s \in {g[i - 1]}} : TRUE
      OBVIOUS
    <3>1. g[i] = ParserAt(r, k + i)
      OBVIOUS
    <3>2. CASE i = 0
      BY <3>1, <3>2
    <3>3. CASE i # 0
      <4>1. i \in 1..m - k
        BY <1>1, <3>3
      <4>2. g[i] = Step(g[i - 1], bytes[i])
        BY <1>2, <3>1, <4>1
      <4> HIDE DEF g
      <4>3. \A x, c : (CHOOSE next \in {Step(s, c) : s \in {x}} : TRUE) = Step(x, c)
        OBVIOUS
      <4> QED
        BY <3>3, <4>2, <4>3
    <3> QED
      BY <3>2, <3>3
  <2>2. g = [i \in 0..m - k |-> g[i]]
    OBVIOUS
  <2> HIDE DEF g
  <2> QED
    BY <2>1, <2>2 DEF Passes
<1>4. parse(ParserAt(r, k), bytes) = g[Len(bytes)]
  <2>1. Len(bytes) \in Nat
    BY <1>1
  <2> HIDE DEF g
  <2> QED
    BY <1>3, <2>1, ParseIs
<1> QED
  BY <1>1, <1>4

LEMMA ParsesNothing ==
  ASSUME NEW p
  PROVE  parse(p, <<>>) = p
<1> DEFINE g == [i \in 0..0 |-> p]
<1>1. Passes(g, p, <<>>)
  BY DEF Passes
<1> HIDE DEF g
<1>2. Len(<<>>) = 0
  OBVIOUS
<1>3. parse(p, <<>>) = g[0]
  BY <1>1, <1>2, ParseIs
<1> QED
  BY <1>3 DEF g

(***************************************************************************)
(* The invariant. As long as the client stays and has sent nothing         *)
(* malformed, the characters of the request it waits for are in the        *)
(* parser, in the buffer and on the wire, in this order; or the request is *)
(* being handled; or its reply is being written; or the connection is done.*)
(***************************************************************************)

(* The parser has the first k characters, the wire has those after the m-th. *)
Passed(k) ==
  /\ k \in 0..Len(Text(client.asked))
  /\ conn.parser = IF client.asked = <<>> THEN NewParser ELSE ParserAt(client.asked, k)
Unread(m) == wire = SubSeq(Text(client.asked), m + 1, Len(Text(client.asked)))

Reading ==
  /\ conn.read # "none" /\ conn.write = "none" /\ ~conn.handling
  /\ conn.read = "pending" => \E k \in Nat : Passed(k) /\ Unread(k)
  /\ conn.read = "done" =>
       \E k \in Nat : Passed(k) /\ \E m \in k..Len(Text(client.asked)) :
         conn.bytes = SubSeq(Text(client.asked), k + 1, m) /\ Unread(m)

Handling ==
  /\ conn.read = "none" /\ conn.write = "none" /\ conn.handling
  /\ wire = <<>> /\ client.asked # <<>> /\ job.asked = client.asked

Writing ==
  /\ conn.read = "none" /\ ~conn.handling
  /\ conn.write = "pending" => wire = <<>> /\ client.asked # <<>> /\ conn.reply.to = client.asked
  /\ conn.write = "done" => wire = Text(client.asked)

(* The records keep their fields. *)
ConnFields == {"accepted", "read", "bytes", "write", "timer", "due", "shut", "handling", "keep_alive",
               "processed_requests", "parser", "reply"}
IsConn(c) == c = [f \in ConnFields |-> c[f]]
ConnShape == IsConn(conn)
JobShape == job = [f \in {"asked", "request", "found", "stage", "reply"} |-> job[f]]
ClientShape == client \in [open : BOOLEAN, asked : Requests \cup {<<>>}, spoiled : BOOLEAN]
Shape == ConnShape /\ JobShape /\ ClientShape

Faithful == client.open /\ ~client.spoiled
ServingInv == Shape /\ (Faithful => Reading \/ Handling \/ Writing)

-----------------------------------------------------------------------------
(* Texts and the parts of them.                                             *)

LEMMA Texts ==
  ASSUME NEW asked \in Requests \cup {<<>>}
  PROVE  /\ Len(Text(asked)) \in Nat
         /\ asked = <<>> => Text(asked) = <<>> /\ Len(Text(asked)) = 0
         /\ asked # <<>> => Text(asked) = Sent(asked) /\ Len(Text(asked)) = Size(asked)
         /\ \E S : Text(asked) \in Seq(S)
<1>1. CASE asked = <<>>
  BY <1>1 DEF Text
<1>2. CASE asked # <<>>
  <2>1. asked \in Requests
    BY <1>2
  <2>2. Text(asked) = Sent(asked) /\ Sent(asked) \in Seq(Anything(asked)) /\ Len(Sent(asked)) = Size(asked)
    BY <1>2, <2>1, SentIs DEF Text
  <2> QED
    BY <1>2, <2>2 DEF Size
<1> QED
  BY <1>1, <1>2

(* part is what t has after its k-th element, up to the m-th. *)
IsPart(S, part, t, k, m) ==
  /\ part \in Seq(S) /\ Len(part) = m - k
  /\ \A i \in 1..m - k : part[i] = t[k + i]

LEMMA Parts ==
  ASSUME NEW S, NEW t \in Seq(S), NEW k \in 0..Len(t), NEW m \in k..Len(t)
  PROVE  IsPart(S, SubSeq(t, k + 1, m), t, k, m)
<1>1. \A i \in k + 1..m : t[i] \in S
  BY ElementOfSeq
<1> PICK l : l = k + 1
  OBVIOUS
<1>2. /\ SubSeq(t, l, m) \in Seq(S) /\ Len(SubSeq(t, l, m)) = IF l <= m THEN m - l + 1 ELSE 0
      /\ \A i \in 1..m - l + 1 : SubSeq(t, l, m)[i] = t[l + i - 1]
  <2>1. l \in Int /\ m \in Int /\ \A i \in l..m : t[i] \in S
    BY <1>1
  <2> QED
    BY <2>1, SubSeqProperties
<1>3. m - l + 1 = m - k /\ \A i \in 1..m - k : l + i - 1 = k + i
  OBVIOUS
<1> QED
  BY <1>2, <1>3 DEF IsPart

(* A read of j characters of those from the k-th on, and what it leaves. *)
Rest(t, k) == SubSeq(t, k + 1, Len(t))
TakenOff(t, k, j) ==
  /\ k + j \in k..Len(t)
  /\ SubSeq(Rest(t, k), 1, j) = SubSeq(t, k + 1, k + j)
  /\ Rest(Rest(t, k), j) = Rest(t, k + j)

LEMMA Reads ==
  ASSUME NEW S, NEW t \in Seq(S), NEW k \in 0..Len(t), NEW j \in 1..Len(Rest(t, k))
  PROVE  TakenOff(t, k, j)
<1> DEFINE w == SubSeq(t, k + 1, Len(t))
           read == SubSeq(w, 1, j)
           same == SubSeq(t, k + 1, k + j)
           left == SubSeq(w, j + 1, Len(w))
           rest == SubSeq(t, (k + j) + 1, Len(t))
<1>1. Len(t) \in k..Len(t)
  OBVIOUS
<1>2. IsPart(S, w, t, k, Len(t))
  BY <1>1, Parts, Zenon
<1>3. j \in 1..Len(w)
  BY DEF Rest
<1> HIDE DEF w
<1>4. w \in Seq(S) /\ Len(w) = Len(t) - k /\ \A i \in 1..Len(t) - k : w[i] = t[k + i]
  BY <1>2 DEF IsPart
<1>5. /\ k + j \in k..Len(t) /\ k + j \in 0..Len(t) /\ j \in 0..Len(w)
      /\ 0 \in 0..Len(w) /\ j \in 0..Len(w) /\ Len(w) \in j..Len(w) /\ Len(t) \in k + j..Len(t)
  BY <1>3, <1>4
<1>6. read = same
  <2>1. IsPart(S, SubSeq(w, 0 + 1, j), w, 0, j)
    BY <1>4, <1>5, Parts, Zenon
  <2>2. IsPart(S, same, t, k, k + j)
    BY <1>5, Parts, Zenon
  <2>3. SubSeq(w, 0 + 1, j) = read
    OBVIOUS
  <2> HIDE DEF read, same
  <2>4. read \in Seq(S) /\ Len(read) = j /\ \A i \in 1..j : read[i] = w[i]
    BY <2>1, <2>3 DEF IsPart
  <2>5. same \in Seq(S) /\ Len(same) = j /\ \A i \in 1..j : same[i] = t[k + i]
    BY <2>2 DEF IsPart
  <2>6. \A i \in 1..j : w[i] = t[k + i]
    BY <1>3, <1>4
  <2> QED
    BY <2>4, <2>5, <2>6, SeqEqual
<1>7. left = rest
  <2>1. IsPart(S, left, w, j, Len(w))
    BY <1>4, <1>5, Parts, Zenon
  <2>2. IsPart(S, rest, t, k + j, Len(t))
    BY <1>5, Parts, Zenon
  <2> HIDE DEF left, rest
  <2> PICK n : n = Len(w) - j
    OBVIOUS
  <2>3. n = Len(t) - (k + j)
    BY <1>4
  <2>4. left \in Seq(S) /\ Len(left) = n /\ \A i \in 1..n : left[i] = w[j + i]
    BY <2>1 DEF IsPart
  <2>5. rest \in Seq(S) /\ Len(rest) = n /\ \A i \in 1..n : rest[i] = t[(k + j) + i]
    BY <2>2, <2>3 DEF IsPart
  <2>6. \A i \in 1..n : w[j + i] = t[(k + j) + i]
    BY <1>4, <1>5, <2>3
  <2> QED
    BY <2>4, <2>5, <2>6, SeqEqual
<1> QED
  BY <1>5, <1>6, <1>7 DEF TakenOff, Rest, w

LEMMA Whole ==
  ASSUME NEW S, NEW t \in Seq(S)
  PROVE  SubSeq(t, 1, Len(t)) = t
<1>1. Len(t) \in Nat
  OBVIOUS
<1>2. IsPart(S, SubSeq(t, 0 + 1, Len(t)), t, 0, Len(t))
  BY <1>1, Parts
<1> PICK a : a = SubSeq(t, 1, Len(t))
  OBVIOUS
<1>3. a \in Seq(S) /\ Len(a) = Len(t) /\ \A i \in 1..Len(a) : a[i] = t[i]
  BY <1>1, <1>2 DEF IsPart
<1>4. a = t
  BY <1>3, SeqEqual
<1> QED
  BY <1>4

(* A request is made out from any two reads of it: its URI, and whether the  *)
(* connection is to be closed. About RequestParser::parse and consume.       *)
THEOREM RequestsAreMadeOut ==
  ASSUME NEW r \in Requests, NEW k \in 0..Len(Characters(r, FALSE))
  PROVE  LET sent == Characters(r, FALSE)
             p == parse(parse(NewParser, SubSeq(sent, 1, k)), SubSeq(sent, k + 1, Len(sent)))
         IN p.status = "valid" /\ p.uri = <<r>> /\ (p.connection = <<"close">> <=> r.connection = "close")
<1> DEFINE sent == Characters(r, FALSE)
           first == SubSeq(sent, 0 + 1, k)
           rest == SubSeq(sent, k + 1, Len(sent))
<1>1. sent = Sent(r) /\ sent \in Seq(Anything(r)) /\ Len(sent) = Size(r) /\ Size(r) \in Nat
  BY SentIs DEF Size
<1>0. k \in 0..Len(sent)
  OBVIOUS
<1> HIDE DEF sent
<1>2. /\ k \in 0..Size(r) /\ 0 \in 0..Size(r) /\ Size(r) \in k..Size(r)
      /\ k \in 0..Len(sent) /\ 0 \in 0..Len(sent) /\ Len(sent) \in k..Len(sent)
  BY <1>0, <1>1
<1>3. IsPart(Anything(r), first, sent, 0, k)
  BY <1>1, <1>2, Parts, Zenon
<1>4. IsPart(Anything(r), rest, sent, k, Len(sent))
  BY <1>1, <1>2, Parts, Zenon
<1>5. first = SubSeq(sent, 1, k)
  OBVIOUS
<1> HIDE DEF first, rest
<1>6. parse(NewParser, first) = ParserAt(r, k)
  <2>1. Len(first) = k - 0 /\ \A i \in 1..k - 0 : first[i] = Sent(r)[0 + i]
    BY <1>1, <1>3 DEF IsPart
  <2>2. parse(ParserAt(r, 0), first) = ParserAt(r, k)
    BY <1>2, <2>1, ParsesOn
  <2> QED
    BY <2>2 DEF ParserAt
<1>7. parse(ParserAt(r, k), rest) = ParserAt(r, Size(r))
  <2> PICK m : m = Size(r)
    OBVIOUS
  <2>1. Len(rest) = m - k /\ (\A i \in 1..m - k : rest[i] = Sent(r)[k + i]) /\ m \in k..Size(r)
    BY <1>1, <1>2, <1>4 DEF IsPart
  <2>2. parse(ParserAt(r, k), rest) = ParserAt(r, m)
    BY <1>2, <2>1, ParsesOn
  <2> QED
    BY <2>2
<1>8. ParserAt(r, Size(r)).status = "valid" /\ ParserAt(r, Size(r)).uri = <<r>>
  BY <1>1, <1>2, Statuses
<1>9. ParserAt(r, Size(r)).connection = IF Closing(r) THEN <<"close">> ELSE <<>>
  BY DEF ParserAt, LastParsers, Size, Parser
<1>10. parse(parse(NewParser, SubSeq(sent, 1, k)), rest) = ParserAt(r, Size(r))
  BY <1>5, <1>6, <1>7
<1> DEFINE p == parse(parse(NewParser, SubSeq(sent, 1, k)), SubSeq(sent, k + 1, Len(sent)))
<1>11. p = ParserAt(r, Size(r))
  BY <1>10 DEF rest
<1>12. p.connection = <<"close">> <=> r.connection = "close"
  <2> HIDE DEF p
  <2>1. <<>> # <<"close">>
    OBVIOUS
  <2> QED
    BY <1>9, <1>11, <2>1 DEF Closing
<1>13. p.status = "valid" /\ p.uri = <<r>> /\ (p.connection = <<"close">> <=> r.connection = "close")
  <2> HIDE DEF p
  <2> QED
    BY <1>8, <1>11, <1>12
<1> QED
  BY <1>13 DEF p, sent

-----------------------------------------------------------------------------
(* Each step keeps the invariant.                                           *)

LEMMA FieldsKept ==
  ASSUME NEW c, IsConn(c), NEW field \in ConnFields, NEW value, NEW d, d = [c EXCEPT ![field] = value]
  PROVE  IsConn(d) /\ d[field] = value /\ \A f \in ConnFields \ {field} : d[f] = c[f]
BY DEF IsConn

LEMMA NewConnectionIs ==
  /\ IsConn(NewConnection) /\ NewConnection.write = "none" /\ ~NewConnection.handling
  /\ NewConnection.read = "none" /\ NewConnection.parser = NewParser
BY DEF NewConnection, IsConn, ConnFields

(* What start, ForNextRequest and handle_shutdown make of c, as far as it matters. *)
Started(d, c) ==
  IsConn(d) /\ d.read = "pending" /\ d.write = c.write /\ d.handling = c.handling /\ d.parser = c.parser
Renewed(d, c) ==
  IsConn(d) /\ d.read = c.read /\ d.write = c.write /\ d.handling = c.handling /\ d.parser = NewParser
AsBefore(d, c) ==
  /\ IsConn(d) /\ d.read = c.read /\ d.write = c.write /\ d.handling = c.handling
  /\ d.parser = c.parser /\ d.reply = c.reply /\ d.bytes = c.bytes

LEMMA StartIs ==
  ASSUME NEW c, IsConn(c)
  PROVE  Started(start(c), c)
BY DEF Started, start, IsConn, ConnFields

LEMMA ShutdownIs ==
  ASSUME NEW c, IsConn(c)
  PROVE  AsBefore(handle_shutdown(c), c)
BY DEF AsBefore, handle_shutdown, IsConn, ConnFields

LEMMA WriteIs ==
  ASSUME NEW c, IsConn(c), NEW reply, NEW d, d = Write(c, reply)
  PROVE  IsConn(d) /\ d.read = c.read /\ d.write = "pending" /\ d.handling = c.handling /\ d.reply = reply
BY DEF Write, IsConn, ConnFields

LEMMA ForNextIs ==
  ASSUME NEW c, IsConn(c)
  PROVE  Renewed(ForNextRequest(c), c)
BY DEF Renewed, ForNextRequest, IsConn, ConnFields

(* The wire of a client that waits for nothing is empty while the connection reads. *)
LEMMA Resting ==
  ASSUME Reading, conn.read = "pending", client.asked = <<>>
  PROVE  wire = <<>> /\ conn.parser = NewParser
<1> PICK k \in Nat : Passed(k) /\ Unread(k)
  BY DEF Reading
<1>1. Text(client.asked) = <<>> /\ Len(Text(client.asked)) = 0
  BY DEF Text
<1>2. k = 0
  BY <1>1 DEF Passed
<1>3. wire = SubSeq(<<>>, 1, 0)
  BY <1>1, <1>2 DEF Unread
<1> QED
  BY <1>3 DEF Passed

(* A parser that awaits a request, and the whole of it on the wire. *)
LEMMA Awaiting ==
  ASSUME ClientShape, conn.read = "pending", conn.write = "none", ~conn.handling, conn.parser = NewParser,
         wire = Text(client.asked)
  PROVE  Reading
<1>1. client.asked \in Requests \cup {<<>>}
  BY DEF ClientShape
<1>2. Len(Text(client.asked)) \in Nat /\ \E S : Text(client.asked) \in Seq(S)
  BY <1>1, Texts
<1>3. SubSeq(Text(client.asked), 1, Len(Text(client.asked))) = Text(client.asked)
  BY <1>2, Whole
<1>4. Passed(0)
  BY <1>2 DEF Passed, ParserAt
<1>5. Unread(0)
  BY <1>3 DEF Unread
<1> QED
  BY <1>4, <1>5 DEF Reading

LEMMA AcceptKeeps ==
  ASSUME ServingInv, HandleAccept
  PROVE  ServingInv'
<1> PICK c : c = [NewConnection EXCEPT !.accepted = TRUE]
  OBVIOUS
<1>1. /\ IsConn(c) /\ c.write = "none" /\ ~c.handling /\ c.parser = NewParser
  BY NewConnectionIs, FieldsKept DEF ConnFields
<1>2. conn' = start(c) /\ wire' = <<>> /\ client' = [open |-> TRUE, asked |-> <<>>, spoiled |-> FALSE] /\ job' = job
  BY DEF HandleAccept
<1>3. /\ IsConn(conn') /\ conn'.read = "pending" /\ conn'.write = "none" /\ ~conn'.handling
      /\ conn'.parser = NewParser
  <2>1. Started(start(c), c)
    BY <1>1, StartIs, Zenon
  <2> QED
    BY <1>1, <1>2, <2>1 DEF Started
<1>4. Shape'
  BY <1>2, <1>3 DEF ServingInv, Shape, ConnShape, JobShape, ClientShape
<1>5. Text(client'.asked) = <<>> /\ Len(Text(client'.asked)) = 0 /\ client'.asked = <<>>
  BY <1>2 DEF Text
<1>6. Passed(0)'
  BY <1>3, <1>5 DEF Passed
<1>7. Unread(0)'
  BY <1>2, <1>5 DEF Unread
<1>8. Reading'
  BY <1>3, <1>6, <1>7 DEF Reading
<1> QED
  BY <1>4, <1>8 DEF ServingInv

(* A connection that neither reads, handles nor writes is done with its client. *)
LEMMA WriteKeeps ==
  ASSUME ServingInv, handle_write
  PROVE  ServingInv'
<1> PICK c : c = [conn EXCEPT !.write = "none"]
  OBVIOUS
<1>1. /\ IsConn(c) /\ c.write = "none" /\ c.read = conn.read /\ c.handling = conn.handling
  BY FieldsKept DEF ServingInv, Shape, ConnShape, ConnFields
<1>2. /\ conn.write \in {"done", "failed"} /\ ~conn.handling
      /\ client' = client /\ wire' = wire /\ job' = job
      /\ conn' = IF conn.write = "failed" THEN c
                 ELSE IF c.keep_alive /\ c.processed_requests > 0 THEN start(ForNextRequest(c))
                 ELSE handle_shutdown(c)
  BY DEF handle_write
<1> PICK next : next = ForNextRequest(c)
  OBVIOUS
<1>3. IsConn(next) /\ next.write = "none" /\ ~next.handling /\ next.parser = NewParser
  <2>1. Renewed(ForNextRequest(c), c)
    BY <1>1, ForNextIs, Zenon
  <2> QED
    BY <1>1, <1>2, <2>1 DEF Renewed
<1>4. /\ IsConn(start(next)) /\ start(next).read = "pending" /\ start(next).write = "none"
      /\ ~start(next).handling /\ start(next).parser = NewParser
  <2>1. Started(start(next), next)
    BY <1>3, StartIs, Zenon
  <2> QED
    BY <1>3, <2>1 DEF Started
<1>5. /\ IsConn(handle_shutdown(c)) /\ handle_shutdown(c).read = conn.read /\ handle_shutdown(c).write = "none"
      /\ ~handle_shutdown(c).handling
  <2>1. AsBefore(handle_shutdown(c), c)
    BY <1>1, ShutdownIs, Zenon
  <2> QED
    BY <1>1, <1>2, <2>1 DEF AsBefore
<1>6. IsConn(conn')
  BY <1>1, <1>2, <1>4, <1>5
<1>7. Shape'
  BY <1>2, <1>6 DEF ServingInv, Shape, ConnShape, JobShape, ClientShape
<1>8. ASSUME Faithful' PROVE Reading' \/ Writing'
  <2>1. Faithful
    BY <1>2, <1>8 DEF Faithful
  <2>2. Writing
    BY <1>2, <2>1 DEF ServingInv, Reading, Handling
  <2>3. CASE conn.write # "failed" /\ c.keep_alive /\ c.processed_requests > 0
    <3>1. conn' = start(next)
      BY <1>2, <2>3
    <3>2. wire' = Text(client'.asked)
      BY <1>2, <2>2, <2>3 DEF Writing
    <3>3. ClientShape'
      BY <1>7 DEF Shape
    <3>4. /\ conn'.read = "pending" /\ conn'.write = "none" /\ ~conn'.handling /\ conn'.parser = NewParser
      BY <1>4, <3>1
    <3>5. Reading'
      <4>1. /\ (conn.read = "pending")' /\ (conn.write = "none")' /\ (~conn.handling)'
            /\ (conn.parser = NewParser)' /\ (wire = Text(client.asked))'
        BY <3>2, <3>4
      <4>2. (ClientShape /\ conn.read = "pending" /\ conn.write = "none" /\ ~conn.handling
             /\ conn.parser = NewParser /\ wire = Text(client.asked) => Reading)'
        BY Awaiting, PTL
      <4> QED
        BY <3>3, <4>1, <4>2
    <3> QED
      BY <3>5
  <2>4. CASE ~(conn.write # "failed" /\ c.keep_alive /\ c.processed_requests > 0)
    <3>1. conn'.read = "none" /\ conn'.write = "none" /\ ~conn'.handling
      BY <1>1, <1>2, <1>5, <2>2, <2>4 DEF Writing
    <3> QED
      BY <3>1 DEF Writing
  <2> QED
    BY <2>3, <2>4
<1> QED
  BY <1>7, <1>8 DEF ServingInv

(* The records of the other fields are as they were. *)
LEMMA ErrorKeeps ==
  ASSUME ServingInv, HandleReadError
  PROVE  ServingInv'
<1> PICK c : c = [conn EXCEPT !.read = "none"]
  OBVIOUS
<1>1. /\ IsConn(c) /\ c.read = "none" /\ c.write = conn.write /\ c.handling = conn.handling
  BY FieldsKept DEF ServingInv, Shape, ConnShape, ConnFields
<1>2. /\ conn.read \in {"eof", "aborted"} /\ ~conn.handling
      /\ client' = client /\ wire' = wire /\ job' = job
      /\ conn' = IF conn.read = "eof" THEN handle_shutdown(c) ELSE c
  BY DEF HandleReadError
<1>3. /\ IsConn(handle_shutdown(c)) /\ handle_shutdown(c).read = "none"
      /\ handle_shutdown(c).write = conn.write /\ handle_shutdown(c).handling = conn.handling
  <2>1. AsBefore(handle_shutdown(c), c)
    BY <1>1, ShutdownIs, Zenon
  <2> QED
    BY <1>1, <2>1 DEF AsBefore
<1>4. IsConn(conn') /\ conn'.read = "none" /\ conn'.write = conn.write /\ conn'.handling = conn.handling
  BY <1>1, <1>2, <1>3
<1>5. Shape'
  BY <1>2, <1>4 DEF ServingInv, Shape, ConnShape, JobShape, ClientShape
<1>6. ASSUME Faithful' PROVE Writing'
  <2>1. Reading
    BY <1>2, <1>6 DEF ServingInv, Faithful, Handling, Writing
  <2> QED
    BY <1>2, <1>4, <2>1 DEF Reading, Writing
<1> QED
  BY <1>5, <1>6 DEF ServingInv

LEMMA TimeoutKeeps ==
  ASSUME ServingInv, handle_timeout
  PROVE  ServingInv'
<1> DEFINE c == [conn EXCEPT !.due = FALSE,
                             !.read = IF @ = "pending" THEN "aborted" ELSE @,
                             !.write = IF @ = "pending" THEN "failed" ELSE @]
<1>1. /\ IsConn(c) /\ c.handling = conn.handling /\ c.parser = conn.parser /\ c.bytes = conn.bytes
      /\ c.reply = conn.reply
      /\ c.read = (IF conn.read = "pending" THEN "aborted" ELSE conn.read)
      /\ c.write = (IF conn.write = "pending" THEN "failed" ELSE conn.write)
  BY DEF ServingInv, Shape, ConnShape, IsConn, ConnFields
<1>2. conn' = handle_shutdown(c) /\ ~conn.handling /\ client' = client /\ wire' = wire /\ job' = job
  BY DEF handle_timeout
<1> HIDE DEF c
<1>3. /\ IsConn(conn') /\ conn'.handling = conn.handling /\ conn'.parser = conn.parser
      /\ conn'.bytes = conn.bytes /\ conn'.reply = conn.reply
      /\ conn'.read = (IF conn.read = "pending" THEN "aborted" ELSE conn.read)
      /\ conn'.write = (IF conn.write = "pending" THEN "failed" ELSE conn.write)
  <2>1. AsBefore(handle_shutdown(c), c)
    BY <1>1, ShutdownIs, Zenon
  <2> QED
    BY <1>1, <1>2, <2>1 DEF AsBefore
<1>4. Shape'
  BY <1>2, <1>3 DEF ServingInv, Shape, ConnShape, JobShape, ClientShape
<1>5. ASSUME Faithful' PROVE Reading' \/ Writing'
  <2>1. Reading \/ Writing
    BY <1>2, <1>5 DEF ServingInv, Faithful, Handling
  <2>2. CASE Reading
    <3>1. conn'.read # "pending" /\ conn'.read # "none" /\ conn'.write = "none" /\ ~conn'.handling
      BY <1>2, <1>3, <2>2 DEF Reading
    <3>2. \A k \in Nat : Passed(k) => Passed(k)'
      BY <1>2, <1>3 DEF Passed
    <3>3. \A m : Unread(m) => Unread(m)'
      BY <1>2 DEF Unread
    <3>4. conn'.read = "done" => conn.read = "done"
      BY <1>3
    <3> QED
      BY <1>2, <1>3, <2>2, <3>1, <3>2, <3>3, <3>4 DEF Reading
  <2>3. CASE Writing
    BY <1>2, <1>3, <2>3 DEF Writing
  <2> QED
    BY <2>1, <2>2, <2>3
<1> QED
  BY <1>4, <1>5 DEF ServingInv

LEMMA ReplyKeeps ==
  ASSUME ServingInv, SendReply
  PROVE  ServingInv'
<1> PICK close : close = (conn.parser.connection = <<"close">>)
  OBVIOUS
<1> PICK reply : reply = [to |-> job.asked, code |-> job.reply.code,
                          connection |-> IF close THEN "close" ELSE "keep-alive"]
  OBVIOUS
<1> DEFINE c == [conn EXCEPT !.handling = FALSE, !.keep_alive = @ \/ ~close]
<1>1. IsConn(c) /\ c.handling = FALSE /\ c.read = conn.read
  BY DEF ServingInv, Shape, ConnShape, IsConn, ConnFields
<1>2. conn.handling /\ conn' = Write(c, reply) /\ job' = NoJob /\ client' = client /\ wire' = wire
  BY DEF SendReply
<1> HIDE DEF c
<1>3. /\ IsConn(conn') /\ ~conn'.handling /\ conn'.read = conn.read /\ conn'.write = "pending"
      /\ conn'.reply = reply
  <2> PICK d : d = Write(c, reply)
    OBVIOUS
  <2>1. IsConn(d) /\ d.read = c.read /\ d.write = "pending" /\ d.handling = c.handling /\ d.reply = reply
    BY <1>1, WriteIs
  <2>2. conn' = d
    BY <1>2
  <2> QED
    BY <1>1, <2>1, <2>2
<1>4. JobShape'
  BY <1>2 DEF JobShape, NoJob
<1>5. Shape'
  BY <1>2, <1>3, <1>4 DEF ServingInv, Shape, ConnShape, ClientShape
<1>6. ASSUME Faithful' PROVE Writing'
  <2>1. Handling
    BY <1>2, <1>6 DEF ServingInv, Faithful, Reading, Writing
  <2>2. reply.to = client.asked
    BY <2>1 DEF Handling
  <2> QED
    BY <1>2, <1>3, <2>1, <2>2 DEF Handling, Writing
<1> QED
  BY <1>5, <1>6 DEF ServingInv

LEMMA EndKeeps ==
  ASSUME ServingInv, ReadEnd
  PROVE  ServingInv'
<1>1. /\ conn.read = "pending" /\ conn' = [conn EXCEPT !.read = "eof"]
      /\ client' = client /\ wire' = wire /\ job' = job
  BY DEF ReadEnd
<1>2. IsConn(conn') /\ conn'.read = "eof" /\ conn'.write = conn.write /\ conn'.handling = conn.handling
  BY <1>1, FieldsKept DEF ServingInv, Shape, ConnShape, ConnFields
<1>3. Shape'
  BY <1>1, <1>2 DEF ServingInv, Shape, ConnShape, JobShape, ClientShape
<1>4. ASSUME Faithful' PROVE Reading'
  <2>1. Reading
    BY <1>1, <1>4 DEF ServingInv, Faithful, Handling, Writing
  <2> QED
    BY <1>2, <2>1 DEF Reading
<1> QED
  BY <1>3, <1>4 DEF ServingInv

LEMMA ExpireKeeps ==
  ASSUME ServingInv, Expire
  PROVE  ServingInv'
<1>1. conn' = [conn EXCEPT !.timer = "off", !.due = TRUE] /\ client' = client /\ wire' = wire /\ job' = job
  BY DEF Expire
<1>2. /\ IsConn(conn') /\ conn'.read = conn.read /\ conn'.write = conn.write /\ conn'.handling = conn.handling
      /\ conn'.parser = conn.parser /\ conn'.bytes = conn.bytes /\ conn'.reply = conn.reply
  BY <1>1 DEF ServingInv, Shape, ConnShape, IsConn, ConnFields
<1>3. Shape'
  BY <1>1, <1>2 DEF ServingInv, Shape, ConnShape, JobShape, ClientShape
<1>4. /\ Reading => Reading'
      /\ Handling => Handling'
      /\ Writing => Writing'
      /\ Faithful' => Faithful
  BY <1>1, <1>2 DEF Reading, Handling, Writing, Faithful, Passed, Unread
<1> QED
  BY <1>3, <1>4 DEF ServingInv

LEMMA SendKeeps ==
  ASSUME ServingInv, Send
  PROVE  ServingInv'
<1> PICK request \in Requests, malformed \in BOOLEAN :
         /\ client' = [client EXCEPT !.asked = request, !.spoiled = malformed]
         /\ wire' = wire \o Characters(request, malformed)
  BY DEF Send
<1>1. client.open /\ client.asked = <<>> /\ ~client.spoiled /\ conn' = conn /\ job' = job
  BY DEF Send
<1>2. /\ client' \in [open : BOOLEAN, asked : Requests \cup {<<>>}, spoiled : BOOLEAN]
      /\ client'.asked = request /\ client'.spoiled = malformed
  BY DEF ServingInv, Shape, ClientShape
<1>3. Shape'
  BY <1>1, <1>2 DEF ServingInv, Shape, ConnShape, JobShape, ClientShape
<1>4. request # <<>>
  BY ConnectionAssumption
<1>5. ASSUME Faithful' PROVE Reading' \/ Writing'
  <2>1. Faithful /\ malformed = FALSE
    BY <1>1, <1>2, <1>5 DEF Faithful
  <2>2. Text(client'.asked) = Characters(request, FALSE) /\ Text(client.asked) = <<>>
    BY <1>1, <1>2, <1>4 DEF Text
  <2>3. \E S : Characters(request, FALSE) \in Seq(S)
    BY SentIs
  <2>4. wire = <<>> => wire' = Text(client'.asked)
    <3> PICK S : Characters(request, FALSE) \in Seq(S)
      BY <2>3
    <3> PICK t : t = Characters(request, FALSE)
      OBVIOUS
    <3>1. <<>> \o t = t
      BY ConcatEmptySeq
    <3> QED
      BY <2>1, <2>2, <3>1
  <2>5. Reading \/ Writing
    BY <1>1, <2>1 DEF ServingInv, Handling
  <2>6. CASE Reading
    <3>1. CASE conn.read = "pending"
      <4>1. wire = <<>> /\ conn.parser = NewParser
        BY <1>1, <2>6, <3>1, Resting
      <4>2. wire' = Text(client'.asked) /\ conn'.parser = NewParser
        BY <1>1, <2>4, <4>1
      <4>3. conn'.read = "pending" /\ conn'.write = "none" /\ ~conn'.handling
        BY <1>1, <2>6, <3>1 DEF Reading
      <4>4. (ClientShape /\ conn.read = "pending" /\ conn.write = "none" /\ ~conn.handling
             /\ conn.parser = NewParser /\ wire = Text(client.asked) => Reading)'
        BY Awaiting, PTL
      <4> QED
        BY <1>3, <4>2, <4>3, <4>4 DEF Shape
    <3>2. CASE conn.read = "done"
      <4> PICK k \in Nat : Passed(k) /\ \E m \in k..Len(Text(client.asked)) :
                             conn.bytes = SubSeq(Text(client.asked), k + 1, m) /\ Unread(m)
        BY <2>6, <3>2 DEF Reading
      <4>1. Len(Text(client.asked)) = 0
        BY <2>2
      <4>2. k = 0 /\ conn.bytes = SubSeq(<<>>, 1, 0) /\ wire = SubSeq(<<>>, 1, 0) /\ conn.parser = NewParser
        BY <1>1, <2>2, <4>1 DEF Passed, Unread
      <4>3. conn.bytes = <<>> /\ wire = <<>>
        BY <4>2
      <4> PICK t : t = Text(client'.asked)
        OBVIOUS
      <4>4. t = Characters(request, FALSE) /\ wire' = t
        BY <2>2, <2>4, <4>3
      <4>5. /\ 0 \in 0..Len(t) /\ 0 \in 0..Len(t) /\ SubSeq(t, 0 + 1, Len(t)) = t /\ SubSeq(t, 0 + 1, 0) = <<>>
        <5> PICK S : t \in Seq(S)
          BY <2>3, <4>4
        <5>1. SubSeq(t, 1, Len(t)) = t
          BY Whole
        <5> QED
          BY <5>1
      <4>6. Passed(0)'
        BY <1>1, <4>2, <4>5 DEF Passed, ParserAt
      <4>7. Unread(0)'
        BY <4>4, <4>5 DEF Unread
      <4>8. conn'.bytes = SubSeq(Text(client'.asked), 0 + 1, 0)
        BY <1>1, <4>3, <4>5
      <4> QED
        BY <1>1, <2>6, <3>2, <4>5, <4>6, <4>7, <4>8 DEF Reading
    <3>3. CASE conn.read # "pending" /\ conn.read # "done"
      BY <1>1, <2>6, <3>3 DEF Reading
    <3> QED
      BY <3>1, <3>2, <3>3
  <2>7. CASE Writing
    <3>1. conn.write # "pending"
      BY <1>1, <2>7 DEF Writing
    <3>2. Text(client.asked) = <<>>
      BY <2>2
    <3> QED
      BY <1>1, <2>2, <2>4, <2>7, <3>1 DEF Writing
  <2> QED
    BY <2>5, <2>6, <2>7
<1> QED
  BY <1>3, <1>5 DEF ServingInv

LEMMA LeaveKeeps ==
  ASSUME ServingInv, Leave \/ NoticeClose
  PROVE  ServingInv'
<1>1. client' = [client EXCEPT !.open = FALSE, !.asked = <<>>] /\ conn' = conn /\ job' = job
  BY DEF Leave, NoticeClose
<1>2. client' \in [open : BOOLEAN, asked : Requests \cup {<<>>}, spoiled : BOOLEAN] /\ ~client'.open
  BY <1>1 DEF ServingInv, Shape, ClientShape
<1> QED
  BY <1>1, <1>2 DEF ServingInv, Shape, ConnShape, JobShape, ClientShape, Faithful

LEMMA WriteAllKeeps ==
  ASSUME ServingInv, WriteAll
  PROVE  ServingInv'
<1>1. conn.write = "pending" /\ wire' = wire /\ job' = job
  BY DEF WriteAll
<1>2. PICK outcome \in {"done", "failed"} : conn' = [conn EXCEPT !.write = outcome]
  BY DEF WriteAll
<1>3. /\ IsConn(conn') /\ conn'.write = outcome /\ conn'.read = conn.read /\ conn'.handling = conn.handling
  BY <1>2, FieldsKept DEF ServingInv, Shape, ConnShape, ConnFields
<1>4. /\ client' \in [open : BOOLEAN, asked : Requests \cup {<<>>}, spoiled : BOOLEAN]
      /\ client'.open = client.open /\ client'.spoiled = client.spoiled
  <2>1. client' = client \/ client' = [client EXCEPT !.asked = <<>>]
    BY DEF WriteAll
  <2> QED
    BY <2>1 DEF ServingInv, Shape, ClientShape
<1>5. Shape'
  BY <1>1, <1>3, <1>4 DEF ServingInv, Shape, ConnShape, JobShape, ClientShape
<1>6. ASSUME Faithful' PROVE Writing'
  <2>1. Faithful
    BY <1>4, <1>6 DEF Faithful
  <2>2. Writing
    BY <1>1, <2>1 DEF ServingInv, Reading, Handling
  <2>3. CASE outcome = "failed"
    BY <1>3, <2>2, <2>3 DEF Writing
  <2>4. CASE outcome = "done"
    <3>1. client' = [client EXCEPT !.asked = <<>>]
      <4>1. ~conn.shut
        <5>1. conn' # [conn EXCEPT !.write = "failed"]
          <6> PICK d : d = [conn EXCEPT !.write = "failed"]
            OBVIOUS
          <6>1. d.write = "failed"
            BY FieldsKept DEF ServingInv, Shape, ConnShape, ConnFields
          <6> QED
            BY <1>3, <2>4, <6>1
        <5>2. conn.shut => conn' = [conn EXCEPT !.write = "failed"]
          BY <2>1, <5>1 DEF WriteAll, Faithful
        <5> QED
          BY <5>1, <5>2
      <4> QED
        BY <4>1, <2>1 DEF WriteAll, Faithful
    <3>2. client'.asked = <<>>
      BY <3>1 DEF ServingInv, Shape, ClientShape
    <3>3. Text(client'.asked) = <<>>
      BY <3>2 DEF Text
    <3> QED
      BY <1>1, <1>3, <2>2, <2>4, <3>3 DEF Writing
  <2> QED
    BY <2>3, <2>4
<1> QED
  BY <1>5, <1>6 DEF ServingInv

LEMMA ReadKeeps ==
  ASSUME ServingInv, ReadSome
  PROVE  ServingInv'
<1>1. conn.read = "pending" /\ wire # <<>> /\ client' = client /\ job' = job
  BY DEF ReadSome
<1>2. PICK j \in DOMAIN wire \intersect (ReadSizes \union {Len(wire)}) :
         /\ conn' = [conn EXCEPT !.read = "done", !.bytes = SubSeq(wire, 1, j)]
         /\ wire' = SubSeq(wire, j + 1, Len(wire))
  BY DEF ReadSome
<1> DEFINE bytes == SubSeq(wire, 1, j)
<1>3. conn' = [conn EXCEPT !.read = "done", !.bytes = bytes]
  BY <1>2
<1> HIDE DEF bytes
<1>4. /\ IsConn(conn') /\ conn'.read = "done" /\ conn'.bytes = bytes /\ conn'.write = conn.write
      /\ conn'.handling = conn.handling /\ conn'.parser = conn.parser
  BY <1>3 DEF ServingInv, Shape, ConnShape, IsConn, ConnFields
<1>5. Shape'
  BY <1>1, <1>4 DEF ServingInv, Shape, ConnShape, JobShape, ClientShape
<1>6. ASSUME Faithful' PROVE Reading'
  <2>1. Reading
    BY <1>1, <1>6 DEF ServingInv, Faithful, Handling, Writing
  <2> PICK k \in Nat : Passed(k) /\ Unread(k)
    BY <1>1, <2>1 DEF Reading
  <2> PICK t : t = Text(client.asked)
    OBVIOUS
  <2>2. \E S : t \in Seq(S)
    BY Texts DEF ServingInv, Shape, ClientShape
  <2> PICK S : t \in Seq(S)
    BY <2>2
  <2>3. k \in 0..Len(t) /\ wire = SubSeq(t, k + 1, Len(t))
    BY DEF Passed, Unread
  <2>4. j \in 1..Len(wire)
    <3>1. Len(SubSeq(t, k + 1, Len(t))) = Len(t) - k /\ SubSeq(t, k + 1, Len(t)) \in Seq(S)
      BY <2>3, Parts DEF IsPart
    <3> QED
      BY <1>2, <2>3, <3>1
  <2>5. /\ k + j \in k..Len(t)
        /\ SubSeq(wire, 1, j) = SubSeq(t, k + 1, k + j)
        /\ SubSeq(wire, j + 1, Len(wire)) = SubSeq(t, (k + j) + 1, Len(t))
    <3>1. t \in Seq(S) /\ k \in 0..Len(t) /\ wire = Rest(t, k) /\ j \in 1..Len(Rest(t, k))
      BY <2>3, <2>4 DEF Rest
    <3>2. TakenOff(t, k, j)
      BY <3>1, Reads, Zenon
    <3> QED
      BY <3>1, <3>2 DEF TakenOff, Rest
  <2>6. Passed(k)'
    BY <1>1, <1>4 DEF Passed
  <2>7. Unread(k + j)'
    <3> PICK m : m = k + j
      OBVIOUS
    <3>1. Unread(m)'
      BY <1>1, <1>2, <2>5 DEF Unread
    <3> QED
      BY <3>1
  <2>8. conn'.bytes = SubSeq(Text(client'.asked), k + 1, k + j) /\ k + j \in k..Len(Text(client'.asked))
    BY <1>1, <1>4, <2>5 DEF bytes
  <2>9. conn'.read = "done" /\ conn'.write = "none" /\ ~conn'.handling
    BY <1>4, <2>1 DEF Reading
  <2>10. \E m \in k..Len(Text(client'.asked)) : conn'.bytes = SubSeq(Text(client'.asked), k + 1, m) /\ Unread(m)'
    <3> PICK m : m = k + j
      OBVIOUS
    <3>1. m \in k..Len(Text(client'.asked)) /\ conn'.bytes = SubSeq(Text(client'.asked), k + 1, m) /\ Unread(m)'
      BY <2>7, <2>8
    <3> QED
      BY <3>1
  <2> QED
    BY <2>6, <2>9, <2>10 DEF Reading
<1> QED
  BY <1>5, <1>6 DEF ServingInv

(* A step of the query leaves the request it is about. *)
LEMMA QueryKeeps ==
  ASSUME ServingInv, QueryStep
  PROVE  ServingInv'
<1>1. client' = client /\ wire' = wire /\ conn' = conn
  BY DEF QueryStep
<1>2. JobShape
  BY DEF ServingInv, Shape
<1>3. JobShape' /\ job'.asked = job.asked
  <2>1. CASE job' = job
    BY <1>2, <2>1 DEF JobShape
  <2>2. ASSUME NEW stage, NEW reply, job' = [job EXCEPT !.stage = stage, !.reply = reply]
        PROVE  JobShape' /\ job'.asked = job.asked
    BY <1>2, <2>2 DEF JobShape
  <2>3. ASSUME NEW found, job' = [job EXCEPT !.found = found]
        PROVE  JobShape' /\ job'.asked = job.asked
    BY <1>2, <2>3 DEF JobShape
  <2>4. ASSUME NEW found, NEW stage, job' = [job EXCEPT !.found = found, !.stage = stage]
        PROVE  JobShape' /\ job'.asked = job.asked
    BY <1>2, <2>4 DEF JobShape
  <2>5. ASSUME NEW stage, job' = [job EXCEPT !.stage = stage]
        PROVE  JobShape' /\ job'.asked = job.asked
    BY <1>2, <2>5 DEF JobShape
  <2>6. CASE SearchStep /\ UNCHANGED <<job, model>>
    BY <2>1, <2>6
  <2>7. CASE Snap
    <3>1. PICK list : \/ job' = [job EXCEPT !.stage = "answered", !.reply = Error("NoSegment")]
                      \/ job' = [job EXCEPT !.found = list]
                      \/ job' = [job EXCEPT !.found = list, !.stage = "snapped"]
      BY <2>7, Zenon DEF Snap
    <3> QED
      BY <2>2, <2>3, <2>4, <3>1, Zenon
  <2>8. CASE Answer
    <3>1. PICK reply : job' = [job EXCEPT !.stage = "answered", !.reply = reply]
      BY <2>8, Zenon DEF Answer
    <3> QED
      BY <2>2, <3>1, Zenon
  <2>9. CASE BeginMatching
    <3>1. \/ job' = [job EXCEPT !.stage = "answered", !.reply = Error("NoSegment")]
          \/ job' = [job EXCEPT !.stage = "matching"]
      BY <2>9, Zenon DEF BeginMatching
    <3> QED
      BY <2>2, <2>5, <3>1, Zenon
  <2>10. CASE MatchPoint
    BY <2>1, <2>10 DEF MatchPoint
  <2>11. CASE EndMatching
    <3>1. PICK reply : job' = [job EXCEPT !.stage = "answered", !.reply = reply]
      BY <2>11, Zenon DEF EndMatching
    <3> QED
      BY <2>2, <3>1, Zenon
  <2> QED
    BY <2>6, <2>7, <2>8, <2>9, <2>10, <2>11 DEF QueryStep
<1>4. Shape'
  BY <1>1, <1>3 DEF ServingInv, Shape, ConnShape, ClientShape
<1>5. /\ Reading => Reading'
      /\ Handling => Handling'
      /\ Writing => Writing'
      /\ Faithful' => Faithful
  BY <1>1, <1>3 DEF Reading, Handling, Writing, Faithful, Passed, Unread
<1> QED
  BY <1>4, <1>5 DEF ServingInv

(* What is handled is the request asked. *)
LEMMA HandleDoes ==
  ASSUME NEW request, HandleRequest(request)
  PROVE  JobShape' /\ job'.asked = request
<1>1. ASSUME NEW code, Refuse(request, code) PROVE JobShape' /\ job'.asked = request
  BY <1>1 DEF Refuse, NoJob, JobShape
<1>2. ASSUME NEW tidied, StartSnapping(request, tidied) PROVE JobShape' /\ job'.asked = request
  BY <1>2 DEF StartSnapping, NoJob, JobShape
<1>3. (\E code : Refuse(request, code)) \/ (\E tidied : StartSnapping(request, tidied))
  BY Zenon DEF HandleRequest
<1> QED
  BY <1>1, <1>2, <1>3

LEMMA HandleURLDoes ==
  ASSUME NEW uri, HandleURL(uri)
  PROVE  JobShape' /\ \A r : uri = <<r>> => job'.asked = r
<1>1. CASE Len(uri) = 1 /\ uri[1] \in Requests /\ uri[1].parsable
  <2>1. HandleRequest(uri[1])
    BY <1>1 DEF HandleURL
  <2>2. JobShape' /\ job'.asked = uri[1]
    BY <2>1, HandleDoes, Zenon
  <2> QED
    BY <2>2
<1>2. CASE ~(Len(uri) = 1 /\ uri[1] \in Requests /\ uri[1].parsable)
  <2> PICK request : request = IF Len(uri) = 1 THEN uri[1] ELSE <<>>
    OBVIOUS
  <2>1. Refuse(request, "InvalidUrl")
    BY <1>2 DEF HandleURL
  <2>2. JobShape' /\ job'.asked = request
    BY <2>1 DEF Refuse, NoJob, JobShape
  <2> QED
    BY <2>2
<1> QED
  BY <1>1, <1>2

(* After a read: where the parser is, if the client is faithful. *)
LEMMA ParsedTo ==
  ASSUME ServingInv, Faithful, conn.read = "done"
  PROVE  LET p == parse(conn.parser, conn.bytes)
         IN \/ /\ client.asked = <<>> /\ wire = <<>> /\ p = NewParser
            \/ \E m \in 0..Size(client.asked) :
                 /\ client.asked \in Requests /\ client.asked # <<>> /\ Len(Text(client.asked)) = Size(client.asked)
                 /\ p = ParserAt(client.asked, m) /\ Unread(m)
<1> DEFINE t == Text(client.asked)
           asked == client.asked
<1>1. Reading /\ conn.write = "none" /\ ~conn.handling
  BY DEF ServingInv, Reading, Handling, Writing
<1>2. asked \in Requests \cup {<<>>}
  BY DEF ServingInv, Shape, ClientShape
<1> PICK k \in Nat : Passed(k) /\ \E m \in k..Len(t) : conn.bytes = SubSeq(t, k + 1, m) /\ Unread(m)
  BY <1>1 DEF Reading
<1> PICK m \in k..Len(t) : conn.bytes = SubSeq(t, k + 1, m) /\ Unread(m)
  OBVIOUS
<1>3. k \in 0..Len(t) /\ conn.parser = IF asked = <<>> THEN NewParser ELSE ParserAt(asked, k)
  BY DEF Passed
<1>4. CASE asked = <<>>
  <2>1. t = <<>> /\ Len(t) = 0
    BY <1>4 DEF Text
  <2>2. k = 0 /\ m = 0
    BY <1>3, <2>1
  <2>3. conn.bytes = SubSeq(<<>>, 1, 0) /\ wire = SubSeq(<<>>, 1, 0)
    BY <2>1, <2>2 DEF Unread
  <2>4. conn.bytes = <<>> /\ wire = <<>>
    BY <2>3
  <2> QED
    BY <1>3, <1>4, <2>4, ParsesNothing
<1>5. CASE asked # <<>>
  <2>1. asked \in Requests
    BY <1>2, <1>5
  <2>2. t = Sent(asked) /\ Len(t) = Size(asked)
    BY <1>2, <1>5, Texts
  <2>3. Sent(asked) \in Seq(Anything(asked)) /\ Len(Sent(asked)) = Size(asked)
    BY <2>1, SentIs
  <2> PICK r : r = asked
    OBVIOUS
  <2> PICK s : s = Sent(r)
    OBVIOUS
  <2>4. k \in 0..Len(s) /\ m \in k..Len(s) /\ s \in Seq(Anything(r)) /\ Len(s) = Size(r)
    BY <1>3, <2>2, <2>3
  <2>5. Len(SubSeq(s, k + 1, m)) = m - k /\ \A i \in 1..m - k : SubSeq(s, k + 1, m)[i] = s[k + i]
    BY <2>4, Parts DEF IsPart
  <2> PICK bytes : bytes = conn.bytes
    OBVIOUS
  <2>6. Len(bytes) = m - k /\ \A i \in 1..m - k : bytes[i] = Sent(r)[k + i]
    BY <2>2, <2>5
  <2>7. r \in Requests /\ k \in 0..Size(r) /\ m \in k..Size(r) /\ m \in 0..Size(r)
    BY <2>1, <2>4
  <2>8. parse(ParserAt(r, k), bytes) = ParserAt(r, m)
    BY <2>6, <2>7, ParsesOn
  <2>9. parse(conn.parser, conn.bytes) = ParserAt(asked, m)
    BY <1>3, <1>5, <2>8
  <2> QED
    BY <1>5, <2>1, <2>2, <2>7, <2>9
<1> QED
  BY <1>4, <1>5

LEMMA BytesKeep ==
  ASSUME ServingInv, HandleBytes
  PROVE  ServingInv'
<1> DEFINE p == parse(conn.parser, conn.bytes)
           c == [conn EXCEPT !.read = "none", !.bytes = <<>>, !.timer = IF conn.keep_alive THEN "off" ELSE @,
                             !.parser = p]
<1>1. /\ IsConn(c) /\ c.read = "none" /\ c.write = conn.write /\ c.handling = conn.handling /\ c.parser = p
  <2> HIDE DEF p
  <2> QED
    BY DEF ServingInv, Shape, ConnShape, IsConn, ConnFields
<1>2. /\ conn.read = "done" /\ ~conn.handling /\ client' = client /\ wire' = wire
      /\ \/ /\ c.parser.status = "valid" /\ conn' = [c EXCEPT !.handling = TRUE] /\ HandleURL(c.parser.uri)
         \/ /\ c.parser.status = "valid" /\ conn' = handle_shutdown(c) /\ job' = job
         \/ /\ c.parser.status = "invalid" /\ conn' = Write(c, [NoReply EXCEPT !.code = "bad_request"]) /\ job' = job
         \/ /\ c.parser.status = "indeterminate" /\ conn' = ReadOn(c) /\ job' = job
  BY DEF HandleBytes
<1> HIDE DEF c, p
<1>3. ClientShape'
  BY <1>2 DEF ServingInv, Shape, ClientShape
<1>4. conn.write = "none" \/ ~Faithful
  BY <1>2 DEF ServingInv, Reading, Handling, Writing
<1>5. Faithful' => Faithful
  BY <1>2 DEF Faithful
<1>6. Faithful => \/ /\ client.asked = <<>> /\ wire = <<>> /\ p = NewParser
                  \/ \E m \in 0..Size(client.asked) :
                       /\ client.asked \in Requests /\ client.asked # <<>>
                       /\ Len(Text(client.asked)) = Size(client.asked)
                       /\ p = ParserAt(client.asked, m) /\ Unread(m)
  BY <1>2, ParsedTo DEF p
<1>7. NewParser.status = "indeterminate"
  BY DEF NewParser
<1>8. ASSUME NEW m \in 0..Size(client.asked), client.asked \in Requests, p = ParserAt(client.asked, m)
      PROVE  /\ p.status = IF m = Size(client.asked) THEN "valid" ELSE "indeterminate"
             /\ m = Size(client.asked) => p.uri = <<client.asked>>
  <2> PICK r : r = client.asked
    OBVIOUS
  <2>1. r \in Requests /\ m \in 0..Size(r) /\ p = ParserAt(r, m)
    BY <1>8
  <2>2. /\ ParserAt(r, m).status = IF m = Size(r) THEN "valid" ELSE "indeterminate"
        /\ m = Size(r) => ParserAt(r, m).uri = <<r>>
    BY <2>1, Statuses
  <2> QED
    BY <2>1, <2>2
<1>9. CASE c.parser.status = "valid" /\ conn' = [c EXCEPT !.handling = TRUE] /\ HandleURL(c.parser.uri)
  <2>1. /\ IsConn(conn') /\ conn'.read = "none" /\ conn'.write = conn.write /\ conn'.handling = TRUE
    BY <1>1, <1>9, FieldsKept DEF ConnFields
  <2> PICK uri : uri = p.uri
    OBVIOUS
  <2>2. HandleURL(uri)
    BY <1>1, <1>9
  <2>3. JobShape' /\ \A r : uri = <<r>> => job'.asked = r
    BY <2>2, HandleURLDoes, Zenon
  <2>4. Shape'
    BY <1>3, <2>1, <2>3 DEF Shape, ConnShape
  <2>5. ASSUME Faithful' PROVE Handling'
    <3> PICK m \in 0..Size(client.asked) :
           /\ client.asked \in Requests /\ client.asked # <<>> /\ Len(Text(client.asked)) = Size(client.asked)
           /\ p = ParserAt(client.asked, m) /\ Unread(m)
      BY <1>1, <1>5, <1>6, <1>7, <1>9, <2>5
    <3>1. m = Size(client.asked) /\ uri = <<client.asked>>
      BY <1>1, <1>8, <1>9
    <3>2. wire = SubSeq(Text(client.asked), Len(Text(client.asked)) + 1, Len(Text(client.asked)))
      BY <3>1 DEF Unread
    <3>3. wire = <<>>
      <4> PICK t : t = Text(client.asked)
        OBVIOUS
      <4>1. \E S : t \in Seq(S)
        BY Texts
      <4> PICK S : t \in Seq(S)
        BY <4>1
      <4>2. Len(SubSeq(t, Len(t) + 1, Len(t))) = Len(t) - Len(t) /\ SubSeq(t, Len(t) + 1, Len(t)) \in Seq(S)
        <5>1. Len(t) \in 0..Len(t) /\ Len(t) \in Len(t)..Len(t)
          OBVIOUS
        <5> QED
          BY <5>1, Parts DEF IsPart
      <4>3. Len(SubSeq(t, Len(t) + 1, Len(t))) = 0
        BY <4>2
      <4> QED
        BY <3>2, <4>2, <4>3, EmptySeq
    <3>4. job'.asked = client.asked
      BY <2>3, <3>1
    <3> QED
      BY <1>2, <1>4, <1>5, <2>1, <2>5, <3>3, <3>4 DEF Handling
  <2> QED
    BY <2>4, <2>5 DEF ServingInv
<1>10. CASE c.parser.status = "valid" /\ conn' = handle_shutdown(c) /\ job' = job
  <2>1. IsConn(conn') /\ conn'.read = "none" /\ conn'.write = conn.write /\ ~conn'.handling
    <3>1. AsBefore(handle_shutdown(c), c)
      BY <1>1, ShutdownIs, Zenon
    <3> QED
      BY <1>1, <1>2, <1>10, <3>1 DEF AsBefore
  <2>2. Shape'
    BY <1>3, <1>10, <2>1 DEF ServingInv, Shape, ConnShape, JobShape
  <2>3. Faithful' => Writing'
    BY <1>4, <1>5, <2>1 DEF Writing
  <2> QED
    BY <2>2, <2>3 DEF ServingInv
<1>11. CASE c.parser.status = "invalid" /\ conn' = Write(c, [NoReply EXCEPT !.code = "bad_request"]) /\ job' = job
  <2>1. IsConn(conn')
    BY <1>1, <1>11, WriteIs
  <2>2. Shape'
    BY <1>3, <1>11, <2>1 DEF ServingInv, Shape, ConnShape, JobShape
  <2>3. ~Faithful
    <3>1. p.status = "invalid"
      BY <1>1, <1>11
    <3> QED
      BY <1>6, <1>7, <1>8, <3>1
  <2> QED
    BY <1>5, <2>2, <2>3 DEF ServingInv
<1>12. CASE c.parser.status = "indeterminate" /\ conn' = ReadOn(c) /\ job' = job
  <2>1. /\ IsConn(conn') /\ conn'.read = "pending" /\ conn'.write = conn.write /\ conn'.handling = conn.handling
        /\ conn'.parser = p
    BY <1>1, <1>12, FieldsKept DEF ReadOn, ConnFields
  <2>2. Shape'
    BY <1>3, <1>12, <2>1 DEF ServingInv, Shape, ConnShape, JobShape
  <2>3. ASSUME Faithful' PROVE Reading'
    <3>1. conn'.read = "pending" /\ conn'.write = "none" /\ ~conn'.handling
      BY <1>2, <1>4, <1>5, <2>1, <2>3
    <3>2. CASE client.asked = <<>> /\ wire = <<>> /\ p = NewParser
      <4>1. wire' = Text(client'.asked) /\ conn'.parser = NewParser
        BY <1>2, <2>1, <3>2 DEF Text
      <4>2. (ClientShape /\ conn.read = "pending" /\ conn.write = "none" /\ ~conn.handling
             /\ conn.parser = NewParser /\ wire = Text(client.asked) => Reading)'
        BY Awaiting, PTL
      <4> QED
        BY <1>3, <3>1, <4>1, <4>2
    <3>3. ASSUME NEW m \in 0..Size(client.asked), client.asked # <<>>,
                 Len(Text(client.asked)) = Size(client.asked), p = ParserAt(client.asked, m), Unread(m)
          PROVE  Reading'
      <4>1. Passed(m)'
        BY <1>2, <2>1, <3>3 DEF Passed
      <4>2. Unread(m)'
        BY <1>2, <3>3 DEF Unread
      <4>3. m \in Nat
        BY DEF Size
      <4> QED
        BY <3>1, <4>1, <4>2, <4>3 DEF Reading
    <3> QED
      BY <1>5, <1>6, <2>3, <3>2, <3>3
  <2> QED
    BY <2>2, <2>3 DEF ServingInv
<1> QED
  BY <1>2, <1>9, <1>10, <1>11, <1>12

-----------------------------------------------------------------------------
LEMMA ServingInit == Init => ServingInv
<1> SUFFICES ASSUME Init PROVE ServingInv
  OBVIOUS
<1>1. conn = NewConnection /\ job = NoJob /\ client = [open |-> FALSE, asked |-> <<>>, spoiled |-> FALSE]
  BY DEF Init
<1>2. ConnShape /\ JobShape /\ ClientShape
  BY <1>1, NewConnectionIs DEF ConnShape, JobShape, ClientShape, NoJob
<1> QED
  BY <1>1, <1>2 DEF ServingInv, Shape, Faithful

LEMMA ServingStep == ServingInv /\ [Next]_vars => ServingInv'
<1> SUFFICES ASSUME ServingInv, [Next]_vars PROVE ServingInv'
  OBVIOUS
<1>1. CASE UNCHANGED vars
  <2>1. client' = client /\ wire' = wire /\ conn' = conn /\ job' = job
    BY <1>1 DEF vars
  <2>2. /\ Reading => Reading'
        /\ Handling => Handling'
        /\ Writing => Writing'
        /\ Shape => Shape'
        /\ Faithful' => Faithful
    BY <2>1 DEF Reading, Handling, Writing, Faithful, Passed, Unread, Shape, ConnShape, JobShape, ClientShape
  <2> QED
    BY <2>2 DEF ServingInv
<1>2. CASE HandleAccept
  BY <1>2, AcceptKeeps
<1>3. CASE ServerStep
  BY <1>3, BytesKeep, ReplyKeeps, ErrorKeeps, WriteKeeps, TimeoutKeeps DEF ServerStep
<1>4. CASE QueryStep
  BY <1>4, QueryKeeps
<1>5. CASE KernelStep
  BY <1>5, ReadKeeps, EndKeeps, WriteAllKeeps, ExpireKeeps, LeaveKeeps DEF KernelStep
<1>6. CASE Send
  BY <1>6, SendKeeps
<1>7. CASE Leave
  BY <1>7, LeaveKeeps
<1> QED
  BY <1>1, <1>2, <1>3, <1>4, <1>5, <1>6, <1>7 DEF Next

LEMMA ServingAlways == Spec => []ServingInv
BY ServingInit, ServingStep, PTL DEF Spec

(* RepliesFollowRequests for any requests, split into reads in any way, with *)
(* any number of them on a connection: the reply that Connection::handle_read *)
(* writes is about the request that the client waits for, never about an     *)
(* earlier one or one put together from the bytes of two.                    *)
THEOREM RepliesAreFollowed == Spec => []RepliesFollowRequests
<1>1. ServingInv => RepliesFollowRequests
  BY DEF ServingInv, Faithful, Reading, Handling, Writing, RepliesFollowRequests
<1> QED
  BY <1>1, ServingAlways, PTL

(***************************************************************************)
(* Snapping.  Every search the engine begins is for a query of its types.  *)
(***************************************************************************)

LEMMA SmallestIs ==
  ASSUME NEW S, S \subseteq Nat, S # {}
  PROVE  Min(S) \in S
<1>1. \E m \in S : \A k \in S : m <= k
  BY Smallest
<1> QED
  BY <1>1 DEF Min

LEMMA OneToFour == 4 \in 1..4 /\ 1..4 \subseteq Nat
OBVIOUS

LEMMA NotNone == \A n \in Nat : n = 1 \/ n >= 2 => n # 0
OBVIOUS

LEMMA SeqLength ==
  ASSUME NEW S, NEW s \in Seq(S)
  PROVE  Len(s) \in Nat /\ (s = <<>> => Len(s) = 0)
OBVIOUS

LEMMA CoordinatesCounted ==
  ASSUME NEW request, HasTypes(request)
  PROVE  Len(request.coordinates) \in Nat /\ (request.coordinates = <<>> => Len(request.coordinates) = 0)
<1> DEFINE s == request.coordinates
           S == Int \X Int
<1>1. s \in Seq(S)
  BY DEF HasTypes
<1> HIDE DEF s, S
<1>2. Len(s) \in Nat /\ (s = <<>> => Len(s) = 0)
  BY <1>1, SeqLength
<1> QED
  BY <1>2 DEF s

(* A list of checks whose last one fails has a first that does. *)
LEMMA LastFails ==
  ASSUME NEW checks, DOMAIN checks = 1..4, checks[4][1] = FALSE, \A i \in 1..4 : checks[i][2] # ""
  PROVE  FirstFailing(checks) # ""
<1> DEFINE failing == {i \in DOMAIN checks : ~checks[i][1]}
<1>1. failing \subseteq 1..4
  OBVIOUS
<1>2. 4 \in failing
  <2>1. 4 \in DOMAIN checks
    BY OneToFour, Zenon
  <2>2. ~checks[4][1]
    BY Zenon
  <2> QED
    BY <2>1, <2>2, Zenon
<1>3. FirstFailing(checks) = IF failing = {} THEN "" ELSE checks[Min(failing)][2]
  BY DEF FirstFailing
<1> HIDE DEF failing
<1>4. Min(failing) \in failing
  <2>1. failing \subseteq Nat
    BY <1>1, OneToFour, Zenon
  <2>2. failing # {}
    BY <1>2
  <2> QED
    BY <2>1, <2>2, SmallestIs
<1>5. FirstFailing(checks) = checks[Min(failing)][2]
  BY <1>2, <1>3
<1> QED
  BY <1>1, <1>4, <1>5

LEMMA FourChecks ==
  ASSUME NEW b1, NEW b2, NEW b3, NEW checks,
         checks = <<<<b1, "InvalidValue">>, <<b2, "TooBig">>, <<b3, "InvalidOptions">>, <<FALSE, "InvalidOptions">>>>
  PROVE  DOMAIN checks = 1..4 /\ checks[4][1] = FALSE /\ \A i \in 1..4 : checks[i][2] # ""
<1>1. DOMAIN checks = 1..4
  OBVIOUS
<1>2. \A i \in 1..4 : checks[i][2] # ""
  <2>1. checks[1][2] # "" /\ checks[2][2] # "" /\ checks[3][2] # "" /\ checks[4][2] # ""
    OBVIOUS
  <2>2. \A i \in 1..4 : i = 1 \/ i = 2 \/ i = 3 \/ i = 4
    OBVIOUS
  <2> QED
    BY <2>1, <2>2
<1>3. checks[4][1] = FALSE
  OBVIOUS
<1> QED
  BY <1>1, <1>2, <1>3

(* A plugin that refuses nothing gets as many coordinates as it needs. *)
LEMMA NearestOne ==
  ASSUME NEW request, FirstFailing(NearestChecks(request)) = ""
  PROVE  Len(request.coordinates) = 1
<1> SUFFICES ASSUME Len(request.coordinates) # 1 PROVE FALSE
  OBVIOUS
<1> DEFINE b1 == CheckAlgorithms(request)
           b2 == request.number <= MaxNearest
           b3 == CheckAllCoordinates(request)
           b4 == Len(request.coordinates) = 1
           checks == NearestChecks(request)
<1>2. b4 = FALSE
  OBVIOUS
<1>3. checks = <<<<b1, "InvalidValue">>, <<b2, "TooBig">>, <<b3, "InvalidOptions">>, <<b4, "InvalidOptions">>>>
  BY DEF NearestChecks
<1>4. FirstFailing(checks) = ""
  OBVIOUS
<1> HIDE DEF b1, b2, b3, b4, checks
<1>5. checks = <<<<b1, "InvalidValue">>, <<b2, "TooBig">>, <<b3, "InvalidOptions">>, <<FALSE, "InvalidOptions">>>>
  BY <1>2, <1>3
<1>6. DOMAIN checks = 1..4 /\ checks[4][1] = FALSE /\ \A i \in 1..4 : checks[i][2] # ""
  BY <1>5, FourChecks
<1> QED
  BY <1>4, <1>6, LastFails

LEMMA RefusedNot ==
  ASSUME NEW request, Refusal(request) = "", HasTypes(request)
  PROVE  Fits(request.radiuses, request) /\ request.coordinates # <<>>
<1>0. request.coordinates = <<>> => Len(request.coordinates) = 0
  BY CoordinatesCounted
<1>1. IsValid(request)
  BY DEF Refusal
<1>2. Fits(request.radiuses, request)
  BY <1>1 DEF IsValid, BaseIsValid
<1>3. CASE request.service = "nearest"
  <2>1. FirstFailing(NearestChecks(request)) = ""
    <3> DEFINE checks == NearestChecks(request)
    <3> HIDE DEF checks
    <3>1. FirstFailing(checks) = ""
      BY <1>1, <1>3 DEF Refusal, checks
    <3> QED
      BY <3>1 DEF checks
  <2>2. Len(request.coordinates) = 1
    BY <2>1, NearestOne
  <2>3. Len(request.coordinates) # 0
    BY <2>2, CoordinatesCounted, NotNone, Zenon
  <2> QED
    BY <1>2, <2>3, <1>0
<1>4. CASE request.service # "nearest"
  <2>1. Len(request.coordinates) >= 2
    BY <1>1, <1>4 DEF IsValid
  <2>2. Len(request.coordinates) # 0
    BY <2>1, CoordinatesCounted, NotNone, Zenon
  <2> QED
    BY <1>2, <2>2, <1>0
<1> QED
  BY <1>3, <1>4

LEMMA AskedWell ==
  ASSUME NEW request, HasTypes(request), Fits(request.radiuses, request), NEW i \in 1..Len(request.coordinates)
  PROVE  WellAsked(Ask(request, i))
<1> DEFINE radius == Nth(request.radiuses, i, DefaultRadius)
           inRange == request.service = "match"
           range == IF radius = Unset THEN DEFAULT_GPS_PRECISION * RADIUS_MULTIPLIER ELSE radius * RADIUS_MULTIPLIER
           ask == Ask(request, i)
<1>1. /\ ask.point = request.coordinates[i] /\ ask.alternatives = (request.service \in {"table", "route", "trip"})
      /\ ask.max_results = IF request.service = "nearest" THEN request.number ELSE Unset
      /\ ask.max_distance = IF inRange THEN range * range ELSE IF radius = Unset THEN Unset ELSE radius * radius
  BY DEF Ask
<1>2. request.coordinates[i] \in Points /\ request.number \in Nat
  BY DEF HasTypes, Points
<1>3. radius \in Nat \cup {Unset}
  BY DEF HasTypes, Fits, Nth, DefaultRadius
<1> HIDE DEF radius
<1>4. range \in Nat
  BY <1>3, PrecisionAssumption DEF RADIUS_MULTIPLIER
<1> HIDE DEF range
<1>5. range * range \in Nat
  BY <1>4, SquareNat
<1>6. radius # Unset => radius * radius \in Nat
  BY <1>3, SquareNat
<1>7. ask.max_distance \in Nat \cup {Unset}
  BY <1>1, <1>5, <1>6
<1>8. ask.max_results \in Nat \cup {Unset}
  BY <1>1, <1>2
<1> HIDE DEF ask, inRange
<1>9. WellAsked(ask)
  BY <1>1, <1>2, <1>7, <1>8 DEF WellAsked
<1> QED
  BY <1>9 DEF ask

(* The request under way has its types, the phantoms found are a list. *)
Snapped(j) ==
  j.stage = "snapping" =>
      /\ HasTypes(j.request) /\ Fits(j.request.radiuses, j.request)
      /\ j.found \in Seq({j.found[k] : k \in DOMAIN j.found})
SnapInv == JobShape /\ Snapped(job) /\ SearchInvOf(search)

LEMMA IdleHolds == SearchInvOf(Idle)
BY DEF SearchInvOf, Idle, IsSearch, ExactOf

LEMMA BegunKeeps ==
  ASSUME NEW request, HasTypes(request), Fits(request.radiuses, request), NEW i \in 1..Len(request.coordinates)
  PROVE  SearchInvOf(Begun(Ask(request, i)))
<1>1. WellAsked(Ask(request, i))
  BY AskedWell
<1>2. /\ IsSearch(Begun(Ask(request, i))) /\ Begun(Ask(request, i)).phase = "running"
      /\ Begun(Ask(request, i)).ask = Ask(request, i) /\ RunningInv(Begun(Ask(request, i)))
  BY <1>1, BegunHolds
<1> QED
  BY <1>1, <1>2 DEF SearchInvOf, ExactOf

LEMMA RefuseSnaps ==
  ASSUME NEW request, NEW code, Refuse(request, code)
  PROVE  Snapped(job') /\ SearchInvOf(search')
BY IdleHolds DEF Refuse, NoJob, Snapped

LEMMA StartSnaps ==
  ASSUME NEW request, NEW tidied, StartSnapping(request, tidied),
         HasTypes(tidied), Fits(tidied.radiuses, tidied), tidied.coordinates # <<>>
  PROVE  Snapped(job') /\ SearchInvOf(search')
<1>1. job'.request = tidied /\ job'.found = <<>> /\ search' = Begun(Ask(tidied, 1))
  BY DEF StartSnapping, NoJob
<1>2. 1 \in 1..Len(tidied.coordinates)
  BY DEF HasTypes
<1>3. SearchInvOf(search')
  BY <1>1, <1>2, BegunKeeps
<1>4. job'.found \in Seq({job'.found[k] : k \in DOMAIN job'.found})
  BY <1>1
<1> QED
  BY <1>1, <1>3, <1>4 DEF Snapped

LEMMA RequestSnaps ==
  ASSUME NEW uri, HandleURL(uri)
  PROVE  Snapped(job') /\ SearchInvOf(search')
<1>1. CASE Len(uri) = 1 /\ uri[1] \in Requests /\ uri[1].parsable
  <2> PICK request \in Requests : request = uri[1]
    BY <1>1
  <2>1. HandleRequest(request)
    BY <1>1 DEF HandleURL
  <2>2. HasTypes(request)
    BY RequestAssumption
  <2>3. CASE Refusal(request) # ""
    <3>1. Refuse(request, Refusal(request))
      BY <2>1, <2>3 DEF HandleRequest
    <3> QED
      BY <3>1, RefuseSnaps, Zenon
  <2>4. CASE Refusal(request) = "" /\ request.service # "match"
    <3>1. StartSnapping(request, request)
      BY <2>1, <2>4 DEF HandleRequest
    <3>2. Fits(request.radiuses, request) /\ request.coordinates # <<>>
      BY <2>2, <2>4, RefusedNot
    <3> QED
      BY <2>2, <3>1, <3>2, StartSnaps
  <2>5. CASE Refusal(request) = "" /\ request.service = "match"
    <3>1. PICK tidied \in {Tidied(request)} :
             StartSnapping(request, tidied) \/ Refuse(request, "InvalidValue")
      BY <2>1, <2>5 DEF HandleRequest
    <3>2. HasTypes(tidied) /\ Fits(tidied.radiuses, tidied) /\ tidied.coordinates # <<>>
      BY <2>5, RequestAssumption
    <3>3. CASE StartSnapping(request, tidied)
      BY <3>2, <3>3, StartSnaps
    <3>4. CASE Refuse(request, "InvalidValue")
      BY <3>4, RefuseSnaps
    <3> QED
      BY <3>1, <3>3, <3>4
  <2> QED
    BY <2>3, <2>4, <2>5
<1>2. CASE ~(Len(uri) = 1 /\ uri[1] \in Requests /\ uri[1].parsable)
  <2> PICK request : request = IF Len(uri) = 1 THEN uri[1] ELSE <<>>
    OBVIOUS
  <2>1. Refuse(request, "InvalidUrl")
    BY <1>2 DEF HandleURL
  <2> QED
    BY <2>1, RefuseSnaps
<1> QED
  BY <1>1, <1>2

LEMMA SnapSnaps ==
  ASSUME SnapInv, Snap
  PROVE  Snapped(job') /\ SearchInvOf(search')
<1>0. job.stage = "snapping" /\ HasTypes(job.request) /\ Fits(job.request.radiuses, job.request)
      /\ job.found \in Seq({job.found[k] : k \in DOMAIN job.found}) /\ JobShape
  BY DEF Snap, SnapInv, Snapped
<1>1. PICK found : \E list \in {Append(job.found, found)} :
         IF Nothing(Last(list)) /\ job.request.service # "match"
         THEN /\ job' = [job EXCEPT !.stage = "answered", !.reply = Error("NoSegment")]
              /\ search' = Idle
         ELSE IF Len(list) < Len(job.request.coordinates)
         THEN /\ job' = [job EXCEPT !.found = list]
              /\ search' = Begun(Ask(job.request, Len(list) + 1))
         ELSE /\ job' = [job EXCEPT !.found = list, !.stage = "snapped"]
              /\ search' = Idle
  BY DEF Snap
<1>2. PICK list \in {Append(job.found, found)} :
         \/ job' = [job EXCEPT !.stage = "answered", !.reply = Error("NoSegment")] /\ search' = Idle
         \/ /\ Len(list) < Len(job.request.coordinates)
            /\ job' = [job EXCEPT !.found = list] /\ search' = Begun(Ask(job.request, Len(list) + 1))
         \/ job' = [job EXCEPT !.found = list, !.stage = "snapped"] /\ search' = Idle
  BY <1>1, Zenon
<1>3. IsAppended(job.found, found, list)
  BY <1>0, Appended
<1>4. CASE job' = [job EXCEPT !.stage = "answered", !.reply = Error("NoSegment")] /\ search' = Idle
  <2>1. job'.stage = "answered"
    BY <1>0, <1>4 DEF JobShape
  <2> QED
    BY <1>4, <2>1, IdleHolds DEF Snapped
<1>5. CASE /\ Len(list) < Len(job.request.coordinates)
           /\ job' = [job EXCEPT !.found = list] /\ search' = Begun(Ask(job.request, Len(list) + 1))
  <2>1. job'.request = job.request /\ job'.found = list
    BY <1>0, <1>5 DEF JobShape
  <2>2. Len(list) + 1 \in 1..Len(job.request.coordinates)
    <3>1. PICK n : n = Len(job.request.coordinates) /\ n \in Nat
      BY <1>0, CoordinatesCounted
    <3>2. PICK m : m = Len(list) /\ m \in Nat
      BY <1>0, <1>3 DEF IsAppended
    <3>3. m < n
      BY <1>5, <3>1, <3>2
    <3>4. m + 1 \in 1..n
      BY <3>1, <3>2, <3>3
    <3> QED
      BY <3>1, <3>2, <3>4
  <2>3. SearchInvOf(search')
    BY <1>0, <1>5, <2>2, BegunKeeps
  <2> QED
    BY <1>0, <1>3, <2>1, <2>3 DEF Snapped, IsAppended
<1>6. CASE job' = [job EXCEPT !.found = list, !.stage = "snapped"] /\ search' = Idle
  <2>1. job'.stage = "snapped"
    BY <1>0, <1>6 DEF JobShape
  <2> QED
    BY <1>6, <2>1, IdleHolds DEF Snapped
<1> QED
  BY <1>2, <1>4, <1>5, <1>6

(* What leaves the search alone and the request either alone or not being snapped. *)
LEMMA OthersSnap ==
  ASSUME SnapInv, search' = search, job' = job \/ job'.stage # "snapping"
  PROVE  Snapped(job') /\ SearchInvOf(search')
BY DEF SnapInv, Snapped

LEMMA SnapInvStep == ServingInv /\ SnapInv /\ ServingInv' /\ [Next]_vars => SnapInv'
<1> SUFFICES ASSUME ServingInv, SnapInv, ServingInv', [Next]_vars PROVE SnapInv'
  OBVIOUS
<1>0. JobShape /\ JobShape'
  BY DEF ServingInv, Shape
<1>1. SUFFICES Snapped(job') /\ SearchInvOf(search')
  BY <1>0 DEF SnapInv
<1>2. CASE UNCHANGED <<search, job>>
  BY <1>2, OthersSnap
<1>3. CASE HandleBytes
  <2>1. (\E c : HandleURL(c.parser.uri)) \/ UNCHANGED <<search, job>>
    BY <1>3, Zenon DEF HandleBytes
  <2> QED
    BY <1>2, <2>1, RequestSnaps, Zenon
<1>4. CASE SendReply
  BY <1>4, IdleHolds DEF SendReply, NoJob, Snapped
<1>5. CASE SearchStep /\ UNCHANGED <<job, model>>
  <2>1. SearchInv'
    <3>1. SearchInv
      BY InvSays DEF SnapInv
    <3> QED
      BY <1>5, <3>1, SearchInvSteps
  <2> QED
    BY <1>5, <2>1, InvSaysNext DEF SnapInv
<1>6. CASE Snap
  BY <1>6, SnapSnaps
<1>7. CASE Answer
  <2>1. PICK reply : job' = [job EXCEPT !.stage = "answered", !.reply = reply]
    BY <1>7, Zenon DEF Answer
  <2>2. job'.stage = "answered"
    BY <1>0, <2>1 DEF JobShape
  <2> QED
    BY <1>7, <2>2, OthersSnap DEF Answer
<1>8. CASE BeginMatching
  <2>1. \/ job' = [job EXCEPT !.stage = "answered", !.reply = Error("NoSegment")]
        \/ job' = [job EXCEPT !.stage = "matching"]
    BY <1>8, Zenon DEF BeginMatching
  <2>2. job'.stage # "snapping"
    BY <1>0, <2>1 DEF JobShape
  <2> QED
    BY <1>8, <2>2, OthersSnap DEF BeginMatching
<1>9. CASE MatchPoint
  BY <1>2, <1>9 DEF MatchPoint
<1>10. CASE EndMatching
  <2>1. PICK reply : job' = [job EXCEPT !.stage = "answered", !.reply = reply]
    BY <1>10, Zenon DEF EndMatching
  <2>2. job'.stage = "answered"
    BY <1>0, <2>1 DEF JobShape
  <2> QED
    BY <1>10, <2>2, OthersSnap DEF EndMatching
<1>11. CASE HandleAccept \/ HandleReadError \/ handle_write \/ handle_timeout \/ KernelStep \/ Send \/ Leave
  BY <1>2, <1>11 DEF HandleAccept, HandleReadError, handle_write, handle_timeout, KernelStep, ReadSome, ReadEnd,
                     WriteAll, Expire, NoticeClose, Send, Leave
<1>12. CASE UNCHANGED vars
  BY <1>2, <1>12 DEF vars
<1> QED
  BY <1>3, <1>4, <1>5, <1>6, <1>7, <1>8, <1>9, <1>10, <1>11, <1>12 DEF Next, ServerStep, QueryStep

LEMMA SnapInvInit == Init => SnapInv
<1> SUFFICES ASSUME Init PROVE SnapInv
  OBVIOUS
<1>1. search = Idle /\ job = NoJob
  BY DEF Init
<1> QED
  BY <1>1, IdleHolds DEF SnapInv, Snapped, NoJob, JobShape

(* SearchExact for any map, any packed tree over it, and any requests: what  *)
(* StaticRTree::Nearest puts out, when the terminators of GeospatialQuery    *)
(* end it, is what a look at every segment would find: the asked number of   *)
(* the nearest segments that may be used, within reach and in order of       *)
(* distance; for a query with alternatives all segments at the nearest place *)
(* and at the nearest place of a big component.                              *)
THEOREM SearchesAreExact == Spec => []SearchExact
<1>1. SnapInv => SearchExact
  BY ExactSays DEF SnapInv, SearchInvOf
<1>2. Spec => []SnapInv
  BY ServingAlways, SnapInvInit, SnapInvStep, PTL DEF Spec
<1> QED
  BY <1>1, <1>2, PTL

(***************************************************************************)
(* Snapping the coordinates of a route to one component.                   *)
(***************************************************************************)

(* The streets are one main network and small components beside it. *)
OneMainNetwork ==
  \A m, n \in DOMAIN GetComponentID :
     ~GetComponentID[m].is_tiny /\ ~GetComponentID[n].is_tiny => GetComponentID[m].id = GetComponentID[n].id

ForRoutes(request) == request.service \in {"table", "route", "trip"}
FoundWellAll(request, list) == \A i \in DOMAIN list : FoundWell(list[i], Ask(request, i))
IsList(list) == Len(list) \in Nat /\ DOMAIN list = 1..Len(list)
Followed(j, s) ==
  /\ j.stage = "snapping" => s.phase # "idle" /\ s.ask = Ask(j.request, Len(j.found) + 1)
  /\ j.stage \in {"snapping", "snapped"} /\ ForRoutes(j.request) => FoundWellAll(j.request, j.found)
  /\ j.stage = "snapped" => IsList(j.found) /\ 1 \in DOMAIN j.found
FoundInv == FormInv(search) /\ Followed(job, search)

LEMMA AsksAlternatives ==
  ASSUME NEW request, NEW i, ForRoutes(request)
  PROVE  Ask(request, i).alternatives
BY DEF Ask, ForRoutes

LEMMA RefuseFollowed ==
  ASSUME NEW request, NEW code, Refuse(request, code)
  PROVE  FormInv(search') /\ Followed(job', search')
<1>1. job'.stage = "answered" /\ search' = Idle
  BY DEF Refuse, NoJob
<1>2. FormInv(search')
  BY <1>1, BegunFormed, Zenon
<1> QED
  BY <1>1, <1>2 DEF Followed

LEMMA StartFollowed ==
  ASSUME NEW request, NEW tidied, StartSnapping(request, tidied)
  PROVE  FormInv(search') /\ Followed(job', search')
<1>1. job'.request = tidied /\ job'.found = <<>> /\ job'.stage = "snapping" /\ search' = Begun(Ask(tidied, 1))
  BY DEF StartSnapping, NoJob
<1>2. FormInv(search')
  BY <1>1, BegunFormed, Zenon
<1>3. search'.phase # "idle" /\ search'.ask = Ask(tidied, 1)
  BY <1>1 DEF Begun
<1>4. Len(job'.found) + 1 = 1 /\ DOMAIN job'.found = {}
  BY <1>1
<1>5. FoundWellAll(job'.request, job'.found)
  BY <1>4 DEF FoundWellAll
<1> QED
  BY <1>1, <1>2, <1>3, <1>4, <1>5 DEF Followed

LEMMA RequestFollowed ==
  ASSUME NEW uri, HandleURL(uri)
  PROVE  FormInv(search') /\ Followed(job', search')
<1>1. \/ \E request, code : Refuse(request, code)
      \/ \E request, tidied : StartSnapping(request, tidied)
  BY Zenon DEF HandleURL, HandleRequest
<1> QED
  BY <1>1, RefuseFollowed, StartFollowed, Zenon

LEMMA ExtendsWell ==
  ASSUME NEW request, NEW list, NEW found, NEW longer, list \in Seq({list[k] : k \in DOMAIN list}),
         FoundWellAll(request, list), FoundWell(found, Ask(request, Len(list) + 1)),
         IsAppended(list, found, longer)
  PROVE  FoundWellAll(request, longer)
<1> SUFFICES ASSUME NEW i \in DOMAIN longer PROVE FoundWell(longer[i], Ask(request, i))
  BY DEF FoundWellAll
<1>1. Len(list) \in Nat /\ DOMAIN list = 1..Len(list)
  OBVIOUS
<1>2. CASE i \in DOMAIN list
  BY <1>1, <1>2 DEF FoundWellAll, IsAppended
<1>3. CASE i \notin DOMAIN list
  BY <1>1, <1>3 DEF IsAppended
<1> QED
  BY <1>2, <1>3

LEMMA SnapFollowed ==
  ASSUME SnapInv, FoundInv, Snap
  PROVE  FormInv(search') /\ Followed(job', search')
<1>0. /\ job.stage = "snapping" /\ search.phase = "done" /\ JobShape
      /\ job.found \in Seq({job.found[k] : k \in DOMAIN job.found})
      /\ search.ask = Ask(job.request, Len(job.found) + 1)
  BY DEF Snap, SnapInv, Snapped, FoundInv, Followed
<1>10. PICK found \in {Found} : \E list \in {Append(job.found, found)} :
         IF Nothing(Last(list)) /\ job.request.service # "match"
         THEN /\ job' = [job EXCEPT !.stage = "answered", !.reply = Error("NoSegment")]
              /\ search' = Idle
         ELSE IF Len(list) < Len(job.request.coordinates)
         THEN /\ job' = [job EXCEPT !.found = list]
              /\ search' = Begun(Ask(job.request, Len(list) + 1))
         ELSE /\ job' = [job EXCEPT !.found = list, !.stage = "snapped"]
              /\ search' = Idle
  BY DEF Snap
<1>1. PICK list \in {Append(job.found, found)} :
         \/ job' = [job EXCEPT !.stage = "answered", !.reply = Error("NoSegment")] /\ search' = Idle
         \/ job' = [job EXCEPT !.found = list] /\ search' = Begun(Ask(job.request, Len(list) + 1))
         \/ job' = [job EXCEPT !.found = list, !.stage = "snapped"] /\ search' = Idle
  BY <1>10, Zenon
<1>2. IsAppended(job.found, found, list)
  BY <1>0, Appended
<1>3. FormInv(search')
  BY <1>1, BegunFormed, Zenon
<1>4. ForRoutes(job.request) => FoundWellAll(job.request, list)
  <2> SUFFICES ASSUME ForRoutes(job.request) PROVE FoundWellAll(job.request, list)
    OBVIOUS
  <2>1. search.ask.alternatives
    BY <1>0, AsksAlternatives
  <2>2. FoundWell(found, Ask(job.request, Len(job.found) + 1))
    <3>1. SearchInvOf(search) /\ FormInv(search)
      BY DEF SnapInv, FoundInv
    <3>2. FoundWell(Found, search.ask)
      BY <1>0, <2>1, <3>1, FoundIsWell
    <3> QED
      BY <1>0, <1>1, <3>2
  <2>3. FoundWellAll(job.request, job.found)
    BY <1>0 DEF FoundInv, Followed
  <2> QED
    BY <1>0, <1>2, <2>2, <2>3, ExtendsWell
<1>5. IsList(list) /\ 1 \in DOMAIN list
  <2>1. list \in Seq({list[k] : k \in DOMAIN list}) /\ Len(list) = Len(job.found) + 1 /\ Len(job.found) \in Nat
    BY <1>0, <1>2 DEF IsAppended
  <2> QED
    BY <2>1 DEF IsList
<1>6. CASE job' = [job EXCEPT !.stage = "answered", !.reply = Error("NoSegment")] /\ search' = Idle
  <2>1. job'.stage = "answered"
    BY <1>0, <1>6 DEF JobShape
  <2> QED
    BY <1>3, <2>1 DEF Followed
<1>7. CASE job' = [job EXCEPT !.found = list] /\ search' = Begun(Ask(job.request, Len(list) + 1))
  <2>1. job'.request = job.request /\ job'.found = list /\ job'.stage = "snapping"
    BY <1>0, <1>7 DEF JobShape
  <2>2. search'.phase # "idle" /\ search'.ask = Ask(job'.request, Len(job'.found) + 1)
    BY <1>7, <2>1 DEF Begun
  <2> QED
    BY <1>3, <1>4, <2>1, <2>2 DEF Followed
<1>8. CASE job' = [job EXCEPT !.found = list, !.stage = "snapped"] /\ search' = Idle
  <2>1. job'.request = job.request /\ job'.found = list /\ job'.stage = "snapped"
    BY <1>0, <1>8 DEF JobShape
  <2> QED
    BY <1>3, <1>4, <1>5, <2>1 DEF Followed
<1> QED
  BY <1>1, <1>6, <1>7, <1>8

LEMMA FoundInvStep == ServingInv /\ SnapInv /\ FoundInv /\ ServingInv' /\ [Next]_vars => FoundInv'
<1> SUFFICES ASSUME ServingInv, SnapInv, FoundInv, ServingInv', [Next]_vars PROVE FoundInv'
  OBVIOUS
<1>0. JobShape /\ JobShape'
  BY DEF ServingInv, Shape
<1>1. SUFFICES FormInv(search') /\ Followed(job', search')
  BY DEF FoundInv, FormInv, Formed, FromMap, SmallAtNearest, Followed, FoundWellAll
<1>2. CASE UNCHANGED <<search, job>>
  BY <1>2 DEF FoundInv
<1>20. ASSUME search' = search, job'.stage = "answered" \/ job'.stage = "matching"
       PROVE  FormInv(search') /\ Followed(job', search')
  BY <1>20 DEF FoundInv, Followed
<1>3. CASE HandleBytes
  <2>1. (\E c : HandleURL(c.parser.uri)) \/ UNCHANGED <<search, job>>
    BY <1>3, Zenon DEF HandleBytes
  <2> QED
    BY <1>2, <2>1, RequestFollowed, Zenon
<1>4. CASE SendReply
  <2>1. search' = Idle /\ job' = NoJob
    BY <1>4 DEF SendReply
  <2>2. FormInv(search')
    BY <2>1, BegunFormed, Zenon
  <2> QED
    BY <2>1, <2>2 DEF Followed, NoJob
<1>5. CASE SearchStep /\ UNCHANGED <<job, model>>
  <2>1. SearchInvOf(search) /\ FormInv(search) /\ Followed(job, search)
    BY DEF SnapInv, FoundInv
  <2>2. FormInv(search') /\ search'.ask = search.ask /\ search'.phase # "idle"
    BY <1>5, <2>1, FormSteps
  <2> QED
    BY <1>5, <2>1, <2>2 DEF Followed
<1>6. CASE Snap
  BY <1>6, SnapFollowed
<1>7. CASE Answer
  <2>1. PICK reply : job' = [job EXCEPT !.stage = "answered", !.reply = reply]
    BY <1>7, Zenon DEF Answer
  <2>2. job'.stage = "answered"
    BY <1>0, <2>1 DEF JobShape
  <2> QED
    BY <1>7, <1>20, <2>2 DEF Answer
<1>8. CASE BeginMatching
  <2>1. \/ job' = [job EXCEPT !.stage = "answered", !.reply = Error("NoSegment")]
        \/ job' = [job EXCEPT !.stage = "matching"]
    BY <1>8, Zenon DEF BeginMatching
  <2>2. job'.stage = "answered" \/ job'.stage = "matching"
    BY <1>0, <2>1 DEF JobShape
  <2> QED
    BY <1>8, <1>20, <2>2 DEF BeginMatching
<1>9. CASE MatchPoint
  BY <1>2, <1>9 DEF MatchPoint
<1>10. CASE EndMatching
  <2>1. PICK reply : job' = [job EXCEPT !.stage = "answered", !.reply = reply]
    BY <1>10, Zenon DEF EndMatching
  <2>2. job'.stage = "answered"
    BY <1>0, <2>1 DEF JobShape
  <2> QED
    BY <1>10, <1>20, <2>2 DEF EndMatching
<1>11. CASE HandleAccept \/ HandleReadError \/ handle_write \/ handle_timeout \/ KernelStep \/ Send \/ Leave
  BY <1>2, <1>11 DEF HandleAccept, HandleReadError, handle_write, handle_timeout, KernelStep, ReadSome, ReadEnd,
                     WriteAll, Expire, NoticeClose, Send, Leave
<1>12. CASE UNCHANGED vars
  BY <1>2, <1>12 DEF vars
<1> QED
  BY <1>3, <1>4, <1>5, <1>6, <1>7, <1>8, <1>9, <1>10, <1>11, <1>12 DEF Next, ServerStep, QueryStep

LEMMA FoundInvInit == Init => FoundInv
<1> SUFFICES ASSUME Init PROVE FoundInv
  OBVIOUS
<1>1. search = Idle /\ job = NoJob
  BY DEF Init
<1>2. FormInv(search)
  BY <1>1, BegunFormed, Zenon
<1> QED
  BY <1>1, <1>2 DEF FoundInv, Followed, NoJob

(* A component that a list has, or that all lists have. *)
AtOne(lists) ==
  \E k \in DOMAIN lists[1] : \A i \in DOMAIN lists : HaveComponent(lists[i], lists[1][k].component.id)

LEMMA BigAtOne ==
  ASSUME OneMainNetwork, NEW lists, 1 \in DOMAIN lists,
         \A i \in DOMAIN lists : \E c : IsBig(c) /\ Has(lists[i], c)
  PROVE  AtOne(lists)
<1>1. PICK k \in DOMAIN lists[1] : IsBig(lists[1][k].component)
  BY DEF Has
<1>2. ASSUME NEW i \in DOMAIN lists PROVE HaveComponent(lists[i], lists[1][k].component.id)
  <2>1. PICK m \in DOMAIN lists[i] : IsBig(lists[i][m].component)
    BY DEF Has
  <2>2. lists[i][m].component.id = lists[1][k].component.id
    BY <1>1, <2>1 DEF IsBig, OneMainNetwork
  <2> QED
    BY <2>2 DEF HaveComponent
<1> QED
  BY <1>2 DEF AtOne

(* What was found well for every coordinate is snapped to one component. *)
LEMMA WellTogether ==
  ASSUME OneMainNetwork, NEW found, IsList(found), 1 \in DOMAIN found, NEW request, FoundWellAll(request, found),
         \A i \in DOMAIN found : \E q \in WithinReach(Ask(request, i)) : ~q.tiny,
         NEW snapped, snapped = SnapPhantomNodes(found)
  PROVE  AtOne(snapped)
<1> DEFINE noAlternatives == \A i \in DOMAIN found : found[i].second = <<>>
           sameTiny == \E k \in DOMAIN found[1].first :
                          /\ found[1].first[k].component.is_tiny
                          /\ \A j \in 2..Len(found) : HaveComponent(found[j].first, found[1].first[k].component.id)
<1>1. /\ DOMAIN snapped = DOMAIN found
      /\ \A i \in DOMAIN found :
            snapped[i] = IF noAlternatives \/ sameTiny \/ found[i].second = <<>> THEN found[i].first ELSE found[i].second
  BY DEF SnapPhantomNodes
<1>2. CASE sameTiny
  <2>1. PICK k \in DOMAIN found[1].first :
          \A j \in 2..Len(found) : HaveComponent(found[j].first, found[1].first[k].component.id)
    BY <1>2
  <2>2. \A i \in DOMAIN found : snapped[i] = found[i].first
    BY <1>1, <1>2
  <2>3. HaveComponent(found[1].first, found[1].first[k].component.id)
    BY DEF HaveComponent
  <2>4. \A i \in DOMAIN found : i = 1 \/ i \in 2..Len(found)
    BY DEF IsList
  <2> HIDE DEF sameTiny
  <2>5. \A i \in DOMAIN snapped : HaveComponent(snapped[i], snapped[1][k].component.id)
    BY <1>1, <2>1, <2>2, <2>3, <2>4
  <2>6. k \in DOMAIN snapped[1]
    BY <2>2
  <2> QED
    BY <2>5, <2>6 DEF AtOne
<1>3. CASE ~sameTiny
  <2> SUFFICES ASSUME NEW i \in DOMAIN snapped PROVE \E c : IsBig(c) /\ Has(snapped[i], c)
    BY <1>1, BigAtOne
  <2>0. FoundWell(found[i], Ask(request, i)) /\ (\E q \in WithinReach(Ask(request, i)) : ~q.tiny)
    BY <1>1 DEF FoundWellAll
  <2>1. CASE found[i].second = <<>>
    <3>1. snapped[i] = found[i].first
      BY <1>1, <2>1
    <3>2. \A c : ~Has(found[i].second, c)
      BY <2>1 DEF Has
    <3>3. \E c : IsBig(c) /\ (Has(found[i].first, c) \/ Has(found[i].second, c))
      BY <2>0 DEF FoundWell
    <3> QED
      BY <3>1, <3>2, <3>3
  <2>2. CASE found[i].second # <<>>
    <3>1. snapped[i] = found[i].second
      <4>1. ~noAlternatives
        BY <1>1, <2>2
      <4> HIDE DEF noAlternatives, sameTiny
      <4> QED
        BY <1>1, <1>3, <2>2, <4>1
    <3>2. (\E c : Has(found[i].second, c)) /\ (\A c : Has(found[i].second, c) => IsBig(c))
      BY <2>0, <2>2 DEF FoundWell
    <3> QED
      BY <3>1, <3>2
  <2> QED
    BY <2>1, <2>2
<1> QED
  BY <1>2, <1>3

LEMMA TogetherIs ==
  ASSUME OneMainNetwork, FoundInv
  PROVE  SnappedTogether
<1> SUFFICES ASSUME job.stage = "snapped", job.request.service \in {"table", "route", "trip"},
                    NEW snapped \in {SnapPhantomNodes(job.found)},
                    ~\E i \in DOMAIN snapped : \A s \in WithinReach(Ask(job.request, i)) : s.tiny
             PROVE  AtOne(snapped)
  BY DEF SnappedTogether, AtOne
<1>1. IsList(job.found) /\ 1 \in DOMAIN job.found /\ FoundWellAll(job.request, job.found)
  BY DEF FoundInv, Followed, ForRoutes
<1>2. DOMAIN snapped = DOMAIN job.found
  BY DEF SnapPhantomNodes
<1> QED
  BY <1>1, <1>2, WellTogether

(* SnapsExact for any map with one main network, any packed tree over it and *)
(* any requests: besides SearchExact, the candidates that SnapPhantomNodes   *)
(* leaves for a route, table or trip have a component in common, unless a    *)
(* coordinate has no segment of the main network within reach.               *)
THEOREM SnapsAreExact == OneMainNetwork => (Spec => []SnapsExact)
<1> SUFFICES ASSUME OneMainNetwork PROVE Spec => []SnapsExact
  OBVIOUS
<1>1. FoundInv => SnappedTogether
  BY TogetherIs
<1>2. Spec => [](ServingInv /\ SnapInv /\ FoundInv)
  BY ServingAlways, SnapInvInit, SnapInvStep, FoundInvInit, FoundInvStep, PTL DEF Spec
<1>3. SearchExact /\ SnappedTogether => SnapsExact
  BY DEF SnapsExact
<1> QED
  BY <1>1, <1>2, <1>3, SearchesAreExact, PTL
==============================================================================
