-------------------------- MODULE PreparationProofs --------------------------
(* What prepares a map for the queries: the cells of the partition are nested *)
(* (MultiLevel), and new traffic (Updater) loses no write of tasks that set   *)
(* packed weights side by side. The numbers of the words first, which both    *)
(* need; then the places of the weights in them, the lists of what is to be   *)
(* set, and the tasks; then the cells.                                        *)
EXTENDS LawfulWalks, MultiLevel, WellFoundedInduction, FiniteSetTheorems, TLAPS

(***************************************************************************)
(* Quotients and remainders.                                               *)
(***************************************************************************)

Middle(word, a, b) == (word \div a) % b
Written(word, a, b, v) == word - Middle(word, a, b) * a + (v % b) * a
Positive == Nat \ {0}

LEMMA Distributes ==
  ASSUME NEW a \in Int, NEW x \in Int, NEW y \in Int
  PROVE  a * (x + y) = a * x + a * y /\ a * x \in Int
OBVIOUS

LEMMA Associates ==
  ASSUME NEW a \in Int, NEW x \in Int, NEW y \in Int
  PROVE  a * (x * y) = (a * x) * y
OBVIOUS

(* The quotient and the remainder are the only ones. *)
LEMMA Quotient ==
  ASSUME NEW d \in Positive, NEW q \in Int, NEW r \in 0..d - 1, NEW n, n = d * q + r
  PROVE  n \div d = q /\ n % d = r
BY DEF Positive

LEMMA Divides ==
  ASSUME NEW n \in Nat, NEW d \in Positive
  PROVE  n \div d \in Nat /\ n % d \in 0..d - 1 /\ n = d * (n \div d) + (n % d)
BY DEF Positive

LEMMA Products ==
  ASSUME NEW a \in Positive, NEW b \in Positive
  PROVE  a * b \in Positive
BY DEF Positive

LEMMA Less ==
  ASSUME NEW a \in Positive, NEW b \in Positive, NEW r \in 0..a - 1, NEW s \in 0..b - 1
  PROVE  a * s + r \in 0..a * b - 1
<1>1. s + 1 <= b
  BY DEF Positive
<1>2. a * (s + 1) <= a * b
  BY <1>1 DEF Positive
<1>3. a * (s + 1) = a * s + a /\ a * s \in Nat
  BY DEF Positive
<1>4. a * b \in Nat
  BY DEF Positive
<1> QED
  BY <1>2, <1>3, <1>4 DEF Positive

(* Two divisions are one. *)
LEMMA DivTwice ==
  ASSUME NEW n \in Nat, NEW a \in Positive, NEW b \in Positive
  PROVE  n \div (a * b) = (n \div a) \div b
<1> PICK q \in Nat, r \in 0..a - 1 : n = a * q + r /\ q = n \div a
  BY Divides
<1> PICK p \in Nat, s \in 0..b - 1 : q = b * p + s /\ p = q \div b
  BY Divides
<1>1. n = (a * b) * p + (a * s + r)
  <2>0. b * p \in Int
    BY DEF Positive
  <2>1. a * (b * p + s) = a * (b * p) + a * s
    BY <2>0, Distributes DEF Positive
  <2>2. a * (b * p) = (a * b) * p
    BY Associates DEF Positive
  <2>3. n = a * (b * p + s) + r
    OBVIOUS
  <2>4. (a * b) * p \in Int /\ a * s \in Int
    BY DEF Positive
  <2> QED
    BY <2>1, <2>2, <2>3, <2>4
<1>2. a * s + r \in 0..a * b - 1
  BY Less
<1>3. a * b \in Positive
  BY Products
<1> QED
  <2> PICK c \in Positive : c = a * b
    BY <1>3
  <2> PICK t \in 0..c - 1 : t = a * s + r
    BY <1>2
  <2>1. n \div c = p
    BY <1>1, Quotient
  <2> QED
    BY <2>1

(* A word in three parts, and what is written into the middle one. *)
InParts(word, new, a, b, v, lo, mid, hi) ==
  /\ lo \in 0..a - 1 /\ mid \in 0..b - 1 /\ hi \in Nat
  /\ word = a * (b * hi + mid) + lo
  /\ Middle(word, a, b) = mid
  /\ v % b \in 0..b - 1
  /\ new = a * (b * hi + (v % b)) + lo

LEMMA WordInParts ==
  ASSUME NEW word \in Nat, NEW a \in Positive, NEW b \in Positive, NEW v \in Nat
  PROVE  \E lo, mid, hi : InParts(word, Written(word, a, b, v), a, b, v, lo, mid, hi)
<1> PICK q \in Nat, lo \in 0..a - 1 : word = a * q + lo /\ q = word \div a
  BY Divides
<1> PICK hi \in Nat, mid \in 0..b - 1 : q = b * hi + mid /\ mid = q % b
  BY Divides
<1> PICK w \in 0..b - 1 : w = v % b
  BY Divides
<1>1. Middle(word, a, b) = mid
  BY DEF Middle
<1>2. Written(word, a, b, v) = word - mid * a + w * a
  BY <1>1 DEF Written
<1>3. word - mid * a + w * a = a * (b * hi + w) + lo
  <2> PICK h \in Nat : h = b * hi
    BY DEF Positive
  <2>1. a * (h + mid) = a * h + a * mid /\ a * (h + w) = a * h + a * w
    BY Distributes DEF Positive
  <2>2. a * mid = mid * a /\ a * w = w * a /\ a * h \in Int /\ mid * a \in Int /\ w * a \in Int
    BY DEF Positive
  <2>3. word = a * (h + mid) + lo
    OBVIOUS
  <2> QED
    BY <2>1, <2>2, <2>3
<1>4. word = a * (b * hi + mid) + lo
  OBVIOUS
<1>5. InParts(word, Written(word, a, b, v), a, b, v, lo, mid, hi)
  BY <1>1, <1>2, <1>3, <1>4 DEF InParts
<1> QED
  BY <1>5

(* What is written is read. *)
LEMMA ReadsWritten ==
  ASSUME NEW word \in Nat, NEW a \in Positive, NEW b \in Positive, NEW v \in Nat
  PROVE  Written(word, a, b, v) \in Nat /\ Middle(Written(word, a, b, v), a, b) = v % b
<1> PICK new : new = Written(word, a, b, v)
  OBVIOUS
<1> PICK lo, mid, hi : InParts(word, new, a, b, v, lo, mid, hi)
  BY WordInParts
<1> PICK w \in 0..b - 1 : w = v % b
  BY DEF InParts
<1> USE DEF InParts
<1> PICK q \in Nat : q = b * hi + w
  BY DEF Positive
<1>1. new = a * q + lo
  OBVIOUS
<1>2. new \in Nat
  BY <1>1 DEF Positive
<1>3. new \div a = q
  BY <1>1, Quotient
<1>4. q % b = w
  BY Quotient
<1>5. Middle(new, a, b) = w
  BY <1>3, <1>4 DEF Middle
<1> QED
  BY <1>2, <1>5

(* What lies above is left alone, *)
LEMMA KeepsAbove ==
  ASSUME NEW word \in Nat, NEW a \in Positive, NEW b \in Positive, NEW v \in Nat, NEW c \in Positive, NEW d
  PROVE  Middle(Written(word, a, b, v), a * b * c, d) = Middle(word, a * b * c, d)
<1> PICK new \in Nat : new = Written(word, a, b, v)
  BY ReadsWritten
<1> PICK lo, mid, hi : InParts(word, new, a, b, v, lo, mid, hi)
  BY WordInParts
<1> PICK w \in 0..b - 1 : w = v % b
  BY DEF InParts
<1>a. lo \in 0..a - 1 /\ hi \in Nat
  BY DEF InParts
<1>b. word = a * (b * hi + mid) + lo /\ mid \in 0..b - 1 /\ new = a * (b * hi + w) + lo
  BY DEF InParts
<1>0. PICK ab \in Positive : ab = a * b
  BY Products
<1>1. ASSUME NEW x \in 0..b - 1, NEW n \in Nat, n = a * (b * hi + x) + lo PROVE n \div ab = hi
  <2>1. PICK t \in 0..ab - 1 : t = a * x + lo
    BY <1>0, <1>a, Less
  <2>2. a * (b * hi + x) = a * (b * hi) + a * x
    BY <1>a, Distributes DEF Positive
  <2>3. a * (b * hi) = ab * hi
    BY <1>0, <1>a, Associates DEF Positive
  <2>4. n = ab * hi + t
    BY <1>0, <1>1, <1>a, <2>1, <2>2, <2>3 DEF Positive
  <2> QED
    BY <1>a, <2>4, Quotient
<1>2. new \div ab = hi /\ word \div ab = hi
  BY <1>1, <1>b
<1>3. new \div (ab * c) = hi \div c /\ word \div (ab * c) = hi \div c
  <2>1. new \div (ab * c) = (new \div ab) \div c
    BY DivTwice
  <2>2. word \div (ab * c) = (word \div ab) \div c
    BY DivTwice
  <2> QED
    BY <1>2, <2>1, <2>2
<1>4. ab * c = a * b * c
  BY <1>0
<1> QED
  BY <1>3, <1>4 DEF Middle

(* and so is what lies below. *)
LEMMA KeepsBelow ==
  ASSUME NEW word \in Nat, NEW a \in Positive, NEW b \in Positive, NEW v \in Nat, NEW c \in Positive, NEW d \in Positive, NEW e \in Positive,
         a = c * d * e
  PROVE  Middle(Written(word, a, b, v), c, d) = Middle(word, c, d)
<1> PICK new \in Nat : new = Written(word, a, b, v)
  BY ReadsWritten
<1> PICK lo, mid, hi : InParts(word, new, a, b, v, lo, mid, hi)
  BY WordInParts
<1> PICK w \in 0..b - 1 : w = v % b
  BY DEF InParts
<1>a. lo \in 0..a - 1 /\ hi \in Nat
  BY DEF InParts
<1>b. word = a * (b * hi + mid) + lo /\ mid \in 0..b - 1 /\ new = a * (b * hi + w) + lo
  BY DEF InParts
<1>l. lo \in Nat
  BY <1>a DEF Positive
<1>0. PICK q \in Nat, r \in 0..c - 1 : lo = c * q + r
  BY <1>l, Divides, ZenonT(40)
<1>00. PICK p \in Nat, s \in 0..d - 1 : q = d * p + s
  BY Divides, ZenonT(40)
<1>1. ASSUME NEW x \in 0..b - 1, NEW n \in Nat, n = a * (b * hi + x) + lo PROVE Middle(n, c, d) = s
  <2> PICK k \in Nat : k = b * hi + x
    BY <1>a DEF Positive
  <2> PICK m \in Nat : m = e * k
    BY DEF Positive
  <2> PICK j \in Nat : j = d * m
    BY DEF Positive
  <2>3. a * k = c * j
    <3>1. a * k = (c * d) * m
      BY Associates DEF Positive
    <3>2. (c * d) * m = c * j
      BY Associates DEF Positive
    <3> QED
      BY <3>1, <3>2
  <2> PICK f \in Nat : f = j + q
    OBVIOUS
  <2>4. c * f = c * j + c * q
    BY Distributes DEF Positive
  <2>5. n = c * f + r
    <3>1. n = c * j + (c * q + r)
      BY <1>0, <1>1, <2>3
    <3>2. c * j \in Int /\ c * q \in Int
      BY DEF Positive
    <3> QED
      BY <2>4, <3>1, <3>2
  <2>6. n \div c = f
    BY <2>5, Quotient
  <2> PICK h \in Nat : h = m + p
    OBVIOUS
  <2>7. d * h = d * m + d * p /\ d * p \in Int
    BY Distributes DEF Positive
  <2>8. f = d * h + s
    BY <1>00, <2>7
  <2>9. f % d = s
    BY <2>8, Quotient
  <2> QED
    BY <2>6, <2>9 DEF Middle
<1>2. Middle(new, c, d) = s /\ Middle(word, c, d) = s
  BY <1>1, <1>b
<1> QED
  BY <1>2

(***************************************************************************)
(* Least elements, and loops.                                              *)
(***************************************************************************)

LEMMA Smallest ==
  ASSUME NEW S, S \subseteq Nat, S # {}
  PROVE  \E m \in S : \A k \in S : m <= k
<1>1. PICK m \in S : \A k \in S : ~(<<k, m>> \in OpToRel(<, Nat))
  BY NatLessThanWellFounded, WFMin
<1>2. \A k \in S : m <= k
  <2> SUFFICES ASSUME NEW k \in S, k < m PROVE FALSE
    OBVIOUS
  <2>1. <<k, m>> \in OpToRel(<, Nat)
    BY DEF OpToRel
  <2> QED
    BY <1>1, <2>1
<1> QED
  BY <1>2

LEMMA TwoOf ==
  ASSUME NEW a \in Int, NEW b \in Int
  PROVE  /\ Min({a, b}) = IF a <= b THEN a ELSE b
         /\ Max({a, b}) = IF a >= b THEN a ELSE b
<1>1. Min({a, b}) = IF a <= b THEN a ELSE b
  <2> DEFINE m == IF a <= b THEN a ELSE b
  <2>1. m \in {a, b} /\ \A y \in {a, b} : m <= y
    OBVIOUS
  <2>2. \A x \in {a, b} : (\A y \in {a, b} : x <= y) => x = m
    OBVIOUS
  <2> QED
    BY <2>1, <2>2 DEF Min
<1>2. Max({a, b}) = IF a >= b THEN a ELSE b
  <2> DEFINE m == IF a >= b THEN a ELSE b
  <2>1. m \in {a, b} /\ \A y \in {a, b} : m >= y
    OBVIOUS
  <2>2. \A x \in {a, b} : (\A y \in {a, b} : x >= y) => x = m
    OBVIOUS
  <2> QED
    BY <2>1, <2>2 DEF Max
<1> QED
  BY <1>1, <1>2

LEMMA Inducted ==
  ASSUME NEW n \in Nat, NEW Good, 0 \in Good, \A i \in 1..n : i - 1 \in Good => i \in Good
  PROVE  0..n \subseteq Good
<1> DEFINE Bad == {i \in 0..n : i \notin Good}
<1> SUFFICES ASSUME Bad # {} PROVE FALSE
  OBVIOUS
<1>1. PICK m \in Bad : \A k \in Bad : m <= k
  <2>1. Bad \subseteq Nat
    OBVIOUS
  <2> HIDE DEF Bad
  <2> QED
    BY <2>1, Smallest
<1>2. m \in 1..n
  OBVIOUS
<1>3. m - 1 \in 0..n /\ ~(m <= m - 1)
  BY <1>2
<1>4. m - 1 \in Good
  BY <1>1, <1>3
<1> QED
  BY <1>2, <1>4

Runs(h, n, S, start, F) == h \in [0..n -> S] /\ h[0] = start /\ \A i \in 1..n : h[i] = F[i][h[i - 1]]

LEMMA LoopRuns ==
  ASSUME NEW n \in Nat, NEW S, NEW start \in S, NEW F \in [1..n -> [S -> S]]
  PROVE  \E h : Runs(h, n, S, start, F)
<1> DEFINE Upto(m) == \E h \in [0..m -> S] : h[0] = start /\ \A i \in 1..m : h[i] = F[i][h[i - 1]]
           Good == {m \in 0..n : Upto(m)}
<1>1. 0 \in Good
  <2>1. Upto(0)
    <3> DEFINE h == [i \in 0..0 |-> start]
    <3>1. h \in [0..0 -> S] /\ h[0] = start /\ \A i \in 1..0 : h[i] = F[i][h[i - 1]]
      OBVIOUS
    <3> QED
      BY <3>1, Zenon
  <2> QED
    BY <2>1
<1>2. ASSUME NEW m \in 1..n, m - 1 \in Good PROVE m \in Good
  <2>1. PICK h \in [0..m - 1 -> S] : h[0] = start /\ \A i \in 1..m - 1 : h[i] = F[i][h[i - 1]]
    BY <1>2
  <2> DEFINE f == [i \in 0..m |-> IF i = m THEN F[m][h[m - 1]] ELSE h[i]]
  <2>2. f \in [0..m -> S]
    <3>1. h[m - 1] \in S
      OBVIOUS
    <3>2. F[m][h[m - 1]] \in S
      BY <3>1
    <3>3. \A i \in 0..m : i # m => h[i] \in S
      OBVIOUS
    <3> QED
      BY <3>2, <3>3
  <2>3. f[0] = start
    BY <2>1
  <2>4. \A i \in 1..m : f[i] = F[i][f[i - 1]]
    <3> SUFFICES ASSUME NEW i \in 1..m PROVE f[i] = F[i][f[i - 1]]
      OBVIOUS
    <3>1. f[i - 1] = h[i - 1]
      OBVIOUS
    <3>2. CASE i = m
      BY <3>1, <3>2
    <3>3. CASE i # m
      <4>1. i \in 1..m - 1 /\ f[i] = h[i]
        BY <3>3
      <4> QED
        BY <2>1, <3>1, <4>1
    <3> QED
      BY <3>2, <3>3
  <2> HIDE DEF f
  <2>5. Upto(m) /\ m \in 0..n
    BY <2>2, <2>3, <2>4
  <2> HIDE DEF Upto
  <2> QED
    BY <2>5
<1> HIDE DEF Upto
<1>3. 0..n \subseteq Good
  <2> HIDE DEF Good
  <2> QED
    BY <1>1, <1>2, Inducted
<1>4. n \in Good
  BY <1>3
<1>5. Upto(n)
  BY <1>4
<1> QED
  BY <1>5 DEF Upto, Runs


(***************************************************************************)
(* Powers of two, and the bits of a word.                                  *)
(***************************************************************************)

LEMMA PowerRuns ==
  /\ Power \in [0..WordBits -> Positive]
  /\ Power[0] = 1
  /\ \A n \in 1..WordBits : Power[n] = 2 * Power[n - 1]
<1> DEFINE F == [n \in 1..WordBits |-> [p \in Positive |-> 2 * p]]
           IsPower(h) == h = [n \in 0..WordBits |-> IF n = 0 THEN 1 ELSE 2 * h[n - 1]]
<1>0. WordBits \in Nat
  BY BitsAssumption
<1>1. PICK h : Runs(h, WordBits, Positive, 1, F)
  <2>1. F \in [1..WordBits -> [Positive -> Positive]] /\ 1 \in Positive
    BY DEF Positive
  <2> HIDE DEF F
  <2> QED
    BY <1>0, <2>1, LoopRuns, Zenon
<1>2. /\ h \in [0..WordBits -> Positive] /\ h[0] = 1
      /\ \A n \in 1..WordBits : h[n] = 2 * h[n - 1]
  <2>1. \A n \in 1..WordBits : h[n - 1] \in Positive
    BY <1>0, <1>1 DEF Runs
  <2> QED
    BY <1>1, <2>1 DEF Runs
<1>3. IsPower(h)
  <2>1. \A n \in 0..WordBits : h[n] = IF n = 0 THEN 1 ELSE 2 * h[n - 1]
    BY <1>0, <1>2
  <2> QED
    BY <1>2, <2>1
<1>4. Power = CHOOSE f : IsPower(f)
  BY DEF Power
<1>5. IsPower(Power)
  BY <1>3, <1>4
<1>6. Power[0] = 1 /\ \A n \in 1..WordBits : Power[n] = 2 * Power[n - 1]
  BY <1>0, <1>5
<1>7. 0..WordBits \subseteq {n \in 0..WordBits : Power[n] = h[n]}
  <2> DEFINE Good == {n \in 0..WordBits : Power[n] = h[n]}
  <2>1. 0 \in Good
    BY <1>0, <1>2, <1>6
  <2>2. \A n \in 1..WordBits : n - 1 \in Good => n \in Good
    BY <1>0, <1>2, <1>6
  <2> HIDE DEF Good
  <2>3. 0..WordBits \subseteq Good
    BY <1>0, <2>1, <2>2, Inducted
  <2> QED
    BY <2>3 DEF Good
<1>8. DOMAIN Power = 0..WordBits /\ Power = [n \in 0..WordBits |-> Power[n]]
  BY <1>5
<1>9. \A n \in 0..WordBits : Power[n] \in Positive
  BY <1>2, <1>7
<1> QED
  BY <1>6, <1>8, <1>9

LEMMA PowerSum ==
  ASSUME NEW a \in Nat, NEW b \in Nat, a + b <= WordBits
  PROVE  Power[a + b] = Power[a] * Power[b]
<1> DEFINE Good == {n \in 0..b : Power[a + n] = Power[a] * Power[n]}
<1>0. WordBits \in Nat /\ \A n \in 0..WordBits : Power[n] \in Positive
  BY BitsAssumption, PowerRuns
<1>1. 0 \in Good
  BY <1>0, PowerRuns DEF Positive
<1>2. ASSUME NEW n \in 1..b, n - 1 \in Good PROVE n \in Good
  <2>1. a + n \in 1..WordBits /\ n \in 1..WordBits /\ (a + n) - 1 = a + (n - 1)
    BY <1>0
  <2>2. Power[a + n] = 2 * Power[a + (n - 1)] /\ Power[n] = 2 * Power[n - 1]
    BY <2>1, PowerRuns
  <2>3. Power[a + (n - 1)] = Power[a] * Power[n - 1]
    BY <1>2
  <2>4. PICK p \in Int, q \in Int : p = Power[a] /\ q = Power[n - 1]
    BY <1>0, <2>1 DEF Positive
  <2>5. 2 * (p * q) = p * (2 * q)
    OBVIOUS
  <2> QED
    BY <2>2, <2>3, <2>4, <2>5
<1>3. 0..b \subseteq Good
  <2> HIDE DEF Good
  <2> QED
    BY <1>1, <1>2, Inducted
<1> QED
  BY <1>3

(* What is read of a word into which something was written. *)
LEMMA FieldRead ==
  ASSUME NEW word \in Nat, NEW o \in Nat, NEW w \in Nat, o + w <= WordBits, NEW v \in Nat
  PROVE  /\ Replaced(word, o, w, v) \in Nat
         /\ Field(Replaced(word, o, w, v), o, w) = v % Power[w]
<1>0. o \in 0..WordBits /\ w \in 0..WordBits
  BY BitsAssumption
<1>1. PICK a \in Positive, b \in Positive : a = Power[o] /\ b = Power[w]
  BY <1>0, PowerRuns
<1>2. \A x : Field(x, o, w) = Middle(x, a, b)
  BY <1>1 DEF Field, Middle
<1>3. Replaced(word, o, w, v) = Written(word, a, b, v)
  BY <1>1 DEF Replaced, Written, Field, Middle
<1>4. Written(word, a, b, v) \in Nat /\ Middle(Written(word, a, b, v), a, b) = v % b
  BY ReadsWritten
<1> QED
  BY <1>1, <1>2, <1>3, <1>4

(* Powers of the offsets of two fields, one above the other. *)
LEMMA PowersAbove ==
  ASSUME NEW o \in Nat, NEW w \in Nat, NEW p \in Nat, p <= WordBits, o + w <= p
  PROVE  \E e \in Positive : Power[p] = Power[o] * Power[w] * e
<1>0. WordBits \in Nat
  BY BitsAssumption
<1>1. PICK s \in Nat, r \in Nat : s = o + w /\ p = s + r
  <2> DEFINE s == o + w  r == p - s
  <2>1. s \in Nat /\ r \in Nat /\ s = o + w /\ p = s + r
    OBVIOUS
  <2> QED
    BY <2>1
<1>2. Power[s] = Power[o] * Power[w]
  BY <1>0, <1>1, PowerSum
<1>3. Power[p] = Power[s] * Power[r]
  BY <1>0, <1>1, PowerSum
<1>4. Power[r] \in Positive
  BY <1>0, <1>1, PowerRuns
<1> QED
  BY <1>2, <1>3, <1>4

LEMMA FieldKept ==
  ASSUME NEW word \in Nat, NEW o \in Nat, NEW w \in Nat, o + w <= WordBits, NEW v \in Nat,
         NEW p \in Nat, NEW z \in Nat, p + z <= WordBits, o + w <= p \/ p + z <= o
  PROVE  Field(Replaced(word, o, w, v), p, z) = Field(word, p, z)
<1>0. o \in 0..WordBits /\ w \in 0..WordBits /\ p \in 0..WordBits /\ z \in 0..WordBits
  BY BitsAssumption
<1>1. PICK a \in Positive, b \in Positive : a = Power[o] /\ b = Power[w]
  BY <1>0, PowerRuns
<1>2. PICK c \in Positive, d \in Positive : c = Power[p] /\ d = Power[z]
  BY <1>0, PowerRuns
<1>3. \A x : Field(x, p, z) = Middle(x, c, d)
  BY <1>2 DEF Field, Middle
<1>4. Replaced(word, o, w, v) = Written(word, a, b, v)
  BY <1>1 DEF Replaced, Written, Field, Middle
<1>5. CASE o + w <= p
  <2>1. PICK e \in Positive : c = a * b * e
    BY <1>0, <1>1, <1>2, <1>5, PowersAbove
  <2>2. Middle(Written(word, a, b, v), a * b * e, d) = Middle(word, a * b * e, d)
    BY KeepsAbove
  <2> QED
    BY <1>3, <1>4, <2>1, <2>2
<1>6. CASE p + z <= o
  <2>1. PICK e \in Positive : a = c * d * e
    BY <1>0, <1>1, <1>2, <1>6, PowersAbove
  <2>2. Middle(Written(word, a, b, v), c, d) = Middle(word, c, d)
    BY <2>1, KeepsBelow
  <2> QED
    BY <1>3, <1>4, <2>2
<1> QED
  BY <1>5, <1>6

(***************************************************************************)
(* The places of the weights. A weight has a field of its own in each of   *)
(* two words.                                                              *)
(***************************************************************************)

HalfNames == {"lower", "upper"}
Spot(p, half) == IF half = "lower" THEN get_internal_index(p).lower_word ELSE get_internal_index(p).lower_word + 1
Offset(p, half) == IF half = "lower" THEN lower_offset(get_internal_index(p).element) ELSE 0
Width(p, half) ==
  IF half = "lower" THEN LowerBits(get_internal_index(p).element) ELSE UpperBits(get_internal_index(p).element)

(* The bits of all values lie one behind the other. *)
LEMMA Behind ==
  ASSUME NEW p \in Nat
  PROVE  \E k \in Nat, o \in 0..WordBits - 1 :
           /\ Bits * p = WordBits * k + o
           /\ Spot(p, "lower") = k /\ Spot(p, "upper") = k + 1
           /\ Offset(p, "lower") = o /\ Offset(p, "upper") = 0
           /\ Width(p, "upper") = IF o + Bits > WordBits THEN o + Bits - WordBits ELSE 0
           /\ Width(p, "lower") = Bits - Width(p, "upper")
<1>0. WordBits \in Positive /\ Bits \in Nat
  BY BitsAssumption DEF Positive
<1>1. PICK block \in Nat, e \in 0..WordBits - 1 :
        block = p \div WordBits /\ e = p % WordBits /\ p = WordBits * block + e
  BY <1>0, Divides
<1>2. PICK s \in Nat : s = e * Bits
  BY <1>0
<1>3. PICK m \in Nat, o \in 0..WordBits - 1 : m = s \div WordBits /\ o = s % WordBits /\ s = WordBits * m + o
  BY <1>0, Divides
<1>4. PICK b \in Nat : b = Bits * block
  BY <1>0
<1>5. BlockWords = Bits
  <2>1. Bits * WordBits = WordBits * Bits + 0
    BY <1>0 DEF Positive
  <2>2. (Bits * WordBits) \div WordBits = Bits
    BY <1>0, <2>1, Quotient DEF Positive
  <2> QED
    BY <2>2 DEF BlockWords, BlockElements
<1>6. Bits * p = WordBits * (b + m) + o
  <2>1. Bits * (WordBits * block + e) = Bits * (WordBits * block) + Bits * e
    BY <1>0, Distributes DEF Positive
  <2>2. Bits * (WordBits * block) = WordBits * b
    <3>1. Bits * (WordBits * block) = (Bits * WordBits) * block
      BY <1>0, Associates DEF Positive
    <3>2. WordBits * (Bits * block) = (WordBits * Bits) * block
      BY <1>0, Associates DEF Positive
    <3>3. Bits * WordBits = WordBits * Bits
      BY <1>0 DEF Positive
    <3> QED
      BY <1>4, <3>1, <3>2, <3>3
  <2>3. WordBits * (b + m) = WordBits * b + WordBits * m /\ WordBits * b \in Int /\ WordBits * m \in Int
    BY <1>0, Distributes DEF Positive
  <2>4. Bits * e = s
    BY <1>0, <1>2
  <2> QED
    BY <1>1, <1>3, <2>1, <2>2, <2>3, <2>4
<1>7. lower_offset(e) = o /\ word_offset(e) = m
  BY <1>2, <1>3 DEF lower_offset, word_offset
<1>8. get_internal_index(p).element = e /\ get_internal_index(p).lower_word = b + m
  BY <1>1, <1>4, <1>5, <1>7 DEF get_internal_index, BlockElements
<1>9. UpperBits(e) = IF o + Bits > WordBits THEN o + Bits - WordBits ELSE 0
  BY <1>7 DEF UpperBits
<1> DEFINE k == b + m
<1>10. k \in Nat /\ Bits * p = WordBits * k + o
  BY <1>6
<1>11. /\ Spot(p, "lower") = k /\ Spot(p, "upper") = k + 1
       /\ Offset(p, "lower") = o /\ Offset(p, "upper") = 0
       /\ Width(p, "upper") = UpperBits(e)
       /\ Width(p, "lower") = Bits - UpperBits(e)
  BY <1>7, <1>8 DEF Spot, Offset, Width, LowerBits
<1> QED
  BY <1>9, <1>10, <1>11

LEMMA FieldsFit ==
  ASSUME NEW p \in Nat, NEW half \in HalfNames
  PROVE  /\ Spot(p, half) \in Nat /\ Offset(p, half) \in Nat /\ Width(p, half) \in Nat
         /\ Offset(p, half) + Width(p, half) <= WordBits
         /\ Width(p, "lower") + Width(p, "upper") = Bits
<1>0. WordBits \in Nat \ {0} /\ Bits \in 1..WordBits
  BY BitsAssumption
<1>1. PICK k \in Nat, o \in 0..WordBits - 1 :
           /\ Spot(p, "lower") = k /\ Spot(p, "upper") = k + 1
           /\ Offset(p, "lower") = o /\ Offset(p, "upper") = 0
           /\ Width(p, "upper") = IF o + Bits > WordBits THEN o + Bits - WordBits ELSE 0
           /\ Width(p, "lower") = Bits - Width(p, "upper")
  BY Behind
<1> QED
  BY <1>0, <1>1 DEF HalfNames

LEMMA WidthsFit ==
  ASSUME NEW p \in Nat
  PROVE  Width(p, "lower") \in 0..WordBits /\ Width(p, "upper") \in 0..WordBits /\ Width(p, "lower") + Width(p, "upper") = Bits
<1>1. "lower" \in HalfNames /\ "upper" \in HalfNames
  BY DEF HalfNames
<1>2. /\ Width(p, "lower") \in Nat /\ Width(p, "upper") \in Nat
      /\ Width(p, "lower") + Width(p, "upper") = Bits
  BY <1>1, FieldsFit
<1>3. Bits \in Nat /\ WordBits \in Nat /\ Bits <= WordBits
  BY BitsAssumption
<1> QED
  BY <1>2, <1>3

(* No two fields of a word overlap. *)
Apart(p, h, q, i) ==
  \/ Spot(p, h) # Spot(q, i)
  \/ Offset(p, h) + Width(p, h) <= Offset(q, i)
  \/ Offset(q, i) + Width(q, i) <= Offset(p, h)

LEMMA LaterApart ==
  ASSUME NEW p \in Nat, NEW q \in Nat, p < q, NEW h \in HalfNames, NEW i \in HalfNames
  PROVE  Apart(p, h, q, i)
<1>0. WordBits \in Nat \ {0} /\ Bits \in 1..WordBits
  BY BitsAssumption
<1>1. PICK k \in Nat, o \in 0..WordBits - 1 :
           /\ Bits * p = WordBits * k + o
           /\ Spot(p, "lower") = k /\ Spot(p, "upper") = k + 1
           /\ Offset(p, "lower") = o /\ Offset(p, "upper") = 0
           /\ Width(p, "upper") = IF o + Bits > WordBits THEN o + Bits - WordBits ELSE 0
           /\ Width(p, "lower") = Bits - Width(p, "upper")
  BY Behind
<1>2. PICK l \in Nat, r \in 0..WordBits - 1 :
           /\ Bits * q = WordBits * l + r
           /\ Spot(q, "lower") = l /\ Spot(q, "upper") = l + 1
           /\ Offset(q, "lower") = r /\ Offset(q, "upper") = 0
           /\ Width(q, "upper") = IF r + Bits > WordBits THEN r + Bits - WordBits ELSE 0
           /\ Width(q, "lower") = Bits - Width(q, "upper")
  BY Behind
<1>3. WordBits * k + o + Bits <= WordBits * l + r
  <2>1. Bits * (p + 1) <= Bits * q
    BY <1>0
  <2>2. Bits * (p + 1) = Bits * p + Bits /\ Bits * p \in Int /\ Bits * q \in Int
    BY <1>0
  <2> QED
    BY <1>0, <1>1, <1>2, <2>1, <2>2
<1>4. \/ l = k /\ o + Bits <= r
      \/ l = k + 1 /\ o + Bits <= WordBits + r
      \/ l >= k + 2
  <2>1. CASE l = k
    <3>1. PICK n \in Int : n = WordBits * k
      BY <1>0
    <3> QED
      BY <1>0, <1>3, <2>1, <3>1
  <2>2. CASE l = k + 1
    <3>1. PICK n \in Int : n = WordBits * k
      BY <1>0
    <3>2. WordBits * (k + 1) = n + WordBits
      BY <1>0, <3>1
    <3> QED
      BY <1>0, <1>3, <2>2, <3>1, <3>2
  <2>3. CASE l < k
    <3>1. WordBits * (l + 1) <= WordBits * k
      BY <1>0, <2>3
    <3>2. WordBits * (l + 1) = WordBits * l + WordBits /\ WordBits * l \in Int /\ WordBits * k \in Int
      BY <1>0
    <3> QED
      BY <1>0, <1>3, <3>1, <3>2
  <2> QED
    BY <2>1, <2>2, <2>3
<1> QED
  BY <1>0, <1>1, <1>2, <1>4 DEF Apart, HalfNames

LEMMA FieldsApart ==
  ASSUME NEW p \in Nat, NEW q \in Nat, NEW h \in HalfNames, NEW i \in HalfNames, p # q \/ h # i
  PROVE  Apart(p, h, q, i)
<1>1. CASE p < q
  BY <1>1, LaterApart
<1>2. CASE q < p
  <2>1. Apart(q, i, p, h)
    BY <1>2, LaterApart
  <2> QED
    BY <2>1 DEF Apart
<1>3. CASE p = q /\ h # i
  <2>1. PICK k \in Nat : Spot(p, "lower") = k /\ Spot(p, "upper") = k + 1
    BY Behind
  <2> QED
    BY <1>3, <2>1 DEF Apart, HalfNames
<1> QED
  BY <1>1, <1>2, <1>3

(***************************************************************************)
(* One half of a weight is written into its word.                          *)
(***************************************************************************)

PartOf(words, p, half) == Field(words[Spot(p, half)], Offset(p, half), Width(p, half))
PartOfValue(p, half, value) == IF half = "lower" THEN value ELSE value \div Power[Width(p, "lower")]
Put(words, p, half, value) ==
  [words EXCEPT ![Spot(p, half)] = Replaced(@, Offset(p, half), Width(p, half), PartOfValue(p, half, value))]
Weigh(words, p) == PartOf(words, p, "lower") + PartOf(words, p, "upper") * Power[Width(p, "lower")]
HasPlace(words, p) == words \in [DOMAIN words -> Nat] /\ Spot(p, "lower") \in DOMAIN words /\ Spot(p, "upper") \in DOMAIN words

LEMMA WeighsValue ==
  ASSUME NEW words, NEW p
  PROVE  get_value(words, get_internal_index(p)) = Weigh(words, p)
<1> DEFINE at == get_internal_index(p)
<1>1. PartOf(words, p, "lower") = Field(words[at.lower_word], lower_offset(at.element), LowerBits(at.element))
  BY DEF PartOf, Spot, Offset, Width
<1>2. PartOf(words, p, "upper") = Field(words[at.lower_word + 1], 0, UpperBits(at.element))
  BY DEF PartOf, Spot, Offset, Width
<1>3. Width(p, "lower") = LowerBits(at.element)
  BY DEF Width
<1> QED
  BY <1>1, <1>2, <1>3 DEF get_value, Weigh

LEMMA HalvesOfValue ==
  ASSUME NEW p \in Nat, NEW half \in HalfNames, NEW value \in Nat
  PROVE  PartOfValue(p, half, value) \in Nat
<1>1. Width(p, "lower") \in 0..WordBits
  BY BitsAssumption, FieldsFit DEF HalfNames
<1>2. Power[Width(p, "lower")] \in Positive
  BY <1>1, PowerRuns
<1> QED
  BY <1>2, Divides DEF PartOfValue

Rewrites(word, o, w, v) == Replaced(word, o, w, v) \in Nat /\ Field(Replaced(word, o, w, v), o, w) = v % Power[w]

LEMMA PutSets ==
  ASSUME NEW words, NEW p \in Nat, NEW half \in HalfNames, NEW value \in Nat, HasPlace(words, p)
  PROVE  /\ Put(words, p, half, value) \in [DOMAIN words -> Nat]
         /\ PartOf(Put(words, p, half, value), p, half) = PartOfValue(p, half, value) % Power[Width(p, half)]
<1>a. ASSUME NEW word \in Nat, NEW o \in Nat, NEW w \in Nat, o + w <= WordBits, NEW v \in Nat
      PROVE  Rewrites(word, o, w, v)
  BY <1>a, FieldRead DEF Rewrites
<1> PICK part \in Nat : part = PartOfValue(p, half, value)
  BY HalvesOfValue
<1>1. Spot(p, half) \in DOMAIN words /\ words[Spot(p, half)] \in Nat
  BY DEF HasPlace, HalfNames
<1>2. Offset(p, half) \in Nat /\ Width(p, half) \in Nat /\ Offset(p, half) + Width(p, half) <= WordBits
  BY FieldsFit
<1>3. /\ Replaced(words[Spot(p, half)], Offset(p, half), Width(p, half), part) \in Nat
      /\ Field(Replaced(words[Spot(p, half)], Offset(p, half), Width(p, half), part), Offset(p, half), Width(p, half))
           = part % Power[Width(p, half)]
  <2>1. Rewrites(words[Spot(p, half)], Offset(p, half), Width(p, half), part)
    BY <1>a, <1>1, <1>2
  <2> QED
    BY <2>1 DEF Rewrites
<1>4. Put(words, p, half, value)[Spot(p, half)] = Replaced(words[Spot(p, half)], Offset(p, half), Width(p, half), part)
  BY <1>1 DEF Put, HasPlace
<1>5. Put(words, p, half, value) \in [DOMAIN words -> Nat]
  BY <1>3 DEF Put, HasPlace
<1> QED
  BY <1>3, <1>4, <1>5 DEF PartOf

LEMMA PutKeeps ==
  ASSUME NEW words, NEW p \in Nat, NEW half \in HalfNames, NEW value \in Nat, HasPlace(words, p),
         NEW q \in Nat, NEW other \in HalfNames, p # q \/ half # other, HasPlace(words, q)
  PROVE  PartOf(Put(words, p, half, value), q, other) = PartOf(words, q, other)
<1> PICK part \in Nat : part = PartOfValue(p, half, value)
  BY HalvesOfValue
<1>1. Spot(p, half) \in DOMAIN words /\ words[Spot(p, half)] \in Nat /\ Spot(q, other) \in DOMAIN words
  BY DEF HasPlace, HalfNames
<1>2. Apart(p, half, q, other)
  BY FieldsApart
<1>3. CASE Spot(p, half) # Spot(q, other)
  <2>1. Put(words, p, half, value)[Spot(q, other)] = words[Spot(q, other)]
    BY <1>1, <1>3 DEF Put, HasPlace
  <2> QED
    BY <2>1 DEF PartOf
<1>4. CASE Spot(p, half) = Spot(q, other)
  <2>1. \/ Offset(p, half) + Width(p, half) <= Offset(q, other)
        \/ Offset(q, other) + Width(q, other) <= Offset(p, half)
    BY <1>2, <1>4 DEF Apart
  <2>0. /\ Offset(p, half) \in Nat /\ Width(p, half) \in Nat /\ Offset(p, half) + Width(p, half) <= WordBits
        /\ Offset(q, other) \in Nat /\ Width(q, other) \in Nat /\ Offset(q, other) + Width(q, other) <= WordBits
    BY FieldsFit
  <2>2. Field(Replaced(words[Spot(p, half)], Offset(p, half), Width(p, half), part), Offset(q, other), Width(q, other))
          = Field(words[Spot(p, half)], Offset(q, other), Width(q, other))
    BY <1>1, <2>0, <2>1, FieldKept, SMTT(30)
  <2>3. Put(words, p, half, value)[Spot(q, other)] = Replaced(words[Spot(p, half)], Offset(p, half), Width(p, half), part)
    BY <1>1, <1>4 DEF Put, HasPlace
  <2> QED
    BY <1>4, <2>2, <2>3 DEF PartOf
<1> QED
  BY <1>3, <1>4

(* A weight fits into its bits, and its two halves make it up. *)
LEMMA WeightsFit ==
  ASSUME NEW words, NEW p \in Nat, HasPlace(words, p)
  PROVE  Weigh(words, p) \in 0..Power[Bits] - 1
<1>0. Width(p, "lower") \in 0..WordBits /\ Width(p, "upper") \in 0..WordBits /\ Width(p, "lower") + Width(p, "upper") = Bits
  BY WidthsFit
<1>1. PICK a \in Positive, b \in Positive : a = Power[Width(p, "lower")] /\ b = Power[Width(p, "upper")]
  BY <1>0, PowerRuns
<1>2. Power[Bits] = a * b
  BY <1>0, <1>1, BitsAssumption, PowerSum
<1>3. ASSUME NEW half \in HalfNames PROVE PartOf(words, p, half) \in 0..Power[Width(p, half)] - 1
  <2>1. words[Spot(p, half)] \in Nat
    BY DEF HasPlace, HalfNames
  <2>2. Offset(p, half) \in 0..WordBits /\ Width(p, half) \in 0..WordBits
    BY BitsAssumption, FieldsFit
  <2>3. PICK c \in Positive, d \in Positive : c = Power[Offset(p, half)] /\ d = Power[Width(p, half)]
    BY <2>2, PowerRuns
  <2>4. PICK n \in Nat : n = words[Spot(p, half)] \div c
    BY <2>1, Divides
  <2>5. n % d \in 0..d - 1
    BY Divides
  <2> QED
    BY <2>3, <2>4, <2>5 DEF PartOf, Field
<1>4. PICK r \in 0..a - 1 : r = PartOf(words, p, "lower")
  BY <1>1, <1>3 DEF HalfNames
<1>5. PICK s \in 0..b - 1 : s = PartOf(words, p, "upper")
  BY <1>1, <1>3 DEF HalfNames
<1>6. a * s + r \in 0..a * b - 1
  BY Less
<1>7. a * s + r = r + s * a
  BY DEF Positive
<1> QED
  BY <1>1, <1>2, <1>4, <1>5, <1>6, <1>7 DEF Weigh

LEMMA HalvesMakeUp ==
  ASSUME NEW words, NEW p \in Nat, NEW value \in 0..Power[Bits] - 1,
         \A half \in HalfNames : PartOf(words, p, half) = PartOfValue(p, half, value) % Power[Width(p, half)]
  PROVE  Weigh(words, p) = value
<1>0. Width(p, "lower") \in 0..WordBits /\ Width(p, "upper") \in 0..WordBits /\ Width(p, "lower") + Width(p, "upper") = Bits
  BY WidthsFit
<1>1. PICK a \in Positive, b \in Positive : a = Power[Width(p, "lower")] /\ b = Power[Width(p, "upper")]
  BY <1>0, PowerRuns
<1>2. Power[Bits] = a * b
  BY <1>0, <1>1, BitsAssumption, PowerSum
<1>2a. value \in Nat
  OBVIOUS
<1>3. PICK q \in Nat, r \in 0..a - 1 : q = value \div a /\ r = value % a /\ value = a * q + r
  BY <1>2a, Divides
<1>4. q < b
  <2> SUFFICES ASSUME q >= b PROVE FALSE
    BY DEF Positive
  <2>1. a * q >= a * b
    BY DEF Positive
  <2>2. a * q \in Int /\ a * b \in Int
    BY DEF Positive
  <2> QED
    BY <1>2, <1>3, <2>1, <2>2
<1>5. q % b = q
  <2>1. q \in 0..b - 1 /\ q = b * 0 + q
    BY <1>4 DEF Positive
  <2> QED
    BY <2>1, Quotient
<1>6. PartOf(words, p, "lower") = r /\ PartOf(words, p, "upper") = q
  BY <1>1, <1>3, <1>5 DEF HalfNames, PartOfValue
<1>7. r + q * a = a * q + r
  BY DEF Positive
<1> QED
  BY <1>1, <1>3, <1>6, <1>7 DEF Weigh

(***************************************************************************)
(* The weights that a task sets in a geometry.                             *)
(***************************************************************************)

NoRepeats(s) == \A i, j \in DOMAIN s : s[i] = s[j] => i = j
Picked(n, P, x) == [i \in 1..n |-> IF i \in P THEN <<x[i]>> ELSE <<>>]
PickedUpTo(s, i, S, x) == s \in Seq(S) /\ NoRepeats(s) /\ \A e \in ToSet(s) : \E j \in 1..i : e = x[j]

Join(s, t) == s \o t
Flattens(h, n, S, seqs) ==
  /\ h \in [0..n -> Seq(S)] /\ h[0] = <<>>
  /\ \A i \in 1..n : h[i] = Join(h[i - 1], seqs[i])

LEMMA Joins ==
  ASSUME NEW S
  PROVE  \A s, t \in Seq(S) : Join(s, t) \in Seq(S) /\ Join(<<>>, t) = t /\ Join(s, <<>>) = s
BY DEF Join

LEMMA FlattenRuns ==
  ASSUME NEW n \in Nat, NEW S, NEW seqs \in [1..n -> Seq(S)]
  PROVE  \E h : Flattens(h, n, S, seqs) /\ FlattenSeq(seqs) = h[n]
<1> DEFINE F == [i \in 1..n |-> [s \in Seq(S) |-> Join(s, seqs[i])]]
           IsFlat(f) == f = [i \in 1..n |-> IF i = 1 THEN seqs[i] ELSE Join(f[i - 1], seqs[i])]
<1>0. Len(seqs) = n
  OBVIOUS
<1>1. PICK h : Runs(h, n, Seq(S), <<>>, F)
  <2>1. F \in [1..n -> [Seq(S) -> Seq(S)]]
    BY Joins
  <2>2. <<>> \in Seq(S)
    OBVIOUS
  <2> HIDE DEF F
  <2> QED
    BY <2>1, <2>2, LoopRuns, Zenon
<1>2. h \in [0..n -> Seq(S)] /\ h[0] = <<>> /\ \A i \in 1..n : h[i] = Join(h[i - 1], seqs[i])
  <2>1. \A i \in 1..n : i - 1 \in 0..n
    OBVIOUS
  <2> QED
    BY <1>1, <2>1 DEF Runs
<1>3. n = 0 => FlattenSeq(seqs) = h[n]
  <2> SUFFICES ASSUME n = 0 PROVE FlattenSeq(seqs) = h[n]
    OBVIOUS
  <2>1. FlattenSeq(seqs) = seqs
    BY <1>0 DEF FlattenSeq
  <2>2. seqs = <<>>
    BY <1>0
  <2> QED
    BY <1>2, <2>1, <2>2
<1>4. n > 0 => FlattenSeq(seqs) = h[n]
  <2> SUFFICES ASSUME n > 0 PROVE FlattenSeq(seqs) = h[n]
    OBVIOUS
  <2>1. FlattenSeq(seqs) = (CHOOSE f : IsFlat(f))[n]
    BY <1>0 DEF FlattenSeq, Join
  <2>0. h[1] = seqs[1]
    <3>1. 1 \in 1..n /\ 1 - 1 = 0
      OBVIOUS
    <3>2. h[1] = Join(h[0], seqs[1]) /\ seqs[1] \in Seq(S)
      BY <1>2, <3>1
    <3> QED
      BY <1>2, <3>2, Joins
  <2> DEFINE k == [i \in 1..n |-> h[i]]
  <2>2. IsFlat(k)
    <3> SUFFICES ASSUME NEW i \in 1..n PROVE h[i] = IF i = 1 THEN seqs[i] ELSE Join(k[i - 1], seqs[i])
      OBVIOUS
    <3>1. i # 1 => i - 1 \in 1..n
      OBVIOUS
    <3> QED
      BY <1>2, <2>0, <3>1
  <2> HIDE DEF k
  <2> PICK f : f = CHOOSE x : IsFlat(x)
    OBVIOUS
  <2>3. IsFlat(f)
    <3> HIDE DEF IsFlat
    <3> QED
      BY <2>2
  <2>4. \A i \in 1..n : f[i] = IF i = 1 THEN seqs[i] ELSE Join(f[i - 1], seqs[i])
    BY <2>3
  <2> DEFINE Good == {i \in 0..n : i = 0 \/ f[i] = h[i]}
  <2>5. 0 \in Good
    OBVIOUS
  <2>6. ASSUME NEW i \in 1..n, i - 1 \in Good PROVE i \in Good
    <3>1. i # 1 => f[i - 1] = h[i - 1]
      BY <2>6
    <3>2. f[i] = h[i]
      BY <1>2, <2>0, <2>4, <3>1
    <3> QED
      BY <3>2
  <2>7. n \in Good
    <3> HIDE DEF Good
    <3>1. 0..n \subseteq Good
      BY <2>5, <2>6, Inducted
    <3> QED
      BY <3>1
  <2>8. f[n] = h[n]
    BY <2>7
  <2> QED
    BY <2>1, <2>8
<1>5. FlattenSeq(seqs) = h[n]
  BY <1>3, <1>4
<1> QED
  BY <1>2, <1>5 DEF Flattens

LEMMA OneMore ==
  ASSUME NEW S, NEW x, NEW s, NEW i \in Nat \ {0}, PickedUpTo(s, i - 1, S, x), x[i] \in S, \A j \in 1..i - 1 : x[j] # x[i]
  PROVE  PickedUpTo(s \o <<x[i]>>, i, S, x)
<1> USE DEF PickedUpTo
<1> DEFINE t == s \o <<x[i]>>
<1>1. t \in Seq(S) /\ Len(t) = Len(s) + 1 /\ t[Len(s) + 1] = x[i] /\ \A k \in 1..Len(s) : t[k] = s[k]
  OBVIOUS
<1>2. \A k \in 1..Len(s) : \E j \in 1..i - 1 : s[k] = x[j]
  <2>1. \A k \in 1..Len(s) : s[k] \in ToSet(s)
    BY DEF ToSet
  <2> QED
    BY <2>1
<1>3. \A k \in 1..Len(s) : s[k] # x[i]
  BY <1>2
<1> HIDE DEF t
<1>4. NoRepeats(t)
  <2> SUFFICES ASSUME NEW k \in 1..Len(s) + 1, NEW l \in 1..Len(s) + 1, t[k] = t[l] PROVE k = l
    BY <1>1 DEF NoRepeats
  <2>1. k \in 1..Len(s) \/ k = Len(s) + 1
    OBVIOUS
  <2>2. l \in 1..Len(s) \/ l = Len(s) + 1
    OBVIOUS
  <2> QED
    BY <1>1, <1>3, <2>1, <2>2 DEF NoRepeats
<1>5. \A e \in ToSet(t) : \E j \in 1..i : e = x[j]
  <2> SUFFICES ASSUME NEW k \in 1..Len(s) + 1 PROVE \E j \in 1..i : t[k] = x[j]
    BY <1>1 DEF ToSet
  <2>1. CASE k = Len(s) + 1
    BY <1>1, <2>1
  <2>2. CASE k \in 1..Len(s)
    BY <1>1, <1>2, <2>2
  <2> QED
    BY <2>1, <2>2
<1> QED
  BY <1>1, <1>4, <1>5 DEF t

LEMMA FlattenPicks ==
  ASSUME NEW n \in Nat, NEW S, NEW x \in [1..n -> S], NoRepeats(x), NEW P
  PROVE  PickedUpTo(FlattenSeq(Picked(n, P, x)), n, S, x)
<1> DEFINE seqs == Picked(n, P, x)
<1>1. seqs \in [1..n -> Seq(S)] /\ \A i \in 1..n : seqs[i] = IF i \in P THEN <<x[i]>> ELSE <<>>
  BY DEF Picked
<1> HIDE DEF seqs
<1>2. PICK h : Flattens(h, n, S, seqs) /\ FlattenSeq(seqs) = h[n]
  BY <1>1, FlattenRuns
<1> DEFINE Good == {i \in 0..n : PickedUpTo(h[i], i, S, x)}
<1>3. 0 \in Good
  BY <1>2 DEF Flattens, PickedUpTo, NoRepeats, ToSet
<1>4. ASSUME NEW i \in 1..n, i - 1 \in Good PROVE i \in Good
  <2>1. PickedUpTo(h[i - 1], i - 1, S, x)
    BY <1>4
  <2>2. h[i] = Join(h[i - 1], seqs[i])
    BY <1>2 DEF Flattens
  <2>3. \A j \in 1..i - 1 : x[j] # x[i]
    BY DEF NoRepeats
  <2>4. h[i - 1] \in Seq(S)
    BY <2>1 DEF PickedUpTo
  <2>5. CASE i \in P
    <3>1. PickedUpTo(Join(h[i - 1], <<x[i]>>), i, S, x)
      BY <2>1, <2>3, OneMore DEF Join
    <3>2. PickedUpTo(h[i], i, S, x)
      BY <1>1, <2>2, <2>5, <3>1
    <3> QED
      BY <3>2
  <2>6. CASE i \notin P
    <3>1. <<>> \in Seq(S) /\ seqs[i] = <<>>
      BY <1>1, <2>6
    <3>2. h[i] = h[i - 1]
      BY <2>2, <2>4, <3>1, Joins
    <3>3. PickedUpTo(h[i], i, S, x)
      BY <2>1, <3>2 DEF PickedUpTo
    <3> QED
      BY <3>3
  <2> QED
    BY <2>5, <2>6
<1>5. n \in Good
  <2> HIDE DEF Good
  <2>1. 0..n \subseteq Good
    BY <1>3, <1>4, Inducted
  <2> QED
    BY <2>1
<1> QED
  BY <1>2, <1>5 DEF seqs

(* UpdatesOf for lists given by their indexes and nodes. *)
Listing(osm, index, nodes, id, forward, lookup) ==
  LET run == SubSeq(nodes, index[id] + 1, index[id + 1])
      Osm(i) == osm[run[i] + 1]
      Key(i) == IF forward THEN <<Osm(i), Osm(i + 1)>> ELSE <<Osm(i + 1), Osm(i)>>
      Listed(i) == Osm(i) # Osm(i + 1) /\ Key(i) \in DOMAIN lookup
      places == IF forward THEN [i \in 1..index[id + 1] - index[id] - 1 |-> index[id] + i]
                ELSE [i \in 1..index[id + 1] - index[id] - 1 |-> index[id] + i - 1]
  IN [i \in DOMAIN places |->
        IF Listed(i) THEN <<[id |-> id, forward |-> forward, place |-> places[i], value |-> lookup[Key(i)]]>> ELSE <<>>]
Plan(osm, index, nodes, id, lookup) ==
  FlattenSeq(Listing(osm, index, nodes, id, TRUE, lookup)) \o FlattenSeq(Listing(osm, index, nodes, id, FALSE, lookup))

LEMMA UpdatesPlanned ==
  ASSUME NEW packed, NEW id, NEW lookup
  PROVE  UpdatesOf(packed, id, lookup) = Plan(files.osm_node_ids, packed.index, packed.nodes, id, lookup)
BY DEF UpdatesOf, Plan, Listing, GetForwardGeometry, GetForwardWeights, GetReverseWeights

OneUpdate == [id : Nat, forward : BOOLEAN, place : Nat, value : Int]
GoodIndex(index, count) == count \in Nat /\ index \in [0..count -> Nat] /\ \A i \in 1..count : index[i - 1] <= index[i]
GoodLookup(lookup) == \A key \in DOMAIN lookup : lookup[key] \in Int
InRange(u, index, id) == u.id = id /\ index[id] <= u.place /\ u.place < index[id + 1]
OnePerPlace(s) == \A i, j \in DOMAIN s : s[i].forward = s[j].forward /\ s[i].place = s[j].place => i = j
GoodPlan(s, index, id) == s \in Seq(OneUpdate) /\ OnePerPlace(s) /\ \A e \in ToSet(s) : InRange(e, index, id)

(* One direction of a geometry. *)
LEMMA ListingGood ==
  ASSUME NEW osm, NEW index, NEW nodes, NEW count, GoodIndex(index, count), NEW id \in 0..count - 1,
         NEW forward \in BOOLEAN, NEW lookup, GoodLookup(lookup)
  PROVE  /\ GoodPlan(FlattenSeq(Listing(osm, index, nodes, id, forward, lookup)), index, id)
         /\ \A e \in ToSet(FlattenSeq(Listing(osm, index, nodes, id, forward, lookup))) : e.forward = forward
<1>0. count \in Nat /\ id \in Nat /\ id + 1 \in 1..count /\ id \in 0..count /\ id + 1 \in 0..count /\ (id + 1) - 1 = id
  BY DEF GoodIndex
<1>1. PICK a \in Nat, b \in Nat : a = index[id] /\ b = index[id + 1] /\ a <= b
  BY <1>0 DEF GoodIndex
<1>2. PICK n \in Nat : 1..b - a - 1 = 1..n /\ n <= b - a /\ (n > 0 => n < b - a)
  <2>1. CASE a = b
    <3>1. 1..b - a - 1 = 1..0
      BY <2>1
    <3> QED
      BY <3>1, <2>1
  <2>2. CASE a < b
    <3>1. PICK m \in Nat : m = b - a - 1
      BY <2>2
    <3>2. m <= b - a /\ m < b - a /\ 1..b - a - 1 = 1..m
      BY <3>1
    <3> QED
      BY <3>2
  <2> QED
    BY <1>1, <2>1, <2>2
<1> DEFINE run == SubSeq(nodes, index[id] + 1, index[id + 1])
           Osm(i) == osm[run[i] + 1]
           Key(i) == IF forward THEN <<Osm(i), Osm(i + 1)>> ELSE <<Osm(i + 1), Osm(i)>>
           Listed(i) == Osm(i) # Osm(i + 1) /\ Key(i) \in DOMAIN lookup
           P == {i \in 1..n : Listed(i)}
           Place(i) == IF forward THEN a + i ELSE a + i - 1
           Number(i) == IF Listed(i) THEN lookup[Key(i)] ELSE 0
           x == [i \in 1..n |-> [id |-> id, forward |-> forward, place |-> Place(i), value |-> Number(i)]]
<1>3. Listing(osm, index, nodes, id, forward, lookup) = Picked(n, P, x)
  <2> HIDE DEF Osm, Key
  <2> DEFINE places == IF forward THEN [i \in 1..index[id + 1] - index[id] - 1 |-> index[id] + i]
                       ELSE [i \in 1..index[id + 1] - index[id] - 1 |-> index[id] + i - 1]
  <2>1. DOMAIN places = 1..n /\ \A i \in 1..n : places[i] = Place(i)
    BY <1>1, <1>2
  <2>2. Listing(osm, index, nodes, id, forward, lookup)
          = [i \in DOMAIN places |->
               IF Listed(i) THEN <<[id |-> id, forward |-> forward, place |-> places[i], value |-> lookup[Key(i)]]>> ELSE <<>>]
    BY DEF Listing, Osm, Key
  <2> HIDE DEF places
  <2>3. \A i \in 1..n : (i \in P <=> Listed(i)) /\ (Listed(i) => Number(i) = lookup[Key(i)])
    OBVIOUS
  <2> HIDE DEF P, Listed, Number
  <2> QED
    BY <2>1, <2>2, <2>3 DEF Picked
<1>4. \A i \in 1..n : Place(i) \in Nat /\ a <= Place(i) /\ Place(i) < b
  <2> HIDE DEF Osm, Key, Listed, P, Number, x
  <2>1. CASE forward
    BY <1>1, <1>2, <2>1
  <2>2. CASE ~forward
    BY <1>1, <1>2, <2>2
  <2> QED
    BY <2>1, <2>2
<1>5. \A i \in 1..n : Number(i) \in Int
  <2> HIDE DEF Osm, Key
  <2> QED
    BY DEF GoodLookup
<1>6. \A i, j \in 1..n : Place(i) = Place(j) => i = j
  BY <1>1
<1> HIDE DEF P, Number, Place
<1>7. x \in [1..n -> OneUpdate]
  BY <1>0, <1>4, <1>5 DEF OneUpdate
<1>8. /\ \A i, j \in 1..n : x[i].place = x[j].place => i = j
      /\ \A i \in 1..n : x[i].forward = forward /\ InRange(x[i], index, id)
  BY <1>1, <1>4, <1>6 DEF InRange
<1> HIDE DEF x
<1>9. NoRepeats(x)
  BY <1>7, <1>8 DEF NoRepeats
<1> DEFINE s == FlattenSeq(Picked(n, P, x))
<1>10. PickedUpTo(s, n, OneUpdate, x)
  BY <1>7, <1>9, FlattenPicks
<1> HIDE DEF s
<1>11. s \in Seq(OneUpdate) /\ \A i \in DOMAIN s : \E j \in 1..n : s[i] = x[j]
  BY <1>10 DEF PickedUpTo, ToSet
<1>12. OnePerPlace(s)
  <2> SUFFICES ASSUME NEW i \in DOMAIN s, NEW j \in DOMAIN s, s[i].place = s[j].place PROVE i = j
    BY DEF OnePerPlace
  <2>1. s[i] = s[j]
    BY <1>8, <1>11
  <2> QED
    BY <1>10, <2>1 DEF PickedUpTo, NoRepeats
<1>13. \A e \in ToSet(s) : e.forward = forward /\ InRange(e, index, id)
  BY <1>8, <1>10 DEF PickedUpTo
<1>14. s = FlattenSeq(Listing(osm, index, nodes, id, forward, lookup))
  BY <1>3 DEF s
<1> QED
  BY <1>11, <1>12, <1>13, <1>14 DEF GoodPlan

LEMMA JoinedPlans ==
  ASSUME NEW s, NEW t, NEW index, NEW id, GoodPlan(s, index, id), GoodPlan(t, index, id),
         \A e \in ToSet(s) : e.forward = TRUE, \A e \in ToSet(t) : e.forward = FALSE
  PROVE  GoodPlan(s \o t, index, id)
<1>1. s \in Seq(OneUpdate) /\ t \in Seq(OneUpdate)
  BY DEF GoodPlan
<1> DEFINE r == s \o t
<1>2. /\ r \in Seq(OneUpdate) /\ DOMAIN r = 1..Len(s) + Len(t)
      /\ \A i \in 1..Len(s) + Len(t) :
            \/ i \in 1..Len(s) /\ r[i] = s[i]
            \/ i - Len(s) \in 1..Len(t) /\ r[i] = t[i - Len(s)]
  <2>1. r \in Seq(OneUpdate) /\ Len(r) = Len(s) + Len(t)
    BY <1>1
  <2>2. \A i \in 1..Len(s) : r[i] = s[i]
    BY <1>1
  <2>3. \A i \in Len(s) + 1..Len(s) + Len(t) : r[i] = t[i - Len(s)]
    BY <1>1
  <2> HIDE DEF r
  <2>4. Len(s) \in Nat /\ Len(t) \in Nat
    BY <1>1
  <2>5. DOMAIN r = 1..Len(s) + Len(t)
    BY <2>1, <2>4
  <2>6. ASSUME NEW i \in 1..Len(s) + Len(t)
        PROVE  \/ i \in 1..Len(s) /\ r[i] = s[i]
               \/ i - Len(s) \in 1..Len(t) /\ r[i] = t[i - Len(s)]
    <3>1. CASE i <= Len(s)
      BY <2>2, <2>4, <3>1
    <3>2. CASE i > Len(s)
      <4>1. i \in Len(s) + 1..Len(s) + Len(t) /\ i - Len(s) \in 1..Len(t)
        BY <2>4, <3>2
      <4> QED
        BY <2>3, <4>1
    <3> QED
      BY <2>4, <3>1, <3>2
  <2> QED
    BY <2>1, <2>5, <2>6
<1> HIDE DEF r
<1>3. /\ \A i \in 1..Len(s) : s[i] \in ToSet(s) /\ s[i].forward = TRUE
      /\ \A i \in 1..Len(t) : t[i] \in ToSet(t) /\ t[i].forward = FALSE
  BY <1>1 DEF ToSet
<1>4. OnePerPlace(r)
  <2> SUFFICES ASSUME NEW i \in 1..Len(s) + Len(t), NEW j \in 1..Len(s) + Len(t),
                      r[i].forward = r[j].forward, r[i].place = r[j].place
               PROVE  i = j
    BY <1>2 DEF OnePerPlace
  <2>1. CASE i \in 1..Len(s) /\ r[i] = s[i] /\ j \in 1..Len(s) /\ r[j] = s[j]
    BY <1>1, <2>1 DEF GoodPlan, OnePerPlace
  <2>2. CASE i - Len(s) \in 1..Len(t) /\ r[i] = t[i - Len(s)] /\ j - Len(s) \in 1..Len(t) /\ r[j] = t[j - Len(s)]
    <3>1. i - Len(s) = j - Len(s)
      BY <1>1, <2>2 DEF GoodPlan, OnePerPlace
    <3> QED
      BY <1>1, <3>1
  <2> QED
    BY <1>2, <1>3, <2>1, <2>2
<1>5. \A e \in ToSet(r) : InRange(e, index, id)
  <2>1. \A e \in ToSet(r) : e \in ToSet(s) \/ e \in ToSet(t)
    BY <1>2, <1>3 DEF ToSet
  <2> QED
    BY <2>1 DEF GoodPlan
<1> QED
  BY <1>2, <1>4, <1>5 DEF GoodPlan, r

LEMMA PlanGood ==
  ASSUME NEW osm, NEW index, NEW nodes, NEW count, GoodIndex(index, count), NEW id \in 0..count - 1,
         NEW lookup, GoodLookup(lookup)
  PROVE  GoodPlan(Plan(osm, index, nodes, id, lookup), index, id)
<1>1. /\ GoodPlan(FlattenSeq(Listing(osm, index, nodes, id, TRUE, lookup)), index, id)
      /\ \A e \in ToSet(FlattenSeq(Listing(osm, index, nodes, id, TRUE, lookup))) : e.forward = TRUE
  BY ListingGood
<1>2. /\ GoodPlan(FlattenSeq(Listing(osm, index, nodes, id, FALSE, lookup)), index, id)
      /\ \A e \in ToSet(FlattenSeq(Listing(osm, index, nodes, id, FALSE, lookup))) : e.forward = FALSE
  BY ListingGood
<1> QED
  BY <1>1, <1>2, JoinedPlans DEF Plan

(* The lists of two geometries do not overlap. *)
LEMMA IndexRises ==
  ASSUME NEW index, NEW count, GoodIndex(index, count), NEW i \in 0..count, NEW j \in i..count
  PROVE  index[i] <= index[j]
<1>0. count \in Nat /\ \A k \in 0..count : index[k] \in Nat
  BY DEF GoodIndex
<1> DEFINE Good == {d \in 0..j - i : index[i] <= index[i + d]}
<1>1. 0 \in Good
  BY <1>0
<1>2. ASSUME NEW d \in 1..j - i, d - 1 \in Good PROVE d \in Good
  <2>1. i + d \in 1..count /\ (i + d) - 1 = i + (d - 1) /\ i + (d - 1) \in 0..count
    BY <1>0
  <2>2. index[i + (d - 1)] <= index[i + d]
    BY <2>1 DEF GoodIndex
  <2>3. index[i] <= index[i + (d - 1)]
    BY <1>2
  <2> QED
    BY <1>0, <2>1, <2>2, <2>3
<1>3. j - i \in Good
  <2> HIDE DEF Good
  <2>1. j - i \in Nat
    BY <1>0
  <2>2. 0..j - i \subseteq Good
    BY <1>1, <1>2, <2>1, Inducted
  <2> QED
    BY <2>1, <2>2
<1>4. i + (j - i) = j
  BY <1>0
<1> QED
  BY <1>3, <1>4

LEMMA RangesApart ==
  ASSUME NEW index, NEW count, GoodIndex(index, count), NEW i \in 0..count - 1, NEW j \in 0..count - 1, NEW u \in OneUpdate, NEW v \in OneUpdate,
         InRange(u, index, i), InRange(v, index, j), u.place = v.place
  PROVE  i = j
<1>0. count \in Nat /\ \A k \in 0..count : index[k] \in Nat
  BY DEF GoodIndex
<1>1. i + 1 <= j => index[i + 1] <= index[j]
  BY <1>0, IndexRises
<1>2. j + 1 <= i => index[j + 1] <= index[i]
  BY <1>0, IndexRises
<1>3. i \in 0..count /\ j \in 0..count /\ i + 1 \in 0..count /\ j + 1 \in 0..count
  BY <1>0
<1> QED
  BY <1>0, <1>1, <1>2, <1>3 DEF InRange, OneUpdate

(***************************************************************************)
(* The lists of weights.                                                   *)
(***************************************************************************)

Fields == {"ids", "index", "nodes", "forward", "reverse"}
Count(packed) == Cardinality(DOMAIN packed.ids)
Words(packed, forward) == IF forward THEN packed.forward ELSE packed.reverse
Weight(packed, forward, p) == Weigh(Words(packed, forward), p)
Places(packed) == 0..Len(packed.nodes) - 1
LaidOut(packed) ==
  /\ Fields \subseteq DOMAIN packed
  /\ GoodIndex(packed.index, Count(packed))
  /\ Len(packed.nodes) = packed.index[Count(packed)]
  /\ \A forward \in BOOLEAN : \A p \in Places(packed) : HasPlace(Words(packed, forward), p)
SameLists(packed, old) == packed.ids = old.ids /\ packed.index = old.index /\ packed.nodes = old.nodes

LEMMA ValueWeighs ==
  ASSUME NEW packed, NEW forward, NEW p
  PROVE  Value(packed, forward, p) = Weight(packed, forward, p)
BY WeighsValue DEF Value, Weight, Words

LEMMA ListsAre ==
  ASSUME NEW packed, Fields \subseteq DOMAIN packed, ListsLaidOut(packed)
  PROVE  LaidOut(packed)
<1>1. GoodIndex(packed.index, Count(packed))
  BY DEF ListsLaidOut, GoodIndex, Count
<1>2. Len(packed.nodes) = packed.index[Count(packed)]
  BY DEF ListsLaidOut, Count
<1>3. ASSUME NEW forward \in BOOLEAN, NEW p \in Places(packed) PROVE HasPlace(Words(packed, forward), p)
  <2> PICK words : words = Words(packed, forward)
    OBVIOUS
  <2>1. words \in {packed.forward, packed.reverse}
    BY DEF Words
  <2>2. /\ words \in [DOMAIN words -> Nat]
        /\ {get_internal_index(p).lower_word, get_internal_index(p).lower_word + 1} \subseteq DOMAIN words
    BY <2>1 DEF ListsLaidOut, Places
  <2> QED
    BY <2>2 DEF HasPlace, Spot
<1> QED
  BY <1>1, <1>2, <1>3 DEF LaidOut

LEMMA PlacesCount ==
  ASSUME NEW packed, LaidOut(packed)
  PROVE  Len(packed.nodes) \in Nat /\ Places(packed) \subseteq Nat /\ Count(packed) \in Nat
<1>1. Count(packed) \in Nat /\ Count(packed) \in 0..Count(packed) /\ packed.index \in [0..Count(packed) -> Nat]
  BY DEF LaidOut, GoodIndex
<1>2. packed.index[Count(packed)] \in Nat
  BY <1>1
<1> QED
  BY <1>1, <1>2 DEF LaidOut, Places

(* What a line says fits into the bits of a weight, too. *)
LEMMA SaidFits ==
  ASSUME NEW w \in 0..Power[Bits] - 1, NEW v \in Int
  PROVE  convertToWeight(w, v) = Said(w, v) /\ Said(w, v) \in 0..Power[Bits] - 1
<1>1. PICK a \in Positive : a = Power[Bits - 2]
  BY BitsAssumption, WeightAssumption, PowerRuns
<1>2. Power[Bits] = 2 * (2 * a)
  <2>1. Bits \in 1..WordBits /\ Bits - 1 \in 1..WordBits /\ (Bits - 1) - 1 = Bits - 2
    BY BitsAssumption, WeightAssumption
  <2>2. Power[Bits] = 2 * Power[Bits - 1] /\ Power[Bits - 1] = 2 * Power[(Bits - 1) - 1]
    BY <2>1, PowerRuns
  <2> QED
    BY <1>1, <2>1, <2>2
<1>3. InvalidSegmentWeight = Power[Bits] - 1 /\ MaxSegmentWeight = Power[Bits] - 2
  BY <1>1, <1>2, WeightAssumption DEF InvalidSegmentWeight, Positive
<1>4. MaxSegmentWeight \in Int /\ MaxSegmentWeight >= 1 /\ InvalidSegmentWeight \in 0..Power[Bits] - 1 /\ MaxSegmentWeight \in 0..Power[Bits] - 1
  BY <1>1, <1>2, <1>3 DEF Positive
<1>5. PICK m \in Int : m = Max({1, v}) /\ m = IF 1 >= v THEN 1 ELSE v
  BY TwoOf
<1>6. Min({m, MaxSegmentWeight}) = IF m <= MaxSegmentWeight THEN m ELSE MaxSegmentWeight
  BY <1>4, TwoOf
<1>7. Min({Max({1, v}), MaxSegmentWeight}) = IF m <= MaxSegmentWeight THEN m ELSE MaxSegmentWeight
  BY <1>5, <1>6
<1>8. Min({Max({1, v}), MaxSegmentWeight}) = IF v > MaxSegmentWeight THEN MaxSegmentWeight ELSE m
  BY <1>4, <1>5, <1>7
<1>9. v <= MaxSegmentWeight => m \in 0..Power[Bits] - 1
  BY <1>1, <1>2, <1>3, <1>4, <1>5 DEF Positive
<1>10. convertToWeight(w, v) = Said(w, v)
  BY <1>5, <1>8 DEF convertToWeight, Said
<1>11. Said(w, v) \in 0..Power[Bits] - 1
  BY <1>4, <1>5, <1>9 DEF Said
<1> QED
  BY <1>10, <1>11

(***************************************************************************)
(* One half of one weight is written.                                      *)
(***************************************************************************)

Written1(packed, new, forward, p, half, value) ==
  /\ Fields \subseteq DOMAIN new /\ SameLists(new, packed)
  /\ Words(new, forward) = Put(Words(packed, forward), p, half, value)
  /\ \A other \in BOOLEAN : other # forward => Words(new, other) = Words(packed, other)

LEMMA Swaps ==
  ASSUME NEW packed, LaidOut(packed), NEW u \in OneUpdate, u.place \in Places(packed), NEW t, t.half \in HalfNames,
         Read(packed, u, t.half) = t.seen
  PROVE  Written1(packed, compare_and_swap(packed, u, t), u.forward, u.place, t.half, t.value)
<1> PICK p \in Nat, f \in BOOLEAN : p = u.place /\ f = u.forward
  BY DEF OneUpdate
<1> PICK h \in HalfNames : h = t.half
  OBVIOUS
<1> PICK value : value = t.value
  OBVIOUS
<1>1. WordOf(u, h) = Spot(p, h)
  <2>1. Spot(p, "lower") \in Nat
    BY FieldsFit DEF HalfNames
  <2>2. get_internal_index(p).lower_word \in Nat
    BY <2>1 DEF Spot
  <2>3. get_internal_index(p).lower_word + 0 = get_internal_index(p).lower_word
    BY <2>2
  <2> QED
    BY <2>3 DEF WordOf, Spot, HalfNames
<1>2. t.seen = Words(packed, f)[Spot(p, h)]
  BY <1>1 DEF Read, Words
<1>3. NewWord(u, t) = Replaced(t.seen, Offset(p, h), Width(p, h), PartOfValue(p, h, value))
  BY DEF NewWord, set_lower_value, set_upper_value, Offset, Width, PartOfValue, HalfNames
<1>4. compare_and_swap(packed, u, t) = IF f THEN [packed EXCEPT !.forward[Spot(p, h)] = NewWord(u, t)]
                                     ELSE [packed EXCEPT !.reverse[Spot(p, h)] = NewWord(u, t)]
  BY <1>1 DEF compare_and_swap
<1> PICK word : word = NewWord(u, t)
  OBVIOUS
<1>5. Put(Words(packed, f), p, h, value) = [Words(packed, f) EXCEPT ![Spot(p, h)] = word]
  BY <1>2, <1>3 DEF Put
<1> PICK spot : spot = Spot(p, h)
  OBVIOUS
<1>6. Fields \subseteq DOMAIN packed
  BY DEF LaidOut
<1>7. CASE f = TRUE
  <2> PICK new : new = [packed EXCEPT !.forward[spot] = word]
    OBVIOUS
  <2>1. /\ Fields \subseteq DOMAIN new
        /\ new.ids = packed.ids /\ new.index = packed.index /\ new.nodes = packed.nodes /\ new.reverse = packed.reverse
        /\ new.forward = [packed.forward EXCEPT ![spot] = word]
    BY <1>6 DEF Fields
  <2>2. compare_and_swap(packed, u, t) = new
    BY <1>4, <1>7
  <2> QED
    BY <1>5, <1>7, <2>1, <2>2 DEF Written1, SameLists, Words
<1>8. CASE f = FALSE
  <2> PICK new : new = [packed EXCEPT !.reverse[spot] = word]
    OBVIOUS
  <2>1. /\ Fields \subseteq DOMAIN new
        /\ new.ids = packed.ids /\ new.index = packed.index /\ new.nodes = packed.nodes /\ new.forward = packed.forward
        /\ new.reverse = [packed.reverse EXCEPT ![spot] = word]
    BY <1>6 DEF Fields
  <2>2. compare_and_swap(packed, u, t) = new
    BY <1>4, <1>8
  <2> QED
    BY <1>5, <1>8, <2>1, <2>2 DEF Written1, SameLists, Words
<1> QED
  BY <1>7, <1>8

OthersStay(packed, new, forward, p, half) ==
  \A f \in BOOLEAN, q \in Places(packed), h \in HalfNames :
    f # forward \/ q # p \/ h # half => PartOf(Words(new, f), q, h) = PartOf(Words(packed, f), q, h)

LEMMA WrittenPlace ==
  ASSUME NEW packed, LaidOut(packed), NEW new, NEW forward \in BOOLEAN, NEW p \in Places(packed), NEW half \in HalfNames, NEW value \in Nat,
         Written1(packed, new, forward, p, half, value)
  PROVE  /\ LaidOut(new)
         /\ PartOf(Words(new, forward), p, half) = PartOfValue(p, half, value) % Power[Width(p, half)]
         /\ OthersStay(packed, new, forward, p, half)
<1>0. Places(packed) \subseteq Nat /\ Places(new) = Places(packed) /\ Count(new) = Count(packed)
  BY PlacesCount DEF Written1, SameLists, Places, Count
<1>1. HasPlace(Words(packed, forward), p)
  BY DEF LaidOut
<1>2. /\ Words(new, forward) \in [DOMAIN Words(packed, forward) -> Nat]
      /\ PartOf(Words(new, forward), p, half) = PartOfValue(p, half, value) % Power[Width(p, half)]
  BY <1>0, <1>1, PutSets DEF Written1
<1>3. ASSUME NEW f \in BOOLEAN, NEW q \in Places(packed) PROVE HasPlace(Words(new, f), q)
  <2>1. HasPlace(Words(packed, f), q)
    BY DEF LaidOut
  <2>2. CASE f = forward
    BY <1>2, <2>1, <2>2 DEF HasPlace
  <2>3. CASE f # forward
    BY <2>1, <2>3 DEF Written1
  <2> QED
    BY <2>2, <2>3
<1>4. LaidOut(new)
  <2>1. Fields \subseteq DOMAIN new /\ new.index = packed.index /\ new.nodes = packed.nodes
    BY DEF Written1, SameLists
  <2>2. GoodIndex(packed.index, Count(packed)) /\ Len(packed.nodes) = packed.index[Count(packed)]
    BY DEF LaidOut
  <2> QED
    BY <1>0, <1>3, <2>1, <2>2 DEF LaidOut
<1>5. ASSUME NEW f \in BOOLEAN, NEW q \in Places(packed), NEW h \in HalfNames, f # forward \/ q # p \/ h # half
      PROVE  PartOf(Words(new, f), q, h) = PartOf(Words(packed, f), q, h)
  <2>1. CASE f = forward
    <3>1. HasPlace(Words(packed, f), q) /\ HasPlace(Words(packed, f), p)
      BY <2>1 DEF LaidOut
    <3>2. PartOf(Put(Words(packed, f), p, half, value), q, h) = PartOf(Words(packed, f), q, h)
      BY <1>0, <1>5, <2>1, <3>1, PutKeeps
    <3> QED
      BY <2>1, <3>2 DEF Written1
  <2>2. CASE f # forward
    BY <2>2 DEF Written1
  <2> QED
    BY <2>1, <2>2
<1>6. OthersStay(packed, new, forward, p, half)
  BY <1>5 DEF OthersStay
<1> QED
  BY <1>2, <1>4, <1>6

LEMMA OthersKept ==
  ASSUME NEW packed, LaidOut(packed), NEW new, NEW forward \in BOOLEAN, NEW p \in Places(packed), NEW half \in HalfNames, NEW value \in Nat,
         Written1(packed, new, forward, p, half, value),
         NEW f \in BOOLEAN, NEW q \in Places(packed), f # forward \/ q # p
  PROVE  Weight(new, f, q) = Weight(packed, f, q) /\ PartOf(Words(new, f), q, "lower") = PartOf(Words(packed, f), q, "lower")
<1>1. \A h \in HalfNames : PartOf(Words(new, f), q, h) = PartOf(Words(packed, f), q, h)
  <2>1. OthersStay(packed, new, forward, p, half)
    BY WrittenPlace, Zenon
  <2> QED
    BY <2>1 DEF OthersStay
<1> QED
  BY <1>1 DEF Weight, Weigh, HalfNames

(***************************************************************************)
(* The tasks.                                                              *)
(***************************************************************************)

PlanOf(osm, packed, id, lookup) == Plan(osm, packed.index, packed.nodes, id, lookup)
Named(osm, packed, lookup) == UNION {ToSet(PlanOf(osm, packed, id, lookup)) : id \in 0..Count(packed) - 1}

Ahead(t, u) == u.id \in ToSet(t.todo) \/ u \in ToSet(t.updates)
Sets(t, u) == t.setting /\ u = Head(t.updates)
Owns(t) == ToSet(t.todo) \cup {u.id : u \in ToSet(t.updates)}
Waits(tasks, u) == \E k \in DOMAIN tasks : Ahead(tasks[k], u)
Held(tasks, u) == \E k \in DOMAIN tasks : Sets(tasks[k], u)

TaskFields == {"todo", "updates", "setting", "half", "seen", "value"}

(* What is still to be done by a task, *)
ListGood(t, osm, old, lookup) ==
  /\ TaskFields \subseteq DOMAIN t
  /\ t.todo \in Seq(0..Count(old) - 1) /\ NoRepeats(t.todo)
  /\ t.updates \in Seq(Named(osm, old, lookup)) /\ NoRepeats(t.updates)
  /\ \A u \in ToSet(t.updates) : u.id \notin ToSet(t.todo)

(* and where it stands with the weight that it sets. *)
SettingGood(t, old, packed) ==
  /\ t.half \in HalfNames /\ t.setting \in BOOLEAN
  /\ ~t.setting => t.half = "lower"
  /\ t.setting =>
       /\ t.updates # <<>>
       /\ \E u \in {Head(t.updates)} :
            /\ t.value = Said(Weight(old, u.forward, u.place), u.value)
            /\ t.half = "upper" =>
                 PartOf(Words(packed, u.forward), u.place, "lower")
                   = PartOfValue(u.place, "lower", t.value) % Power[Width(u.place, "lower")]

TasksGood(osm, old, packed, lookup, tasks) ==
  /\ \A k \in DOMAIN tasks : ListGood(tasks[k], osm, old, lookup) /\ SettingGood(tasks[k], old, packed)
  /\ \A j, k \in DOMAIN tasks : j # k => Owns(tasks[j]) \cap Owns(tasks[k]) = {}

ValuesGood(osm, old, packed, lookup, tasks) ==
  /\ \A u \in Named(osm, old, lookup) :
       \/ Held(tasks, u)
       \/ Weight(packed, u.forward, u.place)
            = IF Waits(tasks, u) THEN Weight(old, u.forward, u.place)
              ELSE Said(Weight(old, u.forward, u.place), u.value)
  /\ \A forward \in BOOLEAN, p \in Places(old) :
       \/ \E u \in Named(osm, old, lookup) : u.place = p /\ u.forward = forward
       \/ Weight(packed, forward, p) = Weight(old, forward, p)

Working(osm, old, packed, lookup, tasks) ==
  /\ LaidOut(old) /\ LaidOut(packed) /\ SameLists(packed, old)
  /\ GoodLookup(lookup)
  /\ TasksGood(osm, old, packed, lookup, tasks)
  /\ ValuesGood(osm, old, packed, lookup, tasks)

LEMMA NamedGood ==
  ASSUME NEW osm, NEW old, LaidOut(old), NEW lookup, GoodLookup(lookup)
  PROVE  /\ \A u \in Named(osm, old, lookup) :
              /\ u \in OneUpdate /\ u.place \in Places(old)
              /\ u.id \in 0..Count(old) - 1 /\ u \in ToSet(PlanOf(osm, old, u.id, lookup))
         /\ \A u, v \in Named(osm, old, lookup) : u.forward = v.forward /\ u.place = v.place => u = v
<1>0. GoodIndex(old.index, Count(old)) /\ Len(old.nodes) = old.index[Count(old)] /\ Count(old) \in Nat
  BY DEF LaidOut, GoodIndex
<1>1. \A id \in 0..Count(old) - 1 : GoodPlan(PlanOf(osm, old, id, lookup), old.index, id)
  BY <1>0, PlanGood DEF PlanOf
<1>2. ASSUME NEW u \in Named(osm, old, lookup)
      PROVE  \E id \in 0..Count(old) - 1 : u \in ToSet(PlanOf(osm, old, id, lookup)) /\ InRange(u, old.index, id) /\ u \in OneUpdate
  <2>1. PICK id \in 0..Count(old) - 1 : u \in ToSet(PlanOf(osm, old, id, lookup))
    BY DEF Named
  <2> PICK s : s = PlanOf(osm, old, id, lookup)
    OBVIOUS
  <2>2. GoodPlan(s, old.index, id)
    BY <1>1
  <2>3. u \in OneUpdate /\ InRange(u, old.index, id)
    BY <2>1, <2>2 DEF GoodPlan, ToSet
  <2> QED
    BY <2>1, <2>3
<1>3. ASSUME NEW u \in Named(osm, old, lookup)
      PROVE  /\ u \in OneUpdate /\ u.place \in Places(old) /\ InRange(u, old.index, u.id)
             /\ u.id \in 0..Count(old) - 1 /\ u \in ToSet(PlanOf(osm, old, u.id, lookup))
  <2>1. PICK id \in 0..Count(old) - 1 : u \in ToSet(PlanOf(osm, old, id, lookup)) /\ InRange(u, old.index, id) /\ u \in OneUpdate
    BY <1>2
  <2>2. u.id = id /\ u.place < old.index[id + 1] /\ u.place \in Nat
    BY <2>1 DEF InRange, OneUpdate
  <2>3. id + 1 \in 0..Count(old) /\ Count(old) \in id + 1..Count(old)
    BY <1>0
  <2>4. old.index[id + 1] <= old.index[Count(old)]
    BY <1>0, <2>3, IndexRises
  <2>5. old.index[id + 1] \in Nat /\ old.index[Count(old)] \in Nat
    BY <1>0, <2>3 DEF GoodIndex
  <2>6. u.place \in Places(old)
    BY <1>0, <2>2, <2>4, <2>5 DEF Places
  <2> QED
    BY <2>1, <2>2, <2>6
<1>4. ASSUME NEW u \in Named(osm, old, lookup), NEW v \in Named(osm, old, lookup), u.forward = v.forward, u.place = v.place
      PROVE  u = v
  <2>1. u.id = v.id
    <3>1. /\ u \in OneUpdate /\ InRange(u, old.index, u.id) /\ u.id \in 0..Count(old) - 1
          /\ v \in OneUpdate /\ InRange(v, old.index, v.id) /\ v.id \in 0..Count(old) - 1
      BY <1>3
    <3> QED
      BY <1>0, <1>4, <3>1, RangesApart
  <2> PICK s : s = PlanOf(osm, old, u.id, lookup)
    OBVIOUS
  <2>2. u \in ToSet(s) /\ v \in ToSet(s) /\ OnePerPlace(s)
    <3>1. u \in ToSet(PlanOf(osm, old, u.id, lookup)) /\ v \in ToSet(PlanOf(osm, old, v.id, lookup)) /\ u.id \in 0..Count(old) - 1
      BY <1>3
    <3>2. GoodPlan(s, old.index, u.id)
      BY <1>1, <3>1
    <3> QED
      BY <2>1, <3>1, <3>2 DEF GoodPlan
  <2>3. PICK i \in DOMAIN s, j \in DOMAIN s : u = s[i] /\ v = s[j]
    BY <2>2 DEF ToSet
  <2> QED
    BY <1>4, <2>2, <2>3 DEF OnePerPlace
<1> QED
  BY <1>3, <1>4

(***************************************************************************)
(* The steps of a task.                                                    *)
(***************************************************************************)

Changes(tasks, others, k, t) ==
  /\ DOMAIN others = DOMAIN tasks /\ others[k] = t
  /\ \A j \in DOMAIN tasks : j # k => others[j] = tasks[j]

LEMMA OwnsLess ==
  ASSUME NEW tasks, NEW k \in DOMAIN tasks, NEW others, NEW t, Changes(tasks, others, k, t), Owns(t) \subseteq Owns(tasks[k]),
         \A i, j \in DOMAIN tasks : i # j => Owns(tasks[i]) \cap Owns(tasks[j]) = {}
  PROVE  \A i, j \in DOMAIN others : i # j => Owns(others[i]) \cap Owns(others[j]) = {}
<1>1. \A j \in DOMAIN tasks : Owns(others[j]) \subseteq Owns(tasks[j])
  <2> SUFFICES ASSUME NEW j \in DOMAIN tasks PROVE Owns(others[j]) \subseteq Owns(tasks[j])
    OBVIOUS
  <2>1. CASE j = k
    BY <2>1 DEF Changes
  <2>2. CASE j # k
    BY <2>2 DEF Changes
  <2> QED
    BY <2>1, <2>2
<1>2. DOMAIN others = DOMAIN tasks
  BY DEF Changes
<1> QED
  BY <1>1, <1>2

(* A step that changes no word. *)
LEMMA Quiet ==
  ASSUME NEW osm, NEW old, NEW packed, NEW lookup, NEW tasks, Working(osm, old, packed, lookup, tasks),
         NEW k \in DOMAIN tasks, NEW others, NEW t, Changes(tasks, others, k, t),
         ListGood(t, osm, old, lookup), SettingGood(t, old, packed), Owns(t) \subseteq Owns(tasks[k]),
         \A u \in Named(osm, old, lookup) : (Ahead(t, u) <=> Ahead(tasks[k], u)) /\ (Sets(tasks[k], u) => Sets(t, u))
  PROVE  Working(osm, old, packed, lookup, others)
<1>1. TasksGood(osm, old, packed, lookup, others)
  <2>1. /\ \A j \in DOMAIN tasks : ListGood(tasks[j], osm, old, lookup) /\ SettingGood(tasks[j], old, packed)
        /\ \A i, j \in DOMAIN tasks : i # j => Owns(tasks[i]) \cap Owns(tasks[j]) = {}
    BY DEF Working, TasksGood
  <2>2. \A i, j \in DOMAIN others : i # j => Owns(others[i]) \cap Owns(others[j]) = {}
    BY <2>1, OwnsLess
  <2>3. \A j \in DOMAIN others : ListGood(others[j], osm, old, lookup) /\ SettingGood(others[j], old, packed)
    BY <2>1 DEF Changes
  <2> QED
    BY <2>2, <2>3 DEF TasksGood
<1>2. ASSUME NEW u \in Named(osm, old, lookup)
      PROVE  (Waits(others, u) <=> Waits(tasks, u)) /\ (Held(tasks, u) => Held(others, u))
  <2>1. \A j \in DOMAIN tasks : (Ahead(others[j], u) <=> Ahead(tasks[j], u)) /\ (Sets(tasks[j], u) => Sets(others[j], u))
    <3> SUFFICES ASSUME NEW j \in DOMAIN tasks
                 PROVE  (Ahead(others[j], u) <=> Ahead(tasks[j], u)) /\ (Sets(tasks[j], u) => Sets(others[j], u))
      OBVIOUS
    <3>1. CASE j = k
      BY <3>1 DEF Changes
    <3>2. CASE j # k
      BY <3>2 DEF Changes
    <3> QED
      BY <3>1, <3>2
  <2> QED
    BY <2>1 DEF Waits, Held, Changes
<1>3. ValuesGood(osm, old, packed, lookup, others)
  BY <1>2 DEF Working, ValuesGood
<1> QED
  BY <1>1, <1>3 DEF Working

LEMMA HeadTail ==
  ASSUME NEW S, NEW s \in Seq(S), s # <<>>, NoRepeats(s)
  PROVE  /\ Head(s) \in S /\ Tail(s) \in Seq(S)
         /\ NoRepeats(Tail(s)) /\ Head(s) \notin ToSet(Tail(s))
         /\ ToSet(s) = {Head(s)} \cup ToSet(Tail(s))
<1>0. PICK n \in Nat : n + 1 = Len(s)
  <2>1. Len(s) \in Nat /\ Len(s) # 0
    OBVIOUS
  <2>2. Len(s) - 1 \in Nat /\ (Len(s) - 1) + 1 = Len(s)
    BY <2>1
  <2> QED
    BY <2>2
<1>1. PICK rest : rest = Tail(s) /\ n + 1 = Len(s) /\ n \in Nat
  BY <1>0
<1>2. Head(s) = s[1] /\ DOMAIN s = 1..n + 1 /\ s[1] \in S /\ rest \in Seq(S)
  BY <1>1
<1>3. DOMAIN rest = 1..n /\ \A i \in 1..n : rest[i] = s[i + 1]
  <2>1. Len(rest) = n
    BY <1>1
  <2>2. ASSUME NEW i \in 1..n PROVE rest[i] = s[i + 1]
    BY <1>1
  <2> QED
    BY <1>2, <2>1, <2>2
<1>4. \A i, j \in 1..n + 1 : s[i] = s[j] => i = j
  BY <1>2 DEF NoRepeats
<1>5. \A i \in 1..n : i + 1 \in 1..n + 1 /\ i + 1 # 1
  BY <1>1
<1>6. NoRepeats(rest)
  <2> SUFFICES ASSUME NEW i \in 1..n, NEW j \in 1..n, rest[i] = rest[j] PROVE i = j
    BY <1>3 DEF NoRepeats
  <2>1. s[i + 1] = s[j + 1]
    BY <1>3
  <2>2. i + 1 = j + 1
    BY <1>4, <1>5, <2>1
  <2> QED
    BY <2>2
<1>7. \A i \in 1..n : rest[i] # s[1]
  <2> SUFFICES ASSUME NEW i \in 1..n, s[i + 1] = s[1] PROVE FALSE
    BY <1>3
  <2>1. 1 \in 1..n + 1
    BY <1>1
  <2> QED
    BY <1>4, <1>5, <2>1
<1>8. ToSet(rest) = {rest[i] : i \in 1..n} /\ ToSet(s) = {s[i] : i \in 1..n + 1}
  BY <1>2, <1>3 DEF ToSet
<1>9. \A i \in 1..n + 1 : i = 1 \/ \E j \in 1..n : i = j + 1
  <2> SUFFICES ASSUME NEW i \in 1..n + 1, i # 1 PROVE \E j \in 1..n : i = j + 1
    OBVIOUS
  <2>1. i - 1 \in 1..n /\ i = (i - 1) + 1
    BY <1>1
  <2> QED
    BY <2>1
<1>10. ToSet(s) = {s[1]} \cup ToSet(rest)
  <2>1. ToSet(rest) \subseteq ToSet(s) /\ s[1] \in ToSet(s)
    <3>1. 1 \in 1..n + 1
      BY <1>1
    <3> QED
      BY <1>3, <1>5, <1>8, <3>1
  <2>2. ASSUME NEW i \in 1..n + 1 PROVE s[i] = s[1] \/ s[i] \in ToSet(rest)
    <3> SUFFICES ASSUME i # 1 PROVE s[i] \in ToSet(rest)
      OBVIOUS
    <3>1. PICK j \in 1..n : i = j + 1
      BY <1>9
    <3>2. rest[j] = s[i]
      BY <1>3, <3>1
    <3> QED
      BY <1>8, <3>2
  <2> QED
    BY <1>8, <2>1, <2>2
<1> QED
  BY <1>1, <1>2, <1>6, <1>7, <1>8, <1>10

(* TakeGeometry *)
LEMMA Takes ==
  ASSUME NEW osm, NEW old, NEW packed, NEW lookup, NEW tasks, Working(osm, old, packed, lookup, tasks),
         NEW k \in DOMAIN tasks, NEW others, NEW t, Changes(tasks, others, k, t), TaskFields \subseteq DOMAIN t,
         tasks[k].updates = <<>>, tasks[k].todo # <<>>,
         t.todo = Tail(tasks[k].todo), t.updates = PlanOf(osm, old, Head(tasks[k].todo), lookup),
         t.setting = tasks[k].setting, t.half = tasks[k].half
  PROVE  Working(osm, old, packed, lookup, others)
<1> PICK id, open : id = Head(tasks[k].todo) /\ open = tasks[k].todo
  OBVIOUS
<1>0. LaidOut(old) /\ GoodLookup(lookup) /\ ListGood(tasks[k], osm, old, lookup) /\ SettingGood(tasks[k], old, packed)
  BY DEF Working, TasksGood
<1>1. open \in Seq(0..Count(old) - 1) /\ NoRepeats(open) /\ open # <<>>
  BY <1>0 DEF ListGood
<1>2. id \in 0..Count(old) - 1 /\ Tail(open) \in Seq(0..Count(old) - 1)
  BY <1>1, HeadTail
<1>3. NoRepeats(Tail(open)) /\ id \notin ToSet(Tail(open)) /\ ToSet(open) = {id} \cup ToSet(Tail(open))
  BY <1>1, HeadTail
<1> PICK s : s = PlanOf(osm, old, id, lookup)
  OBVIOUS
<1>4. GoodPlan(s, old.index, id)
  BY <1>0, <1>2, PlanGood DEF LaidOut, PlanOf
<1>5. s \in Seq(OneUpdate) /\ NoRepeats(s) /\ \A u \in ToSet(s) : u.id = id
  <2>1. s \in Seq(OneUpdate) /\ OnePerPlace(s) /\ \A u \in ToSet(s) : InRange(u, old.index, id)
    BY <1>4 DEF GoodPlan
  <2>2. NoRepeats(s)
    BY <2>1 DEF OnePerPlace, NoRepeats
  <2> QED
    BY <2>1, <2>2 DEF InRange
<1>6. ToSet(s) \subseteq Named(osm, old, lookup)
  BY <1>2 DEF Named
<1>7. s \in Seq(Named(osm, old, lookup))
  BY <1>5, <1>6 DEF ToSet
<1>8. t.todo = Tail(open) /\ t.updates = s
  OBVIOUS
<1>9. ListGood(t, osm, old, lookup)
  BY <1>2, <1>3, <1>5, <1>7, <1>8 DEF ListGood
<1>10. ~tasks[k].setting
  BY <1>0 DEF SettingGood
<1>11. SettingGood(t, old, packed)
  BY <1>0, <1>10 DEF SettingGood
<1>12. ToSet(tasks[k].updates) = {}
  BY DEF ToSet
<1>13. Owns(t) \subseteq Owns(tasks[k])
  BY <1>3, <1>5, <1>8 DEF Owns
<1>14. ASSUME NEW u \in Named(osm, old, lookup) PROVE Ahead(t, u) <=> Ahead(tasks[k], u)
  <2>1. u \in ToSet(PlanOf(osm, old, u.id, lookup))
    BY <1>0, NamedGood
  <2>2. u \in ToSet(s) <=> u.id = id
    BY <1>5, <2>1
  <2> QED
    BY <1>3, <1>8, <1>12, <2>2 DEF Ahead
<1>15. \A u : ~Sets(tasks[k], u)
  BY <1>10 DEF Sets
<1> QED
  BY <1>9, <1>11, <1>13, <1>14, <1>15, Quiet

(* Steps that leave the lists alone. *)
LEMMA SameTodo ==
  ASSUME NEW osm, NEW old, NEW lookup, NEW s, NEW t, ListGood(s, osm, old, lookup), TaskFields \subseteq DOMAIN t,
         t.todo = s.todo, t.updates = s.updates
  PROVE  /\ ListGood(t, osm, old, lookup) /\ Owns(t) = Owns(s)
         /\ \A u : Ahead(t, u) <=> Ahead(s, u)
BY DEF ListGood, Owns, Ahead

(* ReadWord, and a swap that has failed *)
LEMMA Reads ==
  ASSUME NEW osm, NEW old, NEW packed, NEW lookup, NEW tasks, Working(osm, old, packed, lookup, tasks),
         NEW k \in DOMAIN tasks, NEW others, NEW t, Changes(tasks, others, k, t), TaskFields \subseteq DOMAIN t,
         t.todo = tasks[k].todo, t.updates = tasks[k].updates,
         t.setting = tasks[k].setting, t.half = tasks[k].half, t.value = tasks[k].value
  PROVE  Working(osm, old, packed, lookup, others)
<1>0. ListGood(tasks[k], osm, old, lookup) /\ SettingGood(tasks[k], old, packed)
  BY DEF Working, TasksGood
<1>1. ListGood(t, osm, old, lookup) /\ Owns(t) = Owns(tasks[k]) /\ \A u : Ahead(t, u) <=> Ahead(tasks[k], u)
  BY <1>0, SameTodo
<1>2. SettingGood(t, old, packed)
  BY <1>0 DEF SettingGood
<1>3. \A u : Sets(tasks[k], u) => Sets(t, u)
  BY DEF Sets
<1> QED
  BY <1>1, <1>2, <1>3, Quiet

LEMMA HeadNamed ==
  ASSUME NEW osm, NEW old, NEW lookup, NEW t, ListGood(t, osm, old, lookup), t.updates # <<>>
  PROVE  /\ Head(t.updates) \in Named(osm, old, lookup)
         /\ Head(t.updates) \in ToSet(t.updates)
         /\ Head(t.updates).id \in Owns(t)
<1>1. t.updates \in Seq(Named(osm, old, lookup)) /\ t.updates # <<>>
  BY DEF ListGood
<1>2. Len(t.updates) \in Nat /\ 1 \in 1..Len(t.updates) /\ Head(t.updates) = t.updates[1] /\ t.updates[1] \in Named(osm, old, lookup)
  BY <1>1
<1>3. Head(t.updates) \in ToSet(t.updates)
  BY <1>1, <1>2 DEF ToSet
<1> QED
  BY <1>2, <1>3 DEF Owns

(* Two tasks have nothing in common. *)
LEMMA HandsApart ==
  ASSUME NEW osm, NEW old, NEW packed, NEW lookup, NEW tasks, TasksGood(osm, old, packed, lookup, tasks),
         NEW k \in DOMAIN tasks, tasks[k].updates # <<>>, NEW j \in DOMAIN tasks, j # k
  PROVE  ~Ahead(tasks[j], Head(tasks[k].updates)) /\ ~Sets(tasks[j], Head(tasks[k].updates))
<1> PICK u : u = Head(tasks[k].updates)
  OBVIOUS
<1>1. u.id \in Owns(tasks[k])
  BY HeadNamed DEF TasksGood
<1>2. u.id \notin Owns(tasks[j])
  BY <1>1 DEF TasksGood
<1>3. ~Ahead(tasks[j], u)
  BY <1>2 DEF Ahead, Owns
<1>4. ~Sets(tasks[j], u)
  <2> SUFFICES ASSUME tasks[j].setting, u = Head(tasks[j].updates) PROVE FALSE
    BY DEF Sets
  <2>1. ListGood(tasks[j], osm, old, lookup) /\ SettingGood(tasks[j], old, packed)
    BY DEF TasksGood
  <2>2. tasks[j].updates # <<>>
    BY <2>1 DEF SettingGood
  <2>3. u.id \in Owns(tasks[j])
    BY <2>1, <2>2, HeadNamed
  <2> QED
    BY <1>2, <2>3
<1> QED
  BY <1>3, <1>4

(* ConvertWeight *)
LEMMA Converts ==
  ASSUME NEW osm, NEW old, NEW packed, NEW lookup, NEW tasks, Working(osm, old, packed, lookup, tasks),
         NEW k \in DOMAIN tasks, NEW others, NEW t, Changes(tasks, others, k, t), TaskFields \subseteq DOMAIN t,
         tasks[k].updates # <<>>, ~tasks[k].setting,
         t.todo = tasks[k].todo, t.updates = tasks[k].updates, t.setting = TRUE, t.half = tasks[k].half,
         \E u \in {Head(tasks[k].updates)} : t.value = convertToWeight(Value(packed, u.forward, u.place), u.value)
  PROVE  Working(osm, old, packed, lookup, others)
<1>0. ListGood(tasks[k], osm, old, lookup) /\ SettingGood(tasks[k], old, packed)
  BY DEF Working, TasksGood
<1>1. ListGood(t, osm, old, lookup) /\ Owns(t) = Owns(tasks[k]) /\ \A u : Ahead(t, u) <=> Ahead(tasks[k], u)
  BY <1>0, SameTodo
<1> PICK u : u = Head(tasks[k].updates)
  OBVIOUS
<1>2. u \in Named(osm, old, lookup) /\ u \in ToSet(tasks[k].updates)
  BY <1>0, HeadNamed
<1>3. ~Held(tasks, u)
  <2> SUFFICES ASSUME NEW j \in DOMAIN tasks PROVE ~Sets(tasks[j], u)
    BY DEF Held
  <2>1. CASE j = k
    BY <2>1 DEF Sets
  <2>2. CASE j # k
    BY <2>2, HandsApart DEF Working
  <2> QED
    BY <2>1, <2>2
<1>4. Waits(tasks, u)
  BY <1>2 DEF Waits, Ahead
<1>5. Weight(packed, u.forward, u.place) = Weight(old, u.forward, u.place)
  BY <1>2, <1>3, <1>4 DEF Working, ValuesGood
<1>6. t.value = Said(Weight(old, u.forward, u.place), u.value)
  <2>1. t.value = convertToWeight(Weight(old, u.forward, u.place), u.value)
    BY <1>5, ValueWeighs
  <2>2. u \in OneUpdate /\ u.place \in Places(old)
    BY <1>2, NamedGood DEF Working
  <2>3. Weight(old, u.forward, u.place) \in 0..Power[Bits] - 1
    <3>1. u.forward \in BOOLEAN /\ u.place \in Nat
      BY <2>2 DEF OneUpdate
    <3>2. HasPlace(Words(old, u.forward), u.place)
      BY <2>2, <3>1 DEF Working, LaidOut
    <3> QED
      BY <3>1, <3>2, WeightsFit DEF Weight
  <2>4. u.value \in Int
    BY <2>2 DEF OneUpdate
  <2> QED
    BY <2>1, <2>3, <2>4, SaidFits
<1>7. t.half = "lower"
  BY <1>0 DEF SettingGood
<1>8. SettingGood(t, old, packed)
  BY <1>6, <1>7 DEF SettingGood, HalfNames
<1>9. \A v : Sets(tasks[k], v) => Sets(t, v)
  BY DEF Sets
<1> QED
  BY <1>1, <1>8, <1>9, Quiet

(***************************************************************************)
(* Swaps.                                                                  *)
(***************************************************************************)

NowhereNamed(osm, old, lookup, forward, p) ==
  ~\E u \in Named(osm, old, lookup) : u.place = p /\ u.forward = forward

(* A swap leaves alone what other tasks have written and what no line names. *)
Spared(osm, old, packed, lookup, tasks, k, u, new) ==
  /\ LaidOut(new) /\ SameLists(new, old)
  /\ \A j \in DOMAIN tasks : j # k => SettingGood(tasks[j], old, new)
  /\ \A v \in Named(osm, old, lookup) : v # u => Weight(new, v.forward, v.place) = Weight(packed, v.forward, v.place)
  /\ \A forward \in BOOLEAN, p \in Places(old) :
       NowhereNamed(osm, old, lookup, forward, p) => Weight(new, forward, p) = Weight(packed, forward, p)

LEMMA InHand ==
  ASSUME NEW osm, NEW old, NEW packed, NEW lookup, NEW tasks, Working(osm, old, packed, lookup, tasks),
         NEW k \in DOMAIN tasks, tasks[k].setting, NEW u, u = Head(tasks[k].updates)
  PROVE  /\ ListGood(tasks[k], osm, old, lookup) /\ SettingGood(tasks[k], old, packed) /\ tasks[k].updates # <<>>
         /\ u \in Named(osm, old, lookup) /\ u \in OneUpdate /\ u.forward \in BOOLEAN
         /\ u.place \in Places(packed) /\ u.place \in Nat
         /\ tasks[k].value = Said(Weight(old, u.forward, u.place), u.value)
         /\ tasks[k].value \in 0..Power[Bits] - 1
<1>1. ListGood(tasks[k], osm, old, lookup) /\ SettingGood(tasks[k], old, packed)
  BY DEF Working, TasksGood
<1>2. tasks[k].updates # <<>> /\ tasks[k].value = Said(Weight(old, u.forward, u.place), u.value)
  BY <1>1 DEF SettingGood
<1>3. u \in Named(osm, old, lookup)
  BY <1>1, <1>2, HeadNamed
<1>4. u \in OneUpdate /\ u.place \in Places(old)
  BY <1>3, NamedGood DEF Working
<1>5. Places(packed) = Places(old)
  BY DEF Working, SameLists, Places
<1>6. u.forward \in BOOLEAN /\ u.place \in Nat /\ u.value \in Int
  BY <1>4 DEF OneUpdate
<1>7. Weight(old, u.forward, u.place) \in 0..Power[Bits] - 1
  <2>1. HasPlace(Words(old, u.forward), u.place)
    BY <1>4, <1>6 DEF Working, LaidOut
  <2> QED
    BY <1>6, <2>1, WeightsFit DEF Weight
<1>8. tasks[k].value \in 0..Power[Bits] - 1
  BY <1>2, <1>6, <1>7, SaidFits
<1> QED
  BY <1>1, <1>2, <1>3, <1>4, <1>5, <1>6, <1>8

LEMMA SwapSpares ==
  ASSUME NEW osm, NEW old, NEW packed, NEW lookup, NEW tasks, Working(osm, old, packed, lookup, tasks),
         NEW k \in DOMAIN tasks, tasks[k].setting, NEW u, u = Head(tasks[k].updates),
         NEW half \in HalfNames, NEW new, Written1(packed, new, u.forward, u.place, half, tasks[k].value)
  PROVE  Spared(osm, old, packed, lookup, tasks, k, u, new)
<1>0. LaidOut(old) /\ LaidOut(packed) /\ SameLists(packed, old) /\ GoodLookup(lookup) /\ TasksGood(osm, old, packed, lookup, tasks)
  BY DEF Working
<1>1. /\ u \in Named(osm, old, lookup) /\ u \in OneUpdate /\ u.forward \in BOOLEAN
      /\ u.place \in Places(packed) /\ u.place \in Nat /\ tasks[k].value \in 0..Power[Bits] - 1
      /\ tasks[k].updates # <<>>
  BY InHand
<1>2. PICK value \in Nat : value = tasks[k].value
  BY <1>1
<1>3. Written1(packed, new, u.forward, u.place, half, value)
  BY <1>2
<1>4. LaidOut(new)
  BY <1>0, <1>1, <1>3, WrittenPlace
<1>5. SameLists(new, old) /\ Places(old) = Places(packed)
  BY <1>0, <1>3 DEF SameLists, Written1, Places
<1>6. ASSUME NEW forward \in BOOLEAN, NEW p \in Places(packed), forward # u.forward \/ p # u.place
      PROVE  /\ Weight(new, forward, p) = Weight(packed, forward, p)
             /\ PartOf(Words(new, forward), p, "lower") = PartOf(Words(packed, forward), p, "lower")
  BY <1>0, <1>1, <1>3, <1>6, OthersKept
<1>7. \A v \in Named(osm, old, lookup) :
        /\ v.forward \in BOOLEAN /\ v.place \in Places(packed)
        /\ v # u => v.forward # u.forward \/ v.place # u.place
  <2>1. /\ \A v \in Named(osm, old, lookup) : v \in OneUpdate /\ v.place \in Places(old)
        /\ \A v, w \in Named(osm, old, lookup) : v.forward = w.forward /\ v.place = w.place => v = w
    BY <1>0, NamedGood
  <2> QED
    BY <1>1, <1>5, <2>1 DEF OneUpdate
<1>8. \A v \in Named(osm, old, lookup) : v # u => Weight(new, v.forward, v.place) = Weight(packed, v.forward, v.place)
  BY <1>6, <1>7
<1>9. \A forward \in BOOLEAN, p \in Places(old) :
        NowhereNamed(osm, old, lookup, forward, p) => Weight(new, forward, p) = Weight(packed, forward, p)
  BY <1>1, <1>5, <1>6 DEF NowhereNamed
<1>10. ASSUME NEW j \in DOMAIN tasks, j # k PROVE SettingGood(tasks[j], old, new)
  <2>1. ListGood(tasks[j], osm, old, lookup) /\ SettingGood(tasks[j], old, packed)
    BY <1>0 DEF TasksGood
  <2>2. CASE tasks[j].setting
    <3> PICK v : v = Head(tasks[j].updates)
      OBVIOUS
    <3>1. tasks[j].updates # <<>>
      BY <2>1, <2>2 DEF SettingGood
    <3>2. v \in Named(osm, old, lookup)
      BY <2>1, <3>1, HeadNamed
    <3>3. v # u
      <4>1. ~Sets(tasks[j], u)
        BY <1>0, <1>1, <1>10, HandsApart
      <4> QED
        BY <2>2, <4>1 DEF Sets
    <3>4. PartOf(Words(new, v.forward), v.place, "lower") = PartOf(Words(packed, v.forward), v.place, "lower")
      BY <1>6, <1>7, <3>2, <3>3
    <3> QED
      BY <2>1, <3>4 DEF SettingGood
  <2>3. CASE ~tasks[j].setting
    BY <2>1, <2>3 DEF SettingGood
  <2> QED
    BY <2>2, <2>3
<1> QED
  BY <1>4, <1>5, <1>8, <1>9, <1>10 DEF Spared

(* The lower half is written. *)
LEMMA SwapsLower ==
  ASSUME NEW osm, NEW old, NEW packed, NEW lookup, NEW tasks, Working(osm, old, packed, lookup, tasks),
         NEW k \in DOMAIN tasks, NEW others, NEW t, Changes(tasks, others, k, t), TaskFields \subseteq DOMAIN t,
         tasks[k].setting, tasks[k].half = "lower", NEW u, u = Head(tasks[k].updates),
         NEW new, Written1(packed, new, u.forward, u.place, "lower", tasks[k].value),
         t.todo = tasks[k].todo, t.updates = tasks[k].updates,
         t.setting = tasks[k].setting, t.half = "upper", t.value = tasks[k].value
  PROVE  Working(osm, old, new, lookup, others)
<1>0. LaidOut(packed) /\ TasksGood(osm, old, packed, lookup, tasks) /\ ValuesGood(osm, old, packed, lookup, tasks)
  BY DEF Working
<1>1. Spared(osm, old, packed, lookup, tasks, k, u, new)
  BY SwapSpares DEF HalfNames
<1>2. /\ ListGood(tasks[k], osm, old, lookup) /\ SettingGood(tasks[k], old, packed) /\ tasks[k].updates # <<>>
      /\ u \in Named(osm, old, lookup) /\ u.forward \in BOOLEAN /\ u.place \in Places(packed)
      /\ tasks[k].value \in 0..Power[Bits] - 1
  BY InHand
<1>3. ListGood(t, osm, old, lookup) /\ Owns(t) = Owns(tasks[k]) /\ \A v : Ahead(t, v) <=> Ahead(tasks[k], v)
  BY <1>2, SameTodo
<1>4. SettingGood(t, old, new)
  <2>1. PICK value \in Nat : value = tasks[k].value
    BY <1>2
  <2>2. "lower" \in HalfNames
    BY DEF HalfNames
  <2>3. Written1(packed, new, u.forward, u.place, "lower", value)
    BY <2>1
  <2>4. PartOf(Words(new, u.forward), u.place, "lower")
          = PartOfValue(u.place, "lower", value) % Power[Width(u.place, "lower")]
    BY <1>0, <1>2, <2>2, <2>3, WrittenPlace
  <2>5. t.value = value /\ t.value = Said(Weight(old, u.forward, u.place), u.value)
    BY <1>2, <2>1 DEF SettingGood
  <2> QED
    BY <1>2, <2>4, <2>5 DEF SettingGood, HalfNames
<1>5. TasksGood(osm, old, new, lookup, others)
  <2>1. \A i, j \in DOMAIN others : i # j => Owns(others[i]) \cap Owns(others[j]) = {}
    BY <1>0, <1>3, OwnsLess DEF TasksGood
  <2>2. \A j \in DOMAIN tasks : ListGood(others[j], osm, old, lookup) /\ SettingGood(others[j], old, new)
    BY <1>0, <1>1, <1>3, <1>4 DEF Changes, TasksGood, Spared
  <2>3. DOMAIN others = DOMAIN tasks
    BY DEF Changes
  <2> QED
    BY <2>1, <2>2, <2>3 DEF TasksGood
<1>6. ASSUME NEW v \in Named(osm, old, lookup)
      PROVE  (Waits(others, v) <=> Waits(tasks, v)) /\ (Held(tasks, v) => Held(others, v)) /\ (v = u => Held(others, v))
  <2>0. Sets(tasks[k], v) => Sets(t, v)
    BY DEF Sets
  <2>1. \A j \in DOMAIN tasks : (Ahead(others[j], v) <=> Ahead(tasks[j], v)) /\ (Sets(tasks[j], v) => Sets(others[j], v))
    BY <1>3, <2>0 DEF Changes
  <2>2. Sets(t, u)
    BY DEF Sets
  <2> QED
    BY <2>1, <2>2 DEF Waits, Held, Changes
<1>7. ValuesGood(osm, old, new, lookup, others)
  <2>1. ASSUME NEW v \in Named(osm, old, lookup)
        PROVE  \/ Held(others, v)
               \/ Weight(new, v.forward, v.place)
                    = IF Waits(others, v) THEN Weight(old, v.forward, v.place)
                      ELSE Said(Weight(old, v.forward, v.place), v.value)
    <3> SUFFICES ASSUME ~Held(others, v) PROVE
                    Weight(new, v.forward, v.place)
                      = IF Waits(others, v) THEN Weight(old, v.forward, v.place)
                        ELSE Said(Weight(old, v.forward, v.place), v.value)
      OBVIOUS
    <3>1. v # u /\ ~Held(tasks, v)
      BY <1>6
    <3>2. Weight(new, v.forward, v.place) = Weight(packed, v.forward, v.place)
      BY <1>1, <3>1 DEF Spared
    <3> QED
      BY <1>0, <1>6, <3>1, <3>2 DEF ValuesGood
  <2>2. ASSUME NEW forward \in BOOLEAN, NEW p \in Places(old)
        PROVE  \/ \E v \in Named(osm, old, lookup) : v.place = p /\ v.forward = forward
               \/ Weight(new, forward, p) = Weight(old, forward, p)
    BY <1>0, <1>1 DEF ValuesGood, Spared, NowhereNamed
  <2> QED
    BY <2>1, <2>2 DEF ValuesGood
<1> QED
  BY <1>1, <1>5, <1>7 DEF Working, Spared

(* The upper half is written: the weight is the one that the line says. *)
LEMMA SwapsUpper ==
  ASSUME NEW osm, NEW old, NEW packed, NEW lookup, NEW tasks, Working(osm, old, packed, lookup, tasks),
         NEW k \in DOMAIN tasks, NEW others, NEW t, Changes(tasks, others, k, t), TaskFields \subseteq DOMAIN t,
         tasks[k].setting, tasks[k].half = "upper", NEW u, u = Head(tasks[k].updates),
         NEW new, Written1(packed, new, u.forward, u.place, "upper", tasks[k].value),
         t.todo = tasks[k].todo, t.updates = Tail(tasks[k].updates), t.setting = FALSE, t.half = "lower"
  PROVE  Working(osm, old, new, lookup, others)
<1>0. LaidOut(packed) /\ TasksGood(osm, old, packed, lookup, tasks) /\ ValuesGood(osm, old, packed, lookup, tasks)
  BY DEF Working
<1>1. Spared(osm, old, packed, lookup, tasks, k, u, new)
  BY SwapSpares DEF HalfNames
<1>2. /\ ListGood(tasks[k], osm, old, lookup) /\ SettingGood(tasks[k], old, packed) /\ tasks[k].updates # <<>>
      /\ u \in Named(osm, old, lookup) /\ u.forward \in BOOLEAN /\ u.place \in Places(packed) /\ u.place \in Nat
      /\ tasks[k].value = Said(Weight(old, u.forward, u.place), u.value)
      /\ tasks[k].value \in 0..Power[Bits] - 1
  BY InHand
<1>3. /\ tasks[k].todo \in Seq(0..Count(old) - 1) /\ NoRepeats(tasks[k].todo)
      /\ tasks[k].updates \in Seq(Named(osm, old, lookup)) /\ NoRepeats(tasks[k].updates)
      /\ \A v \in ToSet(tasks[k].updates) : v.id \notin ToSet(tasks[k].todo)
  BY <1>2 DEF ListGood
<1> PICK rest : rest = Tail(tasks[k].updates)
  OBVIOUS
<1>4. /\ rest \in Seq(Named(osm, old, lookup)) /\ NoRepeats(rest) /\ u \notin ToSet(rest)
      /\ ToSet(tasks[k].updates) = {u} \cup ToSet(rest)
  BY <1>2, <1>3, HeadTail
<1>5. ListGood(t, osm, old, lookup) /\ Owns(t) \subseteq Owns(tasks[k])
  BY <1>3, <1>4 DEF ListGood, Owns
<1>6. SettingGood(t, old, new)
  BY DEF SettingGood, HalfNames
<1>7. TasksGood(osm, old, new, lookup, others)
  <2>1. \A i, j \in DOMAIN others : i # j => Owns(others[i]) \cap Owns(others[j]) = {}
    BY <1>0, <1>5, OwnsLess DEF TasksGood
  <2>2. \A j \in DOMAIN tasks : ListGood(others[j], osm, old, lookup) /\ SettingGood(others[j], old, new)
    BY <1>0, <1>1, <1>5, <1>6 DEF Changes, TasksGood, Spared
  <2>3. DOMAIN others = DOMAIN tasks
    BY DEF Changes
  <2> QED
    BY <2>1, <2>2, <2>3 DEF TasksGood
<1>8. Weight(new, u.forward, u.place) = Said(Weight(old, u.forward, u.place), u.value)
  <2>1. PICK value \in 0..Power[Bits] - 1 : value = tasks[k].value
    BY <1>2
  <2>2. "lower" \in HalfNames /\ "upper" \in HalfNames /\ HalfNames = {"lower", "upper"} /\ value \in Nat
    BY DEF HalfNames
  <2>3. Written1(packed, new, u.forward, u.place, "upper", value)
    BY <2>1
  <2>4. /\ PartOf(Words(new, u.forward), u.place, "upper") = PartOfValue(u.place, "upper", value) % Power[Width(u.place, "upper")]
        /\ OthersStay(packed, new, u.forward, u.place, "upper")
    <3>1. "upper" \in HalfNames /\ value \in Nat /\ u.forward \in BOOLEAN /\ u.place \in Places(packed)
      BY <1>2, <2>2
    <3> QED
      BY <1>0, <2>3, <3>1, WrittenPlace
  <2>5. PartOf(Words(new, u.forward), u.place, "lower") = PartOf(Words(packed, u.forward), u.place, "lower")
    BY <1>2, <2>2, <2>4 DEF OthersStay
  <2>6. PartOf(Words(packed, u.forward), u.place, "lower")
          = PartOfValue(u.place, "lower", value) % Power[Width(u.place, "lower")]
    BY <1>2, <2>1 DEF SettingGood
  <2>7. \A h \in HalfNames :
          PartOf(Words(new, u.forward), u.place, h) = PartOfValue(u.place, h, value) % Power[Width(u.place, h)]
    BY <2>2, <2>4, <2>5, <2>6
  <2>8. Weight(new, u.forward, u.place) = value
    BY <1>2, <2>7, HalvesMakeUp DEF Weight
  <2> QED
    BY <1>2, <2>1, <2>8
<1>9. ~Waits(others, u)
  <2> SUFFICES ASSUME NEW j \in DOMAIN tasks PROVE ~Ahead(others[j], u)
    BY DEF Waits, Changes
  <2>1. CASE j = k
    <3>1. u.id \notin ToSet(tasks[k].todo)
      BY <1>3, <1>4
    <3> QED
      BY <1>4, <2>1, <3>1 DEF Ahead, Changes
  <2>2. CASE j # k
    <3>1. ~Ahead(tasks[j], u)
      BY <1>0, <1>2, <2>2, HandsApart
    <3> QED
      BY <2>2, <3>1 DEF Changes
  <2> QED
    BY <2>1, <2>2
<1>10. ASSUME NEW v \in Named(osm, old, lookup), v # u
       PROVE  (Waits(others, v) <=> Waits(tasks, v)) /\ (Held(tasks, v) => Held(others, v))
  <2>1. ~Sets(tasks[k], v)
    BY <1>10 DEF Sets
  <2>2. Ahead(t, v) <=> Ahead(tasks[k], v)
    BY <1>4, <1>10 DEF Ahead
  <2>3. \A j \in DOMAIN tasks : (Ahead(others[j], v) <=> Ahead(tasks[j], v)) /\ (Sets(tasks[j], v) => Sets(others[j], v))
    BY <2>1, <2>2 DEF Changes
  <2> QED
    BY <2>3 DEF Waits, Held, Changes
<1>11. ValuesGood(osm, old, new, lookup, others)
  <2>1. ASSUME NEW v \in Named(osm, old, lookup)
        PROVE  \/ Held(others, v)
               \/ Weight(new, v.forward, v.place)
                    = IF Waits(others, v) THEN Weight(old, v.forward, v.place)
                      ELSE Said(Weight(old, v.forward, v.place), v.value)
    <3>1. CASE v = u
      BY <1>8, <1>9, <3>1
    <3>2. CASE v # u
      <4>1. Weight(new, v.forward, v.place) = Weight(packed, v.forward, v.place)
        BY <1>1, <3>2 DEF Spared
      <4> QED
        BY <1>0, <1>10, <3>2, <4>1 DEF ValuesGood
    <3> QED
      BY <3>1, <3>2
  <2>2. ASSUME NEW forward \in BOOLEAN, NEW p \in Places(old)
        PROVE  \/ \E v \in Named(osm, old, lookup) : v.place = p /\ v.forward = forward
               \/ Weight(new, forward, p) = Weight(old, forward, p)
    BY <1>0, <1>1 DEF ValuesGood, Spared, NowhereNamed
  <2> QED
    BY <2>1, <2>2 DEF ValuesGood
<1> QED
  BY <1>1, <1>7, <1>11 DEF Working, Spared

(***************************************************************************)
(* Runs.                                                                   *)
(***************************************************************************)

LEMMA OneChosen ==
  ASSUME NEW S, S # {}
  PROVE  (CHOOSE c \in S : TRUE) \in S
OBVIOUS

LEMMA SegmentDataFields == Fields \subseteq DOMAIN ToSegmentData
<1> DEFINE Before(p, q) == p[1] < q[1] \/ (p[1] = q[1] /\ p[2] < q[2])
           Id(p) == Cardinality({q \in DOMAIN geometries : Before(q, p)})
           Order(ids) == [i \in 1..Cardinality(DOMAIN geometries) |-> CHOOSE p \in DOMAIN geometries : ids[p] = i - 1]
           Old(w) == IF w = NoPenalty THEN InvalidSegmentWeight ELSE w
           Lists(pairs) == FlattenSeq([i \in DOMAIN pairs |-> geometries[pairs[i]]])
           Index(pairs) == Computed([i \in 0..Len(pairs) |->
                             FoldSet(LAMBDA j, sum : sum + Len(geometries[pairs[j]]), 0, 1..i)])
           Container(pairs, ids, all) ==
             [ids |-> ids, index |-> Index(pairs),
              nodes |-> [i \in DOMAIN all |-> all[i].node],
              forward |-> Packed([i \in DOMAIN all |-> Old(all[i].forward)]),
              reverse |-> Packed([i \in DOMAIN all |-> Old(all[i].reverse)])]
           Built(pairs, ids) == CHOOSE c \in {Container(pairs, ids, all) : all \in {Lists(pairs)}} : TRUE
           X == Computed([p \in DOMAIN geometries |-> Id(p)])
<1>1. ToSegmentData = CHOOSE c \in {Built(Order(ids), ids) : ids \in {X}} : TRUE
  BY DEF ToSegmentData
<1>2. \A pairs, ids, all : Fields \subseteq DOMAIN Container(pairs, ids, all)
  <2> HIDE DEF Index
  <2> QED
    BY DEF Fields
<1> HIDE DEF Container, Order, Lists, X
<1>3. \A pairs, ids : Fields \subseteq DOMAIN Built(pairs, ids)
  <2> SUFFICES ASSUME NEW pairs, NEW ids PROVE Fields \subseteq DOMAIN Built(pairs, ids)
    OBVIOUS
  <2>1. Built(pairs, ids) \in {Container(pairs, ids, all) : all \in {Lists(pairs)}}
    BY OneChosen
  <2> QED
    BY <1>2, <2>1
<1> HIDE DEF Built
<1>4. ToSegmentData \in {Built(Order(ids), ids) : ids \in {X}}
  BY <1>1, OneChosen
<1> QED
  BY <1>3, <1>4

LEMMA LookupsGood ==
  ASSUME NEW csv, \A f \in DOMAIN csv : \A line \in ToSet(csv[f]) : line.value \in Int, NEW table \in Lookups(csv)
  PROVE  GoodLookup(table)
<1> DEFINE all == UNION {{[key |-> line.key, value |-> line.value, source |-> f] : line \in ToSet(csv[f])} : f \in DOMAIN csv}
           keys == {l.key : l \in all}
<1>1. table \in [keys -> {l.value : l \in all}]
  BY DEF Lookups
<1>2. \A l \in all : l.value \in Int
  OBVIOUS
<1> HIDE DEF all
<1> QED
  BY <1>1, <1>2 DEF GoodLookup

LEMMA FirstLists ==
  ASSUME NEW a \in Nat, NEW b \in Nat, NEW count \in Nat, a + b <= count, NEW open, open = [i \in 1..b |-> a + i - 1]
  PROVE  open \in Seq(0..count - 1) /\ NoRepeats(open) /\ ToSet(open) = a..a + b - 1
<1>1. \A i \in 1..b : a + i - 1 \in 0..count - 1
  OBVIOUS
<1>2. open \in Seq(0..count - 1) /\ DOMAIN open = 1..b
  BY <1>1
<1>3. NoRepeats(open)
  BY <1>2 DEF NoRepeats
<1>4. ToSet(open) = {a + i - 1 : i \in 1..b}
  BY <1>2 DEF ToSet
<1>5. \A n \in a..a + b - 1 : n - a + 1 \in 1..b /\ a + (n - a + 1) - 1 = n
  OBVIOUS
<1>6. \A i \in 1..b : a + i - 1 \in a..a + b - 1
  OBVIOUS
<1> QED
  BY <1>2, <1>3, <1>4, <1>5, <1>6, ZenonT(40)

LEMMA FirstTask ==
  ASSUME NEW osm, NEW old, NEW lookup, NEW open, open \in Seq(0..Count(old) - 1), NoRepeats(open)
  PROVE  /\ ListGood(Task(open), osm, old, lookup) /\ SettingGood(Task(open), old, old)
         /\ Owns(Task(open)) = ToSet(open) /\ Task(open).todo = open
<1>1. Task(open).todo = open /\ Task(open).updates = <<>> /\ Task(open).setting = FALSE /\ Task(open).half = "lower"
  BY DEF Task
<1>2. TaskFields \subseteq DOMAIN Task(open)
  BY DEF Task, TaskFields
<1>3. <<>> \in Seq(Named(osm, old, lookup)) /\ NoRepeats(<<>>) /\ ToSet(<<>>) = {}
  BY DEF NoRepeats, ToSet
<1> QED
  BY <1>1, <1>2, <1>3 DEF ListGood, SettingGood, Owns, HalfNames

LEMMA Divisions ==
  ASSUME NEW osm, NEW old, LaidOut(old), NEW lookup, GoodLookup(lookup), NEW n
  PROVE  Working(osm, old, old, lookup, Divided(Count(old), n))
<1> PICK tasks : tasks = Divided(Count(old), n)
  OBVIOUS
<1>0. Count(old) \in Nat
  BY PlacesCount
<1>1. PICK half \in Nat : half = Count(old) \div 2 /\ half <= Count(old)
  BY <1>0
<1>2. PICK all : all = [i \in 1..Count(old) |-> i - 1] /\ all \in Seq(0..Count(old) - 1) /\ NoRepeats(all) /\ ToSet(all) = 0..Count(old) - 1
  <2> DEFINE all == [i \in 1..Count(old) |-> i - 1]
  <2>1. all = [i \in 1..Count(old) |-> 0 + i - 1]
    OBVIOUS
  <2>2. all \in Seq(0..Count(old) - 1) /\ NoRepeats(all) /\ ToSet(all) = 0..0 + Count(old) - 1
    BY <1>0, <2>1, FirstLists
  <2> QED
    BY <1>0, <2>2
<1>3. PICK lower : lower = [i \in 1..half |-> i - 1] /\ lower \in Seq(0..Count(old) - 1) /\ NoRepeats(lower) /\ ToSet(lower) = 0..half - 1
  <2> DEFINE lower == [i \in 1..half |-> i - 1]
  <2>1. lower = [i \in 1..half |-> 0 + i - 1]
    OBVIOUS
  <2>2. lower \in Seq(0..Count(old) - 1) /\ NoRepeats(lower) /\ ToSet(lower) = 0..0 + half - 1
    <3>1. 0 \in Nat /\ half \in Nat /\ 0 + half <= Count(old)
      BY <1>0, <1>1
    <3> QED
      BY <1>0, <2>1, <3>1, FirstLists
  <2> QED
    BY <1>0, <2>2
<1>4. PICK upper : upper = [i \in 1..Count(old) - half |-> half + i - 1] /\ upper \in Seq(0..Count(old) - 1) /\ NoRepeats(upper)
                   /\ ToSet(upper) = half..Count(old) - 1
  <2> DEFINE upper == [i \in 1..Count(old) - half |-> half + i - 1]
  <2>1. PICK b \in Nat : b = Count(old) - half
    BY <1>0, <1>1
  <2>2. half + b = Count(old)
    BY <1>0, <1>1, <2>1
  <2>3. upper \in Seq(0..Count(old) - 1) /\ NoRepeats(upper) /\ ToSet(upper) = half..half + b - 1
    <3>1. half + b <= Count(old) /\ upper = [i \in 1..b |-> half + i - 1]
      BY <1>0, <2>1, <2>2
    <3> HIDE DEF upper
    <3> QED
      BY <1>0, <1>1, <3>1, FirstLists
  <2> QED
    BY <2>2, <2>3
<1>5. tasks = IF n = 2 THEN <<Task(lower), Task(upper)>> ELSE <<Task(all)>>
  BY <1>1, <1>2, <1>3, <1>4 DEF Divided, Halves
<1>6. \A open \in {all, lower, upper} :
        /\ ListGood(Task(open), osm, old, lookup) /\ SettingGood(Task(open), old, old)
        /\ Owns(Task(open)) = ToSet(open) /\ Task(open).todo = open
  BY <1>2, <1>3, <1>4, FirstTask
<1>7. TasksGood(osm, old, old, lookup, tasks) /\ \A id \in 0..Count(old) - 1 : \E k \in DOMAIN tasks : id \in ToSet(tasks[k].todo)
  <2>1. CASE n = 2
    <3>1. DOMAIN tasks = {1, 2} /\ tasks[1] = Task(lower) /\ tasks[2] = Task(upper)
      BY <1>5, <2>1
    <3>2. ToSet(lower) \cap ToSet(upper) = {} /\ \A id \in 0..Count(old) - 1 : id \in ToSet(lower) \/ id \in ToSet(upper)
      <4>1. ToSet(lower) = 0..half - 1 /\ ToSet(upper) = half..Count(old) - 1
        BY <1>3, <1>4
      <4>2. PICK c \in Nat : c = Count(old)
        BY <1>0
      <4>3. (0..half - 1) \cap (half..c - 1) = {} /\ \A id \in 0..c - 1 : id \in 0..half - 1 \/ id \in half..c - 1
        BY <1>1
      <4> QED
        BY <4>1, <4>2, <4>3
    <3> QED
      BY <1>6, <3>1, <3>2 DEF TasksGood
  <2>2. CASE n # 2
    <3>1. DOMAIN tasks = {1} /\ tasks[1] = Task(all)
      BY <1>5, <2>2
    <3> QED
      BY <1>2, <1>6, <3>1 DEF TasksGood
  <2> QED
    BY <2>1, <2>2
<1>8. \A u \in Named(osm, old, lookup) : Waits(tasks, u)
  <2>1. \A u \in Named(osm, old, lookup) : u.id \in 0..Count(old) - 1
    BY NamedGood
  <2> QED
    BY <1>7, <2>1 DEF Waits, Ahead
<1>9. ValuesGood(osm, old, old, lookup, tasks)
  BY <1>8 DEF ValuesGood
<1> QED
  BY <1>7, <1>9 DEF Working, SameLists

(* What the steps make of the record of a run. *)
RunFields == {"stage", "commands", "runs", "command", "lookup", "data", "updated", "tasks"}
RunKept(r, s, k) ==
  /\ RunFields \subseteq DOMAIN s /\ s.stage = r.stage /\ s.commands = r.commands /\ s.lookup = r.lookup
  /\ Changes(r.tasks, s.tasks, k, s.tasks[k]) /\ TaskFields \subseteq DOMAIN s.tasks[k]

Taken(t, s, named) == s.todo = Tail(t.todo) /\ s.updates = named /\ s.setting = t.setting /\ s.half = t.half
Converted(t, s, value) ==
  s.todo = t.todo /\ s.updates = t.updates /\ s.setting = TRUE /\ s.half = t.half /\ s.value = value
HasRead(t, s) ==
  s.todo = t.todo /\ s.updates = t.updates /\ s.setting = t.setting /\ s.half = t.half /\ s.value = t.value

LEMMA TakeRecord ==
  ASSUME NEW r, NEW s, NEW k, NEW named, NEW new, RunFields \subseteq DOMAIN r, k \in DOMAIN r.tasks, TaskFields \subseteq DOMAIN r.tasks[k],
         s = [r EXCEPT !.tasks[k].todo = Tail(@), !.tasks[k].updates = named, !.updated = new]
  PROVE  RunKept(r, s, k) /\ s.data = r.data /\ Taken(r.tasks[k], s.tasks[k], named)
<1>1. /\ DOMAIN s = DOMAIN r /\ s.stage = r.stage /\ s.commands = r.commands /\ s.lookup = r.lookup /\ s.data = r.data
      /\ s.tasks = [r.tasks EXCEPT ![k] = [r.tasks[k] EXCEPT !.todo = Tail(@), !.updates = named]]
  BY DEF RunFields, TaskFields
<1>2. /\ DOMAIN s.tasks = DOMAIN r.tasks /\ \A j \in DOMAIN r.tasks : j # k => s.tasks[j] = r.tasks[j]
      /\ s.tasks[k] = [r.tasks[k] EXCEPT !.todo = Tail(@), !.updates = named]
  BY <1>1
<1>3. /\ DOMAIN s.tasks[k] = DOMAIN r.tasks[k]
      /\ s.tasks[k].todo = Tail(r.tasks[k].todo) /\ s.tasks[k].updates = named
      /\ s.tasks[k].setting = r.tasks[k].setting /\ s.tasks[k].half = r.tasks[k].half
  BY <1>2 DEF TaskFields
<1> QED
  BY <1>1, <1>2, <1>3 DEF RunKept, Changes, Taken

LEMMA ConvertRecord ==
  ASSUME NEW r, NEW s, NEW k, NEW value, RunFields \subseteq DOMAIN r, k \in DOMAIN r.tasks, TaskFields \subseteq DOMAIN r.tasks[k],
         s = [r EXCEPT !.tasks[k].setting = TRUE, !.tasks[k].value = value]
  PROVE  RunKept(r, s, k) /\ s.data = r.data /\ Converted(r.tasks[k], s.tasks[k], value)
<1>1. /\ DOMAIN s = DOMAIN r /\ s.stage = r.stage /\ s.commands = r.commands /\ s.lookup = r.lookup /\ s.data = r.data
      /\ s.tasks = [r.tasks EXCEPT ![k] = [r.tasks[k] EXCEPT !.setting = TRUE, !.value = value]]
  BY DEF RunFields, TaskFields
<1>2. /\ DOMAIN s.tasks = DOMAIN r.tasks /\ \A j \in DOMAIN r.tasks : j # k => s.tasks[j] = r.tasks[j]
      /\ s.tasks[k] = [r.tasks[k] EXCEPT !.setting = TRUE, !.value = value]
  BY <1>1
<1>3. /\ DOMAIN s.tasks[k] = DOMAIN r.tasks[k]
      /\ s.tasks[k].todo = r.tasks[k].todo /\ s.tasks[k].updates = r.tasks[k].updates
      /\ s.tasks[k].setting = TRUE /\ s.tasks[k].half = r.tasks[k].half /\ s.tasks[k].value = value
  BY <1>2 DEF TaskFields
<1> QED
  BY <1>1, <1>2, <1>3 DEF RunKept, Changes, Converted

LEMMA ReadRecord ==
  ASSUME NEW r, NEW s, NEW k, NEW seen, RunFields \subseteq DOMAIN r, k \in DOMAIN r.tasks, TaskFields \subseteq DOMAIN r.tasks[k],
         s = [r EXCEPT !.tasks[k].seen = seen]
  PROVE  RunKept(r, s, k) /\ s.data = r.data /\ HasRead(r.tasks[k], s.tasks[k])
<1>1. /\ DOMAIN s = DOMAIN r /\ s.stage = r.stage /\ s.commands = r.commands /\ s.lookup = r.lookup /\ s.data = r.data
      /\ s.tasks = [r.tasks EXCEPT ![k] = [r.tasks[k] EXCEPT !.seen = seen]]
  BY DEF RunFields, TaskFields
<1>2. /\ DOMAIN s.tasks = DOMAIN r.tasks /\ \A j \in DOMAIN r.tasks : j # k => s.tasks[j] = r.tasks[j]
      /\ s.tasks[k] = [r.tasks[k] EXCEPT !.seen = seen]
  BY <1>1
<1>3. /\ DOMAIN s.tasks[k] = DOMAIN r.tasks[k]
      /\ s.tasks[k].todo = r.tasks[k].todo /\ s.tasks[k].updates = r.tasks[k].updates
      /\ s.tasks[k].setting = r.tasks[k].setting /\ s.tasks[k].half = r.tasks[k].half /\ s.tasks[k].value = r.tasks[k].value
  BY <1>2 DEF TaskFields
<1> QED
  BY <1>1, <1>2, <1>3 DEF RunKept, Changes, HasRead

Stored(s, k, new, t) == s.data = new /\ s.tasks[k] = t

LEMMA SwapRecord ==
  ASSUME NEW r, NEW s, NEW k, NEW new, NEW t, RunFields \subseteq DOMAIN r, k \in DOMAIN r.tasks, TaskFields \subseteq DOMAIN t,
         s = [r EXCEPT !.data = new, !.tasks[k] = t]
  PROVE  RunKept(r, s, k) /\ Stored(s, k, new, t)
<1>1. /\ DOMAIN s = DOMAIN r /\ s.stage = r.stage /\ s.commands = r.commands /\ s.lookup = r.lookup /\ s.data = new
      /\ s.tasks = [r.tasks EXCEPT ![k] = t]
  BY DEF RunFields
<1>2. DOMAIN s.tasks = DOMAIN r.tasks /\ s.tasks[k] = t /\ \A j \in DOMAIN r.tasks : j # k => s.tasks[j] = r.tasks[j]
  BY <1>1
<1> QED
  BY <1>1, <1>2 DEF RunKept, Changes, Stored

(***************************************************************************)
(* The invariant.                                                          *)
(***************************************************************************)

CommandsGood(commands) ==
  \E S : commands \in Seq(S) /\ \A c \in S : \A f \in DOMAIN c.segments : \A line \in ToSet(c.segments[f]) : line.value \in Int

AtWork ==
  /\ RunFields \subseteq DOMAIN update
  /\ LaidOut(update.data)
  /\ update.tasks # <<>> => Working(files.osm_node_ids, files.geometry, update.data, update.lookup, update.tasks)

UpdateInv ==
  /\ map \in Maps
  /\ files # <<>> =>
       /\ {"osm_node_ids", "geometry", "penalties"} \subseteq DOMAIN files
       /\ LaidOut(files.geometry)
       /\ CommandsGood(update.commands)
       /\ update.stage = "segments" => AtWork

(* What osrm-extract writes: the lists one behind the other. *)
ExtractedLaidOut == phase = "done" => ListsLaidOut(ToSegmentData)

LEMMA WriteFilesKeeps ==
  ASSUME UpdateInv, ExtractedLaidOut, WriteFiles
  PROVE  UpdateInv'
<1> USE DEF WriteFiles
<1>1. map' = map
  BY DEF extracted
<1>2. files' = [osm_node_ids |-> UsedNodes(map, Collected(map).ways), geometry |-> ToSegmentData,
                penalties |-> [i \in DOMAIN ebg.edges |-> ebg.edges[i].penalty]]
  OBVIOUS
<1>3. {"osm_node_ids", "geometry", "penalties"} \subseteq DOMAIN files' /\ files'.geometry = ToSegmentData
  BY <1>2
<1>4. LaidOut(ToSegmentData)
  BY SegmentDataFields, ListsAre DEF ExtractedLaidOut
<1>5. PICK commands \in Commands[map] : update' = Between(commands, <<>>, <<>>)
  OBVIOUS
<1>6. update'.commands = commands /\ update'.stage = "idle"
  BY <1>5 DEF Between
<1>7. CommandsGood(commands)
  <2>1. /\ commands \in Seq(ToSet(commands))
        /\ \A c \in ToSet(commands) : \A f \in DOMAIN c.segments : \A line \in ToSet(c.segments[f]) : line.value \in Int
    BY CommandsAssumption DEF UpdateInv
  <2> QED
    BY <2>1 DEF CommandsGood
<1>8. (files # <<>> =>
         /\ {"osm_node_ids", "geometry", "penalties"} \subseteq DOMAIN files
         /\ LaidOut(files.geometry)
         /\ CommandsGood(update.commands)
         /\ update.stage = "segments" => AtWork)'
  <2>1. LaidOut(files'.geometry) /\ CommandsGood(update'.commands) /\ update'.stage # "segments"
    BY <1>3, <1>4, <1>6, <1>7
  <2> QED
    BY <1>3, <2>1
<1>9. map' \in Maps
  BY <1>1 DEF UpdateInv
<1> QED
  BY <1>8, <1>9 DEF UpdateInv

LEMMA StartRunKeeps ==
  ASSUME UpdateInv, StartRun
  PROVE  UpdateInv'
<1>1. map' = map /\ files' = files /\ files # <<>> /\ update.commands # <<>>
  BY DEF StartRun, extracted
<1>2. PICK command \in {Head(update.commands)} : \E segments \in Lookups(command.segments) :
          update' = [stage |-> "segments", commands |-> Tail(update.commands), runs |-> update.runs,
                     command |-> command, lookup |-> segments, data |-> files.geometry, updated |-> {},
                     tasks |-> IF command.segments = <<>> THEN <<>>
                               ELSE Divided(Cardinality(DOMAIN files.geometry.ids), command.tasks)]
  BY DEF StartRun
<1>3. PICK segments \in Lookups(command.segments) :
          update' = [stage |-> "segments", commands |-> Tail(update.commands), runs |-> update.runs,
                     command |-> command, lookup |-> segments, data |-> files.geometry, updated |-> {},
                     tasks |-> IF command.segments = <<>> THEN <<>>
                               ELSE Divided(Cardinality(DOMAIN files.geometry.ids), command.tasks)]
  BY <1>2
<1>4. /\ update'.commands = Tail(update.commands) /\ update'.lookup = segments /\ update'.data = files.geometry
      /\ update'.tasks = IF command.segments = <<>> THEN <<>> ELSE Divided(Count(files.geometry), command.tasks)
      /\ RunFields \subseteq DOMAIN update'
  BY <1>3 DEF RunFields, Count
<1>5. PICK S : /\ update.commands \in Seq(S)
               /\ \A c \in S : \A f \in DOMAIN c.segments : \A line \in ToSet(c.segments[f]) : line.value \in Int
  BY <1>1 DEF UpdateInv, CommandsGood
<1>6. command \in S /\ Tail(update.commands) \in Seq(S)
  <2>1. \A s \in Seq(S) : s # <<>> => Head(s) \in S /\ Tail(s) \in Seq(S)
    OBVIOUS
  <2> QED
    BY <1>1, <1>5, <2>1
<1>7. GoodLookup(segments)
  BY <1>5, <1>6, LookupsGood
<1>8. CommandsGood(update'.commands)
  BY <1>4, <1>5, <1>6 DEF CommandsGood
<1>9. {"osm_node_ids", "geometry", "penalties"} \subseteq DOMAIN files /\ LaidOut(files.geometry)
  BY <1>1 DEF UpdateInv
<1>10. update'.tasks # <<>> => Working(files.osm_node_ids, files.geometry, update'.data, update'.lookup, update'.tasks)
  BY <1>4, <1>7, <1>9, Divisions
<1>11. AtWork'
  BY <1>1, <1>4, <1>9, <1>10 DEF AtWork
<1>12. map \in Maps
  BY DEF UpdateInv
<1> QED
  BY <1>1, <1>8, <1>9, <1>11, <1>12 DEF UpdateInv

(* The state in which a task takes a step, *)
LEMMA RunningState ==
  ASSUME UpdateInv, NEW k, Running(k)
  PROVE  /\ RunFields \subseteq DOMAIN update /\ k \in DOMAIN update.tasks /\ update.tasks # <<>>
         /\ Working(files.osm_node_ids, files.geometry, update.data, update.lookup, update.tasks)
         /\ ListGood(update.tasks[k], files.osm_node_ids, files.geometry, update.lookup)
         /\ SettingGood(update.tasks[k], files.geometry, update.data)
         /\ TaskFields \subseteq DOMAIN update.tasks[k]
<1>1. AtWork /\ k \in DOMAIN update.tasks
  BY DEF UpdateInv, Running
<1>2. update.tasks # <<>>
  BY <1>1
<1>3. Working(files.osm_node_ids, files.geometry, update.data, update.lookup, update.tasks)
  BY <1>1, <1>2 DEF AtWork
<1>4. /\ ListGood(update.tasks[k], files.osm_node_ids, files.geometry, update.lookup)
      /\ SettingGood(update.tasks[k], files.geometry, update.data)
  BY <1>1, <1>3 DEF Working, TasksGood
<1> QED
  BY <1>1, <1>2, <1>3, <1>4 DEF AtWork, ListGood

(* and the one that it leads to. *)
LEMMA RunningKept ==
  ASSUME UpdateInv, NEW k, Running(k), RunKept(update, update', k), map' = map, files' = files,
         Working(files.osm_node_ids, files.geometry, update'.data, update.lookup, update'.tasks)
  PROVE  UpdateInv'
<1>1. /\ RunFields \subseteq DOMAIN update' /\ update'.stage = update.stage /\ update'.commands = update.commands
      /\ update'.lookup = update.lookup
  BY DEF RunKept
<1>2. LaidOut(update'.data)
  BY DEF Working
<1>3. AtWork'
  BY <1>1, <1>2 DEF AtWork
<1> QED
  BY <1>1, <1>3 DEF UpdateInv

LEMMA TakeGeometryKeeps ==
  ASSUME UpdateInv, NEW k, TakeGeometry(k)
  PROVE  UpdateInv'
<1>1. Running(k) /\ update.tasks[k].updates = <<>> /\ update.tasks[k].todo # <<>> /\ map' = map /\ files' = files
  BY DEF TakeGeometry, extracted
<1>2. /\ RunFields \subseteq DOMAIN update /\ k \in DOMAIN update.tasks /\ TaskFields \subseteq DOMAIN update.tasks[k]
      /\ Working(files.osm_node_ids, files.geometry, update.data, update.lookup, update.tasks)
  BY <1>1, RunningState
<1>3. PICK named, new :
        /\ named = UpdatesOf(update.data, Head(update.tasks[k].todo), update.lookup)
        /\ update' = [update EXCEPT !.tasks[k].todo = Tail(@), !.tasks[k].updates = named, !.updated = new]
  BY DEF TakeGeometry
<1>4. RunKept(update, update', k) /\ update'.data = update.data /\ Taken(update.tasks[k], update'.tasks[k], named)
  <2>1. update' = [update EXCEPT !.tasks[k].todo = Tail(@), !.tasks[k].updates = named, !.updated = new]
    BY <1>3
  <2> QED
    BY <1>2, <2>1, TakeRecord, Zenon
<1>5. named = PlanOf(files.osm_node_ids, files.geometry, Head(update.tasks[k].todo), update.lookup)
  BY <1>2, <1>3, UpdatesPlanned DEF PlanOf, Working, SameLists
<1>6. Working(files.osm_node_ids, files.geometry, update.data, update.lookup, update'.tasks)
  BY <1>1, <1>2, <1>4, <1>5, Takes DEF RunKept, Taken
<1> QED
  BY <1>1, <1>4, <1>6, RunningKept

LEMMA ConvertWeightKeeps ==
  ASSUME UpdateInv, NEW k, ConvertWeight(k)
  PROVE  UpdateInv'
<1>1. Running(k) /\ update.tasks[k].updates # <<>> /\ ~update.tasks[k].setting /\ map' = map /\ files' = files
  BY DEF ConvertWeight, extracted
<1>2. /\ RunFields \subseteq DOMAIN update /\ k \in DOMAIN update.tasks /\ TaskFields \subseteq DOMAIN update.tasks[k]
      /\ Working(files.osm_node_ids, files.geometry, update.data, update.lookup, update.tasks)
  BY <1>1, RunningState
<1>3. PICK u \in {Head(update.tasks[k].updates)} :
          update' = [update EXCEPT !.tasks[k].setting = TRUE,
                                   !.tasks[k].value = convertToWeight(Value(update.data, u.forward, u.place), u.value)]
  BY DEF ConvertWeight
<1>4. PICK value : value = convertToWeight(Value(update.data, u.forward, u.place), u.value)
  OBVIOUS
<1>5. RunKept(update, update', k) /\ update'.data = update.data /\ Converted(update.tasks[k], update'.tasks[k], value)
  <2>1. update' = [update EXCEPT !.tasks[k].setting = TRUE, !.tasks[k].value = value]
    BY <1>3, <1>4
  <2> QED
    BY <1>2, <2>1, ConvertRecord, Zenon
<1>6. \E v \in {Head(update.tasks[k].updates)} :
        update'.tasks[k].value = convertToWeight(Value(update.data, v.forward, v.place), v.value)
  BY <1>4, <1>5 DEF Converted
<1>7. Working(files.osm_node_ids, files.geometry, update.data, update.lookup, update'.tasks)
  BY <1>1, <1>2, <1>5, <1>6, Converts DEF RunKept, Converted
<1> QED
  BY <1>1, <1>5, <1>7, RunningKept

LEMMA ReadWordKeeps ==
  ASSUME UpdateInv, NEW k, ReadWord(k)
  PROVE  UpdateInv'
<1>1. Running(k) /\ map' = map /\ files' = files
  BY DEF ReadWord, extracted
<1>2. /\ RunFields \subseteq DOMAIN update /\ k \in DOMAIN update.tasks /\ TaskFields \subseteq DOMAIN update.tasks[k]
      /\ Working(files.osm_node_ids, files.geometry, update.data, update.lookup, update.tasks)
  BY <1>1, RunningState
<1>3. PICK seen : update' = [update EXCEPT !.tasks[k].seen = seen]
  BY DEF ReadWord
<1>4. RunKept(update, update', k) /\ update'.data = update.data /\ HasRead(update.tasks[k], update'.tasks[k])
  BY <1>2, <1>3, ReadRecord, Zenon
<1>5. Working(files.osm_node_ids, files.geometry, update.data, update.lookup, update'.tasks)
  BY <1>2, <1>4, Reads DEF RunKept, HasRead
<1> QED
  BY <1>1, <1>4, <1>5, RunningKept

(* The task after a swap. *)
Swapped(t, s, same) ==
  /\ TaskFields \subseteq DOMAIN s /\ s.todo = t.todo
  /\ ~same => HasRead(t, s)
  /\ same /\ t.half = "lower" => s.updates = t.updates /\ s.setting = t.setting /\ s.half = "upper" /\ s.value = t.value
  /\ same /\ t.half = "upper" => s.updates = Tail(t.updates) /\ s.setting = FALSE /\ s.half = "lower"

LEMMA AfterSwaps ==
  ASSUME NEW packed, NEW u, NEW t, TaskFields \subseteq DOMAIN t, t.half \in HalfNames
  PROVE  Swapped(t, AfterSwap(packed, u, t), Read(packed, u, t.half) = t.seen)
<1>1. CASE Read(packed, u, t.half) # t.seen
  <2>1. AfterSwap(packed, u, t) = [t EXCEPT !.seen = -1]
    BY <1>1 DEF AfterSwap
  <2> QED
    BY <1>1, <2>1 DEF TaskFields, Swapped, HasRead
<1>2. CASE Read(packed, u, t.half) = t.seen /\ t.half = "lower"
  <2>1. AfterSwap(packed, u, t) = [t EXCEPT !.half = "upper", !.seen = -1]
    BY <1>2 DEF AfterSwap
  <2> QED
    BY <1>2, <2>1 DEF TaskFields, Swapped
<1>3. CASE Read(packed, u, t.half) = t.seen /\ t.half = "upper"
  <2>1. AfterSwap(packed, u, t)
          = [t EXCEPT !.updates = Tail(@), !.setting = FALSE, !.half = "lower", !.seen = -1, !.value = 0]
    BY <1>3 DEF AfterSwap
  <2> QED
    BY <1>3, <2>1 DEF TaskFields, Swapped
<1> QED
  BY <1>1, <1>2, <1>3 DEF HalfNames

LEMMA SwapWordKeeps ==
  ASSUME UpdateInv, NEW k, SwapWord(k)
  PROVE  UpdateInv'
<1>1. Running(k) /\ update.tasks[k].setting /\ map' = map /\ files' = files
  BY DEF SwapWord, extracted
<1>2. /\ RunFields \subseteq DOMAIN update /\ k \in DOMAIN update.tasks /\ TaskFields \subseteq DOMAIN update.tasks[k]
      /\ Working(files.osm_node_ids, files.geometry, update.data, update.lookup, update.tasks)
      /\ SettingGood(update.tasks[k], files.geometry, update.data)
  BY <1>1, RunningState
<1>3. PICK u \in {Head(update.tasks[k].updates)} :
          update' = [update EXCEPT !.data = compare_and_swap(@, u, update.tasks[k]),
                                   !.tasks[k] = AfterSwap(update.data, u, @)]
  BY DEF SwapWord
<1>a. ASSUME NEW x, NEW y, update' = [update EXCEPT !.data = x, !.tasks[k] = y], TaskFields \subseteq DOMAIN y
      PROVE  RunKept(update, update', k) /\ Stored(update', k, x, y)
  BY <1>2, <1>a, SwapRecord, Zenon
<1> PICK new, t, old : new = compare_and_swap(update.data, u, update.tasks[k]) /\ t = AfterSwap(update.data, u, update.tasks[k])
                       /\ old = update.tasks[k]
  OBVIOUS
<1>4. old.half \in HalfNames
  BY <1>2 DEF SettingGood
<1>5. Swapped(old, t, Read(update.data, u, old.half) = old.seen)
  BY <1>2, <1>4, AfterSwaps, Zenon
<1>6. RunKept(update, update', k) /\ update'.data = new /\ update'.tasks[k] = t
  <2>1. update' = [update EXCEPT !.data = new, !.tasks[k] = t]
    BY <1>3
  <2>2. TaskFields \subseteq DOMAIN t
    BY <1>5 DEF Swapped
  <2>3. RunKept(update, update', k) /\ Stored(update', k, new, t)
    BY <1>a, <2>1, <2>2
  <2> QED
    BY <2>3 DEF Stored
<1>7. Changes(update.tasks, update'.tasks, k, t)
  BY <1>6 DEF RunKept
<1>8. u = Head(update.tasks[k].updates)
  OBVIOUS
<1>9. Working(files.osm_node_ids, files.geometry, new, update.lookup, update'.tasks)
  <2>1. CASE Read(update.data, u, old.half) # old.seen
    <3>1. new = update.data
      BY <2>1 DEF compare_and_swap
    <3>2. TaskFields \subseteq DOMAIN t /\ HasRead(update.tasks[k], t)
      BY <1>5, <2>1 DEF Swapped
    <3> QED
      BY <1>2, <1>7, <3>1, <3>2, Reads DEF HasRead
  <2>2. CASE Read(update.data, u, old.half) = old.seen
    <3>1. LaidOut(update.data) /\ u \in OneUpdate /\ u.place \in Places(update.data)
      BY <1>1, <1>2, <1>8, InHand DEF Working
    <3>2. Written1(update.data, new, u.forward, u.place, old.half, old.value)
      BY <1>4, <2>2, <3>1, Swaps
    <3>3. CASE old.half = "lower"
      <4>1. Written1(update.data, new, u.forward, u.place, "lower", update.tasks[k].value)
        BY <3>2, <3>3
      <4>2. /\ TaskFields \subseteq DOMAIN t /\ t.todo = update.tasks[k].todo /\ t.updates = update.tasks[k].updates
            /\ t.setting = update.tasks[k].setting /\ t.half = "upper" /\ t.value = update.tasks[k].value
            /\ update.tasks[k].half = "lower"
        BY <1>5, <2>2, <3>3 DEF Swapped
      <4> QED
        BY <1>1, <1>2, <1>7, <1>8, <4>1, <4>2, SwapsLower, ZenonT(60)
    <3>4. CASE old.half = "upper"
      <4>1. Written1(update.data, new, u.forward, u.place, "upper", update.tasks[k].value)
        BY <3>2, <3>4
      <4>2. /\ TaskFields \subseteq DOMAIN t /\ t.todo = update.tasks[k].todo /\ t.updates = Tail(update.tasks[k].updates)
            /\ t.setting = FALSE /\ t.half = "lower" /\ update.tasks[k].half = "upper"
        BY <1>5, <2>2, <3>4 DEF Swapped
      <4> QED
        BY <1>1, <1>2, <1>7, <1>8, <4>1, <4>2, SwapsUpper, ZenonT(60)
    <3> QED
      BY <1>4, <3>3, <3>4 DEF HalfNames
  <2> QED
    BY <2>1, <2>2
<1> QED
  BY <1>1, <1>6, <1>9, RunningKept

LEMMA FinishRunKeeps ==
  ASSUME UpdateInv, FinishRun
  PROVE  UpdateInv'
<1>1. map' = map /\ files # <<>> /\ update.stage = "segments"
  BY DEF FinishRun, extracted
<1>2. PICK penalties, runs, result :
        /\ files' = [files EXCEPT !.geometry = update.data, !.penalties = penalties]
        /\ update' = Between(update.commands, runs, result)
  BY DEF FinishRun
<1>3. /\ {"osm_node_ids", "geometry", "penalties"} \subseteq DOMAIN files
      /\ LaidOut(update.data) /\ CommandsGood(update.commands)
  BY <1>1 DEF UpdateInv, AtWork
<1>4. {"osm_node_ids", "geometry", "penalties"} \subseteq DOMAIN files' /\ files'.geometry = update.data
  BY <1>2, <1>3
<1>5. update'.stage = "idle" /\ update'.commands = update.commands
  BY <1>2 DEF Between
<1>6. map \in Maps
  BY DEF UpdateInv
<1>7. LaidOut(files'.geometry) /\ CommandsGood(update'.commands) /\ update'.stage # "segments" /\ map' \in Maps
  BY <1>1, <1>3, <1>4, <1>5, <1>6
<1> QED
  BY <1>4, <1>7 DEF UpdateInv

LEMMA ExtractionKeeps ==
  ASSUME UpdateInv, Next, UNCHANGED <<files, update>>
  PROVE  UpdateInv'
<1>1. map' = map
  BY DEF Next, LoadGraph, Compress, CompressGeometry, BuildRestrictionGraph, GenerateNodes, GenerateEdges, Finish
<1> QED
  BY <1>1 DEF UpdateInv, AtWork

LEMMA UpdateInvKept ==
  UpdateInv /\ ExtractedLaidOut /\ [UpdateNext]_allVars => UpdateInv'
<1> SUFFICES ASSUME UpdateInv, ExtractedLaidOut, [UpdateNext]_allVars PROVE UpdateInv'
  OBVIOUS
<1>1. CASE Next /\ UNCHANGED <<files, update>>
  BY <1>1, ExtractionKeeps
<1>2. CASE WriteFiles
  BY <1>2, WriteFilesKeeps
<1>3. CASE StartRun
  BY <1>3, StartRunKeeps
<1>4. ASSUME NEW k \in 1..2, TakeGeometry(k) PROVE UpdateInv'
  BY <1>4, TakeGeometryKeeps
<1>5. ASSUME NEW k \in 1..2, ConvertWeight(k) PROVE UpdateInv'
  BY <1>5, ConvertWeightKeeps
<1>6. ASSUME NEW k \in 1..2, ReadWord(k) PROVE UpdateInv'
  BY <1>6, ReadWordKeeps
<1>7. ASSUME NEW k \in 1..2, SwapWord(k) PROVE UpdateInv'
  BY <1>7, SwapWordKeeps
<1>8. CASE FinishRun
  BY <1>8, FinishRunKeeps
<1>9. CASE UNCHANGED allVars
  BY <1>9 DEF allVars, UpdateInv, AtWork
<1> QED
  BY <1>1, <1>2, <1>3, <1>4, <1>5, <1>6, <1>7, <1>8, <1>9 DEF UpdateNext

LEMMA UpdateInvStarts == UpdateInit => UpdateInv
BY DEF UpdateInit, Init, UpdateInv

LEMMA WorkingLosesNothing == UpdateInv => NoWriteLost
<1> SUFFICES ASSUME UpdateInv, files # <<>>, update.stage = "segments", update.tasks # <<>>
             PROVE  NoWriteLost
  BY DEF NoWriteLost
<1>1. Working(files.osm_node_ids, files.geometry, update.data, update.lookup, update.tasks)
  BY DEF UpdateInv, AtWork
<1> DEFINE tasks == {update.tasks[k] : k \in DOMAIN update.tasks}
           ahead == UNION {ToSet(t.todo) : t \in tasks}
           Waiting(u) == u.id \in ahead \/ \E t \in tasks : u \in ToSet(t.updates)
           Hand(u) == \E t \in tasks : t.setting /\ u = Head(t.updates)
           Old(forward, p) == Value(files.geometry, forward, p)
           All == UNION {ToSet(UpdatesOf(files.geometry, id, update.lookup)) : id \in 0..Cardinality(DOMAIN files.geometry.ids) - 1}
<1>2. All = Named(files.osm_node_ids, files.geometry, update.lookup)
  BY UpdatesPlanned DEF Named, PlanOf, Count
<1>3. \A u : (Waiting(u) <=> Waits(update.tasks, u)) /\ (Hand(u) <=> Held(update.tasks, u))
  BY DEF Waits, Held, Ahead, Sets
<1>4. ValuesGood(files.osm_node_ids, files.geometry, update.data, update.lookup, update.tasks)
  BY <1>1 DEF Working
<1>5. /\ \A u \in All : \/ Hand(u)
                        \/ Value(update.data, u.forward, u.place)
                             = IF Waiting(u) THEN Old(u.forward, u.place) ELSE Said(Old(u.forward, u.place), u.value)
      /\ \A p \in 0..Len(files.geometry.nodes) - 1, forward \in BOOLEAN :
           \/ \E u \in All : u.place = p /\ u.forward = forward
           \/ Value(update.data, forward, p) = Old(forward, p)
  <2> HIDE DEF All, Waiting, Hand
  <2> QED
    BY <1>2, <1>3, <1>4, ValueWeighs DEF ValuesGood, Places
<1> HIDE DEF All
<1>6. NoWriteLost
  BY <1>5 DEF NoWriteLost, All
<1> QED
  BY <1>6

(* While tasks write weights of traffic side by side into shared words (Updater, updateSegmentData and   *)
(* util::PackedVector), none of their writes is lost and none touches another weight: for every map,     *)
(* every sequence of runs, every width of words and of weights. The hypothesis says that osm-extract has *)
(* written the lists of a map one behind the other, with words for all of their weights.                 *)
THEOREM WritesAreNotLost == UpdateSpec /\ []ExtractedLaidOut => []NoWriteLost
<1>1. UpdateSpec /\ []ExtractedLaidOut => []UpdateInv
  BY UpdateInvStarts, UpdateInvKept, PTL DEF UpdateSpec
<1> QED
  BY <1>1, WorkingLosesNothing, PTL


(***************************************************************************)
(* Greatest elements, ranks in an order, and powers of two.                *)
(***************************************************************************)

LEMMA Largest ==
  ASSUME NEW n \in Nat, NEW S, S \subseteq 0..n, S # {}
  PROVE  Max(S) \in S /\ \A k \in S : Max(S) >= k
<1> DEFINE T == {n - k : k \in S}
<1>1. PICK t \in T : \A u \in T : t <= u
  <2>1. T \subseteq Nat
    OBVIOUS
  <2>2. T # {}
    <3> PICK k \in S : TRUE
      OBVIOUS
    <3>1. n - k \in T
      OBVIOUS
    <3> QED
      BY <3>1
  <2> HIDE DEF T
  <2> QED
    BY <2>1, <2>2, Smallest
<1>2. PICK m \in S : t = n - m
  BY <1>1
<1>3. \A k \in S : m >= k
  <2> SUFFICES ASSUME NEW k \in S PROVE m >= k
    OBVIOUS
  <2>1. n - m <= n - k
    BY <1>1, <1>2
  <2> QED
    BY <2>1
<1> QED
  BY <1>3 DEF Max

LEMMA Numbers ==
  ASSUME NEW n \in Nat
  PROVE  IsFiniteSet(0..n - 1) /\ Cardinality(0..n - 1) = n
<1>1. 0 \in Int /\ n - 1 \in Int
  OBVIOUS
<1>2. IsFiniteSet(0..n - 1) /\ Cardinality(0..n - 1) = IF 0 > n - 1 THEN 0 ELSE n - 1 - 0 + 1
  BY <1>1, FS_Interval, Zenon
<1> QED
  BY <1>2

(* A strict order of all of the nodes, and the number of nodes before one. *)
Orders(R, Nodes) ==
  /\ R \subseteq Nodes \X Nodes
  /\ \A a \in Nodes : <<a, a>> \notin R
  /\ \A a, b, c \in Nodes : <<a, b>> \in R /\ <<b, c>> \in R => <<a, c>> \in R
  /\ \A a, b \in Nodes : a # b => <<a, b>> \in R \/ <<b, a>> \in R

LEMMA RanksOrder ==
  ASSUME NEW n \in Nat, NEW R, Orders(R, 0..n - 1), NEW rank, rank = [b \in 0..n - 1 |-> rank[b]],
         \A b \in 0..n - 1 : rank[b] = Cardinality({a \in 0..n - 1 : <<a, b>> \in R})
  PROVE  /\ rank \in [0..n - 1 -> 0..n - 1]
         /\ \A a, b \in 0..n - 1 : <<a, b>> \in R <=> rank[a] < rank[b]
         /\ \A c \in 0..n - 1 : \E m \in 0..n - 1 : rank[m] = c
<1> DEFINE Nodes == 0..n - 1
           Under(b) == {a \in Nodes : <<a, b>> \in R}
<1>1. IsFiniteSet(Nodes) /\ Cardinality(Nodes) = n
  BY Numbers
<1>2. \A b \in Nodes : Under(b) \in SUBSET Nodes /\ b \notin Under(b) /\ rank[b] = Cardinality(Under(b))
  BY DEF Orders
<1> HIDE DEF Under
<1>3. \A b \in Nodes : IsFiniteSet(Under(b)) /\ rank[b] \in Nodes
  <2> SUFFICES ASSUME NEW b \in Nodes PROVE IsFiniteSet(Under(b)) /\ rank[b] \in Nodes
    OBVIOUS
  <2>1. /\ IsFiniteSet(Under(b)) /\ Cardinality(Under(b)) <= n
        /\ Cardinality(Nodes) = Cardinality(Under(b)) => Nodes = Under(b)
    BY <1>1, <1>2, FS_Subset
  <2>2. Cardinality(Under(b)) \in Nat
    BY <2>1, FS_CardinalityType
  <2>3. Cardinality(Under(b)) # n
    BY <1>1, <1>2, <2>1
  <2> QED
    BY <1>2, <2>1, <2>2, <2>3
<1>4. \A a, b \in Nodes : <<a, b>> \in R => rank[a] < rank[b]
  <2> SUFFICES ASSUME NEW a \in Nodes, NEW b \in Nodes, <<a, b>> \in R PROVE rank[a] < rank[b]
    OBVIOUS
  <2>1. Under(a) \in SUBSET Under(b) /\ a \in Under(b) /\ a \notin Under(a)
    BY DEF Orders, Under
  <2>2. /\ Cardinality(Under(a)) <= Cardinality(Under(b))
        /\ Cardinality(Under(b)) = Cardinality(Under(a)) => Under(b) = Under(a)
    BY <1>3, <2>1, FS_Subset
  <2>3. rank[a] \in Int /\ rank[b] \in Int
    BY <1>3
  <2> QED
    BY <1>2, <2>1, <2>2, <2>3
<1>5. \A a, b \in Nodes : rank[a] < rank[b] => <<a, b>> \in R
  <2> SUFFICES ASSUME NEW a \in Nodes, NEW b \in Nodes, rank[a] < rank[b] PROVE <<a, b>> \in R
    OBVIOUS
  <2>1. rank[a] \in Int /\ rank[b] \in Int
    BY <1>3
  <2>2. a # b /\ ~(rank[b] < rank[a])
    BY <2>1
  <2> QED
    BY <1>4, <2>2 DEF Orders
<1>6. rank \in [Nodes -> Nodes]
  BY <1>3
<1>7. \A a, b \in Nodes : rank[a] = rank[b] => a = b
  <2> SUFFICES ASSUME NEW a \in Nodes, NEW b \in Nodes, rank[a] = rank[b], a # b PROVE FALSE
    OBVIOUS
  <2>1. rank[a] \in Int /\ rank[b] \in Int
    BY <1>3
  <2>2. <<a, b>> \in R \/ <<b, a>> \in R
    BY DEF Orders
  <2>3. rank[a] < rank[b] \/ rank[b] < rank[a]
    BY <1>4, <2>2
  <2> QED
    BY <2>1, <2>3
<1>8. rank \in Injection(Nodes, Nodes)
  BY <1>6, <1>7 DEF Injection, IsInjective
<1>9. rank \in Surjection(Nodes, Nodes)
  <2> HIDE DEF Nodes
  <2> QED
    BY <1>1, <1>8, FS_Injection
<1>10. \A c \in Nodes : \E m \in Nodes : rank[m] = c
  BY <1>9 DEF Surjection
<1> QED
  BY <1>4, <1>5, <1>6, <1>10

LEMMA PowersOfTwo ==
  /\ PowerOfTwo \in [0..PartitionBits -> Positive]
  /\ PowerOfTwo[0] = 1
  /\ \A n \in 1..PartitionBits : PowerOfTwo[n] = 2 * PowerOfTwo[n - 1]
<1> DEFINE F == [n \in 1..PartitionBits |-> [p \in Positive |-> 2 * p]]
           IsPower(h) == h = [n \in 0..PartitionBits |-> IF n = 0 THEN 1 ELSE 2 * h[n - 1]]
<1>0. PartitionBits \in Nat
  BY NodesAssumption
<1>1. PICK h : Runs(h, PartitionBits, Positive, 1, F)
  <2>1. F \in [1..PartitionBits -> [Positive -> Positive]] /\ 1 \in Positive
    BY DEF Positive
  <2> HIDE DEF F
  <2> QED
    BY <1>0, <2>1, LoopRuns, Zenon
<1>2. /\ h \in [0..PartitionBits -> Positive] /\ h[0] = 1
      /\ \A n \in 1..PartitionBits : h[n] = 2 * h[n - 1]
  <2>1. \A n \in 1..PartitionBits : h[n - 1] \in Positive
    BY <1>0, <1>1 DEF Runs
  <2> QED
    BY <1>1, <2>1 DEF Runs
<1>3. IsPower(h)
  <2>1. \A n \in 0..PartitionBits : h[n] = IF n = 0 THEN 1 ELSE 2 * h[n - 1]
    BY <1>0, <1>2
  <2> QED
    BY <1>2, <2>1
<1>4. PowerOfTwo = CHOOSE f : IsPower(f)
  BY DEF PowerOfTwo
<1>5. IsPower(PowerOfTwo)
  BY <1>3, <1>4
<1>6. PowerOfTwo[0] = 1 /\ \A n \in 1..PartitionBits : PowerOfTwo[n] = 2 * PowerOfTwo[n - 1]
  BY <1>0, <1>5
<1>7. 0..PartitionBits \subseteq {n \in 0..PartitionBits : PowerOfTwo[n] = h[n]}
  <2> DEFINE Good == {n \in 0..PartitionBits : PowerOfTwo[n] = h[n]}
  <2>1. 0 \in Good
    BY <1>0, <1>2, <1>6
  <2>2. \A n \in 1..PartitionBits : n - 1 \in Good => n \in Good
    BY <1>0, <1>2, <1>6
  <2> HIDE DEF Good
  <2>3. 0..PartitionBits \subseteq Good
    BY <1>0, <2>1, <2>2, Inducted
  <2> QED
    BY <2>3 DEF Good
<1>8. DOMAIN PowerOfTwo = 0..PartitionBits /\ PowerOfTwo = [n \in 0..PartitionBits |-> PowerOfTwo[n]]
  BY <1>5
<1>9. \A n \in 0..PartitionBits : PowerOfTwo[n] \in Positive
  BY <1>2, <1>7
<1> QED
  BY <1>6, <1>8, <1>9
LEMMA PowerOfSum ==
  ASSUME NEW a \in Nat, NEW b \in Nat, a + b <= PartitionBits
  PROVE  PowerOfTwo[a + b] = PowerOfTwo[a] * PowerOfTwo[b]
<1> DEFINE Good == {n \in 0..b : PowerOfTwo[a + n] = PowerOfTwo[a] * PowerOfTwo[n]}
<1>0. PartitionBits \in Nat /\ \A n \in 0..PartitionBits : PowerOfTwo[n] \in Positive
  BY NodesAssumption, PowersOfTwo
<1>1. 0 \in Good
  BY <1>0, PowersOfTwo DEF Positive
<1>2. ASSUME NEW n \in 1..b, n - 1 \in Good PROVE n \in Good
  <2>1. a + n \in 1..PartitionBits /\ n \in 1..PartitionBits /\ (a + n) - 1 = a + (n - 1)
    BY <1>0
  <2>2. PowerOfTwo[a + n] = 2 * PowerOfTwo[a + (n - 1)] /\ PowerOfTwo[n] = 2 * PowerOfTwo[n - 1]
    BY <2>1, PowersOfTwo
  <2>3. PowerOfTwo[a + (n - 1)] = PowerOfTwo[a] * PowerOfTwo[n - 1]
    BY <1>2
  <2>4. PICK p \in Int, q \in Int : p = PowerOfTwo[a] /\ q = PowerOfTwo[n - 1]
    BY <1>0, <2>1 DEF Positive
  <2>5. 2 * (p * q) = p * (2 * q)
    OBVIOUS
  <2> QED
    BY <2>2, <2>3, <2>4, <2>5
<1>3. 0..b \subseteq Good
  <2> HIDE DEF Good
  <2> QED
    BY <1>1, <1>2, Inducted
<1> QED
  BY <1>3

(* So many bits are enough for n numbers. *)
LEMMA BitsSuffice ==
  ASSUME NEW n \in Nat, n <= PowerOfTwo[NodeBits]
  PROVE  BitsFor(n) \in 0..NodeBits /\ n <= PowerOfTwo[BitsFor(n)]
<1> DEFINE Enough == {b \in 0..NodeBits : PowerOfTwo[b] >= n}
<1>0. PartitionBits \in Nat /\ NodeBits \in Nat /\ \A b \in 0..NodeBits : PowerOfTwo[b] \in Int
  BY NodesAssumption, PowersOfTwo DEF Positive
<1>1. NodeBits \in Enough
  BY <1>0
<1>2. PICK m \in Enough : \A k \in Enough : m <= k
  <2>1. Enough \subseteq Nat
    BY <1>0
  <2> HIDE DEF Enough
  <2> QED
    BY <1>1, <2>1, Smallest
<1>3. m = 0 \/ PowerOfTwo[m - 1] < n
  <2> SUFFICES ASSUME m # 0, ~(PowerOfTwo[m - 1] < n) PROVE FALSE
    OBVIOUS
  <2>1. m - 1 \in 0..NodeBits /\ ~(m <= m - 1)
    BY <1>0
  <2>2. m - 1 \in Enough
    BY <1>0, <2>1
  <2> QED
    BY <1>2, <2>1, <2>2
<1>4. PowerOfTwo[m] >= n /\ m \in 0..NodeBits
  OBVIOUS
<1>5. BitsFor(n) \in 0..NodeBits /\ PowerOfTwo[BitsFor(n)] >= n
  BY <1>3, <1>4 DEF BitsFor
<1> QED
  BY <1>0, <1>5

(***************************************************************************)
(* Numbers packed side by side.                                            *)
(***************************************************************************)

LEMMA MiddleRead ==
  ASSUME NEW a \in Positive, NEW b \in Positive, NEW s \in 0..a - 1, NEW v \in 0..b - 1
  PROVE  Middle(s + v * a, a, b) = v
<1>1. PICK n \in Nat : n = v * a
  BY DEF Positive
<1>2. s + n = a * v + s
  BY <1>1 DEF Positive
<1>3. (s + n) \div a = v
  BY <1>2, Quotient DEF Positive
<1>4. v % b = v
  BY DEF Positive
<1> QED
  BY <1>1, <1>3, <1>4 DEF Middle

LEMMA Regroups ==
  ASSUME NEW a \in Int, NEW b \in Int, NEW h \in Int, NEW k \in Int, NEW m \in Int, NEW r \in Int
  PROVE  (a * (b * h + m) + r) + k * (a * b) = a * (b * (h + k) + m) + r
OBVIOUS

LEMMA MiddleKept ==
  ASSUME NEW a \in Positive, NEW b \in Positive, NEW x \in Nat, NEW k \in Nat
  PROVE  Middle(x + k * (a * b), a, b) = Middle(x, a, b)
<1>1. PICK q \in Nat, r \in 0..a - 1 : x = a * q + r /\ q = x \div a
  BY Divides
<1>2. PICK h \in Nat, m \in 0..b - 1 : q = b * h + m /\ m = q % b
  BY Divides
<1>3. a \in Int /\ b \in Int /\ h \in Int /\ k \in Int /\ m \in Int /\ r \in Int
  BY DEF Positive
<1>4. PICK y : y = x + k * (a * b)
  OBVIOUS
<1>5. y = a * (b * (h + k) + m) + r
  <2>1. (a * (b * h + m) + r) + k * (a * b) = a * (b * (h + k) + m) + r
    BY <1>3, Regroups
  <2>2. y = (a * (b * h + m) + r) + k * (a * b)
    BY <1>1, <1>2, <1>4, Zenon
  <2> QED
    BY <2>1, <2>2, Zenon
<1>6. PICK p \in Nat : p = b * (h + k) + m
  BY DEF Positive
<1>7. y \div a = p
  BY <1>5, <1>6, Quotient
<1>8. p % b = m
  BY <1>6, Quotient
<1> QED
  BY <1>1, <1>2, <1>4, <1>7, <1>8 DEF Middle

(* Every number has a field of its own, from one offset to the after. *)
Offsets(o, w, n) ==
  /\ o \in [1..n + 1 -> Nat] /\ w \in [1..n -> Nat] /\ o[1] = 0
  /\ \A l \in 1..n : o[l + 1] = o[l] + w[l]
  /\ o[n + 1] <= PartitionBits

LEMMA OffsetsRise ==
  ASSUME NEW n \in Nat, NEW o, NEW w, Offsets(o, w, n), NEW l \in 1..n
  PROVE  \A k \in l + 1..n + 1 : o[l] + w[l] <= o[k]
<1> DEFINE Good == {i \in 0..n - l : o[l] + w[l] <= o[l + 1 + i]}
<1>0. \A k \in 1..n : o[k] \in Nat /\ w[k] \in Nat /\ o[k + 1] \in Nat /\ o[k + 1] = o[k] + w[k]
  BY DEF Offsets
<1>1. 0 \in Good
  BY <1>0
<1>2. ASSUME NEW i \in 1..n - l, i - 1 \in Good PROVE i \in Good
  <2>1. PICK k \in 1..n : k = l + i
    OBVIOUS
  <2>2. l + 1 + (i - 1) = k /\ l + 1 + i = k + 1
    BY <2>1
  <2>3. o[l] + w[l] <= o[k]
    BY <1>2, <2>2
  <2>4. o[l] + w[l] <= o[k + 1]
    BY <1>0, <2>3
  <2> QED
    BY <2>2, <2>4
<1>3. 0..n - l \subseteq Good
  <2>1. n - l \in Nat
    OBVIOUS
  <2> HIDE DEF Good
  <2> QED
    BY <1>1, <1>2, <2>1, Inducted
<1>4. \A k \in l + 1..n + 1 : k - (l + 1) \in 0..n - l /\ l + 1 + (k - (l + 1)) = k
  OBVIOUS
<1>5. ASSUME NEW k \in l + 1..n + 1 PROVE o[l] + w[l] <= o[k]
  <2>1. k - (l + 1) \in Good
    BY <1>3, <1>4
  <2> HIDE DEF Good
  <2>2. o[l] + w[l] <= o[l + 1 + (k - (l + 1))]
    BY <2>1 DEF Good
  <2> QED
    BY <1>4, <2>2
<1> QED
  BY <1>5
(* The sum of the numbers, each at its offset. *)
Packs(s, v, o, w, n) ==
  /\ s \in [0..n -> Nat] /\ s[0] = 0
  /\ \A l \in 1..n : v[l] \in 0..PowerOfTwo[w[l]] - 1 /\ s[l] = s[l - 1] + v[l] * PowerOfTwo[o[l]]

LEMMA OffsetsPower ==
  ASSUME NEW n \in Nat, NEW o, NEW w, Offsets(o, w, n), NEW l \in 1..n
  PROVE  /\ o[l] \in 0..PartitionBits /\ w[l] \in 0..PartitionBits
         /\ PowerOfTwo[o[l]] \in Positive /\ PowerOfTwo[w[l]] \in Positive
         /\ PowerOfTwo[o[l + 1]] = PowerOfTwo[o[l]] * PowerOfTwo[w[l]]
         /\ \A k \in l + 1..n : \E e \in Positive : PowerOfTwo[o[k]] = (PowerOfTwo[o[l]] * PowerOfTwo[w[l]]) * e
<1>0. PartitionBits \in Nat /\ \A b \in 0..PartitionBits : PowerOfTwo[b] \in Positive
  BY NodesAssumption, PowersOfTwo
<1>1. \A k \in l + 1..n + 1 : o[l] + w[l] <= o[k]
  BY OffsetsRise
<1>2. \A k \in 1..n + 1 : o[k] \in 0..PartitionBits
  <2> SUFFICES ASSUME NEW k \in 1..n + 1 PROVE o[k] \in 0..PartitionBits
    OBVIOUS
  <2>1. o[k] \in Nat /\ o[n + 1] \in Nat /\ o[n + 1] <= PartitionBits
    BY DEF Offsets
  <2>2. CASE k = n + 1
    BY <1>0, <2>1, <2>2
  <2>3. CASE k # n + 1
    <3>1. k \in 1..n /\ n + 1 \in k + 1..n + 1
      BY <2>3
    <3>2. o[k] + w[k] <= o[n + 1] /\ w[k] \in Nat
      BY <3>1, OffsetsRise DEF Offsets
    <3> QED
      BY <1>0, <2>1, <3>2
  <2> QED
    BY <2>2, <2>3
<1>3. o[l] \in Nat /\ w[l] \in Nat /\ o[l + 1] = o[l] + w[l] /\ o[l + 1] \in 0..PartitionBits /\ o[l] \in 0..PartitionBits
  BY <1>2 DEF Offsets
<1>4. w[l] \in 0..PartitionBits
  BY <1>0, <1>3
<1>5. PowerOfTwo[o[l + 1]] = PowerOfTwo[o[l]] * PowerOfTwo[w[l]]
  BY <1>0, <1>3, PowerOfSum
<1>6. ASSUME NEW k \in l + 1..n
      PROVE  \E e \in Positive : PowerOfTwo[o[k]] = (PowerOfTwo[o[l]] * PowerOfTwo[w[l]]) * e
  <2>1. o[l] + w[l] <= o[k] /\ o[k] \in 0..PartitionBits
    BY <1>1, <1>2
  <2>2. PICK r \in 0..PartitionBits : o[k] = o[l + 1] + r
    <3>1. o[k] - o[l + 1] \in 0..PartitionBits /\ o[k] = o[l + 1] + (o[k] - o[l + 1])
      BY <1>0, <1>3, <2>1
    <3> QED
      BY <3>1
  <2>3. PowerOfTwo[o[l + 1] + r] = PowerOfTwo[o[l + 1]] * PowerOfTwo[r]
    BY <1>0, <1>3, <2>1, <2>2, PowerOfSum
  <2>4. PowerOfTwo[r] \in Positive
    BY <1>0
  <2> QED
    BY <1>5, <2>2, <2>3, <2>4
<1> QED
  BY <1>0, <1>3, <1>4, <1>5, <1>6

LEMMA PackedRead ==
  ASSUME NEW n \in Nat, NEW o, NEW w, Offsets(o, w, n), NEW v, NEW s, Packs(s, v, o, w, n), NEW l \in 1..n
  PROVE  Middle(s[n], PowerOfTwo[o[l]], PowerOfTwo[w[l]]) = v[l]
<1>1. PICK a \in Positive, b \in Positive : a = PowerOfTwo[o[l]] /\ b = PowerOfTwo[w[l]]
  BY OffsetsPower
<1>2. \A k \in l + 1..n : \E e \in Positive : PowerOfTwo[o[k]] = (a * b) * e
  BY <1>1, OffsetsPower
<1>3. \A k \in 1..n : s[k - 1] \in Nat /\ v[k] \in Nat /\ s[k] = s[k - 1] + v[k] * PowerOfTwo[o[k]]
  BY OffsetsPower DEF Packs, Positive
<1>4. s[l - 1] < a
  <2> DEFINE Good == {k \in 0..l - 1 : s[k] < PowerOfTwo[o[k + 1]]}
  <2>1. 0 \in Good
    <3>1. s[0] = 0 /\ 1 \in 1..n
      BY DEF Packs
    <3>2. PowerOfTwo[o[1]] \in Positive
      BY <3>1, OffsetsPower
    <3> QED
      BY <3>1, <3>2 DEF Positive
  <2>2. ASSUME NEW k \in 1..l - 1, k - 1 \in Good PROVE k \in Good
    <3>1. k \in 1..n /\ (k - 1) + 1 = k
      OBVIOUS
    <3>2. PICK c \in Positive, d \in Positive : c = PowerOfTwo[o[k]] /\ d = PowerOfTwo[w[k]]
      BY <3>1, OffsetsPower
    <3>3. PowerOfTwo[o[k + 1]] = c * d
      BY <3>1, <3>2, OffsetsPower
    <3>4. v[k] \in 0..d - 1
      BY <3>1, <3>2 DEF Packs
    <3>5. s[k - 1] \in 0..c - 1
      BY <1>3, <2>2, <3>1, <3>2 DEF Positive
    <3>6. c * v[k] + s[k - 1] \in 0..c * d - 1
      BY <3>4, <3>5, Less
    <3>7. s[k] = c * v[k] + s[k - 1]
      <4>1. PICK x \in Nat, y \in Nat : x = v[k] /\ y = s[k - 1]
        BY <1>3, <3>1
      <4>2. x * c = c * x /\ x * c \in Nat
        BY DEF Positive
      <4> QED
        BY <1>3, <3>1, <3>2, <4>1, <4>2
    <3>8. c * d \in Int
      BY DEF Positive
    <3> QED
      BY <3>3, <3>6, <3>7, <3>8
  <2>3. 0..l - 1 \subseteq Good
    <3> HIDE DEF Good
    <3> QED
      BY <2>1, <2>2, Inducted
  <2> QED
    BY <1>1, <2>3
<1> DEFINE Holds == {k \in 0..n - l : Middle(s[l + k], a, b) = v[l]}
<1>5. 0 \in Holds
  <2>1. v[l] \in 0..b - 1 /\ s[l] = s[l - 1] + v[l] * a /\ s[l - 1] \in Nat
    BY <1>1, <1>3 DEF Packs
  <2>2. s[l - 1] \in 0..a - 1
    BY <1>4, <2>1 DEF Positive
  <2> QED
    BY <2>1, <2>2, MiddleRead
<1>6. ASSUME NEW i \in 1..n - l, i - 1 \in Holds PROVE i \in Holds
  <2>1. PICK k \in l + 1..n : k = l + i /\ k - 1 = l + (i - 1)
    OBVIOUS
  <2>2. PICK e \in Positive : PowerOfTwo[o[k]] = (a * b) * e
    BY <1>2
  <2>3. s[k - 1] \in Nat /\ v[k] \in Nat /\ s[k] = s[k - 1] + v[k] * PowerOfTwo[o[k]]
    BY <1>3
  <2>4. PICK f \in Nat : f = v[k] * e
    BY <2>3 DEF Positive
  <2>5. v[k] * PowerOfTwo[o[k]] = f * (a * b)
    <3>1. PICK x \in Nat, ab \in Positive : x = v[k] /\ ab = a * b
      BY <2>3, Products
    <3>2. x * (ab * e) = (x * e) * ab
      BY DEF Positive
    <3> QED
      BY <2>2, <2>4, <3>1, <3>2
  <2>6. Middle(s[k - 1] + f * (a * b), a, b) = Middle(s[k - 1], a, b)
    BY <2>3, MiddleKept
  <2>7. Middle(s[k - 1], a, b) = v[l]
    BY <1>6, <2>1
  <2> QED
    BY <2>1, <2>3, <2>5, <2>6, <2>7
<1>7. n - l \in Holds
  <2>1. n - l \in Nat
    OBVIOUS
  <2> HIDE DEF Holds
  <2>2. 0..n - l \subseteq Holds
    BY <1>5, <1>6, <2>1, Inducted
  <2> QED
    BY <2>1, <2>2
<1>8. Middle(s[n], a, b) = v[l]
  <2>1. l + (n - l) = n
    OBVIOUS
  <2> QED
    BY <1>7, <2>1
<1> QED
  BY <1>1, <1>8
(***************************************************************************)
(* Cells of nodes: which nodes come before which, and the new numbers of   *)
(* the cells.                                                              *)
(***************************************************************************)

Parts == [Levels -> [EdgeNodes -> Nat]]
NestedParts(parts) ==
  \A a, b \in EdgeNodes : \A l \in 1..Len(MaxCellSizes) - 1 :
      parts[l][a] = parts[l][b] => parts[l + 1][a] = parts[l + 1][b]

LEMMA LevelsAre == Len(MaxCellSizes) \in Nat \ {0} /\ Levels = 1..Len(MaxCellSizes)
BY PartitioningAssumption DEF Levels

LEMMA NodesAre ==
  ASSUME input.size \in Nat
  PROVE  /\ IsFiniteSet(EdgeNodes) /\ Cardinality(EdgeNodes) = input.size
         /\ EdgeNodes = 0..input.size - 1 /\ EdgeNodes \subseteq Nat
<1>1. PICK n \in Nat : n = input.size
  OBVIOUS
<1>2. IsFiniteSet(0..n - 1) /\ Cardinality(0..n - 1) = n
  BY Numbers
<1> QED
  BY <1>1, <1>2 DEF EdgeNodes

LEMMA PartsAre ==
  ASSUME NEW parts \in Parts, NEW l \in Levels, NEW n \in EdgeNodes
  PROVE  parts[l][n] \in Nat
BY DEF Parts

LEMMA NestedAbove ==
  ASSUME NEW parts \in Parts, NestedParts(parts), NEW l \in Levels, NEW a \in EdgeNodes, NEW b \in EdgeNodes,
         parts[l][a] = parts[l][b]
  PROVE  \A k \in Levels : k >= l => parts[k][a] = parts[k][b]
<1> DEFINE m == Len(MaxCellSizes)
           Good == {i \in 0..m - l : parts[l + i][a] = parts[l + i][b]}
<1>0. m \in Nat /\ Levels = 1..m
  BY LevelsAre
<1> HIDE DEF m
<1>1. 0 \in Good
  <2>1. l + 0 = l
    BY <1>0
  <2> QED
    BY <1>0, <2>1
<1>2. ASSUME NEW i \in 1..m - l, i - 1 \in Good PROVE i \in Good
  <2>1. PICK k \in 1..m - 1 : k = l + (i - 1) /\ k + 1 = l + i
    BY <1>0
  <2>2. parts[k][a] = parts[k][b]
    BY <1>2, <2>1
  <2>3. parts[k + 1][a] = parts[k + 1][b]
    BY <2>2 DEF NestedParts, m
  <2> QED
    BY <2>1, <2>3
<1>3. 0..m - l \subseteq Good
  <2>1. m - l \in Nat
    BY <1>0
  <2> HIDE DEF Good
  <2> QED
    BY <1>1, <1>2, <2>1, Inducted
<1>4. ASSUME NEW k \in Levels, k >= l PROVE parts[k][a] = parts[k][b]
  <2>1. k - l \in 0..m - l /\ l + (k - l) = k
    BY <1>0, <1>4
  <2>2. parts[l + (k - l)][a] = parts[l + (k - l)][b]
    BY <1>3, <2>1
  <2> QED
    BY <2>1, <2>2
<1> QED
  BY <1>4

(* The highest level at which two nodes are apart decides. *)
Below(parts, a, b, d) == parts[d][a] < parts[d][b] /\ \A k \in Levels : k > d => parts[k][a] = parts[k][b]
Alike(parts, a, b) == \A k \in Levels : parts[k][a] = parts[k][b]

LEMMA BeforeIs ==
  ASSUME NEW parts \in Parts, NEW a \in EdgeNodes, NEW b \in EdgeNodes
  PROVE  CellsBefore(parts, a, b) <=> (Alike(parts, a, b) /\ a < b) \/ \E d \in Levels : Below(parts, a, b, d)
<1> DEFINE differ == {l \in Levels : parts[l][a] # parts[l][b]}
           m == Len(MaxCellSizes)
<1>0. m \in Nat /\ Levels = 1..m /\ \A l \in Levels : parts[l][a] \in Nat /\ parts[l][b] \in Nat
  BY LevelsAre DEF Parts
<1>1. CASE differ = {}
  <2>1. Alike(parts, a, b)
    BY <1>1 DEF Alike
  <2>2. \A d \in Levels : ~Below(parts, a, b, d)
    BY <1>0, <2>1 DEF Below, Alike
  <2>3. CellsBefore(parts, a, b) <=> a < b
    BY <1>1 DEF CellsBefore
  <2> QED
    BY <2>1, <2>2, <2>3
<1>2. CASE differ # {}
  <2>1. Max(differ) \in differ /\ \A k \in differ : Max(differ) >= k
    <3>1. differ \subseteq 0..m
      BY <1>0
    <3> HIDE DEF differ
    <3> QED
      BY <1>0, <1>2, <3>1, Largest
  <2>2. CellsBefore(parts, a, b) <=> parts[Max(differ)][a] < parts[Max(differ)][b]
    BY <1>2 DEF CellsBefore
  <2>3. PICK d \in Levels : d = Max(differ)
    BY <2>1
  <2>4. \A k \in Levels : k > d => parts[k][a] = parts[k][b]
    BY <1>0, <2>1, <2>3
  <2>5. parts[d][a] # parts[d][b]
    BY <2>1, <2>3
  <2> HIDE DEF differ
  <2>6. ~Alike(parts, a, b)
    BY <2>5 DEF Alike
  <2>7. ASSUME NEW e \in Levels, Below(parts, a, b, e) PROVE e = d
    <3>1. ~(e < d)
      BY <2>5, <2>7 DEF Below
    <3>2. ~(e > d)
      <4>1. parts[e][a] # parts[e][b]
        BY <1>0, <2>7 DEF Below
      <4> QED
        BY <2>4, <4>1
    <3> QED
      BY <1>0, <3>1, <3>2
  <2>8. CellsBefore(parts, a, b) => Below(parts, a, b, d)
    BY <2>2, <2>3, <2>4 DEF Below
  <2>9. ASSUME NEW e \in Levels, Below(parts, a, b, e) PROVE CellsBefore(parts, a, b)
    BY <2>2, <2>3, <2>7, <2>9 DEF Below
  <2> QED
    BY <2>6, <2>8, <2>9
<1> QED
  BY <1>1, <1>2

LEMMA ApartOrdered ==
  ASSUME NEW parts \in Parts, NEW a \in EdgeNodes, NEW b \in EdgeNodes, input.size \in Nat, a # b
  PROVE  CellsBefore(parts, a, b) \/ CellsBefore(parts, b, a)
<1> DEFINE differ == {l \in Levels : parts[l][a] # parts[l][b]}
           m == Len(MaxCellSizes)
<1>0. m \in Nat /\ Levels = 1..m /\ \A l \in Levels : parts[l][a] \in Nat /\ parts[l][b] \in Nat
  BY LevelsAre DEF Parts
<1>1. differ = {l \in Levels : parts[l][b] # parts[l][a]}
  OBVIOUS
<1>2. CASE differ = {}
  <2>1. a < b \/ b < a
    BY DEF EdgeNodes
  <2>2. CellsBefore(parts, a, b) <=> a < b
    BY <1>2 DEF CellsBefore
  <2>3. CellsBefore(parts, b, a) <=> b < a
    BY <1>1, <1>2 DEF CellsBefore
  <2> QED
    BY <2>1, <2>2, <2>3
<1>3. CASE differ # {}
  <2>1. Max(differ) \in differ
    <3>1. differ \subseteq 0..m
      BY <1>0
    <3> HIDE DEF differ
    <3> QED
      BY <1>0, <1>3, <3>1, Largest
  <2>2. PICK d \in Levels : d = Max(differ) /\ parts[d][a] # parts[d][b]
    BY <2>1
  <2>3. CellsBefore(parts, a, b) <=> parts[d][a] < parts[d][b]
    BY <1>3, <2>2 DEF CellsBefore
  <2>4. CellsBefore(parts, b, a) <=> parts[d][b] < parts[d][a]
    BY <1>1, <1>3, <2>2 DEF CellsBefore
  <2> QED
    BY <1>0, <2>2, <2>3, <2>4
<1> QED
  BY <1>2, <1>3

LEMMA BeforeTransitive ==
  ASSUME NEW parts \in Parts, NEW a \in EdgeNodes, NEW b \in EdgeNodes, NEW c \in EdgeNodes, input.size \in Nat,
         CellsBefore(parts, a, b), CellsBefore(parts, b, c)
  PROVE  CellsBefore(parts, a, c)
<1>0. /\ \A l \in Levels : l \in Int /\ parts[l][a] \in Nat /\ parts[l][b] \in Nat /\ parts[l][c] \in Nat
      /\ a \in Int /\ b \in Int /\ c \in Int
  <2>1. \A l \in Levels : l \in Int
    BY LevelsAre
  <2>2. a \in Int /\ b \in Int /\ c \in Int
    BY NodesAre
  <2> QED
    BY <2>1, <2>2, PartsAre
<1>1. (Alike(parts, a, b) /\ a < b) \/ \E d \in Levels : Below(parts, a, b, d)
  BY BeforeIs
<1>2. (Alike(parts, b, c) /\ b < c) \/ \E d \in Levels : Below(parts, b, c, d)
  BY BeforeIs
<1>3. (Alike(parts, a, c) /\ a < c) \/ \E d \in Levels : Below(parts, a, c, d)
  <2>1. CASE Alike(parts, a, b) /\ a < b /\ Alike(parts, b, c) /\ b < c
    <3>1. a < c
      BY <1>0, <2>1
    <3> QED
      BY <2>1, <3>1 DEF Alike
  <2>2. CASE Alike(parts, a, b) /\ \E d \in Levels : Below(parts, b, c, d)
    BY <2>2 DEF Alike, Below
  <2>3. CASE Alike(parts, b, c) /\ \E d \in Levels : Below(parts, a, b, d)
    BY <2>3 DEF Alike, Below
  <2>4. CASE (\E d \in Levels : Below(parts, a, b, d)) /\ (\E d \in Levels : Below(parts, b, c, d))
    <3>1. PICK d \in Levels : Below(parts, a, b, d)
      BY <2>4
    <3>2. PICK e \in Levels : Below(parts, b, c, e)
      BY <2>4
    <3>3. CASE d < e
      BY <1>0, <3>1, <3>2, <3>3 DEF Below
    <3>4. CASE d > e
      BY <1>0, <3>1, <3>2, <3>4 DEF Below
    <3>5. CASE d = e
      BY <1>0, <3>1, <3>2, <3>5 DEF Below
    <3> QED
      BY <1>0, <3>3, <3>4, <3>5
  <2> QED
    BY <1>1, <1>2, <2>1, <2>2, <2>3, <2>4
<1> QED
  BY <1>3, BeforeIs

LEMMA NotBeforeItself ==
  ASSUME NEW parts \in Parts, NEW a \in EdgeNodes, input.size \in Nat
  PROVE  ~CellsBefore(parts, a, a)
<1>1. a \in Int /\ \A l \in Levels : parts[l][a] \in Nat
  BY DEF Parts, EdgeNodes
<1> QED
  BY <1>1, BeforeIs DEF Below
PlaceIn(parts) == [n \in EdgeNodes |-> Cardinality({m \in EdgeNodes : CellsBefore(parts, m, n)})]
Begins(parts, l, n) == \E m \in EdgeNodes : /\ PlaceIn(parts)[n] = PlaceIn(parts)[m] + 1
                                            /\ parts[l][m] # parts[l][n]
BegunBy(parts, l, n) == {m \in EdgeNodes : PlaceIn(parts)[m] <= PlaceIn(parts)[n] /\ Begins(parts, l, m)}

LEMMA PlacesOrder ==
  ASSUME NEW parts \in Parts, input.size \in Nat
  PROVE  /\ PlaceIn(parts) \in [EdgeNodes -> EdgeNodes]
         /\ \A a, b \in EdgeNodes : CellsBefore(parts, a, b) <=> PlaceIn(parts)[a] < PlaceIn(parts)[b]
<1> DEFINE R == {x \in EdgeNodes \X EdgeNodes : CellsBefore(parts, x[1], x[2])}
           P == PlaceIn(parts)
<1>1. \A a, b \in EdgeNodes : <<a, b>> \in R <=> CellsBefore(parts, a, b)
  OBVIOUS
<1>2. R \subseteq EdgeNodes \X EdgeNodes
  OBVIOUS
<1> HIDE DEF R
<1>3. Orders(R, EdgeNodes)
  <2>1. \A a \in EdgeNodes : <<a, a>> \notin R
    BY <1>1, NotBeforeItself
  <2>2. ASSUME NEW a \in EdgeNodes, NEW b \in EdgeNodes, NEW c \in EdgeNodes, <<a, b>> \in R, <<b, c>> \in R
        PROVE  <<a, c>> \in R
    BY <1>1, <2>2, BeforeTransitive
  <2>3. \A a, b \in EdgeNodes : a # b => <<a, b>> \in R \/ <<b, a>> \in R
    BY <1>1, ApartOrdered
  <2> QED
    BY <1>2, <2>1, <2>2, <2>3 DEF Orders
<1>4. /\ P = [b \in EdgeNodes |-> P[b]]
      /\ \A b \in EdgeNodes : P[b] = Cardinality({a \in EdgeNodes : <<a, b>> \in R})
  <2>1. \A b \in EdgeNodes : {a \in EdgeNodes : <<a, b>> \in R} = {a \in EdgeNodes : CellsBefore(parts, a, b)}
    BY <1>1
  <2> QED
    BY <2>1 DEF PlaceIn
<1> HIDE DEF P
<1>5. P \in [EdgeNodes -> EdgeNodes] /\ \A a, b \in EdgeNodes : <<a, b>> \in R <=> P[a] < P[b]
  <2>1. PICK n \in Nat : n = input.size /\ EdgeNodes = 0..n - 1
    BY NodesAre
  <2>2. /\ Orders(R, 0..n - 1) /\ P = [b \in 0..n - 1 |-> P[b]]
        /\ \A b \in 0..n - 1 : P[b] = Cardinality({a \in 0..n - 1 : <<a, b>> \in R})
    BY <1>3, <1>4, <2>1
  <2>3. P \in [0..n - 1 -> 0..n - 1] /\ \A a, b \in 0..n - 1 : <<a, b>> \in R <=> P[a] < P[b]
    BY <2>2, RanksOrder
  <2> QED
    BY <2>1, <2>3
<1> QED
  BY <1>1, <1>5 DEF P

LEMMA NewNumbers ==
  ASSUME NEW parts, NEW l \in Levels, NEW n \in EdgeNodes
  PROVE  RenumberCells(parts)[l][n] = Cardinality(BegunBy(parts, l, n))
<1> DEFINE P == PlaceIn(parts)
           p == CHOOSE q \in {P} : q = P
           Starts(k, b) == \E m \in EdgeNodes : p[b] = p[m] + 1 /\ parts[k][m] # parts[k][b]
<1>1. p = P
  OBVIOUS
<1>2. RenumberCells(parts) = [k \in Levels |-> [b \in EdgeNodes |->
                                 Cardinality({m \in EdgeNodes : p[m] <= p[b] /\ Starts(k, m)})]]
  BY DEF RenumberCells, PlaceIn
<1>3. {m \in EdgeNodes : p[m] <= p[n] /\ Starts(l, m)} = BegunBy(parts, l, n)
  BY <1>1 DEF BegunBy, Begins
<1> HIDE DEF p, Starts
<1> QED
  BY <1>2, <1>3

(* Cells of the same number have the same number at the level above, *)
LEMMA NewCellsNested ==
  ASSUME NEW parts \in Parts, NestedParts(parts), input.size \in Nat, NEW a \in EdgeNodes, NEW b \in EdgeNodes,
         NEW l \in 1..Len(MaxCellSizes) - 1, RenumberCells(parts)[l][a] = RenumberCells(parts)[l][b]
  PROVE  RenumberCells(parts)[l + 1][a] = RenumberCells(parts)[l + 1][b]
<1> DEFINE P == PlaceIn(parts)
<1>0. l \in Levels /\ l + 1 \in Levels
  BY LevelsAre
<1>1. P \in [EdgeNodes -> EdgeNodes] /\ \A n \in EdgeNodes : P[n] \in Int
  BY PlacesOrder, NodesAre, SMTT(30)
<1>2. \A k \in Levels, n \in EdgeNodes : IsFiniteSet(BegunBy(parts, k, n))
  <2>1. IsFiniteSet(EdgeNodes)
    BY NodesAre
  <2>2. \A k \in Levels, n \in EdgeNodes : BegunBy(parts, k, n) \in SUBSET EdgeNodes
    BY DEF BegunBy
  <2> QED
    BY <2>1, <2>2, FS_Subset
<1>3. \A n \in EdgeNodes : Begins(parts, l + 1, n) => Begins(parts, l, n)
  BY DEF Begins, NestedParts
<1>4. ASSUME NEW x \in EdgeNodes, NEW y \in EdgeNodes, P[x] <= P[y],
             RenumberCells(parts)[l][x] = RenumberCells(parts)[l][y]
      PROVE  RenumberCells(parts)[l + 1][x] = RenumberCells(parts)[l + 1][y]
  <2>1. BegunBy(parts, l, x) \subseteq BegunBy(parts, l, y)
    BY <1>1, <1>4 DEF BegunBy
  <2>2. Cardinality(BegunBy(parts, l, x)) = Cardinality(BegunBy(parts, l, y))
    BY <1>0, <1>4, NewNumbers
  <2>3. BegunBy(parts, l, y) = BegunBy(parts, l, x)
    BY <1>0, <1>2, <2>1, <2>2, FS_Subset
  <2>4. ASSUME NEW m \in EdgeNodes, P[m] <= P[y], Begins(parts, l + 1, m) PROVE P[m] <= P[x]
    <3>1. m \in BegunBy(parts, l, y)
      BY <1>3, <2>4 DEF BegunBy
    <3> QED
      BY <2>3, <3>1 DEF BegunBy
  <2>5. BegunBy(parts, l + 1, y) = BegunBy(parts, l + 1, x)
    <3>1. \A m \in EdgeNodes : P[m] <= P[x] => P[m] <= P[y]
      BY <1>1, <1>4
    <3> QED
      BY <2>4, <3>1, Zenon DEF BegunBy
  <2> QED
    BY <1>0, <2>5, NewNumbers
<1>5. P[a] <= P[b] \/ P[b] <= P[a]
  BY <1>1
<1>6. CASE P[a] <= P[b]
  BY <1>4, <1>6
<1>7. CASE P[b] <= P[a]
  <2> HIDE DEF P
  <2>1. RenumberCells(parts)[l + 1][b] = RenumberCells(parts)[l + 1][a]
    BY <1>4, <1>7
  <2> QED
    BY <2>1
<1> QED
  BY <1>5, <1>6, <1>7

(* and there are no more numbers than cells: nested cells lie together. *)
LEMMA LieTogether ==
  ASSUME NEW parts \in Parts, NestedParts(parts), input.size \in Nat, NEW l \in Levels,
         NEW a \in EdgeNodes, NEW m \in EdgeNodes, NEW b \in EdgeNodes, parts[l][a] = parts[l][b],
         CellsBefore(parts, a, m), CellsBefore(parts, m, b)
  PROVE  parts[l][m] = parts[l][b]
<1>0. /\ \A k \in Levels : k \in Int /\ parts[k][a] \in Nat /\ parts[k][m] \in Nat /\ parts[k][b] \in Nat
  BY LevelsAre DEF Parts
<1>1. \A k \in Levels : k >= l => parts[k][a] = parts[k][b]
  BY NestedAbove
<1>2. Alike(parts, a, m) \/ \E d \in Levels : Below(parts, a, m, d)
  BY BeforeIs
<1>3. Alike(parts, m, b) \/ \E d \in Levels : Below(parts, m, b, d)
  BY BeforeIs
<1>4. CASE Alike(parts, a, m) \/ Alike(parts, m, b)
  BY <1>4 DEF Alike
<1>5. CASE (\E d \in Levels : Below(parts, a, m, d)) /\ (\E d \in Levels : Below(parts, m, b, d))
  <2>1. PICK d \in Levels : Below(parts, a, m, d)
    BY <1>5
  <2>2. PICK e \in Levels : Below(parts, m, b, e)
    BY <1>5
  <2>3. d < l \/ e < l
    <3> SUFFICES ASSUME d >= l, e >= l PROVE FALSE
      BY <1>0
    <3>1. parts[d][a] = parts[d][b] /\ parts[e][a] = parts[e][b]
      BY <1>1
    <3>2. CASE d = e
      BY <1>0, <2>1, <2>2, <3>1, <3>2 DEF Below
    <3>3. CASE d < e
      BY <1>0, <2>1, <2>2, <3>1, <3>3 DEF Below
    <3>4. CASE d > e
      BY <1>0, <2>1, <2>2, <3>1, <3>4 DEF Below
    <3> QED
      BY <1>0, <3>2, <3>3, <3>4
  <2> QED
    BY <1>0, <2>1, <2>2, <2>3 DEF Below
<1> QED
  BY <1>2, <1>3, <1>4, <1>5

LEMMA NewCellsFew ==
  ASSUME NEW parts \in Parts, NestedParts(parts), input.size \in Nat, NEW l \in Levels, NEW n \in EdgeNodes
  PROVE  /\ RenumberCells(parts)[l][n] \in Nat
         /\ RenumberCells(parts)[l][n] <= Cardinality({parts[l][m] : m \in EdgeNodes})
<1> DEFINE P == PlaceIn(parts)
           S == BegunBy(parts, l, n)
           V == {parts[l][m] : m \in EdgeNodes}
           f == [m \in S |-> parts[l][m]]
<1>1. P \in [EdgeNodes -> EdgeNodes] /\ \A m \in EdgeNodes : P[m] \in Int
  BY PlacesOrder, NodesAre
<1>2. \A a, b \in EdgeNodes : CellsBefore(parts, a, b) <=> P[a] < P[b]
  BY PlacesOrder
<1>3. ASSUME NEW a \in EdgeNodes, NEW b \in EdgeNodes, P[a] < P[b], Begins(parts, l, b)
      PROVE  parts[l][a] # parts[l][b]
  <2>1. PICK m \in EdgeNodes : P[b] = P[m] + 1 /\ parts[l][m] # parts[l][b]
    BY <1>3 DEF Begins
  <2>2. CASE P[a] < P[m]
    <3>1. CellsBefore(parts, a, m) /\ CellsBefore(parts, m, b)
      BY <1>1, <1>2, <2>1, <2>2
    <3> QED
      BY <2>1, <3>1, LieTogether
  <2>3. CASE P[a] = P[m]
    <3>1. ~CellsBefore(parts, a, m) /\ ~CellsBefore(parts, m, a)
      BY <1>1, <1>2, <2>3
    <3>2. a = m
      BY <3>1, ApartOrdered
    <3> QED
      BY <2>1, <3>2
  <2> QED
    BY <1>1, <1>3, <2>1, <2>2, <2>3
<1>4. \A a, b \in EdgeNodes : P[a] = P[b] => a = b
  <2> SUFFICES ASSUME NEW a \in EdgeNodes, NEW b \in EdgeNodes, P[a] = P[b] PROVE a = b
    OBVIOUS
  <2>1. ~CellsBefore(parts, a, b) /\ ~CellsBefore(parts, b, a)
    BY <1>1, <1>2
  <2> QED
    BY <2>1, ApartOrdered
<1> HIDE DEF P
<1>5. S \in SUBSET EdgeNodes /\ \A m \in S : Begins(parts, l, m)
  BY DEF BegunBy
<1>6. IsFiniteSet(EdgeNodes) /\ IsFiniteSet(S)
  <2>1. IsFiniteSet(EdgeNodes)
    BY NodesAre
  <2> QED
    BY <1>5, <2>1, FS_Subset
<1>7. IsFiniteSet(V)
  <2> DEFINE cellOf == [m \in EdgeNodes |-> parts[l][m]]
  <2>1. cellOf \in Surjection(EdgeNodes, V)
    BY DEF Surjection
  <2> HIDE DEF cellOf, V
  <2> QED
    BY <1>6, <2>1, FS_Surjection
<1> HIDE DEF S
<1>8. f \in Injection(S, V)
  <2>1. f \in [S -> V]
    BY <1>5
  <2>2. ASSUME NEW a \in S, NEW b \in S, f[a] = f[b] PROVE a = b
    <3>1. parts[l][a] = parts[l][b] /\ a \in EdgeNodes /\ b \in EdgeNodes
      BY <1>5, <2>2
    <3>2. ~(P[a] < P[b]) /\ ~(P[b] < P[a])
      BY <1>3, <1>5, <3>1
    <3>3. P[a] = P[b]
      BY <1>1, <3>1, <3>2
    <3> QED
      BY <1>4, <3>1, <3>3
  <2> QED
    BY <2>1, <2>2 DEF Injection, IsInjective
<1>9. Cardinality(S) <= Cardinality(V)
  <2> HIDE DEF f, V
  <2> QED
    BY <1>7, <1>8, FS_Injection
<1>10. Cardinality(S) \in Nat
  BY <1>6, FS_CardinalityType
<1> QED
  BY <1>9, <1>10, NewNumbers DEF S
(***************************************************************************)
(* The nodes are renumbered: every number is taken.                        *)
(***************************************************************************)

LEMMA BorderLevels ==
  ASSUME NEW n \in EdgeNodes
  PROVE  HighestBorderLevel(n) \in Nat
<1> DEFINE Crosses(a, l) == \E i \in DOMAIN graph[a] :
                              /\ partitions[l][graph[a][i].target] # partitions[l][a]
                              /\ n \in {a, graph[a][i].target}
           S == {0} \cup {l \in Levels : \E a \in EdgeNodes : Crosses(a, l)}
<1>1. S \subseteq 0..Len(MaxCellSizes) /\ S # {}
  <2> HIDE DEF Crosses
  <2> QED
    BY LevelsAre
<1>2. HighestBorderLevel(n) = Max(S)
  BY DEF HighestBorderLevel
<1> HIDE DEF S
<1>3. Max(S) \in S
  BY <1>1, LevelsAre, Largest
<1>4. Max(S) \in 0..Len(MaxCellSizes)
  BY <1>1, <1>3
<1>5. Max(S) \in Nat
  BY <1>4
<1> QED
  BY <1>2, <1>5

LEMMA Permutes ==
  ASSUME partitions \in Parts, input.size \in Nat
  PROVE  \A c \in EdgeNodes : \E m \in EdgeNodes : MakePermutation[m] = c
<1> DEFINE border == [n \in EdgeNodes |-> HighestBorderLevel(n)]
           Before(a, b) == IF border[a] # border[b] THEN border[a] > border[b] ELSE CellsBefore(partitions, a, b)
           R == {x \in EdgeNodes \X EdgeNodes : Before(x[1], x[2])}
           P == MakePermutation
<1>0. \A a \in EdgeNodes : border[a] \in Int
  BY BorderLevels
<1>1. P = [n \in EdgeNodes |-> Cardinality({m \in EdgeNodes : Before(m, n)})]
  BY DEF MakePermutation
<1> HIDE DEF border
<1>2. \A a, b \in EdgeNodes : <<a, b>> \in R <=> Before(a, b)
  OBVIOUS
<1>3. R \subseteq EdgeNodes \X EdgeNodes
  OBVIOUS
<1>4. \A b \in EdgeNodes : {a \in EdgeNodes : <<a, b>> \in R} = {a \in EdgeNodes : Before(a, b)}
  BY <1>2
<1> HIDE DEF R, P
<1>5. Orders(R, EdgeNodes)
  <2>1. \A a \in EdgeNodes : <<a, a>> \notin R
    BY <1>2, NotBeforeItself
  <2>2. ASSUME NEW a \in EdgeNodes, NEW b \in EdgeNodes, NEW c \in EdgeNodes, <<a, b>> \in R, <<b, c>> \in R
        PROVE  <<a, c>> \in R
    <3>1. Before(a, b) /\ Before(b, c)
      BY <1>2, <2>2
    <3>2. CASE border[a] = border[b] /\ border[b] = border[c]
      <4>1. CellsBefore(partitions, a, c)
        BY <3>1, <3>2, BeforeTransitive
      <4> QED
        BY <1>2, <3>2, <4>1
    <3>3. CASE border[a] # border[b] \/ border[b] # border[c]
      <4>1. border[a] > border[c]
        BY <1>0, <3>1, <3>3
      <4> QED
        BY <1>0, <1>2, <4>1
    <3> QED
      BY <3>2, <3>3
  <2>3. ASSUME NEW a \in EdgeNodes, NEW b \in EdgeNodes, a # b PROVE <<a, b>> \in R \/ <<b, a>> \in R
    <3>1. CASE border[a] = border[b]
      BY <1>2, <2>3, <3>1, ApartOrdered
    <3>2. CASE border[a] # border[b]
      <4>1. border[a] > border[b] \/ border[b] > border[a]
        BY <1>0, <3>2
      <4> QED
        BY <1>2, <3>2, <4>1
    <3> QED
      BY <3>1, <3>2
  <2> QED
    BY <1>3, <2>1, <2>2, <2>3 DEF Orders
<1>6. P = [b \in EdgeNodes |-> P[b]] /\ \A b \in EdgeNodes : P[b] = Cardinality({a \in EdgeNodes : <<a, b>> \in R})
  BY <1>1, <1>4
<1>7. PICK n \in Nat : n = input.size /\ EdgeNodes = 0..n - 1
  BY NodesAre
<1>8. /\ Orders(R, 0..n - 1) /\ P = [b \in 0..n - 1 |-> P[b]]
      /\ \A b \in 0..n - 1 : P[b] = Cardinality({a \in 0..n - 1 : <<a, b>> \in R})
  BY <1>5, <1>6, <1>7
<1>9. \A c \in 0..n - 1 : \E m \in 0..n - 1 : P[m] = c
  BY <1>8, RanksOrder
<1> QED
  BY <1>7, <1>9 DEF P

(* Numbers given to other nodes: nested as before, and no cell is new. *)
OldCells(parts, old) == \A l \in Levels, a \in EdgeNodes : \E b \in EdgeNodes : parts[l][a] = old[l][b]

LEMMA RenumberedNested ==
  ASSUME NEW parts \in Parts, NestedParts(parts), NEW old, OldCells(parts, old),
         NEW number, \A c \in EdgeNodes : \E m \in EdgeNodes : number[m] = c
  PROVE  LET new == [l \in Levels |-> [n \in EdgeNodes |-> parts[l][CHOOSE m \in EdgeNodes : number[m] = n]]]
         IN  new \in Parts /\ NestedParts(new) /\ OldCells(new, old)
<1> DEFINE From(n) == CHOOSE m \in EdgeNodes : number[m] = n
           new == [l \in Levels |-> [n \in EdgeNodes |-> parts[l][From(n)]]]
<1>1. \A n \in EdgeNodes : From(n) \in EdgeNodes
  OBVIOUS
<1> HIDE DEF From
<1>2. new \in Parts
  BY <1>1 DEF Parts
<1>3. \A l \in Levels, n \in EdgeNodes : new[l][n] = parts[l][From(n)]
  OBVIOUS
<1> HIDE DEF new
<1>4. NestedParts(new)
  <2>1. \A l \in 1..Len(MaxCellSizes) - 1 : l \in Levels /\ l + 1 \in Levels
    BY LevelsAre
  <2>2. ASSUME NEW a \in EdgeNodes, NEW b \in EdgeNodes, NEW l \in 1..Len(MaxCellSizes) - 1, new[l][a] = new[l][b]
        PROVE  new[l + 1][a] = new[l + 1][b]
    <3>1. parts[l][From(a)] = parts[l][From(b)]
      BY <1>3, <2>1, <2>2
    <3>2. parts[l + 1][From(a)] = parts[l + 1][From(b)]
      BY <1>1, <3>1 DEF NestedParts
    <3> QED
      BY <1>3, <2>1, <3>2
  <2> QED
    BY <2>2 DEF NestedParts
<1>5. OldCells(new, old)
  BY <1>1, <1>3 DEF OldCells
<1> QED
  BY <1>2, <1>4, <1>5 DEF new, From
(***************************************************************************)
(* Border nodes move to a neighbour's cell.                                *)
(***************************************************************************)

LeadsToNodes(edges) == edges \in Seq(ToSet(edges)) /\ \A i \in DOMAIN edges : edges[i].target \in EdgeNodes

LEMMA MergedTargets ==
  ASSUME NEW turns, NEW s, NEW t
  PROVE  \E x, y : /\ x.target = t /\ y.target = t
                   /\ MergedEdges(turns, s, t) \in {<<>>, <<x>>, <<x, y>>}
<1> DEFINE Ways(dir) == {u \in turns : <<u.source, u.target>> = IF dir = "forward" THEN <<s, t>> ELSE <<t, s>>}
           Best(dir) == CHOOSE u \in Ways(dir) : \A v \in Ways(dir) :
                           u.weight < v.weight \/ (u.weight = v.weight /\ u.id <= v.id)
           Edge(dir) == [target |-> t, weight |-> Max({1, Best(dir).weight}), id |-> Best(dir).id,
                         forward |-> dir = "forward", backward |-> dir = "backward"]
           both == [Edge("forward") EXCEPT !.backward = TRUE]
<1>1. MergedEdges(turns, s, t) \in {<<>>, <<Edge("forward")>>, <<Edge("backward")>>, <<both>>,
                                    <<Edge("forward"), Edge("backward")>>}
  <2>1. MergedEdges(turns, s, t) =
           IF s = t \/ Ways("forward") \cup Ways("backward") = {} THEN <<>>
           ELSE IF Ways("backward") = {} THEN <<Edge("forward")>>
           ELSE IF Ways("forward") = {} THEN <<Edge("backward")>>
           ELSE IF Edge("forward").weight = Edge("backward").weight THEN <<both>>
           ELSE <<Edge("forward"), Edge("backward")>>
    BY DEF MergedEdges
  <2> HIDE DEF Ways, Edge, both
  <2> QED
    BY <2>1
<1>2. Edge("forward").target = t /\ Edge("backward").target = t /\ both.target = t
  OBVIOUS
<1> HIDE DEF Edge, both
<1> QED
  BY <1>1, <1>2

LEMMA GraphLeadsToNodes ==
  ASSUME NEW turns, input.size \in Nat, NEW s \in EdgeNodes
  PROVE  LeadsToNodes(LoadEdgeBasedGraph(turns, input.size)[s])
<1>1. PICK n \in Nat : n = input.size /\ EdgeNodes = 0..n - 1
  BY NodesAre
<1> DEFINE seqs == [i \in 1..n |-> MergedEdges(turns, s, i - 1)]
           E == UNION {ToSet(seqs[i]) : i \in 1..n}
<1>2. LoadEdgeBasedGraph(turns, input.size)[s] = FlattenSeq(seqs)
  BY <1>1 DEF LoadEdgeBasedGraph
<1>3. \A i \in 1..n : \E x, y : x.target = i - 1 /\ y.target = i - 1 /\ seqs[i] \in {<<>>, <<x>>, <<x, y>>}
  BY MergedTargets
<1> HIDE DEF seqs
<1>4. \A i \in 1..n : seqs[i] \in Seq(ToSet(seqs[i])) /\ \A e \in ToSet(seqs[i]) : e.target = i - 1
  <2> SUFFICES ASSUME NEW i \in 1..n
               PROVE  seqs[i] \in Seq(ToSet(seqs[i])) /\ \A e \in ToSet(seqs[i]) : e.target = i - 1
    OBVIOUS
  <2> PICK x, y : x.target = i - 1 /\ y.target = i - 1 /\ seqs[i] \in {<<>>, <<x>>, <<x, y>>}
    BY <1>3
  <2>1. CASE seqs[i] = <<>>
    BY <2>1 DEF ToSet
  <2>2. CASE seqs[i] = <<x>>
    BY <2>2 DEF ToSet
  <2>3. CASE seqs[i] = <<x, y>>
    BY <2>3 DEF ToSet
  <2> QED
    BY <2>1, <2>2, <2>3
<1>5. \A e \in E : e.target \in EdgeNodes
  BY <1>1, <1>4
<1>6. seqs \in [1..n -> Seq(E)]
  <2>1. \A i \in 1..n : seqs[i] \in Seq(E)
    <3> SUFFICES ASSUME NEW i \in 1..n PROVE seqs[i] \in Seq(E)
      OBVIOUS
    <3>1. ToSet(seqs[i]) \subseteq E
      OBVIOUS
    <3> HIDE DEF E
    <3> QED
      BY <1>4, <3>1
  <2> HIDE DEF E
  <2> QED
    BY <2>1 DEF seqs
<1> HIDE DEF E
<1>7. FlattenSeq(seqs) \in Seq(E)
  <2>1. PICK h : Flattens(h, n, E, seqs) /\ FlattenSeq(seqs) = h[n]
    BY <1>6, FlattenRuns
  <2> QED
    BY <2>1 DEF Flattens
<1>8. FlattenSeq(seqs) \in Seq(ToSet(FlattenSeq(seqs)))
  BY <1>7 DEF ToSet
<1>9. \A i \in DOMAIN FlattenSeq(seqs) : FlattenSeq(seqs)[i].target \in EdgeNodes
  BY <1>5, <1>7
<1> QED
  BY <1>2, <1>8, <1>9 DEF LeadsToNodes

(* One of the best, and among these the first. *)
LEMMA FirstOfBest ==
  ASSUME NEW S, S \subseteq Nat, S # {}, NEW F \in [S -> Nat]
  PROVE  \E m \in S : \A o \in S : F[m] < F[o] \/ (F[m] = F[o] /\ m <= o)
<1> DEFINE V == {F[x] : x \in S}
<1>1. PICK v \in V : \A u \in V : v <= u
  <2>1. V \subseteq Nat
    OBVIOUS
  <2>2. V # {}
    <3> PICK x \in S : TRUE
      OBVIOUS
    <3>1. F[x] \in V
      OBVIOUS
    <3> QED
      BY <3>1
  <2> HIDE DEF V
  <2> QED
    BY <2>1, <2>2, Smallest
<1> DEFINE T == {x \in S : F[x] = v}
<1>2. PICK m \in T : \A o \in T : m <= o
  <2>1. T \subseteq Nat
    OBVIOUS
  <2>2. T # {}
    BY <1>1
  <2> HIDE DEF T
  <2> QED
    BY <2>1, <2>2, Smallest
<1>3. ASSUME NEW o \in S PROVE F[m] < F[o] \/ (F[m] = F[o] /\ m <= o)
  <2>1. v <= F[o] /\ F[m] = v /\ F[o] \in Nat /\ v \in Nat
    BY <1>1, <1>2
  <2>2. CASE F[o] = v
    <3>1. o \in T
      BY <2>2
    <3> QED
      BY <1>2, <2>1, <2>2, <3>1
  <2>3. CASE F[o] # v
    BY <2>1, <2>3
  <2> QED
    BY <2>2, <2>3
<1> QED
  BY <1>2, <1>3
GraphLeads == \A n \in EdgeNodes : LeadsToNodes(graph[n])

(* A node goes to the cells of another up to a level at which both are in one cell. *)
Moved(acc, lev, node, w) == [l \in Levels |-> IF l <= lev THEN [acc[l] EXCEPT ![node] = acc[l][w]] ELSE acc[l]]

LEMMA FixIsMove ==
  ASSUME GraphLeads, NEW acc, NEW lev \in Levels, NEW node \in EdgeNodes
  PROVE  \/ FixNode(acc, lev, node) = acc
         \/ \E w \in EdgeNodes : /\ FixNode(acc, lev, node) = Moved(acc, lev, node, w)
                                 /\ lev # Len(MaxCellSizes) => acc[lev + 1][w] = acc[lev + 1][node]
<1> DEFINE P(l, n) == acc[l][n]
           edges   == graph[node]
           inside  == {i \in DOMAIN edges : P(lev, edges[i].target) = P(lev, node)}
           connected == \E i \in inside : edges[i].forward \/ edges[i].backward
           outside == {edges[i].target : i \in DOMAIN edges \ inside}
           fitting == {w \in outside : lev = Len(MaxCellSizes) \/ P(lev + 1, w) = P(lev + 1, node)}
           Leaves(w) == {x \in (DOMAIN edges) \X (1..lev) : P(x[2], edges[x[1]].target) # P(x[2], w)}
           Induced(w) == Cardinality(Leaves(w))
           IsBest(w) == \A o \in fitting : Induced(w) < Induced(o) \/ (Induced(w) = Induced(o) /\ w <= o)
           best == CHOOSE w \in fitting : IsBest(w)
<1>1. FixNode(acc, lev, node) = IF outside = {} \/ connected \/ fitting = {} THEN acc ELSE Moved(acc, lev, node, best)
  BY DEF FixNode, Moved
<1>2. LeadsToNodes(edges)
  BY DEF GraphLeads
<1> HIDE DEF connected
<1>3. \A w : Induced(w) \in Nat
  <2>1. IsFiniteSet(DOMAIN edges) /\ IsFiniteSet(1..lev)
    <3>1. Len(edges) \in Int /\ DOMAIN edges = 1..Len(edges) /\ lev \in Int
      BY <1>2, LevelsAre DEF LeadsToNodes
    <3> QED
      BY <3>1, FS_Interval
  <2>2. IsFiniteSet((DOMAIN edges) \X (1..lev))
    BY <2>1, FS_Product
  <2>3. \A w : Leaves(w) \in SUBSET ((DOMAIN edges) \X (1..lev))
    OBVIOUS
  <2> HIDE DEF Leaves
  <2>4. \A w : IsFiniteSet(Leaves(w))
    BY <2>2, <2>3, FS_Subset
  <2> QED
    BY <2>4, FS_CardinalityType
<1>4. fitting \subseteq EdgeNodes
  BY <1>2 DEF LeadsToNodes
<1>5. \A w \in fitting : lev # Len(MaxCellSizes) => acc[lev + 1][w] = acc[lev + 1][node]
  OBVIOUS
<1> HIDE DEF Leaves
<1>6. fitting # {} => best \in fitting
  <2> SUFFICES ASSUME fitting # {} PROVE best \in fitting
    OBVIOUS
  <2> DEFINE F == [w \in fitting |-> Induced(w)]
  <2>1. fitting \subseteq Nat
    <3>1. EdgeNodes \subseteq Nat
      BY DEF EdgeNodes
    <3> QED
      BY <1>4, <3>1
  <2> HIDE DEF fitting
  <2>2. F \in [fitting -> Nat]
    BY <1>3
  <2>3. \A w \in fitting : F[w] = Induced(w)
    OBVIOUS
  <2> HIDE DEF F, Induced
  <2>4. \E m \in fitting : \A o \in fitting : F[m] < F[o] \/ (F[m] = F[o] /\ m <= o)
    BY <2>1, <2>2, FirstOfBest
  <2>5. \E m \in fitting : IsBest(m)
    BY <2>3, <2>4
  <2> HIDE DEF IsBest
  <2> QED
    BY <2>5
<1> HIDE DEF outside, fitting, best
<1> QED
  BY <1>1, <1>4, <1>5, <1>6

LEMMA MoveKeeps ==
  ASSUME NEW acc \in Parts, NestedParts(acc), NEW old, OldCells(acc, old),
         NEW lev \in Levels, NEW node \in EdgeNodes, NEW w \in EdgeNodes,
         lev # Len(MaxCellSizes) => acc[lev + 1][w] = acc[lev + 1][node]
  PROVE  Moved(acc, lev, node, w) \in Parts /\ NestedParts(Moved(acc, lev, node, w)) /\ OldCells(Moved(acc, lev, node, w), old)
<1> DEFINE new == Moved(acc, lev, node, w)
           As(l, n) == IF l <= lev /\ n = node THEN w ELSE n
<1>0. Len(MaxCellSizes) \in Nat /\ Levels = 1..Len(MaxCellSizes)
  BY LevelsAre
<1>1. \A l \in Levels : acc[l] \in [EdgeNodes -> Nat]
  BY DEF Parts
<1>2. new \in Parts
  <2>1. \A l \in Levels : acc[l][w] \in Nat /\ [acc[l] EXCEPT ![node] = acc[l][w]] \in [EdgeNodes -> Nat]
    BY <1>1
  <2> QED
    BY <1>1, <2>1 DEF Parts, Moved
<1>3. \A l \in Levels, n \in EdgeNodes : new[l][n] = acc[l][As(l, n)]
  BY <1>1 DEF Moved
<1>4. \A l \in Levels, n \in EdgeNodes : As(l, n) \in EdgeNodes
  OBVIOUS
<1> HIDE DEF new
<1>5. NestedParts(new)
  <2> SUFFICES ASSUME NEW a \in EdgeNodes, NEW b \in EdgeNodes, NEW l \in 1..Len(MaxCellSizes) - 1, new[l][a] = new[l][b]
               PROVE  new[l + 1][a] = new[l + 1][b]
    BY DEF NestedParts
  <2>1. l \in Levels /\ l + 1 \in Levels /\ l \in Int /\ lev \in Int /\ l # Len(MaxCellSizes)
    BY <1>0
  <2>2. acc[l][As(l, a)] = acc[l][As(l, b)]
    BY <1>3, <2>1
  <2> HIDE DEF As
  <2>3. acc[l + 1][As(l, a)] = acc[l + 1][As(l, b)]
    BY <1>4, <2>1, <2>2 DEF NestedParts
  <2>4. \A n \in EdgeNodes : acc[l + 1][As(l + 1, n)] = acc[l + 1][As(l, n)]
    <3>1. CASE l = lev
      BY <2>1, <3>1 DEF As
    <3>2. CASE l # lev
      BY <2>1, <3>2 DEF As
    <3> QED
      BY <3>1, <3>2
  <2>5. \A n \in EdgeNodes : new[l + 1][n] = acc[l + 1][As(l, n)]
    BY <1>3, <2>1, <2>4
  <2> QED
    BY <2>3, <2>5
<1>6. OldCells(new, old)
  <2> HIDE DEF As
  <2> SUFFICES ASSUME NEW l \in Levels, NEW a \in EdgeNodes PROVE \E b \in EdgeNodes : new[l][a] = old[l][b]
    BY DEF OldCells
  <2>1. As(l, a) \in EdgeNodes /\ new[l][a] = acc[l][As(l, a)]
    BY <1>3, <1>4
  <2>2. \E b \in EdgeNodes : acc[l][As(l, a)] = old[l][b]
    BY <2>1 DEF OldCells
  <2> QED
    BY <2>1, <2>2
<1> QED
  BY <1>2, <1>5, <1>6 DEF new

LEMMA FixKeeps ==
  ASSUME GraphLeads, NEW acc \in Parts, NestedParts(acc), NEW old, OldCells(acc, old),
         NEW lev \in Levels, NEW node \in EdgeNodes
  PROVE  /\ FixNode(acc, lev, node) \in Parts /\ NestedParts(FixNode(acc, lev, node))
         /\ OldCells(FixNode(acc, lev, node), old)
<1>1. CASE FixNode(acc, lev, node) = acc
  BY <1>1
<1>2. CASE FixNode(acc, lev, node) # acc
  <2>1. PICK w \in EdgeNodes : /\ FixNode(acc, lev, node) = Moved(acc, lev, node, w)
                               /\ lev # Len(MaxCellSizes) => acc[lev + 1][w] = acc[lev + 1][node]
    BY <1>2, FixIsMove
  <2> QED
    BY <2>1, MoveKeeps
<1> QED
  BY <1>1, <1>2
(* A loop stays where its rounds stay. *)
LEMMA LoopStays ==
  ASSUME NEW n \in Nat, NEW S, NEW f, f = [i \in 0..n |-> f[i]],
         f[0] \in S, \A i \in 1..n : f[i - 1] \in S => f[i] \in S
  PROVE  f \in [0..n -> S]
<1> DEFINE Good == {i \in 0..n : f[i] \in S}
<1>1. 0 \in Good /\ \A i \in 1..n : i - 1 \in Good => i \in Good
  OBVIOUS
<1>2. 0..n \subseteq Good
  <2> HIDE DEF Good
  <2> QED
    BY <1>1, Inducted
<1>3. \A i \in 0..n : f[i] \in S
  BY <1>2
<1> QED
  BY <1>3

TopDown == Reverse([l \in Levels |-> l])

LEMMA TopDownIs ==
  /\ Len(TopDown) = Len(MaxCellSizes) /\ Len(TopDown) \in Nat
  /\ \A i \in 1..Len(TopDown) : TopDown[i] \in Levels /\ TopDown[i] = Len(MaxCellSizes) - i + 1
<1> PICK n \in Nat : n = Len(MaxCellSizes) /\ Levels = 1..n
  BY LevelsAre
<1> DEFINE up == [l \in Levels |-> l]
<1>1. up \in Seq(Nat) /\ Len(up) = n
  OBVIOUS
<1>2. TopDown = [i \in 1..n |-> up[(n - i) + 1]]
  BY <1>1 DEF TopDown, Reverse
<1>3. Len(TopDown) = n
  BY <1>2
<1>4. \A i \in 1..n : TopDown[i] = n - i + 1 /\ n - i + 1 \in Levels
  BY <1>2
<1> QED
  BY <1>3, <1>4

FixLevel(acc, lev) == Iterate(LAMBDA a, i : FixNode(a, lev, i - 1), acc, input.size)
FixLevels(parts) == IterateOver(LAMBDA acc, lev : FixLevel(acc, lev), parts, TopDown)

FixesLevel(f, S, acc, lev) ==
  /\ f \in [0..input.size -> S] /\ f[0] = acc /\ f[input.size] = FixLevel(acc, lev)
  /\ \A i \in 1..input.size : f[i] = FixNode(f[i - 1], lev, i - 1)

LEMMA FixLevelRuns ==
  ASSUME NEW acc, NEW lev, NEW S, acc \in S, input.size \in Nat,
         \A s \in S, i \in 1..input.size : FixNode(s, lev, i - 1) \in S
  PROVE  \E f : FixesLevel(f, S, acc, lev)
<1> DEFINE n == input.size
           Op(s, i) == FixNode(s, lev, i - 1)
           IsLoop(x) == x = [i \in 0..n |-> IF i = 0 THEN acc
                                           ELSE CHOOSE after \in {Op(s, i) : s \in {x[i - 1]}} : TRUE]
           f == CHOOSE x : IsLoop(x)
<1>1. FixLevel(acc, lev) = f[n]
  BY DEF FixLevel, Iterate
<1>2. n \in Nat /\ acc \in S /\ \A s \in S, i \in 1..n : Op(s, i) \in S
  OBVIOUS
<1> HIDE DEF n, Op
<1>3. \E x : IsLoop(x)
  <2> DEFINE F == [i \in 1..n |-> [s \in S |-> Op(s, i)]]
  <2>1. PICK run : Runs(run, n, S, acc, F)
    <3>1. F \in [1..n -> [S -> S]]
      BY <1>2
    <3> HIDE DEF F
    <3> QED
      BY <1>2, <3>1, LoopRuns, Zenon
  <2>2. \A i \in 1..n : run[i] = Op(run[i - 1], i)
    <3>1. \A i \in 1..n : run[i - 1] \in S
      BY <1>2, <2>1 DEF Runs
    <3> QED
      BY <2>1, <3>1 DEF Runs
  <2>3. IsLoop(run)
    BY <1>2, <2>1, <2>2 DEF Runs
  <2> QED
    BY <2>3
<1>4. IsLoop(f)
  <2> HIDE DEF IsLoop
  <2> QED
    BY <1>3
<1> HIDE DEF f
<1>5. f[0] = acc /\ \A i \in 1..n : f[i] = Op(f[i - 1], i)
  BY <1>2, <1>4
<1>6. f \in [0..n -> S]
  <2>1. f = [i \in 0..n |-> f[i]]
    BY <1>4
  <2>2. f[0] \in S /\ \A i \in 1..n : f[i - 1] \in S => f[i] \in S
    BY <1>2, <1>5
  <2> QED
    BY <1>2, <2>1, <2>2, LoopStays
<1> QED
  BY <1>1, <1>5, <1>6 DEF n, Op, FixesLevel

FixesLevels(f, S, parts) ==
  /\ f \in [0..Len(TopDown) -> S] /\ f[0] = parts /\ f[Len(TopDown)] = FixLevels(parts)
  /\ \A i \in 1..Len(TopDown) : f[i] = FixLevel(f[i - 1], TopDown[i])

LEMMA FixLevelsRun ==
  ASSUME NEW parts, NEW S, parts \in S, Len(TopDown) \in Nat,
         \A s \in S, i \in 1..Len(TopDown) : FixLevel(s, TopDown[i]) \in S
  PROVE  \E f : FixesLevels(f, S, parts)
<1> DEFINE n == Len(TopDown)
           Op(s, i) == FixLevel(s, TopDown[i])
           IsLoop(x) == x = [i \in 0..n |-> IF i = 0 THEN parts
                                           ELSE CHOOSE after \in {Op(s, i) : s \in {x[i - 1]}} : TRUE]
           f == CHOOSE x : IsLoop(x)
<1>1. FixLevels(parts) = f[n]
  BY DEF FixLevels, IterateOver, Iterate
<1>2. n \in Nat /\ parts \in S /\ \A s \in S, i \in 1..n : Op(s, i) \in S
  OBVIOUS
<1> HIDE DEF n, Op
<1>3. \E x : IsLoop(x)
  <2> DEFINE F == [i \in 1..n |-> [s \in S |-> Op(s, i)]]
  <2>1. PICK run : Runs(run, n, S, parts, F)
    <3>1. F \in [1..n -> [S -> S]]
      BY <1>2
    <3> HIDE DEF F
    <3> QED
      BY <1>2, <3>1, LoopRuns, Zenon
  <2>2. \A i \in 1..n : run[i] = Op(run[i - 1], i)
    <3>1. \A i \in 1..n : run[i - 1] \in S
      BY <1>2, <2>1 DEF Runs
    <3> QED
      BY <2>1, <3>1 DEF Runs
  <2>3. IsLoop(run)
    BY <1>2, <2>1, <2>2 DEF Runs
  <2> QED
    BY <2>3
<1>4. IsLoop(f)
  <2> HIDE DEF IsLoop
  <2> QED
    BY <1>3
<1> HIDE DEF f
<1>5. f[0] = parts /\ \A i \in 1..n : f[i] = Op(f[i - 1], i)
  BY <1>2, <1>4
<1>6. f \in [0..n -> S]
  <2>1. f = [i \in 0..n |-> f[i]]
    BY <1>4
  <2>2. f[0] \in S /\ \A i \in 1..n : f[i - 1] \in S => f[i] \in S
    BY <1>2, <1>5
  <2> QED
    BY <1>2, <2>1, <2>2, LoopStays
<1> QED
  BY <1>1, <1>5, <1>6 DEF n, Op, FixesLevels

LEMMA FixesKeep ==
  ASSUME GraphLeads, input.size \in Nat, NEW parts \in Parts, NestedParts(parts), NEW old, OldCells(parts, old)
  PROVE  FixLevels(parts) \in Parts /\ NestedParts(FixLevels(parts)) /\ OldCells(FixLevels(parts), old)
<1> DEFINE S == {q \in Parts : NestedParts(q) /\ OldCells(q, old)}
<1>1. ASSUME NEW acc \in S, NEW lev \in Levels PROVE FixLevel(acc, lev) \in S
  <2>1. \A q \in S, i \in 1..input.size : FixNode(q, lev, i - 1) \in S
    <3> SUFFICES ASSUME NEW q \in S, NEW i \in 1..input.size PROVE FixNode(q, lev, i - 1) \in S
      OBVIOUS
    <3>1. i - 1 \in EdgeNodes
      BY DEF EdgeNodes
    <3> QED
      BY <3>1, FixKeeps
  <2> HIDE DEF S
  <2>2. acc \in S /\ input.size \in Nat
    OBVIOUS
  <2>3. PICK f : FixesLevel(f, S, acc, lev)
    BY <2>1, <2>2, FixLevelRuns, Zenon
  <2> QED
    BY <2>3 DEF FixesLevel
<1>2. parts \in S
  OBVIOUS
<1>3. \A q \in S, i \in 1..Len(TopDown) : FixLevel(q, TopDown[i]) \in S
  BY <1>1, TopDownIs
<1> HIDE DEF S
<1>4. PICK f : FixesLevels(f, S, parts)
  BY <1>2, <1>3, TopDownIs, FixLevelsRun, Zenon
<1>5. FixLevels(parts) \in S
  BY <1>4, TopDownIs DEF FixesLevels
<1> QED
  BY <1>5 DEF S

(***************************************************************************)
(* Cells are split: every node is in one cell, which lies in one that was  *)
(* there before.                                                           *)
(***************************************************************************)

CellRecords == [nodes : SUBSET EdgeNodes, bit : Int, tabu : BOOLEAN]
Whole(cs) ==
  /\ cs \in Seq(CellRecords)
  /\ \A e \in EdgeNodes : \E i \in DOMAIN cs : e \in cs[i].nodes
  /\ \A i, j \in DOMAIN cs : \A e \in EdgeNodes : e \in cs[i].nodes /\ e \in cs[j].nodes => i = j
Finer(cs, above) == \A i \in DOMAIN cs : \E j \in DOMAIN above : cs[i].nodes \subseteq above[j].nodes

(* One cell is kept or cut in two. *)
SplitsTo(new, cs, i, c, d) ==
  \/ new = [cs EXCEPT ![i] = c] /\ c.nodes = cs[i].nodes
  \/ new = Append([cs EXCEPT ![i] = c], d) /\ c.nodes \cup d.nodes = cs[i].nodes /\ c.nodes \cap d.nodes = {}

LEMMA SplitIs ==
  ASSUME NEW ids, NEW cs \in Seq(CellRecords), NEW i \in DOMAIN cs
  PROVE  \E c, d \in CellRecords : SplitsTo(SplitCell(ids, cs, i), cs, i, c, d)
<1> DEFINE cell == cs[i]
           set  == {b \in 0..cell.bit : \E n \in cell.nodes : HasBit(ids[n], b)}
           bit  == Max(set)
           left == {n \in cell.nodes : HasBit(ids[n], bit)}
           rest == [nodes |-> cell.nodes, bit |-> IF bit > 0 THEN bit - 1 ELSE cell.bit,
                    tabu |-> cell.tabu \/ bit = 0]
           kept == [cell EXCEPT !.tabu = TRUE]
           one  == [rest EXCEPT !.nodes = left]
           two  == [rest EXCEPT !.nodes = cell.nodes \ left]
<1>1. SplitCell(ids, cs, i) =
        IF set = {} THEN [cs EXCEPT ![i] = kept]
        ELSE IF left = cell.nodes THEN [cs EXCEPT ![i] = rest]
        ELSE Append([cs EXCEPT ![i] = one], two)
  BY DEF SplitCell
<1>2. cell \in CellRecords
  OBVIOUS
<1> HIDE DEF cell
<1>3. set # {} => bit \in Int
  <2> SUFFICES ASSUME set # {} PROVE bit \in Int
    OBVIOUS
  <2>1. cell.bit \in Int
    BY <1>2 DEF CellRecords
  <2>2. cell.bit \in Nat /\ set \subseteq 0..cell.bit
    <3> PICK b \in 0..cell.bit : TRUE
      OBVIOUS
    <3> QED
      BY <2>1
  <2> HIDE DEF set
  <2>3. bit \in set
    BY <2>2, Largest
  <2> HIDE DEF bit
  <2>4. bit \in 0..cell.bit
    BY <2>2, <2>3
  <2> QED
    BY <2>4
<1>4. kept \in CellRecords /\ kept.nodes = cell.nodes
  BY <1>2 DEF CellRecords
<1> HIDE DEF set, bit
<1>5. cell.nodes \in SUBSET EdgeNodes /\ cell.bit \in Int
  BY <1>2 DEF CellRecords
<1>6. left \in SUBSET cell.nodes
  OBVIOUS
<1> HIDE DEF left
<1>7. bit \in Int => rest \in CellRecords /\ rest.nodes = cell.nodes
  <2> SUFFICES ASSUME bit \in Int PROVE rest \in CellRecords /\ rest.nodes = cell.nodes
    OBVIOUS
  <2>1. (IF bit > 0 THEN bit - 1 ELSE cell.bit) \in Int
    BY <1>5
  <2>2. (cell.tabu \/ bit = 0) \in BOOLEAN
    OBVIOUS
  <2> QED
    BY <1>5, <2>1, <2>2 DEF CellRecords
<1>8. rest \in CellRecords => /\ one \in CellRecords /\ one.nodes = left
                             /\ two \in CellRecords /\ two.nodes = cell.nodes \ left
  <2> HIDE DEF rest
  <2> QED
    BY <1>5, <1>6 DEF CellRecords
<1> HIDE DEF kept, rest, one, two
<1>9. CASE set = {}
  <2>1. SplitCell(ids, cs, i) = [cs EXCEPT ![i] = kept]
    BY <1>1, <1>9
  <2> QED
    BY <1>4, <2>1 DEF cell, SplitsTo
<1>10. CASE set # {} /\ left = cell.nodes
  <2>1. SplitCell(ids, cs, i) = [cs EXCEPT ![i] = rest]
    BY <1>1, <1>10
  <2> QED
    BY <1>3, <1>7, <1>10, <2>1 DEF cell, SplitsTo
<1>11. CASE set # {} /\ left # cell.nodes
  <2>1. SplitCell(ids, cs, i) = Append([cs EXCEPT ![i] = one], two)
    BY <1>1, <1>11
  <2>2. one \in CellRecords /\ two \in CellRecords
    BY <1>3, <1>7, <1>8, <1>11
  <2>3. one.nodes \cup two.nodes = cell.nodes /\ one.nodes \cap two.nodes = {}
    BY <1>3, <1>6, <1>7, <1>8, <1>11
  <2> QED
    BY <2>1, <2>2, <2>3 DEF cell, SplitsTo
<1> QED
  BY <1>9, <1>10, <1>11
LEMMA SplitKeeps ==
  ASSUME NEW ids, NEW cs, Whole(cs), NEW above, Finer(cs, above), NEW i \in DOMAIN cs
  PROVE  /\ Whole(SplitCell(ids, cs, i)) /\ Finer(SplitCell(ids, cs, i), above)
         /\ Len(SplitCell(ids, cs, i)) >= Len(cs)
<1>0. cs \in Seq(CellRecords)
  BY DEF Whole
<1>1. PICK c \in CellRecords, d \in CellRecords : SplitsTo(SplitCell(ids, cs, i), cs, i, c, d)
  BY <1>0, SplitIs
<1> DEFINE kept == [cs EXCEPT ![i] = c]
<1>2. /\ kept \in Seq(CellRecords) /\ Len(kept) = Len(cs) /\ DOMAIN kept = DOMAIN cs
      /\ kept[i] = c /\ \A j \in DOMAIN cs : j # i => kept[j] = cs[j]
  BY <1>0
<1> HIDE DEF kept
<1>3. CASE SplitCell(ids, cs, i) = kept /\ c.nodes = cs[i].nodes
  <2>1. \A j \in DOMAIN cs : kept[j].nodes = cs[j].nodes
    BY <1>2, <1>3
  <2>2. Whole(kept)
    BY <1>2, <2>1 DEF Whole
  <2>3. Finer(kept, above)
    BY <1>2, <2>1 DEF Finer
  <2>4. Len(kept) >= Len(cs)
    BY <1>0, <1>2
  <2> QED
    BY <1>3, <2>2, <2>3, <2>4
<1>4. CASE /\ SplitCell(ids, cs, i) = Append(kept, d)
           /\ c.nodes \cup d.nodes = cs[i].nodes /\ c.nodes \cap d.nodes = {}
  <2> DEFINE new == Append(kept, d)
             n == Len(cs)
  <2>1. /\ new \in Seq(CellRecords) /\ Len(new) = n + 1 /\ n \in Nat /\ DOMAIN cs = 1..n /\ DOMAIN new = 1..n + 1
        /\ new[n + 1] = d /\ \A j \in 1..n : new[j] = kept[j]
    BY <1>0, <1>2
  <2> HIDE DEF new, n
  <2>2. new[i].nodes = c.nodes /\ \A j \in 1..n : j # i => new[j].nodes = cs[j].nodes
    BY <1>2, <2>1
  <2>3. \A e : e \in cs[i].nodes <=> e \in c.nodes \/ e \in d.nodes
    BY <1>4
  <2>4. \A e : ~(e \in c.nodes /\ e \in d.nodes)
    BY <1>4
  <2> DEFINE From(j) == IF j = n + 1 THEN i ELSE j
  <2>5. \A j \in 1..n + 1 : From(j) \in 1..n
    BY <2>1
  <2>6. \A j \in 1..n + 1 : new[j].nodes \subseteq cs[From(j)].nodes
    <3> SUFFICES ASSUME NEW j \in 1..n + 1 PROVE new[j].nodes \subseteq cs[From(j)].nodes
      OBVIOUS
    <3>1. CASE j = n + 1
      BY <2>1, <2>3, <3>1
    <3>2. CASE j # n + 1 /\ j = i
      BY <2>2, <2>3, <3>2
    <3>3. CASE j # n + 1 /\ j # i
      <4>1. j \in 1..n
        BY <2>1, <3>3
      <4> QED
        BY <2>2, <3>3, <4>1
    <3> QED
      BY <3>1, <3>2, <3>3
  <2>7. ASSUME NEW e \in EdgeNodes PROVE \E j \in DOMAIN new : e \in new[j].nodes
    <3>1. PICK j \in 1..n : e \in cs[j].nodes
      BY <2>1 DEF Whole
    <3>2. j \in DOMAIN new /\ n + 1 \in DOMAIN new /\ i \in DOMAIN new
      BY <2>1
    <3>3. CASE j = i
      BY <2>1, <2>2, <2>3, <3>1, <3>2, <3>3
    <3>4. CASE j # i
      BY <2>2, <3>1, <3>2, <3>4
    <3> QED
      BY <3>3, <3>4
  <2>8. ASSUME NEW j \in DOMAIN new, NEW k \in DOMAIN new, NEW e \in EdgeNodes, e \in new[j].nodes, e \in new[k].nodes
        PROVE  j = k
    <3>1. From(j) = From(k)
      <4>1. e \in cs[From(j)].nodes /\ e \in cs[From(k)].nodes /\ From(j) \in DOMAIN cs /\ From(k) \in DOMAIN cs
        BY <2>1, <2>5, <2>6, <2>8
      <4> HIDE DEF From
      <4> QED
        BY <4>1 DEF Whole
    <3>2. CASE j = n + 1 /\ k # n + 1
      <4>1. k = i
        BY <3>1, <3>2
      <4> QED
        BY <2>1, <2>2, <2>4, <2>8, <3>2, <4>1
    <3>3. CASE k = n + 1 /\ j # n + 1
      <4>1. j = i
        BY <3>1, <3>3
      <4> QED
        BY <2>1, <2>2, <2>4, <2>8, <3>3, <4>1
    <3> QED
      BY <3>1, <3>2, <3>3
  <2>9. Whole(new)
    BY <2>1, <2>7, <2>8 DEF Whole
  <2>10. Finer(new, above)
    <3> SUFFICES ASSUME NEW j \in DOMAIN new PROVE \E k \in DOMAIN above : new[j].nodes \subseteq above[k].nodes
      BY DEF Finer
    <3>1. From(j) \in DOMAIN cs /\ new[j].nodes \subseteq cs[From(j)].nodes
      BY <2>1, <2>5, <2>6
    <3> HIDE DEF From
    <3>2. PICK k \in DOMAIN above : cs[From(j)].nodes \subseteq above[k].nodes
      BY <3>1 DEF Finer
    <3> QED
      BY <3>1, <3>2
  <2> QED
    BY <1>4, <2>1, <2>9, <2>10 DEF new, n
<1> QED
  BY <1>1, <1>3, <1>4 DEF kept, SplitsTo

(* One pass over the cells that are there, and all of the passes. *)
SplitLarge(ids, size, cs, i) ==
  IF ~cs[i].tabu /\ Cardinality(cs[i].nodes) > size THEN SplitCell(ids, cs, i) ELSE cs
SplitPass(ids, size, cs) == Iterate(LAMBDA d, i : SplitLarge(ids, size, d, i), cs, Len(cs))

SplitsAll(f, S, ids, size, cs) ==
  /\ f \in [0..Len(cs) -> S] /\ f[0] = cs /\ f[Len(cs)] = SplitPass(ids, size, cs)
  /\ \A i \in 1..Len(cs) : f[i] = SplitLarge(ids, size, f[i - 1], i)

LEMMA SplitPassRuns ==
  ASSUME NEW ids, NEW size, NEW cs, NEW S, cs \in S, Len(cs) \in Nat,
         \A s \in S, i \in 1..Len(cs) : SplitLarge(ids, size, s, i) \in S
  PROVE  \E f : SplitsAll(f, S, ids, size, cs)
<1> DEFINE n == Len(cs)
           Op(s, i) == SplitLarge(ids, size, s, i)
           IsLoop(x) == x = [i \in 0..n |-> IF i = 0 THEN cs
                                           ELSE CHOOSE after \in {Op(s, i) : s \in {x[i - 1]}} : TRUE]
           f == CHOOSE x : IsLoop(x)
<1>1. SplitPass(ids, size, cs) = f[n]
  BY DEF SplitPass, Iterate
<1>2. n \in Nat /\ cs \in S /\ \A s \in S, i \in 1..n : Op(s, i) \in S
  OBVIOUS
<1> HIDE DEF n, Op
<1>3. \E x : IsLoop(x)
  <2> DEFINE F == [i \in 1..n |-> [s \in S |-> Op(s, i)]]
  <2>1. PICK run : Runs(run, n, S, cs, F)
    <3>1. F \in [1..n -> [S -> S]]
      BY <1>2
    <3> HIDE DEF F
    <3> QED
      BY <1>2, <3>1, LoopRuns, Zenon
  <2>2. \A i \in 1..n : run[i] = Op(run[i - 1], i)
    <3>1. \A i \in 1..n : run[i - 1] \in S
      BY <1>2, <2>1 DEF Runs
    <3> QED
      BY <2>1, <3>1 DEF Runs
  <2>3. IsLoop(run)
    BY <1>2, <2>1, <2>2 DEF Runs
  <2> QED
    BY <2>3
<1>4. IsLoop(f)
  <2> HIDE DEF IsLoop
  <2> QED
    BY <1>3
<1> HIDE DEF f
<1>5. f[0] = cs /\ \A i \in 1..n : f[i] = Op(f[i - 1], i)
  BY <1>2, <1>4
<1>6. f \in [0..n -> S]
  <2>1. f = [i \in 0..n |-> f[i]]
    BY <1>4
  <2>2. f[0] \in S /\ \A i \in 1..n : f[i - 1] \in S => f[i] \in S
    BY <1>2, <1>5
  <2> QED
    BY <1>2, <2>1, <2>2, LoopStays
<1> QED
  BY <1>1, <1>5, <1>6 DEF n, Op, SplitsAll

PartitionsLevel(f, S, ids, size, cs) ==
  /\ f \in [0..(BisectionBits + 1) -> S] /\ f[0] = cs /\ f[(BisectionBits + 1)] = PartitionLevel(ids, size, cs)
  /\ \A i \in 1..(BisectionBits + 1) : f[i] = SplitPass(ids, size, f[i - 1])

LEMMA PartitionLevelRuns ==
  ASSUME NEW ids, NEW size, NEW cs, NEW S, cs \in S, (BisectionBits + 1) \in Nat,
         \A s \in S, i \in 1..(BisectionBits + 1) : SplitPass(ids, size, s) \in S
  PROVE  \E f : PartitionsLevel(f, S, ids, size, cs)
<1> DEFINE n == (BisectionBits + 1)
           Op(s, i) == SplitPass(ids, size, s)
           IsLoop(x) == x = [i \in 0..n |-> IF i = 0 THEN cs
                                           ELSE CHOOSE after \in {Op(s, i) : s \in {x[i - 1]}} : TRUE]
           f == CHOOSE x : IsLoop(x)
<1>1. PartitionLevel(ids, size, cs) = f[n]
  BY DEF PartitionLevel, SplitPass, SplitLarge, Iterate
<1>2. n \in Nat /\ cs \in S /\ \A s \in S, i \in 1..n : Op(s, i) \in S
  OBVIOUS
<1> HIDE DEF n, Op
<1>3. \E x : IsLoop(x)
  <2> DEFINE F == [i \in 1..n |-> [s \in S |-> Op(s, i)]]
  <2>1. PICK run : Runs(run, n, S, cs, F)
    <3>1. F \in [1..n -> [S -> S]]
      BY <1>2
    <3> HIDE DEF F
    <3> QED
      BY <1>2, <3>1, LoopRuns, Zenon
  <2>2. \A i \in 1..n : run[i] = Op(run[i - 1], i)
    <3>1. \A i \in 1..n : run[i - 1] \in S
      BY <1>2, <2>1 DEF Runs
    <3> QED
      BY <2>1, <3>1 DEF Runs
  <2>3. IsLoop(run)
    BY <1>2, <2>1, <2>2 DEF Runs
  <2> QED
    BY <2>3
<1>4. IsLoop(f)
  <2> HIDE DEF IsLoop
  <2> QED
    BY <1>3
<1> HIDE DEF f
<1>5. f[0] = cs /\ \A i \in 1..n : f[i] = Op(f[i - 1], i)
  BY <1>2, <1>4
<1>6. f \in [0..n -> S]
  <2>1. f = [i \in 0..n |-> f[i]]
    BY <1>4
  <2>2. f[0] \in S /\ \A i \in 1..n : f[i - 1] \in S => f[i] \in S
    BY <1>2, <1>5
  <2> QED
    BY <1>2, <2>1, <2>2, LoopStays
<1> QED
  BY <1>1, <1>5, <1>6 DEF n, Op, PartitionsLevel
LEMMA PassKeeps ==
  ASSUME NEW ids, NEW size, NEW cs, Whole(cs), NEW above, Finer(cs, above)
  PROVE  Whole(SplitPass(ids, size, cs)) /\ Finer(SplitPass(ids, size, cs), above)
<1> DEFINE n == Len(cs)
           S == {d \in Seq(CellRecords) : Whole(d) /\ Finer(d, above) /\ Len(d) >= n}
<1>1. n \in Nat /\ cs \in S
  BY DEF Whole
<1>2. \A d \in S, i \in 1..n : SplitLarge(ids, size, d, i) \in S
  <2> SUFFICES ASSUME NEW d \in S, NEW i \in 1..n PROVE SplitLarge(ids, size, d, i) \in S
    OBVIOUS
  <2>1. i \in DOMAIN d /\ Whole(d) /\ Finer(d, above) /\ Len(d) \in Nat /\ Len(d) >= n
    BY <1>1
  <2>2. /\ Whole(SplitCell(ids, d, i)) /\ Finer(SplitCell(ids, d, i), above)
        /\ Len(SplitCell(ids, d, i)) >= Len(d)
    BY <2>1, SplitKeeps
  <2>3. SplitCell(ids, d, i) \in Seq(CellRecords) /\ Len(SplitCell(ids, d, i)) \in Nat
    BY <2>2 DEF Whole
  <2> HIDE DEF n
  <2>4. SplitCell(ids, d, i) \in S
    BY <1>1, <2>1, <2>2, <2>3
  <2> HIDE DEF S
  <2> QED
    BY <2>4 DEF SplitLarge
<1> HIDE DEF S
<1>3. PICK f : SplitsAll(f, S, ids, size, cs)
  BY <1>1, <1>2, SplitPassRuns, Zenon
<1>4. SplitPass(ids, size, cs) \in S
  BY <1>1, <1>3 DEF SplitsAll
<1> QED
  BY <1>4 DEF S

LEMMA LevelKeeps ==
  ASSUME NEW ids, NEW size, NEW cs, Whole(cs)
  PROVE  Whole(PartitionLevel(ids, size, cs)) /\ Finer(PartitionLevel(ids, size, cs), cs)
<1> DEFINE S == {d \in Seq(CellRecords) : Whole(d) /\ Finer(d, cs)}
<1>1. cs \in S
  BY DEF Whole, Finer
<1>2. \A d \in S, i \in 1..(BisectionBits + 1) : SplitPass(ids, size, d) \in S
  <2> SUFFICES ASSUME NEW d \in S PROVE SplitPass(ids, size, d) \in S
    OBVIOUS
  <2>1. Whole(SplitPass(ids, size, d)) /\ Finer(SplitPass(ids, size, d), cs)
    BY PassKeeps
  <2> QED
    BY <2>1 DEF Whole
<1>3. BisectionBits + 1 \in Nat
  BY PartitioningAssumption
<1> HIDE DEF S
<1>4. PICK f : PartitionsLevel(f, S, ids, size, cs)
  BY <1>1, <1>2, <1>3, PartitionLevelRuns, Zenon
<1>5. PartitionLevel(ids, size, cs) \in S
  BY <1>3, <1>4 DEF PartitionsLevel
<1> QED
  BY <1>5 DEF S

(***************************************************************************)
(* Levels of cells, each below the one before.                             *)
(***************************************************************************)

LEMMA CellsGiveParts ==
  ASSUME NEW cs, Whole(cs)
  PROVE  /\ CellsToPartition(cs) \in [EdgeNodes -> Nat]
         /\ \A a, b \in EdgeNodes : CellsToPartition(cs)[a] = CellsToPartition(cs)[b]
                                        <=> \E i \in DOMAIN cs : a \in cs[i].nodes /\ b \in cs[i].nodes
<1> DEFINE At(e) == CHOOSE i \in DOMAIN cs : e \in cs[i].nodes
           q == CellsToPartition(cs)
<1>1. \A e \in EdgeNodes : At(e) \in DOMAIN cs /\ e \in cs[At(e)].nodes
  BY DEF Whole
<1>2. q = [e \in EdgeNodes |-> At(e) - 1]
  BY DEF CellsToPartition
<1> HIDE DEF At, q
<1>3. \A e \in EdgeNodes : At(e) \in Nat /\ At(e) - 1 \in Nat
  <2>1. DOMAIN cs = 1..Len(cs) /\ Len(cs) \in Nat
    BY DEF Whole
  <2> QED
    BY <1>1, <2>1
<1>4. q \in [EdgeNodes -> Nat]
  BY <1>2, <1>3
<1>5. ASSUME NEW a \in EdgeNodes, NEW b \in EdgeNodes
      PROVE  q[a] = q[b] <=> \E i \in DOMAIN cs : a \in cs[i].nodes /\ b \in cs[i].nodes
  <2>1. q[a] = q[b] <=> At(a) = At(b)
    BY <1>2, <1>3
  <2>2. ASSUME NEW i \in DOMAIN cs, a \in cs[i].nodes, b \in cs[i].nodes PROVE At(a) = At(b)
    BY <1>1, <2>2 DEF Whole
  <2> QED
    BY <1>1, <2>1, <2>2
<1> QED
  BY <1>4, <1>5 DEF q

LEMMA FinerParts ==
  ASSUME NEW cs, Whole(cs), NEW above, Whole(above), Finer(cs, above), NEW a \in EdgeNodes, NEW b \in EdgeNodes,
         CellsToPartition(cs)[a] = CellsToPartition(cs)[b]
  PROVE  CellsToPartition(above)[a] = CellsToPartition(above)[b]
<1>1. PICK i \in DOMAIN cs : a \in cs[i].nodes /\ b \in cs[i].nodes
  BY CellsGiveParts
<1>2. PICK j \in DOMAIN above : cs[i].nodes \subseteq above[j].nodes
  BY DEF Finer
<1>3. a \in above[j].nodes /\ b \in above[j].nodes
  BY <1>1, <1>2
<1> QED
  BY <1>3, CellsGiveParts
LevelBelow(ids, acc, l) ==
  [cells |-> PartitionLevel(ids, MaxCellSizes[l], acc.cells),
   levels |-> <<CellsToPartition(PartitionLevel(ids, MaxCellSizes[l], acc.cells))>> \o acc.levels]
NoLevels == [cells |-> <<[nodes |-> EdgeNodes, bit |-> BisectionBits - 1, tabu |-> FALSE]>>, levels |-> <<>>]
LevelsDown(ids) == IterateOver(LAMBDA acc, l : LevelBelow(ids, acc, l), NoLevels, TopDown)

GoesDown(f, S, ids) ==
  /\ f \in [0..Len(TopDown) -> S] /\ f[0] = NoLevels /\ f[Len(TopDown)] = LevelsDown(ids)
  /\ \A i \in 1..Len(TopDown) : f[i] = LevelBelow(ids, f[i - 1], TopDown[i])

LEMMA LevelsDownRun ==
  ASSUME NEW ids, NEW S, NoLevels \in S, Len(TopDown) \in Nat,
         \A s \in S, i \in 1..Len(TopDown) : LevelBelow(ids, s, TopDown[i]) \in S
  PROVE  \E f : GoesDown(f, S, ids)
<1> DEFINE n == Len(TopDown)
           Op(s, i) == LevelBelow(ids, s, TopDown[i])
           IsLoop(x) == x = [i \in 0..n |-> IF i = 0 THEN NoLevels
                                           ELSE CHOOSE after \in {Op(s, i) : s \in {x[i - 1]}} : TRUE]
           f == CHOOSE x : IsLoop(x)
<1>1. LevelsDown(ids) = f[n]
  BY DEF LevelsDown, IterateOver, Iterate
<1>2. n \in Nat /\ NoLevels \in S /\ \A s \in S, i \in 1..n : Op(s, i) \in S
  OBVIOUS
<1> HIDE DEF n, Op
<1>3. \E x : IsLoop(x)
  <2> DEFINE F == [i \in 1..n |-> [s \in S |-> Op(s, i)]]
  <2>1. PICK run : Runs(run, n, S, NoLevels, F)
    <3>1. F \in [1..n -> [S -> S]]
      BY <1>2
    <3> HIDE DEF F
    <3> QED
      BY <1>2, <3>1, LoopRuns, Zenon
  <2>2. \A i \in 1..n : run[i] = Op(run[i - 1], i)
    <3>1. \A i \in 1..n : run[i - 1] \in S
      BY <1>2, <2>1 DEF Runs
    <3> QED
      BY <2>1, <3>1 DEF Runs
  <2>3. IsLoop(run)
    BY <1>2, <2>1, <2>2 DEF Runs
  <2> QED
    BY <2>3
<1>4. IsLoop(f)
  <2> HIDE DEF IsLoop
  <2> QED
    BY <1>3
<1> HIDE DEF f
<1>5. f[0] = NoLevels /\ \A i \in 1..n : f[i] = Op(f[i - 1], i)
  BY <1>2, <1>4
<1>6. f \in [0..n -> S]
  <2>1. f = [i \in 0..n |-> f[i]]
    BY <1>4
  <2>2. f[0] \in S /\ \A i \in 1..n : f[i - 1] \in S => f[i] \in S
    BY <1>2, <1>5
  <2> QED
    BY <1>2, <2>1, <2>2, LoopStays
<1> QED
  BY <1>1, <1>5, <1>6 DEF n, Op, GoesDown

LEMMA DownIs ==
  ASSUME NEW ids
  PROVE  BisectionToPartition(ids) = LevelsDown(ids).levels
BY DEF BisectionToPartition, LevelsDown, LevelBelow, NoLevels, TopDown

Stacked(acc) ==
  /\ Whole(acc.cells)
  /\ acc.levels # <<>> => acc.levels[1] = CellsToPartition(acc.cells)
  /\ \A l \in 1..Len(acc.levels) - 1 : \A a, b \in EdgeNodes :
        acc.levels[l][a] = acc.levels[l][b] => acc.levels[l + 1][a] = acc.levels[l + 1][b]
Stacks == {acc \in [cells : Seq(CellRecords), levels : Seq([EdgeNodes -> Nat])] : Stacked(acc)}

LEMMA BelowStacked ==
  ASSUME NEW ids, NEW acc \in Stacks, NEW l
  PROVE  LevelBelow(ids, acc, l) \in Stacks /\ Len(LevelBelow(ids, acc, l).levels) = Len(acc.levels) + 1
<1> DEFINE new == PartitionLevel(ids, MaxCellSizes[l], acc.cells)
           q   == CellsToPartition(new)
           all == <<q>> \o acc.levels
           k   == Len(acc.levels)
           acc2 == [cells |-> new, levels |-> all]
<1>1. /\ acc.cells \in Seq(CellRecords) /\ acc.levels \in Seq([EdgeNodes -> Nat])
      /\ Stacked(acc) /\ Whole(acc.cells)
  BY DEF Stacks, Stacked
<1>2. Whole(new) /\ Finer(new, acc.cells) /\ new \in Seq(CellRecords)
  BY <1>1, LevelKeeps DEF Whole
<1> HIDE DEF new
<1>3. q \in [EdgeNodes -> Nat]
  BY <1>2, CellsGiveParts
<1>4. ASSUME NEW a \in EdgeNodes, NEW b \in EdgeNodes, q[a] = q[b]
      PROVE  CellsToPartition(acc.cells)[a] = CellsToPartition(acc.cells)[b]
  BY <1>1, <1>2, <1>4, FinerParts
<1> HIDE DEF q
<1>5. /\ all \in Seq([EdgeNodes -> Nat]) /\ Len(all) = k + 1 /\ k \in Nat /\ all[1] = q
      /\ \A j \in 1..k : all[j + 1] = acc.levels[j]
  BY <1>1, <1>3
<1> HIDE DEF all, k
<1>6. ASSUME NEW j \in 1..Len(all) - 1, NEW a \in EdgeNodes, NEW b \in EdgeNodes, all[j][a] = all[j][b]
      PROVE  all[j + 1][a] = all[j + 1][b]
  <2>1. j \in 1..k /\ all[j + 1] = acc.levels[j]
    BY <1>5
  <2>2. CASE j = 1
    <3>1. k >= 1
      BY <1>5, <2>1
    <3>2. acc.levels # <<>>
      BY <1>1, <3>1 DEF k
    <3>3. acc.levels[1] = CellsToPartition(acc.cells)
      BY <1>1, <3>2 DEF Stacked
    <3>4. q[a] = q[b]
      BY <1>5, <1>6, <2>2
    <3> QED
      BY <1>4, <2>1, <2>2, <3>3, <3>4
  <2>3. CASE j # 1
    <3>1. PICK i \in 1..k - 1 : j = i + 1
      <4>1. j - 1 \in 1..k - 1 /\ j = (j - 1) + 1
        BY <1>5, <2>1, <2>3
      <4> QED
        BY <4>1
    <3>2. i \in 1..k /\ all[i + 1] = acc.levels[i]
      BY <1>5, <3>1
    <3>3. acc.levels[i][a] = acc.levels[i][b]
      BY <1>6, <3>1, <3>2
    <3>4. acc.levels[i + 1][a] = acc.levels[i + 1][b]
      BY <1>1, <3>1, <3>3 DEF Stacked, k
    <3> QED
      BY <2>1, <3>1, <3>4
  <2> QED
    BY <2>2, <2>3
<1>7. acc2.cells = new /\ acc2.levels = all /\ acc2 \in [cells : Seq(CellRecords), levels : Seq([EdgeNodes -> Nat])]
  BY <1>2, <1>5
<1> HIDE DEF acc2
<1>8. Stacked(acc2)
  BY <1>2, <1>5, <1>6, <1>7 DEF Stacked, q
<1>9. LevelBelow(ids, acc, l) = acc2
  BY DEF LevelBelow, acc2, new, q, all
<1> QED
  BY <1>5, <1>7, <1>8, <1>9 DEF Stacks, k

LEMMA NoneStacked == NoLevels \in Stacks /\ Len(NoLevels.levels) = 0
<1> DEFINE top == [nodes |-> EdgeNodes, bit |-> BisectionBits - 1, tabu |-> FALSE]
<1>1. top \in CellRecords /\ top.nodes = EdgeNodes
  BY PartitioningAssumption DEF CellRecords
<1> HIDE DEF top
<1>2. Whole(<<top>>)
  BY <1>1 DEF Whole
<1>3. NoLevels = [cells |-> <<top>>, levels |-> <<>>]
  BY DEF NoLevels, top
<1>4. Stacked(NoLevels)
  BY <1>2, <1>3 DEF Stacked
<1>5. <<top>> \in Seq(CellRecords) /\ <<>> \in Seq([EdgeNodes -> Nat])
  BY <1>1
<1> QED
  BY <1>3, <1>4, <1>5 DEF Stacks

LEMMA PartitionIsNested ==
  ASSUME NEW ids
  PROVE  BisectionToPartition(ids) \in Parts /\ NestedParts(BisectionToPartition(ids))
<1> DEFINE n == Len(TopDown)
<1>0. n \in Nat /\ n = Len(MaxCellSizes) /\ Levels = 1..n
  BY TopDownIs, LevelsAre
<1>1. \A acc \in Stacks, i \in 1..Len(TopDown) : LevelBelow(ids, acc, TopDown[i]) \in Stacks
  BY BelowStacked
<1>2. PICK f : GoesDown(f, Stacks, ids)
  BY <1>0, <1>1, NoneStacked, LevelsDownRun, Zenon
<1>3. f \in [0..n -> Stacks] /\ f[0] = NoLevels /\ f[n] = LevelsDown(ids)
      /\ \A i \in 1..n : f[i] = LevelBelow(ids, f[i - 1], TopDown[i])
  BY <1>2 DEF GoesDown
<1> HIDE DEF n
<1>4. Len(f[n].levels) = n
  <2> DEFINE Good == {i \in 0..n : Len(f[i].levels) = i}
  <2>1. 0 \in Good
    BY <1>0, <1>3, NoneStacked
  <2>2. ASSUME NEW i \in 1..n, i - 1 \in Good PROVE i \in Good
    <3>1. f[i - 1] \in Stacks /\ f[i] = LevelBelow(ids, f[i - 1], TopDown[i])
      <4>1. i - 1 \in 0..n
        BY <1>0
      <4> QED
        BY <1>3, <4>1
    <3>2. Len(f[i].levels) = Len(f[i - 1].levels) + 1
      BY <3>1, BelowStacked
    <3> QED
      BY <2>2, <3>2
  <2>3. 0..n \subseteq Good
    <3> HIDE DEF Good
    <3> QED
      BY <1>0, <2>1, <2>2, Inducted
  <2> QED
    BY <1>0, <2>3
<1>5. f[n] \in Stacks
  BY <1>0, <1>3
<1> DEFINE parts == f[n].levels
<1>6. parts \in Seq([EdgeNodes -> Nat]) /\ Len(parts) = n /\ Stacked(f[n])
  BY <1>4, <1>5 DEF Stacks
<1>7. parts \in Parts
  BY <1>0, <1>6 DEF Parts
<1>8. NestedParts(parts)
  BY <1>0, <1>6 DEF Stacked, NestedParts
<1> QED
  BY <1>3, <1>7, <1>8, DownIs
(***************************************************************************)
(* The cells of a node in one integer.                                     *)
(***************************************************************************)

FromBits == BisectionToPartition(EdgeBisectionIds)
CellsAt(parts, l) == {parts[l][n] : n \in EdgeNodes}
WidthOf(l) == BitsFor(Cardinality(CellsAt(FromBits, l)) + 1)

LEMMA CellsCounted ==
  ASSUME NEW parts, NEW l, input.size \in Nat
  PROVE  /\ IsFiniteSet(CellsAt(parts, l))
         /\ Cardinality(CellsAt(parts, l)) \in Nat /\ Cardinality(CellsAt(parts, l)) <= input.size
<1> DEFINE cellOf == [m \in EdgeNodes |-> parts[l][m]]
           V == CellsAt(parts, l)
<1>1. IsFiniteSet(EdgeNodes) /\ Cardinality(EdgeNodes) = input.size
  BY NodesAre
<1>2. cellOf \in Surjection(EdgeNodes, V)
  BY DEF Surjection, CellsAt
<1> HIDE DEF cellOf, V
<1>3. IsFiniteSet(V) /\ Cardinality(V) <= Cardinality(EdgeNodes)
  BY <1>1, <1>2, FS_Surjection
<1>4. Cardinality(V) \in Nat
  BY <1>3, FS_CardinalityType
<1> QED
  BY <1>1, <1>3, <1>4 DEF V

LEMMA WidthsSuffice ==
  ASSUME input \in Inputs, NEW l
  PROVE  /\ input.size \in Nat /\ WidthOf(l) \in Nat
         /\ Cardinality(CellsAt(FromBits, l)) < PowerOfTwo[WidthOf(l)]
         /\ WidthOf(l) \in 0..PartitionBits
<1> DEFINE c == Cardinality(CellsAt(FromBits, l))
<1>1. /\ PartitionBits \in Nat /\ NodeBits \in 1..PartitionBits
      /\ input.size \in 1..PowerOfTwo[NodeBits] - 1
  BY NodesAssumption
<1>2. \A b \in 0..PartitionBits : PowerOfTwo[b] \in Nat
  BY PowersOfTwo DEF Positive
<1>3. PowerOfTwo[NodeBits] \in Nat /\ input.size \in Nat
  BY <1>1, <1>2
<1>4. c \in Nat /\ c <= input.size
  BY <1>3, CellsCounted
<1> HIDE DEF c
<1>5. c + 1 \in Nat /\ c + 1 <= PowerOfTwo[NodeBits]
  BY <1>1, <1>3, <1>4
<1>6. BitsFor(c + 1) \in 0..NodeBits /\ c + 1 <= PowerOfTwo[BitsFor(c + 1)]
  BY <1>5, BitsSuffice
<1>7. WidthOf(l) = BitsFor(c + 1)
  BY DEF WidthOf, c
<1>8. WidthOf(l) \in 0..NodeBits /\ c + 1 <= PowerOfTwo[WidthOf(l)]
  BY <1>6, <1>7
<1>9. WidthOf(l) \in 0..PartitionBits /\ PowerOfTwo[WidthOf(l)] \in Nat
  BY <1>1, <1>2, <1>8
<1>10. c < PowerOfTwo[WidthOf(l)]
  BY <1>4, <1>8, <1>9
<1> QED
  BY <1>3, <1>9, <1>10 DEF c

NoOffsets == <<0>>
AddsOffsets(f, S) ==
  /\ f \in [0..Len(MaxCellSizes) -> S] /\ f[0] = NoOffsets /\ f[Len(MaxCellSizes)] = LevelOffsets
  /\ \A i \in 1..Len(MaxCellSizes) : f[i] = Append(f[i - 1], Last(f[i - 1]) + WidthOf(i))

LEMMA LevelOffsetsRun ==
  ASSUME NEW S, NoOffsets \in S, Len(MaxCellSizes) \in Nat,
         \A s \in S, i \in 1..Len(MaxCellSizes) : Append(s, Last(s) + WidthOf(i)) \in S
  PROVE  \E f : AddsOffsets(f, S)
<1> DEFINE n == Len(MaxCellSizes)
           start == NoOffsets
           Op(s, i) == Append(s, Last(s) + WidthOf(i))
           IsLoop(x) == x = [i \in 0..n |-> IF i = 0 THEN start
                                           ELSE CHOOSE after \in {Op(s, i) : s \in {x[i - 1]}} : TRUE]
           f == CHOOSE x : IsLoop(x)
<1>1. LevelOffsets = f[n]
  BY DEF NoOffsets, LevelOffsets, WidthOf, CellsAt, FromBits, Iterate
<1>2. n \in Nat /\ start \in S /\ \A s \in S, i \in 1..n : Op(s, i) \in S
  OBVIOUS
<1> HIDE DEF n, Op, start
<1>3. \E x : IsLoop(x)
  <2> DEFINE F == [i \in 1..n |-> [s \in S |-> Op(s, i)]]
  <2>1. PICK run : Runs(run, n, S, start, F)
    <3>1. F \in [1..n -> [S -> S]]
      BY <1>2
    <3> HIDE DEF F
    <3> QED
      BY <1>2, <3>1, LoopRuns, Zenon
  <2>2. \A i \in 1..n : run[i] = Op(run[i - 1], i)
    <3>1. \A i \in 1..n : run[i - 1] \in S
      BY <1>2, <2>1 DEF Runs
    <3> QED
      BY <2>1, <3>1 DEF Runs
  <2>3. IsLoop(run)
    BY <1>2, <2>1, <2>2 DEF Runs
  <2> QED
    BY <2>3
<1>4. IsLoop(f)
  <2> HIDE DEF IsLoop
  <2> QED
    BY <1>3
<1> HIDE DEF f
<1>5. f[0] = start /\ \A i \in 1..n : f[i] = Op(f[i - 1], i)
  BY <1>2, <1>4
<1>6. f \in [0..n -> S]
  <2>1. f = [i \in 0..n |-> f[i]]
    BY <1>4
  <2>2. f[0] \in S /\ \A i \in 1..n : f[i - 1] \in S => f[i] \in S
    BY <1>2, <1>5
  <2> QED
    BY <1>2, <2>1, <2>2, LoopStays
<1> QED
  BY <1>1, <1>5, <1>6 DEF n, Op, start, AddsOffsets

LEMMA OffsetsAre ==
  ASSUME input \in Inputs, Last(LevelOffsets) <= PartitionBits
  PROVE  Offsets(LevelOffsets, [l \in Levels |-> WidthOf(l)], Len(MaxCellSizes))
<1> DEFINE n == Len(MaxCellSizes)
           S == {o \in Seq(Nat) : Len(o) > 0}
<1>0. n \in Nat /\ Levels = 1..n
  BY LevelsAre
<1>1. \A l : WidthOf(l) \in Nat
  BY WidthsSuffice
<1>2. NoOffsets \in S
  BY DEF NoOffsets
<1>3. \A o \in S : Last(o) \in Nat
  BY DEF Last
<1>4. \A o \in S, i \in 1..n : Append(o, Last(o) + WidthOf(i)) \in S
  <2> SUFFICES ASSUME NEW o \in S, NEW i \in 1..n PROVE Append(o, Last(o) + WidthOf(i)) \in S
    OBVIOUS
  <2>1. PICK x \in Nat : x = Last(o) + WidthOf(i)
    BY <1>1, <1>3
  <2>2. Append(o, x) \in Seq(Nat) /\ Len(Append(o, x)) = Len(o) + 1
    BY <2>1
  <2> QED
    BY <2>1, <2>2
<1>5. PICK f : AddsOffsets(f, S)
  <2> HIDE DEF S
  <2> QED
    BY <1>0, <1>2, <1>4, LevelOffsetsRun, Zenon
<1>6. /\ f \in [0..n -> S] /\ f[0] = <<0>> /\ f[n] = LevelOffsets
      /\ \A i \in 1..n : f[i] = Append(f[i - 1], Last(f[i - 1]) + WidthOf(i))
  BY <1>5 DEF AddsOffsets, NoOffsets
<1> HIDE DEF n
<1> DEFINE Grown(o, i) == /\ Len(o) = i + 1 /\ o[1] = 0
                          /\ \A l \in 1..i : o[l + 1] = o[l] + WidthOf(l)
           Good == {i \in 0..n : Grown(f[i], i)}
<1>7. 0 \in Good
  <2>1. Len(f[0]) = 1 /\ f[0][1] = 0
    BY <1>6
  <2>2. 1..0 = {}
    OBVIOUS
  <2>3. Grown(f[0], 0)
    BY <2>1, <2>2
  <2> HIDE DEF Grown
  <2> QED
    BY <1>0, <2>3
<1>8. ASSUME NEW i \in 1..n, i - 1 \in Good PROVE i \in Good
  <2>1. i - 1 \in 0..n /\ f[i - 1] \in S
    BY <1>0, <1>6, SMTT(30)
  <2> PICK o : o = f[i - 1]
    OBVIOUS
  <2>2. o \in Seq(Nat) /\ Len(o) = i /\ o[1] = 0 /\ \A l \in 1..i - 1 : o[l + 1] = o[l] + WidthOf(l)
    BY <1>8, <2>1
  <2>3. PICK x \in Nat : x = o[i] + WidthOf(i)
    <3>1. o[i] \in Nat
      BY <2>2
    <3> QED
      BY <1>1, <3>1
  <2>4. f[i] = Append(o, x)
    BY <1>6, <2>2, <2>3 DEF Last
  <2>5. /\ Len(f[i]) = i + 1 /\ f[i][i + 1] = x /\ \A l \in 1..i : f[i][l] = o[l]
    BY <2>2, <2>3, <2>4
  <2>6. ASSUME NEW l \in 1..i PROVE f[i][l + 1] = f[i][l] + WidthOf(l)
    <3>1. CASE l = i
      BY <2>3, <2>5, <3>1
    <3>2. CASE l # i
      <4>1. l \in 1..i - 1 /\ l + 1 \in 1..i
        BY <3>2
      <4> QED
        BY <2>2, <2>5, <4>1
    <3> QED
      BY <3>1, <3>2
  <2>7. f[i][1] = 0
    BY <2>2, <2>5
  <2>8. Grown(f[i], i)
    BY <2>5, <2>6, <2>7
  <2> HIDE DEF Grown
  <2> QED
    BY <1>0, <2>8
<1>9. 0..n \subseteq Good
  <2> HIDE DEF Good
  <2> QED
    BY <1>0, <1>7, <1>8, Inducted
<1>10. Grown(f[n], n) /\ f[n] \in S
  <2>1. n \in 0..n
    BY <1>0
  <2> HIDE DEF Grown
  <2> QED
    BY <1>6, <1>9, <2>1
<1> DEFINE o == LevelOffsets
<1>11. o \in Seq(Nat) /\ Len(o) = n + 1 /\ o[1] = 0 /\ \A l \in 1..n : o[l + 1] = o[l] + WidthOf(l)
  BY <1>6, <1>10
<1> HIDE DEF o
<1>12. o \in [1..n + 1 -> Nat] /\ Last(o) = o[n + 1]
  <2>1. o \in [1..Len(o) -> Nat]
    BY <1>11
  <2>2. o \in [1..n + 1 -> Nat]
    BY <1>11, <2>1
  <2>3. Last(o) = o[n + 1]
    BY <1>11 DEF Last
  <2> QED
    BY <2>2, <2>3
<1>13. o[n + 1] <= PartitionBits
  BY <1>12 DEF o
<1>14. [l \in Levels |-> WidthOf(l)] \in [1..n -> Nat]
  BY <1>0, <1>1
<1>15. \A l \in 1..n : o[l + 1] = o[l] + [k \in Levels |-> WidthOf(k)][l]
  BY <1>0, <1>11
<1>16. Offsets(o, [l \in Levels |-> WidthOf(l)], n)
  BY <1>11, <1>12, <1>13, <1>14, <1>15 DEF Offsets
<1> QED
  BY <1>16 DEF o, n


PackedId(parts, node) ==
  Iterate(LAMBDA sum, l : sum + RenumberCells(parts)[l][node] * PowerOfTwo[LevelOffsets[l]], 0, Len(MaxCellSizes))

AddsCells(f, S, parts, node) ==
  /\ f \in [0..Len(MaxCellSizes) -> S] /\ f[0] = 0 /\ f[Len(MaxCellSizes)] = PackedId(parts, node)
  /\ \A i \in 1..Len(MaxCellSizes) : f[i] = f[i - 1] + RenumberCells(parts)[i][node] * PowerOfTwo[LevelOffsets[i]]

LEMMA PackedIdRuns ==
  ASSUME NEW parts, NEW node, NEW S, 0 \in S, Len(MaxCellSizes) \in Nat,
         \A s \in S, i \in 1..Len(MaxCellSizes) : s + RenumberCells(parts)[i][node] * PowerOfTwo[LevelOffsets[i]] \in S
  PROVE  \E f : AddsCells(f, S, parts, node)
<1> DEFINE n == Len(MaxCellSizes)
           Op(s, i) == s + RenumberCells(parts)[i][node] * PowerOfTwo[LevelOffsets[i]]
           IsLoop(x) == x = [i \in 0..n |-> IF i = 0 THEN 0
                                           ELSE CHOOSE after \in {Op(s, i) : s \in {x[i - 1]}} : TRUE]
           f == CHOOSE x : IsLoop(x)
<1>1. PackedId(parts, node) = f[n]
  BY DEF PackedId, Iterate
<1>2. n \in Nat /\ 0 \in S /\ \A s \in S, i \in 1..n : Op(s, i) \in S
  OBVIOUS
<1> HIDE DEF n, Op
<1>3. \E x : IsLoop(x)
  <2> DEFINE F == [i \in 1..n |-> [s \in S |-> Op(s, i)]]
  <2>1. PICK run : Runs(run, n, S, 0, F)
    <3>1. F \in [1..n -> [S -> S]]
      BY <1>2
    <3> HIDE DEF F
    <3> QED
      BY <1>2, <3>1, LoopRuns, Zenon
  <2>2. \A i \in 1..n : run[i] = Op(run[i - 1], i)
    <3>1. \A i \in 1..n : run[i - 1] \in S
      BY <1>2, <2>1 DEF Runs
    <3> QED
      BY <2>1, <3>1 DEF Runs
  <2>3. IsLoop(run)
    BY <1>2, <2>1, <2>2 DEF Runs
  <2> QED
    BY <2>3
<1>4. IsLoop(f)
  <2> HIDE DEF IsLoop
  <2> QED
    BY <1>3
<1> HIDE DEF f
<1>5. f[0] = 0 /\ \A i \in 1..n : f[i] = Op(f[i - 1], i)
  BY <1>2, <1>4
<1>6. f \in [0..n -> S]
  <2>1. f = [i \in 0..n |-> f[i]]
    BY <1>4
  <2>2. f[0] \in S /\ \A i \in 1..n : f[i - 1] \in S => f[i] \in S
    BY <1>2, <1>5
  <2> QED
    BY <1>2, <2>1, <2>2, LoopStays
<1> QED
  BY <1>1, <1>5, <1>6 DEF n, Op, AddsCells

LEMMA PackedAre ==
  ASSUME NEW parts, NEW n \in EdgeNodes
  PROVE  /\ InitializePartitionIDs(parts).offsets = LevelOffsets
         /\ InitializePartitionIDs(parts).ids[n] = PackedId(parts, n)
BY DEF InitializePartitionIDs, PackedId

(* The new number of a cell fits into the bits of its level. *)
LEMMA NewCellsFit ==
  ASSUME input \in Inputs, NEW parts \in Parts, NestedParts(parts), OldCells(parts, FromBits),
         NEW l \in Levels, NEW n \in EdgeNodes
  PROVE  RenumberCells(parts)[l][n] \in 0..PowerOfTwo[WidthOf(l)] - 1
<1> DEFINE new == RenumberCells(parts)[l][n]
           few == Cardinality(CellsAt(parts, l))
           all == Cardinality(CellsAt(FromBits, l))
           room == PowerOfTwo[WidthOf(l)]
<1>1. input.size \in Nat /\ all < room /\ WidthOf(l) \in 0..PartitionBits
  BY WidthsSuffice
<1>2. new \in Nat /\ new <= few
  BY <1>1, NewCellsFew DEF CellsAt
<1>3. few \in Nat /\ all \in Nat /\ IsFiniteSet(CellsAt(FromBits, l))
  BY <1>1, CellsCounted
<1>4. few <= all
  <2>1. CellsAt(parts, l) \subseteq CellsAt(FromBits, l)
    BY DEF CellsAt, OldCells
  <2> QED
    BY <1>3, <2>1, FS_Subset
<1>5. room \in Nat
  BY <1>1, PowersOfTwo DEF Positive
<1> HIDE DEF new, few, all, room
<1>6. new \in 0..room - 1
  BY <1>1, <1>2, <1>3, <1>4, <1>5
<1> QED
  BY <1>6 DEF new, room

(* What is read of a packed integer at a level is the new number of the cell. *)
LEMMA CellRead ==
  ASSUME input \in Inputs, Last(LevelOffsets) <= PartitionBits,
         NEW parts \in Parts, NestedParts(parts), OldCells(parts, FromBits),
         NEW l \in Levels, NEW n \in EdgeNodes
  PROVE  GetCell(InitializePartitionIDs(parts), l, n) = RenumberCells(parts)[l][n]
<1> DEFINE o == LevelOffsets
           w == [k \in Levels |-> WidthOf(k)]
           v == [k \in Levels |-> RenumberCells(parts)[k][n]]
<1> PICK m \in Nat : m = Len(MaxCellSizes) /\ Levels = 1..m
  BY LevelsAre
<1>1. Offsets(o, w, m)
  BY OffsetsAre
<1>2. \A k \in 1..m : v[k] \in 0..PowerOfTwo[w[k]] - 1
  BY NewCellsFit
<1>3. \A k \in 1..m : PowerOfTwo[o[k]] \in Nat
  <2> HIDE DEF o, w
  <2> QED
    BY <1>1, OffsetsPower DEF Positive
<1>4. PICK s : AddsCells(s, Nat, parts, n)
  <2>1. \A x \in Nat, i \in 1..m : x + RenumberCells(parts)[i][n] * PowerOfTwo[LevelOffsets[i]] \in Nat
    <3> SUFFICES ASSUME NEW x \in Nat, NEW i \in 1..m
                 PROVE  x + RenumberCells(parts)[i][n] * PowerOfTwo[LevelOffsets[i]] \in Nat
      OBVIOUS
    <3>1. PICK y \in Nat : y = RenumberCells(parts)[i][n]
      BY WidthsSuffice, NewCellsFew
    <3>2. PICK p \in Nat : p = PowerOfTwo[LevelOffsets[i]]
      BY <1>3
    <3>3. x + y * p \in Nat
      OBVIOUS
    <3> QED
      BY <3>1, <3>2, <3>3
  <2>2. 0 \in Nat
    OBVIOUS
  <2> QED
    BY <2>1, <2>2, PackedIdRuns, Zenon
<1>5. /\ s \in [0..m -> Nat] /\ s[0] = 0 /\ s[m] = PackedId(parts, n)
      /\ \A k \in 1..m : s[k] = s[k - 1] + v[k] * PowerOfTwo[o[k]]
  BY <1>4 DEF AddsCells
<1>6. Packs(s, v, o, w, m)
  <2> HIDE DEF o, w, v
  <2> QED
    BY <1>2, <1>5 DEF Packs
<1>7. Middle(s[m], PowerOfTwo[o[l]], PowerOfTwo[w[l]]) = v[l]
  <2> HIDE DEF o, w, v
  <2> QED
    BY <1>1, <1>6, PackedRead
<1>8. o[l + 1] - o[l] = w[l]
  <2> HIDE DEF o, w
  <2>1. o[l + 1] = o[l] + w[l] /\ o[l] \in Nat /\ w[l] \in Nat
    BY <1>1 DEF Offsets
  <2> QED
    BY <2>1
<1>9. GetCell(InitializePartitionIDs(parts), l, n) = Middle(s[m], PowerOfTwo[o[l]], PowerOfTwo[o[l + 1] - o[l]])
  BY <1>5, PackedAre DEF GetCell, Middle
<1> QED
  BY <1>7, <1>8, <1>9

LEMMA PackedNested ==
  ASSUME input \in Inputs, Last(LevelOffsets) <= PartitionBits,
         NEW parts \in Parts, NestedParts(parts), OldCells(parts, FromBits),
         NEW a \in EdgeNodes, NEW b \in EdgeNodes, NEW l \in 1..Len(MaxCellSizes) - 1,
         GetCell(InitializePartitionIDs(parts), l, a) = GetCell(InitializePartitionIDs(parts), l, b)
  PROVE  GetCell(InitializePartitionIDs(parts), l + 1, a) = GetCell(InitializePartitionIDs(parts), l + 1, b)
<1>1. l \in Levels /\ l + 1 \in Levels
  BY LevelsAre
<1>2. input.size \in Nat
  BY WidthsSuffice
<1>3. RenumberCells(parts)[l][a] = RenumberCells(parts)[l][b]
  BY <1>1, CellRead
<1>4. RenumberCells(parts)[l + 1][a] = RenumberCells(parts)[l + 1][b]
  BY <1>2, <1>3, NewCellsNested
<1> QED
  BY <1>1, <1>4, CellRead

(***************************************************************************)
(* The invariant of the preparation.                                       *)
(***************************************************************************)

NestedPacked == \A a, b \in EdgeNodes : \A l \in 1..Len(MaxCellSizes) - 1 :
                   GetCell(mlp, l, a) = GetCell(mlp, l, b) => GetCell(mlp, l + 1, a) = GetCell(mlp, l + 1, b)
NestedSoFar == partitions \in Parts /\ NestedParts(partitions) /\ OldCells(partitions, FromBits)
NestingInv ==
  /\ input \in Inputs
  /\ stage \in {"components", "bisect", "cells"} => GraphLeads
  /\ stage \in {"cells", "renumber", "overlay"} => NestedSoFar
  /\ stage \in {"customize", "done"} => NestedPacked

(* The partition from the bits, by the input and the bits. *)
NodesIn(i) == 0..i.size - 1
NodeBitsOf(i, bits) ==
  [e \in NodesIn(i) |->
      LET s == CHOOSE r \in i.streets : e \in {r.forward, r.backward}
      IN bits[IF e = s.forward THEN s.from ELSE s.to]]
PartsOf(i, bits) ==
  IterateOver(LAMBDA acc, l : [cells  |-> PartitionLevel(NodeBitsOf(i, bits), MaxCellSizes[l], acc.cells),
                               levels |-> <<[e \in NodesIn(i) |->
                                   (CHOOSE k \in DOMAIN PartitionLevel(NodeBitsOf(i, bits), MaxCellSizes[l], acc.cells) :
                                       e \in PartitionLevel(NodeBitsOf(i, bits), MaxCellSizes[l], acc.cells)[k].nodes) - 1]>>
                                 \o acc.levels],
              [cells |-> <<[nodes |-> NodesIn(i), bit |-> BisectionBits - 1, tabu |-> FALSE]>>, levels |-> <<>>],
              Reverse([l \in Levels |-> l])).levels

KnownParts == FromBits = PartsOf(input, bisectionIds)

LEMMA PartsKnown == KnownParts
BY DEF KnownParts, FromBits, BisectionToPartition, EdgeBisectionIds, CellsToPartition, EdgeNodes, PartsOf, NodeBitsOf, NodesIn

LEMMA PartsKnownNext == KnownParts'
BY PartsKnown, PTL

LEMMA FromBitsStay ==
  ASSUME UNCHANGED <<input, bisectionIds>>
  PROVE  FromBits' = FromBits /\ EdgeNodes' = EdgeNodes
<1>1. FromBits = PartsOf(input, bisectionIds)
  BY PartsKnown DEF KnownParts
<1>2. FromBits' = PartsOf(input', bisectionIds')
  BY PartsKnownNext DEF KnownParts
<1>3. EdgeNodes' = EdgeNodes
  BY DEF EdgeNodes
<1> QED
  BY <1>1, <1>2, <1>3

(* What is said of the nodes, of parts of them and of the graph stays with the input. *)
LEMMA NestedStays ==
  ASSUME UNCHANGED <<input, bisectionIds>>,
         partitions' \in Parts, NestedParts(partitions'), OldCells(partitions', FromBits)
  PROVE  NestedSoFar'
<1>1. FromBits' = FromBits /\ EdgeNodes' = EdgeNodes
  BY FromBitsStay
<1>2. Parts' = Parts
  BY <1>1 DEF Parts, Levels
<1> QED
  BY <1>1, <1>2 DEF NestedSoFar, NestedParts, OldCells, Levels

LEMMA LeadingStays ==
  ASSUME UNCHANGED <<input, graph>>, GraphLeads
  PROVE  GraphLeads'
<1>1. EdgeNodes' = EdgeNodes
  BY DEF EdgeNodes
<1> QED
  BY <1>1 DEF GraphLeads, LeadsToNodes

LEMMA SizesAre ==
  ASSUME input \in Inputs
  PROVE  input.size \in Nat
BY WidthsSuffice

LEMMA NestingStarts ==
  ASSUME MultiLevelInit
  PROVE  NestingInv
<1>1. input \in Inputs /\ stage = "components" /\ graph = LoadEdgeBasedGraph(input.turns, input.size)
  BY DEF MultiLevelInit, PartitioningInit
<1>2. GraphLeads
  BY <1>1, SizesAre, GraphLeadsToNodes DEF GraphLeads
<1> QED
  BY <1>1, <1>2 DEF NestingInv

LEMMA BisectingKeepsNesting ==
  ASSUME NestingInv, PrePartitionWithSCC \/ \E view \in forest : Bisect(view)
  PROVE  NestingInv'
<1>1. /\ stage \in {"components", "bisect"} /\ stage' = "bisect"
      /\ UNCHANGED <<input, graph>>
  BY DEF PrePartitionWithSCC, Bisect
<1>2. GraphLeads'
  BY <1>1, LeadingStays DEF NestingInv
<1> QED
  BY <1>1, <1>2 DEF NestingInv

LEMMA MakingKeepsNesting ==
  ASSUME NestingInv, MakePartition
  PROVE  NestingInv'
<1>1. /\ stage = "bisect" /\ stage' = "cells" /\ partitions' = FromBits
      /\ UNCHANGED <<input, graph, bisectionIds>>
  BY DEF MakePartition, FromBits
<1>2. GraphLeads'
  BY <1>1, LeadingStays DEF NestingInv
<1>3. FromBits \in Parts /\ NestedParts(FromBits)
  BY PartitionIsNested DEF FromBits
<1>4. OldCells(FromBits, FromBits)
  BY DEF OldCells
<1>5. NestedSoFar'
  BY <1>1, <1>3, <1>4, NestedStays
<1> QED
  BY <1>1, <1>2, <1>5 DEF NestingInv

LEMMA FixingKeepsNesting ==
  ASSUME NestingInv, RemoveUnconnectedBoundaryNodes
  PROVE  NestingInv'
<1>1. /\ stage = "cells" /\ stage' = "renumber" /\ partitions' = FixLevels(partitions)
      /\ UNCHANGED <<input, graph, bisectionIds>>
  BY DEF RemoveUnconnectedBoundaryNodes, FixLevels, FixLevel, TopDown
<1>2. GraphLeads /\ NestedSoFar /\ input.size \in Nat
  BY <1>1, SizesAre DEF NestingInv
<1>3. partitions' \in Parts /\ NestedParts(partitions') /\ OldCells(partitions', FromBits)
  BY <1>1, <1>2, FixesKeep DEF NestedSoFar
<1>4. NestedSoFar'
  BY <1>1, <1>3, NestedStays
<1> QED
  BY <1>1, <1>4 DEF NestingInv

LEMMA RenumberingKeepsNesting ==
  ASSUME NestingInv, Renumber
  PROVE  NestingInv'
<1>1. /\ stage = "renumber" /\ stage' = "overlay" /\ permutation' = MakePermutation
      /\ partitions' = [l \in Levels |-> [n \in EdgeNodes |->
                           partitions[l][CHOOSE m \in EdgeNodes : permutation'[m] = n]]]
      /\ UNCHANGED <<input, bisectionIds>>
  BY DEF Renumber
<1>2. NestedSoFar /\ input.size \in Nat
  BY <1>1, SizesAre DEF NestingInv
<1>3. \A c \in EdgeNodes : \E m \in EdgeNodes : permutation'[m] = c
  BY <1>1, <1>2, Permutes DEF NestedSoFar
<1>4. partitions' \in Parts /\ NestedParts(partitions') /\ OldCells(partitions', FromBits)
  <2> DEFINE new == [l \in Levels |-> [n \in EdgeNodes |->
                       partitions[l][CHOOSE m \in EdgeNodes : permutation'[m] = n]]]
  <2>1. new \in Parts /\ NestedParts(new) /\ OldCells(new, FromBits)
    BY <1>2, <1>3, RenumberedNested DEF NestedSoFar
  <2>2. partitions' = new
    BY <1>1
  <2> HIDE DEF new
  <2> QED
    BY <2>1, <2>2
<1>5. NestedSoFar'
  BY <1>1, <1>4, NestedStays
<1> QED
  BY <1>1, <1>5 DEF NestingInv

LEMMA PackingKeepsNesting ==
  ASSUME NestingInv, MakeOverlay
  PROVE  NestingInv'
<1>1. /\ stage = "overlay" /\ stage' = "customize" /\ mlp' = InitializePartitionIDs(partitions)
      /\ Last(LevelOffsets) <= PartitionBits /\ UNCHANGED input
  BY DEF MakeOverlay
<1>2. input \in Inputs /\ NestedSoFar
  BY <1>1 DEF NestingInv
<1>3. EdgeNodes' = EdgeNodes
  BY <1>1 DEF EdgeNodes
<1>4. \A a, b \in EdgeNodes : \A l \in 1..Len(MaxCellSizes) - 1 :
          GetCell(mlp', l, a) = GetCell(mlp', l, b) => GetCell(mlp', l + 1, a) = GetCell(mlp', l + 1, b)
  BY <1>1, <1>2, PackedNested DEF NestedSoFar
<1>5. NestedPacked'
  BY <1>3, <1>4 DEF NestedPacked, GetCell
<1> QED
  BY <1>1, <1>2, <1>5 DEF NestingInv

LEMMA CustomizingKeepsNesting ==
  ASSUME NestingInv, stage \in {"customize", "done"}, stage' \in {"customize", "done"}, UNCHANGED <<input, mlp>>
  PROVE  NestingInv'
<1>1. EdgeNodes' = EdgeNodes
  BY DEF EdgeNodes
<1>2. NestedPacked
  BY DEF NestingInv
<1>3. NestedPacked'
  BY <1>1, <1>2 DEF NestedPacked, GetCell
<1> QED
  BY <1>3 DEF NestingInv

LEMMA NestingKept ==
  ASSUME NestingInv, [MultiLevelNext]_multiLevelVars
  PROVE  NestingInv'
<1>1. CASE UNCHANGED multiLevelVars
  <2>1. UNCHANGED <<input, stage, graph, partitions, bisectionIds, mlp>>
    BY <1>1 DEF multiLevelVars, pvars, mvars
  <2>2. CASE stage \in {"components", "bisect"}
    BY <2>1, <2>2, LeadingStays DEF NestingInv
  <2>3. CASE stage \in {"cells", "renumber", "overlay"}
    <3>1. NestedSoFar'
      BY <2>1, <2>3, NestedStays DEF NestingInv, NestedSoFar
    <3> QED
      BY <2>1, <2>3, <3>1, LeadingStays DEF NestingInv
  <2>4. CASE stage \in {"customize", "done"}
    BY <2>1, <2>4, CustomizingKeepsNesting
  <2>5. CASE stage \notin {"components", "bisect", "cells", "renumber", "overlay", "customize", "done"}
    BY <2>1, <2>5 DEF NestingInv
  <2> QED
    BY <2>2, <2>3, <2>4, <2>5
<1>2. CASE PrePartitionWithSCC \/ \E view \in forest : Bisect(view)
  BY <1>2, BisectingKeepsNesting
<1>3. CASE MakePartition
  BY <1>3, MakingKeepsNesting
<1>4. CASE RemoveUnconnectedBoundaryNodes
  BY <1>4, FixingKeepsNesting
<1>5. CASE Renumber
  BY <1>5, RenumberingKeepsNesting
<1>6. CASE MakeOverlay
  BY <1>6, PackingKeepsNesting
<1>7. CASE \E c \in todo : CustomizeCell(c)
  <2>1. stage = "customize" /\ stage' = stage /\ UNCHANGED <<input, mlp>>
    BY <1>7 DEF CustomizeCell, pvars
  <2> QED
    BY <2>1, CustomizingKeepsNesting
<1>8. CASE NextLevel
  <2>1. stage = "customize" /\ stage' \in {"customize", "done"} /\ UNCHANGED <<input, mlp>>
    BY <1>8 DEF NextLevel
  <2> QED
    BY <2>1, CustomizingKeepsNesting
<1>9. CASE Done
  BY <1>1, <1>9 DEF Done
<1> QED
  BY <1>1, <1>2, <1>3, <1>4, <1>5, <1>6, <1>7, <1>8, <1>9 DEF MultiLevelNext, PartitioningNext

LEMMA NestingImplies ==
  ASSUME NestingInv
  PROVE  PartitionNested
BY DEF NestingInv, NestedSoFar, NestedParts, NestedPacked, PartitionNested

(* PartitionNested: whatever the streets, the bisection and the sizes of the cells, two nodes *)
(* in one cell are in one cell of the level above, through the moves of border nodes, the new *)
(* numbers and the packing into bits that osrm-customize and the queries read.                *)
THEOREM CellsAreNested == MultiLevelSpec => []PartitionNested
<1>1. MultiLevelInit => NestingInv
  BY NestingStarts
<1>2. NestingInv /\ [MultiLevelNext]_multiLevelVars => NestingInv'
  BY NestingKept
<1>3. NestingInv => PartitionNested
  BY NestingImplies
<1> QED
  BY <1>1, <1>2, <1>3, PTL DEF MultiLevelSpec
==============================================================================
