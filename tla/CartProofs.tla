------------------------------ MODULE CartProofs ------------------------------
(***************************************************************************)
(* Proofs about Cart, for any number of customers, variants, requests and  *)
(* changes by the sellers: its type, that interleaved requests lose no     *)
(* item and write no other item's place, and that customers who make one   *)
(* request at a time never hold a variant twice.                           *)
(***************************************************************************)
EXTENDS Cart, SequenceTheorems, WellFoundedInduction, TLAPS

-----------------------------------------------------------------------------
(* Positions, removals and merged fields.                                   *)
LEMMA LeastNatural ==
  ASSUME NEW S \in SUBSET Nat, S # {}
  PROVE  Min(S) \in S
<1>1. \E x \in S : \A y \in S : ~(y < x)
  <2>1. \E x \in S : \A y \in S : ~(<<y, x>> \in OpToRel(<, Nat))
    BY NatLessThanWellFounded, WFMin
  <2>2. \A x, y \in S : y < x => <<y, x>> \in OpToRel(<, Nat)
    BY Zenon DEF OpToRel
  <2> QED
    BY <2>1, <2>2, Zenon
<1>2. \E x \in S : \A y \in S : x <= y
  BY <1>1
<1> QED
  BY <1>2, Zenon DEF Min

LEMMA PositionFinds ==
  ASSUME NEW items \in Seq(ItemDoc), NEW v
  PROVE  /\ Position(items, v) \in 0..Len(items)
         /\ Position(items, v) > 0 => items[Position(items, v)].variant = v
         /\ Position(items, v) = 0 => \A k \in 1..Len(items) : items[k].variant # v
<1> DEFINE S == {i \in 1..Len(items) : items[i].variant = v}
<1>1. Position(items, v) = IF S # {} THEN Min(S) ELSE 0
  BY DEF Position, SelectInSeq
<1>2. S \in SUBSET Nat /\ Len(items) \in Nat
  OBVIOUS
<1>3. S # {} => Min(S) \in S
  BY <1>2, LeastNatural
<1> QED
  BY <1>1, <1>2, <1>3

LEMMA RemoveAtKeeps ==
  ASSUME NEW items \in Seq(ItemDoc), NEW i \in 1..Len(items)
  PROVE  /\ RemoveAt(items, i) \in Seq(ItemDoc)
         /\ Len(RemoveAt(items, i)) = Len(items) - 1
         /\ \A k \in 1..Len(items) - 1 :
              RemoveAt(items, i)[k] = IF k < i THEN items[k] ELSE items[k + 1]
<1> DEFINE a == SubSeq(items, 1, i - 1)
           b == SubSeq(items, i + 1, Len(items))
<1>1. a \in Seq(ItemDoc) /\ Len(a) = i - 1 /\ \A k \in 1..i - 1 : a[k] = items[k]
  OBVIOUS
<1>2. b \in Seq(ItemDoc) /\ Len(b) = Len(items) - i /\ \A k \in 1..Len(items) - i : b[k] = items[k + i]
  OBVIOUS
<1>3. RemoveAt(items, i) = a \o b
  BY DEF RemoveAt
<1> HIDE DEF a, b
<1>4. /\ a \o b \in Seq(ItemDoc) /\ Len(a \o b) = Len(a) + Len(b)
      /\ \A k \in 1..Len(a) + Len(b) : (a \o b)[k] = IF k <= Len(a) THEN a[k] ELSE b[k - Len(a)]
  BY <1>1, <1>2, ConcatProperties
<1> QED
  BY <1>1, <1>2, <1>3, <1>4

LEMMA MergeFields ==
  ASSUME NEW a \in ItemDoc, NEW b \in ItemDoc, NEW S \in SUBSET Fields
  PROVE  LET m == [f \in Fields |-> IF f \in S THEN a[f] ELSE b[f]] IN
         /\ "variant" \notin S => m \in ItemDoc /\ m.variant = b.variant
         /\ S = {} => m = b
<1> DEFINE m == [f \in Fields |-> IF f \in S THEN a[f] ELSE b[f]]
<1>1. "variant" \notin S => m \in ItemDoc /\ m.variant = b.variant
  BY DEF ItemDoc, Fields
<1>2. S = {} => m = b
  BY DEF ItemDoc, Fields
<1> QED
  BY <1>1, <1>2

-----------------------------------------------------------------------------
(* The inductive invariants.                                                *)
(* The items of a cart name each variant once.                              *)
Distinct(items) ==
  \A j, k \in DOMAIN items : items[j].variant = items[k].variant => j = k
SameVariants(a, b) ==
  Len(a) = Len(b) /\ \A k \in 1..Len(a) : a[k].variant = b[k].variant

(* What a request read: unless a push or a removal raised the version, the  *)
(* cart still holds the variants it held, each in its place.                *)
ReadIsOld(r) == cartReq[r].doc # None =>
  /\ cart[cartReq[r].user] # None
  /\ cartReq[r].doc.version <= cart[cartReq[r].user].version
  /\ SameVersion(cart[cartReq[r].user], cartReq[r].doc)
       => SameVariants(cart[cartReq[r].user].items, cartReq[r].doc.items)

(* What a getCart has made of it: it dropped only what was off sale.        *)
Follows(new, old, gone) ==
  /\ Len(new) <= Len(old)
  /\ Len(new) = Len(old) => SameVariants(new, old)
  /\ \A k \in 1..Len(old) : \/ old[k].variant \in gone
                            \/ \E j \in 1..Len(new) : new[j].variant = old[k].variant
GetsOwn(r) == cartReq[r].pc \in {"getItem", "getSave"} =>
  /\ cartReq[r].doc # None
  /\ Follows(cartReq[r].items, cartReq[r].doc.items, wasGone)
  /\ cartReq[r].pc = "getItem" => cartReq[r].i \in 1..Len(cartReq[r].items)

OffSaleWasGone == \A v \in Variants : shop[v].condition # "onSale" => v \in wasGone

VersionInv == /\ CartTypeOK /\ OffSaleWasGone
              /\ \A r \in CartRequests : ReadIsOld(r) /\ GetsOwn(r)

(* A customer with one request at a time: it sees the cart as it is.        *)
AloneSees(r) == cartReq[r].user \in Customers \ cartOverlapped =>
  /\ \A q \in CartRequests : cartReq[q].user = cartReq[r].user => q = r
  /\ cartReq[r].pc = "save" => cartReq[r].doc = cart[cartReq[r].user]
  /\ cartReq[r].pc \in {"getItem", "getSave"} =>
       Distinct(cartReq[r].items) /\ cartReq[r].doc = cart[cartReq[r].user]

AloneInv == VersionInv /\ OneItemPerVariant /\ \A r \in CartRequests : AloneSees(r)

-----------------------------------------------------------------------------
SameItems(new, old) ==
  new \in CartDoc /\ new.version = old.version /\ SameVariants(new.items, old.items)
ChangedByMine(new, old, read, mine) ==
  \A k \in 1..Len(old.items) :
    new.items[k] = old.items[k] \/ (k \in 1..Len(mine) /\ mine[k] # read.items[k])

(* A write of single fields keeps every element's variant and changes only  *)
(* the elements the request changed.                                        *)
LEMMA SetFieldsKeeps ==
  ASSUME NEW stored \in CartDoc, NEW read \in CartDoc, NEW mine \in Seq(ItemDoc), NEW p \in Int,
         SameVariants(mine, read.items)
  PROVE  /\ SameItems(SetFields(stored, read, mine, p), stored)
         /\ ChangedByMine(SetFields(stored, read, mine, p), stored, read, mine)
<1> DEFINE S(k) == IF k \in DOMAIN mine THEN {f \in Fields : mine[k][f] # read.items[k][f]} ELSE {}
           M(k) == [f \in Fields |-> IF f \in S(k) THEN mine[k][f] ELSE stored.items[k][f]]
           new == [k \in DOMAIN stored.items |-> M(k)]
<1>1. /\ stored.items \in Seq(ItemDoc) /\ stored.version \in Nat /\ read.items \in Seq(ItemDoc)
      /\ Len(mine) = Len(read.items)
      /\ \A k \in 1..Len(mine) : mine[k].variant = read.items[k].variant
  BY DEF CartDoc, SameVariants
<1>2. SetFields(stored, read, mine, p) = [stored EXCEPT !.payable = p, !.items = new]
  <2>1. \A k \in DOMAIN stored.items :
          [f \in Fields |-> IF k \in DOMAIN mine /\ f \in Sent(read.items, mine)[k]
                            THEN mine[k][f] ELSE stored.items[k][f]] = M(k)
    BY DEF Sent
  <2>2. [k \in DOMAIN stored.items |->
          [f \in Fields |-> IF k \in DOMAIN mine /\ f \in Sent(read.items, mine)[k]
                            THEN mine[k][f] ELSE stored.items[k][f]]] = new
    BY <2>1
  <2> HIDE DEF new
  <2> QED
    BY <2>2 DEF SetFields, CartDoc
<1>3. ASSUME NEW k \in 1..Len(stored.items)
      PROVE  /\ M(k) \in ItemDoc /\ M(k).variant = stored.items[k].variant
             /\ M(k) = stored.items[k] \/ (k \in 1..Len(mine) /\ mine[k] # read.items[k])
  <2>1. stored.items[k] \in ItemDoc
    BY <1>1
  <2>2. CASE k \in 1..Len(mine)
    <3>1. mine[k] \in ItemDoc /\ mine[k].variant = read.items[k].variant
      BY <1>1, <2>2
    <3>2. S(k) \in SUBSET Fields /\ "variant" \notin S(k)
      BY <2>2, <3>1
    <3>3. mine[k] = read.items[k] => S(k) = {}
      BY <2>2
    <3> HIDE DEF S
    <3> QED
      BY <2>1, <2>2, <3>1, <3>2, <3>3, MergeFields
  <2>3. CASE k \notin 1..Len(mine)
    <3>1. S(k) = {}
      BY <2>3
    <3> HIDE DEF S
    <3>2. M(k) = [f \in Fields |-> IF f \in {} THEN stored.items[k][f] ELSE stored.items[k][f]]
      BY <3>1
    <3> QED
      BY <2>1, <3>2, MergeFields
  <2> QED
    BY <2>2, <2>3
<1>4. /\ new \in Seq(ItemDoc) /\ Len(new) = Len(stored.items)
      /\ \A k \in 1..Len(stored.items) : new[k] = M(k)
  <2> HIDE DEF M
  <2>1. DOMAIN stored.items = 1..Len(stored.items) /\ Len(stored.items) \in Nat
    BY <1>1
  <2>2. new \in [1..Len(stored.items) -> ItemDoc]
    BY <1>3, <2>1
  <2> QED
    BY <2>1, <2>2
<1> HIDE DEF new, M
<1>5. /\ [stored EXCEPT !.payable = p, !.items = new] \in CartDoc
      /\ [stored EXCEPT !.payable = p, !.items = new].version = stored.version
      /\ [stored EXCEPT !.payable = p, !.items = new].items = new
  BY <1>4 DEF CartDoc
<1> QED
  BY <1>2, <1>3, <1>4, <1>5 DEF SameVariants, SameItems, ChangedByMine

-----------------------------------------------------------------------------
(* What the two saves do to the cart of their customer.                     *)
LEMMA ItemTyped ==
  ASSUME NEW v \in Variants, NEW q \in Nat, NEW d \in Nat, NEW n \in Nat
  PROVE  Item(v, q, d, n) \in ItemDoc /\ Item(v, q, d, n).variant = v
<1>1. Price[v] \in Nat
  BY CartConstants
<1>2. Price[v] * q - n * d \in Int
  BY <1>1
<1> QED
  BY <1>2 DEF Item, ItemDoc

LEMMA SaveAddDoes ==
  ASSUME VersionInv, NEW r \in CartRequests, SaveAdd(r), NEW u \in Customers, u = cartReq[r].user
  PROVE  /\ \A w \in Customers : w # u => cart'[w] = cart[w]
         /\ \/ cart'[u] = cart[u]
            \/ /\ cart[u] = None /\ cartReq[r].doc = None
               /\ \E item \in ItemDoc : cart'[u] = NewDoc(item)
            \/ /\ cartReq[r].doc # None /\ cart[u] \in CartDoc
               /\ Position(cartReq[r].doc.items, cartReq[r].variant) = 0
               /\ \E item \in ItemDoc : /\ item.variant = cartReq[r].variant
                                        /\ cart'[u] = Push(cart[u], item)
            \/ /\ cart[u] \in CartDoc /\ SameItems(cart'[u], cart[u])
               /\ \A k \in 1..Len(cart[u].items) :
                    \/ cart'[u].items[k] = cart[u].items[k]
                    \/ cart[u].items[k].variant = cartReq[r].variant
<1> DEFINE v == cartReq[r].variant
           doc == cartReq[r].doc
           item == Item(v, cartReq[r].quantity, cartReq[r].discount, cartReq[r].discountQuantity)
           mine == [doc.items EXCEPT ![Position(doc.items, v)] = item]
<1>1. /\ CartTypeOK /\ ReadIsOld(r) /\ cartReq[r] \in CartRequest /\ cartReq[r].pc = "save"
      /\ v \in Variants /\ cart[u] \in CartDoc \cup {None}
  BY DEF VersionInv, SaveAdd, CartTypeOK
<1>2. item \in ItemDoc /\ item.variant = v
  BY <1>1, ItemTyped DEF CartRequest
<1>3. CASE doc = None /\ cart' = IF cart[u] = None THEN [cart EXCEPT ![u] = NewDoc(item)] ELSE cart
  <2> HIDE DEF item
  <2> QED
    BY <1>1, <1>2, <1>3 DEF CartTypeOK
<1>4. CASE doc # None /\ Position(doc.items, v) = 0 /\ cart' = [cart EXCEPT ![u] = Push(@, item)]
  <2>1. cart[u] \in CartDoc
    BY <1>1, <1>4 DEF ReadIsOld
  <2>2. cart'[u] = Push(cart[u], item) /\ \A w \in Customers : w # u => cart'[w] = cart[w]
    BY <1>1, <1>4 DEF CartTypeOK
  <2> HIDE DEF item
  <2> QED
    BY <1>2, <1>4, <2>1, <2>2
<1>5. CASE /\ doc # None /\ Position(doc.items, v) > 0 /\ SameVersion(cart[u], doc)
           /\ cart' = [cart EXCEPT ![u] = SetFields(@, doc, mine, @.payable)]
  <2>1. doc \in CartDoc /\ doc.items \in Seq(ItemDoc)
    BY <1>1, <1>5 DEF CartRequest, CartDoc
  <2>2. cart[u] \in CartDoc /\ SameVariants(cart[u].items, doc.items)
    BY <1>1, <1>5 DEF ReadIsOld
  <2>3. PICK i \in 1..Len(doc.items) : i = Position(doc.items, v) /\ doc.items[i].variant = v
    BY <1>5, <2>1, PositionFinds
  <2>4. /\ mine \in Seq(ItemDoc) /\ Len(mine) = Len(doc.items)
        /\ mine[i] = item /\ \A k \in 1..Len(doc.items) : k # i => mine[k] = doc.items[k]
    <3> HIDE DEF item
    <3> QED
      BY <1>2, <2>1, <2>3
  <2>5. \A k \in 1..Len(mine) : mine[k].variant = doc.items[k].variant
    BY <1>2, <2>1, <2>3, <2>4
  <2>6. cart'[u] = SetFields(cart[u], doc, mine, cart[u].payable)
        /\ \A w \in Customers : w # u => cart'[w] = cart[w]
    BY <1>1, <1>5 DEF CartTypeOK
  <2>7. cart[u].payable \in Int /\ cart[u].items \in Seq(ItemDoc)
    BY <2>2 DEF CartDoc
  <2> HIDE DEF mine, item
  <2>8. /\ SameItems(cart'[u], cart[u])
        /\ \A k \in 1..Len(cart[u].items) :
             \/ cart'[u].items[k] = cart[u].items[k]
             \/ k \in 1..Len(mine) /\ mine[k] # doc.items[k]
    <3>1. SameVariants(mine, doc.items)
      BY <2>4, <2>5 DEF SameVariants
    <3>2. /\ SameItems(cart'[u], cart[u])
          /\ ChangedByMine(cart'[u], cart[u], doc, mine)
      BY <2>1, <2>2, <2>4, <2>6, <2>7, <3>1, SetFieldsKeeps
    <3> QED
      BY <3>2 DEF ChangedByMine
  <2>9. \A k \in 1..Len(mine) : mine[k] # doc.items[k] => cart[u].items[k].variant = v
    BY <2>1, <2>2, <2>3, <2>4, <2>7 DEF SameVariants
  <2> QED
    BY <2>2, <2>6, <2>8, <2>9
<1>6. CASE doc # None /\ Position(doc.items, v) > 0 /\ cart' = cart
  BY <1>6
<1> QED
  BY <1>3, <1>4, <1>5, <1>6 DEF SaveAdd

LEMMA SetListDoes ==
  ASSUME NEW stored \in CartDoc, NEW read, NEW mine \in Seq(ItemDoc), NEW p \in Int
  PROVE  /\ SetList(stored, read, mine, p) \in CartDoc
         /\ SetList(stored, read, mine, p).version = stored.version + 1
         /\ SetList(stored, read, mine, p).items = mine
<1>1. stored.version \in Nat /\ stored.version + 1 \in Nat
  BY DEF CartDoc
<1> DEFINE n == stored.version + 1
<1>2. n \in Nat
  BY <1>1
<1>3. SetList(stored, read, mine, p) = [stored EXCEPT !.items = mine, !.version = n, !.payable = p]
  BY DEF SetList
<1> HIDE DEF n
<1>4. /\ [stored EXCEPT !.items = mine, !.version = n, !.payable = p] \in CartDoc
      /\ [stored EXCEPT !.items = mine, !.version = n, !.payable = p].version = n
      /\ [stored EXCEPT !.items = mine, !.version = n, !.payable = p].items = mine
  BY <1>2 DEF CartDoc
<1> QED
  BY <1>3, <1>4 DEF n

LEMMA GetSaveDoes ==
  ASSUME VersionInv, NEW r \in CartRequests, GetSave(r), NEW u \in Customers, u = cartReq[r].user
  PROVE  /\ \A w \in Customers : w # u => cart'[w] = cart[w]
         /\ \/ cart'[u] = cart[u]
            \/ cart[u] \in CartDoc /\ SameItems(cart'[u], cart[u])
            \/ /\ cart[u] \in CartDoc /\ SameVersion(cart[u], cartReq[r].doc)
               /\ cart'[u] \in CartDoc /\ cart'[u].version = cart[u].version + 1
               /\ cart'[u].items = cartReq[r].items
<1> DEFINE doc == cartReq[r].doc
           mine == cartReq[r].items
           p == IF cartReq[r].payable # doc.payable THEN cartReq[r].payable ELSE cart[u].payable
<1>1. /\ CartTypeOK /\ ReadIsOld(r) /\ GetsOwn(r) /\ cartReq[r] \in CartRequest /\ cartReq[r].pc = "getSave"
  BY DEF VersionInv, GetSave, CartTypeOK
<1>2. /\ doc \in CartDoc /\ cart[u] \in CartDoc /\ mine \in Seq(ItemDoc) /\ p \in Int
      /\ doc.items \in Seq(ItemDoc) /\ cart[u].version \in Nat
  BY <1>1 DEF ReadIsOld, GetsOwn, CartRequest, CartTypeOK, CartDoc
<1>3. CASE cart' = cart
  BY <1>3
<1>4. CASE /\ Len(mine) < Len(doc.items) /\ SameVersion(cart[u], doc)
           /\ cart' = [cart EXCEPT ![u] = SetList(@, doc, mine, p)]
  <2>1. cart'[u] = SetList(cart[u], doc, mine, p) /\ \A w \in Customers : w # u => cart'[w] = cart[w]
    BY <1>1, <1>4 DEF CartTypeOK
  <2> HIDE DEF p, mine, doc
  <2>2. /\ SetList(cart[u], doc, mine, p) \in CartDoc
        /\ SetList(cart[u], doc, mine, p).version = cart[u].version + 1
        /\ SetList(cart[u], doc, mine, p).items = mine
    BY <1>2, SetListDoes
  <2> QED
    BY <1>2, <1>4, <2>1, <2>2 DEF doc, mine
<1>5. CASE /\ ~(Len(mine) < Len(doc.items))
           /\ cart' = [cart EXCEPT ![u] = SetFields(@, doc, mine, p)]
  <2>1. cart'[u] = SetFields(cart[u], doc, mine, p) /\ \A w \in Customers : w # u => cart'[w] = cart[w]
    BY <1>1, <1>5 DEF CartTypeOK
  <2>2. SameVariants(mine, doc.items)
    BY <1>1, <1>2, <1>5 DEF GetsOwn, Follows
  <2> HIDE DEF p, mine, doc
  <2>3. SameItems(cart'[u], cart[u])
    BY <1>2, <2>1, <2>2, SetFieldsKeeps
  <2> QED
    BY <1>2, <2>1, <2>3
<1> QED
  BY <1>3, <1>4, <1>5 DEF GetSave

-----------------------------------------------------------------------------
(* What each step does to the request that takes it.                        *)
Sound(q) ==
  /\ q \in CartRequest
  /\ q.pc # "idle" => q.user \in Customers
  /\ q.pc \in {"readProduct", "readOffer", "readCart", "save"} => q.variant \in Variants
  /\ q.pc \in {"idle", "readProduct", "readOffer", "readCart"} => q.doc = None

LEMMA NoRequestSound == Sound(NoCartRequest) /\ NoCartRequest.pc = "idle" /\ NoCartRequest.user = None
BY DEF Sound, NoCartRequest, CartRequest

Adding(u, v, n) ==
  [NoCartRequest EXCEPT !.pc = "readProduct", !.user = u, !.variant = v, !.quantity = n]
Getting(c, u, d, l) ==
  [NoCartRequest EXCEPT !.pc = c, !.user = u, !.doc = d, !.items = l, !.i = 1]

LEMMA CallSound ==
  ASSUME NEW u \in Customers, NEW v \in Variants, NEW n \in Nat
  PROVE  Sound(Adding(u, v, n)) /\ Adding(u, v, n).pc = "readProduct" /\ Adding(u, v, n).user = u
<1>1. NoCartRequest \in CartRequest /\ NoCartRequest.doc = None
  BY NoRequestSound DEF Sound
<1>2. /\ Adding(u, v, n) \in CartRequest /\ Adding(u, v, n).doc = None
      /\ Adding(u, v, n).pc = "readProduct" /\ Adding(u, v, n).user = u
      /\ Adding(u, v, n).variant = v
  BY <1>1 DEF CartRequest, Adding
<1> QED
  BY <1>2 DEF Sound

LEMMA GetSound ==
  ASSUME NEW u \in Customers, NEW c \in {"getItem", "getSave"}, NEW d \in CartDoc,
         NEW l \in Seq(ItemDoc)
  PROVE  /\ Sound(Getting(c, u, d, l)) /\ Getting(c, u, d, l).pc = c
         /\ Getting(c, u, d, l).user = u /\ Getting(c, u, d, l).doc = d
         /\ Getting(c, u, d, l).items = l /\ Getting(c, u, d, l).i = 1
<1>1. /\ Getting(c, u, d, l).pc = c /\ Getting(c, u, d, l).user = u
      /\ Getting(c, u, d, l).doc = d /\ Getting(c, u, d, l).items = l
      /\ Getting(c, u, d, l).i = 1
  BY DEF Getting, NoCartRequest
<1>2. Getting(c, u, d, l) \in CartRequest
  <2> DEFINE a == [NoCartRequest EXCEPT !.pc = c, !.user = u, !.doc = d]
  <2>1. NoCartRequest \in CartRequest
    BY NoRequestSound DEF Sound
  <2>2. a \in CartRequest
    BY <2>1 DEF CartRequest
  <2>3. Getting(c, u, d, l) = [a EXCEPT !.items = l, !.i = 1]
    BY DEF Getting
  <2> HIDE DEF a
  <2>4. [a EXCEPT !.items = l] \in CartRequest
    BY <2>2 DEF CartRequest
  <2> DEFINE b == [a EXCEPT !.items = l]
  <2> HIDE DEF b
  <2>5. [b EXCEPT !.i = 1] \in CartRequest
    BY <2>4 DEF CartRequest, b
  <2> QED
    BY <2>3, <2>5 DEF b
<1> QED
  BY <1>1, <1>2 DEF Sound

LEMMA ReadProductDoes ==
  ASSUME CartTypeOK, NEW r \in CartRequests, ReadVariant(r)
  PROVE  /\ \A q \in CartRequests : q # r => cartReq'[q] = cartReq[q]
         /\ cartReq'[r] = NoCartRequest
            \/ (/\ Sound(cartReq'[r]) /\ cartReq'[r].user = cartReq[r].user
                /\ cartReq'[r].pc \in {"readOffer", "readCart"})
<1> DEFINE p == shop[cartReq[r].variant]
           n == Least(p.stock, cartReq[r].quantity)
           c == IF HasOffer(cartReq[r].variant) THEN "readOffer" ELSE "readCart"
<1>1. /\ Sound(cartReq[r]) /\ cartReq[r].pc = "readProduct" /\ n \in Nat /\ c \in {"readOffer", "readCart"}
  BY DEF ReadVariant, CartTypeOK, Sound, CartRequest, Least
<1>2. CASE cartReq' = [cartReq EXCEPT ![r] = NoCartRequest]
  BY <1>2 DEF CartTypeOK
<1>3. CASE cartReq' = [cartReq EXCEPT ![r].quantity = n, ![r].pc = c]
  <2>1. /\ cartReq'[r] = [cartReq[r] EXCEPT !.quantity = n, !.pc = c]
        /\ \A q \in CartRequests : q # r => cartReq'[q] = cartReq[q]
    <3> HIDE DEF n, c
    <3> QED
      BY <1>3 DEF CartTypeOK
  <2> HIDE DEF n, c
  <2> QED
    BY <1>1, <2>1 DEF Sound, CartRequest
<1> QED
  BY <1>2, <1>3 DEF ReadVariant, CartDone

LEMMA ReadOfferDoes ==
  ASSUME CartTypeOK, NEW r \in CartRequests, ReadOffer(r)
  PROVE  /\ \A q \in CartRequests : q # r => cartReq'[q] = cartReq[q]
         /\ Sound(cartReq'[r]) /\ cartReq'[r].user = cartReq[r].user /\ cartReq'[r].pc = "readCart"
<1> DEFINE v == cartReq[r].variant
           d == IF live[v] THEN Discount[v] ELSE 0
           n == IF live[v] THEN Units(v, cartReq[r].quantity) ELSE 0
<1>1. Sound(cartReq[r]) /\ cartReq[r].pc = "readOffer" /\ d \in Nat /\ n \in Nat
  BY CartConstants DEF ReadOffer, CartTypeOK, Sound, CartRequest, Least, Units
<1>2. cartReq' = [cartReq EXCEPT ![r].pc = "readCart", ![r].discount = d, ![r].discountQuantity = n]
  BY DEF ReadOffer
<1> HIDE DEF d, n
<1>3. /\ cartReq'[r] = [cartReq[r] EXCEPT !.pc = "readCart", !.discount = d, !.discountQuantity = n]
      /\ \A q \in CartRequests : q # r => cartReq'[q] = cartReq[q]
  BY <1>2 DEF CartTypeOK
<1> QED
  BY <1>1, <1>3 DEF Sound, CartRequest

LEMMA ReadCartDoes ==
  ASSUME CartTypeOK, NEW r \in CartRequests, ReadCart(r)
  PROVE  /\ \A q \in CartRequests : q # r => cartReq'[q] = cartReq[q]
         /\ Sound(cartReq'[r]) /\ cartReq'[r].user = cartReq[r].user /\ cartReq'[r].pc = "save"
         /\ cartReq[r].user \in Customers /\ cartReq'[r].doc = cart[cartReq[r].user]
<1> DEFINE d == cart[cartReq[r].user]
<1>1. Sound(cartReq[r]) /\ cartReq[r].pc = "readCart" /\ d \in CartDoc \cup {None} /\ cartReq[r].user \in Customers
  BY DEF ReadCart, CartTypeOK, Sound
<1>2. cartReq' = [cartReq EXCEPT ![r].doc = d, ![r].pc = "save"]
  BY DEF ReadCart
<1> HIDE DEF d
<1>3. /\ cartReq'[r] = [cartReq[r] EXCEPT !.doc = d, !.pc = "save"]
      /\ \A q \in CartRequests : q # r => cartReq'[q] = cartReq[q]
  BY <1>2 DEF CartTypeOK
<1>4. Sound(cartReq'[r]) /\ cartReq'[r].user = cartReq[r].user /\ cartReq'[r].pc = "save" /\ cartReq'[r].doc = d
  BY <1>1, <1>3 DEF Sound, CartRequest
<1> QED
  BY <1>1, <1>3, <1>4 DEF d

LEMMA CallGetDoes ==
  ASSUME CartTypeOK, NEW r \in CartRequests, NEW u \in Customers, CallGet(r, u)
  PROVE  /\ \A q \in CartRequests : q # r => cartReq'[q] = cartReq[q]
         /\ \/ cartReq' = cartReq
            \/ /\ Sound(cartReq'[r]) /\ cartReq'[r].user = u
               /\ cart[u] \in CartDoc /\ cartReq'[r].doc = cart[u] /\ cartReq'[r].items = cart[u].items
               /\ \/ cartReq'[r].pc = "getSave" /\ cart[u].items = <<>>
                  \/ cartReq'[r].pc = "getItem" /\ cart[u].items # <<>> /\ cartReq'[r].i = 1
<1>1. CASE cart[u] = None
  BY <1>1 DEF CallGet
<1>2. CASE cart[u] # None
  <2> DEFINE d == cart[u]
             c == IF d.items = <<>> THEN "getSave" ELSE "getItem"
             l == d.items
  <2>1. d \in CartDoc /\ l \in Seq(ItemDoc)
    BY <1>2 DEF CartTypeOK, CartDoc
  <2>2. cartReq' = [cartReq EXCEPT ![r] = [NoCartRequest EXCEPT !.pc = c, !.user = u, !.doc = d, !.items = l, !.i = 1]]
    BY <1>2 DEF CallGet
  <2>3. c \in {"getSave", "getItem"} /\ (c = "getSave" <=> cart[u].items = <<>>)
    OBVIOUS
  <2>4. cart[u] = d /\ d.items = l
    OBVIOUS
  <2> HIDE DEF d, c, l
  <2>5. /\ cartReq'[r] = [NoCartRequest EXCEPT !.pc = c, !.user = u, !.doc = d, !.items = l, !.i = 1]
        /\ \A q \in CartRequests : q # r => cartReq'[q] = cartReq[q]
    BY <2>2 DEF CartTypeOK
  <2>6. /\ Sound(cartReq'[r]) /\ cartReq'[r].pc = c /\ cartReq'[r].user = u /\ cartReq'[r].doc = d
        /\ cartReq'[r].items = l /\ cartReq'[r].i = 1
    <3>1. cartReq'[r] = Getting(c, u, d, l)
      BY <2>5 DEF Getting
    <3> QED
      BY <2>1, <2>3, <3>1, GetSound
  <2> QED
    BY <2>1, <2>3, <2>4, <2>5, <2>6
<1> QED
  BY <1>1, <1>2

LEMMA FollowsItself ==
  ASSUME NEW a \in Seq(ItemDoc), NEW gone
  PROVE  Follows(a, a, gone)
BY DEF Follows, SameVariants

LEMMA FollowsOn ==
  ASSUME NEW a \in Seq(ItemDoc), NEW b \in Seq(ItemDoc), NEW c \in Seq(ItemDoc),
         NEW gone, NEW more, gone \subseteq more,
         Follows(b, a, gone), Follows(c, b, more)
  PROVE  Follows(c, a, more)
<1>1. Len(a) \in Nat /\ Len(b) \in Nat /\ Len(c) \in Nat
  OBVIOUS
<1>2. Len(c) <= Len(a) /\ (Len(c) = Len(a) => SameVariants(c, a))
  BY <1>1 DEF Follows, SameVariants
<1>3. ASSUME NEW k \in 1..Len(a), a[k].variant \notin more
      PROVE  \E j \in 1..Len(c) : c[j].variant = a[k].variant
  <2>1. PICK m \in 1..Len(b) : b[m].variant = a[k].variant
    BY <1>3 DEF Follows
  <2>2. PICK j \in 1..Len(c) : c[j].variant = b[m].variant
    BY <1>3, <2>1 DEF Follows
  <2> QED
    BY <2>1, <2>2
<1> QED
  BY <1>2, <1>3 DEF Follows

(* One turn of getCart's loop: an element rereads its own variant, and an   *)
(* unavailable one is dropped.                                              *)
LEMMA RereadKeeps ==
  ASSUME CartTypeOK, NEW item \in ItemDoc, NEW v \in Variants
  PROVE  Reread(item, v) \in ItemDoc /\ Reread(item, v).variant = item.variant
<1> DEFINE q == Least(shop[v].stock, item.quantity)
<1>1. q \in Nat /\ q * Price[v] \in Int
  BY CartConstants DEF CartTypeOK, ItemDoc, Least
<1> DEFINE t == q * Price[v]
<1>2. t \in Int
  BY <1>1
<1>3. Reread(item, v) = [item EXCEPT !.quantity = q, !.discount = 0, !.discountQuantity = 0, !.total = t]
  BY DEF Reread
<1>4. q \in Nat
  BY <1>1
<1> HIDE DEF q, t
<1>5. /\ [item EXCEPT !.quantity = q, !.discount = 0, !.discountQuantity = 0, !.total = t] \in ItemDoc
      /\ [item EXCEPT !.quantity = q, !.discount = 0, !.discountQuantity = 0, !.total = t].variant
           = item.variant
  BY <1>2, <1>4 DEF ItemDoc
<1> QED
  BY <1>3, <1>5

LEMMA GetItemDoes ==
  ASSUME CartTypeOK, OffSaleWasGone, NEW r \in CartRequests, GetsOwn(r), GetItem(r)
  PROVE  /\ \A q \in CartRequests : q # r => cartReq'[q] = cartReq[q]
         /\ \/ cartReq'[r] = NoCartRequest
            \/ /\ Sound(cartReq'[r]) /\ cartReq'[r].user = cartReq[r].user /\ cartReq'[r].doc = cartReq[r].doc
               /\ cartReq'[r].pc \in {"getItem", "getSave"}
               /\ Follows(cartReq'[r].items, cartReq[r].items, wasGone)
               /\ cartReq'[r].pc = "getItem" => cartReq'[r].i \in 1..Len(cartReq'[r].items)
               /\ Distinct(cartReq[r].items) => Distinct(cartReq'[r].items)
<1> DEFINE i == cartReq[r].i
           items == cartReq[r].items
           v == items[i].variant
           off == shop[v].condition = "unavailable"
           j == IF off THEN i - 1 ELSE i
           rest == IF off THEN RemoveAt(items, i) ELSE items
           reread == [rest EXCEPT ![j] = Reread(@, v)]
           total == cartReq[r].payable + (IF HasOffer(v) THEN reread[j].total ELSE 0)
           c == IF j < Len(rest) THEN "getItem" ELSE "getSave"
<1>1. /\ Sound(cartReq[r]) /\ cartReq[r].pc = "getItem" /\ items \in Seq(ItemDoc)
      /\ Len(items) \in Nat /\ i \in 1..Len(items) /\ items[i] \in ItemDoc /\ v \in Variants
      /\ cartReq[r].payable \in Int
  <2>1. Sound(cartReq[r]) /\ cartReq[r].pc = "getItem" /\ cartReq[r] \in CartRequest /\ i \in 1..Len(items)
    BY DEF GetItem, GetsOwn, CartTypeOK, Sound
  <2>2. items \in Seq(ItemDoc) /\ cartReq[r].payable \in Int
    BY <2>1 DEF CartRequest
  <2>3. Len(items) \in Nat /\ items[i] \in ItemDoc
    BY <2>1, <2>2
  <2> QED
    BY <2>1, <2>2, <2>3 DEF ItemDoc
<1>2. CASE CartDone(r)
  BY <1>2 DEF CartDone, CartTypeOK
<1>3. CASE /\ j # 0
           /\ cartReq' = [cartReq EXCEPT ![r].items = reread, ![r].i = j + 1, ![r].payable = total, ![r].pc = c]
  <2>0. j # 0
    BY <1>3
  <2>1. off => v \in wasGone
    BY <1>1 DEF OffSaleWasGone
  <2>2. /\ rest \in Seq(ItemDoc) /\ Follows(rest, items, wasGone)
        /\ Distinct(items) => Distinct(rest)
        /\ j \in 1..Len(rest)
    <3>1. CASE off
      <4>1. j = i - 1 /\ rest = RemoveAt(items, i)
        BY <3>1
      <4>2. /\ rest \in Seq(ItemDoc) /\ Len(rest) = Len(items) - 1
            /\ \A k \in 1..Len(items) - 1 : rest[k] = IF k < i THEN items[k] ELSE items[k + 1]
        BY <1>1, <4>1, RemoveAtKeeps
      <4>3. j \in 1..Len(rest)
        <5> HIDE DEF rest, j, items
        <5> QED
          BY <1>1, <2>0, <4>1, <4>2
      <4> HIDE DEF rest
      <4>4. ASSUME NEW k \in 1..Len(items)
            PROVE  items[k].variant \in wasGone \/ \E m \in 1..Len(rest) : rest[m].variant = items[k].variant
        <5>1. CASE k < i
          BY <1>1, <4>2, <5>1
        <5>2. CASE k = i
          BY <2>1, <3>1, <5>2
        <5>3. CASE k > i
          <6>1. k - 1 \in 1..Len(items) - 1 /\ ~(k - 1 < i) /\ (k - 1) + 1 = k
            BY <1>1, <5>3
          <6>2. rest[k - 1] = items[k]
            BY <4>2, <6>1
          <6> QED
            BY <4>2, <6>1, <6>2
        <5> QED
          BY <1>1, <5>1, <5>2, <5>3
      <4>5. Follows(rest, items, wasGone)
        BY <1>1, <4>2, <4>4 DEF Follows
      <4>6. Distinct(items) => Distinct(rest)
        <5> SUFFICES ASSUME Distinct(items), NEW m \in DOMAIN rest, NEW n \in DOMAIN rest,
                            rest[m].variant = rest[n].variant
                     PROVE  m = n
          BY DEF Distinct
        <5> DEFINE old(k) == IF k < i THEN k ELSE k + 1
        <5>1. m \in 1..Len(items) - 1 /\ n \in 1..Len(items) - 1
          BY <1>1, <4>2
        <5>2. old(m) \in 1..Len(items) /\ old(n) \in 1..Len(items)
          BY <1>1, <5>1
        <5>3. rest[m] = items[old(m)] /\ rest[n] = items[old(n)]
          BY <4>2, <5>1
        <5>4. old(m) = old(n)
          BY <1>1, <5>2, <5>3 DEF Distinct
        <5> QED
          BY <1>1, <5>1, <5>4
      <4> QED
        BY <4>2, <4>3, <4>5, <4>6
    <3>2. CASE ~off
      <4>1. j = i /\ rest = items
        BY <3>2
      <4> QED
        BY <1>1, <4>1, FollowsItself
    <3> QED
      BY <3>1, <3>2
  <2> HIDE DEF rest, off, j
  <2>3. rest[j] \in ItemDoc /\ Len(rest) \in Nat /\ v \in Variants
    BY <1>1, <2>2
  <2>4. /\ Reread(rest[j], v) \in ItemDoc /\ Reread(rest[j], v).variant = rest[j].variant
        /\ reread = [rest EXCEPT ![j] = Reread(rest[j], v)]
    BY <2>3, RereadKeeps
  <2>5. /\ reread \in Seq(ItemDoc) /\ Len(reread) = Len(rest)
        /\ \A k \in 1..Len(rest) : reread[k].variant = rest[k].variant
    <3> DEFINE x == Reread(rest[j], v)
    <3>1. x \in ItemDoc /\ x.variant = rest[j].variant /\ reread = [rest EXCEPT ![j] = x]
      BY <2>4
    <3> HIDE DEF x, reread
    <3>2. reread \in Seq(ItemDoc) /\ Len(reread) = Len(rest)
      BY <2>2, <3>1
    <3>3. \A k \in 1..Len(rest) : reread[k] = IF k = j THEN x ELSE rest[k]
      BY <2>2, <3>1
    <3> QED
      BY <3>1, <3>2, <3>3
  <2>6. total \in Int
    <3> HIDE DEF reread
    <3>1. reread[j] \in ItemDoc
      BY <2>2, <2>5
    <3>2. reread[j].total \in Int
      BY <3>1 DEF ItemDoc
    <3> QED
      BY <1>1, <3>2
  <2>7. /\ c \in {"getItem", "getSave"} /\ j + 1 \in Nat
        /\ c = "getItem" => j + 1 \in 1..Len(reread)
    BY <2>2, <2>3, <2>5
  <2> DEFINE n == j + 1
  <2>8. n \in Nat /\ (c = "getItem" => n \in 1..Len(reread))
    BY <2>7
  <2>9. cartReq' = [cartReq EXCEPT ![r].items = reread, ![r].i = n, ![r].payable = total, ![r].pc = c]
    BY <1>3
  <2> HIDE DEF reread, total, c, n
  <2>10. /\ cartReq'[r] = [cartReq[r] EXCEPT !.items = reread, !.i = n, !.payable = total, !.pc = c]
         /\ \A q \in CartRequests : q # r => cartReq'[q] = cartReq[q]
    BY <2>9 DEF CartTypeOK
  <2>11. /\ Sound(cartReq'[r]) /\ cartReq'[r].user = cartReq[r].user /\ cartReq'[r].doc = cartReq[r].doc
         /\ cartReq'[r].pc = c /\ cartReq'[r].items = reread /\ cartReq'[r].i = n
    BY <1>1, <2>5, <2>6, <2>7, <2>8, <2>10 DEF Sound, CartRequest
  <2>12. Follows(reread, rest, wasGone)
    BY <2>5, <2>3 DEF Follows, SameVariants
  <2>13. Follows(reread, items, wasGone)
    BY <1>1, <2>2, <2>5, <2>12, FollowsOn
  <2>14. Distinct(items) => Distinct(reread)
    <3>1. DOMAIN reread = DOMAIN rest /\ DOMAIN rest = 1..Len(rest)
      BY <2>2, <2>5
    <3> QED
      BY <2>2, <2>5, <3>1 DEF Distinct
  <2> QED
    BY <2>7, <2>8, <2>10, <2>11, <2>13, <2>14
<1> QED
  BY <1>2, <1>3 DEF GetItem

-----------------------------------------------------------------------------
(* How a step changes a cart, and a request.                                *)
LEMMA PushDoes ==
  ASSUME NEW d \in CartDoc, NEW item \in ItemDoc
  PROVE  /\ Push(d, item) \in CartDoc /\ Push(d, item).version = d.version + 1
         /\ Push(d, item).items = Append(d.items, item)
         /\ Len(Push(d, item).items) = Len(d.items) + 1
         /\ \A k \in 1..Len(d.items) : Push(d, item).items[k] = d.items[k]
         /\ Push(d, item).items[Len(d.items) + 1] = item
<1> DEFINE l == Append(d.items, item)
           n == d.version + 1
<1>1. /\ d.items \in Seq(ItemDoc) /\ n \in Nat
      /\ l \in Seq(ItemDoc) /\ Len(l) = Len(d.items) + 1
      /\ (\A k \in 1..Len(d.items) : l[k] = d.items[k]) /\ l[Len(d.items) + 1] = item
  BY DEF CartDoc
<1>2. Push(d, item) = [d EXCEPT !.items = l, !.version = n]
  BY DEF Push
<1>3. d.version + 1 = n /\ Append(d.items, item) = l
  OBVIOUS
<1> HIDE DEF l, n
<1>4. /\ [d EXCEPT !.items = l, !.version = n] \in CartDoc
      /\ [d EXCEPT !.items = l, !.version = n].version = n
      /\ [d EXCEPT !.items = l, !.version = n].items = l
  BY <1>1 DEF CartDoc
<1> QED
  BY <1>1, <1>2, <1>3, <1>4

LEMMA NewDocDoes ==
  ASSUME NEW item \in ItemDoc
  PROVE  NewDoc(item) \in CartDoc /\ NewDoc(item).items = <<item>>
<1>1. <<item>> \in Seq(ItemDoc)
  OBVIOUS
<1> DEFINE l == <<item>>
           d == [items |-> l, version |-> 0, payable |-> 0]
<1>2. NewDoc(item) = d
  BY DEF NewDoc
<1> HIDE DEF l
<1>3. d \in CartDoc /\ d.items = l
  BY <1>1 DEF l, CartDoc
<1> QED
  BY <1>2, <1>3, Zenon DEF l

Raised(new, old) == new \in CartDoc /\ new.version = old.version + 1

LEMMA EveryCartStep ==
  ASSUME VersionInv, [CartNext]_cartVars, NEW u \in Customers
  PROVE  \/ cart'[u] = cart[u]
         \/ cart[u] = None /\ cart'[u] \in CartDoc
         \/ cart[u] \in CartDoc /\ SameItems(cart'[u], cart[u])
         \/ cart[u] \in CartDoc /\ Raised(cart'[u], cart[u])
<1>1. \/ UNCHANGED cart
      \/ \E r \in CartRequests : SaveAdd(r) \/ GetSave(r)
  <2>1. CASE CartCall
    BY <2>1 DEF CartCall, CallAdd, CallGet, CallMerge
  <2>2. ASSUME NEW r \in CartRequests, CartStep(r) PROVE UNCHANGED cart \/ SaveAdd(r) \/ GetSave(r)
    <3>1. CASE ReadVariant(r)
      BY <3>1 DEF ReadVariant
    <3>2. CASE ReadOffer(r) \/ ReadCart(r)
      BY <3>2 DEF ReadOffer, ReadCart
    <3>3. CASE GetItem(r)
      BY <3>3 DEF GetItem
    <3> QED
      BY <2>2, <3>1, <3>2, <3>3 DEF CartStep
  <2>3. CASE Seller \/ UNCHANGED cartVars
    BY <2>3 DEF Seller, SellerUpdates, SellerDeletes, OfferExpires, cartVars
  <2> QED
    BY <2>1, <2>2, <2>3 DEF CartNext
<1>2. ASSUME NEW r \in CartRequests, SaveAdd(r) \/ GetSave(r) PROVE cartReq[r].user \in Customers
  BY <1>2 DEF VersionInv, CartTypeOK, SaveAdd, GetSave
<1>3. ASSUME NEW r \in CartRequests, SaveAdd(r), u = cartReq[r].user
      PROVE  \/ cart'[u] = cart[u]
             \/ cart[u] = None /\ cart'[u] \in CartDoc
             \/ cart[u] \in CartDoc /\ SameItems(cart'[u], cart[u])
             \/ cart[u] \in CartDoc /\ Raised(cart'[u], cart[u])
  BY <1>3, SaveAddDoes, PushDoes, NewDocDoes DEF Raised
<1>4. ASSUME NEW r \in CartRequests, GetSave(r), u = cartReq[r].user
      PROVE  \/ cart'[u] = cart[u]
             \/ cart[u] \in CartDoc /\ SameItems(cart'[u], cart[u])
             \/ cart[u] \in CartDoc /\ Raised(cart'[u], cart[u])
  BY <1>4, GetSaveDoes DEF Raised
<1>5. ASSUME NEW r \in CartRequests, SaveAdd(r) \/ GetSave(r), u # cartReq[r].user
      PROVE  cart'[u] = cart[u]
  BY <1>2, <1>5, SaveAddDoes, GetSaveDoes
<1> QED
  BY <1>1, <1>3, <1>4, <1>5

Reads(r) == /\ Sound(cartReq'[r]) /\ cartReq'[r].pc \in {"readProduct", "readOffer", "readCart"}
Loads(r) == /\ Sound(cartReq'[r]) /\ cartReq'[r].pc = "save" /\ UNCHANGED cart
            /\ cartReq'[r].doc = cart[cartReq'[r].user]
Opens(r) == /\ Sound(cartReq'[r]) /\ cartReq'[r].pc \in {"getItem", "getSave"} /\ UNCHANGED cart
            /\ cartReq'[r].doc = cart[cartReq'[r].user] /\ cartReq'[r].doc \in CartDoc
            /\ cartReq'[r].items = cartReq'[r].doc.items
            /\ cartReq'[r].pc = "getItem" => cartReq'[r].items # <<>> /\ cartReq'[r].i = 1
Turns(r) == /\ Sound(cartReq'[r]) /\ UNCHANGED <<cart, wasGone>>
            /\ cartReq'[r].user = cartReq[r].user /\ cartReq'[r].doc = cartReq[r].doc
            /\ cartReq[r].pc = "getItem" /\ cartReq'[r].pc \in {"getItem", "getSave"}
            /\ Follows(cartReq'[r].items, cartReq[r].items, wasGone)
            /\ cartReq'[r].pc = "getItem" => cartReq'[r].i \in 1..Len(cartReq'[r].items)
            /\ Distinct(cartReq[r].items) => Distinct(cartReq'[r].items)

LEMMA RequestStep ==
  ASSUME VersionInv, [CartNext]_cartVars, NEW q \in CartRequests
  PROVE  \/ cartReq'[q] = cartReq[q]
         \/ cartReq'[q] = NoCartRequest
         \/ Reads(q) \/ Loads(q) \/ Opens(q) \/ Turns(q)
<1> DEFINE Goal == \/ cartReq'[q] = cartReq[q]
                   \/ cartReq'[q] = NoCartRequest
                   \/ Reads(q) \/ Loads(q) \/ Opens(q) \/ Turns(q)
<1>0. CartTypeOK /\ OffSaleWasGone /\ \A r \in CartRequests : GetsOwn(r)
  BY DEF VersionInv
<1>1. ASSUME NEW r \in CartRequests, NEW u \in Customers, NEW v \in Variants, NEW n \in Asked,
             CallAdd(r, u, v, n)
      PROVE  Goal
  <2>1. n \in Nat
    BY CartConstants
  <2>2. cartReq' = [cartReq EXCEPT ![r] = Adding(u, v, n)]
    BY <1>1 DEF CallAdd, Adding
  <2> QED
    BY <1>0, <2>1, <2>2, CallSound DEF CartTypeOK, Reads
<1>2. ASSUME NEW r \in CartRequests, NEW u \in Customers, CallGet(r, u) PROVE Goal
  <2>1. UNCHANGED cart
    BY <1>2 DEF CallGet
  <2> QED
    BY <1>0, <1>2, <2>1, CallGetDoes DEF Opens
<1>3. ASSUME NEW u \in Customers, CallMerge(u) PROVE Goal
  <2>1. PICK wanted \in [CartRequests -> Variants], n \in Asked :
          cartReq' = [r \in CartRequests |-> Adding(u, wanted[r], n)]
    BY <1>3 DEF CallMerge, Adding
  <2>2. n \in Nat
    BY CartConstants
  <2> QED
    BY <2>1, <2>2, CallSound DEF Reads
<1>4. ASSUME NEW r \in CartRequests, ReadVariant(r) PROVE Goal
  BY <1>0, <1>4, ReadProductDoes DEF Reads
<1>5. ASSUME NEW r \in CartRequests, ReadOffer(r) PROVE Goal
  BY <1>0, <1>5, ReadOfferDoes DEF Reads
<1>6. ASSUME NEW r \in CartRequests, ReadCart(r) PROVE Goal
  <2>1. UNCHANGED cart
    BY <1>6 DEF ReadCart
  <2> QED
    BY <1>0, <1>6, <2>1, ReadCartDoes DEF Loads
<1>7. ASSUME NEW r \in CartRequests, SaveAdd(r) \/ GetSave(r) PROVE Goal
  BY <1>0, <1>7 DEF SaveAdd, GetSave, CartDone, CartTypeOK
<1>8. ASSUME NEW r \in CartRequests, GetItem(r) PROVE Goal
  <2>1. UNCHANGED <<cart, wasGone>> /\ cartReq[r].pc = "getItem"
    BY <1>8 DEF GetItem, world
  <2> QED
    BY <1>0, <1>8, <2>1, GetItemDoes DEF Turns
<1>9. ASSUME UNCHANGED cartReq PROVE Goal
  BY <1>9
<1>10. Goal
  <2> HIDE DEF Goal
  <2>1. Seller \/ UNCHANGED cartVars => UNCHANGED cartReq
    BY DEF Seller, SellerUpdates, SellerDeletes, OfferExpires, cartVars
  <2> QED
    BY <1>1, <1>2, <1>3, <1>4, <1>5, <1>6, <1>7, <1>8, <1>9, <2>1 DEF CartNext, CartCall, CartStep
<1> QED
  BY <1>10

-----------------------------------------------------------------------------
(* What the requests leave alone, and the domains of the functions.         *)
LEMMA StepLeaves ==
  ASSUME NEW r \in CartRequests, CartStep(r)
  PROVE  UNCHANGED <<world, cartOverlapped, calls>>
<1>1. ReadVariant(r) => UNCHANGED <<world, cartOverlapped, calls>>
  BY DEF ReadVariant
<1>2. ReadOffer(r) => UNCHANGED <<world, cartOverlapped, calls>>
  BY DEF ReadOffer
<1>3. ReadCart(r) => UNCHANGED <<world, cartOverlapped, calls>>
  BY DEF ReadCart
<1>4. SaveAdd(r) => UNCHANGED <<world, cartOverlapped, calls>>
  BY DEF SaveAdd
<1>5. GetItem(r) => UNCHANGED <<world, cartOverlapped, calls>>
  BY DEF GetItem
<1>6. GetSave(r) => UNCHANGED <<world, cartOverlapped, calls>>
  BY DEF GetSave
<1> QED
  BY <1>1, <1>2, <1>3, <1>4, <1>5, <1>6 DEF CartStep

LEMMA CallLeaves == CartCall => UNCHANGED <<world, cart>>
BY DEF CartCall, CallAdd, CallGet, CallMerge

LEMMA NextIs ==
  ASSUME [CartNext]_cartVars
  PROVE  \/ CartCall \/ Seller \/ UNCHANGED cartVars
         \/ \E r \in CartRequests : CartStep(r)
BY DEF CartNext

(* cartReq stays a function, whatever record a step stores in it.           *)
IsReq(f) == f = [r \in CartRequests |-> f[r]]

LEMMA RequestsKept ==
  ASSUME CartTypeOK, [CartNext]_cartVars
  PROVE  IsReq(cartReq')
<1>0. IsReq(cartReq)
  BY DEF CartTypeOK, IsReq
<1>1. ASSUME NEW r \in CartRequests, NEW x, cartReq' = [cartReq EXCEPT ![r] = x]
      PROVE  IsReq(cartReq')
  BY <1>0, <1>1 DEF IsReq
<1>2. ASSUME NEW r \in CartRequests, CartDone(r) PROVE IsReq(cartReq')
  BY <1>1, <1>2 DEF CartDone
<1>3. ASSUME NEW r \in CartRequests, NEW u \in Customers, NEW v \in Variants, NEW n \in Asked,
             CallAdd(r, u, v, n)
      PROVE  IsReq(cartReq')
  <2>1. cartReq' = [cartReq EXCEPT ![r] = Adding(u, v, n)]
    BY <1>3 DEF CallAdd, Adding
  <2> QED
    BY <1>1, <2>1
<1>4. ASSUME NEW r \in CartRequests, NEW u \in Customers, CallGet(r, u) PROVE IsReq(cartReq')
  <2>1. \/ UNCHANGED cartReq
        \/ cartReq' = [cartReq EXCEPT ![r] = Getting(IF cart[u].items = <<>> THEN "getSave" ELSE "getItem",
                                             u, cart[u], cart[u].items)]
    BY <1>4 DEF CallGet, Getting
  <2> QED
    BY <1>0, <1>1, <2>1
<1>5. ASSUME NEW u \in Customers, CallMerge(u) PROVE IsReq(cartReq')
  <2>1. PICK wanted \in [CartRequests -> Variants], n \in Asked :
          cartReq' = [r \in CartRequests |-> Adding(u, wanted[r], n)]
    BY <1>5 DEF CallMerge, Adding
  <2> QED
    BY <2>1 DEF IsReq
<1>6. ASSUME NEW r \in CartRequests, ReadVariant(r) PROVE IsReq(cartReq')
  <2> DEFINE n == Least(shop[cartReq[r].variant].stock, cartReq[r].quantity)
             c == IF HasOffer(cartReq[r].variant) THEN "readOffer" ELSE "readCart"
  <2>1. CartDone(r) \/ cartReq' = [cartReq EXCEPT ![r].quantity = n, ![r].pc = c]
    BY <1>6 DEF ReadVariant
  <2> HIDE DEF n, c
  <2>2. cartReq' = [cartReq EXCEPT ![r].quantity = n, ![r].pc = c] => IsReq(cartReq')
    BY <1>0 DEF IsReq
  <2> QED
    BY <1>2, <2>1, <2>2
<1>7. ASSUME NEW r \in CartRequests, ReadOffer(r) PROVE IsReq(cartReq')
  <2> DEFINE v == cartReq[r].variant
             d == IF live[v] THEN Discount[v] ELSE 0
             n == IF live[v] THEN Units(v, cartReq[r].quantity) ELSE 0
  <2>1. cartReq' = [cartReq EXCEPT ![r].pc = "readCart", ![r].discount = d, ![r].discountQuantity = n]
    BY <1>7 DEF ReadOffer
  <2> HIDE DEF d, n
  <2> QED
    BY <1>0, <2>1 DEF IsReq
<1>8. ASSUME NEW r \in CartRequests, ReadCart(r) PROVE IsReq(cartReq')
  <2> DEFINE d == cart[cartReq[r].user]
  <2>1. cartReq' = [cartReq EXCEPT ![r].doc = d, ![r].pc = "save"]
    BY <1>8 DEF ReadCart
  <2> HIDE DEF d
  <2> QED
    BY <1>0, <2>1 DEF IsReq
<1>9. ASSUME NEW r \in CartRequests, GetItem(r) PROVE IsReq(cartReq')
  <2> DEFINE i == cartReq[r].i
             items == cartReq[r].items
             v == items[i].variant
             off == shop[v].condition = "unavailable"
             j == IF off THEN i - 1 ELSE i
             rest == IF off THEN RemoveAt(items, i) ELSE items
             reread == [rest EXCEPT ![j] = Reread(@, v)]
             total == cartReq[r].payable + (IF HasOffer(v) THEN reread[j].total ELSE 0)
             c == IF j < Len(rest) THEN "getItem" ELSE "getSave"
             n == j + 1
  <2>1. CartDone(r) \/ cartReq' = [cartReq EXCEPT ![r].items = reread, ![r].i = n, ![r].payable = total, ![r].pc = c]
    BY <1>9 DEF GetItem
  <2> HIDE DEF reread, total, c, n
  <2>2. cartReq' = [cartReq EXCEPT ![r].items = reread, ![r].i = n, ![r].payable = total, ![r].pc = c]
          => IsReq(cartReq')
    BY <1>0 DEF IsReq
  <2> QED
    BY <1>2, <2>1, <2>2
<1>10. ASSUME NEW r \in CartRequests, SaveAdd(r) \/ GetSave(r) PROVE IsReq(cartReq')
  BY <1>2, <1>10 DEF SaveAdd, GetSave
<1>11. ASSUME UNCHANGED cartReq PROVE IsReq(cartReq')
  BY <1>0, <1>11
<1>12. Seller \/ UNCHANGED cartVars => UNCHANGED cartReq
  BY DEF Seller, SellerUpdates, SellerDeletes, OfferExpires, cartVars
<1> QED
  BY <1>3, <1>4, <1>5, <1>6, <1>7, <1>8, <1>9, <1>10, <1>11, <1>12, NextIs DEF CartCall, CartStep

LEMMA CartMoves ==
  ASSUME [CartNext]_cartVars
  PROVE  UNCHANGED cart \/ \E r \in CartRequests : SaveAdd(r) \/ GetSave(r)
<1>1. ASSUME NEW r \in CartRequests, ReadVariant(r) \/ ReadOffer(r) \/ ReadCart(r) \/ GetItem(r)
      PROVE  UNCHANGED cart
  BY <1>1 DEF ReadVariant, ReadOffer, ReadCart, GetItem
<1>2. CartCall \/ Seller \/ UNCHANGED cartVars => UNCHANGED cart
  BY CallLeaves DEF Seller, SellerUpdates, SellerDeletes, OfferExpires, cartVars
<1> QED
  BY <1>1, <1>2, NextIs DEF CartStep

LEMMA CartsKept ==
  ASSUME CartTypeOK, [CartNext]_cartVars
  PROVE  cart' = [u \in Customers |-> cart'[u]]
<1>0. cart = [u \in Customers |-> cart[u]]
  BY DEF CartTypeOK
<1>1. ASSUME NEW u, NEW d, cart' = [cart EXCEPT ![u] = d]
      PROVE  cart' = [w \in Customers |-> cart'[w]]
  BY <1>0, <1>1
<1>2. UNCHANGED cart \/ \E u, d : cart' = [cart EXCEPT ![u] = d]
  <2>1. ASSUME NEW r \in CartRequests, SaveAdd(r)
        PROVE  UNCHANGED cart \/ \E u, d : cart' = [cart EXCEPT ![u] = d]
    BY <2>1, Zenon DEF SaveAdd
  <2>2. ASSUME NEW r \in CartRequests, GetSave(r)
        PROVE  UNCHANGED cart \/ \E u, d : cart' = [cart EXCEPT ![u] = d]
    BY <2>2, Zenon DEF GetSave
  <2> QED
    BY <2>1, <2>2, CartMoves
<1> QED
  BY <1>0, <1>1, <1>2

-----------------------------------------------------------------------------
(* The shape of the variables, and what requests know of the cart.          *)
LEMMA StepType == VersionInv /\ [CartNext]_cartVars => CartTypeOK'
<1> SUFFICES ASSUME VersionInv, [CartNext]_cartVars PROVE CartTypeOK'
  OBVIOUS
<1>0. CartTypeOK
  BY DEF VersionInv
<1>1. \A r \in CartRequests : Sound(cartReq'[r])
  <2> SUFFICES ASSUME NEW r \in CartRequests PROVE Sound(cartReq'[r])
    OBVIOUS
  <2>1. Sound(cartReq[r])
    BY <1>0 DEF CartTypeOK, Sound
  <2> QED
    BY <2>1, RequestStep, NoRequestSound DEF Reads, Loads, Opens, Turns
<1>2. cartReq' = [r \in CartRequests |-> cartReq'[r]]
  BY <1>0, RequestsKept DEF IsReq
<1>3. cartReq' \in [CartRequests -> CartRequest]
  BY <1>1, <1>2 DEF Sound
<1>4. cart' = [u \in Customers |-> cart'[u]]
  BY <1>0, CartsKept
<1>5. \A u \in Customers : cart'[u] \in CartDoc \cup {None}
  BY <1>0, EveryCartStep DEF CartTypeOK, SameItems, Raised
<1>6. cart' \in [Customers -> CartDoc \cup {None}]
  BY <1>4, <1>5
<1>7. /\ shop' \in [Variants -> [condition : {"onSale", "unavailable", "replaced", "deleted"}, stock : Nat]]
      /\ live' \in [Variants -> BOOLEAN] /\ wasGone' \subseteq Variants
      /\ sellerEdits' \in 0..MaxSellerEdits
  <2> DEFINE Goal == /\ shop' \in [Variants -> [condition : {"onSale", "unavailable", "replaced", "deleted"}, stock : Nat]]
                     /\ live' \in [Variants -> BOOLEAN] /\ wasGone' \subseteq Variants
                     /\ sellerEdits' \in 0..MaxSellerEdits
  <2>1. ASSUME UNCHANGED <<shop, live, wasGone, sellerEdits>> PROVE Goal
    BY <1>0, <2>1 DEF CartTypeOK
  <2>2. ASSUME NEW v \in Variants, SellerUpdates(v) PROVE Goal
    <3>1. PICK c \in Conditions \ {"deleted"}, n \in Stocks :
            /\ shop' = [shop EXCEPT ![v] = [condition |-> c, stock |-> n]]
            /\ wasGone' = IF c = "onSale" THEN wasGone ELSE wasGone \cup {v}
      BY <2>2 DEF SellerUpdates
    <3>2. c \in {"onSale", "unavailable", "replaced", "deleted"} /\ n \in Nat
      BY CartConstants
    <3>3. UNCHANGED live /\ sellerEdits' \in 0..MaxSellerEdits
      BY <1>0, <2>2, CartConstants DEF SellerUpdates, CartTypeOK
    <3> QED
      BY <1>0, <3>1, <3>2, <3>3 DEF CartTypeOK
  <2>3. ASSUME NEW v \in Variants, SellerDeletes(v) PROVE Goal
    <3>1. [shop[v] EXCEPT !.condition = "deleted"] \in
            [condition : {"onSale", "unavailable", "replaced", "deleted"}, stock : Nat]
      BY <1>0 DEF CartTypeOK
    <3>2. shop' = [shop EXCEPT ![v] = [shop[v] EXCEPT !.condition = "deleted"]]
      BY <2>3 DEF SellerDeletes
    <3> QED
      BY <1>0, <2>3, <3>1, <3>2, CartConstants DEF SellerDeletes, CartTypeOK
  <2>4. ASSUME NEW v \in Variants, OfferExpires(v) PROVE Goal
    BY <1>0, <2>4 DEF OfferExpires, CartTypeOK
  <2>5. \/ UNCHANGED <<shop, live, wasGone, sellerEdits>>
        \/ \E v \in Variants : SellerUpdates(v) \/ SellerDeletes(v) \/ OfferExpires(v)
    BY NextIs, StepLeaves, CallLeaves DEF Seller, cartVars, world
  <2> QED
    BY <2>1, <2>2, <2>3, <2>4, <2>5
<1>8. cartOverlapped' \subseteq Customers /\ calls' \in 0..MaxCalls
  <2>1. cartOverlapped \subseteq Customers /\ calls \in 0..MaxCalls /\ MaxCalls \in Nat
    BY <1>0, CartConstants DEF CartTypeOK
  <2>2. ASSUME NEW u \in Customers, Calling(u) PROVE cartOverlapped' \subseteq Customers
    BY <2>1, <2>2 DEF Calling
  <2>3. CartCall => cartOverlapped' \subseteq Customers /\ calls' \in 0..MaxCalls
    <3>1. ASSUME NEW r \in CartRequests, NEW u \in Customers, NEW v \in Variants, NEW n \in Asked,
                 CallAdd(r, u, v, n)
          PROVE  Calling(u) /\ calls < MaxCalls /\ calls' = calls + 1
      BY <3>1 DEF CallAdd
    <3>2. ASSUME NEW r \in CartRequests, NEW u \in Customers, CallGet(r, u)
          PROVE  Calling(u) /\ calls < MaxCalls /\ calls' = calls + 1
      BY <3>2 DEF CallGet
    <3>3. ASSUME NEW u \in Customers, CallMerge(u)
          PROVE  cartOverlapped' = cartOverlapped \cup {u} /\ calls' = MaxCalls
      BY <3>3 DEF CallMerge
    <3> QED
      BY <2>1, <2>2, <3>1, <3>2, <3>3 DEF CartCall
  <2>4. Seller \/ UNCHANGED cartVars => UNCHANGED <<cartOverlapped, calls>>
    BY DEF Seller, SellerUpdates, SellerDeletes, OfferExpires, cartVars
  <2> QED
    BY <2>1, <2>3, <2>4, StepLeaves, NextIs
<1> QED
  BY <1>1, <1>3, <1>6, <1>7, <1>8 DEF CartTypeOK, Sound

LEMMA StepGone ==
  ASSUME VersionInv, [CartNext]_cartVars
  PROVE  wasGone \subseteq wasGone' /\ OffSaleWasGone'
<1>0. CartTypeOK /\ OffSaleWasGone
  BY DEF VersionInv
<1>1. ASSUME NEW v \in Variants, SellerUpdates(v)
      PROVE  wasGone \subseteq wasGone' /\ OffSaleWasGone'
  BY <1>0, <1>1 DEF SellerUpdates, CartTypeOK, OffSaleWasGone
<1>2. ASSUME NEW v \in Variants, SellerDeletes(v)
      PROVE  wasGone \subseteq wasGone' /\ OffSaleWasGone'
  BY <1>0, <1>2 DEF SellerDeletes, CartTypeOK, OffSaleWasGone
<1>3. UNCHANGED <<shop, wasGone>> \/ \E v \in Variants : SellerUpdates(v) \/ SellerDeletes(v)
  BY NextIs, StepLeaves, CallLeaves DEF Seller, OfferExpires, cartVars, world
<1> QED
  BY <1>0, <1>1, <1>2, <1>3 DEF OffSaleWasGone

LEMMA StepKnows ==
  ASSUME VersionInv, [CartNext]_cartVars, NEW r \in CartRequests
  PROVE  ReadIsOld(r)' /\ GetsOwn(r)'
<1>0. CartTypeOK /\ ReadIsOld(r) /\ GetsOwn(r) /\ Sound(cartReq[r]) /\ wasGone \subseteq wasGone'
  BY StepGone DEF VersionInv, CartTypeOK, Sound
<1>1. cartReq'[r].doc = cartReq[r].doc /\ cartReq'[r].user = cartReq[r].user => ReadIsOld(r)'
  <2> SUFFICES ASSUME cartReq'[r].doc = cartReq[r].doc, cartReq'[r].user = cartReq[r].user, cartReq[r].doc # None
               PROVE  ReadIsOld(r)'
    BY DEF ReadIsOld
  <2> DEFINE d == cartReq[r].doc
  <2>1. PICK u \in Customers : u = cartReq[r].user
    BY <1>0 DEF Sound
  <2>2. /\ d \in CartDoc /\ cart[u] \in CartDoc /\ d.version <= cart[u].version
        /\ cart[u].version = d.version => SameVariants(cart[u].items, d.items)
        /\ d.version \in Nat /\ cart[u].version \in Nat /\ d.items \in Seq(ItemDoc)
        /\ cart[u].items \in Seq(ItemDoc)
    BY <1>0, <2>1 DEF Sound, CartRequest, ReadIsOld, CartTypeOK, SameVersion, CartDoc
  <2>3. \/ cart'[u] = cart[u] \/ SameItems(cart'[u], cart[u]) \/ Raised(cart'[u], cart[u])
    BY <2>2, EveryCartStep, CartConstants
  <2>4. /\ cart'[u] # None /\ d.version <= cart'[u].version
        /\ cart'[u].version = d.version => SameVariants(cart'[u].items, d.items)
    <3>1. CASE cart'[u] = cart[u]
      BY <2>2, <3>1, CartConstants
    <3>2. CASE SameItems(cart'[u], cart[u])
      BY <2>2, <3>2, CartConstants DEF SameItems, SameVariants
    <3>3. CASE Raised(cart'[u], cart[u])
      BY <2>2, <3>3, CartConstants DEF Raised
    <3> QED
      BY <2>3, <3>1, <3>2, <3>3
  <2> QED
    BY <2>1, <2>4 DEF ReadIsOld, SameVersion
<1>2. CASE cartReq'[r] = cartReq[r]
  <2>1. GetsOwn(r)'
    BY <1>0, <1>2 DEF GetsOwn, Follows
  <2> QED
    BY <1>1, <1>2, <2>1
<1>3. CASE cartReq'[r] = NoCartRequest
  BY <1>3 DEF NoCartRequest, ReadIsOld, GetsOwn
<1>4. CASE Reads(r)
  BY <1>4 DEF Reads, Sound, ReadIsOld, GetsOwn
<1>5. CASE Loads(r) \/ Opens(r)
  <2>1. /\ cartReq'[r].user \in Customers /\ cartReq'[r].doc = cart[cartReq'[r].user] /\ cart' = cart
        /\ cart[cartReq'[r].user] \in CartDoc \cup {None}
    BY <1>0, <1>5 DEF Loads, Opens, Sound, CartTypeOK
  <2>2. \A d \in CartDoc : d.items \in Seq(ItemDoc) /\ d.version <= d.version
    BY DEF CartDoc
  <2>3. ReadIsOld(r)'
    BY <2>1, <2>2 DEF ReadIsOld, SameVariants, SameVersion
  <2>4. GetsOwn(r)'
    <3>1. CASE Loads(r)
      BY <3>1 DEF Loads, GetsOwn
    <3>2. CASE Opens(r)
      <4>1. /\ cartReq'[r].doc \in CartDoc /\ cartReq'[r].items = cartReq'[r].doc.items
            /\ cartReq'[r].items \in Seq(ItemDoc)
            /\ cartReq'[r].pc = "getItem" => cartReq'[r].items # <<>> /\ cartReq'[r].i = 1
        BY <3>2, <2>2 DEF Opens
      <4>2. Follows(cartReq'[r].items, cartReq'[r].doc.items, wasGone')
        BY <4>1, FollowsItself
      <4>3. cartReq'[r].items # <<>> => 1 \in 1..Len(cartReq'[r].items)
        BY <4>1
      <4> QED
        BY <4>1, <4>2, <4>3, CartConstants DEF GetsOwn
    <3> QED
      BY <1>5, <3>1, <3>2
  <2> QED
    BY <2>3, <2>4
<1>6. CASE Turns(r)
  <2>1. /\ cartReq[r].items \in Seq(ItemDoc) /\ cartReq'[r].items \in Seq(ItemDoc)
        /\ cartReq[r].doc \in CartDoc /\ cartReq[r].doc.items \in Seq(ItemDoc)
    BY <1>0, <1>6 DEF Turns, Sound, CartRequest, GetsOwn, CartDoc
  <2>2. Follows(cartReq'[r].items, cartReq[r].doc.items, wasGone)
    BY <1>0, <1>6, <2>1, FollowsOn DEF Turns, GetsOwn
  <2>3. GetsOwn(r)'
    BY <1>6, <2>1, <2>2, CartConstants DEF GetsOwn, Turns
  <2>4. ReadIsOld(r)'
    BY <1>1, <1>6 DEF Turns
  <2> QED
    BY <2>3, <2>4
<1> QED
  BY <1>2, <1>3, <1>4, <1>5, <1>6, RequestStep

LEMMA VersionInit == CartInit => VersionInv
<1> SUFFICES ASSUME CartInit PROVE VersionInv
  OBVIOUS
<1>1. /\ cartReq \in [CartRequests -> CartRequest] /\ \A r \in CartRequests : cartReq[r] = NoCartRequest
      /\ \A r \in CartRequests : Sound(cartReq[r])
  BY NoRequestSound DEF CartInit, Sound
<1>2. /\ shop \in [Variants -> [condition : {"onSale", "unavailable", "replaced", "deleted"}, stock : Nat]]
      /\ \A v \in Variants : shop[v].condition = "onSale"
  BY CartConstants DEF CartInit
<1>3. CartTypeOK
  BY <1>1, <1>2, CartConstants DEF CartInit, CartTypeOK, Sound, HasOffer
<1> QED
  BY <1>1, <1>2, <1>3 DEF VersionInv, OffSaleWasGone, ReadIsOld, GetsOwn, NoCartRequest

LEMMA VersionInvHolds == CartSpec => []VersionInv
<1>1. VersionInv /\ [CartNext]_cartVars => VersionInv'
  BY StepType, StepGone, StepKnows DEF VersionInv
<1> QED
  BY VersionInit, <1>1, PTL DEF CartSpec

(* Carts and requests keep their shape.                                     *)
THEOREM CartTypeCorrect == CartSpec => []CartTypeOK
<1>1. VersionInv => CartTypeOK
  BY DEF VersionInv
<1> QED
  BY VersionInvHolds, <1>1, PTL

(* However requests interleave, an item leaves a cart only if its product   *)
(* was off sale at some time.                                               *)
LEMMA SameItemsHeld ==
  ASSUME NEW new, NEW old \in CartDoc, SameItems(new, old)
  PROVE  /\ Len(new.items) = Len(old.items) /\ new.items \in Seq(ItemDoc)
         /\ \A k \in 1..Len(old.items) : new.items[k].variant = old.items[k].variant
BY DEF SameItems, SameVariants, CartDoc

Covers(new, old, gone) ==
  \A k \in 1..Len(old) : \/ old[k].variant \in gone
                         \/ \E j \in 1..Len(new) : new[j].variant = old[k].variant

LEMMA StepCovers ==
  ASSUME VersionInv, [CartNext]_cartVars, NEW u \in Customers, cart[u] # None
  PROVE  cart'[u] \in CartDoc /\ Covers(cart'[u].items, cart[u].items, wasGone)
<1> DEFINE Goal == cart'[u] \in CartDoc /\ Covers(cart'[u].items, cart[u].items, wasGone)
           old == cart[u].items
<1>0. cart[u] \in CartDoc /\ old \in Seq(ItemDoc)
  BY DEF VersionInv, CartTypeOK, CartDoc
<1>1. ASSUME cart'[u] = cart[u] PROVE Goal
  BY <1>0, <1>1 DEF Covers
<1>2. ASSUME SameItems(cart'[u], cart[u]) PROVE Goal
  BY <1>0, <1>2, SameItemsHeld DEF Covers, SameItems
<1>3. ASSUME NEW item \in ItemDoc, cart'[u] = Push(cart[u], item) PROVE Goal
  <2>1. /\ Push(cart[u], item) \in CartDoc
        /\ Len(cart'[u].items) = Len(old) + 1
        /\ \A k \in 1..Len(old) : cart'[u].items[k] = old[k]
    <3>1. /\ Push(cart[u], item) \in CartDoc
          /\ Len(Push(cart[u], item).items) = Len(cart[u].items) + 1
          /\ \A k \in 1..Len(cart[u].items) : Push(cart[u], item).items[k] = cart[u].items[k]
      BY <1>0, PushDoes
    <3> QED
      BY <1>3, <3>1
  <2> QED
    BY <1>0, <1>3, <2>1 DEF Covers
<1>4. ASSUME NEW r \in CartRequests, SaveAdd(r) PROVE Goal
  <2>1. cartReq[r].user \in Customers
    BY <1>4 DEF VersionInv, CartTypeOK, SaveAdd
  <2>2. CASE u # cartReq[r].user
    BY <1>1, <1>4, <2>1, <2>2, SaveAddDoes
  <2>3. CASE u = cartReq[r].user
    <3> HIDE DEF Goal
    <3> QED
      BY <1>1, <1>2, <1>3, <1>4, <2>3, SaveAddDoes
  <2> QED
    BY <2>2, <2>3
<1>5. ASSUME NEW r \in CartRequests, GetSave(r) PROVE Goal
  <2>1. cartReq[r].user \in Customers
    BY <1>5 DEF VersionInv, CartTypeOK, GetSave
  <2>2. CASE u # cartReq[r].user
    BY <1>1, <1>5, <2>1, <2>2, GetSaveDoes
  <2>3. CASE u = cartReq[r].user
    <3>1. ASSUME SameVersion(cart[u], cartReq[r].doc), cart'[u] \in CartDoc,
                 cart'[u].items = cartReq[r].items
          PROVE  Goal
      <4>1. cartReq[r].doc # None /\ Follows(cartReq[r].items, cartReq[r].doc.items, wasGone)
        BY <1>5 DEF VersionInv, GetsOwn, GetSave
      <4>2. SameVariants(old, cartReq[r].doc.items)
        BY <2>3, <3>1, <4>1 DEF VersionInv, ReadIsOld
      <4>3. ASSUME NEW k \in 1..Len(old)
            PROVE  \/ old[k].variant \in wasGone
                   \/ \E j \in 1..Len(cartReq[r].items) : cartReq[r].items[j].variant = old[k].variant
        <5>1. k \in 1..Len(cartReq[r].doc.items) /\ old[k].variant = cartReq[r].doc.items[k].variant
          BY <4>2 DEF SameVariants
        <5> QED
          BY <4>1, <5>1 DEF Follows
      <4> QED
        BY <3>1, <4>3 DEF Covers
    <3> HIDE DEF Goal
    <3> QED
      BY <1>1, <1>2, <1>5, <2>3, <3>1, GetSaveDoes
  <2> QED
    BY <2>2, <2>3
<1>6. ASSUME UNCHANGED cart PROVE Goal
  BY <1>1, <1>6
<1> HIDE DEF Goal
<1>7. Goal
  <2>1. UNCHANGED cart \/ \E r \in CartRequests : SaveAdd(r) \/ GetSave(r)
    BY CartMoves
  <2> QED
    BY <1>4, <1>5, <1>6, <2>1
<1> QED
  BY <1>7 DEF Goal

(* However requests interleave, an item leaves a cart only if its product   *)
(* was off sale: the whole-list write of getCart is conditional on __v, and *)
(* every push raises it.                                                    *)
THEOREM ItemsAreNotLost == CartSpec => NothingLost
<1>1. VersionInv /\ [CartNext]_cartVars
        => [\A u \in Customers : Held(u) \ Held(u)' \subseteq wasGone]_cartVars
  <2> SUFFICES ASSUME VersionInv, [CartNext]_cartVars, NEW u \in Customers
               PROVE  Held(u) \ Held(u)' \subseteq wasGone
    OBVIOUS
  <2>1. CASE cart[u] = None
    <3>1. Held(u) = {}
      BY <2>1 DEF Held, ItemsOf
    <3> QED
      BY <3>1
  <2>2. CASE cart[u] # None
    <3>1. /\ cart[u] \in CartDoc /\ cart'[u] \in CartDoc
          /\ Covers(cart'[u].items, cart[u].items, wasGone)
      BY <2>2, StepCovers DEF VersionInv, CartTypeOK
    <3>2. /\ DOMAIN cart[u].items = 1..Len(cart[u].items)
          /\ DOMAIN cart'[u].items = 1..Len(cart'[u].items)
      BY <3>1 DEF CartDoc
    <3>3. ItemsOf(u) = cart[u].items /\ ItemsOf(u)' = cart'[u].items
      BY <3>1, <2>2, CartConstants DEF ItemsOf
    <3>4. /\ Held(u) = {cart[u].items[k].variant : k \in 1..Len(cart[u].items)}
          /\ Held(u)' = {cart'[u].items[k].variant : k \in 1..Len(cart'[u].items)}
      BY <3>2, <3>3 DEF Held
    <3> QED
      BY <3>1, <3>4 DEF Covers
  <2> QED
    BY <2>1, <2>2
<1> QED
  BY VersionInvHolds, <1>1, PTL DEF CartSpec, NothingLost

-----------------------------------------------------------------------------
(* A write by position lands on the element it was computed for.            *)
LEMMA StepOthers ==
  ASSUME VersionInv, NEW r \in CartRequests, CartStep(r)
  PROVE  /\ \A q \in CartRequests : q # r => cartReq'[q] = cartReq[q]
         /\ \A w \in Customers : w # cartReq[r].user => cart'[w] = cart[w]
         /\ \/ cartReq'[r].user = None
            \/ UNCHANGED cart /\ cartReq'[r].user = cartReq[r].user
<1>0. CartTypeOK /\ OffSaleWasGone /\ GetsOwn(r) /\ NoCartRequest.user = None
  BY NoRequestSound DEF VersionInv
<1>1. CASE ReadVariant(r)
  <2>1. UNCHANGED cart
    BY <1>1 DEF ReadVariant
  <2> QED
    BY <1>0, <1>1, <2>1, ReadProductDoes
<1>2. CASE ReadOffer(r)
  <2>1. UNCHANGED cart
    BY <1>2 DEF ReadOffer
  <2> QED
    BY <1>0, <1>2, <2>1, ReadOfferDoes
<1>3. CASE ReadCart(r)
  <2>1. UNCHANGED cart
    BY <1>3 DEF ReadCart
  <2> QED
    BY <1>0, <1>3, <2>1, ReadCartDoes
<1>4. CASE GetItem(r)
  <2>1. UNCHANGED cart
    BY <1>4 DEF GetItem
  <2> QED
    BY <1>0, <1>4, <2>1, GetItemDoes
<1>5. CASE SaveAdd(r) \/ GetSave(r)
  <2>1. cartReq' = [cartReq EXCEPT ![r] = NoCartRequest] /\ cartReq[r].user \in Customers
    BY <1>0, <1>5 DEF SaveAdd, GetSave, CartDone, CartTypeOK
  <2>2. /\ \A q \in CartRequests : q # r => cartReq'[q] = cartReq[q]
        /\ cartReq'[r].user = None
    BY <1>0, <2>1 DEF CartTypeOK
  <2>3. \A w \in Customers : w # cartReq[r].user => cart'[w] = cart[w]
    BY <1>5, <2>1, SaveAddDoes, GetSaveDoes
  <2> QED
    BY <2>2, <2>3
<1> QED
  BY <1>1, <1>2, <1>3, <1>4, <1>5 DEF CartStep

(* A call starts requests, and only requests that wait for one.             *)
LEMMA CallOthers ==
  ASSUME VersionInv, CartCall, NEW r \in CartRequests
  PROVE  \/ cartReq'[r] = cartReq[r]
         \/ cartReq'[r].pc # "idle"
<1>0. CartTypeOK /\ cartReq \in [CartRequests -> CartRequest]
  BY DEF VersionInv, CartTypeOK
<1>1. ASSUME NEW q \in CartRequests, NEW u \in Customers, NEW v \in Variants, NEW n \in Asked,
             CallAdd(q, u, v, n)
      PROVE  cartReq'[r] = cartReq[r] \/ cartReq'[r].pc # "idle"
  <2>1. n \in Nat
    BY CartConstants
  <2>2. cartReq' = [cartReq EXCEPT ![q] = Adding(u, v, n)]
    BY <1>1 DEF CallAdd, Adding
  <2> QED
    BY <1>0, <2>1, <2>2, CallSound
<1>2. ASSUME NEW q \in CartRequests, NEW u \in Customers, CallGet(q, u)
      PROVE  cartReq'[r] = cartReq[r] \/ cartReq'[r].pc # "idle"
  BY <1>0, <1>2, CallGetDoes
<1>3. ASSUME NEW u \in Customers, CallMerge(u)
      PROVE  cartReq'[r] = cartReq[r] \/ cartReq'[r].pc # "idle"
  <2>1. PICK wanted \in [CartRequests -> Variants], n \in Asked :
          cartReq' = [q \in CartRequests |-> Adding(u, wanted[q], n)]
    BY <1>3 DEF CallMerge, Adding
  <2>2. n \in Nat
    BY CartConstants
  <2> QED
    BY <2>1, <2>2, CallSound
<1> QED
  BY <1>1, <1>2, <1>3 DEF CartCall

LEMMA OnlySaveEnds ==
  ASSUME VersionInv, [CartNext]_cartVars, NEW r \in CartRequests,
         cartReq[r].pc = "save", cartReq'[r].pc = "idle"
  PROVE  SaveAdd(r)
<1>1. ~CartCall /\ ~Seller /\ ~UNCHANGED cartVars
  BY CallOthers DEF Seller, SellerUpdates, SellerDeletes, OfferExpires, cartVars
<1>2. PICK q \in CartRequests : CartStep(q)
  BY <1>1, NextIs
<1>3. q = r
  BY <1>2, StepOthers
<1> QED
  BY <1>2, <1>3 DEF CartStep, ReadVariant, ReadOffer, ReadCart, GetItem, GetSave

(* A write by position of addToCart lands on an element of its own variant, *)
(* since every write that shifts positions raises the version it checks.    *)
THEOREM WritesStayInPlace == CartSpec => WritesHitTheirItem
<1> DEFINE Hits(r, u) == cartReq[r].pc = "save" /\ cartReq[r].user = u /\ cartReq'[r].pc = "idle" =>
             \A k \in DOMAIN ItemsOf(u) :
               ItemsOf(u)'[k] # ItemsOf(u)[k] => ItemsOf(u)[k].variant = cartReq[r].variant
<1>1. ASSUME VersionInv, [CartNext]_cartVars, NEW r \in CartRequests, NEW u \in Customers
      PROVE  Hits(r, u)
  <2> SUFFICES ASSUME cartReq[r].pc = "save", cartReq[r].user = u, cartReq'[r].pc = "idle",
                      NEW k \in DOMAIN ItemsOf(u), ItemsOf(u)'[k] # ItemsOf(u)[k]
               PROVE  ItemsOf(u)[k].variant = cartReq[r].variant
    OBVIOUS
  <2>1. SaveAdd(r)
    BY <1>1, OnlySaveEnds
  <2>2. cart[u] \in CartDoc /\ ItemsOf(u) = cart[u].items /\ k \in 1..Len(cart[u].items)
    <3>1. cart[u] # None
      BY DEF ItemsOf
    <3>2. cart[u] \in CartDoc
      BY <1>1, <3>1 DEF VersionInv, CartTypeOK
    <3> QED
      BY <3>1, <3>2 DEF ItemsOf, CartDoc
  <2>3. cart'[u] \in CartDoc /\ ItemsOf(u)' = cart'[u].items
    <3>1. cart'[u] \in CartDoc
      BY <1>1, <2>2, StepCovers, CartConstants
    <3> QED
      BY <3>1, CartConstants DEF ItemsOf
  <2>4. cart'[u].items[k] # cart[u].items[k]
    BY <2>2, <2>3
  <2>5. ASSUME NEW item \in ItemDoc, cart'[u] = Push(cart[u], item) PROVE FALSE
    <3>1. \A m \in 1..Len(cart[u].items) : Push(cart[u], item).items[m] = cart[u].items[m]
      BY <2>2, PushDoes
    <3> QED
      BY <2>2, <2>4, <2>5, <3>1
  <2>6. \/ cart'[u] = cart[u]
        \/ \E item \in ItemDoc : cart'[u] = Push(cart[u], item)
        \/ \A m \in 1..Len(cart[u].items) :
             \/ cart'[u].items[m] = cart[u].items[m]
             \/ cart[u].items[m].variant = cartReq[r].variant
    <3>1. \/ cart'[u] = cart[u]
          \/ cart[u] = None
          \/ \E item \in ItemDoc : item.variant = cartReq[r].variant /\ cart'[u] = Push(cart[u], item)
          \/ \A m \in 1..Len(cart[u].items) :
               \/ cart'[u].items[m] = cart[u].items[m]
               \/ cart[u].items[m].variant = cartReq[r].variant
      BY <1>1, <2>1, SaveAddDoes
    <3> QED
      BY <2>2, <3>1, CartConstants
  <2> QED
    BY <2>2, <2>4, <2>5, <2>6
<1>2. VersionInv /\ [CartNext]_cartVars => [\A r \in CartRequests, u \in Customers : Hits(r, u)]_cartVars
  BY <1>1
<1> QED
  BY VersionInvHolds, <1>2, PTL DEF CartSpec, WritesHitTheirItem

-----------------------------------------------------------------------------
(* A customer with one request at a time.                                   *)
LEMMA PushDistinct ==
  ASSUME NEW d \in CartDoc, NEW item \in ItemDoc, Distinct(d.items),
         \A k \in 1..Len(d.items) : d.items[k].variant # item.variant
  PROVE  Distinct(Push(d, item).items)
<1>1. /\ Push(d, item).items \in Seq(ItemDoc)
      /\ Len(Push(d, item).items) = Len(d.items) + 1
      /\ \A k \in 1..Len(d.items) : Push(d, item).items[k] = d.items[k]
      /\ Push(d, item).items[Len(d.items) + 1] = item
  BY PushDoes DEF CartDoc
<1>2. DOMAIN d.items = 1..Len(d.items) /\ Len(d.items) \in Nat
  BY DEF CartDoc
<1> DEFINE l == Push(d, item).items
           n == Len(d.items) + 1
<1>3. DOMAIN l = 1..n /\ \A k \in 1..n : k # n => k \in 1..Len(d.items)
  BY <1>1, <1>2
<1> SUFFICES ASSUME NEW j \in 1..n, NEW k \in 1..n, l[j].variant = l[k].variant
             PROVE  j = k
  BY <1>3 DEF Distinct
<1>4. l[n] = item /\ \A m \in 1..Len(d.items) : l[m] = d.items[m]
  BY <1>1
<1> HIDE DEF l, n
<1> QED
  BY <1>2, <1>3, <1>4 DEF Distinct

LEMMA DistinctKept ==
  ASSUME NEW new, NEW old \in CartDoc, SameItems(new, old), Distinct(old.items)
  PROVE  Distinct(new.items)
<1>1. DOMAIN old.items = 1..Len(old.items) /\ DOMAIN new.items = 1..Len(new.items)
  BY SameItemsHeld DEF CartDoc
<1> QED
  BY <1>1, SameItemsHeld DEF Distinct

OneItem(u) == Distinct(ItemsOf(u))

LEMMA AloneCart ==
  ASSUME AloneInv, [CartNext]_cartVars, NEW u \in Customers \ cartOverlapped
  PROVE  OneItem(u)'
<1> DEFINE Goal == OneItem(u)'
<1>0. VersionInv /\ OneItem(u)
  BY DEF AloneInv, OneItemPerVariant, OneItem, Distinct
<1>1. cart[u] # None => cart[u] \in CartDoc /\ Distinct(cart[u].items)
  BY <1>0 DEF VersionInv, CartTypeOK, OneItem, ItemsOf
<1>2. ASSUME cart'[u] = cart[u] PROVE Goal
  BY <1>0, <1>2 DEF OneItem, ItemsOf
<1>3. ASSUME cart'[u] # None, Distinct(cart'[u].items) PROVE Goal
  BY <1>3 DEF OneItem, ItemsOf
<1>4. ASSUME cart[u] \in CartDoc, SameItems(cart'[u], cart[u]) PROVE Goal
  <2>1. cart'[u] # None
    BY <1>4, CartConstants DEF SameItems
  <2> QED
    BY <1>1, <1>3, <1>4, <2>1, DistinctKept, CartConstants
<1>5. ASSUME NEW r \in CartRequests, SaveAdd(r), u = cartReq[r].user PROVE Goal
  <2>1. cartReq[r].doc = cart[u]
    BY <1>5 DEF AloneInv, AloneSees, SaveAdd
  <2>2. ASSUME NEW item \in ItemDoc, cart'[u] = NewDoc(item) PROVE Goal
    <3>1. cart'[u] # None /\ cart'[u].items = <<item>>
      BY <2>2, NewDocDoes, CartConstants
    <3>2. Distinct(<<item>>)
      BY DEF Distinct
    <3> QED
      BY <1>3, <3>1, <3>2
  <2>3. ASSUME NEW item \in ItemDoc, item.variant = cartReq[r].variant, cart[u] \in CartDoc,
               Position(cartReq[r].doc.items, cartReq[r].variant) = 0,
               cart'[u] = Push(cart[u], item)
        PROVE  Goal
    <3>1. \A k \in 1..Len(cart[u].items) : cart[u].items[k].variant # item.variant
      <4>1. cart[u].items \in Seq(ItemDoc)
        BY <2>3 DEF CartDoc
      <4> QED
        BY <2>1, <2>3, <4>1, PositionFinds
    <3>2. Distinct(Push(cart[u], item).items)
      BY <1>1, <2>3, <3>1, PushDistinct, CartConstants
    <3>3. cart'[u] # None
      BY <2>3, PushDoes, CartConstants
    <3> QED
      BY <1>3, <2>3, <3>2, <3>3
  <2> HIDE DEF Goal
  <2> QED
    BY <1>0, <1>2, <1>4, <1>5, <2>2, <2>3, SaveAddDoes
<1>6. ASSUME NEW r \in CartRequests, GetSave(r), u = cartReq[r].user PROVE Goal
  <2>1. Distinct(cartReq[r].items)
    BY <1>6 DEF AloneInv, AloneSees, GetSave
  <2>2. ASSUME cart'[u] \in CartDoc, cart'[u].items = cartReq[r].items PROVE Goal
    BY <1>3, <2>1, <2>2, CartConstants
  <2> HIDE DEF Goal
  <2> QED
    BY <1>0, <1>2, <1>4, <1>6, <2>2, GetSaveDoes
<1>7. ASSUME NEW r \in CartRequests, SaveAdd(r) \/ GetSave(r), u # cartReq[r].user PROVE Goal
  <2>1. CartStep(r)
    BY <1>7 DEF CartStep
  <2> QED
    BY <1>0, <1>2, <1>7, <2>1, StepOthers
<1>8. ASSUME UNCHANGED cart PROVE Goal
  BY <1>2, <1>8
<1> HIDE DEF Goal
<1>9. Goal
  BY <1>5, <1>6, <1>7, <1>8, CartMoves
<1> QED
  BY <1>9 DEF Goal

(* Whoever has not overlapped has at most one request under way.            *)
LEMMA CallUsers ==
  ASSUME AloneInv, CartCall, NEW u \in Customers \ cartOverlapped'
  PROVE  /\ u \notin cartOverlapped
         /\ \A q, r \in CartRequests : cartReq'[q].user = u /\ cartReq'[r].user = u => q = r
<1>0. /\ CartTypeOK /\ VersionInv
      /\ u \in Customers \ cartOverlapped =>
           \A q, r \in CartRequests : cartReq[q].user = u /\ cartReq[r].user = u => q = r
  BY DEF AloneInv, VersionInv, AloneSees
<1>1. ASSUME NEW x \in CartRequests, NEW w \in Customers, Calling(w),
             \A q \in CartRequests : q # x => cartReq'[q] = cartReq[q],
             cartReq' = cartReq \/ cartReq'[x].user = w
      PROVE  /\ u \notin cartOverlapped
             /\ \A q, r \in CartRequests : cartReq'[q].user = u /\ cartReq'[r].user = u => q = r
  <2>1. u \notin cartOverlapped
    BY <1>1 DEF Calling
  <2>2. u = w => \A q \in CartRequests : cartReq[q].user # u
    BY <1>1 DEF Calling
  <2> QED
    BY <1>0, <1>1, <2>1, <2>2
<1>2. ASSUME NEW x \in CartRequests, NEW w \in Customers, NEW v \in Variants, NEW n \in Asked,
             CallAdd(x, w, v, n)
      PROVE  /\ Calling(w) /\ \A q \in CartRequests : q # x => cartReq'[q] = cartReq[q]
             /\ cartReq'[x].user = w
  <2>1. n \in Nat
    BY CartConstants
  <2>2. cartReq' = [cartReq EXCEPT ![x] = Adding(w, v, n)] /\ Calling(w)
    BY <1>2 DEF CallAdd, Adding
  <2>3. Adding(w, v, n).user = w
    BY <2>1, CallSound
  <2> QED
    BY <1>0, <2>2, <2>3 DEF CartTypeOK
<1>3. ASSUME NEW x \in CartRequests, NEW w \in Customers, CallGet(x, w)
      PROVE  /\ Calling(w) /\ \A q \in CartRequests : q # x => cartReq'[q] = cartReq[q]
             /\ cartReq' = cartReq \/ cartReq'[x].user = w
  <2>1. Calling(w)
    BY <1>3 DEF CallGet
  <2> QED
    BY <1>0, <1>3, <2>1, CallGetDoes
<1>4. ASSUME NEW w \in Customers, CallMerge(w)
      PROVE  /\ u \notin cartOverlapped
             /\ \A q, r \in CartRequests : cartReq'[q].user = u /\ cartReq'[r].user = u => q = r
  <2>1. PICK wanted \in [CartRequests -> Variants], n \in Asked :
          cartReq' = [r \in CartRequests |-> Adding(w, wanted[r], n)]
    BY <1>4 DEF CallMerge, Adding
  <2>2. n \in Nat
    BY CartConstants
  <2>3. \A q \in CartRequests : cartReq'[q].user = w
    BY <2>1, <2>2, CallSound
  <2>4. cartOverlapped' = cartOverlapped \cup {w}
    BY <1>4 DEF CallMerge
  <2> QED
    BY <2>3, <2>4
<1> QED
  BY <1>1, <1>2, <1>3, <1>4 DEF CartCall

LEMMA StepUsers ==
  ASSUME AloneInv, [CartNext]_cartVars, NEW u \in Customers \ cartOverlapped'
  PROVE  /\ u \notin cartOverlapped
         /\ \A q, r \in CartRequests : cartReq'[q].user = u /\ cartReq'[r].user = u => q = r
<1>0. /\ VersionInv /\ u # None
      /\ u \in Customers \ cartOverlapped =>
           \A q, r \in CartRequests : cartReq[q].user = u /\ cartReq[r].user = u => q = r
  BY CartConstants DEF AloneInv, AloneSees
<1>1. ASSUME NEW x \in CartRequests, CartStep(x)
      PROVE  /\ u \notin cartOverlapped
             /\ \A q, r \in CartRequests : cartReq'[q].user = u /\ cartReq'[r].user = u => q = r
  <2>1. cartOverlapped' = cartOverlapped
    BY <1>1, StepLeaves
  <2>2. \A q \in CartRequests : cartReq'[q].user = u => cartReq[q].user = u
    BY <1>0, <1>1, StepOthers
  <2> QED
    BY <1>0, <2>1, <2>2
<1>2. Seller \/ UNCHANGED cartVars => UNCHANGED <<cartReq, cartOverlapped>>
  BY DEF Seller, SellerUpdates, SellerDeletes, OfferExpires, cartVars
<1> QED
  BY <1>0, <1>1, <1>2, CallUsers, NextIs

LEMMA StepAlone ==
  ASSUME AloneInv, [CartNext]_cartVars, NEW r \in CartRequests
  PROVE  AloneSees(r)'
<1> SUFFICES ASSUME cartReq'[r].user \in Customers \ cartOverlapped'
             PROVE  /\ \A q \in CartRequests : cartReq'[q].user = cartReq'[r].user => q = r
                    /\ cartReq'[r].pc = "save" => cartReq'[r].doc = cart'[cartReq'[r].user]
                    /\ cartReq'[r].pc \in {"getItem", "getSave"} =>
                         Distinct(cartReq'[r].items) /\ cartReq'[r].doc = cart'[cartReq'[r].user]
  BY DEF AloneSees
<1> DEFINE Sees == /\ cartReq'[r].pc = "save" => cartReq'[r].doc = cart'[cartReq'[r].user]
                   /\ cartReq'[r].pc \in {"getItem", "getSave"} =>
                        Distinct(cartReq'[r].items) /\ cartReq'[r].doc = cart'[cartReq'[r].user]
<1>1. PICK u \in Customers : u = cartReq'[r].user /\ u \notin cartOverlapped'
  OBVIOUS
<1>2. /\ u \notin cartOverlapped
      /\ \A q \in CartRequests : cartReq'[q].user = u => q = r
  BY <1>1, StepUsers
<1>3. VersionInv /\ AloneSees(r) /\ OneItem(u) /\ cartReq[r] \in CartRequest
  BY <1>2 DEF AloneInv, OneItemPerVariant, OneItem, Distinct, VersionInv, CartTypeOK
<1>4. ASSUME cartReq[r].user = u PROVE UNCHANGED cart \/ cart'[u] = cart[u]
  <2>1. ASSUME NEW x \in CartRequests, SaveAdd(x) \/ GetSave(x), cart'[u] # cart[u] PROVE FALSE
    <3>1. CartStep(x)
      BY <2>1 DEF CartStep
    <3>2. cartReq[x].user = u
      BY <1>3, <2>1, <3>1, StepOthers
    <3>3. x = r
      BY <1>2, <1>3, <1>4, <3>2 DEF AloneSees
    <3>4. cartReq'[r].user = None
      BY <1>3, <2>1, <3>1, <3>3, StepOthers
    <3> QED
      BY <1>1, <3>4, CartConstants
  <2> QED
    BY <2>1, CartMoves
<1>5. ASSUME cartReq'[r] = cartReq[r] PROVE Sees
  <2>1. cart'[u] = cart[u]
    BY <1>1, <1>4, <1>5
  <2> QED
    BY <1>1, <1>2, <1>3, <1>5, <2>1 DEF AloneSees
<1>6. ASSUME cartReq'[r] = NoCartRequest PROVE Sees
  BY <1>6, NoRequestSound
<1>7. ASSUME Reads(r) PROVE Sees
  BY <1>7 DEF Reads
<1>8. ASSUME Loads(r) PROVE Sees
  BY <1>8 DEF Loads
<1>9. ASSUME Opens(r) PROVE Sees
  <2>1. /\ cartReq'[r].doc = cart[u] /\ cart' = cart /\ cart[u] \in CartDoc
        /\ cartReq'[r].items = cart[u].items /\ cartReq'[r].pc # "save"
    BY <1>1, <1>9 DEF Opens
  <2>2. Distinct(cart[u].items)
    BY <1>3, <2>1, CartConstants DEF OneItem, ItemsOf
  <2> QED
    BY <1>1, <2>1, <2>2
<1>10. ASSUME Turns(r) PROVE Sees
  BY <1>1, <1>2, <1>3, <1>10 DEF Turns, AloneSees
<1> HIDE DEF Sees
<1>11. Sees
  BY <1>3, <1>5, <1>6, <1>7, <1>8, <1>9, <1>10, RequestStep
<1> QED
  BY <1>1, <1>2, <1>11 DEF Sees

(* A customer who makes one request at a time never holds a variant twice.  *)
THEOREM NoVariantTwice == CartSpec => []OneItemPerVariant
<1>1. CartInit => AloneInv
  <2> SUFFICES ASSUME CartInit PROVE AloneInv
    OBVIOUS
  <2>1. /\ \A u \in Customers : ItemsOf(u) = <<>>
        /\ \A r \in CartRequests : cartReq[r] = NoCartRequest
    BY DEF CartInit, ItemsOf
  <2>2. \A r \in CartRequests : AloneSees(r)
    BY <2>1, NoRequestSound, CartConstants DEF AloneSees
  <2>3. OneItemPerVariant
    BY <2>1 DEF OneItemPerVariant
  <2> QED
    BY <2>2, <2>3, VersionInit DEF AloneInv
<1>2. AloneInv /\ [CartNext]_cartVars => AloneInv'
  <2> SUFFICES ASSUME AloneInv, [CartNext]_cartVars PROVE AloneInv'
    OBVIOUS
  <2>1. VersionInv'
    <3>1. VersionInv
      BY DEF AloneInv
    <3> QED
      BY <3>1, StepType, StepGone, StepKnows DEF VersionInv
  <2>2. \A u \in Customers \ cartOverlapped' : OneItem(u)'
    <3> SUFFICES ASSUME NEW u \in Customers \ cartOverlapped' PROVE OneItem(u)'
      OBVIOUS
    <3>1. u \in Customers \ cartOverlapped
      BY StepUsers
    <3> QED
      BY <3>1, AloneCart
  <2>3. OneItemPerVariant'
    BY <2>2 DEF OneItem, OneItemPerVariant, Distinct
  <2>4. \A r \in CartRequests : AloneSees(r)'
    BY StepAlone
  <2> QED
    BY <2>1, <2>3, <2>4 DEF AloneInv
<1>3. AloneInv => OneItemPerVariant
  BY DEF AloneInv
<1> QED
  BY <1>1, <1>2, <1>3, PTL DEF CartSpec
=============================================================================
