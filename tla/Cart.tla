-------------------------------- MODULE Cart --------------------------------
(***************************************************************************)
(* The cart of a customer: addToCart and getCart of                        *)
(* services/cartService.js and the merge of a guest's cart at registration *)
(* (asyncMapAddToCart of services/authService.js) over the Mongo           *)
(* collection of models/Cart.js.                                           *)
(*                                                                         *)
(* A request is a sequence of awaited reads and one awaited save; each is  *)
(* an action here.  save writes only what the request changed in the       *)
(* document it had read: fields of an element by position, under the       *)
(* condition that the version is still the one read; a push without        *)
(* condition, raising the version; a list with an element removed whole,   *)
(* under the condition and raising the version.                            *)
(***************************************************************************)
EXTENDS Integers, SequencesExt, Database

CONSTANTS
  Customers, Variants, CartRequests,
  Asked,         \* the quantities customers ask for
  Stocks,        \* the quantities sellers have of a variant
  Price,         \* [Variants -> Nat]
  OfferStock,    \* [Variants -> Nat]: 0 when the product has no offer
  Discount,      \* [Variants -> Nat]: the discount of one unit in the offer
  Conditions,    \* the conditions of a variant the sellers bring about
  MaxCalls,      \* bound: how many requests customers make
  MaxSellerEdits \* bound: how many changes sellers make

ItemDoc == [variant : Variants, quantity : Nat, discount : Nat,
            discountQuantity : Nat, total : Int]
CartDoc == [items : Seq(ItemDoc), version : Nat, payable : Int]
CartRequest == [pc : {"idle", "readProduct", "readOffer", "readCart", "save", "getItem",
                      "getSave"},
                user : Customers \cup {None}, variant : Variants \cup {None},
                quantity : Nat, discount : Nat, discountQuantity : Nat,
                doc : CartDoc \cup {None}, items : Seq(ItemDoc), i : Nat, payable : Int]

ASSUME CartConstants ==
  /\ Asked \subseteq Nat \ {0} /\ Stocks \subseteq Nat
  /\ Price \in [Variants -> Nat]
  /\ OfferStock \in [Variants -> Nat] /\ Discount \in [Variants -> Nat]
  /\ Conditions \subseteq {"onSale", "unavailable", "replaced", "deleted"}
  /\ None \notin Customers /\ None \notin Variants /\ None \notin CartDoc
  /\ MaxCalls \in Nat /\ MaxSellerEdits \in Nat

VARIABLES
  shop,           \* [Variants -> [condition, stock]]: the products
  live,           \* [Variants -> BOOLEAN]: the product's offer has not expired
  cart,           \* [Users -> document or None]
  cartReq,        \* [CartRequests -> the locals of a request]
  wasGone,        \* the variants that were off sale at some time
  cartOverlapped,  \* customers who had two requests under way at once
  calls, sellerEdits

world  == <<shop, live, wasGone, sellerEdits>>
cartVars == <<world, cart, cartReq, cartOverlapped, calls>>

NoCartRequest == [pc |-> "idle", user |-> None, variant |-> None, quantity |-> 0,
                  discount |-> 0, discountQuantity |-> 0, doc |-> None,
                  items |-> <<>>, i |-> 0, payable |-> 0]

HasOffer(v) == OfferStock[v] > 0
Fields == {"variant", "quantity", "discount", "discountQuantity", "total"}

(* Slips a change to the code could make; no specification uses them. *)
NeverFound(items, v) == 0
PushKeepsVersion(doc, item) == [doc EXCEPT !.items = Append(@, item)]
Unchecked(stored, read) == TRUE

-----------------------------------------------------------------------------
Least(a, b) == IF a <= b THEN a ELSE b

(* How many units the offer covers. *)
Units(v, q) == Least(OfferStock[v], q)

Item(v, q, d, n) == [variant |-> v, quantity |-> q, discount |-> d,
                     discountQuantity |-> n, total |-> Price[v] * q - n * d]

(* findIndex: the first position of the variant, 0 for none. *)
Position(items, v) ==
  SelectInSeq(items, LAMBDA item : item.variant = v)

NewDoc(item) == [items |-> <<item>>, version |-> 0, payable |-> 0]
Push(doc, item) == [doc EXCEPT !.items = Append(@, item), !.version = @ + 1]

(* The fields of an element that save sends: those the request changed. *)
Sent(read, mine) ==
  [k \in DOMAIN mine |-> {f \in Fields : mine[k][f] # read[k][f]}]
Touches(read, mine) == \E k \in DOMAIN mine : Sent(read, mine)[k] # {}

SameVersion(stored, read) == stored.version = read.version

SetFields(stored, read, mine, p) ==
  [stored EXCEPT !.payable = p,
     !.items = [k \in DOMAIN @ |-> [f \in Fields |->
       IF k \in DOMAIN mine /\ f \in Sent(read.items, mine)[k]
       THEN mine[k][f] ELSE @[k][f]]]]

SetList(stored, read, mine, p) ==
  [stored EXCEPT !.items = mine, !.version = @ + 1, !.payable = p]

-----------------------------------------------------------------------------
CartInit ==
  /\ shop \in [Variants -> [condition : {"onSale"}, stock : Stocks]]
  /\ live = [v \in Variants |-> HasOffer(v)]
  /\ cart = [u \in Customers |-> None]
  /\ cartReq = [r \in CartRequests |-> NoCartRequest]
  /\ wasGone = {} /\ cartOverlapped = {}
  /\ calls = 0 /\ sellerEdits = 0

Calling(u) ==
  cartOverlapped' = IF \E r \in CartRequests : cartReq[r].user = u
                    THEN cartOverlapped \cup {u} ELSE cartOverlapped
CartDone(r) == cartReq' = [cartReq EXCEPT ![r] = NoCartRequest]

(* POST /cart/add: joi has checked that the quantity is at least 1. *)
CallAdd(r, u, v, q) ==
  /\ cartReq[r].pc = "idle" /\ calls < MaxCalls
  /\ calls' = calls + 1
  /\ cartReq' = [cartReq EXCEPT ![r] = [NoCartRequest EXCEPT
       !.pc = "readProduct", !.user = u, !.variant = v, !.quantity = q]]
  /\ Calling(u)
  /\ UNCHANGED <<world, cart>>

(* Registration adds all items of the guest's cart at once, one request each. *)
CallMerge(u) ==
  /\ cart[u] = None /\ calls = 0
  /\ calls' = MaxCalls
  /\ \E wanted \in [CartRequests -> Variants], q \in Asked :
       cartReq' = [r \in CartRequests |-> [NoCartRequest EXCEPT
         !.pc = "readProduct", !.user = u, !.variant = wanted[r], !.quantity = q]]
  /\ cartOverlapped' = cartOverlapped \cup {u}
  /\ UNCHANGED <<world, cart>>

(* The product and its variant must be on sale; the stock caps the quantity. *)
ReadVariant(r) ==
  LET p == shop[cartReq[r].variant] IN
  /\ cartReq[r].pc = "readProduct"
  /\ IF p.condition # "onSale" \/ p.stock = 0
     THEN CartDone(r)
     ELSE cartReq' = [cartReq EXCEPT
            ![r].quantity = Least(p.stock, @),
            ![r].pc = IF HasOffer(cartReq[r].variant) THEN "readOffer" ELSE "readCart"]
  /\ UNCHANGED <<world, cart, cartOverlapped, calls>>

ReadOffer(r) ==
  LET v == cartReq[r].variant IN
  /\ cartReq[r].pc = "readOffer"
  /\ cartReq' = [cartReq EXCEPT ![r].pc = "readCart",
       ![r].discount = IF live[v] THEN Discount[v] ELSE 0,
       ![r].discountQuantity = IF live[v] THEN Units(v, cartReq[r].quantity) ELSE 0]
  /\ UNCHANGED <<world, cart, cartOverlapped, calls>>

ReadCart(r) ==
  /\ cartReq[r].pc = "readCart"
  /\ cartReq' = [cartReq EXCEPT ![r].doc = cart[cartReq[r].user], ![r].pc = "save"]
  /\ UNCHANGED <<world, cart, cartOverlapped, calls>>

(***************************************************************************)
(* The save of addToCart.  The unique index on userId refuses a second     *)
(* document; a stale version refuses the fields; nothing refuses a push.   *)
(***************************************************************************)
SaveAdd(r) ==
  LET u == cartReq[r].user
      v == cartReq[r].variant
      doc == cartReq[r].doc
      item == Item(v, cartReq[r].quantity, cartReq[r].discount,
                   cartReq[r].discountQuantity)
      mine == [doc.items EXCEPT ![Position(doc.items, v)] = item]
  IN
  /\ cartReq[r].pc = "save"
  /\ \/ /\ doc = None
        /\ cart' = IF cart[u] = None THEN [cart EXCEPT ![u] = NewDoc(item)] ELSE cart
     \/ /\ doc # None /\ Position(doc.items, v) = 0
        /\ cart' = [cart EXCEPT ![u] = Push(@, item)]
     \/ /\ doc # None /\ Position(doc.items, v) > 0
        /\ cart' = IF SameVersion(cart[u], doc)
                   THEN [cart EXCEPT ![u] = SetFields(@, doc, mine, @.payable)]
                   ELSE cart
  /\ CartDone(r)
  /\ UNCHANGED <<world, cartOverlapped, calls>>

-----------------------------------------------------------------------------
(* GET /cart: a customer without a cart gets an error. *)
CallGet(r, u) ==
  /\ cartReq[r].pc = "idle" /\ calls < MaxCalls
  /\ calls' = calls + 1
  /\ IF cart[u] = None
     THEN UNCHANGED cartReq
     ELSE cartReq' = [cartReq EXCEPT ![r] = [NoCartRequest EXCEPT
            !.pc = IF cart[u].items = <<>> THEN "getSave" ELSE "getItem",
            !.user = u, !.doc = cart[u], !.items = cart[u].items, !.i = 1]]
  /\ Calling(u)
  /\ UNCHANGED <<world, cart>>

(* An element reread at the price of a variant; its offer is never found,   *)
(* since the query asks for the field `active`, which no document stores.   *)
Reread(item, v) ==
  LET q == Least(shop[v].stock, item.quantity) IN
  [item EXCEPT !.quantity = q, !.discount = 0, !.discountQuantity = 0,
               !.total = q * Price[v]]

(***************************************************************************)
(* One turn of the loop.  A deleted product has no variants to search and  *)
(* a replaced variant no quantity: both throw.  An unavailable one is      *)
(* spliced out, i steps back, and the rest of the turn works on the        *)
(* element before it, which for the first does not exist: it throws.       *)
(***************************************************************************)
GetItem(r) ==
  LET i == cartReq[r].i
      items == cartReq[r].items
      v == items[i].variant
      off == shop[v].condition = "unavailable"
      j == IF off THEN i - 1 ELSE i
      rest == IF off THEN RemoveAt(items, i) ELSE items
      throws == shop[v].condition \in {"deleted", "replaced"} \/ j = 0
      reread == [rest EXCEPT ![j] = Reread(@, v)]
  IN
  /\ cartReq[r].pc = "getItem"
  /\ IF throws
     THEN CartDone(r)
     ELSE cartReq' = [cartReq EXCEPT ![r].items = reread, ![r].i = j + 1,
               ![r].payable = @ + (IF HasOffer(v) THEN reread[j].total ELSE 0),
               ![r].pc = IF j < Len(rest) THEN "getItem" ELSE "getSave"]
  /\ UNCHANGED <<world, cart, cartOverlapped, calls>>

(* The save of getCart; totals alone are written without a condition. *)
GetSave(r) ==
  LET u == cartReq[r].user
      doc == cartReq[r].doc
      mine == cartReq[r].items
      spliced == Len(mine) < Len(doc.items)
      guarded == spliced \/ Touches(doc.items, mine)
      p == IF cartReq[r].payable # doc.payable THEN cartReq[r].payable
           ELSE cart[u].payable
  IN
  /\ cartReq[r].pc = "getSave"
  /\ cart' = IF guarded /\ ~SameVersion(cart[u], doc) THEN cart
             ELSE [cart EXCEPT ![u] = IF spliced THEN SetList(@, doc, mine, p)
                                                 ELSE SetFields(@, doc, mine, p)]
  /\ CartDone(r)
  /\ UNCHANGED <<world, cartOverlapped, calls>>

-----------------------------------------------------------------------------
(* updateProduct writes the variants of the product as the seller sent them. *)
SellerUpdates(v) ==
  /\ sellerEdits < MaxSellerEdits /\ shop[v].condition # "deleted"
  /\ \E c \in Conditions \ {"deleted"}, n \in Stocks :
       /\ shop' = [shop EXCEPT ![v] = [condition |-> c, stock |-> n]]
       /\ wasGone' = IF c = "onSale" THEN wasGone ELSE wasGone \cup {v}
  /\ sellerEdits' = sellerEdits + 1
  /\ UNCHANGED <<live, cart, cartReq, cartOverlapped, calls>>

SellerDeletes(v) ==
  /\ sellerEdits < MaxSellerEdits
  /\ "deleted" \in Conditions /\ shop[v].condition # "deleted"
  /\ shop' = [shop EXCEPT ![v].condition = "deleted"]
  /\ wasGone' = wasGone \cup {v}
  /\ sellerEdits' = sellerEdits + 1
  /\ UNCHANGED <<live, cart, cartReq, cartOverlapped, calls>>

(* The virtual `active` turns false when offerExpiration has passed. *)
OfferExpires(v) ==
  /\ live[v]
  /\ live' = [live EXCEPT ![v] = FALSE]
  /\ UNCHANGED <<shop, wasGone, sellerEdits, cart, cartReq, cartOverlapped, calls>>

CartCall ==
  \/ \E r \in CartRequests, u \in Customers, v \in Variants, q \in Asked :
       CallAdd(r, u, v, q)
  \/ \E r \in CartRequests, u \in Customers : CallGet(r, u)
  \/ \E u \in Customers : CallMerge(u)

CartStep(r) ==
  \/ ReadVariant(r) \/ ReadOffer(r) \/ ReadCart(r) \/ SaveAdd(r)
  \/ GetItem(r) \/ GetSave(r)

Seller == \E v \in Variants : SellerUpdates(v) \/ SellerDeletes(v) \/ OfferExpires(v)

CartNext == CartCall \/ Seller \/ \E r \in CartRequests : CartStep(r)

CartSpec == CartInit /\ [][CartNext]_cartVars

-----------------------------------------------------------------------------
(* Shape of the documents and the requests; a request under way is a        *)
(* customer's, and one of addToCart is for a variant.                       *)
CartTypeOK ==
  /\ shop \in [Variants -> [condition : {"onSale", "unavailable", "replaced", "deleted"},
                            stock : Nat]]
  /\ live \in [Variants -> BOOLEAN]
  /\ cart \in [Customers -> CartDoc \cup {None}]
  /\ cartReq \in [CartRequests -> CartRequest]
  /\ \A r \in CartRequests :
       /\ cartReq[r].pc # "idle" => cartReq[r].user \in Customers
       /\ cartReq[r].pc \in {"readProduct", "readOffer", "readCart", "save"}
          => cartReq[r].variant \in Variants
       /\ cartReq[r].pc \in {"idle", "readProduct", "readOffer", "readCart"}
          => cartReq[r].doc = None
  /\ wasGone \subseteq Variants /\ cartOverlapped \subseteq Customers
  /\ calls \in 0..MaxCalls /\ sellerEdits \in 0..MaxSellerEdits

ItemsOf(u) == IF cart[u] = None THEN <<>> ELSE cart[u].items
Held(u) == {ItemsOf(u)[k].variant : k \in DOMAIN ItemsOf(u)}

(* addToCart looks for the variant in the cart before it pushes: the cart   *)
(* of a customer who makes one request at a time never holds two elements   *)
(* of one variant, whatever the sellers do meanwhile.                       *)
OneItemPerVariant ==
  \A u \in Customers \ cartOverlapped : \A j, k \in DOMAIN ItemsOf(u) :
    ItemsOf(u)[j].variant = ItemsOf(u)[k].variant => j = k

(* However requests interleave, an item leaves a cart only if its product   *)
(* was off sale: the whole-list write of a getCart that dropped an element  *)
(* never overwrites an item another request pushed meanwhile.               *)
NothingLost ==
  [][\A u \in Customers : Held(u) \ Held(u)' \subseteq wasGone]_cartVars

(* A write by position lands on the element it was computed for: when an    *)
(* addToCart changes an element in place, that element is of its variant,   *)
(* however getCart shortened the list since the request read it.            *)
WritesHitTheirItem ==
  [][\A r \in CartRequests, u \in Customers :
       cartReq[r].pc = "save" /\ cartReq[r].user = u /\ cartReq'[r].pc = "idle" =>
         \A k \in DOMAIN ItemsOf(u) :
           ItemsOf(u)'[k] # ItemsOf(u)[k]
           => ItemsOf(u)[k].variant = cartReq[r].variant]_cartVars
=============================================================================
