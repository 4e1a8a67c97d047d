-------------------------------- MODULE Offer --------------------------------
(***************************************************************************)
(* Offers on products: createOffer, updateOffer and deleteOffer of         *)
(* services/offerService.js.                                               *)
(*                                                                         *)
(* An offer and the product that refers to it are two Mongo documents that *)
(* the handlers write one after the other; each awaited call is an action, *)
(* and the server may die between any two.                                 *)
(***************************************************************************)
EXTENDS Integers, Database

CONSTANTS
  Products, Offers, OfferRequests,
  Rates,           \* the discounts sellers offer
  MaxOfferCrashes  \* bound: how often the server process dies

ProductDoc == [kept : BOOLEAN, offer : Offers \cup {None}, discount : Nat]
OfferDoc == [product : Products, rate : Nat, deleted : BOOLEAN]
OfferRequest == [pc : {"idle", "readProduct", "saveOffer", "assignOffer",
                       "markDeleted", "clearProduct"},
                 product : Products \cup {None}, offer : Offers \cup {None},
                 rate : Nat]

ASSUME OfferConstants ==
  /\ Rates \subseteq Nat \ {0}
  /\ None \notin Offers /\ None \notin Products /\ None \notin OfferDoc
  /\ MaxOfferCrashes \in Nat

VARIABLES
  product,   \* [Products -> [kept, offer, discount]]: kept is FALSE once deleted
  offer,     \* [Offers -> document or None]
  offerReq,  \* [OfferRequests -> the locals of a request]
  offerCrashes

offerVars == <<product, offer, offerReq, offerCrashes>>

NoOfferRequest == [pc |-> "idle", product |-> None, offer |-> None, rate |-> 0]
Ended(r) == offerReq' = [offerReq EXCEPT ![r] = NoOfferRequest]

(* Slips a change to the code could make; no specification uses them. *)
OfferUnchecked(p) == product[p].kept
-----------------------------------------------------------------------------
(* createOffer goes on only for a product that exists and has no offer. *)
MayCreate(p) == product[p].kept /\ product[p].offer = None

NewOffer(p, d) == [product |-> p, rate |-> d, deleted |-> FALSE]
Assigned(o, d) == [kept |-> TRUE, offer |-> o, discount |-> d]

(* The products that the update of deleteOffer, { offer: id }, selects. *)
Referring(o) == {p \in Products : product[p].kept /\ product[p].offer = o}

OfferInit ==
  /\ product = [p \in Products |-> [kept |-> TRUE, offer |-> None, discount |-> 0]]
  /\ offer = [o \in Offers |-> None]
  /\ offerReq = [r \in OfferRequests |-> NoOfferRequest]
  /\ offerCrashes = 0

CallCreate(r, p, d) ==
  /\ offerReq[r].pc = "idle"
  /\ offerReq' = [offerReq EXCEPT ![r] =
       [pc |-> "readProduct", product |-> p, offer |-> None, rate |-> d]]
  /\ UNCHANGED <<product, offer, offerCrashes>>

(* `product.quantity` is not in the schema: the quantity check never fails. *)
ReadProduct(r) ==
  /\ offerReq[r].pc = "readProduct"
  /\ IF MayCreate(offerReq[r].product)
     THEN offerReq' = [offerReq EXCEPT ![r].pc = "saveOffer"]
     ELSE Ended(r)
  /\ UNCHANGED <<product, offer, offerCrashes>>

SaveOffer(r, o) ==
  /\ offerReq[r].pc = "saveOffer" /\ offer[o] = None
  /\ offer' = [offer EXCEPT ![o] = NewOffer(offerReq[r].product, offerReq[r].rate)]
  /\ offerReq' = [offerReq EXCEPT ![r] =
       [pc |-> "assignOffer", product |-> offerReq[r].product, offer |-> o,
        rate |-> offerReq[r].rate]]
  /\ UNCHANGED <<product, offerCrashes>>

(* Finds nothing if the product was deleted meanwhile; the reply is the same. *)
AssignOffer(r) ==
  LET p == offerReq[r].product IN
  /\ offerReq[r].pc = "assignOffer"
  /\ product' = IF product[p].kept
                THEN [product EXCEPT ![p] = Assigned(offerReq[r].offer, offerReq[r].rate)]
                ELSE product
  /\ Ended(r)
  /\ UNCHANGED <<offer, offerCrashes>>

CallDelete(r, o) ==
  /\ offerReq[r].pc = "idle" /\ offer[o] # None
  /\ offerReq' = [offerReq EXCEPT ![r] =
       [NoOfferRequest EXCEPT !.pc = "markDeleted", !.offer = o]]
  /\ UNCHANGED <<product, offer, offerCrashes>>

MarkDeleted(r) ==
  /\ offerReq[r].pc = "markDeleted"
  /\ offer' = [offer EXCEPT ![offerReq[r].offer].deleted = TRUE]
  /\ offerReq' = [offerReq EXCEPT ![r].pc = "clearProduct"]
  /\ UNCHANGED <<product, offerCrashes>>

ClearProduct(r) ==
  LET found == Referring(offerReq[r].offer) IN
  /\ offerReq[r].pc = "clearProduct"
  /\ IF found = {} THEN UNCHANGED product
     ELSE \E p \in found :
            product' = [product EXCEPT ![p] = Assigned(None, 0)]
  /\ Ended(r)
  /\ UNCHANGED <<offer, offerCrashes>>

(* The offer's rate changes; the discount copied into the product does not. *)
UpdateOffer(o, d) ==
  /\ offer[o] # None
  /\ offer' = [offer EXCEPT ![o].rate = d]
  /\ UNCHANGED <<product, offerReq, offerCrashes>>

(* updateProduct sets a discount of its own, whatever the offer says; it    *)
(* reads first, but writes this one field alone, or fails without effect.   *)
UpdateProduct(p, d) ==
  /\ product[p].kept
  /\ product' = [product EXCEPT ![p].discount = d]
  /\ UNCHANGED <<offer, offerReq, offerCrashes>>

(* deleteProduct removes the document and leaves its offer. *)
DeleteProduct(p) ==
  /\ product[p].kept
  /\ product' = [product EXCEPT ![p] = [kept |-> FALSE, offer |-> None, discount |-> 0]]
  /\ UNCHANGED <<offer, offerReq, offerCrashes>>

OfferCrash ==
  /\ offerCrashes < MaxOfferCrashes
  /\ offerCrashes' = offerCrashes + 1
  /\ offerReq' = [r \in OfferRequests |-> NoOfferRequest]
  /\ UNCHANGED <<product, offer>>

OfferNext ==
  \/ \E r \in OfferRequests :
       \/ \E p \in Products, d \in Rates : CallCreate(r, p, d)
       \/ ReadProduct(r) \/ AssignOffer(r) \/ MarkDeleted(r) \/ ClearProduct(r)
       \/ \E o \in Offers : SaveOffer(r, o) \/ CallDelete(r, o)
  \/ \E o \in Offers, d \in Rates : UpdateOffer(o, d)
  \/ \E p \in Products, d \in Rates : UpdateProduct(p, d)
  \/ \E p \in Products : DeleteProduct(p)
  \/ OfferCrash

OfferSpec == OfferInit /\ [][OfferNext]_offerVars

-----------------------------------------------------------------------------
(* Shape of the documents and the requests. *)
OfferTypeOK ==
  /\ product \in [Products -> ProductDoc]
  /\ offer \in [Offers -> OfferDoc \cup {None}]
  /\ offerReq \in [OfferRequests -> OfferRequest]
  /\ offerCrashes \in 0..MaxOfferCrashes

Live(o) == offer[o] # None /\ ~offer[o].deleted

(* "Product already has an offer" refuses a second one: no two offers of a  *)
(* product are live, unless a crash cut a create off before it assigned its *)
(* offer to the product.                                                    *)
OneLiveOffer ==
  offerCrashes = 0 =>
  \A o, n \in Offers :
    Live(o) /\ Live(n) /\ offer[o].product = offer[n].product => o = n

(* A delete clears by the offer's id: a product loses a live offer only to  *)
(* another offer or with the product itself, whatever is deleted meanwhile. *)
LosesOnlyDeleted ==
  [][\A p \in Products :
       product[p].offer # None /\ product[p].offer' = None /\ product[p].kept'
       => offer[product[p].offer].deleted]_offerVars

(* Handled one request at a time, the handlers implement OfferBook: an      *)
(* offer runs from its assignment until it is marked deleted.               *)
Running(p) == IF product[p].offer # None /\ Live(product[p].offer)
              THEN product[p].offer ELSE None
Awaited(o) ==
  \E r \in OfferRequests : offerReq[r].pc = "assignOffer" /\ offerReq[r].offer = o
Book == INSTANCE OfferBook WITH
  running <- [p \in Products |-> Running(p)],
  over <- {o \in Offers : /\ offer[o] # None /\ ~Awaited(o)
                          /\ \A p \in Products : Running(p) # o}
BookSpec == Book!Spec
=============================================================================
