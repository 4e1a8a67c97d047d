----------------------------- MODULE OfferProofs -----------------------------
(***************************************************************************)
(* Proofs about Offer, for any number of products, offers, requests and    *)
(* crashes: its type, and that a product loses an offer only when that     *)
(* offer was deleted; and where requests are handled one at a time, that a *)
(* product has one live offer and that the handlers implement OfferBook.   *)
(***************************************************************************)
EXTENDS Offer, TLAPS

(* What a request knows of the documents it named: the offer it is about to *)
(* assign, mark or clear exists, and the one it is about to clear is marked.*)
Knows(r) ==
  /\ offerReq[r].pc \in {"assignOffer", "markDeleted", "clearProduct"}
       => offerReq[r].offer \in Offers /\ offer[offerReq[r].offer] # None
  /\ offerReq[r].pc \in {"readProduct", "saveOffer", "assignOffer"}
       => offerReq[r].product \in Products
  /\ offerReq[r].pc = "clearProduct" => offer[offerReq[r].offer].deleted

ClearsMarked == \A r \in OfferRequests : Knows(r)

OfferInv == OfferTypeOK /\ ClearsMarked

LEMMA InitInv == OfferInit => OfferInv
BY OfferConstants
   DEF OfferInit, OfferInv, OfferTypeOK, ClearsMarked, Knows, NoOfferRequest, ProductDoc, OfferRequest

LEMMA StepType == OfferInv /\ [OfferNext]_offerVars => OfferTypeOK'
<1> SUFFICES ASSUME OfferInv, [OfferNext]_offerVars PROVE OfferTypeOK'
  OBVIOUS
<1> USE OfferConstants DEF OfferInv, ClearsMarked, Knows
<1>1. ASSUME NEW r \in OfferRequests, NEW p \in Products, NEW d \in Rates,
             CallCreate(r, p, d)
      PROVE  OfferTypeOK'
  BY <1>1 DEF CallCreate, OfferTypeOK, OfferRequest
<1>2. ASSUME NEW r \in OfferRequests, ReadProduct(r) PROVE OfferTypeOK'
  BY <1>2 DEF ReadProduct, Ended, NoOfferRequest, OfferTypeOK, OfferRequest
<1>3. ASSUME NEW r \in OfferRequests, AssignOffer(r) PROVE OfferTypeOK'
  BY <1>3 DEF AssignOffer, Assigned, ProductDoc, Ended, NoOfferRequest, OfferTypeOK, OfferRequest
<1>4. ASSUME NEW r \in OfferRequests, MarkDeleted(r) PROVE OfferTypeOK'
  <2> DEFINE o == offerReq[r].offer
             d == [offer[o] EXCEPT !.deleted = TRUE]
  <2>1. o \in Offers /\ offer[o] \in OfferDoc
    BY <1>4 DEF MarkDeleted, OfferTypeOK
  <2>2. d \in OfferDoc
    BY <2>1 DEF OfferDoc
  <2>3. offer' = [offer EXCEPT ![o] = d]
    BY <1>4 DEF MarkDeleted
  <2>4. offer' \in [Offers -> OfferDoc \cup {None}]
    <3> HIDE DEF d, o
    <3> QED BY <2>2, <2>3 DEF OfferTypeOK
  <2>5. offerReq' \in [OfferRequests -> OfferRequest]
    BY <1>4 DEF MarkDeleted, OfferTypeOK, OfferRequest
  <2> QED
    BY <1>4, <2>4, <2>5 DEF MarkDeleted, OfferTypeOK
<1>5. ASSUME NEW r \in OfferRequests, ClearProduct(r) PROVE OfferTypeOK'
  <2>1. Assigned(None, 0) \in ProductDoc
    BY DEF Assigned, ProductDoc
  <2>2. product' \in [Products -> ProductDoc]
    BY <1>5, <2>1 DEF ClearProduct, Referring, OfferTypeOK
  <2>3. offerReq' \in [OfferRequests -> OfferRequest]
    BY <1>5 DEF ClearProduct, Ended, NoOfferRequest, OfferTypeOK, OfferRequest
  <2> QED
    BY <1>5, <2>2, <2>3 DEF ClearProduct, OfferTypeOK
<1>6. ASSUME NEW r \in OfferRequests, NEW o \in Offers, SaveOffer(r, o) PROVE OfferTypeOK'
  <2>1. offerReq[r].product \in Products /\ offerReq[r].rate \in Nat
    BY <1>6 DEF SaveOffer, OfferTypeOK, OfferRequest
  <2>2. NewOffer(offerReq[r].product, offerReq[r].rate) \in OfferDoc
    BY <2>1 DEF NewOffer, OfferDoc
  <2>3. offer' \in [Offers -> OfferDoc \cup {None}]
    BY <1>6, <2>2 DEF SaveOffer, OfferTypeOK
  <2>4. offerReq' \in [OfferRequests -> OfferRequest]
    BY <1>6 DEF SaveOffer, OfferTypeOK, OfferRequest
  <2> QED
    BY <1>6, <2>3, <2>4 DEF SaveOffer, OfferTypeOK
<1>7. ASSUME NEW r \in OfferRequests, NEW o \in Offers, CallDelete(r, o) PROVE OfferTypeOK'
  BY <1>7 DEF CallDelete, NoOfferRequest, OfferTypeOK, OfferRequest
<1>8. ASSUME NEW o \in Offers, NEW d \in Rates, UpdateOffer(o, d) PROVE OfferTypeOK'
  <2>1. [offer[o] EXCEPT !.rate = d] \in OfferDoc
    BY <1>8 DEF UpdateOffer, OfferTypeOK, OfferDoc
  <2> QED
    BY <1>8, <2>1 DEF UpdateOffer, OfferTypeOK
<1>9. ASSUME NEW p \in Products, DeleteProduct(p) PROVE OfferTypeOK'
  BY <1>9 DEF DeleteProduct, OfferTypeOK, ProductDoc
<1>10. ASSUME NEW p \in Products, NEW d \in Rates, UpdateProduct(p, d) PROVE OfferTypeOK'
  <2>1. [product[p] EXCEPT !.discount = d] \in ProductDoc
    BY OfferConstants DEF OfferTypeOK, ProductDoc
  <2> QED
    BY <1>10, <2>1 DEF UpdateProduct, OfferTypeOK
<1>11. CASE OfferCrash
  BY <1>11 DEF OfferCrash, NoOfferRequest, OfferTypeOK, OfferRequest
<1>12. CASE UNCHANGED offerVars
  BY <1>12 DEF offerVars, OfferTypeOK
<1> QED
  BY <1>1, <1>2, <1>3, <1>4, <1>5, <1>6, <1>7, <1>8, <1>9, <1>10, <1>11, <1>12
     DEF OfferNext

(* Offers are never removed and never unmarked.                             *)
LEMMA OffersKept ==
  ASSUME OfferInv, [OfferNext]_offerVars, NEW o \in Offers, offer[o] # None
  PROVE  offer'[o] # None /\ (offer[o].deleted => offer'[o].deleted)
<1> USE OfferConstants DEF OfferInv
<1>1. ASSUME NEW r \in OfferRequests, NEW n \in Offers, SaveOffer(r, n)
      PROVE  offer'[o] = offer[o]
  BY <1>1 DEF SaveOffer, OfferTypeOK
<1>2. ASSUME NEW r \in OfferRequests, MarkDeleted(r)
      PROVE  offer'[o] = offer[o] \/ (offer'[o] # None /\ offer'[o].deleted)
  <2>1. offer[o] \in OfferDoc
    BY DEF OfferTypeOK
  <2>2. [offer[o] EXCEPT !.deleted = TRUE] \in OfferDoc
    BY <2>1 DEF OfferDoc
  <2>3. [offer[o] EXCEPT !.deleted = TRUE].deleted
    BY <2>1 DEF OfferDoc
  <2>4. offer'[o] = offer[o] \/ offer'[o] = [offer[o] EXCEPT !.deleted = TRUE]
    BY <1>2 DEF MarkDeleted, OfferTypeOK
  <2> QED
    BY <2>2, <2>3, <2>4
<1>3. ASSUME NEW n \in Offers, NEW d \in Rates, UpdateOffer(n, d)
      PROVE  offer'[o] # None /\ offer'[o].deleted = offer[o].deleted
  <2>1. offer[o] \in OfferDoc
    BY DEF OfferTypeOK
  <2>2. [offer[o] EXCEPT !.rate = d] \in OfferDoc
    BY <2>1 DEF OfferDoc
  <2>3. [offer[o] EXCEPT !.rate = d].deleted = offer[o].deleted
    BY <2>1 DEF OfferDoc
  <2>4. offer'[o] = offer[o] \/ offer'[o] = [offer[o] EXCEPT !.rate = d]
    BY <1>3 DEF UpdateOffer, OfferTypeOK
  <2> QED
    BY <2>2, <2>3, <2>4
<1>4. \/ UNCHANGED offer
      \/ \E r \in OfferRequests : MarkDeleted(r) \/ \E n \in Offers : SaveOffer(r, n)
      \/ \E n \in Offers, d \in Rates : UpdateOffer(n, d)
  BY DEF OfferNext, offerVars, CallCreate, ReadProduct, AssignOffer, CallDelete, ClearProduct,
         UpdateProduct, DeleteProduct, OfferCrash
<1> QED
  BY <1>1, <1>2, <1>3, <1>4

(* What a request knows stays true until its own next step.                 *)
LEMMA StepMarked == OfferInv /\ [OfferNext]_offerVars => ClearsMarked'
<1> SUFFICES ASSUME OfferInv, [OfferNext]_offerVars, NEW q \in OfferRequests PROVE Knows(q)'
  BY DEF ClearsMarked
<1> USE OfferConstants DEF OfferInv
<1>1. Knows(q) /\ q \in DOMAIN offerReq /\ offerReq[q] \in OfferRequest
  BY DEF ClearsMarked, OfferTypeOK
<1>2. CASE offerReq'[q] = offerReq[q]
  BY <1>1, <1>2, OffersKept DEF Knows
<1>3. CASE offerReq'[q] = NoOfferRequest
  BY <1>3 DEF Knows, NoOfferRequest
<1>4. ASSUME NEW p \in Products, NEW d \in Rates, CallCreate(q, p, d)
      PROVE  Knows(q)'
  BY <1>1, <1>4 DEF CallCreate, Knows, OfferTypeOK
<1>5. ASSUME ReadProduct(q), MayCreate(offerReq[q].product) PROVE Knows(q)'
  <2>1. offerReq'[q] = [offerReq[q] EXCEPT !.pc = "saveOffer"]
    BY <1>1, <1>5 DEF ReadProduct
  <2>2. offerReq'[q].pc = "saveOffer" /\ offerReq'[q].product = offerReq[q].product
    BY <1>1, <2>1 DEF OfferRequest
  <2> QED
    BY <1>1, <1>5, <2>2 DEF ReadProduct, Knows
<1>6. ASSUME NEW o \in Offers, SaveOffer(q, o) PROVE Knows(q)'
  <2>1. offerReq'[q].pc = "assignOffer" /\ offerReq'[q].offer = o
        /\ offerReq'[q].product = offerReq[q].product
    BY <1>1, <1>6 DEF SaveOffer
  <2>2. offer'[o] = NewOffer(offerReq[q].product, offerReq[q].rate)
    BY <1>6 DEF SaveOffer, OfferTypeOK
  <2>3. offerReq[q].product \in Products /\ offerReq[q].rate \in Nat
    BY <1>1, <1>6 DEF SaveOffer, Knows, OfferRequest
  <2>4. NewOffer(offerReq[q].product, offerReq[q].rate) \in OfferDoc
    BY <2>3 DEF NewOffer, OfferDoc
  <2> QED
    BY <2>1, <2>2, <2>3, <2>4 DEF Knows
<1>7. ASSUME NEW o \in Offers, CallDelete(q, o) PROVE Knows(q)'
  BY <1>1, <1>7 DEF CallDelete, NoOfferRequest, Knows
<1>8. ASSUME MarkDeleted(q) PROVE Knows(q)'
  <2>1. offerReq[q].offer \in Offers /\ offer[offerReq[q].offer] \in OfferDoc
    BY <1>1, <1>8 DEF MarkDeleted, Knows, OfferTypeOK
  <2>2. offerReq'[q] = [offerReq[q] EXCEPT !.pc = "clearProduct"]
    BY <1>1, <1>8 DEF MarkDeleted
  <2>3. offerReq'[q].pc = "clearProduct" /\ offerReq'[q].offer = offerReq[q].offer
    BY <1>1, <2>2 DEF OfferRequest
  <2>4. offer'[offerReq[q].offer] = [offer[offerReq[q].offer] EXCEPT !.deleted = TRUE]
    BY <1>8, <2>1 DEF MarkDeleted, OfferTypeOK
  <2>5. [offer[offerReq[q].offer] EXCEPT !.deleted = TRUE].deleted
    BY <2>1 DEF OfferDoc
  <2>6. offer'[offerReq[q].offer] # None
    BY <2>1, OffersKept
  <2> QED
    BY <2>1, <2>3, <2>4, <2>5, <2>6 DEF Knows
<1>9. \/ offerReq'[q] = offerReq[q] \/ offerReq'[q] = NoOfferRequest
      \/ \E p \in Products, d \in Rates : CallCreate(q, p, d)
      \/ ReadProduct(q) /\ MayCreate(offerReq[q].product)
      \/ \E o \in Offers : SaveOffer(q, o) \/ CallDelete(q, o)
      \/ MarkDeleted(q)
  BY <1>1 DEF OfferNext, offerVars, CallCreate, ReadProduct, SaveOffer, AssignOffer, CallDelete,
         MarkDeleted, ClearProduct, UpdateOffer, UpdateProduct,
            DeleteProduct, OfferCrash, Ended
<1> QED
  BY <1>2, <1>3, <1>4, <1>5, <1>6, <1>7, <1>8, <1>9

(* The invariant holds in every state.                                      *)
LEMMA InvHolds == OfferSpec => []OfferInv
<1>1. OfferInv /\ [OfferNext]_offerVars => OfferInv'
  BY StepType, StepMarked DEF OfferInv
<1> QED
  BY InitInv, <1>1, PTL DEF OfferSpec

(* Documents and requests keep their shape.                                 *)
THEOREM OfferTypeCorrect == OfferSpec => []OfferTypeOK
<1>1. OfferInv => OfferTypeOK
  BY DEF OfferInv
<1> QED
  BY InvHolds, <1>1, PTL

(* Only the clear of a delete takes an offer away from a product that is    *)
(* kept, and it takes the offer it has marked.                              *)
LEMMA StepLoses ==
  ASSUME OfferInv, [OfferNext]_offerVars, NEW p \in Products,
         product[p].offer # None, product[p].offer' = None, product[p].kept'
  PROVE  offer[product[p].offer].deleted
<1> USE OfferConstants DEF OfferInv, OfferTypeOK
<1>1. ASSUME NEW r \in OfferRequests, AssignOffer(r)
      PROVE  FALSE
  BY <1>1 DEF AssignOffer, Assigned, ClearsMarked, Knows
<1>2. ASSUME NEW r \in OfferRequests, ClearProduct(r)
      PROVE  offer[product[p].offer].deleted
  BY <1>2 DEF ClearProduct, Referring, Assigned, ClearsMarked, Knows
<1>3. ASSUME NEW q \in Products, DeleteProduct(q)
      PROVE  FALSE
  BY <1>3 DEF DeleteProduct
<1>4. CASE UNCHANGED product
  BY <1>4
<1>5. ASSUME NEW q \in Products, NEW d \in Rates, UpdateProduct(q, d)
      PROVE  FALSE
  BY <1>5 DEF UpdateProduct, ProductDoc
<1>6. \/ UNCHANGED product
      \/ \E r \in OfferRequests : AssignOffer(r) \/ ClearProduct(r)
      \/ \E q \in Products : DeleteProduct(q) \/ \E d \in Rates : UpdateProduct(q, d)
  BY DEF OfferNext, offerVars, CallCreate, ReadProduct, SaveOffer, CallDelete, MarkDeleted,
         UpdateOffer, OfferCrash
<1> QED
  BY <1>1, <1>2, <1>3, <1>4, <1>5, <1>6

(* A product loses a live offer only to another offer or with the product   *)
(* itself, however creates, deletes and crashes interleave.                 *)
THEOREM OffersLoseOnlyDeleted == OfferSpec => LosesOnlyDeleted
<1> DEFINE Loss == \A p \in Products :
       product[p].offer # None /\ product[p].offer' = None /\ product[p].kept'
       => offer[product[p].offer].deleted
<1>1. OfferInv /\ [OfferNext]_offerVars => [Loss]_offerVars
  BY StepLoses
<1>2. [][Loss]_offerVars => LosesOnlyDeleted
  BY PTL DEF LosesOnlyDeleted
<1> QED
  BY InvHolds, <1>1, <1>2, PTL DEF OfferSpec

-----------------------------------------------------------------------------
(* One request at a time: what the refinement and OneLiveOffer rest on.     *)
OneByOne == \A q, r \in OfferRequests : q = r

(* The offer a create is about to assign is live, its product has no other  *)
(* and none refers to it yet.                                               *)
AwaitedRuns == \A r \in OfferRequests : offerReq[r].pc = "assignOffer" =>
  /\ Live(offerReq[r].offer) /\ offer[offerReq[r].offer].product = offerReq[r].product
  /\ \A p \in Products : product[p].offer # offerReq[r].offer
NoneYet == \A r \in OfferRequests :
  offerReq[r].pc \in {"saveOffer", "assignOffer"} /\ product[offerReq[r].product].kept
    => product[offerReq[r].product].offer = None

(* A product refers to an offer made for it.                                *)
RefersBack == \A p \in Products : product[p].offer # None =>
  offer[product[p].offer] # None /\ offer[product[p].offer].product = p

BookInv == OfferInv /\ AwaitedRuns /\ NoneYet /\ RefersBack

(* While nothing crashed, a live offer of a product that is kept is the one *)
(* the product has or is about to have; a create that found no offer is     *)
(* right until it saves its own.                                            *)
LiveAssigned == \A o \in Offers : Live(o) /\ product[offer[o].product].kept
  => product[offer[o].product].offer = o \/ Awaited(o)
NoLiveYet == \A r \in OfferRequests : offerReq[r].pc = "saveOffer" =>
  \A o \in Offers : ~(Live(o) /\ offer[o].product = offerReq[r].product)

SerialInv == BookInv /\ (offerCrashes = 0 => LiveAssigned /\ NoLiveYet /\ OneLiveOffer)

-----------------------------------------------------------------------------
(* What each write of a document leaves of the others.                      *)
LEMMA UpdateKeeps ==
  ASSUME OfferInv, NEW o \in Offers, NEW d \in Rates, UpdateOffer(o, d), NEW n \in Offers
  PROVE  /\ offer'[n] = None <=> offer[n] = None
         /\ offer[n] # None => /\ offer'[n].product = offer[n].product
                               /\ offer'[n].deleted = offer[n].deleted
<1>1. offer'[n] = offer[n] \/ (n = o /\ offer'[n] = [offer[n] EXCEPT !.rate = d])
  BY DEF UpdateOffer, OfferInv, OfferTypeOK
<1>2. n = o => offer[n] \in OfferDoc
  BY DEF UpdateOffer, OfferInv, OfferTypeOK
<1>3. offer[n] \in OfferDoc => /\ [offer[n] EXCEPT !.rate = d] \in OfferDoc
                               /\ [offer[n] EXCEPT !.rate = d].product = offer[n].product
                               /\ [offer[n] EXCEPT !.rate = d].deleted = offer[n].deleted
  BY OfferConstants DEF OfferDoc
<1> QED
  BY <1>1, <1>2, <1>3, OfferConstants

LEMMA MarkKeeps ==
  ASSUME OfferInv, NEW r \in OfferRequests, MarkDeleted(r), NEW n \in Offers
  PROVE  /\ offer'[n] = None <=> offer[n] = None
         /\ offer[n] # None => offer'[n].product = offer[n].product
         /\ n # offerReq[r].offer => offer'[n] = offer[n]
         /\ n = offerReq[r].offer => offer[n] # None /\ offer'[n].deleted
<1>1. /\ n # offerReq[r].offer => offer'[n] = offer[n]
      /\ n = offerReq[r].offer => offer'[n] = [offer[n] EXCEPT !.deleted = TRUE]
  BY DEF MarkDeleted, OfferInv, OfferTypeOK
<1>2. n = offerReq[r].offer => offer[n] \in OfferDoc
  BY DEF MarkDeleted, OfferInv, OfferTypeOK, ClearsMarked, Knows
<1>3. offer[n] \in OfferDoc => /\ [offer[n] EXCEPT !.deleted = TRUE] \in OfferDoc
                               /\ [offer[n] EXCEPT !.deleted = TRUE].product = offer[n].product
                               /\ [offer[n] EXCEPT !.deleted = TRUE].deleted
  BY DEF OfferDoc
<1> QED
  BY <1>1, <1>2, <1>3, OfferConstants

LEMMA SaveKeeps ==
  ASSUME OfferInv, NEW r \in OfferRequests, NEW o \in Offers, SaveOffer(r, o)
  PROVE  /\ offer[o] = None
         /\ \A n \in Offers : n # o => offer'[n] = offer[n]
         /\ offer'[o] # None /\ offer'[o].product = offerReq[r].product /\ ~offer'[o].deleted
         /\ offerReq'[r].pc = "assignOffer" /\ offerReq'[r].offer = o /\ offerReq'[r].product = offerReq[r].product
<1>1. offerReq[r].product \in Products /\ offerReq[r].rate \in Nat
  BY DEF SaveOffer, OfferInv, OfferTypeOK, ClearsMarked, Knows, OfferRequest
<1>2. /\ NewOffer(offerReq[r].product, offerReq[r].rate) \in OfferDoc
      /\ NewOffer(offerReq[r].product, offerReq[r].rate).product = offerReq[r].product
      /\ ~NewOffer(offerReq[r].product, offerReq[r].rate).deleted
  BY <1>1 DEF NewOffer, OfferDoc
<1> QED
  BY <1>2, OfferConstants DEF SaveOffer, OfferInv, OfferTypeOK

LEMMA ProductKept ==
  ASSUME OfferInv, NEW p \in Products, NEW d \in Rates, UpdateProduct(p, d), NEW q \in Products
  PROVE  product'[q].offer = product[q].offer /\ product'[q].kept = product[q].kept
BY DEF UpdateProduct, OfferInv, OfferTypeOK, ProductDoc

-----------------------------------------------------------------------------
LEMMA BookStep ==
  ASSUME OneByOne, BookInv, [OfferNext]_offerVars
  PROVE  AwaitedRuns' /\ NoneYet' /\ RefersBack'
<1> USE OfferConstants DEF BookInv
<1>0. OfferInv /\ OfferTypeOK /\ ClearsMarked /\ OfferInv'
  BY StepType, StepMarked DEF OfferInv
<1>1. ASSUME NEW r \in OfferRequests, NEW p \in Products, NEW d \in Rates, CallCreate(r, p, d)
      PROVE  AwaitedRuns' /\ NoneYet' /\ RefersBack'
  <2>1. offerReq'[r].pc = "readProduct" /\ UNCHANGED <<product, offer>>
    BY <1>0, <1>1 DEF CallCreate, OfferTypeOK
  <2> QED
    BY <2>1 DEF OneByOne, AwaitedRuns, NoneYet, RefersBack
<1>2. ASSUME NEW r \in OfferRequests, ReadProduct(r) PROVE AwaitedRuns' /\ NoneYet' /\ RefersBack'
  <2>1. /\ UNCHANGED <<product, offer>>
        /\ \/ offerReq'[r] = NoOfferRequest
           \/ offerReq'[r] = [offerReq[r] EXCEPT !.pc = "saveOffer"] /\ product[offerReq[r].product].offer = None
    BY <1>0, <1>2 DEF ReadProduct, MayCreate, Ended, OfferTypeOK
  <2>2. offerReq[r] \in OfferRequest
    BY <1>0 DEF OfferTypeOK
  <2>3. offerReq'[r].pc \in {"idle", "saveOffer"}
        /\ (offerReq'[r].pc = "saveOffer" => product[offerReq'[r].product].offer = None)
    BY <2>1, <2>2 DEF OfferRequest, NoOfferRequest
  <2> QED
    BY <2>1, <2>3 DEF OneByOne, AwaitedRuns, NoneYet, RefersBack
<1>3. ASSUME NEW r \in OfferRequests, AssignOffer(r) PROVE AwaitedRuns' /\ NoneYet' /\ RefersBack'
  <2>1. offerReq'[r].pc = "idle" /\ UNCHANGED offer
    BY <1>0, <1>3 DEF AssignOffer, Ended, NoOfferRequest, OfferTypeOK
  <2>2. offerReq[r].product \in Products /\ offerReq[r].offer \in Offers /\ offerReq[r].pc = "assignOffer"
    BY <1>0, <1>3 DEF AssignOffer, ClearsMarked, Knows
  <2>3. \A p \in Products : product'[p] = product[p]
          \/ (p = offerReq[r].product /\ product'[p].offer = offerReq[r].offer)
    BY <1>0, <1>3, <2>2 DEF AssignOffer, Assigned, OfferTypeOK
  <2>4. offer[offerReq[r].offer] # None /\ offer[offerReq[r].offer].product = offerReq[r].product
    BY <2>2 DEF AwaitedRuns, Live
  <2> QED
    BY <2>1, <2>3, <2>4 DEF OneByOne, AwaitedRuns, NoneYet, RefersBack
<1>4. ASSUME NEW r \in OfferRequests, MarkDeleted(r) PROVE AwaitedRuns' /\ NoneYet' /\ RefersBack'
  <2>1. offerReq'[r].pc = "clearProduct" /\ UNCHANGED product
    BY <1>0, <1>4 DEF MarkDeleted, OfferTypeOK, OfferRequest
  <2>2. RefersBack'
    BY <1>0, <1>4, <2>1, MarkKeeps DEF RefersBack, OfferTypeOK, ProductDoc
  <2> QED
    BY <2>1, <2>2 DEF OneByOne, AwaitedRuns, NoneYet
<1>5. ASSUME NEW r \in OfferRequests, ClearProduct(r) PROVE AwaitedRuns' /\ NoneYet' /\ RefersBack'
  <2>1. offerReq'[r].pc = "idle" /\ UNCHANGED offer
    BY <1>0, <1>5 DEF ClearProduct, Ended, NoOfferRequest, OfferTypeOK
  <2>2. \A p \in Products : product'[p] = product[p] \/ product'[p].offer = None
    BY <1>0, <1>5 DEF ClearProduct, Assigned, OfferTypeOK, Referring
  <2> QED
    BY <2>1, <2>2 DEF OneByOne, AwaitedRuns, NoneYet, RefersBack
<1>6. ASSUME NEW r \in OfferRequests, NEW o \in Offers, SaveOffer(r, o)
      PROVE  AwaitedRuns' /\ NoneYet' /\ RefersBack'
  <2>1. UNCHANGED product /\ offerReq[r].pc = "saveOffer"
    BY <1>6 DEF SaveOffer
  <2>2. AwaitedRuns'
    BY <1>0, <1>6, <2>1, SaveKeeps DEF OneByOne, AwaitedRuns, Live, RefersBack
  <2>3. NoneYet'
    BY <1>0, <1>6, <2>1, SaveKeeps DEF OneByOne, NoneYet
  <2>4. RefersBack'
    BY <1>0, <1>6, <2>1, SaveKeeps DEF RefersBack, OfferTypeOK, ProductDoc
  <2> QED
    BY <2>2, <2>3, <2>4
<1>7. ASSUME NEW r \in OfferRequests, NEW o \in Offers, CallDelete(r, o)
      PROVE  AwaitedRuns' /\ NoneYet' /\ RefersBack'
  <2>1. offerReq'[r].pc = "markDeleted" /\ UNCHANGED <<product, offer>>
    BY <1>0, <1>7 DEF CallDelete, NoOfferRequest, OfferTypeOK
  <2> QED
    BY <2>1 DEF OneByOne, AwaitedRuns, NoneYet, RefersBack
<1>8. ASSUME NEW o \in Offers, NEW d \in Rates, UpdateOffer(o, d)
      PROVE  AwaitedRuns' /\ NoneYet' /\ RefersBack'
  <2>1. UNCHANGED <<product, offerReq>>
    BY <1>8 DEF UpdateOffer
  <2>2. AwaitedRuns'
    BY <1>0, <1>8, <2>1, UpdateKeeps DEF AwaitedRuns, Live, ClearsMarked, Knows
  <2>3. RefersBack'
    BY <1>0, <1>8, <2>1, UpdateKeeps DEF RefersBack, OfferTypeOK, ProductDoc
  <2> QED
    BY <2>1, <2>2, <2>3 DEF NoneYet
<1>9. ASSUME NEW p \in Products, DeleteProduct(p) PROVE AwaitedRuns' /\ NoneYet' /\ RefersBack'
  <2>1. /\ UNCHANGED <<offer, offerReq>>
        /\ \A q \in Products : product'[q] = product[q] \/ product'[q].offer = None
    BY <1>0, <1>9 DEF DeleteProduct, OfferTypeOK
  <2> QED
    BY <1>0, <2>1 DEF AwaitedRuns, Live, NoneYet, RefersBack, ClearsMarked, Knows
<1>10. ASSUME NEW p \in Products, NEW d \in Rates, UpdateProduct(p, d)
       PROVE  AwaitedRuns' /\ NoneYet' /\ RefersBack'
  <2>1. UNCHANGED <<offer, offerReq>>
    BY <1>10 DEF UpdateProduct
  <2> QED
    BY <1>0, <1>10, <2>1, ProductKept DEF AwaitedRuns, Live, NoneYet, RefersBack, ClearsMarked, Knows
<1>11. CASE OfferCrash
  BY <1>11 DEF OfferCrash, NoOfferRequest, AwaitedRuns, NoneYet, RefersBack
<1>12. CASE UNCHANGED offerVars
  BY <1>12 DEF offerVars, AwaitedRuns, NoneYet, RefersBack, Live
<1> QED
  BY <1>1, <1>2, <1>3, <1>4, <1>5, <1>6, <1>7, <1>8, <1>9, <1>10, <1>11, <1>12
     DEF OfferNext

LEMMA BookInvHolds == OneByOne => (OfferSpec => []BookInv)
<1> SUFFICES ASSUME OneByOne PROVE OfferSpec => []BookInv
  OBVIOUS
<1>1. OfferInit => BookInv
  BY InitInv DEF BookInv, OfferInit, NoOfferRequest, AwaitedRuns, NoneYet, RefersBack
<1>2. BookInv /\ [OfferNext]_offerVars => BookInv'
  BY StepType, StepMarked, BookStep DEF BookInv, OfferInv
<1> QED
  BY <1>1, <1>2, PTL DEF OfferSpec

-----------------------------------------------------------------------------
LEMMA SerialStep ==
  ASSUME OneByOne, SerialInv, [OfferNext]_offerVars, offerCrashes' = 0
  PROVE  LiveAssigned' /\ NoLiveYet' /\ OneLiveOffer'
<1> USE OfferConstants
<1>0. OfferInv /\ OfferTypeOK /\ ClearsMarked /\ BookInv
  BY DEF SerialInv, BookInv, OfferInv
<1>1. ASSUME NEW r \in OfferRequests, NEW p \in Products, NEW d \in Rates, CallCreate(r, p, d)
      PROVE  LiveAssigned' /\ NoLiveYet' /\ OneLiveOffer'
  <2>1. /\ offerReq[r].pc = "idle" /\ offerReq'[r].pc = "readProduct"
        /\ UNCHANGED <<product, offer, offerCrashes>>
    BY <1>0, <1>1 DEF CallCreate, OfferTypeOK
  <2> QED
    BY <2>1 DEF SerialInv, OneByOne, LiveAssigned, NoLiveYet, OneLiveOffer, Live, Awaited
<1>2. ASSUME NEW r \in OfferRequests, ReadProduct(r)
      PROVE  LiveAssigned' /\ NoLiveYet' /\ OneLiveOffer'
  <2>1. /\ UNCHANGED <<product, offer, offerCrashes>> /\ offerReq[r].pc = "readProduct"
        /\ \/ offerReq'[r] = NoOfferRequest
           \/ offerReq'[r] = [offerReq[r] EXCEPT !.pc = "saveOffer"] /\ MayCreate(offerReq[r].product)
    BY <1>0, <1>2 DEF ReadProduct, Ended, OfferTypeOK
  <2>2. offerReq[r] \in OfferRequest
    BY <1>0 DEF OfferTypeOK
  <2>3. /\ offerReq'[r].pc \in {"idle", "saveOffer"}
        /\ offerReq'[r].pc = "saveOffer" =>
             /\ offerReq'[r].product = offerReq[r].product
             /\ MayCreate(offerReq[r].product)
    BY <2>1, <2>2 DEF OfferRequest, NoOfferRequest
  <2>4. LiveAssigned /\ OneLiveOffer
    BY <2>1 DEF SerialInv
  <2>5. \A o \in Offers : ~Awaited(o)
    BY <2>1 DEF OneByOne, Awaited
  <2>6. NoLiveYet'
    BY <2>1, <2>3, <2>4, <2>5 DEF OneByOne, NoLiveYet, LiveAssigned, Live, MayCreate
  <2> QED
    BY <2>1, <2>4, <2>5, <2>6 DEF LiveAssigned, OneLiveOffer, Live
<1>3. ASSUME NEW r \in OfferRequests, AssignOffer(r)
      PROVE  LiveAssigned' /\ NoLiveYet' /\ OneLiveOffer'
  <2>1. offerReq'[r].pc = "idle" /\ UNCHANGED <<offer, offerCrashes>> /\ offerReq[r].pc = "assignOffer"
    BY <1>0, <1>3 DEF AssignOffer, Ended, NoOfferRequest, OfferTypeOK
  <2>2. offerReq[r].product \in Products /\ offerReq[r].offer \in Offers
    BY <1>0, <2>1 DEF ClearsMarked, Knows
  <2>3. /\ \A p \in Products : p # offerReq[r].product => product'[p] = product[p]
        /\ product'[offerReq[r].product].kept => product'[offerReq[r].product].offer = offerReq[r].offer
    BY <1>0, <1>3, <2>2 DEF AssignOffer, Assigned, OfferTypeOK
  <2>4. Live(offerReq[r].offer) /\ offer[offerReq[r].offer].product = offerReq[r].product
    BY <1>0, <2>1 DEF BookInv, AwaitedRuns
  <2>5. LiveAssigned /\ OneLiveOffer
    BY <2>1 DEF SerialInv
  <2>6. OneLiveOffer' /\ NoLiveYet'
    BY <2>1, <2>5 DEF OneByOne, NoLiveYet, OneLiveOffer, Live
  <2>7. ASSUME NEW o \in Offers, Live(o)', product'[offer[o].product].kept
        PROVE  product'[offer[o].product].offer = o
    <3>1. Live(o) /\ offer[o].product \in Products
      BY <1>0, <2>1, <2>7 DEF Live, OfferTypeOK, OfferDoc
    <3>2. CASE offer[o].product = offerReq[r].product
      <4>1. o = offerReq[r].offer
        BY <2>1, <2>2, <2>4, <2>5, <3>1, <3>2 DEF OneLiveOffer
      <4> QED
        BY <2>3, <2>7, <3>2, <4>1
    <3>3. CASE offer[o].product # offerReq[r].product
      <4>1. o # offerReq[r].offer
        BY <2>4, <3>3
      <4>2. ~Awaited(o)
        BY <2>1, <4>1 DEF OneByOne, Awaited
      <4> QED
        BY <2>3, <2>5, <2>7, <3>1, <3>3, <4>2 DEF LiveAssigned
    <3> QED
      BY <3>2, <3>3
  <2>8. LiveAssigned'
    BY <2>1, <2>7 DEF LiveAssigned
  <2> QED
    BY <2>6, <2>8
<1>4. ASSUME NEW r \in OfferRequests, MarkDeleted(r)
      PROVE  LiveAssigned' /\ NoLiveYet' /\ OneLiveOffer'
  <2>1. /\ offerReq[r].pc = "markDeleted" /\ offerReq'[r].pc = "clearProduct"
        /\ UNCHANGED <<product, offerCrashes>>
    BY <1>0, <1>4 DEF MarkDeleted, OfferTypeOK, OfferRequest
  <2>2. \A o \in Offers : Live(o)' => Live(o) /\ offer'[o].product = offer[o].product
    BY <1>0, <1>4, MarkKeeps DEF Live
  <2>3. LiveAssigned /\ OneLiveOffer
    BY <2>1 DEF SerialInv
  <2>4. \A o \in Offers : ~Awaited(o)
    BY <2>1 DEF OneByOne, Awaited
  <2>5. LiveAssigned'
    BY <2>1, <2>2, <2>3, <2>4 DEF LiveAssigned
  <2>6. OneLiveOffer'
    BY <2>1, <2>2, <2>3 DEF OneLiveOffer
  <2> QED
    BY <2>1, <2>5, <2>6 DEF OneByOne, NoLiveYet
<1>5. ASSUME NEW r \in OfferRequests, ClearProduct(r)
      PROVE  LiveAssigned' /\ NoLiveYet' /\ OneLiveOffer'
  <2>1. /\ offerReq[r].pc = "clearProduct" /\ offerReq'[r].pc = "idle"
        /\ UNCHANGED <<offer, offerCrashes>>
    BY <1>0, <1>5 DEF ClearProduct, Ended, NoOfferRequest, OfferTypeOK
  <2>2. offer[offerReq[r].offer].deleted
    BY <1>0, <2>1 DEF ClearsMarked, Knows
  <2>3. \A p \in Products : \/ product'[p] = product[p]
                            \/ product[p].kept /\ product[p].offer = offerReq[r].offer
    BY <1>0, <1>5 DEF ClearProduct, OfferTypeOK, Referring
  <2>4. LiveAssigned /\ OneLiveOffer
    BY <2>1 DEF SerialInv
  <2>5. \A o \in Offers : ~Awaited(o)
    BY <2>1 DEF OneByOne, Awaited
  <2>6. ASSUME NEW o \in Offers, Live(o)', product'[offer[o].product].kept
        PROVE  product'[offer[o].product].offer = o
    <3>1. Live(o) /\ offer[o].product \in Products
      BY <1>0, <2>1, <2>6 DEF Live, OfferTypeOK, OfferDoc
    <3> QED
      BY <2>2, <2>3, <2>4, <2>5, <2>6, <3>1 DEF LiveAssigned, Live
  <2>7. LiveAssigned'
    BY <2>1, <2>6 DEF LiveAssigned
  <2> QED
    BY <2>1, <2>4, <2>7 DEF OneByOne, NoLiveYet, OneLiveOffer, Live
<1>6. ASSUME NEW r \in OfferRequests, NEW o \in Offers, SaveOffer(r, o)
      PROVE  LiveAssigned' /\ NoLiveYet' /\ OneLiveOffer'
  <2>1. UNCHANGED <<product, offerCrashes>> /\ offerReq[r].pc = "saveOffer"
    BY <1>6 DEF SaveOffer
  <2>2. LiveAssigned /\ NoLiveYet /\ OneLiveOffer
    BY <2>1 DEF SerialInv
  <2>3. /\ \A n \in Offers : n # o => offer'[n] = offer[n]
        /\ offer'[o].product = offerReq[r].product
        /\ offerReq'[r].pc = "assignOffer" /\ offerReq'[r].offer = o
    BY <1>0, <1>6, SaveKeeps
  <2>4. \A n \in Offers : n # o => ~Awaited(n) /\ Live(n)' = Live(n)
    BY <2>1, <2>3 DEF OneByOne, Awaited, Live
  <2>5. Awaited(o)'
    BY <2>3 DEF Awaited
  <2>6. LiveAssigned'
    BY <2>1, <2>2, <2>3, <2>4, <2>5 DEF LiveAssigned
  <2>7. OneLiveOffer'
    BY <2>1, <2>2, <2>3, <2>4 DEF OneLiveOffer, NoLiveYet
  <2> QED
    BY <2>3, <2>6, <2>7 DEF OneByOne, NoLiveYet
<1>7. ASSUME NEW r \in OfferRequests, NEW o \in Offers, CallDelete(r, o)
      PROVE  LiveAssigned' /\ NoLiveYet' /\ OneLiveOffer'
  <2>1. /\ offerReq[r].pc = "idle" /\ offerReq'[r].pc = "markDeleted"
        /\ UNCHANGED <<product, offer, offerCrashes>>
    BY <1>0, <1>7 DEF CallDelete, NoOfferRequest, OfferTypeOK
  <2> QED
    BY <2>1 DEF SerialInv, OneByOne, LiveAssigned, NoLiveYet, OneLiveOffer, Live, Awaited
<1>8. ASSUME NEW o \in Offers, NEW d \in Rates, UpdateOffer(o, d)
      PROVE  LiveAssigned' /\ NoLiveYet' /\ OneLiveOffer'
  <2>1. UNCHANGED <<product, offerReq, offerCrashes>>
    BY <1>8 DEF UpdateOffer
  <2>2. LiveAssigned /\ NoLiveYet /\ OneLiveOffer
    BY <2>1 DEF SerialInv
  <2>3. \A n \in Offers : Live(n)' => Live(n) /\ offer'[n].product = offer[n].product
    BY <1>0, <1>8, UpdateKeeps DEF Live
  <2>4. \A n \in Offers : Awaited(n)' = Awaited(n)
    BY <2>1 DEF Awaited
  <2>5. LiveAssigned'
    BY <2>1, <2>2, <2>3, <2>4 DEF LiveAssigned
  <2>6. NoLiveYet'
    BY <2>1, <2>2, <2>3 DEF NoLiveYet
  <2> QED
    BY <2>1, <2>2, <2>3, <2>5, <2>6 DEF OneLiveOffer
<1>9. ASSUME NEW p \in Products, DeleteProduct(p)
      PROVE  LiveAssigned' /\ NoLiveYet' /\ OneLiveOffer'
  <2>1. /\ UNCHANGED <<offer, offerReq, offerCrashes>>
        /\ \A q \in Products : product'[q] = product[q] \/ ~product'[q].kept
    BY <1>0, <1>9 DEF DeleteProduct, OfferTypeOK
  <2>2. LiveAssigned /\ NoLiveYet /\ OneLiveOffer
    BY <2>1 DEF SerialInv
  <2>3. \A o \in Offers : Live(o) => offer[o].product \in Products
    BY <1>0 DEF Live, OfferTypeOK, OfferDoc
  <2>4. \A n \in Offers : Awaited(n)' = Awaited(n) /\ Live(n)' = Live(n)
    BY <2>1 DEF Awaited, Live
  <2>5. LiveAssigned'
    BY <2>1, <2>2, <2>3, <2>4 DEF LiveAssigned
  <2> QED
    BY <2>1, <2>2, <2>4, <2>5 DEF NoLiveYet, OneLiveOffer
<1>10. ASSUME NEW p \in Products, NEW d \in Rates, UpdateProduct(p, d)
       PROVE  LiveAssigned' /\ NoLiveYet' /\ OneLiveOffer'
  <2>1. UNCHANGED <<offer, offerReq, offerCrashes>>
    BY <1>10 DEF UpdateProduct
  <2>2. LiveAssigned /\ NoLiveYet /\ OneLiveOffer
    BY <2>1 DEF SerialInv
  <2>3. \A o \in Offers : Live(o) => offer[o].product \in Products
    BY <1>0 DEF Live, OfferTypeOK, OfferDoc
  <2>4. \A n \in Offers : Awaited(n)' = Awaited(n) /\ Live(n)' = Live(n)
    BY <2>1 DEF Awaited, Live
  <2>5. LiveAssigned'
    BY <1>0, <1>10, <2>1, <2>2, <2>3, <2>4, ProductKept DEF LiveAssigned
  <2> QED
    BY <2>1, <2>2, <2>4, <2>5 DEF NoLiveYet, OneLiveOffer
<1>11. CASE OfferCrash
  BY <1>0, <1>11 DEF OfferCrash, OfferTypeOK
<1>12. CASE UNCHANGED offerVars
  BY <1>12 DEF offerVars, SerialInv, LiveAssigned, NoLiveYet, OneLiveOffer, Live, Awaited
<1> QED
  BY <1>1, <1>2, <1>3, <1>4, <1>5, <1>6, <1>7, <1>8, <1>9, <1>10, <1>11, <1>12
     DEF OfferNext

(* Handled one request at a time, and while no crash cut a create off, a    *)
(* product never has two live offers, however products are deleted and      *)
(* offers and products are updated in between.                              *)
THEOREM OneOfferLives == OneByOne => (OfferSpec => []OneLiveOffer)
<1> SUFFICES ASSUME OneByOne PROVE OfferSpec => []OneLiveOffer
  OBVIOUS
<1>1. OfferInit => SerialInv
  <2>1. OfferInit => BookInv
    BY InitInv DEF BookInv, OfferInit, NoOfferRequest, AwaitedRuns, NoneYet, RefersBack
  <2> QED
    BY <2>1 DEF SerialInv, OfferInit, NoOfferRequest, LiveAssigned, NoLiveYet, OneLiveOffer, Live
<1>2. SerialInv /\ [OfferNext]_offerVars => SerialInv'
  <2> SUFFICES ASSUME SerialInv, [OfferNext]_offerVars PROVE SerialInv'
    OBVIOUS
  <2>1. BookInv'
    BY StepType, StepMarked, BookStep DEF SerialInv, BookInv, OfferInv
  <2> QED
    BY <2>1, SerialStep DEF SerialInv
<1>3. SerialInv => OneLiveOffer
  BY DEF SerialInv, OneLiveOffer
<1> QED
  BY <1>1, <1>2, <1>3, PTL DEF OfferSpec

-----------------------------------------------------------------------------
(* What OfferBook calls over: made, assigned or given up, and not running.  *)
Over(o) == offer[o] # None /\ ~Awaited(o) /\ \A p \in Products : Running(p) # o

LEMMA RunningIs ==
  ASSUME OfferInv, NEW p \in Products, NEW o \in Offers
  PROVE  Running(p) = o <=> product[p].offer = o /\ Live(o)
BY OfferConstants DEF Running, Live

(* A step that changes neither what runs nor what is over is a stutter.     *)
LEMMA BookStutters ==
  ASSUME \A p \in Products : Running(p)' = Running(p),
         \A o \in Offers : Over(o)' <=> Over(o)
  PROVE  [Book!Next]_<<[p \in Products |-> Running(p)],
                       {o \in Offers : /\ offer[o] # None /\ ~Awaited(o)
                                       /\ \A p \in Products : Running(p) # o}>>
BY DEF Over

LEMMA BookSame ==
  ASSUME \A p \in Products : product'[p].offer = product[p].offer,
         \A o \in Offers : /\ Live(o)' <=> Live(o)
                           /\ offer'[o] = None <=> offer[o] = None
                           /\ Awaited(o)' <=> Awaited(o),
         OfferInv
  PROVE  /\ \A p \in Products : Running(p)' = Running(p)
         /\ \A o \in Offers : Over(o)' <=> Over(o)
<1>1. \A p \in Products : product[p].offer \in Offers \cup {None}
  BY DEF OfferInv, OfferTypeOK, ProductDoc
<1>2. ASSUME NEW p \in Products PROVE Running(p)' = Running(p)
  BY <1>1 DEF Running
<1> QED
  BY <1>2 DEF Over

(* The step of OfferBook that each action takes.                            *)
LEMMA BookOfStep ==
  ASSUME OneByOne, BookInv, BookInv', [OfferNext]_offerVars
  PROVE  [Book!Next]_<<[p \in Products |-> Running(p)],
                       {o \in Offers : /\ offer[o] # None /\ ~Awaited(o)
                                       /\ \A p \in Products : Running(p) # o}>>
<1> DEFINE Same == /\ \A p \in Products : Running(p)' = Running(p)
                   /\ \A o \in Offers : Over(o)' <=> Over(o)
           Made(p, o) == /\ Running(p) = None /\ ~Over(o)
                         /\ \A q \in Products : Running(q) # o
                         /\ \A q \in Products : Running(q)' = IF q = p THEN o ELSE Running(q)
                         /\ \A n \in Offers : Over(n)' <=> Over(n)
           Finished(p, o) == /\ Running(p) = o /\ o # None
                             /\ \A q \in Products :
                                  Running(q)' = IF q = p THEN None ELSE Running(q)
                             /\ \A n \in Offers : Over(n)' <=> Over(n) \/ n = o
           Lapsed(o) == /\ \A q \in Products : Running(q) # o
                        /\ \A q \in Products : Running(q)' = Running(q)
                        /\ \A n \in Offers : Over(n)' <=> Over(n) \/ n = o
           Goal == \/ Same
                   \/ \E p \in Products, o \in Offers : Made(p, o) \/ Finished(p, o)
                   \/ \E o \in Offers : Lapsed(o)
<1> USE OfferConstants
<1>0. OfferInv /\ OfferTypeOK /\ ClearsMarked /\ AwaitedRuns /\ NoneYet /\ RefersBack
      /\ OfferInv' /\ OfferTypeOK' /\ RefersBack'
  BY DEF BookInv, OfferInv
<1>1. ASSUME NEW r \in OfferRequests, NEW p \in Products, NEW d \in Rates, CallCreate(r, p, d)
      PROVE  Goal
  <2>1. /\ offerReq[r].pc = "idle" /\ offerReq'[r].pc = "readProduct"
        /\ UNCHANGED <<product, offer>>
    BY <1>0, <1>1 DEF CallCreate, OfferTypeOK
  <2>2. \A o \in Offers : ~Awaited(o) /\ ~Awaited(o)'
    BY <2>1 DEF OneByOne, Awaited
  <2> QED
    BY <1>0, <2>1, <2>2, BookSame DEF Live
<1>2. ASSUME NEW r \in OfferRequests, ReadProduct(r) PROVE Goal
  <2>1. /\ offerReq[r].pc = "readProduct" /\ offerReq'[r].pc \in {"idle", "saveOffer"}
        /\ UNCHANGED <<product, offer>>
    BY <1>0, <1>2 DEF ReadProduct, Ended, NoOfferRequest, OfferTypeOK, OfferRequest
  <2>2. \A o \in Offers : ~Awaited(o) /\ ~Awaited(o)'
    BY <2>1 DEF OneByOne, Awaited
  <2> QED
    BY <1>0, <2>1, <2>2, BookSame DEF Live
<1>3. ASSUME NEW r \in OfferRequests, AssignOffer(r) PROVE Goal
  <2>0. PICK p \in Products, o \in Offers : p = offerReq[r].product /\ o = offerReq[r].offer
    BY <1>0, <1>3 DEF AssignOffer, ClearsMarked, Knows
  <2>1. offerReq[r].pc = "assignOffer" /\ offerReq'[r].pc = "idle" /\ UNCHANGED offer
    BY <1>0, <1>3 DEF AssignOffer, Ended, NoOfferRequest, OfferTypeOK, ClearsMarked, Knows
  <2>2. Live(o) /\ (\A q \in Products : product[q].offer # o)
        /\ (product[p].kept => product[p].offer = None)
    BY <1>0, <2>0, <2>1 DEF AwaitedRuns, NoneYet
  <2>3. /\ \A n \in Offers : Awaited(n) <=> n = o
        /\ \A n \in Offers : ~Awaited(n)'
    BY <2>0, <2>1 DEF OneByOne, Awaited
  <2>4. \A n \in Offers : Live(n)' <=> Live(n)
    BY <2>1 DEF Live
  <2>5. CASE product[p].kept
    <3>1. /\ product'[p].offer = o
          /\ \A q \in Products : q # p => product'[q] = product[q]
      BY <1>0, <1>3, <2>0, <2>1, <2>5 DEF AssignOffer, Assigned, OfferTypeOK
    <3>2. Running(p)' = o /\ Running(p) = None /\ \A q \in Products : Running(q) # o
      <4>1. Running(p)' = o
        BY <2>1, <2>2, <2>4, <3>1 DEF Running
      <4>2. Running(p) = None
        BY <2>2, <2>5 DEF Running
      <4> QED
        BY <1>0, <2>1, <2>2, <4>1, <4>2, RunningIs
    <3>3. \A q \in Products : q # p => Running(q)' = Running(q)
      BY <2>1, <3>1 DEF Running, Live
    <3>4. \A q \in Products : Running(q)' = IF q = p THEN o ELSE Running(q)
      BY <3>2, <3>3
    <3>5. ASSUME NEW n \in Offers PROVE Over(n)' <=> Over(n)
      <4>1. CASE n = o
        BY <2>1, <2>3, <3>2, <4>1 DEF Over
      <4>2. CASE n # o
        <5>1. \A q \in Products : Running(q)' # n <=> Running(q) # n
          BY <2>1, <3>2, <3>4, <4>2
        <5> QED
          BY <2>1, <2>3, <4>2, <5>1 DEF Over
      <4> QED
        BY <4>1, <4>2
    <3>6. ~Over(o)
      BY <2>1, <2>3 DEF Over
    <3>7. Made(p, o)
      BY <3>2, <3>4, <3>5, <3>6
    <3> QED
      BY <2>1, <3>7
  <2>6. CASE ~product[p].kept
    <3>1. UNCHANGED product
      BY <1>3, <2>0, <2>6 DEF AssignOffer
    <3>2. \A q \in Products : Running(q)' = Running(q) /\ Running(q) # o
      BY <1>0, <2>1, <2>2, <3>1, RunningIs DEF Running, Live
    <3>3. offer[o] # None
      BY <2>2 DEF Live
    <3>4. Lapsed(o)
      BY <2>1, <2>3, <3>2, <3>3 DEF Over
    <3> QED
      BY <2>1, <3>4
  <2> QED
    BY <2>5, <2>6
<1>4. ASSUME NEW r \in OfferRequests, MarkDeleted(r) PROVE Goal
  <2>0. PICK o \in Offers : o = offerReq[r].offer
    BY <1>0, <1>4 DEF MarkDeleted, ClearsMarked, Knows
  <2>1. /\ offerReq[r].pc = "markDeleted" /\ offerReq'[r].pc = "clearProduct"
        /\ UNCHANGED product
    BY <1>0, <1>4 DEF MarkDeleted, OfferTypeOK, OfferRequest
  <2>2. \A n \in Offers : ~Awaited(n) /\ ~Awaited(n)'
    BY <2>1 DEF OneByOne, Awaited
  <2>3. /\ offer[o] # None /\ ~Live(o)'
        /\ \A n \in Offers : /\ offer'[n] = None <=> offer[n] = None
                             /\ n # o => (Live(n)' <=> Live(n))
    <3>1. offer[o] # None /\ offer'[o].deleted
      BY <1>0, <1>4, <2>0, MarkKeeps
    <3>2. \A n \in Offers : /\ offer'[n] = None <=> offer[n] = None
                            /\ n # o => offer'[n] = offer[n]
      BY <1>0, <1>4, <2>0, MarkKeeps
    <3> QED
      BY <3>1, <3>2 DEF Live
  <2>4. \A q \in Products : Running(q)' = IF Running(q) = o THEN None ELSE Running(q)
    <3> SUFFICES ASSUME NEW q \in Products
                 PROVE  Running(q)' = IF Running(q) = o THEN None ELSE Running(q)
      OBVIOUS
    <3>1. product[q].offer \in Offers \cup {None}
      BY <1>0 DEF OfferTypeOK, ProductDoc
    <3> QED
      <4>1. CASE product[q].offer = None
        BY <2>1, <4>1 DEF Running
      <4>2. CASE product[q].offer = o
        BY <2>1, <2>3, <4>2 DEF Running
      <4>3. CASE product[q].offer \in Offers /\ product[q].offer # o
        <5>1. Live(product[q].offer)' <=> Live(product[q].offer)
          BY <2>1, <2>3, <4>3
        <5> QED
          BY <2>1, <4>3, <5>1 DEF Running
      <4> QED
        BY <3>1, <4>1, <4>2, <4>3
  <2>5. \A n \in Offers : Over(n)' <=> Over(n) \/ n = o
    BY <2>1, <2>2, <2>3, <2>4 DEF Over
  <2>6. ASSUME NEW p \in Products, Running(p) = o PROVE Finished(p, o)
    <3>1. \A q \in Products : Running(q) = o => q = p
      BY <1>0, <2>1, <2>6, RunningIs DEF RefersBack
    <3> QED
      BY <2>1, <2>4, <2>5, <2>6, <3>1
  <2>7. CASE \A p \in Products : Running(p) # o
    BY <2>1, <2>4, <2>5, <2>7
  <2> QED
    BY <2>1, <2>6, <2>7
<1>5. ASSUME NEW r \in OfferRequests, ClearProduct(r) PROVE Goal
  <2>1. /\ offerReq[r].pc = "clearProduct" /\ offerReq'[r].pc = "idle" /\ UNCHANGED offer
        /\ offer[offerReq[r].offer].deleted
    BY <1>0, <1>5 DEF ClearProduct, Ended, NoOfferRequest, OfferTypeOK, ClearsMarked, Knows
  <2>2. \A n \in Offers : ~Awaited(n) /\ ~Awaited(n)' /\ (Live(n)' <=> Live(n))
    BY <2>1 DEF OneByOne, Awaited, Live
  <2>3. \A q \in Products : \/ product'[q] = product[q]
                            \/ product[q].offer = offerReq[r].offer /\ product'[q].offer = None
    BY <1>0, <1>5 DEF ClearProduct, Assigned, OfferTypeOK, Referring
  <2>4. \A q \in Products : Running(q)' = Running(q)
    BY <1>0, <2>1, <2>3 DEF Running, Live
  <2> QED
    BY <2>1, <2>2, <2>4 DEF Over
<1>6. ASSUME NEW r \in OfferRequests, NEW o \in Offers, SaveOffer(r, o) PROVE Goal
  <2>1. /\ UNCHANGED product /\ offerReq[r].pc = "saveOffer" /\ offerReq'[r].pc = "assignOffer"
        /\ offerReq'[r].offer = o /\ offer[o] = None
        /\ \A n \in Offers : n # o => offer'[n] = offer[n]
    BY <1>0, <1>6, SaveKeeps DEF SaveOffer
  <2>2. \A n \in Offers : ~Awaited(n) /\ (Awaited(n)' <=> n = o)
    BY <2>1 DEF OneByOne, Awaited
  <2>3. \A q \in Products : product[q].offer # o
    BY <1>0, <2>1 DEF RefersBack
  <2>4. \A q \in Products : product[q].offer \in Offers \cup {None}
    BY <1>0 DEF OfferTypeOK, ProductDoc
  <2>5. \A q \in Products : Running(q)' = Running(q)
    BY <2>1, <2>3, <2>4 DEF Running, Live
  <2> QED
    BY <2>1, <2>2, <2>5 DEF Over
<1>7. ASSUME NEW r \in OfferRequests, NEW o \in Offers, CallDelete(r, o) PROVE Goal
  <2>1. /\ offerReq[r].pc = "idle" /\ offerReq'[r].pc = "markDeleted"
        /\ UNCHANGED <<product, offer>>
    BY <1>0, <1>7 DEF CallDelete, NoOfferRequest, OfferTypeOK
  <2>2. \A n \in Offers : ~Awaited(n) /\ ~Awaited(n)'
    BY <2>1 DEF OneByOne, Awaited
  <2> QED
    BY <1>0, <2>1, <2>2, BookSame DEF Live
<1>8. ASSUME NEW o \in Offers, NEW d \in Rates, UpdateOffer(o, d) PROVE Goal
  <2>1. UNCHANGED <<product, offerReq>>
    BY <1>8 DEF UpdateOffer
  <2>2. \A n \in Offers : /\ Live(n)' <=> Live(n)
                          /\ offer'[n] = None <=> offer[n] = None
    BY <1>0, <1>8, UpdateKeeps DEF Live
  <2> QED
    BY <1>0, <2>1, <2>2, BookSame DEF Awaited
<1>9. ASSUME NEW p \in Products, DeleteProduct(p) PROVE Goal
  <2>1. /\ UNCHANGED <<offer, offerReq>> /\ product'[p].offer = None
        /\ \A q \in Products : q # p => product'[q] = product[q]
    BY <1>0, <1>9 DEF DeleteProduct, OfferTypeOK
  <2>2. /\ Running(p)' = None
        /\ \A q \in Products : q # p => Running(q)' = Running(q)
    BY <2>1 DEF Running, Live
  <2>3. \A n \in Offers : Awaited(n)' <=> Awaited(n)
    BY <2>1 DEF Awaited
  <2>4. CASE Running(p) = None
    BY <2>1, <2>2, <2>3, <2>4 DEF Over
  <2>5. CASE Running(p) # None
    <3> DEFINE o == Running(p)
    <3>1. o \in Offers /\ product[p].offer = o /\ offer[o] # None
      BY <1>0, <2>5 DEF Running, Live, OfferTypeOK, ProductDoc
    <3>2. ~Awaited(o)
      BY <1>0, <3>1 DEF Awaited, AwaitedRuns
    <3>3. \A q \in Products : Running(q) = o => q = p
      BY <1>0, <3>1, RunningIs DEF RefersBack
    <3>4. \A n \in Offers : Over(n)' <=> Over(n) \/ n = o
      BY <2>1, <2>2, <2>3, <3>1, <3>2, <3>3 DEF Over
    <3>5. Finished(p, o)
      BY <2>2, <2>5, <3>4
    <3> QED
      BY <3>1, <3>5
  <2> QED
    BY <2>4, <2>5
<1>10. ASSUME NEW p \in Products, NEW d \in Rates, UpdateProduct(p, d) PROVE Goal
  <2>1. UNCHANGED <<offer, offerReq>>
    BY <1>10 DEF UpdateProduct
  <2>2. \A q \in Products : product'[q].offer = product[q].offer
    BY <1>0, <1>10, ProductKept
  <2> QED
    BY <1>0, <2>1, <2>2, BookSame DEF Awaited, Live
<1>11. ASSUME OfferCrash PROVE Goal
  <2>1. UNCHANGED <<product, offer>> /\ \A n \in Offers : ~Awaited(n)'
    BY <1>11 DEF OfferCrash, NoOfferRequest, Awaited
  <2>2. \A q \in Products : Running(q)' = Running(q)
    BY <2>1 DEF Running, Live
  <2>3. ASSUME NEW r \in OfferRequests, offerReq[r].pc = "assignOffer" PROVE Lapsed(offerReq[r].offer)
    <3>1. /\ offerReq[r].offer \in Offers /\ offer[offerReq[r].offer] # None
          /\ \A q \in Products : product[q].offer # offerReq[r].offer
      BY <1>0, <2>3 DEF AwaitedRuns, ClearsMarked, Knows
    <3>2. \A q \in Products : Running(q) # offerReq[r].offer
      BY <1>0, <3>1, RunningIs
    <3>3. \A n \in Offers : Awaited(n) => n = offerReq[r].offer
      BY DEF OneByOne, Awaited
    <3> QED
      BY <2>1, <2>2, <3>1, <3>2, <3>3 DEF Over
  <2>4. ASSUME NEW r \in OfferRequests, offerReq[r].pc = "assignOffer" PROVE Goal
    <3>1. offerReq[r].offer \in Offers
      BY <1>0, <2>4 DEF ClearsMarked, Knows
    <3> QED
      BY <2>3, <2>4, <3>1
  <2>5. CASE \A r \in OfferRequests : offerReq[r].pc # "assignOffer"
    <3>1. \A n \in Offers : ~Awaited(n)
      BY <2>5 DEF Awaited
    <3> QED
      BY <2>1, <2>2, <3>1 DEF Over
  <2> QED
    BY <2>4, <2>5
<1>12. ASSUME UNCHANGED offerVars PROVE Goal
  <2>1. UNCHANGED <<product, offer, offerReq>>
    BY <1>12 DEF offerVars
  <2> QED
    BY <1>0, <2>1, BookSame DEF Live, Awaited
<1>13. Goal
  <2> HIDE DEF Goal
  <2>1. ASSUME NEW r \in OfferRequests,
               \/ \E p \in Products, d \in Rates : CallCreate(r, p, d)
               \/ ReadProduct(r) \/ AssignOffer(r) \/ MarkDeleted(r) \/ ClearProduct(r)
               \/ \E o \in Offers : SaveOffer(r, o) \/ CallDelete(r, o)
        PROVE  Goal
    BY <1>1, <1>2, <1>3, <1>4, <1>5, <1>6, <1>7, <2>1
  <2>2. CASE \/ \E o \in Offers, d \in Rates : UpdateOffer(o, d)
             \/ \E p \in Products, d \in Rates : UpdateProduct(p, d)
             \/ \E p \in Products : DeleteProduct(p)
             \/ OfferCrash \/ UNCHANGED offerVars
    BY <1>8, <1>9, <1>10, <1>11, <1>12, <2>2
  <2> QED
    BY <2>1, <2>2, Zenon DEF OfferNext
<1>14. CASE Same
  BY <1>14, BookStutters
<1>15. ASSUME NEW p \in Products, NEW o \in Offers, Made(p, o) PROVE Book!Make(p, o)
  <2>1. {n \in Offers : Over(n)'} = {n \in Offers : Over(n)}
    BY <1>15
  <2>2. [q \in Products |-> Running(q)'] = [[q \in Products |-> Running(q)] EXCEPT ![p] = o]
    BY <1>15
  <2>3. [q \in Products |-> Running(q)][p] = None /\ o \notin {n \in Offers : Over(n)}
    BY <1>15
  <2>4. \A q \in Products : [x \in Products |-> Running(x)][q] # o
    BY <1>15
  <2> QED
    BY <2>1, <2>2, <2>3, <2>4, Zenon DEF Book!Make, Over
<1>16. ASSUME NEW p \in Products, NEW o \in Offers, Finished(p, o) PROVE Book!Finish(p, o)
  <2>1. {n \in Offers : Over(n)'} = {n \in Offers : Over(n)} \cup {o}
    BY <1>16
  <2>2. [q \in Products |-> Running(q)'] = [[q \in Products |-> Running(q)] EXCEPT ![p] = None]
    BY <1>16
  <2> QED
    BY <1>16, <2>1, <2>2 DEF Book!Finish, Over
<1>17. ASSUME NEW o \in Offers, Lapsed(o) PROVE Book!Lapse(o)
  BY <1>17 DEF Book!Lapse, Over
<1> QED
  BY <1>13, <1>14, <1>15, <1>16, <1>17 DEF Book!Next

(* Handled one request at a time, crashes included, the handlers implement  *)
(* OfferBook: a product has at most one running offer, gets one only when   *)
(* it has none, and what was deleted never runs again.                      *)
THEOREM HandlersKeepTheBook == OneByOne => (OfferSpec => BookSpec)
<1> SUFFICES ASSUME OneByOne PROVE OfferSpec => BookSpec
  OBVIOUS
<1>1. OfferInit => Book!Init
  BY OfferConstants DEF OfferInit, NoOfferRequest, Book!Init, Running, Live
<1>2. BookInv /\ BookInv' /\ [OfferNext]_offerVars =>
        [Book!Next]_<<[p \in Products |-> Running(p)],
                      {o \in Offers : /\ offer[o] # None /\ ~Awaited(o)
                                      /\ \A p \in Products : Running(p) # o}>>
  BY BookOfStep
<1>3. OfferSpec => []BookInv
  BY BookInvHolds
<1> QED
  BY <1>1, <1>2, <1>3, PTL DEF OfferSpec, BookSpec, Book!Spec
=============================================================================
