------------------------------ MODULE OfferBook ------------------------------
(***************************************************************************)
(* What createOffer and deleteOffer promise a seller: a product has at     *)
(* most one offer, a new one is made only when it has none, and a deleted  *)
(* one never comes back.                                                   *)
(***************************************************************************)
CONSTANTS Products, Offers, None
VARIABLES running,   \* [Products -> Offers \cup {None}]: the offer a product has
          over       \* the offers that were deleted

Init == running = [p \in Products |-> None] /\ over = {}

Make(p, o) ==
  /\ running' = [running EXCEPT ![p] = o]
  /\ running[p] = None /\ o \notin over
  /\ \A q \in Products : running[q] # o
  /\ UNCHANGED over

(* An offer may also end because its product was deleted. *)
Finish(p, o) ==
  /\ running[p] = o /\ o # None
  /\ running' = [running EXCEPT ![p] = None]
  /\ over' = over \cup {o}

(* An offer whose product was deleted before it was assigned never runs. *)
Lapse(o) ==
  /\ over' = over \cup {o}
  /\ \A q \in Products : running[q] # o
  /\ UNCHANGED running

Next ==
  \/ \E p \in Products, o \in Offers : Make(p, o) \/ Finish(p, o)
  \/ \E o \in Offers : Lapse(o)

Spec == Init /\ [][Next]_<<running, over>>
=============================================================================
