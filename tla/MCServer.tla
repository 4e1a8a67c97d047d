------------------------------ MODULE MCServer ------------------------------
(***************************************************************************)
(* The services of the web server that keep their state in Mongo, in one   *)
(* run: Cart, Offer, Accounts and PasswordReset.  No two of them write the *)
(* same document, so steps of two services commute and a property of one   *)
(* is broken by its own steps alone: a behaviour here is one of one        *)
(* service, the others staying as they began.                              *)
(***************************************************************************)
EXTENDS Cart, Offer, Accounts, PasswordReset, TLC

CONSTANTS x1, x2, x3, y1, y2, z1, z2, v1

VARIABLE service

MCPrice == [v \in Variants |-> IF v = v1 THEN 5 ELSE 7]
MCOfferStock == [v \in Variants |-> IF v = v1 THEN 2 ELSE 0]
MCDiscount == [v \in Variants |-> IF v = v1 THEN 1 ELSE 0]

(* Every service takes each of these sets for one of its own, or not at all. *)
Symmetry == Permutations({x1, x2, x3}) \cup Permutations({y1, y2})
              \cup Permutations({z1, z2})

Init ==
  /\ service \in {"cart", "offer", "accounts", "reset"}
  /\ CartInit /\ OfferInit /\ AccountInit /\ ResetInit

Next ==
  /\ UNCHANGED service
  /\ \/ /\ service = "cart" /\ CartNext
        /\ UNCHANGED <<offerVars, accountVars, resetVars>>
     \/ /\ service = "offer" /\ OfferNext
        /\ UNCHANGED <<cartVars, accountVars, resetVars>>
     \/ /\ service = "accounts" /\ AccountNext
        /\ UNCHANGED <<cartVars, offerVars, resetVars>>
     \/ /\ service = "reset" /\ ResetNext
        /\ UNCHANGED <<cartVars, offerVars, accountVars>>

Spec == Init /\ [][Next]_<<service, cartVars, offerVars, accountVars, resetVars>>
=============================================================================
