------------------------------ MODULE OrderPool ------------------------------
(***************************************************************************)
(* What the dispatch of orders promises, whatever lists and requests it is *)
(* made of: an order waits from the moment it is placed until it is handed *)
(* to a courier, and is handed over once.                                  *)
(***************************************************************************)
EXTENDS Integers

CONSTANTS Orders
VARIABLES placed, waiting, handed

Init == placed = {} /\ waiting = {} /\ handed = [o \in Orders |-> 0]

Place(o) ==
  /\ o \notin placed
  /\ placed' = placed \cup {o}
  /\ waiting' = waiting \cup {o}
  /\ UNCHANGED handed

Hand(o) ==
  /\ o \in waiting /\ handed[o] = 0
  /\ waiting' = waiting \ {o}
  /\ handed' = [handed EXCEPT ![o] = 1]
  /\ UNCHANGED placed

Next == \E o \in Orders : Place(o) \/ Hand(o)
Spec == Init /\ [][Next]_<<placed, waiting, handed>>
=============================================================================
