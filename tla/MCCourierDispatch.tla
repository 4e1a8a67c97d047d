-------------------------- MODULE MCCourierDispatch --------------------------
(* Small instances of CourierDispatch: o3 is out of the reach of every courier,
   the couriers disagree on which of o1 and o2 is closer. *)
EXTENDS CourierDispatch

CONSTANTS c1, c2, o1, o2, o3, A, B

MCCourierCity == [c \in Couriers |-> A]
MCOrderCity   == [o \in Orders |-> A]
MCDistance ==
  [c \in Couriers |-> [o \in Orders |->
     IF o = o3 THEN 9 ELSE IF (c = c1) = (o = o1) THEN 2 ELSE 4]]
MCRayon == [c \in Couriers |-> 5]
=============================================================================
