-------------------------- MODULE CourierDispatch --------------------------
(***************************************************************************)
(* The dispatch of orders to couriers: getDeliveries of                    *)
(* services/coursierService.js over the Redis lists of setupredis.js, fed  *)
(* by createOrderTest of services/orderService.js.                         *)
(*                                                                         *)
(* Every city has one Redis list of orders, `city:<city>`.  A request of a *)
(* courier (getDeliveries) is a sequence of awaited commands; each command *)
(* is one action here, taken together with the JavaScript that runs        *)
(* between its reply and the next await.  Commands of different requests   *)
(* interleave freely on the connection `client`.  The connection           *)
(* `coursierQueue` is a pipeline (conn): it also carries the blocking      *)
(* BRPOPLPUSH of the waiting couriers, behind which every later command of *)
(* the connection waits.                                                   *)
(***************************************************************************)
EXTENDS Integers, SequencesExt

CONSTANTS Cities,
          Couriers,      \* the couriers that call getDeliveries
          Orders,        \* the orders customers may place
          CourierCity,   \* [Couriers -> Cities]: coursierInfo.city
          OrderCity,     \* [Orders -> Cities]: req.body.city
          Distance,      \* [Couriers -> [Orders -> Nat]]: what the routing API answers
          Rayon,         \* [Couriers -> Nat]: coursierInfo.rayon
          None,          \* JavaScript's null or undefined
          RemoveIt,      \* the string "REMOVEIT"
          ApiMayFail,    \* whether getDistance may catch an error and return undefined
          MaxCalls,      \* bound: how often couriers call getDeliveries
          MaxCrashes     \* bound: how often the server process dies

ASSUME ConstantsAssumption ==
  /\ IsFiniteSet(Couriers)
  /\ CourierCity \in [Couriers -> Cities]
  /\ OrderCity \in [Orders -> Cities]
  /\ Distance \in [Couriers -> [Orders -> Nat]]
  /\ Rayon \in [Couriers -> Nat]
  /\ None \notin Orders /\ RemoveIt \notin Orders /\ None # RemoveIt
  /\ None \notin Nat
  /\ ApiMayFail \in BOOLEAN
  /\ MaxCalls \in Nat /\ MaxCrashes \in Nat

VARIABLES
  list,      \* [Cities -> Seq]: `city:<city>`, first element at index 0
  registry,  \* [Cities -> Seq]: `cityCoursier:<city>`
  conn,      \* couriers with a command in flight on coursierQueue, oldest first
  pc,        \* the await each request is at
  scan,      \* the locals curs, closestOrder, closestIndex of a request
  held,      \* orderRemoved: the order a waiting request took off the list
  placed,    \* the orders customers have placed
  handed,    \* how many replies carried each order
  paid,      \* the replies that carried an order, and the removals whose reply was lost
  calls, crashes

listVars  == <<list, registry>>
localVars == <<pc, scan, held>>
ghosts    == <<placed, handed, paid>>
bounds    == <<calls, crashes>>
vars == <<listVars, conn, localVars, ghosts, bounds>>

PC == {"idle", "getLen", "addCoursier", "brpoplpush", "getOrder", "measure",
       "addOrder", "first", "loop", "getOrderAt", "rmIndex", "rmSet", "rmRem"}

Entry == Orders \cup {RemoveIt}
NoScan == [curs |-> 0, order |-> None, dist |-> None, index |-> 0, read |-> None]

City(c) == CourierCity[c]
Goto(c, l) == pc' = [pc EXCEPT ![c] = l]

(* Slips a change to the code could make; no specification uses them. *)
RotateStuck(s) == s
RPopPeeks(s) == s
LRemHead(s) == IF s = <<>> THEN s ELSE Tail(s)
CloserFlipped(d, e) == d # None /\ e # None /\ d > e
(* LINDEX: the element at a zero-based index, null out of range. *)
At(s, i) == IF i < Len(s) THEN s[i + 1] ELSE None

(* BRPOPLPUSH from a list to itself moves the last element to the front. *)
Rotate(s) == <<Last(s)>> \o Front(s)

(* RPOP leaves all but the last element. *)
RPop(s) == Front(s)

(* LSET of an index in range, and LREM of the first marker. *)
LSet(s, i) == [s EXCEPT ![i + 1] = RemoveIt]
LRem(s) == RemoveFirst(s, RemoveIt)

(* getDistance: the API's distance, or undefined when the request failed. *)
Distances(c, o) == {Distance[c][o]} \cup (IF ApiMayFail THEN {None} ELSE {})

(* A comparison with undefined is false. *)
Within(d, r) == d # None /\ d <= r
Closer(d, e) == d # None /\ e # None /\ d < e

-----------------------------------------------------------------------------
Init ==
  /\ list = [x \in Cities |-> <<>>]
  /\ registry = [x \in Cities |-> <<>>]
  /\ conn = <<>>
  /\ pc = [c \in Couriers |-> "idle"]
  /\ scan = [c \in Couriers |-> NoScan]
  /\ held = [c \in Couriers |-> None]
  /\ placed = {}
  /\ handed = [o \in Orders |-> 0]
  /\ paid = 0
  /\ calls = 0 /\ crashes = 0

(* createOrderTest with delivery "coursier": the order is pushed at the tail. *)
Place(o) ==
  /\ o \notin placed
  /\ placed' = placed \cup {o}
  /\ list' = [list EXCEPT ![OrderCity[o]] = Append(@, o)]
  /\ UNCHANGED <<registry, conn, localVars, handed, paid, bounds>>

Call(c) ==
  /\ pc[c] = "idle" /\ calls < MaxCalls
  /\ calls' = calls + 1
  /\ Goto(c, "getLen")
  /\ UNCHANGED <<listVars, conn, scan, held, ghosts, crashes>>

(* The length read decides between waiting for an order and scanning. *)
GetLen(c) ==
  /\ pc[c] = "getLen"
  /\ IF list[City(c)] = <<>>
     THEN Goto(c, "addCoursier") /\ conn' = Append(conn, c)
     ELSE Goto(c, "first") /\ UNCHANGED conn
  /\ UNCHANGED <<listVars, scan, held, ghosts, bounds>>

(***************************************************************************)
(* The waiting branch.                                                     *)
(***************************************************************************)
AddCoursier(c) ==
  /\ pc[c] = "addCoursier" /\ conn # <<>> /\ Head(conn) = c
  /\ registry' = [registry EXCEPT ![City(c)] = Append(@, c)]
  /\ conn' = Append(Tail(conn), c)
  /\ Goto(c, "brpoplpush")
  /\ UNCHANGED <<list, scan, held, ghosts, bounds>>

(* Blocks the connection while the list of the courier's city is empty. *)
BRPopLPush(c) ==
  /\ pc[c] = "brpoplpush" /\ conn # <<>> /\ Head(conn) = c
  /\ list[City(c)] # <<>>
  /\ list' = [list EXCEPT ![City(c)] = Rotate(@)]
  /\ conn' = Tail(conn)
  /\ Goto(c, "getOrder")
  /\ UNCHANGED <<registry, scan, held, ghosts, bounds>>

(* A request that ends: its locals are gone. *)
End(c) ==
  /\ Goto(c, "idle")
  /\ scan' = [scan EXCEPT ![c] = NoScan]
  /\ held' = [held EXCEPT ![c] = None]

(* RPOP; null.coordinates and JSON.parse of the marker throw to the catch. *)
GetOrder(c) ==
  /\ pc[c] = "getOrder"
  /\ LET l == list[City(c)]
     IN IF l = <<>>
        THEN End(c) /\ UNCHANGED list
        ELSE /\ list' = [list EXCEPT ![City(c)] = RPop(@)]
             /\ IF Last(l) = RemoveIt
                THEN End(c)
                ELSE /\ held' = [held EXCEPT ![c] = Last(l)]
                     /\ Goto(c, "measure")
                     /\ UNCHANGED scan
  /\ UNCHANGED <<registry, conn, ghosts, bounds>>

Reply(c, o) ==
  /\ handed' = [handed EXCEPT ![o] = @ + 1]
  /\ paid' = paid + 1
  /\ End(c)

Measure(c) ==
  /\ pc[c] = "measure"
  /\ \E d \in Distances(c, held[c]) :
       IF Within(d, Rayon[c])
       THEN Reply(c, held[c])
       ELSE Goto(c, "addOrder") /\ UNCHANGED <<scan, held, handed, paid>>
  /\ UNCHANGED <<listVars, conn, placed, bounds>>

(* The order is out of reach: back to the tail, and wait again. *)
AddOrder(c) ==
  /\ pc[c] = "addOrder"
  /\ list' = [list EXCEPT ![City(c)] = Append(@, held[c])]
  /\ held' = [held EXCEPT ![c] = None]
  /\ conn' = Append(conn, c)
  /\ Goto(c, "brpoplpush")
  /\ UNCHANGED <<registry, scan, ghosts, bounds>>

(***************************************************************************)
(* The scanning branch: read the orders one by one, keep the closest, and  *)
(* remove the index it was read at.                                        *)
(***************************************************************************)
Readable(o) == o \in Orders

(* getOrderAt(city, 0) and its distance: the first candidate. *)
First(c) ==
  /\ pc[c] = "first"
  /\ LET o == At(list[City(c)], 0)
     IN IF ~Readable(o)
        THEN End(c)
        ELSE \E d \in Distances(c, o) :
               /\ scan' = [scan EXCEPT ![c] = [curs |-> 1, order |-> o, dist |-> d,
                                               index |-> 0, read |-> None]]
               /\ Goto(c, "loop")
               /\ UNCHANGED held
  /\ UNCHANGED <<listVars, conn, ghosts, bounds>>

(* The length is read again at every turn; past it, the closest order is
   removed when it is in reach, and the request ends empty-handed otherwise. *)
Loop(c) ==
  /\ pc[c] = "loop"
  /\ IF scan[c].curs < Len(list[City(c)])
     THEN Goto(c, "getOrderAt") /\ UNCHANGED <<scan, held>>
     ELSE IF Within(scan[c].dist, Rayon[c])
          THEN Goto(c, "rmIndex") /\ UNCHANGED <<scan, held>>
          ELSE End(c)
  /\ UNCHANGED <<listVars, conn, ghosts, bounds>>

(* The order just read is weighed against the closest so far. *)
Weigh(s, o, d) ==
  IF Closer(d, s.dist)
  THEN [curs |-> s.curs + 1, order |-> o, dist |-> d, index |-> s.curs, read |-> None]
  ELSE [s EXCEPT !.curs = @ + 1]

GetOrderAt(c) ==
  /\ pc[c] = "getOrderAt"
  /\ LET o == At(list[City(c)], scan[c].curs)
     IN IF ~Readable(o)
        THEN End(c)
        ELSE \E d \in Distances(c, o) :
               /\ scan' = [scan EXCEPT ![c] = Weigh(@, o, d)]
               /\ Goto(c, "loop")
               /\ UNCHANGED held
  /\ UNCHANGED <<listVars, conn, ghosts, bounds>>

(* getOrderAtRemove: LINDEX, LSET of the marker, LREM of the marker, and the
   JSON.parse of what LINDEX read. *)
RemoveIndex(c) ==
  /\ pc[c] = "rmIndex"
  /\ scan' = [scan EXCEPT ![c].read = At(list[City(c)], scan[c].index)]
  /\ Goto(c, "rmSet")
  /\ UNCHANGED <<listVars, conn, held, ghosts, bounds>>

RemoveSet(c) ==
  /\ pc[c] = "rmSet"
  /\ IF scan[c].index < Len(list[City(c)])
     THEN /\ list' = [list EXCEPT ![City(c)] = LSet(@, scan[c].index)]
          /\ Goto(c, "rmRem")
          /\ UNCHANGED <<scan, held>>
     ELSE End(c) /\ UNCHANGED list      \* ERR index out of range
  /\ UNCHANGED <<registry, conn, ghosts, bounds>>

RemoveRem(c) ==
  /\ pc[c] = "rmRem"
  /\ list' = [list EXCEPT ![City(c)] = LRem(@)]
  /\ IF scan[c].read = RemoveIt
     THEN End(c) /\ paid' = paid + 1 /\ UNCHANGED handed
     ELSE Reply(c, scan[c].order)
  /\ UNCHANGED <<registry, conn, placed, bounds>>

(* The server process dies and restarts: every request is gone, Redis stays. *)
InFlight == {c \in Couriers : pc[c] \in {"measure", "addOrder", "rmRem"}}

Crash ==
  /\ crashes < MaxCrashes
  /\ crashes' = crashes + 1
  /\ pc' = [c \in Couriers |-> "idle"]
  /\ scan' = [c \in Couriers |-> NoScan]
  /\ held' = [c \in Couriers |-> None]
  /\ conn' = <<>>
  /\ paid' = paid + Cardinality(InFlight)
  /\ UNCHANGED <<listVars, placed, handed, calls>>

-----------------------------------------------------------------------------
Step(c) ==
  \/ GetLen(c)
  \/ AddCoursier(c) \/ BRPopLPush(c) \/ GetOrder(c) \/ Measure(c) \/ AddOrder(c)
  \/ First(c) \/ Loop(c) \/ GetOrderAt(c)
  \/ RemoveIndex(c) \/ RemoveSet(c) \/ RemoveRem(c)

Next ==
  \/ \E o \in Orders : Place(o)
  \/ \E c \in Couriers : Call(c)
  \/ \E c \in Couriers : Step(c)
  \/ Crash

Spec == Init /\ [][Next]_vars

(* Redis executes every command that is not blocked, the routing API answers
   every request one way or the other, and the event loop runs every
   continuation: weak fairness of each request. *)
FairSpec == Spec /\ \A c \in Couriers : WF_vars(Step(c))

-----------------------------------------------------------------------------
Queued == {o \in Orders : \E x \in Cities : \E i \in DOMAIN list[x] : list[x][i] = o}
Held   == {held[c] : c \in Couriers} \ {None}
Markers(x)  == {i \in DOMAIN list[x] : list[x][i] = RemoveIt}

ScanType ==
  [curs : Nat, order : Orders \cup {None}, dist : Nat \cup {None}, index : Nat,
   read : Entry \cup {None}]

(* The shape of the lists, the pipeline and the locals of the requests. *)
TypeOK ==
  /\ list \in [Cities -> Seq(Entry)]
  /\ registry \in [Cities -> Seq(Couriers)]
  /\ conn \in Seq(Couriers)
  /\ pc \in [Couriers -> PC]
  /\ scan \in [Couriers -> ScanType]
  /\ held \in [Couriers -> Orders \cup {None}]
  /\ placed \subseteq Orders
  /\ handed \in [Orders -> Nat]
  /\ paid \in Nat
  /\ calls \in Nat /\ crashes \in Nat

(* However requests interleave, and across crashes, an order is never in the
   lists twice, nor in a list and in the hands of a waiting request, nor in the
   hands of two: RPOP and RPUSH of the waiting branch move it as a whole. *)
NoDuplicates ==
  /\ \A x, y \in Cities : \A i \in DOMAIN list[x], j \in DOMAIN list[y] :
       list[x][i] \in Orders /\ list[x][i] = list[y][j] => x = y /\ i = j
  /\ \A c \in Couriers : held[c] # None => held[c] \notin Queued
  /\ \A c, d \in Couriers : held[c] # None /\ held[c] = held[d] => c = d

(* What makes TypeOK and NoDuplicates inductive: a request that measures or
   pushes back has an order in hand, and only placed orders are about. *)
HolderHolds == \A c \in Couriers : pc[c] \in {"measure", "addOrder"} => held[c] \in Orders
PlacedFirst == Queued \cup Held \subseteq placed
DispatchInv == TypeOK /\ HolderHolds /\ PlacedFirst /\ NoDuplicates

(* Every order that has left the lists is paid for: by a reply that carried an
   order, by a removal whose reply an exception or a crash swallowed, or by a
   request that is about to LREM.  A call costs the city at most one order. *)
Gone == placed \ (Queued \cup Held)
Removing == {c \in Couriers : pc[c] = "rmRem"}
RemovalAccounting == Cardinality(Gone) <= paid + Cardinality(Removing)

(* The couriers whose scan remembers a closest order. *)
Scanning == {c \in Couriers : pc[c] \in {"loop", "getOrderAt", "rmIndex", "rmSet"}}
(* What a scan removes is the closest of all the orders it has passed. *)
ScanIsClosest ==
  \A c \in Scanning : \A i \in 0 .. scan[c].curs - 1 :
    LET o == At(list[City(c)], i)
    IN o \in Orders => scan[c].dist <= Distance[c][o]

-----------------------------------------------------------------------------
(* The promise to the customers, when couriers are served one at a time. *)
Removed == {scan[c].order : c \in Removing}
Pool == INSTANCE OrderPool WITH waiting <- Queued \cup Held \cup Removed
PoolSpec == Pool!Spec

(* A courier that waits while an order in its reach is in the list of its city
   does not wait forever, whatever out-of-reach orders the list also holds. *)
ReachableOrder(c) ==
  \E o \in placed : OrderCity[o] = City(c) /\ handed[o] = 0 /\ Distance[c][o] <= Rayon[c]
ReachableServed ==
  \A c \in Couriers : pc[c] = "brpoplpush" /\ ReachableOrder(c) ~> pc[c] = "idle"
=============================================================================
