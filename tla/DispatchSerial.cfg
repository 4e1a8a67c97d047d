CONSTANTS
  c1 = c1
  c2 = c2
  o1 = o1
  o2 = o2
  o3 = o3
  A = A
  B = B
  None = None
  RemoveIt = RemoveIt
  Cities = {A}
  Couriers = {c1}
  Orders = {o1, o2, o3}
  CourierCity <- MCCourierCity
  OrderCity <- MCOrderCity
  Distance <- MCDistance
  Rayon <- MCRayon
  ApiMayFail = FALSE
  MaxCalls = 3
  MaxCrashes = 0
SPECIFICATION FairSpec
CHECK_DEADLOCK FALSE
INVARIANTS
  ScanIsClosest
PROPERTIES
  PoolSpec
  ReachableServed
