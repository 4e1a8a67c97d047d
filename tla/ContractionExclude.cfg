SPECIFICATION Spec
CONSTANTS N = 4
 Threads = {1, 2}
 Inputs <- CheapToll
 Hash <- TollHash
 CoreShare = 50
 RenumberShare = 60
 SimulationLimit = 1000
 FullLimit = 2000
INVARIANT RoutesShortest
