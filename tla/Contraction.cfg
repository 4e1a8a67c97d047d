SPECIFICATION Spec
CONSTANTS N = 4
 Threads = {1, 2}
 Inputs <- MCInputs
 Hash <- MCHash
 CoreShare = 50
 RenumberShare = 100
 SimulationLimit = 1
 FullLimit = 3
INVARIANT RoundContracts DistancesKept RoutesShortest RoutesUnpack TablesAgree
