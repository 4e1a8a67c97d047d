SPECIFICATION MultiLevelSpec
CONSTANTS None = None
 Inputs <- MCInputs
 Origins <- MCOrigins
 BisectionBits = 6
 NodeBits = 5
 PartitionBits = 10
 MaxCellSizes <- MCSizes
 SmallComponent = 2
 Cuts = 2
 Ratio = 25
 Balance = 120
INVARIANT CutsMinimal PartitionNested RoutesShortest TablesAgree WaypointsOptimal
