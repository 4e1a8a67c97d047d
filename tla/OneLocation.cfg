SPECIFICATION Spec
CONSTANTS
    Location <- CrossingLocation
    BranchingFactor = 2
    LeafSize = 3
    Geometry <- CrossingGeometry
    GetGeometryIndex <- CrossingGeometryIndex
    GetComponentID <- CrossingComponents
    ExcludeNode = {}
    LeftHandDriving = {}
    RTree <- CrossingTree
    Turns <- CrossingTurns
    MaxNearest = 3
    MaxRoute = 3
    MaxTable = 3
    MaxTrip = 4
    MaxMatch = 5
    MaxAlternatives = 1
    MaxRadiusMatch = 3
    BF_MAX_FEASIBLE = 4
    DEFAULT_GPS_PRECISION = 1
    MAX_BROKEN_STATES = 2
    MAX_DISTANCE_DELTA = 6
    MaxSpeed = 4
    WeightMultiplier = 10
    EmissionScale = 1
    TidyDistance = 2
    TidyDuration = 1
    Requests <- Crossing
    MaxRequests = 1
    ReadSizes = {12}
INVARIANT OneLocation
