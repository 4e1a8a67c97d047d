SPECIFICATION UpdateSpec
CONSTANTS
 Maps <- MCMaps
 SignalPenalty = 3
 UTurnPenalty = 7
 MaxSegmentWeight = 30
 WordBits = 8
 Bits = 5
 Commands <- MCCommands
 SmallComponentSize = 4
INVARIANT RestrictionsExact GeometriesFit ComponentsExact UpdatesExact NoWriteLost
CHECK_DEADLOCK FALSE
