SPECIFICATION UpdateSpec
CONSTANTS
 Maps <- OneMap
 SignalPenalty = 3
 UTurnPenalty = 7
 MaxSegmentWeight = 30
 WordBits = 8
 Bits = 5
 Commands <- TwoLines
 SmallComponentSize = 4
INVARIANT LastLineKept
CHECK_DEADLOCK FALSE
