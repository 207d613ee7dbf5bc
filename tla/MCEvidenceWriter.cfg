\* A session ends when its final snapshot is written, so the system may stop.
CHECK_DEADLOCK FALSE
SPECIFICATION FairSpec
CONSTANT MaxSnapshots = 4
INVARIANTS SendNeverBlocks WrittenInOrder StreakIsTrue FinalIsLast
PROPERTIES ReportsMoveForward FinalReturns LatestIsWritten
