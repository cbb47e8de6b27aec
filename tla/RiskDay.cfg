SPECIFICATION FairSpec
CONSTANTS
  Amounts <- MCAmounts
  MaxDailyLoss = 2
  MaxFailures = 1
  PageSize = 1
  MaxDay = 1
  MaxRows = 3
  MaxStreak = 1
  MaxFaults = 2
INVARIANTS CountedOnce TripSurvives
PROPERTIES OnlyReviewClears EventuallyTrips
CHECK_DEADLOCK FALSE
