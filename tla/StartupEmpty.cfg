SPECIFICATION FairSpec
CONSTANTS
  Timescale = {TRUE}
  Origins <- EmptyDatabase
  Launches = {"compose"}
  MaxCrashes = 0
PROPERTIES
  EmptyDatabaseIsServed
CHECK_DEADLOCK FALSE
