SPECIFICATION FairSpec
CONSTANTS
  l1 = l1
  l2 = l2
  Line <- MCLine
  MaxWrites = 2
  MaxFaults = 1
  MaxCrashes = 0
PROPERTY RetryWritesRemaining
