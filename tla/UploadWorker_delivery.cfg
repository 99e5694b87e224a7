\* A malformed, an invalid and an unassigned row, a good row with the serial of
\* the unassigned one and a good row with the other serial.
SPECIFICATION FairSpec
CONSTANTS
  Jobs = {1, 2, 3, 4, 5}
  Serials = {"gw", "old"}
  Serial <- TwoSerials
  Malformed = {2}
  Invalid = {3}
  Unassigned = {1}
  BatchSize = 3
  MaxRetries = 1
  MaxFaults = 2
INVARIANTS DuplicatesNeedFaults
PROPERTIES Implements GoodRowsDrain
CHECK_DEADLOCK FALSE
