\* Four releases in any order, a broken one, failing steps and a crash.
SPECIFICATION FairSpec
CONSTANTS
  Versions = {v0, v1, v2, bad}
  Initial = v0
  NoVersion = NoVersion
  Broken = {bad}
  Keep = 2
  Returns = TRUE
  MaxRequests = 3
  MaxFaults = 2
  MaxCrashes = 1
INVARIANTS CurrentExists TrialCanBeUndone RefusedIsUndone OnlyKeptRemain
PROPERTIES Implements FreshIsReached BrokenIsLeft
