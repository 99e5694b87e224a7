\* A failure before the switch goes back to a stale previous release.
SPECIFICATION Spec
CONSTANTS
  Versions = {v0, v1, v2}
  Initial = v0
  NoVersion = NoVersion
  Broken = {}
  Keep = 3
  Returns = FALSE
  MaxRequests = 2
  MaxFaults = 1
  MaxCrashes = 0
INVARIANT FailureIsUndone
