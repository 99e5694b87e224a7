\* Two sensors share one writer slot; the backlog limit is reached.
SPECIFICATION FairSpec
CONSTANTS
  Sensors = {s1, s2}
  NoSensor = NoSensor
  Chunks = {k1, k2, k3}
  NoChunk = NoChunk
  Buckets = {0, 1}
  Poison = {k3}
  MaxOpen = 1
  MaxPending = 1
  MaxSize = 2
  MaxFaults = 1
INVARIANTS UploadedWhole BacklogBounded
PROPERTIES Implements CompletedIsUploaded SilentSensorIsUploaded
CHECK_DEADLOCK FALSE
