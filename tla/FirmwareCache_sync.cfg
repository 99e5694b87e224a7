\* Two releases, each for sensors that run the one before.
SPECIFICATION FairSpec
CONSTANTS
  Newest = 2
  Needs <- MCNeeds
  Images = {a, b}
  NoImage = NoImage
  Torn = Torn
  Sensors = {s1}
  MaxReissues = 1
  MaxFaults = 2
INVARIANTS RecordedIsWhole
PROPERTIES SensorsAreUpdated
