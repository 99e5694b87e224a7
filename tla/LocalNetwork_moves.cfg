\* Three sensors, room for two in the table, addresses that change hands.
SPECIFICATION FairSpec
CONSTANTS
  s1 = s1
  s2 = s2
  s3 = s3
  a1 = a1
  a2 = a2
  a3 = a3
  a4 = a4
  Sensors = {s1, s2, s3}
  Gateway = gw
  Addresses = {a1, a2, a3, a4}
  NoAddress = NoAddress
  Fallback = Fallback
  Leases <- MCLeases
  Answers <- MCAnswers
  MaxEntries = 2
  MaxMoves = 3
  MaxAnswers = 1
  MaxStops = 1
INVARIANTS DeleteIsAimed RecentIsKnown
PROPERTIES SensorsAreHeard DeletesAreTried
CHECK_DEADLOCK FALSE
