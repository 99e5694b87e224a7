\* Two sensors, one without identities, compete for the lock.
SPECIFICATION FairSpec
CONSTANTS
  Sensors = {s1, s2}
  Legacy = {s2}
  Conns = {c1, c2}
  NoConn = NoConn
  Payloads = {p1}
  NoPayload = NoPayload
  NoPacket = NoPacket
  MaxBoot = 0
  MaxSeq = 2
  MaxFaults = 2
PROPERTIES PendingIsAcked
CHECK_DEADLOCK FALSE
