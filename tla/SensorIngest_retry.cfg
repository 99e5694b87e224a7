\* One identified sensor, three connections: retries racing each other.
SPECIFICATION Spec
CONSTANTS
  Sensors = {s1}
  Legacy = {}
  Conns = {c1, c2, c3}
  NoConn = NoConn
  Payloads = {p1, p2}
  NoPayload = NoPayload
  NoPacket = NoPacket
  MaxBoot = 1
  MaxSeq = 2
  MaxFaults = 2
SYMMETRY Symmetry
INVARIANTS AckedIsStored QueuedIsArchived QueuedOnce ArchiveInOrder
PROPERTIES CommittedIsNotRewritten CursorNeverRegresses Implements
CHECK_DEADLOCK FALSE
