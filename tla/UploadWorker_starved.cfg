\* upload_worker.py:257-258 against the code: as many rows of an unassigned
\* sensor as a request holds, in front of a good row.
SPECIFICATION FairSpec
CONSTANTS
  Jobs = {1, 2, 3}
  Serials = {"gw"}
  Serial <- OneSerial
  Malformed = {}
  Invalid = {}
  Unassigned = {1, 2}
  BatchSize = 2
  MaxRetries = 1
  MaxFaults = 0
PROPERTIES NothingHoldsUp
CHECK_DEADLOCK FALSE
