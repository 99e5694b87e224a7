\* One refused configuration, then another one is wanted.
SPECIFICATION FairSpec
CONSTANTS
  Versions = {v1, v2}
  NoConfig = NoConfig
  Backup = Backup
  Torn = Torn
  Commands = {}
  Reboots = {}
  NoCommand = NoCommand
  MaxFaults = 1
PROPERTIES DesiredConfigIsReached
CHECK_DEADLOCK FALSE
