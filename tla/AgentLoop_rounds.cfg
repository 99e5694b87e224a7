\* Two configurations, a restart command and a reboot, two faults.
SPECIFICATION FairSpec
CONSTANTS
  Versions = {v1, v2}
  NoConfig = NoConfig
  Backup = Backup
  Torn = Torn
  Commands = {c1, c2}
  Reboots = {c2}
  NoCommand = NoCommand
  MaxFaults = 2
INVARIANTS ActiveIsWhole RefusedIsUndone RepeatsNeedFaults
PROPERTIES Implements CommandsAreAnswered ConfigIsReached
