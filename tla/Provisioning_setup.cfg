\* Two forms at once, three codes, one reset, two faults, one kill.
SPECIFICATION FairSpec
CONSTANTS
  Tasks = {t1, t2}
  Codes = {k1, k2, k3}
  NoKey = NoKey
  MaxFaults = 2
  MaxResets = 1
  MaxRivals = 1
  MaxKills = 1
INVARIANTS ResetWipes CodesAreNotWasted
PROPERTIES AccessPointReturns SetupSucceeds AgentFollows
