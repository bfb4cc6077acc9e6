SPECIFICATION CronFairSpec
CONSTANTS
  a1 = a1  a2 = a2  g1 = g1  g2 = g2
  Automation <- TwoAutomations
  Agent <- TwoAgents
  AgentOf <- OneEach
  Rank <- InOrder
  Definition <- Definitions
  None = None
  MaxTime = 4
  MaxEdits = 1
  MaxFaults = 2
INVARIANTS
  CursorsAgree
PROPERTIES
  NoReplay
  ForgottenStays
  DueIsServed
CHECK_DEADLOCK FALSE
