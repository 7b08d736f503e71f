CONSTANTS
  NThreads = 1
  Tasks <- MCThree
  Client <- MCClient
  SpawnedBy <- MCSpawnThree
  Uses = {}
  Late = FALSE
SPECIFICATION FairSpec
INVARIANTS TypeOK NoFault Fifo KillWaitDropsOnlyLate NothingLeft
PROPERTIES DestroyReturns EveryTaskEnds
