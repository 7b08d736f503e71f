CONSTANTS
  NThreads = 1
  Tasks <- MCTwo
  Client <- MCClient
  SpawnedBy <- MCSpawnTwo
  Uses = {"touch", "wait", "free"}
  Late = TRUE
SPECIFICATION Spec
INVARIANTS QueuedIdle PoolFaultsNeedClientFree WaitMeansDone
