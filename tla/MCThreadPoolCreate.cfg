CONSTANTS
  NThreads = 2
  Tasks <- MCTwo
  Client <- MCClient
  SpawnedBy <- MCSpawnTwo
  Uses = {}
  Late = FALSE
SPECIFICATION FairSpec
PROPERTIES CreateReturns
\* main polls pool->routines for ever, which is no step of the model
CHECK_DEADLOCK FALSE
