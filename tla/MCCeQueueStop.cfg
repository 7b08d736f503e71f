CONSTANTS
  c1 = c1
  c2 = c2
  c3 = c3
  Consumers <- MCConsumers
  Timeouts <- MCForever
  MaxItems = 2
SPECIFICATION FairSpec
PROPERTIES StopReleasesAll
\* the owner may destroy the queue, after which nothing happens
CHECK_DEADLOCK FALSE
