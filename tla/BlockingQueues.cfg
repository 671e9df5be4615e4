CONSTANTS
  Producers = {p1, p2, p3}
  Consumers = {c1, c2, c3}
  Item = {a, b}
  MaxSizes = {0, 1, 2}
  MaxPuts = 4
SPECIFICATION FairSpec
INVARIANTS WakeupsSuffice
PROPERTIES Implements EveryItemTaken
CHECK_DEADLOCK FALSE
