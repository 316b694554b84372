CONSTANTS
  p1 = p1
  p2 = p2
  p3 = p3
  Pods = {p1, p2}
  NoPod = NoPod
  NoApp = NoApp
  plain = plain
  listed = listed
  odd = odd
  Bodies = {plain, listed, odd}
  Marshalled <- MCMarshalled
  InvalidBodies = {}
  UnstartableBodies = {odd}
  Specs <- SteadySpecs
  HasBuilder = FALSE
  NameIsShared = FALSE
  PodInformerMayLag = FALSE
  MaxWrites = 2
  MaxFaults = 1
  MaxDisruptions = 0
SPECIFICATION FairSpec
INVARIANT RestHasNoPods
PROPERTIES ReachesLive ReachesRest
CHECK_DEADLOCK FALSE
