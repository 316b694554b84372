CONSTANTS
  p1 = p1
  p2 = p2
  p3 = p3
  Pods = {p1, p2}
  NoPod = NoPod
  NoApp = NoApp
  plain = plain
  listed = listed
  odd = odd
  Bodies = {plain, listed, odd}
  Marshalled <- MCMarshalled
  InvalidBodies = {}
  UnstartableBodies = {odd}
  Specs <- SteadySpecs
  HasBuilder = FALSE
  NameIsShared = FALSE
  PodInformerMayLag = TRUE
  MaxWrites = 3
  MaxFaults = 0
  MaxDisruptions = 0
SPECIFICATION Spec
INVARIANT RestHasNoPods
CHECK_DEADLOCK FALSE
