CONSTANTS
  p1 = p1
  p2 = p2
  p3 = p3
  Pods = {p1, p2}
  NoPod = NoPod
  NoApp = NoApp
  plain = plain
  listed = listed
  odd = odd
  Bodies = {plain, listed, odd}
  Marshalled <- MCMarshalled
  InvalidBodies = {}
  UnstartableBodies = {odd}
  Specs <- BuildSpecs
  HasBuilder = TRUE
  NameIsShared = TRUE
  PodInformerMayLag = TRUE
  MaxWrites = 3
  MaxFaults = 0
  MaxDisruptions = 1
SPECIFICATION Spec
SYMMETRY PodSymmetry
INVARIANTS TypeOK LiveAssertions
PROPERTY RestLeavesUnseen
CHECK_DEADLOCK FALSE
