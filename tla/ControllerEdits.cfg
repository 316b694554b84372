CONSTANTS
  p1 = p1
  p2 = p2
  p3 = p3
  Pods = {p1, p2}
  NoPod = NoPod
  NoApp = NoApp
  plain = plain
  listed = listed
  odd = odd
  Bodies = {plain, listed, odd}
  Marshalled <- MCMarshalled
  InvalidBodies = {}
  UnstartableBodies = {odd}
  Specs <- EditedSpecs
  HasBuilder = FALSE
  NameIsShared = FALSE
  PodInformerMayLag = TRUE
  MaxWrites = 3
  MaxFaults = 1
  MaxDisruptions = 0
SPECIFICATION Spec
SYMMETRY PodSymmetry
INVARIANT SinglePodPerSpec
PROPERTIES ServingPodKept ImplementsLifecycle
CHECK_DEADLOCK FALSE
