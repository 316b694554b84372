CONSTANTS
  p1 = p1
  p2 = p2
  p3 = p3
  Pods = {p1, p2}
  NoPod = NoPod
  NoApp = NoApp
  plain = plain
  listed = listed
  odd = odd
  Bodies = {plain, listed, odd}
  Marshalled <- MCMarshalled
  InvalidBodies = {}
  UnstartableBodies = {odd}
  Specs <- OnceSpecs
  HasBuilder = FALSE
  NameIsShared = FALSE
  PodInformerMayLag = FALSE
  MaxWrites = 4
  MaxFaults = 0
  MaxDisruptions = 0
SPECIFICATION Spec
PROPERTY UninstallSparesLive
CHECK_DEADLOCK FALSE
