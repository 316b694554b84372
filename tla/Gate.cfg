CONSTANTS
  plain = plain
  s1 = s1
  s2 = s2
  c1 = c1
  c2 = c2
  c3 = c3
  p1 = p1
  Pods = {p1}
  NoPod = NoPod
  NoApp = NoApp
  Bodies = {plain}
  Marshalled <- MCMarshalled
  InvalidBodies = {}
  UnstartableBodies = {}
  Specs <- RestingSpecs
  Streams = {s1, s2}
  Changes = {c1, c2}
  NoStream = NoStream
  NoChange = NoChange
  Errors = {""}
  MaxOpens = 2
  MaxWrites = 2
  MaxEdits = 1
  MaxFaults = 1
SPECIFICATION FairSpec
INVARIANTS TypeOK OneChangeAtATime AttachNamesPod
PROPERTIES ChangesEnd OpenReturns
CHECK_DEADLOCK FALSE
