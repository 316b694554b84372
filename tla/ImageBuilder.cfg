SPECIFICATION Spec
CONSTANTS
  a1 = a1
  a2 = a2
  a3 = a3
  b1 = b1
  b2 = b2
  Apps <- MCApps
  NameOf <- MCNameOf
  Created <- MCCreated
  Texts = {"text", "longer"}
  URLs = {"url"}
  OneLiners = {"line"}
  Builds = {b1, b2}
  MaxEdits = 1
  MaxRestarts = 1
  None = None
SYMMETRY Symmetry
INVARIANTS
  TypeOK
  SuccessWasExported
  ImageOfItsName
  EntryAlive
PROPERTIES
  BuildsAreSlots
CHECK_DEADLOCK FALSE
