SPECIFICATION Spec
CONSTANTS
  Hosts = {h1, h2}
  Kinds = {"open", "inProgress"}
  MaxTime = 3
  MaxHeld = 2
  Iterates = TRUE
  TogglesStatus = TRUE
SYMMETRY HostSymmetry
INVARIANTS TypeOK StormReadsTheList ExtraAtHome
PROPERTIES ListIsStableWhileRead
