SPECIFICATION Spec
CONSTANTS
  Hosts = {h1, h2}
  Kinds = {"open", "inProgress", "otherVersion"}
  MaxTime = 3
  MaxHeld = 2
  Iterates = FALSE
  TogglesStatus = FALSE
INVARIANTS ToldOfTheChosenLobby
