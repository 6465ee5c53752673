SPECIFICATION ProvSpec
CONSTANTS
  Defaults = {d1}
  Extras = {e1}
  ProvPages = {q1}
  ProvRound = rd
  MaxProvEdits = 2
  MaxProvFaults = 0
  MaxProvEvents = 2
INVARIANT RefusedWhileUsed
CHECK_DEADLOCK FALSE
