SPECIFICATION Spec
CONSTANTS
  MaxEngines = 2
  MaxKills = 1
INVARIANTS EngineAtRest  Serves
CHECK_DEADLOCK FALSE
