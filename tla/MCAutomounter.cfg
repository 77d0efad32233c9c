SPECIFICATION MounterFairSpec
CONSTANTS
  Events = {e1, e2, e3}
  Scripts = TRUE
INVARIANTS InStep NothingStale
PROPERTIES EventsEnd
