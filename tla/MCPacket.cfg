CONSTANTS
  Channels = {2, 27}
  Ssize = {2, 4}
  Srate <- MCSrate
SPECIFICATION Spec
INVARIANTS TypeOK PacketsCarryStream
