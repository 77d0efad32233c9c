CONSTANTS
  daemon = daemon
  None = None
  Torn = Torn
  NoFile = NoFile
  a = a
  b = b
  x = x
  y = y
  Daemon = daemon
  Updater = {daemon}
  Image <- MCImage
  Size <- MCSize
  Frm <- MCFrm
  HasMagic <- MCHasMagic
  Genuine <- MCGenuine
  Factory = a
  BootFit = {1, 2}
  DefaultFit = 1
SPECIFICATION Spec
INVARIANTS OnlyGenuineFlashed  
  
