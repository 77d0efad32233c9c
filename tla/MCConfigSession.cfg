CONSTANTS
  Net <- MCNet
  Xo <- MCXo
  DefaultNet = 1
  DefaultXo = 1
  CalibratedXo = 3
  None = None
  Torn = Torn
  Invalid = Invalid
  Action <- MCAction
  Edits <- MCEdits
  PowerLoss = TRUE
  BootFrm = TRUE
SPECIFICATION Spec
PROPERTIES ReturnedIsStored DriveComesBack
