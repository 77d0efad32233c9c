CONSTANTS
  usb0 = usb0
  None = None
  Inst = {usb0}
  Values <- MCAnyDirections
  Default <- MCDefault
  MaxConfigInterfaces = 4
  OtherInterfaces = {0}
  FreeEndpoints = {1}
SPECIFICATION Spec
INVARIANT ClockRates
