CONSTANTS
  usb0 = usb0
  usb1 = usb1
  None = None
  Inst = {usb0, usb1}
  Values <- MCCaptureOptional
  Default <- MCDefault
  MaxConfigInterfaces = 7
  OtherInterfaces = {1, 2}
  FreeEndpoints = {1, 2}
SPECIFICATION Spec
INVARIANTS TypeOK DescriptorsWellFormed InterfacesRouted ClockRatesOfFull AnnouncedIsCurrent StreamsFollowHost OffMeansReleased
