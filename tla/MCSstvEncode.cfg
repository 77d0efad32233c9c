CONSTANTS
  NoOption = NoOption
  Option <- MCOption
  File <- MCFile
  Colour <- MCColour
  Tenth = 11
  Sample = 5000
  Width <- MCWidth
  Height <- MCHeight
  MaxRate = 22050
  MaxSeconds = 300
SPECIFICATION Spec
INVARIANTS TypeOK NearestSample AudioFits ModeAnnounced SyncsRegular EveryLineHasSync
PROPERTY ImplementsTimeline
