SPECIFICATION FairSpec
CONSTANT
  Modes = {"fdd", "tdd", "alert", "pinctrl"}
INVARIANTS ModeFollowsBus
PROPERTIES WakesUp
