CONSTANTS
  p1 = p1
  p2 = p2
  p3 = p3
  NoOne = NoOne
  Proc = {p1, p2, p3}
  CommandLines <- MCCommandLines
  MayFail = {"pow", "plutossb", "set"}
SPECIFICATION Spec
INVARIANTS TypeOK MeasuredAsAsked GainHeld
