SPECIFICATION Spec
CONSTANTS
  b1 = b1
  b2 = b2
  w1 = w1
  w2 = w2
  Backend = {b1, b2}
  Worker = {w1}
  Specs <- MCSpecs
  FailThreshold = 2
  SuccessThreshold = 1
  MaxChanges = 2
  MaxFlips = 2
PROPERTIES DeadTakenOut
