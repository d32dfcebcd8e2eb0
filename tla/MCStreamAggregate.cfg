SPECIFICATION Spec
SYMMETRY MCSymmetry
CONSTANTS
  Contents = {a, b}
  NoItem = NoItem
  MaxIndex = 2
  MaxEvents = 4
INVARIANTS
  AnswerIsWhole
  RefusalHasCause
