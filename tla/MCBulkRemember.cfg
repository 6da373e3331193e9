\* Four items, of which two may be under way at a time.
CONSTANTS
  i1 = i1
  i2 = i2
  i3 = i3
  i4 = i4
  Items = {i1, i2, i3, i4}
  Width = 2
SPECIFICATION Spec
INVARIANTS
  BulkInv
PROPERTIES
  AnswerIsLast
  ItemsAdvance
  KeepsPromise
CHECK_DEADLOCK FALSE
