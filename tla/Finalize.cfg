CONSTANTS
  Object = {a, b}
  Static = {s}
  Weak = {w}
  Field = {1}
  HiddenField = {}
  NULL = NULL
  Data = {a}
  MaxCalls = 1
  MaxOverflows = 1
SPECIFICATION Spec
INVARIANTS NothingNeededReclaimed LinksAreSafe FinalizedInOrder
PROPERTIES LostIsFinalized
