CONSTANTS
  Label = {l1, l2}
  Workflow = {x, y}
  Stored = {x}
  Kind = {simple, advanced}
  Opener = {o1, o2}
  Main = Main
  NoId = NoId
  None = None
  MaxWrites = 2
SPECIFICATION Spec
SYMMETRY Symmetry
INVARIANTS
  OneEditor
  OwnerIsCurrent
  OverviewCurrent
PROPERTIES
  UnseenNeverReplaced
CHECK_DEADLOCK FALSE
