SPECIFICATION Spec
CONSTANTS
  Tags = {t1, t2, t3}
  Vals = {v1, v2}
  NoTag = NoTag
  NoValue = NoValue
  Capacity = 3
  ExactFit = FALSE
SYMMETRY Symmetry
INVARIANTS
  WritesErased OneEntryPerTag
PROPERTIES
  KeepsKeys
