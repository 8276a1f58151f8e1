SPECIFICATION Spec
CONSTANTS
  Tags = {t1, t2}
  Vals = {v1, v2}
  NoTag = NoTag
  NoValue = NoValue
  Capacity = 2
  ExactFit = FALSE
PROPERTIES
  PicksLatest
