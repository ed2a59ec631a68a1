SPECIFICATION Spec
CONSTANTS
  Names <- MCNames
  Numbered <- MCNumbered
  Volume <- MCVolume
  Contents = {"a", "b", "d"}
  Trees = {"b"}
  Layouts <- MCLayouts
  Selections <- MCSelections
  Targets = {"d"}
  Workers = {w1}
  MaxItems = 3
  UndoCap = 2
  Clones = {1}
  Excused = {"asked", "unasked", "self", "raced", "stale"}
  NoItem = NoItem
CHECK_DEADLOCK FALSE

PROPERTY UndoKeepsLastCopy
