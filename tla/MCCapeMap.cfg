SPECIFICATION Spec
CONSTANTS
  Keys = {1, 2, 3, 4, 5}
  Nodes = {1, 2, 3, 4, 5}
  NoNode = NoNode
  EraseDirs = {"forw"}
  MaxRefused = 1
INVARIANTS
  CursorIsExact
PROPERTIES
  ImplementsSortedMap
