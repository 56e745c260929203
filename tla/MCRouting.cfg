SPECIFICATION Spec
CONSTANTS
  a = a
  b = b
  c = c
  NoNode = NoNode
  Nodes = {a, b, c}
  Links <- PathLinks
  MaxLinkUps = 5
INVARIANTS
  EndsAgree
  SpacedChangesAreKnown
PROPERTIES
  EventuallyQuiet
CHECK_DEADLOCK FALSE
