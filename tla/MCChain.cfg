SPECIFICATION Spec
CONSTANTS
  a = a
  b = b
  c = c
  NoNode = NoNode
  Nodes = {a, b, c}
  Links <- PathLinks
  Hops <- PathHops
  MaxRequests = 3
  Clients = {a}
  MaxFailures = 1
INVARIANTS
  CalledAtMostOnce
  AnswersMatch
  OneAnswerToCome
PROPERTIES
  EveryRequestIsAnswered
CHECK_DEADLOCK FALSE
