SPECIFICATION Spec
CONSTANTS
  client = client
  server = server
  NoLink = NoLink
  Nodes = {client, server}
  Remotes <- OneRemote
  MaxLinks = 4
  MaxBreaks = 3
  MaxStarts = 2
  MayFail = TRUE
INVARIANTS
  OneWayToTheRemote
  RouteKnowsItsConnections
PROPERTIES
  DeleteEnds
  LinkedInTheEnd
CHECK_DEADLOCK FALSE
