SPECIFICATION Spec
CONSTANTS
  A = A
  B = B
  Me = Me
  U1 = U1
  U2 = U2
  NoConn = NoConn
  Conns = {c1, c2, c3}
  Names = {A, B, Me, U1, U2}
  Uuids = {1, 2}
  Self = Me
  UuidName <- MCUuidName
  RemoteEnds <- MCRemoteEnds
  Lists <- MCLists
  SecondLinks = FALSE
  MaxRound = 3
SYMMETRY ConnSymmetry
INVARIANTS
  NoDangling
  NoGhostModule
  RoutesWereAnnounced
  LookupReachesTheModule
  RoundRobinIsFair
