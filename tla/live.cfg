CONSTANTS
  Nodes = {n1}
  Screens = {c1}
  MaxPolls = 3
  MaxFaults = 1
SPECIFICATION FairSpec
INVARIANTS
  TypeOK
  StreamMissesNothing
  HeldIsAnnounced
PROPERTIES
  GhostsFade
  ScreensCatchUp
