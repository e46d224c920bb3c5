CONSTANTS
  Nodes = {n1}
  Servers = {a, b, c}
  Backups = {c}
  ForTicks = 2
  RepeatTicks = 3
  Disturbances = {"loss", "load", "save", "crash", "mute"}
  MaxDisturbances = 1
SPECIFICATION FairSpec
INVARIANTS
  TypeOK
  FiresAfterPersisting
  BeliefMatchesState
PROPERTIES
  NoticesAreSpaced
  ResolvesWhatFired
  TroubleIsHeard
