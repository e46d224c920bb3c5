CONSTANTS
  Nodes = {n1, n2}
  Editors = {e1}
  Weighings = {k1}
  Settings = {"weight", "check"}
  Typed = {"check"}
  ServerSettings = {"weight", "check"}
  Weight = "weight"
  Home = n1
  MaxVersion = 2
  MaxWrites = 2
SPECIFICATION FairSpec
INVARIANTS
  TypeOK
  TextsStayHome
PROPERTIES
  FreshWritesUndoNothing
  EditsAreValidated
