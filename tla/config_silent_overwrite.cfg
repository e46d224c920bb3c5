CONSTANTS
  Nodes = {n1}
  Editors = {e1}
  Weighings = {}
  Settings = {"weight", "check"}
  Typed = {"weight", "check"}
  ServerSettings = {"weight"}
  Weight = "weight"
  Home = n1
  MaxVersion = 2
  MaxWrites = 2
SPECIFICATION FairSpec
PROPERTY ConcurrentEditsSurvive
