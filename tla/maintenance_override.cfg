CONSTANTS
  n1 = n1
  s1 = s1
  Nodes = {n1}
  Servers = {s1}
  NodeOf <- OneServer
  Requests = {1, 2}
  NoRequest = 0
  Asks <- Bodies
  Outsiders = {}
  MaxFaults = 0
SPECIFICATION FairSpec
PROPERTY AbandonedNotEnforced
