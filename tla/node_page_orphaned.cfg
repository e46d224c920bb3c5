CONSTANTS
  n1 = n1
  n2 = n2
  s1 = s1
  s2 = s2
  b1 = b1
  Nodes = {n1, n2}
  Runs = {1}
  Servers = {s1, s2}
  Backends = {b1}
  BackendOf <- OneBackend
  Backup = {s2}
  Listed <- OneEmpty
  ReadOnly = {}
  Limit = 1
  OutStates = {"drain"}
  Windows = {0, 15}
  NoWindow = 0
  None = None
  MaxCalls = 2
  MaxOut = 2
SPECIFICATION Spec
INVARIANTS
 NoOrphanedSubmit
