CONSTANTS
  onParam = onParam
  custom = custom
  Clients = {a, b}
  NoClient = noClient
  TableSize = 3
  Names = {onParam, custom}
  Predefined <- MCPredefined
  Special = {onParam}
  NoName = noName
  Globals = {set}
  Methods = {update}
  Objects = {1}
  Threads = {quik}
  MaxCallables = 1
  MaxRefs = 2
  MaxData = 2
  MaxConnections = 1
SPECIFICATION Spec
SYMMETRY Symmetries
INVARIANT
  FunctionsReachTheirClient
CHECK_DEADLOCK FALSE
