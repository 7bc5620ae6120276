SPECIFICATION HostSpec
CONSTANTS
  Processes = {"modules", "resources", "socket", "native", "stream", "editor"}
  Module = {a, b}
  Width = 3
  MaxEdits = 5
  VMs = {v1, v2}
  Handles = {1, 2, 3}
  Pids = {1}
  MaxToken = 2
  MaxMade = 4
  FailingInserts = {"file", "directory", "socket", "resolver"}
  CloseKeepsToken = FALSE
  Timeout = 6
  LastTick = 12
  Threads = {t1, t2}
  NativeHandles = {1, 2}
  MaxAddresses = 1
  MaxObjects = 3
  MaxBytes = 2
  MaxRecords = 3
  MaxPieces = 2
  Maximum = 1
  cbMaximumMessage = 1
  Documents = {d1}
  Restarters = {r1, r2}
  Askers = {a1}
  MaxServers = 3
  MaxVersion = 2
  MaxEvents = 2
  LateFiles = TRUE
INVARIANTS
  TypesOK
  StreamIntact
PROPERTIES
  ModulesInitialised
  HandlesOwned
  SocketsShared
  ConnectsInTime
  ServersFollowEditor
CHECK_DEADLOCK FALSE
