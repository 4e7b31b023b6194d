CONSTANTS
  Paths <- MCPaths
  Layout = "layout.json"
  Journaled = TRUE
  MaxWrites = 2
  MaxBackups = 2
  MaxFaults = 2
CHECK_DEADLOCK FALSE
SPECIFICATION VolumeSpec
INVARIANTS
  RestoreExact
  ResetExact
  BackupExact
