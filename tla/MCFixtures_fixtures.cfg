CONSTANTS
  Keyspaces <- MCKeyspaces
  Keys <- MCKeys
  Versions = {1}
  MaxFaults = 1
  Indexed <- MCKeyspaces
  Sources <- MCSources
  PageSize = 1
  ExportCalls <- MCExportCalls
  MaxWrites = 1
  MaxExports = 2
  ImportCalls <- MCImportCalls
  TargetStarts <- MCTargetStarts
  PrefixedBuckets <- MCPrefixed
  FailureLimit = 1
  BatchSize = 2
  MaxImports = 2
SPECIFICATION Spec
CONSTRAINT Bounds
CHECK_DEADLOCK FALSE
INVARIANTS ExportInv ImportInv RepeatSucceeds
PROPERTIES StoreSpec
