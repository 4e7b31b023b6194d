CONSTANTS
  Agents = {1, 2, 3}
  Key <- MCKey
  Space <- MCSpace
  Content <- MCContent
  ResultContent <- MCResultContent
  Copied <- MCCopied
  PageBytes = 4
  PageItems = 2
  Batch = 2
  MaxBatches = 2
  Limit = 2
  Keys = {1, 2, 3, 4}
  PageRuns = 2
  MaxBusy = 1
  MaxEvents = 8
  MaxFaults = 1
CHECK_DEADLOCK FALSE
SPECIFICATION ReadersSpec
INVARIANTS
  ResultsExact
  TranscriptExact
  InventoryExact
