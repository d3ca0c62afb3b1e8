SPECIFICATION FairSpec
CONSTANTS
  p1 = p1
  p2 = p2
  l1 = l1
  l2 = l2
  e1 = e1
  Pipelines = {p1}
  Ledgers = {l1}
  Exporters = {e1}
  LedgerOf <- OneLedger
  ExporterOf <- OneExporter
  MaxLog = 3
  PageSize = 2
  OrderedCommits = TRUE
  Budgets <- ExportFaults
CHECK_DEADLOCK FALSE
INVARIANT CursorCoversSent
PROPERTY EventuallySent
