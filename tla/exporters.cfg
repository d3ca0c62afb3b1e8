SPECIFICATION Spec
CONSTANTS
  p1 = p1
  p2 = p2
  l1 = l1
  l2 = l2
  e1 = e1
  Pipelines = {p1, p2}
  Ledgers = {l1, l2}
  Exporters = {e1}
  LedgerOf <- TwoLedgers
  ExporterOf <- OneExporter
  MaxLog = 1
  PageSize = 1
  OrderedCommits = TRUE
  Budgets <- ExporterFaults
CHECK_DEADLOCK FALSE
INVARIANT HandlersAreCurrent
