CONSTANTS
  r1 = r1
  r2 = r2
  r3 = r3
  r4 = r4
  r5 = r5
  r6 = r6
  r7 = r7
  f1 = f1
  f2 = f2
  f3 = f3
  f4 = f4
  Requests = {r1, r2, r3, r4, r5, r6, r7}
  Facades = {f1, f2, f3, f4}
  Kind <- MCKind
  Facade <- MCFacade
  Exported <- MCExported
  Stream <- MCStream
  Interrupted = {r4}
  BulkSize = 2
  Meetings <- MCMeetings
  Free = Free
SPECIFICATION FairSpec
CHECK_DEADLOCK FALSE
INVARIANTS ImportBeforeWrites DrawnIdsAreFree CommitsInOrder EventsAreCommitted
PROPERTIES RequestsEnd
