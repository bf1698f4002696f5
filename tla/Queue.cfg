SPECIFICATION FairQSpec
CONSTANTS
  t1 = t1
  t2 = t2
  Local = Local
  Transfers = {t1, t2}
  Sessions = {1}
  From <- UploadsFrom
  To <- UploadsTo
  Slots <- OneSlotEach
  Cancellable = {t1}
  MaxNews <- TwoEach
INVARIANTS
  RowTellsTheOutcome
PROPERTIES
  RowsSettle
CHECK_DEADLOCK FALSE
