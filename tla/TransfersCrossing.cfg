SPECIFICATION FairSpec
CONSTANTS
  t1 = t1
  t2 = t2
  t3 = t3
  Local = Local
  Transfers = {t1, t2, t3}
  Sessions = {1, 2}
  From <- CrossingFrom
  To <- CrossingTo
  Slots <- OneSlotEach
  Cancellable = {t1}
  MaxNews <- OneReports
INVARIANTS
  SlotsConserved
  LastOneRedraws
  EndIsToldOnce
  NoCircularWait
PROPERTIES
  KeepsItsPromise
  EveryTransferEnds
CHECK_DEADLOCK FALSE
