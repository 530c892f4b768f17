SPECIFICATION FairSpec
CONSTANTS
  d1 = d1
  d2 = d2
  b1 = b1
  Decisions = {d1, d2}
  NoEvent = NoEvent
  Browsers = {b1}
  QueueMax = 1
  MaxConnects = 2
  MaxRestarts = 1
INVARIANTS
  TypeOK
  EventsFindTheirRow
  ListenersAreSubscribed
PROPERTIES
  StoredIsShown
  DeadSocketsAreReaped
