SPECIFICATION FairSpec
CONSTANTS
  l1 = l1
  l2 = l2
  Listeners = {l1, l2}
  MaxListeners = 2
  CacheSize = 2
  MaxLag = 1
  Patience = 2
  Window = 1
  MaxSpoken = 4
INVARIANT TypeOK
PROPERTIES Delivered MembersOnly LostLate Settled NewestFetched
\* A call may end with nobody listening.
CHECK_DEADLOCK FALSE
