\* Two threads, pages of two bytes, a cache of two entries
SPECIFICATION FairSpec
CONSTANTS
  Threads = {t1, t2}
  Sizes = {0, 1, 3}
  Contents = {0, 1}
  PageSize = 2
  GcThreshold = 3
  CacheSize = 2
  MaxPageId = 3
  MaxCalls = 5
INVARIANTS
  TypeOK
  PagesAccounted
  CachedAreListed
  CacheCoherent
PROPERTY
  CallsEnd
CHECK_DEADLOCK FALSE
