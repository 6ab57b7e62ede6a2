\* Three calls over two keys, one entry kept: pruning, expiry, sharing, failure.
SPECIFICATION FairSpec
CONSTANTS
  Request = {c1, c2, c3}
  Key = {k1, k2}
  NoCall = NoCall
  TTL = 2
  MaxEntries = 1
INVARIANTS CacheInv NoOrphanPromise AnswerOfSameKey
PROPERTY EveryCallEnds
