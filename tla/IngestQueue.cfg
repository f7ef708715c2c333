CONSTANTS
  Records = {r1, r2, bad}
  Poison = {bad}
  DrainBatchSize = 2
  MaxIds = 4
SPECIFICATION FairSpec
INVARIANTS TypeOK AckedIsCommitted CommittedIsPrefix
PROPERTIES EveryRecordSettles ImplementsDurableIngest
