CONSTANTS
  Loops = {l1, l2}
  NoLoop = NoLoop
  Period = 3
  Interval = 2
SPECIFICATION FairSpec
INVARIANTS TypeOK OneLoop
PROPERTIES RateLimited SyncRateLimited CancelStops AbandonedStops JobRecurs
