CONSTANTS
  Streams = {s1, s2}
  NoStream = NoStream
  Marked = {1, 3}
  MaxRecords = 4
  MaxAborts = 2
SPECIFICATION FairSpec
INVARIANTS SavedIsSent CursorKeepsUp
PROPERTIES NoStaleResend DeliversAtLeastOnce EverythingSent
