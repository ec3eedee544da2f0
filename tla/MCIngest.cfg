SPECIFICATION IngestSpec
CONSTANTS
  w1 = w1
  w2 = w2
  c1 = c1
  c2 = c2
  hello = hello
  WAIDs = {w1, w2}
  JIDs = {c1, c2}
  Names = {"Ann"}
  Bodies = {hello}
  Payloads <- MCPayloads
  Batches <- MCBatches
  NewStatuses = {}
  AppStateJIDs = {}
  FlagValues = {}
  MuteDeadlines = {}
  g1 = g1
  g2 = g2
  Workers = {g1, g2}
  incomingBuffer = 1
  LiveEvents <- MCLiveEvents
  Histories <- MCHistories
INVARIANTS
  IngestTypeOK
  PersistBeforePublish
  NoLostWakeup
  PaneComplete
PROPERTIES
  StoreSpec
  HandlerReturns
  OpenChatCatchesUp
