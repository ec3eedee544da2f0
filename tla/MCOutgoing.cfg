SPECIFICATION OutgoingSpec
CONSTANTS
  w1 = w1
  w2 = w2
  c1 = c1
  hello = hello
  g1 = g1
  r1 = r1
  WAIDs = {w1, w2}
  JIDs = {c1}
  Names = {}
  Bodies = {hello}
  Payloads <- MCPayloads
  Batches <- MCBatches
  NewStatuses <- MCNewStatuses
  AppStateJIDs = {}
  FlagValues = {}
  MuteDeadlines = {}
  Workers = {g1}
  incomingBuffer = 1
  LiveEvents <- MCEchoOnly
  Histories <- MCHistories
  Composed <- MCComposed
  ReceiptWorkers = {r1}
  Receipts <- MCReceipts
INVARIANTS
  OutgoingTypeOK
  TickHonest
  PendingIsTracked
PROPERTIES
  PendingNeverReturns
