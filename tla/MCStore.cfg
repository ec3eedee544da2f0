SPECIFICATION StoreSpec
CONSTANTS
  w1 = w1
  w2 = w2
  c1 = c1
  c2 = c2
  hello = hello
  bye = bye
  WAIDs = {w1, w2}
  JIDs = {c1, c2}
  Names = {"Ann"}
  Bodies = {hello, bye}
  Payloads <- MCPayloads
  Batches <- MCBatches
  NewStatuses <- MCNewStatuses
  AppStateJIDs = {c2}
  FlagValues <- MCFlagValues
  MuteDeadlines <- MCMuteDeadlines
INVARIANTS
  StoreTypeOK
  UnreadExact
  ChatListCovers
PROPERTIES
  MessagesKept
  LastTSNeverBack
