SPECIFICATION PagingSpec
CONSTANTS
  w1 = w1
  w2 = w2
  w3 = w3
  w4 = w4
  v1 = v1
  c1 = c1
  c2 = c2
  WAIDs = {w1, w2, w3, w4, v1}
  JIDs = {c1, c2}
  chat_jid <- MCChat
  ts <- MCTime
  Live = {}
  Histories <- MCJumpHistories
  PageSize = 2
INVARIANTS
  JumpHasNoGap
