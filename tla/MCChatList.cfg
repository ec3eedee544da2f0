SPECIFICATION Spec
CONSTANTS
  c1 = c1
  c2 = c2
  w1 = w1
  w2 = w2
  s1 = s1
  WAIDs = {w1, w2, s1}
  JIDs = {c1, c2}
  chat_jid <- MCChat
  ts <- MCTime
  FromMe = {s1}
  Flags <- MCFlags
  Histories <- MCHistories
  MaxQueue = 1
  MaxEvents = 3
INVARIANTS
  ChatListTypeOK
  ListHidesNothing
  MutedStaySilent
  IndicesInRange
CHECK_DEADLOCK FALSE
