SPECIFICATION FairSpec
CONSTANTS
  p1 = p1
  p2 = p2
  short = short
  long = long
  word = word
  words = words
  Procs = {p1, p2}
  Bodies = {short, long}
  Tokens <- MCTokens
  Phrases = {word, words}
  Holds <- MCHolds
  SearchLimit = 2
  MaxRows = 3
  MaxCrashes = 1
INVARIANTS
  SchemaTypeOK
  ReadyMeansComplete
  SearchExact
  UpdatesAccepted
PROPERTIES
  OpenConverges
