CONSTANTS
  a1 = a1
  a2 = a2
  b1 = b1
  s1 = s1
  Live = {a1, a2, b1}
  Sent = {s1}
  Own = "me"
  People = {"ann", "bea"}
  sender_jid <- MCsender
  ts <- MCts
  attachments <- MCattachments
  Window = 2
  NameFor <- MCNameFor
  Amended = {a1}
  EditBodies = {"edit"}
  Reactors = {"bea"}
  Emojis = {"like"}
SPECIFICATION Spec
INVARIANTS
  BubblesTypeOK
  AttributedToItsSender
  DeletedStaysDeleted
