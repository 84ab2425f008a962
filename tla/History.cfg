SPECIFICATION Spec
CONSTANTS
  post1 = post1
  post2 = post2
  Posts = {"room1"}
  Deletes = {}
  Readers = {"get1"}
  Writers = {"daphne", "seed"}
  Users = {"u1", "u2"}
  Emojis = {"heart", "thumb"}
  Room = Room
  UserOf <- MCUserOf
  KeyOf <- MCKeyOf
  SenderOf <- MCSenderOf
  LimitOf <- MCLimitOf
  MaxLimit = 2
  MaxMessages = 2
  Faults = {"room", "kill"}
CHECK_DEADLOCK FALSE
INVARIANTS
  PagesAreComplete
PROPERTIES
  RequestsEnd
