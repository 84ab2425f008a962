SPECIFICATION Spec
CONSTANTS
  post1 = post1
  post2 = post2
  Posts = {post1, post2, "post3"}
  Deletes = {"delete1"}
  Readers = {"get1"}
  Writers = {"daphne"}
  Users = {"u1", "u2"}
  Emojis = {"heart", "thumb"}
  Room = Room
  UserOf <- MCUserOf
  KeyOf <- MCKeyOf
  SenderOf <- MCSenderOf
  LimitOf <- MCLimitOf
  MaxLimit = 2
  MaxMessages = 1
  Faults = {"messages", "users", "loss"}
SYMMETRY Clicks
CHECK_DEADLOCK FALSE
INVARIANTS
  NothingDangles
PROPERTIES
  ApiSpec
  PagesAreTimely
