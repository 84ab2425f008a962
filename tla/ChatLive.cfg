SPECIFICATION Spec
CONSTANTS
  a = a
  b = b
  x = x
  lobby = lobby
  Dev_1 = Dev_1
  ann = ann
  bob = bob
  Conns = {a, b}
  Names = {lobby}
  GroupNames = {lobby}
  Users = {ann}
  NameOf <- LobbyNameOf
  UserOf <- OneUserOf
  TextsOf <- ASecondTextOf
  MaxTexts = 2
  MaxRooms = 2
  MaxErased = 1
  Capacity = 4
  Faults = {"erase", "delete"}
INVARIANTS
  RacersShareTheRoom
  SeenIsInHistory
  SentInTextOrder
  EveryoneConnectedGetsACopy
PROPERTIES
  StaleConnectionsStayMute
  EveryTextIsAnswered
  InboxDrains
