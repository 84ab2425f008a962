SPECIFICATION Spec
CONSTANTS
  a = a
  b = b
  x = x
  lobby = lobby
  Dev_1 = Dev_1
  ann = ann
  bob = bob
  Conns = {a, b}
  Names = {lobby}
  GroupNames = {lobby}
  Users = {ann, bob}
  NameOf <- LobbyNameOf
  UserOf <- MCUserOf
  TextsOf <- OneTextOf
  MaxTexts = 1
  MaxRooms = 1
  MaxErased = 0
  Capacity = 1
  Faults = {"layer"}
PROPERTIES
  FailuresAreHandled
