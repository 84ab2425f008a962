SPECIFICATION Spec
CONSTANTS
  a = a
  b = b
  x = x
  lobby = lobby
  Dev_1 = Dev_1
  ann = ann
  bob = bob
  Conns = {a, b, x}
  Names = {lobby, Dev_1}
  GroupNames = {lobby, Dev_1}
  Users = {ann}
  NameOf <- TwoRoomsNameOf
  UserOf <- OneUserOf
  TextsOf <- OneTextOf
  MaxTexts = 1
  MaxRooms = 1
  MaxErased = 0
  Capacity = 1
  Faults = {"db", "commit", "layer", "kill", "expiry"}
SYMMETRY Swaps
INVARIANTS
  MembersAreThoseInside
  SeenIsGenuine
  SeenInSendOrder
PROPERTIES
  BroadcastSpec
