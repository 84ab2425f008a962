SPECIFICATION Spec
CONSTANTS
  s1 = s1
  s2 = s2
  f1 = f1
  Programs = {s1, s2, f1}
  Command <- MCCommand
  Writers = {"w1"}
  Names = {"oleksa", "mariia", "other", "general", "real"}
  DemoUsers <- MCDemoUsers
  DemoRooms <- MCDemoRooms
  PerRoom = 2
  Real = Real
  RealUsers = {"other"}
  RealRooms = {"real"}
  Faults = {"kill", "react"}
SYMMETRY Swaps
CHECK_DEADLOCK FALSE
INVARIANTS
  BatchesAreWhole
  OldDataGoes
  SeedAllDelivers
PROPERTIES
  RealDataSurvives
