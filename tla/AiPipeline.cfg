SPECIFICATION Spec
CONSTANTS
  r1 = r1
  r2 = r2
  r3 = r3
  ann = ann
  bob = bob
  Requests = {r1, r2, r3}
  Users = {ann, bob}
  UserOf <- MCUserOf
  ActionOf <- MCActionOf
  Workers = 2
  Limit = 1
  MaxWindow = 1
  Replies = {"ru", "xx"}
  ErrorTexts = {"boom"}
  Faults = {"cache", "kill"}
INVARIANTS
  LimitIsExact
  ExactlyOneOutput
  StatusTellsFailure
  SummaryIsInDetectedLanguage
PROPERTIES
  EveryRequestEnds
