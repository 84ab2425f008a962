SPECIFICATION Spec
CONSTANTS
  r1 = r1
  r2 = r2
  Requests = {r1, r2}
  Seeders = {"s1"}
  Workers = {"w1"}
  Names = {"demo", "two", "wide"}
  Mails = {"Demo@X", "demo@x", "bob@x", "two@x"}
  Normal <- MCNormal
  NormalName <- MCNormalName
  NameOf <- MCNameOf
  MailOf <- MCMailOf
  Demo <- MCDemo
  DemoMail <- MCDemoMail
  MaxPk = 4
  Faults = {"broker", "smtp", "kill", "reset", "flush"}
CHECK_DEADLOCK FALSE
INVARIANTS
  UniqueAccounts
  AtMostOneMail
  TasksFindTheirUser
  RepliesAreTrue
  RegisteredPasswordsStay
  SeededPasswords
PROPERTIES
  EveryAccountIsGreeted
