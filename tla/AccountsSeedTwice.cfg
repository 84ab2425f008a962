SPECIFICATION Spec
CONSTANTS
  r1 = r1
  r2 = r2
  Requests = {}
  Seeders = {"s1", "s2"}
  Workers = {"w1"}
  Names = {"demo", "two", "wide"}
  Mails = {"Demo@X", "demo@x", "bob@x", "two@x"}
  Normal <- MCNormal
  NormalName <- MCNormalName
  NameOf <- MCNameOf
  MailOf <- MCMailOf
  Demo <- MCOneDemo
  DemoMail <- MCDemoMail
  MaxPk = 4
  Faults = {"kill"}
CHECK_DEADLOCK FALSE
INVARIANT SeedIsIdempotent
