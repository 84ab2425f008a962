SPECIFICATION Spec
CONSTANTS
  w1 = w1
  w2 = w2
  Workers = {w1, w2}
  Requests = {"r1", "r2"}
  RequestIds = {"id0"}
  Fresh <- MCFresh
  Names <- MCNames
  Lower <- MCLower
  Contains <- MCContains
  SensitiveHeaders = {"authorization"}
  SensitiveSubstrings = {"password", "access"}
  HeaderMaps <- MCHeaderMaps
  RequestBodies <- MCRequestBodies
  ResponseBodies <- MCResponseBodies
  Statuses = {201, 503}
  BodyLimit = 1
  Json <- MCJson
  Depth <- MCDepth
  RecursionLimit = 4
  Paths <- MCPaths
  REDACTED = "***"
  None = None
SYMMETRY Swaps
CHECK_DEADLOCK FALSE
INVARIANTS
  DumpsAreMasked
  OneLinePerAnswer
  LinesCarryTheirId
  ViewsGetTheBody
