SPECIFICATION Spec
CONSTANTS
  Versions = {v1, v2}
  Blocks = 2
  Offsets = {0, 1, 2}
  IromOffset = 2
  MaxParts = 2
  Requests <- MCRequests
  MaxStaged = 3
  NoRequest = NoRequest
  Missing = Missing
  BadPart = BadPart
  Torn = Torn
INVARIANTS
  OkVerified
  EspReleased
  FlashedOnce
PROPERTIES
  Answered
