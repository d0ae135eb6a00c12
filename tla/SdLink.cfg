SPECIFICATION Spec
CONSTANTS
  Blocks = 2
  MaxUploads = 2
  Apps <- MCApps
  MaxCommands = 2
  Commands = {"RUN", "GET", "FORMAT", "FLASH"}
  Old = Old
  Erased = Erased
INVARIANTS
  RestartsUploaded
  OneFrameAfterPause
  OneUserOfUart
PROPERTIES
  ReceivesAgain
