SPECIFICATION USpec
CHECK_DEADLOCK FALSE
CONSTANTS
  Streams = {"update_rx", "update_tx"}
  Size = 4
  CountRange = 8
  Word = 1
  Frame = 2
  Burst = 4
  Pio = 1
  Lengths = {1, 2}
  Requests = {1, 2}
  MaxActivations = 2
  Header = 2
  Payloads = {3}
  Answer = 1
  MaxAnswers = 2
INVARIANTS
  InStep
PROPERTIES
  NoMutualWait
