SPECIFICATION Spec
CONSTANTS
  Streams = {"uplink", "console_tx"}
  Size = 2
  CountRange = 4
  Word = 1
  Frame = 1
  Burst = 2
  Pio = 1
  Lengths = {1, 2}
  Requests = {1, 2}
  MaxActivations = 2
INVARIANTS
  CountsOrdered
PROPERTIES
  ImplementsByteChannels
