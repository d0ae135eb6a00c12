SPECIFICATION Spec
CONSTANTS
  Streams = {"console_rx"}
  Size = 4
  CountRange = 8
  Word = 2
  Frame = 2
  Burst = 4
  Pio = 1
  Lengths = {1, 2, 3, 4}
  Requests = {1}
  MaxActivations = 1
INVARIANTS
  EmptyRingAccepts
