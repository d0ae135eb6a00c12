SPECIFICATION FairSpec
CONSTANTS
  Streams = {"downlink"}
  Size = 4
  CountRange = 8
  Word = 2
  Frame = 2
  Burst = 4
  Pio = 1
  Lengths = {0, 1, 2, 3, 4}
  Requests = {1, 3, 4}
  MaxActivations = 1
INVARIANTS
  ReadsInPlace
PROPERTIES
  CreditHonoured
  NoLostWakeup
  ImplementsByteChannels
