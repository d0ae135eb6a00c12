SPECIFICATION Spec
CONSTANTS
  SlotUnits = 4
  PageUnits = 2
  OpenUnits = 2
  Opens <- MCOpens
  Payloads <- MCPayloads
  Sessions = {1, 2}
  Erased = Erased
  Torn = Torn
INVARIANTS
  ConfirmedBootable
  PendingVerified
  CommittedDurable
  PagesErased
PROPERTIES
  LiveSlotsUntouched
  ConfirmsWhatRuns
