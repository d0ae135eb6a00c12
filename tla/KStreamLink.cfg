SPECIFICATION FairSpec
CONSTANTS
  SeqRange = 3
  MaxItems = 4
INVARIANTS
  ReadyMeansArmed
  AppliedOnce
  AnswersTrue
PROPERTIES
  CommandsFinish
