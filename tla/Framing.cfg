\* Four choices of field lengths, three calls of send, a window of two.
SPECIFICATION FairSpec
CONSTANTS
  SeqModulus = 3
  ASdus <- SentASdus
  Settings <- FieldLengths
  MaxNumOfOutstandingIPdus = 2
  MaxSends = 3
CHECK_DEADLOCK FALSE
INVARIANTS
  TypeOK
  InStep
  DeliveredAsSent
  NothingAfterGap
  AnswersRegular
  CommandsArrive
PROPERTIES
  GapCloses
