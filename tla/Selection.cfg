SPECIFICATION Spec
CONSTANTS
  Workers <- MCWorkers
  RequestOf <- SameRequestOf
  BindingOf <- MCBindingOf
  Bindings <- MCBindings
  Ids <- SameIds
  TTL = 1
  AccountCapacity = 1
  ModelCapacity = 1
  MaxAttempts = 2
  MaxNow = 1
  MaxJournal = 1
  MaxFaults = 1
CHECK_DEADLOCK FALSE
INVARIANTS
  WorkIsReserved
  JournalIsTruthful
  ClosedTruly
  AnswerIsTrue
PROPERTIES EveryCallEnds
