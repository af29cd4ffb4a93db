SPECIFICATION Spec
CONSTANTS
  NoException = NoException
  BaseException <- AnyClass
  Exceptions <- Thrown
  Bodies <- Verified
  Statements <- AllStatements
  OnStart <- Meaning
  Asked <- Request
  OnDone <- Done
  OnFailure <- Failed
  OnTest <- Tested
  OnChoice <- Chosen
\* A method ends.
CHECK_DEADLOCK FALSE
INVARIANTS
  TypeOK
  SameAsSource
  RestoredOnce
  IteratorsReleased
  HeldByLoops
  BreaksInside
  CountersMatch
PROPERTIES
  Progress
