\* Methods that end with a statement of which only some paths leave the method.
SPECIFICATION Spec
CONSTANTS
  NoException = NoException
  BaseException <- AnyClass
  Exceptions <- Thrown
  Bodies <- LastStatements
  Statements <- AllStatements
  OnStart <- Meaning
  Asked <- Request
  OnDone <- Done
  OnFailure <- Failed
  OnTest <- Tested
  OnChoice <- Chosen
\* A method ends.
CHECK_DEADLOCK FALSE
INVARIANTS
  RestoredOnce
