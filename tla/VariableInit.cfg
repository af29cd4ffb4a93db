\* Two variables, one block in another, and what comes before and after.
SPECIFICATION Spec
CONSTANTS
  a = a
  b = b
  Variables <- TwoVariables
  Methods <- Verified
  UnsetCopies = FALSE
  Unset = Unset
  Undef = Undef
  Null = Null
INVARIANTS
  TypeOK
  RegisteredOnce
  ValuesOwned
  SameReads
  TraversedHeld
\* A method ends.
CHECK_DEADLOCK FALSE
