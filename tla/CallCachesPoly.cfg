\* The same programs, whose variables may hold objects of any class they allow.
SPECIFICATION Spec
CONSTANTS
  NoClass = NoClass
  Ancestors <- Ancestors3
  Table <- Table3
  Extension <- OnlyA
  Defined <- Methods
  Private <- PrivateP
  Final <- FinalG
  Functions = {"h"}
  Programs <- ThreeSites
  NoFunction = NoFunction
  MaxSlots = 3
  MaxDepth = 2
  MaxFrames = 3
  MaxLock = 3
  MaxRequests = 2
  Polymorphic = TRUE
INVARIANT RightFunction
