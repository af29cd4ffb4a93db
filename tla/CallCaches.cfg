\* Three sites in two methods, three slots of which one stands for none, two
\* requests.
SPECIFICATION Spec
CONSTANTS
  NoClass = NoClass
  Ancestors <- Ancestors3
  Table <- Table3
  Extension <- OnlyA
  Defined <- Methods
  Private <- PrivateP
  Final <- FinalG
  Functions = {"h"}
  Programs <- ThreeSites
  NoFunction = NoFunction
  MaxSlots = 3
  MaxDepth = 2
  MaxFrames = 3
  MaxLock = 3
  MaxRequests = 2
  Polymorphic = FALSE
INVARIANTS
  TypeOK
  SlotsDistinct
  RightFunction
  LockIsDepth
PROPERTY ImplementsDirectCalls
