SPECIFICATION Spec
CONSTANTS
  h1 = h1
  x1 = x1
  x2 = x2
  v1 = v1
  r1 = r1
  NumPreallocated = 2
  HeapFrames <- OneHeapFrame
  FrameCapacity = 1
  CapacityStep = 1
  Vars <- TwoVars
  Values <- OneValue
  Undef = Undef
  Scalar = Scalar
  NULL = NULL
  References <- NoReference
  UnsetCopies = FALSE
  CanCatch = FALSE
  MaxRefs = 2
SYMMETRY VarSymmetry
INVARIANTS
  TypeOK
  ObservedOnce
  NoPrematureFree
  NoLeak
  AddressesFit
  FrameAsserts
  BalancedStack
PROPERTIES
  ImplementsActivationStack
  CallerUndisturbed
