\* Every hierarchy, cyclic ones included, of two classes, two interfaces and
\* a class of another extension; closures are not nested.
SPECIFICATION FairSpec
CONSTANTS
  a = a
  b = b
  e = e
  i = i
  j = j
  Classes <- TwoClasses
  Interfaces <- TwoInterfaces
  External <- OneExternal
  Closures = {k}
  NestedClosures = FALSE
  MaxDepth = 5
INVARIANTS
  TypeOK
  CompiledAfterParents
  InitializedAfterParents
  LoadsWhole
  InitsDefined
  OnlyCyclesCrash
PROPERTY Settles
CHECK_DEADLOCK FALSE
