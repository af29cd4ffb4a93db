\* Two sources edited, added and removed between and during builds that may
\* stop at any step but the two of Exposed.
SPECIFICATION Spec
CONSTANTS
  f1 = f1
  f2 = f2
  Files <- TwoFiles
  Contents = {1, 2}
  Signature <- Methods
  o0 = o0
  o2 = o2
  Flags <- TwoFlags
  Absent = Absent
  MaxTime = 1
  MaxChanges = 2
  QuickEdits = FALSE
  CanRevert = FALSE
  StubsOfOthers = FALSE
  CrashAnywhere = FALSE
SYMMETRY Symmetric
INVARIANTS
  TypeOK
  BuildCurrent
  OutputWritten
  ConfiguredForFiles
