\* One source, and extra-cflags changed between two builds.
SPECIFICATION Spec
CONSTANTS
  f1 = f1
  f2 = f2
  Files <- OneFile
  Contents = {1, 2}
  Signature <- Methods
  o0 = o0
  o2 = o2
  Flags <- TwoFlags
  Absent = Absent
  MaxTime = 2
  MaxChanges = 2
  QuickEdits = FALSE
  CanRevert = FALSE
  StubsOfOthers = FALSE
  CrashAnywhere = FALSE
INVARIANTS
  ConfiguredForConfig
