\* Two sources, one of them added or removed before zephir stubs runs between two installs.
SPECIFICATION Spec
CONSTANTS
  f1 = f1
  f2 = f2
  Files <- TwoFiles
  Contents = {1}
  Signature <- Methods
  o0 = o0
  o2 = o2
  Flags <- OneFlag
  Absent = Absent
  MaxTime = 0
  MaxChanges = 1
  QuickEdits = FALSE
  CanRevert = FALSE
  StubsOfOthers = TRUE
  CrashAnywhere = FALSE
INVARIANTS
  ConfiguredForFiles
