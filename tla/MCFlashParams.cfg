SPECIFICATION Spec
CONSTANTS
  NameWords = 2
  Name = {"n1", "n2"}
  Speed = {0, 60, 90}
  Mode = {"m1", "m2"}
  Tail = {"t1"}
  Retries = 1
  Offset = {0, 4}
INVARIANTS OneSaveOrDefault SuccessIsKept
