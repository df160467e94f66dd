SPECIFICATION Spec
CONSTANTS
  s1 = s1
  s2 = s2
  h1 = h1
  h2 = h2
  User = User
  Delay = Delay
  Timer = {s1, s2, h1, h2}
  Soft = {s1, s2}
  Owner <- MCOwner
  Kinds <- MCKinds
  TickMod = 14
  Slack = 1
  MaxLate = 1
  MaxHeld = 2
INVARIANT FlagTellsList
PROPERTIES HardPunctual SoftFires
