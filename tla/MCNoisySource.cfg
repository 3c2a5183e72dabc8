\* A source may burst one packet and regains none; the global budget is three.
SPECIFICATION NoisySpec
CONSTANTS
  s1 = s1
  s2 = s2
  Source = {s1, s2}
  NoSource = NoSource
  TokenUnit = 1
  GlobalCapacity = 3
  GlobalRefill = 0
  SourceCapacity = 1
  SourceRefill = 0
  MaxTracked = 2
  Instants <- MCInstants
INVARIANT
  OneSourceLeavesBudget
