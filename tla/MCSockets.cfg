CONSTANTS
  Ops = {o1, o2}
  Socks = {s1, s2}
  None = None
  Peek = 2
  Wakes = 1
SPECIFICATION MCSpec
SYMMETRY Symmetry
INVARIANTS OneSource DescriptorOwned ConnectEnded
