CONSTANTS
  Count = 3
  Receivers = {r1, r2}
  KindOf <- MCKinds
  Ticks = 2
  Posted = 2
SPECIFICATION Spec
INVARIANTS BuffersConserved NoStall StreamDrained TicksExact
