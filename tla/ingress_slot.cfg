CONSTANTS
  Context = {c1, c2, c3}
  Content = {m1, m2}
  Part = {a, b}
  NoPartial = NoPartial
  NoTime = NoTime
  MaxContexts = 2
  Timeout = 1
  Window = 3
  MaxFrames = 2
  MaxNow = 4
SPECIFICATION Spec
INVARIANTS InFlightBounded NothingStaleAfterFrame BurstBounded
PROPERTIES NoSilentEviction
SYMMETRY Alike
