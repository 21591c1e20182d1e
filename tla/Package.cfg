CONSTANTS
  Base = 3
  Id = 1
  Sizes <- SmallSizes
  Values <- SmallValues
  MaxDamage = 2
SPECIFICATION Spec
INVARIANTS TypeOK RoundTrip OneAlterationFound
PROPERTY RefusedWithoutTrace
