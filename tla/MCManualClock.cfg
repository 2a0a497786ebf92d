\* Three timers, durations on both sides of zero, a clock set back and forth.
SPECIFICATION Spec
CONSTANTS
  Timers = {x1, x2, x3}
  MaxTime = 3
  Durations <- MCDurations
SYMMETRY Alike
INVARIANTS
  TypeOK
  EveryArmingHasOneFate
  NoEarlyFire
  PendingIsAhead
