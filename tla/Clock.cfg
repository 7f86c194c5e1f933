SPECIFICATION Spec
CONSTANTS
  NPROC = 2
  QUANTA = 2
  Wrap = 2
  SleepTimes = {1}
  MaxTicks = 2
  MaxCalls = 1
INVARIANTS CountedOnce QuantumBounded
PROPERTY SleepsLongEnough
