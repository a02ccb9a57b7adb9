SPECIFICATION Spec
CONSTANTS
  c1 = c1
  c2 = c2
  NoCaller = NoCaller
  Callers = {c1}
  Ops <- StopOps
  Patient = FALSE
  Env = {}
  MaxSkip = 3
  MaxDrain = 8
  MaxInbox = 2
  MaxPulses = 1
  MaxNest = 5
INVARIANTS SeekUninterrupted
