SPECIFICATION Spec
CONSTANTS
  c1 = c1
  c2 = c2
  NoCaller = NoCaller
  Callers = {c1}
  Ops <- SessionOps
  Patient = TRUE
  Env = {"refusal", "fault", "zeroGoto"}
  MaxSkip = 3
  MaxDrain = 8
  MaxInbox = 2
  MaxPulses = 1
  MaxNest = 5
INVARIANTS HomeIsHome SeekUninterrupted
PROPERTIES PollTruth ParkStops AlpacaTruth AlpacaHomeTruth ParkHeld
