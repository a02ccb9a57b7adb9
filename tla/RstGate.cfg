SPECIFICATION Spec
CONSTANTS
  c1 = c1
  c2 = c2
  NoCaller = NoCaller
  Callers = {c1, c2}
  Ops <- GateOps
  Patient = FALSE
  Env = {"lateVerdict", "lateReply", "fault", "zeroGoto"}
  MaxSkip = 1
  MaxDrain = 1
  MaxInbox = 1
  MaxPulses = 1
  MaxNest = 5
INVARIANTS TypeOK HomeInv HomeGate
