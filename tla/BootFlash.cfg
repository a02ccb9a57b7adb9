SPECIFICATION Spec
CONSTANTS
    old = old
    new = new
    other = other
    Image = {old, new, other}
    FamilyOf <- MCFamily
    N = 3
    K = 1
    commandRetries = 3
    connectRetries = 3
    MaxFaults = 3
    MaxSessions = 2
CHECK_DEADLOCK FALSE
INVARIANTS TypeOK OkMeansInstalled RunsWhole FamilyGuard Unharmed IdentifyFinds OneFaultTolerated
PROPERTIES SessionsEnd
