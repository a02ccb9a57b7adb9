SPECIFICATION Spec
CONSTANTS
    c1 = c1
    c2 = c2
    Client = {c1, c2}
    Commander = {c1}
    Drivers <- OneDriver
    Open <- MCOpen
    Calls <- FaultCalls
    Polls <- FaultPolls
    Fetch <- MCFetch
    Junk <- MCJunk
    MaxCalls <- MCMore
    MaxFaults = 1
    TTL = 1
    MaxPulse = 2
CHECK_DEADLOCK FALSE
INVARIANTS LocksPass JogSeen CorrectionRestored
PROPERTIES CallsEnd

