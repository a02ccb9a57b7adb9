SPECIFICATION Spec
CONSTANTS
    c1 = c1
    c2 = c2
    Client = {c1, c2}
    Commander = {c1}
    Drivers <- AllDrivers
    Open <- MCOpen
    Calls <- MCCalls
    Polls <- MCPolls
    Fetch <- MCFetch
    Junk <- MCJunk
    MaxCalls <- MCMax
    MaxFaults = 0
    TTL = 1
    MaxPulse = 2
CHECK_DEADLOCK FALSE
INVARIANTS TypeOK InStep FreshAfterCommand PulseCovered HemisphereKept
