SPECIFICATION Spec
CONSTANTS
    c1 = c1
    c2 = c2
    None = None
    Val = {1, 2}
    Client = {c1}
    Ops <- ClockOps
    ReadOnly = {FALSE}
INVARIANTS ClockOffset
