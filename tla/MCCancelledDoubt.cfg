\* One process and two commands are enough to cancel behind an effect.
CONSTANTS
    a1 = a1
    None = None
    Actors = {a1}
    Requests <- MCRequests
    Exchanges <- MCExchanges
    MaxCommands = 2
    MaxFaults = 1

SPECIFICATION Spec

INVARIANT CancelYieldsToDoubt

CHECK_DEADLOCK FALSE
