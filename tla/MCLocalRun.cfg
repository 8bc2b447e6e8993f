\* Two processes, four requests, six answers.
CONSTANTS
    a1 = a1
    a2 = a2
    None = None
    Actors = {a1, a2}
    Requests <- MCRequests
    Exchanges <- MCExchanges
    MaxCommands = 4
    MaxFaults = 2

SPECIFICATION Spec
SYMMETRY Symmetry

INVARIANT ConsentBoundsEgress
INVARIANT ActsWithinConsent
INVARIANT ReportIsTrue
PROPERTY DiscardIsInformed

CHECK_DEADLOCK FALSE
