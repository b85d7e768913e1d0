CONSTANTS
    Rules = {r1, r2, bad}
    Valid = {r1, r2}
    Clients = {c1, c2}
    None = None
    MaxCalls = 5
    MaxFaults = 1
SPECIFICATION FairSpec
INVARIANTS BusMatchesCount CountIsExact UnusedRulesGone HeldRulesStay
PROPERTY CleanupEnds
