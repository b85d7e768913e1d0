CONSTANTS
    Names = {n1}
    Clients = {c1, c2}
    None = None
    Mux = Mux
    Other = Other
    Services = {Other}
    Failing = {"RequestName", "ReleaseName"}
    MaxCalls = 2
    MaxMoves = 1
    Sequential = FALSE
SPECIFICATION FairSpec
INVARIANTS ReplyStillTrue
PROPERTIES RefusalRestoresLine LinesAreFair 
