CONSTANTS
    Written <- MCWritten
    Messages <- MCMessages
    Mux <- MCMux
    None = None
    MaxRules = 2
    MaxPairs = 2
SPECIFICATION Spec
INVARIANTS
    ParsedAsWritten
    
