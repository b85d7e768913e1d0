CONSTANTS
    Clients = {c1, c2}
    Handles = {h1}
    None = None
    Own = Own
    OwnSerials = {9}
    Listeners = {c1, c2}
    SerialSpace = 4
    MaxCalls = 1
    MaxOwn = 1
    MaxRequests = 2
    MaxFaults = 1
    Expires = {"calls", "requests"}
SPECIFICATION FairSpec
INVARIANTS RightRecipient ResponsesStayPrivate
PROPERTY RepliesArrive
