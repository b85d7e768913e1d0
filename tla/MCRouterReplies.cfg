CONSTANTS
  Clients = {c1, c2}
  Handles = {}
  None = None
  Own = Own
  OwnSerials = {9}
  Listeners = {c1, c2}
  SerialSpace = 3
  MaxCalls = 2
  MaxOwn = 0
  MaxRequests = 0
  MaxFaults = 1
  Expires = {"calls"}
SPECIFICATION Spec
SYMMETRY Symmetry
INVARIANTS
  RightRecipient
  ExactlyOneAnswer
