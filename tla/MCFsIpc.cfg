SPECIFICATION Spec
CONSTANTS
    Client = {c1, c2}
    Server = server
    Process <- MCProcess
    NumSlots = 2
    MaxRequests = 1
INVARIANTS SlotExclusive NoForgottenRequest
PROPERTY RequestReturns
CHECK_DEADLOCK FALSE
