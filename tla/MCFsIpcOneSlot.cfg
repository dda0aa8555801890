SPECIFICATION Spec
CONSTANTS
    Client = {c1, c2}
    Server = server
    Process <- MCProcess
    NumSlots = 1
    MaxRequests = 2
INVARIANT RightAnswer
CHECK_DEADLOCK FALSE
