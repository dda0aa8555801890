SPECIFICATION TcpSpec
CONSTANTS
    Response = 2
    MaxTimer = 2
    MaxFaults = 2
    MaxAcks = 1
INVARIANTS DeliveredInOrder EverythingAcknowledged
PROPERTY CallsReturn
