SPECIFICATION Spec
CONSTANTS
    MaxMessageSize = 2
    MaxPacketDataSize = 2
    PacketSizes <- MCPacketSizes
    RequestSizes <- MCRequestSizes
    MaxSent = 4
    MaxRequests = 2
INVARIANTS
    WholeMessages
    EndIsTheServers
PROPERTIES
    ReadsMessageStream
    TrailersEndReading
CHECK_DEADLOCK FALSE
