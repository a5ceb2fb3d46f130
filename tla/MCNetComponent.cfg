SPECIFICATION FairSpec
CONSTANTS
    peerA = peerA  peerB = peerB  typeName = typeName  requestKey = requestKey
    incoming = incoming
    Destinations = {peerA, peerB}
    MaxSent = 4
    DstOf <- MCDst
    SizeOf <- MCSize
    Limit = 3
    MaxPending = 1
    MinSize = 1
    Header = 2
    Word = 1
    Room = 4
    Signs = {typeName, requestKey}
    Packets = {incoming}
    PacketName <- MCName
    RequestId <- MCId
    MaxRefs = 3
INVARIANTS BatchFits AllAreReached
PROPERTIES ImplementsOutbox CallsInOrder LeavesQueue
CHECK_DEADLOCK FALSE
