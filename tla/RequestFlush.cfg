CONSTANTS
  RequestKinds <- MCKinds
  MaxRequests = 32
  SocketCapacity = 5
SPECIFICATION FairSpec
INVARIANTS TypeOK DescriptorsArriveInTime DescriptorsInOrder
  MoreBytesThanDescriptors
PROPERTIES RequestsArriveInOrder FlushedArrive
