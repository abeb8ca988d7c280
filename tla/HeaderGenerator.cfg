CONSTANTS
  Interfaces <- MCInterfaces
  Requests <- MCRequests
  Events <- MCEvents
  MaxEnums = 1
SPECIFICATION Spec
INVARIANTS HeaderFollowsProtocol DeclaredBeforeUse
