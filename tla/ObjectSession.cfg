CONSTANTS
  Interfaces <- Tablets
  Reserved <- ToTablets
  Requests <- MCRequests
  Events <- MCEvents
  Destructors <- MCDestructors
  ReusesIds = TRUE
  MaxClientId = 4
  MaxServerId = 5
  MaxRequests = 2
  MaxEvents = 2
  MaxOverloads = 1
SPECIFICATION Spec
INVARIANTS RequestsAccepted InterpretsAsSent HandlesAgree
CHECK_DEADLOCK FALSE
