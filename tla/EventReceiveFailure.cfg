CONSTANTS
  done = done
  error = error
  ping = ping
  Keys <- MCTwoKeys
  EventSizes <- MCSizes
  MaxStream = 24
  RecvBlock = 8
  Overloads <- MCOverloads
SPECIFICATION Spec
INVARIANT OnlyBytesFromServer
