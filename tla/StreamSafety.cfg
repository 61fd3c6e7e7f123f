SPECIFICATION CodeSpec
CONSTANTS
  Requests = {r1, r2, r3}
  Notes = {n1}
  ServerMessage = ServerMessage
  StreamError = StreamError
  Readers = 2
  MaxServerMessages = 1
INVARIANTS
  TypeOK
  ResponseToCome
PROPERTIES
  SerialAnswered
  CloseReleases
