SPECIFICATION AnsweringSpec
CONSTANTS
  Requests = {r1, r2}
  Notes = {}
  ServerMessage = ServerMessage
  StreamError = StreamError
  Readers = 1
  MaxServerMessages = 0
PROPERTIES
  EachAnswered
