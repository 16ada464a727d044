SPECIFICATION Spec
CONSTANTS
  Requests <- MCRequests
  MAX_OPERATIONS = 2
INVARIANT AtMostMaxOperations
PROPERTIES RefusedOnlyWhenBusy AnswersAndStops
