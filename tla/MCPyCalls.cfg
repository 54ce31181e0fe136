SPECIFICATION PyFairSpec
CONSTANTS
  Callers = {c1, c2}
  Requests = {0, 2, 3}
  NRows = 3
  Works <- MCWorks
  Panics = Panics
  HINT = 2
  IndexMax = 3
  MaxCalls = 1
  MaxFailures = 1
  NoCaller = NoCaller
  Arguments <- MCArguments
INVARIANTS
  PyTypeOK
  OutputIsRowMajor
  OnePoolPerCount
  ExceptionNamesCause
  BuffersLive
PROPERTY PyCallsEnd
CHECK_DEADLOCK FALSE
