\* Close after an Open that failed early.
CONSTANTS
    Requests <- MCRequests
    NoNode = NoNode
    NoFile = NoFile
    MaxRequests = 2
    MaxFailures = 1
    MaxRestarts = 0
    MaxHandlers = 1

SPECIFICATION Spec

INVARIANT CloseNoPanic


\* The process stops once Close has returned or a goroutine has panicked.
CHECK_DEADLOCK FALSE
