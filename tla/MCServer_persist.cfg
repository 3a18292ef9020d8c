\* A failed Save of the node file, with later joins.
CONSTANTS
    Requests <- MCRequests
    NoNode = NoNode
    NoFile = NoFile
    MaxRequests = 2
    MaxFailures = 1
    MaxRestarts = 0
    MaxHandlers = 1

SPECIFICATION Spec

PROPERTY NodeIdentityPersisted


\* The process stops once Close has returned or a goroutine has panicked.
CHECK_DEADLOCK FALSE
