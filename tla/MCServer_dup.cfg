\* A crash of the process between registering and saving the node.
CONSTANTS
    Requests <- MCRequests
    NoNode = NoNode
    NoFile = NoFile
    MaxRequests = 2
    MaxFailures = 1
    MaxRestarts = 1
    MaxHandlers = 1

SPECIFICATION Spec

INVARIANT OneDataNodePerServer


\* The process stops once Close has returned or a goroutine has panicked.
CHECK_DEADLOCK FALSE
