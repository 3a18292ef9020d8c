\* Joins, injected failures and one crash of the process.
CONSTANTS
    Requests <- MCRequests
    NoNode = NoNode
    NoFile = NoFile
    MaxRequests = 3
    MaxFailures = 2
    MaxRestarts = 1
    MaxHandlers = 1

SPECIFICATION Spec

INVARIANT TypeOK
INVARIANT ReplyImpliesDurable
INVARIANT RegisteredBeforeMetaClient
PROPERTY OpenFinishes
PROPERTY HTTPServerStops
PROPERTY JoinContract

\* The process stops once Close has returned or a goroutine has panicked.
CHECK_DEADLOCK FALSE
