\* Every response of up to three results over two error messages, the empty one included.
CONSTANTS
    Msgs <- MCMsgs
    NoErr = NoErr
    NilResult = NilResult
    MaxResults = 3

SPECIFICATION Spec

INVARIANT ErrorSurvivesJSON

\* Each state is one response; nothing follows it.
CHECK_DEADLOCK FALSE
