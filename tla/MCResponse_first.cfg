\* Every response of up to three results over two non-empty error messages.
CONSTANTS
    Msgs <- MCMsgsNonEmpty
    NoErr = NoErr
    NilResult = NilResult
    MaxResults = 3

SPECIFICATION Spec

INVARIANT ErrorIsFirstError

\* Each state is one response; nothing follows it.
CHECK_DEADLOCK FALSE
