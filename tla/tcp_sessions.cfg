\* Two connections, one of which may get the socket number of the other.
SPECIFICATION FairSpec
CONSTANTS
    MaxConns = 2
    MaxSocks = 2
    MaxLines = 2
INVARIANTS
    TypeOK
    CommandsInOrder
    SessionsMatchHandlers
PROPERTIES
    RepliesAreOwn
    HandlersEnd
