SPECIFICATION FairSpec
CONSTANTS
    ConnectTimeout = 3
    CallerTimeouts = {none, 0, 1, 4}
    NoTimeout = none
    HeaderCap = 3
    RecvSize = 2
INVARIANT TypeOK
INVARIANT NoDescriptorLeaks
INVARIANT CallerTimeoutRestored
INVARIANT BufferBounded
INVARIANT OverrunBounded
PROPERTY ConnectEnds
