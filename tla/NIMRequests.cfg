SPECIFICATION FairSpec
CONSTANTS
    Requests = {r1, r2, s1}
    Streaming = {s1}
    NoClient = NoClient
INVARIANTS
    TypeOK
    HealthyIsAnswered
    ClientsAreClosed
PROPERTY
    EveryRequestEnds
CHECK_DEADLOCK FALSE
