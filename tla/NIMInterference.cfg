SPECIFICATION Spec
CONSTANTS
    Requests = {r1, r2, r3}
    Streaming = {}
    NoClient = NoClient
INVARIANT
    SimulatedMeansNotConnected
CHECK_DEADLOCK FALSE
