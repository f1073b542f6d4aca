\* Compression and two middlewares behind it, two kept-alive requests.
CONSTANTS
    Chain = 3
    CompressionAt = 1
    MaxResponses = 2
    MaxBody = 4
SPECIFICATION Spec
INVARIANTS NeverGarbled CompleteResponseIsDecoded DoneMeansComplete
           MiddlewaresRunInOrder RunningMiddlewareHasLiveResponse
CHECK_DEADLOCK FALSE
