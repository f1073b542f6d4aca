\* One client that keeps its connection alive and sends small headers.
CONSTANTS
    MaxRequests = 3
    HeaderSizes = {2}
    BodySizes = {0, 2}
    Targets = {"buffered"}
    max_header_size = 5
    buffer_size = 3
    ReadsWholeBody = TRUE
SPECIFICATION Spec
INVARIANTS LimitRefusesLargeHeadersOnly
CHECK_DEADLOCK FALSE
