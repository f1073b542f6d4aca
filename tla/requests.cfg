\* Kept-alive requests in pieces of any size; the header of 9 is over the limit
\* and three requests may together exceed what one connection may read.
CONSTANTS
    MaxRequests = 3
    HeaderSizes = {1, 2, 9}
    BodySizes = {0, 2}
    Targets = {"buffered", "streamed", "no_route", "no_method"}
    max_header_size = 8
    buffer_size = 3
    ReadsWholeBody = TRUE
SPECIFICATION FairSpec
INVARIANTS AnsweredInOrder HandlerSeesTheBody ParseErrorIsTheClients
PROPERTIES EveryRequestIsSettled
CHECK_DEADLOCK FALSE
