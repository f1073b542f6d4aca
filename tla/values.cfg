\* One behaviour of one machine at a time.  Each ends: a text is read, a
\* response is sent.
CONSTANTS
    Names <- ShortNames
    Values <- ShortValues
    Params <- ShortParams
    Datas <- SomePartData
    MaxParts = 2
    MaxLines = 2
    DateTexts <- WellFormedTexts
    Times <- SomeTimes
    Tables = {"url", "urlcomponent"}
    MaxLength = 3
    CookieNames <- SomeNames
    CookieValues <- SomeValues
    MaxCookies = 2
    Patterns <- SomePatterns
    Urls <- SomeUrls
    Captures <- PathCaptures
    Methods = {"GET", "POST"}
    MaxRoutes = 3
    MaxUses = 3
    MaxChanges = 2
    StatusLengths = {0, 17, 46}
    HeaderLengths <- SomeHeaders
    NumberLengths = {0, 1, 6}
    MaxHeaders = 2
    Passable <- SomeData
    CallersWait = TRUE
    MaxCalls = 3
SPECIFICATION ValuesSpec
INVARIANTS RequestArrives PartsArrive
           DateIsWhatWasAssigned EscapesRoundTrip CookiesAreAsSent
           RequestIsServedByItsRoute AnswerIsTrue HeaderBlockIsWhole WireIsWhatWasPassed
CHECK_DEADLOCK FALSE
