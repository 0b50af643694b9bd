SPECIFICATION FairSpec
CONSTANTS
    first = first
    second = second
    alone = alone
    chat = chat
    Request <- MCRequest
    Session <- MCSession
    Handle <- MCHandle
    Text <- MCText
    Length <- MCLength
    Calls <- MCCalls
    Asks <- MCAsks
    MaxChars = 3
    Ttl = 1
    MaxConcurrency = 2
    Timeout = 1
INVARIANTS
    SlotsAddUp
    AccountsHold
PROPERTIES
    LostOnlyForSpace
    ImplementsLossyStore
    EveryRequestEnds
