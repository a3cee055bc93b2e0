\* Up to three requests and a result queue that holds two answers.
SPECIFICATION FairSpec
CONSTANTS
    MaxRequests = 3
    Capacity = 2
INVARIANTS
    TypeOK
    HonestSuccess
    NothingLostWhenAllIn
PROPERTIES
    PromptWhenAllIn
    AnsweredWhenLate
