SPECIFICATION LiveSpec
CONSTANTS
    Word = {"a", "b"}
    MaxConcurrency = 2
    Program <- MCPrograms
INVARIANTS OpenIsTracked
PROPERTIES CallsKeepContract RunAnswered NothingHangs
CHECK_DEADLOCK FALSE
