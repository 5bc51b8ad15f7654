CONSTANTS
    Procs = {api, runner}
    MaxOps = 3
    NoId = no_id
    BTC = btc
    Id1 = id1
    Calls <- MCCalls
SPECIFICATION Spec
INVARIANTS
    BooksBalance
    OneFillPerId
    AnswersAreTrue
PROPERTIES
    WritesAreAtomic
