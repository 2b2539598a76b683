SPECIFICATION LiveSpec
CONSTANTS
    Products <- MCProducts
    Shops <- MCShops
    Criteria <- MCCriteria
    PageSize = 2
    Concurrency = 2
    PageLimit = 100
    MaxSearches = 2
    MaxRestarts = 1
    MaxFetches = 1
INVARIANTS CatalogTypeOK SavedIsJudgeable AnswersAreSound
PROPERTY SearchesEnd
CHECK_DEADLOCK FALSE
