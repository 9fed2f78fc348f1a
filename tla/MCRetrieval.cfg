SPECIFICATION Spec
CONSTANTS
    N = 4
    TitleCount = 2
    TitleHas <- MCTitleHas
    AutocompleteLimit = 2
    VaultStates <- MCVaultStates
    CachedStates <- MCCachedStates
    Queries = {1, 2}
    Limits = {2}
    Batches <- MCBatches
    BundleRequests <- MCBundleRequests
    SnippetChars = 2
    NoReply = NoReply
INVARIANTS
    AllAndOnlyReadable
    HiddenLeaveNoTrace
    BundleIsTheBall
    BudgetKept
