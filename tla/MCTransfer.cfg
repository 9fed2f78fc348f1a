SPECIFICATION TransferSpec
CONSTANTS
    N = 7
    TitleCount = 1
    TitleHas <- MCTitleHas
    AutocompleteLimit = 10
    Vaults = {1, 2}
    NewVault = 3
    MaxChanges = 2
    Stores <- MCStores
INVARIANTS
    ImportIsTheVault
    CopyIsTheSubtree
    CopyStaysClosed
CHECK_DEADLOCK FALSE
