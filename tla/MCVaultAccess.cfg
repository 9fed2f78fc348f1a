SPECIFICATION Spec
CONSTANTS
    ann = ann
    ben = ben
    bot = bot
    n = n
    Null = Null
    Sessions = {s1, s2}
    Humans = {ann, ben}
    Agents = {bot}
    Vaults = {1, 2}
    Names <- MCNames
    TooLong <- MCTooLong
    MaxRequests = 4
SYMMETRY Symmetry
INVARIANTS
    TypeOK
    AdminRemains
    ChecksSuffice
    ListsFresh
PROPERTIES
    OwnerKeepsAVault
    ImplementsVaultBook
CHECK_DEADLOCK FALSE
