SPECIFICATION Spec
CONSTANTS
    Threads = {c1, c2}
    None = None
    orders = orders
    Tables <- MCTables
    Content <- MCContent
    Attached = FALSE
    Reentrant = TRUE
    MaxGeneration = 2
    MaxVersion = 1
    MaxProviders = 2
SYMMETRY
    Interchangeable
INVARIANTS
    TypeOK
    CurrentListIsFresh
    EntryIsFresh
