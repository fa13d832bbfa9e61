SPECIFICATION Spec
CONSTANTS
    Threads = {c1}
    None = None
    orders = orders
    Tables <- MCTables
    Content <- MCContent
    Attached = TRUE
    Reentrant = FALSE
    MaxGeneration = 1
    MaxVersion = 0
    MaxProviders = 2
SYMMETRY
    Interchangeable
PROPERTY
    NamedSchemaIsMade
