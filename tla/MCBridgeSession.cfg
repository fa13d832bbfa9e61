SPECIFICATION Spec
CONSTANTS
    Sessions = {s1, s2}
    Names = {orders, items}
    None = None
    MaxUndo = 2
    MaxFailures = 1
SYMMETRY
    Interchangeable
INVARIANTS
    TypeOK
    DdlIsCounted
    UndoHoldsItsTables
    ShaperHoldsTheTable
    CreatedIsGrantedUnlessCommitFailed
PROPERTIES
    UndoInvertsUnlessRenamedOver
    OnlyHeldGrantsChange
