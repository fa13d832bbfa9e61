SPECIFICATION PolicySpec
CONSTANTS
    Ids = {b1}
    Instances = {s}
    None = None
    TtlSeconds = 1
    MaxTokenFailures = 2
    MaxRegs = 1
    MaxTxns = 1
    Clients = {c1, c2}
    parent = parent
    child = child
    v1 = v1
    v2 = v2
    n = n
    byContext = byContext
    TruePred = TruePred
    Unset = Unset
    Tables <- MCTables
    Views = {}
    FkParents <- MCFkParents
    Preds = {TruePred, byContext}
    Names = {n}
    Values = {v1, v2}
    Uses <- MCUses
    Accepts <- MCAccepts
    ByColumn = {byContext}
    Functions = {"abs"}
    Edits <- RaceEdits
INVARIANT
    PoliciesBind
