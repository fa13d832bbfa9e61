SPECIFICATION Spec
CONSTANTS
    s1 = s1
    s2 = s2
    Scans = {s1, s2}
    Hosts = {h1, h2}
    FirstHost = h1
    Workers = {w1, w2}
    None = None
    Rows <- MCRows
    Table <- MCTable
    Key <- MCKey
    Unreadable <- MCUnreadable
    Generators <- MCGenerators
    Reads <- MCReads
    Statements <- MCStatements
    VectorSize = 2
    MaxSunk = 3
INVARIANTS
    TypeOK
    ClosedOnce
    DeliversWhatWasSent
    RowIdNamesItsRow
    WriteCarriesTheRows
    NoWriteFromBrokenSource
    HiddenRowsAreReported
PROPERTIES
    GeneratorsAreClosed
CHECK_DEADLOCK FALSE
