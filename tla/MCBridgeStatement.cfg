SPECIFICATION Spec
CONSTANTS
    Sessions = {c1}
    orders = orders
    items = items
    sales = sales
    stock = stock
    region = region
    tenant = tenant
    v1 = v1
    v2 = v2
    byColumn = byColumn
    byRegion = byRegion
    byTenant = byTenant
    TruePred = TruePred
    k = k
    src = src
    alt = alt
    other = other
    Pinned = Pinned
    None = None
    Unset = Unset
    Tables = {orders, items}
    Schemas = {sales, stock}
    SchemaOf <- MCSchemaOf
    Preds = {TruePred, byColumn, byRegion, byTenant}
    Names = {region, tenant}
    Values = {v1, v2}
    Uses <- MCUses
    FoldsWith <- MCFoldsWith
    Mentions <- MCMentions
    Grants <- MCGrants
    InitialBooks <- MCBooks
    Columns = {k}
    Statements <- MCStatements
    CatalogNames = {src, alt}
    Databases = {Pinned, other}
    MaxChanges = 2
SYMMETRY
    Interchangeable
INVARIANTS
    TypeOK
    FilteredUnlessRevoked
    ShapedUnlessRevoked
    AlterSeesWholeTable
    RunsOnPinned
    
    ServedSchemaIsFound
