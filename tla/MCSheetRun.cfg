SPECIFICATION FairSpec
CONSTANTS
    p = p
    q = q
    r = r
    x = x
    y = y
    u = u
    Names <- MCNames
    Source <- MCSource
    Typed <- MCTyped
    Size <- MCSize
    Declarations <- MCDeclarations
    Builtins <- MCBuiltins
    Offers <- MCOffers
    Budgets = {0, 3}
    MaxRuns = 2
INVARIANTS InputsFirst RightVerdict EarliestFirst
INVARIANTS ReadsFinal CacheCoherent ResourcesKept WholeSheet NullKeepsSheet Portable
PROPERTY Ends
CHECK_DEADLOCK FALSE
