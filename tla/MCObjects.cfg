SPECIFICATION Spec
CONSTANTS
    Idxs <- MCIdxs
    Str = {"a"}
    Sym = {"s"}
    Values = {"v1", "v2"}
    Funcs = {"f1", "f2"}
    Names <- MCNames
    IdxNames = {1, 2}
    Iters = {i1, i2}
    MaxCap = 4
SYMMETRY SwapIters
INVARIANTS NamesKept AccessAgrees ProxyHonest HardenAgrees
CHECK_DEADLOCK FALSE
