SPECIFICATION Spec
CONSTANTS
    Runs = {r1, r2}
    Nobody = nobody
    MaxTime = 3
    PageSize = 1
INVARIANTS VerdictMeansIndexed
