SPECIFICATION FairSpec
CONSTANTS
    Runs = {r1, r2}
    Nobody = nobody
    MaxTime = 3
    PageSize = 1
INVARIANTS TypeOK RecordKept GreenLeavesNothing
PROPERTIES PassMeansOwn Searchable
