SPECIFICATION FairSpec
CONSTANTS
    Sessions = {s1, s2}
    distro = distro
    api = api
    merged = merged
    bad = bad
    NoFile = NoFile
    Down = Down
    Distro <- distro
    ApiOnly <- api
    Merged <- merged
    Contents <- MCContents
    Valid <- MCValid
INVARIANTS
    TypeOK
    DriftAccounted
PROPERTIES
    ValidatedRestart
    SuccessSurvivesReboot
    DriftEnds
