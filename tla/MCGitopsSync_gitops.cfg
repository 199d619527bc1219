SPECIFICATION FairSpec
CONSTANTS
    Roots <- MCRoots
    Children <- MCChildren
    Lone <- MCLone
    Parent <- MCParent
    Automated <- MCAutomated
    Finalized <- MCFinalized
    Late <- MCLate
    MaxActs = 2
INVARIANT
    TypeOK
PROPERTIES
    Converges
    ResourcesStay
CHECK_DEADLOCK FALSE
