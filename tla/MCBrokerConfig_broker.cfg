SPECIFICATION FairSpec
CONSTANTS
    gitText = gitText
    defsText = defsText
    pwdText = pwdText
    badText = badText
    Absent = Absent
    GitText <- gitText
    DefsText <- defsText
    PwdText <- pwdText
    Texts <- MCTexts
    Bootable <- MCBootable
    MaxRollouts = 2
    MaxRuns = 2
INVARIANT
    TypeOK
PROPERTIES
    NoStaleAfterFix
    RolloutKeepsBroker
    BrokerReturns
