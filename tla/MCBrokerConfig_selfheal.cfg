SPECIFICATION Spec
CONSTANTS
    gitText = gitText
    defsText = defsText
    pwdText = pwdText
    badText = badText
    Absent = Absent
    GitText <- gitText
    DefsText <- defsText
    PwdText <- pwdText
    Texts <- MCTexts
    Bootable <- MCBootable
    MaxRollouts = 2
    MaxRuns = 1
PROPERTY
    DefinitionsLoaded
