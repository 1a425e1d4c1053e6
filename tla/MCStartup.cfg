CONSTANTS
    LastRelease = 3
    RulesetVersion <- MCRulesetVersion
    ExpectedMajor <- MCExpectedMajor
    MajorOf <- MCMajorOf
    SameProfiles <- MCSameProfiles
    CutFiles = {"profiles", "routing", "registry"}
    Broken = Broken
SPECIFICATION Spec
INVARIANT NoTornRuleset
PROPERTIES FailsOnlyByDeployment
