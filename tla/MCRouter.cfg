CONSTANTS
    None = None
    MalformedIds = {"?"}
    Documents <- MCDocuments
    Registries <- MCRegistries
    Requests <- MCRequests
SPECIFICATION Spec
INVARIANTS
    FollowsPolicy
    ContractHonoured
    BootChecksSuffice
    LosersAreIrrelevant
    EvidenceForWinnerKeepsIt
    WeakEvidenceNeverRoutes
