SPECIFICATION CanonicalSpec
CONSTANTS
    None = None
    MalformedIds = {}
    Documents <- MCDocuments
    Registry <- MCRegistry
    Rank <- MCRank
    Edit <- MCEdit
    Requests <- MCRequests
    MaxEdits = 2
INVARIANT AccentSettingRespected
