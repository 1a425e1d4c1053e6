SPECIFICATION ReleaseSpec
CONSTANTS
    RuntimeData = {"router.yaml", "ollama.yaml"}
    Strays = {"legacy.yaml"}
    Entries = {"cli"}
    Inner = {"routes"}
    NoWheel = NoWheel
    MaxEdits = 4
    MaxVersion = 2
INVARIANTS
    InspectedSdistRebuilds
    CheckedServes
