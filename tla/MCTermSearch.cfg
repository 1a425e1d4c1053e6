CONSTANTS
    None = None
    Char <- MCChar
    WordChars <- MCWordChars
    Messages <- MCMessages
    Values <- MCValues
SPECIFICATION Spec
INVARIANTS FirstPlace NothingMissed
PROPERTIES SearchEnds
CHECK_DEADLOCK FALSE
