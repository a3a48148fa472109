CONSTANTS
    MaxText = 0
    MaxChunk = 1
    WordCharacters = {"g", "t"}
    StopWords <- CommonWords
    Stem <- ChopStem
    Functions = {"find"}
    MaxWidth = 2
    MaxTail = 0
SPECIFICATION MCSpec
INVARIANTS FindsWhatIsThere
CHECK_DEADLOCK FALSE
