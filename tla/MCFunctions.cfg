CONSTANTS
    MaxText = 7
    MaxChunk = 4
    WordCharacters = {"g", "t"}
    StopWords <- CommonWords
    Stem <- ChopStem
    Functions = {"feed", "read", "find", "read_many", "validate", "write", "status", "search"}
    MaxWidth = 3
    MaxTail = 6
SPECIFICATION MCSpec
INVARIANTS ChunksDoNotMatter RestIsKept ReadIsRegion ReadFits FindAgrees NumbersSurviveTrim VerdictByPositions CutIsSafe FlagsAreOfLastLine FoundWhileTyping
CHECK_DEADLOCK FALSE
