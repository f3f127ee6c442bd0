CONSTANTS
    Chars = {"a", "b", "nl", "cr", "{", "}"}
    NewLine = "nl"
    Return = "cr"
    Opening <- MCOpening
    Closing <- MCClosing
    NameOrder <- MCNameOrder
    Declared <- MCDeclared
    Files <- MCFiles
    Contents <- MCContents
    Missing = Missing
    MinLength = 2
    Commands <- MCCommands
    Outputs <- MCOutputs
SPECIFICATION Spec
INVARIANTS OneValuePerRun NothingInClear MasksWholeValues
