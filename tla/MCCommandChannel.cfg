CONSTANTS
    Commands <- SomeCommands
    MaxOwed = 4
SPECIFICATION Spec
INVARIANTS InStepInv
