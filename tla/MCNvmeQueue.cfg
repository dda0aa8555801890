CONSTANTS
    Depth = 4
    CidMod = 4
    MaxCommands = 7
    MaxLate = 1
VIEW QueueView
SPECIFICATION Spec
INVARIANTS
    AnswerIsOwn
    DataIsOwn
    DrainMeansDone
PROPERTIES
    DrainEnds
