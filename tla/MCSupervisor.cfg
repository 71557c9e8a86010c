SPECIFICATION Spec
CONSTANTS
    Commands = {"status", "execute"}
    MaxInterrupts = 2
INVARIANTS
    AnswersMatch
    StoppedBetweenCommands
    NothingLeftBehind
    SupervisorIInv
PROPERTIES
    CommandsAreAnswered
    FailsClosed
    NoOrphans
CHECK_DEADLOCK FALSE
