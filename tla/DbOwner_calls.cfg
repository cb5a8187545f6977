CONSTANTS
    Calls = {c1, c2}
    App = App
SPECIFICATION LiveSpec
INVARIANT TypeOK
INVARIANT DoubledOnlyByOthers
INVARIANT AnswerBindsOwnTasks
INVARIANT CurrentOwnerAccepts
PROPERTY LiveOwnerKeepsItsConnection
PROPERTY WedgeIsSidestepped
PROPERTY AnsweredCallsReturn
PROPERTY AbandonedConnectionIsReleased
