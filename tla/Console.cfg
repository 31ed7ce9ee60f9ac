SPECIFICATION Spec
CONSTANTS
    VGA_WIDTH = 3
    VGA_HEIGHT = 3
    BUFFER = 6
    POSITIONS = 5
    Letters <- SomeLetters
    Lines <- SomeLines
    Replies <- SomeReplies
    Registers <- SomeRegisters
    MaxKeys = 6
    MaxDepth = 2
INVARIANTS
    TypeOK
    LineEnds
    LineOnScreen
    TextOnScreen
    TextSafe
PROPERTY
    TimeShown
CHECK_DEADLOCK FALSE
