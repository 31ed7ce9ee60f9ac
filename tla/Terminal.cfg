SPECIFICATION Spec
CONSTANTS
    Printers = {p1, p2, boot}
    Boot = boot
    None = None
    VGA_WIDTH = 80
    VGA_HEIGHT = 20
    Starts <- AtTheEnd
    Coloured <- AtTheEnd
    Texts <- ShortTexts
    MaxKeys = 2
INVARIANTS
    TypeOK
    RowReturns
    AloneOnScreen
SYMMETRY Symmetry
CHECK_DEADLOCK FALSE
