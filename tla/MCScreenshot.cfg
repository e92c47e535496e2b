CONSTANTS
    None = None
    Unset = Unset
    Paths <- MCPaths
    Desktops <- MCDesktops
    Requests <- MCRequests
    Outcomes <- MCOutcomes
    Windows <- MCWindows
    DefaultSinks <- MCDefaultSinks
    DefaultKind = "Regular"
    OutputInTemplate = FALSE
    Deadline = 1
    MaxSaves = 2
SPECIFICATION Spec
INVARIANTS
    TypeOK
    WholeCapture
    PixelsInPlace
    SuccessIsComplete
    PasteYieldsLast
    SwitchingIsLossless
PROPERTIES
    RequestReturns
