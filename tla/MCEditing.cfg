CONSTANTS
    None = None
    Monitors = {"m1", "m2"}
    Order <- MCOrder
    Bars <- MCBars
    Delays <- MCDelays
    Handy = {"Rect", "Text", "Blur"}
    Strokes = {"Rect", "Blur"}
    Timers = {t1}
    MaxAnnotations = 2
    Colors = {"red", "yellow"}
    InitialColor = "red"
    ConfigColor <- MCConfigColor
    MaxPicks = 1
    Letters = {"a", "e"}
    Width <- MCWidth
    Newline = "nl"
    MaxBytes = 5
    MaxKept = 2
    Kinds = {"Rect", "Highlight", "Blur", "InvertedBlur", "Arrow", "Freehand", "Number", "Text", "Crop"}
    Points <- MCPoints
    DocSize <- MCDocSize
    Nudges <- MCNudges
    MaxDrags = 2
    MaxNudges = 1
SPECIFICATION Spec
INVARIANTS
    ToolbarTells
PROPERTIES
    LineEditSpec
    GripFollows
CHECK_DEADLOCK FALSE
