CONSTANTS
    Monitors = {m1, m2}
    None = None
    Saves = {s1, s2}
    Blurs = {b1, b2}
    MaxCommands = 2
SPECIFICATION FairSpec
INVARIANTS
    InputCoherent
    OneBlurCapture
    LoneSaveIsTransparent
PROPERTIES
    CapturesEnd
