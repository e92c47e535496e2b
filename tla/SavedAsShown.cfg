CONSTANTS
    Strokes = {"Rect"}
    Timers = {t1, t2}
    MaxAnnotations = 2
    None = None
    Monitors = {m1, m2}
SPECIFICATION Spec
INVARIANTS
    SavedAsShown
CHECK_DEADLOCK FALSE
