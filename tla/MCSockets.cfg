CONSTANTS
    None = None
    Unset = Unset
    NoFile = NoFile
    NoOutput = "none"
    Outputs = {"A", "B"}
    Toplevels <- MCToplevels
    Backends = {"hyprland", "sway", "niri", "foreign"}
    MaxChanges = 3
    MaxFailures = 1
    Desks <- MCDesks
    MaxShuffles = 3
    Daemons = {d1, d2, d3}
    Clients = {c1}
    Scripts <- MCScripts
    Paths <- MCPaths
    DefaultSinks <- MCDefaultSinks
    DefaultKind = "Regular"
    OutputInTemplate = FALSE
    ConfigDelay = 1
    ConfigCursor = TRUE
SPECIFICATION Spec
INVARIANTS
    TypeOK
    HitIsShown
    SoleDaemonServes
    AnsweredTruly
PROPERTIES
    FollowsFocus
    ReadersStop
CHECK_DEADLOCK FALSE
