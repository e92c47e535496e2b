CONSTANTS
    Clients = {c1, c2}
    Overlays = {o1, o2, o3}
    Nobody = Nobody
SPECIFICATION FairSpec
PROPERTIES
    CleanUpDropsOwnHandle
