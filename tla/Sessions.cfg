SPECIFICATION Spec
CHECK_DEADLOCK FALSE
CONSTANTS
    Users = {a}
    Calls = {c1, c2}
    None = None
    MaxTokens = 3
    MaxCrashes = 1
    MaxExpired = 2
    MaxChanges = 1
    MaxLost = 2
INVARIANTS
    
    BarredGetNothing
    SpentGivesNothing
    
PROPERTIES
    BootingEnds
