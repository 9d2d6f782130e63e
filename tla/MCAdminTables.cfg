SPECIFICATION Spec
CHECK_DEADLOCK FALSE
CONSTANTS
    Consoles = {c1, c2}
    Processes = {p1, p2}
    Needed = 2
    Calls = {h1, h2}
    Loads = {l1, l2}
    Typed <- MCTyped
    Normal <- MCNormal
    Malformed = {"x"}
    Bootstrap <- MCBootstrap
    Requests <- MCRequests
    None = None
    Null = Null
    Blank = Blank
    Short = Short
    MaxAsked = 3
    MaxBroken = 1
INVARIANTS
    UsernamesUnique
    ViewIsTheTable
PROPERTIES
    UnnamedColumnsKept
    EveryProcessStarts
