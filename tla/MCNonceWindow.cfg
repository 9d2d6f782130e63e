SPECIFICATION Spec
CONSTANTS
    k1 = k1
    k2 = k2
    k3 = k3
    a = a
    b = b
    None = None
    NotANumber = NotANumber
    ConfiguredKeys <- OneUsable
    DefaultKeys = {k2}
    OtherKeys = {k3}
    Nonces = {a, b}
    Timestamps <- MCTimestamps
    Requests <- MCRequests
    Second = 2
    MaxSkew = 1
    NonceLife = 4
    MaxTime = 7
    MaxServed = 2
    MaxRestarts = 1
INVARIANTS
    OncePerLife
    RepeatsOnlyAtTheEdge
    OnlyServedIsRemembered
