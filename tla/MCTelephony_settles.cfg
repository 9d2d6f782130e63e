SPECIFICATION RetryingSpec
CONSTANTS
    w1 = w1
    w2 = w2
    w3 = w3
    p1 = p1
    p2 = p2
    e1 = e1
    e2 = e2
    d1 = d1
    d2 = d2
    r1 = r1
    r2 = r2
    n1 = n1
    n2 = n2
    None = None
    Workers = {w1, w2}
    Messages <- RetryMessages
    ProviderCalls = {p1, p2}
    EventIds = {e1, e2}
    Dids = {d1, d2}
    CallbackDids = {d1}
    Remotes = {r1, r2}
    E164Remotes = {r1, r2}
    Endpoints = {n1, n2}
    TenantEndpoints = {n1}
    OutboundRequests <- OpenWindow
    SwitchableDids = {}
    SwitchableEndpoints = {}
    TenantMayBlock = FALSE
    TTL = 1
    MaxTime = 1
    MaxOutbound = 1
    MaxFaults = 1
PROPERTIES
    EveryRequestLeaves
    EveryMessageSettles
