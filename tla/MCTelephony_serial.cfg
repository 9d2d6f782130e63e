SPECIFICATION Spec
CONSTANTS
    w1 = w1
    w2 = w2
    w3 = w3
    p1 = p1
    p2 = p2
    e1 = e1
    e2 = e2
    d1 = d1
    d2 = d2
    r1 = r1
    r2 = r2
    n1 = n1
    n2 = n2
    None = None
    Workers = {w1}
    Messages <- SerialMessages
    ProviderCalls = {p1, p2}
    EventIds = {e1, e2}
    Dids = {d1}
    CallbackDids = {d1}
    Remotes = {r1}
    E164Remotes = {r1}
    Endpoints = {n1}
    TenantEndpoints = {n1}
    OutboundRequests <- OpenWindow
    SwitchableDids = {}
    SwitchableEndpoints = {}
    TenantMayBlock = FALSE
    TTL = 1
    MaxTime = 1
    MaxOutbound = 1
    MaxFaults = 0
INVARIANTS
    TypeOK
    StatusCoversEvents
    TerminalCallHasEnded
    OneRoutePerWindow
PROPERTIES
    TerminalCallIsFinal
    ConsumedWindowStaysConsumed
