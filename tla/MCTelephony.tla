----------------------------- MODULE MCTelephony -----------------------------
(* Small instances of the telephony webhooks: one DID, one remote number.  *)
EXTENDS TelephonyProperties, TLC

CONSTANTS w1, w2, w3, p1, p2, e1, e2, d1, d2, r1, r2, n1, n2

Symmetry == Permutations(Workers)

Inbound(p, t) ==
    [type |-> "inbound", name |-> "inbound.received", pcall |-> p, eid |-> None,
     did |-> d1, remote |-> r1, call |-> None, callback |-> None, target |-> None,
     direction |-> "inbound", ended |-> FALSE, at |-> t]

Status(name, p, e, call, callback, target) ==
    [type |-> "status", name |-> name, pcall |-> p, eid |-> e,
     did |-> d1, remote |-> r1, call |-> call, callback |-> callback, target |-> target,
     direction |-> DirectionOfStatusEvent(name), ended |-> FALSE, at |-> 0]

Recording(p, e, call, direction) ==
    [type |-> "recording", name |-> "recording.ready", pcall |-> p, eid |-> e,
     did |-> d1, remote |-> r1, call |-> call, callback |-> None, target |-> None,
     direction |-> direction, ended |-> FALSE, at |-> 0]

\* Call 1 is the outbound call that opens window 1, call 2 the one that comes back.
OverlapMessages ==
    { Inbound(p1, 0), Inbound(p2, 1),
      Status("callback.completed", p1, e1, 2, 1, None),
      Status("outbound.completed", p2, e1, 1, 1, None) }

\* Reports of one outbound call, with and without its window.
ReportMessages ==
    { Status("outbound.completed", p2, e1, 1, 1, None),
      Status("outbound.ringing", p2, e1, 1, 1, None),
      Recording(p2, e1, 1, "outbound") }

\* Every kind of step a call can take, early, late and out of order.
SerialMessages ==
    { Inbound(p1, 0), Inbound(p2, 1),
      Status("callback.target.ringing", p1, e1, 2, 1, n1),
      Status("callback.bridged", p1, e1, 2, 1, None),
      Status("callback.failed", p1, e1, 2, 1, None),
      Status("outbound.completed", p2, e1, 1, 1, None) }

\* An inbound call that is repeated while the answer to it may have changed, with
\* a time that may be ahead of the clock.
RetryMessages ==
    { Inbound(p1, 1), Status("callback.failed", p1, e1, 2, 1, None) }

\* One message for every way a request can be turned down: a DID nobody has, a
\* provider call id or an event id reused for something else, a call that runs
\* the other way or does not exist, a window or an endpoint that does not.  Inbound
\* calls come with times before, at and ahead of the clock.
OddMessages ==
    { Inbound(p1, 1),
      [Inbound(p2, 0) EXCEPT !.did = d2],
      [Inbound(p1, 2) EXCEPT !.remote = r2],
      Status("callback.failed", p1, e1, 2, 1, n2),
      Status("callback.canceled", p1, e1, 2, 3, None),
      Recording(p2, e2, 1, "outbound"),
      Recording(p2, e2, 2, "outbound") }

AnyOutbound == {<<d1, r1, n1>>, <<None, r1, n1>>}

OpenWindow == {<<d1, r1, n1>>}
=============================================================================
