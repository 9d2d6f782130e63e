------------------------- MODULE TelephonyProperties -------------------------
(***************************************************************************)
(* What the telephony webhooks promise, from docs/telephony and from the   *)
(* way the handlers are written.  First what holds whatever requests       *)
(* overlap, then what holds only while requests are served one at a time.  *)
(***************************************************************************)
EXTENDS TelephonyWebhooks

Calls == DOMAIN callSessions
Windows == DOMAIN callbackSessions
Events == BagToSet(callEvents)

IsRouteEvent(e) == e.key[1] = "inbound.received" /\ e.call # None

-----------------------------------------------------------------------------
(* Overlapping requests.                                                   *)

\* An idempotency key is recorded at most once, however often and however
\* concurrently its message is delivered (handle* lookup plus the unique index).
EventsRecordedOnce ==
    /\ \A e \in Events : callEvents[e] = 1
    /\ \A e, f \in Events : e.key = f.key => e = f

\* Inbound call sessions and routing decisions are one to one: no session
\* without its inbound event, no event naming another window than its session
\* does, none routed to a window of another line (persistInboundRoute).
SessionsMatchDecisions ==
    /\ \A c \in Calls : callSessions[c].direction = "inbound" =>
          Cardinality({e \in Events : IsRouteEvent(e) /\ e.call = c}) = 1
    /\ \A e \in Events : IsRouteEvent(e) =>
          /\ e.call \in Calls /\ e.callback \in Windows
          /\ callSessions[e.call].direction = "inbound"
          /\ callSessions[e.call].callback = e.callback
          /\ callbackSessions[e.callback].did = e.did
          /\ callbackSessions[e.callback].remote = e.remote

\* However often an inbound call is notified, every accepted answer gives the
\* same action, call and window, or the same reject reason.
StickyInboundDecision ==
    \A m \in Messages : m.type = "inbound" =>
        \A a, b \in answers[m] : a.kind \in Accepted /\ b.kind \in Accepted => a = b

\* A 2xx answer is never given for something a rollback or a crash may undo:
\* the event is in the table, and a routed call exists and names its window.
AcknowledgedIsRecorded ==
    \A m \in Messages : \A a \in answers[m] :
        /\ a.kind \in Accepted /\ a.reason # "invalid_display_did" =>
              \E e \in RecordedAt(KeyOf(m)) : Consistent(e, m)
        /\ a.kind = "routed" =>
              a.call \in Calls /\ callSessions[a.call].callback = a.callback

\* A request that waits for a lock or an index entry of another transaction.
Waits(w) ==
    \/ /\ At(w, "insertEvent")
       /\ \E v \in Workers \ {w} : req[v].inserted /\ KeyOf(req[v].msg) = KeyOf(req[w].msg)
    \/ At(w, "updateCall") /\ req[w].callCols # {} /\ ~CallRowFree(w)
    \/ /\ At(w, "updateCallback") /\ req[w].callbackCols # {}
       /\ ~CallbackRowFree(w) \/ RoutingKeyInFlight(w)

\* The handlers never wait in a circle: when requests are open, one can go on.
\* The order of the saves (event, call, window; window, event) is what does it.
NoWaitCycle ==
    (\E w \in Workers : ~At(w, "idle")) => \E w \in Workers : ~At(w, "idle") /\ ~Waits(w)

-----------------------------------------------------------------------------
(* The inbox that producers see.                                           *)

Verdict(event) == [call |-> event.call, callback |-> event.callback, reason |-> event.reason]

Decided ==
    [key \in {KeyOf(m) : m \in Messages} |-> {Verdict(event) : event \in RecordedAt(key)}]

\* A report is acknowledged only for the call and the window it names.
Concerns(m, verdict) ==
    verdict.call = m.call /\ (m.type = "status" => verdict.callback = m.callback)

Decision(verdict) ==
    IF verdict.call = None THEN Rejected(verdict.reason) ELSE Routed(verdict.call, verdict.callback)

FirstAnswers(m, verdict) ==
    IF m.type = "inbound" THEN {Decision(verdict)}
    ELSE IF Concerns(m, verdict) THEN {Plain("applied")} ELSE {}

LaterAnswers(m, verdict) ==
    IF m.type = "inbound" THEN {Decision(verdict)}
    ELSE IF Concerns(m, verdict) THEN {Plain("duplicate")} ELSE {}

\* An unassigned DID is turned away without an event, so it is asked anew.
UndecidingAnswers ==
    {Rejected("invalid_display_did")}
    \cup {Plain(kind) : kind \in {"not_found", "event_conflict", "internal_error"}}

Inbox == INSTANCE WebhookInbox WITH
    Verdicts <- [call: Ref, callback: Ref, reason: DecisionReason \cup {None}],
    First <- FirstAnswers, Again <- LaterAnswers,
    Undeciding <- UndecidingAnswers, decided <- Decided

\* The webhooks are such an inbox, whatever overlaps, fails, crashes or is lost: a
\* message takes effect in one commit, is answered applied by that commit alone,
\* and every other accepted answer repeats what was decided (the handlers, their
\* transactions, rebuildInboundDecision).
InboxSpec == Inbox!Spec

-----------------------------------------------------------------------------
(* Requests one at a time.                                                 *)

\* No recorded status event is ahead of its call: what was acknowledged as
\* applied stays applied ("webhooks only advance a call session").
StatusCoversEvents ==
    \A e \in Events : e.key[1] \in StatusEvent =>
        Rank[ReportedStatus(e.key[1])] <= Rank[callSessions[e.call].status]

\* A terminal call status is never left, nor exchanged for another one.
TerminalCallIsFinal ==
    [][\A c \in Calls : callSessions[c].status \in TerminalCallStatus =>
           callSessions'[c].status = callSessions[c].status]_vars

\* A call whose status is terminal has its endedAt.
TerminalCallHasEnded ==
    \A c \in Calls : callSessions[c].status \in TerminalCallStatus => callSessions[c].ended

\* A window routes one inbound call ("the first successful bridge closes it",
\* and until then routing, not active).
OneRoutePerWindow ==
    \A e, f \in Events :
        IsRouteEvent(e) /\ IsRouteEvent(f) /\ e.callback = f.callback => e = f

\* A window that left active, by a match, a status event or a lapse, never
\* becomes matchable again.
ConsumedWindowStaysConsumed ==
    [][\A i \in Windows : callbackSessions[i].status # "active" =>
           callbackSessions'[i].status # "active"]_vars

\* The decision e gave up on this window when it had lapsed at the time of the
\* payload, and at time t of the clock it has lapsed, or no endpoint was there.
AccountsFor(e, window, t) ==
    /\ e.key[1] = "inbound.received" /\ e.call = None
    /\ e.did = window.did /\ e.remote = window.remote
    /\ window.expiresAt <= e.at
    /\ window.expiresAt <= t \/ e.reason = "no_available_endpoint"

\* A window is saved as expired only with a recorded decision that accounts for it:
\* a rejected call of its own line whose occurred_at is not before its end.  While
\* its TTL still runs on the clock, nothing but a call that found it live, found no
\* endpoint and bears a time ahead of the clock does it, however decisions, reports
\* and stale saves overlap (persistInboundReject, isExpiredCallback).
ExpiredForAReject ==
    \A i \in Windows : callbackSessions[i].status = "expired" =>
        \E e \in Events : AccountsFor(e, callbackSessions[i], now)

-----------------------------------------------------------------------------
(* What docs/telephony says and the code does not do: refuted by a run, as  *)
(* TerminalCallIsFinal is as soon as requests overlap.                      *)

\* "The same idempotency key must be answered as a success, a duplicate must
\* not be a reason for a 5xx" (with no failure of the database).
DuplicatesNeverFail ==
    \A m \in Messages : \A a \in answers[m] : a.kind # "internal_error"

-----------------------------------------------------------------------------
(* Liveness.                                                               *)

\* The event loop runs every ready continuation; PostgreSQL grants row locks
\* and index waits in the order they are asked for, so a request that waits is
\* not overtaken for ever.
ServeFairly ==
    \A w \in Workers : WF_vars(Serve(w)) /\ SF_vars(InsertEvent(w))
                       /\ SF_vars(UpdateCall(w)) /\ SF_vars(UpdateCallback(w))

\* A producer that repeats a message until it has an answer that is not a 500.
RetryUntilSettled ==
    \A m \in Messages : SF_vars(\E w \in Workers : Deliver(w, m) \/ DeliverAgain(w, m))

RetryingSpec == Spec /\ ServeFairly /\ RetryUntilSettled

\* Every delivered request gives its worker back.
EveryRequestLeaves == \A w \in Workers : ~At(w, "idle") ~> At(w, "idle")

\* Repeating a message leads past the 500s of lost races, failures and crashes
\* to an answer that settles it.
Settled(m) == \E a \in answers[m] : a.kind # "internal_error"
EveryMessageSettles == \A m \in Messages : <>Settled(m)
=============================================================================
