-------------------------- MODULE TelephonyWebhooks --------------------------
(***************************************************************************)
(* The telephony core of the server: POST /calls/outbound opens callback   *)
(* windows, and the three webhooks (inbound-call, call-status,             *)
(* recording-ready) move call sessions and windows.  Every webhook runs as *)
(* a request made of the SQL statements its handler awaits, so requests    *)
(* interleave between any two statements, the way a Node process over a    *)
(* PostgreSQL pool (READ COMMITTED) interleaves them.                      *)
(*                                                                         *)
(* A save of a loaded entity is TypeORM's: re-read the row, write exactly  *)
(* the columns in which the in-memory entity differs from it, and hold the *)
(* row lock until commit.  Nothing locks or versions the first read.       *)
(*                                                                         *)
(* One tenant, one provider trunk; every query after the DID lookup is     *)
(* scoped by them.  Row ids are positions, in the order of commits; the    *)
(* event table, which nothing refers to by id, is a bag of rows.           *)
(***************************************************************************)
EXTENDS CallStates, Sequences, FiniteSets, Bags

CONSTANTS
    Workers,        \* slots for requests being served at the same time
    Messages,       \* the parsed, signed webhook requests a producer may send
    ProviderCalls,  \* provider_call_id values
    EventIds,       \* provider_event_id and recording_id values
    Dids,           \* display DIDs a request may name
    CallbackDids,   \* DIDs whose assignment has callbackEnabled
    Remotes,        \* remote numbers, as written once separators are stripped
    E164Remotes,    \* those of the form +digits, the only ones a webhook takes
    Endpoints,      \* endpoint ids a request may name
    TenantEndpoints,\* the endpoints the tenant really has
    None,           \* SQL NULL, an absent optional field
    OutboundRequests,    \* what POST /calls/outbound may dial: did, remote, target
    SwitchableDids,      \* DIDs the administration releases and assigns again
    SwitchableEndpoints, \* endpoints the administration switches on and off
    TenantMayBlock,      \* whether the administration blocks the tenant
    TTL,            \* DEFAULT_CALLBACK_TTL_SECONDS, in ticks
    MaxTime,        \* bound on the clock
    MaxOutbound,    \* bound on the outbound calls created
    MaxFaults       \* bound on database errors and process crashes

Ref == Nat \union {None}

Key == EventName \X (ProviderCalls \union {None}) \X (EventIds \union Nat \union {None})

\* What the parse functions let through.  "ended" says the payload has ended_at.
Message ==
    [type: {"inbound"}, name: {"inbound.received"}, pcall: ProviderCalls, eid: {None},
     did: Dids, remote: E164Remotes, call: {None}, callback: {None}, target: {None},
     direction: {"inbound"}, ended: {FALSE}, at: Nat]
    \union
    {m \in [type: {"status"}, name: StatusEvent, pcall: ProviderCalls, eid: EventIds,
            did: Dids, remote: E164Remotes, call: Nat, callback: Ref,
            target: Endpoints \union {None}, direction: Direction,
            ended: BOOLEAN, at: Nat] :
        /\ m.direction = DirectionOfStatusEvent(m.name)
        /\ m.name \in CallbackStatusEvent => m.callback # None
        /\ m.name \in {"callback.target.ringing", "callback.target.answered"}
             => m.target # None}
    \union
    [type: {"recording"}, name: RecordingEvent, pcall: ProviderCalls, eid: EventIds,
     did: Dids, remote: E164Remotes, call: Nat, callback: {None}, target: {None},
     direction: Direction, ended: {FALSE}, at: Nat]

ASSUME ConstantsAssumption ==
    /\ Messages \subseteq Message
    /\ CallbackDids \subseteq Dids
    /\ E164Remotes \subseteq Remotes
    /\ TenantEndpoints \subseteq Endpoints
    /\ OutboundRequests \subseteq (Dids \union {None}) \X Remotes
                                   \X (TenantEndpoints \union {None})
    /\ SwitchableDids \subseteq Dids
    /\ SwitchableEndpoints \subseteq TenantEndpoints
    /\ TenantMayBlock \in BOOLEAN
    /\ None \notin Nat \union Endpoints \union Dids \union ProviderCalls \union Messages
    /\ TTL \in Nat /\ MaxTime \in Nat /\ MaxOutbound \in Nat /\ MaxFaults \in Nat

VARIABLES
    callSessions,     \* table call_sessions: a sequence of rows
    callbackSessions, \* table callback_sessions: a sequence of rows
    callEvents,       \* table call_events: a bag of rows
    req,              \* the request each worker serves
    answers,          \* the HTTP answers each message has had
    assignedDids,     \* DIDs with an active assignment (administered outside)
    activeEndpoints,  \* endpoints with status active (administered outside)
    tenantActive,     \* whether the tenant's status is active
    now,              \* the wall clock
    faults            \* database errors and crashes so far

tables == <<callSessions, callbackSessions, callEvents>>
environment == <<assignedDids, activeEndpoints, tenantActive, now, faults>>
vars == <<tables, req, answers, environment>>

-----------------------------------------------------------------------------
(* Rows, requests, answers.                                                *)

CallRow == [direction: Direction, callback: Ref, endpoint: Endpoints \union {None},
            status: CallStatus, ended: BOOLEAN]

CallbackRow == [did: Dids, remote: Remotes, createdAt: Nat, expiresAt: Nat,
                target: Endpoints \union {None}, lastRouted: Endpoints \union {None},
                status: CallbackStatus, matched: BOOLEAN, expired: BOOLEAN,
                routingKey: ProviderCalls \union {None}]

\* NULL is no row.
ASSUME NullAssumption == None \notin CallbackRow

DecisionReason == {"matched_active_callback", "callback_not_found", "callback_expired",
                   "tenant_blocked", "no_available_endpoint", "invalid_display_did"}

\* "at" is occurred_at, which a webhook takes from the payload as it stands.
EventRow == [key: Key, did: Dids, remote: Remotes, call: Ref, callback: Ref,
             target: Endpoints \union {None}, reason: DecisionReason \union {None}, at: Nat]

CallColumn == {"status", "ended", "endpoint"}
CallbackColumn == {"status", "target", "lastRouted", "matched", "expired", "routingKey"}

\* A request: where it stands, its private copies of the rows it loaded, what
\* its open transaction has written.
Request ==
    [pc: {"idle", "lookup", "select", "endpoint", "loadCall", "loadCallback",
          "insertEvent", "reloadCall", "updateCall", "reloadCallback",
          "updateCallback", "commit"},
     msg: Messages \union {None},
     call: CallRow \union {None}, callback: CallbackRow \union {None},
     callbackRef: Ref, target: Endpoints \union {None},
     reason: DecisionReason \union {None},
     inserted: BOOLEAN,
     callLock: BOOLEAN, callCols: SUBSET CallColumn,
     callbackLock: BOOLEAN, callbackCols: SUBSET CallbackColumn]

Idle == [pc |-> "idle", msg |-> None, call |-> None, callback |-> None,
         callbackRef |-> None, target |-> None, reason |-> None, inserted |-> FALSE,
         callLock |-> FALSE, callCols |-> {}, callbackLock |-> FALSE, callbackCols |-> {}]

Answer == [kind: {"routed", "rejected", "applied", "duplicate",
                  "not_found", "event_conflict", "internal_error"},
           call: Ref, callback: Ref, reason: DecisionReason \union {None}]

Plain(kind) == [kind |-> kind, call |-> None, callback |-> None, reason |-> None]
Rejected(reason) == [Plain("rejected") EXCEPT !.reason = reason]
Routed(call, callback) ==
    [kind |-> "routed", call |-> call, callback |-> callback,
     reason |-> "matched_active_callback"]

\* Answers that acknowledge a message: status 200.
Accepted == {"routed", "rejected", "applied", "duplicate"}

TypeOK ==
    /\ callSessions \in Seq(CallRow)
    /\ callbackSessions \in Seq(CallbackRow)
    /\ IsABag(callEvents) /\ BagToSet(callEvents) \subseteq EventRow
    /\ req \in [Workers -> Request]
    /\ answers \in [Messages -> SUBSET Answer]
    /\ assignedDids \in SUBSET Dids
    /\ activeEndpoints \in SUBSET TenantEndpoints
    /\ tenantActive \in BOOLEAN
    /\ now \in Nat
    /\ faults \in Nat

Init ==
    /\ callSessions = <<>>
    /\ callbackSessions = <<>>
    /\ callEvents = EmptyBag
    /\ req = [w \in Workers |-> Idle]
    /\ answers = [m \in Messages |-> {}]
    /\ assignedDids = Dids
    /\ activeEndpoints = TenantEndpoints
    /\ tenantActive = TRUE
    /\ now = 0
    /\ faults = 0

-----------------------------------------------------------------------------
(* What the handlers compute on the rows they loaded.                      *)

\* build*IdempotencyKey: an inbound call is keyed by the call alone.
KeyOf(m) == <<m.name, m.pcall, m.eid>>

\* Mutant: only routed calls are found again.
RecordedAtRouted(key) == {event \in BagToSet(callEvents) : event.key = key /\ event.call # None}

RecordedAt(key) == {event \in BagToSet(callEvents) : event.key = key}

InsertedEvent(row) == callEvents (+) SetToBag({row})

\* assert*EventConsistency, beyond the fields the key already fixes.
Consistent(event, m) ==
    /\ m.type # "recording" => event.did = m.did /\ event.remote = m.remote
    /\ m.type # "inbound" => event.call = m.call
    /\ m.type = "status" => event.callback = m.callback /\ m.target \in {None, event.target}

\* Mutant: one tick early.
IsExpiredEarly(window, t) == window.status = "expired" \/ window.expiresAt <= t + 1

\* isExpiredCallback: a lapsed TTL expires a window whatever its status is.
IsExpired(window, t) == window.status = "expired" \/ window.expiresAt <= t

\* Mutant: endedAt only from the payload.
CallAfterPayloadEnd(call, m, target) ==
    [call EXCEPT !.status = StatusAfter(@, m.name), !.ended = @ \/ m.ended,
                 !.endpoint = IF @ = None THEN target ELSE @]

\* The assignments of applyCallStatusEvent to the loaded call.
CallAfter(call, m, target) ==
    [call EXCEPT
        !.status = StatusAfter(@, m.name),
        !.ended = @ \/ m.ended \/ ReportedStatus(m.name) \in TerminalCallStatus,
        !.endpoint = IF @ = None THEN target ELSE @]

\* applyCallbackSessionMutation on the loaded window.
CallbackAfter(window, m, target) ==
    [window EXCEPT
        !.status = WindowAfter(@, m.name),
        !.matched = @ \/ m.name \in {"callback.bridged", "callback.completed"},
        !.target = IF target = None THEN @ ELSE target,
        !.lastRouted = IF target = None THEN @ ELSE target]

\* The assignments of persistInboundRoute and persistInboundReject to the window.
CallbackRouted(window, m, target) ==
    [window EXCEPT !.status = "routing", !.target = target, !.lastRouted = target,
                   !.matched = TRUE, !.routingKey = m.pcall]

CallbackExpired(window, m) ==
    [window EXCEPT !.status = "expired", !.expired = TRUE, !.routingKey = m.pcall]

\* What a save writes: the columns in which the entity differs from the row.
CallDiff(entity, row) == {c \in CallColumn : entity[c] # row[c]}
CallbackDiff(entity, row) == {c \in CallbackColumn : entity[c] # row[c]}

CallOverlay(row, entity, cols) ==
    [row EXCEPT !.status = IF "status" \in cols THEN entity.status ELSE @,
                !.ended = IF "ended" \in cols THEN entity.ended ELSE @,
                !.endpoint = IF "endpoint" \in cols THEN entity.endpoint ELSE @]

CallbackOverlay(row, entity, cols) ==
    [row EXCEPT !.status = IF "status" \in cols THEN entity.status ELSE @,
                !.target = IF "target" \in cols THEN entity.target ELSE @,
                !.lastRouted = IF "lastRouted" \in cols THEN entity.lastRouted ELSE @,
                !.matched = IF "matched" \in cols THEN entity.matched ELSE @,
                !.expired = IF "expired" \in cols THEN entity.expired ELSE @,
                !.routingKey = IF "routingKey" \in cols THEN entity.routingKey ELSE @]

\* targetEndpointId: the payload's, else the window's, else the call's own.
TargetFor(m, window, call) ==
    IF m.target # None THEN m.target
    ELSE IF window # None /\ window.target # None THEN window.target
    ELSE call.endpoint

-----------------------------------------------------------------------------
(* Steps shared by the handlers.                                           *)

At(w, pc) == req[w].pc = pc

Continue(w, next) == req' = [req EXCEPT ![w] = next] /\ UNCHANGED answers

\* The answer leaves, the connection returns to the pool, its locks are gone.
Reply(w, answer) ==
    /\ req' = [req EXCEPT ![w] = Idle]
    /\ answers' = [answers EXCEPT ![req[w].msg] = @ \union {answer}]

\* The same, but the producer never sees the answer of a committed request.
LoseReply(w) ==
    /\ faults < MaxFaults
    /\ faults' = faults + 1
    /\ req' = [req EXCEPT ![w] = Idle]
    /\ UNCHANGED <<answers, assignedDids, activeEndpoints, tenantActive, now>>

ReplyOrLoseIt(w, answer) ==
    \/ Reply(w, answer) /\ UNCHANGED environment
    \/ LoseReply(w)

\* The producer sends a message, possibly again.  Its occurred_at may lie on
\* either side of the clock: nothing compares the two.  Signature check, parsing
\* and trunk check run before the first await; Messages are those that pass.
\* The request starts with its first statement, findOne on the idempotency key,
\* which no transaction covers.
Deliver(w, m) ==
    /\ At(w, "idle")
    /\ RecordedAt(KeyOf(m)) = {}
    /\ Continue(w, [Idle EXCEPT !.pc = IF m.type = "inbound" THEN "lookup" ELSE "loadCall",
                                !.msg = m])
    /\ UNCHANGED <<tables, environment>>

\* Mutant: a duplicate runs into the unique index instead of the lookup.
DeliverAgainFailing(w, m) ==
    /\ At(w, "idle") /\ RecordedAt(KeyOf(m)) # {}
    /\ answers' = [answers EXCEPT ![m] = @ \union {Plain("internal_error")}]
    /\ UNCHANGED <<tables, req, environment>>

\* Mutant: the decision is rebuilt from the window as it is now.
DeliverAgainFromWindow(w, m) ==
    /\ At(w, "idle")
    /\ \E event \in RecordedAt(KeyOf(m)) :
          LET answer ==
                IF ~Consistent(event, m) THEN Plain("event_conflict")
                ELSE IF m.type # "inbound" THEN Plain("duplicate")
                ELSE IF event.call # None /\ callbackSessions[event.callback].status = "routing"
                  THEN Routed(event.call, event.callback)
                ELSE Rejected("callback_not_found")
          IN answers' = [answers EXCEPT ![m] = @ \union {answer}]
    /\ UNCHANGED <<tables, req, environment>>

\* The event is known: a conflicting payload is refused, an inbound decision is
\* rebuilt from the event, any other duplicate is acknowledged.
DeliverAgain(w, m) ==
    /\ At(w, "idle")
    /\ \E event \in RecordedAt(KeyOf(m)) :
          LET answer ==
                IF ~Consistent(event, m) THEN Plain("event_conflict")
                ELSE IF m.type # "inbound" THEN Plain("duplicate")
                ELSE IF event.call # None THEN Routed(event.call, event.callback)
                ELSE Rejected(event.reason)
          IN answers' = [answers EXCEPT ![m] = @ \union {answer}]
    /\ UNCHANGED <<tables, req, environment>>

-----------------------------------------------------------------------------
(* POST /webhooks/inbound-call: the decision.                              *)

\* Enter persistInboundReject; the window is saved only when it has lapsed at
\* the time the payload gives.
Reject(w, reason, ref, window) ==
    LET m == req[w].msg IN
    IF ref # None /\ IsExpired(window, m.at)
      THEN Continue(w, [req[w] EXCEPT !.pc = "reloadCallback", !.reason = reason,
                            !.callbackRef = ref, !.callback = CallbackExpired(window, m)])
      ELSE Continue(w, [req[w] EXCEPT !.pc = "insertEvent", !.reason = reason,
                                      !.callbackRef = None, !.callback = None])

\* The windows find() returns for the line of an inbound call.
Matching(m) == {i \in DOMAIN callbackSessions :
                   callbackSessions[i].did = m.did /\ callbackSessions[i].remote = m.remote}

\* The first of S in createdAt DESC order; equal times leave the order open.
Newest(S) == {i \in S : \A j \in S : callbackSessions[j].createdAt <= callbackSessions[i].createdAt}

\* Mutant: any window whose TTL runs is live.
LiveWindowsByTTL(m) == {i \in Matching(m) : callbackSessions[i].expiresAt > now}

LiveWindows(m) == {i \in Matching(m) : /\ callbackSessions[i].status = "active"
                                       /\ callbackSessions[i].expiresAt > now}
LapsedWindows(m) == {i \in Matching(m) : IsExpired(callbackSessions[i], now)}

\* lookupDidContext and the tenant status.  An unknown DID is answered without
\* being persisted.
LookupDid(w) ==
    LET known == req[w].msg.did \in assignedDids IN
    /\ At(w, "lookup")
    /\ \/ ~known /\ Reply(w, Rejected("invalid_display_did"))
       \/ known /\ ~tenantActive /\ Reject(w, "tenant_blocked", None, None)
       \/ known /\ tenantActive /\ Continue(w, [req[w] EXCEPT !.pc = "select"])
    /\ UNCHANGED <<tables, environment>>

\* The windows of the line and the choice of one.
SelectCallback(w) ==
    LET m == req[w].msg IN
    /\ At(w, "select")
    /\ \/ \E i \in Newest(LiveWindows(m)) :
             Continue(w, [req[w] EXCEPT !.pc = "endpoint", !.callbackRef = i,
                                        !.callback = callbackSessions[i]])
       \/ /\ LiveWindows(m) = {}
          /\ \E i \in Newest(LapsedWindows(m)) :
                Reject(w, "callback_expired", i, callbackSessions[i])
       \/ /\ LiveWindows(m) = {} /\ LapsedWindows(m) = {}
          /\ Reject(w, "callback_not_found", None, None)
    /\ UNCHANGED <<tables, environment>>

\* resolveInboundTargetEndpoint, then persistInboundRoute's INSERT of the new
\* call and its assignments to the window loaded two statements ago.
ResolveEndpoint(w) ==
    LET m == req[w].msg
        window == req[w].callback
        available == {window.target, window.lastRouted} \intersect activeEndpoints
    IN
    /\ At(w, "endpoint")
    /\ \/ \E e \in available :
             Continue(w, [req[w] EXCEPT !.pc = "reloadCallback", !.target = e,
                                        !.reason = "matched_active_callback",
                                        !.callback = CallbackRouted(window, m, e)])
       \/ available = {} /\ Reject(w, "no_available_endpoint", req[w].callbackRef, window)
    /\ UNCHANGED <<tables, environment>>

-----------------------------------------------------------------------------
(* POST /webhooks/call-status and /webhooks/recording-ready: the loads.    *)

\* findOne on the call, then assertSessionDirection.
LoadCall(w) ==
    LET m == req[w].msg IN
    /\ At(w, "loadCall")
    /\ \/ m.call \notin DOMAIN callSessions /\ Reply(w, Plain("not_found"))
       \/ /\ m.call \in DOMAIN callSessions
          /\ callSessions[m.call].direction # m.direction
          /\ Reply(w, Plain("event_conflict"))
       \/ /\ m.call \in DOMAIN callSessions
          /\ callSessions[m.call].direction = m.direction
          /\ Continue(w, [req[w] EXCEPT !.call = callSessions[m.call],
                              !.pc = IF m.type = "status" THEN "loadCallback" ELSE "insertEvent"])
    /\ UNCHANGED <<tables, environment>>

\* findOne on the window a status event names, the checks on the target
\* endpoint, then (after the event INSERT, which does not depend on them) the
\* assignments to both entities.  They are private until saved.
LoadCallback(w) ==
    LET m == req[w].msg
        known == m.callback = None \/ m.callback \in DOMAIN callbackSessions
        window == IF m.callback = None THEN None ELSE callbackSessions[m.callback]
        target == TargetFor(m, window, req[w].call)
    IN
    /\ At(w, "loadCallback")
    /\ \/ ~known /\ Reply(w, Plain("not_found"))
       \/ known /\ m.target \notin TenantEndpoints \union {None} /\ Reply(w, Plain("not_found"))
       \/ /\ known /\ m.target \in TenantEndpoints \union {None}
          /\ Continue(w, [req[w] EXCEPT
                 !.pc = "insertEvent",
                 !.call = CallAfter(@, m, target),
                 !.callbackRef = m.callback,
                 !.callback = IF window = None THEN None ELSE CallbackAfter(window, m, target),
                 !.target = target])
    /\ UNCHANGED <<tables, environment>>

-----------------------------------------------------------------------------
(* The statements of the transactions.                                     *)

\* Mutants of StepAfter: a final report saves the window before the call; an
\* inbound decision saves its window again and again.
StepAfterWindowFirst(w, step) ==
    CASE step = "insertEvent" /\ req[w].msg.type # "inbound" ->
             IF ReportedStatus(req[w].msg.name) = "completed" THEN "reloadCallback"
                                                              ELSE "reloadCall"
      [] step = "updateCall" /\ ReportedStatus(req[w].msg.name) # "completed"
             /\ req[w].callback # None -> "reloadCallback"
      [] step = "updateCallback" /\ req[w].msg.type = "inbound" -> "insertEvent"
      [] step = "updateCallback" /\ ReportedStatus(req[w].msg.name) = "completed" -> "reloadCall"
      [] OTHER -> "commit"

StepAfterSavingAgain(w, step) ==
    CASE step = "insertEvent" /\ req[w].msg.type # "inbound" -> "reloadCall"
      [] step \in {"updateCall", "updateCallback"} /\ req[w].callback # None -> "reloadCallback"
      [] OTHER -> "commit"

\* The order of the saves: an inbound decision saves its window and then its
\* events, a status event inserts the event and then saves call and window.
StepAfter(w, step) ==
    CASE step = "insertEvent" /\ req[w].msg.type # "inbound"  -> "reloadCall"
      [] step = "updateCall" /\ req[w].callback # None        -> "reloadCallback"
      [] step = "updateCallback" /\ req[w].msg.type = "inbound" -> "insertEvent"
      [] OTHER                                                -> "commit"

\* Mutant: no unique index.
InsertEventUnchecked(w) ==
    /\ At(w, "insertEvent")
    /\ Continue(w, [req[w] EXCEPT !.inserted = TRUE, !.pc = StepAfter(w, "insertEvent")])
    /\ UNCHANGED <<tables, environment>>

\* INSERT into call_events under uk_call_events_idempotency_key.  It waits for
\* an uncommitted row with the same key; a committed one aborts the
\* transaction, which the controller answers with a retryable 500.  The
\* :matched or :rejected companion of an inbound event goes in with it.
InsertEvent(w) ==
    LET m == req[w].msg IN
    /\ At(w, "insertEvent")
    /\ \A v \in Workers \ {w} : req[v].inserted => KeyOf(req[v].msg) # KeyOf(m)
    /\ \/ RecordedAt(KeyOf(m)) # {} /\ Reply(w, Plain("internal_error"))
       \/ /\ RecordedAt(KeyOf(m)) = {}
          /\ Continue(w, [req[w] EXCEPT !.inserted = TRUE,
                              !.pc = StepAfter(w, "insertEvent")])
    /\ UNCHANGED <<tables, environment>>

\* save(callSession), first half: SELECT the row again and compute the diff.
ReloadCall(w) ==
    /\ At(w, "reloadCall")
    /\ Continue(w, [req[w] EXCEPT !.pc = "updateCall",
                        !.callCols = CallDiff(req[w].call, callSessions[req[w].msg.call])])
    /\ UNCHANGED <<tables, environment>>

CallRowFree(w) ==
    \A v \in Workers \ {w} : req[v].callLock => req[v].msg.call # req[w].msg.call

\* Second half: UPDATE under the row lock.  With no difference in the modelled
\* columns the UPDATE may still be issued, for a column left out of the model.
UpdateCall(w) ==
    /\ At(w, "updateCall")
    /\ \/ req[w].callCols = {} /\ Continue(w, [req[w] EXCEPT !.pc = StepAfter(w, "updateCall")])
       \/ /\ CallRowFree(w)
          /\ Continue(w, [req[w] EXCEPT !.pc = StepAfter(w, "updateCall"), !.callLock = TRUE])
    /\ UNCHANGED <<tables, environment>>

\* save(callbackSession), first half.
ReloadCallback(w) ==
    /\ At(w, "reloadCallback")
    /\ Continue(w, [req[w] EXCEPT !.pc = "updateCallback",
                        !.callbackCols = CallbackDiff(req[w].callback,
                                                      callbackSessions[req[w].callbackRef])])
    /\ UNCHANGED <<tables, environment>>

CallbackRowFree(w) ==
    \A v \in Workers \ {w} : req[v].callbackLock => req[v].callbackRef # req[w].callbackRef

\* The windows whose row would collide with what w writes to
\* uk_callback_sessions_routing_decision, among committed rows.
SameLine(i, j) == /\ callbackSessions[i].did = callbackSessions[j].did
                  /\ callbackSessions[i].remote = callbackSessions[j].remote

WritesRoutingKey(w) ==
    "routingKey" \in req[w].callbackCols /\ req[w].callback.routingKey # None

RoutingKeyTaken(w) ==
    /\ WritesRoutingKey(w)
    /\ \E i \in DOMAIN callbackSessions \ {req[w].callbackRef} :
          SameLine(i, req[w].callbackRef)
            /\ callbackSessions[i].routingKey = req[w].callback.routingKey

\* An open transaction has written, or is overwriting, the same routing key.
RoutingKeyInFlight(w) ==
    /\ WritesRoutingKey(w)
    /\ \E v \in Workers \ {w} :
          /\ req[v].callbackLock /\ "routingKey" \in req[v].callbackCols
          /\ SameLine(req[v].callbackRef, req[w].callbackRef)
          /\ req[w].callback.routingKey
               \in {req[v].callback.routingKey, callbackSessions[req[v].callbackRef].routingKey}

\* Second half: the row lock, then the unique index on the routing decision.
UpdateCallback(w) ==
    /\ At(w, "updateCallback")
    /\ \/ /\ req[w].callbackCols = {}
          /\ Continue(w, [req[w] EXCEPT !.pc = StepAfter(w, "updateCallback")])
       \/ /\ CallbackRowFree(w) /\ ~RoutingKeyInFlight(w)
          /\ IF RoutingKeyTaken(w)
               THEN Reply(w, Plain("internal_error"))
               ELSE Continue(w, [req[w] EXCEPT !.pc = StepAfter(w, "updateCallback"),
                                               !.callbackLock = TRUE])
    /\ UNCHANGED <<tables, environment>>

-----------------------------------------------------------------------------
(* COMMIT.                                                                 *)

Routes(w) == req[w].reason = "matched_active_callback"

\* Mutant: the call names the newest window instead of the matched one.
InboundCallOfNewest(w) ==
    [direction |-> "inbound", callback |-> Len(callbackSessions), endpoint |-> req[w].target,
     status |-> "dispatching", ended |-> FALSE]

\* The row persistInboundRoute inserted.
InboundCall(w) ==
    [direction |-> "inbound", callback |-> req[w].callbackRef, endpoint |-> req[w].target,
     status |-> "dispatching", ended |-> FALSE]

\* The event row the transaction inserted; "call" is the id of its call.
EventOf(w, call) ==
    LET m == req[w].msg IN
    [key |-> KeyOf(m), did |-> m.did, remote |-> m.remote,
     call |-> call,
     callback |-> CASE m.type = "recording"             -> req[w].call.callback
                    [] m.type = "inbound" /\ ~Routes(w) -> None
                    [] OTHER                            -> req[w].callbackRef,
     target |-> IF m.type = "recording" THEN req[w].call.endpoint ELSE req[w].target,
     reason |-> req[w].reason, at |-> m.at]

SavedCalls(w) ==
    IF req[w].callLock
      THEN [callSessions EXCEPT ![req[w].msg.call] =
               CallOverlay(@, req[w].call, req[w].callCols)]
      ELSE callSessions

SavedCallbacks(w) ==
    IF req[w].callbackLock
      THEN [callbackSessions EXCEPT ![req[w].callbackRef] =
               CallbackOverlay(@, req[w].callback, req[w].callbackCols)]
      ELSE callbackSessions

\* Everything the transaction wrote becomes visible and the answer leaves.
Commit(w) ==
    LET m == req[w].msg
        newCall == Len(callSessions) + 1
    IN
    /\ At(w, "commit")
    /\ callbackSessions' = SavedCallbacks(w)
    /\ \/ /\ m.type = "inbound" /\ Routes(w)
          /\ callSessions' = Append(callSessions, InboundCall(w))
          /\ callEvents' = InsertedEvent(EventOf(w, newCall))
          /\ ReplyOrLoseIt(w, Routed(newCall, req[w].callbackRef))
       \/ /\ m.type = "inbound" /\ ~Routes(w)
          /\ callSessions' = callSessions
          /\ callEvents' = InsertedEvent(EventOf(w, None))
          /\ ReplyOrLoseIt(w, Rejected(req[w].reason))
       \/ /\ m.type # "inbound"
          /\ callSessions' = SavedCalls(w)
          /\ callEvents' = InsertedEvent(EventOf(w, m.call))
          /\ ReplyOrLoseIt(w, Plain("applied"))

-----------------------------------------------------------------------------
(* POST /calls/outbound, failures, and the world outside.                  *)

OutboundCalls == {i \in DOMAIN callSessions : callSessions[i].direction = "outbound"}

\* persistOutboundCall: one transaction over rows nobody else can see yet.  The
\* DID and the endpoint were selected earlier, so the endpoint may no longer be
\* active; either may be missing.  MaxOutbound bounds the calls.
CreateOutboundCall(did, remote, target) ==
    LET call == Len(callSessions) + 1
        window == Len(callbackSessions) + 1
        opens == did \in CallbackDids /\ target # None
    IN
    /\ Cardinality(OutboundCalls) < MaxOutbound
    /\ callSessions' = Append(callSessions,
          [direction |-> "outbound", callback |-> IF opens THEN window ELSE None,
           endpoint |-> target, status |-> IF did = None THEN "created" ELSE "dispatching",
           ended |-> FALSE])
    /\ callbackSessions' = IF ~opens THEN callbackSessions ELSE Append(callbackSessions,
          [did |-> did, remote |-> remote, createdAt |-> now, expiresAt |-> now + TTL,
           target |-> target, lastRouted |-> None, status |-> "active",
           matched |-> FALSE, expired |-> FALSE, routingKey |-> None])
    /\ callEvents' = IF did = None THEN callEvents ELSE InsertedEvent(
          [key |-> <<"outbound.accepted", None, call>>, did |-> did, remote |-> remote,
           call |-> call, callback |-> IF opens THEN window ELSE None,
           target |-> target, reason |-> None, at |-> now])
    /\ UNCHANGED <<req, answers, environment>>

\* Mutant: the failure is swallowed.
FailAcknowledged(w) ==
    /\ ~At(w, "idle") /\ faults < MaxFaults
    /\ faults' = faults + 1
    /\ Reply(w, Plain("applied"))
    /\ UNCHANGED <<tables, assignedDids, activeEndpoints, tenantActive, now>>

\* A statement fails: the transaction rolls back, the controller answers 500.
Fail(w) ==
    /\ ~At(w, "idle") /\ faults < MaxFaults
    /\ faults' = faults + 1
    /\ Reply(w, Plain("internal_error"))
    /\ UNCHANGED <<tables, assignedDids, activeEndpoints, tenantActive, now>>

\* The process dies: every open transaction rolls back, nobody is answered.
Crash ==
    /\ \E w \in Workers : ~At(w, "idle")
    /\ faults < MaxFaults
    /\ faults' = faults + 1
    /\ req' = [w \in Workers |-> Idle]
    /\ UNCHANGED <<tables, answers, assignedDids, activeEndpoints, tenantActive, now>>

Tick == now < MaxTime /\ now' = now + 1
        /\ UNCHANGED <<tables, req, answers, assignedDids, activeEndpoints, tenantActive, faults>>

\* DID assignments, endpoints and the tenant are switched by administration
\* outside this code.
SwitchDid(did) ==
    /\ assignedDids' = IF did \in assignedDids THEN assignedDids \ {did}
                                               ELSE assignedDids \union {did}
    /\ UNCHANGED <<tables, req, answers, activeEndpoints, tenantActive, now, faults>>

SwitchEndpoint(e) ==
    /\ activeEndpoints' = IF e \in activeEndpoints THEN activeEndpoints \ {e}
                                                   ELSE activeEndpoints \union {e}
    /\ UNCHANGED <<tables, req, answers, assignedDids, tenantActive, now, faults>>

SwitchTenant ==
    /\ TenantMayBlock
    /\ tenantActive' = ~tenantActive
    /\ UNCHANGED <<tables, req, answers, assignedDids, activeEndpoints, now, faults>>

\* The steps of a request after its delivery.
Serve(w) ==
    \/ LookupDid(w) \/ SelectCallback(w) \/ ResolveEndpoint(w)
    \/ LoadCall(w) \/ LoadCallback(w)
    \/ InsertEvent(w)
    \/ ReloadCall(w) \/ UpdateCall(w)
    \/ ReloadCallback(w) \/ UpdateCallback(w)
    \/ Commit(w)

Next ==
    \/ \E w \in Workers : \/ \E m \in Messages : Deliver(w, m) \/ DeliverAgain(w, m)
                          \/ Serve(w)
                          \/ Fail(w)
    \/ \E o \in OutboundRequests : CreateOutboundCall(o[1], o[2], o[3])
    \/ Crash
    \/ Tick
    \/ \E d \in SwitchableDids : SwitchDid(d)
    \/ \E e \in SwitchableEndpoints : SwitchEndpoint(e)
    \/ SwitchTenant

Spec == Init /\ [][Next]_vars
=============================================================================
