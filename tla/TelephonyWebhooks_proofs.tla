----------------------- MODULE TelephonyWebhooks_proofs -----------------------
(***************************************************************************)
(* Proofs about the telephony webhooks for every number of workers,        *)
(* messages, calls and windows: type correctness, that no idempotency key  *)
(* is recorded twice, and that what was acknowledged is recorded.          *)
(***************************************************************************)
EXTENDS TelephonyProperties, TLAPS

-----------------------------------------------------------------------------
(* The shape of a request: which of its fields are set, by its position.   *)

Reporting == {"reloadCall", "updateCall", "reloadCallback", "updateCallback"}

\* The event row of the transaction is in the table, uncommitted.
PastInsert(r) == r.pc = "commit" \/ (r.pc \in Reporting /\ r.msg.type # "inbound")

Shape(r) ==
    /\ r.pc = "idle" => r = Idle
    /\ r.pc # "idle" => r.msg \in Messages
    /\ r.pc \in {"lookup", "select", "endpoint"} => r.msg.type = "inbound"
    /\ r.pc = "endpoint" => r.callback \in CallbackRow
    /\ r.pc \in {"loadCall", "loadCallback", "reloadCall", "updateCall"} =>
          r.msg.type # "inbound"
    /\ r.pc = "loadCallback" => r.call \in CallRow
    /\ r.pc \in Reporting \union {"insertEvent", "commit"} /\ r.msg.type # "inbound" =>
          r.call \in CallRow
    /\ r.pc \in Reporting \union {"insertEvent", "commit"} /\ r.msg.type = "status" =>
          r.callbackRef = r.msg.callback /\ r.msg.target \in {None, r.target}
    /\ r.pc \in {"reloadCallback", "updateCallback"} => r.callback \in CallbackRow
    /\ r.callLock => /\ r.pc \in {"reloadCallback", "updateCallback", "commit"}
                     /\ r.msg.type # "inbound" /\ r.call \in CallRow
    /\ r.callbackLock => /\ r.pc = "commit" \/ (r.pc = "insertEvent" /\ r.msg.type = "inbound")
                         /\ r.callback \in CallbackRow
    /\ r.inserted => PastInsert(r)
    /\ PastInsert(r) => r.inserted

TypeInv == TypeOK /\ \A w \in Workers : Shape(req[w])

-----------------------------------------------------------------------------
(* Facts about the data.                                                   *)

LEMMA MessageFields ==
    ASSUME NEW m \in Messages
    PROVE  /\ m.type \in {"inbound", "status", "recording"}
           /\ m.name \in EventName \ {"outbound.accepted"}
           /\ m.pcall \in ProviderCalls
           /\ m.eid \in EventIds \union {None}
           /\ m.did \in Dids
           /\ m.remote \in Remotes
           /\ m.call \in Ref
           /\ m.callback \in Ref
           /\ m.target \in Endpoints \union {None}
           /\ m.ended \in BOOLEAN
           /\ m.at \in Nat
           /\ KeyOf(m) \in Key
  <1>1. m \in Message
    BY ConstantsAssumption DEF ConstantsAssumption
  <1>2. E164Remotes \subseteq Remotes
    BY ConstantsAssumption DEF ConstantsAssumption
  <1>3. /\ m.type \in {"inbound", "status", "recording"}
        /\ m.name \in EventName \ {"outbound.accepted"}
        /\ m.pcall \in ProviderCalls
        /\ m.eid \in EventIds \union {None}
        /\ m.did \in Dids
        /\ m.remote \in E164Remotes
        /\ m.call \in Ref
        /\ m.callback \in Ref
        /\ m.target \in Endpoints \union {None}
        /\ m.ended \in BOOLEAN
        /\ m.at \in Nat
    BY <1>1 DEF Message, Ref, EventName, StatusEvent, OutboundStatusEvent,
                CallbackStatusEvent, RecordingEvent
  <1>. QED BY <1>2, <1>3 DEF KeyOf, Key

\* Adding a row to the event table.
LEMMA AddEvent ==
    ASSUME NEW B, IsABag(B), NEW row
    PROVE  LET C == B (+) SetToBag({row}) IN
           /\ IsABag(C)
           /\ BagToSet(C) = BagToSet(B) \union {row}
           /\ row \notin BagToSet(B) => C[row] = 1
           /\ \A e \in BagToSet(B) \ {row} : C[e] = B[e]
  BY DEF IsABag, BagToSet, SetToBag, (+)

\* The same, said of the event table.
LEMMA InsertedEventType ==
    ASSUME IsABag(callEvents), BagToSet(callEvents) \subseteq EventRow, NEW row \in EventRow
    PROVE  /\ IsABag(InsertedEvent(row))
           /\ BagToSet(InsertedEvent(row)) \subseteq EventRow
  <1>1. IsABag(InsertedEvent(row)) /\ BagToSet(InsertedEvent(row)) = BagToSet(callEvents) \union {row}
    BY AddEvent DEF InsertedEvent
  <1>. QED BY <1>1

\* Saving a row of a table.
LEMMA SavedRow ==
    ASSUME NEW S, NEW s \in Seq(S), NEW i, NEW row, i \in DOMAIN s => row \in S
    PROVE  /\ [s EXCEPT ![i] = row] \in Seq(S)
           /\ Len([s EXCEPT ![i] = row]) = Len(s)
  <1>. DEFINE t == [s EXCEPT ![i] = row]
  <1>1. DOMAIN t = 1 .. Len(s) /\ \A j \in 1 .. Len(s) : t[j] \in S
    OBVIOUS
  <1>2. Len(s) \in Nat
    OBVIOUS
  <1>3. t \in [1 .. Len(s) -> S]
    BY <1>1
  <1>. QED BY <1>2, <1>3

LEMMA WindowAfterType ==
    ASSUME NEW current \in CallbackStatus, NEW name
    PROVE  WindowAfter(current, name) \in CallbackStatus
  BY DEF WindowAfter, CallbackStatus

LEMMA StatusAfterType ==
    ASSUME NEW current \in CallStatus, NEW name
    PROVE  StatusAfter(current, name) \in CallStatus
  BY DEF StatusAfter, ReportedStatus, CallStatus

LEMMA CallAfterType ==
    ASSUME NEW call \in CallRow, NEW m \in Messages, NEW target \in Endpoints \union {None}
    PROVE  CallAfter(call, m, target) \in CallRow
  <1>1. StatusAfter(call.status, m.name) \in CallStatus
    BY StatusAfterType DEF CallRow
  <1>. QED BY <1>1, MessageFields DEF CallAfter, CallRow

LEMMA WindowTypes ==
    ASSUME NEW window \in CallbackRow, NEW m \in Messages,
           NEW target \in Endpoints \union {None}
    PROVE  /\ CallbackAfter(window, m, target) \in CallbackRow
           /\ CallbackRouted(window, m, target) \in CallbackRow
           /\ CallbackExpired(window, m) \in CallbackRow
  <1>1. WindowAfter(window.status, m.name) \in CallbackStatus
    BY WindowAfterType DEF CallbackRow
  <1>2. CallbackAfter(window, m, target) \in CallbackRow
    BY <1>1 DEF CallbackAfter, CallbackRow
  <1>3. CallbackRouted(window, m, target) \in CallbackRow
    BY MessageFields DEF CallbackRouted, CallbackRow, CallbackStatus
  <1>4. CallbackExpired(window, m) \in CallbackRow
    BY MessageFields DEF CallbackExpired, CallbackRow, CallbackStatus
  <1>. QED BY <1>2, <1>3, <1>4

\* The payload's target wins; whichever is taken is an endpoint, if any.
LEMMA TargetForType ==
    ASSUME NEW m \in Messages, NEW window \in CallbackRow \union {None}, NEW call \in CallRow
    PROVE  /\ TargetFor(m, window, call) \in Endpoints \union {None}
           /\ m.target \in {None, TargetFor(m, window, call)}
  <1>1. /\ m.target \in Endpoints \union {None}
        /\ call.endpoint \in Endpoints \union {None}
        /\ window # None => window.target \in Endpoints \union {None}
    BY MessageFields DEF CallRow, CallbackRow
  <1>2. CASE m.target # None
    BY <1>1, <1>2 DEF TargetFor
  <1>3. CASE m.target = None /\ window # None /\ window.target # None
    BY <1>1, <1>3 DEF TargetFor
  <1>4. CASE m.target = None /\ ~(window # None /\ window.target # None)
    BY <1>1, <1>4 DEF TargetFor
  <1>. QED BY <1>2, <1>3, <1>4

LEMMA CallOverlayType ==
    ASSUME NEW row \in CallRow, NEW entity \in CallRow, NEW cols
    PROVE  CallOverlay(row, entity, cols) \in CallRow
  BY DEF CallOverlay, CallRow

LEMMA CallbackOverlayType ==
    ASSUME NEW row \in CallbackRow, NEW entity \in CallbackRow, NEW cols
    PROVE  CallbackOverlay(row, entity, cols) \in CallbackRow
  <1>. DEFINE status == IF "status" \in cols THEN entity.status ELSE row.status
              target == IF "target" \in cols THEN entity.target ELSE row.target
              lastRouted == IF "lastRouted" \in cols THEN entity.lastRouted
                                                     ELSE row.lastRouted
              matched == IF "matched" \in cols THEN entity.matched ELSE row.matched
              expired == IF "expired" \in cols THEN entity.expired ELSE row.expired
              routingKey == IF "routingKey" \in cols THEN entity.routingKey
                                                     ELSE row.routingKey
  <1>1. /\ status \in CallbackStatus
        /\ target \in Endpoints \union {None}
        /\ lastRouted \in Endpoints \union {None}
        /\ matched \in BOOLEAN
        /\ expired \in BOOLEAN
        /\ routingKey \in ProviderCalls \union {None}
    BY DEF CallbackRow
  <1>2. CallbackOverlay(row, entity, cols) =
           [row EXCEPT !.status = status, !.target = target, !.lastRouted = lastRouted,
                       !.matched = matched, !.expired = expired, !.routingKey = routingKey]
    BY Zenon DEF CallbackOverlay
  <1>. HIDE DEF status, target, lastRouted, matched, expired, routingKey
  <1>3. [row EXCEPT !.status = status, !.target = target, !.lastRouted = lastRouted,
                    !.matched = matched, !.expired = expired, !.routingKey = routingKey]
           \in CallbackRow
    BY <1>1 DEF CallbackRow
  <1>. QED BY <1>2, <1>3

-----------------------------------------------------------------------------
(* Steps.                                                                  *)

\* A request goes on: only its own record changes.
LEMMA ContinueType ==
    ASSUME TypeInv, NEW w \in Workers, NEW next \in Request, Shape(next),
           Continue(w, next), UNCHANGED <<tables, environment>>
    PROVE  TypeInv'
  <1>1. req' \in [Workers -> Request] /\ \A v \in Workers : Shape(req'[v])
    BY DEF TypeInv, TypeOK, Continue
  <1>. QED BY <1>1 DEF TypeInv, TypeOK, Continue, tables, environment

LEMMA IdleType == Idle \in Request /\ Shape(Idle)
  BY DEF Idle, Request, Shape, PastInsert, Reporting, Ref

\* A request ends with an answer.
LEMMA ReplyType ==
    ASSUME TypeInv, NEW w \in Workers, req[w].pc # "idle", NEW answer \in Answer,
           Reply(w, answer)
    PROVE  /\ req' \in [Workers -> Request]
           /\ \A v \in Workers : Shape(req'[v])
           /\ answers' \in [Messages -> SUBSET Answer]
  <1>1. req[w].msg \in Messages
    BY DEF TypeInv, Shape
  <1>. QED BY <1>1, IdleType DEF TypeInv, TypeOK, Reply

LEMMA AnswerTypes ==
    /\ \A kind \in {"not_found", "event_conflict", "internal_error", "applied", "duplicate"} :
          Plain(kind) \in Answer
    /\ \A reason \in DecisionReason \union {None} : Rejected(reason) \in Answer
    /\ \A call, callback \in Ref : Routed(call, callback) \in Answer
  <1>1. \A kind \in {"not_found", "event_conflict", "internal_error", "applied", "duplicate"} :
          Plain(kind) \in Answer
    BY DEF Plain, Answer, Ref
  <1>2. \A reason \in DecisionReason \union {None} : Rejected(reason) \in Answer
    BY DEF Rejected, Plain, Answer, Ref
  <1>3. \A call, callback \in Ref : Routed(call, callback) \in Answer
    BY DEF Routed, Answer, DecisionReason
  <1>. QED BY <1>1, <1>2, <1>3

LEMMA ReplyStep ==
    ASSUME TypeInv, NEW w \in Workers, req[w].pc # "idle", NEW answer \in Answer,
           Reply(w, answer), UNCHANGED <<tables, environment>>
    PROVE  TypeInv'
  <1>1. /\ req' \in [Workers -> Request]
        /\ \A v \in Workers : Shape(req'[v])
        /\ answers' \in [Messages -> SUBSET Answer]
    BY ReplyType
  <1>. QED BY <1>1 DEF TypeInv, TypeOK, tables, environment

LEMMA DeliverType ==
    ASSUME TypeInv, NEW w \in Workers, NEW m \in Messages, Deliver(w, m)
    PROVE  TypeInv'
  <1>. DEFINE start(pc) == [Idle EXCEPT !.pc = pc, !.msg = m]
  <1>1. m.type \in {"inbound", "status", "recording"}
    BY MessageFields
  <1>2. CASE m.type = "inbound"
    <2>1. start("lookup") \in Request /\ Shape(start("lookup"))
      BY <1>2, IdleType DEF Request, Shape, PastInsert, Reporting, Idle
    <2>. QED BY <1>2, <2>1, ContinueType DEF Deliver
  <1>3. CASE m.type # "inbound"
    <2>1. start("loadCall") \in Request /\ Shape(start("loadCall"))
      BY <1>3, IdleType DEF Request, Shape, PastInsert, Reporting, Idle
    <2>. QED BY <1>3, <2>1, ContinueType DEF Deliver
  <1>. QED BY <1>2, <1>3

LEMMA RecordedType ==
    ASSUME TypeInv, NEW key, NEW event \in RecordedAt(key)
    PROVE  event \in EventRow /\ event \in BagToSet(callEvents) /\ event.key = key
  BY DEF TypeInv, TypeOK, RecordedAt

LEMMA DeliverAgainType ==
    ASSUME TypeInv, NEW w \in Workers, NEW m \in Messages, DeliverAgain(w, m)
    PROVE  TypeInv'
  <1>1. PICK event \in RecordedAt(KeyOf(m)) :
            \E answer \in {Plain("event_conflict"), Plain("duplicate"),
                           Routed(event.call, event.callback), Rejected(event.reason)} :
                answers' = [answers EXCEPT ![m] = @ \union {answer}]
    BY DEF DeliverAgain
  <1>2. event.call \in Ref /\ event.callback \in Ref /\ event.reason \in DecisionReason \union {None}
    BY RecordedType DEF EventRow
  <1>3. PICK answer \in Answer : answers' = [answers EXCEPT ![m] = @ \union {answer}]
    BY <1>1, <1>2, AnswerTypes
  <1>4. answers' \in [Messages -> SUBSET Answer]
    BY <1>3 DEF TypeInv, TypeOK
  <1>. QED BY <1>4 DEF DeliverAgain, TypeInv, TypeOK, tables, environment

LEMMA RejectType ==
    ASSUME TypeInv, NEW w \in Workers, req[w].pc \in {"lookup", "select", "endpoint"},
           NEW reason \in DecisionReason, NEW ref \in Ref,
           NEW window, ref # None => window \in CallbackRow,
           Reject(w, reason, ref, window), UNCHANGED <<tables, environment>>
    PROVE  TypeInv'
  <1>. DEFINE m == req[w].msg
              expire == [req[w] EXCEPT !.pc = "reloadCallback", !.reason = reason,
                            !.callbackRef = ref, !.callback = CallbackExpired(window, m)]
              plain == [req[w] EXCEPT !.pc = "insertEvent", !.reason = reason,
                            !.callbackRef = None, !.callback = None]
  <1>1. /\ req[w] \in Request /\ Shape(req[w])
        /\ m \in Messages /\ m.type = "inbound"
    BY DEF TypeInv, TypeOK, Shape
  <1>2. ~req[w].callLock /\ ~req[w].callbackLock /\ ~req[w].inserted
    BY <1>1 DEF Shape, PastInsert, Reporting
  <1>3. CASE ref # None /\ IsExpired(window, m.at)
    <2>1. CallbackExpired(window, m) \in CallbackRow
      BY <1>1, <1>3, WindowTypes
    <2>3. expire \in Request
      BY <1>1, <2>1 DEF Request
    <2>4. Shape(expire)
      BY <1>1, <1>2, <2>1 DEF Request, Shape, PastInsert, Reporting
    <2>. QED BY <1>3, <2>3, <2>4, ContinueType DEF Reject
  <1>4. CASE ~(ref # None /\ IsExpired(window, m.at))
    <2>1. plain \in Request
      BY <1>1 DEF Request, Ref
    <2>2. Shape(plain)
      BY <1>1, <1>2 DEF Request, Shape, PastInsert, Reporting
    <2>. QED BY <1>4, <2>1, <2>2, ContinueType DEF Reject
  <1>. QED BY <1>3, <1>4

LEMMA LookupDidType ==
    ASSUME TypeInv, NEW w \in Workers, LookupDid(w)
    PROVE  TypeInv'
  <1>. DEFINE next == [req[w] EXCEPT !.pc = "select"]
  <1>1. /\ req[w] \in Request /\ Shape(req[w]) /\ req[w].pc = "lookup"
        /\ req[w].msg \in Messages /\ req[w].msg.type = "inbound"
        /\ UNCHANGED <<tables, environment>>
    BY DEF TypeInv, TypeOK, Shape, LookupDid, At
  <1>2. None \in Ref /\ {"invalid_display_did", "tenant_blocked"} \subseteq DecisionReason
    BY DEF Ref, DecisionReason
  <1>3. CASE Reply(w, Rejected("invalid_display_did"))
    BY <1>1, <1>2, <1>3, AnswerTypes, ReplyStep
  <1>4. CASE Reject(w, "tenant_blocked", None, None)
    BY <1>1, <1>2, <1>4, RejectType
  <1>5. CASE Continue(w, next)
    <2>1. next \in Request
      BY <1>1 DEF Request
    <2>2. Shape(next)
      BY <1>1 DEF Request, Shape, PastInsert, Reporting
    <2>. QED BY <1>1, <1>5, <2>1, <2>2, ContinueType
  <1>. QED BY <1>3, <1>4, <1>5 DEF LookupDid

LEMMA SelectCallbackType ==
    ASSUME TypeInv, NEW w \in Workers, SelectCallback(w)
    PROVE  TypeInv'
  <1>. DEFINE m == req[w].msg
  <1>1. /\ req[w] \in Request /\ Shape(req[w]) /\ req[w].pc = "select"
        /\ m \in Messages /\ m.type = "inbound"
        /\ UNCHANGED <<tables, environment>>
    BY DEF TypeInv, TypeOK, Shape, SelectCallback, At
  <1>2. ~req[w].callLock /\ ~req[w].callbackLock /\ ~req[w].inserted
    BY <1>1 DEF Shape, PastInsert, Reporting
  <1>3. \A i \in DOMAIN callbackSessions : i \in Nat /\ callbackSessions[i] \in CallbackRow
    BY DEF TypeInv, TypeOK
  <1>4. None \in Ref /\ \A i \in Nat : i \in Ref /\ i # None
    BY ConstantsAssumption DEF ConstantsAssumption, Ref
  <1>5. {"callback_expired", "callback_not_found"} \subseteq DecisionReason
    BY DEF DecisionReason
  <1>6. CASE \E i \in Newest(LiveWindows(m)) :
                Continue(w, [req[w] EXCEPT !.pc = "endpoint", !.callbackRef = i,
                                           !.callback = callbackSessions[i]])
    <2>1. PICK i \in DOMAIN callbackSessions :
                Continue(w, [req[w] EXCEPT !.pc = "endpoint", !.callbackRef = i,
                                           !.callback = callbackSessions[i]])
      BY <1>6 DEF Newest, LiveWindows, Matching
    <2>. DEFINE next == [req[w] EXCEPT !.pc = "endpoint", !.callbackRef = i,
                                       !.callback = callbackSessions[i]]
    <2>2. next \in Request
      BY <1>1, <1>3, <1>4 DEF Request
    <2>3. Shape(next)
      BY <1>1, <1>2, <1>3 DEF Request, Shape, PastInsert, Reporting
    <2>. QED BY <1>1, <2>1, <2>2, <2>3, ContinueType
  <1>7. CASE \E i \in Newest(LapsedWindows(m)) :
                Reject(w, "callback_expired", i, callbackSessions[i])
    <2>1. PICK i \in DOMAIN callbackSessions :
                Reject(w, "callback_expired", i, callbackSessions[i])
      BY <1>7 DEF Newest, LapsedWindows, Matching
    <2>. QED BY <1>1, <1>3, <1>4, <1>5, <2>1, RejectType
  <1>8. CASE Reject(w, "callback_not_found", None, None)
    BY <1>1, <1>4, <1>5, <1>8, RejectType
  <1>. QED BY <1>6, <1>7, <1>8 DEF SelectCallback

LEMMA ResolveEndpointType ==
    ASSUME TypeInv, NEW w \in Workers, ResolveEndpoint(w)
    PROVE  TypeInv'
  <1>. DEFINE m == req[w].msg
              window == req[w].callback
              next(e) == [req[w] EXCEPT !.pc = "reloadCallback", !.target = e,
                                        !.reason = "matched_active_callback",
                                        !.callback = CallbackRouted(window, m, e)]
  <1>1. /\ req[w] \in Request /\ Shape(req[w]) /\ req[w].pc = "endpoint"
        /\ m \in Messages /\ m.type = "inbound" /\ window \in CallbackRow
        /\ UNCHANGED <<tables, environment>>
    BY DEF TypeInv, TypeOK, Shape, ResolveEndpoint, At
  <1>2. ~req[w].callLock /\ ~req[w].callbackLock /\ ~req[w].inserted
    BY <1>1 DEF Shape, PastInsert, Reporting
  <1>3. CASE \E e \in {window.target, window.lastRouted} \intersect activeEndpoints :
                 Continue(w, next(e))
    <2>1. PICK e \in activeEndpoints : Continue(w, next(e))
      BY <1>3
    <2>2. e \in Endpoints \union {None}
      BY ConstantsAssumption DEF TypeInv, TypeOK, ConstantsAssumption
    <2>3. CallbackRouted(window, m, e) \in CallbackRow
      BY <1>1, <2>2, WindowTypes
    <2>4. next(e) \in Request
      BY <1>1, <2>2, <2>3 DEF Request, DecisionReason
    <2>5. Shape(next(e))
      BY <1>1, <1>2, <2>3 DEF Request, Shape, PastInsert, Reporting
    <2>. QED BY <1>1, <2>1, <2>4, <2>5, ContinueType
  <1>4. CASE Reject(w, "no_available_endpoint", req[w].callbackRef, window)
    <2>1. req[w].callbackRef \in Ref /\ "no_available_endpoint" \in DecisionReason
      BY <1>1 DEF Request, DecisionReason
    <2>. QED BY <1>1, <1>4, <2>1, RejectType
  <1>. QED BY <1>3, <1>4 DEF ResolveEndpoint

LEMMA LoadCallType ==
    ASSUME TypeInv, NEW w \in Workers, LoadCall(w)
    PROVE  TypeInv'
  <1>. DEFINE m == req[w].msg
              next == [req[w] EXCEPT !.call = callSessions[m.call],
                           !.pc = IF m.type = "status" THEN "loadCallback" ELSE "insertEvent"]
  <1>1. /\ req[w] \in Request /\ Shape(req[w]) /\ req[w].pc = "loadCall"
        /\ m \in Messages /\ m.type # "inbound"
        /\ UNCHANGED <<tables, environment>>
    BY DEF TypeInv, TypeOK, Shape, LoadCall, At
  <1>2. ~req[w].callLock /\ ~req[w].callbackLock /\ ~req[w].inserted
    BY <1>1 DEF Shape, PastInsert, Reporting
  <1>3. CASE Reply(w, Plain("not_found")) \/ Reply(w, Plain("event_conflict"))
    BY <1>1, <1>3, AnswerTypes, ReplyStep
  <1>4. CASE m.call \in DOMAIN callSessions /\ Continue(w, next)
    <2>1. callSessions[m.call] \in CallRow
      BY <1>4 DEF TypeInv, TypeOK
    <2>2. next \in Request
      BY <1>1, <2>1 DEF Request
    <2>3. Shape(next)
      BY <1>1, <1>2, <2>1 DEF Request, Shape, PastInsert, Reporting
    <2>. QED BY <1>1, <1>4, <2>2, <2>3, ContinueType
  <1>. QED BY <1>3, <1>4 DEF LoadCall

LEMMA LoadCallbackType ==
    ASSUME TypeInv, NEW w \in Workers, LoadCallback(w)
    PROVE  TypeInv'
  <1>. DEFINE m == req[w].msg
              window == IF m.callback = None THEN None ELSE callbackSessions[m.callback]
              target == TargetFor(m, window, req[w].call)
              call == CallAfter(req[w].call, m, target)
              callback == IF window = None THEN None ELSE CallbackAfter(window, m, target)
              next == [req[w] EXCEPT !.pc = "insertEvent", !.call = call,
                           !.callbackRef = m.callback, !.callback = callback,
                           !.target = target]
  <1>1. /\ req[w] \in Request /\ Shape(req[w]) /\ req[w].pc = "loadCallback"
        /\ m \in Messages /\ m.type # "inbound" /\ req[w].call \in CallRow
        /\ UNCHANGED <<tables, environment>>
    BY DEF TypeInv, TypeOK, Shape, LoadCallback, At
  <1>2. ~req[w].callLock /\ ~req[w].callbackLock /\ ~req[w].inserted
    BY <1>1 DEF Shape, PastInsert, Reporting
  <1>3. CASE Reply(w, Plain("not_found"))
    BY <1>1, <1>3, AnswerTypes, ReplyStep
  <1>4. CASE /\ m.callback = None \/ m.callback \in DOMAIN callbackSessions
             /\ Continue(w, next)
    <2>1. window = None \/ window \in CallbackRow
      BY <1>4 DEF TypeInv, TypeOK
    <2>2. m.callback \in Ref
      BY <1>1, MessageFields
    <2>3. target \in Endpoints \union {None} /\ m.target \in {None, target}
      BY <1>1, <2>1, TargetForType
    <2>. HIDE DEF target
    <2>4. call \in CallRow
      BY <1>1, <2>3, CallAfterType
    <2>5. callback \in CallbackRow \union {None}
      BY <1>1, <2>1, <2>3, WindowTypes
    <2>. HIDE DEF call, callback
    <2>6. next \in Request
      BY <1>1, <2>2, <2>3, <2>4, <2>5 DEF Request
    <2>7. Shape(next)
      BY <1>1, <1>2, <2>3, <2>4 DEF Request, Shape, PastInsert, Reporting
    <2>. QED BY <1>1, <1>4, <2>6, <2>7, ContinueType
  <1>. QED BY <1>3, <1>4 DEF LoadCallback

LEMMA InsertEventType ==
    ASSUME TypeInv, NEW w \in Workers, InsertEvent(w)
    PROVE  TypeInv'
  <1>. DEFINE next == [req[w] EXCEPT !.inserted = TRUE, !.pc = StepAfter(w, "insertEvent")]
  <1>1. /\ req[w] \in Request /\ Shape(req[w]) /\ req[w].pc = "insertEvent"
        /\ UNCHANGED <<tables, environment>>
    BY DEF TypeInv, TypeOK, InsertEvent, At
  <1>2. CASE Reply(w, Plain("internal_error"))
    BY <1>1, <1>2, AnswerTypes, ReplyStep
  <1>3. CASE Continue(w, next)
    <2>1. next \in Request
      BY <1>1 DEF Request, StepAfter
    <2>2. Shape(next)
      BY <1>1 DEF Request, Shape, PastInsert, Reporting, StepAfter
    <2>. QED BY <1>1, <1>3, <2>1, <2>2, ContinueType
  <1>. QED BY <1>2, <1>3 DEF InsertEvent

LEMMA ReloadCallType ==
    ASSUME TypeInv, NEW w \in Workers, ReloadCall(w)
    PROVE  TypeInv'
  <1>. DEFINE cols == CallDiff(req[w].call, callSessions[req[w].msg.call])
              next == [req[w] EXCEPT !.pc = "updateCall", !.callCols = cols]
  <1>1. /\ req[w] \in Request /\ Shape(req[w]) /\ req[w].pc = "reloadCall"
        /\ Continue(w, next) /\ UNCHANGED <<tables, environment>>
    BY DEF TypeInv, TypeOK, ReloadCall, At
  <1>2. cols \in SUBSET CallColumn
    BY DEF CallDiff
  <1>. HIDE DEF cols
  <1>3. next \in Request
    BY <1>1, <1>2 DEF Request
  <1>4. Shape(next)
    BY <1>1 DEF Request, Shape, PastInsert, Reporting
  <1>. QED BY <1>1, <1>3, <1>4, ContinueType

LEMMA UpdateCallType ==
    ASSUME TypeInv, NEW w \in Workers, UpdateCall(w)
    PROVE  TypeInv'
  <1>. DEFINE unlocked == [req[w] EXCEPT !.pc = StepAfter(w, "updateCall")]
              locked == [req[w] EXCEPT !.pc = StepAfter(w, "updateCall"), !.callLock = TRUE]
  <1>1. /\ req[w] \in Request /\ Shape(req[w]) /\ req[w].pc = "updateCall"
        /\ Continue(w, unlocked) \/ Continue(w, locked)
        /\ UNCHANGED <<tables, environment>>
    BY DEF TypeInv, TypeOK, UpdateCall, At
  <1>2. req[w].msg.type # "inbound" /\ req[w].call \in CallRow
    BY <1>1 DEF Shape, Reporting
  <1>3. req[w].callback # None => req[w].callback \in CallbackRow
    BY <1>1 DEF Request
  <1>4. unlocked \in Request /\ locked \in Request
    BY <1>1 DEF Request, StepAfter
  <1>5. Shape(unlocked) /\ Shape(locked)
    BY <1>1, <1>2, <1>3 DEF Request, Shape, PastInsert, Reporting, StepAfter
  <1>. QED BY <1>1, <1>4, <1>5, ContinueType

LEMMA ReloadCallbackType ==
    ASSUME TypeInv, NEW w \in Workers, ReloadCallback(w)
    PROVE  TypeInv'
  <1>. DEFINE cols == CallbackDiff(req[w].callback, callbackSessions[req[w].callbackRef])
              next == [req[w] EXCEPT !.pc = "updateCallback", !.callbackCols = cols]
  <1>1. /\ req[w] \in Request /\ Shape(req[w]) /\ req[w].pc = "reloadCallback"
        /\ Continue(w, next) /\ UNCHANGED <<tables, environment>>
    BY DEF TypeInv, TypeOK, ReloadCallback, At
  <1>2. cols \in SUBSET CallbackColumn
    BY DEF CallbackDiff
  <1>. HIDE DEF cols
  <1>3. next \in Request
    BY <1>1, <1>2 DEF Request
  <1>4. Shape(next)
    BY <1>1 DEF Request, Shape, PastInsert, Reporting
  <1>. QED BY <1>1, <1>3, <1>4, ContinueType

LEMMA UpdateCallbackType ==
    ASSUME TypeInv, NEW w \in Workers, UpdateCallback(w)
    PROVE  TypeInv'
  <1>. DEFINE unlocked == [req[w] EXCEPT !.pc = StepAfter(w, "updateCallback")]
              locked == [req[w] EXCEPT !.pc = StepAfter(w, "updateCallback"),
                                       !.callbackLock = TRUE]
  <1>1. /\ req[w] \in Request /\ Shape(req[w]) /\ req[w].pc = "updateCallback"
        /\ req[w].callback \in CallbackRow
        /\ UNCHANGED <<tables, environment>>
    BY DEF TypeInv, TypeOK, Shape, UpdateCallback, At
  <1>2. CASE Reply(w, Plain("internal_error"))
    BY <1>1, <1>2, AnswerTypes, ReplyStep
  <1>3. CASE Continue(w, unlocked) \/ Continue(w, locked)
    <2>1. unlocked \in Request /\ locked \in Request
      BY <1>1 DEF Request, StepAfter
    <2>2. Shape(unlocked) /\ Shape(locked)
      BY <1>1 DEF Request, Shape, PastInsert, Reporting, StepAfter
    <2>. QED BY <1>1, <1>3, <2>1, <2>2, ContinueType
  <1>. QED BY <1>2, <1>3 DEF UpdateCallback

\* What a commit writes.
LEMMA EventOfType ==
    ASSUME TypeInv, NEW w \in Workers, At(w, "commit"), NEW call \in Ref
    PROVE  EventOf(w, call) \in EventRow
  <1>. DEFINE m == req[w].msg
              callback == CASE m.type = "recording"              -> req[w].call.callback
                            [] m.type = "inbound" /\ ~Routes(w) -> None
                            [] OTHER                             -> req[w].callbackRef
              target == IF m.type = "recording" THEN req[w].call.endpoint ELSE req[w].target
  <1>1. /\ req[w] \in Request /\ m \in Messages
        /\ m.type = "recording" => req[w].call \in CallRow
    BY DEF TypeInv, TypeOK, Shape, At
  <1>2. None \in Ref
    BY DEF Ref
  <1>3. callback \in Ref
    <2>1. m.type = "recording" => req[w].call.callback \in Ref
      BY <1>1 DEF CallRow
    <2>. QED BY <1>1, <1>2, <2>1 DEF Request
  <1>4. target \in Endpoints \union {None}
    <2>1. m.type = "recording" => req[w].call.endpoint \in Endpoints \union {None}
      BY <1>1 DEF CallRow
    <2>. QED BY <1>1, <2>1 DEF Request
  <1>5. req[w].reason \in DecisionReason \union {None}
    BY <1>1 DEF Request
  <1>6. KeyOf(m) \in Key /\ m.did \in Dids /\ m.remote \in Remotes /\ m.at \in Nat
    BY <1>1, MessageFields
  <1>7. EventOf(w, call) =
           [key |-> KeyOf(m), did |-> m.did, remote |-> m.remote, call |-> call,
            callback |-> callback, target |-> target, reason |-> req[w].reason,
            at |-> m.at]
    BY DEF EventOf
  <1>. HIDE DEF callback, target
  <1>. QED BY <1>3, <1>4, <1>5, <1>6, <1>7 DEF EventRow

LEMMA SavedTypes ==
    ASSUME TypeInv, NEW w \in Workers, At(w, "commit")
    PROVE  /\ SavedCalls(w) \in Seq(CallRow)
           /\ Len(SavedCalls(w)) = Len(callSessions)
           /\ SavedCallbacks(w) \in Seq(CallbackRow)
           /\ Len(SavedCallbacks(w)) = Len(callbackSessions)
  <1>1. /\ callSessions \in Seq(CallRow) /\ callbackSessions \in Seq(CallbackRow)
        /\ req[w].callLock => req[w].call \in CallRow
        /\ req[w].callbackLock => req[w].callback \in CallbackRow
    BY DEF TypeInv, TypeOK, Shape
  <1>2. SavedCalls(w) \in Seq(CallRow) /\ Len(SavedCalls(w)) = Len(callSessions)
    <2>. DEFINE i == req[w].msg.call
                row == CallOverlay(callSessions[i], req[w].call, req[w].callCols)
    <2>1. ASSUME req[w].callLock, i \in DOMAIN callSessions
          PROVE  row \in CallRow
      BY <1>1, <2>1, CallOverlayType
    <2>2. SavedCalls(w) = IF req[w].callLock THEN [callSessions EXCEPT ![i] = row]
                                             ELSE callSessions
      BY DEF SavedCalls
    <2>. HIDE DEF row, i
    <2>. QED BY <1>1, <2>1, <2>2, SavedRow
  <1>3. SavedCallbacks(w) \in Seq(CallbackRow)
          /\ Len(SavedCallbacks(w)) = Len(callbackSessions)
    <2>. DEFINE i == req[w].callbackRef
                row == CallbackOverlay(callbackSessions[i], req[w].callback,
                                       req[w].callbackCols)
    <2>1. ASSUME req[w].callbackLock, i \in DOMAIN callbackSessions
          PROVE  row \in CallbackRow
      BY <1>1, <2>1, CallbackOverlayType
    <2>2. SavedCallbacks(w) = IF req[w].callbackLock THEN [callbackSessions EXCEPT ![i] = row]
                                                     ELSE callbackSessions
      BY DEF SavedCallbacks
    <2>. HIDE DEF row, i
    <2>. QED BY <1>1, <2>1, <2>2, SavedRow
  <1>. QED BY <1>2, <1>3

\* Whether or not the answer of a committed request arrives.
LEMMA ReplyOrLoseItType ==
    ASSUME TypeInv, NEW w \in Workers, At(w, "commit"), NEW answer \in Answer,
           ReplyOrLoseIt(w, answer)
    PROVE  /\ req' = [req EXCEPT ![w] = Idle]
           /\ req' \in [Workers -> Request]
           /\ \A v \in Workers : Shape(req'[v])
           /\ answers' \in [Messages -> SUBSET Answer]
           /\ UNCHANGED <<assignedDids, activeEndpoints, tenantActive, now>>
           /\ faults' \in Nat
  <1>1. CASE Reply(w, answer) /\ UNCHANGED environment
    <2>1. req[w].pc # "idle"
      BY DEF At
    <2>. QED BY <1>1, <2>1, ReplyType DEF Reply, environment, TypeInv, TypeOK
  <1>2. CASE LoseReply(w)
    BY <1>2, IdleType DEF LoseReply, TypeInv, TypeOK
  <1>. QED BY <1>1, <1>2 DEF ReplyOrLoseIt

\* What Commit does, with its three cases taken together.
LEMMA CommitStep ==
    ASSUME TypeInv, NEW w \in Workers, Commit(w)
    PROVE  /\ At(w, "commit")
           /\ callbackSessions' = SavedCallbacks(w)
           /\ \/ callSessions' = Append(callSessions, InboundCall(w))
              \/ callSessions' = SavedCalls(w)
              \/ callSessions' = callSessions
           /\ \E call \in Ref : callEvents' = InsertedEvent(EventOf(w, call))
           /\ \E answer \in Answer : ReplyOrLoseIt(w, answer)
  <1>. DEFINE m == req[w].msg
              newCall == Len(callSessions) + 1
  <1>1. At(w, "commit") /\ callbackSessions' = SavedCallbacks(w)
    BY DEF Commit
  <1>2. /\ m \in Messages /\ req[w] \in Request /\ callSessions \in Seq(CallRow)
    BY <1>1 DEF TypeInv, TypeOK, Shape, At
  <1>3. newCall \in Ref /\ None \in Ref /\ m.call \in Ref /\ req[w].callbackRef \in Ref
    BY <1>2, MessageFields DEF Ref, Request
  <1>4. req[w].reason \in DecisionReason \union {None}
    BY <1>2 DEF Request
  <1>5. CASE /\ callSessions' = Append(callSessions, InboundCall(w))
             /\ callEvents' = InsertedEvent(EventOf(w, newCall))
             /\ ReplyOrLoseIt(w, Routed(newCall, req[w].callbackRef))
    BY <1>1, <1>3, <1>5, AnswerTypes
  <1>6. CASE /\ callSessions' = callSessions
             /\ callEvents' = InsertedEvent(EventOf(w, None))
             /\ ReplyOrLoseIt(w, Rejected(req[w].reason))
    BY <1>1, <1>3, <1>4, <1>6, AnswerTypes
  <1>7. CASE /\ callSessions' = SavedCalls(w)
             /\ callEvents' = InsertedEvent(EventOf(w, m.call))
             /\ ReplyOrLoseIt(w, Plain("applied"))
    BY <1>1, <1>3, <1>7, AnswerTypes
  <1>. QED BY <1>5, <1>6, <1>7 DEF Commit

LEMMA CommitType ==
    ASSUME TypeInv, NEW w \in Workers, Commit(w)
    PROVE  TypeInv'
  <1>1. At(w, "commit")
    BY DEF Commit
  <1>2. callbackSessions' \in Seq(CallbackRow)
    BY <1>1, CommitStep, SavedTypes
  <1>3. callSessions' \in Seq(CallRow)
    <2>1. InboundCall(w) \in CallRow
      BY DEF TypeInv, TypeOK, Request, InboundCall, CallRow, Direction, CallStatus
    <2>2. callSessions \in Seq(CallRow)
      BY DEF TypeInv, TypeOK
    <2>3. Append(callSessions, InboundCall(w)) \in Seq(CallRow)
      BY <2>1, <2>2
    <2>4. SavedCalls(w) \in Seq(CallRow)
      BY <1>1, SavedTypes
    <2>5. \/ callSessions' = Append(callSessions, InboundCall(w))
          \/ callSessions' = SavedCalls(w)
          \/ callSessions' = callSessions
      BY CommitStep
    <2>. QED BY <2>2, <2>3, <2>4, <2>5
  <1>4. IsABag(callEvents') /\ BagToSet(callEvents') \subseteq EventRow
    <2>1. PICK call \in Ref : callEvents' = InsertedEvent(EventOf(w, call))
      BY CommitStep
    <2>2. EventOf(w, call) \in EventRow
      BY <1>1, EventOfType
    <2>. QED BY <2>1, <2>2, InsertedEventType DEF TypeInv, TypeOK
  <1>5. PICK answer \in Answer : ReplyOrLoseIt(w, answer)
    BY CommitStep
  <1>6. /\ req' \in [Workers -> Request]
        /\ \A v \in Workers : Shape(req'[v])
        /\ answers' \in [Messages -> SUBSET Answer]
        /\ UNCHANGED <<assignedDids, activeEndpoints, tenantActive, now>>
        /\ faults' \in Nat
    BY <1>1, <1>5, ReplyOrLoseItType
  <1>. QED BY <1>2, <1>3, <1>4, <1>6 DEF TypeInv, TypeOK

\* What an outbound call adds to the event table.
OutboundEvent(did, remote, target) ==
    [key |-> <<"outbound.accepted", None, Len(callSessions) + 1>>, did |-> did,
     remote |-> remote, call |-> Len(callSessions) + 1,
     callback |-> IF did \in CallbackDids /\ target # None
                    THEN Len(callbackSessions) + 1 ELSE None,
     target |-> target, reason |-> None, at |-> now]

LEMMA CreateOutboundCallType ==
    ASSUME TypeInv, NEW o \in OutboundRequests, CreateOutboundCall(o[1], o[2], o[3])
    PROVE  TypeInv'
  <1>. DEFINE call == Len(callSessions) + 1
              window == Len(callbackSessions) + 1
              opens == o[1] \in CallbackDids /\ o[3] # None
              callback == IF opens THEN window ELSE None
              event == OutboundEvent(o[1], o[2], o[3])
  <1>1. /\ callSessions \in Seq(CallRow) /\ callbackSessions \in Seq(CallbackRow)
        /\ IsABag(callEvents) /\ BagToSet(callEvents) \subseteq EventRow
        /\ now \in Nat
    BY DEF TypeInv, TypeOK
  <1>2. /\ o[1] \in Dids \union {None} /\ o[2] \in Remotes
        /\ o[3] \in Endpoints \union {None}
        /\ CallbackDids \subseteq Dids /\ TTL \in Nat
    BY ConstantsAssumption DEF ConstantsAssumption
  <1>3. call \in Nat /\ call \in Ref /\ callback \in Ref
    BY <1>1 DEF Ref
  <1>4. callSessions' \in Seq(CallRow)
    <2>. DEFINE row == [direction |-> "outbound", callback |-> callback, endpoint |-> o[3],
                        status |-> IF o[1] = None THEN "created" ELSE "dispatching",
                        ended |-> FALSE]
    <2>1. row \in CallRow
      BY <1>2, <1>3 DEF CallRow, Direction, CallStatus
    <2>2. callSessions' = Append(callSessions, row)
      BY DEF CreateOutboundCall
    <2>. HIDE DEF row
    <2>. QED BY <1>1, <2>1, <2>2
  <1>5. callbackSessions' \in Seq(CallbackRow)
    <2>. DEFINE row == [did |-> o[1], remote |-> o[2], createdAt |-> now,
                        expiresAt |-> now + TTL, target |-> o[3], lastRouted |-> None,
                        status |-> "active", matched |-> FALSE, expired |-> FALSE,
                        routingKey |-> None]
    <2>1. opens => row \in CallbackRow
      BY <1>1, <1>2 DEF CallbackRow, CallbackStatus
    <2>2. callbackSessions' = IF ~opens THEN callbackSessions
                                        ELSE Append(callbackSessions, row)
      BY DEF CreateOutboundCall
    <2>. HIDE DEF row
    <2>. QED BY <1>1, <2>1, <2>2
  <1>6. IsABag(callEvents') /\ BagToSet(callEvents') \subseteq EventRow
    <2>1. o[1] # None => event \in EventRow
      BY <1>1, <1>2, <1>3 DEF OutboundEvent, EventRow, Key, EventName
    <2>2. callEvents' = IF o[1] = None THEN callEvents ELSE InsertedEvent(event)
      BY DEF CreateOutboundCall, OutboundEvent
    <2>. HIDE DEF event
    <2>. QED BY <1>1, <2>1, <2>2, InsertedEventType
  <1>7. UNCHANGED <<req, answers, environment>>
    BY DEF CreateOutboundCall
  <1>. QED BY <1>4, <1>5, <1>6, <1>7 DEF TypeInv, TypeOK, environment

LEMMA OutsideType ==
    ASSUME TypeInv,
           \/ \E w \in Workers : Fail(w)
           \/ Crash \/ Tick \/ SwitchTenant
           \/ \E d \in SwitchableDids : SwitchDid(d)
           \/ \E e \in SwitchableEndpoints : SwitchEndpoint(e)
    PROVE  TypeInv'
  <1>1. ASSUME NEW w \in Workers, Fail(w) PROVE TypeInv'
    <2>1. req[w].pc # "idle" /\ Plain("internal_error") \in Answer
      BY <1>1, AnswerTypes DEF Fail, At
    <2>2. /\ req' \in [Workers -> Request]
          /\ \A v \in Workers : Shape(req'[v])
          /\ answers' \in [Messages -> SUBSET Answer]
      BY <1>1, <2>1, ReplyType DEF Fail
    <2>. QED BY <1>1, <2>2 DEF Fail, TypeInv, TypeOK, tables
  <1>2. CASE Crash
    BY <1>2, IdleType DEF Crash, TypeInv, TypeOK, tables
  <1>3. CASE Tick
    BY <1>3 DEF Tick, TypeInv, TypeOK, tables
  <1>4. CASE SwitchTenant
    BY <1>4 DEF SwitchTenant, TypeInv, TypeOK, tables
  <1>5. ASSUME NEW d \in SwitchableDids, SwitchDid(d) PROVE TypeInv'
    <2>1. assignedDids' \in SUBSET Dids
      BY <1>5, ConstantsAssumption DEF SwitchDid, TypeInv, TypeOK, ConstantsAssumption
    <2>. QED BY <1>5, <2>1 DEF SwitchDid, TypeInv, TypeOK, tables
  <1>6. ASSUME NEW e \in SwitchableEndpoints, SwitchEndpoint(e) PROVE TypeInv'
    <2>1. activeEndpoints' \in SUBSET TenantEndpoints
      BY <1>6, ConstantsAssumption DEF SwitchEndpoint, TypeInv, TypeOK, ConstantsAssumption
    <2>. QED BY <1>6, <2>1 DEF SwitchEndpoint, TypeInv, TypeOK, tables
  <1>. QED BY <1>1, <1>2, <1>3, <1>4, <1>5, <1>6

-----------------------------------------------------------------------------
(* Type correctness.                                                       *)

LEMMA InitType == Init => TypeInv
  <1>1. SUFFICES ASSUME Init PROVE TypeInv
    OBVIOUS
  <1>2. IsABag(callEvents) /\ BagToSet(callEvents) = {}
    BY <1>1 DEF Init, EmptyBag, SetToBag, IsABag, BagToSet
  <1>. QED BY <1>1, <1>2, IdleType DEF Init, TypeInv, TypeOK

LEMMA StepType == TypeInv /\ [Next]_vars => TypeInv'
  <1>1. SUFFICES ASSUME TypeInv, [Next]_vars PROVE TypeInv'
    OBVIOUS
  <1>2. ASSUME NEW w \in Workers, NEW m \in Messages, Deliver(w, m) \/ DeliverAgain(w, m)
        PROVE  TypeInv'
    BY <1>1, <1>2, DeliverType, DeliverAgainType
  <1>3. ASSUME NEW w \in Workers, Serve(w) PROVE TypeInv'
    BY <1>1, <1>3, LookupDidType, SelectCallbackType, ResolveEndpointType, LoadCallType, LoadCallbackType,
       InsertEventType, ReloadCallType, UpdateCallType, ReloadCallbackType,
       UpdateCallbackType, CommitType DEF Serve
  <1>4. ASSUME NEW o \in OutboundRequests, CreateOutboundCall(o[1], o[2], o[3])
        PROVE  TypeInv'
    BY <1>1, <1>4, CreateOutboundCallType
  <1>5. CASE UNCHANGED vars
    BY <1>1, <1>5 DEF vars, tables, environment, TypeInv, TypeOK
  <1>. QED BY <1>1, <1>2, <1>3, <1>4, <1>5, OutsideType DEF Next

\* In every behaviour of the webhooks the tables, the requests and the answers
\* have their types, and every request the shape its position says.
THEOREM TypeCorrect == Spec => []TypeOK
  <1>1. TypeInv => TypeOK
    BY DEF TypeInv
  <1>. QED BY InitType, StepType, <1>1, PTL DEF Spec

-----------------------------------------------------------------------------
(* No idempotency key is recorded twice.  The unique index is two guards,  *)
(* on the committed rows and on the open transactions, so the invariant    *)
(* must speak of both; an outbound call takes its key from its row id,     *)
(* which no earlier row has.                                               *)

\* Two open transactions never hold the same key.
KeysInFlightDiffer ==
    \A v, w \in Workers :
        req[v].inserted /\ req[w].inserted /\ KeyOf(req[v].msg) = KeyOf(req[w].msg) => v = w

\* An open transaction holds a key nobody has committed.
KeysInFlightAreNew ==
    \A w \in Workers : req[w].inserted => RecordedAt(KeyOf(req[w].msg)) = {}

\* The keys of outbound calls are the ids of existing calls.
OutboundKeysAreCalls ==
    \A e \in Events : e.key[1] = "outbound.accepted" => e.key[3] \in DOMAIN callSessions

RecordInv == /\ EventsRecordedOnce
             /\ KeysInFlightDiffer
             /\ KeysInFlightAreNew
             /\ OutboundKeysAreCalls

\* A step that neither takes a key nor records one: it may only give keys back.
Quiet ==
    /\ UNCHANGED <<callSessions, callEvents>>
    /\ \A w \in Workers : req'[w].inserted => req[w].inserted /\ req'[w].msg = req[w].msg

LEMMA QuietKeeps == RecordInv /\ Quiet => RecordInv'
  <1>1. SUFFICES ASSUME RecordInv, Quiet PROVE RecordInv'
    OBVIOUS
  <1>2. EventsRecordedOnce' /\ OutboundKeysAreCalls'
    BY <1>1 DEF RecordInv, Quiet, EventsRecordedOnce, OutboundKeysAreCalls, Events
  <1>3. KeysInFlightDiffer'
    BY <1>1 DEF RecordInv, Quiet, KeysInFlightDiffer, KeyOf
  <1>4. KeysInFlightAreNew'
    BY <1>1 DEF RecordInv, Quiet, KeysInFlightAreNew, RecordedAt, KeyOf
  <1>. QED BY <1>2, <1>3, <1>4 DEF RecordInv

\* Going on with the same message and no new key, or ending.
LEMMA ContinueQuiet ==
    ASSUME TypeInv, NEW w \in Workers, NEW next, Continue(w, next),
           next.inserted => req[w].inserted /\ next.msg = req[w].msg,
           UNCHANGED <<tables, environment>>
    PROVE  Quiet
  BY DEF TypeInv, TypeOK, Continue, Quiet, tables

LEMMA EndQuiet ==
    ASSUME TypeInv, NEW w \in Workers, req' = [req EXCEPT ![w] = Idle],
           UNCHANGED tables
    PROVE  Quiet
  BY DEF TypeInv, TypeOK, Quiet, tables, Idle

LEMMA ReplyQuiet ==
    ASSUME TypeInv, NEW w \in Workers, NEW answer, Reply(w, answer), UNCHANGED tables
    PROVE  Quiet
  BY EndQuiet DEF Reply

LEMMA RejectQuiet ==
    ASSUME TypeInv, NEW w \in Workers, NEW reason, NEW ref, NEW window,
           Reject(w, reason, ref, window), UNCHANGED <<tables, environment>>
    PROVE  Quiet
  <1>1. req[w] \in Request
    BY DEF TypeInv, TypeOK
  <1>. DEFINE expire == [req[w] EXCEPT !.pc = "reloadCallback", !.reason = reason,
                            !.callbackRef = ref, !.callback = CallbackExpired(window, req[w].msg)]
              plain == [req[w] EXCEPT !.pc = "insertEvent", !.reason = reason,
                            !.callbackRef = None, !.callback = None]
  <1>2. /\ expire.inserted = req[w].inserted /\ expire.msg = req[w].msg
        /\ plain.inserted = req[w].inserted /\ plain.msg = req[w].msg
    BY <1>1 DEF Request
  <1>3. Continue(w, expire) \/ Continue(w, plain)
    BY DEF Reject
  <1>. QED BY <1>2, <1>3, ContinueQuiet

LEMMA DecisionQuiet ==
    ASSUME TypeInv, NEW w \in Workers,
           LookupDid(w) \/ SelectCallback(w) \/ ResolveEndpoint(w)
    PROVE  Quiet
  <1>1. req[w] \in Request
    BY DEF TypeInv, TypeOK
  <1>2. CASE SelectCallback(w)
    <2>. DEFINE next(i) == [req[w] EXCEPT !.pc = "endpoint", !.callbackRef = i,
                                          !.callback = callbackSessions[i]]
    <2>1. UNCHANGED <<tables, environment>>
      BY <1>2 DEF SelectCallback
    <2>2. ASSUME NEW i, Continue(w, next(i)) PROVE Quiet
      <3>1. next(i).inserted = req[w].inserted /\ next(i).msg = req[w].msg
        BY <1>1 DEF Request
      <3>. HIDE DEF next
      <3>. QED BY <2>1, <2>2, <3>1, ContinueQuiet
    <2>3. ASSUME NEW reason, NEW ref, NEW window, Reject(w, reason, ref, window) PROVE Quiet
      BY <2>1, <2>3, RejectQuiet
    <2>. QED BY <1>2, <2>2, <2>3 DEF SelectCallback
  <1>3. CASE ResolveEndpoint(w)
    <2>. DEFINE next(e) ==
             [req[w] EXCEPT !.pc = "reloadCallback", !.target = e,
                            !.reason = "matched_active_callback",
                            !.callback = CallbackRouted(req[w].callback, req[w].msg, e)]
    <2>1. UNCHANGED <<tables, environment>>
      BY <1>3 DEF ResolveEndpoint
    <2>2. ASSUME NEW e, Continue(w, next(e)) PROVE Quiet
      <3>1. next(e).inserted = req[w].inserted /\ next(e).msg = req[w].msg
        BY <1>1 DEF Request
      <3>. HIDE DEF next
      <3>. QED BY <2>1, <2>2, <3>1, ContinueQuiet
    <2>3. ASSUME NEW reason, NEW ref, NEW window, Reject(w, reason, ref, window) PROVE Quiet
      BY <2>1, <2>3, RejectQuiet
    <2>. QED BY <1>3, <2>2, <2>3 DEF ResolveEndpoint
  <1>4. CASE LookupDid(w)
    <2>. DEFINE next == [req[w] EXCEPT !.pc = "select"]
    <2>1. UNCHANGED <<tables, environment>>
      BY <1>4 DEF LookupDid
    <2>2. next.inserted = req[w].inserted /\ next.msg = req[w].msg
      BY <1>1 DEF Request
    <2>3. CASE Continue(w, next)
      BY <2>1, <2>2, <2>3, ContinueQuiet
    <2>4. CASE Reject(w, "tenant_blocked", None, None)
      BY <2>1, <2>4, RejectQuiet
    <2>5. CASE Reply(w, Rejected("invalid_display_did"))
      BY <2>1, <2>5, ReplyQuiet
    <2>. QED BY <1>4, <2>3, <2>4, <2>5 DEF LookupDid
  <1>. QED BY <1>2, <1>3, <1>4

LEMMA LoadQuiet ==
    ASSUME TypeInv, NEW w \in Workers, LoadCall(w) \/ LoadCallback(w)
    PROVE  Quiet
  <1>1. req[w] \in Request /\ UNCHANGED <<tables, environment>>
    BY DEF TypeInv, TypeOK, LoadCall, LoadCallback
  <1>2. ASSUME NEW answer, Reply(w, answer) PROVE Quiet
    BY <1>1, <1>2, ReplyQuiet
  <1>3. ASSUME NEW pc, NEW call,
               Continue(w, [req[w] EXCEPT !.call = call, !.pc = pc])
        PROVE  Quiet
    <2>. DEFINE next == [req[w] EXCEPT !.call = call, !.pc = pc]
    <2>1. next.inserted = req[w].inserted /\ next.msg = req[w].msg
      BY <1>1 DEF Request
    <2>. HIDE DEF next
    <2>2. Continue(w, next)
      BY <1>3 DEF next
    <2>. QED BY <1>1, <2>1, <2>2, ContinueQuiet
  <1>4. ASSUME NEW pc, NEW call, NEW ref, NEW callback, NEW target,
               Continue(w, [req[w] EXCEPT !.pc = pc, !.call = call, !.callbackRef = ref,
                                          !.callback = callback, !.target = target])
        PROVE  Quiet
    <2>. DEFINE next == [req[w] EXCEPT !.pc = pc, !.call = call, !.callbackRef = ref,
                                       !.callback = callback, !.target = target]
    <2>1. next.inserted = req[w].inserted /\ next.msg = req[w].msg
      BY <1>1 DEF Request
    <2>. HIDE DEF next
    <2>2. Continue(w, next)
      BY <1>4 DEF next
    <2>. QED BY <1>1, <2>1, <2>2, ContinueQuiet
  <1>5. CASE LoadCall(w)
    BY <1>2, <1>3, <1>5 DEF LoadCall
  <1>6. CASE LoadCallback(w)
    BY <1>2, <1>4, <1>6 DEF LoadCallback
  <1>. QED BY <1>5, <1>6

LEMMA SaveQuiet ==
    ASSUME TypeInv, NEW w \in Workers,
           ReloadCall(w) \/ UpdateCall(w) \/ ReloadCallback(w) \/ UpdateCallback(w)
    PROVE  Quiet
  <1>1. req[w] \in Request /\ UNCHANGED <<tables, environment>>
    BY DEF TypeInv, TypeOK, ReloadCall, UpdateCall, ReloadCallback, UpdateCallback
  <1>2. CASE Reply(w, Plain("internal_error"))
    BY <1>1, <1>2, ReplyQuiet
  <1>3. CASE ReloadCall(w)
    <2>. DEFINE next == [req[w] EXCEPT !.pc = "updateCall",
                             !.callCols = CallDiff(req[w].call, callSessions[req[w].msg.call])]
    <2>1. Continue(w, next) /\ next.inserted = req[w].inserted /\ next.msg = req[w].msg
      BY <1>1, <1>3 DEF ReloadCall, Request
    <2>. QED BY <1>1, <2>1, ContinueQuiet
  <1>4. CASE ReloadCallback(w)
    <2>. DEFINE next == [req[w] EXCEPT !.pc = "updateCallback",
                             !.callbackCols = CallbackDiff(req[w].callback,
                                                  callbackSessions[req[w].callbackRef])]
    <2>1. Continue(w, next) /\ next.inserted = req[w].inserted /\ next.msg = req[w].msg
      BY <1>1, <1>4 DEF ReloadCallback, Request
    <2>. QED BY <1>1, <2>1, ContinueQuiet
  <1>5. CASE UpdateCall(w)
    <2>. DEFINE locked == [req[w] EXCEPT !.pc = StepAfter(w, "updateCall"), !.callLock = TRUE]
                unlocked == [req[w] EXCEPT !.pc = StepAfter(w, "updateCall")]
    <2>1. /\ locked.inserted = req[w].inserted /\ locked.msg = req[w].msg
          /\ unlocked.inserted = req[w].inserted /\ unlocked.msg = req[w].msg
      BY <1>1 DEF Request
    <2>2. Continue(w, locked) \/ Continue(w, unlocked)
      BY <1>5 DEF UpdateCall
    <2>. QED BY <1>1, <2>1, <2>2, ContinueQuiet
  <1>6. CASE UpdateCallback(w) /\ ~Reply(w, Plain("internal_error"))
    <2>. DEFINE locked == [req[w] EXCEPT !.pc = StepAfter(w, "updateCallback"),
                                             !.callbackLock = TRUE]
                unlocked == [req[w] EXCEPT !.pc = StepAfter(w, "updateCallback")]
    <2>1. /\ locked.inserted = req[w].inserted /\ locked.msg = req[w].msg
          /\ unlocked.inserted = req[w].inserted /\ unlocked.msg = req[w].msg
      BY <1>1 DEF Request
    <2>2. Continue(w, locked) \/ Continue(w, unlocked)
      BY <1>6 DEF UpdateCallback
    <2>. QED BY <1>1, <2>1, <2>2, ContinueQuiet
  <1>. QED BY <1>2, <1>3, <1>4, <1>5, <1>6

LEMMA OutsideQuiet ==
    ASSUME TypeInv,
           \/ \E w \in Workers : \/ Fail(w)
                                 \/ \E m \in Messages : Deliver(w, m) \/ DeliverAgain(w, m)
           \/ Crash \/ Tick \/ SwitchTenant
           \/ \E d \in SwitchableDids : SwitchDid(d)
           \/ \E e \in SwitchableEndpoints : SwitchEndpoint(e)
    PROVE  Quiet
  <1>1. ASSUME NEW w \in Workers, Fail(w) PROVE Quiet
    BY <1>1, ReplyQuiet DEF Fail
  <1>2. ASSUME NEW w \in Workers, NEW m \in Messages, Deliver(w, m) PROVE Quiet
    <2>. DEFINE next == [Idle EXCEPT !.pc = IF m.type = "inbound" THEN "lookup" ELSE "loadCall",
                                     !.msg = m]
    <2>1. Continue(w, next) /\ ~next.inserted /\ UNCHANGED <<tables, environment>>
      BY <1>2 DEF Deliver, Idle
    <2>. QED BY <2>1, ContinueQuiet
  <1>3. ASSUME NEW w \in Workers, NEW m \in Messages, DeliverAgain(w, m) PROVE Quiet
    BY <1>3 DEF DeliverAgain, Quiet, tables
  <1>4. CASE Crash
    BY <1>4 DEF Crash, Quiet, tables, Idle
  <1>5. CASE Tick \/ SwitchTenant
    BY <1>5 DEF Tick, SwitchTenant, Quiet, tables
  <1>6. ASSUME NEW d, SwitchDid(d) \/ SwitchEndpoint(d) PROVE Quiet
    BY <1>6 DEF SwitchDid, SwitchEndpoint, Quiet, tables
  <1>. QED BY <1>1, <1>2, <1>3, <1>4, <1>5, <1>6

\* The insert takes a key that no row and no open transaction has.
LEMMA InsertEventRecords ==
    ASSUME TypeInv, RecordInv, NEW w \in Workers, InsertEvent(w)
    PROVE  RecordInv'
  <1>. DEFINE m == req[w].msg
              next == [req[w] EXCEPT !.inserted = TRUE, !.pc = StepAfter(w, "insertEvent")]
  <1>1. /\ req \in [Workers -> Request] /\ UNCHANGED tables
        /\ \A v \in Workers \ {w} : req[v].inserted => KeyOf(req[v].msg) # KeyOf(m)
    BY DEF TypeInv, TypeOK, InsertEvent
  <1>2. CASE Reply(w, Plain("internal_error"))
    BY <1>1, <1>2, ReplyQuiet, QuietKeeps
  <1>3. CASE RecordedAt(KeyOf(m)) = {} /\ Continue(w, next)
    <2>1. next.msg = m
      BY <1>1 DEF Request
    <2>. HIDE DEF next
    <2>2. /\ req'[w].msg = m
          /\ \A v \in Workers \ {w} : req'[v] = req[v]
      BY <1>1, <1>3, <2>1 DEF Continue
    <2>3. EventsRecordedOnce' /\ OutboundKeysAreCalls'
      BY <1>1 DEF RecordInv, EventsRecordedOnce, OutboundKeysAreCalls, Events, tables
    <2>4. KeysInFlightDiffer'
      BY <1>1, <2>2 DEF RecordInv, KeysInFlightDiffer, KeyOf
    <2>5. KeysInFlightAreNew'
      BY <1>1, <1>3, <2>2 DEF RecordInv, KeysInFlightAreNew, RecordedAt, KeyOf, tables
    <2>. QED BY <2>3, <2>4, <2>5 DEF RecordInv
  <1>. QED BY <1>2, <1>3 DEF InsertEvent

\* The commit records the key its transaction held, and gives it back.
LEMMA CommitRecords ==
    ASSUME TypeInv, RecordInv, NEW w \in Workers, Commit(w)
    PROVE  RecordInv'
  <1>. DEFINE m == req[w].msg
  <1>1. /\ req \in [Workers -> Request] /\ IsABag(callEvents)
        /\ callSessions \in Seq(CallRow)
        /\ At(w, "commit") /\ req[w].inserted /\ m \in Messages
    BY CommitStep DEF TypeInv, TypeOK, Shape, PastInsert, At
  <1>2. req' = [req EXCEPT ![w] = Idle]
    BY <1>1, CommitStep, ReplyOrLoseItType
  <1>3. PICK call \in Ref : callEvents' = InsertedEvent(EventOf(w, call))
    BY CommitStep
  <1>4. PICK row : row.key = KeyOf(m) /\ callEvents' = InsertedEvent(row)
    BY <1>3 DEF EventOf
  <1>5. /\ Events' = Events \union {row}
        /\ row \notin Events => callEvents'[row] = 1
        /\ \A e \in Events \ {row} : callEvents'[e] = callEvents[e]
    <2>1. IsABag(callEvents) /\ callEvents' = InsertedEvent(row)
      BY <1>1, <1>4
    <2>. QED BY <2>1, AddEvent DEF InsertedEvent, Events
  <1>6. \A e \in Events : e.key # KeyOf(m)
    BY <1>1 DEF RecordInv, KeysInFlightAreNew, RecordedAt, Events
  <1>7. EventsRecordedOnce'
    BY <1>4, <1>5, <1>6 DEF RecordInv, EventsRecordedOnce
  <1>8. /\ \A v \in Workers : req'[v].inserted => v # w /\ req[v].inserted /\ req'[v] = req[v]
    BY <1>1, <1>2 DEF Idle
  <1>9. KeysInFlightDiffer'
    BY <1>8 DEF RecordInv, KeysInFlightDiffer, KeyOf
  <1>10. KeysInFlightAreNew'
    <2>1. ASSUME NEW v \in Workers, req'[v].inserted, NEW e \in Events'
          PROVE  e.key # KeyOf(req'[v].msg)
      <3>1. KeyOf(req[v].msg) # KeyOf(m)
        BY <1>1, <1>8, <2>1 DEF RecordInv, KeysInFlightDiffer
      <3>2. req'[v].msg = req[v].msg
        BY <1>8, <2>1
      <3>3. \A f \in Events : f.key # KeyOf(req[v].msg)
        BY <1>8, <2>1 DEF RecordInv, KeysInFlightAreNew, RecordedAt, Events
      <3>. QED BY <1>4, <1>5, <2>1, <3>1, <3>2, <3>3
    <2>. QED BY <2>1 DEF KeysInFlightAreNew, RecordedAt, Events, KeyOf
  <1>11. OutboundKeysAreCalls'
    <2>1. row.key[1] # "outbound.accepted"
      <3>1. m.name # "outbound.accepted"
        BY <1>1, MessageFields
      <3>2. row.key[1] = m.name
        BY <1>4 DEF KeyOf
      <3>. QED BY <3>1, <3>2
    <2>2. Len(callSessions') >= Len(callSessions) /\ callSessions' \in Seq(CallRow)
      <3>1. Len(SavedCalls(w)) = Len(callSessions)
        BY <1>1, SavedTypes
      <3>2. callSessions' \in Seq(CallRow)
        BY CommitType DEF TypeInv, TypeOK
      <3>. QED BY <1>1, <3>1, <3>2, CommitStep
    <2>. QED BY <1>1, <1>5, <2>1, <2>2 DEF RecordInv, OutboundKeysAreCalls
  <1>. QED BY <1>7, <1>9, <1>10, <1>11 DEF RecordInv

\* An outbound call records the id of its new row.
LEMMA CreateOutboundCallRecords ==
    ASSUME TypeInv, RecordInv, NEW o \in OutboundRequests, CreateOutboundCall(o[1], o[2], o[3])
    PROVE  RecordInv'
  <1>. DEFINE call == Len(callSessions) + 1
              row == OutboundEvent(o[1], o[2], o[3])
  <1>1. /\ callSessions \in Seq(CallRow) /\ IsABag(callEvents)
        /\ req' = req /\ req \in [Workers -> Request]
        /\ \A w \in Workers : req[w].inserted => req[w].msg \in Messages
    BY DEF TypeInv, TypeOK, Shape, PastInsert, Reporting, CreateOutboundCall
  <1>2. DOMAIN callSessions' = DOMAIN callSessions \union {call} /\ call \notin DOMAIN callSessions
    BY <1>1 DEF CreateOutboundCall
  <1>3. callEvents' = IF o[1] = None THEN callEvents ELSE InsertedEvent(row)
    BY DEF CreateOutboundCall, OutboundEvent
  <1>4. row.key = <<"outbound.accepted", None, call>>
    BY DEF OutboundEvent
  <1>. HIDE DEF row, call
  <1>5. \A e \in Events : e.key # row.key
    BY <1>2, <1>4 DEF RecordInv, OutboundKeysAreCalls
  <1>6. Events' \subseteq Events \union {row}
    BY <1>1, <1>3, AddEvent, ZenonT(30) DEF InsertedEvent, Events
  <1>7. EventsRecordedOnce'
    <2>1. CASE o[1] = None
      BY <1>3, <2>1 DEF RecordInv, EventsRecordedOnce, Events
    <2>2. CASE o[1] # None
      <3>1. /\ Events' = Events \union {row}
            /\ row \notin Events => callEvents'[row] = 1
            /\ \A e \in Events \ {row} : callEvents'[e] = callEvents[e]
        BY <1>1, <1>3, <2>2, AddEvent DEF InsertedEvent, Events
      <3>. QED BY <1>5, <3>1 DEF RecordInv, EventsRecordedOnce
    <2>. QED BY <2>1, <2>2
  <1>8. KeysInFlightDiffer'
    BY <1>1 DEF RecordInv, KeysInFlightDiffer, KeyOf
  <1>9. KeysInFlightAreNew'
    <2>1. ASSUME NEW w \in Workers, req'[w].inserted, NEW e \in Events'
          PROVE  e.key # KeyOf(req'[w].msg)
      <3>1. KeyOf(req[w].msg)[1] # "outbound.accepted"
        BY <1>1, <2>1, MessageFields DEF KeyOf
      <3>2. \A f \in Events : f.key # KeyOf(req[w].msg)
        BY <1>1, <2>1 DEF RecordInv, KeysInFlightAreNew, RecordedAt, Events
      <3>3. row.key[1] = "outbound.accepted"
        BY <1>4
      <3>. QED BY <1>1, <1>6, <2>1, <3>1, <3>2, <3>3
    <2>. QED BY <2>1 DEF KeysInFlightAreNew, RecordedAt, Events, KeyOf
  <1>10. OutboundKeysAreCalls'
    BY <1>2, <1>4, <1>6 DEF RecordInv, OutboundKeysAreCalls
  <1>. QED BY <1>7, <1>8, <1>9, <1>10 DEF RecordInv

LEMMA InitRecords == Init => RecordInv
  <1>1. SUFFICES ASSUME Init PROVE RecordInv
    OBVIOUS
  <1>2. Events = {}
    BY <1>1 DEF Init, EmptyBag, SetToBag, BagToSet, Events
  <1>3. \A w \in Workers : ~req[w].inserted
    BY <1>1 DEF Init, Idle
  <1>. QED BY <1>2, <1>3 DEF RecordInv, EventsRecordedOnce, KeysInFlightDiffer,
                             KeysInFlightAreNew, OutboundKeysAreCalls

LEMMA StepRecords == TypeInv /\ RecordInv /\ [Next]_vars => RecordInv'
  <1>1. SUFFICES ASSUME TypeInv, RecordInv, [Next]_vars PROVE RecordInv'
    OBVIOUS
  <1>2. ASSUME NEW w \in Workers, Serve(w) PROVE RecordInv'
    BY <1>1, <1>2, DecisionQuiet, LoadQuiet, SaveQuiet, QuietKeeps, InsertEventRecords,
       CommitRecords DEF Serve
  <1>3. ASSUME NEW o \in OutboundRequests, CreateOutboundCall(o[1], o[2], o[3])
        PROVE  RecordInv'
    BY <1>1, <1>3, CreateOutboundCallRecords
  <1>4. CASE UNCHANGED vars
    BY <1>1, <1>4, QuietKeeps DEF vars, tables, Quiet
  <1>. QED BY <1>1, <1>2, <1>3, <1>4, OutsideQuiet, QuietKeeps DEF Next

\* However many workers serve however many deliveries of the same messages,
\* and whatever crashes or fails, no idempotency key is recorded twice.
THEOREM RecordedOnce == Spec => []EventsRecordedOnce
  <1>1. RecordInv => EventsRecordedOnce
    BY DEF RecordInv
  <1>2. Init => TypeInv /\ RecordInv
    BY InitType, InitRecords
  <1>3. TypeInv /\ RecordInv /\ [Next]_vars => (TypeInv /\ RecordInv)'
    BY StepType, StepRecords
  <1>. QED BY <1>1, <1>2, <1>3, PTL DEF Spec

-----------------------------------------------------------------------------
(* What was acknowledged is in the tables.  Rows are never taken back, so   *)
(* it is enough that an answer is justified when it leaves: by the commit   *)
(* that inserts its event, or by an event found later.                      *)

\* AcknowledgedIsRecorded, said of one answer.
Justified(m, a) ==
    /\ a.kind \in Accepted /\ a.reason # "invalid_display_did" =>
          \E e \in RecordedAt(KeyOf(m)) : Consistent(e, m)
    /\ a.kind = "routed" =>
          a.call \in Calls /\ callSessions[a.call].callback = a.callback

\* A routing event names a call, and the window that the call names.
RoutesNameCalls ==
    \A e \in Events : IsRouteEvent(e) =>
        e.call \in Calls /\ callSessions[e.call].callback = e.callback

AckInv == AcknowledgedIsRecorded /\ RoutesNameCalls

\* Events stay, and so do calls and the windows they name.
TablesGrow ==
    /\ Events \subseteq Events'
    /\ \A c \in Calls : c \in Calls' /\ callSessions'[c].callback = callSessions[c].callback

LEMMA JustifiedGrows ==
    ASSUME TablesGrow, NEW m, NEW a, Justified(m, a)
    PROVE  Justified(m, a)'
  BY DEF TablesGrow, Justified, RecordedAt, Events, Consistent, KeyOf

\* Steps that leave the tables alone.
LEMMA SameTables ==
    ASSUME UNCHANGED tables
    PROVE  TablesGrow /\ (RoutesNameCalls => RoutesNameCalls')
  BY DEF tables, TablesGrow, RoutesNameCalls, Events, Calls

\* Steps that give no answer, and steps that give one.
LEMMA NoAnswer ==
    ASSUME AcknowledgedIsRecorded, TablesGrow, answers' = answers
    PROVE  AcknowledgedIsRecorded'
  <1>1. SUFFICES ASSUME NEW m \in Messages, NEW a \in answers'[m]
                 PROVE  Justified(m, a)'
    BY DEF AcknowledgedIsRecorded, Justified
  <1>2. Justified(m, a)
    BY <1>1 DEF AcknowledgedIsRecorded, Justified
  <1>. QED BY <1>2, JustifiedGrows

LEMMA OneAnswer ==
    ASSUME AcknowledgedIsRecorded, TablesGrow, answers \in [Messages -> SUBSET Answer],
           NEW m \in Messages, NEW answer, Justified(m, answer)',
           answers' = [answers EXCEPT ![m] = @ \union {answer}]
    PROVE  AcknowledgedIsRecorded'
  <1>1. SUFFICES ASSUME NEW n \in Messages, NEW a \in answers'[n]
                 PROVE  Justified(n, a)'
    BY DEF AcknowledgedIsRecorded, Justified
  <1>2. CASE n = m /\ a = answer
    BY <1>2
  <1>3. CASE ~(n = m /\ a = answer)
    <2>1. a \in answers[n]
      BY <1>1, <1>3
    <2>2. Justified(n, a)
      BY <2>1 DEF AcknowledgedIsRecorded, Justified
    <2>. QED BY <2>2, JustifiedGrows
  <1>. QED BY <1>2, <1>3

LEMMA ContinueAck ==
    ASSUME AckInv, NEW w, NEW next, Continue(w, next), UNCHANGED <<tables, environment>>
    PROVE  AckInv'
  BY SameTables, NoAnswer DEF AckInv, Continue

\* An answer that acknowledges nothing, and the one that leaves no event.
LEMMA RefusalAck ==
    ASSUME TypeInv, AckInv, NEW w \in Workers, req[w].pc # "idle", NEW answer,
           \/ answer.kind \in {"not_found", "event_conflict", "internal_error"}
           \/ answer.kind = "rejected" /\ answer.reason = "invalid_display_did",
           Reply(w, answer), UNCHANGED tables
    PROVE  AckInv'
  <1>1. answers \in [Messages -> SUBSET Answer]
    BY DEF TypeInv, TypeOK
  <1>2. PICK m \in Messages : answers' = [answers EXCEPT ![m] = @ \union {answer}]
    BY DEF TypeInv, Shape, Reply
  <1>3. Justified(m, answer)'
    BY DEF Justified, Accepted
  <1>4. TablesGrow /\ AcknowledgedIsRecorded /\ RoutesNameCalls'
    BY SameTables DEF AckInv
  <1>5. AcknowledgedIsRecorded'
    BY <1>1, <1>2, <1>3, <1>4, OneAnswer
  <1>. QED BY <1>4, <1>5 DEF AckInv

LEMMA DeliverAgainAck ==
    ASSUME TypeInv, AckInv, NEW w \in Workers, NEW m \in Messages, DeliverAgain(w, m)
    PROVE  AckInv'
  <1>1. /\ UNCHANGED tables /\ answers \in [Messages -> SUBSET Answer]
        /\ m.type \in {"inbound", "status", "recording"}
        /\ m.type = "inbound" => m.name = "inbound.received"
    <2>1. m \in Message
      BY ConstantsAssumption DEF ConstantsAssumption
    <2>2. m.type = "inbound" => m.name = "inbound.received"
      BY <2>1 DEF Message
    <2>. QED BY <2>2, MessageFields DEF DeliverAgain, TypeInv, TypeOK
  <1>. DEFINE answerOf(event) ==
           IF ~Consistent(event, m) THEN Plain("event_conflict")
           ELSE IF m.type # "inbound" THEN Plain("duplicate")
           ELSE IF event.call # None THEN Routed(event.call, event.callback)
           ELSE Rejected(event.reason)
  <1>2. PICK event \in RecordedAt(KeyOf(m)) :
            answers' = [answers EXCEPT ![m] = @ \union {answerOf(event)}]
    BY DEF DeliverAgain
  <1>3. event \in Events /\ event.key = KeyOf(m)
    BY <1>2 DEF RecordedAt, Events
  <1>. DEFINE answer == answerOf(event)
  <1>4. Justified(m, answer)
    <2>1. CASE ~Consistent(event, m)
      <3>1. answer = Plain("event_conflict")
        BY <2>1
      <3>. QED BY <3>1 DEF Justified, Plain, Accepted
    <2>2. CASE Consistent(event, m) /\ m.type = "inbound" /\ event.call # None
      <3>1. answer = Routed(event.call, event.callback)
        BY <2>2
      <3>2. IsRouteEvent(event)
        BY <1>1, <1>3, <2>2 DEF IsRouteEvent, KeyOf
      <3>. HIDE DEF answer
      <3>. QED BY <1>2, <1>3, <2>2, <3>1, <3>2 DEF Justified, Routed, AckInv, RoutesNameCalls
    <2>3. CASE Consistent(event, m) /\ ~(m.type = "inbound" /\ event.call # None)
      <3>1. answer = Plain("duplicate") \/ answer = Rejected(event.reason)
        BY <2>3
      <3>2. answer.kind # "routed"
        BY <3>1 DEF Plain, Rejected
      <3>. HIDE DEF answer
      <3>. QED BY <1>2, <2>3, <3>2 DEF Justified
    <2>. QED BY <2>1, <2>2, <2>3
  <1>. HIDE DEF answer
  <1>5. Justified(m, answer)'
    BY <1>1, <1>4, SameTables, JustifiedGrows
  <1>6. answers' = [answers EXCEPT ![m] = @ \union {answer}]
    BY <1>2 DEF answer
  <1>7. TablesGrow /\ AcknowledgedIsRecorded /\ RoutesNameCalls'
    BY <1>1, SameTables DEF AckInv
  <1>8. AcknowledgedIsRecorded'
    BY <1>1, <1>5, <1>6, <1>7, OneAnswer
  <1>. QED BY <1>7, <1>8 DEF AckInv

\* What a commit does to the tables: rows stay, the new event is consistent with
\* its message, and a route's event names the new call.
LEMMA CommitGrows ==
    ASSUME TypeInv, AckInv, NEW w \in Workers, Commit(w)
    PROVE  TablesGrow /\ RoutesNameCalls'
  <1>. DEFINE m == req[w].msg
              newCall == Len(callSessions) + 1
  <1>1. /\ At(w, "commit") /\ IsABag(callEvents) /\ callSessions \in Seq(CallRow)
        /\ m \in Messages
    BY CommitStep DEF TypeInv, TypeOK, Shape, At
  <1>2. \A c \in Calls : SavedCalls(w)[c].callback = callSessions[c].callback
    BY <1>1 DEF Calls, SavedCalls, CallOverlay, CallRow
  <1>3. \A c \in Calls : c \in Calls' /\ callSessions'[c].callback = callSessions[c].callback
    <2>1. CASE callSessions' = Append(callSessions, InboundCall(w))
      BY <1>1, <2>1 DEF Calls
    <2>2. CASE callSessions' = SavedCalls(w)
      BY <1>1, <1>2, <2>2, SavedTypes DEF Calls
    <2>3. CASE callSessions' = callSessions
      BY <2>3 DEF Calls
    <2>. QED BY <2>1, <2>2, <2>3, CommitStep
  <1>4. PICK row : /\ Events' = Events \union {row}
                   /\ IsRouteEvent(row) =>
                         row.call \in Calls' /\ callSessions'[row.call].callback = row.callback
    <2>1. ASSUME NEW call, callEvents' = InsertedEvent(EventOf(w, call)),
                 IsRouteEvent(EventOf(w, call)) =>
                    /\ EventOf(w, call).call \in Calls'
                    /\ callSessions'[EventOf(w, call).call].callback = EventOf(w, call).callback
          PROVE  \E row : /\ Events' = Events \union {row}
                          /\ IsRouteEvent(row) =>
                                /\ row.call \in Calls'
                                /\ callSessions'[row.call].callback = row.callback
      <3>1. PICK row : row = EventOf(w, call)
        OBVIOUS
      <3>2. callEvents' = InsertedEvent(row)
        BY <2>1, <3>1
      <3>3. Events' = Events \union {row}
        BY <1>1, <3>2, AddEvent DEF InsertedEvent, Events
      <3>. QED BY <2>1, <3>1, <3>3
    <2>2. CASE /\ m.type = "inbound" /\ Routes(w)
               /\ callSessions' = Append(callSessions, InboundCall(w))
               /\ callEvents' = InsertedEvent(EventOf(w, newCall))
      <3>1. EventOf(w, newCall).call = newCall /\ EventOf(w, newCall).callback = req[w].callbackRef
        BY <2>2 DEF EventOf
      <3>2. newCall \in Calls' /\ callSessions'[newCall] = InboundCall(w)
        BY <1>1, <2>2 DEF Calls
      <3>3. callSessions'[newCall].callback = req[w].callbackRef
        BY <3>2 DEF InboundCall
      <3>. QED BY <2>1, <2>2, <3>1, <3>2, <3>3
    <2>3. CASE callEvents' = InsertedEvent(EventOf(w, None))
      <3>1. ~IsRouteEvent(EventOf(w, None))
        BY DEF EventOf, IsRouteEvent
      <3>. QED BY <2>1, <2>3, <3>1
    <2>4. CASE m.type # "inbound" /\ callEvents' = InsertedEvent(EventOf(w, m.call))
      <3>1. m \in Message
        BY <1>1, ConstantsAssumption DEF ConstantsAssumption
      <3>2. m.name # "inbound.received"
        BY <2>4, <3>1 DEF Message, StatusEvent, OutboundStatusEvent, CallbackStatusEvent,
                          RecordingEvent
      <3>3. ~IsRouteEvent(EventOf(w, m.call))
        BY <3>2 DEF EventOf, IsRouteEvent, KeyOf
      <3>. QED BY <2>1, <2>4, <3>3
    <2>. QED BY <2>2, <2>3, <2>4 DEF Commit
  <1>5. TablesGrow
    BY <1>3, <1>4 DEF TablesGrow
  <1>6. RoutesNameCalls'
    <2>1. ASSUME NEW e \in Events', IsRouteEvent(e)
          PROVE  e.call \in Calls' /\ callSessions'[e.call].callback = e.callback
      <3>1. CASE e = row
        BY <1>4, <2>1, <3>1
      <3>2. CASE e \in Events
        BY <1>3, <2>1, <3>2 DEF AckInv, RoutesNameCalls
      <3>. QED BY <1>4, <2>1, <3>1, <3>2
    <2>. QED BY <2>1 DEF RoutesNameCalls, IsRouteEvent
  <1>. QED BY <1>5, <1>6

\* The event a commit inserts is one its message finds again.
LEMMA EventOfConsistent ==
    ASSUME TypeInv, NEW w \in Workers, At(w, "commit"), NEW call,
           req[w].msg.type # "inbound" => call = req[w].msg.call
    PROVE  /\ EventOf(w, call).key = KeyOf(req[w].msg)
           /\ Consistent(EventOf(w, call), req[w].msg)
  <1>1. EventOf(w, call).key = KeyOf(req[w].msg)
    BY DEF EventOf
  <1>2. EventOf(w, call).did = req[w].msg.did /\ EventOf(w, call).remote = req[w].msg.remote
    BY DEF EventOf
  <1>3. EventOf(w, call).call = call
    BY DEF EventOf
  <1>4. req[w].msg.type = "status" =>
            /\ EventOf(w, call).callback = req[w].msg.callback
            /\ req[w].msg.target \in {None, EventOf(w, call).target}
    <2>1. req[w].msg.type = "status" =>
              /\ req[w].callbackRef = req[w].msg.callback
              /\ req[w].msg.target \in {None, req[w].target}
      BY DEF TypeInv, Shape, At
    <2>. QED BY <2>1 DEF EventOf
  <1>. QED BY <1>1, <1>2, <1>3, <1>4 DEF Consistent

\* A commit answers only after its event is in the table; a lost answer counts
\* for nothing.
LEMMA CommitAnswer ==
    ASSUME TypeInv, AckInv, NEW w \in Workers, Commit(w), NEW call, NEW answer,
           callEvents' = InsertedEvent(EventOf(w, call)),
           req[w].msg.type # "inbound" => call = req[w].msg.call,
           answer.kind = "routed" =>
              answer.call \in Calls' /\ callSessions'[answer.call].callback = answer.callback,
           ReplyOrLoseIt(w, answer)
    PROVE  AckInv'
  <1>1. /\ At(w, "commit") /\ IsABag(callEvents) /\ req[w].msg \in Messages
        /\ answers \in [Messages -> SUBSET Answer]
    BY CommitStep DEF TypeInv, TypeOK, Shape, At
  <1>2. AcknowledgedIsRecorded /\ TablesGrow /\ RoutesNameCalls'
    BY CommitGrows DEF AckInv
  <1>3. PICK m \in Messages : m = req[w].msg
    BY <1>1
  <1>4. PICK row : row = EventOf(w, call)
    OBVIOUS
  <1>5. row.key = KeyOf(m) /\ Consistent(row, m)
    BY <1>1, <1>3, <1>4, EventOfConsistent
  <1>6. row \in Events'
    <2>1. callEvents' = InsertedEvent(row)
      BY <1>4
    <2>2. IsABag(callEvents)
      BY <1>1
    <2>3. Events' = Events \union {row}
      BY <2>1, <2>2, AddEvent DEF InsertedEvent, Events
    <2>. QED BY <2>3
  <1>7. Justified(m, answer)'
    BY <1>5, <1>6 DEF Justified, RecordedAt, Events, Consistent, KeyOf
  <1>8. CASE Reply(w, answer)
    <2>1. answers' = [answers EXCEPT ![m] = @ \union {answer}]
      BY <1>3, <1>8 DEF Reply
    <2>2. AcknowledgedIsRecorded'
      BY <1>1, <1>2, <1>7, <2>1, OneAnswer
    <2>. QED BY <1>2, <2>2 DEF AckInv
  <1>9. CASE LoseReply(w)
    <2>1. answers' = answers
      BY <1>9 DEF LoseReply
    <2>2. AcknowledgedIsRecorded'
      BY <1>2, <2>1, NoAnswer
    <2>. QED BY <1>2, <2>2 DEF AckInv
  <1>. QED BY <1>8, <1>9 DEF ReplyOrLoseIt

LEMMA CommitAck ==
    ASSUME TypeInv, AckInv, NEW w \in Workers, Commit(w)
    PROVE  AckInv'
  <1>. DEFINE m == req[w].msg
              newCall == Len(callSessions) + 1
  <1>1. CASE /\ m.type = "inbound"
             /\ callSessions' = Append(callSessions, InboundCall(w))
             /\ callEvents' = InsertedEvent(EventOf(w, newCall))
             /\ ReplyOrLoseIt(w, Routed(newCall, req[w].callbackRef))
    <2>1. callSessions \in Seq(CallRow)
      BY DEF TypeInv, TypeOK
    <2>2. newCall \in Calls' /\ callSessions'[newCall] = InboundCall(w)
      BY <1>1, <2>1 DEF Calls
    <2>3. callSessions'[newCall].callback = req[w].callbackRef
      BY <2>2 DEF InboundCall
    <2>4. /\ Routed(newCall, req[w].callbackRef).call = newCall
          /\ Routed(newCall, req[w].callbackRef).callback = req[w].callbackRef
      BY DEF Routed
    <2>. QED BY <1>1, <2>2, <2>3, <2>4, CommitAnswer
  <1>2. CASE /\ m.type = "inbound"
             /\ callEvents' = InsertedEvent(EventOf(w, None))
             /\ ReplyOrLoseIt(w, Rejected(req[w].reason))
    <2>1. Rejected(req[w].reason).kind # "routed"
      BY DEF Rejected, Plain
    <2>. QED BY <1>2, <2>1, CommitAnswer
  <1>3. CASE /\ callEvents' = InsertedEvent(EventOf(w, m.call))
             /\ ReplyOrLoseIt(w, Plain("applied"))
    <2>1. Plain("applied").kind # "routed"
      BY DEF Plain
    <2>. QED BY <1>3, <2>1, CommitAnswer
  <1>. QED BY <1>1, <1>2, <1>3 DEF Commit

\* Every other statement goes on, or ends with an answer that acknowledges
\* nothing.
LEMMA ServeAck ==
    ASSUME TypeInv, AckInv, NEW w \in Workers, Serve(w), ~Commit(w)
    PROVE  AckInv'
  <1>1. UNCHANGED <<tables, environment>>
    BY DEF Serve, LookupDid, SelectCallback, ResolveEndpoint, LoadCall, LoadCallback,
           InsertEvent, ReloadCall, UpdateCall, ReloadCallback, UpdateCallback
  <1>2. req[w].pc # "idle"
    BY DEF Serve, LookupDid, SelectCallback, ResolveEndpoint, LoadCall, LoadCallback,
           InsertEvent, ReloadCall, UpdateCall, ReloadCallback, UpdateCallback, At
  <1>3. \/ \E next : Continue(w, next)
        \/ Reply(w, Rejected("invalid_display_did"))
        \/ \E kind \in {"not_found", "event_conflict", "internal_error"} :
              Reply(w, Plain(kind))
    <2>1. ASSUME NEW reason, NEW ref, NEW window, Reject(w, reason, ref, window)
          PROVE  \E next : Continue(w, next)
      BY <2>1 DEF Reject
    <2>. QED BY <2>1 DEF Serve, LookupDid, SelectCallback, ResolveEndpoint, LoadCall,
                         LoadCallback, InsertEvent, ReloadCall, UpdateCall, ReloadCallback,
                         UpdateCallback
  <1>4. CASE \E next : Continue(w, next)
    BY <1>1, <1>4, ContinueAck
  <1>5. CASE Reply(w, Rejected("invalid_display_did"))
    <2>1. /\ Rejected("invalid_display_did").kind = "rejected"
          /\ Rejected("invalid_display_did").reason = "invalid_display_did"
      BY DEF Rejected, Plain
    <2>. QED BY <1>1, <1>2, <1>5, <2>1, RefusalAck
  <1>6. CASE \E kind \in {"not_found", "event_conflict", "internal_error"} :
                Reply(w, Plain(kind))
    <2>1. \A kind : Plain(kind).kind = kind
      BY DEF Plain
    <2>. QED BY <1>1, <1>2, <1>6, <2>1, RefusalAck
  <1>. QED BY <1>3, <1>4, <1>5, <1>6

\* An outbound call answers no webhook, and its event is no route.
LEMMA CreateOutboundCallAck ==
    ASSUME TypeInv, AckInv, NEW o \in OutboundRequests, CreateOutboundCall(o[1], o[2], o[3])
    PROVE  AckInv'
  <1>1. callSessions \in Seq(CallRow) /\ IsABag(callEvents)
    BY DEF TypeInv, TypeOK
  <1>2. \A c \in Calls : c \in Calls' /\ callSessions'[c] = callSessions[c]
    BY <1>1 DEF CreateOutboundCall, Calls
  <1>3. PICK row : /\ row.key[1] = "outbound.accepted"
                   /\ Events \subseteq Events' /\ Events' \subseteq Events \union {row}
    <2>1. PICK row : row = OutboundEvent(o[1], o[2], o[3])
      OBVIOUS
    <2>2. callEvents' = callEvents \/ callEvents' = InsertedEvent(row)
      BY <2>1 DEF CreateOutboundCall, OutboundEvent
    <2>3. row.key[1] = "outbound.accepted"
      BY <2>1 DEF OutboundEvent
    <2>4. IsABag(callEvents)
      BY <1>1
    <2>5. Events' = Events \/ Events' = Events \union {row}
      BY <2>2, <2>4, AddEvent DEF InsertedEvent, Events
    <2>. QED BY <2>3, <2>5
  <1>4. TablesGrow
    BY <1>2, <1>3 DEF TablesGrow
  <1>5. RoutesNameCalls'
    <2>1. ASSUME NEW e \in Events', IsRouteEvent(e)
          PROVE  e.call \in Calls' /\ callSessions'[e.call].callback = e.callback
      BY <1>2, <1>3, <2>1 DEF AckInv, RoutesNameCalls, IsRouteEvent
    <2>. QED BY <2>1 DEF RoutesNameCalls, IsRouteEvent
  <1>6. AcknowledgedIsRecorded'
    BY <1>4, NoAnswer DEF AckInv, CreateOutboundCall
  <1>. QED BY <1>5, <1>6 DEF AckInv

LEMMA FailAck ==
    ASSUME TypeInv, AckInv, NEW w \in Workers, Fail(w)
    PROVE  AckInv'
  <1>1. Plain("internal_error").kind = "internal_error"
    BY DEF Plain
  <1>. QED BY <1>1, RefusalAck DEF Fail, At

LEMMA InitAck == Init => AckInv
  <1>1. SUFFICES ASSUME Init PROVE AckInv
    OBVIOUS
  <1>2. Events = {}
    BY <1>1 DEF Init, EmptyBag, SetToBag, BagToSet, Events
  <1>3. \A m \in Messages : answers[m] = {}
    BY <1>1 DEF Init
  <1>. QED BY <1>2, <1>3 DEF AckInv, AcknowledgedIsRecorded, RoutesNameCalls

LEMMA StepAck == TypeInv /\ AckInv /\ [Next]_vars => AckInv'
  <1>1. SUFFICES ASSUME TypeInv, AckInv, [Next]_vars PROVE AckInv'
    OBVIOUS
  <1>2. ASSUME UNCHANGED <<tables, answers>> PROVE AckInv'
    BY <1>1, <1>2, SameTables, NoAnswer DEF AckInv
  <1>3. ASSUME NEW w \in Workers, NEW m \in Messages, Deliver(w, m) PROVE AckInv'
    BY <1>2, <1>3 DEF Deliver, Continue
  <1>4. ASSUME NEW w \in Workers, NEW m \in Messages, DeliverAgain(w, m) PROVE AckInv'
    BY <1>1, <1>4, DeliverAgainAck
  <1>5. ASSUME NEW w \in Workers, Serve(w) PROVE AckInv'
    BY <1>1, <1>5, ServeAck, CommitAck
  <1>6. ASSUME NEW w \in Workers, Fail(w) PROVE AckInv'
    BY <1>1, <1>6, FailAck
  <1>7. ASSUME NEW o \in OutboundRequests, CreateOutboundCall(o[1], o[2], o[3])
        PROVE  AckInv'
    BY <1>1, <1>7, CreateOutboundCallAck
  <1>8. ASSUME \/ Crash \/ Tick \/ SwitchTenant
               \/ \E d \in SwitchableDids : SwitchDid(d)
               \/ \E e \in SwitchableEndpoints : SwitchEndpoint(e)
        PROVE  AckInv'
    BY <1>2, <1>8 DEF Crash, Tick, SwitchTenant, SwitchDid, SwitchEndpoint
  <1>9. CASE UNCHANGED vars
    BY <1>2, <1>9 DEF vars
  <1>. QED BY <1>1, <1>3, <1>4, <1>5, <1>6, <1>7, <1>8, <1>9 DEF Next

\* A webhook is acknowledged only when its event is in the table for good, and a
\* routed answer names a call that exists and its window: for every number of
\* workers and deliveries, and whatever statement fails or process dies.
THEOREM AcknowledgedRecorded == Spec => []AcknowledgedIsRecorded
  <1>1. AckInv => AcknowledgedIsRecorded
    BY DEF AckInv
  <1>2. Init => TypeInv /\ AckInv
    BY InitType, InitAck
  <1>3. TypeInv /\ AckInv /\ [Next]_vars => (TypeInv /\ AckInv)'
    BY StepType, StepAck
  <1>. QED BY <1>1, <1>2, <1>3, PTL DEF Spec

=============================================================================
