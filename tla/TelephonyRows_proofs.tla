------------------------ MODULE TelephonyRows_proofs ------------------------
(***************************************************************************)
(* Proofs about the rows the webhooks lock, write and relate: that open    *)
(* requests never wait in a circle, that inbound call sessions and routing *)
(* decisions are one to one, and what becomes of a row that a request      *)
(* reads, changes in memory and saves some statements later.               *)
(***************************************************************************)
EXTENDS TelephonyWebhooks_proofs, FiniteSetTheorems

-----------------------------------------------------------------------------
(* No circle of waits.  Whoever is waited for is further on: an event row  *)
(* before the call row before the window row, except in an inbound         *)
(* decision, which takes its window first, but then waits at its event     *)
(* only for other inbound decisions that are about to commit.              *)

\* Two inbound decisions with one key: the one that has inserted is at COMMIT.
LEMMA InboundInserted ==
    ASSUME TypeInv, NEW v \in Workers, NEW w \in Workers, req[v].inserted,
           req[w].msg \in Messages, req[w].msg.type = "inbound",
           KeyOf(req[v].msg) = KeyOf(req[w].msg)
    PROVE  At(v, "commit")
  <1>1. PastInsert(req[v]) /\ req[v].msg \in Messages
    BY DEF TypeInv, Shape, PastInsert, Reporting
  <1>2. req[v].msg.name = req[w].msg.name
    BY DEF KeyOf
  <1>3. req[v].msg \in Message /\ req[w].msg \in Message
    BY <1>1, ConstantsAssumption DEF ConstantsAssumption
  <1>4. req[w].msg.name = "inbound.received"
    BY <1>3 DEF Message, StatusEvent, OutboundStatusEvent, CallbackStatusEvent, RecordingEvent
  <1>5. req[v].msg.type = "inbound"
    BY <1>2, <1>3, <1>4 DEF Message, StatusEvent, OutboundStatusEvent, CallbackStatusEvent,
                            RecordingEvent
  <1>. QED BY <1>1, <1>5 DEF PastInsert, At

LEMMA OneGoesOn == TypeInv => NoWaitCycle
  <1>1. SUFFICES ASSUME TypeInv, \A w \in Workers : ~At(w, "idle") => Waits(w)
                 PROVE  \A w \in Workers : At(w, "idle")
    BY DEF NoWaitCycle
  <1>2. \A w \in Workers : Waits(w) =>
            At(w, "insertEvent") \/ At(w, "updateCall") \/ At(w, "updateCallback")
    BY DEF Waits
  <1>3. \A w \in Workers : ~At(w, "commit")
    BY <1>1, <1>2 DEF At
  <1>4. \A w \in Workers : At(w, "insertEvent") => req[w].msg.type # "inbound"
    <2>1. ASSUME NEW w \in Workers, At(w, "insertEvent"), req[w].msg.type = "inbound"
          PROVE  FALSE
      <3>1. Waits(w) /\ req[w].msg \in Messages
        BY <1>1, <2>1 DEF At, TypeInv, Shape
      <3>2. PICK v \in Workers \ {w} : req[v].inserted /\ KeyOf(req[v].msg) = KeyOf(req[w].msg)
        BY <2>1, <3>1 DEF Waits, At
      <3>. QED BY <1>1, <1>3, <2>1, <3>1, <3>2, InboundInserted
    <2>. QED BY <2>1
  <1>5. \A w \in Workers : ~req[w].callbackLock
    BY <1>1, <1>3, <1>4 DEF TypeInv, Shape, At
  <1>6. \A w \in Workers : ~At(w, "updateCallback")
    BY <1>1, <1>5 DEF Waits, CallbackRowFree, RoutingKeyInFlight, At
  <1>7. \A w \in Workers : ~At(w, "reloadCallback")
    BY <1>1, <1>2 DEF At
  <1>8. \A w \in Workers : ~req[w].callLock
    BY <1>1, <1>3, <1>6, <1>7 DEF TypeInv, Shape, At
  <1>9. \A w \in Workers : ~At(w, "updateCall")
    BY <1>1, <1>8 DEF Waits, CallRowFree, At
  <1>10. \A w \in Workers : ~At(w, "reloadCall")
    BY <1>1, <1>2 DEF At
  <1>11. \A w \in Workers : ~req[w].inserted
    BY <1>1, <1>3, <1>6, <1>7, <1>9, <1>10 DEF TypeInv, Shape, PastInsert, Reporting, At
  <1>12. \A w \in Workers : ~At(w, "insertEvent")
    BY <1>1, <1>11 DEF Waits, At
  <1>. QED BY <1>1, <1>2, <1>6, <1>9, <1>12

\* However many requests are open on whatever events, calls and windows, one of
\* them can go on: locks are taken in an order that admits no circle of waits.
THEOREM SomeRequestGoesOn == Spec => []NoWaitCycle
  <1>. QED BY InitType, StepType, OneGoesOn, PTL DEF Spec

-----------------------------------------------------------------------------
(* Inbound call sessions and routing decisions.                            *)

Route == {e \in Events : IsRouteEvent(e)}

\* A route names an inbound call, which names its window, which is of its line.
RouteRows ==
    \A e \in Route :
        /\ e.call \in Calls /\ e.callback \in Windows
        /\ callSessions[e.call].direction = "inbound"
        /\ callSessions[e.call].callback = e.callback
        /\ callbackSessions[e.callback].did = e.did
        /\ callbackSessions[e.callback].remote = e.remote

RoutesDiffer == \A e, f \in Route : e.call = f.call => e = f

InboundHasRoute ==
    \A c \in Calls : callSessions[c].direction = "inbound" => \E e \in Route : e.call = c

RoutesInv == RouteRows /\ RoutesDiffer /\ InboundHasRoute

\* The decision is to route; before the window is selected there is no decision.
WillRoute(r) == r.pc \notin {"lookup", "select"} /\ r.reason = "matched_active_callback"

\* The window an inbound decision holds is in the table and of the line of its
\* message, and one that routes holds a window.
Line(r, table) ==
    r.pc # "idle" /\ r.msg.type = "inbound" =>
        /\ r.callbackRef # None =>
              /\ r.callbackRef \in DOMAIN table
              /\ table[r.callbackRef].did = r.msg.did
              /\ table[r.callbackRef].remote = r.msg.remote
        /\ r.pc = "endpoint" \/ WillRoute(r) => r.callbackRef # None

SessionInv == RoutesInv /\ \A w \in Workers : Line(req[w], callbackSessions)

\* What a routing decision relies on does not change in rows that are there.
RowsKept ==
    /\ \A c \in Calls : /\ c \in Calls'
                       /\ callSessions'[c].direction = callSessions[c].direction
                       /\ callSessions'[c].callback = callSessions[c].callback
    /\ \A i \in Windows : /\ i \in Windows'
                         /\ callbackSessions'[i].did = callbackSessions[i].did
                         /\ callbackSessions'[i].remote = callbackSessions[i].remote

LEMMA RoutesKept ==
    ASSUME RoutesInv, RowsKept, Route' = Route,
           \A c \in Calls' : c \in Calls \/ callSessions'[c].direction = "outbound"
    PROVE  RoutesInv'
  <1>1. RouteRows'
    BY DEF RoutesInv, RouteRows, RowsKept
  <1>2. RoutesDiffer'
    BY DEF RoutesInv, RoutesDiffer
  <1>3. InboundHasRoute'
    BY DEF RoutesInv, InboundHasRoute, RowsKept
  <1>. QED BY <1>1, <1>2, <1>3 DEF RoutesInv

LEMMA SameRoutes == ASSUME RoutesInv, UNCHANGED tables PROVE RoutesInv'
  BY DEF tables, RoutesInv, RouteRows, RoutesDiffer, InboundHasRoute, Route, Events, Calls,
         Windows, IsRouteEvent

LEMMA LineKept ==
    ASSUME RowsKept, NEW r, Line(r, callbackSessions)
    PROVE  Line(r, callbackSessions')
  BY DEF RowsKept, Windows, Line

LEMMA IdleLine == \A table : Line(Idle, table)
  BY DEF Line, Idle

\* A step that leaves the tables alone and changes one request.
LEMMA OneRequestLine ==
    ASSUME TypeInv, SessionInv, NEW w \in Workers, NEW next,
           req' = [req EXCEPT ![w] = next], UNCHANGED tables, Line(next, callbackSessions)
    PROVE  SessionInv'
  <1>1. RoutesInv'
    BY SameRoutes DEF SessionInv
  <1>2. \A v \in Workers : Line(req'[v], callbackSessions)
    BY DEF TypeInv, TypeOK, SessionInv
  <1>. QED BY <1>1, <1>2 DEF SessionInv, tables

\* The request goes on with the same message: it is no decision, or keeps its
\* window and its reason.
LEMMA ContinueLine ==
    ASSUME TypeInv, SessionInv, NEW w \in Workers, req[w].pc # "idle",
           NEW next, next.msg = req[w].msg, Continue(w, next), UNCHANGED tables,
           \/ req[w].msg.type # "inbound"
           \/ /\ next.callbackRef = req[w].callbackRef /\ next.reason = req[w].reason
              /\ next.pc # "endpoint"
              /\ next.pc = "select" \/ req[w].pc \notin {"lookup", "select"}
    PROVE  SessionInv'
  <1>1. Line(req[w], callbackSessions)
    BY DEF SessionInv
  <1>2. Line(next, callbackSessions)
    BY <1>1 DEF Line, WillRoute
  <1>. QED BY <1>2, OneRequestLine DEF Continue

LEMMA ReplyLine ==
    ASSUME TypeInv, SessionInv, NEW w \in Workers, NEW answer, Reply(w, answer), UNCHANGED tables
    PROVE  SessionInv'
  BY IdleLine, OneRequestLine DEF Reply

LEMMA RejectLine ==
    ASSUME TypeInv, SessionInv, NEW w \in Workers, req[w].pc # "idle",
           NEW reason, reason # "matched_active_callback", NEW ref, NEW window,
           ref # None => /\ ref \in Windows
                         /\ callbackSessions[ref].did = req[w].msg.did
                         /\ callbackSessions[ref].remote = req[w].msg.remote,
           Reject(w, reason, ref, window), UNCHANGED tables
    PROVE  SessionInv'
  <1>1. req[w] \in Request
    BY DEF TypeInv, TypeOK
  <1>. DEFINE expire == [req[w] EXCEPT !.pc = "reloadCallback", !.reason = reason,
                            !.callbackRef = ref, !.callback = CallbackExpired(window, req[w].msg)]
              plain == [req[w] EXCEPT !.pc = "insertEvent", !.reason = reason,
                            !.callbackRef = None, !.callback = None]
  <1>2. Line(expire, callbackSessions)
    <2>1. /\ expire.pc = "reloadCallback" /\ expire.msg = req[w].msg /\ expire.reason = reason
          /\ expire.callbackRef = ref
      BY <1>1 DEF Request
    <2>. HIDE DEF expire
    <2>. QED BY <2>1 DEF Line, WillRoute, Windows
  <1>3. Line(plain, callbackSessions)
    <2>1. /\ plain.pc = "insertEvent" /\ plain.msg = req[w].msg /\ plain.reason = reason
          /\ plain.callbackRef = None
      BY <1>1 DEF Request
    <2>. HIDE DEF plain
    <2>. QED BY <2>1 DEF Line, WillRoute
  <1>4. req' = [req EXCEPT ![w] = expire] \/ req' = [req EXCEPT ![w] = plain]
    BY DEF Reject, Continue
  <1>. HIDE DEF expire, plain
  <1>. QED BY <1>2, <1>3, <1>4, OneRequestLine

LEMMA LookupDidLine ==
    ASSUME TypeInv, SessionInv, NEW w \in Workers, LookupDid(w)
    PROVE  SessionInv'
  <1>. DEFINE next == [req[w] EXCEPT !.pc = "select"]
  <1>1. req[w] \in Request /\ req[w].pc # "idle" /\ UNCHANGED tables
    BY DEF TypeInv, TypeOK, LookupDid, At
  <1>2. CASE Continue(w, next)
    <2>1. /\ next.msg = req[w].msg /\ next.callbackRef = req[w].callbackRef
          /\ next.reason = req[w].reason /\ next.pc = "select"
      BY <1>1 DEF Request
    <2>. HIDE DEF next
    <2>. QED BY <1>1, <1>2, <2>1, ContinueLine
  <1>3. CASE Reject(w, "tenant_blocked", None, None)
    BY <1>1, <1>3, RejectLine
  <1>4. CASE Reply(w, Rejected("invalid_display_did"))
    BY <1>1, <1>4, ReplyLine
  <1>. QED BY <1>2, <1>3, <1>4 DEF LookupDid

LEMMA SelectCallbackLine ==
    ASSUME TypeInv, SessionInv, NEW w \in Workers, SelectCallback(w)
    PROVE  SessionInv'
  <1>. DEFINE m == req[w].msg
              next(i) == [req[w] EXCEPT !.pc = "endpoint", !.callbackRef = i,
                                        !.callback = callbackSessions[i]]
  <1>1. /\ req[w] \in Request /\ req[w].pc = "select" /\ UNCHANGED tables
        /\ m.type = "inbound"
    BY DEF TypeInv, TypeOK, Shape, SelectCallback, At
  <1>2. \A i \in Matching(m) : /\ i \in Windows /\ callbackSessions[i].did = m.did
                               /\ callbackSessions[i].remote = m.remote
    BY DEF Matching, Windows
  <1>3. \A i \in Newest(LiveWindows(m)) \union Newest(LapsedWindows(m)) : i \in Matching(m)
    BY DEF Newest, LiveWindows, LapsedWindows
  <1>4. ASSUME NEW i \in Newest(LiveWindows(m)), Continue(w, next(i)) PROVE SessionInv'
    <2>1. /\ next(i).msg = m /\ next(i).callbackRef = i /\ next(i).pc = "endpoint"
      BY <1>1 DEF Request
    <2>2. i # None
      <3>1. i \in Nat
        BY <1>2, <1>3 DEF Windows, TypeInv, TypeOK
      <3>. QED BY <3>1, ConstantsAssumption DEF ConstantsAssumption
    <2>3. req' = [req EXCEPT ![w] = next(i)]
      BY <1>4 DEF Continue
    <2>. HIDE DEF next
    <2>4. Line(next(i), callbackSessions)
      BY <1>2, <1>3, <2>1, <2>2 DEF Line, Windows
    <2>. QED BY <1>1, <2>3, <2>4, OneRequestLine
  <1>5. ASSUME NEW i \in Newest(LapsedWindows(m)),
               Reject(w, "callback_expired", i, callbackSessions[i])
        PROVE  SessionInv'
    BY <1>1, <1>2, <1>3, <1>5, RejectLine
  <1>6. CASE Reject(w, "callback_not_found", None, None)
    BY <1>1, <1>6, RejectLine
  <1>. QED BY <1>4, <1>5, <1>6 DEF SelectCallback

LEMMA ResolveEndpointLine ==
    ASSUME TypeInv, SessionInv, NEW w \in Workers, ResolveEndpoint(w)
    PROVE  SessionInv'
  <1>. DEFINE next(e) == [req[w] EXCEPT !.pc = "reloadCallback", !.target = e,
                              !.reason = "matched_active_callback",
                              !.callback = CallbackRouted(req[w].callback, req[w].msg, e)]
  <1>1. /\ req[w] \in Request /\ req[w].pc = "endpoint" /\ UNCHANGED tables
        /\ req[w].msg.type = "inbound" /\ Line(req[w], callbackSessions)
    BY DEF TypeInv, TypeOK, Shape, ResolveEndpoint, At, SessionInv
  <1>2. ASSUME NEW e, Continue(w, next(e)) PROVE SessionInv'
    <2>1. /\ next(e).msg = req[w].msg /\ next(e).callbackRef = req[w].callbackRef
          /\ next(e).pc = "reloadCallback"
      BY <1>1 DEF Request
    <2>2. req' = [req EXCEPT ![w] = next(e)]
      BY <1>2 DEF Continue
    <2>. HIDE DEF next
    <2>3. Line(next(e), callbackSessions)
      BY <1>1, <2>1 DEF Line
    <2>. QED BY <1>1, <2>2, <2>3, OneRequestLine
  <1>3. CASE Reject(w, "no_available_endpoint", req[w].callbackRef, req[w].callback)
    BY <1>1, <1>3, RejectLine DEF Line, Windows
  <1>. QED BY <1>2, <1>3 DEF ResolveEndpoint

LEMMA LoadLine ==
    ASSUME TypeInv, SessionInv, NEW w \in Workers, LoadCall(w) \/ LoadCallback(w)
    PROVE  SessionInv'
  <1>1. /\ req[w] \in Request /\ req[w].pc # "idle" /\ UNCHANGED tables
        /\ req[w].msg.type # "inbound"
    BY DEF TypeInv, TypeOK, Shape, LoadCall, LoadCallback, At
  <1>2. ASSUME NEW answer, Reply(w, answer) PROVE SessionInv'
    BY <1>1, <1>2, ReplyLine
  <1>3. ASSUME NEW pc, NEW call, Continue(w, [req[w] EXCEPT !.call = call, !.pc = pc])
        PROVE  SessionInv'
    <2>. DEFINE next == [req[w] EXCEPT !.call = call, !.pc = pc]
    <2>1. Continue(w, next) /\ next.msg = req[w].msg
      BY <1>1, <1>3 DEF Request
    <2>. HIDE DEF next
    <2>. QED BY <1>1, <2>1, ContinueLine
  <1>4. ASSUME NEW pc, NEW call, NEW ref, NEW callback, NEW target,
               Continue(w, [req[w] EXCEPT !.pc = pc, !.call = call, !.callbackRef = ref,
                                          !.callback = callback, !.target = target])
        PROVE  SessionInv'
    <2>. DEFINE next == [req[w] EXCEPT !.pc = pc, !.call = call, !.callbackRef = ref,
                                       !.callback = callback, !.target = target]
    <2>1. Continue(w, next) /\ next.msg = req[w].msg
      BY <1>1, <1>4 DEF Request
    <2>. HIDE DEF next
    <2>. QED BY <1>1, <2>1, ContinueLine
  <1>5. CASE LoadCall(w)
    BY <1>2, <1>3, <1>5 DEF LoadCall
  <1>6. CASE LoadCallback(w)
    BY <1>2, <1>4, <1>6 DEF LoadCallback
  <1>. QED BY <1>5, <1>6

\* The statements of the transactions change neither window nor reason.
LEMMA SaveLine ==
    ASSUME TypeInv, SessionInv, NEW w \in Workers,
           \/ InsertEvent(w)
           \/ ReloadCall(w) \/ UpdateCall(w) \/ ReloadCallback(w) \/ UpdateCallback(w)
    PROVE  SessionInv'
  <1>1. /\ req[w] \in Request /\ req[w].pc # "idle" /\ UNCHANGED tables
        /\ req[w].pc \notin {"lookup", "select"}
    BY DEF TypeInv, TypeOK, InsertEvent, ReloadCall, UpdateCall, ReloadCallback,
           UpdateCallback, At
  <1>2. CASE Reply(w, Plain("internal_error"))
    BY <1>1, <1>2, ReplyLine
  <1>3. ASSUME NEW next, Continue(w, next),
               /\ next.msg = req[w].msg /\ next.callbackRef = req[w].callbackRef
               /\ next.reason = req[w].reason /\ next.pc # "endpoint"
        PROVE  SessionInv'
    BY <1>1, <1>3, ContinueLine
  <1>4. \A step : StepAfter(w, step) # "endpoint"
    BY DEF StepAfter
  <1>5. CASE ReloadCall(w)
    BY <1>1, <1>3, <1>5 DEF ReloadCall, Request
  <1>6. CASE ReloadCallback(w)
    BY <1>1, <1>3, <1>6 DEF ReloadCallback, Request
  <1>7. ASSUME NEW pc, pc # "endpoint",
               \/ Continue(w, [req[w] EXCEPT !.pc = pc])
               \/ Continue(w, [req[w] EXCEPT !.pc = pc, !.callLock = TRUE])
               \/ Continue(w, [req[w] EXCEPT !.pc = pc, !.callbackLock = TRUE])
               \/ Continue(w, [req[w] EXCEPT !.inserted = TRUE, !.pc = pc])
        PROVE  SessionInv'
    <2>. DEFINE a == [req[w] EXCEPT !.pc = pc]
                b == [req[w] EXCEPT !.pc = pc, !.callLock = TRUE]
                c == [req[w] EXCEPT !.pc = pc, !.callbackLock = TRUE]
                d == [req[w] EXCEPT !.inserted = TRUE, !.pc = pc]
    <2>1. \A next \in {a, b, c, d} :
            /\ next.msg = req[w].msg /\ next.callbackRef = req[w].callbackRef
            /\ next.reason = req[w].reason /\ next.pc = pc
      BY <1>1 DEF Request
    <2>2. \E next \in {a, b, c, d} : Continue(w, next)
      BY <1>7
    <2>. HIDE DEF a, b, c, d
    <2>. QED BY <1>3, <1>7, <2>1, <2>2
  <1>8. CASE UpdateCall(w)
    BY <1>4, <1>7, <1>8 DEF UpdateCall
  <1>9. CASE UpdateCallback(w)
    BY <1>2, <1>4, <1>7, <1>9 DEF UpdateCallback
  <1>10. CASE InsertEvent(w)
    BY <1>2, <1>4, <1>7, <1>10 DEF InsertEvent
  <1>. QED BY <1>5, <1>6, <1>8, <1>9, <1>10

\* Saving writes neither the direction and the window of a call nor the line of
\* a window.
LEMMA SavedKept ==
    ASSUME TypeInv, NEW w \in Workers, At(w, "commit")
    PROVE  /\ DOMAIN SavedCalls(w) = Calls
           /\ \A c \in Calls : /\ SavedCalls(w)[c].direction = callSessions[c].direction
                              /\ SavedCalls(w)[c].callback = callSessions[c].callback
           /\ DOMAIN SavedCallbacks(w) = Windows
           /\ \A i \in Windows : /\ SavedCallbacks(w)[i].did = callbackSessions[i].did
                                /\ SavedCallbacks(w)[i].remote = callbackSessions[i].remote
  <1>1. callSessions \in Seq(CallRow) /\ callbackSessions \in Seq(CallbackRow)
    BY DEF TypeInv, TypeOK
  <1>2. /\ DOMAIN SavedCalls(w) = Calls
        /\ \A c \in Calls : /\ SavedCalls(w)[c].direction = callSessions[c].direction
                           /\ SavedCalls(w)[c].callback = callSessions[c].callback
    BY <1>1 DEF Calls, SavedCalls, CallOverlay, CallRow
  <1>3. /\ DOMAIN SavedCallbacks(w) = Windows
        /\ \A i \in Windows : /\ SavedCallbacks(w)[i].did = callbackSessions[i].did
                             /\ SavedCallbacks(w)[i].remote = callbackSessions[i].remote
    BY <1>1 DEF Windows, SavedCallbacks, CallbackOverlay, CallbackRow
  <1>. QED BY <1>2, <1>3

\* The calls and the events a commit leaves behind, by the kind of its message.
LEMMA CommitRows ==
    ASSUME TypeInv, NEW w \in Workers, Commit(w)
    PROVE  /\ RowsKept /\ req' = [req EXCEPT ![w] = Idle]
           /\ \/ /\ Route' = Route
                 /\ \A c \in Calls' : c \in Calls
              \/ /\ req[w].msg.type = "inbound" /\ Routes(w)
                 /\ callSessions' = Append(callSessions, InboundCall(w))
                 /\ Route' = Route \union {EventOf(w, Len(callSessions) + 1)}
  <1>. DEFINE m == req[w].msg
              newCall == Len(callSessions) + 1
  <1>1. /\ At(w, "commit") /\ IsABag(callEvents) /\ callSessions \in Seq(CallRow)
        /\ m \in Messages /\ callbackSessions' = SavedCallbacks(w)
    BY CommitStep DEF TypeInv, TypeOK, Shape, At
  <1>2. req' = [req EXCEPT ![w] = Idle]
    BY <1>1, CommitStep, ReplyOrLoseItType
  <1>3. RowsKept
    <2>1. \A c \in Calls : /\ c \in Calls'
                         /\ callSessions'[c].direction = callSessions[c].direction
                         /\ callSessions'[c].callback = callSessions[c].callback
      <3>1. CASE callSessions' = Append(callSessions, InboundCall(w))
        BY <1>1, <3>1 DEF Calls
      <3>2. CASE callSessions' = SavedCalls(w)
        BY <1>1, <3>2, SavedKept DEF Calls
      <3>3. CASE callSessions' = callSessions
        BY <3>3 DEF Calls
      <3>. QED BY <3>1, <3>2, <3>3, CommitStep
    <2>2. \A i \in Windows : /\ i \in Windows'
                           /\ callbackSessions'[i].did = callbackSessions[i].did
                           /\ callbackSessions'[i].remote = callbackSessions[i].remote
      BY <1>1, SavedKept DEF Windows
    <2>. QED BY <2>1, <2>2 DEF RowsKept
  <1>4. ASSUME NEW row, callEvents' = InsertedEvent(row)
        PROVE  Route' = Route \union {e \in {row} : IsRouteEvent(e)}
    <2>1. Events' = Events \union {row}
      BY <1>1, <1>4, AddEvent DEF InsertedEvent, Events
    <2>. QED BY <2>1 DEF Route, IsRouteEvent
  <1>5. CASE /\ m.type = "inbound" /\ Routes(w)
             /\ callSessions' = Append(callSessions, InboundCall(w))
             /\ callEvents' = InsertedEvent(EventOf(w, newCall))
    <2>1. m.name = "inbound.received"
      <3>1. m \in Message
        BY <1>1, ConstantsAssumption DEF ConstantsAssumption
      <3>. QED BY <1>5, <3>1 DEF Message
    <2>2. newCall # None
      BY <1>1, ConstantsAssumption DEF ConstantsAssumption
    <2>3. IsRouteEvent(EventOf(w, newCall))
      BY <2>1, <2>2 DEF IsRouteEvent, EventOf, KeyOf
    <2>4. Route' = Route \union {EventOf(w, newCall)}
      <3>1. PICK row : row = EventOf(w, newCall)
        OBVIOUS
      <3>2. callEvents' = InsertedEvent(row) /\ IsRouteEvent(row)
        BY <1>5, <2>3, <3>1
      <3>. QED BY <1>4, <3>1, <3>2
    <2>. QED BY <1>2, <1>3, <1>5, <2>4
  <1>6. CASE /\ callSessions' = callSessions
             /\ callEvents' = InsertedEvent(EventOf(w, None))
    <2>1. ~IsRouteEvent(EventOf(w, None))
      BY DEF EventOf, IsRouteEvent
    <2>2. PICK row : row = EventOf(w, None)
      OBVIOUS
    <2>3. Route' = Route
      BY <1>4, <1>6, <2>1, <2>2
    <2>. QED BY <1>2, <1>3, <1>6, <2>3 DEF Calls
  <1>7. CASE /\ m.type # "inbound"
             /\ callSessions' = SavedCalls(w)
             /\ callEvents' = InsertedEvent(EventOf(w, m.call))
    <2>1. m \in Message
      BY <1>1, ConstantsAssumption DEF ConstantsAssumption
    <2>2. m.name # "inbound.received"
      BY <1>7, <2>1 DEF Message, StatusEvent, OutboundStatusEvent, CallbackStatusEvent,
                        RecordingEvent
    <2>3. ~IsRouteEvent(EventOf(w, m.call))
      BY <2>2 DEF EventOf, IsRouteEvent, KeyOf
    <2>4. PICK row : row = EventOf(w, m.call)
      OBVIOUS
    <2>5. Route' = Route
      BY <1>4, <1>7, <2>3, <2>4
    <2>. QED BY <1>1, <1>2, <1>3, <1>7, <2>5, SavedKept DEF Calls
  <1>. QED BY <1>5, <1>6, <1>7 DEF Commit

LEMMA CommitLine ==
    ASSUME TypeInv, SessionInv, NEW w \in Workers, Commit(w)
    PROVE  SessionInv'
  <1>. DEFINE m == req[w].msg
              newCall == Len(callSessions) + 1
              row == EventOf(w, newCall)
  <1>1. /\ RowsKept /\ req' = [req EXCEPT ![w] = Idle] /\ callSessions \in Seq(CallRow)
        /\ req \in [Workers -> Request]
    BY CommitRows DEF TypeInv, TypeOK
  <1>2. \A v \in Workers : Line(req'[v], callbackSessions')
    <2>1. ASSUME NEW v \in Workers PROVE Line(req'[v], callbackSessions')
      <3>1. CASE v = w
        BY <1>1, <3>1, IdleLine
      <3>2. CASE v # w
        <4>1. req'[v] = req[v] /\ Line(req[v], callbackSessions)
          BY <1>1, <3>2 DEF SessionInv
        <4>2. PICK r : r = req[v]
          OBVIOUS
        <4>. QED BY <1>1, <4>1, <4>2, LineKept
      <3>. QED BY <3>1, <3>2
    <2>. QED BY <2>1
  <1>3. CASE Route' = Route /\ \A c \in Calls' : c \in Calls
    <2>1. RoutesInv'
      BY <1>1, <1>3, RoutesKept DEF SessionInv
    <2>. QED BY <1>2, <2>1 DEF SessionInv
  <1>4. CASE /\ m.type = "inbound" /\ Routes(w)
             /\ callSessions' = Append(callSessions, InboundCall(w))
             /\ Route' = Route \union {row}
    <2>1. /\ Calls' = Calls \union {newCall} /\ newCall \notin Calls
          /\ callSessions'[newCall] = InboundCall(w)
      BY <1>1, <1>4 DEF Calls
    <2>2. /\ row.call = newCall /\ row.callback = req[w].callbackRef
          /\ row.did = m.did /\ row.remote = m.remote
      BY <1>4 DEF EventOf
    <2>3. /\ callSessions'[newCall].direction = "inbound"
          /\ callSessions'[newCall].callback = req[w].callbackRef
      BY <2>1 DEF InboundCall
    <2>4. /\ req[w].callbackRef \in Windows
          /\ callbackSessions[req[w].callbackRef].did = m.did
          /\ callbackSessions[req[w].callbackRef].remote = m.remote
      <3>1. At(w, "commit") /\ Line(req[w], callbackSessions)
        BY DEF Commit, SessionInv
      <3>. QED BY <1>4, <3>1 DEF Line, WillRoute, Routes, At, Windows
    <2>. HIDE DEF row, newCall
    <2>5. RouteRows'
      <3>1. ASSUME NEW e \in Route'
            PROVE  /\ e.call \in Calls' /\ e.callback \in Windows'
                   /\ callSessions'[e.call].direction = "inbound"
                   /\ callSessions'[e.call].callback = e.callback
                   /\ callbackSessions'[e.callback].did = e.did
                   /\ callbackSessions'[e.callback].remote = e.remote
        <4>1. CASE e = row
          BY <1>1, <2>1, <2>2, <2>3, <2>4, <4>1 DEF RowsKept
        <4>2. CASE e \in Route
          BY <1>1, <4>2 DEF SessionInv, RoutesInv, RouteRows, RowsKept
        <4>. QED BY <1>4, <4>1, <4>2
      <3>. QED BY <3>1 DEF RouteRows
    <2>6. RoutesDiffer'
      <3>1. \A e \in Route : e.call \in Calls
        BY DEF SessionInv, RoutesInv, RouteRows
      <3>. QED BY <1>4, <2>1, <2>2, <3>1 DEF SessionInv, RoutesInv, RoutesDiffer
    <2>7. InboundHasRoute'
      <3>1. ASSUME NEW c \in Calls', callSessions'[c].direction = "inbound"
            PROVE  \E e \in Route' : e.call = c
        <4>1. CASE c = newCall
          BY <1>4, <2>2, <4>1
        <4>2. CASE c \in Calls
          BY <1>1, <1>4, <3>1, <4>2 DEF SessionInv, RoutesInv, InboundHasRoute, RowsKept
        <4>. QED BY <2>1, <4>1, <4>2
      <3>. QED BY <3>1 DEF InboundHasRoute
    <2>. QED BY <1>2, <2>5, <2>6, <2>7 DEF SessionInv, RoutesInv
  <1>. QED BY <1>3, <1>4, CommitRows

\* An outbound call adds rows and at most its own event to the tables.
LEMMA CreateOutboundCallRows ==
    ASSUME TypeInv, NEW o \in OutboundRequests, CreateOutboundCall(o[1], o[2], o[3])
    PROVE  /\ \A e \in Events' : e \in Events \/ e.key[1] = "outbound.accepted"
           /\ Route' = Route
           /\ Events \subseteq Events'
           /\ Calls \subseteq Calls' /\ Windows \subseteq Windows'
           /\ \A c \in Calls : callSessions'[c] = callSessions[c]
           /\ \A c \in Calls' \ Calls : callSessions'[c].status \in {"created", "dispatching"}
           /\ \A i \in Windows : callbackSessions'[i] = callbackSessions[i]
           /\ \A i \in Windows' \ Windows : callbackSessions'[i].status = "active"
           /\ UNCHANGED <<req, now>>
  <1>1. /\ callSessions \in Seq(CallRow) /\ callbackSessions \in Seq(CallbackRow)
        /\ IsABag(callEvents)
    BY DEF TypeInv, TypeOK
  <1>2. PICK row : row = OutboundEvent(o[1], o[2], o[3])
    OBVIOUS
  <1>3. callEvents' = callEvents \/ callEvents' = InsertedEvent(row)
    BY <1>2 DEF CreateOutboundCall, OutboundEvent
  <1>4. row.key[1] = "outbound.accepted"
    BY <1>2 DEF OutboundEvent
  <1>5. Events' = Events \/ Events' = Events \union {row}
    BY <1>1, <1>3, AddEvent DEF InsertedEvent, Events
  <1>6. Route' = Route
    BY <1>4, <1>5 DEF Route, IsRouteEvent
  <1>7. PICK call : /\ callSessions' = Append(callSessions, call)
                    /\ call.status \in {"created", "dispatching"}
    BY DEF CreateOutboundCall
  <1>8. \/ callbackSessions' = callbackSessions
        \/ \E window : /\ window.status = "active"
                       /\ callbackSessions' = Append(callbackSessions, window)
    BY DEF CreateOutboundCall
  <1>9. /\ Calls \subseteq Calls'
        /\ \A c \in Calls : callSessions'[c] = callSessions[c]
        /\ \A c \in Calls' \ Calls : callSessions'[c].status \in {"created", "dispatching"}
    BY <1>1, <1>7 DEF Calls
  <1>10. /\ Windows \subseteq Windows'
         /\ \A i \in Windows : callbackSessions'[i] = callbackSessions[i]
         /\ \A i \in Windows' \ Windows : callbackSessions'[i].status = "active"
    BY <1>1, <1>8, SMTT(30) DEF Windows
  <1>11. UNCHANGED <<req, now>>
    BY DEF CreateOutboundCall, environment
  <1>. QED BY <1>4, <1>5, <1>6, <1>9, <1>10, <1>11

\* An outbound call and its window are new rows, and its event is no route.
LEMMA CreateOutboundCallLine ==
    ASSUME TypeInv, SessionInv, NEW o \in OutboundRequests, CreateOutboundCall(o[1], o[2], o[3])
    PROVE  SessionInv'
  <1>1. /\ callSessions \in Seq(CallRow) /\ callbackSessions \in Seq(CallbackRow)
        /\ IsABag(callEvents) /\ req' = req
    BY DEF TypeInv, TypeOK, CreateOutboundCall
  <1>2. PICK call : call.direction = "outbound" /\ callSessions' = Append(callSessions, call)
    BY DEF CreateOutboundCall
  <1>3. callbackSessions' = callbackSessions
          \/ \E window : callbackSessions' = Append(callbackSessions, window)
    BY DEF CreateOutboundCall
  <1>4. RowsKept /\ \A c \in Calls' : c \in Calls \/ callSessions'[c].direction = "outbound"
    BY <1>1, <1>2, <1>3 DEF RowsKept, Calls, Windows
  <1>5. Route' = Route
    BY CreateOutboundCallRows
  <1>6. RoutesInv'
    BY <1>4, <1>5, RoutesKept DEF SessionInv
  <1>7. \A w \in Workers : Line(req'[w], callbackSessions')
    <2>1. ASSUME NEW w \in Workers PROVE Line(req'[w], callbackSessions')
      <3>1. PICK r : r = req[w]
        OBVIOUS
      <3>2. Line(r, callbackSessions) /\ req'[w] = r
        BY <1>1, <3>1 DEF SessionInv
      <3>. QED BY <1>4, <3>2, LineKept
    <2>. QED BY <2>1
  <1>. QED BY <1>6, <1>7 DEF SessionInv

LEMMA OutsideLine ==
    ASSUME TypeInv, SessionInv,
           \/ \E w \in Workers : \/ Fail(w)
                                 \/ \E m \in Messages : Deliver(w, m) \/ DeliverAgain(w, m)
           \/ Crash \/ Tick \/ SwitchTenant
           \/ \E d \in SwitchableDids : SwitchDid(d)
           \/ \E e \in SwitchableEndpoints : SwitchEndpoint(e)
    PROVE  SessionInv'
  <1>1. ASSUME NEW w \in Workers, Fail(w) PROVE SessionInv'
    BY <1>1, ReplyLine DEF Fail
  <1>2. ASSUME NEW w \in Workers, NEW m \in Messages, Deliver(w, m) PROVE SessionInv'
    <2>. DEFINE next == [Idle EXCEPT !.pc = IF m.type = "inbound" THEN "lookup" ELSE "loadCall",
                                     !.msg = m]
    <2>1. req' = [req EXCEPT ![w] = next] /\ UNCHANGED tables
      BY <1>2 DEF Deliver, Continue
    <2>2. /\ next.callbackRef = None /\ next.msg = m
          /\ next.pc = IF m.type = "inbound" THEN "lookup" ELSE "loadCall"
      BY DEF Idle
    <2>. HIDE DEF next
    <2>3. Line(next, callbackSessions)
      BY <2>2 DEF Line, WillRoute
    <2>. QED BY <2>1, <2>3, OneRequestLine
  <1>3. ASSUME UNCHANGED <<tables, req>> PROVE SessionInv'
    BY <1>3, SameRoutes DEF SessionInv, tables
  <1>4. CASE Crash
    <2>1. UNCHANGED tables /\ \A w \in Workers : req'[w] = Idle
      BY <1>4 DEF Crash
    <2>2. \A w \in Workers : Line(req'[w], callbackSessions')
      BY <2>1, IdleLine
    <2>. QED BY <2>1, <2>2, SameRoutes DEF SessionInv
  <1>. QED BY <1>1, <1>2, <1>3, <1>4 DEF DeliverAgain, Tick, SwitchTenant, SwitchDid,
                                         SwitchEndpoint

LEMMA InitSessions == Init => SessionInv
  <1>1. SUFFICES ASSUME Init PROVE SessionInv
    OBVIOUS
  <1>2. Events = {} /\ Calls = {}
    BY <1>1 DEF Init, Events, Calls, EmptyBag, SetToBag, BagToSet
  <1>3. RoutesInv
    BY <1>2 DEF RoutesInv, RouteRows, RoutesDiffer, InboundHasRoute, Route
  <1>4. \A w \in Workers : Line(req[w], callbackSessions)
    BY <1>1, IdleLine DEF Init
  <1>. QED BY <1>3, <1>4 DEF SessionInv

LEMMA StepSessions == TypeInv /\ SessionInv /\ [Next]_vars => SessionInv'
  <1>1. SUFFICES ASSUME TypeInv, SessionInv, [Next]_vars PROVE SessionInv'
    OBVIOUS
  <1>2. ASSUME NEW w \in Workers, Serve(w) PROVE SessionInv'
    BY <1>1, <1>2, LookupDidLine, SelectCallbackLine, ResolveEndpointLine, LoadLine, SaveLine,
       CommitLine DEF Serve
  <1>3. ASSUME NEW o \in OutboundRequests, CreateOutboundCall(o[1], o[2], o[3]) PROVE SessionInv'
    BY <1>1, <1>3, CreateOutboundCallLine
  <1>4. CASE UNCHANGED vars
    BY <1>1, <1>4, SameRoutes DEF SessionInv, vars, tables
  <1>. QED BY <1>1, <1>2, <1>3, <1>4, OutsideLine DEF Next

LEMMA RoutesMatch == RoutesInv => SessionsMatchDecisions
  <1>1. SUFFICES ASSUME RoutesInv PROVE SessionsMatchDecisions
    OBVIOUS
  <1>2. ASSUME NEW c \in Calls, callSessions[c].direction = "inbound"
        PROVE  Cardinality({e \in Events : IsRouteEvent(e) /\ e.call = c}) = 1
    <2>1. PICK e \in Route : e.call = c
      BY <1>1, <1>2 DEF RoutesInv, InboundHasRoute
    <2>2. {f \in Events : IsRouteEvent(f) /\ f.call = c} = {e}
      BY <1>1, <2>1 DEF RoutesInv, RoutesDiffer, Route
    <2>. QED BY <2>2, FS_Singleton
  <1>3. \A e \in Events : IsRouteEvent(e) => e \in Route
    BY DEF Route
  <1>. QED BY <1>1, <1>2, <1>3 DEF SessionsMatchDecisions, RoutesInv, RouteRows

\* Through concurrent decisions, failures, crashes and windows that outbound
\* calls open meanwhile, every inbound call session has one routing decision,
\* and the decision, the session and the window agree.
THEOREM SessionsAndDecisionsMatch == Spec => []SessionsMatchDecisions
  <1>1. SessionInv => SessionsMatchDecisions
    BY RoutesMatch DEF SessionInv
  <1>2. Init => TypeInv /\ SessionInv
    BY InitType, InitSessions
  <1>3. TypeInv /\ SessionInv /\ [Next]_vars => (TypeInv /\ SessionInv)'
    BY StepType, StepSessions
  <1>. QED BY <1>1, <1>2, <1>3, PTL DEF Spec

-----------------------------------------------------------------------------
(* Private copies.  A report computes the new call and the new window from  *)
(* rows it read without a lock, and saves the columns that differ from the  *)
(* row as it is at the save.  The copy is sound as long as nobody else has  *)
(* loaded the row: for a call and for a window that is CallsAlone and       *)
(* WindowsAlone below, which the code does not ensure (the run `rollback`   *)
(* shows what comes of it) and a lock taken with the first read, or a queue *)
(* per row, would.  They ask nothing of requests on different rows.         *)

\* A request that has loaded the call its report names.
HasCall(r) == r.pc \notin {"idle", "loadCall"} /\ r.msg.type # "inbound"

\* No two open requests have loaded the same call.
CallsAlone ==
    \A v, w \in Workers :
        HasCall(req[v]) /\ HasCall(req[w]) /\ req[v].msg.call = req[w].msg.call => v = w

\* No two open requests have loaded the same window.
WindowsAlone ==
    \A v, w \in Workers :
        req[v].callbackRef # None /\ req[v].callbackRef = req[w].callbackRef => v = w

\* What a request is to save is computed on the row as it is now: the call ...
CallCopy(r, calls) ==
    HasCall(r) =>
        LET row == calls[r.msg.call] IN
        /\ r.msg.call \in DOMAIN calls
        /\ r.pc = "loadCallback" => r.msg.type = "status"
        /\ r.call = IF r.msg.type = "status" /\ r.pc # "loadCallback"
                      THEN CallAfter(row, r.msg, r.target) ELSE row
        /\ r.pc \in {"updateCall", "reloadCallback", "updateCallback", "commit"} =>
              r.callCols = CallDiff(r.call, row)
        /\ r.pc \in {"reloadCallback", "updateCallback", "commit"} =>
              r.callLock \/ r.callCols = {}

\* ... and the window, which a decision to route found active and consumes.
WindowCopy(r, windows) ==
    LET row == windows[r.callbackRef]
        routes == r.msg.type = "inbound" /\ r.reason = "matched_active_callback"
    IN
    /\ r.pc \in {"idle", "lookup", "select", "loadCall", "loadCallback"} => r.callbackRef = None
    /\ r.callbackRef # None =>
        /\ r.callbackRef \in DOMAIN windows
        /\ r.pc = "endpoint" => row.status = "active" /\ r.callback = row
        /\ r.pc # "endpoint" /\ routes =>
              /\ row.status = "active"
              /\ r.callback = CallbackRouted(row, r.msg, r.target)
              /\ r.pc # "reloadCallback" => "status" \in r.callbackCols
              /\ r.pc \in {"insertEvent", "commit"} => r.callbackLock
        /\ r.pc # "endpoint" /\ r.msg.type = "inbound" /\ ~routes =>
              r.callback = CallbackExpired(row, r.msg)
        /\ r.msg.type # "inbound" => r.callback = CallbackAfter(row, r.msg, r.target)

\* An event on record accounts for the end of a window, or the one this request
\* is to record does.
Accounted(row, events, t) == \E e \in events : AccountsFor(e, row, t)

WillAccount(r, row, t) ==
    /\ r.msg.type = "inbound" /\ r.reason # "matched_active_callback"
    /\ row.expiresAt <= r.msg.at
    /\ row.expiresAt <= t \/ r.reason = "no_available_endpoint"

\* A request that would save its window as expired has the reason to.
LapseCopy(r, windows, events, t) ==
    /\ r.pc \in {"idle", "lookup", "select", "loadCall", "loadCallback"} => r.callbackRef = None
    /\ r.callbackRef # None =>
        /\ r.callbackRef \in DOMAIN windows
        /\ r.callback.expiresAt = windows[r.callbackRef].expiresAt
        /\ r.pc = "endpoint" => r.callback.status = "active"
        /\ r.callback.status = "expired" =>
              \/ Accounted(windows[r.callbackRef], events, t)
              \/ WillAccount(r, windows[r.callbackRef], t)

CopiesKept(r, s) ==
    /\ CallCopy(r, callSessions) => CallCopy(s, callSessions)
    /\ WindowCopy(r, callbackSessions) => WindowCopy(s, callbackSessions)
    /\ ExpiredForAReject /\ LapseCopy(r, callbackSessions, Events, now) =>
          LapseCopy(s, callbackSessions, Events, now)

LEMMA IdleCopy ==
    \A table, events, t :
        CallCopy(Idle, table) /\ WindowCopy(Idle, table) /\ LapseCopy(Idle, table, events, t)
  BY DEF CallCopy, WindowCopy, LapseCopy, HasCall, Idle

\* A request that ends, and one that goes on with the same copies.
LEMMA IdleKept == \A r : CopiesKept(r, Idle)
  BY IdleCopy DEF CopiesKept

LEMMA DeliverCopy ==
    ASSUME NEW m \in Messages,
           NEW s, s = [Idle EXCEPT !.pc = IF m.type = "inbound" THEN "lookup" ELSE "loadCall",
                                   !.msg = m]
    PROVE  CopiesKept(Idle, s)
  <1>1. /\ s.pc = IF m.type = "inbound" THEN "lookup" ELSE "loadCall"
        /\ s.msg = m /\ s.callbackRef = None
    BY DEF Idle
  <1>2. CallCopy(s, callSessions) /\ WindowCopy(s, callbackSessions)
    BY <1>1 DEF CallCopy, WindowCopy, HasCall
  <1>3. LapseCopy(s, callbackSessions, Events, now)
    BY <1>1 DEF LapseCopy
  <1>. QED BY <1>2, <1>3 DEF CopiesKept

\* An inbound decision has no call, and without a window nothing else to save.
LEMMA NothingHeld ==
    ASSUME NEW r, NEW s, r.pc # "idle", s.msg = r.msg, r.msg.type = "inbound",
           s.callbackRef = None
    PROVE  CopiesKept(r, s)
  <1>1. CallCopy(s, callSessions)
    BY DEF CallCopy, HasCall
  <1>2. WindowCopy(s, callbackSessions)
    BY DEF WindowCopy
  <1>3. LapseCopy(r, callbackSessions, Events, now) => LapseCopy(s, callbackSessions, Events, now)
    BY DEF LapseCopy
  <1>. QED BY <1>1, <1>2, <1>3 DEF CopiesKept

LEMMA WindowFields ==
    \A m, target : \A window \in CallbackRow :
           /\ CallbackExpired(window, m).expiresAt = window.expiresAt
           /\ CallbackRouted(window, m, target).expiresAt = window.expiresAt
           /\ CallbackAfter(window, m, target).expiresAt = window.expiresAt
           /\ CallbackExpired(window, m).status = "expired"
           /\ CallbackRouted(window, m, target).status = "routing"
           /\ CallbackAfter(window, m, target).status = WindowAfter(window.status, m.name)
  BY DEF CallbackExpired, CallbackRouted, CallbackAfter, CallbackRow

\* The request that is to reject a call and to save a lapsed window.
Lapsing(r, reason, ref, window) ==
    [r EXCEPT !.pc = "reloadCallback", !.reason = reason,
              !.callbackRef = ref, !.callback = CallbackExpired(window, r.msg)]

\* A lapsed window is given up for a reason: an event that gave it up earlier,
\* its time on the clock, or a live window without an endpoint.
MayLapse(window, row, reason) ==
    IF window.status = "expired"
      THEN Accounted(row, Events, now)
      ELSE window.expiresAt <= now \/ reason = "no_available_endpoint"

LEMMA RejectCopy ==
    ASSUME NEW r \in Request, r.pc # "idle", r.msg \in Messages, r.msg.type = "inbound",
           NEW reason, reason # "matched_active_callback",
           NEW i \in Windows, NEW window \in CallbackRow, now \in Nat,
           IsExpired(window, r.msg.at),
           NEW s, s = Lapsing(r, reason, i, window)
    PROVE  /\ CallCopy(s, callSessions)
           /\ window = callbackSessions[i] => WindowCopy(s, callbackSessions)
           /\ /\ window.expiresAt = callbackSessions[i].expiresAt
              /\ MayLapse(window, callbackSessions[i], reason)
              => LapseCopy(s, callbackSessions, Events, now)
  <1>1. /\ s.pc = "reloadCallback" /\ s.reason = reason /\ s.callbackRef = i /\ s.msg = r.msg
        /\ s.callback = CallbackExpired(window, r.msg)
    BY DEF Request, Lapsing
  <1>2. CallCopy(s, callSessions)
    BY <1>1 DEF CallCopy, HasCall
  <1>3. window = callbackSessions[i] => WindowCopy(s, callbackSessions)
    BY <1>1 DEF WindowCopy, Windows
  <1>4. s.callback.expiresAt = window.expiresAt
    BY <1>1, WindowFields
  <1>5. ASSUME window.expiresAt = callbackSessions[i].expiresAt,
               MayLapse(window, callbackSessions[i], reason)
        PROVE  LapseCopy(s, callbackSessions, Events, now)
    <2>1. PICK row : row = callbackSessions[i]
      OBVIOUS
    <2>2. Accounted(row, Events, now) \/ WillAccount(s, row, now)
      BY <1>1, <1>5, <2>1 DEF MayLapse, WillAccount, IsExpired
    <2>. QED BY <1>1, <1>4, <1>5, <2>1, <2>2 DEF LapseCopy, Windows
  <1>. QED BY <1>2, <1>3, <1>5

\* The two outcomes of Reject.
LEMMA RejectStep ==
    ASSUME NEW w \in Workers, NEW reason, NEW ref, NEW window, Reject(w, reason, ref, window),
           req[w] \in Request
    PROVE  \/ /\ ref # None /\ IsExpired(window, req[w].msg.at)
              /\ req' = [req EXCEPT ![w] = Lapsing(req[w], reason, ref, window)]
           \/ \E s : /\ s.msg = req[w].msg /\ s.callbackRef = None
                     /\ req' = [req EXCEPT ![w] = s]
  <1>. DEFINE plain == [req[w] EXCEPT !.pc = "insertEvent", !.reason = reason,
                            !.callbackRef = None, !.callback = None]
  <1>1. plain.msg = req[w].msg /\ plain.callbackRef = None
    BY DEF Request
  <1>. HIDE DEF plain
  <1>2. \/ /\ ref # None /\ IsExpired(window, req[w].msg.at)
           /\ req' = [req EXCEPT ![w] = Lapsing(req[w], reason, ref, window)]
        \/ req' = [req EXCEPT ![w] = plain]
    BY DEF Reject, Continue, plain, Lapsing
  <1>. QED BY <1>1, <1>2

\* What a step that leaves the tables alone does to the copies of a request.
KeepsCopies(w) == \E s : req' = [req EXCEPT ![w] = s] /\ CopiesKept(req[w], s)

LEMMA ReplyCopy ==
    ASSUME NEW w \in Workers, NEW answer, Reply(w, answer) PROVE KeepsCopies(w)
  BY IdleKept DEF Reply, KeepsCopies

LEMMA LookupDidCopy ==
    ASSUME TypeInv, NEW w \in Workers, LookupDid(w)
    PROVE  KeepsCopies(w)
  <1>. DEFINE next == [req[w] EXCEPT !.pc = "select"]
  <1>1. /\ req[w] \in Request /\ req[w].pc = "lookup" /\ req[w].msg.type = "inbound"
    BY DEF TypeInv, TypeOK, Shape, LookupDid, At
  <1>2. CASE Continue(w, next)
    <2>1. /\ next.msg = req[w].msg /\ next.callbackRef = req[w].callbackRef
          /\ next.pc = "select"
      BY <1>1 DEF Request
    <2>2. req' = [req EXCEPT ![w] = next]
      BY <1>2 DEF Continue
    <2>. HIDE DEF next
    <2>3. CopiesKept(req[w], next)
      <3>1. CallCopy(next, callSessions)
        BY <1>1, <2>1 DEF CallCopy, HasCall
      <3>2. WindowCopy(req[w], callbackSessions) => WindowCopy(next, callbackSessions)
        BY <1>1, <2>1 DEF WindowCopy
      <3>3. LapseCopy(req[w], callbackSessions, Events, now) => LapseCopy(next, callbackSessions, Events, now)
        BY <1>1, <2>1 DEF LapseCopy
      <3>. QED BY <3>1, <3>2, <3>3 DEF CopiesKept
    <2>. QED BY <2>2, <2>3 DEF KeepsCopies
  <1>3. CASE Reject(w, "tenant_blocked", None, None)
    <2>1. PICK s : s.msg = req[w].msg /\ s.callbackRef = None /\ req' = [req EXCEPT ![w] = s]
      BY <1>1, <1>3, RejectStep
    <2>2. PICK r : r = req[w]
      OBVIOUS
    <2>3. CopiesKept(r, s)
      BY <1>1, <2>1, <2>2, NothingHeld
    <2>. QED BY <2>1, <2>2, <2>3 DEF KeepsCopies
  <1>. QED BY <1>2, <1>3, ReplyCopy DEF LookupDid

LEMMA SelectCallbackCopy ==
    ASSUME TypeInv, NEW w \in Workers, SelectCallback(w)
    PROVE  KeepsCopies(w)
  <1>. DEFINE m == req[w].msg
              next(i) == [req[w] EXCEPT !.pc = "endpoint", !.callbackRef = i,
                                        !.callback = callbackSessions[i]]
  <1>1. /\ req[w] \in Request /\ req[w].pc = "select" /\ m \in Messages /\ m.type = "inbound"
        /\ callbackSessions \in Seq(CallbackRow) /\ now \in Nat
    BY DEF TypeInv, TypeOK, Shape, SelectCallback, At
  <1>2. \A i \in Newest(LiveWindows(m)) :
            i \in Windows /\ callbackSessions[i].status = "active"
    BY DEF Newest, LiveWindows, Matching, Windows
  <1>3. \A i \in Newest(LapsedWindows(m)) :
            i \in Windows /\ IsExpired(callbackSessions[i], now)
    BY DEF Newest, LapsedWindows, Matching, Windows
  <1>4. ASSUME NEW i \in Newest(LiveWindows(m)), Continue(w, next(i)) PROVE KeepsCopies(w)
    <2>1. /\ next(i).msg = m /\ next(i).callbackRef = i /\ next(i).pc = "endpoint"
          /\ next(i).callback = callbackSessions[i]
      BY <1>1 DEF Request
    <2>2. req' = [req EXCEPT ![w] = next(i)]
      BY <1>4 DEF Continue
    <2>3. PICK s : s = next(i)
      OBVIOUS
    <2>. HIDE DEF next
    <2>4. CopiesKept(req[w], s)
      <3>1. CallCopy(s, callSessions)
        BY <1>1, <2>1, <2>3 DEF CallCopy, HasCall
      <3>2. WindowCopy(s, callbackSessions)
        BY <1>1, <1>2, <2>1, <2>3 DEF WindowCopy, Windows
      <3>3. LapseCopy(req[w], callbackSessions, Events, now) => LapseCopy(s, callbackSessions, Events, now)
        BY <1>1, <1>2, <2>1, <2>3 DEF LapseCopy, Windows
      <3>. QED BY <3>1, <3>2, <3>3 DEF CopiesKept
    <2>. QED BY <2>2, <2>3, <2>4 DEF KeepsCopies
  <1>5. PICK r : r = req[w]
    OBVIOUS
  <1>6. ASSUME NEW s, s.msg = r.msg, s.callbackRef = None, req' = [req EXCEPT ![w] = s]
        PROVE  KeepsCopies(w)
    <2>1. CopiesKept(r, s)
      BY <1>1, <1>5, <1>6, NothingHeld
    <2>. QED BY <1>5, <1>6, <2>1 DEF KeepsCopies
  <1>7. ASSUME NEW i \in Newest(LapsedWindows(m)),
               Reject(w, "callback_expired", i, callbackSessions[i])
        PROVE  KeepsCopies(w)
    <2>1. i \in Windows /\ callbackSessions[i] \in CallbackRow
      BY <1>1, <1>3 DEF Windows
    <2>2. PICK window : window = callbackSessions[i]
      OBVIOUS
    <2>3. \/ /\ IsExpired(window, r.msg.at)
             /\ req' = [req EXCEPT ![w] = Lapsing(r, "callback_expired", i, window)]
          \/ \E s : /\ s.msg = r.msg /\ s.callbackRef = None
                    /\ req' = [req EXCEPT ![w] = s]
      BY <1>1, <1>5, <1>7, <2>2, RejectStep
    <2>4. CASE /\ IsExpired(window, r.msg.at)
               /\ req' = [req EXCEPT ![w] = Lapsing(r, "callback_expired", i, window)]
      <3>1. PICK s : s = Lapsing(r, "callback_expired", i, window)
        OBVIOUS
      <3>2. /\ CallCopy(s, callSessions)
            /\ window = callbackSessions[i] => WindowCopy(s, callbackSessions)
            /\ /\ window.expiresAt = callbackSessions[i].expiresAt
               /\ MayLapse(window, callbackSessions[i], "callback_expired")
               => LapseCopy(s, callbackSessions, Events, now)
        BY <1>1, <1>5, <2>1, <2>2, <2>4, <3>1, RejectCopy
      <3>3. ExpiredForAReject => MayLapse(window, callbackSessions[i], "callback_expired")
        BY <1>3, <2>1, <2>2 DEF ExpiredForAReject, MayLapse, Accounted, IsExpired
      <3>4. CopiesKept(r, s)
        BY <2>2, <3>2, <3>3 DEF CopiesKept
      <3>5. req' = [req EXCEPT ![w] = s]
        BY <2>4, <3>1
      <3>. QED BY <1>5, <3>4, <3>5 DEF KeepsCopies
    <2>. QED BY <1>6, <2>3, <2>4
  <1>8. CASE Reject(w, "callback_not_found", None, None)
    <2>1. \E s : /\ s.msg = r.msg /\ s.callbackRef = None
                 /\ req' = [req EXCEPT ![w] = s]
      BY <1>1, <1>5, <1>8, RejectStep
    <2>. QED BY <1>6, <2>1
  <1>. QED BY <1>4, <1>7, <1>8 DEF SelectCallback

\* Without an available endpoint the window, if lapsed, is saved all the same.
LEMMA ResolveEndpointCopy ==
    ASSUME TypeInv, NEW w \in Workers, ResolveEndpoint(w)
    PROVE  KeepsCopies(w)
  <1>. DEFINE next(e) == [req[w] EXCEPT !.pc = "reloadCallback", !.target = e,
                              !.reason = "matched_active_callback",
                              !.callback = CallbackRouted(req[w].callback, req[w].msg, e)]
  <1>1. PICK r : r = req[w]
    OBVIOUS
  <1>2. /\ r \in Request /\ r.pc = "endpoint" /\ r.msg \in Messages /\ r.msg.type = "inbound"
        /\ r.callback \in CallbackRow /\ now \in Nat
    BY <1>1 DEF TypeInv, TypeOK, Shape, ResolveEndpoint, At
  <1>3. ASSUME NEW e, Continue(w, next(e)) PROVE KeepsCopies(w)
    <2>1. PICK s : s = next(e)
      OBVIOUS
    <2>2. /\ s.msg = r.msg /\ s.callbackRef = r.callbackRef /\ s.pc = "reloadCallback"
          /\ s.target = e /\ s.reason = "matched_active_callback"
          /\ s.callback = CallbackRouted(r.callback, r.msg, e)
      BY <1>1, <1>2, <2>1 DEF Request
    <2>3. req' = [req EXCEPT ![w] = s]
      BY <1>3, <2>1 DEF Continue
    <2>4. CallCopy(s, callSessions)
      BY <1>2, <2>2 DEF CallCopy, HasCall
    <2>5. WindowCopy(r, callbackSessions) => WindowCopy(s, callbackSessions)
      BY <1>2, <2>2 DEF WindowCopy
    <2>6. LapseCopy(r, callbackSessions, Events, now) => LapseCopy(s, callbackSessions, Events, now)
      <3>1. s.callback.expiresAt = r.callback.expiresAt /\ s.callback.status = "routing"
        BY <1>2, <2>2, WindowFields
      <3>. QED BY <1>2, <2>2, <3>1 DEF LapseCopy
    <2>. QED BY <1>1, <2>3, <2>4, <2>5, <2>6 DEF KeepsCopies, CopiesKept
  <1>4. CASE Reject(w, "no_available_endpoint", r.callbackRef, r.callback)
    <2>1. \/ /\ r.callbackRef # None /\ IsExpired(r.callback, r.msg.at)
             /\ req' = [req EXCEPT ![w] =
                   Lapsing(r, "no_available_endpoint", r.callbackRef, r.callback)]
          \/ \E s : /\ s.msg = r.msg /\ s.callbackRef = None
                    /\ req' = [req EXCEPT ![w] = s]
      BY <1>1, <1>2, <1>4, RejectStep
    <2>2. ASSUME NEW s, s.msg = r.msg, s.callbackRef = None, req' = [req EXCEPT ![w] = s]
          PROVE  KeepsCopies(w)
      <3>1. CopiesKept(r, s)
        BY <1>2, <2>2, NothingHeld
      <3>. QED BY <1>1, <2>2, <3>1 DEF KeepsCopies
    <2>3. CASE /\ r.callbackRef # None /\ IsExpired(r.callback, r.msg.at)
               /\ req' = [req EXCEPT ![w] =
                     Lapsing(r, "no_available_endpoint", r.callbackRef, r.callback)]
      <3>1. PICK s : s = Lapsing(r, "no_available_endpoint", r.callbackRef, r.callback)
        OBVIOUS
      <3>2. CallCopy(s, callSessions)
        BY <1>2, <3>1 DEF CallCopy, HasCall, Lapsing, Request
      <3>3. CASE r.callbackRef \in Windows
        <4>1. PICK i \in Windows, window \in CallbackRow :
                  i = r.callbackRef /\ window = r.callback
          BY <1>2, <3>3
        <4>2. /\ window = callbackSessions[i] => WindowCopy(s, callbackSessions)
              /\ /\ window.expiresAt = callbackSessions[i].expiresAt
                 /\ MayLapse(window, callbackSessions[i], "no_available_endpoint")
                 => LapseCopy(s, callbackSessions, Events, now)
          BY <1>2, <2>3, <3>1, <4>1, RejectCopy
        <4>3. WindowCopy(r, callbackSessions) => window = callbackSessions[i]
          BY <1>2, <2>3, <4>1 DEF WindowCopy
        <4>4. LapseCopy(r, callbackSessions, Events, now) =>
                /\ window.expiresAt = callbackSessions[i].expiresAt
                /\ MayLapse(window, callbackSessions[i], "no_available_endpoint")
          BY <1>2, <2>3, <4>1 DEF LapseCopy, MayLapse
        <4>. QED BY <1>1, <2>3, <3>1, <3>2, <4>2, <4>3, <4>4 DEF KeepsCopies, CopiesKept
      <3>4. CASE r.callbackRef \notin Windows
        <4>1. ~WindowCopy(r, callbackSessions) /\ ~LapseCopy(r, callbackSessions, Events, now)
          BY <2>3, <3>4 DEF WindowCopy, LapseCopy, Windows
        <4>. QED BY <1>1, <2>3, <3>1, <3>2, <4>1 DEF KeepsCopies, CopiesKept
      <3>. QED BY <3>3, <3>4
    <2>. QED BY <2>1, <2>2, <2>3
  <1>. QED BY <1>1, <1>3, <1>4 DEF ResolveEndpoint

LEMMA LoadCallCopy ==
    ASSUME TypeInv, NEW w \in Workers, LoadCall(w)
    PROVE  KeepsCopies(w)
  <1>. DEFINE next == [req[w] EXCEPT !.call = callSessions[req[w].msg.call],
                           !.pc = IF req[w].msg.type = "status" THEN "loadCallback"
                                                               ELSE "insertEvent"]
  <1>1. PICK r : r = req[w]
    OBVIOUS
  <1>2. /\ r \in Request /\ r.pc = "loadCall" /\ r.msg \in Messages /\ r.msg.type # "inbound"
    BY <1>1 DEF TypeInv, TypeOK, Shape, LoadCall, At
  <1>3. CASE r.msg.call \in DOMAIN callSessions /\ Continue(w, next)
    <2>1. PICK s : s = next
      OBVIOUS
    <2>2. /\ s.msg = r.msg /\ s.callbackRef = r.callbackRef
          /\ s.pc = IF r.msg.type = "status" THEN "loadCallback" ELSE "insertEvent"
          /\ s.call = callSessions[r.msg.call]
      BY <1>1, <1>2, <2>1 DEF Request
    <2>3. req' = [req EXCEPT ![w] = s]
      BY <1>3, <2>1 DEF Continue
    <2>4. CallCopy(s, callSessions)
      BY <1>2, <1>3, <2>2 DEF CallCopy, HasCall
    <2>5. WindowCopy(r, callbackSessions) => WindowCopy(s, callbackSessions)
      BY <1>2, <2>2 DEF WindowCopy
    <2>6. LapseCopy(r, callbackSessions, Events, now) => LapseCopy(s, callbackSessions, Events, now)
      BY <1>2, <2>2 DEF LapseCopy
    <2>. QED BY <1>1, <2>3, <2>4, <2>5, <2>6 DEF KeepsCopies, CopiesKept
  <1>. QED BY <1>1, <1>3, ReplyCopy DEF LoadCall

LEMMA LoadCallbackCopy ==
    ASSUME TypeInv, NEW w \in Workers, LoadCallback(w)
    PROVE  KeepsCopies(w)
  <1>. DEFINE m == req[w].msg
              window == IF m.callback = None THEN None ELSE callbackSessions[m.callback]
              target == TargetFor(m, window, req[w].call)
              next == [req[w] EXCEPT !.pc = "insertEvent",
                           !.call = CallAfter(@, m, target), !.callbackRef = m.callback,
                           !.callback = IF window = None THEN None
                                                         ELSE CallbackAfter(window, m, target),
                           !.target = target]
  <1>1. PICK r : r = req[w]
    OBVIOUS
  <1>2. /\ r \in Request /\ r.pc = "loadCallback" /\ m \in Messages /\ m.type # "inbound"
        /\ callbackSessions \in Seq(CallbackRow)
    BY <1>1 DEF TypeInv, TypeOK, Shape, LoadCallback, At
  <1>3. CASE /\ m.callback = None \/ m.callback \in DOMAIN callbackSessions
             /\ Continue(w, next)
    <2>1. PICK s, t : s = next /\ t = target
      OBVIOUS
    <2>2. m.callback # None =>
            /\ m.callback \in Windows /\ callbackSessions[m.callback] \in CallbackRow
            /\ window = callbackSessions[m.callback] /\ window # None
      BY <1>2, <1>3, NullAssumption DEF Windows
    <2>3. /\ s.msg = m /\ s.callbackRef = m.callback /\ s.pc = "insertEvent" /\ s.target = t
          /\ s.call = CallAfter(r.call, m, t)
          /\ m.callback # None =>
                s.callback = CallbackAfter(callbackSessions[m.callback], m, t)
      BY <1>1, <1>2, <2>1, <2>2 DEF Request
    <2>4. req' = [req EXCEPT ![w] = s]
      BY <1>3, <2>1 DEF Continue
    <2>5. CallCopy(r, callSessions) => CallCopy(s, callSessions)
      <3>1. m.type \in {"status", "recording"}
        BY <1>2, MessageFields
      <3>. QED BY <1>1, <1>2, <2>3, <3>1 DEF CallCopy, HasCall
    <2>6. WindowCopy(s, callbackSessions)
      BY <1>1, <1>2, <2>2, <2>3 DEF WindowCopy, Windows
    <2>7. ExpiredForAReject /\ LapseCopy(r, callbackSessions, Events, now) =>
              LapseCopy(s, callbackSessions, Events, now)
      <3>1. ASSUME m.callback # None, ExpiredForAReject
            PROVE  /\ s.callback.expiresAt = callbackSessions[m.callback].expiresAt
                   /\ s.callback.status = "expired" =>
                        Accounted(callbackSessions[m.callback], Events, now)
        <4>1. PICK row \in CallbackRow : row = callbackSessions[m.callback]
          BY <2>2, <3>1
        <4>2. /\ s.callback.expiresAt = row.expiresAt
              /\ s.callback.status = WindowAfter(row.status, m.name)
          BY <2>3, <3>1, <4>1, WindowFields
        <4>3. s.callback.status = "expired" => row.status = "expired"
          BY <4>2 DEF WindowAfter
        <4>. QED BY <2>2, <3>1, <4>1, <4>2, <4>3 DEF ExpiredForAReject, Accounted
      <3>. QED BY <1>1, <1>2, <2>2, <2>3, <3>1 DEF LapseCopy, Windows
    <2>. QED BY <1>1, <2>4, <2>5, <2>6, <2>7 DEF KeepsCopies, CopiesKept
  <1>. QED BY <1>1, <1>3, ReplyCopy DEF LoadCallback

\* The statements of a transaction take the columns to write from the rows as
\* they are, and then lock what differs.
LEMMA InsertEventCopy ==
    ASSUME TypeInv, NEW w \in Workers, InsertEvent(w)
    PROVE  KeepsCopies(w)
  <1>. DEFINE next == [req[w] EXCEPT !.inserted = TRUE, !.pc = StepAfter(w, "insertEvent")]
  <1>1. PICK r : r = req[w]
    OBVIOUS
  <1>2. r \in Request /\ r.pc = "insertEvent"
    BY <1>1 DEF TypeInv, TypeOK, InsertEvent, At
  <1>3. CASE Continue(w, next)
    <2>1. PICK s : s = next
      OBVIOUS
    <2>2. s.pc = IF r.msg.type = "inbound" THEN "commit" ELSE "reloadCall"
      BY <1>1, <1>2, <2>1 DEF Request, StepAfter
    <2>3. /\ s.msg = r.msg /\ s.call = r.call /\ s.target = r.target
          /\ s.callCols = r.callCols /\ s.callLock = r.callLock
          /\ s.callbackRef = r.callbackRef /\ s.callback = r.callback /\ s.reason = r.reason
          /\ s.callbackCols = r.callbackCols /\ s.callbackLock = r.callbackLock
      BY <1>1, <1>2, <2>1 DEF Request
    <2>4. CallCopy(r, callSessions) => CallCopy(s, callSessions)
      BY <1>2, <2>2, <2>3 DEF CallCopy, HasCall
    <2>5. WindowCopy(r, callbackSessions) => WindowCopy(s, callbackSessions)
      BY <1>2, <2>2, <2>3 DEF WindowCopy
    <2>6. LapseCopy(r, callbackSessions, Events, now) => LapseCopy(s, callbackSessions, Events, now)
      BY <1>2, <2>2, <2>3 DEF LapseCopy, WillAccount
    <2>7. req' = [req EXCEPT ![w] = s]
      BY <1>3, <2>1 DEF Continue
    <2>. QED BY <1>1, <2>4, <2>5, <2>6, <2>7 DEF KeepsCopies, CopiesKept
  <1>. QED BY <1>3, ReplyCopy DEF InsertEvent

LEMMA ReloadCallCopy ==
    ASSUME TypeInv, NEW w \in Workers, ReloadCall(w)
    PROVE  KeepsCopies(w)
  <1>. DEFINE next == [req[w] EXCEPT !.pc = "updateCall",
                           !.callCols = CallDiff(req[w].call, callSessions[req[w].msg.call])]
  <1>1. PICK r, s : r = req[w] /\ s = next
    OBVIOUS
  <1>2. r \in Request /\ r.pc = "reloadCall" /\ r.msg.type # "inbound"
    BY <1>1 DEF TypeInv, TypeOK, Shape, ReloadCall, At
  <1>3. /\ s.pc = "updateCall" /\ s.callCols = CallDiff(r.call, callSessions[r.msg.call])
        /\ s.msg = r.msg /\ s.call = r.call /\ s.target = r.target
        /\ s.callbackRef = r.callbackRef /\ s.callback = r.callback /\ s.reason = r.reason
    BY <1>1, <1>2 DEF Request
  <1>4. CallCopy(r, callSessions) => CallCopy(s, callSessions)
    BY <1>2, <1>3 DEF CallCopy, HasCall
  <1>5. WindowCopy(r, callbackSessions) => WindowCopy(s, callbackSessions)
    BY <1>2, <1>3 DEF WindowCopy
  <1>6. LapseCopy(r, callbackSessions, Events, now) => LapseCopy(s, callbackSessions, Events, now)
    BY <1>2, <1>3 DEF LapseCopy, WillAccount
  <1>7. req' = [req EXCEPT ![w] = s]
    BY <1>1 DEF ReloadCall, Continue
  <1>. QED BY <1>1, <1>4, <1>5, <1>6, <1>7 DEF KeepsCopies, CopiesKept

LEMMA UpdateCallCopy ==
    ASSUME TypeInv, NEW w \in Workers, UpdateCall(w)
    PROVE  KeepsCopies(w)
  <1>. DEFINE unlocked == [req[w] EXCEPT !.pc = StepAfter(w, "updateCall")]
              locked == [req[w] EXCEPT !.pc = StepAfter(w, "updateCall"), !.callLock = TRUE]
  <1>1. PICK r : r = req[w]
    OBVIOUS
  <1>2. r \in Request /\ r.pc = "updateCall" /\ r.msg.type # "inbound"
    BY <1>1 DEF TypeInv, TypeOK, Shape, UpdateCall, At
  <1>3. PICK s : /\ req' = [req EXCEPT ![w] = s]
                 /\ (s = unlocked /\ r.callCols = {}) \/ s = locked
    BY <1>1 DEF UpdateCall, Continue
  <1>4. /\ s.pc \in {"reloadCallback", "commit"}
        /\ s.msg = r.msg /\ s.call = r.call /\ s.target = r.target /\ s.callCols = r.callCols
        /\ s.callbackRef = r.callbackRef /\ s.callback = r.callback /\ s.reason = r.reason
        /\ s.callLock \/ s.callCols = {}
    BY <1>1, <1>2, <1>3 DEF Request, StepAfter
  <1>5. CallCopy(r, callSessions) => CallCopy(s, callSessions)
    BY <1>2, <1>4 DEF CallCopy, HasCall
  <1>6. WindowCopy(r, callbackSessions) => WindowCopy(s, callbackSessions)
    BY <1>2, <1>4 DEF WindowCopy
  <1>7. LapseCopy(r, callbackSessions, Events, now) => LapseCopy(s, callbackSessions, Events, now)
    BY <1>2, <1>4 DEF LapseCopy, WillAccount
  <1>. QED BY <1>1, <1>3, <1>5, <1>6, <1>7 DEF KeepsCopies, CopiesKept

LEMMA ReloadCallbackCopy ==
    ASSUME TypeInv, NEW w \in Workers, ReloadCallback(w)
    PROVE  KeepsCopies(w)
  <1>. DEFINE next == [req[w] EXCEPT !.pc = "updateCallback",
                           !.callbackCols = CallbackDiff(req[w].callback,
                                                callbackSessions[req[w].callbackRef])]
  <1>1. PICK r, s : r = req[w] /\ s = next
    OBVIOUS
  <1>2. /\ r \in Request /\ r.pc = "reloadCallback" /\ callbackSessions \in Seq(CallbackRow)
    BY <1>1 DEF TypeInv, TypeOK, ReloadCallback, At
  <1>3. /\ s.pc = "updateCallback"
        /\ s.callbackCols = CallbackDiff(r.callback, callbackSessions[r.callbackRef])
        /\ s.msg = r.msg /\ s.call = r.call /\ s.target = r.target
        /\ s.callCols = r.callCols /\ s.callLock = r.callLock
        /\ s.callbackRef = r.callbackRef /\ s.callback = r.callback /\ s.reason = r.reason
    BY <1>1, <1>2 DEF Request
  <1>4. CallCopy(r, callSessions) => CallCopy(s, callSessions)
    BY <1>2, <1>3 DEF CallCopy, HasCall
  <1>5. ASSUME WindowCopy(r, callbackSessions) PROVE WindowCopy(s, callbackSessions)
    <2>1. ASSUME r.callbackRef # None, r.msg.type = "inbound",
                 r.reason = "matched_active_callback"
          PROVE  "status" \in s.callbackCols
      <3>1. PICK row \in CallbackRow : row = callbackSessions[r.callbackRef]
        BY <1>2, <1>5, <2>1 DEF WindowCopy
      <3>2. row.status = "active" /\ r.callback = CallbackRouted(row, r.msg, r.target)
        BY <1>2, <1>5, <2>1, <3>1 DEF WindowCopy
      <3>3. r.callback.status = "routing"
        BY <3>2, WindowFields
      <3>. QED BY <1>3, <3>1, <3>2, <3>3 DEF CallbackDiff, CallbackColumn
    <2>. QED BY <1>2, <1>3, <1>5, <2>1 DEF WindowCopy
  <1>6. LapseCopy(r, callbackSessions, Events, now) => LapseCopy(s, callbackSessions, Events, now)
    BY <1>2, <1>3 DEF LapseCopy, WillAccount
  <1>7. req' = [req EXCEPT ![w] = s]
    BY <1>1 DEF ReloadCallback, Continue
  <1>. QED BY <1>1, <1>4, <1>5, <1>6, <1>7 DEF KeepsCopies, CopiesKept

LEMMA UpdateCallbackCopy ==
    ASSUME TypeInv, NEW w \in Workers, UpdateCallback(w)
    PROVE  KeepsCopies(w)
  <1>. DEFINE unlocked == [req[w] EXCEPT !.pc = StepAfter(w, "updateCallback")]
              locked == [req[w] EXCEPT !.pc = StepAfter(w, "updateCallback"),
                                       !.callbackLock = TRUE]
  <1>1. PICK r : r = req[w]
    OBVIOUS
  <1>2. r \in Request /\ r.pc = "updateCallback"
    BY <1>1 DEF TypeInv, TypeOK, UpdateCallback, At
  <1>3. ASSUME NEW s, req' = [req EXCEPT ![w] = s],
               (s = unlocked /\ r.callbackCols = {}) \/ s = locked
        PROVE  KeepsCopies(w)
    <2>1. /\ s.pc = IF r.msg.type = "inbound" THEN "insertEvent" ELSE "commit"
          /\ s.msg = r.msg /\ s.call = r.call /\ s.target = r.target
          /\ s.callCols = r.callCols /\ s.callLock = r.callLock
          /\ s.callbackRef = r.callbackRef /\ s.callback = r.callback /\ s.reason = r.reason
          /\ s.callbackCols = r.callbackCols
          /\ s.callbackLock \/ s.callbackCols = {}
      BY <1>1, <1>2, <1>3 DEF Request, StepAfter
    <2>2. CallCopy(r, callSessions) => CallCopy(s, callSessions)
      BY <1>2, <2>1 DEF CallCopy, HasCall
    <2>3. WindowCopy(r, callbackSessions) => WindowCopy(s, callbackSessions)
      BY <1>2, <2>1 DEF WindowCopy
    <2>4. LapseCopy(r, callbackSessions, Events, now) => LapseCopy(s, callbackSessions, Events, now)
      BY <1>2, <2>1 DEF LapseCopy, WillAccount
    <2>. QED BY <1>1, <1>3, <2>2, <2>3, <2>4 DEF KeepsCopies, CopiesKept
  <1>4. \/ Reply(w, Plain("internal_error"))
        \/ r.callbackCols = {} /\ req' = [req EXCEPT ![w] = unlocked]
        \/ req' = [req EXCEPT ![w] = locked]
    BY <1>1 DEF UpdateCallback, Continue
  <1>. QED BY <1>3, <1>4, ReplyCopy

\* Every step that leaves the tables alone keeps the copies.
LEMMA StepCopies ==
    ASSUME TypeInv, NEW w \in Workers,
           \/ LookupDid(w) \/ SelectCallback(w) \/ ResolveEndpoint(w)
           \/ LoadCall(w) \/ LoadCallback(w) \/ InsertEvent(w)
           \/ ReloadCall(w) \/ UpdateCall(w) \/ ReloadCallback(w) \/ UpdateCallback(w)
           \/ Fail(w) \/ \E m \in Messages : Deliver(w, m)
    PROVE  KeepsCopies(w) /\ UNCHANGED <<tables, now>>
  <1>1. UNCHANGED <<tables, now>>
    BY DEF LookupDid, SelectCallback, ResolveEndpoint, LoadCall, LoadCallback, InsertEvent,
           ReloadCall, UpdateCall, ReloadCallback, UpdateCallback, Fail, Deliver, environment
  <1>2. CASE Fail(w)
    BY <1>2, ReplyCopy DEF Fail
  <1>3. ASSUME NEW m \in Messages, Deliver(w, m) PROVE KeepsCopies(w)
    <2>1. PICK s : s = [Idle EXCEPT !.pc = IF m.type = "inbound" THEN "lookup" ELSE "loadCall",
                                    !.msg = m]
      OBVIOUS
    <2>2. req[w] = Idle /\ req' = [req EXCEPT ![w] = s]
      BY <1>3, <2>1 DEF Deliver, Continue, At, TypeInv, Shape
    <2>3. CopiesKept(Idle, s)
      BY <2>1, <2>2, DeliverCopy
    <2>. QED BY <2>2, <2>3 DEF KeepsCopies
  <1>. QED BY <1>1, <1>2, <1>3, LookupDidCopy, SelectCallbackCopy, ResolveEndpointCopy,
           LoadCallCopy, LoadCallbackCopy, InsertEventCopy, ReloadCallCopy, UpdateCallCopy,
           ReloadCallbackCopy, UpdateCallbackCopy

\* Copies stay what they are while the row they are of does.
LEMMA CallCopyKept ==
    ASSUME NEW r, NEW calls, NEW later, CallCopy(r, calls),
           HasCall(r) /\ r.msg.call \in DOMAIN calls =>
               r.msg.call \in DOMAIN later /\ later[r.msg.call] = calls[r.msg.call]
    PROVE  CallCopy(r, later)
  BY DEF CallCopy

LEMMA WindowCopyKept ==
    ASSUME NEW r, NEW windows, NEW later, WindowCopy(r, windows),
           r.callbackRef # None /\ r.callbackRef \in DOMAIN windows =>
               /\ r.callbackRef \in DOMAIN later
               /\ later[r.callbackRef] = windows[r.callbackRef]
    PROVE  WindowCopy(r, later)
  BY DEF WindowCopy

\* What accounts for a window goes on to, whatever is added.
LEMMA AccountedKept ==
    ASSUME NEW row \in CallbackRow, NEW later, NEW events, NEW more,
           NEW t \in Nat, NEW u \in Nat, t <= u, events \subseteq more,
           later.did = row.did, later.remote = row.remote, later.expiresAt = row.expiresAt
    PROVE  /\ Accounted(row, events, t) => Accounted(later, more, u)
           /\ \A r : WillAccount(r, row, t) => WillAccount(r, later, u)
  <1>1. row.expiresAt \in Nat
    BY DEF CallbackRow
  <1>. QED BY <1>1 DEF Accounted, WillAccount, AccountsFor

LEMMA LapseCopyKept ==
    ASSUME NEW r, NEW windows \in Seq(CallbackRow), NEW later, NEW events, NEW more,
           NEW t \in Nat, NEW u \in Nat, t <= u, events \subseteq more,
           LapseCopy(r, windows, events, t),
           \A i \in DOMAIN windows : /\ i \in DOMAIN later
                                     /\ later[i].did = windows[i].did
                                     /\ later[i].remote = windows[i].remote
                                     /\ later[i].expiresAt = windows[i].expiresAt
    PROVE  LapseCopy(r, later, more, u)
  <1>1. ASSUME r.callbackRef # None
        PROVE  /\ r.callbackRef \in DOMAIN later
               /\ r.callback.expiresAt = later[r.callbackRef].expiresAt
               /\ r.callback.status = "expired" =>
                     \/ Accounted(later[r.callbackRef], more, u)
                     \/ WillAccount(r, later[r.callbackRef], u)
    <2>1. r.callbackRef \in DOMAIN windows
      BY <1>1 DEF LapseCopy
    <2>2. PICK row \in CallbackRow : row = windows[r.callbackRef]
      BY <2>1
    <2>3. PICK new : new = later[r.callbackRef]
      OBVIOUS
    <2>4. new.did = row.did /\ new.remote = row.remote /\ new.expiresAt = row.expiresAt
      BY <2>1, <2>2, <2>3
    <2>5. /\ Accounted(row, events, t) => Accounted(new, more, u)
          /\ WillAccount(r, row, t) => WillAccount(r, new, u)
      BY <2>4, AccountedKept
    <2>. QED BY <1>1, <2>1, <2>2, <2>3, <2>4, <2>5 DEF LapseCopy
  <1>. QED BY <1>1 DEF LapseCopy

-----------------------------------------------------------------------------
(* What a commit does to the rows.                                         *)

LEMMA StatusAfterFacts ==
    ASSUME NEW current \in CallStatus, NEW name
    PROVE  /\ StatusAfter(current, name) \in CallStatus
           /\ Rank[StatusAfter(current, name)] >= Rank[current]
           /\ Rank[StatusAfter(current, name)] >= Rank[ReportedStatus(name)]
           /\ current \in TerminalCallStatus => StatusAfter(current, name) = current
           /\ StatusAfter(current, name) \in TerminalCallStatus =>
                current \in TerminalCallStatus \/ ReportedStatus(name) \in TerminalCallStatus
  <1>1. ReportedStatus(name) \in CallStatus
    BY DEF ReportedStatus, CallStatus
  <1>2. \A s \in CallStatus : Rank[s] \in 0 .. 5 /\ (s \in TerminalCallStatus => Rank[s] = 5)
    BY DEF Rank, CallStatus, TerminalCallStatus
  <1>3. \A s \in CallStatus : Rank[s] = 5 => s \in TerminalCallStatus
    BY DEF Rank, CallStatus, TerminalCallStatus
  <1>. PICK next \in CallStatus : next = ReportedStatus(name)
    BY <1>1
  <1>4. StatusAfter(current, name) = IF ShouldApply(current, next) THEN next ELSE current
    BY DEF StatusAfter
  <1>. QED BY <1>2, <1>4 DEF ShouldApply

LEMMA CallAfterFields ==
    \A m, target : \A call \in CallRow :
        /\ CallAfter(call, m, target).status = StatusAfter(call.status, m.name)
        /\ CallAfter(call, m, target).ended =
              (call.ended \/ m.ended \/ ReportedStatus(m.name) \in TerminalCallStatus)
  BY DEF CallAfter, CallRow

ReportsOn(m, c) == m.type = "status" /\ c = m.call

\* Without a stale copy a commit does to the call of its report what the report
\* says, and leaves every other call alone.
LEMMA CommitCalls ==
    ASSUME TypeInv, NEW w \in Workers, Commit(w), CallCopy(req[w], callSessions)
    PROVE  LET m == req[w].msg IN
           /\ Calls \subseteq Calls'
           /\ \A c \in Calls' \ Calls : callSessions'[c].status = "dispatching"
           /\ \A c \in Calls : m.type = "inbound" \/ c # m.call =>
                  callSessions'[c] = callSessions[c]
           /\ \A c \in Calls :
                /\ callSessions'[c].status =
                      IF ReportsOn(m, c) THEN StatusAfter(callSessions[c].status, m.name)
                                    ELSE callSessions[c].status
                /\ callSessions'[c].ended <=>
                      IF ReportsOn(m, c) THEN \/ callSessions[c].ended \/ m.ended
                                         \/ ReportedStatus(m.name) \in TerminalCallStatus
                                    ELSE callSessions[c].ended
  <1>. DEFINE m == req[w].msg
  <1>1. PICK r : r = req[w]
    OBVIOUS
  <1>2. /\ r.pc = "commit" /\ m \in Messages /\ m.type \in {"inbound", "status", "recording"}
        /\ callSessions \in Seq(CallRow) /\ r \in Request
    BY <1>1, MessageFields DEF TypeInv, TypeOK, Shape, Commit, At
  <1>3. CASE m.type = "inbound"
    <2>1. callSessions' = callSessions \/ callSessions' = Append(callSessions, InboundCall(w))
      BY <1>3 DEF Commit
    <2>2. InboundCall(w).status = "dispatching"
      BY DEF InboundCall
    <2>3. /\ Calls \subseteq Calls'
          /\ \A c \in Calls' \ Calls : callSessions'[c].status = "dispatching"
          /\ \A c \in Calls : callSessions'[c] = callSessions[c]
      BY <1>2, <2>1, <2>2 DEF Calls
    <2>. QED BY <1>3, <2>3 DEF ReportsOn
  <1>4. CASE m.type # "inbound"
    <2>1. callSessions' = SavedCalls(w)
      BY <1>4 DEF Commit
    <2>2. PICK row : row = callSessions[m.call]
      OBVIOUS
    <2>3. /\ m.call \in Calls /\ row \in CallRow
          /\ r.call = IF m.type = "status" THEN CallAfter(row, m, r.target) ELSE row
          /\ r.callCols = CallDiff(r.call, row)
          /\ r.callLock \/ r.callCols = {}
      BY <1>1, <1>2, <1>4, <2>2 DEF CallCopy, HasCall, Calls
    <2>4. /\ Calls' = Calls
          /\ \A c \in Calls : c # m.call => callSessions'[c] = callSessions[c]
      BY <1>2, <2>1 DEF SavedCalls, Calls
    <2>5. /\ callSessions'[m.call].status = r.call.status
          /\ callSessions'[m.call].ended = r.call.ended
      <3>1. CASE r.callLock
        <4>1. callSessions'[m.call] = CallOverlay(row, r.call, r.callCols)
          BY <1>1, <1>2, <2>1, <2>2, <2>3, <3>1 DEF SavedCalls, Calls
        <4>2. /\ callSessions'[m.call].status =
                    (IF "status" \in r.callCols THEN r.call.status ELSE row.status)
              /\ callSessions'[m.call].ended =
                    (IF "ended" \in r.callCols THEN r.call.ended ELSE row.ended)
          BY <2>3, <4>1 DEF CallOverlay, CallRow
        <4>. QED BY <2>3, <4>2 DEF CallDiff, CallColumn
      <3>2. CASE ~r.callLock
        <4>1. callSessions'[m.call] = row
          BY <1>1, <2>1, <2>2, <3>2 DEF SavedCalls
        <4>2. "status" \notin CallDiff(r.call, row) /\ "ended" \notin CallDiff(r.call, row)
          BY <2>3, <3>2
        <4>. QED BY <4>1, <4>2 DEF CallDiff, CallColumn
      <3>. QED BY <3>1, <3>2
    <2>6. CASE m.type = "status"
      <3>1. /\ r.call.status = StatusAfter(row.status, m.name)
            /\ r.call.ended = (row.ended \/ m.ended
                                 \/ ReportedStatus(m.name) \in TerminalCallStatus)
        BY <2>3, <2>6, CallAfterFields
      <3>. QED BY <2>2, <2>3, <2>4, <2>5, <2>6, <3>1 DEF ReportsOn
    <2>7. CASE m.type # "status"
      <3>1. r.call = row
        BY <2>3, <2>7
      <3>2. \A c \in Calls : /\ ~ReportsOn(m, c)
                             /\ callSessions'[c].status = callSessions[c].status
                             /\ callSessions'[c].ended = callSessions[c].ended
        BY <2>2, <2>4, <2>5, <2>7, <3>1 DEF ReportsOn
      <3>. QED BY <1>4, <2>4, <3>2
    <2>. QED BY <2>6, <2>7
  <1>. QED BY <1>3, <1>4

\* A commit writes at most the window its request holds.
LEMMA CommitWindows ==
    ASSUME TypeInv, NEW w \in Workers, Commit(w)
    PROVE  LET r == req[w] IN
           /\ Windows' = Windows
           /\ \A i \in Windows :
                /\ callbackSessions'[i].expiresAt = callbackSessions[i].expiresAt
                /\ i # r.callbackRef => callbackSessions'[i] = callbackSessions[i]
                /\ \/ callbackSessions'[i].status = callbackSessions[i].status
                   \/ callbackSessions'[i].status = r.callback.status
                /\ i = r.callbackRef /\ r.callbackLock /\ "status" \in r.callbackCols =>
                      callbackSessions'[i].status = r.callback.status
  <1>1. PICK r : r = req[w]
    OBVIOUS
  <1>2. callbackSessions \in Seq(CallbackRow) /\ callbackSessions' = SavedCallbacks(w)
    BY DEF TypeInv, TypeOK, Commit
  <1>3. CASE ~r.callbackLock
    BY <1>1, <1>2, <1>3 DEF SavedCallbacks, Windows
  <1>4. CASE r.callbackLock
    <2>1. callbackSessions' = [callbackSessions EXCEPT ![r.callbackRef] =
                                  CallbackOverlay(@, r.callback, r.callbackCols)]
      BY <1>1, <1>2, <1>4 DEF SavedCallbacks
    <2>2. /\ Windows' = Windows
          /\ \A i \in Windows : i # r.callbackRef => callbackSessions'[i] = callbackSessions[i]
      BY <1>2, <2>1 DEF Windows
    <2>3. ASSUME NEW i \in Windows, i = r.callbackRef
          PROVE  /\ callbackSessions'[i].expiresAt = callbackSessions[i].expiresAt
                 /\ callbackSessions'[i].status =
                      (IF "status" \in r.callbackCols THEN r.callback.status
                                                      ELSE callbackSessions[i].status)
      <3>1. PICK row \in CallbackRow : row = callbackSessions[i]
        BY <1>2, <2>3 DEF Windows
      <3>2. callbackSessions'[i] = CallbackOverlay(row, r.callback, r.callbackCols)
        BY <1>2, <2>1, <2>3, <3>1 DEF Windows
      <3>. QED BY <3>1, <3>2 DEF CallbackOverlay, CallbackRow
    <2>. QED BY <1>1, <2>2, <2>3
  <1>. QED BY <1>3, <1>4

\* The kinds of steps: one that leaves the tables alone and keeps the copies, a
\* commit, a new outbound call.
Still ==
    /\ UNCHANGED tables
    /\ now' \in Nat /\ now <= now'
    /\ \A v \in Workers : req'[v] = req[v] \/ (now' = now /\ CopiesKept(req[v], req'[v]))

LEMMA StepKinds ==
    ASSUME TypeInv, [Next]_vars
    PROVE  \/ Still
           \/ \E w \in Workers : Commit(w)
           \/ \E o \in OutboundRequests : CreateOutboundCall(o[1], o[2], o[3])
  <1>1. now \in Nat /\ req \in [Workers -> Request]
    BY DEF TypeInv, TypeOK
  <1>2. ASSUME NEW w \in Workers, KeepsCopies(w) /\ UNCHANGED <<tables, now>> PROVE Still
    <2>1. PICK s : req' = [req EXCEPT ![w] = s] /\ CopiesKept(req[w], s)
      BY <1>2 DEF KeepsCopies
    <2>2. ASSUME NEW v \in Workers PROVE req'[v] = req[v] \/ CopiesKept(req[v], req'[v])
      <3>1. PICK t : t = req'[v]
        OBVIOUS
      <3>2. CASE v = w
        BY <1>1, <2>1, <3>1, <3>2
      <3>3. CASE v # w
        BY <1>1, <2>1, <3>3
      <3>. QED BY <3>2, <3>3
    <2>. QED BY <1>1, <1>2, <2>2 DEF Still
  <1>3. ASSUME UNCHANGED <<tables, req>>, now' = now \/ now' = now + 1 PROVE Still
    BY <1>1, <1>3 DEF Still
  <1>4. CASE Crash
    <2>1. \A v \in Workers : CopiesKept(req[v], req'[v])
      <3>1. ASSUME NEW v \in Workers PROVE CopiesKept(req[v], req'[v])
        <4>1. PICK r, s : r = req[v] /\ s = req'[v]
          OBVIOUS
        <4>2. s = Idle
          BY <1>4, <4>1 DEF Crash
        <4>3. CopiesKept(r, s)
          BY <4>2, IdleKept
        <4>. QED BY <4>1, <4>3
      <3>. QED BY <3>1
    <2>. QED BY <1>1, <1>4, <2>1 DEF Still, Crash
  <1>5. CASE UNCHANGED vars
    BY <1>3, <1>5 DEF vars, environment
  <1>6. CASE Tick \/ SwitchTenant \/ (\E d \in SwitchableDids : SwitchDid(d))
               \/ (\E e \in SwitchableEndpoints : SwitchEndpoint(e))
    BY <1>3, <1>6 DEF Tick, SwitchTenant, SwitchDid, SwitchEndpoint
  <1>7. ASSUME NEW w \in Workers, NEW m \in Messages, DeliverAgain(w, m) PROVE Still
    BY <1>3, <1>7 DEF DeliverAgain, environment
  <1>8. ASSUME NEW w \in Workers, Serve(w) \/ Fail(w) \/ \E m \in Messages : Deliver(w, m)
        PROVE  Still \/ Commit(w)
    BY <1>2, <1>8, StepCopies DEF Serve
  <1>. QED BY <1>4, <1>5, <1>6, <1>7, <1>8 DEF Next

-----------------------------------------------------------------------------
(* Calls that no two requests have loaded.                                 *)

ReportedCallsExist == \A e \in Events : e.key[1] \in StatusEvent => e.call \in Calls

CallInv ==
    /\ StatusCoversEvents /\ ReportedCallsExist /\ TerminalCallHasEnded
    /\ \A w \in Workers : CallCopy(req[w], callSessions)

\* What a step may do to a call.
CallMoves(c) ==
    /\ callSessions[c].status \in TerminalCallStatus =>
          callSessions'[c].status = callSessions[c].status
    /\ Rank[callSessions[c].status] <= Rank[callSessions'[c].status]
    /\ (callSessions[c].status \in TerminalCallStatus => callSessions[c].ended) =>
          (callSessions'[c].status \in TerminalCallStatus => callSessions'[c].ended)

NewCallsAreOpen == \A c \in Calls' \ Calls : callSessions'[c].status \notin TerminalCallStatus

CallsMove == \A c \in Calls : c \in Calls' /\ CallMoves(c)

LEMMA RankType == \A s \in CallStatus : Rank[s] \in Nat
  BY DEF Rank, CallStatus

LEMMA SameCallMoves ==
    ASSUME TypeInv, NEW c \in Calls, callSessions'[c] = callSessions[c]
    PROVE  CallMoves(c)
  <1>1. callSessions[c] \in CallRow
    BY DEF TypeInv, TypeOK, Calls
  <1>2. callSessions[c].status \in CallStatus
    BY <1>1 DEF CallRow
  <1>3. Rank[callSessions[c].status] \in Nat
    BY <1>2, RankType
  <1>. QED BY <1>3 DEF CallMoves

LEMMA CommitMoves ==
    ASSUME TypeInv, NEW w \in Workers, Commit(w), CallCopy(req[w], callSessions)
    PROVE  CallsMove
  <1>. DEFINE m == req[w].msg
  <1>1. m \in Messages /\ callSessions \in Seq(CallRow)
    BY DEF TypeInv, TypeOK, Shape, Commit, At
  <1>2. ASSUME NEW c \in Calls PROVE CallMoves(c)
    <2>1. PICK row \in CallRow : row = callSessions[c]
      BY <1>1 DEF Calls
    <2>2. row.status \in CallStatus /\ row.ended \in BOOLEAN
      BY <2>1 DEF CallRow
    <2>3. /\ callSessions'[c].status = IF ReportsOn(m, c) THEN StatusAfter(row.status, m.name)
                                                        ELSE row.status
          /\ callSessions'[c].ended <=>
                IF ReportsOn(m, c) THEN \/ row.ended \/ m.ended
                                        \/ ReportedStatus(m.name) \in TerminalCallStatus
                                   ELSE row.ended
      BY <2>1, CommitCalls
    <2>4. /\ Rank[row.status] \in Nat
          /\ Rank[StatusAfter(row.status, m.name)] >= Rank[row.status]
          /\ row.status \in TerminalCallStatus => StatusAfter(row.status, m.name) = row.status
          /\ StatusAfter(row.status, m.name) \in TerminalCallStatus =>
                row.status \in TerminalCallStatus
                  \/ ReportedStatus(m.name) \in TerminalCallStatus
      BY <2>2, StatusAfterFacts, RankType
    <2>. QED BY <2>1, <2>3, <2>4 DEF CallMoves
  <1>. QED BY <1>2, CommitCalls DEF CallsMove

LEMMA StepMoves ==
    ASSUME TypeInv, \A w \in Workers : CallCopy(req[w], callSessions), [Next]_vars
    PROVE  CallsMove
  <1>1. ASSUME NEW w \in Workers, Commit(w) PROVE CallsMove
    BY <1>1, CommitMoves
  <1>2. CASE Still
    BY <1>2, SameCallMoves DEF Still, tables, CallsMove, Calls
  <1>3. ASSUME NEW o \in OutboundRequests, CreateOutboundCall(o[1], o[2], o[3]) PROVE CallsMove
    <2>1. Calls \subseteq Calls' /\ \A c \in Calls : callSessions'[c] = callSessions[c]
      BY <1>3, CreateOutboundCallRows
    <2>. QED BY <2>1, SameCallMoves DEF CallsMove
  <1>. QED BY <1>1, <1>2, <1>3, StepKinds

\* The copies stay true to the rows as long as no other request saves the call.
LEMMA StepCallCopies ==
    ASSUME TypeInv, CallsAlone, \A w \in Workers : CallCopy(req[w], callSessions), [Next]_vars,
           NEW v \in Workers
    PROVE  CallCopy(req[v], callSessions)'
  <1>1. PICK r, s : r = req[v] /\ s = req'[v] /\ CallCopy(r, callSessions)
    OBVIOUS
  <1>2. CASE Still
    BY <1>1, <1>2 DEF Still, tables, CopiesKept
  <1>3. ASSUME NEW w \in Workers, Commit(w) PROVE CallCopy(s, callSessions')
    <2>1. req' = [req EXCEPT ![w] = Idle] /\ At(w, "commit")
      BY <1>3, CommitRows DEF Commit
    <2>2. CASE v = w
      <3>1. s = Idle
        BY <1>1, <2>1, <2>2 DEF TypeInv, TypeOK
      <3>. QED BY <3>1, IdleCopy
    <2>3. CASE v # w
      <3>1. s = r
        BY <1>1, <2>1, <2>3
      <3>2. HasCall(r) => req[w].msg.type = "inbound" \/ r.msg.call # req[w].msg.call
        BY <1>1, <2>1, <2>3 DEF CallsAlone, HasCall, At
      <3>3. \A c \in Calls : /\ c \in Calls'
                             /\ req[w].msg.type = "inbound" \/ c # req[w].msg.call =>
                                   callSessions'[c] = callSessions[c]
        BY <1>3, CommitCalls
      <3>. QED BY <1>1, <3>1, <3>2, <3>3, CallCopyKept DEF Calls
    <2>. QED BY <2>2, <2>3
  <1>4. ASSUME NEW o \in OutboundRequests, CreateOutboundCall(o[1], o[2], o[3])
        PROVE  CallCopy(s, callSessions')
    <2>1. /\ s = r
          /\ \A c \in Calls : c \in Calls' /\ callSessions'[c] = callSessions[c]
      BY <1>1, <1>4, CreateOutboundCallRows
    <2>. QED BY <1>1, <2>1, CallCopyKept DEF Calls
  <1>. QED BY <1>1, <1>2, <1>3, <1>4, StepKinds

\* The event a commit records is of its own message.
LEMMA CommitEvents ==
    ASSUME TypeInv, NEW w \in Workers, Commit(w), CallCopy(req[w], callSessions),
           NEW e \in Events', e \notin Events, e.key[1] \in StatusEvent
    PROVE  LET m == req[w].msg IN
           m.type = "status" /\ e.call = m.call /\ e.key[1] = m.name /\ m.call \in Calls
  <1>. DEFINE m == req[w].msg
  <1>1. m \in Messages /\ m \in Message /\ IsABag(callEvents)
    BY ConstantsAssumption DEF TypeInv, TypeOK, Shape, Commit, At, ConstantsAssumption
  <1>2. PICK call : callEvents' = InsertedEvent(EventOf(w, call)) /\ (m.type # "inbound" => call = m.call)
    BY DEF Commit
  <1>3. PICK row : row = EventOf(w, call)
    OBVIOUS
  <1>4. Events' = Events \union {row}
    BY <1>1, <1>2, <1>3, AddEvent DEF InsertedEvent, Events
  <1>5. e = row /\ row.key[1] = m.name /\ row.call = call
    BY <1>3, <1>4 DEF EventOf, KeyOf
  <1>6. m.type = "status"
    BY <1>1, <1>5 DEF Message, StatusEvent, OutboundStatusEvent, CallbackStatusEvent,
                      RecordingEvent
  <1>7. m.call \in Calls
    BY <1>6 DEF CallCopy, HasCall, Commit, At, Calls
  <1>. QED BY <1>2, <1>5, <1>6, <1>7

LEMMA StepCalls ==
    TypeInv /\ TypeInv' /\ CallsAlone /\ CallInv /\ [Next]_vars => CallInv'
  <1>1. SUFFICES ASSUME TypeInv, TypeInv', CallsAlone, CallInv, [Next]_vars PROVE CallInv'
    OBVIOUS
  <1>2. CallsMove /\ \A w \in Workers : CallCopy(req[w], callSessions)'
    BY <1>1, StepMoves, StepCallCopies DEF CallInv
  <1>3. /\ \A c \in Calls : callSessions[c].status \in CallStatus
        /\ \A c \in Calls' : callSessions'[c].status \in CallStatus
    <2>1. /\ \A c \in Calls : callSessions[c] \in CallRow
          /\ \A c \in Calls' : callSessions'[c] \in CallRow
      BY <1>1 DEF TypeInv, TypeOK, Calls
    <2>. QED BY <2>1 DEF CallRow
  <1>4. NewCallsAreOpen
    <2>1. CASE Still
      BY <2>1 DEF Still, tables, Calls, NewCallsAreOpen
    <2>2. ASSUME NEW w \in Workers, Commit(w) PROVE NewCallsAreOpen
      <3>1. \A c \in Calls' \ Calls : callSessions'[c].status = "dispatching"
        BY <1>1, <2>2, CommitCalls DEF CallInv
      <3>. QED BY <3>1 DEF TerminalCallStatus, NewCallsAreOpen
    <2>3. ASSUME NEW o \in OutboundRequests, CreateOutboundCall(o[1], o[2], o[3]) PROVE NewCallsAreOpen
      BY <1>1, <2>3, CreateOutboundCallRows DEF TerminalCallStatus, NewCallsAreOpen
    <2>. QED BY <1>1, <2>1, <2>2, <2>3, StepKinds
  <1>5. TerminalCallHasEnded'
    BY <1>1, <1>2, <1>4 DEF CallInv, TerminalCallHasEnded, CallsMove, CallMoves, NewCallsAreOpen
  <1>6. ASSUME NEW e \in Events', e.key[1] \in StatusEvent
        PROVE  /\ e.call \in Calls'
               /\ Rank[ReportedStatus(e.key[1])] <= Rank[callSessions'[e.call].status]
    <2>1. \A name : Rank[ReportedStatus(name)] \in Nat
      BY RankType DEF ReportedStatus, CallStatus
    <2>2. CASE e \in Events
      <3>1. /\ e.call \in Calls
            /\ Rank[ReportedStatus(e.key[1])] <= Rank[callSessions[e.call].status]
        BY <1>1, <1>6, <2>2 DEF CallInv, StatusCoversEvents, ReportedCallsExist
      <3>2. /\ e.call \in Calls'
            /\ Rank[callSessions[e.call].status] <= Rank[callSessions'[e.call].status]
        BY <1>2, <3>1 DEF CallsMove, CallMoves
      <3>3. /\ Rank[callSessions[e.call].status] \in Nat
            /\ Rank[callSessions'[e.call].status] \in Nat
        BY <1>3, <3>1, <3>2, RankType
      <3>. QED BY <2>1, <3>1, <3>2, <3>3
    <2>3. CASE e \notin Events
      <3>1. ASSUME NEW w \in Workers, Commit(w)
            PROVE  /\ e.call \in Calls'
                   /\ Rank[ReportedStatus(e.key[1])] <= Rank[callSessions'[e.call].status]
        <4>1. PICK m : m = req[w].msg
          OBVIOUS
        <4>2. m.type = "status" /\ e.call = m.call /\ e.key[1] = m.name /\ m.call \in Calls
          BY <1>1, <1>6, <2>3, <3>1, <4>1, CommitEvents DEF CallInv
        <4>3. callSessions'[m.call].status = StatusAfter(callSessions[m.call].status, m.name)
          BY <1>1, <3>1, <4>1, <4>2, CommitCalls DEF CallInv, ReportsOn
        <4>4. /\ Rank[StatusAfter(callSessions[m.call].status, m.name)]
                    >= Rank[ReportedStatus(m.name)]
              /\ Rank[StatusAfter(callSessions[m.call].status, m.name)] \in Nat
          BY <1>3, <4>2, StatusAfterFacts, RankType
        <4>. QED BY <1>2, <2>1, <4>2, <4>3, <4>4 DEF CallsMove
      <3>2. ~Still
        BY <2>3 DEF Still, tables, Events
      <3>3. ASSUME NEW o \in OutboundRequests, CreateOutboundCall(o[1], o[2], o[3])
            PROVE  FALSE
        BY <1>1, <1>6, <2>3, <3>3, CreateOutboundCallRows DEF StatusEvent, OutboundStatusEvent,
           CallbackStatusEvent
      <3>. QED BY <1>1, <3>1, <3>2, <3>3, StepKinds
    <2>. QED BY <2>2, <2>3
  <1>. QED BY <1>2, <1>5, <1>6 DEF CallInv, StatusCoversEvents, ReportedCallsExist

LEMMA InitCalls == Init => CallInv
  <1>1. SUFFICES ASSUME Init PROVE CallInv
    OBVIOUS
  <1>2. Events = {} /\ Calls = {}
    BY <1>1 DEF Init, Events, Calls, EmptyBag, SetToBag, BagToSet
  <1>3. \A w \in Workers : CallCopy(req[w], callSessions)
    BY <1>1, IdleCopy DEF Init
  <1>. QED BY <1>2, <1>3 DEF CallInv, StatusCoversEvents, ReportedCallsExist, TerminalCallHasEnded

LEMMA CallInvariant == Spec /\ []CallsAlone => [](TypeInv /\ CallInv)
  <1>1. Init => TypeInv /\ CallInv
    BY InitType, InitCalls
  <1>2. (TypeInv /\ CallInv) /\ CallsAlone /\ [Next]_vars => (TypeInv /\ CallInv)'
    BY StepType, StepCalls
  <1>. QED BY <1>1, <1>2, PTL DEF Spec

\* As long as no two open requests have loaded the same call, no status event
\* that was acknowledged is undone ...
THEOREM ReportsAreKept == Spec /\ []CallsAlone => []StatusCoversEvents
  <1>1. CallInv => StatusCoversEvents
    BY DEF CallInv
  <1>. QED BY <1>1, CallInvariant, PTL

\* ... a call that is over has its end ...
THEOREM EndedWhenOver == Spec /\ []CallsAlone => []TerminalCallHasEnded
  <1>1. CallInv => TerminalCallHasEnded
    BY DEF CallInv
  <1>. QED BY <1>1, CallInvariant, PTL

\* ... and stays over, the way it ended.
THEOREM OverIsOver == Spec /\ []CallsAlone => TerminalCallIsFinal
  <1>1. TypeInv /\ CallInv /\ [Next]_vars =>
          [\A c \in Calls : callSessions[c].status \in TerminalCallStatus =>
               callSessions'[c].status = callSessions[c].status]_vars
    BY StepMoves DEF CallInv, CallsMove, CallMoves
  <1>. QED BY <1>1, CallInvariant, PTL DEF Spec, TerminalCallIsFinal

-----------------------------------------------------------------------------
(* Windows that no two requests have loaded.                               *)

\* A decision to route has consumed its window.
RouteTakesWindow == \A e \in Route : callbackSessions[e.callback].status # "active"

WindowInv ==
    /\ RouteTakesWindow /\ OneRoutePerWindow
    /\ \A w \in Workers : WindowCopy(req[w], callbackSessions)

WindowsStay ==
    \A i \in Windows : /\ i \in Windows'
                       /\ callbackSessions[i].status # "active" =>
                             callbackSessions'[i].status # "active"

\* What is saved to a consumed window leaves it consumed.
LEMMA CommitStays ==
    ASSUME TypeInv, NEW w \in Workers, Commit(w), WindowCopy(req[w], callbackSessions)
    PROVE  WindowsStay
  <1>1. PICK r : r = req[w]
    OBVIOUS
  <1>2. r.pc = "commit" /\ callbackSessions \in Seq(CallbackRow)
    BY <1>1 DEF TypeInv, TypeOK, Commit, At
  <1>3. ASSUME NEW i \in Windows, callbackSessions[i].status # "active"
        PROVE  callbackSessions'[i].status # "active"
    <2>1. PICK row \in CallbackRow : row = callbackSessions[i]
      BY <1>2 DEF Windows
    <2>2. CASE i # r.callbackRef
      BY <1>1, <1>3, <2>2, CommitWindows
    <2>3. CASE i = r.callbackRef
      <3>1. r.callbackRef # None
        <4>1. i \in Nat
          BY <1>2 DEF Windows
        <4>. QED BY <2>3, <4>1, ConstantsAssumption DEF ConstantsAssumption
      <3>2. \/ r.callback = CallbackExpired(row, r.msg)
            \/ r.callback = CallbackAfter(row, r.msg, r.target)
        BY <1>1, <1>2, <1>3, <2>1, <2>3, <3>1 DEF WindowCopy
      <3>3. r.callback.status \in {"expired", WindowAfter(row.status, r.msg.name)}
        BY <3>2, WindowFields
      <3>4. r.callback.status # "active"
        BY <1>3, <2>1, <3>3 DEF WindowAfter
      <3>. QED BY <1>1, <1>3, <3>4, CommitWindows
    <2>. QED BY <2>2, <2>3
  <1>. QED BY <1>3, CommitWindows DEF WindowsStay

LEMMA StepStays ==
    ASSUME TypeInv, \A w \in Workers : WindowCopy(req[w], callbackSessions), [Next]_vars
    PROVE  WindowsStay
  <1>1. CASE Still
    BY <1>1 DEF Still, tables, Windows, WindowsStay
  <1>2. ASSUME NEW o \in OutboundRequests, CreateOutboundCall(o[1], o[2], o[3])
        PROVE  WindowsStay
    BY <1>2, CreateOutboundCallRows DEF WindowsStay
  <1>. QED BY <1>1, <1>2, StepKinds, CommitStays

LEMMA StepWindowCopies ==
    ASSUME TypeInv, WindowsAlone, \A w \in Workers : WindowCopy(req[w], callbackSessions),
           [Next]_vars, NEW v \in Workers
    PROVE  WindowCopy(req[v], callbackSessions)'
  <1>1. PICK r, s : r = req[v] /\ s = req'[v] /\ WindowCopy(r, callbackSessions)
    OBVIOUS
  <1>2. CASE Still
    BY <1>1, <1>2 DEF Still, tables, CopiesKept
  <1>3. ASSUME NEW w \in Workers, Commit(w) PROVE WindowCopy(s, callbackSessions')
    <2>1. req' = [req EXCEPT ![w] = Idle]
      BY <1>3, CommitRows
    <2>2. CASE v = w
      <3>1. s = Idle
        BY <1>1, <2>1, <2>2 DEF TypeInv, TypeOK
      <3>. QED BY <3>1, IdleCopy
    <2>3. CASE v # w
      <3>1. s = r
        BY <1>1, <2>1, <2>3
      <3>2. r.callbackRef # None => r.callbackRef # req[w].callbackRef
        BY <1>1, <2>3 DEF WindowsAlone
      <3>3. \A i \in Windows : /\ i \in Windows'
                               /\ i # req[w].callbackRef =>
                                     callbackSessions'[i] = callbackSessions[i]
        BY <1>3, CommitWindows
      <3>. QED BY <1>1, <3>1, <3>2, <3>3, WindowCopyKept DEF Windows
    <2>. QED BY <2>2, <2>3
  <1>4. ASSUME NEW o \in OutboundRequests, CreateOutboundCall(o[1], o[2], o[3])
        PROVE  WindowCopy(s, callbackSessions')
    <2>1. /\ s = r
          /\ \A i \in Windows : i \in Windows' /\ callbackSessions'[i] = callbackSessions[i]
      BY <1>1, <1>4, CreateOutboundCallRows
    <2>. QED BY <1>1, <2>1, WindowCopyKept DEF Windows
  <1>. QED BY <1>1, <1>2, <1>3, <1>4, StepKinds

\* A decision that routes finds its window active, so no earlier one took it.
LEMMA CommitRoute ==
    ASSUME TypeInv, SessionInv, WindowInv, NEW w \in Workers, Commit(w), Route' # Route
    PROVE  /\ Route' = Route \union {EventOf(w, Len(callSessions) + 1)}
           /\ EventOf(w, Len(callSessions) + 1).callback = req[w].callbackRef
           /\ req[w].callbackRef \in Windows
           /\ callbackSessions[req[w].callbackRef].status = "active"
           /\ callbackSessions'[req[w].callbackRef].status = "routing"
  <1>1. PICK r : r = req[w]
    OBVIOUS
  <1>2. /\ r.pc = "commit" /\ callbackSessions \in Seq(CallbackRow)
        /\ WindowCopy(r, callbackSessions) /\ Line(r, callbackSessions)
    BY <1>1 DEF TypeInv, TypeOK, Commit, At, WindowInv, SessionInv
  <1>3. /\ r.msg.type = "inbound" /\ Routes(w)
        /\ Route' = Route \union {EventOf(w, Len(callSessions) + 1)}
    BY <1>1, CommitRows
  <1>4. r.reason = "matched_active_callback"
    BY <1>1, <1>3 DEF Routes
  <1>5. EventOf(w, Len(callSessions) + 1).callback = r.callbackRef
    BY <1>1, <1>3 DEF EventOf
  <1>6. r.callbackRef # None /\ r.callbackRef \in Windows
    BY <1>2, <1>3, <1>4 DEF Line, WillRoute, Windows
  <1>7. PICK row \in CallbackRow : row = callbackSessions[r.callbackRef]
    BY <1>2, <1>6 DEF Windows
  <1>8. /\ row.status = "active"
        /\ r.callback = CallbackRouted(row, r.msg, r.target)
        /\ "status" \in r.callbackCols /\ r.callbackLock
    BY <1>2, <1>3, <1>4, <1>6, <1>7 DEF WindowCopy
  <1>9. r.callback.status = "routing"
    BY <1>8, WindowFields
  <1>10. callbackSessions'[r.callbackRef].status = "routing"
    BY <1>1, <1>6, <1>8, <1>9, CommitWindows
  <1>. QED BY <1>1, <1>3, <1>5, <1>6, <1>7, <1>8, <1>10

LEMMA StepWindows ==
    TypeInv /\ SessionInv /\ WindowsAlone /\ WindowInv /\ [Next]_vars => WindowInv'
  <1>1. SUFFICES ASSUME TypeInv, SessionInv, WindowsAlone, WindowInv, [Next]_vars
                 PROVE  WindowInv'
    OBVIOUS
  <1>2. WindowsStay /\ \A w \in Workers : WindowCopy(req[w], callbackSessions)'
    BY <1>1, StepStays, StepWindowCopies DEF WindowInv
  <1>3. \A e \in Route : e.callback \in Windows
    BY <1>1 DEF SessionInv, RoutesInv, RouteRows
  <1>4. \A e, f \in Route : e.callback = f.callback => e = f
    BY <1>1 DEF WindowInv, OneRoutePerWindow, Route
  <1>5. RouteTakesWindow' /\ \A e, f \in Route' : e.callback = f.callback => e = f
    <2>1. CASE Route' = Route
      BY <1>1, <1>2, <1>3, <1>4, <2>1 DEF WindowInv, RouteTakesWindow, WindowsStay
    <2>2. ASSUME NEW w \in Workers, Commit(w), Route' # Route
          PROVE  RouteTakesWindow' /\ \A e, f \in Route' : e.callback = f.callback => e = f
      <3>1. PICK row, i : row = EventOf(w, Len(callSessions) + 1) /\ i = req[w].callbackRef
        OBVIOUS
      <3>2. /\ Route' = Route \union {row} /\ row.callback = i /\ i \in Windows
            /\ callbackSessions[i].status = "active"
            /\ callbackSessions'[i].status = "routing"
        BY <1>1, <2>2, <3>1, CommitRoute
      <3>3. \A e \in Route : /\ e.callback # i
                             /\ callbackSessions'[e.callback].status # "active"
        BY <1>1, <1>2, <1>3, <3>2 DEF WindowInv, RouteTakesWindow, WindowsStay
      <3>4. RouteTakesWindow'
        BY <3>2, <3>3 DEF RouteTakesWindow
      <3>. QED BY <1>4, <3>2, <3>3, <3>4
    <2>3. CASE Still
      BY <2>1, <2>3 DEF Still, tables, Route, Events, IsRouteEvent
    <2>4. ASSUME NEW o \in OutboundRequests, CreateOutboundCall(o[1], o[2], o[3])
          PROVE  Route' = Route
      BY <1>1, <2>4, CreateOutboundCallRows
    <2>. QED BY <1>1, <2>1, <2>2, <2>3, <2>4, StepKinds
  <1>6. OneRoutePerWindow'
    BY <1>5 DEF OneRoutePerWindow, Route
  <1>. QED BY <1>2, <1>5, <1>6 DEF WindowInv

LEMMA InitWindows == Init => WindowInv
  <1>1. SUFFICES ASSUME Init PROVE WindowInv
    OBVIOUS
  <1>2. Events = {}
    BY <1>1 DEF Init, Events, EmptyBag, SetToBag, BagToSet
  <1>3. \A w \in Workers : WindowCopy(req[w], callbackSessions)
    BY <1>1, IdleCopy DEF Init
  <1>. QED BY <1>2, <1>3 DEF WindowInv, RouteTakesWindow, OneRoutePerWindow, Route

LEMMA WindowInvariant == Spec /\ []WindowsAlone => [](TypeInv /\ SessionInv /\ WindowInv)
  <1>1. Init => TypeInv /\ SessionInv /\ WindowInv
    BY InitType, InitSessions, InitWindows
  <1>2. (TypeInv /\ SessionInv /\ WindowInv) /\ WindowsAlone /\ [Next]_vars
            => (TypeInv /\ SessionInv /\ WindowInv)'
    BY StepType, StepSessions, StepWindows
  <1>. QED BY <1>1, <1>2, PTL DEF Spec

\* As long as no two open requests have loaded the same window, a window routes
\* one inbound call ...
THEOREM WindowRoutesOnce == Spec /\ []WindowsAlone => []OneRoutePerWindow
  <1>1. WindowInv => OneRoutePerWindow
    BY DEF WindowInv
  <1>. QED BY <1>1, WindowInvariant, PTL

\* ... and once consumed, whatever report or lapse follows, never matches again.
THEOREM ConsumedForGood == Spec /\ []WindowsAlone => ConsumedWindowStaysConsumed
  <1>1. TypeInv /\ WindowInv /\ [Next]_vars =>
          [\A i \in Windows : callbackSessions[i].status # "active" =>
               callbackSessions'[i].status # "active"]_vars
    BY StepStays DEF WindowInv, WindowsStay
  <1>. QED BY <1>1, WindowInvariant, PTL DEF Spec, ConsumedWindowStaysConsumed

-----------------------------------------------------------------------------
(* Lapses.  Needs no hypothesis about overlapping requests.                *)

LapseInv ==
    ExpiredForAReject /\ \A w \in Workers : LapseCopy(req[w], callbackSessions, Events, now)

\* The rows, the events and the clock of a later state.
LapsesLater ==
    /\ now <= now' /\ Events \subseteq Events'
    /\ \A i \in Windows : /\ i \in Windows'
                          /\ callbackSessions'[i].did = callbackSessions[i].did
                          /\ callbackSessions'[i].remote = callbackSessions[i].remote
                          /\ callbackSessions'[i].expiresAt = callbackSessions[i].expiresAt

LEMMA SameLapseCopy ==
    ASSUME TypeInv, TypeInv', LapseInv, LapsesLater, NEW v \in Workers, req'[v] = req[v]
    PROVE  LapseCopy(req'[v], callbackSessions', Events', now')
  <1>1. PICK r : r = req[v]
    OBVIOUS
  <1>2. /\ LapseCopy(r, callbackSessions, Events, now)
        /\ callbackSessions \in Seq(CallbackRow) /\ now \in Nat /\ now' \in Nat
    BY <1>1 DEF LapseInv, TypeInv, TypeOK
  <1>3. PICK rows \in Seq(CallbackRow), t \in Nat, u \in Nat :
            rows = callbackSessions /\ t = now /\ u = now'
    BY <1>2
  <1>4. PICK later, events, more :
            later = callbackSessions' /\ events = Events /\ more = Events'
    OBVIOUS
  <1>5. LapseCopy(r, later, more, u)
    BY <1>2, <1>3, <1>4, LapseCopyKept DEF LapsesLater, Windows
  <1>. QED BY <1>1, <1>3, <1>4, <1>5

LEMMA SameAccounted ==
    ASSUME TypeInv, TypeInv', LapsesLater, NEW i \in Windows,
           Accounted(callbackSessions[i], Events, now)
    PROVE  Accounted(callbackSessions'[i], Events', now')
  <1>1. /\ callbackSessions \in Seq(CallbackRow) /\ now \in Nat /\ now' \in Nat
    BY DEF TypeInv, TypeOK
  <1>2. PICK row \in CallbackRow, t \in Nat, u \in Nat :
            row = callbackSessions[i] /\ t = now /\ u = now'
    BY <1>1 DEF Windows
  <1>3. PICK later, events, more :
            later = callbackSessions'[i] /\ events = Events /\ more = Events'
    OBVIOUS
  <1>4. later.did = row.did /\ later.remote = row.remote /\ later.expiresAt = row.expiresAt
    BY <1>2, <1>3 DEF LapsesLater
  <1>5. Accounted(later, more, u)
    BY <1>2, <1>3, <1>4, AccountedKept DEF LapsesLater
  <1>. QED BY <1>2, <1>3, <1>5

LEMMA StepLapses ==
    TypeInv /\ TypeInv' /\ SessionInv /\ LapseInv /\ [Next]_vars => LapseInv'
  <1>1. SUFFICES ASSUME TypeInv, TypeInv', SessionInv, LapseInv, [Next]_vars PROVE LapseInv'
    OBVIOUS
  <1>2. /\ callbackSessions \in Seq(CallbackRow) /\ now \in Nat /\ now' \in Nat
        /\ req \in [Workers -> Request] /\ IsABag(callEvents)
    BY <1>1 DEF TypeInv, TypeOK
  <1>3. \A i \in Windows : callbackSessions[i].status = "expired" =>
            Accounted(callbackSessions[i], Events, now)
    BY <1>1 DEF LapseInv, ExpiredForAReject, Accounted
  <1>4. ASSUME \A i \in Windows' : callbackSessions'[i].status = "expired" =>
                   Accounted(callbackSessions'[i], Events', now'),
               \A v \in Workers : LapseCopy(req'[v], callbackSessions', Events', now')
        PROVE  LapseInv'
    BY <1>4 DEF LapseInv, ExpiredForAReject, Accounted
  <1>5. CASE Still
    <2>1. LapsesLater /\ Events' = Events /\ Windows' = Windows
      BY <1>5 DEF LapsesLater, Still, tables, Events, Windows
    <2>2. \A i \in Windows' : callbackSessions'[i].status = "expired" =>
              Accounted(callbackSessions'[i], Events', now')
      BY <1>1, <1>3, <1>5, <2>1, SameAccounted DEF Still, tables
    <2>3. ASSUME NEW v \in Workers PROVE LapseCopy(req'[v], callbackSessions', Events', now')
      <3>1. CASE req'[v] = req[v]
        BY <1>1, <2>1, <3>1, SameLapseCopy
      <3>2. CASE now' = now /\ CopiesKept(req[v], req'[v])
        <4>1. PICK r, s : r = req[v] /\ s = req'[v]
          OBVIOUS
        <4>2. LapseCopy(s, callbackSessions, Events, now)
          BY <1>1, <3>2, <4>1 DEF CopiesKept, LapseInv
        <4>. QED BY <1>5, <2>1, <3>2, <4>1, <4>2 DEF Still, tables
      <3>. QED BY <1>5, <3>1, <3>2 DEF Still
    <2>. QED BY <1>4, <2>2, <2>3
  <1>6. ASSUME NEW w \in Workers, Commit(w) PROVE LapseInv'
    <2>1. PICK r : r = req[w] /\ LapseCopy(r, callbackSessions, Events, now)
      BY <1>1 DEF LapseInv
    <2>2. req' = [req EXCEPT ![w] = Idle] /\ now' = now /\ r.pc = "commit"
      <3>1. PICK answer \in Answer : ReplyOrLoseIt(w, answer)
        BY <1>1, <1>6, CommitStep
      <3>. QED BY <1>1, <1>6, <2>1, <3>1, ReplyOrLoseItType DEF Commit, At
    <2>3. /\ Windows' = Windows
          /\ \A i \in Windows :
                /\ callbackSessions'[i].expiresAt = callbackSessions[i].expiresAt
                /\ i # r.callbackRef => callbackSessions'[i] = callbackSessions[i]
                /\ \/ callbackSessions'[i].status = callbackSessions[i].status
                   \/ callbackSessions'[i].status = r.callback.status
      BY <1>1, <1>6, <2>1, CommitWindows
    <2>4. PICK event : /\ callEvents' = InsertedEvent(event)
                       /\ r.msg.type = "inbound" /\ ~Routes(w) => event = EventOf(w, None)
      BY <1>6, <2>1 DEF Commit
    <2>5. Events' = Events \union {event}
      BY <1>2, <2>4, AddEvent DEF InsertedEvent, Events
    <2>6. LapsesLater
      BY <1>1, <1>2, <1>6, <2>2, <2>3, <2>5, CommitRows DEF LapsesLater, RowsKept
    <2>7. ASSUME NEW i \in Windows, callbackSessions'[i].status = "expired"
          PROVE  Accounted(callbackSessions'[i], Events', now')
      <3>1. CASE callbackSessions[i].status = "expired"
        BY <1>1, <1>3, <2>6, <3>1, SameAccounted
      <3>2. CASE callbackSessions[i].status # "expired"
        <4>1. i = r.callbackRef /\ r.callback.status = "expired"
          BY <2>3, <2>7, <3>2
        <4>2. r.callbackRef # None
          <5>1. i \in Nat
            BY <1>2 DEF Windows
          <5>. QED BY <4>1, <5>1, ConstantsAssumption DEF ConstantsAssumption
        <4>3. CASE Accounted(callbackSessions[i], Events, now)
          BY <1>1, <2>6, <4>3, SameAccounted
        <4>4. CASE WillAccount(r, callbackSessions[i], now)
          <5>1. PICK row : row = callbackSessions[i]
            OBVIOUS
          <5>2. r.msg \in Messages /\ r.msg.type = "inbound" /\ ~Routes(w)
            BY <1>1, <2>1, <2>2, <4>4 DEF WillAccount, Routes, TypeInv, Shape
          <5>3. r.msg.name = "inbound.received"
            BY <5>2, ConstantsAssumption DEF ConstantsAssumption, Message
          <5>4. row.did = r.msg.did /\ row.remote = r.msg.remote
            <6>1. Line(r, callbackSessions)
              BY <1>1, <2>1 DEF SessionInv
            <6>. QED BY <2>2, <4>1, <4>2, <5>1, <5>2, <6>1 DEF Line
          <5>5. /\ event.key[1] = "inbound.received" /\ event.call = None
                /\ event.did = row.did /\ event.remote = row.remote
                /\ event.at = r.msg.at /\ event.reason = r.reason
            BY <2>1, <2>4, <5>2, <5>3, <5>4 DEF EventOf, KeyOf
          <5>6. AccountsFor(event, row, now)
            BY <4>4, <5>1, <5>5 DEF AccountsFor, WillAccount
          <5>7. PICK later : later = callbackSessions'[i]
            OBVIOUS
          <5>8. later.did = row.did /\ later.remote = row.remote
                /\ later.expiresAt = row.expiresAt
            BY <2>6, <5>1, <5>7 DEF LapsesLater
          <5>9. AccountsFor(event, later, now)
            BY <5>6, <5>8 DEF AccountsFor
          <5>. QED BY <2>2, <2>5, <5>7, <5>9 DEF Accounted
        <4>. QED BY <2>1, <4>1, <4>2, <4>3, <4>4 DEF LapseCopy
      <3>. QED BY <3>1, <3>2
    <2>8. ASSUME NEW v \in Workers PROVE LapseCopy(req'[v], callbackSessions', Events', now')
      <3>1. CASE v = w
        <4>1. req'[v] = Idle
          BY <1>2, <2>2, <3>1
        <4>. QED BY <4>1, IdleCopy
      <3>2. CASE v # w
        <4>1. req'[v] = req[v]
          BY <1>2, <2>2, <3>2
        <4>. QED BY <1>1, <2>6, <4>1, SameLapseCopy
      <3>. QED BY <3>1, <3>2
    <2>. QED BY <1>4, <2>3, <2>7, <2>8
  <1>7. ASSUME NEW o \in OutboundRequests, CreateOutboundCall(o[1], o[2], o[3]) PROVE LapseInv'
    <2>1. /\ Windows \subseteq Windows' /\ Events \subseteq Events'
          /\ \A i \in Windows : callbackSessions'[i] = callbackSessions[i]
          /\ \A i \in Windows' \ Windows : callbackSessions'[i].status = "active"
          /\ UNCHANGED <<req, now>>
      BY <1>1, <1>7, CreateOutboundCallRows
    <2>2. LapsesLater
      BY <1>2, <2>1 DEF LapsesLater
    <2>3. ASSUME NEW i \in Windows', callbackSessions'[i].status = "expired"
          PROVE  Accounted(callbackSessions'[i], Events', now')
      <3>1. i \in Windows /\ callbackSessions[i].status = "expired"
        BY <2>1, <2>3
      <3>. QED BY <1>1, <1>3, <2>2, <3>1, SameAccounted
    <2>4. \A v \in Workers : LapseCopy(req'[v], callbackSessions', Events', now')
      BY <1>1, <2>1, <2>2, SameLapseCopy
    <2>. QED BY <1>4, <2>3, <2>4
  <1>. QED BY <1>1, <1>5, <1>6, <1>7, StepKinds

LEMMA InitLapses == Init => LapseInv
  <1>1. SUFFICES ASSUME Init PROVE LapseInv
    OBVIOUS
  <1>2. Windows = {}
    BY <1>1 DEF Init, Windows
  <1>3. \A w \in Workers : LapseCopy(req[w], callbackSessions, Events, now)
    BY <1>1, IdleCopy DEF Init
  <1>. QED BY <1>2, <1>3 DEF LapseInv, ExpiredForAReject

\* However requests overlap, and whatever occurred_at a payload gives, an expired
\* window has the recorded reject that accounts for it: a call of its line dated past
\* its end, with its TTL run out on the clock or no endpoint for it.
THEOREM ExpiredWithReason == Spec => []ExpiredForAReject
  <1>1. LapseInv => ExpiredForAReject
    BY DEF LapseInv
  <1>2. Init => TypeInv /\ SessionInv /\ LapseInv
    BY InitType, InitSessions, InitLapses
  <1>3. TypeInv /\ SessionInv /\ LapseInv /\ [Next]_vars => (TypeInv /\ SessionInv /\ LapseInv)'
    BY StepType, StepSessions, StepLapses
  <1>. QED BY <1>1, <1>2, <1>3, PTL DEF Spec

\* One connection that serves one webhook after the other, as the run `serial` has
\* it, gives all of them at once.
THEOREM ServedOneAtATime ==
    (\A v, w \in Workers : v = w) /\ Spec
        => /\ [](StatusCoversEvents /\ TerminalCallHasEnded /\ OneRoutePerWindow)
           /\ TerminalCallIsFinal /\ ConsumedWindowStaysConsumed
  <1>. SUFFICES ASSUME \A v, w \in Workers : v = w
                PROVE  Spec => /\ [](StatusCoversEvents /\ TerminalCallHasEnded /\ OneRoutePerWindow)
                               /\ TerminalCallIsFinal /\ ConsumedWindowStaysConsumed
    OBVIOUS
  <1>1. CallsAlone /\ WindowsAlone
    BY DEF CallsAlone, WindowsAlone
  <1>. QED BY <1>1, ReportsAreKept, EndedWhenOver, OverIsOver, WindowRoutesOnce, ConsumedForGood, PTL
=============================================================================
