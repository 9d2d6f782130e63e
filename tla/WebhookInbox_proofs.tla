-------------------------- MODULE WebhookInbox_proofs --------------------------
(* The telephony webhooks implement WebhookInbox: every step of a worker is  *)
(* a step of the inbox or leaves it alone, for every number of workers,      *)
(* messages and faults. That decisions stick is then drawn from the steps of *)
(* the inbox alone.                                                          *)
EXTENDS TelephonyWebhooks_proofs

LEMMA InboxInit == Init => Inbox!Init
  <1>1. SUFFICES ASSUME Init PROVE Inbox!Init
    OBVIOUS
  <1>2. BagToSet(callEvents) = {}
    BY <1>1 DEF Init, EmptyBag, SetToBag, BagToSet
  <1>3. Decided = [key \in {KeyOf(m) : m \in Messages} |-> {}]
    BY <1>2 DEF Decided, RecordedAt
  <1>. QED BY <1>1, <1>3 DEF Inbox!Init, Init

\* Nothing recorded and nothing answered.
LEMMA Unheard ==
    ASSUME callEvents' = callEvents, answers' = answers
    PROVE  UNCHANGED Inbox!vars
  BY DEF Inbox!vars, Decided, RecordedAt, Verdict, KeyOf

\* The refusals of the webhooks as things are: the DID of a message is unknown
\* only while some DID is not assigned.
Refusals ==
    {Plain(kind) : kind \in {"not_found", "event_conflict", "internal_error"}}
    \union IF assignedDids = Dids THEN {} ELSE {Rejected("invalid_display_did")}

Refused(m) == (\E answer \in Refusals : Inbox!Hears(m, answer)) /\ UNCHANGED Decided

InboxStep == \E m \in Messages : Inbox!Decide(m) \/ Inbox!Repeat(m) \/ Refused(m)

LEMMA InboxSteps == InboxStep => Inbox!Next
  <1>1. Refusals \subseteq UndecidingAnswers
    BY DEF Refusals, UndecidingAnswers
  <1>. QED BY <1>1 DEF InboxStep, Refused, Inbox!Next, Inbox!Refuse

\* An answer that promises nothing.
LEMMA RefusalRefines ==
    ASSUME callEvents' = callEvents, NEW m \in Messages, NEW answer \in Refusals,
           answers' = [answers EXCEPT ![m] = @ \union {answer}]
    PROVE  InboxStep
  <1>1. Decided' = Decided
    BY DEF Decided, RecordedAt, Verdict, KeyOf
  <1>2. Refused(m)
    BY <1>1 DEF Refused, Inbox!Hears
  <1>. QED BY <1>2 DEF InboxStep

\* A repeated message hears the verdict of the event that was found, or a refusal.
LEMMA DeliverAgainRefines ==
    ASSUME TypeInv, NEW w \in Workers, NEW m \in Messages, DeliverAgain(w, m)
    PROVE  InboxStep
  <1>1. UNCHANGED tables /\ m.type \in {"inbound", "status", "recording"}
    BY MessageFields DEF DeliverAgain
  <1>. DEFINE answerOf(event) ==
           IF ~Consistent(event, m) THEN Plain("event_conflict")
           ELSE IF m.type # "inbound" THEN Plain("duplicate")
           ELSE IF event.call # None THEN Routed(event.call, event.callback)
           ELSE Rejected(event.reason)
  <1>2. PICK event \in RecordedAt(KeyOf(m)) :
            answers' = [answers EXCEPT ![m] = @ \union {answerOf(event)}]
    BY DEF DeliverAgain
  <1>3. Decided' = Decided
    BY <1>1 DEF tables, Decided, RecordedAt, Verdict, KeyOf
  <1>4. CASE ~Consistent(event, m)
    <2>1. Plain("event_conflict") \in Refusals
      BY DEF Refusals
    <2>. QED BY <1>1, <1>2, <1>4, <2>1, RefusalRefines DEF tables
  <1>5. CASE Consistent(event, m)
    <2>1. answerOf(event) \in LaterAnswers(m, Verdict(event))
      <3>1. /\ Verdict(event).call = event.call
            /\ Verdict(event).callback = event.callback
            /\ Verdict(event).reason = event.reason
        BY DEF Verdict
      <3>. QED BY <1>1, <1>5, <3>1 DEF LaterAnswers, Decision, Concerns, Consistent
    <2>2. Verdict(event) \in Decided[KeyOf(m)]
      BY <1>2 DEF Decided
    <2>. HIDE DEF answerOf
    <2>3. Inbox!Repeat(m)
      BY <1>2, <1>3, <2>1, <2>2 DEF Inbox!Repeat, Inbox!Hears
    <2>. QED BY <2>3 DEF InboxStep
  <1>. QED BY <1>4, <1>5

\* One more event, of a key that had none: the verdicts of the other keys stay.
LEMMA RecordedDecides ==
    ASSUME IsABag(callEvents), NEW m \in Messages, NEW row, row.key = KeyOf(m),
           RecordedAt(KeyOf(m)) = {}, callEvents' = InsertedEvent(row)
    PROVE  /\ Decided[KeyOf(m)] = {}
           /\ Decided' = [Decided EXCEPT ![KeyOf(m)] = {Verdict(row)}]
  <1>1. BagToSet(callEvents') = BagToSet(callEvents) \union {row}
    BY AddEvent DEF InsertedEvent
  <1>2. \A key : RecordedAt(key)' = IF key = KeyOf(m) THEN {row} ELSE RecordedAt(key)
    BY <1>1 DEF RecordedAt
  <1>. QED BY <1>2 DEF Decided, Verdict, KeyOf

LEMMA CommitDecides ==
    ASSUME TypeInv, RecordInv, NEW w \in Workers, Commit(w), NEW call \in Ref, NEW answer,
           callEvents' = InsertedEvent(EventOf(w, call)),
           answer \in FirstAnswers(req[w].msg, Verdict(EventOf(w, call))),
           ReplyOrLoseIt(w, answer)
    PROVE  InboxStep
  <1>1. /\ At(w, "commit") /\ IsABag(callEvents) /\ req[w].msg \in Messages /\ req[w].inserted
    BY CommitStep DEF TypeInv, TypeOK, Shape, PastInsert, At
  <1>2. PICK m \in Messages : m = req[w].msg
    BY <1>1
  <1>3. PICK row \in EventRow : row = EventOf(w, call)
    BY <1>1, EventOfType
  <1>4. row.key = KeyOf(m) /\ RecordedAt(KeyOf(m)) = {}
    BY <1>1, <1>2, <1>3 DEF EventOf, RecordInv, KeysInFlightAreNew
  <1>5. /\ Decided[KeyOf(m)] = {}
        /\ Decided' = [Decided EXCEPT ![KeyOf(m)] = {Verdict(row)}]
    BY <1>1, <1>3, <1>4, RecordedDecides
  <1>6. Verdict(row) \in [call: Ref, callback: Ref, reason: DecisionReason \union {None}]
    BY DEF Verdict, EventRow
  <1>7. Decided'[KeyOf(m)] = {Verdict(row)}
    BY <1>5 DEF Decided
  <1>8. answers' = [answers EXCEPT ![m] = @ \union {answer}] \/ answers' = answers
    BY <1>2 DEF ReplyOrLoseIt, Reply, LoseReply
  <1>9. answer \in FirstAnswers(m, Verdict(row))
    BY <1>2, <1>3
  <1>10. Inbox!Decide(m)
    BY <1>5, <1>6, <1>7, <1>8, <1>9 DEF Inbox!Decide, Inbox!Hears
  <1>. QED BY <1>10 DEF InboxStep

\* A commit decides its key: the transaction holds it, so nobody has recorded it.
LEMMA CommitRefines ==
    ASSUME TypeInv, RecordInv, NEW w \in Workers, Commit(w)
    PROVE  InboxStep
  <1>. DEFINE m == req[w].msg
              newCall == Len(callSessions) + 1
  <1>1. /\ At(w, "commit") /\ m \in Messages /\ callSessions \in Seq(CallRow)
    BY CommitStep DEF TypeInv, TypeOK, Shape, At
  <1>2. newCall \in Ref /\ None \in Ref /\ m.call \in Ref /\ newCall # None
    BY <1>1, MessageFields, ConstantsAssumption DEF Ref, ConstantsAssumption
  <1>3. ASSUME NEW call
        PROVE  /\ Verdict(EventOf(w, call)).call = call
               /\ Verdict(EventOf(w, call)).callback = EventOf(w, call).callback
               /\ Verdict(EventOf(w, call)).reason = req[w].reason
    BY DEF Verdict, EventOf
  <1>4. CASE /\ m.type = "inbound" /\ Routes(w)
             /\ callEvents' = InsertedEvent(EventOf(w, newCall))
             /\ ReplyOrLoseIt(w, Routed(newCall, req[w].callbackRef))
    <2>1. EventOf(w, newCall).callback = req[w].callbackRef
      BY <1>4 DEF EventOf
    <2>2. Routed(newCall, req[w].callbackRef) \in FirstAnswers(m, Verdict(EventOf(w, newCall)))
      BY <1>2, <1>3, <1>4, <2>1 DEF FirstAnswers, Decision
    <2>. QED BY <1>2, <1>4, <2>2, CommitDecides
  <1>5. CASE /\ m.type = "inbound"
             /\ callEvents' = InsertedEvent(EventOf(w, None))
             /\ ReplyOrLoseIt(w, Rejected(req[w].reason))
    <2>1. Rejected(req[w].reason) \in FirstAnswers(m, Verdict(EventOf(w, None)))
      BY <1>3, <1>5 DEF FirstAnswers, Decision
    <2>. QED BY <1>2, <1>5, <2>1, CommitDecides
  <1>6. CASE /\ m.type # "inbound"
             /\ callEvents' = InsertedEvent(EventOf(w, m.call))
             /\ ReplyOrLoseIt(w, Plain("applied"))
    <2>1. m.type = "status" => EventOf(w, m.call).callback = m.callback
      <3>1. m.type = "status" => req[w].callbackRef = m.callback
        BY <1>1 DEF TypeInv, Shape, At
      <3>. QED BY <3>1 DEF EventOf
    <2>2. Concerns(m, Verdict(EventOf(w, m.call)))
      BY <1>3, <2>1 DEF Concerns
    <2>3. Plain("applied") \in FirstAnswers(m, Verdict(EventOf(w, m.call)))
      BY <1>6, <2>2 DEF FirstAnswers
    <2>. QED BY <1>2, <1>6, <2>3, CommitDecides
  <1>. QED BY <1>4, <1>5, <1>6 DEF Commit

\* An outbound call has a key that no webhook has.
LEMMA CreateOutboundCallRefines ==
    ASSUME TypeInv, NEW o \in OutboundRequests, CreateOutboundCall(o[1], o[2], o[3])
    PROVE  UNCHANGED Inbox!vars
  <1>1. IsABag(callEvents)
    BY DEF TypeInv, TypeOK
  <1>2. PICK row : row = OutboundEvent(o[1], o[2], o[3])
    OBVIOUS
  <1>3. callEvents' = callEvents \/ callEvents' = InsertedEvent(row)
    BY <1>2 DEF CreateOutboundCall, OutboundEvent
  <1>4. BagToSet(callEvents') = BagToSet(callEvents) \/ BagToSet(callEvents') = BagToSet(callEvents) \union {row}
    BY <1>1, <1>3, AddEvent DEF InsertedEvent
  <1>5. \A m \in Messages : row.key # KeyOf(m)
    <2>1. row.key[1] = "outbound.accepted"
      BY <1>2 DEF OutboundEvent
    <2>. QED BY <2>1, MessageFields DEF KeyOf
  <1>6. \A m \in Messages : RecordedAt(KeyOf(m))' = RecordedAt(KeyOf(m))
    BY <1>4, <1>5 DEF RecordedAt, KeyOf
  <1>7. Decided' = Decided
    BY <1>6 DEF Decided, Verdict, KeyOf
  <1>. QED BY <1>7 DEF Inbox!vars, CreateOutboundCall

\* Every other statement of a request: it goes on unheard, or is refused.
LEMMA ServeRefines ==
    ASSUME TypeInv, NEW w \in Workers, Serve(w), ~Commit(w)
    PROVE  InboxStep \/ UNCHANGED Inbox!vars
  <1>1. UNCHANGED tables
    BY DEF Serve, LookupDid, SelectCallback, ResolveEndpoint, LoadCall, LoadCallback,
           InsertEvent, ReloadCall, UpdateCall, ReloadCallback, UpdateCallback
  <1>2. req[w].pc # "idle"
    BY DEF Serve, LookupDid, SelectCallback, ResolveEndpoint, LoadCall, LoadCallback,
           InsertEvent, ReloadCall, UpdateCall, ReloadCallback, UpdateCallback, At
  <1>3. PICK m \in Messages : m = req[w].msg
    BY <1>2 DEF TypeInv, Shape
  <1>4. \/ \E next : Continue(w, next)
        \/ \E answer \in Refusals : Reply(w, answer)
    <2>1. ASSUME NEW reason, NEW ref, NEW window, Reject(w, reason, ref, window)
          PROVE  \E next : Continue(w, next)
      BY <2>1 DEF Reject
    <2>2. m.did \notin assignedDids => Rejected("invalid_display_did") \in Refusals
      BY MessageFields DEF Refusals
    <2>3. /\ Plain("not_found") \in Refusals
          /\ Plain("event_conflict") \in Refusals
          /\ Plain("internal_error") \in Refusals
      BY DEF Refusals
    <2>. QED BY <1>3, <2>1, <2>2, <2>3 DEF Serve, LookupDid, SelectCallback, ResolveEndpoint, LoadCall,
                         LoadCallback, InsertEvent, ReloadCall, UpdateCall, ReloadCallback,
                         UpdateCallback
  <1>5. CASE \E next : Continue(w, next)
    BY <1>1, <1>5, Unheard DEF Continue, tables
  <1>6. CASE \E answer \in Refusals : Reply(w, answer)
    BY <1>1, <1>3, <1>6, RefusalRefines DEF Reply, tables
  <1>. QED BY <1>4, <1>5, <1>6

LEMMA FailRefines ==
    ASSUME TypeInv, NEW w \in Workers, Fail(w)
    PROVE  InboxStep
  <1>1. req[w].msg \in Messages
    BY DEF Fail, At, TypeInv, Shape
  <1>2. Plain("internal_error") \in Refusals
    BY DEF Refusals
  <1>. QED BY <1>1, <1>2, RefusalRefines DEF Fail, Reply, tables

LEMMA StepRefines ==
    ASSUME TypeInv, RecordInv, [Next]_vars
    PROVE  InboxStep \/ UNCHANGED Inbox!vars
  <1>2. ASSUME UNCHANGED <<tables, answers>> PROVE UNCHANGED Inbox!vars
    BY <1>2, Unheard DEF tables
  <1>3. ASSUME NEW w \in Workers, NEW m \in Messages, Deliver(w, m)
        PROVE  UNCHANGED Inbox!vars
    BY <1>2, <1>3 DEF Deliver, Continue
  <1>4. ASSUME NEW w \in Workers, NEW m \in Messages, DeliverAgain(w, m) PROVE InboxStep
    BY <1>4, DeliverAgainRefines
  <1>5. ASSUME NEW w \in Workers, Serve(w) PROVE InboxStep \/ UNCHANGED Inbox!vars
    BY <1>5, ServeRefines, CommitRefines
  <1>6. ASSUME NEW w \in Workers, Fail(w) PROVE InboxStep
    BY <1>6, FailRefines
  <1>7. ASSUME NEW o \in OutboundRequests, CreateOutboundCall(o[1], o[2], o[3])
        PROVE  UNCHANGED Inbox!vars
    BY <1>7, CreateOutboundCallRefines
  <1>8. ASSUME \/ Crash \/ Tick \/ SwitchTenant
               \/ \E d \in SwitchableDids : SwitchDid(d)
               \/ \E e \in SwitchableEndpoints : SwitchEndpoint(e)
        PROVE  UNCHANGED Inbox!vars
    BY <1>2, <1>8 DEF Crash, Tick, SwitchTenant, SwitchDid, SwitchEndpoint
  <1>9. CASE UNCHANGED vars
    BY <1>2, <1>9 DEF vars
  <1>. QED BY <1>3, <1>4, <1>5, <1>6, <1>7, <1>8, <1>9 DEF Next

\* The telephony webhooks are the inbox that producers are promised: a key is
\* decided in one commit and for good, and every accepted answer is that commit's or
\* repeats its verdict, however requests overlap, fail or crash.
THEOREM ImplementsInbox == Spec => InboxSpec
  <1>1. Init => TypeInv /\ RecordInv
    BY InitType, InitRecords
  <1>2. TypeInv /\ RecordInv /\ [Next]_vars => (TypeInv /\ RecordInv)'
    BY StepType, StepRecords
  <1>3. TypeInv /\ RecordInv /\ [Next]_vars => [Inbox!Next]_(Inbox!vars)
    BY StepRefines, InboxSteps
  <1>. QED BY <1>1, <1>2, <1>3, InboxInit, PTL DEF Spec, InboxSpec, Inbox!Spec

-----------------------------------------------------------------------------
(* Sticky decisions, drawn from the inbox: what is accepted repeats the one *)
(* verdict of its key.  Only an unknown DID is turned away undecided, so    *)
(* the property needs that every DID stays assigned.                        *)

UnknownDid == Rejected("invalid_display_did")

Turned(a) == SwitchableDids # {} /\ a = UnknownDid

\* While nobody switches a DID, all of them are assigned.
DidsStay == SwitchableDids = {} => assignedDids = Dids

\* By key at most one verdict, which every accepted answer to its inbound call
\* repeats.
Sticks(verdicts, heard) ==
    /\ \A m \in Messages : verdicts[KeyOf(m)] = {} \/ \E v : verdicts[KeyOf(m)] = {v}
    /\ \A m \in Messages : m.type = "inbound" =>
         \A a \in heard[m] : a.kind \in Accepted =>
             Turned(a) \/ \E v : verdicts[KeyOf(m)] = {v} /\ a = Decision(v)

StickyInv == DidsStay /\ Sticks(Decided, answers)

LEMMA StepDids == DidsStay /\ [Next]_vars => DidsStay'
  <1>1. SUFFICES ASSUME DidsStay, [Next]_vars, SwitchableDids = {} PROVE assignedDids' = assignedDids
    BY DEF DidsStay
  <1>2. ASSUME NEW w \in Workers, Commit(w) PROVE assignedDids' = assignedDids
    BY <1>2 DEF Commit, ReplyOrLoseIt, LoseReply, environment
  <1>. QED BY <1>1, <1>2 DEF Next, Serve, Deliver, DeliverAgain, LookupDid, SelectCallback,
           ResolveEndpoint, LoadCall, LoadCallback, InsertEvent, ReloadCall, UpdateCall,
           ReloadCallback, UpdateCallback, Fail, CreateOutboundCall, Crash, Tick,
           SwitchEndpoint, SwitchTenant, vars, environment

LEMMA StepSticky ==
    ASSUME TypeInv, StickyInv, InboxStep \/ UNCHANGED Inbox!vars
    PROVE  Sticks(Decided, answers)'
  <1>1. answers \in [Messages -> SUBSET Answer]
    BY DEF TypeInv, TypeOK
  <1>2. PICK D : D = Decided
    OBVIOUS
  <1>3. PICK E : E = Decided'
    OBVIOUS
  <1>4. Sticks(D, answers)
    BY <1>2 DEF StickyInv
  <1>6. ASSUME UNCHANGED Inbox!vars PROVE Sticks(E, answers')
    BY <1>2, <1>3, <1>4, <1>6 DEF Inbox!vars
  <1>7. ASSUME NEW m \in Messages, Inbox!Decide(m)
        PROVE  Sticks(E, answers')
    <2>1. PICK verdict :
              /\ D[KeyOf(m)] = {} /\ E = [D EXCEPT ![KeyOf(m)] = {verdict}]
              /\ \/ \E answer \in FirstAnswers(m, verdict) :
                        answers' = [answers EXCEPT ![m] = @ \union {answer}]
                 \/ answers' = answers
      BY <1>2, <1>3, <1>7 DEF Inbox!Decide, Inbox!Hears
    <2>2. \A n \in Messages : E[KeyOf(n)] = IF KeyOf(n) = KeyOf(m) THEN {verdict} ELSE D[KeyOf(n)]
      BY <1>2, <2>1 DEF Decided
    <2>3. ASSUME NEW n \in Messages, n.type = "inbound", NEW a \in answers'[n],
                 a.kind \in Accepted
          PROVE  Turned(a) \/ \E v : E[KeyOf(n)] = {v} /\ a = Decision(v)
      <3>1. CASE a \in answers[n]
        BY <1>4, <2>1, <2>2, <2>3, <3>1 DEF Sticks
      <3>2. CASE a \notin answers[n]
        <4>1. n = m /\ a \in FirstAnswers(m, verdict)
          BY <1>1, <2>1, <2>3, <3>2
        <4>2. a = Decision(verdict)
          BY <2>3, <4>1 DEF FirstAnswers
        <4>. QED BY <2>2, <4>1, <4>2
      <3>. QED BY <3>1, <3>2
    <2>. QED BY <1>4, <2>2, <2>3 DEF Sticks
  <1>8. ASSUME NEW m \in Messages, Inbox!Repeat(m)
        PROVE  Sticks(E, answers')
    <2>0. PICK verdict \in D[KeyOf(m)] :
              \E answer \in LaterAnswers(m, verdict) :
                  E = D /\ answers' = [answers EXCEPT ![m] = @ \union {answer}]
      BY <1>2, <1>3, <1>8 DEF Inbox!Repeat, Inbox!Hears
    <2>1. PICK answer \in LaterAnswers(m, verdict) :
              E = D /\ answers' = [answers EXCEPT ![m] = @ \union {answer}]
      BY <2>0
    <2>2. D[KeyOf(m)] = {verdict}
      BY <1>4, <2>1 DEF Sticks
    <2>3. m.type = "inbound" => answer = Decision(verdict)
      BY <2>1 DEF LaterAnswers
    <2>4. ASSUME NEW n \in Messages, n.type = "inbound", NEW a \in answers'[n],
                 a.kind \in Accepted
          PROVE  Turned(a) \/ \E v : D[KeyOf(n)] = {v} /\ a = Decision(v)
      <3>1. CASE a \in answers[n]
        BY <1>4, <2>4, <3>1 DEF Sticks
      <3>2. CASE a \notin answers[n]
        <4>1. n = m /\ a = answer
          BY <1>1, <2>1, <2>4, <3>2
        <4>. QED BY <2>2, <2>3, <2>4, <4>1
      <3>. QED BY <3>1, <3>2
    <2>5. Sticks(D, answers')
      BY <1>4, <2>4 DEF Sticks
    <2>. QED BY <2>1, <2>5
  <1>9. ASSUME NEW m \in Messages, Refused(m)
        PROVE  Sticks(E, answers')
    <2>1. PICK answer \in Refusals :
              E = D /\ answers' = [answers EXCEPT ![m] = @ \union {answer}]
      BY <1>2, <1>3, <1>9 DEF Refused, Inbox!Hears
    <2>2. answer.kind \in Accepted => Turned(answer)
      BY <2>1 DEF StickyInv, DidsStay, Refusals, Turned, UnknownDid, Plain, Accepted
    <2>3. ASSUME NEW n \in Messages, n.type = "inbound", NEW a \in answers'[n],
                 a.kind \in Accepted
          PROVE  Turned(a) \/ \E v : D[KeyOf(n)] = {v} /\ a = Decision(v)
      <3>1. CASE a \in answers[n]
        BY <1>4, <2>3, <3>1 DEF Sticks
      <3>2. CASE a \notin answers[n]
        BY <1>1, <2>1, <2>2, <2>3, <3>2
      <3>. QED BY <3>1, <3>2
    <2>4. Sticks(D, answers')
      BY <1>4, <2>3 DEF Sticks
    <2>. QED BY <2>1, <2>4
  <1>10. ASSUME InboxStep PROVE Sticks(E, answers')
    <2>1. PICK m \in Messages : Inbox!Decide(m) \/ Inbox!Repeat(m) \/ Refused(m)
      BY <1>10 DEF InboxStep
    <2>. QED BY <2>1, <1>7, <1>8, <1>9
  <1>11. Sticks(E, answers')
    BY <1>6, <1>10
  <1>. QED BY <1>3, <1>11 DEF Sticks, KeyOf

LEMMA InitSticky == Init => StickyInv
  <1>1. SUFFICES ASSUME Init PROVE StickyInv
    OBVIOUS
  <1>2. BagToSet(callEvents) = {}
    BY <1>1 DEF Init, EmptyBag, SetToBag, BagToSet
  <1>3. \A m \in Messages : Decided[KeyOf(m)] = {}
    BY <1>2 DEF Decided, RecordedAt
  <1>. QED BY <1>1, <1>3 DEF Init, StickyInv, DidsStay, Sticks

LEMMA StickyInvariant == Spec => [](TypeInv /\ RecordInv /\ StickyInv)
  <1>1. Init => TypeInv /\ RecordInv /\ StickyInv
    BY InitType, InitRecords, InitSticky
  <1>2. TypeInv /\ RecordInv /\ StickyInv /\ [Next]_vars => StickyInv'
    BY StepDids, StepRefines, StepSticky DEF StickyInv
  <1>3. TypeInv /\ RecordInv /\ StickyInv /\ [Next]_vars => (TypeInv /\ RecordInv /\ StickyInv)'
    BY <1>2, StepType, StepRecords
  <1>. QED BY <1>1, <1>3, PTL DEF Spec

\* Two accepted answers to one inbound call agree ...
LEMMA AnswersAgree ==
    ASSUME StickyInv, NEW m \in Messages, m.type = "inbound",
           NEW a \in answers[m], NEW b \in answers[m], a.kind \in Accepted, b.kind \in Accepted,
           ~Turned(a), ~Turned(b)
    PROVE  a = b
  BY DEF StickyInv, Sticks

\* ... for as long as every DID stays assigned, whatever requests overlap, crash
\* or lose their answers ...
THEOREM DecisionsStick == SwitchableDids = {} /\ Spec => []StickyInboundDecision
  <1>1. SUFFICES ASSUME SwitchableDids = {} PROVE Spec => []StickyInboundDecision
    OBVIOUS
  <1>2. StickyInv => StickyInboundDecision
    BY <1>1, AnswersAgree DEF StickyInboundDecision, Turned
  <1>. QED BY <1>2, StickyInvariant, PTL

StickyOnceKnown ==
    \A m \in Messages : m.type = "inbound" =>
        \A a, b \in answers[m] \ {UnknownDid} :
            a.kind \in Accepted /\ b.kind \in Accepted => a = b

\* ... and whatever is switched, from the moment its DID was found.
THEOREM KnownDecisionsStick == Spec => []StickyOnceKnown
  <1>1. StickyInv => StickyOnceKnown
    BY AnswersAgree DEF StickyOnceKnown, Turned
  <1>. QED BY <1>1, StickyInvariant, PTL
=============================================================================
