--------------------------- MODULE CallTasks_proofs ---------------------------
(* For any tables of tenants, assignments and endpoints, any number of        *)
(* operations at one time, of inputs and of reports: what a request works     *)
(* with (TaskInv), and then what the page shows of the answers (PageInv).     *)
EXTENDS CallTasks, TLAPS, WellFoundedInduction

LEMMA MinUnder ==
    ASSUME NEW S, S \subseteq Nat, S # {},
           NEW R, IsWellFoundedOn(R, Nat), \A x, y \in Nat : y < x => <<y, x>> \in R
    PROVE  Min(S) \in S
<1>1. PICK x \in S : \A y \in S : <<y, x>> \notin R
  BY WFMin
<1>2. ASSUME NEW y \in S PROVE x =< y
  <2>1. x \in Nat /\ y \in Nat /\ ~(y < x)
    BY <1>1
  <2> QED
    BY <2>1
<1> QED
  BY <1>2 DEF Min

\* The first place of a table is one of its places.
LEMMA MinFacts ==
    ASSUME NEW S, S \subseteq Nat, S # {}
    PROVE  Min(S) \in S
<1> DEFINE R == OpToRel(<, Nat)
<1>1. \A x, y \in Nat : y < x => <<y, x>> \in R
  BY DEF OpToRel
<1>2. IsWellFoundedOn(R, Nat)
  BY NatLessThanWellFounded
<1> HIDE DEF R
<1> QED
  BY <1>1, <1>2, MinUnder

-----------------------------------------------------------------------------
Rows == [tenant : Tenants \cup {None}, version : Nat, since : Nat, latest : Nat, window : Nat]

Steps == {"authenticate", "assignment", "did", "endpoint", "call", "window", "event"}

Reqs ==
    [kind : {"create", "get"}, header : Headers \cup Tenants \cup {None}, left : SUBSET Steps,
     tenant : Tenants \cup {None}, task : Nat \cup {None},
     assignment : Range(Assignments) \cup {None}, did : Dids \cup {None},
     endpoint : Range(Endpoints) \cup {None}, view : Views,
     code : {None, 200, 403, 404, 500}, waiting : BOOLEAN, gone : SUBSET Things]

\* What was withdrawn and not put back is still out of use, and not in the hands
\* of the request.
GoneInv(r, out) ==
    /\ r.gone \subseteq out
    /\ {r.tenant, r.assignment, r.did, r.endpoint} \cap r.gone = {}

\* Between the read of the call and that of the latest event, the table holds an
\* event that is as late as the status; from then on the answer does.
ViewInv(r, table) ==
    /\ r.kind = "get" \/ r.code = 200 => r.task \in DOMAIN table
    /\ r.kind = "create" => r.left \cap {"call", "window", "event"} = {}
    /\ "event" \in r.left => r.view.since <= table[r.task].latest
    /\ "event" \notin r.left /\ r.code \in {None, 200} => r.view.since <= r.view.latest

StepInv(r) ==
    /\ r.code # None => r.left = {}
    /\ "authenticate" \in r.left => r.left = {"authenticate"}
    /\ "assignment" \in r.left => "did" \notin r.left
    /\ "did" \in r.left => r.assignment # None

ReqInv(r, out, table) ==
    r \in Reqs /\ GoneInv(r, out) /\ ViewInv(r, table) /\ StepInv(r)

TasksInv ==
    /\ tasks \in Seq(Rows)
    /\ \A t \in DOMAIN tasks : tasks[t].since <= tasks[t].latest

ShownInv ==
    shown # None =>
        /\ shown \in [task : Nat, tenant : Tenants \cup {None}, view : Views]
        /\ shown.task \in DOMAIN tasks
        /\ shown.view.since <= shown.view.latest

TaskInv ==
    /\ inactive \subseteq Things
    /\ TasksInv
    /\ ShownInv
    /\ reqs = [s \in Slots |-> reqs[s]]
    /\ \A s \in Slots : reqs[s] # None => ReqInv(reqs[s], inactive, tasks)

LEMMA InitInv == Init => TaskInv
  BY DEF Init, TaskInv, TasksInv, ShownInv

\* Steps that leave the tables alone and replace one request by none or by a
\* sound one.
LEMMA PageStep ==
    ASSUME TaskInv, UNCHANGED serverVars, ShownInv', NEW s \in Slots,
           NEW r, reqs' = [reqs EXCEPT ![s] = r], r # None => ReqInv(r, inactive, tasks)
    PROVE  TaskInv'
<1>1. reqs' = [z \in Slots |-> reqs'[z]]
  BY DEF TaskInv
<1>2. ASSUME NEW z \in Slots, reqs'[z] # None PROVE ReqInv(reqs'[z], inactive', tasks')
  BY <1>2 DEF TaskInv, serverVars
<1>3. TasksInv'
  BY DEF TaskInv, TasksInv, serverVars
<1> QED
  BY <1>1, <1>2, <1>3 DEF TaskInv, serverVars

LEMMA OneRequest ==
    ASSUME TaskInv, UNCHANGED <<serverVars, shown>>, NEW s \in Slots,
           NEW r, reqs' = [reqs EXCEPT ![s] = r], r # None => ReqInv(r, inactive, tasks)
    PROVE  TaskInv'
<1>1. ShownInv'
  BY DEF TaskInv, ShownInv, serverVars
<1> QED
  BY <1>1, PageStep

\* Tables in which no task disappears and no latest event becomes older.
Grows(table, later) ==
    \A t \in DOMAIN table :
        t \in DOMAIN later /\ table[t].latest \in Nat /\ later[t].latest \in Nat
        /\ table[t].latest <= later[t].latest

LEMMA ReqInvGrows ==
    ASSUME NEW table, NEW later, Grows(table, later), NEW out, NEW r, ReqInv(r, out, table)
    PROVE  ReqInv(r, out, later)
<1>1. r.kind \in {"create", "get"} /\ r.view.since \in Nat
  BY DEF ReqInv, Reqs, Views
<1>2. ViewInv(r, later)
  BY <1>1 DEF Grows, ReqInv, ViewInv
<1> QED
  BY <1>2 DEF ReqInv

LEMMA RequestInv ==
    ASSUME inactive \subseteq Things, NEW kind \in {"create", "get"},
           NEW header \in Headers \cup Tenants \cup {None}, NEW task \in Nat \cup {None}
    PROVE  /\ Request(kind, header, task) \in Reqs
           /\ GoneInv(Request(kind, header, task), inactive)
           /\ StepInv(Request(kind, header, task))
           /\ Request(kind, header, task).kind = kind
           /\ Request(kind, header, task).task = task
           /\ Request(kind, header, task).left = {"authenticate"}
           /\ Request(kind, header, task).code = None
           /\ Request(kind, header, task).view.since = 0
           /\ Request(kind, header, task).view.latest = 0
<1> DEFINE view0 == [version |-> 0, since |-> 0, window |-> 0, latest |-> 0]
           r == [kind |-> kind, header |-> header, left |-> {"authenticate"}, tenant |-> None,
                 task |-> task, assignment |-> None, did |-> None, endpoint |-> None,
                 view |-> view0, code |-> None, waiting |-> TRUE, gone |-> inactive]
<1>1. /\ inactive \in SUBSET Things /\ {"authenticate"} \in SUBSET Steps /\ view0 \in Views
      /\ view0.since = 0 /\ view0.latest = 0 /\ None \notin inactive
  BY TablesAssumption DEF Views, Steps
<1>2. r = Request(kind, header, task)
  BY DEF Request
<1> HIDE DEF view0
<1>3. r \in Reqs
  BY <1>1 DEF Reqs
<1>4. GoneInv(r, inactive) /\ StepInv(r)
  BY <1>1 DEF GoneInv, StepInv
<1>5. /\ r.kind = kind /\ r.task = task /\ r.left = {"authenticate"} /\ r.code = None
      /\ r.view = view0
  OBVIOUS
<1> HIDE DEF r
<1> QED
  BY <1>1, <1>2, <1>3, <1>4, <1>5

\* A request that is answered, or forgotten when nobody waits for it.
WithAnswer(r, code) ==
    [Request(r.kind, None, r.task) EXCEPT !.left = {}, !.code = code, !.tenant = r.tenant,
                                          !.view = r.view, !.gone = {}]

LEMMA AnsweredInv ==
    ASSUME inactive \subseteq Things, NEW code \in {200, 403, 404, 500},
           NEW r \in Reqs, NEW table,
           r.kind = "get" \/ code = 200 => r.task \in DOMAIN table,
           code = 200 => r.view.since <= r.view.latest
    PROVE  ReqInv(WithAnswer(r, code), inactive, table)
<1> DEFINE base == Request(r.kind, None, r.task)
           r1 == [base EXCEPT !.left = {}]
           r2 == [r1 EXCEPT !.code = code]
           r3 == [r2 EXCEPT !.tenant = r.tenant]
           r4 == [r3 EXCEPT !.view = r.view]
           full == [r4 EXCEPT !.gone = {}]
<1>1. base \in Reqs /\ base.kind = r.kind /\ base.task = r.task
  <2>1. r.kind \in {"create", "get"} /\ r.task \in Nat \cup {None}
    BY DEF Reqs
  <2>2. ASSUME NEW kind \in {"create", "get"}, NEW task \in Nat \cup {None}
        PROVE  /\ Request(kind, None, task) \in Reqs
               /\ Request(kind, None, task).kind = kind
               /\ Request(kind, None, task).task = task
    <3>1. None \in Headers \cup Tenants \cup {None}
      OBVIOUS
    <3> QED
      BY <3>1, RequestInv
  <2> QED
    BY <2>1, <2>2 DEF Request
<1>2. WithAnswer(r, code) = full
  BY DEF WithAnswer
<1> HIDE DEF base
<1>3. /\ full.kind = r.kind /\ full.task = r.task /\ full.left = {} /\ full.code = code
      /\ full.view = r.view /\ full.gone = {}
  BY <1>1 DEF Reqs
<1>4. full \in Reqs
  <2>1. r.tenant \in Tenants \cup {None} /\ r.view \in Views
    BY DEF Reqs
  <2>2. r1 \in Reqs
    BY <1>1 DEF Reqs
  <2> HIDE DEF r1
  <2>3. r2 \in Reqs
    BY <2>2 DEF Reqs
  <2> HIDE DEF r2
  <2>4. r3 \in Reqs
    BY <2>1, <2>3 DEF Reqs
  <2> HIDE DEF r3
  <2>5. r4 \in Reqs
    BY <2>1, <2>4 DEF Reqs
  <2> HIDE DEF r4
  <2> QED
    BY <2>5 DEF Reqs
<1> HIDE DEF full
<1>5. full.code = None => full.view.since <= full.view.latest
  BY <1>3, TablesAssumption
<1>6. ReqInv(full, inactive, table)
  BY <1>3, <1>4, <1>5 DEF ReqInv, GoneInv, ViewInv, StepInv
<1> QED
  BY <1>2, <1>6

-----------------------------------------------------------------------------
LEMMA ChosenInv ==
    ASSUME inactive \subseteq Things, NEW X, NEW table \in Seq(X), NEW tenant
    PROVE  Chosen(table, tenant) \in Range(table) \cup {None} /\ Chosen(table, tenant) \notin inactive
<1> DEFINE own == OwnedBy(table, InUse(table, tenant), "member")
           shared == OwnedBy(table, InUse(table, tenant), None)
<1>1. /\ DOMAIN table \subseteq Nat /\ None \notin inactive
      /\ \A i \in own \cup shared : i \in DOMAIN table /\ table[i] \notin inactive
  BY TablesAssumption DEF OwnedBy, InUse
<1>2. CASE own # {}
  <2>1. Min(own) \in own /\ Chosen(table, tenant) = table[Min(own)]
    BY <1>1, <1>2, MinFacts DEF Chosen
  <2> QED
    BY <1>1, <2>1 DEF Range
<1>3. CASE own = {} /\ shared # {}
  <2>1. Min(shared) \in shared /\ Chosen(table, tenant) = table[Min(shared)]
    BY <1>1, <1>3, MinFacts DEF Chosen
  <2> QED
    BY <1>1, <2>1 DEF Range
<1>4. CASE own = {} /\ shared = {}
  BY <1>1, <1>4 DEF Chosen
<1> QED
  BY <1>2, <1>3, <1>4

LEMMA TenantInv ==
    ASSUME inactive \subseteq Things, NEW header
    PROVE  TenantOf(header) \in Tenants \cup {None} /\ TenantOf(header) \notin inactive
<1> DEFINE members == { i \in DOMAIN Joined : Joined[i] \notin inactive }
<1>1. /\ members \subseteq Nat /\ None \notin inactive
      /\ \A i \in members : Joined[i] \in Tenants /\ Joined[i] \notin inactive
  BY TablesAssumption
<1>2. CASE header = None /\ members # {}
  <2>1. Min(members) \in members /\ TenantOf(header) = Joined[Min(members)]
    BY <1>1, <1>2, MinFacts DEF TenantOf
  <2> QED
    BY <1>1, <2>1
<1>3. CASE ~(header = None /\ members # {})
  BY <1>1, <1>3 DEF TenantOf
<1> QED
  BY <1>2, <1>3

-----------------------------------------------------------------------------
(* The server                                                                *)

\* A request that runs is sound and not answered yet.
LEMMA Running ==
    ASSUME TaskInv, NEW s \in Slots, NEW x, Runs(s, x)
    PROVE  /\ reqs[s] # None /\ ReqInv(reqs[s], inactive, tasks) /\ reqs[s] \in Reqs
           /\ reqs[s].code = None /\ x \in reqs[s].left /\ inactive \subseteq Things
  BY DEF Runs, TaskInv, ReqInv, StepInv

LEMMA AnswerKeeps ==
    ASSUME TaskInv, UNCHANGED <<serverVars, shown>>, NEW s \in Slots,
           NEW code \in {200, 403, 404, 500}, NEW r \in Reqs,
           reqs' = Answered(s, code, r),
           r.kind = "get" \/ code = 200 => r.task \in DOMAIN tasks,
           code = 200 => r.view.since <= r.view.latest
    PROVE  TaskInv'
<1>1. inactive \subseteq Things
  BY DEF TaskInv
<1>2. /\ Answered(s, code, r) = [reqs EXCEPT ![s] = IF ~r.waiting THEN None ELSE WithAnswer(r, code)]
      /\ ReqInv(WithAnswer(r, code), inactive, tasks)
  <2>1. ReqInv(WithAnswer(r, code), inactive, tasks)
    BY <1>1, AnsweredInv
  <2>2. Answered(s, code, r) = [reqs EXCEPT ![s] = IF ~r.waiting THEN None ELSE WithAnswer(r, code)]
    BY DEF Answered, WithAnswer
  <2> QED
    BY <2>1, <2>2
<1> QED
  BY <1>2, OneRequest

LEMMA AuthenticateKeeps == ASSUME TaskInv, NEW s \in Slots, Authenticate(s) PROVE TaskInv'
<1> DEFINE r == reqs[s]
           tenant == TenantOf(r.header)
           more == IF r.kind = "create" THEN {"assignment", "endpoint"} ELSE {"call"}
           r1 == [r EXCEPT !.tenant = tenant]
           new == [r1 EXCEPT !.left = (r1.left \ {"authenticate"}) \cup more]
<1>1. /\ r # None /\ ReqInv(r, inactive, tasks) /\ r \in Reqs /\ r.code = None
      /\ r.left = {"authenticate"} /\ UNCHANGED <<serverVars, shown>>
  BY Running DEF Authenticate, ReqInv, StepInv, ServerOnly, pageVars
<1>2. CASE tenant = None
  <2>1. reqs' = Answered(s, 403, r)
    BY <1>2 DEF Authenticate
  <2> QED
    BY <1>1, <2>1, AnswerKeeps DEF ReqInv, ViewInv
<1>3. CASE tenant # None
  <2>1. reqs' = [reqs EXCEPT ![s] = new]
    BY <1>3 DEF Authenticate, Done
  <2>2. tenant \in Tenants \cup {None} /\ tenant \notin inactive
    BY TenantInv DEF TaskInv
  <2> HIDE DEF tenant
  <2>3. r1 \in Reqs /\ r1.left = {"authenticate"}
    BY <1>1, <2>2 DEF Reqs
  <2>4. /\ new.kind = r.kind /\ new.task = r.task /\ new.view = r.view /\ new.code = r.code
        /\ new.assignment = r.assignment /\ new.did = r.did /\ new.endpoint = r.endpoint
        /\ new.gone = r.gone /\ new.tenant = tenant /\ new.left = more
    BY <1>1, <2>3 DEF Reqs
  <2> HIDE DEF r1
  <2>5. new \in Reqs
    BY <2>3 DEF Reqs, Steps
  <2> HIDE DEF new
  <2>6. GoneInv(new, inactive)
    BY <1>1, <2>2, <2>4 DEF ReqInv, GoneInv
  <2>7. r.kind \in {"create", "get"} /\ more \in {{"assignment", "endpoint"}, {"call"}}
    BY <1>1 DEF Reqs
  <2>8. ViewInv(new, tasks) /\ StepInv(new)
    BY <1>1, <2>4, <2>7 DEF ReqInv, ViewInv, StepInv
  <2> QED
    BY <1>1, <2>1, <2>5, <2>6, <2>8, OneRequest DEF ReqInv
<1> QED
  BY <1>2, <1>3

LEMMA RefuseKeeps == ASSUME TaskInv, NEW s \in Slots, Refuse(s) PROVE TaskInv'
  BY AnswerKeeps DEF Refuse, ServerOnly, pageVars, TaskInv, ReqInv, ViewInv

LEMMA SelectAssignmentKeeps ==
    ASSUME TaskInv, NEW s \in Slots, SelectAssignment(s)
    PROVE  TaskInv'
<1> DEFINE r == reqs[s]
           found == Chosen(Assignments, r.tenant)
           more == IF found = None THEN {} ELSE {"did"}
           r1 == [r EXCEPT !.assignment = found]
           new == [r1 EXCEPT !.left = (r1.left \ {"assignment"}) \cup more]
<1>1. /\ r # None /\ ReqInv(r, inactive, tasks) /\ r \in Reqs /\ r.code = None
      /\ "assignment" \in r.left /\ UNCHANGED <<serverVars, shown>>
  BY Running DEF SelectAssignment, ServerOnly, pageVars
<1>2. reqs' = [reqs EXCEPT ![s] = new]
  BY DEF SelectAssignment, Done
<1>3. found \in Range(Assignments) \cup {None} /\ found \notin inactive
  BY ChosenInv, TablesAssumption DEF TaskInv
<1> HIDE DEF found
<1>4. r1 \in Reqs /\ r1.left = r.left
  BY <1>1, <1>3 DEF Reqs
<1>5. /\ new.kind = r.kind /\ new.task = r.task /\ new.view = r.view /\ new.code = r.code
      /\ new.assignment = found /\ new.did = r.did /\ new.endpoint = r.endpoint
      /\ new.gone = r.gone /\ new.tenant = r.tenant /\ new.left = (r.left \ {"assignment"}) \cup more
  BY <1>1, <1>4 DEF Reqs
<1> HIDE DEF r1
<1>6. new \in Reqs
  BY <1>4 DEF Reqs, Steps
<1> HIDE DEF new
<1>7. GoneInv(new, inactive)
  BY <1>1, <1>3, <1>5 DEF ReqInv, GoneInv
<1>8. ViewInv(new, tasks)
  BY <1>1, <1>5 DEF ReqInv, ViewInv
<1>9. StepInv(new)
  BY <1>1, <1>5 DEF ReqInv, StepInv
<1> QED
  BY <1>1, <1>2, <1>6, <1>7, <1>8, <1>9, OneRequest DEF ReqInv

LEMMA SelectDidKeeps == ASSUME TaskInv, NEW s \in Slots, SelectDid(s) PROVE TaskInv'
<1> DEFINE r == reqs[s]
           did == IF r.assignment.did \in inactive THEN None ELSE r.assignment.did
           r1 == [r EXCEPT !.did = did]
           new == [r1 EXCEPT !.left = (r1.left \ {"did"}) \cup {}]
<1>1. /\ r # None /\ ReqInv(r, inactive, tasks) /\ r \in Reqs /\ r.code = None
      /\ "did" \in r.left /\ UNCHANGED <<serverVars, shown>> /\ inactive \subseteq Things
  BY Running DEF SelectDid, ServerOnly, pageVars
<1>2. reqs' = [reqs EXCEPT ![s] = new]
  BY DEF SelectDid, Done
<1>3. did \in Dids \cup {None} /\ did \notin inactive
  <2>1. r.assignment \in Range(Assignments)
    BY <1>1 DEF ReqInv, StepInv, Reqs
  <2>2. None \notin inactive
    BY <1>1, TablesAssumption
  <2> QED
    BY <2>1, <2>2 DEF Dids
<1> HIDE DEF did
<1>4. r1 \in Reqs /\ r1.left = r.left
  BY <1>1, <1>3 DEF Reqs
<1>5. /\ new.kind = r.kind /\ new.task = r.task /\ new.view = r.view /\ new.code = r.code
      /\ new.assignment = r.assignment /\ new.did = did /\ new.endpoint = r.endpoint
      /\ new.gone = r.gone /\ new.tenant = r.tenant /\ new.left = r.left \ {"did"}
  BY <1>1, <1>4 DEF Reqs
<1> HIDE DEF r1
<1>6. new \in Reqs
  BY <1>4 DEF Reqs, Steps
<1> HIDE DEF new
<1>7. GoneInv(new, inactive)
  BY <1>1, <1>3, <1>5 DEF ReqInv, GoneInv
<1>8. ViewInv(new, tasks)
  BY <1>1, <1>5 DEF ReqInv, ViewInv
<1>9. StepInv(new)
  BY <1>1, <1>5 DEF ReqInv, StepInv
<1> QED
  BY <1>1, <1>2, <1>6, <1>7, <1>8, <1>9, OneRequest DEF ReqInv

LEMMA SelectTargetEndpointKeeps ==
    ASSUME TaskInv, NEW s \in Slots, SelectTargetEndpoint(s)
    PROVE  TaskInv'
<1> DEFINE r == reqs[s]
           found == Chosen(Endpoints, r.tenant)
           r1 == [r EXCEPT !.endpoint = found]
           new == [r1 EXCEPT !.left = (r1.left \ {"endpoint"}) \cup {}]
<1>1. /\ r # None /\ ReqInv(r, inactive, tasks) /\ r \in Reqs /\ r.code = None
      /\ "endpoint" \in r.left /\ UNCHANGED <<serverVars, shown>>
  BY Running DEF SelectTargetEndpoint, ServerOnly, pageVars
<1>2. reqs' = [reqs EXCEPT ![s] = new]
  BY DEF SelectTargetEndpoint, Done
<1>3. found \in Range(Endpoints) \cup {None} /\ found \notin inactive
  BY ChosenInv, TablesAssumption DEF TaskInv
<1> HIDE DEF found
<1>4. r1 \in Reqs /\ r1.left = r.left
  BY <1>1, <1>3 DEF Reqs
<1>5. /\ new.kind = r.kind /\ new.task = r.task /\ new.view = r.view /\ new.code = r.code
      /\ new.assignment = r.assignment /\ new.did = r.did /\ new.endpoint = found
      /\ new.gone = r.gone /\ new.tenant = r.tenant /\ new.left = r.left \ {"endpoint"}
  BY <1>1, <1>4 DEF Reqs
<1> HIDE DEF r1
<1>6. new \in Reqs
  BY <1>4 DEF Reqs, Steps
<1> HIDE DEF new
<1>7. GoneInv(new, inactive)
  BY <1>1, <1>3, <1>5 DEF ReqInv, GoneInv
<1>8. ViewInv(new, tasks)
  BY <1>1, <1>5 DEF ReqInv, ViewInv
<1>9. StepInv(new)
  BY <1>1, <1>5 DEF ReqInv, StepInv
<1> QED
  BY <1>1, <1>2, <1>6, <1>7, <1>8, <1>9, OneRequest DEF ReqInv

LEMMA PersistKeeps == ASSUME TaskInv, NEW s \in Slots, PersistOutboundCall(s) PROVE TaskInv'
<1> DEFINE r == reqs[s]
           row == NewTask(r)
           r1 == [r EXCEPT !.task = Len(tasks')]
           r2 == [r1 EXCEPT !.view = View(row)]
<1>1. /\ r # None /\ r.kind = "create" /\ r \in Reqs /\ inactive \subseteq Things
      /\ UNCHANGED <<inactive, shown>> /\ tasks' = Append(tasks, row)
      /\ reqs' = Answered(s, 200, r2)
  BY DEF PersistOutboundCall, TaskInv, ReqInv, ServerOnly, pageVars
<1>2. row \in Rows /\ row.since <= row.latest /\ View(row) \in Views
      /\ View(row).since <= View(row).latest
  <2>1. r.tenant \in Tenants \cup {None} /\ AcceptedAt \in Nat
    BY <1>1, TablesAssumption DEF Reqs
  <2> QED
    BY <2>1 DEF NewTask, Rows, View, Views
<1> HIDE DEF row
<1>3. /\ tasks \in Seq(Rows) /\ tasks' \in Seq(Rows)
      /\ Len(tasks') \in Nat /\ Len(tasks') \in DOMAIN tasks'
      /\ \A t \in DOMAIN tasks : t \in DOMAIN tasks' /\ tasks'[t] = tasks[t]
      /\ \A t \in DOMAIN tasks' : t \in DOMAIN tasks \/ tasks'[t] = row
  BY <1>1, <1>2 DEF TaskInv, TasksInv
<1>4. TasksInv'
  BY <1>2, <1>3 DEF TaskInv, TasksInv
<1>5. Grows(tasks, tasks')
  <2>1. \A t \in DOMAIN tasks : tasks[t] \in Rows
    BY <1>3
  <2> QED
    <3>1. ASSUME NEW t \in DOMAIN tasks
          PROVE  t \in DOMAIN tasks' /\ tasks[t].latest \in Nat /\ tasks'[t] = tasks[t]
      <4>1. tasks[t] \in Rows
        BY <2>1
      <4> QED
        BY <1>3, <4>1 DEF Rows
    <3> QED
      BY <3>1 DEF Grows
<1>6. r1 \in Reqs
  BY <1>1, <1>3 DEF Reqs
<1>7. r2 \in Reqs
  <2> HIDE DEF r1
  <2> QED
    BY <1>2, <1>6 DEF Reqs
<1>8. r2.kind = "create" /\ r2.task = Len(tasks') /\ r2.view = View(row)
  BY <1>1 DEF Reqs
<1> HIDE DEF r2
<1>9. /\ Answered(s, 200, r2) = [reqs EXCEPT ![s] = IF ~r2.waiting THEN None ELSE WithAnswer(r2, 200)]
      /\ ReqInv(WithAnswer(r2, 200), inactive, tasks')
  <2>1. r2.task \in DOMAIN tasks' /\ r2.view.since <= r2.view.latest
    BY <1>2, <1>3, <1>8
  <2>2. 200 \in {200, 403, 404, 500}
    OBVIOUS
  <2> QED
    <3>1. ASSUME NEW table, r2.task \in DOMAIN table
          PROVE  ReqInv(WithAnswer(r2, 200), inactive, table)
      BY <1>1, <1>7, <2>1, <2>2, <3>1, AnsweredInv
    <3>2. Answered(s, 200, r2) = [reqs EXCEPT ![s] = IF ~r2.waiting THEN None ELSE WithAnswer(r2, 200)]
      BY DEF Answered, WithAnswer
    <3> QED
      BY <2>1, <3>1, <3>2
<1>10. ASSUME NEW z \in Slots, reqs'[z] # None PROVE ReqInv(reqs'[z], inactive', tasks')
  <2>1. CASE z = s
    BY <1>1, <1>9, <1>10, <2>1 DEF TaskInv
  <2>2. CASE z # s
    <3>1. reqs'[z] = reqs[z] /\ ReqInv(reqs[z], inactive, tasks)
      BY <1>1, <1>9, <1>10, <2>2 DEF TaskInv
    <3> QED
      BY <1>1, <1>5, <3>1, ReqInvGrows
  <2> QED
    BY <2>1, <2>2
<1>11. reqs' = [z \in Slots |-> reqs'[z]]
  BY <1>1, <1>9 DEF TaskInv
<1>12. ShownInv'
  BY <1>1, <1>3 DEF TaskInv, ShownInv
<1> QED
  BY <1>1, <1>4, <1>10, <1>11, <1>12 DEF TaskInv

LEMMA FindCallKeeps == ASSUME TaskInv, NEW s \in Slots, FindCall(s) PROVE TaskInv'
<1> DEFINE r == reqs[s]
           row == tasks[r.task]
           view1 == [r.view EXCEPT !.version = row.version]
           view == [view1 EXCEPT !.since = row.since]
           r1 == [r EXCEPT !.view = view]
           new == [r1 EXCEPT !.left = (r1.left \ {"call"}) \cup {"window", "event"}]
<1>1. /\ r # None /\ ReqInv(r, inactive, tasks) /\ r \in Reqs /\ r.code = None
      /\ "call" \in r.left /\ UNCHANGED <<serverVars, shown>>
  BY Running DEF FindCall, ServerOnly, pageVars
<1>2. r.kind = "get" /\ r.task \in DOMAIN tasks /\ row \in Rows /\ row.since <= row.latest
  BY <1>1 DEF ReqInv, ViewInv, Reqs, TaskInv, TasksInv
<1>3. CASE row.tenant # r.tenant
  <2>1. reqs' = Answered(s, 404, r)
    BY <1>3 DEF FindCall
  <2> QED
    BY <1>1, <1>2, <2>1, AnswerKeeps
<1>4. CASE row.tenant = r.tenant
  <2>1. reqs' = [reqs EXCEPT ![s] = new]
    BY <1>1, <1>4, ZenonT(30) DEF FindCall, Done, Reqs
  <2>2. view \in Views /\ view.since = row.since
    <3>1. view1 \in Views
      BY <1>1, <1>2 DEF Reqs, Views, Rows
    <3> HIDE DEF view1
    <3> QED
      BY <1>2, <3>1 DEF Views, Rows
  <2> HIDE DEF view
  <2>3. r1 \in Reqs /\ r1.left = r.left
    BY <1>1, <2>2 DEF Reqs
  <2>4. /\ new.kind = r.kind /\ new.task = r.task /\ new.view = view /\ new.code = r.code
        /\ new.assignment = r.assignment /\ new.did = r.did /\ new.endpoint = r.endpoint
        /\ new.gone = r.gone /\ new.tenant = r.tenant
        /\ new.left = (r.left \ {"call"}) \cup {"window", "event"}
    BY <1>1, <2>3 DEF Reqs
  <2> HIDE DEF r1
  <2>5. new \in Reqs
    BY <2>3 DEF Reqs, Steps
  <2> HIDE DEF new
  <2>6. GoneInv(new, inactive)
    BY <1>1, <2>4 DEF ReqInv, GoneInv
  <2>7. ViewInv(new, tasks)
    BY <1>1, <1>2, <2>2, <2>4 DEF ReqInv, ViewInv
  <2>8. StepInv(new)
    BY <1>1, <2>4 DEF ReqInv, StepInv
  <2> QED
    BY <1>1, <2>1, <2>5, <2>6, <2>7, <2>8, OneRequest DEF ReqInv
<1> QED
  BY <1>3, <1>4

LEMMA FindWindowKeeps == ASSUME TaskInv, NEW s \in Slots, FindWindow(s) PROVE TaskInv'
<1> DEFINE r == reqs[s]
           view == [r.view EXCEPT !.window = tasks[r.task].window]
           r1 == [r EXCEPT !.view = view]
           new == [r1 EXCEPT !.left = (r1.left \ {"window"}) \cup {}]
<1>1. /\ r # None /\ ReqInv(r, inactive, tasks) /\ r \in Reqs /\ r.code = None
      /\ "window" \in r.left /\ UNCHANGED <<serverVars, shown>>
  BY Running DEF FindWindow, ServerOnly, pageVars
<1>2. r.kind = "get" /\ r.task \in DOMAIN tasks /\ tasks[r.task] \in Rows
  BY <1>1 DEF ReqInv, ViewInv, Reqs, TaskInv, TasksInv
<1>3. reqs' = [reqs EXCEPT ![s] = new]
  BY <1>1 DEF FindWindow, Done, Reqs
<1>4. view \in Views /\ view.since = r.view.since /\ view.latest = r.view.latest
  BY <1>1, <1>2 DEF Reqs, Views, Rows
<1> HIDE DEF view
<1>5. r1 \in Reqs /\ r1.left = r.left
  BY <1>1, <1>4 DEF Reqs
<1>6. /\ new.kind = r.kind /\ new.task = r.task /\ new.view = view /\ new.code = r.code
      /\ new.assignment = r.assignment /\ new.did = r.did /\ new.endpoint = r.endpoint
      /\ new.gone = r.gone /\ new.tenant = r.tenant /\ new.left = r.left \ {"window"}
  BY <1>1, <1>5 DEF Reqs
<1> HIDE DEF r1
<1>7. new \in Reqs
  BY <1>5 DEF Reqs, Steps
<1> HIDE DEF new
<1>8. GoneInv(new, inactive)
  BY <1>1, <1>6 DEF ReqInv, GoneInv
<1>9. ViewInv(new, tasks)
  BY <1>1, <1>4, <1>6 DEF ReqInv, ViewInv
<1>10. StepInv(new)
  BY <1>1, <1>6 DEF ReqInv, StepInv
<1> QED
  BY <1>1, <1>3, <1>7, <1>8, <1>9, <1>10, OneRequest DEF ReqInv

\* The event that is read is as late as the one that was there with the status.
LEMMA FindLatestEventKeeps == ASSUME TaskInv, NEW s \in Slots, FindLatestEvent(s) PROVE TaskInv'
<1> DEFINE r == reqs[s]
           view == [r.view EXCEPT !.latest = tasks[r.task].latest]
           r1 == [r EXCEPT !.view = view]
           new == [r1 EXCEPT !.left = (r1.left \ {"event"}) \cup {}]
<1>1. /\ r # None /\ ReqInv(r, inactive, tasks) /\ r \in Reqs /\ r.code = None
      /\ "event" \in r.left /\ UNCHANGED <<serverVars, shown>>
  BY Running DEF FindLatestEvent, ServerOnly, pageVars
<1>2. /\ r.kind = "get" /\ r.task \in DOMAIN tasks /\ tasks[r.task] \in Rows
      /\ r.view.since <= tasks[r.task].latest
  BY <1>1 DEF ReqInv, ViewInv, Reqs, TaskInv, TasksInv
<1>3. reqs' = [reqs EXCEPT ![s] = new]
  BY <1>1 DEF FindLatestEvent, Done, Reqs
<1>4. view \in Views /\ view.since = r.view.since /\ view.latest = tasks[r.task].latest
  BY <1>1, <1>2 DEF Reqs, Views, Rows
<1> HIDE DEF view
<1>5. r1 \in Reqs /\ r1.left = r.left
  BY <1>1, <1>4 DEF Reqs
<1>6. /\ new.kind = r.kind /\ new.task = r.task /\ new.view = view /\ new.code = r.code
      /\ new.assignment = r.assignment /\ new.did = r.did /\ new.endpoint = r.endpoint
      /\ new.gone = r.gone /\ new.tenant = r.tenant /\ new.left = r.left \ {"event"}
  BY <1>1, <1>5 DEF Reqs
<1> HIDE DEF r1
<1>7. new \in Reqs
  BY <1>5 DEF Reqs, Steps
<1> HIDE DEF new
<1>8. GoneInv(new, inactive)
  BY <1>1, <1>6 DEF ReqInv, GoneInv
<1>9. ViewInv(new, tasks)
  BY <1>1, <1>2, <1>4, <1>6 DEF ReqInv, ViewInv
<1>10. StepInv(new)
  BY <1>1, <1>6 DEF ReqInv, StepInv
<1> QED
  BY <1>1, <1>3, <1>7, <1>8, <1>9, <1>10, OneRequest DEF ReqInv

LEMMA FindTargetEndpointKeeps ==
    ASSUME TaskInv, NEW s \in Slots, FindTargetEndpoint(s)
    PROVE  TaskInv'
  BY AnswerKeeps DEF FindTargetEndpoint, ServerOnly, pageVars, TaskInv, ReqInv, ViewInv

LEMMA SwitchStatusKeeps == ASSUME TaskInv, NEW x \in Things, SwitchStatus(x) PROVE TaskInv'
<1>1. /\ inactive' \subseteq Things /\ inactive \subseteq inactive' \cup {x}
      /\ UNCHANGED <<tasks, shown>>
  BY DEF SwitchStatus, TaskInv, pageVars
<1>2. ASSUME NEW s \in Slots, reqs'[s] # None PROVE ReqInv(reqs'[s], inactive', tasks')
  <2> DEFINE r == reqs[s]
             new == [r EXCEPT !.gone = r.gone \ {x}]
  <2>1. r # None /\ reqs'[s] = new
    BY <1>2 DEF SwitchStatus
  <2>2. r \in Reqs /\ GoneInv(r, inactive) /\ ViewInv(r, tasks) /\ StepInv(r)
    BY <2>1 DEF TaskInv, ReqInv
  <2>3. new \in Reqs
    BY <2>2 DEF Reqs
  <2>4. /\ new.kind = r.kind /\ new.task = r.task /\ new.view = r.view /\ new.code = r.code
        /\ new.assignment = r.assignment /\ new.did = r.did /\ new.endpoint = r.endpoint
        /\ new.tenant = r.tenant /\ new.left = r.left /\ new.gone = r.gone \ {x}
    BY <2>2 DEF Reqs
  <2> HIDE DEF new
  <2>5. GoneInv(new, inactive')
    BY <1>1, <2>2, <2>4 DEF GoneInv
  <2>6. ViewInv(new, tasks) /\ StepInv(new)
    BY <2>2, <2>4 DEF ViewInv, StepInv
  <2> QED
    BY <1>1, <2>1, <2>3, <2>5, <2>6 DEF ReqInv
<1>3. reqs' = [s \in Slots |-> reqs'[s]] /\ TasksInv' /\ ShownInv'
  BY <1>1 DEF SwitchStatus, TaskInv, TasksInv, ShownInv
<1> QED
  BY <1>1, <1>2, <1>3 DEF TaskInv

\* A report moves the latest event on with the status, never without it.
LEMMA ReportedRow ==
    ASSUME NEW row \in Rows, row.since <= row.latest, NEW changes, NEW at \in Nat
    PROVE  LET new == Reported(row, changes, at)
           IN new \in Rows /\ new.since <= new.latest /\ row.latest <= new.latest
<1>1. /\ row.tenant \in Tenants \cup {None} /\ row.version \in Nat /\ row.since \in Nat
      /\ row.latest \in Nat /\ row.window \in Nat
  BY DEF Rows
<1>2. Reported(row, changes, at) \in Rows
  BY <1>1 DEF Reported, Rows
<1>3. /\ Reported(row, changes, at).since \in {row.since, at}
      /\ Reported(row, changes, at).latest = IF row.latest < at THEN at ELSE row.latest
  BY DEF Reported
<1> QED
  BY <1>1, <1>2, <1>3

LEMMA ReportKeeps ==
    ASSUME TaskInv, NEW t \in DOMAIN tasks, NEW at \in Times, Report(t, at)
    PROVE  TaskInv'
<1>1. PICK changes \in SUBSET {"call", "window"} :
        tasks' = [tasks EXCEPT ![t] = Reported(@, changes, at)]
  BY DEF Report
<1> DEFINE row == tasks[t]
           new == Reported(row, changes, at)
<1>2. /\ tasks \in Seq(Rows) /\ row \in Rows /\ row.since <= row.latest /\ at \in Nat
      /\ UNCHANGED <<inactive, reqs, shown>>
  BY TablesAssumption DEF Report, TaskInv, TasksInv, pageVars
<1>3. tasks' = [tasks EXCEPT ![t] = new]
  BY <1>1
<1>4. new \in Rows /\ new.since <= new.latest /\ row.latest <= new.latest
  BY <1>2, ReportedRow
<1> HIDE DEF new
<1>5. /\ tasks' \in Seq(Rows) /\ DOMAIN tasks' = DOMAIN tasks /\ tasks'[t] = new
      /\ \A u \in DOMAIN tasks : u # t => tasks'[u] = tasks[u]
  BY <1>2, <1>3, <1>4
<1>6. TasksInv'
  <2>1. ASSUME NEW u \in DOMAIN tasks' PROVE tasks'[u].since <= tasks'[u].latest
    <3>1. CASE u = t
      BY <1>4, <1>5, <3>1
    <3>2. CASE u # t
      BY <1>5, <3>2 DEF TaskInv, TasksInv
    <3> QED
      BY <3>1, <3>2
  <2> QED
    BY <1>5, <2>1 DEF TasksInv
<1>7. Grows(tasks, tasks')
  <2>1. ASSUME NEW u \in DOMAIN tasks
        PROVE  /\ u \in DOMAIN tasks' /\ tasks[u].latest \in Nat /\ tasks'[u].latest \in Nat
               /\ tasks[u].latest <= tasks'[u].latest
    <3>1. tasks[u] \in Rows /\ tasks'[u] \in Rows
      BY <1>2, <1>5
    <3>2. tasks[u].latest \in Nat /\ tasks'[u].latest \in Nat
      BY <3>1 DEF Rows
    <3>3. CASE u = t
      BY <1>4, <1>5, <3>2, <3>3
    <3>4. CASE u # t
      BY <1>5, <3>2, <3>4
    <3> QED
      BY <1>5, <3>2, <3>3, <3>4
  <2> QED
    BY <2>1 DEF Grows
<1>8. ASSUME NEW s \in Slots, reqs'[s] # None PROVE ReqInv(reqs'[s], inactive', tasks')
  <2>1. reqs'[s] = reqs[s] /\ ReqInv(reqs[s], inactive, tasks)
    BY <1>2, <1>8 DEF TaskInv
  <2> QED
    BY <1>2, <1>7, <2>1, ReqInvGrows
<1>9. ShownInv'
  BY <1>2, <1>5 DEF TaskInv, ShownInv
<1> QED
  BY <1>2, <1>6, <1>8, <1>9 DEF TaskInv

-----------------------------------------------------------------------------
(* The client                                                                *)

LEMMA PageOnly == ASSUME TaskInv, UNCHANGED <<serverVars, reqs>>, ShownInv' PROVE TaskInv'
  BY DEF TaskInv, TasksInv, serverVars

LEMMA ShownKept == ASSUME TaskInv, UNCHANGED tasks, shown' \in {None, shown} PROVE ShownInv'
  BY DEF TaskInv, ShownInv

LEMMA AnswerShown ==
    ASSUME TaskInv, NEW s \in Slots, reqs[s] # None, reqs[s].code = 200,
           UNCHANGED tasks, shown' = Shown(reqs[s])
    PROVE  ShownInv'
<1> DEFINE r == reqs[s]
<1>1. r \in Reqs /\ ViewInv(r, tasks) /\ StepInv(r)
  BY DEF TaskInv, ReqInv
<1>2. r.task \in DOMAIN tasks /\ r.view.since <= r.view.latest
  BY <1>1, TablesAssumption DEF ViewInv, StepInv
<1>3. r.task \in Nat /\ r.tenant \in Tenants \cup {None} /\ r.view \in Views
  BY <1>1, <1>2 DEF Reqs, TaskInv, TasksInv
<1> QED
  BY <1>2, <1>3 DEF ShownInv, Shown

\* A request nobody waits for.
Unawaited(r) ==
    IF r = None THEN None
    ELSE IF r.code = None /\ r.kind = "create" THEN [r EXCEPT !.waiting = FALSE] ELSE None

LEMMA GivenUpKeeps ==
    ASSUME TaskInv, NEW s \in Slots, UNCHANGED serverVars, ShownInv', reqs' = GivenUp(s)
    PROVE  TaskInv'
<1> DEFINE r == reqs[s]
           new == [r EXCEPT !.waiting = FALSE]
<1>1. reqs' = [reqs EXCEPT ![s] = Unawaited(r)]
  BY DEF GivenUp, Unawaited, TaskInv
<1>2. CASE Unawaited(r) = None
  BY <1>1, <1>2, PageStep
<1>3. CASE Unawaited(r) # None
  <2>1. r # None /\ Unawaited(r) = new
    BY <1>3 DEF Unawaited
  <2>2. r \in Reqs /\ GoneInv(r, inactive) /\ ViewInv(r, tasks) /\ StepInv(r)
    BY <2>1 DEF TaskInv, ReqInv
  <2>3. new \in Reqs
    <3>1. ASSUME NEW waiting \in BOOLEAN PROVE [r EXCEPT !.waiting = waiting] \in Reqs
      BY <2>2, <3>1 DEF Reqs
    <3> QED
      BY <3>1
  <2>4. /\ new.kind = r.kind /\ new.task = r.task /\ new.view = r.view /\ new.code = r.code
        /\ new.assignment = r.assignment /\ new.did = r.did /\ new.endpoint = r.endpoint
        /\ new.tenant = r.tenant /\ new.left = r.left /\ new.gone = r.gone
    BY <2>2 DEF Reqs
  <2> HIDE DEF new
  <2>5. ReqInv(new, inactive, tasks)
    BY <2>2, <2>3, <2>4 DEF ReqInv, GoneInv, ViewInv, StepInv
  <2> QED
    BY <1>1, <2>1, <2>5, PageStep
<1> QED
  BY <1>2, <1>3

LEMMA SelectModeKeeps == ASSUME TaskInv, NEW m, SelectMode(m) PROVE TaskInv'
<1>1. UNCHANGED <<serverVars, reqs>> /\ shown' \in {None, shown}
  BY DEF SelectMode
<1> QED
  BY <1>1, PageOnly, ShownKept DEF serverVars

LEMMA DialWithoutPrefixKeeps == ASSUME TaskInv, DialWithoutPrefix PROVE TaskInv'
<1>1. UNCHANGED <<serverVars, reqs>> /\ shown' \in {None, shown}
  BY DEF DialWithoutPrefix
<1> QED
  BY <1>1, PageOnly, ShownKept DEF serverVars

LEMMA DialKeeps ==
    ASSUME TaskInv, NEW s \in Slots, NEW m \in Modes, NEW header \in Headers, Dial(s, m, header)
    PROVE  TaskInv'
<1>1. CASE m = "direct_prefix_mode"
  <2>1. UNCHANGED <<serverVars, reqs>> /\ shown' \in {None, shown}
    BY <1>1 DEF Dial
  <2> QED
    BY <2>1, PageOnly, ShownKept DEF serverVars
<1>2. CASE m # "direct_prefix_mode"
  <2>1. /\ UNCHANGED <<serverVars, shown>>
        /\ reqs' = [reqs EXCEPT ![s] = Request("create", header, None)]
    BY <1>2 DEF Dial
  <2>2. ReqInv(Request("create", header, None), inactive, tasks)
    BY RequestInv, TablesAssumption DEF TaskInv, ReqInv, ViewInv
  <2> QED
    BY <2>1, <2>2, OneRequest
<1> QED
  BY <1>1, <1>2

LEMMA DialDoneKeeps == ASSUME TaskInv, NEW s \in Slots, DialDone(s) PROVE TaskInv'
<1>1. UNCHANGED serverVars /\ reqs' = [reqs EXCEPT ![s] = None] /\ shown' = Snapshot(s)
  BY DEF DialDone
<1>2. CASE ops[s].mode = "direct_prefix_mode"
  <2>1. shown' \in {None, shown}
    BY <1>1, <1>2 DEF Snapshot
  <2> QED
    BY <1>1, <2>1, ShownKept, PageStep DEF serverVars
<1>3. CASE ops[s].mode # "direct_prefix_mode"
  <2>1. reqs[s] # None /\ reqs[s].code = 200 /\ shown' = Shown(reqs[s])
    BY <1>1, <1>3 DEF DialDone, Launched, Snapshot
  <2>2. ShownInv'
    BY <1>1, <2>1, AnswerShown DEF serverVars
  <2> QED
    BY <1>1, <2>2, PageStep
<1> QED
  BY <1>2, <1>3

LEMMA DialFailedKeeps == ASSUME TaskInv, NEW s \in Slots, DialFailed(s) PROVE TaskInv'
  BY ShownKept, GivenUpKeeps DEF DialFailed, serverVars

LEMMA RefreshKeeps == ASSUME TaskInv, NEW s \in Slots, Refresh(s) PROVE TaskInv'
<1>1. /\ UNCHANGED <<serverVars, shown>> /\ shown # None
      /\ reqs' = [reqs EXCEPT ![s] = Request("get", shown.tenant, shown.task)]
  BY DEF Refresh
<1>2. /\ shown.tenant \in Headers \cup Tenants \cup {None} /\ shown.task \in Nat \cup {None}
      /\ shown.task \in DOMAIN tasks /\ inactive \subseteq Things
  BY <1>1 DEF TaskInv, ShownInv
<1>3. ReqInv(Request("get", shown.tenant, shown.task), inactive, tasks)
  BY <1>2, RequestInv DEF ReqInv, ViewInv, Request
<1> QED
  BY <1>1, <1>3, OneRequest

LEMMA RefreshedKeeps == ASSUME TaskInv, NEW s \in Slots, Refreshed(s) PROVE TaskInv'
  BY AnswerShown, GivenUpKeeps DEF Refreshed, RefreshEnds, serverVars

LEMMA RefreshFailedKeeps == ASSUME TaskInv, NEW s \in Slots, RefreshFailed(s) PROVE TaskInv'
  BY ShownKept, GivenUpKeeps DEF RefreshFailed, RefreshEnds, serverVars

-----------------------------------------------------------------------------
LEMMA NextInv == TaskInv /\ [Next]_vars => TaskInv'
<1> SUFFICES ASSUME TaskInv, [Next]_vars PROVE TaskInv'
  OBVIOUS
<1>1. ASSUME NEW s \in Slots, ServerStep(s) PROVE TaskInv'
  BY <1>1, AuthenticateKeeps, RefuseKeeps, SelectAssignmentKeeps, SelectDidKeeps,
     SelectTargetEndpointKeeps, PersistKeeps, FindCallKeeps, FindWindowKeeps,
     FindLatestEventKeeps, FindTargetEndpointKeeps DEF ServerStep
<1>2. ASSUME NEW s \in Slots, NEW m \in Modes, NEW header \in Headers, Dial(s, m, header)
      PROVE  TaskInv'
  BY <1>2, DialKeeps
<1>3. ASSUME NEW s \in Slots, Refresh(s) \/ OperationEnds(s) PROVE TaskInv'
  BY <1>3, RefreshKeeps, DialDoneKeeps, DialFailedKeeps, RefreshedKeeps, RefreshFailedKeeps
     DEF OperationEnds
<1>4. ASSUME (\E m \in Modes : SelectMode(m)) \/ DialWithoutPrefix PROVE TaskInv'
  BY <1>4, SelectModeKeeps, DialWithoutPrefixKeeps
<1>5. ASSUME NEW x \in Things, SwitchStatus(x) PROVE TaskInv'
  BY <1>5, SwitchStatusKeeps
<1>6. ASSUME NEW t \in DOMAIN tasks, NEW at \in Times, Report(t, at) PROVE TaskInv'
  BY <1>6, ReportKeeps
<1>7. CASE UNCHANGED vars
  BY <1>7, PageOnly, ShownKept DEF vars, serverVars, pageVars
<1> QED
  BY <1>1, <1>2, <1>3, <1>4, <1>5, <1>6, <1>7 DEF Next

LEMMA Inductive == Spec => []TaskInv
  BY InitInv, NextInv, PTL DEF Spec

\* No request ever works with a membership, an assignment, a DID or an endpoint
\* that was out of use when it was sent and has not been put back, however the
\* four reads, the write and the switches of others interleave
\* (JwtStrategy.validate, selectDidContext, selectTargetEndpoint).
THEOREM NothingWithdrawnIsUsed == Spec => []WithdrawnIsNotUsed
<1>1. TaskInv => WithdrawnIsNotUsed
  BY DEF TaskInv, ReqInv, GoneInv, WithdrawnIsNotUsed
<1> QED
  BY <1>1, Inductive, PTL

\* The latest event on the page is never older than the event that gave the call
\* the status on the page: the call is read first, and events only become later
\* (loadCallTaskView).
THEOREM ShownEventCovers == Spec => []EventCoversStatus
<1>1. TaskInv => EventCoversStatus
  BY DEF TaskInv, ShownInv, Views, EventCoversStatus
<1> QED
  BY <1>1, Inductive, PTL

-----------------------------------------------------------------------------
(* What the page shows: which task, and how far its statuses are.           *)

IsRefresh(op) == op # None /\ op.kind = "refresh"

\* A request that knows its task.
OfTask(r) == r # None /\ (r.kind = "get" \/ r.code = 200)

Created(r) == r # None /\ r.kind = "create" /\ r.code = 200

AtMost(view, row) == view.version <= row.version /\ view.window <= row.window

\* The answer will hold a status of the call, or of the window.
HasRead(r, first) == r.code = 200 \/ (r.code = None /\ r.left \cap first = {})

\* One refresh runs at a time, and every question to the server is its own.
RefreshInv ==
    /\ ops = [s \in Slots |-> ops[s]]
    /\ \A s \in Slots : reqs[s] # None /\ reqs[s].kind = "get" => IsRefresh(ops[s])
    /\ \A s \in Slots : IsRefresh(ops[s]) =>
            isRefreshing /\ (reqs[s] # None => reqs[s].kind = "get")
    /\ \A s, t \in Slots : IsRefresh(ops[s]) /\ IsRefresh(ops[t]) => s = t

\* Unless a refresh outlives what the page is about, it asks for just that.
AboutInv ==
    expected # Either =>
        /\ expected = IF shown = None THEN None ELSE shown.task
        /\ \A s \in Slots : reqs[s] # None /\ reqs[s].kind = "get" =>
                shown # None /\ reqs[s].task = shown.task

\* Nothing is ahead of the tables, an answer is not behind the page, and a new task
\* is known to its dial alone.
AheadInv ==
    /\ shown # None => AtMost(shown.view, tasks[shown.task])
    /\ \A s \in Slots : OfTask(reqs[s]) => AtMost(reqs[s].view, tasks[reqs[s].task])
    /\ \A s \in Slots : OfTask(reqs[s]) /\ shown # None /\ reqs[s].task = shown.task =>
            /\ reqs[s].kind = "get"
            /\ HasRead(reqs[s], {"authenticate", "call"}) =>
                    shown.view.version <= reqs[s].view.version
            /\ HasRead(reqs[s], {"authenticate", "call", "window"}) =>
                    shown.view.window <= reqs[s].view.window
    /\ \A s, t \in Slots : s # t /\ Created(reqs[s]) /\ OfTask(reqs[t]) =>
            reqs[s].task # reqs[t].task

\* What a statement of the server makes of a request r on a row of the tables.
Goes(r, n, row) ==
    /\ n.kind = r.kind /\ n.task = r.task
    /\ r.kind = "create" => n.code # 200
    /\ r.kind = "get" =>
        /\ \/ n.view.version = row.version
           \/ /\ n.view.version = r.view.version
              /\ HasRead(n, {"authenticate", "call"}) => HasRead(r, {"authenticate", "call"})
        /\ \/ n.view.window = row.window
           \/ /\ n.view.window = r.view.window
              /\ HasRead(n, {"authenticate", "call", "window"}) =>
                    HasRead(r, {"authenticate", "call", "window"})

\* Every statement but the one that creates a task.
Serves(s) ==
    /\ UNCHANGED <<tasks, ops, shown, isRefreshing, expected>>
    /\ reqs[s] # None /\ \A z \in Slots \ {s} : reqs'[z] = reqs[z]
    /\ reqs'[s] # None => Goes(reqs[s], reqs'[s], tasks[reqs[s].task])

LEMMA AnswerFields ==
    ASSUME inactive \subseteq Things, NEW r \in Reqs, NEW code
    PROVE  /\ WithAnswer(r, code).kind = r.kind /\ WithAnswer(r, code).task = r.task
           /\ WithAnswer(r, code).code = code /\ WithAnswer(r, code).view = r.view
<1> DEFINE base == Request(r.kind, None, r.task)
<1>1. /\ r.kind \in {"create", "get"} /\ r.task \in Nat \cup {None}
      /\ None \in Headers \cup Tenants \cup {None}
  BY DEF Reqs
<1>2. PICK kind \in {"create", "get"}, task \in Nat \cup {None} : kind = r.kind /\ task = r.task
  BY <1>1
<1>3. base \in Reqs /\ base.kind = r.kind /\ base.task = r.task
  <2>1. ASSUME NEW header \in Headers \cup Tenants \cup {None}
        PROVE  LET any == Request(kind, header, task)
               IN any \in Reqs /\ any.kind = kind /\ any.task = task
    BY RequestInv
  <2> HIDE DEF base
  <2>2. base = Request(kind, None, task)
    BY <1>2 DEF base
  <2> QED
    BY <1>1, <1>2, <2>1, <2>2
<1>4. WithAnswer(r, code) =
        [base EXCEPT !.left = {}, !.code = code, !.tenant = r.tenant, !.view = r.view, !.gone = {}]
  BY DEF WithAnswer
<1> HIDE DEF base
<1> QED
  BY <1>3, <1>4 DEF Reqs

LEMMA OneElse ==
    ASSUME TaskInv, NEW s \in Slots, NEW n, reqs' = [reqs EXCEPT ![s] = n]
    PROVE  reqs'[s] = n /\ \A z \in Slots \ {s} : reqs'[z] = reqs[z]
  BY DEF TaskInv

LEMMA AnswerServes ==
    ASSUME TaskInv, NEW s \in Slots, reqs[s] # None, NEW code \in {200, 403, 404, 500},
           reqs' = Answered(s, code, reqs[s]),
           code = 200 => reqs[s].kind = "get" /\ reqs[s].code = None /\ reqs[s].left = {},
           UNCHANGED <<tasks, ops, shown, isRefreshing, expected>>
    PROVE  Serves(s)
<1> DEFINE r == reqs[s]
<1>1. r \in Reqs /\ inactive \subseteq Things
  BY DEF TaskInv, ReqInv
<1>2. PICK n : n = WithAnswer(r, code)
  OBVIOUS
<1>3. n.kind = r.kind /\ n.task = r.task /\ n.code = code /\ n.view = r.view
  BY <1>1, <1>2, AnswerFields
<1>4. reqs' = [reqs EXCEPT ![s] = IF ~r.waiting THEN None ELSE n]
  BY <1>2 DEF Answered, WithAnswer
<1>5. /\ reqs'[s] \in {None, n}
      /\ \A z \in Slots \ {s} : reqs'[z] = reqs[z]
  <2>1. PICK m \in {None, n} : m = IF ~r.waiting THEN None ELSE n
    OBVIOUS
  <2>2. reqs' = [reqs EXCEPT ![s] = m]
    BY <1>4, <2>1
  <2>3. reqs'[s] = m /\ \A z \in Slots \ {s} : reqs'[z] = reqs[z]
    BY <2>2 DEF TaskInv
  <2> QED
    BY <2>1, <2>3
<1>6. code # None
  BY TablesAssumption
<1>7. ASSUME NEW first, HasRead(n, first), r.kind = "get" PROVE HasRead(r, first)
  BY <1>3, <1>6, <1>7 DEF HasRead
<1>8. Goes(r, n, tasks[r.task])
  BY <1>3, <1>7 DEF Goes
<1> QED
  BY <1>5, <1>8 DEF Serves

LEMMA OtherServes ==
    ASSUME TaskInv, NEW s \in Slots, reqs[s] # None, NEW n, reqs' = [reqs EXCEPT ![s] = n],
           Goes(reqs[s], n, tasks[reqs[s].task]),
           UNCHANGED <<tasks, ops, shown, isRefreshing, expected>>
    PROVE  Serves(s)
  BY OneElse DEF Serves

\* A statement that reads nothing of the task.
LEMMA LeftServes ==
    ASSUME TaskInv, NEW s \in Slots, NEW x \in {"assignment", "did", "endpoint", "event"}, Runs(s, x),
           NEW n, reqs' = [reqs EXCEPT ![s] = n], n.kind = reqs[s].kind, n.task = reqs[s].task,
           n.code = reqs[s].code, n.view.version = reqs[s].view.version,
           n.view.window = reqs[s].view.window, NEW more \in SUBSET {"did"},
           n.left = (reqs[s].left \ {x}) \cup more,
           UNCHANGED <<tasks, ops, shown, isRefreshing, expected>>
    PROVE  Serves(s)
<1>1. reqs[s] # None /\ reqs[s].code = None
  BY Running
<1>2. None # 200
  BY TablesAssumption
<1>3. ASSUME NEW first \in SUBSET {"authenticate", "call", "window"}, HasRead(n, first)
      PROVE  HasRead(reqs[s], first)
  BY <1>1, <1>2, <1>3 DEF HasRead
<1>4. Goes(reqs[s], n, tasks[reqs[s].task])
  BY <1>1, <1>2, <1>3 DEF Goes
<1> QED
  BY <1>1, <1>4, OtherServes

LEMMA ServerServes ==
    ASSUME TaskInv, NEW s \in Slots, ServerStep(s), ~PersistOutboundCall(s)
    PROVE  Serves(s)
<1> DEFINE r == reqs[s]
           row == tasks[r.task]
<1>1. /\ UNCHANGED <<tasks, ops, shown, isRefreshing, expected>>
      /\ r # None /\ r \in Reqs
  BY DEF ServerStep, Authenticate, Refuse, SelectAssignment, SelectDid, SelectTargetEndpoint,
         FindCall, FindWindow, FindLatestEvent, FindTargetEndpoint, ServerOnly, serverVars,
         pageVars, Runs, TaskInv, ReqInv
<1>2. CASE Authenticate(s)
  <2> DEFINE tenant == TenantOf(r.header)
             more == IF r.kind = "create" THEN {"assignment", "endpoint"} ELSE {"call"}
             r1 == [r EXCEPT !.tenant = tenant]
             n == [r1 EXCEPT !.left = (r1.left \ {"authenticate"}) \cup more]
  <2>1. CASE tenant = None
    BY <1>1, <1>2, <2>1, AnswerServes DEF Authenticate
  <2>2. CASE tenant # None
    <3>1. reqs' = [reqs EXCEPT ![s] = n] /\ r.code = None
      BY <1>2, <2>2, Running DEF Authenticate, Done
    <3> HIDE DEF tenant
    <3>2. /\ n.kind = r.kind /\ n.task = r.task /\ n.code = None /\ n.view = r.view
          /\ r.kind = "get" => "call" \in n.left
      BY <1>1, <3>1 DEF Reqs
    <3> HIDE DEF n
    <3>3. Goes(r, n, row)
      BY <3>2, TablesAssumption DEF Goes, HasRead
    <3> QED
      BY <1>1, <3>1, <3>3, OtherServes
  <2> QED
    BY <2>1, <2>2
<1>3. CASE Refuse(s)
  BY <1>1, <1>3, AnswerServes DEF Refuse
<1>4. CASE SelectAssignment(s)
  <2> DEFINE found == Chosen(Assignments, r.tenant)
             more == IF found = None THEN {} ELSE {"did"}
             r1 == [r EXCEPT !.assignment = found]
             n == [r1 EXCEPT !.left = (r1.left \ {"assignment"}) \cup more]
  <2>1. reqs' = [reqs EXCEPT ![s] = n] /\ Runs(s, "assignment")
    BY <1>4 DEF SelectAssignment, Done
  <2> HIDE DEF found
  <2>2. /\ n.kind = r.kind /\ n.task = r.task /\ n.code = r.code /\ n.view = r.view
        /\ n.left = (r.left \ {"assignment"}) \cup more /\ more \in SUBSET {"did"}
    BY <1>1 DEF Reqs
  <2> HIDE DEF n, more
  <2> QED
    BY <1>1, <2>1, <2>2, LeftServes
<1>5. CASE SelectDid(s)
  <2> DEFINE did == IF r.assignment.did \in inactive THEN None ELSE r.assignment.did
             more == {}
             r1 == [r EXCEPT !.did = did]
             n == [r1 EXCEPT !.left = (r1.left \ {"did"}) \cup more]
  <2>1. reqs' = [reqs EXCEPT ![s] = n] /\ Runs(s, "did")
    BY <1>5 DEF SelectDid, Done
  <2> HIDE DEF did
  <2>2. /\ n.kind = r.kind /\ n.task = r.task /\ n.code = r.code /\ n.view = r.view
        /\ n.left = (r.left \ {"did"}) \cup more /\ more \in SUBSET {"did"}
    BY <1>1 DEF Reqs
  <2> HIDE DEF n, more
  <2> QED
    BY <1>1, <2>1, <2>2, LeftServes
<1>6. CASE SelectTargetEndpoint(s)
  <2> DEFINE found == Chosen(Endpoints, r.tenant)
             more == {}
             r1 == [r EXCEPT !.endpoint = found]
             n == [r1 EXCEPT !.left = (r1.left \ {"endpoint"}) \cup more]
  <2>1. reqs' = [reqs EXCEPT ![s] = n] /\ Runs(s, "endpoint")
    BY <1>6 DEF SelectTargetEndpoint, Done
  <2> HIDE DEF found
  <2>2. /\ n.kind = r.kind /\ n.task = r.task /\ n.code = r.code /\ n.view = r.view
        /\ n.left = (r.left \ {"endpoint"}) \cup more /\ more \in SUBSET {"did"}
    BY <1>1 DEF Reqs
  <2> HIDE DEF n, more
  <2> QED
    BY <1>1, <2>1, <2>2, LeftServes
<1>7. CASE FindCall(s)
  <2> DEFINE view1 == [r.view EXCEPT !.version = row.version]
             view == [view1 EXCEPT !.since = row.since]
             r1 == [r EXCEPT !.view = view]
             n == [r1 EXCEPT !.left = (r1.left \ {"call"}) \cup {"window", "event"}]
  <2>1. CASE row.tenant # r.tenant
    BY <1>1, <1>7, <2>1, AnswerServes DEF FindCall
  <2>2. CASE row.tenant = r.tenant
    <3>1. reqs' = [reqs EXCEPT ![s] = n] /\ r.code = None /\ r.kind = "get"
      <4>1. r.code = None /\ "call" \in r.left /\ ReqInv(r, inactive, tasks)
        BY <1>7, Running DEF FindCall
      <4>2. r.kind = "get"
        BY <4>1 DEF Reqs, ReqInv, ViewInv
      <4>3. reqs' = Done(s, "call", {"window", "event"},
                         [r EXCEPT !.view.version = row.version, !.view.since = row.since])
        BY <1>7, <2>2 DEF FindCall
      <4>4. [r EXCEPT !.view.version = row.version, !.view.since = row.since] = r1
        BY <1>1 DEF Reqs
      <4> QED
        BY <4>1, <4>2, <4>3, <4>4 DEF Done
    <3>2. view.version = row.version /\ view.window = r.view.window
      BY <1>1 DEF Reqs, Views
    <3> HIDE DEF view
    <3>3. /\ n.kind = r.kind /\ n.task = r.task /\ n.code = None /\ n.view = view
          /\ "window" \in n.left
      BY <1>1, <3>1 DEF Reqs
    <3> HIDE DEF n
    <3>4. Goes(r, n, row)
      BY <3>1, <3>2, <3>3, TablesAssumption DEF Goes, HasRead
    <3> QED
      BY <1>1, <3>1, <3>4, OtherServes
  <2> QED
    BY <2>1, <2>2
<1>8. CASE FindWindow(s)
  <2> DEFINE view == [r.view EXCEPT !.window = row.window]
             r1 == [r EXCEPT !.view = view]
             n == [r1 EXCEPT !.left = (r1.left \ {"window"}) \cup {}]
  <2>1. reqs' = [reqs EXCEPT ![s] = n] /\ r.code = None
    BY <1>1, <1>8, Running DEF FindWindow, Done, Reqs
  <2>2. view.window = row.window /\ view.version = r.view.version
    BY <1>1 DEF Reqs, Views
  <2> HIDE DEF view
  <2>3. /\ n.kind = r.kind /\ n.task = r.task /\ n.code = r.code /\ n.view = view
        /\ n.left = r.left \ {"window"}
    BY <1>1 DEF Reqs
  <2> HIDE DEF n
  <2>4. HasRead(n, {"authenticate", "call"}) => HasRead(r, {"authenticate", "call"})
    BY <2>3 DEF HasRead
  <2>5. Goes(r, n, row)
    BY <2>1, <2>2, <2>3, <2>4, TablesAssumption DEF Goes
  <2> QED
    BY <1>1, <2>1, <2>5, OtherServes
<1>9. CASE FindLatestEvent(s)
  <2> DEFINE view == [r.view EXCEPT !.latest = row.latest]
             more == {}
             r1 == [r EXCEPT !.view = view]
             n == [r1 EXCEPT !.left = (r1.left \ {"event"}) \cup more]
  <2>1. reqs' = [reqs EXCEPT ![s] = n] /\ Runs(s, "event")
    BY <1>1, <1>9 DEF FindLatestEvent, Done, Reqs
  <2>2. view.window = r.view.window /\ view.version = r.view.version
    BY <1>1 DEF Reqs, Views
  <2> HIDE DEF view
  <2>3. /\ n.kind = r.kind /\ n.task = r.task /\ n.code = r.code /\ n.view = view
        /\ n.left = (r.left \ {"event"}) \cup more /\ more \in SUBSET {"did"}
    BY <1>1 DEF Reqs
  <2> HIDE DEF n, more
  <2> QED
    BY <1>1, <2>1, <2>2, <2>3, LeftServes
<1>10. CASE FindTargetEndpoint(s)
  BY <1>1, <1>10, AnswerServes DEF FindTargetEndpoint
<1> QED
  BY <1>2, <1>3, <1>4, <1>5, <1>6, <1>7, <1>8, <1>9, <1>10 DEF ServerStep

PageInv == RefreshInv /\ AboutInv /\ AheadInv

\* What a request knows of a task is in the tables, with versions to compare.
LEMMA TaskFacts ==
    ASSUME TaskInv
    PROVE  /\ \A s \in Slots : OfTask(reqs[s]) =>
                /\ reqs[s].task \in DOMAIN tasks /\ reqs[s].view.version \in Nat
                /\ reqs[s].view.window \in Nat
           /\ \A t \in DOMAIN tasks : tasks[t].version \in Nat /\ tasks[t].window \in Nat
           /\ shown # None =>
                /\ shown.task \in DOMAIN tasks
                /\ shown.view.version \in Nat /\ shown.view.window \in Nat
<1>1. ASSUME NEW s \in Slots, OfTask(reqs[s])
      PROVE  /\ reqs[s].task \in DOMAIN tasks /\ reqs[s].view.version \in Nat
             /\ reqs[s].view.window \in Nat
  BY <1>1 DEF OfTask, TaskInv, ReqInv, ViewInv, Reqs, Views
<1>2. ASSUME NEW t \in DOMAIN tasks PROVE tasks[t].version \in Nat /\ tasks[t].window \in Nat
  <2>1. tasks[t] \in Rows
    BY DEF TaskInv, TasksInv
  <2> QED
    BY <2>1 DEF Rows
<1>3. shown # None =>
        /\ shown.task \in DOMAIN tasks
        /\ shown.view.version \in Nat /\ shown.view.window \in Nat
  BY DEF TaskInv, ShownInv, Views
<1> QED
  BY <1>1, <1>2, <1>3

LEMMA ServesKeeps ==
    ASSUME TaskInv, PageInv, NEW s \in Slots, Serves(s)
    PROVE  PageInv'
<1> DEFINE r == reqs[s]
           n == reqs'[s]
           row == tasks[r.task]
<1>1. /\ UNCHANGED <<tasks, ops, shown, isRefreshing, expected>>
      /\ r # None /\ \A z \in Slots \ {s} : reqs'[z] = reqs[z]
      /\ n # None => Goes(r, n, row)
  BY DEF Serves
<1>2. ASSUME NEW z \in Slots, reqs'[z] # None
      PROVE  reqs[z] # None /\ reqs'[z].kind = reqs[z].kind /\ reqs'[z].task = reqs[z].task
  BY <1>1, <1>2 DEF Goes
<1>3. ASSUME NEW z \in Slots, OfTask(reqs'[z])
      PROVE  /\ OfTask(reqs[z]) /\ (Created(reqs'[z]) => Created(reqs[z]))
             /\ reqs'[z].kind = reqs[z].kind /\ reqs'[z].task = reqs[z].task
             /\ z = s => r.kind = "get"
  <2>1. reqs[z].kind \in {"create", "get"}
    BY <1>2, <1>3 DEF OfTask, TaskInv, ReqInv, Reqs
  <2> QED
    BY <1>1, <1>2, <1>3, <2>1 DEF OfTask, Created, Goes
<1>4. RefreshInv'
  BY <1>1, <1>2 DEF PageInv, RefreshInv, IsRefresh
<1>5. AboutInv'
  BY <1>1, <1>2 DEF PageInv, AboutInv
<1>6. AheadInv'
  <2>1. shown' # None => AtMost(shown'.view, tasks'[shown'.task])
    BY <1>1 DEF PageInv, AheadInv, AtMost
  <2>2. ASSUME NEW z \in Slots, OfTask(reqs'[z]) PROVE AtMost(reqs'[z].view, tasks'[reqs'[z].task])
    <3>1. AtMost(reqs[z].view, tasks[reqs[z].task])
      BY <1>3, <2>2 DEF PageInv, AheadInv
    <3>2. CASE z = s
      <4>1. Goes(r, n, row) /\ r.kind = "get" /\ OfTask(r) /\ n.task = r.task
        BY <1>1, <1>3, <2>2, <3>2 DEF OfTask
      <4>2. row.version \in Nat /\ row.window \in Nat
        BY <4>1, TaskFacts
      <4>3. n.view.version \in {row.version, r.view.version}
            /\ n.view.window \in {row.window, r.view.window}
        BY <4>1 DEF Goes
      <4> QED
        BY <1>1, <3>1, <3>2, <4>1, <4>2, <4>3 DEF AtMost
    <3>3. CASE z # s
      BY <1>1, <3>1, <3>3
    <3> QED
      BY <3>2, <3>3
  <2>3. ASSUME NEW z \in Slots, OfTask(reqs'[z]), shown' # None, reqs'[z].task = shown'.task
        PROVE  /\ reqs'[z].kind = "get"
               /\ HasRead(reqs'[z], {"authenticate", "call"}) =>
                    shown'.view.version <= reqs'[z].view.version
               /\ HasRead(reqs'[z], {"authenticate", "call", "window"}) =>
                    shown'.view.window <= reqs'[z].view.window
    <3>1. /\ shown' = shown /\ shown # None /\ OfTask(reqs[z]) /\ reqs[z].task = shown.task
          /\ reqs'[z].kind = reqs[z].kind /\ AtMost(shown.view, tasks[shown.task])
      BY <1>1, <1>3, <2>3 DEF PageInv, AheadInv
    <3>2. /\ reqs[z].kind = "get"
          /\ HasRead(reqs[z], {"authenticate", "call"}) =>
                shown.view.version <= reqs[z].view.version
          /\ HasRead(reqs[z], {"authenticate", "call", "window"}) =>
                shown.view.window <= reqs[z].view.window
      BY <3>1 DEF PageInv, AheadInv
    <3>3. CASE z = s
      <4>1. Goes(r, n, row) /\ row = tasks[shown.task]
        BY <1>1, <2>3, <3>1, <3>3 DEF OfTask
      <4> QED
        BY <3>1, <3>2, <3>3, <4>1 DEF Goes, AtMost
    <3>4. CASE z # s
      BY <1>1, <3>1, <3>2, <3>4
    <3> QED
      BY <3>3, <3>4
  <2>4. ASSUME NEW z \in Slots, NEW t \in Slots, z # t, Created(reqs'[z]), OfTask(reqs'[t])
        PROVE  reqs'[z].task # reqs'[t].task
    <3>1. OfTask(reqs'[z])
      BY <2>4 DEF Created, OfTask
    <3> QED
      BY <1>3, <2>4, <3>1 DEF PageInv, AheadInv
  <2> QED
    BY <2>1, <2>2, <2>3, <2>4 DEF AheadInv
<1> QED
  BY <1>4, <1>5, <1>6 DEF PageInv

\* The task is new to everybody else, and its dial knows it as it is.
LEMMA PersistKeepsPage ==
    ASSUME TaskInv, TaskInv', PageInv, NEW s \in Slots, PersistOutboundCall(s)
    PROVE  PageInv'
<1> DEFINE r == reqs[s]
           n == reqs'[s]
           row == NewTask(r)
           r1 == [r EXCEPT !.task = Len(tasks')]
           r2 == [r1 EXCEPT !.view = View(row)]
<1>1. /\ r # None /\ r.kind = "create" /\ r.code = None /\ r \in Reqs /\ inactive \subseteq Things
      /\ UNCHANGED <<ops, shown, isRefreshing, expected>> /\ tasks' = Append(tasks, row)
      /\ reqs' = Answered(s, 200, r2)
  BY DEF PersistOutboundCall, TaskInv, ReqInv, ServerOnly, pageVars
<1>2. View(row) \in Views /\ AtMost(View(row), row) /\ row \in Rows
  <2>1. r.tenant \in Tenants \cup {None} /\ AcceptedAt \in Nat
    BY <1>1, TablesAssumption DEF Reqs
  <2> QED
    BY <2>1 DEF NewTask, View, AtMost, Views, Rows
<1> HIDE DEF row
<1>3. /\ tasks \in Seq(Rows) /\ Len(tasks') \in Nat /\ Len(tasks') \notin DOMAIN tasks
      /\ tasks'[Len(tasks')] = row
      /\ \A t \in DOMAIN tasks : t \in DOMAIN tasks' /\ tasks'[t] = tasks[t]
  BY <1>1, <1>2 DEF TaskInv, TasksInv
<1>4. r2 \in Reqs /\ r2.kind = "create" /\ r2.task = Len(tasks') /\ r2.view = View(row)
  <2>1. r1 \in Reqs /\ r1.kind = "create" /\ r1.task = Len(tasks')
    BY <1>1, <1>3, SMTT(30) DEF Reqs
  <2> HIDE DEF r1
  <2> QED
    BY <1>2, <2>1 DEF Reqs
<1> HIDE DEF r2
<1>5. PICK full : full = WithAnswer(r2, 200)
  OBVIOUS
<1>6. /\ full.kind = "create" /\ full.task = Len(tasks') /\ full.code = 200
      /\ full.view = View(row)
  <2>1. ASSUME NEW x \in Reqs
        PROVE  /\ WithAnswer(x, 200).kind = x.kind /\ WithAnswer(x, 200).task = x.task
               /\ WithAnswer(x, 200).code = 200 /\ WithAnswer(x, 200).view = x.view
    BY <1>1, AnswerFields
  <2> QED
    BY <1>4, <1>5, <2>1
<1>7. n \in {None, full} /\ \A z \in Slots \ {s} : reqs'[z] = reqs[z]
  <2>1. PICK m \in {None, full} : m = IF ~r2.waiting THEN None ELSE full
    OBVIOUS
  <2>2. reqs' = [reqs EXCEPT ![s] = m]
    BY <1>1, <1>5, <2>1 DEF Answered, WithAnswer
  <2>3. reqs'[s] = m /\ \A z \in Slots \ {s} : reqs'[z] = reqs[z]
    BY <2>2 DEF TaskInv
  <2> QED
    BY <2>1, <2>3
<1>8. n # None => n.kind = "create" /\ n.task = Len(tasks') /\ n.code = 200 /\ n.view = View(row)
  BY <1>6, <1>7
<1>9. \A z \in Slots : OfTask(reqs[z]) => z # s /\ reqs[z].task \in DOMAIN tasks
  BY <1>1, TablesAssumption, TaskFacts DEF OfTask
<1>10. RefreshInv'
  BY <1>1, <1>7, <1>8 DEF PageInv, RefreshInv, IsRefresh
<1>11. AboutInv'
  BY <1>1, <1>7, <1>8 DEF PageInv, AboutInv
<1>12. AheadInv'
  <2>1. shown' # None =>
          /\ shown = shown' /\ shown.task \in DOMAIN tasks
          /\ AtMost(shown'.view, tasks'[shown'.task])
    BY <1>1, <1>3, TaskFacts DEF PageInv, AheadInv
  <2>2. ASSUME NEW z \in Slots, OfTask(reqs'[z]) PROVE AtMost(reqs'[z].view, tasks'[reqs'[z].task])
    <3>1. CASE z = s
      BY <1>2, <1>3, <1>8, <2>2, <3>1 DEF OfTask
    <3>2. CASE z # s
      <4>1. reqs'[z] = reqs[z] /\ OfTask(reqs[z])
        BY <1>7, <2>2, <3>2
      <4> QED
        BY <1>3, <1>9, <4>1 DEF PageInv, AheadInv
    <3> QED
      BY <3>1, <3>2
  <2>3. ASSUME NEW z \in Slots, OfTask(reqs'[z]), shown' # None, reqs'[z].task = shown'.task
        PROVE  reqs'[z] = reqs[z] /\ OfTask(reqs[z]) /\ shown' = shown
    BY <1>3, <1>7, <1>8, <2>1, <2>3 DEF OfTask
  <2>4. ASSUME NEW z \in Slots, NEW t \in Slots, z # t, Created(reqs'[z]), OfTask(reqs'[t])
        PROVE  reqs'[z].task # reqs'[t].task
    <3>1. OfTask(reqs'[z])
      BY <2>4 DEF Created, OfTask
    <3>2. CASE z = s \/ t = s
      BY <1>3, <1>7, <1>8, <1>9, <2>4, <3>1, <3>2 DEF OfTask
    <3>3. CASE z # s /\ t # s
      BY <1>7, <2>4, <3>3 DEF PageInv, AheadInv
    <3> QED
      BY <3>2, <3>3
  <2>5. ASSUME NEW z \in Slots, OfTask(reqs'[z]), shown' # None, reqs'[z].task = shown'.task
        PROVE  /\ reqs'[z].kind = "get"
               /\ HasRead(reqs'[z], {"authenticate", "call"}) =>
                    shown'.view.version <= reqs'[z].view.version
               /\ HasRead(reqs'[z], {"authenticate", "call", "window"}) =>
                    shown'.view.window <= reqs'[z].view.window
    <3>1. reqs'[z] = reqs[z] /\ OfTask(reqs[z]) /\ shown' = shown
      BY <2>3, <2>5
    <3> QED
      BY <2>5, <3>1 DEF PageInv, AheadInv
  <2> QED
    BY <2>1, <2>2, <2>4, <2>5 DEF AheadInv
<1> QED
  BY <1>10, <1>11, <1>12 DEF PageInv

\* Steps that change nothing but which things are out of use and how far the rows are.
LEMMA RowsMoveOn ==
    ASSUME TaskInv, TaskInv', PageInv, UNCHANGED <<ops, shown, isRefreshing, expected>>,
           \A s \in Slots :
                reqs'[s] # None =>
                    /\ reqs[s] # None
                    /\ reqs'[s].kind = reqs[s].kind /\ reqs'[s].task = reqs[s].task
                    /\ reqs'[s].code = reqs[s].code /\ reqs'[s].view = reqs[s].view
                    /\ reqs'[s].left = reqs[s].left,
           \A t \in DOMAIN tasks :
                /\ t \in DOMAIN tasks' /\ tasks[t].version <= tasks'[t].version
                /\ tasks[t].window <= tasks'[t].window
    PROVE  PageInv'
<1>1. \A z \in Slots :
        /\ OfTask(reqs'[z]) => OfTask(reqs[z]) /\ reqs[z].task \in DOMAIN tasks
        /\ Created(reqs'[z]) => Created(reqs[z])
  BY TaskFacts DEF OfTask, Created
<1>2. ASSUME NEW view, NEW t \in DOMAIN tasks, view.version \in Nat, view.window \in Nat,
             AtMost(view, tasks[t])
      PROVE  AtMost(view, tasks'[t])
  <2>1. /\ tasks[t].version \in Nat /\ tasks[t].window \in Nat
        /\ tasks'[t].version \in Nat /\ tasks'[t].window \in Nat
    <3>1. tasks' \in Seq(Rows) /\ t \in DOMAIN tasks'
      BY DEF TaskInv, TasksInv
    <3>2. tasks'[t] \in Rows
      BY <3>1
    <3> QED
      BY <3>2, TaskFacts DEF Rows
  <2> QED
    BY <1>2, <2>1 DEF AtMost
<1>3. RefreshInv'
  <2>1. \A z \in Slots : reqs'[z] # None => reqs'[z].kind = reqs[z].kind /\ reqs[z] # None
    OBVIOUS
  <2> QED
    BY <2>1 DEF PageInv, RefreshInv, IsRefresh
<1>4. AboutInv'
  BY DEF PageInv, AboutInv
<1>5. AheadInv'
  <2>1. shown' # None => AtMost(shown'.view, tasks'[shown'.task])
    BY <1>2, TaskFacts DEF PageInv, AheadInv
  <2>2. ASSUME NEW z \in Slots, OfTask(reqs'[z]) PROVE AtMost(reqs'[z].view, tasks'[reqs'[z].task])
    <3>1. /\ OfTask(reqs[z]) /\ reqs[z].task \in DOMAIN tasks
          /\ reqs'[z].view = reqs[z].view /\ reqs'[z].task = reqs[z].task
      BY <1>1, <2>2 DEF OfTask
    <3> QED
      BY <1>2, <3>1, TaskFacts DEF PageInv, AheadInv
  <2>3. ASSUME NEW z \in Slots, OfTask(reqs'[z]), shown' # None, reqs'[z].task = shown'.task
        PROVE  /\ reqs'[z].kind = "get"
               /\ HasRead(reqs'[z], {"authenticate", "call"}) =>
                    shown'.view.version <= reqs'[z].view.version
               /\ HasRead(reqs'[z], {"authenticate", "call", "window"}) =>
                    shown'.view.window <= reqs'[z].view.window
    <3>1. OfTask(reqs[z]) /\ reqs'[z] # None
      BY <1>1, <2>3 DEF OfTask
    <3> QED
      BY <2>3, <3>1 DEF PageInv, AheadInv, HasRead
  <2>4. ASSUME NEW z \in Slots, NEW t \in Slots, z # t, Created(reqs'[z]), OfTask(reqs'[t])
        PROVE  reqs'[z].task # reqs'[t].task
    <3>1. Created(reqs[z]) /\ OfTask(reqs[t]) /\ reqs'[z] # None /\ reqs'[t] # None
      BY <1>1, <2>4 DEF OfTask, Created
    <3> QED
      BY <2>4, <3>1 DEF PageInv, AheadInv
  <2> QED
    BY <2>1, <2>2, <2>3, <2>4 DEF AheadInv
<1> QED
  BY <1>3, <1>4, <1>5 DEF PageInv

LEMMA SwitchStatusKeepsPage ==
    ASSUME TaskInv, TaskInv', PageInv, NEW x \in Things, SwitchStatus(x)
    PROVE  PageInv'
<1>1. UNCHANGED <<tasks, ops, shown, isRefreshing, expected>>
  BY DEF SwitchStatus, pageVars
<1>2. ASSUME NEW s \in Slots
      PROVE  reqs'[s] # None =>
                /\ reqs[s] # None
                /\ reqs'[s].kind = reqs[s].kind /\ reqs'[s].task = reqs[s].task
                /\ reqs'[s].code = reqs[s].code /\ reqs'[s].view = reqs[s].view
                /\ reqs'[s].left = reqs[s].left
  <2>1. reqs'[s] = IF reqs[s] = None THEN None ELSE [reqs[s] EXCEPT !.gone = @ \ {x}]
    BY DEF SwitchStatus
  <2>2. CASE reqs[s] = None
    BY <2>1, <2>2
  <2>3. CASE reqs[s] # None
    <3>1. reqs[s] \in Reqs
      BY <2>3 DEF TaskInv, ReqInv
    <3>2. PICK n : n = [reqs[s] EXCEPT !.gone = @ \ {x}]
      OBVIOUS
    <3>3. /\ n.kind = reqs[s].kind /\ n.task = reqs[s].task /\ n.code = reqs[s].code
          /\ n.view = reqs[s].view /\ n.left = reqs[s].left /\ n \in Reqs
      BY <3>1, <3>2 DEF Reqs
    <3> QED
      BY <2>1, <2>3, <3>2, <3>3
  <2> QED
    BY <2>2, <2>3
<1>3. \A t \in DOMAIN tasks :
        /\ t \in DOMAIN tasks' /\ tasks[t].version <= tasks'[t].version
        /\ tasks[t].window <= tasks'[t].window
  BY <1>1, TaskFacts
<1> QED
  BY <1>1, <1>2, <1>3, RowsMoveOn

LEMMA ReportKeepsPage ==
    ASSUME TaskInv, TaskInv', PageInv, NEW t \in DOMAIN tasks, NEW at \in Times, Report(t, at)
    PROVE  PageInv'
<1>1. PICK changes \in SUBSET {"call", "window"} :
        tasks' = [tasks EXCEPT ![t] = Reported(@, changes, at)]
  BY DEF Report
<1>2. UNCHANGED <<reqs, ops, shown, isRefreshing, expected>> /\ tasks \in Seq(Rows)
  BY DEF Report, pageVars, TaskInv, TasksInv
<1>3. PICK new : new = Reported(tasks[t], changes, at)
  OBVIOUS
<1>4. tasks[t].version <= new.version /\ tasks[t].window <= new.window
  <2>1. tasks[t].version \in Nat /\ tasks[t].window \in Nat
    BY TaskFacts
  <2> QED
    BY <1>3, <2>1 DEF Reported
<1>5. ASSUME NEW u \in DOMAIN tasks
      PROVE  /\ u \in DOMAIN tasks' /\ tasks[u].version <= tasks'[u].version
             /\ tasks[u].window <= tasks'[u].window
  <2>1. tasks'[u] = IF u = t THEN new ELSE tasks[u]
    BY <1>1, <1>2, <1>3
  <2> QED
    BY <1>1, <1>4, <2>1, TaskFacts
<1> QED
  BY <1>2, <1>5, RowsMoveOn

\* Without a refresh in flight, nothing is asked of the server for a task.
LEMMA AboutKeeps ==
    ASSUME RefreshInv, NEW task, About(task), task = IF shown' = None THEN None ELSE shown'.task,
           \A z \in Slots : reqs'[z] # None /\ reqs'[z].kind = "get" => reqs'[z] = reqs[z]
    PROVE  AboutInv'
<1>1. CASE Refreshing
  BY <1>1 DEF About, AboutInv
<1>2. CASE ~Refreshing
  <2>1. expected' = IF shown' = None THEN None ELSE shown'.task
    BY <1>2 DEF About
  <2>2. \A z \in Slots : ~(reqs'[z] # None /\ reqs'[z].kind = "get")
    BY <1>2 DEF Refreshing, RefreshInv, IsRefresh
  <2> QED
    BY <2>1, <2>2 DEF AboutInv
<1> QED
  BY <1>1, <1>2

\* The page leaves its task, or keeps it with what it is about.
LEMMA PageLeaves ==
    ASSUME PageInv, UNCHANGED <<tasks, reqs, ops, isRefreshing>>,
           (shown' = None /\ About(None)) \/ UNCHANGED <<shown, expected>>
    PROVE  PageInv'
<1>1. CASE shown' = None /\ About(None)
  <2>1. AboutInv'
    BY <1>1, AboutKeeps DEF PageInv
  <2>2. RefreshInv' /\ AheadInv'
    BY <1>1 DEF PageInv, RefreshInv, AheadInv
  <2> QED
    BY <2>1, <2>2 DEF PageInv
<1>2. CASE UNCHANGED <<shown, expected>>
  BY <1>2 DEF PageInv, RefreshInv, AboutInv, AheadInv
<1> QED
  BY <1>1, <1>2

\* The operation of a slot ends or begins: the rest of the requests is as it was,
\* and its own knows no task.
LEMMA SlotAhead ==
    ASSUME PageInv, NEW s \in Slots, UNCHANGED tasks, shown' \in {None, shown},
           \A z \in Slots \ {s} : reqs'[z] = reqs[z],
           ~OfTask(reqs'[s])
    PROVE  AheadInv'
  BY DEF PageInv, AheadInv, Created, OfTask

LEMMA DialKeepsPage ==
    ASSUME TaskInv, PageInv, NEW s \in Slots, NEW m \in Modes, NEW header \in Headers,
           Dial(s, m, header)
    PROVE  PageInv'
<1>1. /\ ops[s] = None /\ reqs[s] = None /\ UNCHANGED <<tasks, isRefreshing>>
      /\ inactive \subseteq Things
      /\ ops' = [ops EXCEPT ![s] = [kind |-> "dial", mode |-> m]]
  BY DEF Dial, Free, serverVars, TaskInv
<1>2. /\ ops' = [z \in Slots |-> ops'[z]] /\ ops'[s] = [kind |-> "dial", mode |-> m]
      /\ \A z \in Slots \ {s} : ops'[z] = ops[z]
  BY <1>1 DEF PageInv, RefreshInv
<1>3. /\ \A z \in Slots : IsRefresh(ops'[z]) <=> IsRefresh(ops[z])
  BY <1>1, <1>2 DEF IsRefresh
<1>4. CASE m = "direct_prefix_mode"
  <2>1. shown' = None /\ About(None) /\ reqs' = reqs
    BY <1>4 DEF Dial
  <2>2. RefreshInv'
    BY <1>1, <1>2, <1>3, <2>1 DEF PageInv, RefreshInv
  <2>3. AboutInv'
    BY <2>1, AboutKeeps DEF PageInv
  <2>4. AheadInv'
    BY <1>1, <2>1 DEF PageInv, AheadInv
  <2> QED
    BY <2>2, <2>3, <2>4 DEF PageInv
<1>5. CASE m # "direct_prefix_mode"
  <2>1. PICK n : n = Request("create", header, None)
    OBVIOUS
  <2>2. n.kind = "create" /\ n.code = None
    <3>1. ASSUME NEW h \in Headers \cup Tenants \cup {None}, NEW task \in Nat \cup {None}
          PROVE  /\ Request("create", h, task).kind = "create"
                 /\ Request("create", h, task).code = None
      BY <1>1, RequestInv
    <3> QED
      BY <2>1, <3>1
  <2>3. /\ UNCHANGED <<shown, expected>> /\ reqs'[s] = n
        /\ \A z \in Slots \ {s} : reqs'[z] = reqs[z]
    BY <1>5, <2>1 DEF Dial, TaskInv
  <2>4. ~OfTask(reqs'[s])
    BY <2>2, <2>3, TablesAssumption DEF OfTask
  <2>5. RefreshInv'
    <3>1. \A z \in Slots : reqs'[z] # None /\ reqs'[z].kind = "get" => z # s /\ reqs'[z] = reqs[z]
      BY <2>2, <2>3
    <3>2. \A z \in Slots : IsRefresh(ops'[z]) => z # s
      BY <1>1, <1>3 DEF IsRefresh
    <3> QED
      BY <1>1, <1>2, <1>3, <2>3, <3>1, <3>2 DEF PageInv, RefreshInv
  <2>6. AboutInv'
    BY <2>2, <2>3 DEF PageInv, AboutInv
  <2>7. AheadInv'
    BY <1>1, <2>3, <2>4, SlotAhead
  <2> QED
    BY <2>5, <2>6, <2>7 DEF PageInv
<1> QED
  BY <1>4, <1>5

\* The slot of an operation that ended.
LEMMA SlotEnds ==
    ASSUME TaskInv, RefreshInv, NEW s \in Slots, ops' = [ops EXCEPT ![s] = None],
           reqs' = [reqs EXCEPT ![s] = None] \/ reqs' = GivenUp(s)
    PROVE  /\ ops' = [z \in Slots |-> ops'[z]] /\ ops'[s] = None
           /\ \A z \in Slots \ {s} : ops'[z] = ops[z] /\ reqs'[z] = reqs[z]
           /\ ~OfTask(reqs'[s])
           /\ reqs'[s] # None => reqs'[s].kind = "create" /\ reqs[s] # None /\ reqs[s].kind = "create"
<1>1. PICK n : n = IF reqs' = [reqs EXCEPT ![s] = None] THEN None ELSE Unawaited(reqs[s])
  OBVIOUS
<1>2. reqs' = [reqs EXCEPT ![s] = n]
  BY <1>1 DEF GivenUp, Unawaited, TaskInv
<1>3. reqs'[s] = n /\ \A z \in Slots \ {s} : reqs'[z] = reqs[z]
  BY <1>2 DEF TaskInv
<1>4. n # None => n.kind = "create" /\ n.code = None /\ reqs[s] # None /\ reqs[s].kind = "create"
  <2>1. SUFFICES ASSUME n # None
                 PROVE  n.kind = "create" /\ n.code = None /\ reqs[s] # None /\ reqs[s].kind = "create"
    OBVIOUS
  <2>2. /\ reqs[s] # None /\ reqs[s].kind = "create" /\ reqs[s].code = None
        /\ n = [reqs[s] EXCEPT !.waiting = FALSE]
    BY <1>1, <2>1 DEF Unawaited
  <2>3. reqs[s] \in Reqs
    BY <2>2 DEF TaskInv, ReqInv
  <2> QED
    BY <2>2, <2>3 DEF Reqs
<1>5. ~OfTask(reqs'[s])
  BY <1>3, <1>4, TablesAssumption DEF OfTask
<1>6. ops' = [z \in Slots |-> ops'[z]] /\ ops'[s] = None /\ \A z \in Slots \ {s} : ops'[z] = ops[z]
  BY DEF RefreshInv
<1> QED
  BY <1>3, <1>4, <1>5, <1>6

LEMMA DialEndsRefresh ==
    ASSUME TaskInv, RefreshInv, NEW s \in Slots, ops[s] # None, ops[s].kind = "dial",
           ops' = [ops EXCEPT ![s] = None], UNCHANGED isRefreshing,
           reqs' = [reqs EXCEPT ![s] = None] \/ reqs' = GivenUp(s)
    PROVE  RefreshInv'
<1>1. /\ ops' = [z \in Slots |-> ops'[z]] /\ ops'[s] = None
      /\ \A z \in Slots \ {s} : ops'[z] = ops[z] /\ reqs'[z] = reqs[z]
      /\ reqs'[s] # None => reqs'[s].kind = "create"
  BY SlotEnds
<1>2. ~IsRefresh(ops'[s])
  BY <1>1 DEF IsRefresh
<1>3. \A z \in Slots : reqs'[z] # None /\ reqs'[z].kind = "get" => IsRefresh(ops'[z])
  BY <1>1 DEF RefreshInv
<1> QED
  BY <1>1, <1>2, <1>3 DEF RefreshInv

\* The answer of a dial is about a task that no refresh asks for.
LEMMA DialDoneKeepsPage ==
    ASSUME TaskInv, PageInv, NEW s \in Slots, DialDone(s)
    PROVE  PageInv'
<1>1. /\ ops[s] # None /\ ops[s].kind = "dial" /\ Launched(s) /\ shown' = Snapshot(s)
      /\ About(IF Snapshot(s) = None THEN None ELSE Snapshot(s).task)
      /\ ops' = [ops EXCEPT ![s] = None] /\ reqs' = [reqs EXCEPT ![s] = None]
      /\ UNCHANGED <<tasks, isRefreshing>> /\ RefreshInv
  BY DEF DialDone, serverVars, PageInv
<1>2. RefreshInv'
  BY <1>1, DialEndsRefresh
<1>3. /\ reqs'[s] = None /\ \A z \in Slots \ {s} : reqs'[z] = reqs[z]
      /\ ~OfTask(reqs'[s])
  BY <1>1 DEF TaskInv, OfTask
<1>4. AboutInv'
  <2>1. PICK task : task = IF Snapshot(s) = None THEN None ELSE Snapshot(s).task
    OBVIOUS
  <2>2. About(task) /\ task = IF shown' = None THEN None ELSE shown'.task
    BY <1>1, <2>1
  <2> QED
    BY <1>1, <1>3, <2>2, AboutKeeps
<1>5. AheadInv'
  <2>1. CASE Snapshot(s) = None
    BY <1>1, <1>3, <2>1, SlotAhead
  <2>2. CASE Snapshot(s) # None
    <3>1. reqs[s] # None /\ reqs[s].code = 200 /\ shown' = Shown(reqs[s])
      BY <1>1, <2>2 DEF Snapshot, Launched
    <3>2. reqs[s].kind = "create" /\ Created(reqs[s]) /\ OfTask(reqs[s])
      <4>1. reqs[s].kind \in {"create", "get"} /\ ~IsRefresh(ops[s])
        BY <1>1, <3>1 DEF IsRefresh, TaskInv, ReqInv, Reqs
      <4> QED
        BY <1>1, <3>1, <4>1 DEF RefreshInv, Created, OfTask
    <3>3. shown'.task = reqs[s].task /\ shown'.view = reqs[s].view
      BY <3>1 DEF Shown
    <3>4. \A z \in Slots : OfTask(reqs'[z]) => reqs'[z].task # shown'.task /\ reqs'[z] = reqs[z]
      BY <1>3, <3>2, <3>3 DEF PageInv, AheadInv
    <3>5. AtMost(shown'.view, tasks'[shown'.task])
      BY <1>1, <3>2, <3>3 DEF PageInv, AheadInv
    <3>6. \A z \in Slots : Created(reqs'[z]) => Created(reqs[z]) /\ reqs'[z] = reqs[z]
      BY <1>3 DEF Created
    <3> QED
      BY <1>1, <3>4, <3>5, <3>6 DEF PageInv, AheadInv
  <2> QED
    BY <2>1, <2>2
<1> QED
  BY <1>2, <1>4, <1>5 DEF PageInv

LEMMA DialFailedKeepsPage ==
    ASSUME TaskInv, PageInv, NEW s \in Slots, DialFailed(s)
    PROVE  PageInv'
<1>1. /\ ops[s] # None /\ ops[s].kind = "dial" /\ RefreshInv
      /\ ops' = [ops EXCEPT ![s] = None] /\ reqs' = GivenUp(s)
      /\ UNCHANGED <<tasks, shown, isRefreshing, expected>>
  BY DEF DialFailed, serverVars, PageInv
<1>2. /\ \A z \in Slots \ {s} : reqs'[z] = reqs[z]
      /\ ~OfTask(reqs'[s]) /\ (reqs'[s] # None => reqs'[s].kind = "create")
  BY <1>1, SlotEnds
<1>3. RefreshInv'
  BY <1>1, DialEndsRefresh
<1>4. AheadInv'
  BY <1>1, <1>2, SlotAhead
<1>5. AboutInv'
  BY <1>1, <1>2 DEF PageInv, AboutInv
<1> QED
  BY <1>3, <1>4, <1>5 DEF PageInv

LEMMA RefreshKeepsPage ==
    ASSUME TaskInv, PageInv, mode \in Modes, NEW s \in Slots, Refresh(s)
    PROVE  PageInv'
<1>1. /\ ops[s] = None /\ reqs[s] = None /\ shown # None /\ ~isRefreshing /\ isRefreshing'
      /\ UNCHANGED <<tasks, shown, expected>> /\ inactive \subseteq Things
  BY DEF Refresh, Free, serverVars, TaskInv
<1>2. PICK op : op = [kind |-> "refresh", mode |-> mode]
  OBVIOUS
<1>3. /\ ops' = [z \in Slots |-> ops'[z]] /\ ops'[s] = op
      /\ \A z \in Slots \ {s} : ops'[z] = ops[z]
  BY <1>2 DEF Refresh, PageInv, RefreshInv
<1>4. PICK n : n = Request("get", shown.tenant, shown.task)
  OBVIOUS
<1>5. reqs'[s] = n /\ \A z \in Slots \ {s} : reqs'[z] = reqs[z]
  BY <1>4 DEF Refresh, TaskInv
<1>6. /\ n.kind = "get" /\ n.task = shown.task /\ n.code = None /\ n.left = {"authenticate"}
      /\ n.view.version = 0 /\ n.view.window = 0
  BY <1>4 DEF Request
<1>7. ~HasRead(n, {"authenticate", "call"}) /\ ~HasRead(n, {"authenticate", "call", "window"})
  BY <1>6, TablesAssumption DEF HasRead
<1>8. \A z \in Slots : IsRefresh(ops'[z]) => z = s
  BY <1>1, <1>3 DEF PageInv, RefreshInv
<1>9. RefreshInv'
  <2>1. IsRefresh(ops'[s])
    BY <1>2, <1>3, TablesAssumption DEF IsRefresh
  <2> QED
    BY <1>1, <1>3, <1>5, <1>6, <1>8, <2>1 DEF PageInv, RefreshInv
<1>10. AboutInv'
  BY <1>1, <1>5, <1>6 DEF PageInv, AboutInv
<1>11. AheadInv'
  <2>1. shown'.task \in DOMAIN tasks /\ AtMost(shown'.view, tasks'[shown'.task])
    BY <1>1, TaskFacts DEF PageInv, AheadInv
  <2>2. AtMost(n.view, tasks'[n.task])
    BY <1>1, <1>6, <2>1, TaskFacts DEF AtMost
  <2>3. \A z \in Slots : OfTask(reqs'[z]) => z = s \/ (OfTask(reqs[z]) /\ reqs'[z] = reqs[z])
    BY <1>5
  <2>4. ~Created(reqs'[s])
    BY <1>5, <1>6 DEF Created
  <2>5. ASSUME NEW z \in Slots, NEW t \in Slots, z # t, Created(reqs'[z]), OfTask(reqs'[t])
        PROVE  reqs'[z].task # reqs'[t].task
    <3>1. z # s /\ reqs'[z] = reqs[z] /\ Created(reqs[z]) /\ OfTask(reqs[z])
      BY <1>5, <2>4, <2>5 DEF Created, OfTask
    <3>2. reqs[z].kind # "get"
      BY <3>1 DEF Created
    <3>3. CASE t = s
      BY <1>1, <1>5, <1>6, <3>1, <3>2, <3>3 DEF PageInv, AheadInv
    <3>4. CASE t # s
      BY <1>5, <2>5, <3>1, <3>4 DEF PageInv, AheadInv
    <3> QED
      BY <3>3, <3>4
  <2> QED
    BY <1>1, <1>5, <1>6, <1>7, <2>1, <2>2, <2>3, <2>5 DEF PageInv, AheadInv
<1> QED
  BY <1>9, <1>10, <1>11 DEF PageInv

LEMMA RefreshEndsRefresh ==
    ASSUME TaskInv, RefreshInv, NEW s \in Slots, NEW task, RefreshEnds(s, task)
    PROVE  /\ RefreshInv'
           /\ \A z \in Slots : ~(reqs'[z] # None /\ reqs'[z].kind = "get")
<1>1. /\ IsRefresh(ops[s]) /\ ops' = [ops EXCEPT ![s] = None] /\ reqs' = GivenUp(s)
  BY DEF RefreshEnds, IsRefresh
<1>2. /\ ops' = [z \in Slots |-> ops'[z]] /\ ops'[s] = None
      /\ \A z \in Slots \ {s} : ops'[z] = ops[z] /\ reqs'[z] = reqs[z]
      /\ reqs'[s] # None => reqs'[s].kind = "create"
  BY <1>1, SlotEnds
<1>3. \A z \in Slots : ~IsRefresh(ops'[z])
  BY <1>1, <1>2 DEF RefreshInv, IsRefresh
<1>4. \A z \in Slots : ~(reqs'[z] # None /\ reqs'[z].kind = "get")
  BY <1>1, <1>2, <1>3 DEF RefreshInv
<1> QED
  BY <1>2, <1>3, <1>4 DEF RefreshInv

LEMMA RefreshFailedKeepsPage ==
    ASSUME TaskInv, PageInv, NEW s \in Slots, RefreshFailed(s)
    PROVE  PageInv'
<1>1. /\ RefreshEnds(s, shown) /\ RefreshInv
      /\ ops' = [ops EXCEPT ![s] = None] /\ reqs' = GivenUp(s)
      /\ UNCHANGED <<tasks, shown, expected>>
  BY DEF RefreshFailed, RefreshEnds, serverVars, PageInv
<1>2. RefreshInv' /\ \A z \in Slots : ~(reqs'[z] # None /\ reqs'[z].kind = "get")
  BY <1>1, RefreshEndsRefresh
<1>3. AboutInv'
  BY <1>1, <1>2 DEF PageInv, AboutInv
<1>4. (\A z \in Slots \ {s} : reqs'[z] = reqs[z]) /\ ~OfTask(reqs'[s])
  BY <1>1, SlotEnds
<1>5. AheadInv'
  BY <1>1, <1>4, SlotAhead
<1> QED
  BY <1>2, <1>3, <1>5 DEF PageInv

\* What a refresh answers: the task it asked for, as late as the answer was.
LEMMA RefreshedFacts ==
    ASSUME TaskInv, PageInv, NEW s \in Slots, Refreshed(s)
    PROVE  /\ OfTask(reqs[s]) /\ reqs[s].kind = "get" /\ reqs[s].code = 200
           /\ shown' # None => shown'.task = reqs[s].task /\ shown'.view = reqs[s].view
           /\ \A z \in Slots : reqs[z] # None /\ reqs[z].kind = "get" => z = s
<1>1. /\ reqs[s] # None /\ reqs[s].code = 200 /\ IsRefresh(ops[s]) /\ RefreshInv
      /\ shown' = Shown(reqs[s])
  BY DEF Refreshed, RefreshEnds, IsRefresh, PageInv
<1> QED
  BY <1>1 DEF RefreshInv, OfTask, Shown

LEMMA RefreshedKeepsPage ==
    ASSUME TaskInv, PageInv, NEW s \in Slots, Refreshed(s)
    PROVE  PageInv'
<1>1. /\ OfTask(reqs[s]) /\ reqs[s].kind = "get" /\ reqs[s] # None
      /\ shown' # None => shown'.task = reqs[s].task /\ shown'.view = reqs[s].view
      /\ \A z \in Slots : reqs[z] # None /\ reqs[z].kind = "get" => z = s
  BY RefreshedFacts DEF Refreshed
<1>2. PICK task : task = Shown(reqs[s])
  OBVIOUS
<1>3. /\ RefreshEnds(s, task) /\ RefreshInv /\ shown' = task
      /\ task.task = reqs[s].task /\ task.view = reqs[s].view
      /\ ops' = [ops EXCEPT ![s] = None] /\ reqs' = GivenUp(s)
      /\ UNCHANGED <<tasks, expected>>
  BY <1>2 DEF Refreshed, RefreshEnds, serverVars, PageInv, Shown
<1>4. RefreshInv' /\ \A z \in Slots : ~(reqs'[z] # None /\ reqs'[z].kind = "get")
  BY <1>3, RefreshEndsRefresh
<1>5. (\A z \in Slots \ {s} : reqs'[z] = reqs[z]) /\ ~OfTask(reqs'[s])
  BY <1>3, SlotEnds
<1>6. AboutInv'
  <2>1. task # None
    <3>1. /\ reqs[s].task \in Nat /\ reqs[s].tenant \in Tenants \cup {None}
          /\ reqs[s].view \in Views
      BY <1>1, TaskFacts DEF TaskInv, TasksInv, ReqInv, Reqs
    <3> QED
      BY <1>2, <3>1, TablesAssumption DEF Shown
  <2>2. expected # Either => shown # None /\ expected = shown.task /\ reqs[s].task = shown.task
    BY <1>1 DEF PageInv, AboutInv
  <2> QED
    BY <1>3, <1>4, <2>1, <2>2 DEF AboutInv
<1>7. AheadInv'
  <2>1. shown' # None => AtMost(shown'.view, tasks'[shown'.task])
    BY <1>1, <1>3 DEF PageInv, AheadInv
  <2>2. \A z \in Slots : OfTask(reqs'[z]) => z # s /\ Created(reqs[z]) /\ reqs'[z] = reqs[z] /\ OfTask(reqs[z])
    <3>1. ASSUME NEW z \in Slots, OfTask(reqs'[z])
          PROVE  z # s /\ Created(reqs[z]) /\ reqs'[z] = reqs[z] /\ OfTask(reqs[z])
      <4>1. z # s /\ reqs'[z] = reqs[z] /\ OfTask(reqs[z])
        BY <1>5, <3>1
      <4>2. reqs[z].kind \in {"create", "get"}
        BY <4>1 DEF OfTask, TaskInv, ReqInv, Reqs
      <4> QED
        BY <1>1, <4>1, <4>2 DEF OfTask, Created
    <3> QED
      BY <3>1
  <2>3. \A z \in Slots : OfTask(reqs'[z]) => reqs'[z].task # reqs[s].task
    BY <1>1, <2>2 DEF PageInv, AheadInv
  <2>4. \A z \in Slots : Created(reqs'[z]) => OfTask(reqs'[z])
    BY DEF Created, OfTask
  <2> QED
    BY <1>1, <1>3, <2>1, <2>2, <2>3, <2>4 DEF PageInv, AheadInv
<1> QED
  BY <1>4, <1>6, <1>7 DEF PageInv

LEMMA ModeStays == mode \in Modes /\ [Next]_vars => mode' \in Modes
<1> SUFFICES ASSUME mode \in Modes, [Next]_vars PROVE mode' \in Modes
  OBVIOUS
<1>1. ASSUME NEW s \in Slots, ServerStep(s) \/ Refresh(s) \/ OperationEnds(s) PROVE mode' = mode
  BY <1>1 DEF ServerStep, Authenticate, Refuse, SelectAssignment, SelectDid, SelectTargetEndpoint,
     PersistOutboundCall, FindCall, FindWindow, FindLatestEvent, FindTargetEndpoint, ServerOnly,
     pageVars, Refresh, OperationEnds, DialDone, DialFailed, Refreshed, RefreshFailed, RefreshEnds
<1>2. ASSUME NEW s \in Slots, NEW m \in Modes, NEW header \in Headers, Dial(s, m, header)
      PROVE  mode' \in Modes
  BY <1>2 DEF Dial
<1>3. ASSUME NEW m \in Modes, SelectMode(m) PROVE mode' \in Modes
  BY <1>3 DEF SelectMode
<1>4. ASSUME DialWithoutPrefix PROVE mode' \in Modes
  BY <1>4 DEF DialWithoutPrefix, Modes
<1>5. ASSUME NEW x, SwitchStatus(x) PROVE mode' = mode
  BY <1>5 DEF SwitchStatus, pageVars
<1>6. ASSUME NEW t, NEW at, Report(t, at) PROVE mode' = mode
  BY <1>6 DEF Report, pageVars
<1>7. CASE UNCHANGED vars
  BY <1>7 DEF vars, pageVars
<1> QED
  BY <1>1, <1>2, <1>3, <1>4, <1>5, <1>6, <1>7 DEF Next

LEMMA InitPage == Init => PageInv /\ mode \in Modes
<1> SUFFICES ASSUME Init PROVE PageInv /\ mode \in Modes
  OBVIOUS
<1>1. /\ shown = None /\ expected = None /\ mode = "direct_prefix_mode"
      /\ ops = [s \in Slots |-> None] /\ \A s \in Slots : reqs[s] = None
  BY DEF Init
<1>2. \A s \in Slots : ~IsRefresh(ops[s]) /\ ~OfTask(reqs[s]) /\ ~Created(reqs[s])
  BY <1>1 DEF IsRefresh, OfTask, Created
<1> QED
  BY <1>1, <1>2 DEF PageInv, RefreshInv, AboutInv, AheadInv, Modes

LEMMA NextPage == TaskInv /\ TaskInv' /\ PageInv /\ mode \in Modes /\ [Next]_vars => PageInv'
<1> SUFFICES ASSUME TaskInv, TaskInv', PageInv, mode \in Modes, [Next]_vars PROVE PageInv'
  OBVIOUS
<1>1. ASSUME NEW s \in Slots, ServerStep(s) PROVE PageInv'
  <2>1. CASE PersistOutboundCall(s)
    BY <2>1, PersistKeepsPage
  <2>2. CASE ~PersistOutboundCall(s)
    BY <1>1, <2>2, ServerServes, ServesKeeps
  <2> QED
    BY <2>1, <2>2
<1>2. ASSUME NEW s \in Slots, NEW m \in Modes, NEW header \in Headers, Dial(s, m, header)
      PROVE  PageInv'
  BY <1>2, DialKeepsPage
<1>3. ASSUME NEW s \in Slots, Refresh(s) \/ OperationEnds(s) PROVE PageInv'
  BY <1>3, RefreshKeepsPage, DialDoneKeepsPage, DialFailedKeepsPage, RefreshedKeepsPage,
     RefreshFailedKeepsPage DEF OperationEnds
<1>4. ASSUME (\E m \in Modes : SelectMode(m)) \/ DialWithoutPrefix PROVE PageInv'
  BY <1>4, PageLeaves DEF SelectMode, DialWithoutPrefix, serverVars
<1>5. ASSUME NEW x \in Things, SwitchStatus(x) PROVE PageInv'
  BY <1>5, SwitchStatusKeepsPage
<1>6. ASSUME NEW t \in DOMAIN tasks, NEW at \in Times, Report(t, at) PROVE PageInv'
  BY <1>6, ReportKeepsPage
<1>7. CASE UNCHANGED vars
  BY <1>7, PageLeaves DEF vars, serverVars, pageVars
<1> QED
  BY <1>1, <1>2, <1>3, <1>4, <1>5, <1>6, <1>7 DEF Next

LEMMA PageInductive == Spec => [](PageInv /\ mode \in Modes)
<1>1. TaskInv /\ TaskInv' /\ (PageInv /\ mode \in Modes) /\ [Next]_vars
        => (PageInv /\ mode \in Modes)'
  BY NextPage, ModeStays
<1> QED
  BY <1>1, InitPage, Inductive, PTL DEF Spec

\* The page shows the task of the last dial that ended, or none after a direct one
\* or after the mode was left, however dials, refreshes and switches of the mode
\* overlap; what a refresh in flight at that moment puts back is not claimed
\* (dial, selectMode, refreshActiveTaskStatus).
THEOREM ShownIsLast == Spec => []ShownIsLastDialled
<1>1. PageInv => ShownIsLastDialled
  BY DEF PageInv, AboutInv, ShownIsLastDialled
<1> QED
  BY <1>1, PageInductive, PTL

\* Only the answers put a task on the page.
LEMMA WhatIsShown ==
    ASSUME [Next]_vars
    PROVE  shown' \in {None, shown} \/ \E s \in Slots : DialDone(s) \/ Refreshed(s)
<1>1. ASSUME NEW s \in Slots, ServerStep(s) \/ Refresh(s) \/ DialFailed(s) \/ RefreshFailed(s)
      PROVE  shown' = shown
  BY <1>1 DEF ServerStep, Authenticate, Refuse, SelectAssignment, SelectDid, SelectTargetEndpoint,
     PersistOutboundCall, FindCall, FindWindow, FindLatestEvent, FindTargetEndpoint, ServerOnly,
     pageVars, Refresh, DialFailed, RefreshFailed, RefreshEnds
<1>2. ASSUME NEW s \in Slots, NEW m, NEW header, Dial(s, m, header) PROVE shown' \in {None, shown}
  BY <1>2 DEF Dial
<1>3. ASSUME NEW m, SelectMode(m) PROVE shown' \in {None, shown}
  BY <1>3 DEF SelectMode
<1>4. ASSUME DialWithoutPrefix PROVE shown' \in {None, shown}
  BY <1>4 DEF DialWithoutPrefix
<1>5. ASSUME NEW x, SwitchStatus(x) PROVE shown' = shown
  BY <1>5 DEF SwitchStatus, pageVars
<1>6. ASSUME NEW t, NEW at, Report(t, at) PROVE shown' = shown
  BY <1>6 DEF Report, pageVars
<1>7. CASE UNCHANGED vars
  BY <1>7 DEF vars, pageVars
<1> QED
  BY <1>1, <1>2, <1>3, <1>4, <1>5, <1>6, <1>7 DEF Next, OperationEnds

NoStepBack ==
    shown # None /\ shown' # None /\ shown'.task = shown.task =>
        /\ shown'.view.version >= shown.view.version
        /\ shown'.view.window >= shown.view.window

\* An answer that replaces what is shown of the same task is that of the one refresh,
\* and was read after what is shown.
LEMMA ShownMovesOn == TaskInv /\ PageInv /\ [Next]_vars => NoStepBack
<1> SUFFICES ASSUME TaskInv, PageInv, [Next]_vars,
                    shown # None, shown' # None, shown'.task = shown.task
             PROVE  /\ shown'.view.version >= shown.view.version
                    /\ shown'.view.window >= shown.view.window
  BY DEF NoStepBack
<1>1. shown.view.version \in Nat /\ shown.view.window \in Nat
  BY TaskFacts
<1>2. CASE shown' \in {None, shown}
  BY <1>1, <1>2
<1>3. ASSUME NEW s \in Slots, DialDone(s), shown' # shown PROVE FALSE
  <2>1. /\ ops[s] # None /\ ops[s].kind = "dial" /\ shown' = Shown(reqs[s])
        /\ reqs[s] # None /\ reqs[s].code = 200
    BY <1>3 DEF DialDone, Snapshot, Launched
  <2>2. OfTask(reqs[s]) /\ reqs[s].kind # "get"
    BY <2>1 DEF OfTask, PageInv, RefreshInv, IsRefresh
  <2>3. reqs[s].task = shown.task
    BY <2>1 DEF Shown
  <2> QED
    BY <2>2, <2>3 DEF PageInv, AheadInv
<1>4. ASSUME NEW s \in Slots, Refreshed(s)
      PROVE  /\ shown'.view.version >= shown.view.version
             /\ shown'.view.window >= shown.view.window
  <2>1. /\ OfTask(reqs[s]) /\ reqs[s].code = 200
        /\ reqs[s].task = shown.task /\ shown'.view = reqs[s].view
    BY <1>4, RefreshedFacts
  <2>2. /\ shown.view.version <= reqs[s].view.version
        /\ shown.view.window <= reqs[s].view.window
    BY <2>1 DEF PageInv, AheadInv, HasRead
  <2> QED
    BY <1>1, <2>1, <2>2, TaskFacts
<1> QED
  BY <1>2, <1>3, <1>4, WhatIsShown

\* What is shown of a task never goes back to an older status of the call or of its
\* window, though a refresh reads the two on their own and its answer may be late
\* (refreshActiveTaskStatus, loadCallTaskView).
THEOREM NeverBack == Spec => ShownNeverGoesBack
<1>1. TaskInv /\ (PageInv /\ mode \in Modes) /\ [Next]_vars => [NoStepBack]_vars
  BY ShownMovesOn
<1>2. Spec => [][NoStepBack]_vars
  BY <1>1, Inductive, PageInductive, PTL DEF Spec
<1> QED
  BY <1>2 DEF NoStepBack, ShownNeverGoesBack
=============================================================================
