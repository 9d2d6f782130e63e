----------------------------- MODULE CallTasks ------------------------------
(* Call tasks as their user sees them: POST /calls/outbound and GET          *)
(* /calls/:id of calls.service.ts behind JwtStrategy, statement by           *)
(* statement, over the tables of the tenants, and the DialController of the  *)
(* client that creates a task and refreshes what it shows of it. The         *)
(* provider's reports (TelephonyWebhooks) are each one commit on a task.     *)
EXTENDS Integers, Sequences, FiniteSetsExt, Functions

CONSTANTS
    Joined,         \* the tenants of the account, in the order of joinedAt
    Assignments,    \* tenant_did_assignments in the order of activatedAt
    Endpoints,      \* tenant_endpoints in the order of priority
    Headers,        \* what X-Tenant-Id may name, None where it is not sent
    Times,          \* what occurredAt of a report may be
    AcceptedAt,     \* what occurredAt of telephony.outbound.accepted is
    None, Either, MaxOps, MaxInputs, MaxReports

Tenants == Range(Joined)
Dids == { a.did : a \in Range(Assignments) }
Things == Tenants \cup Range(Assignments) \cup Range(Endpoints) \cup Dids

VARIABLES
    inactive,       \* memberships, assignments, endpoints and DIDs not in use
    tasks,          \* call_sessions with their windows and events
    reqs,           \* the requests, None where there is none
    mode, shown, isDialing, isRefreshing,   \* DialState
    ops,            \* the calls of dial and refreshActiveTaskStatus in flight
    expected,       \* the task of the last dial that ended, None when cleared,
                    \* Either when a refresh was in flight then
    inputs,         \* counts: calls dialled through the server, refreshes, switches
    reports         \* and reports

serverVars == <<inactive, tasks>>
pageVars == <<mode, shown, isDialing, isRefreshing, expected>>
bounds == <<inputs, reports>>
vars == <<serverVars, reqs, pageVars, ops, bounds>>

Slots == 1 .. MaxOps      \* operations at one time
Modes == {"direct_prefix_mode", "server_orchestrated_mode"}
Owners == {"member", "other", None}   \* assigned_member_id, member_id
Views == [version : Nat, since : Nat, window : Nat, latest : Nat]   \* CallTaskView

ASSUME TablesAssumption ==
    /\ Joined \in Seq(Tenants)
    /\ Assignments \in Seq([tenant : Tenants, owner : Owners, did : Dids, callback : BOOLEAN])
    /\ Endpoints \in Seq([tenant : Tenants, owner : Owners, rank : Nat])
    /\ None \notin Things \cup Nat \cup [kind : {"dial", "refresh"}, mode : Modes]
    /\ None \notin [task : Nat, tenant : Tenants \cup {None}, view : Views]
    /\ Times \subseteq Nat /\ AcceptedAt \in Nat

Init ==
    /\ inactive = {} /\ tasks = << >>
    /\ reqs = [s \in Slots |-> None]
    /\ mode = "direct_prefix_mode" /\ shown = None /\ isDialing = FALSE /\ isRefreshing = FALSE
    /\ ops = [s \in Slots |-> None]
    /\ expected = None
    /\ inputs = 0 /\ reports = 0

-----------------------------------------------------------------------------
(* The server                                                                *)

\* The active rows of a tenant, by their place in the order of the query.
InUse(table, tenant) ==
    { i \in DOMAIN table : table[i] \notin inactive /\ table[i].tenant = tenant }

OwnedBy(table, rows, owner) == { i \in rows : table[i].owner = owner }

\* find(own) ?? find(shared) ?? null
Chosen(table, tenant) ==
    LET own == OwnedBy(table, InUse(table, tenant), "member")
        shared == OwnedBy(table, InUse(table, tenant), None)
    IN IF own # {} THEN table[Min(own)]
       ELSE IF shared # {} THEN table[Min(shared)] ELSE None

Request(kind, header, task) ==
    [kind |-> kind, header |-> header, left |-> {"authenticate"}, tenant |-> None, task |-> task,
     assignment |-> None, did |-> None, endpoint |-> None,
     view |-> [version |-> 0, since |-> 0, window |-> 0, latest |-> 0],
     code |-> None, waiting |-> TRUE, gone |-> inactive]

\* The statement x of request s may run; all in `left` wait for one another only
\* where the code awaits.
Runs(s, x) == reqs[s] # None /\ x \in reqs[s].left

\* x is done, and the statements of `more` follow it.
Done(s, x, more, r) == [reqs EXCEPT ![s] = [r EXCEPT !.left = (@ \ {x}) \cup more]]

\* The handler answers; nobody may be waiting for it any more.
Answered(s, code, r) ==
    [reqs EXCEPT ![s] = IF ~r.waiting THEN None
        ELSE [Request(r.kind, None, r.task) EXCEPT !.left = {}, !.code = code, !.tenant = r.tenant,
                                                   !.view = r.view, !.gone = {}]]

ServerOnly == UNCHANGED <<pageVars, ops, bounds>>

\* JwtStrategy.validate: the membership the header names or the earliest one.
TenantOf(header) ==
    LET members == { i \in DOMAIN Joined : Joined[i] \notin inactive }
    IN IF header # None
       THEN IF \E i \in members : Joined[i] = header THEN header ELSE None
       ELSE IF members # {} THEN Joined[Min(members)] ELSE None

\* Without a membership the handler refuses (assertTenantContext).
Authenticate(s) ==
    /\ Runs(s, "authenticate")
    /\ LET r == reqs[s] tenant == TenantOf(r.header)
       IN reqs' = IF tenant = None THEN Answered(s, 403, r)
                  ELSE Done(s, "authenticate",
                            IF r.kind = "create" THEN {"assignment", "endpoint"} ELSE {"call"},
                            [r EXCEPT !.tenant = tenant])
    /\ ServerOnly /\ UNCHANGED serverVars

\* The token, the body or the id is refused, or a statement fails.
Refuse(s) ==
    /\ reqs[s] # None /\ reqs[s].code = None
    /\ reqs' = Answered(s, 500, reqs[s])
    /\ ServerOnly /\ UNCHANGED serverVars

\* selectDidContext, first statement.
SelectAssignment(s) ==
    /\ Runs(s, "assignment")
    /\ LET found == Chosen(Assignments, reqs[s].tenant)
       IN reqs' = Done(s, "assignment", IF found = None THEN {} ELSE {"did"},
                       [reqs[s] EXCEPT !.assignment = found])
    /\ ServerOnly /\ UNCHANGED serverVars

\* Mutant: a disabled or retired DID is found too.
SelectDidOfAnyStatus(s) ==
    /\ Runs(s, "did")
    /\ reqs' = Done(s, "did", {}, [reqs[s] EXCEPT !.did = reqs[s].assignment.did])
    /\ ServerOnly /\ UNCHANGED serverVars

\* selectDidContext, second statement.
SelectDid(s) ==
    /\ Runs(s, "did")
    /\ LET did == reqs[s].assignment.did
       IN reqs' = Done(s, "did", {}, [reqs[s] EXCEPT !.did = IF did \in inactive THEN None ELSE did])
    /\ ServerOnly /\ UNCHANGED serverVars

SelectTargetEndpoint(s) ==
    /\ Runs(s, "endpoint")
    /\ reqs' = Done(s, "endpoint", {},
                    [reqs[s] EXCEPT !.endpoint = Chosen(Endpoints, reqs[s].tenant)])
    /\ ServerOnly /\ UNCHANGED serverVars

\* The row of a task with its window and its latest event: `since` is when the
\* event occurred that set the status, `latest` when the latest one did.
NewTask(r) ==
    LET accepted == IF r.did = None THEN 0 ELSE AcceptedAt
    IN [tenant |-> r.tenant, version |-> 1, since |-> accepted, latest |-> accepted,
        window |-> IF r.did # None /\ r.assignment.callback /\ r.endpoint # None THEN 1 ELSE 0]

View(row) == [version |-> row.version, since |-> row.since, window |-> row.window, latest |-> row.latest]

\* One transaction, after both selections.
PersistOutboundCall(s) ==
    /\ reqs[s] # None /\ reqs[s].kind = "create" /\ reqs[s].code = None /\ reqs[s].left = {}
    /\ LET row == NewTask(reqs[s])
       IN /\ tasks' = Append(tasks, row)
          /\ reqs' = Answered(s, 200, [reqs[s] EXCEPT !.task = Len(tasks'), !.view = View(row)])
    /\ ServerOnly /\ UNCHANGED inactive

\* loadCallTaskView: the call, then the window and the latest event at once, then
\* the endpoint.
FindCall(s) ==
    /\ Runs(s, "call")
    /\ LET r == reqs[s] row == tasks[r.task]
       IN reqs' = IF row.tenant # r.tenant THEN Answered(s, 404, r)
                  ELSE Done(s, "call", {"window", "event"},
                            [r EXCEPT !.view.version = row.version, !.view.since = row.since])
    /\ ServerOnly /\ UNCHANGED serverVars

FindWindow(s) ==
    /\ Runs(s, "window")
    /\ reqs' = Done(s, "window", {}, [reqs[s] EXCEPT !.view.window = tasks[reqs[s].task].window])
    /\ ServerOnly /\ UNCHANGED serverVars

FindLatestEvent(s) ==
    /\ Runs(s, "event")
    /\ reqs' = Done(s, "event", {}, [reqs[s] EXCEPT !.view.latest = tasks[reqs[s].task].latest])
    /\ ServerOnly /\ UNCHANGED serverVars

\* Mutant: the call is read again for the answer.
FindTargetEndpointAndCall(s) ==
    /\ reqs[s] # None /\ reqs[s].kind = "get" /\ reqs[s].code = None /\ reqs[s].left = {}
    /\ LET row == tasks[reqs[s].task]
       IN reqs' = Answered(s, 200, [reqs[s] EXCEPT !.view.version = row.version, !.view.since = row.since])
    /\ ServerOnly /\ UNCHANGED serverVars

\* findOne of the endpoint, and the answer.
FindTargetEndpoint(s) ==
    /\ reqs[s] # None /\ reqs[s].kind = "get" /\ reqs[s].code = None /\ reqs[s].left = {}
    /\ reqs' = Answered(s, 200, reqs[s])
    /\ ServerOnly /\ UNCHANGED serverVars

\* A member, an assignment, an endpoint or a DID is taken out of use or put back.
SwitchStatus(x) ==
    /\ inputs < MaxInputs
    /\ inactive' = IF x \in inactive THEN inactive \ {x} ELSE inactive \cup {x}
    /\ reqs' = [s \in Slots |-> IF reqs[s] = None THEN None ELSE [reqs[s] EXCEPT !.gone = @ \ {x}]]
    /\ inputs' = inputs + 1
    /\ UNCHANGED <<tasks, pageVars, ops, reports>>

\* What the event of a webhook does to the row of its call: the status of the
\* call, of its window, of both or, for one that changes nothing, of none.
Reported(row, changes, at) ==
    [tenant |-> row.tenant,
     version |-> IF "call" \in changes THEN row.version + 1 ELSE row.version,
     since |-> IF "call" \in changes THEN at ELSE row.since,
     latest |-> IF row.latest < at THEN at ELSE row.latest,
     window |-> IF "window" \in changes /\ row.window > 0 THEN row.window + 1 ELSE row.window]

\* A webhook commits.
Report(t, at) ==
    /\ reports < MaxReports
    /\ \E changes \in SUBSET {"call", "window"} :
        tasks' = [tasks EXCEPT ![t] = Reported(@, changes, at)]
    /\ reports' = reports + 1
    /\ UNCHANGED <<inactive, reqs, pageVars, ops, inputs>>

-----------------------------------------------------------------------------
(* The client                                                                *)

\* Slots are alike: the first one that is free is taken.
Free(s) ==
    /\ ops[s] = None /\ reqs[s] = None
    /\ \A r \in 1 .. s - 1 : ops[r] # None \/ reqs[r] # None

Refreshing == \E s \in Slots : ops[s] # None /\ ops[s].kind = "refresh"

\* What the page is about changes; a refresh in flight does not hear of it.
About(task) == expected' = IF Refreshing THEN Either ELSE task

\* DialController.selectMode, when the mode is another one.
SelectMode(m) ==
    /\ m # mode
    /\ mode' = m
    /\ IF m = "direct_prefix_mode" THEN shown' = None /\ About(None)
       ELSE UNCHANGED <<shown, expected>>
    /\ UNCHANGED <<serverVars, reqs, isDialing, isRefreshing, ops, bounds>>

\* DialController.dial, to the call of the service of mode m. The buttons wait for
\* isDialing; an entry of the history brings its mode along and does not wait.
Dial(s, m, header) ==
    /\ Free(s)
    /\ mode' = m /\ isDialing' = TRUE
    /\ ops' = [ops EXCEPT ![s] = [kind |-> "dial", mode |-> m]]
    /\ IF m = "direct_prefix_mode"
       THEN shown' = None /\ About(None) /\ UNCHANGED reqs
       ELSE /\ reqs' = [reqs EXCEPT ![s] = Request("create", header, None)]
            /\ inputs < MaxInputs
            /\ UNCHANGED <<shown, expected>>
    /\ inputs' = IF m = "direct_prefix_mode" THEN inputs ELSE inputs + 1
    /\ UNCHANGED <<serverVars, isRefreshing, reports>>

\* A private entry of the history is dialled while no prefix is configured.
DialWithoutPrefix ==
    /\ mode' = "direct_prefix_mode" /\ isDialing' = FALSE
    /\ IF mode # mode' THEN shown' = None /\ About(None)
       ELSE UNCHANGED <<shown, expected>>
    /\ UNCHANGED <<serverVars, reqs, isRefreshing, ops, bounds>>

Shown(r) == [task |-> r.task, tenant |-> r.tenant, view |-> r.view]

\* What a dial of mode m that succeeded brings along (taskSnapshot).
Snapshot(s) == IF ops[s].mode = "direct_prefix_mode" THEN None ELSE Shown(reqs[s])

Launched(s) == ops[s].mode = "direct_prefix_mode" \/ (reqs[s] # None /\ reqs[s].code = 200)

\* Mutant: copyWith keeps what it has when it is given nothing new.
DialDoneKeepingTask(s) ==
    /\ ops[s] # None /\ ops[s].kind = "dial"
    /\ Launched(s)
    /\ shown' = IF Snapshot(s) = None THEN shown ELSE Snapshot(s)
    /\ About(IF Snapshot(s) = None THEN None ELSE Snapshot(s).task)
    /\ isDialing' = FALSE
    /\ ops' = [ops EXCEPT ![s] = None] /\ reqs' = [reqs EXCEPT ![s] = None]
    /\ UNCHANGED <<serverVars, mode, isRefreshing, bounds>>

\* The service and the history are done.
DialDone(s) ==
    /\ ops[s] # None /\ ops[s].kind = "dial"
    /\ Launched(s)
    /\ shown' = Snapshot(s)
    /\ About(IF Snapshot(s) = None THEN None ELSE Snapshot(s).task)
    /\ isDialing' = FALSE
    /\ ops' = [ops EXCEPT ![s] = None] /\ reqs' = [reqs EXCEPT ![s] = None]
    /\ UNCHANGED <<serverVars, mode, isRefreshing, bounds>>

\* The client stops waiting: a task the server has not answered for yet is still
\* created.
GivenUp(s) ==
    [reqs EXCEPT ![s] = IF @ = None THEN None
                        ELSE IF @.code = None /\ @.kind = "create" THEN [@ EXCEPT !.waiting = FALSE]
                        ELSE None]

\* Mutant: only the failures of the launch itself are caught.
DialFailedUncaught(s) ==
    /\ ops[s] # None /\ ops[s].kind = "dial"
    /\ isDialing' = IF ops[s].mode = "direct_prefix_mode" THEN FALSE ELSE isDialing
    /\ ops' = [ops EXCEPT ![s] = None] /\ reqs' = GivenUp(s)
    /\ UNCHANGED <<serverVars, mode, shown, isRefreshing, expected, bounds>>

\* The launcher, the server or the history fails, or the time of Dio is over.
DialFailed(s) ==
    /\ ops[s] # None /\ ops[s].kind = "dial"
    /\ isDialing' = FALSE
    /\ ops' = [ops EXCEPT ![s] = None] /\ reqs' = GivenUp(s)
    /\ UNCHANGED <<serverVars, mode, shown, isRefreshing, expected, bounds>>

\* Mutant: the button does not wait for the refresh before.
RefreshAnyTime(s) ==
    /\ Free(s) /\ shown # None
    /\ inputs < MaxInputs /\ inputs' = inputs + 1
    /\ isRefreshing' = TRUE
    /\ ops' = [ops EXCEPT ![s] = [kind |-> "refresh", mode |-> mode]]
    /\ reqs' = [reqs EXCEPT ![s] = Request("get", shown.tenant, shown.task)]
    /\ UNCHANGED <<serverVars, mode, shown, isDialing, expected, reports>>

\* refreshActiveTaskStatus, from its button.
Refresh(s) ==
    /\ Free(s) /\ shown # None /\ ~isRefreshing
    /\ inputs < MaxInputs /\ inputs' = inputs + 1
    /\ isRefreshing' = TRUE
    /\ ops' = [ops EXCEPT ![s] = [kind |-> "refresh", mode |-> mode]]
    /\ reqs' = [reqs EXCEPT ![s] = Request("get", shown.tenant, shown.task)]
    /\ UNCHANGED <<serverVars, mode, shown, isDialing, expected, reports>>

RefreshEnds(s, task) ==
    /\ ops[s] # None /\ ops[s].kind = "refresh"
    /\ shown' = task
    /\ isRefreshing' = FALSE
    /\ ops' = [ops EXCEPT ![s] = None] /\ reqs' = GivenUp(s)
    /\ UNCHANGED <<serverVars, mode, isDialing, expected, bounds>>

Refreshed(s) == reqs[s] # None /\ reqs[s].code = 200 /\ RefreshEnds(s, Shown(reqs[s]))

RefreshFailed(s) == RefreshEnds(s, shown)

-----------------------------------------------------------------------------
ServerStep(s) ==
    \/ Authenticate(s) \/ Refuse(s)
    \/ SelectAssignment(s) \/ SelectDid(s) \/ SelectTargetEndpoint(s)
    \/ PersistOutboundCall(s)
    \/ FindCall(s) \/ FindWindow(s) \/ FindLatestEvent(s) \/ FindTargetEndpoint(s)

OperationEnds(s) == DialDone(s) \/ DialFailed(s) \/ Refreshed(s) \/ RefreshFailed(s)

Next ==
    \/ \E s \in Slots :
        \/ ServerStep(s)
        \/ \E m \in Modes, header \in Headers : Dial(s, m, header)
        \/ Refresh(s)
        \/ OperationEnds(s)
    \/ \E m \in Modes : SelectMode(m)
    \/ DialWithoutPrefix
    \/ \E x \in Things : SwitchStatus(x)
    \/ \E t \in DOMAIN tasks, at \in Times : Report(t, at)

\* Dio gives a request up after its timeouts, and the platform answers a launch.
Spec == Init /\ [][Next]_vars /\ \A s \in Slots : WF_vars(OperationEnds(s))

-----------------------------------------------------------------------------
\* A task that stays on the page never goes back to an older status of the call
\* or of its window, whatever answers come in what order
\* (refreshActiveTaskStatus, loadCallTaskView).
ShownNeverGoesBack ==
    [][shown # None /\ shown' # None /\ shown'.task = shown.task =>
        /\ shown'.view.version >= shown.view.version
        /\ shown'.view.window >= shown.view.window]_vars

\* A request works with nothing that was taken out of use before it was sent and
\* not put back since, though the membership, the assignment, the DID and the
\* endpoint are each read on their own and written much later
\* (JwtStrategy.validate, selectDidContext, selectTargetEndpoint).
WithdrawnIsNotUsed ==
    \A s \in Slots : reqs[s] # None =>
        {reqs[s].tenant, reqs[s].assignment, reqs[s].did, reqs[s].endpoint} \cap reqs[s].gone = {}

\* The latest event shown is not older than the event that gave the call the
\* status shown: the two are read apart from one another (loadCallTaskView).
EventCoversStatus == shown # None => shown.view.latest >= shown.view.since

\* The page shows the task of the last dial that ended, or none when that was a
\* direct one or the mode was left, unless a refresh was in flight then, which
\* puts its own task back (dial, selectMode, refreshActiveTaskStatus).
ShownIsLastDialled ==
    expected # Either => expected = IF shown = None THEN None ELSE shown.task

\* The buttons never stay disabled, whatever is lost or refused (dial).
DialEnds == isDialing ~> ~isDialing
=============================================================================
