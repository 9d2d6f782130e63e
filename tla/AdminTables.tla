----------------------------- MODULE AdminTables -----------------------------
(* account.service.ts and config.service.ts behind the admin controllers,    *)
(* the accounts a process inserts when it starts, and the console that keeps *)
(* copies of the three tables (admin_console_controller.dart).               *)
EXTENDS Integers, Sequences, FiniteSets

CONSTANTS
    Consoles, Processes,
    Needed,             \* processes that must be up before requests come
    Calls,              \* requests under way in all processes
    Loads,              \* loads under way in all consoles
    Typed,              \* user names as they are typed
    Normal,             \* [Typed -> Names]: trim().toLowerCase()
    Malformed,          \* the normal names that ensureValidUsername refuses
    Bootstrap,          \* by role, the name in the environment, typed
    Requests,           \* what the consoles ask for
    None, Null, Blank, Short,
    MaxAsked, MaxBroken

Roles == {"admin", "app_user"}
Tables == {"accounts", "prefixes", "notices"}

Columns ==
    [accounts |-> {"displayName", "password", "status"},
     prefixes |-> {"carrierName", "prefix", "priority", "status", "remark"},
     notices |-> {"title", "content", "type", "status", "startAt", "endAt"}]

\* The environment of a process that can start: its names and passwords are well
\* formed, and the two names differ (one name for both roles could never be
\* inserted twice).
ASSUME BootstrapAssumption ==
    /\ Bootstrap \in [Roles -> Typed]
    /\ Normal[Bootstrap["admin"]] # Normal[Bootstrap["app_user"]]
    /\ \A role \in Roles : Normal[Bootstrap[role]] \notin Malformed

\* A process is no console, and the owner of a call nobody waits for is neither.
ASSUME OwnersAssumption == Consoles \cap Processes = {} /\ None \notin Consoles \cup Processes

\* What the data transfer objects let through.
ASSUME RequestsAssumption ==
    \A r \in Requests : r.table \in Tables /\ DOMAIN r.input \subseteq Columns[r.table]

VARIABLES
    rows,       \* by table, the rows in the order of their insertion
    calls,      \* a handler between two statements
    started,    \* by process: how many roles onModuleInit is through with
    view,       \* by console and table: ids with the row it shows
    saving,     \* AdminConsoleState.isSaving
    loading,    \* loadConsole: whose it is, how many lists it has read, what they held
    asked, broken,
    fresh       \* since the console was loaded only it wrote, no row in two ways at once

tableVars == <<rows, calls>>
consoleVars == <<view, saving, loading, fresh>>
vars == <<rows, calls, started, view, saving, loading, asked, broken, fresh>>

\* A blank field of an update keeps the column.
Kept == {"carrierName", "prefix", "title", "content", "password"}
\* A blank field empties the column, and so does a date that is not one.
Nullable == {"remark", "startAt", "endAt"}

Merged(column, row, value) ==
    IF value # Blank THEN value
    ELSE IF column \in Kept THEN row.cols[column]
    ELSE IF column \in Nullable THEN Null
    ELSE row.name

\* Mutant: a remark that is not named is emptied.
UpdatedClearing(row, input) ==
    [row EXCEPT !.cols = [c \in DOMAIN row.cols |->
        IF c \in DOMAIN input THEN Merged(c, row, input[c])
        ELSE IF c = "remark" THEN Null ELSE row.cols[c]]]

\* The assignments of updateAccount, updateDialPrefix and updateNotice.
Updated(row, input) ==
    [row EXCEPT !.cols = [c \in DOMAIN row.cols |->
        IF c \in DOMAIN input THEN Merged(c, row, input[c]) ELSE row.cols[c]]]

Default(column) ==
    IF column = "status" THEN "active"
    ELSE IF column = "type" THEN "info"
    ELSE IF column = "priority" THEN "0"
    ELSE IF column = "carrierName" THEN "*"
    ELSE IF column \in Nullable THEN Null
    ELSE ""

\* What create and save insert.
Created(table, name, role, input) ==
    [name |-> name, role |-> role,
     cols |-> [c \in Columns[table] |->
        IF c \in DOMAIN input /\ input[c] # Blank THEN input[c]
        ELSE IF c = "displayName" THEN name ELSE Default(c)]]

RefusedPassword(input) == "password" \in DOMAIN input /\ input["password"] = Short

Exists(name, role) == \E i \in DOMAIN rows["accounts"] :
    rows["accounts"][i].name = name /\ rows["accounts"][i].role = role

\* Mutant: the name may be taken once in each role, as the lookups have it.
TakenInRole(table, row) == table = "accounts" /\ Exists(row.name, row.role)

\* uk_accounts_username
Taken(table, row) ==
    table = "accounts" /\ \E i \in DOMAIN rows[table] : rows[table][i].name = row.name

\* The migration inserts a prefix and a notice; accounts come with the processes.
Seeded == [accounts |-> << >>,
           prefixes |-> <<Created("prefixes", None, None, << >>)>>,
           notices |-> <<Created("notices", None, None, << >>)>>]

\* No handler: what a free place in calls holds.
NoCall ==
    [owner |-> None, table |-> None, at |-> "free", id |-> None, name |-> None, role |-> None,
     input |-> None, row |-> None, diff |-> {}, code |-> None, overlapped |-> FALSE]

Init ==
    /\ rows = Seeded
    /\ calls = [h \in Calls |-> NoCall]
    /\ started = [p \in Processes |-> 0]
    /\ view = [c \in Consoles |-> [t \in Tables |-> {}]]
    /\ saving = [c \in Consoles |-> FALSE]
    /\ loading = [l \in Loads |-> None]
    /\ asked = 0 /\ broken = 0
    /\ fresh = [c \in Consoles |-> FALSE]

-----------------------------------------------------------------------------
(* The handlers                                                              *)

Runs(h, at) == calls[h].at = at
Goes(h, at) == [calls EXCEPT ![h].at = at]

\* Nobody waits for the answer when the request was given up.
Answered(h, code, row) ==
    [calls EXCEPT ![h] = IF @.owner = None THEN NoCall
                         ELSE [@ EXCEPT !.at = "done", !.code = code, !.row = row]]

\* A commit of another request on the same row is noted in every update that has
\* read the row, and a change that is not its own in every console.
Committed(h, table, id, after) ==
    [g \in Calls |->
        IF g # h /\ after[g].table = table /\ after[g].id = id
           /\ after[g].at = "save"
        THEN [after[g] EXCEPT !.overlapped = TRUE] ELSE after[g]]

Disturbed(h) ==
    /\ fresh' = [c \in Consoles |-> fresh[c] /\ calls[h].owner = c]
    /\ loading' = [l \in Loads |->
            IF loading[l] = None THEN None ELSE [loading[l] EXCEPT !.quiet = FALSE]]

\* createAccount up to the hash of the password; the lookup is by name and role.
CheckNewAccount(h) ==
    /\ Runs(h, "check")
    /\ calls' =
        IF calls[h].name \in Malformed \/ RefusedPassword(calls[h].input) THEN Answered(h, 400, None)
        ELSE IF Exists(calls[h].name, calls[h].role) THEN Answered(h, 409, None)
        ELSE Goes(h, "insert")
    /\ UNCHANGED <<rows, started, consoleVars, asked, broken>>

Insert(h) ==
    /\ Runs(h, "insert")
    /\ LET table == calls[h].table
           row == Created(table, calls[h].name, calls[h].role, calls[h].input)
       IN IF Taken(table, row)
          THEN /\ calls' = Answered(h, 500, None)
               /\ UNCHANGED <<rows, fresh, loading>>
          ELSE /\ rows' = [rows EXCEPT ![table] = Append(@, row)]
               /\ calls' = [Answered(h, 200, row) EXCEPT ![h] =
                               IF @.at = "done" THEN [@ EXCEPT !.id = Len(rows'[table])] ELSE @]
               /\ Disturbed(h)
    /\ UNCHANGED <<started, view, saving, asked, broken>>

\* findOne and the assignments; the hash of the password comes before the save.
ReadRow(h) ==
    /\ Runs(h, "find")
    /\ LET table == calls[h].table
           id == calls[h].id
       IN calls' =
            IF id \notin DOMAIN rows[table] THEN Answered(h, 404, None)
            ELSE IF RefusedPassword(calls[h].input) THEN Answered(h, 400, None)
            ELSE [calls EXCEPT ![h].at = "save",
                               ![h].row = Updated(rows[table][id], calls[h].input)]
    /\ UNCHANGED <<rows, started, consoleVars, asked, broken>>

\* save: the row is read again, and the columns that differ are to be written.
Compare(h) ==
    /\ Runs(h, "save")
    /\ LET now == rows[calls[h].table][calls[h].id]
       IN calls' = [calls EXCEPT ![h].at = "update",
              ![h].diff = { c \in DOMAIN now.cols : now.cols[c] # calls[h].row.cols[c] }]
    /\ UNCHANGED <<rows, started, consoleVars, asked, broken>>

WriteRow(h) ==
    /\ Runs(h, "update")
    /\ LET table == calls[h].table
           id == calls[h].id
           new == calls[h].row
       IN /\ rows' = [rows EXCEPT ![table][id].cols =
                        [c \in DOMAIN @ |-> IF c \in calls[h].diff THEN new.cols[c] ELSE @[c]]]
          /\ calls' = Committed(h, table, id, Answered(h, 200, new))
    /\ Disturbed(h)
    /\ UNCHANGED <<started, view, saving, asked, broken>>

\* A statement fails, or the process that executes it ends.
Breaks(h) ==
    /\ broken < MaxBroken
    /\ calls[h].at \notin {"free", "done"}
    /\ broken' = broken + 1
    /\ calls' = Answered(h, 500, None)
    /\ UNCHANGED <<rows, started, consoleVars, asked>>

-----------------------------------------------------------------------------
(* A process starts                                                          *)

RoleOf(p) == IF started[p] = 0 THEN "admin" ELSE "app_user"
Up == Cardinality(Roles)
Idle(owner) == \A h \in Calls : calls[h].owner # owner

Begin(owner, table, at, id, name, role, input) ==
    /\ \E h \in Calls : Runs(h, "free")
    /\ calls' = [calls EXCEPT ![CHOOSE h \in Calls : Runs(h, "free")] =
            [owner |-> owner, table |-> table, at |-> at, id |-> id, name |-> name, role |-> role,
             input |-> input, row |-> None, diff |-> {}, code |-> None, overlapped |-> FALSE]]

\* Mutant: the name is looked up as it was typed.
BootstrapUnnormalised(p) ==
    /\ started[p] < Up /\ Idle(p)
    /\ LET typed == Bootstrap[RoleOf(p)]
       IN IF typed = Normal[typed] /\ Exists(Normal[typed], RoleOf(p))
          THEN started' = [started EXCEPT ![p] = @ + 1] /\ UNCHANGED calls
          ELSE /\ Begin(p, "accounts", "check", None, Normal[typed], RoleOf(p), << >>)
               /\ UNCHANGED started
    /\ UNCHANGED <<rows, consoleVars, asked, broken>>

\* bootstrapFromEnv: nothing to do, or an account to create.
BootstrapFromEnv(p) ==
    /\ started[p] < Up /\ Idle(p)
    /\ LET name == Normal[Bootstrap[RoleOf(p)]]
       IN IF Exists(name, RoleOf(p))
          THEN started' = [started EXCEPT ![p] = @ + 1] /\ UNCHANGED calls
          ELSE /\ Begin(p, "accounts", "check", None, name, RoleOf(p), << >>)
               /\ UNCHANGED started
    /\ UNCHANGED <<rows, consoleVars, asked, broken>>

\* onModuleInit goes on, or it throws: the process ends and is started again.
Bootstrapped(p) ==
    /\ \E h \in Calls :
        /\ Runs(h, "done") /\ calls[h].owner = p
        /\ started' = [started EXCEPT ![p] = IF calls[h].code = 200 THEN @ + 1 ELSE 0]
        /\ calls' = [calls EXCEPT ![h] = NoCall]
    /\ UNCHANGED <<rows, consoleVars, asked, broken>>

-----------------------------------------------------------------------------
(* The console                                                               *)

Listed(table) ==
    { [id |-> i, row |-> rows[table][i]] : i \in
        { j \in DOMAIN rows[table] : table # "accounts" \/ rows[table][j].role = "app_user" } }

Served == Cardinality({ p \in Processes : started[p] = Up }) >= Needed

\* A request of the console for the row is under way, or its answer is.
AskedOf(c, table, id) ==
    \E h \in Calls : calls[h].owner = c /\ calls[h].table = table /\ calls[h].id = id

\* createAccount, createDialPrefix, createNotice and the three updates (_runMutation).
\* The buttons that create wait for isSaving, the icons that edit do not, and a
\* dialog can be left while its request is under way. An update names a row that is
\* listed, for a list may be of any age, or one that is not there.
Ask(c, r) ==
    /\ Served /\ asked < MaxAsked
    /\ asked' = asked + 1
    /\ \/ /\ r.update
          /\ \E id \in { shown.id : shown \in Listed(r.table) } \cup {0} :
                /\ Begin(c, r.table, "find", id, None, None, r.input)
                /\ fresh' = [fresh EXCEPT ![c] = @ /\ ~AskedOf(c, r.table, id)]
       \/ /\ ~r.update /\ ~saving[c]
          /\ Begin(c, r.table, IF r.table = "accounts" THEN "check" ELSE "insert", None,
                   IF r.table = "accounts" THEN Normal[r.name] ELSE None, IF r.table = "accounts" THEN "app_user" ELSE None, r.input)
          /\ UNCHANGED fresh
    /\ saving' = [saving EXCEPT ![c] = TRUE]
    /\ loading' = [l \in Loads |->
            IF loading[l] # None /\ loading[l].console = c
            THEN [loading[l] EXCEPT !.quiet = FALSE] ELSE loading[l]]
    /\ UNCHANGED <<rows, started, view, broken>>

\* Mutant: the answered row is added and the old one stays.
HearAdding(c, h) ==
    /\ Runs(h, "done") /\ calls[h].owner = c
    /\ view' = IF calls[h].code # 200 THEN view
               ELSE [view EXCEPT ![c][calls[h].table] =
                        @ \cup {[id |-> calls[h].id, row |-> calls[h].row]}]
    /\ calls' = [calls EXCEPT ![h] = NoCall]
    /\ saving' = [saving EXCEPT ![c] = FALSE]
    /\ UNCHANGED <<rows, started, loading, asked, broken, fresh>>

\* _runMutation: the answered row takes the place of the one with its id.
Hear(c, h) ==
    /\ Runs(h, "done") /\ calls[h].owner = c
    /\ view' = IF calls[h].code # 200 THEN view
               ELSE [view EXCEPT ![c][calls[h].table] =
                        { shown \in @ : shown.id # calls[h].id }
                        \cup {[id |-> calls[h].id, row |-> calls[h].row]}]
    /\ calls' = [calls EXCEPT ![h] = NoCall]
    /\ saving' = [saving EXCEPT ![c] = FALSE]
    /\ UNCHANGED <<rows, started, loading, asked, broken, fresh>>

\* The request or its answer is lost, or takes too long; the handler goes on.
GiveUp(c, h) ==
    /\ calls[h].owner = c
    /\ \/ calls' = [calls EXCEPT ![h] = NoCall]
       \/ calls[h].at # "done" /\ calls' = [calls EXCEPT ![h].owner = None]
    /\ fresh' = [fresh EXCEPT ![c] = FALSE]
    /\ saving' = [saving EXCEPT ![c] = FALSE]
    /\ UNCHANGED <<rows, started, view, loading, asked, broken>>

\* load, when the page opens or is pulled down, also while another one is under way.
StartLoad(c) ==
    /\ Served /\ asked < MaxAsked
    /\ asked' = asked + 1
    /\ \E l \in Loads : loading[l] = None
    /\ loading' = [loading EXCEPT ![CHOOSE l \in Loads : loading[l] = None] =
            [console |-> c, at |-> 1, lists |-> << >>, quiet |-> Idle(c)]]
    /\ UNCHANGED <<rows, calls, started, view, saving, broken, fresh>>

Order == <<"accounts", "prefixes", "notices">>

\* listAccounts, listDialPrefixes, listNotices, one after the other.
ReadList(l) ==
    /\ loading[l] # None /\ loading[l].at <= Len(Order)
    /\ loading' = [loading EXCEPT ![l].at = @ + 1,
                                  ![l].lists = Append(@, Listed(Order[loading[l].at]))]
    /\ UNCHANGED <<rows, calls, started, view, saving, asked, broken, fresh>>

Loaded(l) ==
    /\ loading[l] # None /\ loading[l].at > Len(Order)
    /\ view' = [view EXCEPT ![loading[l].console] =
                    [t \in Tables |-> loading[l].lists[CHOOSE i \in DOMAIN Order : Order[i] = t]]]
    /\ fresh' = [fresh EXCEPT ![loading[l].console] = loading[l].quiet]
    /\ loading' = [loading EXCEPT ![l] = None]
    /\ UNCHANGED <<rows, calls, started, saving, asked, broken>>

LoadFails(l) ==
    /\ loading[l] # None
    /\ loading' = [loading EXCEPT ![l] = None]
    /\ UNCHANGED <<rows, calls, started, view, saving, asked, broken, fresh>>

\* clear, when the administrator logs out; what is under way is still heard.
Clear(c) ==
    /\ asked < MaxAsked
    /\ asked' = asked + 1
    /\ view' = [view EXCEPT ![c] = [t \in Tables |-> {}]]
    /\ saving' = [saving EXCEPT ![c] = FALSE]
    /\ fresh' = [fresh EXCEPT ![c] = FALSE]
    /\ UNCHANGED <<rows, calls, started, loading, broken>>

-----------------------------------------------------------------------------
Handle(h) ==
    \/ CheckNewAccount(h) \/ Insert(h) \/ ReadRow(h) \/ Compare(h) \/ WriteRow(h)

Next ==
    \/ \E h \in Calls :
        \/ Handle(h) \/ Breaks(h)
        \/ \E c \in Consoles : Hear(c, h) \/ GiveUp(c, h)
    \/ \E p \in Processes : BootstrapFromEnv(p) \/ Bootstrapped(p)
    \/ \E c \in Consoles, r \in Requests : Ask(c, r)
    \/ \E c \in Consoles : StartLoad(c) \/ Clear(c)
    \/ \E l \in Loads : ReadList(l) \/ Loaded(l) \/ LoadFails(l)

\* Statements come to an end, and a process that ended is started again.
Fairness ==
    /\ \A h \in Calls : WF_vars(Handle(h)) /\ WF_vars(\E c \in Consoles : Hear(c, h))
    /\ \A p \in Processes : WF_vars(BootstrapFromEnv(p)) /\ WF_vars(Bootstrapped(p))

Spec == Init /\ [][Next]_vars /\ Fairness

-----------------------------------------------------------------------------
\* A user name is in the table once, whatever its role, though every lookup is by
\* name and role and a hash lies between it and the insertion (createAccount, the
\* comment of accounts.username in the migration).
UsernamesUnique ==
    \A i, j \in DOMAIN rows["accounts"] :
        rows["accounts"][i].name = rows["accounts"][j].name => i = j

\* An update changes a column its request does not name only when another update
\* of the row was committed between its read and its save: the whole entity is
\* compared, and what was changed meanwhile is put back (updateAccount and the
\* like, save).
UnnamedColumnsKept ==
    [][\A h \in Calls :
        LET call == calls[h]
        IN Runs(h, "update") /\ calls'[h] # call /\ rows' # rows /\ ~call.overlapped =>
            \A c \in Columns[call.table] \ DOMAIN call.input :
                rows'[call.table][call.id].cols[c] = rows[call.table][call.id].cols[c]]_vars

\* A console that was loaded in peace shows what the tables hold, once it has heard
\* every answer, as long as nobody else writes: also when several of its requests and
\* their answers overtake each other, unless two of them are for one row (the later
\* answer may be the older one) or it loads meanwhile. The answer to an update is the
\* entity in memory, not the row, and the list is patched with it (_runMutation).
ViewIsTheTable ==
    \A c \in Consoles :
        fresh[c] /\ Idle(c) => \A t \in Tables : view[c][t] = Listed(t)

\* Every process gets through onModuleInit, also when several insert the same
\* accounts at one time and all but one of them end with an error.
EveryProcessStarts == \A p \in Processes : <>(started[p] = Up)
=============================================================================
