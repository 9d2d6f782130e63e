------------------------------ MODULE Sessions ------------------------------
(* auth.service.ts with the table account_refresh_tokens, and the client     *)
(* that keeps one session of it across starts: AuthController,               *)
(* DefaultAuthRepository and HttpAuthApi.                                    *)
(*                                                                           *)
(* A pair of tokens is the number of its row; the access token of a pair is  *)
(* a claim that ends with time, the refresh token is the row.                *)
EXTENDS Integers, Sequences, FiniteSets

CONSTANTS
    Users,          \* what may be typed as a user name
    Calls,          \* requests the server works on at one time
    None, MaxTokens, MaxCrashes, MaxExpired, MaxChanges, MaxLost

VARIABLES
    status,         \* column status of accounts, None where there is no row
    tokens,         \* account_refresh_tokens
    calls,          \* a handler between two statements, None when there is none
    store,          \* SecureSessionStore, key auth_session: the pair in it
    accessKey,      \* key access_token
    page,           \* AuthState.status
    session,        \* AuthState.session: the pair in memory
    task,           \* the operation of the repository that runs
    crashes, expired, changes,   \* counts that bound the environment
    lost,           \* operations that ended in an error or with the process
    replaced,       \* logins that wrote over a pair still in the store
    stranded,       \* the process ended with this pair in the store
    outrun          \* a login came to its tokens and not to its profile over this one

serverVars == <<status, tokens, calls>>
kept == <<replaced, stranded, outrun>>
clientVars == <<store, accessKey, page, session, task, lost, kept>>
bounds == <<crashes, expired, changes>>
vars == <<serverVars, clientVars, bounds>>

Status == {"active", "disabled", "banned"}
Row == [account: Users, revoked: BOOLEAN, expired: BOOLEAN, stale: BOOLEAN]
Pairs == DOMAIN tokens

\* A handler between two statements, with the rows of the tokens it was sent.
Request == [kind: {"login", "refresh", "logout", "me"},
            at: {"start", "revoke", "account", "issue", "done"},
            user: Users, pair: Nat \cup {None}, access: Nat \cup {None},
            answer: Nat \cup {None}, spent: BOOLEAN, barred: BOOLEAN]

\* None is no number, no row and no name.
ASSUME NoneAssumption ==
    /\ None \notin Nat /\ None \notin Request /\ None \notin Calls
    /\ None \notin {"restore", "login", "refresh", "logout", "me", "profile"}

Idle == [op |-> None, step |-> None, call |-> None, pair |-> None]

Init ==
    /\ status \in [Users -> {"active", None}] /\ \E u \in Users : status[u] = "active"
    /\ tokens = << >>
    /\ calls = [h \in Calls |-> None]
    /\ store = None /\ accessKey = None
    /\ page = "booting" /\ session = None /\ task = Idle
    /\ crashes = 0 /\ expired = 0 /\ changes = 0
    /\ lost = 0 /\ replaced = 0 /\ stranded = None /\ outrun = None

-----------------------------------------------------------------------------
(* The server                                                                *)

\* A handler answers; nobody may be waiting for it any more.
Answered(h, code) ==
    [calls EXCEPT ![h] = IF task.call = h THEN [@ EXCEPT !.at = "done", !.answer = code] ELSE None]

\* A statement is about to be executed.
Runs(h, kinds, at) == calls[h] # None /\ calls[h].kind \in kinds /\ calls[h].at = at

\* The codes a refused login may have: the format of what was typed, the lookup
\* or the comparison, and recordFailedAttempt when there were too many.
Refusals == {400, 401, 429}

ValidateCredentials(user, typedRight) ==
    IF status[user] = None \/ ~typedRight THEN Refusals
    ELSE IF status[user] # "active" THEN {403}
    ELSE {200}

LoginWithRole(h) ==
    /\ Runs(h, {"login"}, "start")
    /\ \E typedRight \in BOOLEAN : \E code \in ValidateCredentials(calls[h].user, typedRight) :
        calls' = IF code = 200 THEN [calls EXCEPT ![h].at = "issue"] ELSE Answered(h, code)
    /\ UNCHANGED <<status, tokens, clientVars, bounds>>

\* JwtStrategy: the access token is checked by its signature and its end alone.
Authenticated(h) == calls[h].access # None /\ ~tokens[calls[h].access].stale

\* The account the access token was issued to.
Account(h) == tokens[calls[h].access].account

\* Mutant: a revoked row is found too.
UsableAlsoRevoked(h) ==
    LET row == tokens[calls[h].pair]
    IN CASE calls[h].kind = "refresh" -> ~row.expired
         [] calls[h].kind = "logout" -> Authenticated(h) /\ Account(h) = row.account /\ ~row.revoked

\* findOne of refreshWithRole and of logoutWithRole; only the first one looks at
\* the end of the row.
Usable(h) ==
    LET row == tokens[calls[h].pair]
    IN CASE calls[h].kind = "refresh" -> ~row.revoked /\ ~row.expired
         [] calls[h].kind = "logout" -> Authenticated(h) /\ Account(h) = row.account /\ ~row.revoked

FindToken(h) ==
    /\ Runs(h, {"refresh", "logout"}, "start")
    /\ calls' = IF Usable(h) THEN [calls EXCEPT ![h].at = "revoke"] ELSE Answered(h, 401)
    /\ UNCHANGED <<status, tokens, clientVars, bounds>>

\* Mutant: the account and the new row come first and the old row is kept.
RevokeForgotten(h) ==
    /\ Runs(h, {"refresh", "logout"}, "revoke")
    /\ tokens' = IF calls[h].kind = "logout" THEN [tokens EXCEPT ![calls[h].pair].revoked = TRUE]
                 ELSE tokens
    /\ calls' = IF calls[h].kind = "logout" THEN Answered(h, 200)
                ELSE [calls EXCEPT ![h].at = "account"]
    /\ UNCHANGED <<status, clientVars, bounds>>

Revoke(h) ==
    /\ Runs(h, {"refresh", "logout"}, "revoke")
    /\ tokens' = [tokens EXCEPT ![calls[h].pair].revoked = TRUE]
    /\ calls' = IF calls[h].kind = "logout" THEN Answered(h, 200)
                ELSE [calls EXCEPT ![h].at = "account"]
    /\ UNCHANGED <<status, clientVars, bounds>>

\* Mutant: only a ban is looked at.
CheckAccountForBan(h) ==
    /\ Runs(h, {"refresh"}, "account")
    /\ calls' = IF status[calls[h].user] = "banned" THEN Answered(h, 403)
                ELSE [calls EXCEPT ![h].at = "issue"]
    /\ UNCHANGED <<status, tokens, clientVars, bounds>>

CheckAccount(h) ==
    /\ Runs(h, {"refresh"}, "account")
    /\ calls' = IF status[calls[h].user] # "active" THEN Answered(h, 403)
                ELSE [calls EXCEPT ![h].at = "issue"]
    /\ UNCHANGED <<status, tokens, clientVars, bounds>>

IssueTokens(h) ==
    /\ Runs(h, {"login", "refresh"}, "issue")
    /\ Len(tokens) < MaxTokens
    /\ tokens' = Append(tokens, [account |-> calls[h].user, revoked |-> FALSE,
                                 expired |-> FALSE, stale |-> FALSE])
    /\ calls' = [Answered(h, 200) EXCEPT ![h] = IF @ = None THEN @ ELSE [@ EXCEPT !.pair = Len(tokens')]]
    /\ UNCHANGED <<status, clientVars, bounds>>

\* The profile is read whatever the status of the account.
Me(h) ==
    /\ Runs(h, {"me"}, "start")
    /\ calls' = Answered(h, IF Authenticated(h) THEN 200 ELSE 401)
    /\ UNCHANGED <<status, tokens, clientVars, bounds>>

\* A statement fails and what was done before it stays.
StatementFails(h) ==
    /\ calls[h] # None /\ calls[h].at # "done"
    /\ calls' = Answered(h, 500)
    /\ UNCHANGED <<status, tokens, clientVars, bounds>>

\* AccountService.updateAccount, from the console.
ChangeStatus(u, s) ==
    /\ changes < MaxChanges
    /\ status[u] # None /\ status[u] # s
    /\ status' = [status EXCEPT ![u] = s]
    /\ calls' = [h \in Calls |->
                    IF calls[h] # None /\ calls[h].user = u /\ s = "active"
                    THEN [calls[h] EXCEPT !.barred = FALSE] ELSE calls[h]]
    /\ changes' = changes + 1
    /\ UNCHANGED <<tokens, clientVars, crashes, expired>>

\* Time passes: the end of an access token, the same on both sides, or of a row.
Expire(t) ==
    /\ expired < MaxExpired
    /\ \/ ~tokens[t].stale /\ tokens' = [tokens EXCEPT ![t].stale = TRUE]
       \/ tokens[t].stale /\ ~tokens[t].expired /\ tokens' = [tokens EXCEPT ![t].expired = TRUE]
    /\ expired' = expired + 1
    /\ UNCHANGED <<status, calls, clientVars, crashes, changes>>

-----------------------------------------------------------------------------
(* The client                                                                *)

\* A request leaves. spent: the row it names is already revoked; barred: its account
\* is not active, and has not been since.
Send(h, op, kind, user, pair) ==
    /\ calls[h] = None
    /\ calls' = [calls EXCEPT ![h] =
            [kind |-> kind, at |-> "start", user |-> user, pair |-> pair,
             access |-> IF kind = "logout" THEN accessKey ELSE pair, answer |-> None,
             spent |-> pair # None /\ tokens[pair].revoked,
             barred |-> status[user] # "active"]]
    /\ task' = [op |-> op, step |-> kind, call |-> h, pair |-> pair]

Owner(pair) == tokens[pair].account
Waits(op, step) == task.op = op /\ task.step = step
Succeeded == task.call # None /\ calls[task.call].at = "done" /\ calls[task.call].answer = 200

\* Dio throws for every status that is not 2xx, and when it has waited enough.
Failed == task.call # None => calls[task.call].at = "done" /\ calls[task.call].answer # 200

Collected == IF task.call = None THEN calls ELSE [calls EXCEPT ![task.call] = None]

\* An operation that is given up, or whose request never arrives.
TimeOut ==
    /\ task # Idle /\ task.call # None
    /\ \/ calls' = [calls EXCEPT ![task.call] = IF @.at = "done" THEN None ELSE @]
       \/ calls[task.call].at = "start" /\ calls' = Collected
    /\ task' = [task EXCEPT !.call = None]
    /\ UNCHANGED <<status, tokens, store, accessKey, page, session, lost, kept, bounds>>

\* SessionStore.write or clear.
Write(pair) ==
    /\ store' = pair
    /\ stranded' = IF pair = stranded THEN stranded ELSE None
    /\ outrun' = IF pair = outrun THEN outrun ELSE None

Ends(newPage) == task' = Idle /\ page' = newPage

\* initialize and restoreSession up to the first request.
Initialize ==
    /\ task = Idle /\ page = "booting"
    /\ \/ /\ store = None
          /\ Ends("unauthenticated")
          /\ UNCHANGED calls
       \/ /\ store # None
          /\ \E h \in Calls :
                Send(h, "restore", IF tokens[store].stale THEN "refresh" ELSE "me",
                     Owner(store), store)
          /\ UNCHANGED page
    /\ UNCHANGED <<status, tokens, store, accessKey, session, lost, kept, bounds>>

\* The profile came or the request failed: the session is kept in both cases,
\* for a 401 is a DioException and no ApiException.
Restored ==
    /\ Waits("restore", "me") /\ task.pair = store
    /\ Succeeded \/ Failed
    /\ calls' = Collected
    /\ Ends("authenticated") /\ session' = store
    /\ UNCHANGED <<status, tokens, store, accessKey, lost, kept, bounds>>

\* refresh or login of HttpAuthApi: the access token is written before the
\* profile is asked for.
PairCame ==
    /\ task.op \in {"restore", "login"} /\ task.step \in {"refresh", "login"}
    /\ Succeeded
    /\ LET pair == calls[task.call].pair
           old == task.call
       IN /\ accessKey' = pair
          /\ calls' = [calls EXCEPT ![old] =
                [kind |-> "me", at |-> "start", user |-> Owner(pair), pair |-> pair, access |-> pair,
                 answer |-> None, spent |-> FALSE, barred |-> status[Owner(pair)] # "active"]]
          /\ task' = [task EXCEPT !.step = "profile", !.pair = pair]
    /\ UNCHANGED <<status, tokens, store, page, session, lost, kept, bounds>>

\* The last statement of refreshSession or of login.
ProfileCame ==
    /\ task.step = "profile" /\ Succeeded
    /\ Write(task.pair)
    /\ replaced' = IF task.op = "login" /\ store # None THEN replaced + 1 ELSE replaced
    /\ calls' = Collected
    /\ Ends("authenticated") /\ session' = task.pair
    /\ UNCHANGED <<status, tokens, accessKey, lost, bounds>>

\* Mutant: a session that could not be refreshed is kept.
RestoreFailedKeeping ==
    /\ task.op = "restore" /\ task.step \in {"refresh", "profile"} /\ Failed
    /\ Write(store)
    /\ lost' = lost + 1
    /\ calls' = Collected
    /\ Ends("unauthenticated") /\ session' = None
    /\ UNCHANGED <<status, tokens, accessKey, replaced, bounds>>

\* Mutant: a request that was given up is not caught and initialize ends there.
RestoreFailedUncaught ==
    /\ task.op = "restore" /\ task.step \in {"refresh", "profile"} /\ Failed
    /\ task.call # None
    /\ Write(None)
    /\ lost' = lost + 1
    /\ calls' = Collected
    /\ Ends("unauthenticated") /\ session' = None
    /\ UNCHANGED <<status, tokens, accessKey, replaced, bounds>>

\* catch (_) of restoreSession; initialize clears the session in memory.
RestoreFailed ==
    /\ task.op = "restore" /\ task.step \in {"refresh", "profile"} /\ Failed
    /\ Write(None)
    /\ lost' = lost + 1
    /\ calls' = Collected
    /\ Ends("unauthenticated") /\ session' = None
    /\ UNCHANGED <<status, tokens, accessKey, replaced, bounds>>

\* AuthState.isAuthenticated, by the end of the access token in memory.
IsAuthenticated == page = "authenticated" /\ ~tokens[session].stale

\* The login page: the router sends there whoever is not authenticated, a session
\* whose access token has ended included, which stays in the store.
LogIn(u) ==
    /\ task = Idle /\ page # "booting" /\ ~IsAuthenticated
    /\ lost < MaxLost
    /\ \E h \in Calls : Send(h, "login", "login", u, None)
    /\ page' = "booting"
    /\ UNCHANGED <<status, tokens, store, accessKey, session, lost, kept, bounds>>

LoginFailed ==
    /\ task.op = "login" /\ Failed
    /\ lost' = lost + 1
    /\ outrun' = IF task.step = "profile" THEN store ELSE outrun
    /\ calls' = Collected
    /\ Ends("error")
    /\ UNCHANGED <<status, tokens, store, accessKey, session, replaced, stranded, bounds>>

\* The settings page; logout without a session only clears the store.
LogOut ==
    /\ task = Idle /\ page = "authenticated"
    /\ \/ /\ store = None
          /\ Ends("unauthenticated") /\ session' = None
          /\ UNCHANGED calls
       \/ /\ store # None
          /\ \E h \in Calls : Send(h, "logout", "logout", Owner(store), store)
          /\ UNCHANGED <<page, session>>
    /\ UNCHANGED <<status, tokens, store, accessKey, lost, kept, bounds>>

\* finally: both keys are cleared; after an error the state stays as it was.
LoggedOut ==
    /\ Waits("logout", "logout")
    /\ Succeeded \/ Failed
    /\ accessKey' = None
    /\ Write(None)
    /\ lost' = IF Succeeded THEN lost ELSE lost + 1
    /\ calls' = Collected
    /\ Ends(IF Succeeded THEN "unauthenticated" ELSE page)
    /\ session' = IF Succeeded THEN None ELSE session
    /\ UNCHANGED <<status, tokens, replaced, bounds>>

\* The process of the client ends and is started again.
Crash ==
    /\ crashes < MaxCrashes
    /\ crashes' = crashes + 1
    /\ calls' = IF task.call # None /\ calls[task.call].at = "done" THEN Collected ELSE calls
    /\ lost' = IF task = Idle THEN lost ELSE lost + 1
    /\ stranded' = IF task = Idle THEN stranded ELSE store
    /\ Ends("booting") /\ session' = None
    /\ UNCHANGED <<status, tokens, store, accessKey, replaced, outrun, expired, changes>>

-----------------------------------------------------------------------------
ServerStep ==
    \E h \in Calls :
        \/ LoginWithRole(h) \/ FindToken(h) \/ Revoke(h) \/ CheckAccount(h)
        \/ IssueTokens(h) \/ Me(h) \/ StatementFails(h)

ClientStep ==
    \/ Initialize \/ Restored \/ PairCame \/ ProfileCame \/ RestoreFailed
    \/ LoginFailed \/ LoggedOut \/ TimeOut

Next ==
    \/ ServerStep
    \/ ClientStep
    \/ \E u \in Users : LogIn(u) \/ \E s \in Status : ChangeStatus(u, s)
    \/ LogOut
    \/ \E t \in Pairs : Expire(t)
    \/ Crash

\* Every request is answered or given up after the timeouts of Dio, and the
\* event loop of the client goes on.
Fairness == WF_vars(ServerStep) /\ WF_vars(ClientStep)

Spec == Init /\ [][Next]_vars /\ Fairness

-----------------------------------------------------------------------------
Live == { t \in Pairs : ~tokens[t].revoked }

\* Operations that may have left a row of theirs; a login over a session still in the
\* store is one of them from its beginning.
LeftBehind == lost + replaced + (IF task.op = "login" /\ store # None THEN 1 ELSE 0)

\* Every row that can still be refreshed is the one of the stored session, the one
\* a request is bringing, or was left behind by one operation that failed or ended
\* with the process, or by one login over a session still in the store: refreshing
\* does not pile up rows, though revoking the old row and inserting the new one are
\* two statements (refreshWithRole), and a login revokes nothing (loginWithRole).
NoForgottenRows == Cardinality(Live) <= 1 + LeftBehind

\* No pair is about to be issued to an account that was not active when the
\* request was sent and has not been active since, though the status is read
\* once, and a row of its own says nothing of the account (validateCredentials,
\* refreshWithRole).
BarredGetNothing ==
    \A h \in Calls : calls[h] # None /\ calls[h].at = "issue" => ~calls[h].barred

\* A refresh token that was revoked before a refresh with it was sent gives no pair,
\* neither after a logout nor after a refresh whose answer was lost; two refreshes
\* that overlap may both give one (refreshWithRole, findOne and save).
SpentGivesNothing ==
    \A h \in Calls : calls[h] # None /\ calls[h].at = "issue" => ~calls[h].spent

\* Between two operations the stored refresh token has not been revoked, unless
\* the process ended in the middle of an operation on it, and the access token of
\* its own pair is the one sent along, unless besides a login over it got its tokens
\* and failed on the profile (refreshSession, restoreSession, login, logout).
StoredSessionIsWhole ==
    task = Idle /\ store # None /\ store # stranded =>
        /\ ~tokens[store].revoked
        /\ accessKey = store \/ store = outrun

\* Starting and logging in come to an end whatever is lost or refused: the state
\* booting is left (initialize, restoreSession, login).
BootingEnds == page = "booting" ~> page # "booting"
=============================================================================
