--------------------------- MODULE Sessions_proofs ---------------------------
(***************************************************************************)
(* Proofs about what the auth service issues, nothing for a row that was   *)
(* spent and nothing to an account that was barred, and about the session  *)
(* the client stores: it is whole between two operations, and the rows it  *)
(* leaves behind are no more than its operations that were lost.  For any  *)
(* number of users and of requests at one time; the bounds play no part.   *)
(***************************************************************************)
EXTENDS Sessions, FiniteSetTheorems, TLAPS

Task == [op: {None, "restore", "login", "logout"},
         step: {None, "login", "refresh", "logout", "me", "profile"},
         call: Calls \cup {None}, pair: Nat \cup {None}]

\* What holds of a request that is served over the rows ts and the accounts ss.
Honest(c, ts, ss) ==
    /\ c.pair \in DOMAIN ts \cup {None}
    /\ c.kind \in {"refresh", "logout"} => c.pair # None
    /\ c.spent => /\ c.kind # "login" /\ c.at \in {"start", "done"}
                  /\ c.pair # None /\ ts[c.pair].revoked
    /\ c.barred => c.at # "issue" /\ ss[c.user] # "active"
    /\ c.at = "done" /\ c.answer = 200 /\ c.kind \in {"login", "refresh"} => c.pair # None

\* The request an operation waits for is there and is of its kind.
Linked(t, cs) ==
    t.call # None =>
        /\ cs[t.call] # None
        /\ t.step \in {"login", "refresh"} => cs[t.call].kind = t.step

AuthInv ==
    /\ status \in [Users -> Status \cup {None}]
    /\ tokens \in Seq(Row)
    /\ calls \in [Calls -> Request \cup {None}]
    /\ store \in Pairs \cup {None} /\ accessKey \in Pairs \cup {None}
    /\ task \in Task /\ task.pair \in Pairs \cup {None}
    /\ Linked(task, calls)
    /\ \A h \in Calls : calls[h] # None => Honest(calls[h], tokens, status)

-----------------------------------------------------------------------------
(* The server: one request changes, rows are added or revoked.             *)

TokensKept ==
    \A p \in Pairs : p \in Pairs' /\ (tokens[p].revoked => tokens'[p].revoked)

LEMMA HonestKept ==
    ASSUME TokensKept, NEW c, Honest(c, tokens, status)
    PROVE  Honest(c, tokens', status)
  BY DEF TokensKept, Honest, Pairs

LEMMA ServerKeeps ==
    ASSUME AuthInv, NEW h \in Calls, calls[h] # None, NEW c,
           calls' = [calls EXCEPT ![h] = c],
           \/ c = None /\ task.call # h
           \/ c \in Request /\ c.kind = calls[h].kind /\ Honest(c, tokens', status),
           tokens' \in Seq(Row), TokensKept, UNCHANGED <<status, clientVars>>
    PROVE  AuthInv'
  <1>1. calls' \in [Calls -> Request \cup {None}]
    BY DEF AuthInv
  <1>2. /\ store' \in Pairs' \cup {None} /\ accessKey' \in Pairs' \cup {None}
        /\ task' \in Task /\ task'.pair \in Pairs' \cup {None}
    BY DEF AuthInv, clientVars, TokensKept
  <1>3. Linked(task', calls')
    BY NoneAssumption DEF AuthInv, clientVars, Linked, Task, NoneAssumption
  <1>4. ASSUME NEW g \in Calls, calls'[g] # None PROVE Honest(calls'[g], tokens', status')
    <2>1. CASE g = h
      BY <1>4, <2>1 DEF AuthInv
    <2>2. CASE g # h
      <3>1. PICK d : d = calls[g]
        OBVIOUS
      <3>2. d = calls'[g] /\ Honest(d, tokens, status)
        BY <1>4, <2>2, <3>1 DEF AuthInv
      <3>3. Honest(d, tokens', status)
        BY <3>2, HonestKept
      <3>. QED BY <3>2, <3>3
    <2>. QED BY <2>1, <2>2
  <1>. QED BY <1>1, <1>2, <1>3, <1>4 DEF AuthInv

LEMMA SameTokens == UNCHANGED tokens => TokensKept
  BY DEF TokensKept, Pairs

\* A request goes on to its next statement.
LEMMA GoesOn ==
    ASSUME AuthInv, NEW h \in Calls, calls[h] # None,
           NEW at \in {"revoke", "account", "issue"}, calls' = [calls EXCEPT ![h].at = at],
           tokens' \in Seq(Row), TokensKept, UNCHANGED <<status, clientVars>>,
           ~calls[h].spent, at = "issue" => ~calls[h].barred
    PROVE  AuthInv'
  <1>. DEFINE c == [calls[h] EXCEPT !.at = at]
  <1>1. calls[h] \in Request /\ Honest(calls[h], tokens, status)
    BY DEF AuthInv
  <1>2. /\ c \in Request /\ c.kind = calls[h].kind /\ c.at = at /\ c.pair = calls[h].pair
        /\ c.spent = calls[h].spent /\ c.barred = calls[h].barred /\ c.user = calls[h].user
    BY <1>1 DEF Request
  <1>3. calls' = [calls EXCEPT ![h] = c]
    BY DEF AuthInv
  <1>. HIDE DEF c
  <1>4. Honest(c, tokens', status)
    BY <1>1, <1>2 DEF Honest, TokensKept, Pairs
  <1>. QED BY <1>2, <1>3, <1>4, ServerKeeps

LEMMA Finished ==
    ASSUME NEW r \in Request, NEW code \in Nat
    PROVE  LET d == [r EXCEPT !.at = "done", !.answer = code]
           IN  /\ d \in Request /\ d.at = "done" /\ d.answer = code
               /\ d.kind = r.kind /\ d.user = r.user /\ d.pair = r.pair
               /\ d.spent = r.spent /\ d.barred = r.barred
  <1>. DEFINE e == [r EXCEPT !.at = "done"]
              d == [e EXCEPT !.answer = code]
  <1>1. /\ e \in Request /\ e.at = "done" /\ e.kind = r.kind /\ e.user = r.user
        /\ e.pair = r.pair /\ e.spent = r.spent /\ e.barred = r.barred
    BY DEF Request
  <1>. HIDE DEF e
  <1>2. /\ d \in Request /\ d.at = e.at /\ d.answer = code /\ d.kind = e.kind
        /\ d.user = e.user /\ d.pair = e.pair /\ d.spent = e.spent /\ d.barred = e.barred
    BY <1>1 DEF Request
  <1>. QED BY <1>1, <1>2 DEF e

\* A request is answered; only an issued pair makes a 200 of a login or a refresh.
LEMMA AnswerKeeps ==
    ASSUME AuthInv, NEW h \in Calls, calls[h] # None, NEW code \in Nat,
           calls' = Answered(h, code),
           code = 200 => calls[h].kind \in {"logout", "me"},
           tokens' \in Seq(Row), TokensKept, UNCHANGED <<status, clientVars>>
    PROVE  AuthInv'
  <1>. DEFINE c == [calls[h] EXCEPT !.at = "done", !.answer = code]
  <1>1. calls[h] \in Request /\ Honest(calls[h], tokens, status)
    BY DEF AuthInv
  <1>2. /\ c \in Request /\ c.kind = calls[h].kind /\ c.at = "done" /\ c.pair = calls[h].pair
        /\ c.spent = calls[h].spent /\ c.barred = calls[h].barred /\ c.user = calls[h].user
        /\ c.answer = code
    BY <1>1, Finished
  <1>3. \/ calls' = [calls EXCEPT ![h] = c]
        \/ task.call # h /\ calls' = [calls EXCEPT ![h] = None]
    <2>1. Answered(h, code) = [calls EXCEPT ![h] = IF task.call = h THEN c ELSE None]
      BY Zenon DEF Answered
    <2>. HIDE DEF c
    <2>2. calls \in [Calls -> Request \cup {None}]
      BY DEF AuthInv
    <2>3. CASE task.call = h
      BY <2>1, <2>2, <2>3
    <2>4. CASE task.call # h
      BY <2>1, <2>2, <2>4
    <2>. QED BY <2>3, <2>4
  <1>. HIDE DEF c
  <1>4. Honest(c, tokens', status)
    BY <1>1, <1>2 DEF Honest, TokensKept, Pairs
  <1>. QED BY <1>2, <1>3, <1>4, ServerKeeps

LEMMA LoginWithRoleKeeps ==
    ASSUME AuthInv, NEW h \in Calls, LoginWithRole(h)
    PROVE  AuthInv'
  <1>1. /\ calls[h] # None /\ calls[h].kind = "login"
        /\ UNCHANGED <<status, tokens, clientVars>>
    BY DEF LoginWithRole, Runs
  <1>2. PICK typedRight \in BOOLEAN :
          \E code \in ValidateCredentials(calls[h].user, typedRight) :
            calls' = IF code = 200 THEN [calls EXCEPT ![h].at = "issue"] ELSE Answered(h, code)
    BY DEF LoginWithRole
  <1>3. PICK code \in ValidateCredentials(calls[h].user, typedRight) :
            calls' = IF code = 200 THEN [calls EXCEPT ![h].at = "issue"] ELSE Answered(h, code)
    BY <1>2
  <1>4. Honest(calls[h], tokens, status) /\ TokensKept /\ tokens' \in Seq(Row)
    BY <1>1, SameTokens DEF AuthInv
  <1>5. code \in Nat /\ (code = 200 => status[calls[h].user] = "active")
    BY <1>3 DEF ValidateCredentials, Refusals
  <1>6. CASE code = 200
    BY <1>1, <1>3, <1>4, <1>5, <1>6, GoesOn DEF Honest
  <1>7. CASE code # 200
    BY <1>1, <1>3, <1>4, <1>5, <1>7, AnswerKeeps
  <1>. QED BY <1>6, <1>7

LEMMA FindTokenKeeps ==
    ASSUME AuthInv, NEW h \in Calls, FindToken(h)
    PROVE  AuthInv'
  <1>1. /\ calls[h] # None /\ calls[h].kind \in {"refresh", "logout"}
        /\ UNCHANGED <<status, tokens, clientVars>>
    BY DEF FindToken, Runs
  <1>2. Honest(calls[h], tokens, status) /\ TokensKept /\ tokens' \in Seq(Row)
    BY <1>1, SameTokens DEF AuthInv
  <1>3. CASE Usable(h) /\ calls' = [calls EXCEPT ![h].at = "revoke"]
    <2>1. ~tokens[calls[h].pair].revoked
      BY <1>1, <1>3 DEF Usable
    <2>. QED BY <1>1, <1>2, <1>3, <2>1, GoesOn DEF Honest
  <1>4. CASE calls' = Answered(h, 401)
    BY <1>1, <1>2, <1>4, AnswerKeeps
  <1>. QED BY <1>3, <1>4 DEF FindToken

LEMMA SavedRow ==
    ASSUME NEW S, NEW s \in Seq(S), NEW i \in DOMAIN s, NEW row \in S
    PROVE  [s EXCEPT ![i] = row] \in Seq(S)
  <1>. DEFINE t == [s EXCEPT ![i] = row]
  <1>1. DOMAIN t = 1 .. Len(s) /\ \A j \in 1 .. Len(s) : t[j] \in S
    OBVIOUS
  <1>2. t \in [1 .. Len(s) -> S]
    BY <1>1
  <1>3. Len(s) \in Nat
    OBVIOUS
  <1>. HIDE DEF t
  <1>. QED BY <1>2, <1>3

LEMMA RevokeKeeps ==
    ASSUME AuthInv, NEW h \in Calls, Revoke(h)
    PROVE  AuthInv'
  <1>1. /\ calls[h] # None /\ calls[h].kind \in {"refresh", "logout"} /\ calls[h].at = "revoke"
        /\ tokens' = [tokens EXCEPT ![calls[h].pair].revoked = TRUE]
        /\ UNCHANGED <<status, clientVars>>
    BY DEF Revoke, Runs
  <1>2. Honest(calls[h], tokens, status) /\ tokens \in Seq(Row) /\ calls[h].pair \in Pairs
    BY <1>1 DEF AuthInv, Honest, Pairs
  <1>3. tokens' \in Seq(Row) /\ TokensKept
    <2>. DEFINE p == calls[h].pair
                row == [tokens[p] EXCEPT !.revoked = TRUE]
    <2>1. row \in Row /\ row.revoked
      <3>1. tokens[p] \in Row
        BY <1>2 DEF Pairs
      <3>. QED BY <3>1 DEF Row
    <2>2. p \in DOMAIN tokens /\ tokens' = [tokens EXCEPT ![p] = row]
      BY <1>1, <1>2 DEF Pairs
    <2>. HIDE DEF p, row
    <2>3. tokens' \in Seq(Row)
      BY <1>2, <2>1, <2>2, SavedRow
    <2>4. TokensKept
      BY <1>2, <2>1, <2>2 DEF TokensKept, Pairs
    <2>. QED BY <2>3, <2>4
  <1>4. CASE calls[h].kind = "logout"
    BY <1>1, <1>2, <1>3, <1>4, AnswerKeeps, ZenonT(30) DEF Revoke
  <1>5. CASE calls[h].kind # "logout"
    BY <1>1, <1>2, <1>3, <1>5, GoesOn DEF Revoke, Honest
  <1>. QED BY <1>4, <1>5

LEMMA CheckAccountKeeps ==
    ASSUME AuthInv, NEW h \in Calls, CheckAccount(h)
    PROVE  AuthInv'
  <1>1. /\ calls[h] # None /\ calls[h].kind = "refresh" /\ calls[h].at = "account"
        /\ UNCHANGED <<status, tokens, clientVars>>
    BY DEF CheckAccount, Runs
  <1>2. Honest(calls[h], tokens, status) /\ TokensKept /\ tokens' \in Seq(Row)
    BY <1>1, SameTokens DEF AuthInv
  <1>3. CASE calls' = Answered(h, 403)
    BY <1>1, <1>2, <1>3, AnswerKeeps
  <1>4. CASE status[calls[h].user] = "active" /\ calls' = [calls EXCEPT ![h].at = "issue"]
    BY <1>1, <1>2, <1>4, GoesOn DEF Honest
  <1>. QED BY <1>3, <1>4 DEF CheckAccount

LEMMA IssueTokensKeeps ==
    ASSUME AuthInv, NEW h \in Calls, IssueTokens(h)
    PROVE  AuthInv'
  <1>1. PICK code \in Nat : code = 200
    OBVIOUS
  <1>. DEFINE row == [account |-> calls[h].user, revoked |-> FALSE, expired |-> FALSE,
                      stale |-> FALSE]
              d == [calls[h] EXCEPT !.at = "done", !.answer = code]
              c == [d EXCEPT !.pair = Len(tokens')]
  <1>2. /\ calls[h] # None /\ calls[h].at = "issue" /\ tokens' = Append(tokens, row)
        /\ UNCHANGED <<status, clientVars>>
    BY DEF IssueTokens, Runs
  <1>3. /\ Honest(calls[h], tokens, status) /\ tokens \in Seq(Row) /\ calls[h] \in Request
    BY <1>2 DEF AuthInv
  <1>4. row \in Row
    BY <1>3 DEF Row, Request
  <1>. HIDE DEF row
  <1>5. /\ tokens' \in Seq(Row) /\ TokensKept /\ Len(tokens') \in Nat
        /\ Len(tokens') \in DOMAIN tokens'
    <2>1. Len(tokens) \in Nat /\ DOMAIN tokens = 1 .. Len(tokens)
      BY <1>3
    <2>2. /\ tokens' \in Seq(Row) /\ Len(tokens') = Len(tokens) + 1
          /\ DOMAIN tokens' = 1 .. Len(tokens')
          /\ \A i \in 1 .. Len(tokens) : tokens'[i] = tokens[i]
      BY <1>2, <1>3, <1>4
    <2>3. TokensKept
      BY <2>1, <2>2 DEF TokensKept, Pairs
    <2>. QED BY <2>1, <2>2, <2>3
  <1>6. d \in Request /\ d.at = "done" /\ d.kind = calls[h].kind /\ d.user = calls[h].user
          /\ d.spent = calls[h].spent /\ d.barred = calls[h].barred
    BY <1>3, Finished
  <1>7. \/ task.call = h /\ calls' = [calls EXCEPT ![h] = c]
        \/ task.call # h /\ calls' = [calls EXCEPT ![h] = None]
    <2>1. calls \in [Calls -> Request \cup {None}] /\ d # None
      BY <1>6, NoneAssumption DEF AuthInv, NoneAssumption
    <2>2. calls' = [Answered(h, code) EXCEPT ![h] =
                       IF @ = None THEN @ ELSE [@ EXCEPT !.pair = Len(tokens')]]
      BY <1>1 DEF IssueTokens
    <2>3. Answered(h, code) = [calls EXCEPT ![h] = IF task.call = h THEN d ELSE None]
      BY Zenon DEF Answered
    <2>. HIDE DEF d
    <2>4. CASE task.call = h
      BY <2>1, <2>2, <2>4, <2>3
    <2>5. CASE task.call # h
      BY <2>1, <2>2, <2>5, <2>3
    <2>. QED BY <2>4, <2>5
  <1>. HIDE DEF d
  <1>8. /\ c \in Request /\ c.kind = calls[h].kind /\ c.pair = Len(tokens')
        /\ c.spent = calls[h].spent /\ c.barred = calls[h].barred /\ c.user = calls[h].user
        /\ c.at = "done"
    BY <1>5, <1>6 DEF Request
  <1>. HIDE DEF c
  <1>9. Honest(c, tokens', status)
    BY <1>2, <1>3, <1>5, <1>8, NoneAssumption DEF Honest, NoneAssumption
  <1>. QED BY <1>2, <1>5, <1>7, <1>8, <1>9, ServerKeeps

LEMMA ServerStepKeeps ==
    ASSUME AuthInv, ServerStep
    PROVE  AuthInv'
  <1>1. PICK h \in Calls : \/ LoginWithRole(h) \/ FindToken(h) \/ Revoke(h) \/ CheckAccount(h)
                           \/ IssueTokens(h) \/ Me(h) \/ StatementFails(h)
    BY DEF ServerStep
  <1>2. CASE Me(h)
    <2>1. /\ calls[h] # None /\ calls[h].kind = "me" /\ UNCHANGED <<status, tokens, clientVars>>
          /\ calls' = Answered(h, 200) \/ calls' = Answered(h, 401)
      BY <1>2 DEF Me, Runs
    <2>2. TokensKept /\ tokens' \in Seq(Row)
      BY <2>1, SameTokens DEF AuthInv
    <2>. QED BY <2>1, <2>2, AnswerKeeps
  <1>3. CASE StatementFails(h)
    <2>1. /\ calls[h] # None /\ UNCHANGED <<status, tokens, clientVars>>
          /\ calls' = Answered(h, 500)
      BY <1>3 DEF StatementFails
    <2>2. TokensKept /\ tokens' \in Seq(Row)
      BY <2>1, SameTokens DEF AuthInv
    <2>. QED BY <2>1, <2>2, AnswerKeeps
  <1>. QED BY <1>1, <1>2, <1>3, LoginWithRoleKeeps, FindTokenKeeps, RevokeKeeps,
              CheckAccountKeeps, IssueTokensKeeps

-----------------------------------------------------------------------------
(* The client: a request is sent or taken away, an operation begins or ends. *)

LEMMA ClientKeeps ==
    ASSUME AuthInv, UNCHANGED <<status, tokens>>,
           calls' \in [Calls -> Request \cup {None}],
           \A g \in Calls : calls'[g] # None =>
               calls'[g] = calls[g] \/ Honest(calls'[g], tokens, status),
           store' \in Pairs \cup {None}, accessKey' \in Pairs \cup {None},
           task' \in Task, task'.pair \in Pairs \cup {None}, Linked(task', calls')
    PROVE  AuthInv'
  <1>1. ASSUME NEW g \in Calls, calls'[g] # None PROVE Honest(calls'[g], tokens, status)
    <2>1. CASE calls'[g] = calls[g]
      <3>1. PICK c : c = calls[g]
        OBVIOUS
      <3>2. Honest(c, tokens, status) /\ calls'[g] = c
        BY <1>1, <2>1, <3>1 DEF AuthInv
      <3>. QED BY <3>2
    <2>. QED BY <1>1, <2>1
  <1>2. \A g \in Calls : calls'[g] # None => Honest(calls'[g], tokens', status')
    BY <1>1
  <1>. QED BY <1>2 DEF AuthInv, Pairs

LEMMA CollectedType ==
    ASSUME AuthInv
    PROVE  /\ Collected \in [Calls -> Request \cup {None}]
           /\ \A g \in Calls : Collected[g] \in {calls[g], None}
  BY DEF AuthInv, Collected

LEMMA IdleTask == Idle \in Task /\ Idle.pair = None /\ Idle.call = None
  BY DEF Idle, Task

\* The operation ends, and with it the wait for its request.
LEMMA EndKeeps ==
    ASSUME AuthInv, UNCHANGED <<status, tokens>>, task' = Idle, calls' \in {calls, Collected},
           store' \in Pairs \cup {None}, accessKey' \in Pairs \cup {None}
    PROVE  AuthInv'
  <1>1. Linked(task', calls')
    BY IdleTask DEF Linked
  <1>2. /\ calls' \in [Calls -> Request \cup {None}]
        /\ \A g \in Calls : calls'[g] # None => calls'[g] = calls[g]
    BY CollectedType DEF AuthInv
  <1>. QED BY <1>1, <1>2, IdleTask, ClientKeeps

LEMMA TimeOutKeeps == ASSUME AuthInv, TimeOut PROVE AuthInv'
  <1>1. /\ task' = [task EXCEPT !.call = None] /\ task \in Task
        /\ UNCHANGED <<status, tokens, store, accessKey>>
    BY DEF TimeOut, AuthInv
  <1>2. task' \in Task /\ task'.call = None /\ task'.pair = task.pair
    BY <1>1 DEF Task
  <1>3. /\ calls' \in [Calls -> Request \cup {None}]
        /\ \A g \in Calls : calls'[g] # None => calls'[g] = calls[g]
    <2>1. CASE calls' = Collected
      BY <2>1, CollectedType
    <2>2. CASE calls' = [calls EXCEPT ![task.call] = IF @.at = "done" THEN None ELSE @]
      BY <2>2 DEF AuthInv
    <2>. QED BY <2>1, <2>2 DEF TimeOut
  <1>4. Linked(task', calls')
    BY <1>2 DEF Linked
  <1>5. /\ store' \in Pairs \cup {None} /\ accessKey' \in Pairs \cup {None}
        /\ task'.pair \in Pairs \cup {None}
    BY <1>1, <1>2 DEF AuthInv
  <1>. QED BY <1>1, <1>2, <1>3, <1>4, <1>5, ClientKeeps

\* A new request in the place of h, for an operation that now waits for it.
LEMMA NewRequestKeeps ==
    ASSUME AuthInv, NEW h \in Calls, NEW c \in Request, Honest(c, tokens, status),
           calls' = [calls EXCEPT ![h] = c],
           task' \in Task, task'.call = h, task'.pair \in Pairs \cup {None},
           task'.step \in {c.kind, "profile"},
           UNCHANGED <<status, tokens, store>>, accessKey' \in Pairs \cup {None}
    PROVE  AuthInv'
  <1>1. calls' \in [Calls -> Request \cup {None}] /\ calls'[h] = c /\ c # None
    BY NoneAssumption DEF AuthInv, NoneAssumption
  <1>2. \A g \in Calls : calls'[g] = calls[g] \/ Honest(calls'[g], tokens, status)
    <2>1. \A g \in Calls \ {h} : calls'[g] = calls[g]
      BY DEF AuthInv
    <2>2. Honest(calls'[h], tokens, status)
      BY <1>1
    <2>. QED BY <2>1, <2>2
  <1>3. Linked(task', calls')
    BY <1>1 DEF Linked
  <1>4. store' \in Pairs \cup {None}
    BY DEF AuthInv
  <1>. QED BY <1>1, <1>2, <1>3, <1>4, ClientKeeps

LEMMA SendKeeps ==
    ASSUME AuthInv, NEW h \in Calls, NEW op \in {"restore", "login", "logout"},
           NEW kind \in {"login", "refresh", "logout", "me"}, NEW user \in Users,
           NEW pair \in Pairs \cup {None},
           kind = "login" <=> pair = None, Send(h, op, kind, user, pair),
           UNCHANGED <<status, tokens, store, accessKey>>
    PROVE  AuthInv'
  <1>. DEFINE c == [kind |-> kind, at |-> "start", user |-> user, pair |-> pair,
                    access |-> IF kind = "logout" THEN accessKey ELSE pair, answer |-> None,
                    spent |-> pair # None /\ tokens[pair].revoked,
                    barred |-> status[user] # "active"]
  <1>1. /\ tokens \in Seq(Row) /\ accessKey \in Pairs \cup {None} /\ Pairs \subseteq Nat
    BY DEF AuthInv, Pairs
  <1>2. pair # None => tokens[pair].revoked \in BOOLEAN
    <2>1. pair # None => tokens[pair] \in Row
      BY <1>1 DEF Pairs
    <2>. QED BY <2>1 DEF Row
  <1>3. c \in Request
    <2>1. ASSUME NEW spent \in BOOLEAN, NEW barred \in BOOLEAN, NEW access \in Nat \cup {None}
          PROVE  [kind |-> kind, at |-> "start", user |-> user, pair |-> pair,
                  access |-> access, answer |-> None, spent |-> spent, barred |-> barred]
                    \in Request
      BY <1>1 DEF Request
    <2>2. /\ (pair # None /\ tokens[pair].revoked) \in BOOLEAN
          /\ (status[user] # "active") \in BOOLEAN
          /\ (IF kind = "logout" THEN accessKey ELSE pair) \in Nat \cup {None}
      BY <1>1, <1>2
    <2>. QED BY <2>1, <2>2
  <1>4. Honest(c, tokens, status)
    BY DEF Honest, Pairs
  <1>5. /\ calls' = [calls EXCEPT ![h] = c]
        /\ task' = [op |-> op, step |-> kind, call |-> h, pair |-> pair]
    BY DEF Send
  <1>6. c.kind = kind
    OBVIOUS
  <1>. HIDE DEF c
  <1>7. task' \in Task /\ task'.call = h /\ task'.pair = pair /\ task'.step = kind
    BY <1>1, <1>5 DEF Task
  <1>. QED BY <1>1, <1>3, <1>4, <1>5, <1>6, <1>7, NewRequestKeeps

LEMMA OwnerIsUser == ASSUME AuthInv, NEW p \in Pairs PROVE Owner(p) \in Users
  <1>1. tokens[p] \in Row
    BY DEF AuthInv, Pairs
  <1>. QED BY <1>1 DEF Owner, Row

LEMMA InitializeKeeps == ASSUME AuthInv, Initialize PROVE AuthInv'
  <1>1. UNCHANGED <<status, tokens, store, accessKey>>
    BY DEF Initialize
  <1>2. store \in Pairs \cup {None} /\ accessKey \in Pairs \cup {None}
    BY DEF AuthInv
  <1>3. CASE task' = Idle /\ UNCHANGED calls
    BY <1>1, <1>2, <1>3, EndKeeps
  <1>4. CASE /\ store # None
             /\ \E h \in Calls : Send(h, "restore", IF tokens[store].stale THEN "refresh" ELSE "me",
                                      Owner(store), store)
    <2>1. PICK h \in Calls :
              Send(h, "restore", IF tokens[store].stale THEN "refresh" ELSE "me", Owner(store), store)
      BY <1>4
    <2>2. Owner(store) \in Users
      BY <1>2, <1>4, OwnerIsUser
    <2>3. PICK kind \in {"refresh", "me"} : Send(h, "restore", kind, Owner(store), store)
      BY <2>1
    <2>4. PICK user \in Users : user = Owner(store)
      BY <2>2
    <2>. QED BY <1>1, <1>2, <1>4, <2>3, <2>4, SendKeeps
  <1>. QED BY <1>3, <1>4 DEF Initialize, Ends

LEMMA LogInKeeps == ASSUME AuthInv, NEW u \in Users, LogIn(u) PROVE AuthInv'
  <1>1. PICK h \in Calls : Send(h, "login", "login", u, None)
    BY DEF LogIn
  <1>. QED BY <1>1, SendKeeps DEF LogIn

LEMMA LogOutKeeps == ASSUME AuthInv, LogOut PROVE AuthInv'
  <1>1. UNCHANGED <<status, tokens, store, accessKey>>
    BY DEF LogOut
  <1>2. store \in Pairs \cup {None} /\ accessKey \in Pairs \cup {None}
    BY DEF AuthInv
  <1>3. CASE task' = Idle /\ UNCHANGED calls
    BY <1>1, <1>2, <1>3, EndKeeps
  <1>4. CASE store # None /\ \E h \in Calls : Send(h, "logout", "logout", Owner(store), store)
    <2>1. PICK user \in Users : user = Owner(store)
      BY <1>2, <1>4, OwnerIsUser
    <2>. QED BY <1>1, <1>2, <1>4, <2>1, SendKeeps
  <1>. QED BY <1>3, <1>4 DEF LogOut, Ends

LEMMA PairCameKeeps == ASSUME AuthInv, PairCame PROVE AuthInv'
  <1>. DEFINE old == calls[task.call]
              pair == old.pair
              c == [kind |-> "me", at |-> "start", user |-> Owner(pair), pair |-> pair,
                    access |-> pair, answer |-> None, spent |-> FALSE,
                    barred |-> status[Owner(pair)] # "active"]
  <1>1. /\ task.step \in {"refresh", "login"} /\ task.call # None
        /\ old.at = "done" /\ old.answer = 200
        /\ accessKey' = pair /\ calls' = [calls EXCEPT ![task.call] = c]
        /\ task' = [task EXCEPT !.step = "profile", !.pair = pair]
        /\ UNCHANGED <<status, tokens, store>>
    BY DEF PairCame, Succeeded
  <1>2. /\ task \in Task /\ task.call \in Calls /\ tokens \in Seq(Row)
        /\ old.kind \in {"refresh", "login"} /\ old # None
    BY <1>1 DEF AuthInv, Task, Linked
  <1>3. pair \in Pairs
    BY <1>1, <1>2 DEF AuthInv, Honest, Pairs
  <1>4. Owner(pair) \in Users /\ pair \in Nat
    <2>1. tokens[pair] \in Row /\ pair \in Nat
      BY <1>2, <1>3 DEF Pairs
    <2>. QED BY <2>1 DEF Owner, Row
  <1>. HIDE DEF old, pair
  <1>5. c \in Request /\ c.kind = "me" /\ Honest(c, tokens, status)
    <2>1. (status[Owner(pair)] # "active") \in BOOLEAN
      OBVIOUS
    <2>. QED BY <1>3, <1>4, <2>1 DEF Request, Honest, Pairs
  <1>. HIDE DEF c
  <1>6. /\ task' \in Task /\ task'.call = task.call /\ task'.pair = pair
        /\ task'.step = "profile"
    BY <1>1, <1>2, <1>4 DEF Task
  <1>. QED BY <1>1, <1>2, <1>3, <1>5, <1>6, NewRequestKeeps

LEMMA ClientStepKeeps == ASSUME AuthInv, ClientStep \/ Crash PROVE AuthInv'
  <1>1. ASSUME /\ UNCHANGED <<status, tokens>> /\ task' = Idle /\ calls' \in {calls, Collected}
               /\ store' \in {store, None, task.pair} /\ accessKey' \in {accessKey, None}
        PROVE  AuthInv'
    <2>1. store' \in Pairs \cup {None} /\ accessKey' \in Pairs \cup {None}
      BY <1>1 DEF AuthInv
    <2>. QED BY <1>1, <2>1, EndKeeps
  <1>2. CASE Restored \/ ProfileCame \/ RestoreFailed \/ LoginFailed \/ LoggedOut \/ Crash
    BY <1>1, <1>2 DEF Restored, ProfileCame, RestoreFailed, LoginFailed, LoggedOut, Crash, Ends,
                      Write
  <1>. QED BY <1>2, InitializeKeeps, PairCameKeeps, TimeOutKeeps DEF ClientStep

-----------------------------------------------------------------------------
(* Accounts and time.                                                      *)

LEMMA ChangeStatusKeeps ==
    ASSUME AuthInv, NEW u \in Users, NEW s \in Status, ChangeStatus(u, s)
    PROVE  AuthInv'
  <1>1. /\ status' = [status EXCEPT ![u] = s] /\ UNCHANGED <<tokens, clientVars>>
        /\ \A h \in Calls : calls'[h] =
              IF calls[h] # None /\ calls[h].user = u /\ s = "active"
              THEN [calls[h] EXCEPT !.barred = FALSE] ELSE calls[h]
        /\ calls' = [h \in Calls |-> calls'[h]]
    BY DEF ChangeStatus
  <1>2. status' \in [Users -> Status \cup {None}]
    BY <1>1 DEF AuthInv
  <1>3. ASSUME NEW h \in Calls
        PROVE  /\ calls[h] = None => calls'[h] = None
               /\ calls[h] # None => /\ calls'[h] \in Request /\ calls'[h].kind = calls[h].kind
                                     /\ Honest(calls'[h], tokens, status')
    <2>1. CASE calls[h] = None
      BY <1>1, <2>1
    <2>2. CASE calls[h] # None
      <3>1. PICK c : c = calls[h]
        OBVIOUS
      <3>2. c \in Request /\ Honest(c, tokens, status) /\ status \in [Users -> Status \cup {None}]
        BY <2>2, <3>1 DEF AuthInv
      <3>3. PICK d : d = calls'[h]
        OBVIOUS
      <3>4. d = IF c.user = u /\ s = "active" THEN [c EXCEPT !.barred = FALSE] ELSE c
        BY <1>1, <2>2, <3>1, <3>3
      <3>5. /\ d \in Request /\ d.kind = c.kind /\ d.at = c.at /\ d.user = c.user
            /\ d.pair = c.pair /\ d.answer = c.answer /\ d.spent = c.spent
            /\ d.barred => c.barred /\ ~(c.user = u /\ s = "active")
        BY <3>2, <3>4 DEF Request
      <3>6. c.user \in Users
        BY <3>2 DEF Request
      <3>7. c.barred /\ ~(c.user = u /\ s = "active") => status'[c.user] # "active"
        BY <1>1, <3>2, <3>6 DEF Honest
      <3>8. Honest(d, tokens, status')
        BY <3>2, <3>5, <3>7 DEF Honest
      <3>. QED BY <2>2, <3>1, <3>3, <3>5, <3>8
    <2>. QED BY <2>1, <2>2
  <1>4. calls' \in [Calls -> Request \cup {None}]
    <2>1. \A h \in Calls : calls'[h] \in Request \cup {None}
      BY <1>3 DEF AuthInv
    <2>. QED BY <1>1, <2>1
  <1>5. Linked(task', calls')
    <2>1. ASSUME task.call # None
          PROVE  /\ calls'[task.call] # None
                 /\ task.step \in {"login", "refresh"} => calls'[task.call].kind = task.step
      <3>1. task.call \in Calls /\ Linked(task, calls)
        BY <2>1 DEF AuthInv, Task
      <3>. QED BY <1>3, <2>1, <3>1, NoneAssumption DEF Linked, NoneAssumption
    <2>. QED BY <1>1, <2>1 DEF Linked, clientVars
  <1>. QED BY <1>1, <1>2, <1>3, <1>4, <1>5 DEF AuthInv, clientVars, Pairs

LEMMA ExpireKeeps == ASSUME AuthInv, NEW t \in Pairs, Expire(t) PROVE AuthInv'
  <1>1. tokens \in Seq(Row) /\ UNCHANGED <<status, calls, clientVars>> /\ tokens[t] \in Row
    BY DEF Expire, AuthInv, Pairs
  <1>2. PICK row \in Row : row.revoked = tokens[t].revoked /\ tokens' = [tokens EXCEPT ![t] = row]
    <2>1. CASE tokens' = [tokens EXCEPT ![t].stale = TRUE]
      BY <1>1, <2>1 DEF Row
    <2>2. CASE tokens' = [tokens EXCEPT ![t].expired = TRUE]
      BY <1>1, <2>2 DEF Row
    <2>. QED BY <2>1, <2>2 DEF Expire
  <1>3. tokens' \in Seq(Row)
    BY <1>1, <1>2, SavedRow DEF Pairs
  <1>4. TokensKept /\ Pairs' = Pairs
    BY <1>1, <1>2 DEF TokensKept, Pairs
  <1>5. ASSUME NEW h \in Calls, calls[h] # None PROVE Honest(calls[h], tokens', status)
    <2>1. PICK c : c = calls[h]
      OBVIOUS
    <2>2. Honest(c, tokens, status)
      BY <1>5, <2>1 DEF AuthInv
    <2>. QED BY <1>4, <2>1, <2>2, HonestKept
  <1>. QED BY <1>1, <1>3, <1>4, <1>5 DEF AuthInv, clientVars

-----------------------------------------------------------------------------

LEMMA InitAuth == Init => AuthInv
  <1>1. SUFFICES ASSUME Init PROVE AuthInv
    OBVIOUS
  <1>2. Linked(task, calls)
    BY <1>1, IdleTask DEF Init, Linked
  <1>. QED BY <1>1, <1>2, IdleTask DEF Init, AuthInv, Status

LEMMA StepAuth == AuthInv /\ [Next]_vars => AuthInv'
  <1>1. SUFFICES ASSUME AuthInv, [Next]_vars PROVE AuthInv'
    OBVIOUS
  <1>2. CASE UNCHANGED vars
    BY <1>1, <1>2 DEF AuthInv, vars, serverVars, clientVars, Pairs
  <1>. QED BY <1>1, <1>2, ServerStepKeeps, ClientStepKeeps, LogInKeeps, LogOutKeeps,
              ChangeStatusKeeps, ExpireKeeps DEF Next

\* However refreshes, logouts and logins overlap, time out and are repeated, a
\* refresh token that was revoked before a request with it was sent gives no pair.
THEOREM SpentStaysSpent == Spec => []SpentGivesNothing
  <1>1. AuthInv => SpentGivesNothing
    BY DEF AuthInv, SpentGivesNothing, Honest
  <1>. QED BY <1>1, InitAuth, StepAuth, PTL DEF Spec

\* No pair is about to be issued to an account that was not active when its
\* request was sent and has not been active since.
THEOREM BarredStaysOut == Spec => []BarredGetNothing
  <1>1. AuthInv => BarredGetNothing
    BY DEF AuthInv, BarredGetNothing, Honest
  <1>. QED BY <1>1, InitAuth, StepAuth, PTL DEF Spec

-----------------------------------------------------------------------------
(* The stored session, and the rows that are left behind.                  *)

\* The row p is good and no request under way is about to revoke it.
Clean(p, cs, ts) ==
    /\ p \in DOMAIN ts /\ ~ts[p].revoked
    /\ \A h \in Calls : cs[h] # None /\ cs[h].kind \in {"refresh", "logout"} /\ cs[h].at # "done"
                          => cs[h].pair # p

\* Requests that may still add a row.
Bringing(cs) ==
    {h \in Calls : cs[h] # None /\ cs[h].kind \in {"login", "refresh"} /\ cs[h].at # "done"}

\* Good rows that no refresh under way has been sent for.
Resting(cs, ts) ==
    {p \in DOMAIN ts :
        /\ ~ts[p].revoked
        /\ \A h \in Bringing(cs) :
             cs[h].kind = "refresh" /\ cs[h].at \in {"start", "revoke"} => cs[h].pair # p}

\* Rows there are, and rows that may come of them or beside them.
RowsAhead(cs, ts) == Cardinality(Resting(cs, ts)) + Cardinality(Bringing(cs))

\* The stored session is worked on by its own operation only: in between its row is
\* good, unless the process ended in the middle of one. A login leaves the row alone;
\* what it takes away is the access token, when its own tokens came.
StoreInv ==
    /\ task # Idle => task.op # None
    /\ (task = Idle \/ task.step = "me" \/ task.op = "login") /\ store \notin {None, stranded} =>
           /\ Clean(store, calls, tokens)
           /\ accessKey = store \/ store = outrun \/ (task # Idle /\ task.step = "profile")
    /\ task.step = "profile" => Clean(task.pair, calls, tokens) /\ accessKey = task.pair
    /\ task.call # None /\ task.step \in {"login", "refresh"} =>
           (calls[task.call].at = "done" /\ calls[task.call].answer = 200 =>
                Clean(calls[task.call].pair, calls, tokens))

\* One row is due to the operation that runs, or to the stored session; every other
\* one to an operation that was lost or to a login over the stored session.
RowsInv ==
    /\ lost \in Nat /\ replaced \in Nat
    /\ IsFiniteSet(Resting(calls, tokens)) /\ IsFiniteSet(Bringing(calls))
    /\ RowsAhead(calls, tokens) <= LeftBehind + 1
    /\ task = Idle /\ store = None => RowsAhead(calls, tokens) <= LeftBehind
    /\ task = Idle \/ task.step \in {"me", "logout"} \/ (task.op = "login" /\ store # None) =>
           store \in Resting(calls, tokens) \cup {None} \/ RowsAhead(calls, tokens) <= LeftBehind
    /\ task.step \in {"me", "logout"} => store # None
    /\ task.call # None /\ task.step = "logout" =>
           /\ calls[task.call].kind = "logout"
           /\ IF calls[task.call].at # "done" THEN calls[task.call].pair = store
              ELSE calls[task.call].answer = 200 => RowsAhead(calls, tokens) <= LeftBehind

LEMMA LeftType == ASSUME RowsInv PROVE LeftBehind \in Nat
  BY DEF RowsInv, LeftBehind

\* The operation counts as long as it is the same, and no longer when it has ended.
LEMMA LeftAlike ==
    ASSUME task'.op = task.op, UNCHANGED <<lost, replaced, store>>
    PROVE  LeftBehind' = LeftBehind
  BY DEF LeftBehind

\* Changes that none of the three see.
SameRows(ts, us) ==
    DOMAIN us = DOMAIN ts /\ \A p \in DOMAIN ts : us[p].revoked = ts[p].revoked

Alike(c, d) ==
    \/ c = d
    \/ /\ c # None /\ d # None
       /\ c.kind = d.kind /\ c.at = d.at /\ c.pair = d.pair /\ c.answer = d.answer

Over(c) == c = None \/ c.at = "done"

LEMMA CleanKept ==
    ASSUME NEW cs, NEW ds, NEW ts, NEW us, NEW p, SameRows(ts, us), Clean(p, cs, ts),
           \A h \in Calls : Alike(cs[h], ds[h]) \/ Over(ds[h]) \/ ds[h].kind \in {"me", "login"}
    PROVE  Clean(p, ds, us)
  BY DEF Clean, SameRows, Alike, Over

LEMMA RowsKept ==
    ASSUME NEW cs, NEW ds, NEW ts, NEW us, SameRows(ts, us),
           \A h \in Calls : \/ Alike(cs[h], ds[h])
                            \/ /\ Over(cs[h]) \/ cs[h].kind \in {"me", "logout"}
                               /\ Over(ds[h]) \/ ds[h].kind \in {"me", "logout"}
    PROVE  Bringing(ds) = Bringing(cs) /\ Resting(ds, us) = Resting(cs, ts)
  <1>1. Bringing(ds) = Bringing(cs)
    BY DEF Bringing, Alike, Over
  <1>2. ASSUME NEW h \in Bringing(cs) PROVE Alike(cs[h], ds[h]) /\ cs[h] # None
    BY <1>2 DEF Bringing, Over
  <1>3. ASSUME NEW p PROVE p \in Resting(ds, us) <=> p \in Resting(cs, ts)
    BY <1>1, <1>2 DEF Resting, SameRows, Alike
  <1>. QED BY <1>1, <1>3

\* A request that brings nothing any more lets its row rest.
LEMMA OneGone ==
    ASSUME NEW cs, NEW ds, NEW ts, NEW h \in Bringing(cs), Over(ds[h]),
           \A g \in Calls \ {h} : ds[g] = cs[g]
    PROVE  /\ Bringing(ds) = Bringing(cs) \ {h}
           /\ Resting(cs, ts) \subseteq Resting(ds, ts)
           /\ Resting(ds, ts) \subseteq Resting(cs, ts) \cup {cs[h].pair}
  <1>1. Bringing(ds) = Bringing(cs) \ {h}
    BY DEF Bringing, Over
  <1>2. \A g \in Bringing(ds) : ds[g] = cs[g]
    BY <1>1 DEF Bringing
  <1>. QED BY <1>1, <1>2 DEF Resting

\* A new one wakes at most its own.
LEMMA OneMore ==
    ASSUME NEW cs, NEW ds, NEW ts, NEW h \in Calls, cs[h] = None, ds[h] # None, ds[h].at = "start",
           ds[h].kind \in {"login", "refresh"}, \A g \in Calls \ {h} : ds[g] = cs[g]
    PROVE  /\ Bringing(ds) = Bringing(cs) \cup {h}
           /\ Resting(ds, ts) = IF ds[h].kind = "login" THEN Resting(cs, ts)
                                ELSE Resting(cs, ts) \ {ds[h].pair}
  <1>1. Bringing(ds) = Bringing(cs) \cup {h} /\ h \notin Bringing(cs)
    BY DEF Bringing
  <1>2. \A g \in Bringing(cs) : ds[g] = cs[g]
    BY <1>1 DEF Bringing
  <1>3. ASSUME NEW p
        PROVE  p \in Resting(ds, ts) <=>
                   p \in Resting(cs, ts) /\ (ds[h].kind = "login" \/ p # ds[h].pair)
    BY <1>1, <1>2 DEF Resting
  <1>. QED BY <1>1, <1>3

LEMMA OneElementMore ==
    ASSUME NEW S, NEW x, IsFiniteSet(S)
    PROVE  IsFiniteSet(S \cup {x}) /\ Cardinality(S \cup {x}) <= Cardinality(S) + 1
  <1>1. Cardinality(S) \in Nat
    BY FS_CardinalityType
  <1>2. /\ IsFiniteSet(S \cup {x})
        /\ Cardinality(S \cup {x}) = IF x \in S THEN Cardinality(S) ELSE Cardinality(S) + 1
    BY FS_AddElement
  <1>. QED BY <1>1, <1>2

\* A row in place of a request, a request in place of a row, one of them gone.
LEMMA Swapped ==
    ASSUME NEW L, NEW B, NEW M, NEW h \in B, NEW p, IsFiniteSet(L), IsFiniteSet(B),
           M \subseteq L \cup {p}
    PROVE  /\ IsFiniteSet(M) /\ IsFiniteSet(B \ {h})
           /\ Cardinality(M) + Cardinality(B \ {h}) <= Cardinality(L) + Cardinality(B)
  <1>1. IsFiniteSet(L \cup {p}) /\ Cardinality(L \cup {p}) <= Cardinality(L) + 1
    BY OneElementMore
  <1>2. IsFiniteSet(M) /\ Cardinality(M) <= Cardinality(L \cup {p})
    BY <1>1, FS_Subset
  <1>3. IsFiniteSet(B \ {h}) /\ Cardinality(B \ {h}) = Cardinality(B) - 1
    BY FS_RemoveElement
  <1>. QED BY <1>1, <1>2, <1>3, FS_CardinalityType

LEMMA Sent ==
    ASSUME NEW L, NEW B, NEW h, NEW p, IsFiniteSet(L), IsFiniteSet(B)
    PROVE  /\ IsFiniteSet(L \ {p}) /\ IsFiniteSet(B \cup {h})
           /\ Cardinality(L \ {p}) + Cardinality(B \cup {h}) <=
                  Cardinality(L) + Cardinality(B) + IF p \in L THEN 0 ELSE 1
  <1>1. IsFiniteSet(B \cup {h}) /\ Cardinality(B \cup {h}) <= Cardinality(B) + 1
    BY OneElementMore
  <1>2. /\ IsFiniteSet(L \ {p})
        /\ Cardinality(L \ {p}) = IF p \in L THEN Cardinality(L) - 1 ELSE Cardinality(L)
    BY FS_RemoveElement
  <1>. QED BY <1>1, <1>2, FS_CardinalityType

\* What a statement of the server does, of the request h.
Stays(h) == calls'[h] # None /\ calls'[h].kind = calls[h].kind /\ calls'[h].pair = calls[h].pair

Closes(h) == calls'[h] = None \/ (calls'[h] # None /\ calls'[h].at = "done" /\ calls'[h].kind = calls[h].kind)

Advanced(h) ==
    /\ UNCHANGED tokens /\ Stays(h)
    /\ \/ calls[h].kind \in {"refresh", "logout"} /\ calls[h].at = "start" /\ calls'[h].at = "revoke"
       \/ calls[h].kind = "login" /\ calls'[h].at = "issue"
       \/ calls[h].kind = "refresh" /\ calls[h].at = "account" /\ calls'[h].at = "issue"

Declined(h) ==
    /\ UNCHANGED tokens /\ Closes(h)
    /\ calls'[h] # None /\ calls'[h].answer = 200 => calls[h].kind = "me"

Revoked(h) ==
    /\ calls[h].kind \in {"refresh", "logout"} /\ calls[h].at = "revoke"
    /\ tokens' = [tokens EXCEPT ![calls[h].pair].revoked = TRUE]
    /\ IF calls[h].kind = "logout" THEN Closes(h) ELSE Stays(h) /\ calls'[h].at = "account"

Issued(h) ==
    /\ calls[h].kind \in {"login", "refresh"} /\ calls[h].at = "issue"
    /\ \E row \in Row : ~row.revoked /\ tokens' = Append(tokens, row)
    /\ Closes(h) /\ (calls'[h] # None => calls'[h].pair = Len(tokens) + 1)

Served(h) ==
    /\ calls[h] # None /\ calls[h].at # "done" /\ UNCHANGED clientVars
    /\ \A g \in Calls \ {h} : calls'[g] = calls[g]
    /\ Advanced(h) \/ Declined(h) \/ Revoked(h) \/ Issued(h)

LEMMA AnsweredEnds ==
    ASSUME AuthInv, NEW h \in Calls, calls[h] # None, NEW code \in Nat, calls' = Answered(h, code)
    PROVE  /\ \A g \in Calls \ {h} : calls'[g] = calls[g]
           /\ Closes(h) /\ (calls'[h] # None => calls'[h].answer = code)
  <1>. DEFINE c == [calls[h] EXCEPT !.at = "done", !.answer = code]
  <1>1. calls[h] \in Request /\ calls \in [Calls -> Request \cup {None}]
    BY DEF AuthInv
  <1>2. c \in Request /\ c.at = "done" /\ c.answer = code /\ c.kind = calls[h].kind
    BY <1>1, Finished
  <1>3. calls' = [calls EXCEPT ![h] = IF task.call = h THEN c ELSE None]
    BY Zenon DEF Answered
  <1>. HIDE DEF c
  <1>4. calls'[h] \in {c, None} /\ \A g \in Calls \ {h} : calls'[g] = calls[g]
    BY <1>1, <1>3
  <1>. QED BY <1>2, <1>4, NoneAssumption DEF Closes, NoneAssumption

LEMMA AdvancedStays ==
    ASSUME AuthInv, NEW h \in Calls, calls[h] # None, NEW at \in {"revoke", "account", "issue"},
           calls' = [calls EXCEPT ![h].at = at]
    PROVE  /\ \A g \in Calls \ {h} : calls'[g] = calls[g]
           /\ Stays(h) /\ calls'[h].at = at
  <1>. DEFINE c == [calls[h] EXCEPT !.at = at]
  <1>1. calls[h] \in Request /\ calls \in [Calls -> Request \cup {None}]
    BY DEF AuthInv
  <1>2. c \in Request /\ c.at = at /\ c.kind = calls[h].kind /\ c.pair = calls[h].pair
    BY <1>1 DEF Request
  <1>3. calls' = [calls EXCEPT ![h] = c]
    BY <1>1
  <1>. HIDE DEF c
  <1>. QED BY <1>1, <1>2, <1>3, NoneAssumption DEF Stays, NoneAssumption

LEMMA IssueIssues ==
    ASSUME AuthInv, NEW h \in Calls, IssueTokens(h)
    PROVE  Issued(h) /\ \A g \in Calls \ {h} : calls'[g] = calls[g]
  <1>1. PICK code \in Nat : code = 200
    OBVIOUS
  <1>. DEFINE row == [account |-> calls[h].user, revoked |-> FALSE, expired |-> FALSE,
                      stale |-> FALSE]
              d == [calls[h] EXCEPT !.at = "done", !.answer = code]
              c == [d EXCEPT !.pair = Len(tokens')]
  <1>2. /\ calls[h] # None /\ calls[h].kind \in {"login", "refresh"} /\ calls[h].at = "issue"
        /\ tokens' = Append(tokens, row)
    BY DEF IssueTokens, Runs
  <1>3. /\ tokens \in Seq(Row) /\ calls[h] \in Request /\ calls \in [Calls -> Request \cup {None}]
    BY <1>2 DEF AuthInv
  <1>4. row \in Row /\ ~row.revoked
    BY <1>3 DEF Row, Request
  <1>. HIDE DEF row
  <1>5. Len(tokens') = Len(tokens) + 1 /\ Len(tokens') \in Nat
    BY <1>2, <1>3, <1>4
  <1>6. d \in Request /\ d.at = "done" /\ d.kind = calls[h].kind
    BY <1>3, Finished
  <1>7. \/ calls' = [calls EXCEPT ![h] = c]
        \/ calls' = [calls EXCEPT ![h] = None]
    <2>1. d # None
      BY <1>6, NoneAssumption DEF NoneAssumption
    <2>2. calls' = [Answered(h, code) EXCEPT ![h] =
                       IF @ = None THEN @ ELSE [@ EXCEPT !.pair = Len(tokens')]]
      BY <1>1 DEF IssueTokens
    <2>3. Answered(h, code) = [calls EXCEPT ![h] = IF task.call = h THEN d ELSE None]
      BY Zenon DEF Answered
    <2>. HIDE DEF d
    <2>4. CASE task.call = h
      BY <1>3, <2>1, <2>2, <2>4, <2>3
    <2>5. CASE task.call # h
      BY <1>3, <2>1, <2>2, <2>5, <2>3
    <2>. QED BY <2>4, <2>5
  <1>. HIDE DEF d
  <1>8. c \in Request /\ c.at = "done" /\ c.kind = calls[h].kind /\ c.pair = Len(tokens) + 1
    BY <1>5, <1>6 DEF Request
  <1>. HIDE DEF c
  <1>9. \A g \in Calls \ {h} : calls'[g] = calls[g]
    BY <1>3, <1>7
  <1>10. calls'[h] \in {c, None} /\ c # None
    BY <1>3, <1>7, <1>8, NoneAssumption DEF NoneAssumption
  <1>. QED BY <1>2, <1>4, <1>8, <1>9, <1>10 DEF Issued, Closes

LEMMA ServerServes == ASSUME AuthInv, ServerStep PROVE \E h \in Calls : Served(h)
  <1>1. PICK h \in Calls : \/ LoginWithRole(h) \/ FindToken(h) \/ Revoke(h) \/ CheckAccount(h)
                           \/ IssueTokens(h) \/ Me(h) \/ StatementFails(h)
    BY DEF ServerStep
  <1>2. /\ calls[h] # None /\ calls[h].at # "done" /\ UNCHANGED clientVars
        /\ calls[h] \in Request /\ Honest(calls[h], tokens, status)
    BY <1>1 DEF AuthInv, LoginWithRole, FindToken, Revoke, CheckAccount, IssueTokens, Me,
                StatementFails, Runs
  <1>3. CASE LoginWithRole(h)
    <2>1. UNCHANGED tokens /\ calls[h].kind = "login"
      BY <1>3 DEF LoginWithRole, Runs
    <2>2. PICK typedRight \in BOOLEAN :
            \E code \in ValidateCredentials(calls[h].user, typedRight) :
              calls' = IF code = 200 THEN [calls EXCEPT ![h].at = "issue"] ELSE Answered(h, code)
      BY <1>3 DEF LoginWithRole
    <2>3. PICK code \in ValidateCredentials(calls[h].user, typedRight) :
              calls' = IF code = 200 THEN [calls EXCEPT ![h].at = "issue"] ELSE Answered(h, code)
      BY <2>2
    <2>4. code \in Nat
      BY <2>3 DEF ValidateCredentials, Refusals
    <2>5. CASE code = 200
      BY <1>2, <2>1, <2>3, <2>5, AdvancedStays DEF Served, Advanced
    <2>6. CASE code # 200
      BY <1>2, <2>1, <2>3, <2>4, <2>6, AnsweredEnds DEF Served, Declined
    <2>. QED BY <2>5, <2>6
  <1>4. CASE FindToken(h)
    <2>1. UNCHANGED tokens /\ calls[h].kind \in {"refresh", "logout"} /\ calls[h].at = "start"
      BY <1>4 DEF FindToken, Runs
    <2>2. CASE calls' = [calls EXCEPT ![h].at = "revoke"]
      BY <1>2, <2>1, <2>2, AdvancedStays DEF Served, Advanced
    <2>3. CASE calls' = Answered(h, 401)
      BY <1>2, <2>1, <2>3, AnsweredEnds DEF Served, Declined
    <2>. QED BY <1>4, <2>2, <2>3 DEF FindToken
  <1>5. CASE Revoke(h)
    <2>1. /\ calls[h].kind \in {"refresh", "logout"} /\ calls[h].at = "revoke"
          /\ tokens' = [tokens EXCEPT ![calls[h].pair].revoked = TRUE]
      BY <1>5 DEF Revoke, Runs
    <2>2. CASE calls[h].kind = "logout"
      BY <1>2, <1>5, <2>1, <2>2, AnsweredEnds, ZenonT(30) DEF Revoke, Served, Revoked
    <2>3. CASE calls[h].kind # "logout"
      BY <1>2, <1>5, <2>1, <2>3, AdvancedStays DEF Revoke, Served, Revoked
    <2>. QED BY <2>2, <2>3
  <1>6. CASE CheckAccount(h)
    <2>1. UNCHANGED tokens /\ calls[h].kind = "refresh" /\ calls[h].at = "account"
      BY <1>6 DEF CheckAccount, Runs
    <2>2. CASE calls' = [calls EXCEPT ![h].at = "issue"]
      BY <1>2, <2>1, <2>2, AdvancedStays DEF Served, Advanced
    <2>3. CASE calls' = Answered(h, 403)
      BY <1>2, <2>1, <2>3, AnsweredEnds DEF Served, Declined
    <2>. QED BY <1>6, <2>2, <2>3 DEF CheckAccount
  <1>7. CASE IssueTokens(h)
    BY <1>2, <1>7, IssueIssues DEF Served
  <1>8. CASE Me(h)
    <2>1. UNCHANGED tokens /\ calls[h].kind = "me"
      BY <1>8 DEF Me, Runs
    <2>2. PICK code \in {200, 401} : calls' = Answered(h, code)
      BY <1>8 DEF Me
    <2>. QED BY <1>2, <2>1, <2>2, AnsweredEnds DEF Served, Declined
  <1>9. CASE StatementFails(h)
    BY <1>2, <1>9, AnsweredEnds DEF StatementFails, Served, Declined
  <1>. QED BY <1>1, <1>3, <1>4, <1>5, <1>6, <1>7, <1>8, <1>9

LEMMA RowAdded ==
    ASSUME AuthInv, NEW row \in Row, ~row.revoked, tokens' = Append(tokens, row)
    PROVE  /\ Len(tokens) \in Nat /\ DOMAIN tokens = 1 .. Len(tokens)
           /\ DOMAIN tokens' = 1 .. Len(tokens) + 1
           /\ \A p \in DOMAIN tokens : tokens'[p] = tokens[p]
           /\ ~tokens'[Len(tokens) + 1].revoked
  <1>1. tokens \in Seq(Row)
    BY DEF AuthInv
  <1>. QED BY <1>1

LEMMA RowRevoked ==
    ASSUME AuthInv, NEW q, tokens' = [tokens EXCEPT ![q].revoked = TRUE]
    PROVE  /\ DOMAIN tokens' = DOMAIN tokens
           /\ \A p \in DOMAIN tokens : tokens'[p].revoked <=> tokens[p].revoked \/ p = q
  <1>1. ASSUME NEW p \in DOMAIN tokens PROVE tokens[p] \in Row
    BY DEF AuthInv
  <1>2. ASSUME NEW p \in DOMAIN tokens
        PROVE  tokens'[p] = IF p = q THEN [tokens[p] EXCEPT !.revoked = TRUE] ELSE tokens[p]
    OBVIOUS
  <1>3. ASSUME NEW p \in DOMAIN tokens PROVE tokens'[p].revoked <=> tokens[p].revoked \/ p = q
    BY <1>1, <1>2 DEF Row
  <1>. QED BY <1>3

\* Only a refresh or a logout of its own revokes a row.
LEMMA ServedClean ==
    ASSUME AuthInv, NEW h \in Calls, Served(h), NEW p, Clean(p, calls, tokens)
    PROVE  Clean(p, calls', tokens')
  <1>1. p \in DOMAIN tokens' /\ ~tokens'[p].revoked
    <2>1. CASE UNCHANGED tokens
      BY <2>1 DEF Clean
    <2>2. CASE Revoked(h)
      <3>1. calls[h].pair # p
        BY <2>2 DEF Served, Revoked, Clean
      <3>. QED BY <2>2, <3>1, RowRevoked DEF Revoked, Clean
    <2>3. CASE Issued(h)
      BY <2>3, RowAdded DEF Issued, Clean
    <2>. QED BY <2>1, <2>2, <2>3 DEF Served, Advanced, Declined
  <1>2. ASSUME NEW g \in Calls, calls'[g] # None, calls'[g].kind \in {"refresh", "logout"},
               calls'[g].at # "done"
        PROVE  calls'[g].pair # p
    BY <1>2 DEF Served, Advanced, Declined, Revoked, Issued, Stays, Closes, Clean
  <1>. QED BY <1>1, <1>2 DEF Clean

\* No request knows of a row before it is there.
LEMMA IssuedClean ==
    ASSUME AuthInv, NEW h \in Calls, Served(h), Issued(h), calls'[h] # None
    PROVE  Clean(calls'[h].pair, calls', tokens')
  <1>1. PICK row \in Row : ~row.revoked /\ tokens' = Append(tokens, row)
    BY DEF Issued
  <1>2. calls'[h].pair = Len(tokens) + 1 /\ calls'[h].at = "done"
    BY DEF Issued, Closes
  <1>3. calls'[h].pair \in DOMAIN tokens' /\ ~tokens'[calls'[h].pair].revoked
    BY <1>1, <1>2, RowAdded
  <1>4. ASSUME NEW g \in Calls, calls'[g] # None, calls'[g].at # "done"
        PROVE  calls'[g].pair # calls'[h].pair
    <2>1. g # h /\ calls'[g] = calls[g]
      BY <1>2, <1>4 DEF Served
    <2>2. calls[g].pair \in DOMAIN tokens \cup {None}
      BY <1>4, <2>1 DEF AuthInv, Honest
    <2>. QED BY <1>1, <1>2, <2>1, <2>2, RowAdded, NoneAssumption DEF NoneAssumption
  <1>. QED BY <1>3, <1>4 DEF Clean

CountsAsBefore ==
    /\ IsFiniteSet(Resting(calls, tokens)') /\ IsFiniteSet(Bringing(calls)')
    /\ RowsAhead(calls, tokens)' <= RowsAhead(calls, tokens)

CountsLess ==
    /\ IsFiniteSet(Resting(calls, tokens)') /\ IsFiniteSet(Bringing(calls)')
    /\ RowsAhead(calls, tokens)' <= RowsAhead(calls, tokens) - 1

\* Serving a request adds no row that was not due, and a row at rest is left so
\* unless a logout takes it away.
LEMMA ServedRows ==
    ASSUME AuthInv, NEW h \in Calls, Served(h),
           IsFiniteSet(Resting(calls, tokens)), IsFiniteSet(Bringing(calls))
    PROVE  \/ CountsAsBefore /\ Resting(calls, tokens) \subseteq Resting(calls, tokens)'
           \/ /\ CountsLess
              /\ calls[h].kind = "logout"
              /\ Resting(calls, tokens)' = Resting(calls, tokens) \ {calls[h].pair}
  <1>. DEFINE L == Resting(calls, tokens)
              B == Bringing(calls)
              M == Resting(calls', tokens')
              C == Bringing(calls')
  <1>1. RowsAhead(calls, tokens) \in Nat
    BY FS_CardinalityType DEF RowsAhead
  <1>2. ASSUME M = L, C = B PROVE CountsAsBefore /\ L \subseteq M
    BY <1>1, <1>2 DEF CountsAsBefore, RowsAhead
  <1>3. ASSUME h \in B, C = B \ {h}, L \subseteq M, NEW p, M \subseteq L \cup {p}
        PROVE  CountsAsBefore /\ L \subseteq M
    BY <1>3, Swapped DEF CountsAsBefore, RowsAhead
  <1>4. ASSUME UNCHANGED tokens, Closes(h) PROVE CountsAsBefore /\ L \subseteq M
    <2>1. CASE h \in B
      <3>1. C = B \ {h} /\ L \subseteq M /\ M \subseteq L \cup {calls[h].pair}
        BY <1>4, <2>1, OneGone DEF Served, Over, Closes
      <3>. QED BY <1>3, <2>1, <3>1
    <2>2. CASE h \notin B
      <3>1. calls[h].kind \in {"me", "logout"}
        BY <2>2 DEF Served, Bringing, AuthInv, Request
      <3>. QED BY <1>2, <1>4, <3>1, RowsKept DEF Served, Closes, SameRows, Alike, Over
    <2>. QED BY <2>1, <2>2
  <1>5. CASE Advanced(h)
    <2>1. C = B
      BY <1>5 DEF Served, Advanced, Stays, Bringing
    <2>2. \A g \in B : /\ calls'[g].kind = calls[g].kind /\ calls'[g].pair = calls[g].pair
                       /\ calls[g].kind = "refresh" =>
                            (calls'[g].at \in {"start", "revoke"} <=> calls[g].at \in {"start", "revoke"})
      BY <1>5 DEF Served, Advanced, Stays, Bringing
    <2>3. M = L
      BY <1>5, <2>1, <2>2 DEF Advanced, Resting
    <2>. QED BY <1>2, <2>1, <2>3
  <1>6. CASE Declined(h)
    BY <1>4, <1>6 DEF Declined
  <1>7. CASE Revoked(h) /\ calls[h].kind = "logout"
    <2>1. C = B /\ \A g \in B : calls'[g] = calls[g]
      BY <1>7 DEF Served, Revoked, Closes, Bringing
    <2>2. ASSUME NEW p PROVE p \in M <=> p \in L /\ p # calls[h].pair
      BY <1>7, <2>1, RowRevoked DEF Revoked, Resting
    <2>3. M = L \ {calls[h].pair}
      BY <2>2
    <2>4. CASE calls[h].pair \in L
      <3>1. IsFiniteSet(M) /\ Cardinality(M) = Cardinality(L) - 1
        BY <2>3, <2>4, FS_RemoveElement
      <3>2. CountsLess
        BY <2>1, <3>1, FS_CardinalityType DEF CountsLess, RowsAhead
      <3>. QED BY <1>7, <2>3, <3>2
    <2>5. CASE calls[h].pair \notin L
      BY <1>2, <2>1, <2>3, <2>5
    <2>. QED BY <2>4, <2>5
  <1>8. CASE Revoked(h) /\ calls[h].kind # "logout"
    <2>1. /\ calls[h].kind = "refresh" /\ calls[h].at = "revoke" /\ h \in B
          /\ calls'[h].at = "account" /\ Stays(h)
      BY <1>8 DEF Served, Revoked, Bringing
    <2>2. C = B /\ \A g \in B \ {h} : calls'[g] = calls[g]
      BY <2>1 DEF Served, Stays, Bringing
    <2>3. ASSUME NEW p PROVE p \in M <=> p \in L
      <3>1. CASE p = calls[h].pair
        BY <1>8, <2>1, <3>1, RowRevoked DEF Revoked, Resting
      <3>2. CASE p # calls[h].pair
        BY <1>8, <2>1, <2>2, <3>2, RowRevoked DEF Revoked, Resting, Stays
      <3>. QED BY <3>1, <3>2
    <2>. QED BY <1>2, <2>2, <2>3
  <1>9. CASE Issued(h)
    <2>1. PICK row \in Row : ~row.revoked /\ tokens' = Append(tokens, row)
      BY <1>9 DEF Issued
    <2>2. h \in B /\ calls[h].at = "issue" /\ C = B \ {h} /\ \A g \in C : calls'[g] = calls[g]
      BY <1>9 DEF Served, Issued, Closes, Bringing
    <2>3. L \subseteq M /\ M \subseteq L \cup {Len(tokens) + 1}
      <3>1. ASSUME NEW p PROVE p \in M => p \in L \cup {Len(tokens) + 1}
        BY <2>1, <2>2, RowAdded DEF Resting
      <3>2. ASSUME NEW p PROVE p \in L => p \in M
        BY <2>1, <2>2, RowAdded DEF Resting
      <3>. QED BY <3>1, <3>2
    <2>. QED BY <1>3, <2>2, <2>3
  <1>. QED BY <1>5, <1>6, <1>7, <1>8, <1>9 DEF Served

LEMMA ServedStore ==
    ASSUME AuthInv, AuthInv', StoreInv, NEW h \in Calls, Served(h)
    PROVE  StoreInv'
  <1>1. UNCHANGED clientVars /\ \A p : Clean(p, calls, tokens) => Clean(p, calls', tokens')
    BY ServedClean DEF Served
  <1>2. ASSUME task.call # None, task.step \in {"login", "refresh"},
               calls'[task.call].at = "done", calls'[task.call].answer = 200
        PROVE  Clean(calls'[task.call].pair, calls', tokens')
    <2>1. task.call \in Calls /\ calls[task.call] # None /\ calls[task.call].kind = task.step
      BY <1>2 DEF AuthInv, Task, Linked
    <2>2. CASE task.call # h
      <3>1. calls'[task.call] = calls[task.call]
        BY <2>1, <2>2 DEF Served
      <3>2. Clean(calls[task.call].pair, calls, tokens)
        BY <1>2, <3>1 DEF StoreInv
      <3>. QED BY <1>1, <3>1, <3>2
    <2>3. CASE task.call = h
      <3>1. calls'[h] # None
        BY <1>1, <1>2, <2>3 DEF AuthInv, Linked, clientVars
      <3>2. Issued(h)
        BY <1>2, <2>1, <2>3, <3>1 DEF Served, Advanced, Declined, Revoked, Stays
      <3>. QED BY <2>3, <3>1, <3>2, IssuedClean
    <2>. QED BY <2>2, <2>3
  <1>. QED BY <1>1, <1>2 DEF StoreInv, clientVars, kept

LEMMA ServedRowsInv ==
    ASSUME AuthInv, AuthInv', RowsInv, NEW h \in Calls, Served(h)
    PROVE  RowsInv'
  <1>1. PICK R, S, L, M : /\ R = RowsAhead(calls, tokens) /\ S = RowsAhead(calls, tokens)'
                          /\ L = Resting(calls, tokens) /\ M = Resting(calls, tokens)'
    OBVIOUS
  <1>2. \/ CountsAsBefore /\ L \subseteq M
        \/ CountsLess /\ calls[h].kind = "logout" /\ M = L \ {calls[h].pair}
    BY <1>1, ServedRows DEF RowsInv
  <1>3. /\ IsFiniteSet(M) /\ IsFiniteSet(Bringing(calls)')
        /\ R \in Nat /\ S \in Nat /\ S <= R /\ (~(L \subseteq M) => S <= R - 1)
    BY <1>1, <1>2, FS_CardinalityType DEF CountsAsBefore, CountsLess, RowsInv, RowsAhead
  <1>0. PICK left \in Nat : left = LeftBehind
    BY LeftType
  <1>4. /\ R <= left + 1
        /\ task = Idle /\ store = None => R <= left
        /\ task = Idle \/ task.step \in {"me", "logout"} \/ (task.op = "login" /\ store # None) =>
               store \in L \cup {None} \/ R <= left
        /\ task.step \in {"me", "logout"} => store # None
    BY <1>0, <1>1 DEF RowsInv
  <1>5. /\ task' = task /\ store' = store /\ lost' = lost /\ replaced' = replaced
        /\ LeftBehind' = left
    BY <1>0, LeftAlike DEF Served, clientVars, kept
  <1>6. ASSUME task.call # None, task.step = "logout"
        PROVE  /\ calls'[task.call].kind = "logout"
               /\ IF calls'[task.call].at # "done" THEN calls'[task.call].pair = store
                  ELSE calls'[task.call].answer = 200 => S <= left
    <2>1. /\ calls[task.call].kind = "logout"
          /\ IF calls[task.call].at # "done" THEN calls[task.call].pair = store
             ELSE calls[task.call].answer = 200 => R <= left
      BY <1>0, <1>1, <1>6 DEF RowsInv
    <2>2. task.call \in Calls /\ calls'[task.call] # None
      BY <1>5, <1>6 DEF AuthInv, Task, Linked
    <2>3. CASE task.call # h
      <3>1. calls'[task.call] = calls[task.call]
        BY <2>2, <2>3 DEF Served
      <3>. QED BY <1>3, <1>4, <2>1, <3>1
    <2>4. CASE task.call = h
      <3>1. calls[h].pair = store
        BY <2>1, <2>4 DEF Served
      <3>2. Advanced(h) \/ Declined(h) \/ Revoked(h)
        BY <2>1, <2>4 DEF Served, Issued
      <3>3. CASE Advanced(h)
        BY <2>1, <2>4, <3>1, <3>3 DEF Advanced, Stays
      <3>4. CASE Declined(h)
        BY <2>1, <2>2, <2>4, <3>4 DEF Declined, Closes
      <3>5. CASE Revoked(h)
        <4>1. Closes(h)
          BY <2>1, <2>4, <3>5 DEF Revoked
        <4>2. store \notin M
          BY <1>1, <3>1, <3>5, RowRevoked DEF Revoked, Resting
        <4>3. S <= left
          BY <1>3, <1>4, <1>6, <4>2
        <4>. QED BY <2>1, <2>2, <2>4, <4>1, <4>3 DEF Closes
      <3>. QED BY <3>2, <3>3, <3>4, <3>5
    <2>. QED BY <2>3, <2>4
  <1>7. /\ S <= left + 1
        /\ task = Idle /\ store = None => S <= left
        /\ task = Idle \/ task.step \in {"me", "logout"} \/ (task.op = "login" /\ store # None) =>
               store \in M \cup {None} \/ S <= left
    BY <1>3, <1>4
  <1>. QED BY <1>1, <1>3, <1>4, <1>5, <1>6, <1>7 DEF RowsInv

-----------------------------------------------------------------------------
\* Nothing that a row depends on changes.
Quiet ==
    /\ SameRows(tokens, tokens')
    /\ \A h \in Calls :
         \/ Alike(calls[h], calls'[h])
         \/ /\ Over(calls[h]) \/ calls[h].kind \in {"me", "logout"}
            /\ Over(calls'[h]) \/ calls'[h].kind = "me"

LEMMA QuietClean == Quiet => \A p : Clean(p, calls, tokens) => Clean(p, calls', tokens')
  BY CleanKept DEF Quiet

LEMMA QuietRows ==
    Quiet => /\ Resting(calls, tokens)' = Resting(calls, tokens)
             /\ Bringing(calls)' = Bringing(calls)
             /\ RowsAhead(calls, tokens)' = RowsAhead(calls, tokens)
  BY RowsKept DEF Quiet, RowsAhead

\* What is left of RowsInv when the counts may have become less.
LEMMA RowsAlike ==
    ASSUME RowsInv, Quiet
    PROVE  /\ RowsAhead(calls, tokens) \in Nat
           /\ IsFiniteSet(Resting(calls, tokens)') /\ IsFiniteSet(Bringing(calls)')
           /\ Resting(calls, tokens)' = Resting(calls, tokens)
           /\ RowsAhead(calls, tokens)' = RowsAhead(calls, tokens)
  BY QuietRows, FS_CardinalityType DEF RowsInv, RowsAhead

LEMMA CollectedQuiet ==
    ASSUME AuthInv, task.call # None => calls[task.call].at = "done",
           calls' \in {calls, Collected}, UNCHANGED tokens
    PROVE  Quiet
  <1>1. ASSUME NEW h \in Calls
        PROVE  calls'[h] = calls[h] \/ (Over(calls[h]) /\ Over(calls'[h]))
    <2>1. calls \in [Calls -> Request \cup {None}]
      BY DEF AuthInv
    <2>2. CASE task.call # None /\ calls' = [calls EXCEPT ![task.call] = None]
      BY <2>1, <2>2 DEF Over
    <2>. QED BY <2>2 DEF Collected
  <1>. QED BY <1>1 DEF Quiet, SameRows, Alike

\* The operation that ends took what was due to it, or was lost.
LEMMA EndRows ==
    ASSUME AuthInv, StoreInv, RowsInv, task # Idle, task' = Idle, UNCHANGED tokens,
           task.call # None => calls[task.call].at = "done", calls' \in {calls, Collected},
           \/ /\ lost' = lost + 1 /\ replaced' = replaced
              /\ store' = IF task.op = "login" THEN store ELSE None
           \/ /\ LeftBehind' = LeftBehind /\ lost' = lost /\ replaced' \in Nat
              /\ \/ store' \in Resting(calls, tokens) /\ store' # None
                 \/ store' = store /\ task.step = "me"
                 \/ /\ store' = None /\ task.step = "logout" /\ task.call # None
                    /\ calls[task.call].answer = 200
    PROVE  RowsInv'
  <1>1. Quiet
    BY CollectedQuiet
  <1>2. PICK R, L : R = RowsAhead(calls, tokens) /\ L = Resting(calls, tokens)
    OBVIOUS
  <1>3. PICK left \in Nat, before \in Nat : left = LeftBehind' /\ before = LeftBehind
    <2>1. lost' \in Nat /\ replaced' \in Nat /\ LeftBehind \in Nat
      BY LeftType DEF RowsInv
    <2>2. PICK more \in {0, 1} : more = IF task'.op = "login" /\ store' # None THEN 1 ELSE 0
      OBVIOUS
    <2>3. PICK a \in Nat, b \in Nat : a = lost' /\ b = replaced'
      BY <2>1
    <2>4. LeftBehind' = a + b + more
      BY <2>2, <2>3 DEF LeftBehind
    <2>5. a + b + more \in Nat
      OBVIOUS
    <2>6. LeftBehind' \in Nat
      BY <2>4, <2>5
    <2>. QED BY <2>1, <2>6
  <1>4. /\ R \in Nat /\ R <= before + 1
        /\ RowsAhead(calls, tokens)' = R /\ Resting(calls, tokens)' = L
        /\ IsFiniteSet(Resting(calls, tokens)') /\ IsFiniteSet(Bringing(calls)')
    BY <1>1, <1>2, <1>3, RowsAlike DEF RowsInv
  <1>5. task'.call = None /\ task'.step = None /\ task'.op = None
    BY DEF Idle
  <1>6. R <= left + 1 /\ (store' = None => R <= left) /\ (store' \in L \cup {None} \/ R <= left)
    <2>1. CASE lost' = lost + 1 /\ replaced' = replaced
      <3>1. left = lost + replaced + 1
        BY <1>3, <1>5, <2>1, NoneAssumption DEF LeftBehind, RowsInv, NoneAssumption
      <3>2. before <= left /\ (~(task.op = "login" /\ store # None) => before + 1 <= left)
        BY <1>3, <3>1 DEF LeftBehind, RowsInv
      <3>3. task.op = "login" /\ store # None => store \in L \/ R <= before
        BY <1>2, <1>3 DEF RowsInv
      <3>4. store' = IF task.op = "login" THEN store ELSE None
        BY <2>1 DEF RowsInv
      <3>5. R <= left + 1 /\ (~(task.op = "login" /\ store # None) => R <= left)
        BY <1>3, <1>4, <3>2
      <3>6. CASE task.op = "login"
        <4>1. store' = store /\ (store # None => store \in L \/ R <= left)
          BY <1>3, <1>4, <3>2, <3>3, <3>4, <3>6
        <4>2. store = None => R <= left
          BY <3>5
        <4>3. store \in L \cup {None} \/ R <= left
          BY <4>1
        <4>. QED BY <3>5, <4>1, <4>2, <4>3
      <3>7. CASE task.op # "login"
        BY <3>4, <3>5, <3>7
      <3>. QED BY <3>6, <3>7
    <2>2. CASE LeftBehind' = LeftBehind /\ lost' = lost
      <3>1. left = before
        BY <1>3, <2>2
      <3>2. task.step = "me" => store # None /\ (store \in L \cup {None} \/ R <= before)
        BY <1>2, <1>3 DEF RowsInv
      <3>3. /\ task.step = "logout" /\ task.call # None /\ calls[task.call].answer = 200
            => R <= before
        BY <1>2, <1>3 DEF RowsInv
      <3>4. lost' # lost + 1
        BY <2>2 DEF RowsInv
      <3>. QED BY <1>2, <1>4, <3>1, <3>2, <3>3, <3>4
    <2>. QED BY <2>1, <2>2
  <1>7. lost' \in Nat /\ replaced' \in Nat
    BY DEF RowsInv
  <1>. QED BY <1>3, <1>4, <1>5, <1>6, <1>7, NoneAssumption DEF RowsInv, NoneAssumption

LEMMA EndStore ==
    ASSUME AuthInv, StoreInv, task # Idle, task' = Idle, UNCHANGED tokens,
           task.call # None => calls[task.call].at = "done", calls' \in {calls, Collected},
           \/ store' = None
           \/ store' = task.pair /\ task.step = "profile" /\ accessKey' = accessKey
           \/ /\ store' = store /\ accessKey' = accessKey /\ stranded' = stranded
              /\ \/ task.step = "me" /\ outrun' = outrun
                 \/ /\ task.op = "login"
                    /\ outrun' = IF task.step = "profile" THEN store ELSE outrun
    PROVE  StoreInv'
  <1>1. \A p : Clean(p, calls, tokens) => Clean(p, calls', tokens')
    BY CollectedQuiet, QuietClean
  <1>2. task'.call = None /\ task'.step = None /\ task'.op = None
    BY DEF Idle
  <1>3. store' \notin {None, stranded'} =>
            Clean(store', calls', tokens') /\ (accessKey' = store' \/ store' = outrun')
    BY <1>1 DEF StoreInv
  <1>. QED BY <1>2, <1>3, NoneAssumption DEF StoreInv, NoneAssumption

LEMMA CleanRests ==
    ASSUME AuthInv, NEW p, Clean(p, calls, tokens)
    PROVE  p \in Resting(calls, tokens) /\ p # None
  <1>1. p \in Nat
    BY DEF AuthInv, Clean
  <1>2. p \in Resting(calls, tokens)
    BY DEF Clean, Resting, Bringing
  <1>. QED BY <1>1, <1>2, NoneAssumption DEF NoneAssumption

\* Operations that end.
LEMMA EndsSession ==
    ASSUME AuthInv, StoreInv, RowsInv,
           Restored \/ ProfileCame \/ RestoreFailed \/ LoginFailed \/ LoggedOut
    PROVE  StoreInv' /\ RowsInv'
  <1>1. /\ task' = Idle /\ UNCHANGED tokens /\ calls' \in {calls, Collected}
        /\ task.call # None => calls[task.call].at = "done"
        /\ task.step # None \/ task.op = "login"
    BY NoneAssumption DEF Restored, ProfileCame, RestoreFailed, LoginFailed, LoggedOut, Ends, Succeeded, Failed,
              Waits, NoneAssumption
  <1>2. task # Idle
    BY <1>1, NoneAssumption DEF Idle, NoneAssumption
  <1>3. CASE Restored
    <2>1. /\ task.step = "me" /\ task.op = "restore"
          /\ UNCHANGED <<store, accessKey, lost, replaced, stranded, outrun>>
      BY <1>3 DEF Restored, Waits, kept
    <2>2. LeftBehind' = LeftBehind /\ replaced' \in Nat
      BY <1>1, <2>1, NoneAssumption DEF LeftBehind, Idle, RowsInv, NoneAssumption
    <2>. QED BY <1>1, <1>2, <2>1, <2>2, EndRows, EndStore
  <1>4. CASE ProfileCame
    <2>1. /\ store' = task.pair /\ task.step = "profile" /\ accessKey' = accessKey
          /\ lost' = lost
          /\ replaced' = IF task.op = "login" /\ store # None THEN replaced + 1 ELSE replaced
      BY <1>4 DEF ProfileCame, Write
    <2>2. store' \in Resting(calls, tokens) /\ store' # None
      BY <2>1, CleanRests DEF StoreInv
    <2>3. LeftBehind' = LeftBehind /\ replaced' \in Nat
      <3>1. task'.op = None
        BY <1>1 DEF Idle
      <3>. QED BY <2>1, <3>1, NoneAssumption DEF LeftBehind, RowsInv, NoneAssumption
    <2>. QED BY <1>1, <1>2, <2>1, <2>2, <2>3, EndRows, EndStore
  <1>5. CASE RestoreFailed
    <2>1. store' = None /\ lost' = lost + 1 /\ replaced' = replaced /\ task.op = "restore"
      BY <1>5 DEF RestoreFailed, Write
    <2>. QED BY <1>1, <1>2, <2>1, EndRows, EndStore
  <1>6. CASE LoginFailed
    <2>1. /\ task.op = "login" /\ lost' = lost + 1
          /\ UNCHANGED <<store, accessKey, replaced, stranded>>
          /\ outrun' = IF task.step = "profile" THEN store ELSE outrun
      BY <1>6 DEF LoginFailed
    <2>2. RowsInv'
      BY <1>1, <1>2, <2>1, EndRows
    <2>3. StoreInv'
      BY <1>1, <1>2, <2>1, EndStore
    <2>. QED BY <2>2, <2>3
  <1>7. CASE LoggedOut
    <2>1. /\ store' = None /\ replaced' = replaced /\ task.step = "logout" /\ task.op = "logout"
          /\ \/ lost' = lost + 1
             \/ lost' = lost /\ task.call # None /\ calls[task.call].answer = 200
      BY <1>7 DEF LoggedOut, Write, Waits, Succeeded
    <2>2. StoreInv'
      BY <1>1, <1>2, <2>1, EndStore
    <2>3. CASE lost' = lost + 1
      BY <1>1, <1>2, <2>1, <2>2, <2>3, EndRows
    <2>4. CASE lost' = lost /\ task.call # None /\ calls[task.call].answer = 200
      <3>1. LeftBehind' = LeftBehind /\ replaced' \in Nat
        BY <1>1, <2>1, <2>4, NoneAssumption DEF LeftBehind, Idle, RowsInv, NoneAssumption
      <3>. QED BY <1>1, <1>2, <2>1, <2>2, <2>4, <3>1, EndRows
    <2>. QED BY <2>1, <2>2, <2>3, <2>4
  <1>. QED BY <1>3, <1>4, <1>5, <1>6, <1>7

\* A request that leaves, and the operation that waits for it.
LEMMA SendSends ==
    ASSUME AuthInv, NEW h \in Calls, NEW op, NEW kind, NEW user, NEW pair,
           Send(h, op, kind, user, pair)
    PROVE  /\ calls[h] = None /\ \A g \in Calls \ {h} : calls'[g] = calls[g]
           /\ calls'[h].kind = kind /\ calls'[h].at = "start" /\ calls'[h].pair = pair
           /\ task'.op = op /\ task'.step = kind /\ task'.call = h /\ task'.pair = pair
  BY DEF AuthInv, Send

LEMMA SendQuiet ==
    ASSUME AuthInv, AuthInv', StoreInv, RowsInv, task = Idle, store # None,
           UNCHANGED <<tokens, store, lost, replaced>>,
           NEW h \in Calls, NEW op \in {"restore", "logout"}, NEW kind \in {"me", "logout"}, NEW user,
           Send(h, op, kind, user, store), UNCHANGED <<accessKey, stranded, outrun>>
    PROVE  StoreInv' /\ RowsInv'
  <1>1. /\ calls[h] = None /\ \A g \in Calls \ {h} : calls'[g] = calls[g]
        /\ calls'[h].kind = kind /\ calls'[h].at = "start" /\ calls'[h].pair = store
        /\ task'.op = op /\ task'.step = kind /\ task'.call = h /\ task'.pair = store
    BY SendSends
  <1>2. task' # Idle /\ op # None
    BY <1>1, NoneAssumption DEF Idle, NoneAssumption
  <1>3. kind = "me" => \A p : Clean(p, calls, tokens) => Clean(p, calls', tokens')
    BY <1>1, CleanKept DEF SameRows, Alike
  <1>4. StoreInv'
    BY <1>1, <1>2, <1>3 DEF StoreInv
  <1>5. /\ Bringing(calls)' = Bringing(calls)
        /\ Resting(calls, tokens)' = Resting(calls, tokens)
    BY <1>1, RowsKept DEF SameRows, Alike, Over
  <1>6. RowsAhead(calls, tokens)' = RowsAhead(calls, tokens)
    BY <1>5 DEF RowsAhead
  <1>7. task'.step # "logout" \/ calls'[h].kind = "logout"
    BY <1>1
  <1>8. LeftBehind' = LeftBehind
    BY <1>1, NoneAssumption DEF LeftBehind, Idle, NoneAssumption
  <1>9. RowsInv'
    BY <1>1, <1>2, <1>5, <1>6, <1>7, <1>8 DEF RowsInv
  <1>. QED BY <1>4, <1>9

\* A login, or the refresh of the stored session: one row more may come.
LEMMA SendBrings ==
    ASSUME AuthInv, AuthInv', StoreInv, RowsInv, task = Idle,
           UNCHANGED <<tokens, store, lost, replaced, accessKey, stranded, outrun>>,
           NEW h \in Calls, NEW op, NEW kind, NEW user, NEW pair, Send(h, op, kind, user, pair),
           \/ op = "login" /\ kind = "login"
           \/ op = "restore" /\ kind = "refresh" /\ pair = store /\ store # None
    PROVE  StoreInv' /\ RowsInv'
  <1>1. /\ calls[h] = None /\ \A g \in Calls \ {h} : calls'[g] = calls[g]
        /\ calls'[h].kind = kind /\ calls'[h].at = "start" /\ calls'[h].pair = pair
        /\ task'.op = op /\ task'.step = kind /\ task'.call = h /\ task'.pair = pair
    BY SendSends
  <1>2. task' # Idle /\ op # None
    BY <1>1, NoneAssumption DEF Idle, NoneAssumption
  <1>3. calls'[h] # None
    BY <1>1, NoneAssumption DEF AuthInv, Linked, NoneAssumption
  <1>4. StoreInv'
    <2>1. op = "login" => \A p : Clean(p, calls, tokens) => Clean(p, calls', tokens')
      BY <1>1, CleanKept DEF SameRows, Alike
    <2>. QED BY <1>1, <1>2, <2>1 DEF StoreInv
  <1>. DEFINE L == Resting(calls, tokens)
              B == Bringing(calls)
              M == Resting(calls', tokens')
              C == Bringing(calls')
  <1>5. C = B \cup {h} /\ M = IF kind = "login" THEN L ELSE L \ {pair}
    <2>1. PICK ds : ds = calls'
      OBVIOUS
    <2>2. /\ calls[h] = None /\ ds[h] # None /\ ds[h].at = "start" /\ ds[h].kind = kind
          /\ ds[h].pair = pair /\ kind \in {"login", "refresh"}
          /\ \A g \in Calls \ {h} : ds[g] = calls[g]
      BY <1>1, <1>3, <2>1
    <2>3. /\ Bringing(ds) = B \cup {h}
          /\ Resting(ds, tokens) = IF kind = "login" THEN L ELSE L \ {pair}
      BY <2>2, OneMore
    <2>4. tokens' = tokens
      OBVIOUS
    <2>. QED BY <2>1, <2>3, <2>4
  <1>6. PICK left \in Nat, after \in Nat : left = LeftBehind /\ after = LeftBehind'
    <2>1. LeftBehind \in Nat /\ lost' \in Nat /\ replaced' \in Nat
      BY LeftType DEF RowsInv
    <2>2. LeftBehind' \in Nat
      BY <2>1 DEF LeftBehind
    <2>. QED BY <2>1, <2>2
  <1>7. /\ after = IF op = "login" /\ store # None THEN left + 1 ELSE left
    <2>1. left = lost + replaced
      BY <1>6, NoneAssumption DEF LeftBehind, Idle, RowsInv, NoneAssumption
    <2>. QED BY <1>1, <1>6, <2>1 DEF LeftBehind, RowsInv
  <1>8. PICK R, S : R = RowsAhead(calls, tokens) /\ S = RowsAhead(calls, tokens)'
    OBVIOUS
  <1>9. /\ IsFiniteSet(L) /\ IsFiniteSet(B) /\ R \in Nat /\ R <= left + 1
        /\ store = None \/ store \notin L => R <= left
    BY <1>6, <1>8, FS_CardinalityType DEF RowsInv, RowsAhead
  <1>10. /\ IsFiniteSet(M) /\ IsFiniteSet(C) /\ S \in Nat /\ S <= after + 1
         /\ op = "login" /\ store # None => store \in M \/ S <= after
    <2>1. Cardinality(L) \in Nat /\ Cardinality(B) \in Nat /\ R = Cardinality(L) + Cardinality(B)
      BY <1>8, <1>9, FS_CardinalityType DEF RowsAhead
    <2>2. CASE kind = "login"
      <3>1. IsFiniteSet(C) /\ Cardinality(C) <= Cardinality(B) + 1
        BY <1>5, <1>9, OneElementMore
      <3>2. Cardinality(C) \in Nat
        BY <3>1, FS_CardinalityType
      <3>3. M = L /\ op = "login"
        BY <1>5, <2>2
      <3>4. S = Cardinality(M) + Cardinality(C)
        BY <1>8 DEF RowsAhead
      <3>. HIDE DEF L, B, M, C
      <3>. QED BY <1>7, <1>9, <2>1, <3>1, <3>2, <3>3, <3>4
    <2>3. CASE kind = "refresh"
      <3>1. M = L \ {pair} /\ pair = store /\ op = "restore" /\ store # None
        BY <1>5, <2>3
      <3>2. /\ IsFiniteSet(M) /\ IsFiniteSet(C)
            /\ Cardinality(M) + Cardinality(C) <=
                  Cardinality(L) + Cardinality(B) + IF pair \in L THEN 0 ELSE 1
        <4>. HIDE DEF L, B, M, C
        <4>1. C = B \cup {h}
          BY <1>5
        <4>. QED BY <1>9, <3>1, <4>1, Sent
      <3>3. Cardinality(M) \in Nat /\ Cardinality(C) \in Nat
        BY <3>2, FS_CardinalityType
      <3>4. S = Cardinality(M) + Cardinality(C)
        BY <1>8 DEF RowsAhead
      <3>. HIDE DEF L, B, M, C
      <3>. QED BY <1>7, <1>9, <2>1, <3>1, <3>2, <3>3, <3>4
    <2>. QED BY <2>2, <2>3
  <1>11. RowsInv'
    <2>1. lost' \in Nat /\ replaced' \in Nat
      BY DEF RowsInv
    <2>2. task'.step \notin {"me", "logout"}
      BY <1>1
    <2>. QED BY <1>1, <1>2, <1>6, <1>8, <1>10, <2>1, <2>2 DEF RowsInv
  <1>. QED BY <1>4, <1>11

LEMMA IdleAgain ==
    ASSUME StoreInv, RowsInv, task = Idle, task' = Idle,
           UNCHANGED <<calls, tokens, store, lost, replaced, accessKey, stranded, outrun>>
    PROVE  StoreInv' /\ RowsInv'
  <1>1. StoreInv'
    BY DEF StoreInv
  <1>2. LeftBehind' = LeftBehind
    BY DEF LeftBehind
  <1>3. RowsInv'
    BY <1>2 DEF RowsInv
  <1>. QED BY <1>1, <1>3

LEMMA BeginsSession ==
    ASSUME AuthInv, AuthInv', StoreInv, RowsInv,
           Initialize \/ LogOut \/ \E u \in Users : LogIn(u)
    PROVE  StoreInv' /\ RowsInv'
  <1>1. task = Idle /\ UNCHANGED <<tokens, store, lost, replaced, accessKey, stranded, outrun>>
    BY DEF Initialize, LogOut, LogIn, kept
  <1>2. CASE Initialize
    <2>1. CASE store = None /\ Ends("unauthenticated") /\ UNCHANGED calls
      BY <1>1, <2>1, IdleAgain DEF Ends
    <2>2. CASE /\ store # None
               /\ \E h \in Calls : Send(h, "restore", IF tokens[store].stale THEN "refresh" ELSE "me",
                                        Owner(store), store)
      <3>1. PICK h \in Calls, kind \in {"refresh", "me"} : Send(h, "restore", kind, Owner(store), store)
        BY <2>2
      <3>2. CASE kind = "me"
        BY <1>1, <2>2, <3>1, <3>2, SendQuiet
      <3>3. CASE kind = "refresh"
        BY <1>1, <2>2, <3>1, <3>3, SendBrings
      <3>. QED BY <3>2, <3>3
    <2>. QED BY <1>2, <2>1, <2>2 DEF Initialize
  <1>3. CASE LogOut
    <2>1. CASE store = None /\ Ends("unauthenticated") /\ UNCHANGED calls
      BY <1>1, <2>1, IdleAgain DEF Ends
    <2>2. CASE store # None /\ \E h \in Calls : Send(h, "logout", "logout", Owner(store), store)
      BY <1>1, <2>2, SendQuiet
    <2>. QED BY <1>3, <2>1, <2>2 DEF LogOut
  <1>4. ASSUME NEW u \in Users, LogIn(u) PROVE StoreInv' /\ RowsInv'
    <2>1. PICK h \in Calls : Send(h, "login", "login", u, None)
      BY <1>4 DEF LogIn
    <2>. QED BY <1>1, <2>1, SendBrings
  <1>. QED BY <1>2, <1>3, <1>4

LEMMA PairCameStore ==
    ASSUME AuthInv, AuthInv', StoreInv, RowsInv, PairCame
    PROVE  StoreInv' /\ RowsInv'
  <1>. DEFINE h == task.call
              pair == calls[task.call].pair
              c == [kind |-> "me", at |-> "start", user |-> Owner(pair), pair |-> pair,
                    access |-> pair, answer |-> None, spent |-> FALSE,
                    barred |-> status[Owner(pair)] # "active"]
  <1>1. /\ task.op \in {"restore", "login"} /\ task.step \in {"login", "refresh"}
        /\ h # None /\ calls[h].at = "done" /\ calls[h].answer = 200
        /\ accessKey' = pair /\ calls' = [calls EXCEPT ![h] = c]
        /\ task' = [task EXCEPT !.step = "profile", !.pair = pair]
        /\ UNCHANGED <<tokens, store, lost, replaced, stranded, outrun>>
    BY DEF PairCame, Succeeded, kept
  <1>2. task \in Task /\ h \in Calls /\ calls \in [Calls -> Request \cup {None}]
    BY <1>1 DEF AuthInv, Task
  <1>3. Clean(pair, calls, tokens)
    BY <1>1 DEF StoreInv
  <1>4. c.kind = "me"
    OBVIOUS
  <1>. HIDE DEF c
  <1>5. calls'[h] = c /\ \A g \in Calls \ {h} : calls'[g] = calls[g]
    BY <1>1, <1>2
  <1>6. Quiet
    BY <1>1, <1>4, <1>5 DEF Quiet, SameRows, Alike, Over
  <1>7. /\ task'.op = task.op /\ task'.step = "profile" /\ task'.pair = pair
    BY <1>1, <1>2 DEF Task
  <1>8. task' # Idle /\ task # Idle
    <2>1. Idle.op = None
      BY DEF Idle
    <2>2. task.op # None /\ task'.op = task.op
      BY <1>1, <1>7, NoneAssumption DEF NoneAssumption
    <2>. QED BY <2>1, <2>2
  <1>9. Clean(pair, calls', tokens')
    BY <1>3, <1>6, QuietClean
  <1>. HIDE DEF pair
  <1>10. StoreInv'
    <2>1. \A p : Clean(p, calls, tokens) => Clean(p, calls', tokens')
      BY <1>6, QuietClean
    <2>. QED BY <1>1, <1>7, <1>8, <1>9, <2>1, NoneAssumption DEF StoreInv, NoneAssumption
  <1>11. RowsInv'
    <2>1. LeftBehind' = LeftBehind
      BY <1>1, <1>7, LeftAlike
    <2>. QED BY <1>1, <1>6, <1>7, <1>8, <2>1, RowsAlike DEF RowsInv
  <1>. QED BY <1>10, <1>11

LEMMA TimeOutStore ==
    ASSUME AuthInv, AuthInv', StoreInv, RowsInv, TimeOut
    PROVE  StoreInv' /\ RowsInv'
  <1>. DEFINE h == task.call
              L == Resting(calls, tokens)
              B == Bringing(calls)
              M == Resting(calls', tokens')
              C == Bringing(calls')
  <1>1. /\ task # Idle /\ h # None /\ task' = [task EXCEPT !.call = None]
        /\ UNCHANGED <<tokens, store, accessKey, lost, replaced, stranded, outrun>>
    BY DEF TimeOut, kept
  <1>2. task \in Task /\ h \in Calls /\ calls \in [Calls -> Request \cup {None}] /\ calls[h] # None
    BY <1>1 DEF AuthInv, Task, Linked
  <1>3. /\ task'.op = task.op /\ task'.step = task.step /\ task'.pair = task.pair /\ task'.call = None
    BY <1>1, <1>2 DEF Task
  <1>4. task' # Idle
    BY <1>1, <1>3 DEF StoreInv, Idle
  <1>5. /\ \A g \in Calls \ {h} : calls'[g] = calls[g]
        /\ calls'[h] \in {calls[h], None}
    BY <1>1, <1>2 DEF TimeOut, Collected
  <1>6. \A p : Clean(p, calls, tokens) => Clean(p, calls', tokens')
    BY <1>1, <1>5, CleanKept DEF SameRows, Alike, Over
  <1>7. StoreInv'
    BY <1>1, <1>3, <1>4, <1>6 DEF StoreInv
  <1>8. IsFiniteSet(L) /\ IsFiniteSet(B) /\ RowsAhead(calls, tokens) \in Nat
    BY FS_CardinalityType DEF RowsInv, RowsAhead
  <1>9. CountsAsBefore /\ L \subseteq M
    <2>1. CASE h \in B /\ calls'[h] = None
      <3>1. C = B \ {h} /\ L \subseteq M /\ M \subseteq L \cup {calls[h].pair}
        BY <1>1, <1>5, <2>1, OneGone DEF Over
      <3>2. /\ IsFiniteSet(M) /\ IsFiniteSet(C)
            /\ Cardinality(M) + Cardinality(C) <= Cardinality(L) + Cardinality(B)
        <4>1. PICK p, g : p = calls[h].pair /\ g = h
          OBVIOUS
        <4>. HIDE DEF L, B, M, C
        <4>2. C = B \ {g} /\ g \in B /\ M \subseteq L \cup {p}
          BY <2>1, <3>1, <4>1
        <4>. QED BY <1>8, <4>2, Swapped
      <3>. QED BY <3>1, <3>2 DEF CountsAsBefore, RowsAhead
    <2>2. CASE h \notin B /\ calls'[h] = None
      <3>1. Over(calls[h]) \/ calls[h].kind \in {"me", "logout"}
        BY <1>2, <2>2 DEF Bringing, Over, Request
      <3>2. C = B /\ M = L
        BY <1>1, <1>5, <2>2, <3>1, RowsKept DEF SameRows, Alike, Over
      <3>. QED BY <1>8, <3>2 DEF CountsAsBefore, RowsAhead
    <2>3. CASE calls'[h] = calls[h]
      <3>1. C = B /\ M = L
        BY <1>1, <1>5, <2>3, RowsKept DEF SameRows, Alike
      <3>. QED BY <1>8, <3>1 DEF CountsAsBefore, RowsAhead
    <2>. QED BY <1>5, <2>1, <2>2, <2>3
  <1>10. PICK R, S : R = RowsAhead(calls, tokens) /\ S = RowsAhead(calls, tokens)'
    OBVIOUS
  <1>11. R \in Nat /\ S \in Nat /\ S <= R /\ IsFiniteSet(M) /\ IsFiniteSet(C)
    BY <1>8, <1>9, <1>10, FS_CardinalityType DEF CountsAsBefore, RowsAhead
  <1>12. PICK left \in Nat : left = LeftBehind /\ left = LeftBehind'
    BY <1>1, <1>3, LeftType, LeftAlike
  <1>13. /\ R <= left + 1
         /\ task.step \in {"me", "logout"} => store # None
         /\ task.step \in {"me", "logout"} \/ (task.op = "login" /\ store # None) =>
                store \in L \cup {None} \/ R <= left
    BY <1>10, <1>12 DEF RowsInv
  <1>14. /\ S <= left + 1
         /\ task.step \in {"me", "logout"} \/ (task.op = "login" /\ store # None) =>
                store \in M \cup {None} \/ S <= left
    BY <1>9, <1>11, <1>13
  <1>15. RowsInv'
    <2>1. lost' \in Nat /\ replaced' \in Nat
      BY <1>1 DEF RowsInv
    <2>. QED BY <1>1, <1>3, <1>4, <1>10, <1>11, <1>12, <1>13, <1>14, <2>1 DEF RowsInv
  <1>. QED BY <1>7, <1>15

LEMMA CrashStore ==
    ASSUME AuthInv, StoreInv, RowsInv, Crash
    PROVE  StoreInv' /\ RowsInv'
  <1>1. task' = Idle /\ UNCHANGED <<tokens, store, accessKey, replaced, outrun>>
    BY DEF Crash, Ends
  <1>2. CASE task = Idle
    <2>1. UNCHANGED <<calls, lost, stranded>>
      BY <1>2 DEF Crash, Idle
    <2>. QED BY <1>1, <1>2, <2>1, IdleAgain
  <1>3. CASE task # Idle
    <2>1. lost' = lost + 1 /\ stranded' = store
      BY <1>3 DEF Crash
    <2>2. Quiet
      <3>1. CASE task.call # None /\ calls[task.call].at = "done"
        BY <1>1, <3>1, CollectedQuiet DEF Crash
      <3>2. CASE ~(task.call # None /\ calls[task.call].at = "done")
        BY <1>1, <3>2 DEF Crash, Quiet, SameRows, Alike
      <3>. QED BY <3>1, <3>2
    <2>3. task'.call = None /\ task'.step = None /\ task'.op = None
      BY <1>1 DEF Idle
    <2>4. StoreInv'
      BY <1>1, <2>1, <2>3, NoneAssumption DEF StoreInv, NoneAssumption
    <2>5. PICK R, L : R = RowsAhead(calls, tokens) /\ L = Resting(calls, tokens)
      OBVIOUS
    <2>6. /\ R \in Nat /\ RowsAhead(calls, tokens)' = R /\ Resting(calls, tokens)' = L
          /\ IsFiniteSet(Resting(calls, tokens)') /\ IsFiniteSet(Bringing(calls)')
      BY <2>2, <2>5, RowsAlike
    <2>7. PICK left \in Nat : left = LeftBehind
      BY LeftType
    <2>8. /\ lost' \in Nat /\ replaced' \in Nat
          /\ left <= LeftBehind' /\ LeftBehind' \in Nat
          /\ (~(task.op = "login" /\ store # None) => left + 1 = LeftBehind')
      BY <1>1, <2>1, <2>3, <2>7, NoneAssumption DEF LeftBehind, RowsInv, NoneAssumption
    <2>9. /\ R <= left + 1
          /\ task.op = "login" /\ store # None => store \in L \/ R <= left
      BY <2>5, <2>7 DEF RowsInv
    <2>10. /\ R <= LeftBehind' + 1
           /\ store' = None => R <= LeftBehind'
           /\ store' \in L \cup {None} \/ R <= LeftBehind'
      <3>1. PICK after \in Nat : after = LeftBehind'
        BY <2>8
      <3>2. left <= after /\ (~(task.op = "login" /\ store # None) => left + 1 = after)
        BY <2>8, <3>1
      <3>3. R <= after + 1 /\ (~(task.op = "login" /\ store # None) => R <= after)
        BY <2>6, <2>9, <3>2
      <3>4. task.op = "login" /\ store # None => store \in L \/ R <= after
        BY <2>6, <2>9, <3>2
      <3>. QED BY <1>1, <3>1, <3>3, <3>4
    <2>11. RowsInv'
      BY <2>3, <2>6, <2>8, <2>10, NoneAssumption DEF RowsInv, NoneAssumption
    <2>. QED BY <2>4, <2>11
  <1>. QED BY <1>2, <1>3

LEMMA QuietStore ==
    ASSUME AuthInv, StoreInv, RowsInv, Quiet, UNCHANGED clientVars,
           \A h \in Calls : Alike(calls[h], calls'[h])
    PROVE  StoreInv' /\ RowsInv'
  <1>1. \A p : Clean(p, calls, tokens) => Clean(p, calls', tokens')
    BY QuietClean
  <1>2. task.call # None => Alike(calls[task.call], calls'[task.call])
    BY DEF AuthInv, Task
  <1>3. StoreInv'
    BY <1>1, <1>2 DEF StoreInv, clientVars, kept, Alike
  <1>4. RowsInv'
    <2>1. LeftBehind' = LeftBehind
      BY LeftAlike DEF clientVars, kept
    <2>. QED BY <1>2, <2>1, RowsAlike DEF RowsInv, clientVars, kept, Alike
  <1>. QED BY <1>3, <1>4

LEMMA AccountsStore ==
    ASSUME AuthInv, StoreInv, RowsInv,
           \/ \E u \in Users, s \in Status : ChangeStatus(u, s)
           \/ \E t \in Pairs : Expire(t)
           \/ UNCHANGED vars
    PROVE  StoreInv' /\ RowsInv'
  <1>1. UNCHANGED clientVars
    BY DEF ChangeStatus, Expire, vars
  <1>2. SameRows(tokens, tokens')
    <2>1. CASE UNCHANGED tokens
      BY <2>1 DEF SameRows
    <2>2. ASSUME NEW t \in Pairs, Expire(t) PROVE SameRows(tokens, tokens')
      <3>1. \A p \in DOMAIN tokens : tokens[p] \in Row
        BY DEF AuthInv
      <3>. QED BY <2>2, <3>1 DEF Expire, SameRows, Row, Pairs
    <2>. QED BY <2>1, <2>2 DEF ChangeStatus, vars, serverVars
  <1>3. ASSUME NEW h \in Calls PROVE Alike(calls[h], calls'[h])
    <2>1. CASE calls'[h] = calls[h]
      BY <2>1 DEF Alike
    <2>2. CASE calls[h] # None /\ calls'[h] = [calls[h] EXCEPT !.barred = FALSE]
      <3>1. calls[h] \in Request
        BY <2>2 DEF AuthInv
      <3>2. calls'[h] \in Request
        BY <2>2, <3>1 DEF Request
      <3>. QED BY <2>2, <3>1, <3>2, NoneAssumption DEF Alike, Request, NoneAssumption
    <2>. QED BY <2>1, <2>2 DEF ChangeStatus, Expire, vars, serverVars
  <1>4. Quiet
    BY <1>2, <1>3 DEF Quiet
  <1>. QED BY <1>1, <1>3, <1>4, QuietStore

-----------------------------------------------------------------------------

LEMMA InitStore == Init => StoreInv /\ RowsInv
  <1>1. SUFFICES ASSUME Init PROVE StoreInv /\ RowsInv
    OBVIOUS
  <1>2. Bringing(calls) = {} /\ Resting(calls, tokens) = {}
    BY <1>1 DEF Init, Bringing, Resting
  <1>3. RowsAhead(calls, tokens) = 0 /\ IsFiniteSet({})
    BY <1>2, FS_EmptySet DEF RowsAhead
  <1>4. task.call = None /\ task.step = None /\ task.op = None
    BY <1>1 DEF Init, Idle
  <1>5. task = Idle /\ store = None /\ lost = 0 /\ replaced = 0
    BY <1>1 DEF Init
  <1>6. StoreInv
    BY <1>4, <1>5, NoneAssumption DEF StoreInv, NoneAssumption
  <1>7. RowsInv
    BY <1>2, <1>3, <1>4, <1>5, NoneAssumption DEF RowsInv, LeftBehind, NoneAssumption
  <1>. QED BY <1>6, <1>7

LEMMA StepStore == AuthInv /\ StoreInv /\ RowsInv /\ [Next]_vars => (StoreInv /\ RowsInv)'
  <1>1. SUFFICES ASSUME AuthInv, StoreInv, RowsInv, [Next]_vars PROVE StoreInv' /\ RowsInv'
    OBVIOUS
  <1>2. AuthInv'
    BY <1>1, StepAuth
  <1>3. CASE ServerStep
    BY <1>1, <1>2, <1>3, ServerServes, ServedStore, ServedRowsInv
  <1>. QED BY <1>1, <1>2, <1>3, EndsSession, BeginsSession, PairCameStore, TimeOutStore, CrashStore,
              AccountsStore DEF Next, ClientStep

SessionInv == AuthInv /\ StoreInv /\ RowsInv

LEMMA SessionInvariant == Spec => []SessionInv
  <1>1. Init => SessionInv
    BY InitAuth, InitStore DEF SessionInv
  <1>2. SessionInv /\ [Next]_vars => SessionInv'
    BY StepAuth, StepStore DEF SessionInv
  <1>. QED BY <1>1, <1>2, PTL DEF Spec

\* Between two operations the stored refresh token is good, unless the process ended in
\* the middle of an operation, and the access token of its own pair is sent along, unless
\* a login over it failed on the profile: nobody but the operation that runs has a
\* request out that could revoke it, and a login revokes nothing.
THEOREM StoredStaysWhole == Spec => []StoredSessionIsWhole
  <1>1. SessionInv => StoredSessionIsWhole
    BY DEF SessionInv, StoreInv, StoredSessionIsWhole, Clean
  <1>. QED BY <1>1, SessionInvariant, PTL

LEMMA LiveRows == SessionInv => NoForgottenRows
  <1>1. SUFFICES ASSUME SessionInv PROVE NoForgottenRows
    OBVIOUS
  <1>. DEFINE L == Resting(calls, tokens)
              B == Bringing(calls)
              T == {calls[h].pair : h \in B}
              f == [h \in B |-> calls[h].pair]
  <1>2. /\ IsFiniteSet(L) /\ IsFiniteSet(B) /\ LeftBehind \in Nat
        /\ Cardinality(L) + Cardinality(B) <= LeftBehind + 1
    BY <1>1, LeftType DEF SessionInv, RowsInv, RowsAhead
  <1>3. f \in Surjection(B, T)
    BY DEF Surjection
  <1>. HIDE DEF f
  <1>4. IsFiniteSet(T) /\ Cardinality(T) <= Cardinality(B)
    BY <1>2, <1>3, FS_Surjection
  <1>5. Live \subseteq L \cup T
    BY DEF Live, Pairs, Resting
  <1>. HIDE DEF L, B, T
  <1>6. /\ IsFiniteSet(L \cup T) /\ Cardinality(L \cup T) = Cardinality(L) + Cardinality(T) - Cardinality(L \cap T)
        /\ Cardinality(L \cap T) \in Nat
    <2>1. IsFiniteSet(L \cap T)
      BY <1>2, FS_Subset
    <2>. QED BY <1>2, <1>4, <2>1, FS_Union, FS_CardinalityType
  <1>7. Cardinality(Live) <= Cardinality(L \cup T) /\ IsFiniteSet(Live)
    BY <1>5, <1>6, FS_Subset
  <1>8. /\ Cardinality(L) \in Nat /\ Cardinality(B) \in Nat /\ Cardinality(T) \in Nat
        /\ Cardinality(Live) \in Nat /\ Cardinality(L \cup T) \in Nat
    BY <1>2, <1>4, <1>6, <1>7, FS_CardinalityType
  <1>. QED BY <1>2, <1>4, <1>6, <1>7, <1>8 DEF NoForgottenRows

\* Rows that can still be refreshed do not pile up: besides the one of the session
\* there is at most one for every operation that failed or ended with the process and
\* one for every login over a session still in the store, however requests that were
\* given up overlap with later ones.
THEOREM NothingForgotten == Spec => []NoForgottenRows
  BY LiveRows, SessionInvariant, PTL
=============================================================================
