------------------------------ MODULE RateLimit ------------------------------
(* The rate limits of the server: counters with a time to live, in Redis or  *)
(* in the memory of a process, and the failover store between the two.       *)
(* Time is relative: a counter has so many ticks left, a circuit stays open   *)
(* for so many more.                                                          *)
EXTENDS Naturals, Sequences

CONSTANTS
    Processes,
    Lanes,          \* requests that one process serves at a time
    Configs,        \* the environments a deployment may have, each with the kinds
                    \* of requests that come (see OpsOf)
    Ttl,            \* of each key, in ticks
    Limit,          \* of each key that is counted
    Cooldown,       \* RATE_LIMIT_RETRY_COOLDOWN_MS, in ticks
    MaxCount        \* where the model stops counting

Keys == {"failed", "cooldown", "hourly", "ip"}

\* nodeEnv is NODE_ENV, "Production" for every other spelling that is "production" once
\* it is trimmed and in lower case, "development" for the rest. fallback is
\* RATE_LIMIT_ALLOW_FALLBACK, "unset" for a value that is no Boolean.
Config ==
    [nodeEnv: {"production", "Production", "development"}, driver: {"redis", "memory"},
     fallback: {"true", "false", "unset"}, explicitRedis: BOOLEAN,
     kinds: SUBSET {"failedLogin", "goodLogin", "sendCode"}]

ASSUME RateLimitAssumption ==
    /\ "redis" \notin Processes
    /\ Configs \subseteq Config
    /\ Ttl \in [Keys -> Nat \ {0}] /\ Limit \in [Keys \ {"cooldown"} -> Nat]
    /\ Cooldown \in Nat
    /\ MaxCount \in Nat
    /\ MaxCount >= Limit["failed"] /\ MaxCount > Limit["hourly"] /\ MaxCount > Limit["ip"]

VARIABLES
    config,         \* the environment
    mode,           \* of a process: the store that its factory chose
    redisUp,
    redis,          \* the counters in Redis
    memory,         \* the counters of MemoryRateLimitStore in each process
    client,         \* the connection of RedisRateLimitStore
    cooldown,       \* ticks until retryPrimaryAfter
    req,            \* what each lane of each process is doing
    since           \* the attempts a store has counted: by key, those so many ticks old
                    \* or younger

vars == <<config, mode, redisUp, redis, memory, client, cooldown, req, since>>

Slots == Processes \X Lanes
Stores == Processes \cup {"redis"}

Empty == [count |-> 0, left |-> 0]
NoCounters == [key \in Keys |-> Empty]
NoAttempts == [key \in Keys |-> [age \in 0 .. Ttl[key] - 1 |-> 0]]

Idle(reply) == [pc |-> "idle", reply |-> reply]
At(pc, kind, step) == [pc |-> pc, kind |-> kind, step |-> step]

-----------------------------------------------------------------------------
(* Configuration.                                                            *)

\* trim and toLowerCase of normalizeNodeEnv, which only the preflight does.
Normalized(nodeEnv) == IF nodeEnv = "Production" THEN "production" ELSE nodeEnv

AllowFallback(nodeEnv, fallback) ==
    fallback = "true" \/ (fallback = "unset" /\ nodeEnv # "production")

IsRelease(c) == Normalized(c.nodeEnv) = "production"

\* Mutant: the fallback and the connection are not looked at.
PreflightOfDriverOnly(c) == IsRelease(c) => c.driver = "redis"

\* assertReleaseRuntimePreflight throws before the application is created.
Preflight(c) ==
    IsRelease(c) =>
        c.driver = "redis" /\ ~AllowFallback(Normalized(c.nodeEnv), c.fallback) /\ c.explicitRedis

-----------------------------------------------------------------------------
(* Counters.                                                                 *)

Bumped(n) == IF n < MaxCount THEN n + 1 ELSE n

\* Mutant: every increment sets the time to live anew.
AfterSliding(bucket, op) ==
    IF op.do = "delete" THEN Empty
    ELSE IF bucket.count = 0 THEN [count |-> 1, left |-> Ttl[op.key]]
    ELSE IF op.do = "increment" THEN [count |-> Bumped(bucket.count), left |-> Ttl[op.key]]
    ELSE bucket

\* A counter that is not there starts with its full time to live, one that is
\* there keeps what it has left.
After(bucket, op) ==
    IF op.do = "delete" THEN Empty
    ELSE IF bucket.count = 0 THEN [count |-> 1, left |-> Ttl[op.key]]
    ELSE IF op.do = "increment" THEN [bucket EXCEPT !.count = Bumped(@)]
    ELSE bucket

\* What a store returns: a count, or whether the key was free.
Result(bucket, op) ==
    IF op.do = "reserve" THEN bucket.count = 0 ELSE After(bucket, op).count

Counted(attempts, bucket, op) ==
    IF op.do = "delete" THEN [age \in DOMAIN attempts |-> 0]
    ELSE IF op.do = "reserve" /\ bucket.count > 0 THEN attempts
    ELSE [age \in DOMAIN attempts |-> Bumped(attempts[age])]

\* The calls that checkSendCode, recordFailedAttempt and resetFailedAttempts
\* make, one after the other.
OpsOf(kind) ==
    CASE kind = "failedLogin" -> << [do |-> "increment", key |-> "failed"] >>
      [] kind = "goodLogin" -> << [do |-> "delete", key |-> "failed"] >>
      [] kind = "sendCode" -> << [do |-> "reserve", key |-> "cooldown"],
                                 [do |-> "increment", key |-> "hourly"],
                                 [do |-> "increment", key |-> "ip"] >>

\* A 429: five failures are too many, five codes an hour are not.
Limited(op, result) ==
    \/ op.do = "reserve" /\ ~result
    \/ op.do = "increment" /\ op.key = "failed" /\ result >= Limit["failed"]
    \/ op.do = "increment" /\ op.key # "failed" /\ result > Limit[op.key]

-----------------------------------------------------------------------------
(* Requests.                                                                 *)

OpOf(s) == OpsOf(req[s].kind)[req[s].step]

\* The await of a store call returns: the next call, or an answer.
Proceed(s, result) ==
    IF Limited(OpOf(s), result) THEN Idle("limited")
    ELSE IF req[s].step = Len(OpsOf(req[s].kind)) THEN Idle("ok")
    ELSE At("call", req[s].kind, req[s].step + 1)

\* A call on the memory store has no await before it is done.
DoInMemory(s) ==
    LET p == s[1]
        op == OpOf(s)
        bucket == memory[p][op.key]
    IN /\ memory' = [memory EXCEPT ![p][op.key] = After(bucket, op)]
       /\ since' = [since EXCEPT ![p][op.key] = Counted(@, bucket, op)]
       /\ req' = [req EXCEPT ![s] = Proceed(s, Result(bucket, op))]

FallbackActive(p) == mode[p] = "failover" /\ cooldown[p] > 0

Arrive(s) ==
    /\ req[s].pc = "idle" /\ mode[s[1]] \in {"memory", "failover", "redis"}
    /\ \E kind \in config.kinds : req' = [req EXCEPT ![s] = At("call", kind, 1)]
    /\ UNCHANGED <<config, mode, redisUp, redis, memory, client, cooldown, since>>

\* Mutant: every call in memory keeps the circuit open for longer.
CallFallbackExtending(s) ==
    /\ req[s].pc = "call" /\ (mode[s[1]] = "memory" \/ FallbackActive(s[1]))
    /\ DoInMemory(s)
    /\ cooldown' = [cooldown EXCEPT ![s[1]] = IF mode[s[1]] = "memory" THEN 0 ELSE Cooldown]
    /\ UNCHANGED <<config, mode, redisUp, redis, client>>

\* The memory driver, or a circuit that is open.
CallFallback(s) ==
    /\ req[s].pc = "call" /\ (mode[s[1]] = "memory" \/ FallbackActive(s[1]))
    /\ DoInMemory(s)
    /\ UNCHANGED <<config, mode, redisUp, redis, client, cooldown>>

\* getClient: a connection that is not ready is given up and a new one opened.
CallPrimary(s) ==
    LET p == s[1]
        ready == client[p] = "ready"
    IN /\ req[s].pc = "call" /\ mode[p] # "memory" /\ ~FallbackActive(p)
       /\ client' = [client EXCEPT ![p] = IF ready THEN @ ELSE "none"]
       /\ req' = [req EXCEPT ![s].pc = IF ready THEN "send" ELSE "connecting"]
       /\ UNCHANGED <<config, mode, redisUp, redis, memory, cooldown, since>>

\* Two lanes may connect at once; the connection that is ready last is kept.
Connected(s) ==
    /\ req[s].pc = "connecting" /\ redisUp
    /\ client' = [client EXCEPT ![s[1]] = "ready"]
    /\ req' = [req EXCEPT ![s].pc = "send"]
    /\ UNCHANGED <<config, mode, redisUp, redis, memory, cooldown, since>>

\* SET NX PX, the INCR script, or DEL.
ExecuteOnRedis(s) ==
    LET op == OpOf(s)
        bucket == redis[op.key]
    IN /\ req[s].pc = "send" /\ client[s[1]] = "ready"
       /\ redis' = [redis EXCEPT ![op.key] = After(bucket, op)]
       /\ since' = [since EXCEPT !["redis"][op.key] = Counted(@, bucket, op)]
       /\ req' = [req EXCEPT ![s] = [pc |-> "answer", kind |-> req[s].kind, step |-> req[s].step,
                                     result |-> Result(bucket, op)]]
       /\ UNCHANGED <<config, mode, redisUp, memory, client, cooldown>>

\* The answer of Redis arrives, and closes the circuit whoever opened it.
Answered(s) ==
    /\ req[s].pc = "answer"
    /\ cooldown' = [cooldown EXCEPT ![s[1]] = 0]
    /\ req' = [req EXCEPT ![s] = Proceed(s, req[s].result)]
    /\ UNCHANGED <<config, mode, redisUp, redis, memory, client, since>>

PrimaryFails(s) ==
    \/ req[s].pc = "connecting" /\ ~redisUp
    \/ req[s].pc = "send" /\ client[s[1]] # "ready"
    \/ req[s].pc = "cut"

\* Mutant: the circuit opens, and the call that found out fails.
FallBackUncaught(s) ==
    /\ PrimaryFails(s) /\ mode[s[1]] = "failover"
    /\ cooldown' = [cooldown EXCEPT ![s[1]] = Cooldown]
    /\ req' = [req EXCEPT ![s] = Idle("error")]
    /\ UNCHANGED <<config, mode, redisUp, redis, memory, client, since>>

\* The catch of execute: open the circuit and do the call again in memory.
FallBack(s) ==
    /\ PrimaryFails(s) /\ mode[s[1]] = "failover"
    /\ cooldown' = [cooldown EXCEPT ![s[1]] = Cooldown]
    /\ DoInMemory(s)
    /\ UNCHANGED <<config, mode, redisUp, redis, client>>

\* Without a failover store the error goes to the exception filter.
Fail(s) ==
    /\ PrimaryFails(s) /\ mode[s[1]] = "redis"
    /\ req' = [req EXCEPT ![s] = Idle("error")]
    /\ UNCHANGED <<config, mode, redisUp, redis, memory, client, cooldown, since>>

-----------------------------------------------------------------------------
(* Processes, Redis, time.                                                   *)

\* main.ts and the factory of RATE_LIMIT_STORE, which takes NODE_ENV as it is. With Redis away and no fallback
\* the process stops again.
Boot(p) ==
    LET allow == AllowFallback(config.nodeEnv, config.fallback)
    IN /\ mode[p] = "down"
       /\ mode' = [mode EXCEPT ![p] =
              IF ~Preflight(config) THEN "refused"
              ELSE IF config.driver = "memory" THEN "memory"
              ELSE IF allow THEN "failover"
              ELSE IF redisUp THEN "redis" ELSE "down"]
       /\ client' = [client EXCEPT ![p] =
              IF mode'[p] \in {"redis", "failover"} /\ redisUp THEN "ready" ELSE "none"]
       /\ cooldown' = [cooldown EXCEPT ![p] =
              IF mode'[p] = "failover" /\ ~redisUp THEN Cooldown ELSE 0]
       /\ UNCHANGED <<config, redisUp, redis, memory, req, since>>

Stop(p) ==
    /\ mode[p] \in {"memory", "failover", "redis"}
    /\ mode' = [mode EXCEPT ![p] = "down"]
    /\ client' = [client EXCEPT ![p] = "none"]
    /\ cooldown' = [cooldown EXCEPT ![p] = 0]
    /\ memory' = [memory EXCEPT ![p] = NoCounters]
    /\ since' = [since EXCEPT ![p] = NoAttempts]
    /\ req' = [s \in Slots |-> IF s[1] = p THEN Idle("ok") ELSE req[s]]
    /\ UNCHANGED <<config, redisUp, redis>>

\* Redis or the way to it breaks: answers on their way are lost, and the data
\* too when Redis itself stopped.
RedisBreaks ==
    /\ redisUp
    /\ redisUp' = FALSE
    /\ client' = [p \in Processes |-> IF client[p] = "ready" THEN "stale" ELSE client[p]]
    /\ req' = [s \in Slots |->
                  IF req[s].pc = "answer" THEN At("cut", req[s].kind, req[s].step) ELSE req[s]]
    /\ \/ UNCHANGED <<redis, since>>
       \/ redis' = NoCounters /\ since' = [since EXCEPT !["redis"] = NoAttempts]
    /\ UNCHANGED <<config, mode, memory, cooldown>>

RedisReturns ==
    /\ ~redisUp /\ redisUp' = TRUE
    /\ UNCHANGED <<config, mode, redis, memory, client, cooldown, req, since>>

Aged(bucket) == IF bucket.left <= 1 THEN Empty ELSE [bucket EXCEPT !.left = @ - 1]

Tick ==
    /\ redis' = [key \in Keys |-> Aged(redis[key])]
    /\ memory' = [p \in Processes |-> [key \in Keys |-> Aged(memory[p][key])]]
    /\ cooldown' = [p \in Processes |-> IF cooldown[p] = 0 THEN 0 ELSE cooldown[p] - 1]
    /\ since' = [store \in Stores |-> [key \in Keys |->
                    [age \in 0 .. Ttl[key] - 1 |->
                        IF age = 0 THEN 0 ELSE since[store][key][age - 1]]]]
    /\ UNCHANGED <<config, mode, redisUp, client, req>>

-----------------------------------------------------------------------------
Init ==
    /\ config \in Configs
    /\ mode = [p \in Processes |-> "down"]
    /\ redisUp \in BOOLEAN
    /\ redis = NoCounters
    /\ memory = [p \in Processes |-> NoCounters]
    /\ client = [p \in Processes |-> "none"]
    /\ cooldown = [p \in Processes |-> 0]
    /\ req = [s \in Slots |-> Idle("ok")]
    /\ since = [store \in Stores |-> NoAttempts]

Step(s) ==
    \/ CallFallback(s) \/ CallPrimary(s) \/ Connected(s) \/ ExecuteOnRedis(s)
    \/ Answered(s) \/ FallBack(s) \/ Fail(s)

Next ==
    \/ \E s \in Slots : Arrive(s) \/ Step(s)
    \/ \E p \in Processes : Boot(p) \/ Stop(p)
    \/ RedisBreaks \/ RedisReturns \/ Tick

\* The event loop serves every request, processes are started again, time passes.
\* Requests need not come and Redis need not return.
Spec ==
    /\ Init /\ [][Next]_vars
    /\ \A s \in Slots : WF_vars(Step(s))
    /\ \A p \in Processes : WF_vars(Boot(p))
    /\ WF_vars(Tick)

-----------------------------------------------------------------------------
\* No one is limited on account of attempts older than the time to live of the
\* counter, or made before the last reset that reached the store: a count is at
\* most the number of attempts in the store since (After: the time to live starts
\* with the first attempt and is not extended).
CountsAreRecent ==
    \A key \in Keys :
        /\ redis[key].count <= since["redis"][key][Ttl[key] - 1]
        /\ \A p \in Processes : memory[p][key].count <= since[p][key][Ttl[key] - 1]

\* A process that may fall back answers every request, whatever Redis does
\* (FailoverRateLimitStore.execute).
FallbackNeverFails ==
    \A s \in Slots :
        mode[s[1]] = "failover" /\ req[s].pc = "idle" => req[s].reply # "error"

\* In a release no process counts in its own memory, so limits are shared, in whatever
\* spelling NODE_ENV says that it is one; but where it is another spelling and the
\* fallback is left out, the factory falls back though the preflight took it for a
\* release (assertReleaseRuntimePreflight with the factory of the store).
ReleaseSharesItsLimits ==
    IsRelease(config) /\ (config.nodeEnv = "production" \/ config.fallback # "unset") =>
        \A p \in Processes : memory[p] = NoCounters

\* Once Redis stays reachable every process is back on it for good, failures in
\* flight and late successes included (execute: a fallback does not extend the
\* cooldown, a success ends it).
RecoversToPrimary == <>[]redisUp => <>[](\A p \in Processes : cooldown[p] = 0)
=============================================================================
