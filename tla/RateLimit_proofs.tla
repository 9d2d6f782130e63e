-------------------------- MODULE RateLimit_proofs --------------------------
(***************************************************************************)
(* Proofs about the stores of the rate limits, for any number of processes,*)
(* of requests at one time and of environments a deployment may have.      *)
(***************************************************************************)
EXTENDS RateLimit, TLAPS

\* A slot between two awaits of a call is a record of three fields.
Calling(r) == r.pc \in {"call", "connecting"} => r = At(r.pc, r.kind, r.step)

\* Only a process without a failover store lets an error through.
Quiet(m, r) == m # "redis" /\ r.pc = "idle" => r.reply # "error"

\* The preflight and the factory agree that a release does not fall back.
NoFallback(c) == IsRelease(c) /\ (c.nodeEnv = "production" \/ c.fallback # "unset")

\* A process of such a release that counts, counts in Redis.
Shared(c, m, counters) ==
    NoFallback(c) => m \notin {"memory", "failover"} /\ counters = NoCounters

RateInv ==
    /\ config \in Configs
    /\ mode \in [Processes -> {"down", "refused", "memory", "failover", "redis"}]
    /\ memory = [p \in Processes |-> memory[p]]
    /\ req = [s \in Slots |-> req[s]]
    /\ \A p \in Processes : Shared(config, mode[p], memory[p])
    /\ \A s \in Slots : Calling(req[s]) /\ Quiet(mode[s[1]], req[s])

-----------------------------------------------------------------------------

LEMMA Replies ==
    /\ \A reply : Idle(reply).pc = "idle" /\ Idle(reply).reply = reply
    /\ \A pc, kind, step : At(pc, kind, step).pc = pc /\ At(pc, kind, step) = At(pc, kind, step)
                           /\ Calling(At(pc, kind, step))
    /\ \A reply : Calling(Idle(reply))
  BY DEF Idle, At, Calling

\* What a slot does leaves it in order, whatever its process is.
LEMMA ProceedIsQuiet ==
    ASSUME NEW s, NEW result, NEW m
    PROVE  Calling(Proceed(s, result)) /\ Quiet(m, Proceed(s, result))
  <1>1. \/ Proceed(s, result) = Idle("limited")
        \/ Proceed(s, result) = Idle("ok")
        \/ Proceed(s, result) = At("call", req[s].kind, req[s].step + 1)
    BY DEF Proceed
  <1>2. Idle("limited").reply = "limited" /\ Idle("ok").reply = "ok"
    BY DEF Idle
  <1>3. At("call", req[s].kind, req[s].step + 1).pc = "call"
    BY DEF At
  <1>. QED BY <1>1, <1>2, <1>3, Replies DEF Quiet

\* One slot changes, no process does.
LEMMA SlotStep ==
    ASSUME RateInv, NEW s \in Slots, NEW next, req' = [req EXCEPT ![s] = next],
           Calling(next), Quiet(mode[s[1]], next),
           UNCHANGED <<config, mode, memory>>
    PROVE  RateInv'
  <1>1. req' = [t \in Slots |-> req'[t]]
    BY DEF RateInv
  <1>2. \A t \in Slots : req'[t] = IF t = s THEN next ELSE req[t]
    BY DEF RateInv
  <1>3. ASSUME NEW t \in Slots PROVE Calling(req'[t]) /\ Quiet(mode[t[1]], req'[t])
    <2>1. CASE t = s
      BY <1>2, <2>1
    <2>2. CASE t # s
      <3>1. req'[t] = req[t]
        BY <1>2, <2>2
      <3>2. PICK r : r = req[t]
        OBVIOUS
      <3>3. Calling(r) /\ Quiet(mode[t[1]], r)
        BY <3>2 DEF RateInv
      <3>. QED BY <3>1, <3>2, <3>3
    <2>. QED BY <2>1, <2>2
  <1>4. \A t \in Slots : Calling(req'[t]) /\ Quiet(mode'[t[1]], req'[t])
    BY <1>3
  <1>5. \A p \in Processes : Shared(config', mode'[p], memory'[p])
    BY DEF RateInv
  <1>. QED BY <1>1, <1>4, <1>5 DEF RateInv

\* A call that is done in memory, by a process that may.
LEMMA DoInMemoryStep ==
    ASSUME RateInv, NEW s \in Slots, mode[s[1]] \in {"memory", "failover"},
           DoInMemory(s), UNCHANGED <<config, mode>>
    PROVE  RateInv'
  <1>. DEFINE bucket == memory[s[1]][OpOf(s).key]
              next == Proceed(s, Result(bucket, OpOf(s)))
              counters == [memory[s[1]] EXCEPT ![OpOf(s).key] = After(bucket, OpOf(s))]
  <1>1. req' = [req EXCEPT ![s] = next] /\ memory' = [memory EXCEPT ![s[1]] = counters]
    BY DEF DoInMemory
  <1>2. \A m : Calling(next) /\ Quiet(m, next)
    BY ProceedIsQuiet
  <1>. HIDE DEF next, counters, bucket
  <1>3. s[1] \in Processes /\ ~NoFallback(config)
    BY DEF RateInv, Shared, Slots
  <1>4. /\ memory' = [p \in Processes |-> memory'[p]]
        /\ \A p \in Processes : Shared(config', mode'[p], memory'[p])
    BY <1>1, <1>3 DEF RateInv, Shared
  <1>5. req' = [t \in Slots |-> req'[t]] /\ \A t \in Slots : req'[t] = IF t = s THEN next ELSE req[t]
    BY <1>1 DEF RateInv
  <1>6. ASSUME NEW t \in Slots PROVE Calling(req'[t]) /\ Quiet(mode[t[1]], req'[t])
    <2>1. CASE t = s
      BY <1>2, <1>5, <2>1
    <2>2. CASE t # s
      <3>1. PICK r : r = req[t]
        OBVIOUS
      <3>2. Calling(r) /\ Quiet(mode[t[1]], r) /\ req'[t] = r
        BY <1>5, <2>2, <3>1 DEF RateInv
      <3>. QED BY <3>2
    <2>. QED BY <2>1, <2>2
  <1>7. \A t \in Slots : Calling(req'[t]) /\ Quiet(mode'[t[1]], req'[t])
    BY <1>6
  <1>. QED BY <1>4, <1>5, <1>7 DEF RateInv

LEMMA StepKeeps == ASSUME RateInv, NEW s \in Slots, Arrive(s) \/ Step(s) PROVE RateInv'
  <1>1. mode[s[1]] \in {"down", "refused", "memory", "failover", "redis"}
    BY DEF RateInv, Slots
  <1>2. CASE CallFallback(s)
    <2>1. mode[s[1]] \in {"memory", "failover"}
      BY <1>2 DEF CallFallback, FallbackActive
    <2>. QED BY <1>2, <2>1, DoInMemoryStep DEF CallFallback
  <1>3. CASE FallBack(s)
    BY <1>3, DoInMemoryStep DEF FallBack
  <1>4. CASE Fail(s)
    <2>1. Quiet(mode[s[1]], Idle("error")) /\ Calling(Idle("error"))
      BY <1>4, Replies DEF Fail, Quiet
    <2>. QED BY <1>4, <2>1, SlotStep DEF Fail
  <1>5. CASE Answered(s)
    <2>1. PICK next : next = Proceed(s, req[s].result)
      OBVIOUS
    <2>2. Calling(next) /\ Quiet(mode[s[1]], next)
      <3>1. PICK m : m = mode[s[1]]
        OBVIOUS
      <3>2. PICK result : result = req[s].result
        OBVIOUS
      <3>3. Calling(Proceed(s, result)) /\ Quiet(m, Proceed(s, result))
        BY ProceedIsQuiet
      <3>. QED BY <2>1, <3>1, <3>2, <3>3
    <2>. QED BY <1>5, <2>1, <2>2, SlotStep DEF Answered
  <1>6. CASE Arrive(s)
    <2>1. PICK kind : req' = [req EXCEPT ![s] = At("call", kind, 1)]
      BY <1>6 DEF Arrive
    <2>2. Calling(At("call", kind, 1)) /\ Quiet(mode[s[1]], At("call", kind, 1))
      BY Replies DEF Quiet
    <2>. QED BY <1>6, <2>1, <2>2, SlotStep DEF Arrive
  <1>7. CASE CallPrimary(s) \/ Connected(s)
    <2>1. req[s] = At(req[s].pc, req[s].kind, req[s].step)
      BY <1>7 DEF RateInv, Calling, CallPrimary, Connected
    <2>2. PICK pc \in {"send", "connecting"} : req' = [req EXCEPT ![s].pc = pc]
      BY <1>7 DEF CallPrimary, Connected
    <2>3. req' = [req EXCEPT ![s] = At(pc, req[s].kind, req[s].step)]
      <3>1. PICK r : r = req[s]
        OBVIOUS
      <3>2. [r EXCEPT !.pc = pc] = At(pc, r.kind, r.step)
        BY <2>1, <3>1 DEF At
      <3>. QED BY <2>2, <3>1, <3>2
    <2>4. PICK next : next = At(pc, req[s].kind, req[s].step)
      OBVIOUS
    <2>5. Calling(next) /\ Quiet(mode[s[1]], next)
      BY <2>4, Replies DEF Quiet
    <2>. QED BY <1>7, <2>3, <2>4, <2>5, SlotStep DEF CallPrimary, Connected
  <1>8. CASE ExecuteOnRedis(s)
    <2>1. PICK result : req' = [req EXCEPT ![s] = [pc |-> "answer", kind |-> req[s].kind,
                                                   step |-> req[s].step, result |-> result]]
      BY <1>8 DEF ExecuteOnRedis
    <2>2. PICK next : next = [pc |-> "answer", kind |-> req[s].kind, step |-> req[s].step,
                              result |-> result]
      OBVIOUS
    <2>3. next.pc = "answer"
      BY <2>2
    <2>4. Calling(next) /\ Quiet(mode[s[1]], next)
      BY <2>3 DEF Calling, Quiet
    <2>. QED BY <1>8, <2>1, <2>2, <2>4, SlotStep DEF ExecuteOnRedis
  <1>. QED BY <1>2, <1>3, <1>4, <1>5, <1>6, <1>7, <1>8 DEF Step

LEMMA BootKeeps == ASSUME RateInv, NEW p \in Processes, Boot(p) PROVE RateInv'
  <1>1. PICK m \in {"refused", "memory", "failover", "redis", "down"} :
            /\ mode' = [mode EXCEPT ![p] = m]
            /\ m \in {"memory", "failover"} => Preflight(config)
                    /\ (m = "memory" => config.driver = "memory")
                    /\ (m = "failover" => AllowFallback(config.nodeEnv, config.fallback))
    BY DEF Boot
  <1>2. mode[p] = "down" /\ UNCHANGED <<config, memory, req>>
    BY DEF Boot
  <1>3. config \in Config
    BY RateLimitAssumption DEF RateInv, RateLimitAssumption
  <1>4. NoFallback(config) => m \notin {"memory", "failover"}
    BY <1>1, <1>3 DEF Preflight, Config, NoFallback, IsRelease, Normalized, AllowFallback
  <1>5. /\ mode' \in [Processes -> {"down", "refused", "memory", "failover", "redis"}]
        /\ \A q \in Processes : mode'[q] = IF q = p THEN m ELSE mode[q]
    BY <1>1 DEF RateInv
  <1>6. \A q \in Processes : Shared(config, mode'[q], memory[q])
    BY <1>4, <1>5 DEF RateInv, Shared
  <1>7. \A s \in Slots : Quiet(mode'[s[1]], req[s])
    BY <1>2, <1>5 DEF RateInv, Quiet, Slots
  <1>. QED BY <1>2, <1>5, <1>6, <1>7 DEF RateInv

LEMMA StopKeeps == ASSUME RateInv, NEW p \in Processes, Stop(p) PROVE RateInv'
  <1>1. /\ mode' = [mode EXCEPT ![p] = "down"] /\ memory' = [memory EXCEPT ![p] = NoCounters]
        /\ req' = [s \in Slots |-> IF s[1] = p THEN Idle("ok") ELSE req[s]]
        /\ config' = config
    BY DEF Stop
  <1>2. /\ mode' \in [Processes -> {"down", "refused", "memory", "failover", "redis"}]
        /\ memory' = [q \in Processes |-> memory'[q]] /\ req' = [s \in Slots |-> req'[s]]
    BY <1>1 DEF RateInv
  <1>3. \A q \in Processes : Shared(config, mode'[q], memory'[q])
    BY <1>1 DEF RateInv, Shared
  <1>4. ASSUME NEW s \in Slots PROVE Calling(req'[s]) /\ Quiet(mode'[s[1]], req'[s])
    <2>1. CASE s[1] = p
      BY <1>1, <2>1, Replies DEF Quiet
    <2>2. CASE s[1] # p
      <3>1. PICK r : r = req[s]
        OBVIOUS
      <3>2. PICK m : m = mode[s[1]]
        OBVIOUS
      <3>3. s[1] \in Processes
        BY DEF Slots
      <3>4. Calling(r) /\ Quiet(m, r) /\ req'[s] = r /\ mode'[s[1]] = m
        BY <1>1, <2>2, <3>1, <3>2, <3>3 DEF RateInv
      <3>. QED BY <3>4
    <2>. QED BY <2>1, <2>2
  <1>. QED BY <1>1, <1>2, <1>3, <1>4 DEF RateInv

LEMMA RedisBreaksKeeps == ASSUME RateInv, RedisBreaks PROVE RateInv'
  <1>1. /\ req' = [s \in Slots |->
              IF req[s].pc = "answer" THEN At("cut", req[s].kind, req[s].step) ELSE req[s]]
        /\ UNCHANGED <<config, mode, memory>>
    BY DEF RedisBreaks
  <1>2. ASSUME NEW s \in Slots PROVE Calling(req'[s]) /\ Quiet(mode[s[1]], req'[s])
    <2>1. CASE req[s].pc = "answer"
      <3>1. req'[s] = At("cut", req[s].kind, req[s].step)
        BY <1>1, <2>1
      <3>2. PICK next : next = At("cut", req[s].kind, req[s].step)
        OBVIOUS
      <3>3. Calling(next) /\ next.pc = "cut"
        BY <3>2, Replies
      <3>. QED BY <3>1, <3>2, <3>3 DEF Quiet
    <2>2. CASE req[s].pc # "answer"
      <3>1. PICK r : r = req[s]
        OBVIOUS
      <3>2. Calling(r) /\ Quiet(mode[s[1]], r) /\ req'[s] = r
        BY <1>1, <2>2, <3>1 DEF RateInv
      <3>. QED BY <3>2
    <2>. QED BY <2>1, <2>2
  <1>3. \A s \in Slots : Calling(req'[s]) /\ Quiet(mode'[s[1]], req'[s])
    BY <1>1, <1>2
  <1>4. req' = [s \in Slots |-> req'[s]]
    BY <1>1
  <1>. QED BY <1>1, <1>3, <1>4 DEF RateInv

LEMMA TickKeeps == ASSUME RateInv, Tick PROVE RateInv'
  <1>1. /\ memory' = [p \in Processes |-> [key \in Keys |-> Aged(memory[p][key])]]
        /\ UNCHANGED <<config, mode, req>>
    BY DEF Tick
  <1>2. [key \in Keys |-> Aged(NoCounters[key])] = NoCounters
    BY DEF NoCounters, Aged, Empty
  <1>3. \A p \in Processes : Shared(config, mode[p], memory'[p])
    BY <1>1, <1>2 DEF RateInv, Shared
  <1>4. memory' = [p \in Processes |-> memory'[p]]
    BY <1>1
  <1>. QED BY <1>1, <1>3, <1>4 DEF RateInv

LEMMA InitRate == Init => RateInv
  <1>1. SUFFICES ASSUME Init PROVE RateInv
    OBVIOUS
  <1>2. \A s \in Slots : s[1] \in Processes
    BY DEF Slots
  <1>3. \A s \in Slots : Calling(req[s]) /\ Quiet(mode[s[1]], req[s])
    BY <1>1, Replies DEF Init, Quiet
  <1>. QED BY <1>1, <1>3 DEF Init, RateInv, Shared

LEMMA StepRate == RateInv /\ [Next]_vars => RateInv'
  <1>1. SUFFICES ASSUME RateInv, [Next]_vars PROVE RateInv'
    OBVIOUS
  <1>2. CASE UNCHANGED <<config, mode, memory, req>>
    BY <1>1, <1>2 DEF RateInv
  <1>. QED BY <1>1, <1>2, StepKeeps, BootKeeps, StopKeeps, RedisBreaksKeeps, TickKeeps
           DEF Next, RedisReturns, vars

\* Whatever Redis does, a process with a failover store answers every request, in
\* any environment.
THEOREM FallbackAnswers == Spec => []FallbackNeverFails
  <1>1. RateInv => FallbackNeverFails
    BY DEF RateInv, Quiet, FallbackNeverFails
  <1>. QED BY <1>1, InitRate, StepRate, PTL DEF Spec

\* A release that starts at all has its counters in Redis, whatever the spelling of
\* NODE_ENV when the fallback is given, and with it left out when NODE_ENV is exactly
\* "production": there what the preflight lets through never makes the factory choose a
\* store that counts in memory.
THEOREM ReleaseShares == Spec => []ReleaseSharesItsLimits
  <1>1. RateInv => ReleaseSharesItsLimits
    BY DEF RateInv, Shared, NoFallback, ReleaseSharesItsLimits
  <1>. QED BY <1>1, InitRate, StepRate, PTL DEF Spec
-----------------------------------------------------------------------------
(* Counters and the attempts they count.                                     *)

Numbers(a, ttl) == a = [age \in 0 .. ttl - 1 |-> a[age]] /\ \A age \in 0 .. ttl - 1 : a[age] \in Nat

\* Who is younger than so many ticks is younger than more.
Growing(a, ttl) == \A i, j \in 0 .. ttl - 1 : i <= j => a[i] <= a[j]

\* A counter has counted nothing from before it was there.
Young(b, a, ttl) ==
    /\ b = [count |-> b.count, left |-> b.left] /\ b.count \in Nat
    /\ b.count > 0 => b.left \in 1 .. ttl /\ b.count <= a[ttl - b.left]

Counter(b, a, key) == Numbers(a, Ttl[key]) /\ Growing(a, Ttl[key]) /\ Young(b, a, Ttl[key])

CountInv ==
    /\ redis = [key \in Keys |-> redis[key]]
    /\ memory = [p \in Processes |-> [key \in Keys |-> memory[p][key]]]
    /\ since = [store \in Stores |-> [key \in Keys |-> since[store][key]]]
    /\ \A key \in Keys :
        /\ Counter(redis[key], since["redis"][key], key)
        /\ \A p \in Processes : Counter(memory[p][key], since[p][key], key)

LEMMA BumpedFacts ==
    /\ \A n \in Nat : Bumped(n) \in Nat /\ n <= Bumped(n) /\ 1 <= Bumped(n)
    /\ \A m, n \in Nat : m <= n => Bumped(m) <= Bumped(n)
  <1>1. MaxCount \in Nat /\ MaxCount >= 1
    BY RateLimitAssumption DEF Keys
  <1>. QED BY <1>1 DEF Bumped

LEMMA NothingCounted == \A key \in Keys : Counter(Empty, NoAttempts[key], key)
  <1>1. SUFFICES ASSUME NEW key \in Keys PROVE Counter(Empty, NoAttempts[key], key)
    OBVIOUS
  <1>2. NoAttempts[key] = [age \in 0 .. Ttl[key] - 1 |-> 0]
    BY DEF NoAttempts
  <1>3. Empty.count = 0 /\ Empty = [count |-> Empty.count, left |-> Empty.left]
    BY DEF Empty
  <1>. QED BY <1>2, <1>3 DEF Counter, Numbers, Growing, Young

\* Whatever a store is asked for.
LEMMA CounterAfter ==
    ASSUME NEW b, NEW a, NEW op, op.key \in Keys, Counter(b, a, op.key)
    PROVE  Counter(After(b, op), Counted(a, b, op), op.key)
  <1>. DEFINE key == op.key
              ttl == Ttl[key]
              more == [age \in DOMAIN a |-> Bumped(a[age])]
  <1>1. ttl \in Nat /\ ttl >= 1
    BY RateLimitAssumption
  <1>2. DOMAIN a = 0 .. ttl - 1 /\ (\A age \in 0 .. ttl - 1 : a[age] \in Nat) /\ Growing(a, ttl)
    BY DEF Counter, Numbers
  <1>3. Young(b, a, ttl)
    BY DEF Counter
  <1>. HIDE DEF ttl
  <1>4. /\ \A age \in 0 .. ttl - 1 : more[age] \in Nat /\ a[age] <= more[age] /\ 1 <= more[age]
        /\ Numbers(more, ttl) /\ Growing(more, ttl)
    BY <1>2, BumpedFacts DEF Numbers, Growing
  <1>5. CASE op.do = "delete"
    <2>1. After(b, op) = Empty /\ Counted(a, b, op) = [age \in 0 .. ttl - 1 |-> 0]
      BY <1>2, <1>5 DEF After, Counted
    <2>2. NoAttempts[key] = [age \in 0 .. ttl - 1 |-> 0]
      BY DEF NoAttempts, ttl
    <2>. QED BY <2>1, <2>2, NothingCounted
  <1>6. CASE op.do # "delete" /\ b.count = 0
    <2>1. After(b, op) = [count |-> 1, left |-> ttl] /\ Counted(a, b, op) = more
      BY <1>6 DEF After, Counted, ttl
    <2>2. PICK c : c = [count |-> 1, left |-> ttl]
      OBVIOUS
    <2>3. c.count = 1 /\ c.left = ttl /\ c = [count |-> c.count, left |-> c.left]
      BY <2>2
    <2>4. ttl - ttl = 0 /\ 1 <= more[0] /\ ttl \in 1 .. ttl
      BY <1>1, <1>4
    <2>. HIDE DEF more
    <2>5. Young(c, more, ttl)
      BY <2>3, <2>4 DEF Young
    <2>. QED BY <1>4, <2>1, <2>2, <2>5 DEF Counter, ttl
  <1>7. CASE op.do = "increment" /\ b.count > 0
    <2>1. After(b, op) = [b EXCEPT !.count = Bumped(b.count)] /\ Counted(a, b, op) = more
      BY <1>3, <1>7 DEF After, Counted, Young
    <2>2. PICK c : c = [b EXCEPT !.count = Bumped(b.count)]
      OBVIOUS
    <2>3. c.count = Bumped(b.count) /\ c.left = b.left /\ c = [count |-> c.count, left |-> c.left]
      BY <1>3, <2>2 DEF Young
    <2>4. b.left \in 1 .. ttl /\ b.count <= a[ttl - b.left] /\ b.count \in Nat
      BY <1>3, <1>7 DEF Young
    <2>5. ttl - b.left \in 0 .. ttl - 1
      BY <1>1, <2>4
    <2>6. more[ttl - b.left] = Bumped(a[ttl - b.left]) /\ a[ttl - b.left] \in Nat
      BY <1>2, <2>5
    <2>. HIDE DEF more
    <2>7. Bumped(b.count) <= more[ttl - b.left] /\ Bumped(b.count) \in Nat
      BY <2>4, <2>6, BumpedFacts
    <2>8. Young(c, more, ttl)
      BY <2>3, <2>4, <2>7 DEF Young
    <2>. QED BY <1>4, <2>1, <2>2, <2>8 DEF Counter, ttl
  <1>8. CASE op.do \notin {"delete", "increment"} /\ b.count > 0
    <2>1. After(b, op) = b
      BY <1>3, <1>8 DEF After, Young
    <2>2. CASE Counted(a, b, op) = a
      BY <2>1, <2>2
    <2>3. CASE Counted(a, b, op) = more
      <3>1. b.left \in 1 .. ttl /\ b.count <= a[ttl - b.left] /\ b.count \in Nat
        BY <1>3, <1>8 DEF Young
      <3>2. ttl - b.left \in 0 .. ttl - 1
        BY <1>1, <3>1
      <3>3. a[ttl - b.left] \in Nat /\ more[ttl - b.left] \in Nat /\ a[ttl - b.left] <= more[ttl - b.left]
        BY <1>2, <1>4, <3>2
      <3>. HIDE DEF more
      <3>4. Young(b, more, ttl)
        BY <1>3, <3>1, <3>3 DEF Young
      <3>. QED BY <1>4, <2>1, <2>3, <3>4 DEF Counter, ttl
    <2>. QED BY <1>8, <2>2, <2>3 DEF Counted
  <1>9. b.count = 0 \/ b.count > 0
    BY <1>3 DEF Young
  <1>. QED BY <1>5, <1>6, <1>7, <1>8, <1>9

\* A tick makes what is counted a tick older.
LEMMA CounterAged ==
    ASSUME NEW key \in Keys, NEW b, NEW a, Counter(b, a, key)
    PROVE  Counter(Aged(b), [age \in 0 .. Ttl[key] - 1 |-> IF age = 0 THEN 0 ELSE a[age - 1]], key)
  <1>. DEFINE ttl == Ttl[key]
              older == [age \in 0 .. ttl - 1 |-> IF age = 0 THEN 0 ELSE a[age - 1]]
  <1>1. ttl \in Nat /\ ttl >= 1
    BY RateLimitAssumption
  <1>2. (\A age \in 0 .. ttl - 1 : a[age] \in Nat) /\ Growing(a, ttl) /\ Young(b, a, ttl)
    BY DEF Counter, Numbers
  <1>. HIDE DEF ttl
  <1>3. \A age \in 0 .. ttl - 1 : /\ older[age] \in Nat
                                  /\ age # 0 => age - 1 \in 0 .. ttl - 1 /\ older[age] = a[age - 1]
    BY <1>1, <1>2
  <1>4. Numbers(older, ttl)
    BY <1>3 DEF Numbers
  <1>5. Growing(older, ttl)
    <2>1. ASSUME NEW i \in 0 .. ttl - 1, NEW j \in 0 .. ttl - 1, i <= j PROVE older[i] <= older[j]
      <3>1. CASE i = 0
        BY <1>3, <3>1
      <3>2. CASE i # 0
        <4>1. j # 0 /\ i - 1 <= j - 1
          BY <2>1, <3>2
        <4>. QED BY <1>2, <1>3, <3>2, <4>1 DEF Growing
      <3>. QED BY <3>1, <3>2
    <2>. QED BY <2>1 DEF Growing
  <1>6. Young(Aged(b), older, ttl)
    <2>1. CASE b.left <= 1
      <3>1. Aged(b) = Empty /\ Empty.count = 0 /\ Empty = [count |-> Empty.count, left |-> Empty.left]
        BY <2>1 DEF Aged, Empty
      <3>. QED BY <3>1 DEF Young
    <2>2. CASE ~(b.left <= 1)
      <3>1. PICK c : c = Aged(b) /\ c = [b EXCEPT !.left = b.left - 1]
        BY <2>2 DEF Aged
      <3>2. c.count = b.count /\ c.left = b.left - 1 /\ c = [count |-> c.count, left |-> c.left]
        BY <1>2, <3>1 DEF Young
      <3>3. ASSUME b.count > 0 PROVE c.left \in 1 .. ttl /\ c.count <= older[ttl - c.left]
        <4>1. PICK l \in 1 .. ttl : l = b.left /\ b.count <= a[ttl - l]
          BY <1>2, <3>3 DEF Young
        <4>2. l - 1 \in 1 .. ttl /\ ttl - (l - 1) \in 0 .. ttl - 1 /\ ttl - (l - 1) # 0
              /\ ttl - (l - 1) - 1 = ttl - l
          BY <1>1, <2>2, <4>1
        <4>. HIDE DEF older
        <4>. QED BY <1>3, <3>2, <4>1, <4>2
      <3>. HIDE DEF older
      <3>. QED BY <1>2, <3>1, <3>2, <3>3 DEF Young
    <2>. QED BY <2>1, <2>2
  <1>. QED BY <1>4, <1>5, <1>6 DEF Counter, ttl

\* What a counter holds was counted within its time to live.
LEMMA CounterRecent ==
    ASSUME NEW key \in Keys, NEW b, NEW a, Counter(b, a, key)
    PROVE  b.count <= a[Ttl[key] - 1]
  <1>. DEFINE ttl == Ttl[key]
  <1>1. ttl \in Nat /\ ttl >= 1
    BY RateLimitAssumption
  <1>2. (\A age \in 0 .. ttl - 1 : a[age] \in Nat) /\ Growing(a, ttl) /\ Young(b, a, ttl)
    BY DEF Counter, Numbers
  <1>. HIDE DEF ttl
  <1>3. ttl - 1 \in 0 .. ttl - 1
    BY <1>1
  <1>4. CASE b.count = 0
    BY <1>2, <1>3, <1>4 DEF ttl
  <1>5. CASE b.count > 0
    <2>1. PICK l \in 1 .. ttl : l = b.left /\ b.count <= a[ttl - l] /\ b.count \in Nat
      BY <1>2, <1>5 DEF Young
    <2>2. ttl - l \in 0 .. ttl - 1 /\ ttl - l <= ttl - 1
      BY <1>1, <2>1
    <2>3. a[ttl - l] <= a[ttl - 1] /\ a[ttl - l] \in Nat /\ a[ttl - 1] \in Nat
      BY <1>2, <1>3, <2>2 DEF Growing
    <2>. QED BY <2>1, <2>3 DEF ttl
  <1>. QED BY <1>2, <1>4, <1>5 DEF Young

LEMMA StoresApart ==
    /\ "redis" \in Stores /\ "redis" \notin Processes
    /\ \A p \in Processes : p \in Stores /\ p # "redis"
  BY RateLimitAssumption DEF Stores

LEMMA SameCounts == ASSUME CountInv, UNCHANGED <<redis, memory, since>> PROVE CountInv'
  BY DEF CountInv

LEMMA InitCounts == Init => CountInv
  <1>1. SUFFICES ASSUME Init PROVE CountInv
    OBVIOUS
  <1>2. /\ redis = NoCounters /\ memory = [p \in Processes |-> NoCounters]
        /\ since = [store \in Stores |-> NoAttempts]
    BY <1>1 DEF Init
  <1>3. /\ NoCounters = [key \in Keys |-> NoCounters[key]] /\ \A key \in Keys : NoCounters[key] = Empty
        /\ NoAttempts = [key \in Keys |-> NoAttempts[key]]
    BY DEF NoCounters, NoAttempts
  <1>. QED BY <1>2, <1>3, NothingCounted, StoresApart DEF CountInv

\* A call that is done in memory.
LEMMA MemoryCounts ==
    ASSUME CountInv, NEW s \in Slots, DoInMemory(s), redis' = redis
    PROVE  CountInv'
  <1>1. PICK p, op : p \in Processes /\ p = s[1] /\ op = OpOf(s)
    BY DEF Slots
  <1>2. /\ memory' = [memory EXCEPT ![p][op.key] = After(memory[p][op.key], op)]
        /\ since' = [since EXCEPT ![p][op.key] = Counted(since[p][op.key], memory[p][op.key], op)]
    BY <1>1 DEF DoInMemory
  <1>3. /\ memory' = [q \in Processes |-> [key \in Keys |-> memory'[q][key]]]
        /\ since' = [store \in Stores |-> [key \in Keys |-> since'[store][key]]]
        /\ \A q \in Processes \ {p} : memory'[q] = memory[q] /\ since'[q] = since[q]
        /\ since'["redis"] = since["redis"]
    <2>1. p # "redis" /\ p \in Stores
      BY <1>1, StoresApart
    <2>2. PICK counter, attempts : /\ memory' = [memory EXCEPT ![p][op.key] = counter]
                                   /\ since' = [since EXCEPT ![p][op.key] = attempts]
      BY <1>2
    <2>3. /\ memory' = [q \in Processes |-> [key \in Keys |-> memory'[q][key]]]
          /\ \A q \in Processes \ {p} : memory'[q] = memory[q]
      <3>1. PICK counters : counters = [memory[p] EXCEPT ![op.key] = counter]
        OBVIOUS
      <3>2. memory' = [memory EXCEPT ![p] = counters]
        BY <2>2, <3>1
      <3>3. counters = [key \in Keys |-> counters[key]]
        BY <1>1, <3>1 DEF CountInv
      <3>4. memory' = [q \in Processes |-> IF q = p THEN counters ELSE memory[q]]
        BY <1>1, <3>2 DEF CountInv
      <3>5. \A q \in Processes : memory'[q] = [key \in Keys |-> memory'[q][key]]
        BY <3>3, <3>4 DEF CountInv
      <3>. QED BY <3>4, <3>5
    <2>4. /\ since' = [store \in Stores |-> [key \in Keys |-> since'[store][key]]]
          /\ \A store \in Stores \ {p} : since'[store] = since[store]
      BY <2>1, <2>2, ZenonT(40) DEF CountInv
    <2>. QED BY <2>1, <2>3, <2>4, StoresApart
  <1>4. ASSUME NEW key \in Keys PROVE Counter(memory'[p][key], since'[p][key], key)
    <2>1. Counter(memory[p][key], since[p][key], key)
      BY <1>1 DEF CountInv
    <2>2. CASE key = op.key
      <3>1. PICK b, a : b = memory[p][key] /\ a = since[p][key]
        OBVIOUS
      <3>2. memory'[p][key] = After(b, op) /\ since'[p][key] = Counted(a, b, op)
        BY <1>1, <1>2, <2>2, <3>1, StoresApart DEF CountInv
      <3>3. Counter(After(b, op), Counted(a, b, op), op.key)
        BY <2>1, <2>2, <3>1, CounterAfter
      <3>. QED BY <2>2, <3>2, <3>3
    <2>3. CASE key # op.key
      <3>1. memory'[p][key] = memory[p][key] /\ since'[p][key] = since[p][key]
        BY <1>1, <1>2, <2>3, StoresApart DEF CountInv
      <3>. QED BY <2>1, <3>1
    <2>. QED BY <2>2, <2>3
  <1>5. ASSUME NEW key \in Keys
        PROVE  /\ Counter(redis'[key], since'["redis"][key], key)
               /\ \A q \in Processes : Counter(memory'[q][key], since'[q][key], key)
    BY <1>1, <1>3, <1>4 DEF CountInv
  <1>. QED BY <1>3, <1>5 DEF CountInv

LEMMA RedisCounts == ASSUME CountInv, NEW s \in Slots, ExecuteOnRedis(s) PROVE CountInv'
  <1>1. PICK op : op = OpOf(s)
    OBVIOUS
  <1>2. /\ redis' = [redis EXCEPT ![op.key] = After(redis[op.key], op)] /\ memory' = memory
        /\ since' = [since EXCEPT !["redis"][op.key] = Counted(since["redis"][op.key], redis[op.key], op)]
    BY <1>1 DEF ExecuteOnRedis
  <1>3. /\ redis' = [key \in Keys |-> redis'[key]]
        /\ since' = [store \in Stores |-> [key \in Keys |-> since'[store][key]]]
        /\ \A p \in Processes : since'[p] = since[p]
    BY <1>2, StoresApart, ZenonT(40) DEF CountInv
  <1>4. ASSUME NEW key \in Keys PROVE Counter(redis'[key], since'["redis"][key], key)
    <2>1. Counter(redis[key], since["redis"][key], key)
      BY DEF CountInv
    <2>2. CASE key = op.key
      <3>1. PICK b, a : b = redis[key] /\ a = since["redis"][key]
        OBVIOUS
      <3>2. redis'[key] = After(b, op) /\ since'["redis"][key] = Counted(a, b, op)
        BY <1>2, <2>2, <3>1, StoresApart DEF CountInv
      <3>3. Counter(After(b, op), Counted(a, b, op), op.key)
        BY <2>1, <2>2, <3>1, CounterAfter
      <3>. QED BY <2>2, <3>2, <3>3
    <2>3. CASE key # op.key
      <3>1. redis'[key] = redis[key] /\ since'["redis"][key] = since["redis"][key]
        BY <1>2, <2>3, StoresApart DEF CountInv
      <3>. QED BY <2>1, <3>1
    <2>. QED BY <2>2, <2>3
  <1>5. ASSUME NEW key \in Keys
        PROVE  /\ Counter(redis'[key], since'["redis"][key], key)
               /\ \A p \in Processes : Counter(memory'[p][key], since'[p][key], key)
    BY <1>2, <1>3, <1>4 DEF CountInv
  <1>. QED BY <1>2, <1>3, <1>5 DEF CountInv

\* A process or Redis loses what it counted, and the attempts with it.
LEMMA StopCounts == ASSUME CountInv, NEW p \in Processes, Stop(p) PROVE CountInv'
  <1>1. /\ redis' = redis /\ memory' = [memory EXCEPT ![p] = NoCounters]
        /\ since' = [since EXCEPT ![p] = NoAttempts]
    BY DEF Stop
  <1>2. /\ NoCounters = [key \in Keys |-> NoCounters[key]] /\ \A key \in Keys : NoCounters[key] = Empty
        /\ NoAttempts = [key \in Keys |-> NoAttempts[key]]
    BY DEF NoCounters, NoAttempts
  <1>3. /\ memory'[p] = NoCounters /\ since'[p] = NoAttempts /\ since'["redis"] = since["redis"]
        /\ \A q \in Processes \ {p} : memory'[q] = memory[q] /\ since'[q] = since[q]
        /\ memory' = [q \in Processes |-> [key \in Keys |-> memory'[q][key]]]
        /\ since' = [store \in Stores |-> [key \in Keys |-> since'[store][key]]]
    BY <1>1, <1>2, StoresApart DEF CountInv
  <1>4. ASSUME NEW key \in Keys, NEW q \in Processes PROVE Counter(memory'[q][key], since'[q][key], key)
    <2>1. CASE q = p
      BY <1>2, <1>3, <2>1, NothingCounted
    <2>2. CASE q # p
      BY <1>3, <2>2 DEF CountInv
    <2>. QED BY <2>1, <2>2
  <1>. QED BY <1>1, <1>3, <1>4 DEF CountInv

LEMMA RedisBreaksCounts == ASSUME CountInv, RedisBreaks PROVE CountInv'
  <1>1. CASE UNCHANGED <<redis, since>>
    BY <1>1, SameCounts DEF RedisBreaks
  <1>2. CASE redis' = NoCounters /\ since' = [since EXCEPT !["redis"] = NoAttempts]
    <2>1. /\ NoCounters = [key \in Keys |-> NoCounters[key]] /\ \A key \in Keys : NoCounters[key] = Empty
          /\ NoAttempts = [key \in Keys |-> NoAttempts[key]] /\ memory' = memory
      BY DEF NoCounters, NoAttempts, RedisBreaks
    <2>2. /\ since'["redis"] = NoAttempts /\ \A p \in Processes : since'[p] = since[p]
          /\ since' = [store \in Stores |-> [key \in Keys |-> since'[store][key]]]
      BY <1>2, <2>1, StoresApart DEF CountInv
    <2>3. ASSUME NEW key \in Keys
          PROVE  /\ Counter(redis'[key], since'["redis"][key], key)
                 /\ \A p \in Processes : Counter(memory'[p][key], since'[p][key], key)
      BY <1>2, <2>1, <2>2, NothingCounted DEF CountInv
    <2>. QED BY <1>2, <2>1, <2>2, <2>3 DEF CountInv
  <1>. QED BY <1>1, <1>2 DEF RedisBreaks

LEMMA TickCounts == ASSUME CountInv, Tick PROVE CountInv'
  <1>. DEFINE Older(a, key) == [age \in 0 .. Ttl[key] - 1 |-> IF age = 0 THEN 0 ELSE a[age - 1]]
  <1>1. /\ redis' = [key \in Keys |-> Aged(redis[key])]
        /\ memory' = [p \in Processes |-> [key \in Keys |-> Aged(memory[p][key])]]
        /\ since' = [store \in Stores |-> [key \in Keys |-> Older(since[store][key], key)]]
    BY DEF Tick
  <1>2. \A key \in Keys : \A b, a : Counter(b, a, key) => Counter(Aged(b), Older(a, key), key)
    BY CounterAged
  <1>. HIDE DEF Older
  <1>3. ASSUME NEW key \in Keys
        PROVE  /\ Counter(redis'[key], since'["redis"][key], key)
               /\ \A p \in Processes : Counter(memory'[p][key], since'[p][key], key)
    <2>1. Counter(redis'[key], since'["redis"][key], key)
      <3>1. PICK b, a : b = redis[key] /\ a = since["redis"][key]
        OBVIOUS
      <3>2. redis'[key] = Aged(b) /\ since'["redis"][key] = Older(a, key) /\ Counter(b, a, key)
        BY <1>1, <3>1, StoresApart DEF CountInv
      <3>. QED BY <1>2, <3>2
    <2>2. ASSUME NEW p \in Processes PROVE Counter(memory'[p][key], since'[p][key], key)
      <3>1. PICK b, a : b = memory[p][key] /\ a = since[p][key]
        OBVIOUS
      <3>2. memory'[p][key] = Aged(b) /\ since'[p][key] = Older(a, key) /\ Counter(b, a, key)
        BY <1>1, <3>1, StoresApart DEF CountInv
      <3>. QED BY <1>2, <3>2
    <2>. QED BY <2>1, <2>2
  <1>4. /\ redis' = [key \in Keys |-> redis'[key]]
        /\ memory' = [p \in Processes |-> [key \in Keys |-> memory'[p][key]]]
        /\ since' = [store \in Stores |-> [key \in Keys |-> since'[store][key]]]
    BY <1>1
  <1>. QED BY <1>3, <1>4 DEF CountInv

LEMMA StepCounts == CountInv /\ [Next]_vars => CountInv'
  <1>1. SUFFICES ASSUME CountInv, [Next]_vars PROVE CountInv'
    OBVIOUS
  <1>2. ASSUME NEW s \in Slots, Arrive(s) \/ Step(s) PROVE CountInv'
    <2>1. CASE CallFallback(s)
      BY <1>1, <2>1, MemoryCounts DEF CallFallback
    <2>2. CASE FallBack(s)
      BY <1>1, <2>2, MemoryCounts DEF FallBack
    <2>3. CASE ExecuteOnRedis(s)
      BY <1>1, <2>3, RedisCounts
    <2>4. CASE UNCHANGED <<redis, memory, since>>
      BY <1>1, <2>4, SameCounts
    <2>. QED BY <1>2, <2>1, <2>2, <2>3, <2>4
             DEF Step, Arrive, CallPrimary, Connected, Answered, Fail
  <1>3. ASSUME NEW p \in Processes, Boot(p) \/ Stop(p) PROVE CountInv'
    BY <1>1, <1>3, SameCounts, StopCounts DEF Boot
  <1>4. CASE RedisReturns \/ UNCHANGED vars
    BY <1>1, <1>4, SameCounts DEF RedisReturns, vars
  <1>. QED BY <1>1, <1>2, <1>3, <1>4, RedisBreaksCounts, TickCounts DEF Next

\* In either store a count is at most the number of attempts of the last time to
\* live: the counter went with the first of them, and none makes it live longer.
THEOREM CountsStayRecent == Spec => []CountsAreRecent
  <1>1. CountInv => CountsAreRecent
    BY CounterRecent DEF CountInv, CountsAreRecent
  <1>. QED BY <1>1, InitCounts, StepCounts, PTL DEF Spec
=============================================================================
