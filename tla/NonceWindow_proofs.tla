-------------------------- MODULE NonceWindow_proofs --------------------------
(* For every skew, life of a nonce and set of requests that satisfy           *)
(* WindowAssumption.                                                          *)
EXTENDS NonceWindow, TLAPS

LEMMA DivisionBounds ==
    ASSUME NEW s \in Nat \ {0}, NEW t \in Nat
    PROVE  /\ t \div s \in Nat
           /\ s * (t \div s) <= t
           /\ t < s * (t \div s) + s
<1>1. t \div s \in Int /\ t % s \in 0 .. (s - 1) /\ t = s * (t \div s) + (t % s)
  BY SMT
<1>2. t \div s >= 0
  BY SMT
<1> QED
  BY <1>1, <1>2, SMT

-----------------------------------------------------------------------------
\* A served request of this process is remembered until its life is over.
Remembered ==
    \A i \in DOMAIN served :
        /\ served[i].at <= now
        /\ served[i].boot <= boot
        /\ served[i].boot = boot =>
               \/ served[i].at + NonceLife <= now
               \/ seen[<<served[i].key, served[i].nonce>>] >= served[i].at + NonceLife

\* Its timestamp was not too old when the clock was first read.
InTime ==
    \A i \in DOMAIN served :
        /\ served[i].checked <= served[i].at
        /\ (served[i].checked \div Second) <= served[i].timestamp + MaxSkew

\* What the checks before the nonce have established.
Verified ==
    \A v \in verifying :
        /\ v.request.key \in KnownKeys /\ v.request.nonce \in Nonces
        /\ v.request.timestamp \in Timestamps
        /\ v.checked <= now
        /\ (v.checked \div Second) <= v.request.timestamp + MaxSkew

IInv ==
    TypeOK /\ Remembered /\ OncePerLife /\ InTime /\ Verified /\ OnlyServedIsRemembered

LEMMA ServedIsComplete ==
    ASSUME NEW r \in Requests, Refusal(r) = Served
    PROVE  /\ r.key \in KnownKeys /\ r.nonce \in Nonces /\ r.timestamp \in Timestamps
           /\ ~Skewed(r.timestamp) /\ r.signed
<1>1. r \in Request
  BY RequestsAssumption
<1>2. AuthMissing # Served /\ VersionUnsupported # Served /\ TimestampSkew # Served
      /\ SignatureInvalid # Served
  BY DEF AuthMissing, VersionUnsupported, TimestampSkew, SignatureInvalid, Served
<1>3. ~HeaderMissing(r) /\ r.key \in KnownKeys /\ r.timestamp # NotANumber
      /\ ~Skewed(r.timestamp) /\ r.signed
  BY <1>2 DEF Refusal
<1>4. r.nonce # None /\ r.timestamp # None
  BY <1>1, <1>3 DEF HeaderMissing, Request
<1> QED
  BY <1>1, <1>3, <1>4 DEF Request

LEMMA ServedFacts ==
    ASSUME TypeOK
    PROVE  /\ Len(served) \in Nat /\ DOMAIN served = 1 .. Len(served)
           /\ \A i \in DOMAIN served :
                /\ served[i] \in Entry
                /\ served[i].key \in KnownKeys /\ served[i].nonce \in Nonces
                /\ served[i].timestamp \in Timestamps
                /\ served[i].checked \in Nat /\ served[i].at \in Nat
                /\ served[i].boot \in Nat
<1>1. served \in Seq(Entry)
  BY DEF TypeOK
<1>2. Len(served) \in Nat /\ DOMAIN served = 1 .. Len(served)
  BY <1>1
<1>3. \A i \in DOMAIN served : served[i] \in Entry
  BY <1>1, <1>2
<1> QED
  BY <1>2, <1>3 DEF Entry

LEMMA InitIInv == ASSUME Init PROVE IInv
<1>1. TypeOK
  BY DEF Init, TypeOK
<1>2. DOMAIN served = {}
  BY DEF Init
<1>3. Remembered /\ OncePerLife /\ InTime /\ Verified
  BY <1>2 DEF Remembered, OncePerLife, InTime, Init, Verified
<1>4. OnlyServedIsRemembered
  <2>1. \A id \in KnownKeys \X Nonces : seen[id] = 0 /\ now = 0
    BY DEF Init
  <2> QED
    BY <2>1 DEF OnlyServedIsRemembered
<1> QED
  BY <1>1, <1>3, <1>4 DEF IInv

LEMMA UnexpiredType == TypeOK => Unexpired \in [KnownKeys \X Nonces -> Nat]
  BY DEF TypeOK, Unexpired

\* Dropping what has expired keeps what the invariant needs.
LEMMA UnexpiredKeeps ==
    ASSUME TypeOK, NEW id \in KnownKeys \X Nonces
    PROVE  /\ seen[id] > now => Unexpired[id] = seen[id]
           /\ Unexpired[id] > now => Unexpired[id] = seen[id]
  BY DEF TypeOK, Unexpired

LEMMA Unmoved ==
    ASSUME IInv, TypeOK', Verified', now' = now, boot' = boot, seen' = seen, served' = served
    PROVE  IInv'
<1>1. Remembered'
  BY DEF IInv, Remembered
<1>2. OncePerLife'
  BY DEF IInv, OncePerLife, Repeated
<1>3. InTime'
  BY DEF IInv, InTime
<1>4. OnlyServedIsRemembered'
  <2> SUFFICES ASSUME NEW k \in KnownKeys \X Nonces, seen'[k] > now'
               PROVE  \E i \in DOMAIN served' :
                        /\ k = <<served'[i].key, served'[i].nonce>>
                        /\ served'[i].boot = boot'
                        /\ seen'[k] = served'[i].at + NonceLife
    BY DEF OnlyServedIsRemembered
  <2>1. PICK i \in DOMAIN served :
          /\ k = <<served[i].key, served[i].nonce>> /\ served[i].boot = boot
          /\ seen[k] = served[i].at + NonceLife
    BY DEF IInv, OnlyServedIsRemembered
  <2> QED
    BY <2>1
<1> QED
  BY <1>1, <1>2, <1>3, <1>4 DEF IInv

LEMMA RefuseIInv == ASSUME IInv, NEW r \in Requests, Refuse(r) PROVE IInv'
<1>1. TypeOK'
  BY DEF IInv, TypeOK, Refuse, Refusal, Entry
<1>2. now' = now /\ boot' = boot /\ seen' = seen /\ served' = served
  BY DEF Refuse
<1>3. Verified'
  BY DEF IInv, Verified, Refuse
<1> QED
  BY <1>1, <1>2, <1>3, Unmoved

LEMMA VerifyIInv == ASSUME IInv, NEW r \in Requests, Verify(r) PROVE IInv'
<1>1. now' = now /\ boot' = boot /\ seen' = seen /\ served' = served /\ answer' = answer
      /\ verifying' = {[request |-> r, checked |-> now]}
  BY DEF Verify
<1>2. now \in Nat /\ r.key \in KnownKeys /\ r.nonce \in Nonces
      /\ r.timestamp \in Timestamps /\ ~Skewed(r.timestamp)
  BY ServedIsComplete DEF Verify, IInv, TypeOK
<1>3. TypeOK'
  BY <1>1, <1>2 DEF IInv, TypeOK, Entry
<1>4. (now \div Second) <= r.timestamp + MaxSkew
  <2>1. now \div Second \in Nat /\ MaxSkew \in Nat /\ r.timestamp \in Nat
    BY <1>2, WindowAssumption, DivisionBounds
  <2> QED
    BY <2>1, <1>2 DEF Skewed
<1>5. Verified'
  BY <1>1, <1>2, <1>4 DEF Verified
<1> QED
  BY <1>1, <1>3, <1>5, Unmoved

LEMMA RefuseReplayIInv == ASSUME IInv, NEW v \in verifying, RefuseReplay(v) PROVE IInv'
<1> USE DEF IInv
<1>1. TypeOK'
  BY UnexpiredType DEF TypeOK, RefuseReplay, Entry
<1>2. Remembered'
  <2> SUFFICES ASSUME NEW i \in DOMAIN served
               PROVE  /\ served[i].at <= now /\ served[i].boot <= boot
                      /\ served[i].boot = boot =>
                           \/ served[i].at + NonceLife <= now
                           \/ Unexpired[<<served[i].key, served[i].nonce>>] >= served[i].at + NonceLife
    BY DEF Remembered, RefuseReplay
  <2>1. served[i] \in Entry
    BY ServedFacts
  <2> DEFINE old == <<served[i].key, served[i].nonce>>
  <2>2. old \in KnownKeys \X Nonces /\ served[i].at \in Nat /\ NonceLife \in Nat /\ now \in Nat
    BY ServedFacts, WindowAssumption DEF TypeOK
  <2>3. seen[old] \in Nat /\ Unexpired[old] \in Nat
    BY <2>2, UnexpiredType DEF TypeOK
  <2>4. seen[old] > now => Unexpired[old] = seen[old]
    BY <2>2, UnexpiredKeeps
  <2>5. /\ served[i].at <= now /\ served[i].boot <= boot
        /\ served[i].boot = boot => \/ served[i].at + NonceLife <= now
                                    \/ seen[old] >= served[i].at + NonceLife
    BY DEF Remembered
  <2> HIDE DEF old
  <2>6. served[i].boot = boot => \/ served[i].at + NonceLife <= now
                                 \/ Unexpired[old] >= served[i].at + NonceLife
    BY <2>2, <2>3, <2>4, <2>5
  <2> QED
    BY <2>5, <2>6 DEF old
<1>3. OncePerLife'
  BY DEF OncePerLife, Repeated, RefuseReplay
<1>5. InTime' /\ Verified'
  BY DEF InTime, RefuseReplay, Verified
<1>6. now' = now /\ boot' = boot
  BY DEF RefuseReplay
<1>4. OnlyServedIsRemembered'
  <2> SUFFICES ASSUME NEW k \in KnownKeys \X Nonces, seen'[k] > now
               PROVE  \E i \in DOMAIN served' :
                        /\ k = <<served'[i].key, served'[i].nonce>>
                        /\ served'[i].boot = boot
                        /\ seen'[k] = served'[i].at + NonceLife
    BY <1>1, <1>6 DEF OnlyServedIsRemembered, TypeOK
  <2>1. /\ seen' = Unexpired /\ served' = served /\ now' = now /\ boot' = boot
    BY DEF RefuseReplay
  <2>2. seen[k] > now /\ Unexpired[k] = seen[k]
    BY <2>1, UnexpiredKeeps
  <2>3. PICK i \in DOMAIN served :
          /\ k = <<served[i].key, served[i].nonce>> /\ served[i].boot = boot
          /\ seen[k] = served[i].at + NonceLife
    BY <2>2 DEF IInv, OnlyServedIsRemembered
  <2> QED
    BY <2>1, <2>2, <2>3
<1> QED
  BY <1>1, <1>2, <1>3, <1>5, <1>4

LEMMA AcceptIInv == ASSUME IInv, NEW v \in verifying, Accept(v) PROVE IInv'
<1> USE DEF IInv
<1> DEFINE r == v.request
           entry == [key |-> r.key, nonce |-> r.nonce, timestamp |-> r.timestamp,
                     checked |-> v.checked, at |-> now, boot |-> boot]
           n == Len(served)
           id == <<r.key, r.nonce>>
<1>1. r.key \in KnownKeys /\ r.nonce \in Nonces /\ r.timestamp \in Timestamps
      /\ v.checked \in Nat /\ v.checked <= now
      /\ (v.checked \div Second) <= r.timestamp + MaxSkew
  BY DEF Verified, TypeOK
<1>2. entry \in Entry /\ id \in KnownKeys \X Nonces
  BY <1>1 DEF TypeOK, Entry
<1>3. /\ served' = Append(served, entry) /\ n \in Nat /\ DOMAIN served = 1 .. n
      /\ DOMAIN served' = 1 .. (n + 1)
      /\ \A i \in 1 .. n : served'[i] = served[i] /\ served[i] \in Entry
      /\ served'[n + 1] = entry
  <2>1. served' = Append(served, entry)
    BY DEF Accept
  <2>2. served \in Seq(Entry)
    BY DEF TypeOK
  <2> HIDE DEF entry
  <2> QED
    BY <2>1, <2>2, <1>2
<1>4. /\ seen' = [Unexpired EXCEPT ![id] = now + NonceLife]
      /\ Unexpired \in [KnownKeys \X Nonces -> Nat]
      /\ now \in Nat /\ boot \in Nat /\ NonceLife \in Nat /\ NonceLife > 0 /\ now' = now /\ boot' = boot
      /\ ~(Unexpired[id] > now)
  <2>1. /\ seen' = [Unexpired EXCEPT ![id] = now + NonceLife]
        /\ now' = now /\ boot' = boot /\ ~(Unexpired[id] > now)
    BY DEF Accept, Id
  <2>2. Unexpired \in [KnownKeys \X Nonces -> Nat]
    BY UnexpiredType
  <2>3. now \in Nat /\ boot \in Nat /\ NonceLife \in Nat /\ NonceLife > 0
    BY WindowAssumption DEF TypeOK
  <2> QED
    BY <2>1, <2>2, <2>3
<1>5. TypeOK'
  <2>1. served' \in Seq(Entry)
    <3>1. served \in Seq(Entry)
      BY DEF TypeOK
    <3> HIDE DEF entry
    <3> QED
      BY <3>1, <1>2, <1>3
  <2>2. seen' \in [KnownKeys \X Nonces -> Nat]
    <3>1. now + NonceLife \in Nat
      BY <1>4
    <3> HIDE DEF id
    <3> QED
      BY <3>1, <1>4
  <2>3. answer' = Served /\ verifying' = {}
    BY DEF Accept
  <2> QED
    BY <2>1, <2>2, <2>3, <1>4 DEF TypeOK
<1> HIDE DEF entry, id
<1>6. entry.key = r.key /\ entry.nonce = r.nonce /\ entry.timestamp = r.timestamp
      /\ entry.checked = v.checked
      /\ entry.at = now /\ entry.boot = boot /\ id = <<r.key, r.nonce>>
  BY DEF entry, id
<1> HIDE DEF r
<1>7. Remembered'
  <2> SUFFICES ASSUME NEW i \in DOMAIN served'
               PROVE  /\ served'[i].at <= now /\ served'[i].boot <= boot
                      /\ served'[i].boot = boot =>
                           \/ served'[i].at + NonceLife <= now
                           \/ seen'[<<served'[i].key, served'[i].nonce>>] >= served'[i].at + NonceLife
    BY <1>4 DEF Remembered
  <2>1. CASE i = n + 1
    BY <2>1, <1>2, <1>3, <1>4, <1>6
  <2>2. CASE i \in 1 .. n
    <3> DEFINE old == <<served[i].key, served[i].nonce>>
    <3>1. served'[i] = served[i] /\ old \in KnownKeys \X Nonces /\ served[i].at \in Nat
      BY <2>2, <1>3 DEF Entry
    <3>2. seen[old] \in Nat
      BY <3>1 DEF TypeOK
    <3>3. seen'[old] = IF old = id THEN now + NonceLife ELSE Unexpired[old]
      BY <3>1, <1>2, <1>4
    <3>4. served[i].at <= now /\ served[i].boot <= boot
          /\ (served[i].boot = boot => \/ served[i].at + NonceLife <= now
                                       \/ seen[old] >= served[i].at + NonceLife)
      BY <2>2, <1>3 DEF Remembered
    <3>5. seen[old] > now => Unexpired[old] = seen[old]
      BY <3>1, UnexpiredKeeps
    <3> QED
      BY <3>1, <3>2, <3>3, <3>4, <3>5, <1>4
  <2> QED
    BY <1>3, <2>1, <2>2, SMTT(30)
<1>8. OncePerLife'
  <2> SUFFICES ASSUME NEW i \in 1 .. (n + 1), NEW j \in 1 .. (n + 1), Repeated(i, j)'
               PROVE  served'[j].at >= served'[i].at + NonceLife
    BY <1>3 DEF OncePerLife
  <2>1. CASE j \in 1 .. n
    <3>1. i \in 1 .. n
      BY <2>1, <1>3 DEF Repeated
    <3> QED
      BY <2>1, <3>1, <1>3 DEF OncePerLife, Repeated
  <2>2. CASE j = n + 1
    <3>1. i \in 1 .. n /\ served'[i] = served[i]
      BY <2>2, <1>3 DEF Repeated
    <3>2. served[i].boot = boot /\ <<served[i].key, served[i].nonce>> = id
      BY <2>2, <3>1, <1>3, <1>6 DEF Repeated
    <3>3. served[i].at + NonceLife <= now \/ seen[id] >= served[i].at + NonceLife
      BY <3>1, <3>2, <1>3 DEF Remembered
    <3>4. seen[id] > now => Unexpired[id] = seen[id]
      BY <1>2, UnexpiredKeeps
    <3>5. seen[id] \in Nat /\ served[i].at \in Nat
      BY <1>2, <1>3, <3>1 DEF TypeOK, Entry
    <3> QED
      BY <2>2, <3>1, <3>3, <3>4, <3>5, <1>3, <1>4, <1>6
  <2> QED
    BY <1>3, <2>1, <2>2
<1>9. InTime' /\ Verified'
  <2>1. verifying' = {}
    BY DEF Accept
  <2>2. ASSUME NEW i \in 1 .. (n + 1)
        PROVE  /\ served'[i].checked <= served'[i].at
               /\ (served'[i].checked \div Second) <= served'[i].timestamp + MaxSkew
    <3>1. CASE i = n + 1
      BY <3>1, <1>1, <1>3, <1>6
    <3>2. CASE i \in 1 .. n
      BY <3>2, <1>3 DEF InTime
    <3> QED
      BY <1>3, <3>1, <3>2
  <2> QED
    BY <1>3, <2>1, <2>2 DEF InTime, Verified
<1>10. OnlyServedIsRemembered'
  <2> SUFFICES ASSUME NEW k \in KnownKeys \X Nonces, seen'[k] > now
               PROVE  \E i \in DOMAIN served' :
                        /\ k = <<served'[i].key, served'[i].nonce>>
                        /\ served'[i].boot = boot
                        /\ seen'[k] = served'[i].at + NonceLife
    BY <1>4 DEF OnlyServedIsRemembered
  <2>1. CASE k = id
    <3>1. k = <<entry.key, entry.nonce>>
      BY <2>1, <1>6
    <3>2. seen'[k] = entry.at + NonceLife
      BY <2>1, <1>2, <1>4, <1>6
    <3>3. n + 1 \in DOMAIN served' /\ served'[n + 1] = entry
      BY <1>3
    <3> QED
      BY <3>1, <3>2, <3>3, <1>6
  <2>2. CASE k # id
    <3>1. seen'[k] = Unexpired[k]
      BY <2>2, <1>4
    <3>2. seen'[k] = seen[k] /\ seen[k] > now
      BY <3>1, UnexpiredKeeps
    <3>3. PICK i \in DOMAIN served :
             /\ k = <<served[i].key, served[i].nonce>> /\ served[i].boot = boot
             /\ seen[k] = served[i].at + NonceLife
      BY <3>2 DEF OnlyServedIsRemembered
    <3>4. i \in DOMAIN served' /\ served'[i] = served[i]
      BY <1>3
    <3> QED
      BY <3>2, <3>3, <3>4
  <2> QED
    BY <2>1, <2>2
<1> QED
  BY <1>5, <1>7, <1>8, <1>9, <1>10

LEMMA RestartIInv == ASSUME IInv, Restart PROVE IInv'
<1> USE DEF IInv
<1>1. now \in Nat /\ boot \in Nat /\ now' = now /\ boot' = boot + 1 /\ served' = served
  BY DEF Restart, TypeOK
<1>2. TypeOK'
  BY DEF TypeOK, Restart
<1>3. Remembered'
  <2> SUFFICES ASSUME NEW i \in DOMAIN served
               PROVE  served[i].at <= now /\ served[i].boot <= boot + 1 /\ served[i].boot # boot + 1
    BY <1>1 DEF Remembered
  <2>1. served[i].boot \in Nat /\ served[i].at <= now /\ served[i].boot <= boot
    BY ServedFacts DEF Remembered
  <2> QED
    BY <1>1, <2>1
<1>4. OncePerLife'
  BY <1>1 DEF OncePerLife, Repeated
<1>5. InTime' /\ Verified'
  BY <1>1 DEF InTime, Restart, Verified
<1>6. OnlyServedIsRemembered'
  <2> SUFFICES ASSUME NEW k \in KnownKeys \X Nonces, seen'[k] > now
               PROVE  \E i \in DOMAIN served' :
                        /\ k = <<served'[i].key, served'[i].nonce>>
                        /\ served'[i].boot = boot + 1
                        /\ seen'[k] = served'[i].at + NonceLife
    BY <1>1, <1>2 DEF OnlyServedIsRemembered, TypeOK
  <2>1. seen'[k] = 0
    BY DEF Restart
  <2> QED
    BY <1>1, <2>1
<1> QED
  BY <1>2, <1>3, <1>4, <1>5, <1>6

LEMMA TickIInv == ASSUME IInv, Tick PROVE IInv'
<1> USE DEF IInv
<1>1. TypeOK' /\ now \in Nat /\ now' = now + 1
  BY DEF TypeOK, Tick
<1>2. Remembered'
  <2> SUFFICES ASSUME NEW i \in DOMAIN served
               PROVE  /\ served[i].at <= now + 1 /\ served[i].boot <= boot
                      /\ served[i].boot = boot =>
                           \/ served[i].at + NonceLife <= now + 1
                           \/ seen[<<served[i].key, served[i].nonce>>] >= served[i].at + NonceLife
    BY <1>1 DEF Remembered, Tick
  <2>1. served[i].at \in Nat
    BY ServedFacts
  <2> QED
    BY <1>1, <2>1, WindowAssumption DEF Remembered
<1>3. OncePerLife' /\ InTime' /\ Verified'
  <2>1. OncePerLife' /\ InTime'
    BY DEF OncePerLife, InTime, Repeated, Tick
  <2>2. \A v \in verifying : v.checked \in Nat
    BY DEF TypeOK
  <2> QED
    BY <1>1, <2>1, <2>2 DEF Verified, Tick
<1>5. now' = now + 1 /\ boot' = boot
  BY DEF Tick
<1>4. OnlyServedIsRemembered'
  <2> SUFFICES ASSUME NEW k \in KnownKeys \X Nonces, seen'[k] > now + 1
               PROVE  \E i \in DOMAIN served' :
                        /\ k = <<served'[i].key, served'[i].nonce>>
                        /\ served'[i].boot = boot
                        /\ seen'[k] = served'[i].at + NonceLife
    BY <1>1, <1>5 DEF OnlyServedIsRemembered, TypeOK
  <2>1. seen[k] \in Nat /\ seen' = seen /\ served' = served /\ boot' = boot
    BY DEF TypeOK, Tick
  <2>2. seen[k] > now
    BY <1>1, <2>1
  <2>3. PICK i \in DOMAIN served :
          /\ k = <<served[i].key, served[i].nonce>> /\ served[i].boot = boot
          /\ seen[k] = served[i].at + NonceLife
    BY <2>2 DEF IInv, OnlyServedIsRemembered
  <2> QED
    BY <2>1, <2>3
<1> QED
  BY <1>1, <1>2, <1>3, <1>4

\* The invariant holds of every behaviour.
THEOREM NonceInvariant == Spec => []IInv
<1>1. IInv /\ [Next]_vars => IInv'
  <2> SUFFICES ASSUME IInv, [Next]_vars PROVE IInv'
    OBVIOUS
  <2>1. CASE UNCHANGED vars
    <3>1. TypeOK'
      BY <2>1 DEF vars, IInv, TypeOK
    <3>2. Verified'
      BY <2>1 DEF vars, IInv, Verified
    <3> QED
      BY <2>1, <3>1, <3>2, Unmoved DEF vars
  <2>2. CASE Next
    BY <2>2, RefuseIInv, VerifyIInv, RefuseReplayIInv, AcceptIInv, RestartIInv, TickIInv DEF Next
  <2> QED
    BY <2>1, <2>2
<1> QED
  BY InitIInv, <1>1, PTL DEF Spec

\* However requests, refusals, restarts and time are mixed, one process lets a
\* nonce through again only when its life is over.
THEOREM LetThroughOncePerLife == Spec => []OncePerLife
<1>1. IInv => OncePerLife
  BY DEF IInv
<1> QED
  BY NonceInvariant, <1>1, PTL

\* With a life of at least twice the skew, a request is let through twice only
\* when its timestamp was as far ahead of the clock as the skew allows, give or take
\* what passes between the two readings of the clock at the repeat.
THEOREM RepeatedOnlyAtTheEdge == Spec => []RepeatsOnlyAtTheEdge
<1>1. IInv => RepeatsOnlyAtTheEdge
  <2> SUFFICES ASSUME IInv, NEW i \in DOMAIN served, NEW j \in DOMAIN served, Repeated(i, j),
                      served[i].timestamp = served[j].timestamp
               PROVE  served[i].at - Pause(j) < Second * (served[i].timestamp - MaxSkew + 1)
    BY DEF RepeatsOnlyAtTheEdge
  <2>1. PICK s \in Nat \ {0}, m \in Nat, life \in Nat, t \in Nat, first \in Nat, c \in Nat,
             second \in Nat :
          /\ s = Second /\ m = MaxSkew /\ life = NonceLife
          /\ t = served[i].timestamp /\ first = served[i].at
          /\ c = served[j].checked /\ second = served[j].at
    BY WindowAssumption, ServedFacts DEF IInv
  <2>2. second >= first + life
    BY <2>1 DEF IInv, OncePerLife
  <2>3. life >= 2 * (m * s)
    BY <2>1, WindowAssumption
  <2>4. (c \div s) <= t + m
    BY <2>1 DEF IInv, InTime
  <2>5. PICK q \in Nat : q = c \div s /\ c < s * q + s
    BY DivisionBounds
  <2>6. PICK d \in Nat : q + d = t + m
    <3>1. (t + m) - q \in Nat
      BY <2>4, <2>5
    <3> QED
      BY <3>1
  <2>7. c < s * (t + m + 1)
    <3>1. s * (q + d + 1) = s * q + s * d + s /\ s * d >= 0 /\ s * q \in Int
      BY SMT
    <3> QED
      BY <2>5, <2>6, <3>1
  <2>8. s * (t + m + 1) = s * (t - m + 1) + 2 * (m * s)
    BY SMT
  <2>9. PICK a \in Int, b \in Int, e \in Int :
          a = s * (t + m + 1) /\ b = s * (t - m + 1) /\ e = 2 * (m * s)
    BY SMT
  <2>10. first - (second - c) < b
    BY <2>2, <2>3, <2>7, <2>8, <2>9
  <2> QED
    BY <2>1, <2>9, <2>10 DEF Pause
<1> QED
  BY NonceInvariant, <1>1, PTL

\* A refused request leaves no nonce behind.
THEOREM OnlyServedRemembered == Spec => []OnlyServedIsRemembered
<1>1. IInv => OnlyServedIsRemembered
  BY DEF IInv
<1> QED
  BY NonceInvariant, <1>1, PTL
=============================================================================
