----------------------------- MODULE NonceWindow -----------------------------
(* verifyWebhookSignature of telephony.service.ts: what a webhook request    *)
(* must pass before it touches a table. The timestamp of a request is        *)
(* compared with the clock in whole seconds; its nonce is remembered for a   *)
(* number of milliseconds, in the memory of one process.  Each check reads   *)
(* Date.now() for itself, with a hash and an HMAC in between; the handler is *)
(* synchronous, so time passes there but no other request runs.              *)
EXTENDS Integers, Sequences

CONSTANTS
    ConfiguredKeys,     \* key ids in TELEPHONY_SHARED_KEYS_JSON, None for an item without id or secret
    DefaultKeys,        \* DEFAULT_TELEPHONY_SHARED_KEYS
    OtherKeys,          \* key ids nobody has configured
    Nonces,
    Timestamps,         \* seconds
    Requests,           \* the requests that come
    None,               \* a header that is absent or blank
    NotANumber,         \* a timestamp that does not start with digits
    Second,             \* milliseconds in a second
    MaxSkew,            \* MAX_TIMESTAMP_SKEW_SECONDS
    NonceLife,          \* NONCE_REPLAY_WINDOW_MS
    MaxTime, MaxServed, MaxRestarts

\* 300 s and 10 * 60 * 1000 ms in the code, where the two sides are equal.
ASSUME WindowAssumption ==
    /\ Second \in Nat \ {0} /\ MaxSkew \in Nat /\ NonceLife \in Nat \ {0}
    /\ NonceLife >= 2 * (MaxSkew * Second)
    /\ Timestamps \subseteq Nat
    /\ None \notin Timestamps /\ NotANumber \notin Timestamps

VARIABLES
    now,        \* Date.now()
    boot,       \* how often the process has been started again
    seen,       \* seenNonces: from key id and nonce to the end of its life, 0 when absent
    verifying,  \* the request between its two checks, with the time of the first: at most one
    served,     \* the requests that were let through, with both times and the process
    answer      \* the last answer

vars == <<now, boot, seen, verifying, served, answer>>

\* parseSharedKeys falls back on the defaults when no item is usable.
KnownKeys == IF ConfiguredKeys \subseteq {None} THEN DefaultKeys ELSE ConfiguredKeys \ {None}

\* signed: the signature is the one of method, path, timestamp, nonce and body
\* under the secret of the key.
Request ==
    [key: KnownKeys \cup OtherKeys \cup {None}, timestamp: Timestamps \cup {NotANumber, None},
     nonce: Nonces \cup {None}, version: {"v1", "v2", None}, signed: BOOLEAN \cup {None}]

ASSUME RequestsAssumption == Requests \subseteq Request

HeaderMissing(r) == \E h \in DOMAIN r : r[h] = None

Skewed(timestamp) ==
    LET ahead == timestamp - (now \div Second)
    IN ahead > MaxSkew \/ -ahead > MaxSkew

\* Mutant: an entry is dropped a moment before its end.
UnexpiredEarly == [id \in KnownKeys \X Nonces |-> IF seen[id] <= now + 1 THEN 0 ELSE seen[id]]

\* The Map of assertNonceFresh once its loop has dropped what has expired.
Unexpired == [id \in KnownKeys \X Nonces |-> IF seen[id] <= now THEN 0 ELSE seen[id]]

AuthMissing == [status |-> 401, code |-> "auth_missing_or_unknown_key"]
VersionUnsupported == [status |-> 422, code |-> "unsupported_signature_version"]
TimestampSkew == [status |-> 403, code |-> "timestamp_skew"]
SignatureInvalid == [status |-> 403, code |-> "signature_invalid"]
NonceReplayed == [status |-> 403, code |-> "nonce_replayed"]
Served == [status |-> 200, code |-> None]

\* Mutant: a timestamp behind the clock is let through.
RefusalOfEarlyOnly(r) ==
    IF HeaderMissing(r) THEN AuthMissing
    ELSE IF r.version # "v1" THEN VersionUnsupported
    ELSE IF r.key \notin KnownKeys THEN AuthMissing
    ELSE IF r.timestamp = NotANumber THEN TimestampSkew
    ELSE IF r.timestamp - (now \div Second) > MaxSkew THEN TimestampSkew
    ELSE IF ~r.signed THEN SignatureInvalid
    ELSE Served

\* The checks before the nonce, in the order of the code.
Refusal(r) ==
    IF HeaderMissing(r) THEN AuthMissing
    ELSE IF r.version # "v1" THEN VersionUnsupported
    ELSE IF r.key \notin KnownKeys THEN AuthMissing
    ELSE IF r.timestamp = NotANumber \/ Skewed(r.timestamp) THEN TimestampSkew
    ELSE IF ~r.signed THEN SignatureInvalid
    ELSE Served

Init ==
    /\ now = 0 /\ boot = 0
    /\ seen = [id \in KnownKeys \X Nonces |-> 0]
    /\ verifying = {}
    /\ served = << >>
    /\ answer = None

\* Mutant: the nonce is entered before the signature is compared.
RefuseBurningNonce(r) ==
    /\ verifying = {} /\ Refusal(r) # Served
    /\ seen' = IF Refusal(r) = SignatureInvalid
               THEN [Unexpired EXCEPT ![<<r.key, r.nonce>>] = now + NonceLife]
               ELSE seen
    /\ answer' = Refusal(r)
    /\ UNCHANGED <<now, boot, verifying, served>>

\* An error is thrown before assertNonceFresh is called.
Refuse(r) ==
    /\ verifying = {} /\ Refusal(r) # Served
    /\ answer' = Refusal(r)
    /\ UNCHANGED <<now, boot, seen, verifying, served>>

\* The timestamp is within the skew at this reading of the clock, and the body
\* and its signature are hashed next.
Verify(r) ==
    /\ verifying = {} /\ Refusal(r) = Served
    /\ verifying' = {[request |-> r, checked |-> now]}
    /\ UNCHANGED <<now, boot, seen, served, answer>>

Id(r) == <<r.key, r.nonce>>

\* assertNonceFresh reads the clock again and finds the nonce remembered.
RefuseReplay(v) ==
    /\ Unexpired[Id(v.request)] > now
    /\ seen' = Unexpired
    /\ verifying' = {}
    /\ answer' = NonceReplayed
    /\ UNCHANGED <<now, boot, served>>

\* assertNonceFresh on a new nonce; the handler goes on to parse the payload.
Accept(v) ==
    /\ ~(Unexpired[Id(v.request)] > now)
    /\ seen' = [Unexpired EXCEPT ![Id(v.request)] = now + NonceLife]
    /\ verifying' = {}
    /\ served' = Append(served, [key |-> v.request.key, nonce |-> v.request.nonce,
                                 timestamp |-> v.request.timestamp,
                                 checked |-> v.checked, at |-> now, boot |-> boot])
    /\ answer' = Served
    /\ UNCHANGED <<now, boot>>

\* seenNonces is a field of the service: a new process starts with none.
Restart ==
    /\ boot < MaxRestarts
    /\ boot' = boot + 1
    /\ seen' = [id \in KnownKeys \X Nonces |-> 0]
    /\ verifying' = {}
    /\ answer' = None
    /\ UNCHANGED <<now, served>>

Tick ==
    /\ now < MaxTime
    /\ now' = now + 1
    /\ UNCHANGED <<boot, seen, verifying, served, answer>>

\* MaxServed bounds what is let through.
Next ==
    \/ \E r \in Requests : Refuse(r) \/ (Len(served) < MaxServed /\ Verify(r))
    \/ \E v \in verifying : RefuseReplay(v) \/ Accept(v)
    \/ Restart
    \/ Tick

Spec == Init /\ [][Next]_vars

-----------------------------------------------------------------------------
Entry == [key: KnownKeys, nonce: Nonces, timestamp: Timestamps, checked: Nat, at: Nat,
          boot: Nat]

\* What the memory of the process and the list of served requests may hold.
TypeOK ==
    /\ now \in Nat /\ boot \in Nat
    /\ seen \in [KnownKeys \X Nonces -> Nat]
    /\ verifying \subseteq [request: Requests, checked: Nat]
    /\ served \in Seq(Entry)
    /\ answer \in {None, AuthMissing, VersionUnsupported, TimestampSkew, SignatureInvalid,
                   NonceReplayed, Served}

\* The same nonce was let through twice by one process.
Repeated(i, j) ==
    /\ i < j
    /\ served[i].boot = served[j].boot
    /\ served[i].key = served[j].key
    /\ served[i].nonce = served[j].nonce

\* A key and a nonce are let through again only NonceLife later, whatever is
\* refused, forgotten or signed anew in between (assertNonceFresh: expiresAt <= now
\* drops an entry, now + NONCE_REPLAY_WINDOW_MS enters it).
OncePerLife ==
    \A i, j \in DOMAIN served :
        Repeated(i, j) => served[j].at >= served[i].at + NonceLife

\* How long the second reading of the clock came after the first.
Pause(j) == served[j].at - served[j].checked

\* A request that is let through a second time, as it stands, had a timestamp
\* MaxSkew whole seconds ahead of the clock when it was first let through, or was
\* past that edge by less than the pause of the repeat between its two readings of
\* the clock: the truncated comparison of verifyWebhookSignature, the second
\* Date.now() of assertNonceFresh and the life of a nonce leave that much and no more.
RepeatsOnlyAtTheEdge ==
    \A i, j \in DOMAIN served :
        Repeated(i, j) /\ served[i].timestamp = served[j].timestamp
            => served[i].at - Pause(j) < Second * (served[i].timestamp - MaxSkew + 1)

\* A nonce is remembered only on account of a request that passed every check:
\* a request that was refused does not use up the nonce of a later one.
OnlyServedIsRemembered ==
    \A id \in KnownKeys \X Nonces :
        seen[id] > now =>
            \E i \in DOMAIN served :
                /\ id = <<served[i].key, served[i].nonce>>
                /\ served[i].boot = boot
                /\ seen[id] = served[i].at + NonceLife
=============================================================================
