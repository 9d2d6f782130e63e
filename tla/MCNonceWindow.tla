---------------------------- MODULE MCNonceWindow ----------------------------
(* Two milliseconds to the second, one second of skew, and a nonce that     *)
(* lives twice the skew, as in the code.                                     *)
EXTENDS NonceWindow

CONSTANTS k1, k2, k3, a, b

\* One usable key and one item without a secret.
OneUsable == {k1, None}
MCTimestamps == 0 .. 3

Signed(nonce, timestamp) ==
    [key |-> k1, timestamp |-> timestamp, nonce |-> nonce, version |-> "v1", signed |-> TRUE]

\* Every nonce with every timestamp, and one request for each way to be refused.
MCRequests ==
    { Signed(nonce, timestamp) : nonce \in Nonces, timestamp \in MCTimestamps }
    \cup { [Signed(a, 1) EXCEPT !.nonce = None],
           [Signed(a, 1) EXCEPT !.version = "v2"],
           [Signed(a, 1) EXCEPT !.key = k3],
           [Signed(a, 1) EXCEPT !.timestamp = NotANumber],
           [Signed(a, 1) EXCEPT !.signed = FALSE] }
=============================================================================
