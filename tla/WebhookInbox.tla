----------------------------- MODULE WebhookInbox -----------------------------
(* What the telephony webhooks promise a producer, without tables, workers   *)
(* or transactions: an idempotency key is decided once and for good, the     *)
(* decision has its effect once, and whoever repeats a message hears the     *)
(* decision or is refused.                                                   *)
CONSTANTS
    Messages,
    KeyOf(_),       \* the idempotency key of a message
    Verdicts,       \* what a key may be decided to
    First(_, _),    \* the answers to the message that brings a verdict about
    Again(_, _),    \* the answers that repeat a verdict to a message
    Undeciding      \* refusals, and answers that leave no decision behind

VARIABLES
    decided,        \* by key, its verdict, in a set that is empty at first
    answers         \* by message, every answer it has had

vars == <<decided, answers>>

Init ==
    /\ decided = [key \in {KeyOf(m) : m \in Messages} |-> {}]
    /\ answers = [m \in Messages |-> {}]

Hears(m, answer) == answers' = [answers EXCEPT ![m] = @ \cup {answer}]

\* The first delivery that gets through, and its answer, which may be lost.
Decide(m) ==
    /\ decided[KeyOf(m)] = {}
    /\ \E verdict \in decided'[KeyOf(m)] :
        /\ verdict \in Verdicts
        /\ decided' = [decided EXCEPT ![KeyOf(m)] = {verdict}]
        /\ \E answer \in First(m, verdict) : Hears(m, answer) \/ UNCHANGED answers

\* Any later one.
Repeat(m) ==
    /\ \E verdict \in decided[KeyOf(m)] : \E answer \in Again(m, verdict) : Hears(m, answer)
    /\ UNCHANGED decided

\* No promise, or none that this message is part of.
Refuse(m) ==
    /\ \E answer \in Undeciding : Hears(m, answer)
    /\ UNCHANGED decided

Next == \E m \in Messages : Decide(m) \/ Repeat(m) \/ Refuse(m)

Spec == Init /\ [][Next]_vars
=============================================================================
