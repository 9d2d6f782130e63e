---------------------------- MODULE MCCallTasks -----------------------------
(* CallTasks for an account with two tenants: the first one has a DID that   *)
(* is the account's own and a shared one, the second has neither.            *)
EXTENDS CallTasks

CONSTANTS t1, t2, d1, d2

MCJoined == <<t1, t2>>

MCHeaders == {None}

MCAssignments == <<
    [tenant |-> t1, owner |-> None, did |-> d1, callback |-> TRUE],
    [tenant |-> t1, owner |-> "member", did |-> d2, callback |-> TRUE] >>

MCEndpoints == << [tenant |-> t1, owner |-> None, rank |-> 1] >>
=============================================================================
