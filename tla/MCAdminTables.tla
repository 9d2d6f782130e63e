---------------------------- MODULE MCAdminTables ----------------------------
(* Two processes that start on empty tables, two consoles.                   *)
EXTENDS AdminTables

\* The administrator's name is not typed in its normal form.
MCTyped == {"Root", "root", "demo", "x"}
MCNormal == [typed \in MCTyped |-> IF typed = "Root" THEN "root" ELSE typed]
MCBootstrap == [role \in Roles |-> IF role = "admin" THEN "Root" ELSE "demo"]

Create(table, name, input) == [update |-> FALSE, table |-> table, name |-> name, input |-> input]
Update(table, input) == [update |-> TRUE, table |-> table, name |-> None, input |-> input]

\* The same row from two sides, a name that is taken in the other role, and what
\* is refused.
MCRequests ==
    { Create("accounts", "root", << >>), Create("accounts", "x", [password |-> Short]),
      Update("accounts", [status |-> "disabled", displayName |-> Blank, password |-> "new"]),
      Update("prefixes", [carrierName |-> Blank, remark |-> "gsm"]),
      Update("prefixes", [priority |-> "9"]),
      Create("notices", None, [title |-> "t", startAt |-> Blank]) }
=============================================================================
