-------------------------- MODULE AdminTables_proofs --------------------------
(* For any number of processes, consoles and requests.                       *)
EXTENDS AdminTables, TLAPS

Entries(s) == { s[i] : i \in DOMAIN s }

LEMMA AppendFacts ==
    ASSUME NEW s, s \in Seq(Entries(s)), NEW e
    PROVE  LET t == Append(s, e)
           IN /\ Len(s) \in Nat /\ DOMAIN s = 1 .. Len(s)
              /\ Len(t) = Len(s) + 1 /\ DOMAIN t = 1 .. Len(s) + 1
              /\ \A i \in 1 .. Len(s) : t[i] = s[i]
              /\ t[Len(s) + 1] = e
              /\ t \in Seq(Entries(t))
<1> DEFINE t == Append(s, e)
           S == Entries(s) \cup {e}
<1>1. s \in Seq(S) /\ e \in S
  OBVIOUS
<1> HIDE DEF S
<1>2. /\ t \in Seq(S)
      /\ Len(s) \in Nat /\ DOMAIN s = 1 .. Len(s)
      /\ Len(t) = Len(s) + 1 /\ DOMAIN t = 1 .. Len(s) + 1
      /\ \A i \in 1 .. Len(s) : t[i] = s[i]
      /\ t[Len(s) + 1] = e
  BY <1>1
<1> HIDE DEF t
<1>3. t \in Seq(Entries(t))
  BY <1>2 DEF Entries
<1> QED
  BY <1>2, <1>3 DEF t

LEMMA ReplaceFacts ==
    ASSUME NEW s, s \in Seq(Entries(s)), NEW k \in DOMAIN s, NEW e
    PROVE  LET t == [s EXCEPT ![k] = e]
           IN /\ Len(s) \in Nat /\ DOMAIN s = 1 .. Len(s) /\ DOMAIN t = DOMAIN s
              /\ \A i \in DOMAIN s : t[i] = IF i = k THEN e ELSE s[i]
              /\ t \in Seq(Entries(t))
<1> DEFINE t == [s EXCEPT ![k] = e]
           S == Entries(s) \cup {e}
<1>1. s \in Seq(S) /\ e \in S
  OBVIOUS
<1> HIDE DEF S
<1>2. /\ t \in Seq(S) /\ Len(t) = Len(s)
      /\ Len(s) \in Nat /\ DOMAIN s = 1 .. Len(s) /\ DOMAIN t = DOMAIN s
      /\ \A i \in DOMAIN s : t[i] = IF i = k THEN e ELSE s[i]
  BY <1>1
<1> HIDE DEF t
<1>3. t \in Seq(Entries(t))
  BY <1>2 DEF Entries
<1> QED
  BY <1>2, <1>3 DEF t

-----------------------------------------------------------------------------
IsRow(row, table) ==
    /\ row = [name |-> row.name, role |-> row.role, cols |-> row.cols]
    /\ row.cols = [c \in Columns[table] |-> row.cols[c]]

IsCall(call) ==
    call = [owner |-> call.owner, table |-> call.table, at |-> call.at, id |-> call.id,
            name |-> call.name, role |-> call.role, input |-> call.input, row |-> call.row,
            diff |-> call.diff, code |-> call.code, overlapped |-> call.overlapped]

\* The three tables hold rows of their own columns.
RowsInv ==
    /\ rows = [t \in Tables |-> rows[t]]
    /\ \A t \in Tables :
        /\ rows[t] \in Seq(Entries(rows[t]))
        /\ \A i \in DOMAIN rows[t] : IsRow(rows[t][i], t)

Unnamed(call) == Columns[call.table] \ DOMAIN call.input

\* An update between its read and its UPDATE: nobody has written the row since the
\* read, or it knows.
UpdateInv(call, r) ==
    /\ call.id \in DOMAIN r[call.table]
    /\ IsRow(call.row, call.table)
    /\ ~call.overlapped =>
        /\ call.at = "save" =>
            \A c \in Unnamed(call) : call.row.cols[c] = r[call.table][call.id].cols[c]
        /\ call.at = "update" => call.diff \cap Unnamed(call) = {}

Saving == {"save", "update"}

CallInv(call, r) ==
    /\ IsCall(call)
    /\ call.at # "free" => call.table \in Tables
    /\ call.at \in Saving => UpdateInv(call, r)

AdminInv ==
    /\ RowsInv
    /\ calls = [h \in Calls |-> calls[h]]
    /\ \A h \in Calls : CallInv(calls[h], rows)

Inv == AdminInv /\ UsernamesUnique

LEMMA OtherColumns ==
    ASSUME NEW row, NEW table, IsRow(row, table),
           NEW cols, cols = [c \in Columns[table] |-> cols[c]]
    PROVE  LET new == [row EXCEPT !.cols = cols]
           IN /\ IsRow(new, table) /\ new.name = row.name /\ new.role = row.role
              /\ new.cols = cols
<1> DEFINE new == [row EXCEPT !.cols = cols]
           flat == [name |-> row.name, role |-> row.role, cols |-> cols]
<1>1. row = [name |-> row.name, role |-> row.role, cols |-> row.cols]
  BY DEF IsRow
<1>2. new = flat
  BY <1>1
<1>3. IsRow(flat, table)
  BY DEF IsRow
<1> QED
  BY <1>2, <1>3

LEMMA NoCallInv == \A r : CallInv(NoCall, r)
  BY DEF NoCall, CallInv, IsCall, Saving

LEMMA InitInv == Init => Inv
<1> SUFFICES ASSUME Init PROVE Inv
  OBVIOUS
<1>1. \A t \in {"prefixes", "notices"} : IsRow(Created(t, None, None, << >>), t)
  BY DEF Created, IsRow, Columns, Tables
<1>2. RowsInv
  BY <1>1, SMTT(30) DEF Init, Seeded, RowsInv, Tables, Entries
<1>3. UsernamesUnique
  BY DEF Init, Seeded, UsernamesUnique
<1> QED
  BY <1>2, <1>3, NoCallInv DEF Inv, AdminInv, Init

-----------------------------------------------------------------------------
\* Steps that write no row: calls are dropped, lose their owner, or are not at
\* their save.
LEMMA RowsUntouched ==
    ASSUME Inv, rows' = rows,
           calls' = [h \in Calls |-> calls'[h]],
           \A h \in Calls : CallInv(calls'[h], rows)
    PROVE  Inv'
<1>1. RowsInv'
  BY DEF Inv, AdminInv, RowsInv
<1> QED
  BY <1>1 DEF Inv, AdminInv, UsernamesUnique

LEMMA AnswerKeeps ==
    ASSUME Inv, NEW h \in Calls, calls[h].at # "free", NEW code, NEW row,
           rows' = rows, calls' = Answered(h, code, row)
    PROVE  Inv'
<1>1. calls' = [g \in Calls |-> calls'[g]]
  BY DEF Inv, AdminInv, Answered
<1>2. ASSUME NEW g \in Calls PROVE CallInv(calls'[g], rows)
  <2>1. CASE g # h
    BY <2>1 DEF Inv, AdminInv, Answered
  <2>2. CASE g = h /\ calls[h].owner = None
    BY <2>2, NoCallInv DEF Inv, AdminInv, Answered
  <2>3. CASE g = h /\ calls[h].owner # None
    <3>1. calls'[h] = [calls[h] EXCEPT !.at = "done", !.code = code, !.row = row]
      BY <2>3 DEF Inv, AdminInv, Answered
    <3>2. CallInv(calls[h], rows)
      BY DEF Inv, AdminInv
    <3>. DEFINE c == calls[h]  d == calls'[h]
    <3>3. IsCall(d) /\ d.table = c.table /\ d.at = "done"
      BY <3>1, <3>2, Zenon DEF CallInv, IsCall
    <3> QED
      BY <2>3, <3>2, <3>3 DEF CallInv, Saving
  <2> QED
    BY <2>1, <2>2, <2>3
<1> QED
  BY <1>1, <1>2, RowsUntouched

LEMMA BeginKeeps ==
    ASSUME Inv, rows' = rows,
           NEW owner, NEW table \in Tables, NEW at, at \notin Saving,
           NEW id, NEW name, NEW role, NEW input,
           Begin(owner, table, at, id, name, role, input)
    PROVE  Inv'
<1> DEFINE h0 == CHOOSE h \in Calls : Runs(h, "free")
           new == [owner |-> owner, table |-> table, at |-> at, id |-> id, name |-> name,
                   role |-> role, input |-> input, row |-> None, diff |-> {}, code |-> None,
                   overlapped |-> FALSE]
<1>1. calls' = [calls EXCEPT ![h0] = new]
  BY DEF Begin
<1>2. CallInv(new, rows)
  BY DEF CallInv, IsCall
<1> HIDE DEF new, h0
<1>3. calls' = [g \in Calls |-> calls'[g]]
  BY <1>1 DEF Inv, AdminInv
<1>4. \A g \in Calls : CallInv(calls'[g], rows)
  BY <1>1, <1>2 DEF Inv, AdminInv
<1> QED
  BY <1>3, <1>4, RowsUntouched

LEMMA DropKeeps ==
    ASSUME Inv, NEW h \in Calls, rows' = rows, calls' = [calls EXCEPT ![h] = NoCall]
    PROVE  Inv'
  BY RowsUntouched, NoCallInv DEF Inv, AdminInv

-----------------------------------------------------------------------------
\* The handlers, and what goes on in a process or a console.
LEMMA CheckKeeps == ASSUME Inv, NEW h \in Calls, CheckNewAccount(h) PROVE Inv'
<1>1. calls[h].at = "check" /\ rows' = rows
  BY DEF CheckNewAccount, Runs
<1>2. CASE \E code \in Nat : calls' = Answered(h, code, None)
  BY <1>1, <1>2, AnswerKeeps
<1>3. CASE calls' = Goes(h, "insert")
  <2>1. CallInv(calls[h], rows)
    BY <1>1 DEF Inv, AdminInv
  <2>2. calls'[h] = [calls[h] EXCEPT !.at = "insert"]
    BY <1>3 DEF Goes, Inv, AdminInv
  <2>3. IsCall(calls'[h]) /\ calls'[h].table = calls[h].table /\ calls'[h].at = "insert"
    BY <2>1, <2>2 DEF CallInv, IsCall
  <2>4. CallInv(calls'[h], rows)
    BY <1>1, <2>1, <2>3 DEF CallInv, Saving
  <2> QED
    BY <1>1, <1>3, <2>4, RowsUntouched DEF Goes, Inv, AdminInv
<1> QED
  BY <1>2, <1>3 DEF CheckNewAccount

LEMMA ReadRowKeeps == ASSUME Inv, NEW h \in Calls, ReadRow(h) PROVE Inv'
<1> DEFINE c == calls[h]
           d == calls'[h]
           old == rows[c.table][c.id]
<1>1. c.at = "find" /\ rows' = rows /\ CallInv(c, rows)
  BY DEF ReadRow, Runs, Inv, AdminInv
<1>2. CASE \E code \in Nat : calls' = Answered(h, code, None)
  BY <1>1, <1>2, AnswerKeeps
<1>3. CASE /\ c.id \in DOMAIN rows[c.table]
           /\ calls' = [calls EXCEPT ![h].at = "save", ![h].row = Updated(old, c.input)]
  <2>1. /\ IsCall(d) /\ d.table = c.table /\ d.id = c.id /\ d.input = c.input
        /\ d.at = "save" /\ d.row = Updated(old, c.input)
    BY <1>1, <1>3, Zenon DEF CallInv, IsCall, Inv, AdminInv
  <2>2. IsRow(old, c.table)
    BY <1>1, <1>3, Zenon DEF Inv, AdminInv, RowsInv, CallInv
  <2>3. /\ IsRow(d.row, c.table)
        /\ \A x \in Unnamed(d) : d.row.cols[x] = old.cols[x]
    <3>. DEFINE cols == [x \in DOMAIN old.cols |->
                            IF x \in DOMAIN c.input THEN Merged(x, old, c.input[x]) ELSE old.cols[x]]
    <3>1. d.row = [old EXCEPT !.cols = cols]
      BY <2>1 DEF Updated
    <3>2. DOMAIN old.cols = Columns[c.table]
      BY <2>2, Zenon DEF IsRow
    <3>3. cols = [x \in Columns[c.table] |-> cols[x]]
      BY <3>2
    <3>4. \A x \in Unnamed(d) : cols[x] = old.cols[x]
      BY <2>1, <3>2 DEF Unnamed
    <3>. HIDE DEF cols
    <3> QED
      <4>1. LET new == [old EXCEPT !.cols = cols]
            IN IsRow(new, c.table) /\ new.cols = cols
        BY <2>2, <3>3, OtherColumns
      <4> QED
        BY <3>1, <3>4, <4>1
  <2>4. CallInv(d, rows)
    BY <1>1, <1>3, <2>1, <2>3, Zenon DEF CallInv, UpdateInv
  <2> QED
    BY <1>1, <1>3, <2>4, RowsUntouched DEF Inv, AdminInv
<1> QED
  BY <1>2, <1>3 DEF ReadRow

LEMMA CompareKeeps == ASSUME Inv, NEW h \in Calls, Compare(h) PROVE Inv'
<1> DEFINE c == calls[h]
           d == calls'[h]
           old == rows[c.table][c.id]
<1>1. c.at = "save" /\ rows' = rows /\ CallInv(c, rows) /\ UpdateInv(c, rows)
  BY Zenon DEF Compare, Runs, Inv, AdminInv, CallInv, Saving
<1>2. /\ IsCall(d) /\ d.table = c.table /\ d.id = c.id /\ d.input = c.input /\ d.row = c.row
      /\ d.overlapped = c.overlapped /\ d.at = "update"
      /\ d.diff = { x \in DOMAIN old.cols : old.cols[x] # c.row.cols[x] }
  BY <1>1, Zenon DEF Compare, CallInv, IsCall, Inv, AdminInv
<1>3. ~d.overlapped => d.diff \cap Unnamed(d) = {}
  BY <1>1, <1>2 DEF UpdateInv, Unnamed
<1>4. CallInv(d, rows)
  BY <1>1, <1>2, <1>3 DEF CallInv, UpdateInv
<1> QED
  BY <1>1, <1>4, RowsUntouched, Zenon DEF Compare, Inv, AdminInv

\* A row more: what an update knows of its own row stays.
LEMMA InsertKeeps == ASSUME Inv, NEW h \in Calls, Insert(h) PROVE Inv'
<1> DEFINE c == calls[h]
           row == Created(c.table, c.name, c.role, c.input)
           t == c.table
<1>1. c.at = "insert" /\ CallInv(c, rows) /\ t \in Tables
  BY DEF Insert, Runs, Inv, AdminInv, CallInv
<1>2. CASE Taken(t, row)
  BY <1>1, <1>2, AnswerKeeps DEF Insert
<1>3. CASE ~Taken(t, row)
  <2>1. /\ rows' = [rows EXCEPT ![t] = Append(rows[t], row)]
        /\ calls' = [Answered(h, 200, row) EXCEPT ![h] =
                        IF @.at = "done" THEN [@ EXCEPT !.id = Len(rows'[t])] ELSE @]
    BY <1>3 DEF Insert
  <2>2. /\ Len(rows[t]) \in Nat /\ DOMAIN rows[t] = 1 .. Len(rows[t])
        /\ DOMAIN rows'[t] = 1 .. Len(rows[t]) + 1
        /\ \A i \in 1 .. Len(rows[t]) : rows'[t][i] = rows[t][i]
        /\ rows'[t][Len(rows[t]) + 1] = row
        /\ rows'[t] \in Seq(Entries(rows'[t]))
    <3>1. rows[t] \in Seq(Entries(rows[t])) /\ rows'[t] = Append(rows[t], row)
      BY <1>1, <2>1 DEF Inv, AdminInv, RowsInv
    <3> QED
      BY <3>1, AppendFacts
  <2>3. \A u \in Tables : u # t => rows'[u] = rows[u]
    BY <2>1 DEF Inv, AdminInv, RowsInv
  <2>4. IsRow(row, t)
    BY DEF Created, IsRow
  <2> HIDE DEF row
  <2>5. RowsInv'
    <3>1. rows' = [u \in Tables |-> rows'[u]]
      BY <2>1, Zenon DEF Inv, AdminInv, RowsInv
    <3>2. ASSUME NEW u \in Tables
          PROVE  rows'[u] \in Seq(Entries(rows'[u])) /\ \A i \in DOMAIN rows'[u] : IsRow(rows'[u][i], u)
      <4>1. CASE u = t
        <5>1. \A i \in DOMAIN rows[t] : IsRow(rows[t][i], t)
          BY <1>1 DEF Inv, AdminInv, RowsInv
        <5>2. \A i \in 1 .. Len(rows[t]) + 1 : i \in 1 .. Len(rows[t]) \/ i = Len(rows[t]) + 1
          BY <2>2
        <5> QED
          BY <2>2, <2>4, <4>1, <5>1, <5>2, Zenon
      <4>2. CASE u # t
        BY <2>3, <4>2 DEF Inv, AdminInv, RowsInv
      <4> QED
        BY <4>1, <4>2
    <3> QED
      BY <3>1, <3>2 DEF RowsInv
  <2>6. ASSUME NEW g \in Calls
        PROVE  CallInv(calls'[g], rows')
    <3>1. CASE g # h
      <4>1. calls'[g] = calls[g] /\ CallInv(calls[g], rows)
        BY <2>1, <3>1 DEF Answered, Inv, AdminInv
      <4>2. \A u \in Tables : \A i \in DOMAIN rows[u] : i \in DOMAIN rows'[u] /\ rows'[u][i] = rows[u][i]
        BY <2>2, <2>3, SMTT(30)
      <4> QED
        BY <4>1, <4>2 DEF CallInv, UpdateInv, Saving
    <3>2. CASE g = h /\ c.owner = None
      BY <2>1, <3>2, NoCallInv, Zenon DEF Answered, NoCall, Inv, AdminInv
    <3>3. CASE g = h /\ c.owner # None
      <4>1. calls'[h] = [[c EXCEPT !.at = "done", !.code = 200, !.row = row] EXCEPT !.id = Len(rows'[t])]
        BY <1>1, <2>1, <3>3, Zenon DEF Answered, Inv, AdminInv, CallInv, IsCall
      <4>2. IsCall(calls'[h]) /\ calls'[h].table = t /\ calls'[h].at = "done"
        BY <1>1, <4>1, ZenonT(40) DEF CallInv, IsCall
      <4> QED
        BY <1>1, <3>3, <4>2 DEF CallInv, Saving
    <3> QED
      BY <3>1, <3>2, <3>3
  <2>7. UsernamesUnique'
    <3>1. CASE t = "accounts"
      <4>1. \A i \in 1 .. Len(rows[t]) : rows[t][i].name # row.name
        BY <1>3, <2>2, <3>1 DEF Taken
      <4>2. \A i, j \in 1 .. Len(rows[t]) : rows[t][i].name = rows[t][j].name => i = j
        BY <2>2, <3>1 DEF UsernamesUnique, Inv
      <4>3. \A i \in 1 .. Len(rows[t]) + 1 : i \in 1 .. Len(rows[t]) \/ i = Len(rows[t]) + 1
        BY <2>2
      <4>4. \A i, j \in DOMAIN rows'[t] : rows'[t][i].name = rows'[t][j].name => i = j
        BY <2>2, <4>1, <4>2, <4>3, Zenon
      <4> QED
        BY <3>1, <4>4 DEF UsernamesUnique
    <3>2. CASE t # "accounts"
      BY <2>3, <3>2 DEF UsernamesUnique, Inv, Tables
    <3> QED
      BY <3>1, <3>2
  <2>8. calls' = [g \in Calls |-> calls'[g]]
    <3>1. Answered(h, 200, row) = [g \in Calls |-> Answered(h, 200, row)[g]]
      BY DEF Answered, Inv, AdminInv
    <3>. HIDE DEF c
    <3> QED
      BY <2>1, <3>1
  <2> QED
    BY <2>5, <2>6, <2>7, <2>8 DEF Inv, AdminInv
<1> QED
  BY <1>2, <1>3

\* What an UPDATE does to the tables: one row changes in columns of its table, and
\* in none that was not named unless it was overlapped.
LEMMA WrittenRow ==
    ASSUME Inv, NEW h \in Calls, WriteRow(h)
    PROVE  LET c == calls[h]
               t == c.table
           IN /\ c.at = "update" /\ t \in Tables /\ c.id \in DOMAIN rows[t]
              /\ RowsInv'
              /\ \A u \in Tables : DOMAIN rows'[u] = DOMAIN rows[u]
              /\ \A u \in Tables : \A i \in DOMAIN rows[u] :
                    <<u, i>> # <<t, c.id>> => rows'[u][i] = rows[u][i]
              /\ rows'[t][c.id].name = rows[t][c.id].name
              /\ rows'[t][c.id].role = rows[t][c.id].role
              /\ \A x \in Columns[t] : rows'[t][c.id].cols[x] =
                    IF x \in c.diff THEN c.row.cols[x] ELSE rows[t][c.id].cols[x]
              /\ ~c.overlapped => \A x \in Unnamed(c) :
                    rows'[t][c.id].cols[x] = rows[t][c.id].cols[x]
<1> DEFINE c == calls[h]
           t == c.table
           old == rows[t][c.id]
           cols == [x \in DOMAIN old.cols |-> IF x \in c.diff THEN c.row.cols[x] ELSE old.cols[x]]
           new == [old EXCEPT !.cols = cols]
<1>1. /\ c.at = "update" /\ CallInv(c, rows) /\ UpdateInv(c, rows)
      /\ t \in Tables /\ c.id \in DOMAIN rows[t]
  BY DEF WriteRow, Runs, Inv, AdminInv, CallInv, UpdateInv, Saving
<1>2. rows' = [rows EXCEPT ![t] = [rows[t] EXCEPT ![c.id] = new]]
  BY DEF WriteRow
<1>3. IsRow(old, t)
  BY <1>1 DEF Inv, AdminInv, RowsInv
<1>4. /\ IsRow(new, t) /\ new.name = old.name /\ new.role = old.role
      /\ \A x \in Columns[t] : new.cols[x] = IF x \in c.diff THEN c.row.cols[x] ELSE old.cols[x]
      /\ ~c.overlapped => \A x \in Unnamed(c) : new.cols[x] = old.cols[x]
  <2>1. DOMAIN old.cols = Columns[t]
    BY <1>3, Zenon DEF IsRow
  <2>2. cols = [x \in Columns[t] |-> cols[x]]
    BY <2>1
  <2>3. ~c.overlapped => \A x \in Unnamed(c) : cols[x] = old.cols[x]
    BY <1>1, <2>1 DEF UpdateInv, Unnamed
  <2>4. \A x \in Columns[t] : cols[x] = IF x \in c.diff THEN c.row.cols[x] ELSE old.cols[x]
    BY <2>1
  <2> HIDE DEF cols
  <2>5. IsRow(new, t) /\ new.name = old.name /\ new.role = old.role /\ new.cols = cols
    BY <1>3, <2>2, OtherColumns
  <2> HIDE DEF new
  <2> QED
    BY <2>3, <2>4, <2>5
<1> HIDE DEF new
<1>5. /\ DOMAIN rows'[t] = DOMAIN rows[t]
      /\ \A i \in DOMAIN rows[t] : rows'[t][i] = IF i = c.id THEN new ELSE rows[t][i]
      /\ rows'[t] \in Seq(Entries(rows'[t]))
  <2>1. rows[t] \in Seq(Entries(rows[t])) /\ rows'[t] = [rows[t] EXCEPT ![c.id] = new]
    BY <1>1, <1>2 DEF Inv, AdminInv, RowsInv
  <2> QED
    BY <1>1, <2>1, ReplaceFacts
<1>6. \A u \in Tables : u # t => rows'[u] = rows[u]
  BY <1>2 DEF Inv, AdminInv, RowsInv
<1>7. RowsInv'
  <2>1. rows' = [u \in Tables |-> rows'[u]]
    BY <1>2, Zenon DEF Inv, AdminInv, RowsInv
  <2>2. ASSUME NEW u \in Tables
        PROVE  rows'[u] \in Seq(Entries(rows'[u])) /\ \A i \in DOMAIN rows'[u] : IsRow(rows'[u][i], u)
    <3>1. CASE u = t
      <4>1. \A i \in DOMAIN rows[t] : IsRow(rows[t][i], t)
        BY <1>1 DEF Inv, AdminInv, RowsInv
      <4> QED
        BY <1>4, <1>5, <3>1, <4>1
    <3>2. CASE u # t
      BY <1>6, <3>2 DEF Inv, AdminInv, RowsInv
    <3> QED
      BY <3>1, <3>2
  <2> QED
    BY <2>1, <2>2 DEF RowsInv
<1> QED
  BY <1>1, <1>4, <1>5, <1>6, <1>7, Zenon

LEMMA WriteRowKeeps == ASSUME Inv, NEW h \in Calls, WriteRow(h) PROVE Inv'
<1> DEFINE c == calls[h]
           t == c.table
           answered == Answered(h, 200, c.row)
<1>1. /\ c.at = "update" /\ t \in Tables /\ c.id \in DOMAIN rows[t] /\ RowsInv'
      /\ \A u \in Tables : DOMAIN rows'[u] = DOMAIN rows[u]
      /\ \A u \in Tables : \A i \in DOMAIN rows[u] :
            <<u, i>> # <<t, c.id>> => rows'[u][i] = rows[u][i]
      /\ rows'[t][c.id].name = rows[t][c.id].name
  BY WrittenRow
<1>2. calls' = Committed(h, t, c.id, answered)
  BY DEF WriteRow
<1>3. CallInv(c, rows)
  BY <1>1 DEF Inv, AdminInv
<1>4. ASSUME NEW g \in Calls
      PROVE  CallInv(calls'[g], rows')
  <2>0. CASE g = h /\ c.owner = None
    BY <1>2, <2>0, NoCallInv DEF Committed, Answered, Inv, AdminInv
  <2>1. CASE g = h /\ c.owner # None
    <3>1. calls'[h] = [c EXCEPT !.at = "done", !.code = 200, !.row = c.row]
      BY <1>2, <2>1 DEF Committed, Answered, Inv, AdminInv
    <3>2. IsCall(calls'[h]) /\ calls'[h].table = t /\ calls'[h].at = "done"
      BY <1>3, <3>1, Zenon DEF CallInv, IsCall
    <3> QED
      BY <1>1, <2>1, <3>2 DEF CallInv, Saving
  <2>2. CASE g # h
    <3>1. answered[g] = calls[g]
      BY <2>2 DEF Answered, Inv, AdminInv
    <3>2. CASE calls[g].table = t /\ calls[g].id = c.id /\ calls[g].at = "save"
      <4>1. calls'[g] = [calls[g] EXCEPT !.overlapped = TRUE] /\ CallInv(calls[g], rows)
        BY <1>2, <2>2, <3>1, <3>2, Zenon DEF Committed, Inv, AdminInv
      <4>2. /\ IsCall(calls'[g]) /\ calls'[g].table = t /\ calls'[g].id = c.id
            /\ calls'[g].row = calls[g].row /\ calls'[g].overlapped = TRUE
        BY <3>2, <4>1, Zenon DEF CallInv, IsCall
      <4>3. IsRow(calls[g].row, t)
        BY <3>2, <4>1 DEF CallInv, UpdateInv, Saving
      <4> QED
        BY <1>1, <4>2, <4>3 DEF CallInv, UpdateInv
    <3>3. CASE ~(calls[g].table = t /\ calls[g].id = c.id /\ calls[g].at = "save")
      <4>1. calls'[g] = calls[g]
        BY <1>2, <2>2, <3>1, <3>3 DEF Committed
      <4>2. CallInv(calls[g], rows)
        BY DEF Inv, AdminInv
      <4>3. ASSUME calls[g].at \in Saving PROVE UpdateInv(calls[g], rows')
        <5>1. UpdateInv(calls[g], rows) /\ calls[g].table \in Tables
          BY <4>2, <4>3 DEF CallInv, Saving
        <5>2. calls[g].id \in DOMAIN rows'[calls[g].table]
          BY <1>1, <5>1 DEF UpdateInv
        <5>3. calls[g].at = "save" =>
                rows'[calls[g].table][calls[g].id] = rows[calls[g].table][calls[g].id]
          <6>1. calls[g].at = "save" => <<calls[g].table, calls[g].id>> # <<t, c.id>>
            BY <3>3
          <6> QED
            BY <1>1, <5>1, <6>1 DEF UpdateInv
        <5> QED
          BY <5>1, <5>2, <5>3 DEF UpdateInv
      <4> QED
        BY <4>1, <4>2, <4>3 DEF CallInv
    <3> QED
      BY <3>2, <3>3
  <2> QED
    BY <2>0, <2>1, <2>2
<1>5. UsernamesUnique'
  <2>1. \A i \in DOMAIN rows["accounts"] : rows'["accounts"][i].name = rows["accounts"][i].name
    BY <1>1 DEF Tables
  <2> QED
    BY <1>1, <2>1 DEF UsernamesUnique, Inv, Tables
<1>6. calls' = [g \in Calls |-> calls'[g]]
  BY <1>2 DEF Committed
<1> QED
  BY <1>1, <1>4, <1>5, <1>6 DEF Inv, AdminInv

LEMMA GiveUpKeeps ==
    ASSUME Inv, NEW c \in Consoles, NEW h \in Calls, GiveUp(c, h)
    PROVE  Inv'
<1>1. rows' = rows
  BY DEF GiveUp
<1>2. CASE calls' = [calls EXCEPT ![h] = NoCall]
  BY <1>1, <1>2, DropKeeps, Zenon
<1>3. CASE calls' = [calls EXCEPT ![h].owner = None]
  <2>1. CallInv(calls[h], rows)
    BY <1>1 DEF Inv, AdminInv
  <2>2. calls'[h] = [calls[h] EXCEPT !.owner = None]
    BY <1>3 DEF Inv, AdminInv
  <2>3. /\ IsCall(calls'[h])
        /\ \A x \in {"table", "at", "id", "input", "row", "diff", "overlapped"} :
              calls'[h][x] = calls[h][x]
    BY <2>1, <2>2 DEF CallInv, IsCall
  <2>4. CallInv(calls'[h], rows)
    BY <2>1, <2>3, SMTT(30) DEF CallInv, UpdateInv, Unnamed
  <2> QED
    BY <1>1, <1>3, <2>4, RowsUntouched DEF Inv, AdminInv
<1> QED
  BY <1>2, <1>3 DEF GiveUp

LEMMA AskKeeps ==
    ASSUME Inv, NEW c \in Consoles, NEW r \in Requests, Ask(c, r)
    PROVE  Inv'
<1>1. r.table \in Tables /\ rows' = rows
  BY RequestsAssumption DEF Ask
<1>2. CASE r.update
  BY <1>1, <1>2, BeginKeeps DEF Ask, Saving
<1>3. CASE ~r.update
  BY <1>1, <1>3, BeginKeeps DEF Ask, Saving
<1> QED
  BY <1>2, <1>3

LEMMA BootstrapKeeps ==
    ASSUME Inv, NEW p \in Processes, BootstrapFromEnv(p)
    PROVE  Inv'
<1>1. rows' = rows
  BY DEF BootstrapFromEnv
<1>2. CASE UNCHANGED calls
  BY <1>1, <1>2, RowsUntouched DEF Inv, AdminInv
<1>3. CASE \E name : Begin(p, "accounts", "check", None, name, RoleOf(p), << >>)
  BY <1>1, <1>3, BeginKeeps DEF Saving, Tables
<1> QED
  BY <1>2, <1>3 DEF BootstrapFromEnv

LEMMA NextInv == Inv /\ [Next]_vars => Inv'
<1> SUFFICES ASSUME Inv, [Next]_vars PROVE Inv'
  OBVIOUS
<1>1. ASSUME NEW h \in Calls, Handle(h) PROVE Inv'
  BY <1>1, CheckKeeps, InsertKeeps, ReadRowKeeps, CompareKeeps, WriteRowKeeps DEF Handle
<1>2. ASSUME NEW h \in Calls, Breaks(h) PROVE Inv'
  BY <1>2, AnswerKeeps DEF Breaks
<1>3. ASSUME NEW h \in Calls, NEW c \in Consoles, Hear(c, h) PROVE Inv'
  BY <1>3, DropKeeps, Zenon DEF Hear
<1>4. ASSUME NEW p \in Processes, Bootstrapped(p) PROVE Inv'
  BY <1>4, DropKeeps, Zenon DEF Bootstrapped
<1>5. ASSUME UNCHANGED <<rows, calls>> PROVE Inv'
  BY <1>5, RowsUntouched DEF Inv, AdminInv
<1>6. ASSUME NEW c \in Consoles, StartLoad(c) \/ Clear(c) PROVE Inv'
  BY <1>5, <1>6 DEF StartLoad, Clear
<1>8. ASSUME NEW l \in Loads, ReadList(l) \/ Loaded(l) \/ LoadFails(l) PROVE Inv'
  BY <1>5, <1>8 DEF ReadList, Loaded, LoadFails
<1>7. CASE UNCHANGED vars
  BY <1>5, <1>7 DEF vars
<1> QED
  BY <1>1, <1>2, <1>3, <1>4, <1>6, <1>7, <1>8, GiveUpKeeps, AskKeeps, BootstrapKeeps DEF Next

-----------------------------------------------------------------------------
\* A user name is in the table once, however many processes insert their first
\* accounts and consoles create theirs (uk_accounts_username, createAccount).
THEOREM NamesStayUnique == Spec => []UsernamesUnique
<1>1. Init => Inv
  BY InitInv
<1>2. Inv /\ [Next]_vars => Inv'
  BY NextInv
<1>3. Inv => UsernamesUnique
  BY DEF Inv
<1> QED
  BY <1>1, <1>2, <1>3, PTL DEF Spec

LEMMA NextKeepsUnnamed ==
    ASSUME Inv, [Next]_vars, NEW h \in Calls,
           Runs(h, "update"), calls'[h] # calls[h], rows' # rows, ~calls[h].overlapped
    PROVE  \A c \in Unnamed(calls[h]) :
               rows'[calls[h].table][calls[h].id].cols[c] = rows[calls[h].table][calls[h].id].cols[c]
<1>1. PICK g \in Calls : Insert(g) \/ WriteRow(g)
  BY ZenonT(40) DEF Next, Handle, vars, CheckNewAccount, ReadRow, Compare, Breaks, Hear, GiveUp,
         BootstrapFromEnv, Bootstrapped, Ask, StartLoad, ReadList, Loaded, LoadFails, Clear
<1>2. ~Insert(g)
  <2> SUFFICES ASSUME Insert(g) PROVE FALSE
    OBVIOUS
  <2>1. g # h
    BY DEF Insert, Runs
  <2> QED
    BY <2>1 DEF Insert, Answered, Inv, AdminInv
<1>3. g = h
  BY <1>1, <1>2 DEF WriteRow, Committed, Answered, Runs, Inv, AdminInv
<1> QED
  BY <1>1, <1>2, <1>3, WrittenRow

\* An update changes a column that it does not name only if another update of the
\* row was committed between its read and its save (updateAccount and the like).
THEOREM UnnamedColumnsStay == Spec => UnnamedColumnsKept
<1>1. Inv /\ [Next]_vars =>
        [\A h \in Calls :
            LET call == calls[h]
            IN Runs(h, "update") /\ calls'[h] # call /\ rows' # rows /\ ~call.overlapped =>
                \A c \in Columns[call.table] \ DOMAIN call.input :
                    rows'[call.table][call.id].cols[c] = rows[call.table][call.id].cols[c]]_vars
  BY NextKeepsUnnamed DEF Unnamed
<1>2. Init => Inv
  BY InitInv
<1>3. Inv /\ [Next]_vars => Inv'
  BY NextInv
<1> QED
  BY <1>1, <1>2, <1>3, PTL DEF Spec, UnnamedColumnsKept
-----------------------------------------------------------------------------
(* What a console shows, and what it has still to hear of.                   *)

\* The answer will change what the console shows.
Changed(call) == call.at = "done" /\ call.code = 200

\* The call is for a row that is there, or says that it is not.
Names(call) == call.at \in {"find", "save", "update"} \/ Changed(call)

SameRow(call, table, id) == call.table = table /\ call.id = id

Unheard(c, table, id) ==
    \E h \in Calls : calls[h].owner = c /\ Changed(calls[h]) /\ SameRow(calls[h], table, id)

\* A console asks for what it may list.
ListedInv(call, r) ==
    call.owner \in Consoles =>
        /\ call.at \in {"check", "insert"} /\ call.table = "accounts" => call.role = "app_user"
        /\ Names(call) =>
            /\ call.id \in DOMAIN r[call.table] \cup {0}
            /\ call.table = "accounts" /\ call.id # 0 => r["accounts"][call.id].role = "app_user"

\* No row changes its name or its role; and while a console is alone, its UPDATE
\* finds the row as its comparison found it.
EntityInv(call, r, f) ==
    call.at \in Saving =>
        LET now == r[call.table][call.id]
        IN /\ call.row.name = now.name /\ call.row.role = now.role
           /\ (call.at = "update" /\ call.owner \in Consoles /\ f[call.owner]) =>
                \A x \in Columns[call.table] \ call.diff : call.row.cols[x] = now.cols[x]

\* A quiet load has read lists that are still so.
LoadInv(l) ==
    loading[l] # None =>
        /\ loading[l] = [console |-> loading[l].console, at |-> loading[l].at,
                         lists |-> loading[l].lists, quiet |-> loading[l].quiet]
        /\ loading[l].console \in Consoles
        /\ loading[l].at \in 1 .. 4
        /\ loading[l].lists = [i \in 1 .. loading[l].at - 1 |-> loading[l].lists[i]]
        /\ loading[l].quiet =>
            /\ Idle(loading[l].console)
            /\ \A i \in 1 .. loading[l].at - 1 : loading[l].lists[i] = Listed(Order[i])

\* While a console is alone, each of its calls is for a row of its own.
ApartInv(c) ==
    fresh[c] => \A g, h \in Calls :
        /\ calls[g].owner = c /\ calls[h].owner = c /\ Names(calls[g]) /\ Names(calls[h])
        /\ SameRow(calls[g], calls[h].table, calls[h].id)
        => g = h

\* A console that was alone shows the tables but for the rows it has to hear of,
\* and what it will hear of them is so.
FreshInv(c) ==
    fresh[c] => \A t \in Tables :
        /\ \A e : ~Unheard(c, t, e.id) => (e \in view[c][t] <=> e \in Listed(t))
        /\ \A h \in Calls : calls[h].owner = c /\ Changed(calls[h]) /\ calls[h].table = t =>
                [id |-> calls[h].id, row |-> calls[h].row] \in Listed(t)

ConsoleShape ==
    /\ view = [c \in Consoles |-> [t \in Tables |-> view[c][t]]]
    /\ loading = [l \in Loads |-> loading[l]]
    /\ fresh = [c \in Consoles |-> fresh[c]]

CallsInv == \A h \in Calls : ListedInv(calls[h], rows) /\ EntityInv(calls[h], rows, fresh)

ConsoleInv ==
    /\ ConsoleShape /\ CallsInv
    /\ \A l \in Loads : LoadInv(l)
    /\ \A c \in Consoles : ApartInv(c) /\ FreshInv(c)

LEMMA NoCallFacts ==
    /\ NoCall.owner = None /\ NoCall.owner \notin Consoles /\ NoCall.at = "free"
    /\ ~Changed(NoCall) /\ ~Names(NoCall)
    /\ \A r, f : ListedInv(NoCall, r) /\ EntityInv(NoCall, r, f)
  BY OwnersAssumption DEF NoCall, Changed, Names, ListedInv, EntityInv, Saving

LEMMA InitConsoles == Init => ConsoleInv
<1> SUFFICES ASSUME Init PROVE ConsoleInv
  OBVIOUS
<1>1. /\ calls = [h \in Calls |-> NoCall]
      /\ view = [c \in Consoles |-> [t \in Tables |-> {}]]
      /\ loading = [l \in Loads |-> None] /\ fresh = [c \in Consoles |-> FALSE]
  BY DEF Init
<1>2. ConsoleShape
  BY <1>1 DEF ConsoleShape
<1>3. CallsInv
  BY <1>1, NoCallFacts DEF CallsInv
<1>4. \A l \in Loads : LoadInv(l)
  BY <1>1 DEF LoadInv
<1>5. \A c \in Consoles : ApartInv(c) /\ FreshInv(c)
  BY <1>1 DEF ApartInv, FreshInv
<1> QED
  BY <1>2, <1>3, <1>4, <1>5 DEF ConsoleInv

\* A load goes on as it was, or hears of no peace.
LoadGoes(l) ==
    \/ loading'[l] = loading[l]
    \/ loading[l] # None /\ loading'[l] = [loading[l] EXCEPT !.quiet = FALSE]

LEMMA LoadGoesOn ==
    ASSUME NEW l \in Loads, LoadInv(l), LoadGoes(l),
           loading'[l] # None /\ loading'[l].quiet =>
                /\ rows' = rows
                /\ \A h \in Calls : calls'[h].owner # loading[l].console
    PROVE  LoadInv(l)'
<1>1. CASE loading'[l] = loading[l]
  <2> SUFFICES ASSUME loading'[l] # None PROVE LoadInv(l)'
    BY DEF LoadInv
  <2>1. Idle(loading[l].console)' <=> \A h \in Calls : calls'[h].owner # loading[l].console
    BY <1>1 DEF Idle
  <2>2. rows' = rows => \A i \in 1 .. 4 : Listed(Order[i])' = Listed(Order[i])
    BY DEF Listed, Order
  <2> QED
    BY <1>1, <2>1, <2>2 DEF LoadInv
<1>2. CASE loading[l] # None /\ loading'[l] = [loading[l] EXCEPT !.quiet = FALSE]
  <2> DEFINE k == loading[l]  m == loading'[l]
  <2>1. m = [console |-> k.console, at |-> k.at, lists |-> k.lists, quiet |-> FALSE]
    BY <1>2, Zenon DEF LoadInv
  <2>2. m.console = k.console /\ m.at = k.at /\ m.lists = k.lists /\ m.quiet = FALSE
    BY <2>1
  <2> QED
    BY <1>2, <2>1, <2>2 DEF LoadInv
<1> QED
  BY <1>1, <1>2 DEF LoadGoes

\* A step of one call that writes no row.
LEMMA OneCallGoes ==
    ASSUME Inv, ConsoleInv, rows' = rows, ConsoleShape',
           NEW h \in Calls, NEW d, calls' = [calls EXCEPT ![h] = d],
           ListedInv(d, rows), EntityInv(d, rows, fresh), ~Changed(d),
           \A c \in Consoles :
                /\ view'[c] = view[c] /\ (fresh'[c] => fresh[c])
                /\ calls[h].owner = c /\ Changed(calls[h]) => ~fresh'[c]
                /\ d.owner = c /\ Names(d) /\ fresh'[c] =>
                    \/ calls[h].owner = c /\ Names(calls[h]) /\ SameRow(d, calls[h].table, calls[h].id)
                    \/ ~AskedOf(c, d.table, d.id),
           \A l \in Loads :
                /\ LoadGoes(l)
                /\ d.owner \in Consoles /\ d.owner # calls[h].owner
                   /\ loading[l] # None /\ loading[l].console = d.owner /\ loading'[l] # None
                   => ~loading'[l].quiet
    PROVE  ConsoleInv'
<1>1. calls'[h] = d /\ \A g \in Calls \ {h} : calls'[g] = calls[g]
  BY DEF Inv, AdminInv
<1>2. ASSUME NEW c \in Consoles PROVE ApartInv(c)'
  <2> SUFFICES ASSUME fresh'[c], NEW g \in Calls, NEW k \in Calls,
                      calls'[g].owner = c, calls'[k].owner = c, Names(calls'[g]), Names(calls'[k]),
                      SameRow(calls'[g], calls'[k].table, calls'[k].id), g # k
               PROVE  FALSE
    BY DEF ApartInv, SameRow, Names, Changed
  <2>1. fresh[c] /\ ApartInv(c)
    BY DEF ConsoleInv
  <2>2. CASE g # h /\ k # h
    BY <1>1, <2>1, <2>2 DEF ApartInv
  <2>3. ASSUME NEW j \in Calls \ {h}, calls[j].owner = c, Names(calls[j]), d.owner = c, Names(d),
               SameRow(d, calls[j].table, calls[j].id)
        PROVE  FALSE
    <3>1. AskedOf(c, d.table, d.id)
      BY <2>3 DEF AskedOf, SameRow
    <3>2. calls[h].owner = c /\ Names(calls[h]) /\ SameRow(d, calls[h].table, calls[h].id)
      BY <2>3, <3>1
    <3>3. SameRow(calls[h], calls[j].table, calls[j].id)
      BY <2>3, <3>2 DEF SameRow
    <3> QED
      BY <2>1, <2>3, <3>2, <3>3 DEF ApartInv
  <2>4. CASE g = h
    BY <1>1, <2>3, <2>4
  <2>5. CASE k = h
    <3>1. g # h /\ calls'[g] = calls[g] /\ calls'[k] = d
      BY <1>1, <2>5
    <3>2. SameRow(d, calls[g].table, calls[g].id)
      BY <3>1 DEF SameRow
    <3> QED
      BY <2>3, <3>1, <3>2
  <2> QED
    BY <2>2, <2>4, <2>5
<1>3. ASSUME NEW g \in Calls PROVE ListedInv(calls'[g], rows') /\ EntityInv(calls'[g], rows', fresh')
  <2>1. ListedInv(calls'[g], rows) /\ EntityInv(calls'[g], rows, fresh)
    BY <1>1 DEF ConsoleInv, CallsInv
  <2> QED
    BY <2>1, SMTT(30) DEF EntityInv
<1>4. ASSUME NEW l \in Loads PROVE LoadInv(l)'
  <2>1. ASSUME loading'[l] # None, loading'[l].quiet
        PROVE  \A g \in Calls : calls'[g].owner # loading[l].console
    <3>1. loading[l] # None /\ loading[l].quiet
      BY <2>1, Zenon DEF LoadGoes, LoadInv, ConsoleInv
    <3>2. Idle(loading[l].console) /\ loading[l].console \in Consoles
      BY <3>1, Zenon DEF LoadInv, ConsoleInv
    <3> QED
      BY <1>1, <2>1, <3>1, <3>2 DEF Idle
  <2> QED
    BY <2>1, LoadGoesOn DEF ConsoleInv
<1>5. ASSUME NEW c \in Consoles PROVE FreshInv(c)'
  <2> SUFFICES ASSUME fresh'[c] PROVE FreshInv(c)'
    BY DEF FreshInv
  <2>1. fresh[c] /\ FreshInv(c) /\ view'[c] = view[c]
    BY DEF ConsoleInv
  <2>2. \A g \in Calls : /\ (calls'[g].owner = c /\ Changed(calls'[g])) <=> (calls[g].owner = c /\ Changed(calls[g]))
                         /\ calls'[g].owner = c /\ Changed(calls'[g]) => calls'[g] = calls[g]
    BY <1>1
  <2>3. \A t \in Tables : Listed(t)' = Listed(t)
    BY DEF Listed
  <2>4. ASSUME NEW t \in Tables, NEW e, ~Unheard(c, t, e.id)' PROVE ~Unheard(c, t, e.id)
    <3>1. \A g \in Calls : ~(calls'[g].owner = c /\ Changed(calls'[g]) /\ SameRow(calls'[g], t, e.id))
      BY <2>4 DEF Unheard, Changed, SameRow
    <3>2. \A g \in Calls : calls[g].owner = c /\ Changed(calls[g]) => calls'[g] = calls[g]
      BY <2>2
    <3> QED
      BY <3>1, <3>2 DEF Unheard
  <2>5. ASSUME NEW t \in Tables, NEW e, ~Unheard(c, t, e.id)'
        PROVE  e \in view'[c][t] <=> e \in Listed(t)'
    BY <2>1, <2>3, <2>4, <2>5 DEF FreshInv
  <2>6. ASSUME NEW g \in Calls, calls'[g].owner = c, Changed(calls'[g]), NEW t \in Tables,
               calls'[g].table = t
        PROVE  [id |-> calls'[g].id, row |-> calls'[g].row] \in Listed(t)'
    <3>1. calls'[g] = calls[g] /\ calls[g].owner = c /\ Changed(calls[g])
      BY <2>2, <2>6
    <3> QED
      BY <2>1, <2>3, <2>6, <3>1 DEF FreshInv
  <2> QED
    BY <2>5, <2>6 DEF FreshInv, Changed
<1> QED
  BY <1>2, <1>3, <1>4, <1>5 DEF ConsoleInv, CallsInv

-----------------------------------------------------------------------------
\* The statements of the handlers that write nothing.
LEMMA AnswerGoes ==
    ASSUME Inv, ConsoleInv, rows' = rows, UNCHANGED consoleVars,
           NEW h \in Calls, calls[h].at \notin {"free", "done"},
           NEW code, code # 200, NEW row, calls' = Answered(h, code, row)
    PROVE  ConsoleInv'
<1> DEFINE done == [calls[h] EXCEPT !.at = "done", !.code = code, !.row = row]
<1>1. ConsoleShape'
  BY DEF ConsoleInv, ConsoleShape, consoleVars
<1>2. ~Changed(calls[h])
  BY DEF Changed
<1>3. CASE calls[h].owner = None
  <2>1. calls' = [calls EXCEPT ![h] = NoCall]
    BY <1>3 DEF Answered, Inv, AdminInv
  <2>2. /\ NoCall.owner \notin Consoles /\ ~Changed(NoCall) /\ ~Names(NoCall)
        /\ ListedInv(NoCall, rows) /\ EntityInv(NoCall, rows, fresh)
    BY NoCallFacts
  <2>3. PICK d : d = NoCall
    OBVIOUS
  <2> QED
    BY <1>1, <1>2, <2>1, <2>2, <2>3, OneCallGoes, Zenon DEF consoleVars, LoadGoes
<1>4. CASE calls[h].owner # None
  <2>1. calls' = [calls EXCEPT ![h] = done]
    BY <1>4 DEF Answered, Inv, AdminInv
  <2>2. done.at = "done" /\ done.owner = calls[h].owner /\ done.code = code
    BY DEF Inv, AdminInv, CallInv, IsCall
  <2>3. ~Changed(done) /\ ~Names(done) /\ ListedInv(done, rows) /\ EntityInv(done, rows, fresh)
    BY <2>2 DEF Changed, Names, ListedInv, EntityInv, Saving
  <2>4. PICK d : d = done
    OBVIOUS
  <2> HIDE DEF done
  <2> QED
    BY <1>1, <1>2, <2>1, <2>2, <2>3, <2>4, OneCallGoes, Zenon DEF consoleVars, LoadGoes
<1> QED
  BY <1>3, <1>4

\* A call goes on for whom it is, with a record of its own.
LEMMA StatementGoes ==
    ASSUME Inv, ConsoleInv, rows' = rows, UNCHANGED consoleVars,
           NEW h \in Calls, calls[h].at # "done",
           NEW d, calls' = [calls EXCEPT ![h] = d], d.owner = calls[h].owner, d.at # "done",
           ListedInv(d, rows), EntityInv(d, rows, fresh),
           Names(d) => Names(calls[h]) /\ SameRow(d, calls[h].table, calls[h].id)
    PROVE  ConsoleInv'
<1>1. ConsoleShape'
  BY DEF ConsoleInv, ConsoleShape, consoleVars
<1>2. ~Changed(calls[h]) /\ ~Changed(d)
  BY DEF Changed
<1> QED
  BY <1>1, <1>2, OneCallGoes, Zenon DEF consoleVars, LoadGoes

LEMMA CheckGoes == ASSUME Inv, ConsoleInv, NEW h \in Calls, CheckNewAccount(h) PROVE ConsoleInv'
<1> DEFINE c == calls[h]
           new == [c EXCEPT !.at = "insert"]
<1>1. c.at = "check" /\ rows' = rows /\ UNCHANGED consoleVars
  BY DEF CheckNewAccount, Runs
<1>2. CASE calls' = Answered(h, 400, None) \/ calls' = Answered(h, 409, None)
  BY <1>1, <1>2, AnswerGoes
<1>3. CASE calls' = Goes(h, "insert")
  <2>1. calls' = [calls EXCEPT ![h] = new]
    BY <1>3 DEF Goes
  <2>2. new.at = "insert" /\ new.owner = c.owner /\ new.table = c.table /\ new.role = c.role
    BY DEF Inv, AdminInv, CallInv, IsCall
  <2>3. ListedInv(c, rows)
    BY DEF ConsoleInv, CallsInv
  <2>4. ListedInv(new, rows) /\ EntityInv(new, rows, fresh) /\ ~Names(new)
    BY <1>1, <2>2, <2>3 DEF ListedInv, EntityInv, Saving, Names, Changed
  <2>5. PICK d : d = new
    BY Zenon
  <2> HIDE DEF new
  <2> QED
    BY <1>1, <2>1, <2>2, <2>4, <2>5, StatementGoes, Zenon
<1> QED
  BY <1>2, <1>3 DEF CheckNewAccount

LEMMA ReadRowGoes == ASSUME Inv, ConsoleInv, NEW h \in Calls, ReadRow(h) PROVE ConsoleInv'
<1> DEFINE c == calls[h]
           old == rows[c.table][c.id]
           new == [c EXCEPT !.at = "save", !.row = Updated(old, c.input)]
<1>1. c.at = "find" /\ rows' = rows /\ UNCHANGED consoleVars
  BY DEF ReadRow, Runs
<1>2. CASE calls' = Answered(h, 404, None) \/ calls' = Answered(h, 400, None)
  BY <1>1, <1>2, AnswerGoes
<1>3. CASE /\ c.id \in DOMAIN rows[c.table]
           /\ calls' = [calls EXCEPT ![h].at = "save", ![h].row = Updated(old, c.input)]
  <2>1. calls' = [calls EXCEPT ![h] = new]
    BY <1>3, Zenon DEF Inv, AdminInv
  <2>2. /\ new.at = "save" /\ new.owner = c.owner /\ new.table = c.table /\ new.id = c.id
        /\ new.row = Updated(old, c.input)
    BY DEF Inv, AdminInv, CallInv, IsCall
  <2>3. IsRow(old, c.table)
    BY <1>1, <1>3, Zenon DEF Inv, AdminInv, RowsInv, CallInv
  <2>4. Updated(old, c.input).name = old.name /\ Updated(old, c.input).role = old.role
    BY <2>3, Zenon DEF Updated, IsRow
  <2>5. ListedInv(c, rows)
    BY DEF ConsoleInv, CallsInv
  <2>6. /\ ListedInv(new, rows) /\ EntityInv(new, rows, fresh)
        /\ Names(c) /\ SameRow(new, c.table, c.id)
    BY <1>1, <2>2, <2>4, <2>5 DEF ListedInv, EntityInv, Names, Changed, SameRow
  <2>7. PICK d : d = new
    OBVIOUS
  <2> HIDE DEF new
  <2> QED
    BY <1>1, <2>1, <2>2, <2>6, <2>7, StatementGoes, Zenon
<1> QED
  BY <1>2, <1>3 DEF ReadRow

\* The comparison finds every column in which the row is not the entity.
LEMMA CompareGoes == ASSUME Inv, ConsoleInv, NEW h \in Calls, Compare(h) PROVE ConsoleInv'
<1> DEFINE c == calls[h]
           old == rows[c.table][c.id]
           differ == { x \in DOMAIN old.cols : old.cols[x] # c.row.cols[x] }
           new == [c EXCEPT !.at = "update", !.diff = differ]
<1>1. c.at = "save" /\ rows' = rows /\ UNCHANGED consoleVars
  BY DEF Compare, Runs
<1>2. calls' = [calls EXCEPT ![h] = new]
  BY Zenon DEF Compare, Inv, AdminInv
<1>3. /\ new.at = "update" /\ new.owner = c.owner /\ new.table = c.table /\ new.id = c.id
      /\ new.row = c.row /\ new.diff = differ
  BY DEF Inv, AdminInv, CallInv, IsCall
<1>4. IsRow(old, c.table)
  BY <1>1 DEF Inv, AdminInv, RowsInv, CallInv, UpdateInv, Saving
<1>5. \A x \in Columns[c.table] \ differ : c.row.cols[x] = old.cols[x]
  BY <1>4, Zenon DEF IsRow
<1>6. ListedInv(c, rows) /\ EntityInv(c, rows, fresh)
  BY DEF ConsoleInv, CallsInv
<1> HIDE DEF differ
<1>7. ListedInv(new, rows) /\ Names(c) /\ SameRow(new, c.table, c.id)
  BY <1>1, <1>3, <1>6 DEF ListedInv, Names, Changed, SameRow
<1>8. EntityInv(new, rows, fresh)
  BY <1>1, <1>3, <1>5, <1>6, SMTT(30) DEF EntityInv, Saving
<1>9. PICK d : d = new
  OBVIOUS
<1> HIDE DEF new
<1> QED
  BY <1>1, <1>2, <1>3, <1>7, <1>8, <1>9, StatementGoes, Zenon

-----------------------------------------------------------------------------
\* A request, a process and the end of a call.
MayAsk(owner, table, at, id, role) ==
    owner \in Consoles =>
        IF at \in {"check", "insert"} THEN table = "accounts" => role = "app_user"
        ELSE /\ id \in DOMAIN rows[table] \cup {0}
             /\ table = "accounts" /\ id # 0 => rows["accounts"][id].role = "app_user"

\* A console that asks again for a row it waits for is alone no more.
Spoils(owner, table, at, id) ==
    \A c \in Consoles :
        /\ fresh'[c] => fresh[c]
        /\ owner = c /\ at = "find" /\ fresh'[c] => ~AskedOf(c, table, id)

\* The loads of a console that asks hear of no peace.
Disquiets(owner) ==
    \A l \in Loads :
        /\ LoadGoes(l)
        /\ owner \in Consoles /\ loading[l] # None /\ loading[l].console = owner
           /\ loading'[l] # None => ~loading'[l].quiet

LEMMA BeginGoes ==
    ASSUME Inv, ConsoleInv, rows' = rows, ConsoleShape', view' = view,
           NEW owner, NEW table, NEW at \in {"check", "insert", "find"},
           NEW id, NEW name, NEW role, NEW input,
           Begin(owner, table, at, id, name, role, input),
           MayAsk(owner, table, at, id, role), Spoils(owner, table, at, id), Disquiets(owner)
    PROVE  ConsoleInv'
<1> DEFINE new == [owner |-> owner, table |-> table, at |-> at, id |-> id, name |-> name,
                   role |-> role, input |-> input, row |-> None, diff |-> {}, code |-> None,
                   overlapped |-> FALSE]
<1>1. PICK h \in Calls : calls[h].at = "free" /\ calls' = [calls EXCEPT ![h] = new]
  BY Zenon DEF Begin, Runs
<1>2. /\ new.owner = owner /\ new.table = table /\ new.id = id /\ new.at = at
      /\ ~Changed(new) /\ ~Changed(calls[h]) /\ (Names(new) => at = "find")
  BY <1>1 DEF Changed, Names
<1>3. ListedInv(new, rows) /\ EntityInv(new, rows, fresh)
  BY <1>2 DEF ListedInv, EntityInv, Names, Saving, MayAsk
<1>4. PICK d : d = new
  BY Zenon
<1> HIDE DEF new
<1>5. /\ d.owner = owner /\ d.table = table /\ d.id = id /\ ~Changed(d) /\ (Names(d) => at = "find")
      /\ ListedInv(d, rows) /\ EntityInv(d, rows, fresh) /\ calls' = [calls EXCEPT ![h] = d]
  BY <1>1, <1>2, <1>3, <1>4
<1> QED
  BY <1>1, <1>2, <1>5, OneCallGoes, ZenonT(40) DEF Spoils, Disquiets

LEMMA AskGoes ==
    ASSUME Inv, ConsoleInv, NEW c \in Consoles, NEW r \in Requests, Ask(c, r)
    PROVE  ConsoleInv'
<1>1. /\ rows' = rows /\ view' = view /\ r.table \in Tables
      /\ loading' = [l \in Loads |->
            IF loading[l] # None /\ loading[l].console = c
            THEN [loading[l] EXCEPT !.quiet = FALSE] ELSE loading[l]]
  BY RequestsAssumption DEF Ask
<1>2. ASSUME NEW l \in Loads
      PROVE  /\ LoadGoes(l)
             /\ c \in Consoles /\ loading[l] # None /\ loading[l].console = c /\ loading'[l] # None
                => ~loading'[l].quiet
  <2>1. CASE ~(loading[l] # None /\ loading[l].console = c)
    BY <1>1, <2>1 DEF LoadGoes
  <2>2. CASE loading[l] # None /\ loading[l].console = c
    <3>1. loading'[l] = [loading[l] EXCEPT !.quiet = FALSE]
      BY <1>1, <2>2
    <3>2. loading[l] = [console |-> loading[l].console, at |-> loading[l].at,
                        lists |-> loading[l].lists, quiet |-> loading[l].quiet]
      BY <2>2, Zenon DEF ConsoleInv, LoadInv
    <3>3. ~loading'[l].quiet
      BY <3>1, <3>2
    <3> QED
      BY <2>2, <3>1, <3>3 DEF LoadGoes
  <2> QED
    BY <2>1, <2>2
<1>3. loading' = [l \in Loads |-> loading'[l]] /\ view' = [k \in Consoles |-> [t \in Tables |-> view'[k][t]]]
  BY <1>1 DEF ConsoleInv, ConsoleShape
<1>6. rows' = rows /\ view' = view /\ Disquiets(c)
  BY <1>1, <1>2 DEF Disquiets
<1>4. CASE r.update
  <2>1. PICK id \in { shown.id : shown \in Listed(r.table) } \cup {0} :
            /\ Begin(c, r.table, "find", id, None, None, r.input)
            /\ fresh' = [fresh EXCEPT ![c] = @ /\ ~AskedOf(c, r.table, id)]
    BY <1>4 DEF Ask
  <2>2. /\ id \in DOMAIN rows[r.table] \cup {0}
        /\ r.table = "accounts" /\ id # 0 => rows["accounts"][id].role = "app_user"
    BY DEF Listed
  <2>3. ConsoleShape'
    BY <1>3, <2>1, Zenon DEF ConsoleInv, ConsoleShape
  <2>4. \A k \in Consoles : /\ fresh'[k] => fresh[k]
                            /\ c = k /\ fresh'[k] => ~AskedOf(k, r.table, id)
    <3>1. /\ fresh'[c] = (fresh[c] /\ ~AskedOf(c, r.table, id))
          /\ \A k \in Consoles : k # c => fresh'[k] = fresh[k]
      BY <2>1, Zenon DEF ConsoleInv, ConsoleShape
    <3> QED
      BY <3>1, Zenon
  <2>5. PICK table, at, name, input :
            table = r.table /\ at = "find" /\ name = None /\ input = r.input
    OBVIOUS
  <2>6. /\ at \in {"check", "insert", "find"} /\ Begin(c, table, at, id, name, name, input)
        /\ MayAsk(c, table, at, id, name) /\ Spoils(c, table, at, id)
    BY <2>1, <2>2, <2>4, <2>5 DEF MayAsk, Spoils
  <2> QED
    BY <1>6, <2>3, <2>6, BeginGoes, Zenon
<1>5. CASE ~r.update
  <2>1. PICK at, name, role : /\ Begin(c, r.table, at, None, name, role, r.input)
                              /\ at \in {"check", "insert"} /\ fresh' = fresh
                              /\ r.table = "accounts" => role = "app_user"
    BY <1>5 DEF Ask
  <2>2. ConsoleShape'
    BY <1>3, <2>1, Zenon DEF ConsoleInv, ConsoleShape
  <2>3. PICK table, id, input : table = r.table /\ id = None /\ input = r.input
    OBVIOUS
  <2>4. /\ at \in {"check", "insert", "find"} /\ Begin(c, table, at, id, name, role, input)
        /\ MayAsk(c, table, at, id, role) /\ Spoils(c, table, at, id)
    BY <2>1, <2>3 DEF MayAsk, Spoils
  <2> QED
    BY <1>6, <2>2, <2>4, BeginGoes, Zenon
<1> QED
  BY <1>4, <1>5

\* Nothing but the calls of processes, or nothing at all.
LEMMA AloneGoes ==
    ASSUME ConsoleInv, UNCHANGED <<rows, calls>>, UNCHANGED consoleVars
    PROVE  ConsoleInv'
<1>1. ConsoleShape' /\ CallsInv'
  BY SMTT(30) DEF ConsoleInv, ConsoleShape, CallsInv, consoleVars, EntityInv, ListedInv
<1>2. ASSUME NEW l \in Loads PROVE LoadInv(l)'
  BY LoadGoesOn DEF ConsoleInv, LoadGoes, LoadInv, consoleVars, Idle
<1>3. ASSUME NEW c \in Consoles PROVE ApartInv(c)' /\ FreshInv(c)'
  BY DEF ConsoleInv, ApartInv, FreshInv, Unheard, consoleVars, Listed
<1> QED
  BY <1>1, <1>2, <1>3 DEF ConsoleInv

LEMMA BootstrapGoes ==
    ASSUME Inv, ConsoleInv, NEW p \in Processes, BootstrapFromEnv(p)
    PROVE  ConsoleInv'
<1>1. rows' = rows /\ UNCHANGED consoleVars /\ p \notin Consoles
  BY OwnersAssumption DEF BootstrapFromEnv
<1>2. ConsoleShape'
  BY <1>1 DEF ConsoleInv, ConsoleShape, consoleVars
<1>3. CASE UNCHANGED calls
  BY <1>1, <1>3, AloneGoes
<1>4. CASE \E name : Begin(p, "accounts", "check", None, name, RoleOf(p), << >>)
  <2>1. PICK name, role : Begin(p, "accounts", "check", None, name, role, << >>)
    BY <1>4
  <2> QED
    BY <1>1, <1>2, <2>1, BeginGoes DEF consoleVars, LoadGoes, MayAsk, Spoils, Disquiets
<1> QED
  BY <1>3, <1>4 DEF BootstrapFromEnv

LEMMA BootstrappedGoes ==
    ASSUME Inv, ConsoleInv, NEW p \in Processes, Bootstrapped(p)
    PROVE  ConsoleInv'
<1>1. PICK h \in Calls : calls[h].owner = p /\ calls' = [calls EXCEPT ![h] = NoCall]
  BY Zenon DEF Bootstrapped
<1>2. rows' = rows /\ UNCHANGED consoleVars /\ p \notin Consoles
  BY OwnersAssumption DEF Bootstrapped
<1>3. ConsoleShape'
  BY <1>2 DEF ConsoleInv, ConsoleShape, consoleVars
<1>4. /\ NoCall.owner \notin Consoles /\ ~Changed(NoCall) /\ ~Names(NoCall)
      /\ ListedInv(NoCall, rows) /\ EntityInv(NoCall, rows, fresh)
  BY NoCallFacts
<1>5. PICK d : d = NoCall
  OBVIOUS
<1> QED
  BY <1>1, <1>2, <1>3, <1>4, <1>5, OneCallGoes, Zenon DEF consoleVars, LoadGoes

\* The console cannot know any more.
LEMMA GiveUpGoes ==
    ASSUME Inv, ConsoleInv, NEW c \in Consoles, NEW h \in Calls, GiveUp(c, h)
    PROVE  ConsoleInv'
<1>1. /\ calls[h].owner = c /\ rows' = rows /\ view' = view /\ loading' = loading
      /\ fresh' = [fresh EXCEPT ![c] = FALSE]
  BY DEF GiveUp
<1>2. ConsoleShape' /\ ~fresh'[c] /\ \A k \in Consoles : k # c => fresh'[k] = fresh[k]
  BY <1>1, Zenon DEF ConsoleInv, ConsoleShape
<1>3. CASE calls' = [calls EXCEPT ![h] = NoCall]
  <2>1. /\ NoCall.owner \notin Consoles /\ ~Changed(NoCall) /\ ~Names(NoCall)
        /\ ListedInv(NoCall, rows) /\ EntityInv(NoCall, rows, fresh)
    BY NoCallFacts
  <2>2. PICK d : d = NoCall
    OBVIOUS
  <2> QED
    BY <1>1, <1>2, <1>3, <2>1, <2>2, OneCallGoes, ZenonT(40) DEF LoadGoes
<1>4. CASE calls[h].at # "done" /\ calls' = [calls EXCEPT ![h].owner = None]
  <2> DEFINE new == [calls[h] EXCEPT !.owner = None]
  <2>1. calls' = [calls EXCEPT ![h] = new]
    BY <1>4 DEF Inv, AdminInv
  <2>2. /\ new.owner = None /\ new.owner \notin Consoles /\ new.at = calls[h].at
        /\ new.table = calls[h].table /\ new.id = calls[h].id /\ new.row = calls[h].row
    BY OwnersAssumption DEF Inv, AdminInv, CallInv, IsCall
  <2>3. EntityInv(calls[h], rows, fresh) /\ ~Changed(calls[h]) /\ ~Changed(new)
    BY <1>4, <2>2 DEF ConsoleInv, CallsInv, Changed
  <2>4. ListedInv(new, rows) /\ EntityInv(new, rows, fresh)
    BY <2>2, <2>3 DEF ListedInv, EntityInv
  <2>5. PICK d : d = new
    BY Zenon
  <2> HIDE DEF new
  <2> QED
    BY <1>1, <1>2, <2>1, <2>2, <2>3, <2>4, <2>5, OneCallGoes, Zenon DEF LoadGoes
<1> QED
  BY <1>3, <1>4 DEF GiveUp

-----------------------------------------------------------------------------
\* The console reads the lists.
LEMMA LoadingGoes ==
    ASSUME ConsoleInv, UNCHANGED <<rows, calls>>, ConsoleShape',
           \A c \in Consoles :
                \/ view'[c] = view[c] /\ fresh'[c] = fresh[c]
                \/ /\ fresh'[c] => Idle(c)
                   /\ fresh'[c] => \A t \in Tables : view'[c][t] = Listed(t),
           \A l \in Loads : loading'[l] = loading[l] \/ LoadInv(l)'
    PROVE  ConsoleInv'
<1>1. \A h \in Calls : ListedInv(calls[h], rows)'
  BY DEF ConsoleInv, CallsInv, ListedInv
<1>2. ASSUME NEW h \in Calls PROVE EntityInv(calls[h], rows, fresh)'
  <2>1. EntityInv(calls[h], rows, fresh)
    BY DEF ConsoleInv, CallsInv
  <2>2. calls[h].owner \in Consoles /\ fresh'[calls[h].owner] => fresh[calls[h].owner]
    BY DEF Idle
  <2> QED
    BY <2>1, <2>2 DEF EntityInv
<1>3. ASSUME NEW l \in Loads PROVE LoadInv(l)'
  <2>1. CASE loading'[l] = loading[l]
    <3>1. LoadInv(l) /\ LoadGoes(l)
      BY <2>1 DEF ConsoleInv, LoadGoes
    <3>2. loading'[l] # None /\ loading'[l].quiet =>
            \A h \in Calls : calls'[h].owner # loading[l].console
      BY <2>1, <3>1 DEF LoadInv, Idle
    <3> QED
      BY <3>1, <3>2, LoadGoesOn
  <2> QED
    BY <2>1
<1>4. ASSUME NEW c \in Consoles, fresh'[c] PROVE ApartInv(c)' /\ FreshInv(c)'
  <2>1. \A t \in Tables : Listed(t)' = Listed(t)
    BY DEF Listed
  <2>2. \A t, e : Unheard(c, t, e.id)' <=> Unheard(c, t, e.id)
    BY DEF Unheard
  <2>3. CASE view'[c] = view[c] /\ fresh'[c] = fresh[c]
    <3>1. fresh[c] /\ ApartInv(c) /\ FreshInv(c)
      BY <1>4, <2>3 DEF ConsoleInv
    <3>2. ApartInv(c)'
      BY <3>1 DEF ApartInv
    <3>3. FreshInv(c)'
      BY <2>1, <2>2, <2>3, <3>1 DEF FreshInv
    <3> QED
      BY <3>2, <3>3
  <2>4. CASE Idle(c) /\ \A t \in Tables : view'[c][t] = Listed(t)
    BY <2>1, <2>4 DEF ApartInv, FreshInv, Idle
  <2> QED
    BY <1>4, <2>3, <2>4
<1>5. \A c \in Consoles : ApartInv(c)' /\ FreshInv(c)'
  BY <1>4 DEF ApartInv, FreshInv
<1> QED
  BY <1>1, <1>2, <1>3, <1>5 DEF ConsoleInv, CallsInv

LEMMA StartLoadGoes == ASSUME ConsoleInv, NEW c \in Consoles, StartLoad(c) PROVE ConsoleInv'
<1> DEFINE m == [console |-> c, at |-> 1, lists |-> << >>, quiet |-> Idle(c)]
<1>1. PICK l \in Loads : /\ UNCHANGED <<rows, calls, view, fresh>>
                         /\ loading' = [loading EXCEPT ![l] = m]
  BY Zenon DEF StartLoad
<1>2. ConsoleShape' /\ loading'[l] = m /\ \A k \in Loads : k # l => loading'[k] = loading[k]
  BY <1>1, Zenon DEF ConsoleInv, ConsoleShape
<1>3. m.console = c /\ m.at = 1 /\ m.lists = << >> /\ m.quiet = Idle(c)
  OBVIOUS
<1>4. Idle(c)' = Idle(c)
  BY <1>1 DEF Idle
<1>5. m.lists = [i \in 1 .. m.at - 1 |-> m.lists[i]] /\ m.at \in 1 .. 4
  BY <1>3
<1>6. LoadInv(l)'
  BY <1>2, <1>3, <1>4, <1>5 DEF LoadInv
<1> QED
  BY <1>1, <1>2, <1>6, LoadingGoes

LEMMA LoadFailsGoes == ASSUME ConsoleInv, NEW l \in Loads, LoadFails(l) PROVE ConsoleInv'
<1>1. UNCHANGED <<rows, calls, view, fresh>> /\ loading' = [loading EXCEPT ![l] = None]
  BY DEF LoadFails
<1>2. ConsoleShape' /\ loading'[l] = None /\ \A k \in Loads : k # l => loading'[k] = loading[k]
  BY <1>1, Zenon DEF ConsoleInv, ConsoleShape
<1>3. LoadInv(l)'
  BY <1>2 DEF LoadInv
<1> QED
  BY <1>1, <1>2, <1>3, LoadingGoes

\* A console that shows nothing knows nothing.
LEMMA ClearGoes == ASSUME ConsoleInv, NEW c \in Consoles, Clear(c) PROVE ConsoleInv'
<1>1. /\ UNCHANGED <<rows, calls, loading>> /\ fresh' = [fresh EXCEPT ![c] = FALSE]
      /\ view' = [view EXCEPT ![c] = [t \in Tables |-> {}]]
  BY DEF Clear
<1>2. /\ ~fresh'[c] /\ view'[c] = [t \in Tables |-> {}]
      /\ \A k \in Consoles : k # c => view'[k] = view[k] /\ fresh'[k] = fresh[k]
  BY <1>1, Zenon DEF ConsoleInv, ConsoleShape
<1>3. ConsoleShape'
  <2>1. \A k \in Consoles : view'[k] = [t \in Tables |-> view'[k][t]]
    BY <1>2 DEF ConsoleInv, ConsoleShape
  <2> QED
    BY <1>1, <2>1, Zenon DEF ConsoleInv, ConsoleShape
<1> QED
  BY <1>1, <1>2, <1>3, LoadingGoes

LEMMA AppendList ==
    ASSUME NEW n \in Nat, NEW s, s = [i \in 1 .. n |-> s[i]], NEW e
    PROVE  /\ Append(s, e) = [i \in 1 .. n + 1 |-> Append(s, e)[i]]
           /\ \A i \in 1 .. n : Append(s, e)[i] = s[i]
           /\ Append(s, e)[n + 1] = e
<1> DEFINE S == { s[i] : i \in 1 .. n } \cup {e}
<1>1. s \in [1 .. n -> S] /\ e \in S
  OBVIOUS
<1>2. s \in Seq(S) /\ Len(s) = n
  BY <1>1
<1> HIDE DEF S
<1> QED
  BY <1>1, <1>2

LEMMA ReadListGoes == ASSUME ConsoleInv, NEW x \in Loads, ReadList(x) PROVE ConsoleInv'
<1> DEFINE l == loading[x]
           lists == Append(l.lists, Listed(Order[l.at]))
           m == [console |-> l.console, at |-> l.at + 1, lists |-> lists, quiet |-> l.quiet]
<1>1. /\ UNCHANGED <<rows, calls, view, fresh>> /\ l # None /\ l.at <= 3
      /\ loading' = [loading EXCEPT ![x].at = @ + 1, ![x].lists = Append(@, Listed(Order[l.at]))]
  BY DEF ReadList, Order
<1>2. /\ l = [console |-> l.console, at |-> l.at, lists |-> l.lists, quiet |-> l.quiet]
      /\ l.at \in 1 .. 3 /\ l.console \in Consoles
      /\ l.lists = [i \in 1 .. l.at - 1 |-> l.lists[i]]
      /\ l.quiet => Idle(l.console) /\ \A i \in 1 .. l.at - 1 : l.lists[i] = Listed(Order[i])
  <2>1. LoadInv(x)
    BY DEF ConsoleInv
  <2>2. l.at \in 1 .. 4
    BY <1>1, <2>1 DEF LoadInv
  <2>3. l.at \in 1 .. 3
    BY <1>1, <2>2
  <2> QED
    BY <1>1, <2>1, <2>3 DEF LoadInv
<1>3. loading' = [loading EXCEPT ![x] = m]
  <2>1. loading' = [loading EXCEPT ![x] = [l EXCEPT !.at = l.at + 1, !.lists = lists]]
    BY <1>1, Zenon DEF ConsoleInv, ConsoleShape
  <2> HIDE DEF lists
  <2>2. PICK k, n, s : k = l /\ n = l.at + 1 /\ s = lists
    OBVIOUS
  <2>3. PICK j : j = [k EXCEPT !.at = n, !.lists = s]
    OBVIOUS
  <2>4. j = m
    <3>1. k = [console |-> k.console, at |-> k.at, lists |-> k.lists, quiet |-> k.quiet]
      BY <1>2, <2>2
    <3>2. j = [console |-> j.console, at |-> j.at, lists |-> j.lists, quiet |-> j.quiet]
      BY <2>3, <3>1, Zenon
    <3>3. j.console = k.console /\ j.at = n /\ j.lists = s /\ j.quiet = k.quiet
      BY <2>3, <3>1
    <3>. HIDE DEF lists
    <3> QED
      BY <2>2, <3>2, <3>3
  <2> HIDE DEF m
  <2> QED
    BY <2>1, <2>2, <2>3, <2>4, Zenon
<1> HIDE DEF m
<1>4. ConsoleShape' /\ loading'[x] = m /\ \A k \in Loads : k # x => loading'[k] = loading[k]
  BY <1>1, <1>3, ZenonT(40) DEF ConsoleInv, ConsoleShape
<1> USE DEF m
<1>5. /\ lists = [i \in 1 .. l.at |-> lists[i]]
      /\ \A i \in 1 .. l.at - 1 : lists[i] = l.lists[i]
      /\ lists[l.at] = Listed(Order[l.at])
  <2>1. PICK n \in Nat : n = l.at - 1 /\ n + 1 = l.at
    BY <1>2
  <2>2. l.lists = [i \in 1 .. n |-> l.lists[i]]
    BY <1>2, <2>1
  <2> QED
    BY <2>1, <2>2, AppendList
<1>6. m.quiet => /\ \A h \in Calls : calls'[h].owner # l.console
                /\ \A i \in 1 .. l.at : lists[i] = Listed(Order[i])'
  <2> SUFFICES ASSUME l.quiet
               PROVE  /\ \A h \in Calls : calls'[h].owner # l.console
                      /\ \A i \in 1 .. l.at : lists[i] = Listed(Order[i])'
    BY Zenon
  <2>1. \A h \in Calls : calls'[h].owner # l.console
    BY <1>1, <1>2 DEF Idle
  <2>2. ASSUME NEW i \in 1 .. l.at PROVE lists[i] = Listed(Order[i])'
    <3>1. lists[i] = Listed(Order[i])
      <4>1. CASE i = l.at
        BY <1>5, <4>1
      <4>2. CASE i # l.at
        <5>1. i \in 1 .. l.at - 1
          BY <1>2, <4>2
        <5> QED
          BY <1>2, <1>5, <5>1, Zenon
      <4> QED
        BY <4>1, <4>2, Zenon
    <3> QED
      BY <1>1, <3>1, Zenon DEF Listed, Order
  <2> QED
    BY <2>1, <2>2, Zenon
<1>7. m.at = l.at + 1 /\ m.lists = lists /\ m.at - 1 = l.at /\ m.at \in 1 .. 4
      /\ m.console = l.console
      /\ m = [console |-> m.console, at |-> m.at, lists |-> m.lists, quiet |-> m.quiet]
  <2>1. PICK b \in 1 .. 3 : b = l.at
    BY <1>2
  <2> HIDE DEF lists
  <2>2. PICK a, q, o : a = b + 1 /\ q = l.quiet /\ o = l.console
    OBVIOUS
  <2>3. m = [console |-> o, at |-> a, lists |-> lists, quiet |-> q]
    BY <2>1, <2>2
  <2> HIDE DEF m
  <2>4. m.console = o /\ m.at = a /\ m.lists = lists /\ m.quiet = q
    BY <2>3
  <2>5. m = [console |-> m.console, at |-> m.at, lists |-> m.lists, quiet |-> m.quiet]
    BY <2>3, <2>4
  <2>6. a - 1 = l.at /\ a \in 1 .. 4
    BY <2>1, <2>2
  <2> QED
    BY <2>2, <2>4, <2>5, <2>6
<1> HIDE DEF m, lists
<1>8. LoadInv(x)'
  <2>1. m.quiet => Idle(loading[x].console)'
    BY <1>4, <1>6, <1>7 DEF Idle
  <2> QED
    BY <1>2, <1>4, <1>5, <1>6, <1>7, <2>1 DEF LoadInv
<1> QED
  BY <1>1, <1>4, <1>8, LoadingGoes, Zenon

LEMMA LoadedGoes == ASSUME ConsoleInv, NEW x \in Loads, Loaded(x) PROVE ConsoleInv'
<1> DEFINE l == loading[x]
           c == l.console
           at(t) == CHOOSE i \in DOMAIN Order : Order[i] = t
<1>1. /\ UNCHANGED <<rows, calls>> /\ l # None /\ l.at > 3
      /\ view' = [view EXCEPT ![c] = [t \in Tables |-> l.lists[at(t)]]]
      /\ fresh' = [fresh EXCEPT ![c] = l.quiet]
      /\ loading' = [loading EXCEPT ![x] = None]
  BY DEF Loaded, Order
<1>0. LoadInv(x) /\ c \in Consoles
  BY <1>1 DEF ConsoleInv, LoadInv
<1>2. /\ loading'[x] = None /\ fresh'[c] = l.quiet /\ view'[c] = [t \in Tables |-> l.lists[at(t)]]
      /\ \A k \in Consoles : k # c => view'[k] = view[k] /\ fresh'[k] = fresh[k]
      /\ \A k \in Loads : k # x => loading'[k] = loading[k]
  BY <1>0, <1>1 DEF ConsoleInv, ConsoleShape
<1>3. ConsoleShape'
  <2>1. \A k \in Consoles : view'[k] = [t \in Tables |-> view'[k][t]]
    BY <1>2 DEF ConsoleInv, ConsoleShape
  <2> QED
    BY <1>1, <2>1, Zenon DEF ConsoleInv, ConsoleShape
<1>4. LoadInv(x)'
  BY <1>2 DEF LoadInv
<1>5. l.quiet => Idle(c) /\ \A i \in 1 .. 3 : l.lists[i] = Listed(Order[i])
  <2>1. LoadInv(x)
    BY <1>0
  <2>2. l.at \in 1 .. 4
    BY <1>1, <2>1 DEF LoadInv
  <2>3. l.at - 1 = 3
    BY <1>1, <2>2
  <2> QED
    BY <1>1, <2>1, <2>3 DEF LoadInv
<1>6. ASSUME l.quiet, NEW t \in Tables PROVE view'[c][t] = Listed(t)
  <2>1. \E i \in DOMAIN Order : Order[i] = t
    BY DEF Order, Tables
  <2>2. at(t) \in DOMAIN Order /\ Order[at(t)] = t
    BY <2>1
  <2>3. at(t) \in 1 .. 3
    BY <2>2 DEF Order
  <2> HIDE DEF at
  <2>4. l.lists[at(t)] = Listed(t)
    BY <1>5, <1>6, <2>2, <2>3
  <2> QED
    BY <1>1, <1>2, <2>4 DEF Listed
<1> HIDE DEF c
<1> QED
  BY <1>1, <1>2, <1>3, <1>4, <1>5, <1>6, LoadingGoes, Zenon

-----------------------------------------------------------------------------
\* A row is written: who asked for it has an answer to hear, and no other console
\* knows any more.
LEMMA OtherEntries ==
    ASSUME NEW t \in Tables, NEW id,
           DOMAIN rows'[t] = DOMAIN rows[t] \cup {id},
           \A i \in DOMAIN rows[t] : i # id => rows'[t][i] = rows[t][i]
    PROVE  \A e : e.id # id => (e \in Listed(t) <=> e \in Listed(t)')
<1>1. ASSUME NEW e, e.id # id, e \in Listed(t) PROVE e \in Listed(t)'
  <2>1. PICK i \in DOMAIN rows[t] : /\ t # "accounts" \/ rows[t][i].role = "app_user"
                                    /\ e = [id |-> i, row |-> rows[t][i]]
    BY <1>1 DEF Listed
  <2>2. i # id /\ i \in DOMAIN rows'[t] /\ rows'[t][i] = rows[t][i]
    BY <1>1, <2>1
  <2> QED
    BY <2>1, <2>2 DEF Listed
<1>2. ASSUME NEW e, e.id # id, e \in Listed(t)' PROVE e \in Listed(t)
  <2>1. PICK i \in DOMAIN rows'[t] : /\ t # "accounts" \/ rows'[t][i].role = "app_user"
                                     /\ e = [id |-> i, row |-> rows'[t][i]]
    BY <1>2 DEF Listed
  <2>2. i # id /\ i \in DOMAIN rows[t] /\ rows'[t][i] = rows[t][i]
    BY <1>2, <2>1
  <2> QED
    BY <2>1, <2>2 DEF Listed
<1> QED
  BY <1>1, <1>2

\* A list has one entry for a row.
LEMMA OneEntry ==
    ASSUME NEW t, NEW e \in Listed(t), NEW f \in Listed(t), e.id = f.id
    PROVE  e = f
  BY DEF Listed

LEMMA RowGoes ==
    ASSUME Inv, ConsoleInv, NEW h \in Calls, view' = view, Disturbed(h),
           NEW t \in Tables, NEW id, NEW row,
           calls[h].at \notin {"free", "done"},
           DOMAIN rows'[t] = DOMAIN rows[t] \cup {id},
           \A u \in Tables : u # t => rows'[u] = rows[u],
           \A i \in DOMAIN rows[t] : i # id => rows'[t][i] = rows[t][i],
           id \in DOMAIN rows[t] => /\ rows'[t][id].name = rows[t][id].name
                                    /\ rows'[t][id].role = rows[t][id].role,
           calls[h].owner \in Consoles => /\ t = "accounts" => rows'[t][id].role = "app_user"
                                          /\ fresh[calls[h].owner] => rows'[t][id] = row,
           calls[h].owner = None => calls'[h] = NoCall,
           calls[h].owner # None => /\ calls'[h].owner = calls[h].owner /\ calls'[h].at = "done"
                                    /\ calls'[h].code = 200 /\ calls'[h].table = t
                                    /\ calls'[h].id = id /\ calls'[h].row = row,
           \A g \in Calls \ {h} :
                /\ \A x \in {"owner", "table", "at", "id", "role", "row", "diff", "code"} :
                        calls'[g][x] = calls[g][x]
                /\ calls[g].owner \in Consoles /\ calls[g].owner = calls[h].owner
                   /\ fresh[calls[g].owner] /\ Names(calls[g]) => ~SameRow(calls[g], t, id)
    PROVE  ConsoleInv'
<1>1. ASSUME NEW g \in Calls \ {h}
      PROVE  /\ calls'[g].owner = calls[g].owner /\ calls'[g].table = calls[g].table
             /\ calls'[g].at = calls[g].at /\ calls'[g].id = calls[g].id
             /\ calls'[g].role = calls[g].role /\ calls'[g].row = calls[g].row
             /\ calls'[g].diff = calls[g].diff /\ calls'[g].code = calls[g].code
  OBVIOUS
<1>2. \A c \in Consoles : fresh'[c] => fresh[c] /\ calls[h].owner = c
  BY Zenon DEF Disturbed
<1>3. \A l \in Loads : /\ loading[l] = None => loading'[l] = None
                       /\ loading[l] # None => loading'[l] = [loading[l] EXCEPT !.quiet = FALSE]
  BY DEF Disturbed
<1>4. ConsoleShape'
  BY DEF ConsoleInv, ConsoleShape, Disturbed
<1>5. \A g \in Calls \ {h} : /\ Changed(calls'[g]) <=> Changed(calls[g])
                             /\ Names(calls'[g]) <=> Names(calls[g])
                             /\ \A u, i : SameRow(calls'[g], u, i) <=> SameRow(calls[g], u, i)
  BY <1>1 DEF Changed, Names, SameRow
<1>6. ASSUME calls[h].owner \in Consoles
      PROVE  /\ calls'[h].owner = calls[h].owner /\ SameRow(calls'[h], t, id)
             /\ calls'[h].row = row /\ Changed(calls'[h]) /\ Names(calls'[h])
  BY <1>6, OwnersAssumption DEF Changed, Names, SameRow
<1>7. \A u \in Tables : \A i \in DOMAIN rows[u] :
        /\ i \in DOMAIN rows'[u]
        /\ rows'[u][i].name = rows[u][i].name /\ rows'[u][i].role = rows[u][i].role
        /\ u # t \/ i # id => rows'[u][i] = rows[u][i]
  OBVIOUS
<1>8. ASSUME NEW g \in Calls PROVE ListedInv(calls'[g], rows') /\ EntityInv(calls'[g], rows', fresh')
  <2>1. CASE g = h
    <3>1. calls'[h].at \in {"free", "done"}
      BY NoCallFacts
    <3>2. CASE calls[h].owner = None
      BY <2>1, <3>2, NoCallFacts
    <3>3. CASE calls[h].owner # None
      <4>1. EntityInv(calls'[h], rows', fresh')
        BY <3>1 DEF EntityInv, Saving
      <4>2. ListedInv(calls'[h], rows')
        BY <3>1, <3>3 DEF ListedInv
      <4> QED
        BY <2>1, <4>1, <4>2
    <3> QED
      BY <3>2, <3>3
  <2>2. CASE g # h
    <3> DEFINE k == calls[g]  l == calls'[g]
    <3>1. /\ l.owner = k.owner /\ l.table = k.table /\ l.at = k.at /\ l.id = k.id
          /\ l.role = k.role /\ l.row = k.row /\ l.diff = k.diff /\ (Names(l) <=> Names(k))
      BY <1>1, <1>5, <2>2
    <3>2. ListedInv(k, rows) /\ EntityInv(k, rows, fresh) /\ CallInv(k, rows)
      BY DEF ConsoleInv, CallsInv, Inv, AdminInv
    <3>3. k.owner \in Consoles /\ fresh'[k.owner] /\ k.at = "update" =>
            fresh[k.owner] /\ ~(k.table = t /\ k.id = id)
      BY <1>2, <2>2 DEF Names, SameRow
    <3>. HIDE DEF k, l
    <3>4. ListedInv(l, rows')
      BY <1>7, <3>1, <3>2 DEF ListedInv, CallInv, Tables, Names, Changed
    <3>5. EntityInv(l, rows', fresh')
      <4> SUFFICES ASSUME l.at \in Saving PROVE EntityInv(l, rows', fresh')
        BY DEF EntityInv
      <4>1. k.table \in Tables /\ k.id \in DOMAIN rows[k.table]
        BY <3>1, <3>2 DEF CallInv, UpdateInv, Saving
      <4> QED
        BY <1>7, <3>1, <3>2, <3>3, <4>1 DEF EntityInv
    <3> QED
      BY <3>4, <3>5 DEF l
  <2> QED
    BY <2>1, <2>2
<1>9. ASSUME NEW l \in Loads PROVE LoadInv(l)'
  <2>1. LoadInv(l)
    BY DEF ConsoleInv
  <2>2. CASE loading[l] = None
    BY <1>3, <2>2, Zenon DEF LoadInv
  <2>3. CASE loading[l] # None
    <3>1. loading'[l] = [loading[l] EXCEPT !.quiet = FALSE]
      BY <1>3, <2>3
    <3>2. loading[l] = [console |-> loading[l].console, at |-> loading[l].at,
                        lists |-> loading[l].lists, quiet |-> loading[l].quiet]
      BY <2>1, <2>3 DEF LoadInv
    <3>3. ~loading'[l].quiet
      BY <3>1, <3>2
    <3> QED
      BY <2>1, <2>3, <3>1, <3>3, LoadGoesOn, Zenon DEF LoadGoes
  <2> QED
    BY <2>2, <2>3
<1>10. ASSUME NEW c \in Consoles, fresh'[c] PROVE ApartInv(c)' /\ FreshInv(c)'
  <2>1. fresh[c] /\ calls[h].owner = c /\ calls[h].owner \in Consoles /\ ApartInv(c) /\ FreshInv(c)
    BY <1>2, <1>10 DEF ConsoleInv
  <2>2. \A g \in Calls \ {h} : calls[g].owner = c /\ Names(calls[g]) => ~SameRow(calls[g], t, id)
    BY <2>1
  <2>3. ApartInv(c)'
    <3> SUFFICES ASSUME NEW g \in Calls, NEW k \in Calls,
                        calls'[g].owner = c, calls'[k].owner = c, Names(calls'[g]), Names(calls'[k]),
                        SameRow(calls'[g], calls'[k].table, calls'[k].id), g # k
                 PROVE  FALSE
      BY DEF ApartInv, SameRow, Names, Changed
    <3>1. CASE g # h /\ k # h
      BY <1>1, <1>5, <2>1, <3>1 DEF ApartInv, SameRow
    <3>2. CASE g = h
      BY <1>1, <1>5, <1>6, <2>1, <2>2, <3>2 DEF SameRow
    <3>3. CASE k = h
      BY <1>1, <1>5, <1>6, <2>1, <2>2, <3>3 DEF SameRow
    <3> QED
      BY <3>1, <3>2, <3>3
  <2>4. ASSUME NEW u \in Tables, NEW e, ~Unheard(c, u, e.id)'
        PROVE  e \in view'[c][u] <=> e \in Listed(u)'
    <3>1. ~Unheard(c, u, e.id) /\ (u = t => e.id # id)
      <4>1. \A g \in Calls : ~(calls'[g].owner = c /\ Changed(calls'[g]) /\ SameRow(calls'[g], u, e.id))
        BY <2>4 DEF Unheard, Changed, SameRow
      <4>2. u = t => e.id # id
        BY <1>6, <2>1, <4>1
      <4>3. ~Changed(calls[h])
        BY DEF Changed
      <4>4. ~Unheard(c, u, e.id)
        BY <1>1, <1>5, <4>1, <4>3 DEF Unheard
      <4> QED
        BY <4>2, <4>4
    <3>2. e \in view[c][u] <=> e \in Listed(u)
      BY <2>1, <3>1 DEF FreshInv
    <3>3. e \in Listed(u) <=> e \in Listed(u)'
      <4>1. CASE u = t
        BY <3>1, <4>1, OtherEntries
      <4>2. CASE u # t
        BY <4>2 DEF Listed
      <4> QED
        BY <4>1, <4>2
    <3> QED
      BY <3>2, <3>3
  <2>5. ASSUME NEW g \in Calls, calls'[g].owner = c, Changed(calls'[g]), NEW u \in Tables,
               calls'[g].table = u
        PROVE  [id |-> calls'[g].id, row |-> calls'[g].row] \in Listed(u)'
    <3>1. CASE g = h
      <4>1. u = t /\ calls'[g].id = id /\ calls'[g].row = row
        BY <1>6, <2>1, <2>5, <3>1 DEF SameRow
      <4>2. id \in DOMAIN rows'[t] /\ rows'[t][id] = row /\ (t = "accounts" => rows'[t][id].role = "app_user")
        BY <2>1
      <4> QED
        BY <4>1, <4>2 DEF Listed
    <3>2. CASE g # h
      <4> DEFINE e == [id |-> calls[g].id, row |-> calls[g].row]
      <4>1. calls[g].owner = c /\ Changed(calls[g]) /\ calls[g].table = u
        BY <1>1, <1>5, <2>5, <3>2
      <4>2. e \in Listed(u) /\ e.id = calls[g].id
        BY <2>1, <4>1 DEF FreshInv
      <4>3. u = t => e.id # id
        BY <2>2, <3>2, <4>1, <4>2 DEF Names, SameRow
      <4>4. e = [id |-> calls'[g].id, row |-> calls'[g].row]
        BY <1>1, <3>2
      <4> HIDE DEF e
      <4>5. e \in Listed(u)'
        <5>1. CASE u = t
          BY <4>2, <4>3, <5>1, OtherEntries
        <5>2. CASE u # t
          BY <4>2, <5>2 DEF Listed
        <5> QED
          BY <5>1, <5>2
      <4> QED
        BY <4>4, <4>5
    <3> QED
      BY <3>1, <3>2
  <2>6. FreshInv(c)'
    BY <2>4, <2>5 DEF FreshInv, Changed
  <2> QED
    BY <2>3, <2>6
<1>11. \A c \in Consoles : ApartInv(c)' /\ FreshInv(c)'
  BY <1>10 DEF ApartInv, FreshInv
<1> QED
  BY <1>4, <1>8, <1>9, <1>11 DEF ConsoleInv, CallsInv

LEMMA InsertGoes == ASSUME Inv, ConsoleInv, NEW h \in Calls, Insert(h) PROVE ConsoleInv'
<1> DEFINE c == calls[h]
           t == c.table
           row == Created(t, c.name, c.role, c.input)
<1>1. /\ c.at = "insert" /\ CallInv(c, rows) /\ t \in Tables /\ ListedInv(c, rows)
      /\ view' = view
  BY DEF Insert, Runs, Inv, AdminInv, CallInv, ConsoleInv, CallsInv
<1>2. CASE Taken(t, row)
  <2>1. calls' = Answered(h, 500, None) /\ rows' = rows /\ UNCHANGED consoleVars
    BY <1>2 DEF Insert, consoleVars
  <2> QED
    BY <1>1, <2>1, AnswerGoes
<1>3. CASE ~Taken(t, row)
  <2>1. /\ rows' = [rows EXCEPT ![t] = Append(rows[t], row)]
        /\ calls' = [Answered(h, 200, row) EXCEPT ![h] =
                        IF @.at = "done" THEN [@ EXCEPT !.id = Len(rows'[t])] ELSE @]
        /\ Disturbed(h)
    BY <1>3 DEF Insert
  <2>2. row.role = c.role
    BY DEF Created
  <2> HIDE DEF row
  <2>3. PICK id : id = Len(rows[t]) + 1
    OBVIOUS
  <2>4. /\ Len(rows'[t]) = id /\ id \notin DOMAIN rows[t] /\ DOMAIN rows'[t] = DOMAIN rows[t] \cup {id}
        /\ \A i \in DOMAIN rows[t] : rows'[t][i] = rows[t][i]
        /\ rows'[t][id] = row
    <3>1. rows[t] \in Seq(Entries(rows[t])) /\ rows'[t] = Append(rows[t], row)
      BY <1>1, <2>1 DEF Inv, AdminInv, RowsInv
    <3> QED
      BY <2>3, <3>1, AppendFacts
  <2>5. \A u \in Tables : u # t => rows'[u] = rows[u]
    BY <2>1 DEF Inv, AdminInv, RowsInv
  <2>6. c.owner \in Consoles /\ t = "accounts" => row.role = "app_user"
    BY <1>1, <2>2 DEF ListedInv
  <2>7. c.owner = None => calls'[h] = NoCall
    BY <2>1 DEF Answered, NoCall, Inv, AdminInv
  <2>8. ASSUME c.owner # None
        PROVE  /\ calls'[h].owner = c.owner /\ calls'[h].at = "done" /\ calls'[h].code = 200
               /\ calls'[h].table = t /\ calls'[h].id = id /\ calls'[h].row = row
    <3>1. calls'[h] = [[c EXCEPT !.at = "done", !.code = 200, !.row = row] EXCEPT !.id = Len(rows'[t])]
      BY <1>1, <2>1, <2>8, Zenon DEF Answered, Inv, AdminInv, CallInv, IsCall
    <3> QED
      BY <1>1, <2>4, <3>1 DEF CallInv, IsCall
  <2>9. \A g \in Calls \ {h} : calls'[g] = calls[g]
    BY <2>1 DEF Answered, Inv, AdminInv
  <2>10. c.at \notin {"free", "done"}
    BY <1>1
  <2>11. PICK table, new : table \in Tables /\ table = t /\ new = row
    BY <1>1
  <2>12. ASSUME NEW g \in Calls \ {h}
         PROVE  /\ \A x \in {"owner", "table", "at", "id", "role", "row", "diff", "code"} :
                        calls'[g][x] = calls[g][x]
                /\ calls[g].owner \in Consoles /\ calls[g].owner = c.owner
                   /\ fresh[calls[g].owner] /\ Names(calls[g]) => ~SameRow(calls[g], table, id)
    <3>1. calls'[g] = calls[g]
      BY <2>9
    <3>2. calls[g].owner \in Consoles /\ Names(calls[g]) =>
            calls[g].id \in DOMAIN rows[calls[g].table] \cup {0}
      BY DEF ConsoleInv, CallsInv, ListedInv
    <3>3. id # 0 /\ id \notin DOMAIN rows[table]
      <4>1. rows[t] \in Seq(Entries(rows[t]))
        BY <1>1 DEF Inv, AdminInv, RowsInv
      <4>2. Len(rows[t]) \in Nat
        BY <4>1, AppendFacts
      <4> QED
        BY <2>3, <2>4, <2>11, <4>2
    <3> QED
      BY <3>1, <3>2, <3>3 DEF SameRow
  <2>13. /\ DOMAIN rows'[table] = DOMAIN rows[table] \cup {id}
         /\ \A u \in Tables : u # table => rows'[u] = rows[u]
         /\ \A i \in DOMAIN rows[table] : i # id => rows'[table][i] = rows[table][i]
         /\ rows'[table][id] = new /\ id \notin DOMAIN rows[table]
         /\ c.owner \in Consoles /\ table = "accounts" => new.role = "app_user"
    BY <2>4, <2>5, <2>6, <2>11
  <2>14. c.owner # None =>
            /\ calls'[h].owner = c.owner /\ calls'[h].at = "done" /\ calls'[h].code = 200
            /\ calls'[h].table = table /\ calls'[h].id = id /\ calls'[h].row = new
    BY <2>8, <2>11
  <2>15. view' = view /\ Disturbed(h)
    BY <1>1, <2>1
  <2>16. /\ id \in DOMAIN rows[table] => /\ rows'[table][id].name = rows[table][id].name
                                          /\ rows'[table][id].role = rows[table][id].role
         /\ c.owner \in Consoles =>
                /\ table = "accounts" => rows'[table][id].role = "app_user"
                /\ fresh[c.owner] => rows'[table][id] = new
    BY <2>13
  <2> HIDE DEF t
  <2> QED
    BY <2>7, <2>10, <2>11, <2>12, <2>13, <2>14, <2>15, <2>16, RowGoes, SMTT(40)
<1> QED
  BY <1>2, <1>3

LEMMA WriteRowGoes == ASSUME Inv, ConsoleInv, NEW h \in Calls, WriteRow(h) PROVE ConsoleInv'
<1> DEFINE c == calls[h]
           t == c.table
           now == rows[t][c.id]
           new == rows'[t][c.id]
           answered == Answered(h, 200, c.row)
<1>1. /\ c.at = "update" /\ t \in Tables /\ c.id \in DOMAIN rows[t] /\ RowsInv'
      /\ \A u \in Tables : DOMAIN rows'[u] = DOMAIN rows[u]
      /\ \A u \in Tables : \A i \in DOMAIN rows[u] :
            <<u, i>> # <<t, c.id>> => rows'[u][i] = rows[u][i]
      /\ new.name = now.name /\ new.role = now.role
      /\ \A x \in Columns[t] : new.cols[x] = IF x \in c.diff THEN c.row.cols[x] ELSE now.cols[x]
  BY WrittenRow
<1>2. /\ view' = view /\ Disturbed(h) /\ calls' = Committed(h, t, c.id, answered)
      /\ rows' = [rows EXCEPT ![t] = rows'[t]]
  BY Zenon DEF WriteRow, Inv, AdminInv, RowsInv
<1>3. CallInv(c, rows) /\ UpdateInv(c, rows) /\ ListedInv(c, rows) /\ EntityInv(c, rows, fresh)
  BY <1>1 DEF Inv, AdminInv, CallInv, Saving, ConsoleInv, CallsInv
<1>4. \A u \in Tables : u # t => rows'[u] = rows[u]
  BY <1>2 DEF Inv, AdminInv, RowsInv
<1>5. c.owner \in Consoles /\ t = "accounts" => new.role = "app_user"
  <2>1. c.id # 0
    <3>1. rows[t] \in Seq(Entries(rows[t]))
      BY <1>1, Zenon DEF Inv, AdminInv, RowsInv
    <3>2. PICK s, id : s = rows[t] /\ id = c.id
      OBVIOUS
    <3>3. id \in DOMAIN s /\ s \in Seq(Entries(s))
      BY <1>1, <3>1, <3>2
    <3>4. DOMAIN s = 1 .. Len(s) /\ Len(s) \in Nat
      BY <3>3
    <3>5. id # 0
      BY <3>3, <3>4
    <3> QED
      BY <3>2, <3>5
  <2> QED
    BY <1>1, <1>3, <2>1 DEF ListedInv, Names
<1>6. ASSUME c.owner \in Consoles, fresh[c.owner] PROVE new = c.row
  <2>1. /\ c.row.name = now.name /\ c.row.role = now.role
        /\ \A x \in Columns[t] \ c.diff : c.row.cols[x] = now.cols[x]
    BY <1>1, <1>3, <1>6, Zenon DEF EntityInv, Saving
  <2>2. IsRow(new, t) /\ IsRow(c.row, t)
    BY <1>1, <1>3, Zenon DEF RowsInv, UpdateInv
  <2>3. \A x \in Columns[t] : new.cols[x] = c.row.cols[x]
    BY <1>1, <2>1, Zenon
  <2>4. PICK a, b : a = new /\ b = c.row
    OBVIOUS
  <2>5. a.name = b.name /\ a.role = b.role /\ a.cols = b.cols
    BY <1>1, <2>1, <2>2, <2>3, <2>4, Zenon DEF IsRow
  <2>6. a = b
    BY <2>2, <2>4, <2>5, Zenon DEF IsRow
  <2> QED
    BY <2>4, <2>6
<1>7. c.owner = None => calls'[h] = NoCall
  BY <1>2 DEF Committed, Answered, Inv, AdminInv
<1>8. ASSUME c.owner # None
      PROVE  /\ calls'[h].owner = c.owner /\ calls'[h].at = "done" /\ calls'[h].code = 200
             /\ calls'[h].table = t /\ calls'[h].id = c.id /\ calls'[h].row = c.row
  <2>1. calls'[h] = [c EXCEPT !.at = "done", !.code = 200, !.row = c.row]
    BY <1>2, <1>8 DEF Committed, Answered, Inv, AdminInv
  <2> QED
    BY <1>3, <2>1 DEF CallInv, IsCall
<1>9. ASSUME NEW g \in Calls \ {h}
      PROVE  \A x \in {"owner", "table", "at", "id", "role", "row", "diff", "code"} :
                calls'[g][x] = calls[g][x]
  <2>1. answered[g] = calls[g]
    BY <1>9 DEF Answered, Inv, AdminInv
  <2>2. calls'[g] = calls[g] \/ calls'[g] = [calls[g] EXCEPT !.overlapped = TRUE]
    BY <1>2, <1>9, <2>1, Zenon DEF Committed
  <2>3. CallInv(calls[g], rows)
    BY <1>9 DEF Inv, AdminInv
  <2> QED
    BY <2>2, <2>3 DEF CallInv, IsCall
<1>10. PICK table, id, row : table \in Tables /\ table = t /\ id = c.id /\ row = c.row
  BY <1>1
<1>11. /\ DOMAIN rows'[table] = DOMAIN rows[table] \cup {id}
       /\ \A u \in Tables : u # table => rows'[u] = rows[u]
       /\ \A i \in DOMAIN rows[table] : i # id => rows'[table][i] = rows[table][i]
       /\ id \in DOMAIN rows[table] =>
            rows'[table][id].name = rows[table][id].name /\ rows'[table][id].role = rows[table][id].role
  <2>1. DOMAIN rows'[table] = DOMAIN rows[table] \cup {id}
    BY <1>1, <1>10
  <2>2. \A u \in Tables : u # table => rows'[u] = rows[u]
    BY <1>4, <1>10
  <2>3. ASSUME NEW i \in DOMAIN rows[table], i # id PROVE rows'[table][i] = rows[table][i]
    <3>1. <<table, i>> # <<t, c.id>>
      BY <1>10, <2>3
    <3> QED
      BY <1>1, <1>10, <2>3, <3>1
  <2>4. rows'[table][id].name = rows[table][id].name /\ rows'[table][id].role = rows[table][id].role
    BY <1>1, <1>10
  <2> QED
    BY <2>1, <2>2, <2>3, <2>4
<1>15. ASSUME NEW g \in Calls \ {h}
       PROVE  calls[g].owner \in Consoles /\ calls[g].owner = c.owner
              /\ fresh[calls[g].owner] /\ Names(calls[g]) => ~SameRow(calls[g], table, id)
  BY <1>1, <1>10, <1>15 DEF ConsoleInv, ApartInv, Names, SameRow
<1>12. c.owner \in Consoles => /\ table = "accounts" => rows'[table][id].role = "app_user"
                               /\ fresh[c.owner] => rows'[table][id] = row
  BY <1>5, <1>6, <1>10
<1>13. c.owner # None =>
         /\ calls'[h].owner = c.owner /\ calls'[h].at = "done" /\ calls'[h].code = 200
         /\ calls'[h].table = table /\ calls'[h].id = id /\ calls'[h].row = row
  BY <1>8, <1>10
<1>14. c.at \notin {"free", "done"}
  BY <1>1
<1> HIDE DEF t, now, new
<1> QED
  BY <1>2, <1>7, <1>9, <1>10, <1>11, <1>12, <1>13, <1>14, <1>15, RowGoes, SMTT(30)

\* The answer is heard: what is shown is what the table holds.
LEMMA HearGoes ==
    ASSUME Inv, ConsoleInv, NEW c \in Consoles, NEW h \in Calls, Hear(c, h)
    PROVE  ConsoleInv'
<1> DEFINE u == calls[h].table
<1>1. /\ calls[h].at = "done" /\ calls[h].owner = c /\ u \in Tables
      /\ calls' = [calls EXCEPT ![h] = NoCall] /\ UNCHANGED <<rows, loading, fresh>>
  BY DEF Hear, Runs, Inv, AdminInv, CallInv
<1>2. /\ NoCall.owner \notin Consoles /\ ~Changed(NoCall) /\ ~Names(NoCall)
      /\ ListedInv(NoCall, rows) /\ EntityInv(NoCall, rows, fresh)
  BY NoCallFacts
<1>3. PICK d : d = NoCall
  OBVIOUS
<1>4. CASE calls[h].code # 200
  <2>1. view' = view
    BY <1>4 DEF Hear
  <2>2. ConsoleShape' /\ ~Changed(calls[h])
    BY <1>1, <1>4, <2>1 DEF ConsoleInv, ConsoleShape, Changed
  <2> QED
    BY <1>1, <1>2, <1>3, <2>1, <2>2, OneCallGoes, Zenon DEF LoadGoes
<1>5. CASE calls[h].code = 200
  <2> DEFINE heard == [id |-> calls[h].id, row |-> calls[h].row]
  <2>1. view' = [view EXCEPT ![c][u] = { shown \in view[c][u] : shown.id # calls[h].id } \cup {heard}]
    BY <1>5 DEF Hear
  <2>2. /\ \A k \in Consoles : k # c => view'[k] = view[k]
        /\ \A t \in Tables : t # u => view'[c][t] = view[c][t]
        /\ view'[c][u] = { shown \in view[c][u] : shown.id # calls[h].id } \cup {heard}
        /\ ConsoleShape'
    BY <1>1, <2>1, Zenon DEF ConsoleInv, ConsoleShape
  <2>3. calls'[h] = d /\ \A g \in Calls \ {h} : calls'[g] = calls[g]
    BY <1>1, <1>3 DEF Inv, AdminInv
  <2>4. Changed(calls[h]) /\ Names(calls[h]) /\ d.owner \notin Consoles
    BY <1>1, <1>2, <1>3, <1>5 DEF Changed, Names
  <2>5. heard.id = calls[h].id
    OBVIOUS
  <2> HIDE DEF heard
  <2>6. ASSUME NEW g \in Calls PROVE ListedInv(calls'[g], rows') /\ EntityInv(calls'[g], rows', fresh')
    <3>1. ListedInv(calls[g], rows) /\ EntityInv(calls[g], rows, fresh)
      BY DEF ConsoleInv, CallsInv
    <3>2. ListedInv(d, rows) /\ EntityInv(d, rows, fresh)
      BY <1>2, <1>3
    <3> QED
      BY <1>1, <2>3, <3>1, <3>2
  <2>7. ASSUME NEW l \in Loads PROVE LoadInv(l)'
    <3>1. LoadInv(l) /\ LoadGoes(l) /\ loading'[l] = loading[l]
      BY <1>1 DEF ConsoleInv, LoadGoes
    <3>2. loading[l] # None => loading[l].console \in Consoles
      BY <3>1 DEF LoadInv
    <3>3. loading[l] # None /\ Idle(loading[l].console) =>
            \A g \in Calls : calls'[g].owner # loading[l].console
      BY <2>3, <2>4, <3>2 DEF Idle
    <3> QED
      BY <1>1, <3>1, <3>3, LoadGoesOn DEF LoadInv
  <2>8. ASSUME NEW k \in Consoles, NEW g \in Calls, calls'[g].owner = k
        PROVE  g # h /\ calls'[g] = calls[g]
    BY <2>3, <2>4, <2>8
  <2>9. ASSUME NEW k \in Consoles, fresh'[k] PROVE ApartInv(k)' /\ FreshInv(k)'
    <3>1. fresh[k] /\ ApartInv(k) /\ FreshInv(k)
      BY <1>1, <2>9 DEF ConsoleInv
    <3>2. ApartInv(k)'
      BY <2>8, <3>1 DEF ApartInv
    <3>3. \A t \in Tables : Listed(t)' = Listed(t)
      BY <1>1 DEF Listed
    <3>4. ASSUME NEW g \in Calls, calls'[g].owner = k, Changed(calls'[g]), NEW t \in Tables,
                 calls'[g].table = t
          PROVE  [id |-> calls'[g].id, row |-> calls'[g].row] \in Listed(t)
      BY <2>8, <3>1, <3>4 DEF FreshInv
    <3>5. ASSUME NEW t \in Tables, NEW e, ~Unheard(k, t, e.id)'
          PROVE  e \in view'[k][t] <=> e \in Listed(t)
      <4>1. ASSUME k # c \/ t # u \/ e.id # calls[h].id
            PROVE  ~Unheard(k, t, e.id)
        <5> SUFFICES ASSUME NEW g \in Calls, calls[g].owner = k, Changed(calls[g]),
                            SameRow(calls[g], t, e.id)
                     PROVE  FALSE
          BY DEF Unheard
        <5>1. g # h
          BY <1>1, <4>1 DEF SameRow
        <5>2. calls'[g].owner = k /\ Changed(calls'[g]) /\ SameRow(calls'[g], t, e.id)
          BY <2>3, <5>1
        <5> QED
          BY <3>5, <5>2 DEF Unheard, Changed, SameRow
      <4>2. CASE k # c \/ t # u
        BY <2>2, <3>1, <4>1, <4>2 DEF FreshInv
      <4>3. CASE k = c /\ t = u /\ e.id # calls[h].id
        BY <2>2, <2>5, <3>1, <4>1, <4>3 DEF FreshInv
      <4>4. CASE k = c /\ t = u /\ e.id = calls[h].id
        <5>1. heard \in Listed(u)
          BY <1>1, <2>4, <3>1, <4>4 DEF FreshInv, heard
        <5>2. e \in view'[c][u] => e = heard
          BY <2>2, <4>4
        <5>3. e \in Listed(u) => e = heard
          BY <2>5, <4>4, <5>1, OneEntry
        <5>4. heard \in view'[c][u]
          BY <2>2
        <5> QED
          BY <4>4, <5>1, <5>2, <5>3, <5>4
      <4> QED
        BY <4>2, <4>3, <4>4
    <3>6. FreshInv(k)'
      BY <3>3, <3>4, <3>5 DEF FreshInv, Changed
    <3> QED
      BY <3>2, <3>6
  <2>10. \A k \in Consoles : ApartInv(k)' /\ FreshInv(k)'
    BY <2>9 DEF ApartInv, FreshInv
  <2> QED
    BY <2>2, <2>6, <2>7, <2>10 DEF ConsoleInv, CallsInv
<1> QED
  BY <1>4, <1>5

LEMMA NextGoes == Inv /\ ConsoleInv /\ [Next]_vars => ConsoleInv'
<1> SUFFICES ASSUME Inv, ConsoleInv, [Next]_vars PROVE ConsoleInv'
  OBVIOUS
<1>1. ASSUME NEW h \in Calls, Handle(h) PROVE ConsoleInv'
  BY <1>1, CheckGoes, InsertGoes, ReadRowGoes, CompareGoes, WriteRowGoes DEF Handle
<1>2. ASSUME NEW h \in Calls, Breaks(h) PROVE ConsoleInv'
  BY <1>2, AnswerGoes DEF Breaks
<1>3. ASSUME NEW c \in Consoles, StartLoad(c) \/ Clear(c) PROVE ConsoleInv'
  BY <1>3, StartLoadGoes, ClearGoes
<1>5. ASSUME NEW l \in Loads, ReadList(l) \/ Loaded(l) \/ LoadFails(l) PROVE ConsoleInv'
  BY <1>5, ReadListGoes, LoadedGoes, LoadFailsGoes
<1>4. CASE UNCHANGED vars
  BY <1>4, AloneGoes DEF vars, consoleVars
<1> QED
  BY <1>1, <1>2, <1>3, <1>4, <1>5, HearGoes, GiveUpGoes, AskGoes, BootstrapGoes, BootstrappedGoes
     DEF Next

\* A console that was loaded in peace and has heard every answer shows the tables,
\* though the list is patched with entities in memory (_runMutation, toAdminNotice).
THEOREM FreshViewIsTheTable == Spec => []ViewIsTheTable
<1>1. Init => Inv /\ ConsoleInv
  BY InitInv, InitConsoles
<1>2. (Inv /\ ConsoleInv) /\ [Next]_vars => (Inv /\ ConsoleInv)'
  BY NextInv, NextGoes
<1>3. ConsoleInv => ViewIsTheTable
  <2> SUFFICES ASSUME ConsoleInv, NEW c \in Consoles, fresh[c], Idle(c), NEW t \in Tables
               PROVE  view[c][t] = Listed(t)
    BY DEF ViewIsTheTable
  <2>1. \A e : ~Unheard(c, t, e.id)
    BY DEF Unheard, Idle
  <2>2. \A e : e \in view[c][t] <=> e \in Listed(t)
    BY <2>1 DEF ConsoleInv, FreshInv
  <2> QED
    BY <2>2
<1> QED
  BY <1>1, <1>2, <1>3, PTL DEF Spec
=============================================================================
