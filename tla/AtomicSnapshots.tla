----------------------------- MODULE AtomicSnapshots -----------------------------
(***************************************************************************)
(* What exporting and importing a snapshot promise: each happens at one    *)
(* moment.  A snapshot shows the tables as they were together, and an      *)
(* import puts every row of the snapshot into its table and touches no     *)
(* other row; or it changes nothing at all.                                *)
(***************************************************************************)
EXTENDS Integers, FiniteSets

CONSTANTS
  Families,    \* the tables a snapshot holds
  Rest,        \* the other tables
  Ids,         \* row ids, ordered like the store orders them
  Rows(_),     \* what the rows of a table may be
  NoRow,
  NoFile,
  PageLimit    \* the rows the store lists at most: 50

VARIABLES
  db,      \* the tables, as committed
  file     \* the snapshot an administrator has downloaded last

NoRows == [f \in Families \cup Rest |-> [i \in Ids |-> NoRow]]

Present(table) == {i \in Ids : table[i] # NoRow}

\* A list holds the rows with the smallest ids, as many as the limit lets through.
Listed(table) ==
  {i \in Present(table) : Cardinality({j \in Present(table) : j <= i}) <= PageLimit}

Exported(table) == [i \in Ids |-> IF i \in Listed(table) THEN table[i] ELSE NoRow]

Overlaid(table, part) == [i \in Ids |-> IF part[i] # NoRow THEN part[i] ELSE table[i]]

Snapshot(d) == [f \in Families |-> Exported(d[f])]

Imported(d, s) ==
  [f \in DOMAIN d |-> IF f \in Families THEN Overlaid(d[f], s[f]) ELSE d[f]]

\* Other requests write one row at a time.
WriteRow ==
  /\ \E f \in Families \cup Rest, i \in Ids :
       /\ db'[f][i] \in Rows(f)
       /\ db' = [db EXCEPT ![f][i] = db'[f][i]]
  /\ UNCHANGED file

Export == file' = Snapshot(db) /\ UNCHANGED db

Import ==
  /\ file # NoFile
  /\ db' = Imported(db, file)
  /\ UNCHANGED file

\* The site is set up anew.
NewSite == db' = NoRows /\ UNCHANGED file

Init ==
  /\ db = NoRows
  /\ file = NoFile

Next == WriteRow \/ Export \/ Import \/ NewSite

Spec == Init /\ [][Next]_<<db, file>>
=============================================================================
