------------------------------ MODULE SiteServices ------------------------------
(***************************************************************************)
(* The services beside the content service (internal/application: media,   *)
(* taxonomy, revisions, preview) and the snapshots of the operations plugin *)
(* (internal/operations, internal/plugins/ops), on the tables they share.  *)
(*                                                                         *)
(* Each operation of a service is one transaction, and all share one       *)
(* connection, so it is one step.  Exporting and importing read and write  *)
(* table after table while they hold the connection; any of their          *)
(* statements may fail, and the process may stop between two of them.      *)
(*                                                                         *)
(* The database may be a new one, with nothing in it: the default data     *)
(* source is in memory and goes with the process, and snapshots are there  *)
(* to be carried from one site to another.                                 *)
(*                                                                         *)
(* The entries are those of one content table; the content service itself  *)
(* is modelled in Content.  Content types, pages, authors, settings and    *)
(* menus go through snapshots the way the families here do.                *)
(***************************************************************************)
EXTENDS Integers, Sequences, FiniteSets

CONSTANTS
  Ids,           \* row ids, in the order the store lists them
  Titles,        \* what else there is to an entry or an asset
  NoRow, NoFile,
  PageLimit,     \* the rows the store lists at most: 50
  MaxWrites      \* bounds the writes of the services

ASSUME ServicesAssumption ==
  /\ Ids \subseteq Int /\ IsFiniteSet(Ids)
  /\ PageLimit \in Nat
  /\ MaxWrites \in Nat

VARIABLES
  db,        \* the tables, with what the transaction under way has written
  file,      \* the snapshot an administrator has downloaded last
  conn,      \* the export or import that holds the connection
  cut,       \* has a table of an export been longer than the limit?
  writes     \* the writes of the services so far

vars == <<db, file, conn, cut, writes>>

\* The tables of a snapshot, in the order they are read and written in, and the rest.
Order == <<"taxonomies", "terms", "posts", "media">>
Families == {Order[k] : k \in DOMAIN Order}
Rest == {"revisions", "previews"}

Entries == [title : Titles, terms : SUBSET Ids, featured : Ids \cup {NoRow}]

Rows(f) ==
  CASE f = "taxonomies" -> {"flat", "hierarchical"}
    [] f = "terms" -> [taxonomy : Ids]
    [] f = "posts" -> Entries
    [] f = "media" -> Titles
    [] f = "revisions" -> [entry : Ids, was : Entries]
    [] f = "previews" -> [entry : Ids]

ASSUME NoRowAssumption == \A f \in Families \cup Rest : NoRow \notin Rows(f)

TableOf(f) == [Ids -> Rows(f) \cup {NoRow}]
EmptyTable == [i \in Ids |-> NoRow]
NothingRead == [f \in Families |-> EmptyTable]

Site == INSTANCE AtomicSnapshots

Idle == [op |-> "idle"]

Steps == 1 .. Len(Order) + 1

IsDatabase(d) ==
  DOMAIN d = Families \cup Rest /\ \A f \in Families \cup Rest : d[f] \in TableOf(f)

IsSnapshot(s) == DOMAIN s = Families /\ \A f \in Families : s[f] \in TableOf(f)

TypeOK ==
  /\ IsDatabase(db)
  /\ file = NoFile \/ IsSnapshot(file)
  /\ \/ conn = Idle
     \/ conn.op = "export" /\ conn.at \in Steps /\ IsSnapshot(conn.read)
     \/ conn.op = "import" /\ conn.at \in Steps /\ IsDatabase(conn.before)
  /\ cut \in BOOLEAN
  /\ writes \in 0 .. MaxWrites

NoRows == [f \in Families \cup Rest |-> EmptyTable]

Init ==
  /\ db = NoRows
  /\ file = NoFile
  /\ conn = Idle
  /\ cut = FALSE
  /\ writes = 0
-----------------------------------------------------------------------------
(***************************************************************************)
(* The services.  What is not there is an error before anything is written. *)
(***************************************************************************)
Stored(f, i) == db[f][i] # NoRow

\* Mutant: services write while a snapshot is read or written.
PutShared(f, i, row) ==
  /\ writes < MaxWrites /\ writes' = writes + 1
  /\ db' = [db EXCEPT ![f][i] = row]
  /\ UNCHANGED <<file, conn, cut>>

Put(f, i, row) ==
  /\ conn = Idle
  /\ writes < MaxWrites /\ writes' = writes + 1
  /\ db' = [db EXCEPT ![f][i] = row]
  /\ UNCHANGED <<file, conn, cut>>

\* The content service saves what it was sent, terms and featured asset included:
\* a create puts it where an entry of that id may have been.
SaveEntry(e, entry) == Put("posts", e, entry)

\* Mutant: the mode is stored as it was sent.
RegisterAsSent(x, mode) == Put("taxonomies", x, mode)

Register(x, mode) ==
  Put("taxonomies", x, IF mode = "" THEN "flat" ELSE mode)

CreateTerm(m, x) ==
  /\ Stored("taxonomies", x)
  /\ Put("terms", m, [taxonomy |-> x])

\* The terms need not be there.
AssignTerms(e, termIDs) ==
  /\ Stored("posts", e)
  /\ Put("posts", e, [db["posts"][e] EXCEPT !.terms = termIDs])

SaveMetadata(a, asset) == Put("media", a, asset)

AttachFeatured(e, a) ==
  /\ Stored("media", a) /\ Stored("posts", e)
  /\ Put("posts", e, [db["posts"][e] EXCEPT !.featured = a])

\* A revision is made under an id the caller chooses, and replaces one of that id.
CreateRevision(v, e) ==
  /\ Stored("posts", e)
  /\ Put("revisions", v, [entry |-> e, was |-> db["posts"][e]])

RestoreRevision(v) ==
  /\ Stored("revisions", v)
  /\ Put("posts", db["revisions"][v].entry, db["revisions"][v].was)

\* A preview's token is random, and so a new one.
CreatePreview(p, e) ==
  /\ Stored("posts", e) /\ ~Stored("previews", p)
  /\ Put("previews", p, [entry |-> e])
-----------------------------------------------------------------------------
(***************************************************************************)
(* Snapshots.                                                              *)
(***************************************************************************)
BeginExport ==
  /\ conn = Idle
  /\ conn' = [op |-> "export", at |-> 1, read |-> NothingRead]
  /\ UNCHANGED <<db, file, cut, writes>>

ListFamily ==
  /\ conn.op = "export" /\ conn.at <= Len(Order)
  /\ conn' = [conn EXCEPT !.at = @ + 1,
                          !.read[Order[conn.at]] = Site!Exported(db[Order[conn.at]])]
  /\ cut' = (cut \/ Site!Exported(db[Order[conn.at]]) # db[Order[conn.at]])
  /\ UNCHANGED <<db, file, writes>>

\* The answer may not reach the administrator.
FinishExport ==
  /\ conn.op = "export" /\ conn.at > Len(Order)
  /\ file' \in {file, conn.read}
  /\ conn' = Idle
  /\ UNCHANGED <<db, cut, writes>>

\* The snapshot is decoded before the transaction begins.
BeginImport ==
  /\ conn = Idle /\ file # NoFile
  /\ conn' = [op |-> "import", at |-> 1, before |-> db]
  /\ UNCHANGED <<db, file, cut, writes>>

\* A family is written record by record; who waits for the connection sees none of it.
PutFamily ==
  /\ conn.op = "import" /\ conn.at <= Len(Order)
  /\ db' = [db EXCEPT ![Order[conn.at]] = Site!Overlaid(@, file[Order[conn.at]])]
  /\ conn' = [conn EXCEPT !.at = @ + 1]
  /\ UNCHANGED <<file, cut, writes>>

FinishImport ==
  /\ conn.op = "import" /\ conn.at > Len(Order)
  /\ conn' = Idle
  /\ UNCHANGED <<db, file, cut, writes>>

Committed == IF conn.op = "import" THEN conn.before ELSE db

\* Mutants: what an import has written stays; an error does not end the transaction.
RollbackKeeping ==
  /\ conn # Idle
  /\ conn' = Idle
  /\ UNCHANGED <<db, file, cut, writes>>
RollbackLeaking ==
  /\ conn # Idle
  /\ db' = Committed
  /\ conn' = [conn EXCEPT !.op = "returned"]
  /\ UNCHANGED <<file, cut, writes>>

\* A statement or the commit fails, or the process stops: the transaction is rolled back.
Rollback ==
  /\ conn # Idle
  /\ db' = Committed
  /\ conn' = Idle
  /\ UNCHANGED <<file, cut, writes>>

\* The process starts on a database with nothing in it.
NewSite ==
  /\ db' = NoRows
  /\ conn' = Idle
  /\ UNCHANGED <<file, cut, writes>>

Next ==
  \/ \E e \in Ids, entry \in Entries : SaveEntry(e, entry)
  \/ \E x \in Ids, mode \in {"", "hierarchical"} : Register(x, mode)
  \/ \E m, x \in Ids : CreateTerm(m, x)
  \/ \E e \in Ids, termIDs \in SUBSET Ids : AssignTerms(e, termIDs)
  \/ \E a \in Ids, asset \in Titles : SaveMetadata(a, asset)
  \/ \E e, a \in Ids : AttachFeatured(e, a)
  \/ \E v, e \in Ids : CreateRevision(v, e)
  \/ \E v \in Ids : RestoreRevision(v)
  \/ \E p, e \in Ids : CreatePreview(p, e)
  \/ BeginExport \/ ListFamily \/ FinishExport
  \/ BeginImport \/ PutFamily \/ FinishImport
  \/ Rollback \/ NewSite

Spec == Init /\ [][Next]_vars

\* A handler that holds the connection goes on to its end.
Fairness ==
  WF_vars(ListFamily \/ FinishExport \/ PutFamily \/ FinishImport \/ Rollback)
-----------------------------------------------------------------------------
(***************************************************************************)
(* Properties.                                                             *)
(***************************************************************************)
\* What a term, a revision or a preview stands on is there, for whoever gets the
\* connection next.  It holds of a site that was filled by importing too: a snapshot
\* has no term without its taxonomy, unless some table was longer than a list holds.
References ==
  /\ ~cut => \A m \in Ids : Committed["terms"][m] # NoRow =>
       Committed["taxonomies"][Committed["terms"][m].taxonomy] # NoRow
  /\ \A v \in Ids : \A f \in Rest : Committed[f][v] # NoRow =>
       Committed["posts"][Committed[f][v].entry] # NoRow

\* Every row is one the services make, and refers to rows that are there.
RowsHold == TypeOK /\ References

\* A snapshot shows all tables as they were at one moment, though they are read one
\* by one, and an import is seen as a whole or not at all, though it may fail or the
\* process may stop at any statement.
Whole == INSTANCE AtomicSnapshots WITH db <- Committed
SnapshotsAreAtomic == Whole!Spec

\* Whoever holds the connection gives it back.
ConnectionReturns == conn # Idle ~> conn = Idle
=============================================================================
