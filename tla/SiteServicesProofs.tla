--------------------------- MODULE SiteServicesProofs ---------------------------
(***************************************************************************)
(* The tables beside the content service keep their references, and         *)
(* snapshots of them are atomic, for any ids, rows, limits and faults.      *)
(***************************************************************************)
EXTENDS SiteServices, OpsLog, FiniteSetTheorems, SequenceTheorems, TLAPS

All == Families \cup Rest

\* Tables are functions from families to functions from ids.
Tabled(d, fs) == d = [f \in fs |-> d[f]] /\ \A f \in fs : d[f] \in TableOf(f)

\* The families an export or an import has been through.
Passed(k) == {Order[j] : j \in 1 .. k - 1}

\* What the request that holds the connection has done so far: an export has read the
\* families it has passed, and none of them was longer than a list unless that was noted;
\* an import has laid those it has passed over what was there.
Halfway ==
  /\ conn.op = "export" =>
       /\ conn = [op |-> "export", at |-> conn.at, read |-> conn.read]
       /\ Tabled(conn.read, Families)
       /\ \A f \in Passed(conn.at) :
            /\ conn.read[f] = Site!Exported(db[f])
            /\ ~cut => Site!Exported(db[f]) = db[f]
  /\ conn.op = "import" =>
       /\ conn = [op |-> "import", at |-> conn.at, before |-> conn.before]
       /\ Tabled(conn.before, All)
       /\ file # NoFile
       /\ \A f \in All :
            db[f] = IF f \in Passed(conn.at) THEN Site!Overlaid(conn.before[f], file[f]) ELSE conn.before[f]

\* A snapshot that was not cut has the taxonomies of its terms.
FileStands ==
  ~cut /\ file # NoFile =>
    \A m \in Ids : file["terms"][m] # NoRow => file["taxonomies"][file["terms"][m].taxonomy] # NoRow

ServicesInv ==
  /\ RowsHold /\ Halfway /\ FileStands
  /\ Tabled(db, All)
  /\ file # NoFile => Tabled(file, Families)

-----------------------------------------------------------------------------
\* The order in which the families are read and written, and how far it has come.
LEMMA OrderFacts ==
  /\ Len(Order) = 4 /\ Steps = 1 .. 5
  /\ Families = {"taxonomies", "terms", "posts", "media"}
  /\ Passed(1) = {} /\ Passed(5) = Families
  /\ \A k \in 1 .. 4 :
       /\ Order[k] \in Families /\ Order[k] \notin Passed(k)
       /\ Passed(k + 1) = Passed(k) \cup {Order[k]}
       /\ k + 1 \in 1 .. 5
<1>1. Len(Order) = 4 /\ DOMAIN Order = 1 .. 4
  BY DEF Order
<1>2. Order[1] = "taxonomies" /\ Order[2] = "terms" /\ Order[3] = "posts" /\ Order[4] = "media"
  BY DEF Order
<1>3. Families = {"taxonomies", "terms", "posts", "media"}
  BY <1>1, <1>2 DEF Families
<1>4. Passed(1) = {} /\ Passed(5) = Families
  BY <1>1 DEF Passed, Families
<1>5. ASSUME NEW k \in 1 .. 4
      PROVE  /\ Order[k] \in Families /\ Order[k] \notin Passed(k)
             /\ Passed(k + 1) = Passed(k) \cup {Order[k]}
             /\ k + 1 \in 1 .. 5
  <2>1. Order[k] \in Families
    BY <1>1 DEF Families
  <2>2. \A j \in 1 .. k - 1 : Order[j] # Order[k]
    BY <1>2
  <2>3. 1 .. (k + 1) - 1 = (1 .. k - 1) \cup {k}
    OBVIOUS
  <2> QED
    BY <2>1, <2>2, <2>3 DEF Passed
<1> QED
  BY <1>1, <1>3, <1>4, <1>5 DEF Steps

\* What goes through a snapshot and comes back is a table of the same rows.
LEMMA Tables ==
  ASSUME NEW f \in All, NEW table \in TableOf(f)
  PROVE  /\ Site!Exported(table) \in TableOf(f)
         /\ \A part \in TableOf(f) : Site!Overlaid(table, part) \in TableOf(f)
         /\ EmptyTable \in TableOf(f)
BY DEF Site!Exported, Site!Overlaid, TableOf, EmptyTable

\* The types follow from the shape of the tables.
LEMMA TabledIs ==
  ASSUME NEW d
  PROVE  /\ Tabled(d, All) => IsDatabase(d)
         /\ Tabled(d, Families) => IsSnapshot(d)
<1>1. \A fs : d = [f \in fs |-> d[f]] => DOMAIN d = fs
  OBVIOUS
<1> QED
  BY <1>1 DEF Tabled, All, IsDatabase, IsSnapshot

\* A new database has no rows, so none that refers to another.
LEMMA InitServices == Init => ServicesInv
<1> SUFFICES ASSUME Init PROVE ServicesInv
  OBVIOUS
<1>1. Tabled(db, All) /\ \A f \in All : \A i \in Ids : db[f][i] = NoRow
  BY DEF Init, NoRows, EmptyTable, TableOf, Tabled, All
<1>2. file = NoFile /\ conn.op = "idle" /\ conn = Idle /\ writes = 0 /\ cut = FALSE
  BY DEF Init, Idle
<1>3. "terms" \in All /\ Rest \subseteq All
  BY OrderFacts DEF All
<1>4. References
  BY <1>1, <1>2, <1>3 DEF References, Committed
<1>5. 0 \in 0 .. MaxWrites
  BY ServicesAssumption
<1>6. TypeOK
  BY <1>1, <1>2, <1>5, TabledIs DEF TypeOK
<1> QED
  BY <1>1, <1>2, <1>4, <1>6 DEF ServicesInv, RowsHold, Halfway, FileStands

\* A write of one row keeps the invariant, if what the row stands on is there.
LEMMA PutInv ==
  ASSUME ServicesInv, NEW f \in All, NEW i \in Ids, NEW row \in Rows(f), Put(f, i, row),
         f = "terms" => Stored("taxonomies", row.taxonomy),
         f \in Rest => Stored("posts", row.entry)
  PROVE  ServicesInv'
<1>1. /\ conn = Idle /\ conn' = Idle /\ file' = file /\ cut' = cut
      /\ db' = [db EXCEPT ![f][i] = row] /\ writes < MaxWrites /\ writes' = writes + 1
  BY DEF Put
<1>2. conn.op = "idle" /\ conn'.op = "idle"
  BY <1>1 DEF Idle
<1>3. Tabled(db, All) /\ Tabled(db, All)' /\ row # NoRow
  BY <1>1, NoRowAssumption DEF ServicesInv, Tabled, TableOf, All
<1>4. \A g \in All, j \in Ids : db'[g][j] = IF g = f /\ j = i THEN row ELSE db[g][j]
  BY <1>1, <1>3 DEF Tabled, TableOf
<1>5. "terms" \in All /\ "taxonomies" \in All /\ "posts" \in All /\ Rest \subseteq All
      /\ "terms" \notin Rest /\ "taxonomies" \notin Rest /\ "posts" \notin Rest
  BY OrderFacts DEF All, Rest
<1>6. References /\ Committed = db /\ Committed' = db'
  BY <1>2 DEF ServicesInv, RowsHold, Committed
<1>7. /\ \A m \in Ids : db["terms"][m] # NoRow => db["terms"][m].taxonomy \in Ids
      /\ \A g \in Rest, v \in Ids : db[g][v] # NoRow => db[g][v].entry \in Ids
  <2>1. \A m \in Ids : db["terms"][m] # NoRow => db["terms"][m] \in [taxonomy : Ids]
    BY <1>3, <1>5 DEF Tabled, TableOf, Rows
  <2>2. \A g \in Rest, v \in Ids : db[g][v] # NoRow => db[g][v].entry \in Ids
    BY <1>3, <1>5 DEF Tabled, TableOf, Rows, Rest
  <2> QED
    BY <2>1, <2>2
<1>8. References'
  <2>1. ~cut => \A m \in Ids : db'["terms"][m] # NoRow => db'["taxonomies"][db'["terms"][m].taxonomy] # NoRow
    <3> SUFFICES ASSUME ~cut, NEW m \in Ids, db'["terms"][m] # NoRow
                 PROVE  db'["taxonomies"][db'["terms"][m].taxonomy] # NoRow
      OBVIOUS
    <3>1. CASE f = "terms" /\ m = i
      <4>1. row.taxonomy \in Ids
        BY <3>1 DEF Rows
      <4> QED
        BY <1>3, <1>4, <1>5, <3>1, <4>1 DEF Stored
    <3>2. CASE ~(f = "terms" /\ m = i)
      BY <1>3, <1>4, <1>5, <1>6, <1>7, <3>2 DEF References
    <3> QED  BY <3>1, <3>2
  <2>2. \A v \in Ids, g \in Rest : db'[g][v] # NoRow => db'["posts"][db'[g][v].entry] # NoRow
    <3> SUFFICES ASSUME NEW v \in Ids, NEW g \in Rest, db'[g][v] # NoRow
                 PROVE  db'["posts"][db'[g][v].entry] # NoRow
      OBVIOUS
    <3>1. CASE g = f /\ v = i
      <4>1. row.entry \in Ids
        BY <3>1 DEF Rows, Rest
      <4> QED
        BY <1>3, <1>4, <1>5, <3>1, <4>1 DEF Stored
    <3>2. CASE ~(g = f /\ v = i)
      BY <1>3, <1>4, <1>5, <1>6, <1>7, <3>2 DEF References
    <3> QED  BY <3>1, <3>2
  <2> QED
    BY <1>1, <1>6, <2>1, <2>2 DEF References
<1>9. TypeOK'
  <2>1. writes' \in 0 .. MaxWrites
    BY <1>1, ServicesAssumption DEF ServicesInv, RowsHold, TypeOK
  <2> QED
    BY <1>1, <1>3, <2>1, TabledIs DEF ServicesInv, RowsHold, TypeOK, IsDatabase, IsSnapshot, Tabled
<1> QED
  BY <1>1, <1>2, <1>3, <1>8, <1>9 DEF ServicesInv, RowsHold, Halfway, FileStands, Tabled

\* Each of the services writes one row, and makes sure of what the row stands on.
LEMMA ServiceInv ==
  ASSUME ServicesInv,
         \/ \E e \in Ids, entry \in Entries : SaveEntry(e, entry)
         \/ \E x \in Ids, mode \in {"", "hierarchical"} : Register(x, mode)
         \/ \E m, x \in Ids : CreateTerm(m, x)
         \/ \E e \in Ids, termIDs \in SUBSET Ids : AssignTerms(e, termIDs)
         \/ \E a \in Ids, asset \in Titles : SaveMetadata(a, asset)
         \/ \E e, a \in Ids : AttachFeatured(e, a)
         \/ \E v, e \in Ids : CreateRevision(v, e)
         \/ \E v \in Ids : RestoreRevision(v)
         \/ \E p, e \in Ids : CreatePreview(p, e)
  PROVE  \E f \in All, i \in Ids : \E row \in Rows(f) :
           /\ Put(f, i, row)
           /\ f = "terms" => Stored("taxonomies", row.taxonomy)
           /\ f \in Rest => Stored("posts", row.entry)
<1> DEFINE P(f, i, row) == /\ Put(f, i, row)
                           /\ f = "terms" => Stored("taxonomies", row.taxonomy)
                           /\ f \in Rest => Stored("posts", row.entry)
<1>1. /\ "taxonomies" \in All \ Rest /\ "terms" \in All \ Rest /\ "posts" \in All \ Rest
      /\ "media" \in All \ Rest /\ "revisions" \in Rest /\ "previews" \in Rest /\ Rest \subseteq All
  BY OrderFacts DEF All, Rest
<1>2. Tabled(db, All)
  BY DEF ServicesInv
<1>3. \A e \in Ids : Stored("posts", e) => db["posts"][e] \in Entries
  BY <1>1, <1>2 DEF Tabled, TableOf, Rows, Stored
<1>4. \A v \in Ids : Stored("revisions", v) => db["revisions"][v] \in [entry : Ids, was : Entries]
  BY <1>1, <1>2 DEF Tabled, TableOf, Rows, Stored
<1>5. ASSUME NEW i \in Ids, NEW row \in Entries, Put("posts", i, row)
      PROVE  \E f \in All, j \in Ids : \E r \in Rows(f) : P(f, j, r)
  <2>1. row \in Rows("posts") /\ P("posts", i, row)
    BY <1>1, <1>5 DEF Rows
  <2> QED  BY <1>1, <2>1
<1>6. ASSUME NEW x \in Ids, NEW mode \in {"", "hierarchical"}, Register(x, mode)
      PROVE  \E f \in All, j \in Ids : \E r \in Rows(f) : P(f, j, r)
  <2> DEFINE row == IF mode = "" THEN "flat" ELSE mode
  <2>1. row \in Rows("taxonomies") /\ P("taxonomies", x, row)
    BY <1>1, <1>6 DEF Rows, Register
  <2> QED  BY <1>1, <2>1
<1>7. ASSUME NEW m \in Ids, NEW x \in Ids, CreateTerm(m, x)
      PROVE  \E f \in All, j \in Ids : \E r \in Rows(f) : P(f, j, r)
  <2> DEFINE row == [taxonomy |-> x]
  <2>1. row \in Rows("terms") /\ row.taxonomy = x
    BY DEF Rows
  <2>2. P("terms", m, row)
    BY <1>1, <1>7, <2>1 DEF CreateTerm
  <2> QED  BY <1>1, <2>1, <2>2
<1>8. ASSUME NEW a \in Ids, NEW asset \in Titles, SaveMetadata(a, asset)
      PROVE  \E f \in All, j \in Ids : \E r \in Rows(f) : P(f, j, r)
  <2>1. asset \in Rows("media") /\ P("media", a, asset)
    BY <1>1, <1>8 DEF Rows, SaveMetadata
  <2> QED  BY <1>1, <2>1
<1>9. ASSUME NEW v \in Ids, NEW e \in Ids, CreateRevision(v, e)
      PROVE  \E f \in All, j \in Ids : \E r \in Rows(f) : P(f, j, r)
  <2> DEFINE row == [entry |-> e, was |-> db["posts"][e]]
  <2>1. row \in Rows("revisions") /\ row.entry = e
    BY <1>3, <1>9 DEF Rows, CreateRevision
  <2>2. P("revisions", v, row)
    BY <1>1, <1>9, <2>1 DEF CreateRevision
  <2> QED  BY <1>1, <2>1, <2>2
<1>10. ASSUME NEW q \in Ids, NEW e \in Ids, CreatePreview(q, e)
       PROVE  \E f \in All, j \in Ids : \E r \in Rows(f) : P(f, j, r)
  <2> DEFINE row == [entry |-> e]
  <2>1. row \in Rows("previews") /\ row.entry = e
    BY DEF Rows
  <2>2. P("previews", q, row)
    BY <1>1, <1>10, <2>1 DEF CreatePreview
  <2> QED  BY <1>1, <2>1, <2>2
<1>11. ASSUME NEW e \in Ids, NEW termIDs \in SUBSET Ids, AssignTerms(e, termIDs)
       PROVE  \E row \in Entries : Put("posts", e, row)
  BY <1>3, <1>11 DEF AssignTerms, Entries
<1>12. ASSUME NEW e \in Ids, NEW a \in Ids, AttachFeatured(e, a)
       PROVE  \E row \in Entries : Put("posts", e, row)
  BY <1>3, <1>12 DEF AttachFeatured, Entries
<1>13. ASSUME NEW v \in Ids, RestoreRevision(v)
       PROVE  \E e \in Ids, row \in Entries : Put("posts", e, row)
  BY <1>4, <1>13 DEF RestoreRevision
<1> HIDE DEF P
<1>14. \E f \in All, j \in Ids : \E r \in Rows(f) : P(f, j, r)
  <2>1. CASE \E e \in Ids, entry \in Entries : SaveEntry(e, entry)
    BY <1>5, <2>1 DEF SaveEntry
  <2> QED
    BY <2>1, <1>5, <1>6, <1>7, <1>8, <1>9, <1>10, <1>11, <1>12, <1>13
<1> QED
  BY <1>14 DEF P

\* An export reads on, and its snapshot is that of the tables as they are.
LEMMA ExportInv ==
  ASSUME ServicesInv, BeginExport \/ ListFamily \/ FinishExport
  PROVE  ServicesInv' /\ Committed' = Committed
<1> USE DEF ServicesInv, RowsHold
<1>1. Tabled(db, All) /\ (file # NoFile => Tabled(file, Families)) /\ Families \subseteq All
  BY DEF All
<1>2. CASE BeginExport
  <2>1. /\ conn' = [op |-> "export", at |-> 1, read |-> NothingRead]
        /\ conn.op = "idle" /\ UNCHANGED <<db, file, cut, writes>>
    BY <1>2 DEF BeginExport, Idle
  <2>2. conn'.op = "export" /\ conn'.at = 1 /\ conn'.read = NothingRead
    BY <2>1
  <2>3. Tabled(NothingRead, Families)
    BY DEF NothingRead, Tabled, EmptyTable, TableOf
  <2>4. Halfway'
    BY <2>1, <2>2, <2>3, OrderFacts DEF Halfway, Tabled
  <2>5. TypeOK'
    <3>1. IsSnapshot(NothingRead) /\ 1 \in Steps
      BY <2>3, TabledIs, OrderFacts
    <3> QED
      BY <2>1, <2>2, <3>1 DEF TypeOK, IsDatabase, IsSnapshot
  <2>6. Committed = db /\ Committed' = db
    BY <2>1, <2>2 DEF Committed
  <2> QED
    BY <2>1, <2>4, <2>5, <2>6 DEF References, FileStands, Tabled
<1>3. CASE ListFamily
  <2> DEFINE k == conn.at
             f == Order[k]
             table == Site!Exported(db[f])
             read == [conn.read EXCEPT ![f] = table]
  <2>1. conn.op = "export" /\ k \in 1 .. 4 /\ UNCHANGED <<db, file, writes>>
    BY <1>3, OrderFacts DEF ListFamily, TypeOK, Idle
  <2>2. conn = [op |-> "export", at |-> conn.at, read |-> conn.read] /\ Tabled(conn.read, Families)
    BY <2>1 DEF Halfway
  <2>3. /\ conn' = [conn EXCEPT !.at = k + 1, !.read = read]
        /\ cut' = (cut \/ table # db[f])
    BY <1>3 DEF ListFamily
  <2>4. f \in Families /\ f \notin Passed(k) /\ Passed(k + 1) = Passed(k) \cup {f} /\ k + 1 \in Steps
    BY <2>1, OrderFacts
  <2>11. conn' = [[op |-> "export", at |-> k, read |-> conn.read] EXCEPT !.at = k + 1, !.read = read]
    <3> HIDE DEF read
    <3> QED  BY <2>2, <2>3
  <2> HIDE DEF k, f, table
  <2>5. conn' = [op |-> "export", at |-> k + 1, read |-> read]
    BY <2>11
  <2>6. table \in TableOf(f)
    BY <1>1, <2>4, Tables DEF Tabled, table
  <2>7. /\ Tabled(read, Families) /\ read[f] = table
        /\ \A g \in Families \ {f} : read[g] = conn.read[g]
    BY <2>2, <2>4, <2>6 DEF Tabled
  <2> HIDE DEF read
  <2>8. Halfway'
    <3>1. \A g \in Passed(k + 1) : read[g] = Site!Exported(db[g]) /\ (~cut' => Site!Exported(db[g]) = db[g])
      <4>1. \A g \in Passed(k) : g \in Families
        BY OrderFacts, <2>1 DEF Passed, Families
      <4>2. \A g \in Passed(k) : conn.read[g] = Site!Exported(db[g]) /\ (~cut => Site!Exported(db[g]) = db[g])
        BY <2>1 DEF Halfway, k
      <4> QED
        BY <2>3, <2>4, <2>7, <4>1, <4>2 DEF table
    <3>2. conn'.op = "export" /\ conn'.at = k + 1 /\ conn'.read = read
      BY <2>5
    <3> QED
      BY <2>1, <2>5, <2>7, <3>1, <3>2 DEF Halfway, Tabled, Site!Exported
  <2>9. TypeOK'
    <3>1. IsSnapshot(read) /\ cut' \in BOOLEAN
      BY <2>3, <2>7, TabledIs
    <3> QED
      BY <2>1, <2>4, <2>5, <3>1 DEF TypeOK, IsDatabase, IsSnapshot
  <2>10. Committed = db /\ Committed' = db
    BY <2>1, <2>5 DEF Committed
  <2> QED
    BY <2>1, <2>3, <2>8, <2>9, <2>10 DEF References, FileStands, Tabled
<1>4. CASE FinishExport
  <2>1. /\ conn.op = "export" /\ conn.at = 5 /\ conn' = Idle /\ conn'.op = "idle"
        /\ UNCHANGED <<db, cut, writes>> /\ file' \in {file, conn.read}
    BY <1>4, OrderFacts DEF FinishExport, TypeOK, Idle
  <2>2. Tabled(conn.read, Families) /\ (~cut => \A f \in Families : conn.read[f] = db[f])
    BY <2>1, OrderFacts DEF Halfway
  <2>3. file' # NoFile => Tabled(file', Families)
    BY <1>1, <2>1, <2>2
  <2>4. Committed = db /\ Committed' = db
    BY <2>1 DEF Committed
  <2>5. "terms" \in Families /\ "taxonomies" \in Families
    BY OrderFacts
  <2>6. FileStands'
    BY <2>1, <2>2, <2>4, <2>5 DEF FileStands, References
  <2>7. TypeOK'
    BY <2>1, <2>3, TabledIs DEF TypeOK, IsDatabase, IsSnapshot
  <2> QED
    BY <2>1, <2>3, <2>4, <2>6, <2>7 DEF References, Halfway, Tabled
<1> QED
  BY <1>2, <1>3, <1>4

\* An import lays family after family over what was there; what it stands on comes with
\* it, or was there before.
LEMMA ImportInv ==
  ASSUME ServicesInv, BeginImport \/ PutFamily \/ FinishImport
  PROVE  /\ ServicesInv'
         /\ Committed' = Committed \/ (file # NoFile /\ Committed' = Site!Imported(Committed, file))
<1> USE DEF ServicesInv, RowsHold
<1>1. Tabled(db, All) /\ (file # NoFile => Tabled(file, Families)) /\ Families \subseteq All
  BY DEF All
<1>2. CASE BeginImport
  <2>1. /\ conn' = [op |-> "import", at |-> 1, before |-> db] /\ file # NoFile
        /\ conn.op = "idle" /\ UNCHANGED <<db, file, cut, writes>>
    BY <1>2 DEF BeginImport, Idle
  <2>2. conn'.op = "import" /\ conn'.at = 1 /\ conn'.before = db
    BY <2>1
  <2>3. Halfway'
    BY <1>1, <2>1, <2>2, OrderFacts DEF Halfway, Tabled
  <2>4. TypeOK'
    <3>1. IsDatabase(db) /\ 1 \in Steps
      BY <1>1, TabledIs, OrderFacts
    <3> QED
      BY <2>1, <2>2, <3>1 DEF TypeOK, IsDatabase, IsSnapshot
  <2>5. Committed = db /\ Committed' = db
    BY <2>1, <2>2 DEF Committed
  <2> QED
    BY <2>1, <2>3, <2>4, <2>5 DEF References, FileStands, Tabled
<1>3. CASE PutFamily
  <2> DEFINE k == conn.at
             f == Order[k]
             table == Site!Overlaid(db[f], file[f])
  <2>1. conn.op = "import" /\ k \in 1 .. 4 /\ UNCHANGED <<file, cut, writes>>
    BY <1>3, OrderFacts DEF PutFamily, TypeOK, Idle
  <2>2. /\ conn = [op |-> "import", at |-> conn.at, before |-> conn.before]
        /\ Tabled(conn.before, All) /\ file # NoFile
        /\ \A g \in All : db[g] = IF g \in Passed(k) THEN Site!Overlaid(conn.before[g], file[g]) ELSE conn.before[g]
    BY <2>1 DEF Halfway
  <2>3. /\ conn' = [conn EXCEPT !.at = k + 1]
        /\ db' = [db EXCEPT ![f] = table]
    BY <1>3 DEF PutFamily
  <2>4. f \in Families /\ f \notin Passed(k) /\ Passed(k + 1) = Passed(k) \cup {f} /\ k + 1 \in Steps
    BY <2>1, OrderFacts
  <2>5. conn' = [[op |-> "import", at |-> k, before |-> conn.before] EXCEPT !.at = k + 1]
    BY <2>2, <2>3
  <2> HIDE DEF k, f
  <2>6. table \in TableOf(f)
    BY <1>1, <2>2, <2>4, Tables DEF Tabled
  <2>7. table = Site!Overlaid(conn.before[f], file[f])
    BY <1>1, <2>2, <2>4
  <2> HIDE DEF table
  <2>8. conn' = [op |-> "import", at |-> k + 1, before |-> conn.before]
    BY <2>5
  <2>9. conn'.op = "import" /\ conn'.at = k + 1 /\ conn'.before = conn.before
    BY <2>8
  <2>10. Tabled(db', All) /\ db'[f] = table /\ \A g \in All \ {f} : db'[g] = db[g]
    BY <1>1, <2>3, <2>4, <2>6 DEF Tabled
  <2>11. Halfway'
    <3>1. \A g \in All : db'[g] = IF g \in Passed(k + 1) THEN Site!Overlaid(conn.before[g], file[g]) ELSE conn.before[g]
      BY <2>2, <2>4, <2>7, <2>10
    <3> QED
      BY <2>1, <2>2, <2>8, <2>9, <3>1 DEF Halfway, Tabled, Site!Overlaid
  <2>12. TypeOK'
    <3>1. IsDatabase(db') /\ IsDatabase(conn.before)
      BY <2>2, <2>10, TabledIs
    <3> QED
      BY <2>1, <2>4, <2>9, <3>1 DEF TypeOK, IsDatabase, IsSnapshot
  <2>13. Committed' = Committed
    BY <2>1, <2>9 DEF Committed
  <2> QED
    BY <1>1, <2>1, <2>10, <2>11, <2>12, <2>13 DEF References, FileStands, Tabled
<1>4. CASE FinishImport
  <2> DEFINE before == conn.before
  <2>1. /\ conn.op = "import" /\ conn.at = 5 /\ conn' = Idle /\ conn'.op = "idle"
        /\ UNCHANGED <<db, file, cut, writes>>
    BY <1>4, OrderFacts DEF FinishImport, TypeOK, Idle
  <2>2. /\ Tabled(before, All) /\ file # NoFile /\ Tabled(file, Families)
        /\ \A g \in All : db[g] = IF g \in Families THEN Site!Overlaid(before[g], file[g]) ELSE before[g]
    BY <1>1, <2>1, OrderFacts DEF Halfway
  <2>3. Committed = before /\ Committed' = db
    BY <2>1 DEF Committed
  <2> HIDE DEF before
  <2>4. db = Site!Imported(before, file)
    <3>1. DOMAIN before = All
      BY <2>2 DEF Tabled
    <3> QED
      BY <1>1, <2>2, <3>1 DEF Site!Imported, Tabled
  <2>5. /\ "terms" \in Families /\ "taxonomies" \in Families /\ "posts" \in Families
        /\ Families \cap Rest = {} /\ Rest \subseteq All
    BY OrderFacts DEF Rest, All
  <2>6. \A g \in Families, i \in Ids : db[g][i] = IF file[g][i] # NoRow THEN file[g][i] ELSE before[g][i]
    BY <1>1, <2>2 DEF Site!Overlaid
  <2>7. \A g \in Rest : db[g] = before[g]
    BY <2>2, <2>5
  <2>8. /\ \A m \in Ids : file["terms"][m] # NoRow => file["terms"][m].taxonomy \in Ids
        /\ \A m \in Ids : before["terms"][m] # NoRow => before["terms"][m].taxonomy \in Ids
        /\ \A g \in Rest, v \in Ids : before[g][v] # NoRow => before[g][v].entry \in Ids
    <3>1. \A m \in Ids : file["terms"][m] # NoRow => file["terms"][m] \in [taxonomy : Ids]
      BY <2>2, <2>5 DEF Tabled, TableOf, Rows
    <3>2. \A m \in Ids : before["terms"][m] # NoRow => before["terms"][m] \in [taxonomy : Ids]
      BY <1>1, <2>2, <2>5 DEF Tabled, TableOf, Rows
    <3>3. \A g \in Rest, v \in Ids : before[g][v] # NoRow => before[g][v].entry \in Ids
      BY <2>2, <2>5 DEF Tabled, TableOf, Rows, Rest
    <3> QED
      BY <3>1, <3>2, <3>3
  <2>9. References'
    <3>1. References /\ FileStands
      OBVIOUS
    <3>2. ASSUME ~cut, NEW m \in Ids, db["terms"][m] # NoRow
          PROVE  db["taxonomies"][db["terms"][m].taxonomy] # NoRow
      <4>1. CASE file["terms"][m] # NoRow
        BY <2>2, <2>5, <2>6, <2>8, <3>1, <3>2, <4>1 DEF FileStands
      <4>2. CASE file["terms"][m] = NoRow
        <5>1. db["terms"][m] = before["terms"][m] /\ before["terms"][m] # NoRow
          BY <2>5, <2>6, <3>2, <4>2
        <5>2. before["taxonomies"][before["terms"][m].taxonomy] # NoRow
          BY <2>3, <3>1, <3>2, <5>1 DEF References
        <5> QED
          BY <2>5, <2>6, <2>8, <5>1, <5>2
      <4> QED  BY <4>1, <4>2
    <3>3. ASSUME NEW v \in Ids, NEW g \in Rest, db[g][v] # NoRow
          PROVE  db["posts"][db[g][v].entry] # NoRow
      <4>1. before["posts"][before[g][v].entry] # NoRow
        BY <2>3, <2>7, <3>1, <3>3 DEF References
      <4> QED
        BY <2>5, <2>6, <2>7, <2>8, <3>3, <4>1
    <3> QED
      BY <2>1, <2>3, <3>2, <3>3 DEF References
  <2>10. TypeOK'
    BY <2>1 DEF TypeOK, IsDatabase, IsSnapshot
  <2> QED
    BY <1>1, <2>1, <2>2, <2>3, <2>4, <2>9, <2>10 DEF Halfway, FileStands, Tabled
<1> QED
  BY <1>2, <1>3, <1>4

\* A rollback restores what was committed, and a new site has nothing to stand on.
LEMMA RestartInv ==
  ASSUME ServicesInv, Rollback \/ NewSite
  PROVE  /\ ServicesInv'
         /\ Committed' = Committed \/ (Committed' = NoRows /\ UNCHANGED file)
<1> USE DEF ServicesInv, RowsHold
<1>1. Tabled(db, All)
  OBVIOUS
<1>2. CASE Rollback
  <2>1. db' = Committed /\ conn' = Idle /\ conn'.op = "idle" /\ UNCHANGED <<file, cut, writes>>
    BY <1>2 DEF Rollback, Idle
  <2>2. Tabled(Committed, All)
    BY <1>1 DEF Committed, Halfway
  <2>3. Committed' = Committed
    BY <2>1 DEF Committed
  <2>4. TypeOK'
    BY <2>1, <2>2, TabledIs DEF TypeOK, IsDatabase, IsSnapshot
  <2> QED
    BY <2>1, <2>2, <2>3, <2>4 DEF References, Halfway, FileStands, Tabled
<1>3. CASE NewSite
  <2>1. db' = NoRows /\ conn' = Idle /\ conn'.op = "idle" /\ UNCHANGED <<file, cut, writes>>
    BY <1>3 DEF NewSite, Idle
  <2>2. Tabled(NoRows, All) /\ \A f \in All, i \in Ids : NoRows[f][i] = NoRow
    BY DEF NoRows, EmptyTable, TableOf, Tabled, All
  <2>3. Committed' = NoRows
    BY <2>1 DEF Committed
  <2>4. "terms" \in All /\ Rest \subseteq All
    BY OrderFacts DEF All
  <2>5. References'
    BY <2>2, <2>3, <2>4 DEF References
  <2>6. TypeOK'
    BY <2>1, <2>2, TabledIs DEF TypeOK, IsDatabase, IsSnapshot
  <2> QED
    BY <2>1, <2>2, <2>3, <2>5, <2>6 DEF Halfway, FileStands, Tabled
<1> QED
  BY <1>2, <1>3

\* Every step keeps the invariant.
LEMMA ServicesNext == ServicesInv /\ [Next]_vars => ServicesInv'
<1> SUFFICES ASSUME ServicesInv, [Next]_vars PROVE ServicesInv'
  OBVIOUS
<1>1. CASE UNCHANGED vars
  BY <1>1 DEF vars, ServicesInv, RowsHold, TypeOK, IsDatabase, IsSnapshot, References, Committed,
     Halfway, FileStands, Tabled
<1>2. CASE BeginExport \/ ListFamily \/ FinishExport
  BY <1>2, ExportInv
<1>3. CASE BeginImport \/ PutFamily \/ FinishImport
  BY <1>3, ImportInv
<1>4. CASE Rollback \/ NewSite
  BY <1>4, RestartInv
<1> QED
  BY <1>1, <1>2, <1>3, <1>4, ServiceInv, PutInv DEF Next

\* The invariant holds of every state the site comes to.
LEMMA ServicesInvHolds == Spec => []ServicesInv
BY InitServices, ServicesNext, PTL DEF Spec

\* Terms keep their taxonomies, revisions and previews their entries, for whoever gets
\* the connection next: through every mix of services, exports, imports that fail half
\* way, restarts and new databases.
THEOREM RowsHoldHolds == Spec => []RowsHold
<1>1. ServicesInv => RowsHold
  BY DEF ServicesInv
<1> QED
  BY <1>1, ServicesInvHolds, PTL

\* What is committed changes by one row, by an import or with the site: the rest of what
\* an export or an import does does not show.
LEMMA StepsAreWhole == ServicesInv /\ [Next]_vars => [Whole!Next]_<<Committed, file>>
<1> SUFFICES ASSUME ServicesInv, [Next]_vars
             PROVE  Whole!Next \/ UNCHANGED <<Committed, file>>
  OBVIOUS
<1>1. CASE UNCHANGED vars
  BY <1>1 DEF vars, Committed
<1>2. ASSUME NEW f \in All, NEW i \in Ids, NEW row \in Rows(f), Put(f, i, row)
      PROVE  Whole!Next
  <2>1. /\ Committed = db /\ Committed' = db' /\ UNCHANGED file
        /\ db' = [db EXCEPT ![f][i] = row]
    BY <1>2 DEF Put, Committed, Idle
  <2>2. db'[f][i] = row
    BY <2>1 DEF ServicesInv, Tabled, TableOf
  <2>3. Whole!WriteRow
    BY <2>1, <2>2 DEF Whole!WriteRow, All
  <2> QED
    BY <2>3 DEF Whole!Next
<1>3. CASE BeginExport \/ ListFamily
  BY <1>3, ExportInv DEF BeginExport, ListFamily
<1>4. CASE FinishExport
  <2>1. conn.op = "export" /\ conn.at = 5 /\ file' \in {file, conn.read} /\ Committed = db
    BY <1>4, OrderFacts DEF FinishExport, ServicesInv, RowsHold, TypeOK, Idle, Committed
  <2>2. conn.read = [f \in Families |-> Site!Exported(db[f])]
    BY <2>1, OrderFacts DEF ServicesInv, Halfway, Tabled
  <2>3. Whole!Snapshot(db) = [f \in Families |-> Site!Exported(db[f])]
    <3>1. \A S : Whole!Cardinality(S) = Site!Cardinality(S)
      BY DEF Whole!Cardinality, Site!Cardinality
    <3> QED
      BY <3>1 DEF Whole!Snapshot, Whole!Exported, Whole!Listed, Whole!Present, Site!Exported, Site!Listed, Site!Present
  <2>4. Committed' = Committed
    BY <1>4, ExportInv
  <2> QED
    BY <2>1, <2>2, <2>3, <2>4 DEF Whole!Next, Whole!Export
<1>5. CASE BeginImport \/ PutFamily \/ FinishImport
  <2>1. UNCHANGED file
    BY <1>5 DEF BeginImport, PutFamily, FinishImport
  <2>2. Site!Imported(Committed, file) = Whole!Imported(Committed, file)
    BY DEF Site!Imported, Whole!Imported, Site!Overlaid, Whole!Overlaid
  <2> QED
    BY <1>5, <2>1, <2>2, ImportInv DEF Whole!Next, Whole!Import
<1>6. CASE Rollback \/ NewSite
  <2>1. UNCHANGED file /\ Whole!NoRows = NoRows
    BY <1>6 DEF Rollback, NewSite, Whole!NoRows, NoRows, EmptyTable
  <2> QED
    BY <1>6, <2>1, RestartInv DEF Whole!Next, Whole!NewSite
<1> QED
  BY <1>1, <1>2, <1>3, <1>4, <1>5, <1>6, ServiceInv DEF Next

\* Snapshots are atomic: the site implements AtomicSnapshots, for any tables and limits,
\* whichever statement fails and wherever the process stops.
THEOREM SnapshotsAreAtomicHolds == Spec => SnapshotsAreAtomic
<1>1. Init => Whole!Init
  <2> SUFFICES ASSUME Init PROVE Whole!Init
    OBVIOUS
  <2>1. Committed = NoRows /\ Whole!NoRows = NoRows
    BY DEF Init, Committed, Idle, Whole!NoRows, NoRows, EmptyTable
  <2> QED
    BY <2>1 DEF Init, Whole!Init
<1> QED
  BY <1>1, StepsAreWhole, ServicesInvHolds, PTL DEF Spec, SnapshotsAreAtomic, Whole!Spec
-----------------------------------------------------------------------------
(***************************************************************************)
(* The lists of the operations plugin.                                     *)
(***************************************************************************)
Errored == {r \in Requests : at[r] = "error"}

\* A list tells of the events `told`: it is bounded, has them once, all of them until it
\* is full, and the newest of them in an order in which they may have taken place.
Tells(list, told) ==
  /\ list \in Seq(Requests) /\ Len(list) <= limit
  /\ ToSet(list) \subseteq told /\ IsInjective(list)
  /\ Len(list) < limit => told \subseteq ToSet(list)
  /\ InOrder(list)
  /\ \A old, new \in told : old \in after[new] /\ old \in ToSet(list) => new \in ToSet(list)

\* What was answered before another was made stays answered, or its process is gone.
AnsweredBefore == \A new \in Requests : \A old \in after[new] : at[old] \in {"ok", "error", "gone"}

LogInv == LogTypeOK /\ Tells(audit, Audited) /\ Tells(errors, Errored) /\ AnsweredBefore

\* The invariant has every conjunct of LogIsTrue.
LEMMA TellsTheTruth == LogInv => LogIsTrue
BY DEF LogInv, LogIsTrue, LogHasEvents, LogIsInOrder, Tells, Errored

\* How many elements appendBounded drops.
Dropped(items) == IF Len(items) = limit THEN 1 ELSE 0

\* appendBounded puts the item last, and drops the first if there is one too many.
LEMMA BoundedAppend ==
  ASSUME NEW items \in Seq(Requests), Len(items) <= limit, NEW item \in Requests
  PROVE  /\ appendBounded(items, item) \in Seq(Requests)
         /\ Len(appendBounded(items, item)) <= limit
         /\ Len(appendBounded(items, item)) = Len(items) + 1 - Dropped(items)
         /\ \A n \in 1 .. Len(items) + 1 - Dropped(items) :
              appendBounded(items, item)[n] =
                IF n + Dropped(items) <= Len(items) THEN items[n + Dropped(items)] ELSE item
<1> DEFINE all == Append(items, item)
<1>1. /\ limit \in Nat \ {0} /\ Len(items) \in Nat
      /\ \A n \in 1 .. Len(items) : items[n] \in Requests
  BY OpsAssumption
<1>2. /\ all \in Seq(Requests) /\ Len(all) = Len(items) + 1
      /\ \A n \in 1 .. Len(items) + 1 : all[n] = IF n <= Len(items) THEN items[n] ELSE item
  BY <1>1
<1>3. CASE Len(items) < limit
  <2>1. appendBounded(items, item) = all /\ Dropped(items) = 0
    BY <1>1, <1>2, <1>3 DEF appendBounded, Dropped
  <2> QED
    BY <1>1, <1>2, <1>3, <2>1
<1>4. CASE Len(items) = limit
  <2>1. appendBounded(items, item) = SubSeq(all, 2, limit + 1) /\ Dropped(items) = 1
    BY <1>1, <1>2, <1>4 DEF appendBounded, Dropped
  <2>2. /\ SubSeq(all, 2, limit + 1) \in Seq(Requests) /\ Len(SubSeq(all, 2, limit + 1)) = limit
        /\ \A n \in 1 .. limit : SubSeq(all, 2, limit + 1)[n] = all[n + 1]
    BY <1>1, <1>2, <1>4, SubSeqProperties
  <2> QED
    BY <1>1, <1>2, <1>4, <2>1, <2>2
<1>5. Len(items) < limit \/ Len(items) = limit
  BY <1>1
<1> QED
  BY <1>3, <1>4, <1>5

\* A list that tells of some events tells of one more after it is appended, if nothing was
\* asked for after that one was answered.
LEMMA TellsOneMore ==
  ASSUME NEW list, NEW told \in SUBSET Requests, Tells(list, told), NEW item \in Requests \ told,
         \A new \in Requests : item \notin after[new]
  PROVE  Tells(appendBounded(list, item), told \cup {item})
<1> DEFINE longer == appendBounded(list, item)
<1>1. /\ limit \in Nat \ {0} /\ list \in Seq(Requests) /\ Len(list) \in Nat /\ Len(list) <= limit
      /\ \A n \in 1 .. Len(list) : list[n] \in told /\ list[n] \in ToSet(list)
      /\ \A r \in ToSet(list) : \E n \in 1 .. Len(list) : r = list[n]
  <2>1. list \in Seq(Requests) /\ DOMAIN list = 1 .. Len(list) /\ ToSet(list) \subseteq told
    BY DEF Tells
  <2>2. ToSet(list) = {list[n] : n \in 1 .. Len(list)}
    BY <2>1 DEF ToSet
  <2> QED
    BY <2>1, <2>2, OpsAssumption DEF Tells
<1> DEFINE d == Dropped(list)
<1>2. /\ d \in 0 .. 1 /\ (d = 1 => Len(list) = limit)
      /\ Len(longer) = Len(list) + 1 - d
      /\ \A n \in 1 .. Len(list) + 1 - d :
           longer[n] = IF n + d <= Len(list) THEN list[n + d] ELSE item
  BY <1>1, BoundedAppend DEF Dropped
<1>3. longer \in Seq(Requests) /\ Len(longer) <= limit
  BY <1>1, <1>2, BoundedAppend
<1>3a. DOMAIN longer = 1 .. Len(list) + 1 - d
  BY <1>2, <1>3
<1> HIDE DEF longer, d
<1>4. ASSUME NEW r
      PROVE  r \in ToSet(longer) <=> r = item \/ \E n \in 1 + d .. Len(list) : r = list[n]
  <2>1. ToSet(longer) = {longer[n] : n \in 1 .. Len(list) + 1 - d}
    BY <1>3a DEF ToSet
  <2>2. longer[Len(list) + 1 - d] = item /\ Len(list) + 1 - d \in 1 .. Len(list) + 1 - d
    BY <1>1, <1>2
  <2>3. ASSUME NEW n \in 1 + d .. Len(list) PROVE list[n] \in ToSet(longer)
    <3>1. n - d \in 1 .. Len(list) + 1 - d /\ longer[n - d] = list[n]
      BY <1>1, <1>2
    <3> QED
      BY <2>1, <3>1
  <2>4. ASSUME NEW n \in 1 .. Len(list) + 1 - d
        PROVE  longer[n] = item \/ \E m \in 1 + d .. Len(list) : longer[n] = list[m]
    BY <1>1, <1>2
  <2> QED
    BY <2>1, <2>2, <2>3, <2>4
<1>5. ToSet(longer) \subseteq told \cup {item}
  BY <1>1, <1>2, <1>4
<1>6. IsInjective(longer)
  <2> SUFFICES ASSUME NEW m \in 1 .. Len(list) + 1 - d, NEW n \in 1 .. Len(list) + 1 - d,
                      longer[m] = longer[n]
               PROVE  m = n
    BY <1>3a DEF IsInjective
  <2>1. \A k \in 1 .. Len(list) : list[k] # item
    BY <1>1
  <2>2. \A j, k \in 1 .. Len(list) : list[j] = list[k] => j = k
    BY DEF Tells, IsInjective
  <2> QED
    BY <1>1, <1>2, <2>1, <2>2
<1>7. Len(longer) < limit => told \cup {item} \subseteq ToSet(longer)
  <2> SUFFICES ASSUME Len(longer) < limit PROVE told \subseteq ToSet(longer)
    BY <1>4
  <2>1. d = 0 /\ Len(list) < limit
    BY <1>1, <1>2
  <2>2. told \subseteq ToSet(list)
    BY <2>1 DEF Tells
  <2> QED
    BY <1>1, <1>4, <2>1, <2>2
<1>8. InOrder(longer)
  <2> SUFFICES ASSUME NEW m \in 1 .. Len(list) + 1 - d, NEW n \in 1 .. Len(list) + 1 - d,
                      longer[m] \in after[longer[n]]
               PROVE  m < n
    BY <1>3a DEF InOrder
  <2>1. longer[m] # item
    <3>1. n \in DOMAIN longer
      BY <1>3a
    <3>2. longer[n] \in Requests
      BY <1>3, <3>1, ElementOfSeq
    <3> QED
      BY <3>2
  <2>2. m + d \in 1 .. Len(list) /\ longer[m] = list[m + d]
    BY <1>1, <1>2, <2>1
  <2>3. CASE n + d <= Len(list)
    <3>1. n + d \in 1 .. Len(list) /\ longer[n] = list[n + d]
      BY <1>1, <1>2, <2>3
    <3>2. m + d < n + d
      BY <1>1, <2>2, <3>1 DEF Tells, InOrder
    <3> QED
      BY <1>1, <1>2, <3>2
  <2>4. CASE n + d > Len(list)
    BY <1>1, <1>2, <2>2, <2>4
  <2> QED
    BY <1>1, <1>2, <2>3, <2>4
<1>9. ASSUME NEW old \in told \cup {item}, NEW new \in told \cup {item},
             old \in after[new], old \in ToSet(longer)
      PROVE  new \in ToSet(longer)
  <2>1. CASE new = item
    BY <1>4, <2>1
  <2>2. CASE new # item
    <3>1. old # item /\ old \in told /\ new \in told
      BY <2>2, <1>9
    <3>2. PICK m \in 1 + d .. Len(list) : old = list[m]
      BY <1>4, <1>9, <3>1
    <3>3. new \in ToSet(list)
      BY <1>1, <1>2, <1>9, <3>1, <3>2 DEF Tells
    <3>4. PICK n \in 1 .. Len(list) : new = list[n]
      BY <1>1, <3>3
    <3>5. m < n
      BY <1>1, <1>9, <3>2, <3>4 DEF Tells, InOrder
    <3> QED
      BY <1>1, <1>2, <1>4, <3>2, <3>4, <3>5
  <2> QED
    BY <2>1, <2>2
<1> QED
  BY <1>3, <1>5, <1>6, <1>7, <1>8, <1>9 DEF Tells, longer

\* An empty list tells of nothing.
LEMMA TellsNothing == Tells(<<>>, {})
<1>1. <<>> \in Seq(Requests) /\ Len(<<>>) = 0 /\ DOMAIN <<>> = {}
  OBVIOUS
<1> QED
  BY <1>1, OpsAssumption DEF Tells, ToSet, IsInjective, InOrder

\* The process starts with empty lists and nothing to tell.
LEMMA LogInitInv == LogInit => LogInv
<1> SUFFICES ASSUME LogInit PROVE LogInv
  OBVIOUS
<1>1. LogTypeOK
  BY OpsAssumption, TellsNothing DEF LogInit, LogTypeOK, Tells
<1>2. Audited = {} /\ Errored = {}
  BY DEF LogInit, Audited, Errored
<1> QED
  BY <1>1, <1>2, TellsNothing DEF LogInit, LogInv, AnsweredBefore

\* Where a request is before it is over is of no concern to the lists.
LEMMA UnderWayInv ==
  ASSUME LogInv, NEW r \in Requests, Reject(r) \/ Begin(r) \/ Commit(r) \/ Fail(r)
  PROVE  LogInv'
<1>1. /\ UNCHANGED <<audit, errors, after>>
      /\ at[r] \in {"waiting", "working"}
      /\ \E state \in {"rejected", "working", "committed", "failed"} : at' = [at EXCEPT ![r] = state]
  BY DEF LogInv, LogTypeOK, Reject, Begin, Commit, Fail
<1>2. Audited' = Audited /\ Errored' = Errored
  BY <1>1 DEF Audited, Errored, LogInv, LogTypeOK
<1>3. Tells(audit, Audited)' /\ Tells(errors, Errored)'
  BY <1>1, <1>2 DEF LogInv, Tells, InOrder
<1>4. AnsweredBefore'
  BY <1>1 DEF LogInv, LogTypeOK, AnsweredBefore
<1>5. LogTypeOK'
  BY <1>1, OpsAssumption DEF LogInv, LogTypeOK, Reject, Begin, Commit, Fail
<1> QED
  BY <1>3, <1>4, <1>5 DEF LogInv

\* What is asked for now comes after everything that was answered.
LEMMA AskInv ==
  ASSUME LogInv, NEW r \in Requests, Ask(r)
  PROVE  LogInv'
<1>1. /\ UNCHANGED <<tx, audit, errors>> /\ at[r] = "unmade"
      /\ at' = [at EXCEPT ![r] = "waiting"] /\ after' = [after EXCEPT ![r] = Answered]
  BY DEF Ask
<1>2. Audited' = Audited /\ Errored' = Errored /\ r \notin Audited /\ r \notin Errored
  BY <1>1 DEF Audited, Errored, LogInv, LogTypeOK
<1>3. \A s \in Requests : s # r => after'[s] = after[s]
  BY <1>1 DEF LogInv, LogTypeOK
<1>4. ASSUME NEW list, NEW told \in SUBSET Requests, r \notin told, Tells(list, told), list' = list, told' = told
      PROVE  Tells(list, told)'
  <2>1. \A n \in DOMAIN list : list[n] \in told
    BY <1>4 DEF Tells, ToSet
  <2>2. InOrder(list)'
    BY <1>3, <1>4, <2>1 DEF Tells, InOrder
  <2> QED
    BY <1>3, <1>4, <2>2 DEF Tells
<1>5. Tells(audit, Audited)' /\ Tells(errors, Errored)'
  BY <1>1, <1>2, <1>4 DEF LogInv, Audited, Errored
<1>6. AnsweredBefore'
  BY <1>1 DEF LogInv, LogTypeOK, AnsweredBefore, Answered
<1>7. LogTypeOK'
  BY <1>1 DEF LogInv, LogTypeOK, Answered
<1> QED
  BY <1>5, <1>6, <1>7 DEF LogInv

\* A request tells the store of its end once, and nothing was asked for after that yet.
LEMMA RecordInv ==
  ASSUME LogInv, NEW r \in Requests, RecordAudit(r) \/ RecordError(r)
  PROVE  LogInv'
<1>1. /\ UNCHANGED <<tx, after>> /\ at[r] \in {"committed", "failed"}
      /\ at' = [at EXCEPT ![r] = IF at[r] = "committed" THEN "ok" ELSE "error"]
  BY DEF RecordAudit, RecordError
<1>2. \A new \in Requests : r \notin after[new]
  BY <1>1 DEF LogInv, AnsweredBefore
<1>3. r \notin Audited /\ r \notin Errored /\ Audited \subseteq Requests /\ Errored \subseteq Requests
  BY <1>1 DEF Audited, Errored
<1>4. Tells(appendBounded(audit, r), Audited \cup {r}) /\ Tells(appendBounded(errors, r), Errored \cup {r})
  BY <1>2, <1>3, TellsOneMore DEF LogInv
<1>5. Tells(audit, Audited)' /\ Tells(errors, Errored)'
  <2>1. CASE RecordAudit(r)
    <3>1. Errored' = Errored /\ errors' = errors
      BY <1>1, <2>1 DEF RecordAudit, Errored, LogInv, LogTypeOK
    <3>2. /\ audit' = IF Op[r] = "health" THEN audit ELSE appendBounded(audit, r)
          /\ Audited' = IF Op[r] = "health" THEN Audited ELSE Audited \cup {r}
      BY <1>1, <2>1 DEF RecordAudit, Audited, LogInv, LogTypeOK
    <3> QED
      BY <1>1, <1>4, <3>1, <3>2 DEF LogInv, Tells, InOrder
  <2>2. CASE RecordError(r)
    <3>1. Audited' = Audited /\ audit' = audit
      BY <1>1, <2>2 DEF RecordError, Audited, LogInv, LogTypeOK
    <3>2. errors' = appendBounded(errors, r) /\ Errored' = Errored \cup {r}
      BY <1>1, <2>2 DEF RecordError, Errored, LogInv, LogTypeOK
    <3> QED
      BY <1>1, <1>4, <3>1, <3>2 DEF LogInv, Tells, InOrder
  <2> QED
    BY <2>1, <2>2
<1>6. AnsweredBefore'
  BY <1>1 DEF LogInv, LogTypeOK, AnsweredBefore
<1>7. LogTypeOK'
  <2>1. \A s \in Requests : tx' = s <=> at'[s] = "working"
    BY <1>1 DEF LogInv, LogTypeOK
  <2>2. at' \in [Requests -> {"unmade", "waiting", "rejected", "working", "committed", "failed",
                              "ok", "error", "gone"}]
    BY <1>1 DEF LogInv, LogTypeOK
  <2>3. Len(audit') <= limit /\ Len(errors') <= limit /\ ToSet(audit') \cup ToSet(errors') \subseteq Requests
    BY <1>5 DEF Tells, Audited, Errored
  <2> QED
    BY <1>1, <2>1, <2>2, <2>3 DEF LogInv, LogTypeOK
<1> QED
  BY <1>5, <1>6, <1>7 DEF LogInv

\* A process that stops takes the lists with it, and everything there was to tell.
LEMMA CrashInv == ASSUME LogInv, Crash PROVE LogInv'
<1>1. /\ at' = [s \in Requests |-> IF at[s] = "unmade" THEN "unmade" ELSE "gone"]
      /\ tx' = NoRequest /\ audit' = <<>> /\ errors' = <<>> /\ after' = after
  BY DEF Crash
<1>2. Audited' = {} /\ Errored' = {}
  BY <1>1 DEF Audited, Errored
<1>3. Tells(audit, Audited)' /\ Tells(errors, Errored)'
  BY <1>1, <1>2, TellsNothing DEF Tells, InOrder
<1>4. AnsweredBefore'
  BY <1>1 DEF LogInv, LogTypeOK, AnsweredBefore
<1>5. LogTypeOK'
  BY <1>1, TellsNothing, OpsAssumption DEF LogInv, LogTypeOK, Tells
<1> QED
  BY <1>3, <1>4, <1>5 DEF LogInv

\* Every step keeps the invariant.
LEMMA LogNextInv == LogInv /\ [LogNext]_logVars => LogInv'
<1> SUFFICES ASSUME LogInv, [LogNext]_logVars PROVE LogInv'
  OBVIOUS
<1>1. CASE UNCHANGED logVars
  BY <1>1 DEF logVars, LogInv, LogTypeOK, Tells, InOrder, AnsweredBefore, Audited, Errored
<1> QED
  BY <1>1, UnderWayInv, AskInv, RecordInv, CrashInv DEF LogNext

\* The audit events and the errors that are remembered took place, as they say and in an
\* order of events, for any requests and any limit: however requests race to tell the store
\* of their ends, and whenever the process stops.
THEOREM LogIsTrueHolds == LogSpec => []LogIsTrue
<1> QED
  BY LogInitInv, LogNextInv, TellsTheTruth, PTL DEF LogSpec
=============================================================================
