------------------------ MODULE ContentRequestsProofs ------------------------
(***************************************************************************)
(* Proofs about ContentRequests, for any number of goroutines, ids, slugs  *)
(* and requests, with or without failing statements.                       *)
(***************************************************************************)
EXTENDS ContentRequests, TLAPS

\* Save changes one row and nothing else, and keeps the tables well typed.
LEMMA SaveRow ==
  ASSUME NEW tables \in Tables, NEW id \in Ids, NEW e \in Entries, e.kind \in Kinds
  PROVE  /\ Save(tables, id, e) \in Tables
         /\ \A k \in Kinds, i \in Ids :
              Save(tables, id, e)[k][i] =
                IF k = e.kind /\ i = id THEN e ELSE tables[k][i]
<1>1. [tables[e.kind] EXCEPT ![id] = e] \in [Ids -> Entries \cup {NoEntry}]
  BY DEF Tables
<1>2. QED
  BY <1>1 DEF Tables, Save

\* A row that Get finds is an entry, of the kind of a table that holds it, and
\* it is what that table holds up to the kind.
LEMMA GetRow ==
  ASSUME NEW tables \in Tables, NEW id \in Ids, NEW readable \in SUBSET Kinds,
         Found(tables, id, readable),
         \A k \in Kinds : tables[k][id] # NoEntry => tables[k][id].kind \in {"", k}
  PROVE  \E k \in Kinds :
           /\ tables[k][id] # NoEntry
           /\ Get(tables, id, readable) = WithContentKind(tables[k][id], k)
           /\ Get(tables, id, readable) \in Entries
           /\ Get(tables, id, readable).kind = k
<1> DEFINE k == Home(tables, id, readable)
<1>1. k \in Kinds /\ tables[k][id] # NoEntry
  BY DEF Home, HomesOf, Found, Kinds
<1>2. tables[k][id] \in Entries
  BY <1>1 DEF Tables
<1>3. Get(tables, id, readable) = WithContentKind(tables[k][id], k)
  BY DEF Get
<1>4. WithContentKind(tables[k][id], k) \in Entries
  BY <1>1, <1>2 DEF WithContentKind, Entries
<1>5. WithContentKind(tables[k][id], k).kind = k
  BY <1>1, <1>2 DEF WithContentKind, Entries
<1> QED
  BY <1>1, <1>3, <1>4, <1>5

\* A draft is an entry of the kind asked for.
LEMMA DraftedEntry ==
  ASSUME NEW e \in Entries, NEW kind \in Kinds, NEW now \in Nat
  PROVE  Drafted(e, kind, now) \in Entries /\ Drafted(e, kind, now).kind = kind
BY StatusAssumption DEF Drafted, Entries, Visibilities

\* No operation of the service changes the kind of an entry.
LEMMA MutatedEntry ==
  ASSUME NEW q \in Request, q.op # "read", NEW e \in Entries, NEW now \in Nat
  PROVE  Mutated(q, e, now) \in Entries /\ Mutated(q, e, now).kind = e.kind
<1> USE StatusAssumption
<1>1. q.entry \in Entries
  BY DEF Request
<1>2. CASE q.op \in {"publish", "create"}
  <2>1. Mutated(q, e, now) = Published(e, now)
    BY <1>2 DEF Mutated
  <2>2. Published(e, now) \in Entries
    BY DEF Published, Entries
  <2>3. Published(e, now).kind = e.kind
    BY DEF Published, Entries
  <2> QED  BY <2>1, <2>2, <2>3
<1>3. CASE q.op = "update"
  <2>1. Mutated(q, e, now) = Merged(e, q.entry, now)
    BY <1>3 DEF Mutated
  <2> QED  BY <1>1, <2>1, ZenonT(40) DEF Merged, Filled, Entries
<1>4. CASE q.op = "schedule"
  <2>1. Mutated(q, e, now) = Scheduled(e, q.entry.scheduledFor, now)
    BY <1>4 DEF Mutated
  <2> QED  BY <1>1, <2>1 DEF Scheduled, Entries
<1>5. CASE q.op \in {"trash", "restore", "archive"}
  <2>1. \E s \in Statuses : Mutated(q, e, now) = WithStatus(e, s, now)
    BY <1>5 DEF Mutated
  <2> QED  BY <2>1 DEF WithStatus, Entries
<1> QED
  BY <1>2, <1>3, <1>4, <1>5 DEF Request, Operations

-----------------------------------------------------------------------------
\* At the first start nobody holds the connection and rows are in their tables.
LEMMA InitInv == Init => Inv
<1> SUFFICES ASSUME Init PROVE Inv
  OBVIOUS
<1>1. AnyRequest \in Inputs
  BY RequestsAssumption DEF AnyRequest
<1>2. EmptyTables \in Tables
  BY DEF EmptyTables, Tables
<1>3. TypeOK
  <2>1. disk \in Tables
    BY RequestsAssumption DEF Init
  <2>2. reply \in [Requests -> [ok : BOOLEAN, seen : SUBSET (Kinds \X Ids)]]
    BY DEF Init, NoReply
  <2>3. pc \in [Requests -> Phases]
    BY DEF Init, Phases
  <2>4. work \in [Requests -> Tables] /\ req \in [Requests -> Inputs]
    BY <1>1, <1>2 DEF Init
  <2>5. entry \in [Requests -> Entries \cup {NoEntry}]
    BY DEF Init
  <2>6. conn \in Requests \cup {NoRequest}
    BY DEF Init
  <2>7. clock \in Nat \ {0} /\ calls \in Nat
    BY DEF Init
  <2> QED  BY <2>1, <2>2, <2>3, <2>4, <2>5, <2>6, <2>7 DEF TypeOK
<1>4. Holder /\ StepsMatch /\ Fresh /\ Isolated /\ ReadIsCurrent
  BY RequestsAssumption DEF Init, Holder, StepsMatch, Fresh, Isolated, ReadIsCurrent, InTx
<1>5. HomeTable
  BY RequestsAssumption DEF Init, HomeTable, EmptyTables
<1> QED
  BY <1>3, <1>4, <1>5 DEF Inv

\* What a goroutine holds while it serves a request.
LEMMA RequestTyped ==
  ASSUME TypeOK, NEW r \in Requests
  PROVE  work[r] \in Tables /\ req[r] \in Request /\ req[r].id \in Ids
<1>1. work[r] \in Tables /\ req[r] \in Inputs
  BY DEF TypeOK
<1>2. req[r] \in Request
  BY <1>1, RequestsAssumption
<1> QED
  BY <1>1, <1>2 DEF Request

\* The steps that only move a handler on within its transaction.
LEMMA MoveInv ==
  ASSUME Inv, NEW r \in Requests, NEW p \in InTx, pc[r] \in InTx,
         pc' = [pc EXCEPT ![r] = p],
         \/ p = "ready" /\ pc[r] = "open" /\ req[r].op = "create"
         \/ p = "bound" /\ pc[r] = "loaded" /\ req[r].op = "update"
         \/ p \in {"saved", "failed"},
         UNCHANGED <<disk, conn, work, req, entry, clock, calls>>,
         reply' \in [Requests -> [ok : BOOLEAN, seen : SUBSET (Kinds \X Ids)]]
  PROVE  Inv'
<1> USE DEF Inv
<1>1. TypeOK'
  BY DEF TypeOK, Phases
<1>2. Holder'
  BY DEF Holder, TypeOK
<1>3. StepsMatch'
  BY DEF StepsMatch, TypeOK
<1>4. Fresh'
  BY DEF Fresh, TypeOK
<1>5. Isolated'
  BY DEF Isolated, TypeOK
<1>6. HomeTable'
  BY DEF HomeTable
<1>7. ReadIsCurrent'
  BY DEF ReadIsCurrent, TypeOK
<1> QED
  BY <1>1, <1>2, <1>3, <1>4, <1>5, <1>6, <1>7

\* A write of an entry of a proper kind under the id of the request.
LEMMA WriteInv ==
  ASSUME Inv, NEW r \in Requests, pc[r] \in InTx,
         NEW e \in Entries, e.kind \in Kinds,
         NEW p \in {"drafted", "saved"}, p = "drafted" => req[r].op = "create",
         pc' = [pc EXCEPT ![r] = p],
         work' = [work EXCEPT ![r] = Save(work[r], req[r].id, e)],
         UNCHANGED <<disk, conn, req, entry, reply, clock, calls>>
  PROVE  Inv'
<1> USE DEF Inv
<1>1. work[r] \in Tables /\ req[r].id \in Ids
  BY RequestTyped
<1>2. /\ Save(work[r], req[r].id, e) \in Tables
      /\ \A k \in Kinds, i \in Ids :
           Save(work[r], req[r].id, e)[k][i] =
             IF k = e.kind /\ i = req[r].id THEN e ELSE work[r][k][i]
  BY <1>1, SaveRow
<1>3. TypeOK'
  BY <1>2 DEF TypeOK, Phases, InTx
<1>4. Holder'
  BY DEF Holder, TypeOK, InTx
<1>5. StepsMatch'
  BY DEF StepsMatch, TypeOK
<1>6. Fresh'
  BY DEF Fresh, TypeOK
<1>7. Isolated'
  BY <1>2 DEF Isolated, TypeOK
<1>8. HomeTable'
  <2>1. \A q \in Requests :
          work'[q] = IF q = r THEN Save(work[r], req[r].id, e) ELSE work[q]
    BY DEF TypeOK
  <2> SUFFICES ASSUME NEW k \in Kinds, NEW i \in Ids, NEW q \in Requests,
                      work'[q][k][i] # NoEntry
               PROVE  work'[q][k][i].kind \in {"", k}
    BY DEF HomeTable
  <2>2. \A t \in Requests : work[t][k][i] # NoEntry => work[t][k][i].kind \in {"", k}
    BY DEF HomeTable
  <2>3. CASE q = r
    <3>1. work'[q][k][i] = IF k = e.kind /\ i = req[r].id THEN e ELSE work[r][k][i]
      BY <1>2, <2>1, <2>3
    <3> QED  BY <2>2, <3>1
  <2>4. CASE q # r
    BY <2>1, <2>2, <2>4
  <2> QED  BY <2>3, <2>4
<1>9. ReadIsCurrent'
  BY DEF ReadIsCurrent, TypeOK
<1> QED
  BY <1>3, <1>4, <1>5, <1>6, <1>7, <1>8, <1>9

\* The steps at the end of a transaction or outside one: the connection is
\* free afterwards and r holds nothing.
LEMMA EndInv ==
  ASSUME Inv, NEW r \in Requests, conn = r,
         disk' \in {disk, work[r]},
         conn' = NoRequest,
         pc' = [pc EXCEPT ![r] = "replied"],
         reply' \in [Requests -> [ok : BOOLEAN, seen : SUBSET (Kinds \X Ids)]],
         Forget(r),
         UNCHANGED <<req, clock, calls>>
  PROVE  Inv'
<1> USE DEF Inv
<1>1. EmptyTables \in Tables
  BY DEF EmptyTables, Tables
<1>2. work[r] \in Tables
  BY DEF TypeOK
<1>3. TypeOK'
  <2>1. disk' \in Tables /\ conn' \in Requests \cup {NoRequest}
    BY <1>2 DEF TypeOK
  <2>2. work' \in [Requests -> Tables] /\ entry' \in [Requests -> Entries \cup {NoEntry}]
    BY <1>1 DEF TypeOK, Forget
  <2>3. pc' \in [Requests -> Phases]
    BY DEF TypeOK, Phases
  <2> QED  BY <2>1, <2>2, <2>3 DEF TypeOK
<1>4. \A q \in Requests : pc'[q] \notin InTx
  BY RequestsAssumption DEF Holder, TypeOK, InTx
<1>5. Holder' /\ StepsMatch' /\ Fresh' /\ Isolated' /\ ReadIsCurrent'
  BY <1>4, RequestsAssumption DEF Holder, StepsMatch, Fresh, Isolated, ReadIsCurrent, InTx
<1>6. HomeTable'
  <2>1. \A q \in Requests : work'[q] = IF q = r THEN EmptyTables ELSE work[q]
    BY DEF Forget, TypeOK
  <2>2. \A k \in Kinds, i \in Ids : EmptyTables[k][i] = NoEntry
    BY DEF EmptyTables
  <2> SUFFICES ASSUME NEW k \in Kinds, NEW i \in Ids
               PROVE  /\ disk'[k][i] # NoEntry => disk'[k][i].kind \in {"", k}
                      /\ \A q \in Requests : work'[q][k][i] # NoEntry =>
                           work'[q][k][i].kind \in {"", k}
    BY DEF HomeTable
  <2>3. disk[k][i] # NoEntry => disk[k][i].kind \in {"", k}
    BY DEF HomeTable
  <2>4. \A q \in Requests : work[q][k][i] # NoEntry => work[q][k][i].kind \in {"", k}
    BY DEF HomeTable
  <2>5. disk'[k][i] # NoEntry => disk'[k][i].kind \in {"", k}
    BY <2>3, <2>4
  <2>6. ASSUME NEW q \in Requests, work'[q][k][i] # NoEntry
        PROVE  work'[q][k][i].kind \in {"", k}
    <3>1. q # r
      BY <2>1, <2>2, <2>6
    <3> QED  BY <2>1, <2>4, <2>6, <3>1
  <2> QED  BY <2>5, <2>6
<1> QED
  BY <1>3, <1>5, <1>6

\* The steps of a request that is in no transaction, before and after.
LEMMA OutsideInv ==
  ASSUME Inv, NEW r \in Requests, pc[r] \notin InTx,
         NEW p \in {"idle", "waiting", "replied"},
         pc' = [pc EXCEPT ![r] = p],
         NEW q \in Inputs, req' = [req EXCEPT ![r] = q],
         reply' \in [Requests -> [ok : BOOLEAN, seen : SUBSET (Kinds \X Ids)]],
         calls' \in Nat,
         UNCHANGED <<disk, conn, work, entry, clock>>
  PROVE  Inv'
<1> USE DEF Inv
<1>1. TypeOK'
  BY DEF TypeOK, Phases
<1>2. p \notin InTx
  BY DEF InTx
<1>3. Holder'
  BY <1>2 DEF Holder, TypeOK
<1>4. \A x \in Requests : pc'[x] \in InTx => pc'[x] = pc[x] /\ req'[x] = req[x]
  BY <1>2 DEF TypeOK
<1>5. {"ready", "drafted", "loaded", "bound", "open"} \subseteq InTx
  BY DEF InTx
<1>6. StepsMatch'
  BY <1>4, <1>5 DEF StepsMatch
<1>7. Fresh'
  BY <1>4, <1>5 DEF Fresh
<1>8. Isolated'
  BY <1>4, <1>5 DEF Isolated
<1>9. ReadIsCurrent'
  BY <1>4, <1>5 DEF ReadIsCurrent
<1>10. HomeTable'
  BY DEF HomeTable
<1> QED
  BY <1>1, <1>3, <1>10, <1>6, <1>7, <1>8, <1>9

\* A transaction begins with the committed tables.
LEMMA BeginInv ==
  ASSUME Inv, NEW r \in Requests, Begin(r)
  PROVE  Inv'
<1> USE DEF Inv, Begin
<1>1. TypeOK'
  BY DEF TypeOK, Phases, InTx
<1>2. \A x \in Requests : pc'[x] \in InTx <=> x = r
  BY RequestsAssumption DEF Holder, TypeOK, InTx
<1>3. pc'[r] = "open" /\ work'[r] = disk
  BY DEF TypeOK
<1>4. {"ready", "drafted", "loaded", "bound"} \subseteq InTx
  BY DEF InTx
<1>5. Holder'
  BY <1>2 DEF Holder
<1>6. StepsMatch' /\ ReadIsCurrent'
  BY <1>2, <1>3, <1>4 DEF StepsMatch, ReadIsCurrent
<1>7. Fresh' /\ Isolated'
  BY <1>2, <1>3, <1>4 DEF Fresh, Isolated, InTx
<1>8. HomeTable'
  <2> SUFFICES ASSUME NEW k \in Kinds, NEW i \in Ids, NEW q \in Requests,
                      work'[q][k][i] # NoEntry
               PROVE  work'[q][k][i].kind \in {"", k}
    BY DEF HomeTable
  <2>1. CASE q = r
    BY <1>3, <2>1, ZenonT(40) DEF HomeTable
  <2>2. CASE q # r
    <3>1. work'[q] = work[q]
      BY <2>2 DEF TypeOK
    <3> QED  BY <3>1 DEF HomeTable
  <2> QED  BY <2>1, <2>2
<1> QED
  BY <1>1, <1>5, <1>6, <1>7, <1>8

\* What Get finds is what the committed table of its kind holds.
LEMMA LoadInv ==
  ASSUME Inv, NEW r \in Requests, Load(r)
  PROVE  Inv'
<1> DEFINE id == req[r].id
<1>1. id \in Ids /\ work[r] \in Tables
  BY RequestTyped DEF Inv
<1>2. pc[r] \in InTx
  BY DEF Load, InTx
<1>3. PICK readable \in Readable :
        IF Found(work[r], id, readable) /\ Acceptable(req[r], Get(work[r], id, readable))
        THEN /\ entry' = [entry EXCEPT ![r] = Get(work[r], id, readable)]
             /\ pc' = [pc EXCEPT ![r] = "loaded"]
        ELSE /\ pc' = [pc EXCEPT ![r] = "failed"]
             /\ UNCHANGED entry
  BY DEF Load
<1>4. readable \in SUBSET Kinds
  BY DEF Readable
<1>5. CASE /\ pc' = [pc EXCEPT ![r] = "failed"]
           /\ UNCHANGED entry
  <2>1. "failed" \in InTx /\ reply' \in [Requests -> [ok : BOOLEAN, seen : SUBSET (Kinds \X Ids)]]
    BY DEF InTx, Load, Inv, TypeOK
  <2> QED  BY <1>2, <1>5, <2>1, MoveInv DEF Load
<1>6. CASE /\ Found(work[r], id, readable)
           /\ entry' = [entry EXCEPT ![r] = Get(work[r], id, readable)]
           /\ pc' = [pc EXCEPT ![r] = "loaded"]
  <2> USE DEF Inv
  <2>1. \A k \in Kinds : work[r][k][id] # NoEntry => work[r][k][id].kind \in {"", k}
    BY <1>1 DEF HomeTable
  <2>2. PICK k \in Kinds :
          /\ work[r][k][id] # NoEntry
          /\ Get(work[r], id, readable) = WithContentKind(work[r][k][id], k)
          /\ Get(work[r], id, readable) \in Entries
          /\ Get(work[r], id, readable).kind = k
    BY <1>1, <1>4, <1>6, <2>1, GetRow
  <2>3. /\ pc'[r] = "loaded"
        /\ entry'[r] = Get(work[r], id, readable)
        /\ \A x \in Requests : x # r => pc'[x] = pc[x] /\ entry'[x] = entry[x]
    BY <1>6 DEF TypeOK
  <2>4. UNCHANGED <<disk, conn, work, req, reply, clock, calls>>
    BY DEF Load
  <2>5. TypeOK'
    BY <1>6, <2>2, <2>4 DEF TypeOK, Phases, InTx
  <2>6. Holder'
    BY <1>2, <2>3, <2>4 DEF Holder, InTx
  <2>7. req[r].op # "read"
    BY DEF Load, StepsMatch
  <2>8. StepsMatch'
    BY <2>2, <2>3, <2>4, <2>7 DEF StepsMatch
  <2>9. req[r].op # "create" => work[r] = disk
    BY DEF Load, Fresh, StepsMatch
  <2>10. Fresh'
    BY <2>3, <2>4, <2>9 DEF Fresh
  <2>11. Isolated'
    BY <1>2, <2>3, <2>4 DEF Isolated
  <2>12. HomeTable'
    BY <2>4 DEF HomeTable
  <2>13. ReadIsCurrent'
    BY <2>2, <2>3, <2>4, <2>9 DEF ReadIsCurrent
  <2> QED  BY <2>5, <2>6, <2>8, <2>10, <2>11, <2>12, <2>13
<1>7. \/ /\ pc' = [pc EXCEPT ![r] = "failed"]
         /\ UNCHANGED entry
      \/ /\ Found(work[r], id, readable)
         /\ entry' = [entry EXCEPT ![r] = Get(work[r], id, readable)]
         /\ pc' = [pc EXCEPT ![r] = "loaded"]
  <2>1. CASE Found(work[r], id, readable) /\ Acceptable(req[r], Get(work[r], id, readable))
    BY <1>3, <2>1
  <2>2. CASE ~(Found(work[r], id, readable) /\ Acceptable(req[r], Get(work[r], id, readable)))
    BY <1>3, <2>2
  <2> QED  BY <2>1, <2>2
<1> QED
  BY <1>5, <1>6, <1>7

\* A changed entry is stored in the table of its kind, under the id of the request.
LEMMA StoreInv ==
  ASSUME Inv, NEW r \in Requests, Store(r)
  PROVE  Inv'
<1> DEFINE e == Mutated(req[r], entry[r], clock)
<1>1. req[r] \in Request /\ clock \in Nat
  BY RequestsAssumption DEF Inv, TypeOK
<1>2. pc[r] \in {"loaded", "bound"} /\ pc[r] \in InTx
  BY DEF Store, InTx
<1>3. req[r].op # "read" /\ entry[r] \in Entries /\ entry[r].kind \in Kinds
  BY <1>2 DEF Inv, StepsMatch
<1>4. e \in Entries /\ e.kind \in Kinds
  BY <1>1, <1>3, MutatedEntry
<1>5. UNCHANGED <<disk, conn, req, entry, reply, clock, calls>>
  BY DEF Store
<1>6. \/ /\ work' = [work EXCEPT ![r] = Save(work[r], req[r].id, e)]
         /\ pc' = [pc EXCEPT ![r] = "saved"]
      \/ /\ pc' = [pc EXCEPT ![r] = "failed"]
         /\ UNCHANGED work
  BY DEF Store
<1>7. CASE /\ work' = [work EXCEPT ![r] = Save(work[r], req[r].id, e)]
           /\ pc' = [pc EXCEPT ![r] = "saved"]
  <2> HIDE DEF e
  <2> QED  BY <1>2, <1>4, <1>5, <1>7, WriteInv
<1>8. CASE /\ pc' = [pc EXCEPT ![r] = "failed"]
           /\ UNCHANGED work
  <2>1. "failed" \in InTx /\ reply' \in [Requests -> [ok : BOOLEAN, seen : SUBSET (Kinds \X Ids)]]
    BY <1>5 DEF InTx, Inv, TypeOK
  <2> QED  BY <1>2, <1>5, <1>8, <2>1, MoveInv
<1> QED
  BY <1>6, <1>7, <1>8

\* A draft is stored in the table of the kind that was asked for.
LEMMA CreateDraftInv ==
  ASSUME Inv, NEW r \in Requests, CreateDraft(r)
  PROVE  Inv'
<1> DEFINE e == Drafted(req[r].entry, req[r].kind, clock)
<1>1. req[r] \in Request /\ clock \in Nat
  BY RequestsAssumption DEF Inv, TypeOK
<1>2. req[r].entry \in Entries /\ req[r].kind \in Kinds
  BY <1>1 DEF Request
<1>3. e \in Entries /\ e.kind \in Kinds
  BY <1>1, <1>2, DraftedEntry
<1>4. PICK p \in {"drafted", "saved"} : pc' = [pc EXCEPT ![r] = p]
  BY DEF CreateDraft, AfterDraft
<1>5. pc[r] \in InTx /\ req[r].op = "create"
  BY DEF CreateDraft, AfterDraft, InTx, Inv, StepsMatch
<1>6. /\ work' = [work EXCEPT ![r] = Save(work[r], req[r].id, e)]
      /\ UNCHANGED <<disk, conn, req, entry, reply, clock, calls>>
  BY DEF CreateDraft, AfterDraft
<1> HIDE DEF e
<1> QED
  BY <1>3, <1>4, <1>5, <1>6, WriteInv

\* A crash leaves the committed tables and no transaction.
LEMMA CrashInv ==
  ASSUME Inv, Crash
  PROVE  Inv'
<1> USE DEF Inv, Crash
<1>1. EmptyTables \in Tables /\ AnyRequest \in Inputs
  BY RequestsAssumption DEF EmptyTables, Tables, AnyRequest
<1>2. reply' \in [Requests -> [ok : BOOLEAN, seen : SUBSET (Kinds \X Ids)]]
  BY DEF NoReply
<1>3. pc' \in [Requests -> Phases] /\ work' \in [Requests -> Tables]
  BY <1>1 DEF Phases
<1>4. TypeOK'
  BY <1>1, <1>2, <1>3 DEF TypeOK
<1>5. \A q \in Requests : pc'[q] \notin InTx
  BY DEF InTx
<1>6. Holder' /\ StepsMatch' /\ Fresh' /\ Isolated' /\ ReadIsCurrent'
  BY <1>5, RequestsAssumption DEF Holder, StepsMatch, Fresh, Isolated, ReadIsCurrent, InTx
<1>7. \A q \in Requests, k \in Kinds, i \in Ids : work'[q][k][i] = NoEntry
  BY DEF EmptyTables
<1>8. HomeTable'
  BY <1>7 DEF HomeTable
<1> QED
  BY <1>4, <1>6, <1>8

\* Time passing changes nothing else.
LEMMA TickInv ==
  ASSUME Inv, Tick \/ UNCHANGED vars
  PROVE  Inv'
<1> USE DEF Inv, Tick, vars
<1>1. clock' \in Nat \ {0}
  BY DEF TypeOK
<1>2. TypeOK'
  BY <1>1 DEF TypeOK
<1>3. Holder' /\ StepsMatch' /\ Fresh'
  BY DEF Holder, StepsMatch, Fresh
<1>4. Isolated'
  BY DEF Isolated
<1>5. HomeTable'
  BY DEF HomeTable
<1>6. ReadIsCurrent'
  BY DEF ReadIsCurrent
<1> QED
  BY <1>2, <1>3, <1>4, <1>5, <1>6

\* The invariant is inductive: one step per action.
LEMMA NextInv == Inv /\ [Next]_vars => Inv'
<1> SUFFICES ASSUME Inv, [Next]_vars
             PROVE  Inv'
  OBVIOUS
<1> DEFINE ReplyType == [ok : BOOLEAN, seen : SUBSET (Kinds \X Ids)]
<1>1. reply \in [Requests -> ReplyType] /\ calls \in Nat /\ NoReply \in ReplyType
  BY DEF Inv, TypeOK, NoReply
<1>2. ASSUME NEW r \in Requests, NEW q \in Inputs, Receive(r, q)
      PROVE  Inv'
  <2>1. pc[r] \notin InTx /\ calls' \in Nat
    BY <1>1, <1>2 DEF Receive, InTx
  <2> QED  BY <1>1, <1>2, <2>1, OutsideInv DEF Receive
<1>3. ASSUME NEW r \in Requests, GiveUp(r) \/ Answer(r)
      PROVE  Inv'
  <2>1. pc[r] \notin InTx
    BY <1>3 DEF GiveUp, Answer, InTx
  <2>2. AnyRequest \in Inputs /\ req = [req EXCEPT ![r] = req[r]] /\ req[r] \in Inputs
    BY RequestsAssumption DEF AnyRequest, Inv, TypeOK
  <2>3. reply' \in [Requests -> ReplyType]
    BY <1>1, <1>3 DEF GiveUp, Answer
  <2> QED  BY <1>1, <1>3, <2>1, <2>2, <2>3, OutsideInv DEF GiveUp, Answer
<1>4. ASSUME NEW r \in Requests, Reject(r) \/ ReadBody(r) \/ StoreFails(r) \/ Read(r)
      PROVE  Inv'
  <2>1. pc[r] \in InTx /\ {"ready", "bound", "saved", "failed"} \subseteq InTx
    BY <1>4 DEF Reject, ReadBody, StoreFails, Read, InTx
  <2>2. reply' \in [Requests -> ReplyType]
    <3>1. Visible(work[r]) \in SUBSET (Kinds \X Ids)
      BY DEF Visible
    <3>2. CASE Read(r)
      BY <1>1, <3>1, <3>2 DEF Read
    <3>3. CASE ~Read(r)
      BY <1>1, <1>4, <3>3 DEF Reject, ReadBody, StoreFails
    <3> QED  BY <3>2, <3>3
  <2>3. CASE Reject(r)
    BY <2>1, <2>2, <2>3, MoveInv DEF Reject
  <2>4. CASE ReadBody(r)
    BY <2>1, <2>2, <2>4, MoveInv DEF ReadBody
  <2>5. CASE StoreFails(r)
    BY <2>1, <2>2, <2>5, MoveInv DEF StoreFails
  <2>6. CASE Read(r)
    BY <2>1, <2>2, <2>6, MoveInv DEF Read
  <2> QED  BY <1>4, <2>3, <2>4, <2>5, <2>6
<1>5. ASSUME NEW r \in Requests, Commit(r) \/ Rollback(r)
      PROVE  Inv'
  <2>1. reply' \in [Requests -> ReplyType]
    <3>1. CASE Commit(r)
      <4>1. reply[r] \in ReplyType
        BY <1>1
      <4>2. [ok |-> TRUE, seen |-> reply[r].seen] \in ReplyType
        BY <4>1
      <4> HIDE DEF ReplyType
      <4> QED  BY <1>1, <3>1, <4>2 DEF Commit
    <3>2. CASE Rollback(r)
      <4> HIDE DEF ReplyType
      <4> QED  BY <1>1, <3>2 DEF Rollback
    <3> QED  BY <1>5, <3>1, <3>2
  <2> QED  BY <1>5, <2>1, EndInv DEF Commit, Rollback
<1>6. CASE Tick \/ UNCHANGED vars
  BY <1>6, TickInv
<1> QED
  BY <1>2, <1>3, <1>4, <1>5, <1>6, BeginInv, CreateDraftInv, LoadInv, StoreInv, CrashInv
     DEF Next, Handle

\* The type invariant, and with it that a transaction is open exactly for the
\* holder of the one connection.
THEOREM InvHolds == Spec => []Inv
BY InitInv, NextInv, PTL DEF Spec

\* Every row stays in the table of its kind.
THEOREM HomeTableHolds == Spec => []HomeTable
<1>1. Inv => HomeTable
  BY DEF Inv
<1> QED
  BY <1>1, InvHolds, PTL

\* No lost update: what a handler is about to change and write back is current.
THEOREM ReadIsCurrentHolds == Spec => []ReadIsCurrent
<1>1. Inv => ReadIsCurrent
  BY DEF Inv
<1> QED
  BY <1>1, InvHolds, PTL

\* A request changes no row but those under the id it names: only a commit
\* changes the tables, and it writes back a copy that Isolated says differs from
\* them under that id at most.
THEOREM OnlyNamedEntryChangesHolds == Spec => OnlyNamedEntryChanges
<1> DEFINE A == \A k \in Kinds, i \in Ids :
                 disk'[k][i] # disk[k][i] => \E r \in Requests : conn = r /\ req[r].id = i
<1>1. Inv /\ [Next]_vars => [A]_vars
  <2> SUFFICES ASSUME Inv, [Next]_vars, NEW k \in Kinds, NEW i \in Ids,
                      disk'[k][i] # disk[k][i]
               PROVE  \E r \in Requests : conn = r /\ req[r].id = i
    OBVIOUS
  <2>1. \E r \in Requests : Commit(r)
    BY DEF Next, Handle, vars, Receive, Begin, GiveUp, Reject, ReadBody, CreateDraft,
           Load, Store, StoreFails, Read, Rollback, Answer, Crash, Tick
  <2>2. PICK r \in Requests : Commit(r)
    BY <2>1
  <2>3. conn = r /\ disk' = work[r] /\ pc[r] \in InTx
    BY <2>2 DEF Commit, Inv, Holder
  <2>4. req[r].id = i
    BY <2>3 DEF Inv, Isolated
  <2> QED  BY <2>3, <2>4
<1> QED
  BY <1>1, InvHolds, PTL DEF Spec, OnlyNamedEntryChanges

-----------------------------------------------------------------------------
(***************************************************************************)
(* What a transaction makes of a row, from the committed one to its own:   *)
(* where rows come from, when they become visible, and that their time     *)
(* stamps advance.                                                         *)
(***************************************************************************)
AskedToShow(q) ==
  \/ q.op = "publish"
  \/ q.entry.status = "published"
  \/ q.op = "update" /\ q.entry.visibility = "public"

\* How a request q may change a row of the table k from old to new, by the time now.
Legit(q, k, old, new, now) ==
  /\ old # NoEntry => new # NoEntry
  /\ new # NoEntry /\ (old = NoEntry \/ new.createdAt # old.createdAt) =>
       q.op = "create" /\ q.kind = k
  /\ new # old =>
       /\ new # NoEntry /\ new.updatedAt <= now
       /\ old # NoEntry => old.updatedAt <= new.updatedAt
  /\ new # NoEntry /\ Shown(new) /\ ~(old # NoEntry /\ Shown(old)) => AskedToShow(q)

\* A create that goes on to publish was sent as published; what a handler has read is
\* a row of its transaction; and it has made legitimate changes only.
Good(r) ==
  /\ pc[r] = "drafted" \/ (pc[r] = "loaded" /\ req[r].op = "create") =>
       req[r].entry.status = "published"
  /\ pc[r] \in {"loaded", "bound"} =>
       \E k \in Kinds : /\ work[r][k][req[r].id] # NoEntry
                        /\ entry[r] = WithContentKind(work[r][k][req[r].id], k)
  /\ pc[r] \in InTx =>
       \A k \in Kinds, i \in Ids : Legit(req[r], k, disk[k][i], work[r][k][i], clock)

NotFromFuture ==
  \A k \in Kinds, i \in Ids : disk[k][i] # NoEntry => disk[k][i].updatedAt <= clock

History == NotFromFuture /\ \A r \in Requests : Good(r)

\* A row of a table is an entry, with a time stamp.
LEMMA RowTyped ==
  ASSUME NEW tables \in Tables, NEW k \in Kinds, NEW i \in Ids, tables[k][i] # NoEntry
  PROVE  tables[k][i] \in Entries /\ tables[k][i].updatedAt \in Nat
<1>1. tables[k][i] \in Entries
  BY DEF Tables
<1> QED
  BY <1>1 DEF Entries

\* The service stamps what it changes, leaves the time of creation, and makes an entry
\* visible only if it was asked to.
LEMMA MutatedTimes ==
  ASSUME NEW q \in Request, q.op # "read", NEW e \in Entries, NEW now \in Nat
  PROVE  /\ Mutated(q, e, now).createdAt = e.createdAt
         /\ Mutated(q, e, now).updatedAt = now
         /\ Shown(Mutated(q, e, now)) =>
              AskedToShow(q) \/ q.op = "create" \/ (q.op = "update" /\ Shown(e))
<1>1. q.entry \in Entries
  BY DEF Request
<1>2. CASE q.op \in {"publish", "create"}
  <2>1. Mutated(q, e, now) = Published(e, now)
    BY <1>2 DEF Mutated
  <2> QED  BY <1>2, <2>1 DEF Published, Entries, AskedToShow
<1>3. CASE q.op = "update"
  <2>1. Mutated(q, e, now) = Merged(e, q.entry, now)
    BY <1>3 DEF Mutated
  <2> QED  BY <1>1, <1>3, <2>1 DEF Merged, Filled, Entries, AskedToShow, Shown
<1>4. CASE q.op = "schedule"
  <2>1. Mutated(q, e, now) = Scheduled(e, q.entry.scheduledFor, now)
    BY <1>4 DEF Mutated
  <2> QED  BY <1>1, <2>1 DEF Scheduled, Entries, Shown
<1>5. CASE q.op \in {"trash", "restore", "archive"}
  <2>1. \E s \in Statuses \ {"published"} : Mutated(q, e, now) = WithStatus(e, s, now)
    BY <1>5, StatusAssumption DEF Mutated
  <2> QED  BY <2>1 DEF WithStatus, Entries, Shown
<1> QED
  BY <1>2, <1>3, <1>4, <1>5 DEF Request, Operations

\* A handler whose transaction is not open owes nothing.
LEMMA GoodOutside ==
  ASSUME NEW r \in Requests, pc'[r] \notin InTx
  PROVE  Good(r)'
BY DEF Good, InTx

\* A request stays as good as it is while time passes and others work.
LEMMA GoodFrame ==
  ASSUME Inv, NEW r \in Requests, Good(r), UNCHANGED disk, clock' \in Nat, clock <= clock',
         pc'[r] = pc[r], req'[r] = req[r], work'[r] = work[r], entry'[r] = entry[r]
  PROVE  Good(r)'
<1>1. \A k \in Kinds, i \in Ids :
        Legit(req[r], k, disk[k][i], work[r][k][i], clock) =>
          Legit(req[r], k, disk[k][i], work[r][k][i], clock')
  <2>1. clock \in Nat /\ clock' \in Nat /\ work[r] \in Tables
    BY DEF Inv, TypeOK
  <2>2. \A k \in Kinds, i \in Ids : work[r][k][i] \in Entries \cup {NoEntry}
    BY <2>1 DEF Tables
  <2>3. \A e \in Entries : e.updatedAt \in Nat
    BY DEF Entries
  <2> QED  BY <2>1, <2>2, <2>3 DEF Legit
<1> QED
  BY <1>1 DEF Good

\* A handler that moves on without a write stays good.
LEMMA GoodMove ==
  ASSUME Inv, NEW r \in Requests, Good(r), UNCHANGED <<disk, work, req, entry, clock>>,
         pc[r] \in InTx,
         \/ pc'[r] \in {"ready", "saved", "failed"}
         \/ pc'[r] = "bound" /\ pc[r] = "loaded"
  PROVE  Good(r)'
BY DEF Good

\* One more legitimate write leaves a transaction legitimate.
LEMMA GoodWrite ==
  ASSUME Inv, NEW r \in Requests, Good(r), pc[r] \in InTx, UNCHANGED <<disk, req, clock>>,
         NEW e \in Entries, e.kind \in Kinds, work'[r] = Save(work[r], req[r].id, e),
         Legit(req[r], e.kind, disk[e.kind][req[r].id], e, clock),
         \/ pc'[r] = "saved"
         \/ pc'[r] = "drafted" /\ req[r].entry.status = "published"
  PROVE  Good(r)'
<1>1. work[r] \in Tables /\ req[r].id \in Ids
  BY RequestTyped DEF Inv
<1>2. \A k \in Kinds, i \in Ids :
        work'[r][k][i] = IF k = e.kind /\ i = req[r].id THEN e ELSE work[r][k][i]
  BY <1>1, SaveRow
<1>3. \A k \in Kinds, i \in Ids : Legit(req[r], k, disk[k][i], work'[r][k][i], clock)
  BY <1>2 DEF Good
<1> QED
  BY <1>3 DEF Good

\* A draft comes from a create, is stamped, and is not shown.
LEMMA DraftGood ==
  ASSUME Inv, History, NEW r \in Requests, CreateDraft(r)
  PROVE  Good(r)'
<1> DEFINE q == req[r]
           e == Drafted(q.entry, q.kind, clock)
           old == disk[q.kind][q.id]
<1>1. pc[r] \in InTx /\ q.op = "create" /\ q \in Request /\ clock \in Nat
  BY RequestTyped DEF Inv, TypeOK, StepsMatch, CreateDraft, InTx
<1>2. q.entry \in Entries /\ q.kind \in Kinds /\ q.id \in Ids
  BY <1>1 DEF Request
<1>3. e \in Entries /\ e.kind = q.kind
  BY <1>1, <1>2, DraftedEntry
<1>4. e.status = "draft" /\ e.updatedAt = clock
  BY <1>2 DEF Drafted, Entries
<1>5. old # NoEntry => old \in Entries /\ old.updatedAt <= clock
  <2>1. disk \in Tables
    BY DEF Inv, TypeOK
  <2> QED  BY <1>2, <2>1, RowTyped DEF History, NotFromFuture
<1>6. Legit(q, q.kind, old, e, clock)
  <2>1. e # NoEntry
    BY <1>3, NoEntryAssumption
  <2> HIDE DEF e, old, q
  <2> QED  BY <1>1, <1>4, <1>5, <2>1 DEF Legit, Shown
<1>7. /\ UNCHANGED <<disk, req, clock>> /\ work'[r] = Save(work[r], q.id, e)
      /\ pc'[r] = AfterDraft(q)
  BY DEF CreateDraft, Inv, TypeOK
<1>8. pc'[r] = "saved" \/ (pc'[r] = "drafted" /\ q.entry.status = "published")
  BY <1>7 DEF AfterDraft
<1>9. Good(r)
  BY DEF History
<1> HIDE DEF e
<1> QED
  BY <1>1, <1>2, <1>3, <1>6, <1>7, <1>8, <1>9, GoodWrite

\* What a handler reads is a row of its transaction.
LEMMA LoadGood ==
  ASSUME Inv, History, NEW r \in Requests, Load(r)
  PROVE  Good(r)'
<1> DEFINE id == req[r].id
<1>1. pc[r] \in InTx /\ work[r] \in Tables /\ id \in Ids
  BY RequestTyped DEF Inv, Load, InTx
<1>2. UNCHANGED <<disk, work, req, clock>>
  BY DEF Load
<1>3. PICK readable \in Readable :
        \/ /\ Found(work[r], id, readable)
           /\ entry' = [entry EXCEPT ![r] = Get(work[r], id, readable)]
           /\ pc' = [pc EXCEPT ![r] = "loaded"]
        \/ pc' = [pc EXCEPT ![r] = "failed"]
  BY DEF Load
<1>4. CASE pc' = [pc EXCEPT ![r] = "failed"]
  <2>1. pc'[r] = "failed"
    BY <1>4 DEF Inv, TypeOK
  <2> QED  BY <1>1, <1>2, <2>1 DEF Good, History
<1>5. CASE /\ Found(work[r], id, readable)
           /\ entry' = [entry EXCEPT ![r] = Get(work[r], id, readable)]
           /\ pc' = [pc EXCEPT ![r] = "loaded"]
  <2>1. pc'[r] = "loaded" /\ entry'[r] = Get(work[r], id, readable)
    BY <1>5 DEF Inv, TypeOK
  <2>2. readable \in SUBSET Kinds
    BY RequestsAssumption DEF Readable
  <2>3. \E k \in Kinds : /\ work[r][k][id] # NoEntry
                         /\ Get(work[r], id, readable) = WithContentKind(work[r][k][id], k)
    BY <1>1, <1>5, <2>2, GetRow DEF Inv, HomeTable
  <2>4. req[r].op = "create" => req[r].entry.status = "published"
    BY DEF Load, Good, History
  <2> QED  BY <1>1, <1>2, <2>1, <2>3, <2>4 DEF Good, History
<1> QED
  BY <1>3, <1>4, <1>5

\* A handler writes back what it read, changed and stamped.
LEMMA StoreGood ==
  ASSUME Inv, History, NEW r \in Requests, Store(r)
  PROVE  Good(r)'
<1> DEFINE q == req[r]
           e == Mutated(q, entry[r], clock)
<1>1. /\ pc[r] \in {"loaded", "bound"} /\ pc[r] \in InTx
      /\ q \in Request /\ q.op # "read" /\ q.id \in Ids
      /\ clock \in Nat /\ entry[r] \in Entries /\ work[r] \in Tables /\ disk \in Tables
  BY RequestTyped DEF Inv, TypeOK, StepsMatch, Store, InTx
<1>2. Good(r) /\ UNCHANGED <<disk, req, entry, clock>>
  BY DEF History, Store
<1>3. PICK k \in Kinds : /\ work[r][k][q.id] # NoEntry
                         /\ entry[r] = WithContentKind(work[r][k][q.id], k)
  BY <1>1, <1>2 DEF Good
<1> DEFINE old == disk[k][q.id]
           row == work[r][k][q.id]
<1>4. /\ row \in Entries /\ row.kind \in {"", k}
      /\ entry[r].kind = k /\ entry[r].createdAt = row.createdAt
      /\ Shown(entry[r]) <=> Shown(row)
  <2>1. row \in Entries
    BY <1>1, <1>3, RowTyped
  <2>2. row.kind \in {"", k}
    BY <1>1, <1>3 DEF Inv, HomeTable
  <2>3. entry[r] = WithContentKind(row, k)
    BY <1>3
  <2> HIDE DEF row
  <2> QED  BY <2>1, <2>2, <2>3 DEF WithContentKind, Entries, Shown
<1>5. /\ e \in Entries /\ e.kind = k
      /\ e.createdAt = row.createdAt /\ e.updatedAt = clock
      /\ Shown(e) => AskedToShow(q) \/ q.op = "create" \/ (q.op = "update" /\ Shown(row))
  BY <1>1, <1>4, MutatedEntry, MutatedTimes
<1>6. old # NoEntry => old \in Entries /\ old.updatedAt <= clock
  BY <1>1, RowTyped DEF History, NotFromFuture
<1>7. Legit(q, k, old, row, clock)
  BY <1>1, <1>2 DEF Good
<1>8. q.op = "create" => AskedToShow(q)
  BY <1>1, <1>2 DEF Good, AskedToShow, Inv, StepsMatch
<1>9. Legit(q, k, old, e, clock)
  <2>1. e # NoEntry
    BY <1>5, NoEntryAssumption
  <2>2. row # NoEntry /\ clock \in Nat
    BY <1>1, <1>3
  <2>3. (old = NoEntry \/ e.createdAt # old.createdAt) => q.op = "create" /\ q.kind = k
    BY <1>5, <1>7, <2>2 DEF Legit
  <2>4. Shown(e) /\ ~(old # NoEntry /\ Shown(old)) => AskedToShow(q)
    BY <1>5, <1>7, <1>8, <2>2 DEF Legit
  <2> HIDE DEF e, old, row, q
  <2> QED  BY <1>5, <1>6, <2>1, <2>2, <2>3, <2>4 DEF Legit
<1>10. \/ work'[r] = Save(work[r], q.id, e) /\ pc'[r] = "saved"
       \/ UNCHANGED work /\ pc'[r] = "failed"
  BY DEF Store, Inv, TypeOK
<1>11. CASE work'[r] = Save(work[r], q.id, e) /\ pc'[r] = "saved"
  <2> HIDE DEF e
  <2> QED  BY <1>1, <1>2, <1>5, <1>9, <1>11, GoodWrite
<1>12. CASE UNCHANGED work /\ pc'[r] = "failed"
  BY <1>1, <1>2, <1>12, GoodMove
<1> QED
  BY <1>10, <1>11, <1>12

\* Every step keeps what transactions have made of their rows legitimate.
LEMMA HistoryStep == Inv /\ Inv' /\ History /\ [Next]_vars => History'
<1> SUFFICES ASSUME Inv, Inv', History, [Next]_vars
             PROVE  History'
  OBVIOUS
<1>1. /\ clock \in Nat /\ clock' \in Nat /\ disk \in Tables
      /\ \A r \in Requests : Good(r)
      /\ \A k \in Kinds, i \in Ids : disk[k][i] # NoEntry => disk[k][i].updatedAt \in Nat
  <2>1. disk \in Tables /\ clock \in Nat /\ clock' \in Nat
    BY DEF Inv, TypeOK
  <2> QED  BY <2>1, RowTyped DEF History
<1>2. ASSUME UNCHANGED disk, clock <= clock' PROVE NotFromFuture'
  BY <1>1, <1>2 DEF History, NotFromFuture
<1>3. ASSUME NEW r \in Requests, UNCHANGED <<disk, clock>>,
             \A s \in Requests \ {r} : /\ pc'[s] = pc[s] /\ req'[s] = req[s]
                                       /\ work'[s] = work[s] /\ entry'[s] = entry[s],
             Good(r)'
      PROVE  History'
  <2>1. \A s \in Requests \ {r} : Good(s)'
    BY <1>1, <1>3, GoodFrame
  <2> QED  BY <1>1, <1>2, <1>3, <2>1 DEF History
<1>4. ASSUME NEW r \in Requests,
             Receive(r, req'[r]) \/ GiveUp(r) \/ Answer(r) \/ Rollback(r)
      PROVE  History'
  <2>1. pc'[r] \notin InTx /\ UNCHANGED <<disk, clock>>
    BY <1>4 DEF Receive, GiveUp, Answer, Rollback, InTx, Inv, TypeOK
  <2>2. \A s \in Requests \ {r} : /\ pc'[s] = pc[s] /\ req'[s] = req[s]
                                  /\ work'[s] = work[s] /\ entry'[s] = entry[s]
    BY <1>4 DEF Receive, GiveUp, Answer, Rollback, Forget, Inv, TypeOK
  <2> QED  BY <1>3, <2>1, <2>2, GoodOutside
<1>5. ASSUME NEW r \in Requests, Begin(r)
      PROVE  History'
  <2>1. pc'[r] = "open" /\ work'[r] = disk /\ UNCHANGED <<disk, clock, req, entry>>
    BY <1>5 DEF Begin, Inv, TypeOK
  <2>2. \A k \in Kinds, i \in Ids : Legit(req[r], k, disk[k][i], disk[k][i], clock)
    BY DEF Legit
  <2>3. Good(r)'
    BY <2>1, <2>2 DEF Good
  <2>4. \A s \in Requests \ {r} : pc'[s] = pc[s] /\ work'[s] = work[s]
    BY <1>5 DEF Begin, Inv, TypeOK
  <2> QED  BY <1>3, <2>1, <2>3, <2>4
<1>6. ASSUME NEW r \in Requests, Reject(r) \/ ReadBody(r) \/ StoreFails(r) \/ Read(r)
      PROVE  History'
  <2>1. /\ pc[r] \in InTx /\ UNCHANGED <<disk, work, req, entry, clock>>
        /\ \/ pc'[r] \in {"ready", "saved", "failed"}
           \/ pc'[r] = "bound" /\ pc[r] = "loaded"
    BY <1>6 DEF Reject, ReadBody, StoreFails, Read, InTx, Inv, TypeOK
  <2>2. \A s \in Requests \ {r} : pc'[s] = pc[s]
    BY <1>6 DEF Reject, ReadBody, StoreFails, Read, Inv, TypeOK
  <2>3. Good(r)'
    BY <1>1, <2>1, GoodMove
  <2> QED  BY <1>3, <2>1, <2>2, <2>3
<1>7. ASSUME NEW r \in Requests, CreateDraft(r) \/ Load(r) \/ Store(r)
      PROVE  History'
  <2>1. Good(r)'
    BY <1>7, DraftGood, LoadGood, StoreGood
  <2>2. UNCHANGED <<disk, clock, req>>
    BY <1>7 DEF CreateDraft, Load, Store
  <2>3. \A s \in Requests \ {r} : pc'[s] = pc[s] /\ work'[s] = work[s] /\ entry'[s] = entry[s]
    BY <1>7 DEF CreateDraft, Load, Store, Inv, TypeOK
  <2> QED  BY <1>3, <2>1, <2>2, <2>3
<1>8. ASSUME NEW r \in Requests, Commit(r)
      PROVE  History'
  <2>1. conn = r /\ pc[r] \in InTx /\ disk' = work[r] /\ UNCHANGED clock /\ conn' = NoRequest
    BY <1>8 DEF Commit, Inv, Holder
  <2>2. \A s \in Requests : pc'[s] \notin InTx
    BY <2>1, RequestsAssumption DEF Inv, Holder
  <2>3. \A k \in Kinds, i \in Ids : Legit(req[r], k, disk[k][i], disk'[k][i], clock)
    BY <1>1, <2>1 DEF Good
  <2>4. NotFromFuture'
    BY <2>1, <2>3 DEF Legit, History, NotFromFuture
  <2> QED  BY <2>2, <2>4, GoodOutside DEF History
<1>9. CASE Crash
  <2>1. \A s \in Requests : pc'[s] \notin InTx
    BY <1>9 DEF Crash, InTx
  <2> QED  BY <1>1, <1>2, <1>9, <2>1, GoodOutside DEF Crash, History
<1>10. CASE Tick \/ UNCHANGED vars
  <2>1. clock <= clock' /\ UNCHANGED <<disk, pc, req, work, entry>>
    BY <1>1, <1>10 DEF Tick, vars
  <2> QED  BY <1>1, <1>2, <2>1, GoodFrame DEF History
<1>11. ASSUME NEW r \in Requests, NEW q \in Inputs, Receive(r, q) PROVE History'
  <2>1. Receive(r, req'[r])
    BY <1>11 DEF Receive, Inv, TypeOK
  <2> QED  BY <1>4, <2>1
<1> QED
  BY <1>4, <1>5, <1>6, <1>7, <1>8, <1>9, <1>10, <1>11 DEF Next, Handle

\* At the first start no transaction is open, and no row is from the future.
LEMMA HistoryHolds == Spec => [](Inv /\ History)
<1>1. Init => History
  <2> SUFFICES ASSUME Init PROVE History
    OBVIOUS
  <2>1. NotFromFuture
    BY RequestsAssumption DEF Init, NotFromFuture
  <2>2. \A r \in Requests : Good(r)
    BY DEF Init, Good, InTx
  <2> QED  BY <2>1, <2>2 DEF History
<1> QED
  BY <1>1, HistoryStep, InvHolds, PTL DEF Spec

\* What a step changes in the tables, the request that holds the connection may change.
LEMMA StepsAreLegit ==
  ASSUME Inv, History, [Next]_vars, ~(disk' = disk)
  PROVE  \E r \in Requests :
           /\ conn = r /\ clock' = clock /\ disk' \in Tables
           /\ \A k \in Kinds, i \in Ids : Legit(req[r], k, disk[k][i], disk'[k][i], clock)
<1>1. PICK r \in Requests : Commit(r)
  BY DEF Next, Handle, vars, Receive, Begin, GiveUp, Reject, ReadBody, CreateDraft,
         Load, Store, StoreFails, Read, Rollback, Answer, Crash, Tick
<1>2. conn = r /\ pc[r] \in InTx /\ disk' = work[r] /\ clock' = clock
  BY <1>1 DEF Commit, Inv, Holder
<1> QED
  BY <1>2 DEF History, Good, Inv, TypeOK

\* A row comes into being, or gets another time of creation, by a create of its kind
\* only, and no row goes.
THEOREM RowsComeFromCreateHolds == Spec => RowsComeFromCreate
<1> DEFINE A == \A k \in Kinds, i \in Ids :
                  /\ disk[k][i] # NoEntry => disk'[k][i] # NoEntry
                  /\ CreatedAnew(k, i) =>
                       \E r \in Requests : conn = r /\ req[r].op = "create" /\ req[r].kind = k
<1>1. Inv /\ History /\ [Next]_vars => [A]_vars
  <2> SUFFICES ASSUME Inv, History, [Next]_vars PROVE A
    OBVIOUS
  <2>1. CASE disk' = disk
    BY <2>1 DEF CreatedAnew
  <2>2. CASE disk' # disk
    BY <2>2, StepsAreLegit DEF Legit, CreatedAnew
  <2> QED  BY <2>1, <2>2
<1> QED
  BY <1>1, HistoryHolds, PTL DEF Spec, RowsComeFromCreate

\* Nothing becomes publicly visible but by a request that asked for it.
THEOREM ShownOnRequestHolds == Spec => ShownOnRequest
<1> DEFINE A == \A k \in Kinds, i \in Ids :
                  /\ disk'[k][i] # NoEntry /\ Shown(disk'[k][i])
                  /\ ~(disk[k][i] # NoEntry /\ Shown(disk[k][i]))
                  => \E r \in Requests :
                       /\ conn = r
                       /\ \/ req[r].op = "publish"
                          \/ req[r].entry.status = "published"
                          \/ req[r].op = "update" /\ req[r].entry.visibility = "public"
<1>1. Inv /\ History /\ [Next]_vars => [A]_vars
  <2> SUFFICES ASSUME Inv, History, [Next]_vars PROVE A
    OBVIOUS
  <2>1. CASE disk' = disk
    BY <2>1
  <2>2. CASE disk' # disk
    BY <2>2, StepsAreLegit DEF Legit, AskedToShow
  <2> QED  BY <2>1, <2>2
<1> QED
  BY <1>1, HistoryHolds, PTL DEF Spec, ShownOnRequest

\* The time stamps of a row advance, in the order of the commits.
THEOREM UpdatedAtAdvancesHolds == Spec => UpdatedAtAdvances
<1> DEFINE A == \A k \in Kinds, i \in Ids :
                  disk[k][i] # NoEntry /\ disk'[k][i] # disk[k][i] =>
                    /\ disk[k][i].updatedAt <= disk'[k][i].updatedAt
                    /\ disk'[k][i].updatedAt <= clock
<1>1. Inv /\ History /\ [Next]_vars => [A]_vars
  <2> SUFFICES ASSUME Inv, History, [Next]_vars PROVE A
    OBVIOUS
  <2>1. CASE disk' = disk
    BY <2>1
  <2>2. CASE disk' # disk
    BY <2>2, StepsAreLegit DEF Legit
  <2> QED  BY <2>1, <2>2
<1> QED
  BY <1>1, HistoryHolds, PTL DEF Spec, UpdatedAtAdvances

-----------------------------------------------------------------------------
(***************************************************************************)
(* Requests are atomic.  What the transaction of a request has made of the *)
(* committed tables is, when it ends, one of the effects AtomicContent     *)
(* allows, at one instant between arrival and answer.                      *)
(***************************************************************************)
DraftOf(q, tables, new) ==
  \E t \in 1 .. clock : new = Save(tables, q.id, Drafted(q.entry, q.kind, t))

ChangeOf(q, tables, new) ==
  \E readable \in Readable, t \in 1 .. clock :
    /\ Found(tables, q.id, readable)
    /\ new = Save(tables, q.id, Mutated(q, Get(tables, q.id, readable), t))

EffectOf(q, tables, new) ==
  \/ q.op = "read" /\ new = tables
  \/ q.op = "create" /\ q.entry.status # "published" /\ DraftOf(q, tables, new)
  \/ /\ q.op = "create" /\ q.entry.status = "published"
     /\ \E draft : DraftOf(q, tables, draft) /\ ChangeOf(q, draft, new)
  \/ q.op \notin {"create", "read"} /\ ChangeOf(q, tables, new)

ResidueOf(q, tables, new) ==
  \/ new = tables
  \/ q.op = "create" /\ q.entry.status = "published" /\ DraftOf(q, tables, new)

\* How far the handler of r has come with its effect.
Progress(r) ==
  /\ pc[r] # "replied" /\ ~(pc[r] = "saved" /\ req[r].op = "read") => reply[r] = NoReply
  /\ pc[r] = "saved" => EffectOf(req[r], disk, work[r])
  /\ pc[r] = "saved" /\ req[r].op = "read" => reply[r] = [ok |-> FALSE, seen |-> Visible(disk)]
  /\ pc[r] = "drafted" \/ (pc[r] = "loaded" /\ req[r].op = "create") =>
       req[r].entry.status = "published" /\ DraftOf(req[r], disk, work[r])
  /\ pc[r] \in {"loaded", "bound"} =>
       \E readable \in Readable : /\ Found(work[r], req[r].id, readable)
                                  /\ entry[r] = Get(work[r], req[r].id, readable)
  /\ pc[r] = "failed" /\ req[r].surface = "rest" => ResidueOf(req[r], disk, work[r])

InProgress == \A r \in Requests : Progress(r)

\* AtomicContent has the operators of Content.
LEMMA SameContent ==
  /\ \A tables, id, e : Atomic!Save(tables, id, e) = Save(tables, id, e)
  /\ \A tables, id, readable : /\ Atomic!Found(tables, id, readable) <=> Found(tables, id, readable)
                               /\ Atomic!Get(tables, id, readable) = Get(tables, id, readable)
  /\ \A e, kind, now : Atomic!Drafted(e, kind, now) = Drafted(e, kind, now)
  /\ \A e, now : Atomic!Published(e, now) = Published(e, now)
  /\ \A e, at, now : Atomic!Scheduled(e, at, now) = Scheduled(e, at, now)
  /\ \A e, status, now : Atomic!WithStatus(e, status, now) = WithStatus(e, status, now)
  /\ \A e, patch, now : Atomic!Merged(e, patch, now) = Merged(e, patch, now)
<1>1. \A tables, id, e : Atomic!Save(tables, id, e) = Save(tables, id, e)
  BY DEF Save, Atomic!Save
<1>2. \A tables, id, readable : Atomic!HomesOf(tables, id, readable) = HomesOf(tables, id, readable)
  BY DEF HomesOf, Atomic!HomesOf
<1>3. \A tables, id, readable : Atomic!Found(tables, id, readable) <=> Found(tables, id, readable)
  BY <1>2 DEF Found, Atomic!Found
<1>4. \A e, k : Atomic!WithContentKind(e, k) = WithContentKind(e, k)
  BY DEF WithContentKind, Atomic!WithContentKind
<1>5. \A tables, id, readable : Atomic!Home(tables, id, readable) = Home(tables, id, readable)
  BY <1>2 DEF Home, Atomic!Home
<1>6. \A tables, id, readable : Atomic!Get(tables, id, readable) = Get(tables, id, readable)
  BY <1>4, <1>5 DEF Get, Atomic!Get
<1>7. \A e, kind, now : Atomic!Drafted(e, kind, now) = Drafted(e, kind, now)
  BY DEF Drafted, Atomic!Drafted
<1>8. /\ \A e, now : Atomic!Published(e, now) = Published(e, now)
      /\ \A e, at, now : Atomic!Scheduled(e, at, now) = Scheduled(e, at, now)
      /\ \A e, status, now : Atomic!WithStatus(e, status, now) = WithStatus(e, status, now)
  BY DEF Published, Atomic!Published, Scheduled, Atomic!Scheduled, WithStatus, Atomic!WithStatus
<1>9. \A e, patch, now : Atomic!Merged(e, patch, now) = Merged(e, patch, now)
  BY DEF Merged, Atomic!Merged, Filled, Atomic!Filled
<1> QED
  BY <1>1, <1>3, <1>6, <1>7, <1>8, <1>9

\* What is visible of the tables is the same for both modules.
LEMMA SameVisible == \A tables : Atomic!Visible(tables) = Visible(tables)
<1>1. \A S : Atomic!Cardinality(S) = Cardinality(S)
  BY DEF Cardinality, Atomic!Cardinality
<1>2. \A table : Atomic!Listed(table) = Listed(table)
  BY <1>1 DEF Listed, Atomic!Listed
<1>3. \A e : Atomic!Shown(e) <=> Shown(e)
  BY DEF Shown, Atomic!Shown
<1> QED
  BY <1>2, <1>3 DEF Visible, Atomic!Visible, Kinds, Atomic!Kinds

\* A draft, and what a failed create may leave, are those of AtomicContent.
LEMMA DraftIsAtomic ==
  ASSUME NEW q, NEW tables, NEW new, DraftOf(q, tables, new)
  PROVE  new \in Atomic!Drafts(q, tables)
BY SameContent DEF DraftOf, Atomic!Drafts

\* What a failed request may leave behind is a residue of AtomicContent.
LEMMA ResidueIsAtomic ==
  ASSUME NEW q, NEW tables, NEW new, ResidueOf(q, tables, new), q.surface = "rest" \/ new = tables
  PROVE  new \in Atomic!Residues(q, tables)
BY DraftIsAtomic DEF ResidueOf, Atomic!Residues

\* The changes of each operation are those of AtomicContent.
LEMMA ChangeIsAtomic ==
  ASSUME NEW q \in Request, NEW tables, NEW new, ChangeOf(q, tables, new)
  PROVE  /\ q.op \in {"publish", "create"} => new \in Atomic!Changed(q, tables, Atomic!Published)
         /\ q.op \notin {"create", "read"} => new \in Atomic!Effects(q, tables)
<1>1. PICK readable \in Readable, t \in 1 .. clock :
        /\ Found(tables, q.id, readable)
        /\ new = Save(tables, q.id, Mutated(q, Get(tables, q.id, readable), t))
  BY DEF ChangeOf
<1> DEFINE e == Get(tables, q.id, readable)
<1>2. /\ Atomic!Found(tables, q.id, readable) /\ Atomic!Get(tables, q.id, readable) = e
      /\ new = Atomic!Save(tables, q.id, Mutated(q, e, t))
  BY <1>1, SameContent
<1>3. CASE q.op \in {"publish", "create"}
  <2>1. Mutated(q, e, t) = Atomic!Published(e, t)
    BY <1>3, SameContent DEF Mutated
  <2> HIDE DEF e
  <2>2. new \in Atomic!Changed(q, tables, Atomic!Published)
    BY <1>2, <2>1 DEF Atomic!Changed
  <2>3. q.op = "publish" => Atomic!Effects(q, tables) = Atomic!Changed(q, tables, Atomic!Published)
    BY DEF Atomic!Effects
  <2> QED  BY <1>3, <2>2, <2>3
<1>4. CASE q.op = "update"
  <2>1. Mutated(q, e, t) = Atomic!Merged(e, q.entry, t)
    BY <1>4, SameContent DEF Mutated
  <2> HIDE DEF e
  <2> QED  BY <1>2, <1>4, <2>1 DEF Atomic!Effects, Atomic!Changed
<1>5. CASE q.op = "schedule"
  <2>1. Mutated(q, e, t) = Atomic!Scheduled(e, q.entry.scheduledFor, t)
    BY <1>5, SameContent DEF Mutated
  <2> HIDE DEF e
  <2> QED  BY <1>2, <1>5, <2>1 DEF Atomic!Effects, Atomic!Changed
<1>6. CASE q.op = "trash"
  <2>1. Mutated(q, e, t) = Atomic!WithStatus(e, "trashed", t)
    BY <1>6, SameContent DEF Mutated
  <2> HIDE DEF e
  <2> QED  BY <1>2, <1>6, <2>1 DEF Atomic!Effects, Atomic!Changed
<1>7. CASE q.op = "restore"
  <2>1. Mutated(q, e, t) = Atomic!WithStatus(e, "draft", t)
    BY <1>7, SameContent DEF Mutated
  <2> HIDE DEF e
  <2> QED  BY <1>2, <1>7, <2>1 DEF Atomic!Effects, Atomic!Changed
<1>8. CASE q.op = "archive"
  <2>1. Mutated(q, e, t) = Atomic!WithStatus(e, "archived", t)
    BY <1>8, SameContent DEF Mutated
  <2> HIDE DEF e
  <2> QED  BY <1>2, <1>8, <2>1 DEF Atomic!Effects, Atomic!Changed
<1>9. CASE q.op = "read"
  BY <1>9
<1> QED
  BY <1>3, <1>4, <1>5, <1>6, <1>7, <1>8, <1>9 DEF Request, Operations

\* The effect of a request is one that AtomicContent allows.
LEMMA EffectIsAtomic ==
  ASSUME NEW q \in Request, NEW tables, NEW new, EffectOf(q, tables, new)
  PROVE  new \in Atomic!Effects(q, tables)
<1>1. CASE q.op = "read" /\ new = tables
  BY <1>1 DEF Atomic!Effects
<1>2. CASE q.op = "create" /\ q.entry.status # "published" /\ DraftOf(q, tables, new)
  BY <1>2, DraftIsAtomic DEF Atomic!Effects
<1>3. CASE /\ q.op = "create" /\ q.entry.status = "published"
           /\ \E draft : DraftOf(q, tables, draft) /\ ChangeOf(q, draft, new)
  <2>1. PICK draft : DraftOf(q, tables, draft) /\ ChangeOf(q, draft, new)
    BY <1>3
  <2>2. draft \in Atomic!Drafts(q, tables) /\ new \in Atomic!Changed(q, draft, Atomic!Published)
    BY <1>3, <2>1, DraftIsAtomic, ChangeIsAtomic
  <2> QED  BY <1>3, <2>2 DEF Atomic!Effects
<1>4. CASE q.op \notin {"create", "read"} /\ ChangeOf(q, tables, new)
  BY <1>4, ChangeIsAtomic
<1> QED
  BY <1>1, <1>2, <1>3, <1>4 DEF EffectOf

-----------------------------------------------------------------------------
\* What may have been done by now may have been done by a later time.
LEMMA ProgressFrame ==
  ASSUME NEW r \in Requests, Progress(r), UNCHANGED disk,
         clock \in Nat, clock' \in Nat, clock <= clock',
         pc'[r] = pc[r], req'[r] = req[r], work'[r] = work[r], entry'[r] = entry[r],
         reply'[r] = reply[r]
  PROVE  Progress(r)'
<1>1. \A t \in 1 .. clock : t \in 1 .. clock'
  OBVIOUS
<1>2. \A q, tables, new : DraftOf(q, tables, new) => DraftOf(q, tables, new)'
  BY <1>1 DEF DraftOf
<1>3. \A q, tables, new : ChangeOf(q, tables, new) => ChangeOf(q, tables, new)'
  BY <1>1 DEF ChangeOf
<1>4. EffectOf(req[r], disk, work[r]) => EffectOf(req[r], disk, work[r])'
  BY <1>2, <1>3 DEF EffectOf
<1> QED
  BY <1>2, <1>4 DEF Progress, ResidueOf

\* A handler that moves on without a write has done no more and no less.
LEMMA ProgressMove ==
  ASSUME Inv, NEW r \in Requests, Progress(r), Reject(r) \/ ReadBody(r) \/ StoreFails(r)
  PROVE  Progress(r)'
<1>1. /\ UNCHANGED <<disk, work, req, entry, reply, clock>>
      /\ \/ pc'[r] = "failed" /\ pc[r] \in {"open", "loaded", "bound", "ready"}
         \/ pc'[r] = "ready"
         \/ pc'[r] = "bound" /\ pc[r] = "loaded"
  BY DEF Reject, ReadBody, StoreFails, Inv, TypeOK
<1>2. pc[r] \in {"open", "ready"} \/ (pc[r] \in {"loaded", "bound"} /\ req[r].op # "create")
        => work[r] = disk
  BY DEF Inv, Fresh
<1>3. reply[r] = NoReply
  BY DEF Progress, Reject, ReadBody, StoreFails
<1>4. pc'[r] = "failed" => ResidueOf(req[r], disk, work[r])
  BY <1>1, <1>2 DEF Progress, ResidueOf, Inv, StepsMatch
<1> QED
  BY <1>1, <1>3, <1>4 DEF Progress, ResidueOf, DraftOf, Inv, StepsMatch

\* A request that reads has done all it will do, and answers what is committed.
LEMMA ProgressRead ==
  ASSUME Inv, NEW r \in Requests, Progress(r), Read(r)
  PROVE  Progress(r)'
<1>1. /\ UNCHANGED <<disk, work, req, entry, clock>> /\ req[r].op = "read"
      /\ pc'[r] = "saved" /\ reply'[r] = [ok |-> FALSE, seen |-> Visible(work[r])]
      /\ work[r] = disk
  BY DEF Read, Inv, TypeOK, Fresh
<1> QED
  BY <1>1 DEF Progress, EffectOf

\* A create whose draft is written has made a draft of its request, and may go on to publish it.
LEMMA ProgressDraft ==
  ASSUME Inv, NEW r \in Requests, Progress(r), CreateDraft(r)
  PROVE  Progress(r)'
<1>1. /\ UNCHANGED <<disk, req, entry, clock, reply>> /\ req[r].op = "create"
      /\ work'[r] = Save(work[r], req[r].id, Drafted(req[r].entry, req[r].kind, clock))
      /\ pc'[r] = AfterDraft(req[r]) /\ work[r] = disk
      /\ reply[r] = NoReply
  BY DEF CreateDraft, Inv, TypeOK, Fresh, StepsMatch, Progress
<1>2. clock \in 1 .. clock
  BY DEF Inv, TypeOK
<1>3. DraftOf(req[r], disk, work'[r])
  BY <1>1, <1>2 DEF DraftOf
<1>4. \/ pc'[r] = "drafted" /\ req[r].entry.status = "published"
      \/ pc'[r] = "saved" /\ req[r].entry.status # "published"
  BY <1>1 DEF AfterDraft
<1>5. pc'[r] = "saved" => EffectOf(req[r], disk, work'[r])
  BY <1>1, <1>3, <1>4 DEF EffectOf
<1>6. /\ EffectOf(req[r], disk, work[r])' <=> EffectOf(req[r], disk, work'[r])
      /\ DraftOf(req[r], disk, work[r])' <=> DraftOf(req[r], disk, work'[r])
  BY <1>1 DEF EffectOf, DraftOf, ChangeOf
<1> QED
  BY <1>1, <1>3, <1>4, <1>5, <1>6 DEF Progress

\* What is loaded is the committed entry, or nothing: then the handler answers with an error.
LEMMA ProgressLoad ==
  ASSUME Inv, NEW r \in Requests, Progress(r), Load(r)
  PROVE  Progress(r)'
<1>1. /\ UNCHANGED <<disk, work, req, clock, reply>> /\ reply[r] = NoReply
      /\ \/ pc[r] = "open" /\ req[r].op # "create"
         \/ pc[r] = "drafted" /\ req[r].op = "create"
  BY DEF Load, Progress, Inv, StepsMatch
<1>2. PICK readable \in Readable :
        \/ /\ Found(work[r], req[r].id, readable)
           /\ entry' = [entry EXCEPT ![r] = Get(work[r], req[r].id, readable)]
           /\ pc' = [pc EXCEPT ![r] = "loaded"]
        \/ pc' = [pc EXCEPT ![r] = "failed"]
  BY DEF Load
<1>3. pc[r] = "open" => work[r] = disk
  BY DEF Inv, Fresh
<1>4. pc[r] = "drafted" => req[r].entry.status = "published" /\ DraftOf(req[r], disk, work[r])
  BY DEF Progress
<1>5. DraftOf(req[r], disk, work[r])' <=> DraftOf(req[r], disk, work[r])
  BY <1>1 DEF DraftOf
<1>6. CASE pc' = [pc EXCEPT ![r] = "failed"]
  <2>1. pc'[r] = "failed"
    BY <1>6 DEF Inv, TypeOK
  <2>2. ResidueOf(req[r], disk, work[r])'
    BY <1>1, <1>3, <1>4, <1>5 DEF ResidueOf
  <2> QED  BY <1>1, <2>1, <2>2 DEF Progress
<1>7. CASE /\ Found(work[r], req[r].id, readable)
           /\ entry' = [entry EXCEPT ![r] = Get(work[r], req[r].id, readable)]
           /\ pc' = [pc EXCEPT ![r] = "loaded"]
  <2>1. pc'[r] = "loaded" /\ entry'[r] = Get(work[r], req[r].id, readable)
    BY <1>7 DEF Inv, TypeOK
  <2> QED  BY <1>1, <1>4, <1>5, <1>7, <2>1 DEF Progress
<1> QED
  BY <1>2, <1>6, <1>7

\* What is stored is a change that the operation allows, of the entry as it was read.
LEMMA ProgressStore ==
  ASSUME Inv, NEW r \in Requests, Progress(r), Store(r)
  PROVE  Progress(r)'
<1> DEFINE q == req[r]
<1>1. /\ UNCHANGED <<disk, req, entry, clock, reply>> /\ reply[r] = NoReply
      /\ pc[r] \in {"loaded", "bound"} /\ q.op # "read"
      /\ pc[r] = "bound" => q.op = "update"
  BY DEF Store, Progress, Inv, StepsMatch
<1>2. PICK readable \in Readable : /\ Found(work[r], q.id, readable)
                                   /\ entry[r] = Get(work[r], q.id, readable)
  BY <1>1 DEF Progress
<1>3. q.op # "create" => work[r] = disk
  BY <1>1 DEF Inv, Fresh
<1>4. q.op = "create" => q.entry.status = "published" /\ DraftOf(q, disk, work[r])
  BY <1>1 DEF Progress
<1>5. \/ work'[r] = Save(work[r], q.id, Mutated(q, entry[r], clock)) /\ pc'[r] = "saved"
      \/ UNCHANGED work /\ pc'[r] = "failed"
  BY DEF Store, Inv, TypeOK
<1>6. CASE work'[r] = Save(work[r], q.id, Mutated(q, entry[r], clock)) /\ pc'[r] = "saved"
  <2>1. clock \in 1 .. clock
    BY DEF Inv, TypeOK
  <2>2. ChangeOf(q, work[r], work'[r])
    BY <1>2, <1>6, <2>1 DEF ChangeOf
  <2>3. EffectOf(q, disk, work'[r])
    BY <1>1, <1>3, <1>4, <2>2 DEF EffectOf
  <2>4. EffectOf(req[r], disk, work[r])'
    BY <1>1, <2>3 DEF EffectOf, DraftOf, ChangeOf
  <2> QED  BY <1>1, <1>6, <2>4 DEF Progress
<1>7. CASE UNCHANGED work /\ pc'[r] = "failed"
  <2>1. ResidueOf(req[r], disk, work[r])'
    BY <1>1, <1>3, <1>4, <1>7 DEF ResidueOf, DraftOf
  <2> QED  BY <1>1, <1>7, <2>1 DEF Progress
<1> QED
  BY <1>5, <1>6, <1>7

\* Every step keeps the transactions on their way to an effect.
LEMMA ProgressStep == Inv /\ Inv' /\ InProgress /\ [Next]_vars => InProgress'
<1> SUFFICES ASSUME Inv, Inv', InProgress, [Next]_vars, NEW s \in Requests
             PROVE  Progress(s)'
  BY DEF InProgress
<1>1. Progress(s) /\ clock \in Nat /\ clock' \in Nat
  BY DEF InProgress, Inv, TypeOK
<1>2. ASSUME NEW r \in Requests, r # s, UNCHANGED <<disk, clock>>,
             /\ pc'[s] = pc[s] /\ req'[s] = req[s] /\ work'[s] = work[s]
             /\ entry'[s] = entry[s] /\ reply'[s] = reply[s]
      PROVE  Progress(s)'
  BY <1>1, <1>2, ProgressFrame
<1>3. ASSUME NEW r \in Requests, (\E q \in Inputs : Receive(r, q)) \/ GiveUp(r) \/ Answer(r)
      PROVE  Progress(s)'
  <2>1. UNCHANGED <<disk, clock, work, entry>>
    BY <1>3 DEF Receive, GiveUp, Answer
  <2>2. CASE r = s
    <3>1. pc'[s] \in {"waiting", "replied", "idle"} /\ (pc'[s] # "replied" => reply'[s] = NoReply)
      BY <1>1, <1>3, <2>2 DEF Receive, GiveUp, Answer, Inv, TypeOK, Progress
    <3> QED  BY <3>1 DEF Progress
  <2>3. CASE r # s
    <3>1. pc'[s] = pc[s] /\ req'[s] = req[s] /\ reply'[s] = reply[s]
      BY <1>3, <2>3 DEF Receive, GiveUp, Answer, Inv, TypeOK
    <3> QED  BY <1>2, <2>1, <2>3, <3>1
  <2> QED  BY <2>2, <2>3
<1>4. ASSUME NEW r \in Requests, Begin(r)
      PROVE  Progress(s)'
  <2>1. UNCHANGED <<disk, clock, req, entry, reply>>
    BY <1>4 DEF Begin
  <2>2. CASE r = s
    <3>1. pc'[s] = "open" /\ reply[s] = NoReply
      BY <1>1, <1>4, <2>2 DEF Begin, Inv, TypeOK, Progress
    <3> QED  BY <2>1, <3>1 DEF Progress
  <2>3. CASE r # s
    <3>1. pc'[s] = pc[s] /\ work'[s] = work[s]
      BY <1>4, <2>3 DEF Begin, Inv, TypeOK
    <3> QED  BY <1>2, <2>1, <2>3, <3>1
  <2> QED  BY <2>2, <2>3
<1>5. ASSUME NEW r \in Requests,
             \/ Reject(r) \/ ReadBody(r) \/ StoreFails(r) \/ Read(r)
             \/ CreateDraft(r) \/ Load(r) \/ Store(r)
      PROVE  Progress(s)'
  <2>1. CASE r = s
    BY <1>1, <1>5, <2>1, ProgressMove, ProgressRead, ProgressDraft, ProgressLoad, ProgressStore
  <2>2. CASE r # s
    <3>1. /\ UNCHANGED <<disk, clock, req>> /\ pc'[s] = pc[s] /\ work'[s] = work[s]
          /\ entry'[s] = entry[s] /\ reply'[s] = reply[s]
      BY <1>5, <2>2
         DEF Reject, ReadBody, StoreFails, Read, CreateDraft, Load, Store, Inv, TypeOK
    <3> QED  BY <1>2, <2>2, <3>1
  <2> QED  BY <2>1, <2>2
<1>6. ASSUME NEW r \in Requests, Commit(r) \/ Rollback(r)
      PROVE  Progress(s)'
  <2>1. conn = r /\ conn' = NoRequest
    BY <1>6 DEF Commit, Rollback
  <2>2. pc'[s] \notin InTx /\ (r # s => pc[s] \notin InTx)
    BY <2>1, RequestsAssumption DEF Inv, Holder
  <2>3. CASE r = s
    <3>1. pc'[s] = "replied"
      BY <1>6, <2>3 DEF Commit, Rollback, Inv, TypeOK
    <3> QED  BY <3>1 DEF Progress
  <2>4. CASE r # s
    <3>1. pc'[s] = pc[s] /\ reply'[s] = reply[s]
      BY <1>6, <2>4 DEF Commit, Rollback, Inv, TypeOK
    <3> QED  BY <1>1, <2>2, <2>4, <3>1 DEF Progress, InTx
  <2> QED  BY <2>3, <2>4
<1>7. CASE Crash
  BY <1>7 DEF Crash, Progress
<1>8. CASE Tick \/ UNCHANGED vars
  BY <1>1, <1>8, ProgressFrame DEF Tick, vars
<1> QED
  BY <1>3, <1>4, <1>5, <1>6, <1>7, <1>8 DEF Next, Handle

\* Every open transaction is on its way to an effect, in every state.
LEMMA InProgressHolds == Spec => [](Inv /\ InProgress)
<1>1. Init => InProgress
  BY DEF Init, InProgress, Progress
<1> QED
  BY <1>1, ProgressStep, InvHolds, PTL DEF Spec

-----------------------------------------------------------------------------
\* What is seen of a request from outside.
OuterPc == [r \in Requests |-> IF pc[r] \in InTx THEN "waiting" ELSE pc[r]]
OuterReply == [r \in Requests |-> IF pc[r] \in InTx THEN NoReply ELSE reply[r]]

\* A step of one handler changes what is seen of its request only.
LEMMA OuterStep ==
  ASSUME Inv, NEW r \in Requests,
         \A s \in Requests \ {r} : pc'[s] = pc[s] /\ reply'[s] = reply[s]
  PROVE  /\ OuterPc' = [OuterPc EXCEPT ![r] = OuterPc'[r]]
         /\ OuterReply' = [OuterReply EXCEPT ![r] = OuterReply'[r]]
BY DEF OuterPc, OuterReply

\* A transaction that ends well has an effect, and the answer that goes with it.
LEMMA CommitIsAtomic ==
  ASSUME Inv, InProgress, NEW r \in Requests, Commit(r)
  PROVE  Atomic!Next
<1>1. /\ pc[r] \in InTx /\ disk' = work[r] /\ UNCHANGED <<req, clock, calls>>
      /\ pc'[r] = "replied" /\ "replied" \notin InTx
      /\ \A s \in Requests \ {r} : pc'[s] = pc[s] /\ reply'[s] = reply[s]
      /\ reply'[r] = IF pc[r] = "saved" THEN [ok |-> TRUE, seen |-> reply[r].seen] ELSE NoReply
  BY DEF Commit, MayCommit, Inv, TypeOK, InTx
<1>2. /\ OuterPc' = [OuterPc EXCEPT ![r] = "replied"] /\ OuterPc[r] = "waiting"
      /\ OuterReply' = [OuterReply EXCEPT ![r] = reply'[r]] /\ OuterReply[r] = NoReply
  BY <1>1, OuterStep, ZenonT(40) DEF OuterPc, OuterReply
<1>3. req[r] \in Request /\ Progress(r)
  BY RequestTyped DEF Inv, InProgress
<1>4. CASE pc[r] = "saved"
  <2>1. disk' \in Atomic!Effects(req[r], disk)
    BY <1>1, <1>3, <1>4, EffectIsAtomic DEF Progress
  <2>2. reply'[r] = [ok |-> TRUE, seen |-> IF req[r].op = "read" THEN Atomic!Visible(disk) ELSE {}]
    <3>1. reply'[r] = [ok |-> TRUE, seen |-> reply[r].seen]
      BY <1>1, <1>4
    <3>2. CASE req[r].op = "read"
      <4>1. reply[r].seen = Atomic!Visible(disk)
        BY <1>3, <1>4, <3>2, SameVisible DEF Progress
      <4> QED  BY <3>1, <3>2, <4>1
    <3>3. CASE req[r].op # "read"
      <4>1. reply[r].seen = {}
        BY <1>3, <1>4, <3>3 DEF Progress, NoReply
      <4> QED  BY <3>1, <3>3, <4>1
    <3> QED  BY <3>2, <3>3
  <2>3. Atomic!Succeed(r)
    BY <1>1, <1>2, <2>1, <2>2 DEF Atomic!Succeed, OuterPc, OuterReply
  <2> QED  BY <2>3 DEF Atomic!Next
<1>5. CASE pc[r] # "saved"
  <2>1. pc[r] = "failed" /\ req[r].surface = "rest"
    BY <1>5 DEF Commit, MayCommit
  <2>2. disk' \in Atomic!Residues(req[r], disk)
    BY <1>1, <1>3, <2>1, ResidueIsAtomic DEF Progress
  <2>3. OuterReply' = OuterReply
    BY <1>1, <1>2, <1>5 DEF OuterReply
  <2>4. Atomic!Fail(r)
    BY <1>1, <1>2, <2>2, <2>3 DEF Atomic!Fail, OuterPc, OuterReply
  <2> QED  BY <2>4 DEF Atomic!Next
<1> QED
  BY <1>4, <1>5

\* A request that is given up or rolled back fails and leaves nothing.
LEMMA GivesUpAtomic ==
  ASSUME Inv, InProgress, NEW r \in Requests, GiveUp(r) \/ Rollback(r)
  PROVE  Atomic!Next
<1>1. /\ pc[r] \in InTx \cup {"waiting"} /\ UNCHANGED <<disk, req, clock, calls>>
      /\ pc'[r] = "replied" /\ "replied" \notin InTx /\ reply'[r] = NoReply
      /\ \A s \in Requests \ {r} : pc'[s] = pc[s] /\ reply'[s] = reply[s]
  BY DEF GiveUp, Rollback, Inv, TypeOK, InTx, Holder
<1>2. pc[r] = "waiting" => reply[r] = NoReply
  BY DEF InProgress, Progress
<1>3. /\ OuterPc' = [OuterPc EXCEPT ![r] = "replied"] /\ OuterPc[r] = "waiting"
      /\ OuterReply' = [OuterReply EXCEPT ![r] = NoReply] /\ OuterReply[r] = NoReply
  BY <1>1, <1>2, OuterStep, ZenonT(40) DEF OuterPc, OuterReply
<1>4. OuterReply' = OuterReply
  BY <1>3 DEF OuterReply
<1>5. disk' \in Atomic!Residues(req[r], disk)
  BY <1>1, ResidueIsAtomic DEF ResidueOf
<1>6. Atomic!Fail(r)
  BY <1>1, <1>3, <1>4, <1>5 DEF Atomic!Fail, OuterPc, OuterReply
<1> QED
  BY <1>6 DEF Atomic!Next

\* What a handler does within its transaction does not show.
LEMMA InnerStep ==
  ASSUME Inv, InProgress, NEW r \in Requests,
         \/ Begin(r) \/ Reject(r) \/ ReadBody(r) \/ StoreFails(r) \/ Read(r)
         \/ CreateDraft(r) \/ Load(r) \/ Store(r)
  PROVE  UNCHANGED Atomic!vars
<1>1. UNCHANGED <<disk, req, clock, calls>>
  BY DEF Begin, Reject, ReadBody, StoreFails, Read, CreateDraft, Load, Store
<1>2. /\ pc[r] \in InTx \cup {"waiting"} /\ pc'[r] \in InTx
      /\ \A s \in Requests \ {r} : pc'[s] = pc[s] /\ reply'[s] = reply[s]
  BY DEF Begin, Reject, ReadBody, StoreFails, Read, CreateDraft, Load, Store, AfterDraft,
         Inv, TypeOK, InTx
<1>3. pc[r] = "waiting" => reply[r] = NoReply
  BY DEF InProgress, Progress
<1>4. "waiting" \notin InTx
  BY DEF InTx
<1>5. OuterPc' = OuterPc /\ OuterReply' = OuterReply
  BY <1>2, <1>3, <1>4 DEF OuterPc, OuterReply
<1> QED
  BY <1>1, <1>5 DEF Atomic!vars, OuterPc, OuterReply

\* What happens outside of transactions shows as it is.
LEMMA OtherStepsAreAtomic ==
  ASSUME Inv, InProgress,
         \/ \E r \in Requests : \/ \E q \in Inputs : Receive(r, q)
                                \/ Answer(r)
         \/ Crash \/ Tick
  PROVE  Atomic!Next
<1>1. "idle" \notin InTx /\ "replied" \notin InTx /\ "waiting" \notin InTx
  BY DEF InTx
<1>2. ASSUME NEW r \in Requests, NEW q \in Inputs, Receive(r, q) PROVE Atomic!Next
  <2>1. /\ pc[r] = "idle" /\ calls < MaxCalls /\ calls' = calls + 1
        /\ req' = [req EXCEPT ![r] = q] /\ UNCHANGED <<disk, reply, clock>>
        /\ pc'[r] = "waiting"
        /\ \A s \in Requests \ {r} : pc'[s] = pc[s] /\ reply'[s] = reply[s]
    BY <1>2 DEF Receive, Inv, TypeOK
  <2>2. OuterPc[r] = "idle" /\ OuterPc' = [OuterPc EXCEPT ![r] = "waiting"]
    BY <1>1, <2>1, OuterStep DEF OuterPc
  <2>3. OuterReply' = OuterReply
    BY <1>1, <2>1 DEF OuterReply
  <2>4. Atomic!Receive(r, q)
    BY <2>1, <2>2, <2>3 DEF Atomic!Receive, OuterPc, OuterReply
  <2> QED  BY <2>4 DEF Atomic!Next
<1>3. ASSUME NEW r \in Requests, Answer(r) PROVE Atomic!Next
  <2>1. /\ pc[r] = "replied" /\ pc'[r] = "idle" /\ reply'[r] = NoReply
        /\ req' = [req EXCEPT ![r] = AnyRequest] /\ UNCHANGED <<disk, clock, calls>>
        /\ \A s \in Requests \ {r} : pc'[s] = pc[s] /\ reply'[s] = reply[s]
    BY <1>3 DEF Answer, Inv, TypeOK
  <2>2. /\ OuterPc[r] = "replied" /\ OuterPc' = [OuterPc EXCEPT ![r] = "idle"]
        /\ OuterReply' = [OuterReply EXCEPT ![r] = NoReply]
    BY <1>1, <2>1, OuterStep, ZenonT(40) DEF OuterPc, OuterReply
  <2>3. Atomic!AnyRequest = AnyRequest
    BY DEF AnyRequest, Atomic!AnyRequest
  <2>4. Atomic!Answer(r)
    BY <2>1, <2>2, <2>3 DEF Atomic!Answer, OuterPc, OuterReply
  <2> QED  BY <2>4 DEF Atomic!Next
<1>4. CASE Crash
  <2>1. Atomic!AnyRequest = AnyRequest
    BY DEF AnyRequest, Atomic!AnyRequest
  <2>2. OuterPc' = [r \in Requests |-> "idle"] /\ OuterReply' = [r \in Requests |-> NoReply]
    BY <1>1, <1>4 DEF Crash, OuterPc, OuterReply
  <2>3. Atomic!Crash
    BY <1>4, <2>1, <2>2 DEF Crash, Atomic!Crash, OuterPc, OuterReply
  <2> QED  BY <2>3 DEF Atomic!Next
<1>5. CASE Tick
  <2>1. OuterPc' = OuterPc /\ OuterReply' = OuterReply
    BY <1>5 DEF Tick, OuterPc, OuterReply
  <2>2. Atomic!Tick
    BY <1>5, <2>1 DEF Tick, Atomic!Tick, OuterPc, OuterReply
  <2> QED  BY <2>2 DEF Atomic!Next
<1> QED
  BY <1>2, <1>3, <1>4, <1>5

\* Requests are atomic, for any number of goroutines, entries and requests, whatever
\* fails, crashes or disconnects: the handlers implement AtomicContent.
THEOREM RequestsAreAtomicHolds == Spec => RequestsAreAtomic
<1>1. Init => Atomic!Init
  <2> SUFFICES ASSUME Init PROVE Atomic!Init
    OBVIOUS
  <2>1. Atomic!AnyRequest = AnyRequest
    BY DEF AnyRequest, Atomic!AnyRequest
  <2>2. OuterPc = [r \in Requests |-> "idle"] /\ OuterReply = [r \in Requests |-> NoReply]
    BY DEF Init, OuterPc, OuterReply, InTx
  <2> QED  BY <2>1, <2>2 DEF Init, Atomic!Init, OuterPc, OuterReply
<1>2. Inv /\ InProgress /\ [Next]_vars => [Atomic!Next]_(Atomic!vars)
  <2> SUFFICES ASSUME Inv, InProgress, [Next]_vars
               PROVE  Atomic!Next \/ UNCHANGED Atomic!vars
    OBVIOUS
  <2>1. CASE UNCHANGED vars
    BY <2>1 DEF vars, Atomic!vars
  <2> QED
    BY <2>1, CommitIsAtomic, GivesUpAtomic, InnerStep, OtherStepsAreAtomic DEF Next, Handle
<1> QED
  BY <1>1, <1>2, InProgressHolds, PTL DEF Spec, RequestsAreAtomic, Atomic!Spec
=============================================================================
