------------------------ MODULE AnalyticsExportProofs ------------------------
(* Proofs about product analytics, for any replicas, batches, bounds and    *)
(* size of an export: what is answered 202 is kept, an opt-out deletes      *)
(* every row, and the cursor passes nothing that should have gone.          *)
EXTENDS AnalyticsExport, FiniteSetTheorems, WellFoundedInduction, TLAPS

Handling(r) == req[r].at \in {"looked", "inserted", "singly"}
Drawn == table \union Uncommitted

(* There is one secret, and every pseudonym is keyed by it.                 *)
SecretInv ==
    /\ \A r \in Replicas : cached[r] \in {None, secret}
    /\ \A r \in Replicas : Handling(r) => cached[r] # None
    /\ optedOut \subseteq {secret} \ {None}
    /\ \A row \in Drawn : row.actor = secret

(* What a batch does not insert is stored already, or was and is deleted.   *)
RequestInv ==
    /\ AcceptedIsKept
    /\ \A r \in Replicas :
        /\ Handling(r) => req[r].batch \ req[r].fresh \subseteq EventsOf(table) \union removed
        /\ req[r].at = "inserted" => EventsOf(req[r].rows) = req[r].fresh

(* An id is drawn once, in order.                                           *)
IdInv ==
    /\ \A row \in Drawn : row.id <= lastId
    /\ \A p, q \in Drawn : p.id = q.id => p = q
    /\ cursor <= lastId

(* A row that will be seen behind the cursor is known to have been passed.  *)
CursorInv ==
    /\ CursorPassesSent
    /\ \A row \in Uncommitted : row.id <= cursor => row.id \in overtaken

(* The rows between the cursor and where an export will put it are in the   *)
(* export, or were drawn and not committed when it was composed.            *)
ExportInv ==
    export.at # "idle" =>
        /\ export.rows # {} /\ export.records \subseteq export.rows
        /\ \A row \in export.rows : row.id <= lastId
        /\ \A row \in table : cursor < row.id /\ row.id <= LastId(export.rows) =>
              row \in export.rows \/ row.id \in export.pending
        /\ \A row \in Uncommitted : row.id <= LastId(export.rows) => row.id \in export.pending
        /\ export.at = "passed" =>
              \A row \in export.rows : row.event \in ingested \/ row.id \in skipped

IInv == TypeOK /\ SecretInv /\ RequestInv /\ IdInv /\ CursorInv /\ ExportInv

-----------------------------------------------------------------------------
LEMMA HasLeast ==
    ASSUME NEW S \in SUBSET Nat, S # {}
    PROVE  \E x \in S : \A y \in S : x <= y
<1>1. \E x \in S : \A y \in S : ~ (<<y, x>> \in OpToRel(<, Nat))
  BY WFMin, NatLessThanWellFounded, Zenon
<1>2. \E x \in S : \A y \in S : ~ (y < x)
  BY <1>1, Zenon DEF OpToRel
<1> QED
  BY <1>2

LEMMA HasGreatest ==
    ASSUME NEW n \in Nat, NEW S \in SUBSET (1 .. n), S # {}
    PROVE  \E x \in S : \A y \in S : y <= x
<1> DEFINE T == {n - x : x \in S}
<1>1. T \in SUBSET Nat
  OBVIOUS
<1>2. T # {}
  <2>1. PICK x \in S : TRUE
    OBVIOUS
  <2>2. n - x \in T
    OBVIOUS
  <2> QED
    BY <2>2
<1>3. PICK z \in T : \A t \in T : z <= t
  BY <1>1, <1>2, HasLeast
<1>4. PICK x \in S : z = n - x
  OBVIOUS
<1>5. \A y \in S : z <= n - y
  BY <1>3
<1>6. \A y \in S : y <= x
  BY <1>4, <1>5
<1> QED
  BY <1>6

(* LastId is the greatest id of the rows.                                  *)
LEMMA LastIdIs ==
    ASSUME NEW rows \in SUBSET Row, rows # {}
    PROVE  /\ \E row \in rows : LastId(rows) = row.id
           /\ \A row \in rows : row.id <= LastId(rows)
           /\ LastId(rows) \in Ids
<1>1. IdsOf(rows) \in SUBSET Ids /\ IdsOf(rows) # {}
  BY DEF IdsOf, Row
<1>2. \E id \in IdsOf(rows) : \A other \in IdsOf(rows) : other <= id
  BY <1>1, HasGreatest, AnalyticsAssumption DEF Ids
<1>3. /\ LastId(rows) \in IdsOf(rows)
      /\ \A other \in IdsOf(rows) : other <= LastId(rows)
  BY <1>2 DEF LastId
<1> QED
  BY <1>1, <1>3 DEF IdsOf

LEMMA UncommittedRows ==
    /\ \A row : row \in Uncommitted <=> \E r \in Replicas : row \in req[r].rows
    /\ \A row : row \in Uncommitted' <=> \E r \in Replicas : row \in req'[r].rows
  BY DEF Uncommitted

(* Rows are told apart by their ids: there are finitely many.              *)
LEMMA RowsFinite ==
    ASSUME TypeOK, IdInv, NEW rows \in SUBSET table
    PROVE  IsFiniteSet(rows) /\ Cardinality(rows) \in Nat
<1> DEFINE f == [row \in rows |-> row.id]
<1>1. \A row \in rows : row \in Drawn /\ row.id \in Ids
  BY DEF TypeOK, Drawn, Row
<1>2. f \in Injection(rows, Ids)
  BY <1>1 DEF IdInv, Injection, IsInjective
<1>3. IsFiniteSet(Ids)
  BY FS_Interval, AnalyticsAssumption DEF Ids
<1>4. IsFiniteSet(rows)
  BY <1>2, <1>3, FS_Injection
<1> QED
  BY <1>4, FS_CardinalityType

(* The rows a transaction inserts draw the ids after lastId, each its own. *)
LEMMA FreshCounts ==
    ASSUME NEW es \in SUBSET Events
    PROVE  /\ IsFiniteSet(es) /\ Cardinality(es) \in Nat
           /\ \A e \in es : Cardinality({d \in es : d <= e}) \in 1 .. Cardinality(es)
           /\ \A e, g \in es : e < g =>
                 Cardinality({d \in es : d <= e}) < Cardinality({d \in es : d <= g})
<1>1. \A T \in SUBSET Events : IsFiniteSet(T) /\ Cardinality(T) \in Nat
  <2>1. IsFiniteSet(Events)
    BY FS_Interval, AnalyticsAssumption DEF Events
  <2> QED
    BY <2>1, FS_Subset, FS_CardinalityType
<1>2. \A e \in es : e \in Nat
  BY AnalyticsAssumption DEF Events
<1>3. ASSUME NEW e \in es
      PROVE  Cardinality({d \in es : d <= e}) \in 1 .. Cardinality(es)
  <2> DEFINE T == {d \in es : d <= e}
  <2>1. T \in SUBSET es /\ e \in T /\ T \in SUBSET Events
    BY <1>2
  <2>2. Cardinality(T) <= Cardinality(es) /\ Cardinality(T) \in Nat /\ Cardinality(es) \in Nat
    BY <1>1, <2>1, FS_Subset
  <2>3. Cardinality(T) # 0
    BY <1>1, <2>1, FS_EmptySet
  <2> QED
    BY <2>2, <2>3
<1>4. ASSUME NEW e \in es, NEW g \in es, e < g
      PROVE  Cardinality({d \in es : d <= e}) < Cardinality({d \in es : d <= g})
  <2> DEFINE T == {d \in es : d <= e}
  <2> DEFINE U == {d \in es : d <= g}
  <2>1. T \in SUBSET U /\ g \in U /\ g \notin T /\ U \in SUBSET Events /\ T \in SUBSET Events
    BY <1>2, <1>4
  <2> HIDE DEF T, U
  <2>2. Cardinality(T) <= Cardinality(U) /\ (Cardinality(U) = Cardinality(T) => U = T)
    BY <1>1, <2>1, FS_Subset
  <2>3. Cardinality(T) \in Nat /\ Cardinality(U) \in Nat
    BY <1>1, <2>1
  <2>4. Cardinality(T) < Cardinality(U)
    BY <2>1, <2>2, <2>3
  <2> QED
    BY <2>4 DEF T, U
<1> QED
  BY <1>1, <1>3, <1>4

Request ==
    [at : {"idle", "mint", "looked", "inserted", "singly"},
     batch : SUBSET Events, fresh : SUBSET Events, rows : SUBSET Row]

(* What NewRows gives: one row for each fresh event, with an id of its own *)
(* that was not drawn before.                                              *)
LEMMA NewRowsAre ==
    ASSUME TypeOK, NEW r \in Replicas, cached[r] # None,
           lastId + Cardinality(req[r].fresh) <= MaxIds
    PROVE  /\ NewRows(r) \in SUBSET Row
           /\ EventsOf(NewRows(r)) = req[r].fresh
           /\ \A row \in NewRows(r) :
                /\ lastId < row.id /\ row.id <= lastId + Cardinality(req[r].fresh)
                /\ row.actor = cached[r]
           /\ \A p, q \in NewRows(r) : p.id = q.id => p = q
           /\ lastId + Cardinality(req[r].fresh) \in lastId .. MaxIds
<1> DEFINE es == req[r].fresh
<1> DEFINE N(e) == Cardinality({d \in es : d <= e})
<1> DEFINE Id(e) == lastId + N(e)
<1>1. /\ es \in SUBSET Events /\ cached[r] \in Replicas
      /\ lastId \in Nat /\ MaxIds \in Nat
  BY AnalyticsAssumption DEF TypeOK
<1>2. /\ Cardinality(es) \in Nat
      /\ \A e \in es : N(e) \in 1 .. Cardinality(es)
      /\ \A e, g \in es : e < g => N(e) < N(g)
  BY <1>1, FreshCounts
<1> HIDE DEF N
<1>3. \A e \in es : Id(e) \in Int /\ lastId < Id(e) /\ Id(e) <= lastId + Cardinality(es) /\ Id(e) \in Ids
  BY <1>1, <1>2 DEF Ids
<1>4. \A e, g \in es : Id(e) = Id(g) => e = g
  <2>1. ASSUME NEW e \in es, NEW g \in es, e < g PROVE Id(e) # Id(g)
    BY <1>1, <1>2, <2>1
  <2>2. es \subseteq Nat
    BY <1>1, AnalyticsAssumption DEF Events
  <2> HIDE DEF Id
  <2> QED
    BY <2>1, <2>2
<1>5. NewRows(r) = {NewRow(r, e, Id(e)) : e \in es}
  BY DEF NewRows, N
<1> HIDE DEF Id, es
<1>6. \A e \in es : NewRow(r, e, Id(e)) \in Row
  BY <1>1, <1>3 DEF NewRow, Row
<1>7. NewRows(r) \in SUBSET Row
  BY <1>5, <1>6
<1>8. EventsOf(NewRows(r)) = es
  <2>1. \A e \in es : NewRow(r, e, Id(e)).event = e
    BY DEF NewRow
  <2>2. \A row \in NewRows(r) : row.event \in es
    BY <1>5, <2>1
  <2>3. \A e \in es : \E row \in NewRows(r) : row.event = e
    BY <1>5, <2>1
  <2> QED
    BY <2>2, <2>3 DEF EventsOf
<1>9. \A row \in NewRows(r) :
          /\ lastId < row.id /\ row.id <= lastId + Cardinality(es)
          /\ row.actor = cached[r]
  BY <1>3, <1>5 DEF NewRow
<1>10. \A p, q \in NewRows(r) : p.id = q.id => p = q
  BY <1>4, <1>5 DEF NewRow
<1>11. lastId + Cardinality(es) \in lastId .. MaxIds
  BY <1>1, <1>2 DEF es
<1> QED
  BY <1>7, <1>8, <1>9, <1>10, <1>11 DEF es

(* The row of a single insert.                                             *)
LEMMA NewRowIs ==
    ASSUME TypeOK, NEW r \in Replicas, cached[r] # None, NEW e \in Events, lastId < MaxIds
    PROVE  /\ NewRow(r, e, lastId + 1) \in Row
           /\ lastId + 1 \in 0 .. MaxIds
           /\ NewRow(r, e, lastId + 1).id = lastId + 1
           /\ NewRow(r, e, lastId + 1).event = e
           /\ NewRow(r, e, lastId + 1).actor = cached[r]
  BY AnalyticsAssumption DEF TypeOK, NewRow, Row, Ids

LEMMA InitTyped == Init => TypeOK
  BY AnalyticsAssumption DEF Init, TypeOK, NoRequest, NoExport

(* The API's steps keep the types.                                         *)
LEMMA ApiTyped ==
    ASSUME TypeOK, SecretInv, NEW r \in Replicas,
           \/ ReadSecret(r) \/ Handle(r) \/ StoreFails(r)
           \/ \E batch \in Batches : TakeBatch(r, batch)
    PROVE  TypeOK'
<1>0. /\ secret \in Replicas \union {None}
      /\ cached \in [Replicas -> Replicas \union {None}]
      /\ req \in [Replicas -> Request]
      /\ req[r] \in Request
      /\ NoRequest \in Request
  BY AnalyticsAssumption DEF TypeOK, Request, NoRequest
<1>1. ASSUME req' \in [Replicas -> Request], secret' \in Replicas \union {None},
             cached' \in [Replicas -> Replicas \union {None}],
             table' \subseteq Row, lastId' \in 0 .. MaxIds, accepted' \subseteq Events,
             faults' \in 0 .. MaxFaults,
             UNCHANGED <<optedOut, choices, cursor, export, ingested, removed, overtaken, skipped>>
      PROVE  TypeOK'
  BY <1>1 DEF TypeOK, Request
<1>2. CASE ReadSecret(r)
  <2>1. [req[r] EXCEPT !.at = "mint"] \in Request
    BY <1>0 DEF Request
  <2>2. req' \in [Replicas -> Request]
    BY <1>0, <1>2, <2>1 DEF ReadSecret
  <2> QED
    BY <1>0, <1>1, <1>2, <2>2 DEF ReadSecret, tables, history, TypeOK
<1>3. CASE MintSecret(r)
  BY <1>0, <1>1, <1>3 DEF MintSecret, history, TypeOK
<1>4. ASSUME NEW batch \in Batches, TakeBatch(r, batch) PROVE TypeOK'
  <2>1. batch \in SUBSET Events /\ choices \in 0 .. MaxChoices
    BY AnalyticsAssumption DEF Events, TypeOK
  <2>2. [at |-> "looked", batch |-> batch, rows |-> {},
         fresh |-> batch \ EventsOf(table)] \in Request
    BY <2>1 DEF Request
  <2>3. req' \in [Replicas -> Request]
    BY <1>0, <1>4, <2>2 DEF TakeBatch
  <2> QED
    BY <1>1, <1>4, <2>3 DEF TakeBatch, tables, history, TypeOK
<1>5. CASE InsertFresh(r)
  <2>1. cached[r] # None
    BY <1>5 DEF InsertFresh, SecretInv, Handling
  <2>2. [req[r] EXCEPT !.at = "singly"] \in Request
    BY <1>0 DEF Request
  <2>3. CASE req[r].fresh \intersect EventsOf(table) # {}
    <3>1. req' \in [Replicas -> Request] /\ lastId' = lastId
      BY <1>0, <1>5, <2>2, <2>3 DEF InsertFresh
    <3> QED
      BY <1>1, <1>5, <3>1 DEF InsertFresh, history, TypeOK
  <2>4. CASE ~(req[r].fresh \intersect EventsOf(table) # {})
    <3>1. lastId + Cardinality(req[r].fresh) <= MaxIds
      BY <1>5, <2>4 DEF InsertFresh
    <3>2. NewRows(r) \in SUBSET Row /\ lastId + Cardinality(req[r].fresh) \in lastId .. MaxIds
      BY <2>1, <3>1, NewRowsAre
    <3>3. [req[r] EXCEPT !.at = "inserted", !.rows = NewRows(r)] \in Request
      BY <1>0, <3>2 DEF Request
    <3>4. req' = [req EXCEPT ![r] = [req[r] EXCEPT !.at = "inserted", !.rows = NewRows(r)]]
      BY <1>5, <2>4 DEF InsertFresh
    <3>5. req' \in [Replicas -> Request]
      BY <1>0, <3>3, <3>4
    <3>6. lastId' \in 0 .. MaxIds
      BY <1>5, <2>4, <3>2 DEF InsertFresh, TypeOK
    <3> QED
      BY <1>1, <1>5, <3>5, <3>6 DEF InsertFresh, history, TypeOK
  <2> QED
    BY <2>3, <2>4
<1>6. CASE Commit(r)
  <2>1. req[r].rows \subseteq Row /\ req[r].batch \subseteq Events
    BY <1>0 DEF Request
  <2> QED
    BY <1>0, <1>1, <1>6, <2>1 DEF Commit, Accept, TypeOK
<1>7. CASE InsertSingly(r)
  <2>1. cached[r] # None
    BY <1>7 DEF InsertSingly, SecretInv, Handling
  <2>2. req[r].fresh \subseteq Events /\ req[r].batch \subseteq Events
    BY <1>0 DEF Request
  <2>3. CASE req[r].fresh = {} /\ Accept(r) /\ UNCHANGED <<table, lastId>>
    BY <1>0, <1>1, <1>7, <2>2, <2>3 DEF InsertSingly, Accept, TypeOK
  <2>4. ASSUME NEW e \in req[r].fresh,
               req' = [req EXCEPT ![r].fresh = @ \ {e}],
               \/ UNCHANGED <<table, lastId>>
               \/ /\ lastId < MaxIds
                  /\ table' = table \union {NewRow(r, e, lastId + 1)}
                  /\ lastId' = lastId + 1,
               UNCHANGED accepted
        PROVE  TypeOK'
    <3>1. [req[r] EXCEPT !.fresh = req[r].fresh \ {e}] \in Request
      BY <1>0 DEF Request
    <3>2. req' \in [Replicas -> Request]
      BY <1>0, <2>4, <3>1
    <3>3. table' \subseteq Row /\ lastId' \in 0 .. MaxIds
      BY <2>1, <2>2, <2>4, NewRowIs DEF TypeOK
    <3> QED
      BY <1>1, <1>7, <2>4, <3>2, <3>3 DEF InsertSingly, TypeOK
  <2> QED
    BY <1>7, <2>3, <2>4 DEF InsertSingly
<1>8. CASE StoreFails(r)
  <2>1. faults' \in 0 .. MaxFaults
    BY <1>8, AnalyticsAssumption DEF StoreFails, Fault, TypeOK
  <2> QED
    BY <1>0, <1>1, <1>8, <2>1 DEF StoreFails, tables, history, TypeOK
<1> QED
  BY <1>2, <1>3, <1>4, <1>5, <1>6, <1>7, <1>8 DEF Handle

LEMMA StepTyped ==
    ASSUME TypeOK, SecretInv, ExportInv, [Next]_vars
    PROVE  TypeOK'
<1>0. /\ secret \in Replicas \union {None}
      /\ table \subseteq Row /\ cursor \in 0 .. MaxIds
      /\ export.rows \subseteq Row /\ export.records \subseteq Row
      /\ export.pending \subseteq Ids
      /\ req \in [Replicas -> Request]
      /\ NoExport \in [at : {"idle", "composed", "passed"}, rows : SUBSET Row,
                       records : SUBSET Row, pending : SUBSET Ids]
      /\ \A rows \in SUBSET Row : EventsOf(rows) \subseteq Events /\ IdsOf(rows) \subseteq Ids
  BY AnalyticsAssumption DEF TypeOK, NoExport, Request, EventsOf, IdsOf, Row
<1>1. ASSUME NEW r \in Replicas, NEW out \in BOOLEAN, SetOptOut(r, out) PROVE TypeOK'
  <2>1. cached[r] \in Replicas /\ choices' \in 0 .. MaxChoices
    BY <1>1, AnalyticsAssumption DEF SetOptOut, TypeOK
  <2>2. optedOut' \subseteq Replicas
    BY <1>1, <2>1 DEF SetOptOut, TypeOK
  <2>3. table' \subseteq Row /\ removed' \subseteq Events
    BY <1>0, <1>1 DEF SetOptOut, Delete, TypeOK
  <2> QED
    BY <1>1, <2>1, <2>2, <2>3 DEF SetOptOut, TypeOK
<1>2. CASE Purge
  <2>1. faults' \in 0 .. MaxFaults
    BY <1>2, AnalyticsAssumption DEF Purge, Fault, TypeOK
  <2>2. table' \subseteq Row /\ removed' \subseteq Events
    BY <1>0, <1>2 DEF Purge, Delete, TypeOK
  <2> QED
    BY <1>2, <2>1, <2>2 DEF Purge, TypeOK
<1>3. CASE Compose
  <2>1. \A row \in Uncommitted : row \in Row
    BY <1>0, UncommittedRows DEF Request
  <2>2. Batch \subseteq Row /\ IdsOf(Uncommitted) \subseteq Ids /\ choices \in 0 .. MaxChoices
    BY <1>0, <2>1 DEF Batch, Pending, IdsOf, Row, TypeOK
  <2>3. export' \in [at : {"idle", "composed", "passed"}, rows : SUBSET Row,
                     records : SUBSET Row, pending : SUBSET Ids]
    BY <1>3, <2>2 DEF Compose, Composed
  <2> QED
    BY <1>3, <2>3 DEF Compose, tables, history, TypeOK
<1>4. CASE Post
  <2>1. EventsOf(export.records) \subseteq Events
    BY <1>0
  <2>2. IdsOf(export.rows) \subseteq Ids /\ IdsOf(export.rows \ export.records) \subseteq Ids
    BY <1>0 DEF IdsOf, Row
  <2>3. faults' \in 0 .. MaxFaults
    BY <1>4, AnalyticsAssumption DEF Post, Fault, TypeOK
  <2>4. /\ ingested' \subseteq Events /\ skipped' \subseteq Ids
        /\ export' = NoExport \/ export' = [export EXCEPT !.at = "passed"]
    BY <1>4, <2>1, <2>2 DEF Post, Passed, TypeOK
  <2>5. export' \in [at : {"idle", "composed", "passed"}, rows : SUBSET Row,
                     records : SUBSET Row, pending : SUBSET Ids]
    BY <1>0, <2>4 DEF TypeOK
  <2> QED
    BY <1>4, <2>3, <2>4, <2>5 DEF Post, tables, TypeOK
<1>5. CASE Advance
  <2>1. LastId(export.rows) \in Ids
    BY <1>0, <1>5, LastIdIs DEF Advance, ExportInv
  <2>2. cursor' \in 0 .. MaxIds
    BY <1>5, <2>1, AnalyticsAssumption DEF Advance, Ids
  <2>3. overtaken' \subseteq Ids
    BY <1>0, <1>5 DEF Advance, TypeOK
  <2> QED
    BY <1>0, <1>5, <2>2, <2>3 DEF Advance, TypeOK
<1>6. CASE ExporterDies
  <2>1. faults' \in 0 .. MaxFaults
    BY <1>6, AnalyticsAssumption DEF ExporterDies, Fault, TypeOK
  <2> QED
    BY <1>0, <1>6, <2>1 DEF ExporterDies, tables, history, TypeOK
<1>7. CASE UNCHANGED vars
  BY <1>7 DEF vars, tables, history, TypeOK
<1> QED
  BY <1>1, <1>2, <1>3, <1>4, <1>5, <1>6, <1>7, ApiTyped DEF Next

-----------------------------------------------------------------------------
(* Rows that are committed, deleted or rolled back, and new ones with ids  *)
(* that were not drawn before, disturb neither ids nor cursor nor export.  *)
LEMMA RowsMove ==
    ASSUME IInv, NEW N \in SUBSET Row, lastId' \in Nat, lastId <= lastId',
           \A row \in N : lastId < row.id /\ row.id <= lastId',
           \A p, q \in N : p.id = q.id => p = q,
           \A row \in table' : row \in Drawn \/ row \in N,
           \A row \in Uncommitted' : row \in Uncommitted \/ row \in N,
           UNCHANGED <<cursor, export, ingested, skipped, overtaken>>
    PROVE  IdInv' /\ CursorInv' /\ ExportInv'
<1>1. /\ lastId \in Nat /\ cursor \in Nat /\ cursor <= lastId
      /\ \A row \in N : row.id \in Nat
  BY AnalyticsAssumption DEF IInv, TypeOK, IdInv, Row, Ids
<1>2. \A row \in Drawn : row.id \in Nat /\ row.id <= lastId
  <2>1. \A row \in Drawn : row \in Row
    BY UncommittedRows DEF IInv, TypeOK, Drawn
  <2> QED
    BY <2>1 DEF IInv, IdInv, Row, Ids
<1>3. \A row \in Drawn' : row \in Drawn \/ row \in N
  BY DEF Drawn
<1>4. IdInv'
  <2>1. \A row \in Drawn' : row.id <= lastId'
    BY <1>1, <1>2, <1>3
  <2>2. ASSUME NEW p \in Drawn', NEW q \in Drawn', p.id = q.id PROVE p = q
    <3>1. \A x \in Drawn, y \in N : x.id # y.id
      BY <1>1, <1>2
    <3>2. \A x, y \in Drawn : x.id = y.id => x = y
      BY DEF IInv, IdInv
    <3> QED
      BY <1>3, <2>2, <3>1, <3>2
  <2> QED
    BY <1>1, <2>1, <2>2 DEF IdInv
<1>5. CursorInv'
  <2>1. \A row \in N : ~(row.id <= cursor)
    BY <1>1
  <2>2. \A row \in Drawn : row.id <= cursor =>
            row.event \in ingested \/ row.id \in skipped \/ row.id \in overtaken
    BY DEF IInv, CursorInv, CursorPassesSent, Drawn
  <2>3. \A row \in Uncommitted : row.id <= cursor => row.id \in overtaken
    BY DEF IInv, CursorInv
  <2> QED
    BY <2>1, <2>2, <2>3 DEF CursorInv, CursorPassesSent
<1>6. ExportInv'
  <2> SUFFICES ASSUME export.at # "idle" PROVE ExportInv'
    BY DEF ExportInv
  <2>1. export.rows # {} /\ export.rows \in SUBSET Row /\ \A row \in export.rows : row.id <= lastId
    BY DEF IInv, ExportInv, TypeOK
  <2>2. LastId(export.rows) \in Nat /\ LastId(export.rows) <= lastId
    BY <2>1, LastIdIs DEF Ids
  <2>3. \A row \in N : ~(row.id <= LastId(export.rows))
    BY <1>1, <2>2
  <2>4. LastId(export.rows)' = LastId(export.rows)
    OBVIOUS
  <2>5. \A row \in export.rows : row.id <= lastId'
    <3>1. \A row \in export.rows : row.id \in Nat
      BY <2>1 DEF Row, Ids
    <3> QED
      BY <1>1, <2>1, <3>1
  <2>6. \A row \in table' : cursor < row.id /\ row.id <= LastId(export.rows) =>
            row \in export.rows \/ row.id \in export.pending
    BY <2>3 DEF IInv, ExportInv, Drawn
  <2>7. \A row \in Uncommitted' : row.id <= LastId(export.rows) => row.id \in export.pending
    BY <2>3 DEF IInv, ExportInv
  <2> QED
    BY <2>4, <2>5, <2>6, <2>7 DEF IInv, ExportInv
<1> QED
  BY <1>4, <1>5, <1>6

(* What a step of replica r respects; N are the rows it adds.              *)
Respects(r, N) ==
    /\ \A s \in Replicas \ {r} : req'[s] = req[s] /\ cached'[s] = cached[s]
    /\ cached'[r] \in {cached[r], secret'}
    /\ secret' = secret \/ (secret = None /\ N = {})
    /\ UNCHANGED <<optedOut, choices, cursor, export, ingested, removed, overtaken, skipped>>
    /\ req'[r].at \in {"looked", "inserted", "singly"} =>
           /\ cached'[r] # None
           /\ req'[r].batch \ req'[r].fresh \subseteq EventsOf(table') \union removed
    /\ req'[r].at = "inserted" => EventsOf(req'[r].rows) = req'[r].fresh
    /\ req'[r].rows \subseteq req[r].rows \union N
    /\ table \subseteq table' /\ table' \subseteq table \union req[r].rows \union N
    /\ lastId' \in Nat /\ lastId <= lastId'
    /\ \A row \in N : /\ lastId < row.id /\ row.id <= lastId'
                      /\ row.actor = secret
    /\ \A p, q \in N : p.id = q.id => p = q
    /\ accepted' \subseteq EventsOf(table') \union removed

LEMMA ApiInv ==
    ASSUME IInv, TypeOK', NEW r \in Replicas, NEW N \in SUBSET Row, Respects(r, N)
    PROVE  IInv'
<1> USE DEF Respects
<1>1. \A row \in Uncommitted' : row \in Uncommitted \union N
  BY UncommittedRows
<1>2. \A row \in table' : row \in Drawn \union N
  BY UncommittedRows DEF Drawn
<1>3. \A row \in Drawn' : row \in Drawn \union N
  BY <1>1, <1>2 DEF Drawn
<1>4. IdInv' /\ CursorInv' /\ ExportInv'
  BY <1>1, <1>2, RowsMove
<1>5. SecretInv'
  <2>1. \A row \in Drawn : row \in Row
    BY UncommittedRows DEF IInv, TypeOK, Drawn
  <2>2. secret = None => Drawn = {} /\ optedOut = {} /\ \A s \in Replicas : cached[s] = None
    BY <2>1, AnalyticsAssumption DEF IInv, SecretInv, Row
  <2>3. \A s \in Replicas : cached'[s] \in {None, secret'}
    BY <2>2 DEF IInv, SecretInv
  <2>4. \A s \in Replicas : Handling(s)' => cached'[s] # None
    BY DEF IInv, SecretInv, Handling
  <2>5. optedOut \subseteq {secret'} \ {None}
    BY <2>2 DEF IInv, SecretInv
  <2>6. \A row \in Drawn' : row.actor = secret'
    BY <1>3, <2>2 DEF IInv, SecretInv
  <2> QED
    BY <2>3, <2>4, <2>5, <2>6 DEF SecretInv
<1>6. RequestInv'
  <2>1. EventsOf(table) \subseteq EventsOf(table')
    BY DEF EventsOf
  <2>2. AcceptedIsKept'
    BY <2>1 DEF IInv, RequestInv, AcceptedIsKept
  <2>3. ASSUME NEW s \in Replicas
        PROVE  /\ Handling(s)' => req'[s].batch \ req'[s].fresh \subseteq EventsOf(table') \union removed
               /\ req'[s].at = "inserted" => EventsOf(req'[s].rows) = req'[s].fresh
    BY <2>1 DEF IInv, RequestInv, Handling
  <2> QED
    BY <2>2, <2>3 DEF RequestInv
<1> QED
  BY <1>4, <1>5, <1>6 DEF IInv

LEMMA ReplicaInv ==
    ASSUME IInv, TypeOK', NEW r \in Replicas,
           \/ ReadSecret(r) \/ Handle(r) \/ StoreFails(r)
           \/ \E batch \in Batches : TakeBatch(r, batch)
    PROVE  IInv'
<1>0. /\ req \in [Replicas -> Request] /\ cached \in [Replicas -> Replicas \union {None}]
      /\ lastId \in Nat /\ lastId' \in Nat
      /\ accepted \subseteq EventsOf(table) \union removed
  BY AnalyticsAssumption DEF IInv, TypeOK, Request, RequestInv, AcceptedIsKept
<1>a. Respects(r, {}) => IInv'
  BY ApiInv
<1>1. CASE ReadSecret(r)
  <2>1. /\ \A s \in Replicas \ {r} : req'[s] = req[s] /\ cached'[s] = cached[s]
        /\ req'[r].at \in {"idle", "mint"} /\ req'[r].rows = req[r].rows
        /\ cached'[r] \in {cached[r], secret'}
    BY <1>0, <1>1 DEF ReadSecret, tables, Request
  <2>2. Respects(r, {})
    BY <1>0, <1>1, <2>1 DEF Respects, ReadSecret, tables, history
  <2> QED
    BY <1>a, <2>2
<1>2. CASE MintSecret(r)
  <2>1. /\ \A s \in Replicas \ {r} : req'[s] = req[s] /\ cached'[s] = cached[s]
        /\ req'[r] = NoRequest /\ cached'[r] = secret'
        /\ secret' = secret \/ secret = None
    BY <1>0, <1>2 DEF MintSecret
  <2>2. Respects(r, {})
    BY <1>0, <1>2, <2>1 DEF Respects, MintSecret, history, NoRequest
  <2> QED
    BY <1>a, <2>2
<1>3. ASSUME NEW batch \in Batches, TakeBatch(r, batch) PROVE IInv'
  <2>1. /\ \A s \in Replicas \ {r} : req'[s] = req[s]
        /\ req'[r] = [at |-> "looked", batch |-> batch, rows |-> {},
                      fresh |-> batch \ EventsOf(table)]
        /\ cached' = cached
    BY <1>0, <1>3 DEF TakeBatch
  <2>2. cached'[r] # None
    BY <1>3, <2>1 DEF TakeBatch
  <2>3. Respects(r, {})
    BY <1>0, <1>3, <2>1, <2>2 DEF Respects, TakeBatch, tables, history
  <2> QED
    BY <1>a, <2>3
<1>4. CASE InsertFresh(r)
  <2>1. /\ req[r].at = "looked" /\ cached[r] # None /\ cached[r] = secret
        /\ req[r].batch \ req[r].fresh \subseteq EventsOf(table) \union removed
        /\ UNCHANGED <<secret, table, optedOut, cursor, cached, choices, export, ingested,
                       accepted, removed, overtaken, skipped>>
    BY <1>4 DEF InsertFresh, history, IInv, SecretInv, RequestInv, Handling
  <2>2. CASE req[r].fresh \intersect EventsOf(table) # {}
    <3>1. req' = [req EXCEPT ![r].at = "singly"] /\ lastId' = lastId
      BY <1>4, <2>2 DEF InsertFresh
    <3>2. /\ \A s \in Replicas \ {r} : req'[s] = req[s]
          /\ req'[r].at = "singly" /\ req'[r].batch = req[r].batch /\ req'[r].fresh = req[r].fresh
          /\ req'[r].rows = req[r].rows
      BY <1>0, <3>1 DEF Request
    <3>3. Respects(r, {})
      BY <1>0, <2>1, <3>1, <3>2 DEF Respects
    <3> QED
      BY <1>a, <3>3
  <2>3. CASE ~(req[r].fresh \intersect EventsOf(table) # {})
    <3>1. /\ lastId + Cardinality(req[r].fresh) <= MaxIds
          /\ req' = [req EXCEPT ![r].at = "inserted", ![r].rows = NewRows(r)]
          /\ lastId' = lastId + Cardinality(req[r].fresh)
      BY <1>4, <2>3 DEF InsertFresh
    <3>2. /\ \A s \in Replicas \ {r} : req'[s] = req[s]
          /\ req'[r].at = "inserted" /\ req'[r].batch = req[r].batch /\ req'[r].fresh = req[r].fresh
          /\ req'[r].rows = NewRows(r)
      BY <1>0, <3>1 DEF Request
    <3>3. /\ NewRows(r) \in SUBSET Row
          /\ EventsOf(NewRows(r)) = req[r].fresh
          /\ \A row \in NewRows(r) :
               /\ lastId < row.id /\ row.id <= lastId'
               /\ row.actor = secret
          /\ \A p, q \in NewRows(r) : p.id = q.id => p = q
          /\ lastId <= lastId'
      BY <1>0, <2>1, <3>1, NewRowsAre DEF IInv
    <3>4. Respects(r, NewRows(r))
      BY <1>0, <2>1, <3>2, <3>3 DEF Respects
    <3> QED
      BY <3>3, <3>4, ApiInv
  <2> QED
    BY <2>2, <2>3
<1>5. CASE Commit(r)
  <2>1. /\ req[r].batch \ req[r].fresh \subseteq EventsOf(table) \union removed
        /\ EventsOf(req[r].rows) = req[r].fresh /\ table' = table \union req[r].rows
        /\ accepted' = accepted \union req[r].batch
    BY <1>5 DEF Commit, Accept, IInv, RequestInv, Handling
  <2>2. accepted' \subseteq EventsOf(table') \union removed
    <3>1. EventsOf(table') = EventsOf(table) \union EventsOf(req[r].rows)
      BY <2>1 DEF EventsOf
    <3> QED
      BY <1>0, <2>1, <3>1
  <2>3. (\A s \in Replicas \ {r} : req'[s] = req[s]) /\ req'[r].at = "idle" /\ req'[r].rows = {}
    BY <1>0, <1>5 DEF Commit, Accept, NoRequest
  <2>4. Respects(r, {})
    BY <1>0, <1>5, <2>1, <2>2, <2>3 DEF Respects, Commit
  <2> QED
    BY <1>a, <2>4
<1>6. CASE InsertSingly(r)
  <2>1. /\ req[r].at = "singly" /\ cached[r] # None /\ cached[r] = secret
        /\ req[r].batch \ req[r].fresh \subseteq EventsOf(table) \union removed
        /\ UNCHANGED <<secret, optedOut, cursor, cached, choices, export, ingested,
                       removed, overtaken, skipped>>
    BY <1>6 DEF InsertSingly, IInv, SecretInv, RequestInv, Handling
  <2>2. CASE req[r].fresh = {} /\ Accept(r) /\ UNCHANGED <<table, lastId>>
    <3>1. (\A s \in Replicas \ {r} : req'[s] = req[s]) /\ req'[r].at = "idle" /\ req'[r].rows = {}
      BY <1>0, <2>2 DEF Accept, NoRequest
    <3>2. accepted' \subseteq EventsOf(table') \union removed
      BY <1>0, <2>1, <2>2 DEF Accept
    <3>3. Respects(r, {})
      BY <1>0, <2>1, <2>2, <3>1, <3>2 DEF Respects
    <3> QED
      BY <1>a, <3>3
  <2>3. ASSUME NEW e \in req[r].fresh, req' = [req EXCEPT ![r].fresh = @ \ {e}]
        PROVE  /\ \A s \in Replicas \ {r} : req'[s] = req[s]
               /\ req'[r].at = "singly" /\ req'[r].batch = req[r].batch
               /\ req'[r].fresh = req[r].fresh \ {e}
               /\ req'[r].rows = req[r].rows
    BY <1>0, <2>1, <2>3 DEF Request
  <2>4. ASSUME NEW e \in req[r].fresh, req' = [req EXCEPT ![r].fresh = @ \ {e}],
               e \in EventsOf(table), UNCHANGED <<table, lastId, accepted>>
        PROVE  IInv'
    <3>1. req'[r].batch \ req'[r].fresh \subseteq EventsOf(table) \union removed
      BY <2>1, <2>3, <2>4
    <3>2. Respects(r, {})
      BY <1>0, <2>1, <2>3, <2>4, <3>1 DEF Respects
    <3> QED
      BY <1>a, <3>2
  <2>5. ASSUME NEW e \in req[r].fresh, req' = [req EXCEPT ![r].fresh = @ \ {e}],
               lastId < MaxIds, table' = table \union {NewRow(r, e, lastId + 1)},
               lastId' = lastId + 1, UNCHANGED accepted
        PROVE  IInv'
    <3> DEFINE new == NewRow(r, e, lastId + 1)
    <3>1. e \in Events
      BY <1>0 DEF Request
    <3>2. /\ new \in Row /\ new.id = lastId + 1 /\ new.event = e
          /\ new.actor = secret
      BY <2>1, <2>5, <3>1, NewRowIs DEF IInv
    <3>3. table' = table \union {new}
      BY <2>5
    <3> HIDE DEF new
    <3>4. EventsOf(table') = EventsOf(table) \union {e}
      BY <3>2, <3>3 DEF EventsOf
    <3>5. req'[r].batch \ req'[r].fresh \subseteq EventsOf(table') \union removed
      BY <2>1, <2>3, <2>5, <3>4
    <3>6. accepted' \subseteq EventsOf(table') \union removed
      BY <1>0, <2>5, <3>4
    <3>7. /\ lastId' = lastId + 1 /\ lastId < new.id /\ new.id <= lastId'
      BY <1>0, <2>1, <2>3, <2>5, <3>2
    <3>8. Respects(r, {new})
      <4>1. /\ table \subseteq table' /\ table' \subseteq table \union req[r].rows \union {new}
            /\ req'[r].rows \subseteq req[r].rows \union {new}
        BY <2>3, <2>5, <3>3
      <4>2. /\ \A row \in {new} : /\ lastId < row.id /\ row.id <= lastId'
                                  /\ row.actor = secret
            /\ \A p, q \in {new} : p.id = q.id => p = q
            /\ lastId <= lastId'
        BY <1>0, <3>2, <3>7
      <4>3. \A s \in Replicas \ {r} : req'[s] = req[s] /\ cached'[s] = cached[s]
        BY <2>1, <2>3, <2>5
      <4>4. req'[r].at = "singly" /\ cached'[r] # None /\ cached'[r] = cached[r]
        BY <2>1, <2>3, <2>5
      <4> QED
        BY <1>0, <2>1, <3>5, <3>6, <3>7, <4>1, <4>2, <4>3, <4>4 DEF Respects
    <3> QED
      BY <3>2, <3>8, ApiInv
  <2> QED
    BY <1>6, <2>2, <2>4, <2>5 DEF InsertSingly
<1>7. CASE StoreFails(r)
  <2>1. (\A s \in Replicas \ {r} : req'[s] = req[s]) /\ req'[r].at = "idle" /\ req'[r].rows = {}
    BY <1>0, <1>7 DEF StoreFails, NoRequest
  <2>2. Respects(r, {})
    BY <1>0, <1>7, <2>1 DEF Respects, StoreFails, tables, history
  <2> QED
    BY <1>a, <2>2
<1> QED
  BY <1>1, <1>2, <1>3, <1>4, <1>5, <1>6, <1>7 DEF Handle

-----------------------------------------------------------------------------
LEMMA DeleteKeeps ==
    ASSUME NEW rows \in SUBSET table, Delete(rows)
    PROVE  /\ EventsOf(table) \union removed = EventsOf(table') \union removed'
           /\ table' \subseteq table
  BY DEF Delete, EventsOf

(* The steps that delete rows: what was accepted is removed then.          *)
LEMMA DeletionInv ==
    ASSUME IInv, TypeOK', UNCHANGED <<secret, cached, req, lastId, cursor, export, ingested,
                                      accepted, overtaken, skipped>>,
           EventsOf(table) \union removed = EventsOf(table') \union removed',
           table' \subseteq table
    PROVE  RequestInv' /\ IdInv' /\ CursorInv' /\ ExportInv'
<1>1. Uncommitted' = Uncommitted /\ lastId \in Nat
  BY AnalyticsAssumption DEF Uncommitted, IInv, TypeOK
<1>2. IdInv' /\ CursorInv' /\ ExportInv'
  <2> DEFINE N == {}
  <2>1. /\ N \in SUBSET Row
        /\ \A row \in N : lastId < row.id /\ row.id <= lastId'
        /\ \A p, q \in N : p.id = q.id => p = q
        /\ \A row \in table' : row \in Drawn \/ row \in N
        /\ \A row \in Uncommitted' : row \in Uncommitted \/ row \in N
        /\ lastId' \in Nat /\ lastId <= lastId'
    BY <1>1 DEF Drawn
  <2> HIDE DEF N
  <2> QED
    BY <2>1, RowsMove
<1>3. RequestInv'
  BY DEF IInv, RequestInv, AcceptedIsKept, Handling
<1> QED
  BY <1>2, <1>3

LEMMA SetOptOutInv ==
    ASSUME IInv, TypeOK', NEW r \in Replicas, NEW out \in BOOLEAN, SetOptOut(r, out)
    PROVE  IInv'
<1>1. /\ cached[r] = secret /\ secret # None
      /\ choices \in Nat /\ choices' = choices + 1
      /\ UNCHANGED <<secret, lastId, cursor, cached, req, export, ingested, accepted,
                     overtaken, skipped>>
  BY AnalyticsAssumption DEF SetOptOut, IInv, SecretInv, TypeOK
<1>2. /\ EventsOf(table) \union removed = EventsOf(table') \union removed'
      /\ table' \subseteq table
  <2>1. CASE out
    BY <2>1, DeleteKeeps DEF SetOptOut
  <2>2. CASE ~out
    BY <2>2 DEF SetOptOut
  <2> QED
    BY <2>1, <2>2
<1>3. Drawn' \subseteq Drawn
  BY <1>1, <1>2 DEF Drawn, Uncommitted
<1>4. RequestInv' /\ IdInv' /\ CursorInv' /\ ExportInv'
  BY <1>1, <1>2, DeletionInv
<1>5. SecretInv'
  <2>1. optedOut' \subseteq {secret} \ {None}
    BY <1>1 DEF SetOptOut, IInv, SecretInv
  <2> QED
    BY <1>1, <1>3, <2>1 DEF IInv, SecretInv, Handling
<1> QED
  BY <1>4, <1>5 DEF IInv

LEMMA PurgeInv == ASSUME IInv, TypeOK', Purge PROVE IInv'
<1>1. UNCHANGED <<secret, lastId, optedOut, cursor, cached, req, choices, export, ingested,
                  accepted, overtaken, skipped>>
  BY DEF Purge
<1>2. /\ EventsOf(table) \union removed = EventsOf(table') \union removed'
      /\ table' \subseteq table
  BY DeleteKeeps DEF Purge
<1>3. Drawn' \subseteq Drawn
  BY <1>1, <1>2 DEF Drawn, Uncommitted
<1>4. RequestInv' /\ IdInv' /\ CursorInv' /\ ExportInv'
  BY <1>1, <1>2, DeletionInv
<1>5. SecretInv'
  BY <1>1, <1>3 DEF IInv, SecretInv, Handling
<1> QED
  BY <1>4, <1>5 DEF IInv

-----------------------------------------------------------------------------
(* With a row pending the batch has one: the least id is within the limit. *)
LEMMA BatchHasRow ==
    ASSUME TypeOK, IdInv, Pending # {}
    PROVE  Batch # {}
<1>1. Pending \in SUBSET table /\ \A row \in Pending : row \in Drawn /\ row.id \in Nat
  BY DEF Pending, TypeOK, Drawn, Row, Ids
<1>2. IdsOf(Pending) \in SUBSET Nat /\ IdsOf(Pending) # {}
  BY <1>1 DEF IdsOf
<1>3. PICK first \in Pending : \A p \in Pending : first.id <= p.id
  <2>1. PICK id \in IdsOf(Pending) : \A other \in IdsOf(Pending) : id <= other
    BY <1>2, HasLeast
  <2> QED
    BY <2>1 DEF IdsOf
<1>4. \A p \in Pending : p.id <= first.id => p = first
  <2>1. \A p \in Pending : p.id <= first.id => p.id = first.id
    BY <1>1, <1>3
  <2> QED
    BY <1>1, <2>1 DEF IdInv
<1>5. {p \in Pending : p.id <= first.id} = {first}
  BY <1>1, <1>4
<1>6. Cardinality({p \in Pending : p.id <= first.id}) = 1
  BY <1>5, FS_Singleton
<1> QED
  BY <1>6, AnalyticsAssumption DEF Batch

(* With a row the batch has every pending row with a lower id.             *)
LEMMA BatchHasLower ==
    ASSUME TypeOK, IdInv, NEW row \in Pending, NEW last \in Batch, row.id <= last.id
    PROVE  row \in Batch
<1>1. Pending \in SUBSET table /\ \A p \in Pending : p.id \in Nat
  BY DEF Pending, TypeOK, Row, Ids
<1> DEFINE Low(r) == {p \in Pending : p.id <= r.id}
<1>2. last \in Pending /\ Cardinality(Low(last)) <= Limit
  BY DEF Batch
<1>3. Low(last) \in SUBSET table /\ Low(row) \in SUBSET table /\ Low(row) \in SUBSET Low(last)
  BY <1>1, <1>2
<1> HIDE DEF Low
<1>4. Cardinality(Low(row)) <= Cardinality(Low(last))
  BY <1>3, RowsFinite, FS_Subset
<1>5. Cardinality(Low(row)) \in Nat /\ Cardinality(Low(last)) \in Nat
  BY <1>3, RowsFinite
<1>6. Cardinality(Low(row)) <= Limit
  BY <1>2, <1>4, <1>5, AnalyticsAssumption
<1> QED
  BY <1>6 DEF Batch, Low

(* What the exporter's steps leave alone.                                  *)
LEMMA ExporterKeeps ==
    ASSUME IInv, UNCHANGED <<secret, table, lastId, optedOut, cached, req, choices, accepted,
                             removed>>
    PROVE  SecretInv' /\ RequestInv' /\ Drawn' = Drawn /\ Uncommitted' = Uncommitted
<1>1. Drawn' = Drawn /\ Uncommitted' = Uncommitted
  BY DEF Drawn, Uncommitted
<1>2. SecretInv'
  BY <1>1 DEF IInv, SecretInv, Handling
<1>3. RequestInv'
  BY DEF IInv, RequestInv, AcceptedIsKept, Handling
<1> QED
  BY <1>1, <1>2, <1>3

LEMMA ComposeInv == ASSUME IInv, TypeOK', Compose PROVE IInv'
<1> DEFINE records == {row \in Batch : row.actor \notin optedOut}
<1>1. /\ UNCHANGED <<secret, table, lastId, optedOut, cursor, cached, req, choices, ingested,
                     accepted, removed, overtaken, skipped>>
      /\ export' = [at |-> "composed", rows |-> Batch, records |-> records,
                    pending |-> IdsOf(Uncommitted)]
      /\ Pending # {}
  BY DEF Compose, Composed, tables, history
<1>2. /\ export'.at = "composed" /\ export'.rows = Batch /\ export'.records = records
      /\ export'.pending = IdsOf(Uncommitted)
  BY <1>1
<1>3. SecretInv' /\ RequestInv' /\ Drawn' = Drawn /\ Uncommitted' = Uncommitted
  BY <1>1, ExporterKeeps
<1>4. IdInv' /\ CursorInv'
  BY <1>1, <1>3 DEF IInv, IdInv, CursorInv, CursorPassesSent
<1>5. ExportInv'
  <2>1. Batch # {} /\ Batch \subseteq table /\ Batch \in SUBSET Row
    BY <1>1, BatchHasRow DEF IInv, Batch, Pending, TypeOK
  <2>2. \A row \in Batch : row.id <= lastId
    BY <2>1 DEF IInv, IdInv, Drawn
  <2>3. \A row \in table : cursor < row.id /\ row.id <= LastId(Batch) => row \in Batch
    <3>1. PICK last \in Batch : LastId(Batch) = last.id
      BY <2>1, LastIdIs
    <3>2. \A row \in table : row.id \in Nat /\ cursor \in Nat
      BY AnalyticsAssumption DEF IInv, TypeOK, Row, Ids
    <3>3. \A row \in table : cursor < row.id => row \in Pending
      BY <3>2 DEF Pending
    <3> QED
      BY <3>1, <3>3, BatchHasLower DEF IInv
  <2>4. \A row \in Uncommitted : row.id \in IdsOf(Uncommitted)
    BY DEF IdsOf
  <2>5. LastId(export.rows)' = LastId(Batch)
    BY <1>2
  <2> QED
    BY <1>1, <1>2, <1>3, <2>1, <2>2, <2>3, <2>4, <2>5 DEF ExportInv
<1> QED
  BY <1>3, <1>4, <1>5 DEF IInv

LEMMA PostInv == ASSUME IInv, TypeOK', Post PROVE IInv'
<1>1. /\ UNCHANGED <<secret, table, lastId, optedOut, cursor, cached, req, choices,
                     accepted, removed, overtaken>>
      /\ ingested \subseteq ingested' /\ skipped \subseteq skipped'
      /\ export.at = "composed"
  BY DEF Post, Passed, tables
<1>2. \/ export' = NoExport
      \/ /\ export' = [export EXCEPT !.at = "passed"]
         /\ \A row \in export.rows : row.event \in ingested' \/ row.id \in skipped'
  BY DEF Post, Passed, EventsOf, IdsOf
<1>3. SecretInv' /\ RequestInv' /\ Drawn' = Drawn /\ Uncommitted' = Uncommitted
  BY <1>1, ExporterKeeps
<1>4. IdInv' /\ CursorInv'
  BY <1>1, <1>3 DEF IInv, IdInv, CursorInv, CursorPassesSent
<1>5. ExportInv'
  <2>1. CASE export' = NoExport
    BY <2>1 DEF ExportInv, NoExport
  <2>2. CASE /\ export' = [export EXCEPT !.at = "passed"]
             /\ \A row \in export.rows : row.event \in ingested' \/ row.id \in skipped'
    <3>1. /\ export'.rows = export.rows /\ export'.records = export.records
          /\ export'.pending = export.pending
      BY <2>2 DEF IInv, TypeOK
    <3>2. LastId(export.rows)' = LastId(export.rows)
      BY <3>1
    <3> QED
      BY <1>1, <1>3, <2>2, <3>1, <3>2 DEF IInv, ExportInv
  <2> QED
    BY <1>2, <2>1, <2>2
<1> QED
  BY <1>3, <1>4, <1>5 DEF IInv

LEMMA AdvanceInv == ASSUME IInv, TypeOK', Advance PROVE IInv'
<1>1. /\ UNCHANGED <<secret, table, lastId, optedOut, cached, req, choices, ingested, accepted,
                     removed, skipped>>
      /\ export.at = "passed" /\ export' = NoExport
      /\ cursor' = LastId(export.rows)
      /\ overtaken' = overtaken \union {id \in export.pending : id <= cursor'}
  BY DEF Advance
<1>2. SecretInv' /\ RequestInv' /\ Drawn' = Drawn /\ Uncommitted' = Uncommitted
  BY <1>1, ExporterKeeps
<1>3. export'.at = "idle"
  BY <1>1 DEF NoExport
<1>4. ExportInv'
  BY <1>3 DEF ExportInv
<1>5. IdInv'
  <2>1. export.rows \in SUBSET Row /\ export.rows # {} /\ \A row \in export.rows : row.id <= lastId
    BY <1>1 DEF IInv, ExportInv, TypeOK
  <2>2. cursor' <= lastId
    BY <1>1, <2>1, LastIdIs
  <2> QED
    BY <1>1, <1>2, <2>2 DEF IInv, IdInv
<1>6. CursorInv'
  <2>1. ASSUME NEW row \in table, row.id <= cursor'
        PROVE  row.event \in ingested \/ row.id \in skipped \/ row.id \in overtaken'
    <3>1. row.id \in Nat /\ cursor \in Nat
      BY AnalyticsAssumption DEF IInv, TypeOK, Row, Ids
    <3>2. CASE row.id <= cursor
      BY <1>1, <3>2 DEF IInv, CursorInv, CursorPassesSent
    <3>3. CASE cursor < row.id
      <4>1. row \in export.rows \/ row.id \in export.pending
        BY <1>1, <2>1, <3>3 DEF IInv, ExportInv
      <4> QED
        BY <1>1, <2>1, <4>1 DEF IInv, ExportInv
    <3> QED
      BY <3>1, <3>2, <3>3
  <2>2. \A row \in Uncommitted : row.id <= cursor' => row.id \in overtaken'
    BY <1>1 DEF IInv, ExportInv
  <2> QED
    BY <1>1, <1>2, <2>1, <2>2 DEF CursorInv, CursorPassesSent
<1> QED
  BY <1>2, <1>4, <1>5, <1>6 DEF IInv

LEMMA ExporterRests ==
    ASSUME IInv, TypeOK',
           \/ ExporterDies
           \/ UNCHANGED vars
    PROVE  IInv'
<1>1. /\ UNCHANGED <<secret, table, lastId, optedOut, cursor, cached, req, choices, ingested,
                     accepted, removed, overtaken, skipped>>
      /\ export' \in {NoExport, export}
  BY DEF ExporterDies, vars, tables, history
<1>2. SecretInv' /\ RequestInv' /\ Drawn' = Drawn /\ Uncommitted' = Uncommitted
  BY <1>1, ExporterKeeps
<1>3. IdInv' /\ CursorInv'
  BY <1>1, <1>2 DEF IInv, IdInv, CursorInv, CursorPassesSent
<1>4. ExportInv'
  <2>1. CASE export' = NoExport
    BY <2>1 DEF ExportInv, NoExport
  <2>2. CASE export' = export
    <3>1. LastId(export.rows)' = LastId(export.rows)
      BY <2>2
    <3> QED
      BY <1>1, <1>2, <2>2, <3>1 DEF IInv, ExportInv
  <2> QED
    BY <1>1, <2>1, <2>2
<1> QED
  BY <1>2, <1>3, <1>4 DEF IInv

LEMMA InitInv == Init => IInv
<1> SUFFICES ASSUME Init PROVE IInv
  OBVIOUS
<1>1. TypeOK
  BY InitTyped
<1>2. Uncommitted = {} /\ table = {} /\ Drawn = {}
  BY UncommittedRows DEF Init, NoRequest, Drawn
<1>3. SecretInv /\ RequestInv
  BY <1>2 DEF Init, SecretInv, RequestInv, Handling, AcceptedIsKept, NoRequest, NoExport
<1>4. IdInv /\ CursorInv /\ ExportInv
  BY <1>2 DEF Init, IdInv, CursorInv, ExportInv, CursorPassesSent, NoExport
<1> QED
  BY <1>1, <1>3, <1>4 DEF IInv

(* IInv holds throughout every run of replicas, exporter and ingest.       *)
THEOREM AnalyticsInvariant == Spec => []IInv
<1>1. IInv /\ [Next]_vars => IInv'
  <2> SUFFICES ASSUME IInv, [Next]_vars PROVE IInv'
    OBVIOUS
  <2>1. TypeOK'
    BY StepTyped DEF IInv
  <2> QED
    BY <2>1, ReplicaInv, SetOptOutInv, PurgeInv, ComposeInv, PostInv, AdvanceInv, ExporterRests
    DEF Next
<1> QED
  BY <1>1, InitInv, PTL DEF Spec

(* An event answered 202 is stored until an opt-out or a purge deletes it: *)
(* what a batch does not insert is there, or was.                          *)
THEOREM AcceptedKept == Spec => []AcceptedIsKept
<1>1. IInv => AcceptedIsKept
  BY DEF IInv, RequestInv
<1> QED
  BY <1>1, AnalyticsInvariant, PTL

(* The cursor passes no row that was neither sent nor left out nor         *)
(* rejected nor overtaken by the rows drawn after it.                      *)
THEOREM CursorNeverSkips == Spec => []CursorPassesSent
<1>1. IInv => CursorPassesSent
  BY DEF IInv, CursorInv
<1> QED
  BY <1>1, AnalyticsInvariant, PTL

(* An opt-out leaves no row in the table: there is one secret, so every    *)
(* row is of the pseudonym that is deleted.                                *)
THEOREM OptOutDeletesAll == Spec => OptOutDeletes
<1>1. IInv /\ [Next]_vars => [choices' # choices /\ optedOut' # {} => table' = {}]_vars
  <2> SUFFICES ASSUME IInv, [Next]_vars, choices' # choices, optedOut' # {} PROVE table' = {}
    OBVIOUS
  <2>1. PICK r \in Replicas, out \in BOOLEAN : SetOptOut(r, out)
    BY DEF Next, vars, ReadSecret, Handle, MintSecret, InsertFresh, Commit, InsertSingly, StoreFails, TakeBatch, Purge, Compose, Post, Advance, ExporterDies
  <2>2. cached[r] = secret /\ \A row \in table : row.actor = secret
    BY <2>1 DEF SetOptOut, IInv, SecretInv, Drawn
  <2>3. CASE out
    BY <2>1, <2>2, <2>3 DEF SetOptOut, Delete
  <2>4. CASE ~out
    <3>1. optedOut \subseteq {secret} /\ optedOut' = optedOut \ {secret}
      BY <2>1, <2>2, <2>4 DEF SetOptOut, IInv, SecretInv
    <3> QED
      BY <3>1
  <2> QED
    BY <2>3, <2>4
<1> QED
  BY <1>1, AnalyticsInvariant, PTL DEF Spec, OptOutDeletes
=============================================================================
