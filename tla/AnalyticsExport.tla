--------------------------- MODULE AnalyticsExport ---------------------------
(***************************************************************************)
(* Product analytics of one analyst: the replicas that take the browser's  *)
(* batches (app/analytics/collector.py), the three tables they share       *)
(* (app/analytics/store.py), the exporter behind its cursor                *)
(* (app/analytics/export.py) and the ingest that keeps each event once     *)
(* (telemetry_service). The tables are Postgres: an id is drawn when a row *)
(* is inserted, and the row is seen when its transaction commits.          *)
(***************************************************************************)
EXTENDS Integers, FiniteSets

CONSTANTS
    Replicas,       \* of the API; each has one request in hand
    NumEvents,      \* the events are 1 .. NumEvents
    Batches,        \* the sets of events the browser sends together
    Limit,          \* rows in one export
    MaxIds,         \* bound: ids drawn
    MaxChoices,     \* bound: calls of PUT /opt-out
    MaxFaults,      \* bound: calls that fail, exporters that die, purges
    None

ASSUME AnalyticsAssumption ==
    /\ NumEvents \in Nat /\ Batches \subseteq (SUBSET (1 .. NumEvents)) \ {{}}
    /\ Limit \in Nat \ {0} /\ MaxIds \in Nat
    /\ MaxChoices \in Nat /\ MaxFaults \in Nat
    /\ None \notin Replicas

VARIABLES
    secret,     \* analytics_meta id_secret: the replica that minted it
    cached,     \* the secret each replica holds
    req,        \* the batch each replica has in hand
    table,      \* analytics_events
    lastId,
    optedOut,   \* analytics_optout: pseudonyms, each the secret it is keyed by
    choices,    \* calls of PUT /opt-out so far
    cursor,     \* analytics_meta export_cursor
    export,     \* where export_pending stands
    ingested,   \* the ingest's events
    accepted,   \* history: events answered 202
    removed,    \* history: events deleted by an opt-out or a purge
    overtaken,  \* history: ids uncommitted when the cursor passed them
    skipped,    \* history: ids the cursor passed unsent: opted out or rejected
    faults

tables == <<secret, table, lastId, optedOut, cursor>>
history == <<accepted, removed, overtaken, skipped>>
vars == <<tables, cached, req, choices, export, ingested, history, faults>>

Events == 1 .. NumEvents
Ids == 1 .. MaxIds
Row == [id : Ids, event : Events, actor : Replicas]
EventsOf(rows) == {row.event : row \in rows}
IdsOf(rows) == {row.id : row \in rows}
Uncommitted == UNION {req[r].rows : r \in Replicas}

NoRequest == [at |-> "idle", batch |-> {}, fresh |-> {}, rows |-> {}]
NoExport == [at |-> "idle", rows |-> {}, records |-> {}, pending |-> {}]

TypeOK ==
    /\ secret \in Replicas \union {None}
    /\ cached \in [Replicas -> Replicas \union {None}]
    /\ req \in [Replicas ->
          [at : {"idle", "mint", "looked", "inserted", "singly"},
           batch : SUBSET Events, fresh : SUBSET Events, rows : SUBSET Row]]
    /\ table \subseteq Row
    /\ lastId \in 0 .. MaxIds
    /\ optedOut \subseteq Replicas
    /\ choices \in 0 .. MaxChoices
    /\ cursor \in 0 .. MaxIds
    /\ export \in [at : {"idle", "composed", "passed"}, rows : SUBSET Row,
                   records : SUBSET Row, pending : SUBSET Ids]
    /\ ingested \subseteq Events
    /\ accepted \subseteq Events /\ removed \subseteq Events
    /\ overtaken \subseteq Ids /\ skipped \subseteq Ids
    /\ faults \in 0 .. MaxFaults

Init ==
    /\ secret = None
    /\ cached = [r \in Replicas |-> None]
    /\ req = [r \in Replicas |-> NoRequest]
    /\ table = {}
    /\ lastId = 0
    /\ optedOut = {}
    /\ choices = 0
    /\ cursor = 0
    /\ export = NoExport
    /\ ingested = {}
    /\ accepted = {} /\ removed = {} /\ overtaken = {} /\ skipped = {}
    /\ faults = 0

-----------------------------------------------------------------------------
Fault == faults < MaxFaults /\ faults' = faults + 1

(* identity_secret: a replica without a secret reads the table's ...       *)
ReadSecret(r) ==
    /\ cached[r] = None
    /\ req[r].at = "idle"
    /\ IF secret = None THEN req' = [req EXCEPT ![r].at = "mint"] /\ UNCHANGED cached
       ELSE cached' = [cached EXCEPT ![r] = secret] /\ UNCHANGED req
    /\ UNCHANGED <<tables, choices, export, ingested, history, faults>>

(* Mutant: a replica keeps what it minted, whoever minted first. *)
MintOwn(r) ==
    /\ req[r].at = "mint"
    /\ secret' = IF secret = None THEN r ELSE secret
    /\ cached' = [cached EXCEPT ![r] = r]
    /\ req' = [req EXCEPT ![r] = NoRequest]
    /\ UNCHANGED <<table, lastId, optedOut, cursor, choices, export, ingested, history,
                   faults>>

(* ... and mints one if there is none; whoever is second reads the first's.*)
MintSecret(r) ==
    /\ req[r].at = "mint"
    /\ secret' = IF secret = None THEN r ELSE secret
    /\ cached' = [cached EXCEPT ![r] = secret']
    /\ req' = [req EXCEPT ![r] = NoRequest]
    /\ UNCHANGED <<table, lastId, optedOut, cursor, choices, export, ingested, history,
                   faults>>

(* post_events: an analyst who opted out is told to stop. insert_events    *)
(* then reads which of the batch it has ...                                *)
TakeBatch(r, batch) ==
    /\ req[r].at = "idle"
    /\ cached[r] # None /\ cached[r] \notin optedOut
    /\ req' = [req EXCEPT ![r] = [at |-> "looked", batch |-> batch, rows |-> {},
                                  fresh |-> batch \ EventsOf(table)]]
    /\ UNCHANGED <<tables, cached, choices, export, ingested, history, faults>>

NewRow(r, e, id) == [id |-> id, event |-> e, actor |-> cached[r]]

(* A row takes its id in the order of the batch.                           *)
NewRows(r) ==
    {NewRow(r, e, lastId + Cardinality({d \in req[r].fresh : d <= e})) : e \in req[r].fresh}

Free(r, es) == \A s \in Replicas \ {r} : EventsOf(req[s].rows) \intersect es = {}

(* ... and inserts the others in one transaction: a row that another       *)
(* transaction is inserting is waited for, one that is stored by now fails *)
(* the transaction.                                                        *)
InsertFresh(r) ==
    /\ req[r].at = "looked"
    /\ Free(r, req[r].fresh)
    /\ IF req[r].fresh \intersect EventsOf(table) # {}
       THEN req' = [req EXCEPT ![r].at = "singly"] /\ UNCHANGED lastId
       ELSE /\ lastId + Cardinality(req[r].fresh) <= MaxIds
            /\ req' = [req EXCEPT ![r].at = "inserted", ![r].rows = NewRows(r)]
            /\ lastId' = lastId + Cardinality(req[r].fresh)
    /\ UNCHANGED <<secret, table, optedOut, cursor, cached, choices, export, ingested, history,
                   faults>>

Accept(r) ==
    /\ accepted' = accepted \union req[r].batch
    /\ req' = [req EXCEPT ![r] = NoRequest]

Commit(r) ==
    /\ req[r].at = "inserted"
    /\ table' = table \union req[r].rows
    /\ Accept(r)
    /\ UNCHANGED <<secret, lastId, optedOut, cursor, cached, choices, export, ingested,
                   removed, overtaken, skipped, faults>>

(* Mutant: the fallback ends at the first row that is stored already. *)
InsertUntilStored(r) ==
    /\ req[r].at = "singly"
    /\ UNCHANGED <<secret, optedOut, cursor, cached, choices, export, ingested,
                   removed, overtaken, skipped, faults>>
    /\ \/ /\ req[r].fresh = {} \/ req[r].fresh \intersect EventsOf(table) # {}
          /\ Accept(r) /\ UNCHANGED <<table, lastId>>
       \/ /\ lastId < MaxIds /\ req[r].fresh \intersect EventsOf(table) = {}
          /\ \E e \in req[r].fresh :
              /\ Free(r, {e})
              /\ table' = table \union {NewRow(r, e, lastId + 1)}
              /\ lastId' = lastId + 1
              /\ req' = [req EXCEPT ![r].fresh = @ \ {e}]
          /\ UNCHANGED accepted

(* After a conflict: row by row, skipping those that are stored.           *)
InsertSingly(r) ==
    /\ req[r].at = "singly"
    /\ UNCHANGED <<secret, optedOut, cursor, cached, choices, export, ingested,
                   removed, overtaken, skipped, faults>>
    /\ \/ req[r].fresh = {} /\ Accept(r) /\ UNCHANGED <<table, lastId>>
       \/ \E e \in req[r].fresh :
            /\ Free(r, {e})
            /\ req' = [req EXCEPT ![r].fresh = @ \ {e}]
            /\ IF e \in EventsOf(table) THEN UNCHANGED <<table, lastId>>
               ELSE /\ lastId < MaxIds
                    /\ table' = table \union {NewRow(r, e, lastId + 1)}
                    /\ lastId' = lastId + 1
            /\ UNCHANGED accepted

(* The store fails: 503, and a transaction is rolled back.                 *)
StoreFails(r) ==
    /\ req[r].at # "idle"
    /\ Fault
    /\ req' = [req EXCEPT ![r] = NoRequest]
    /\ UNCHANGED <<tables, cached, choices, export, ingested, history>>

-----------------------------------------------------------------------------
Delete(rows) ==
    /\ table' = table \ rows
    /\ removed' = removed \union EventsOf(rows)

(* PUT /opt-out: one transaction records the choice and deletes what was   *)
(* stored; a row that is not committed yet is out of its sight, and is     *)
(* stored after it.                                                        *)
SetOptOut(r, out) ==
    /\ cached[r] # None
    /\ choices < MaxChoices
    /\ choices' = choices + 1
    /\ IF out THEN /\ optedOut' = optedOut \union {cached[r]}
                   /\ Delete({row \in table : row.actor = cached[r]})
       ELSE optedOut' = optedOut \ {cached[r]} /\ UNCHANGED <<table, removed>>
    /\ UNCHANGED <<secret, lastId, cursor, cached, req, export, ingested, accepted,
                   overtaken, skipped, faults>>

(* Retention: the rows up to some day.                                     *)
Purge ==
    /\ Fault
    /\ \E last \in IdsOf(table) : Delete({row \in table : row.id <= last})
    /\ UNCHANGED <<secret, lastId, optedOut, cursor, cached, req, choices, export, ingested,
                   accepted, overtaken, skipped>>

-----------------------------------------------------------------------------
Pending == {row \in table : row.id > cursor}
LastId(rows) == CHOOSE id \in IdsOf(rows) : \A other \in IdsOf(rows) : other <= id

Batch == {row \in Pending : Cardinality({p \in Pending : p.id <= row.id}) <= Limit}
Composed(records) ==
    export' = [at |-> "composed", rows |-> Batch, records |-> records,
               pending |-> IdsOf(Uncommitted)]

(* export_pending reads its cursor and the first rows past it, leaves out  *)
(* those of an analyst who opted out (it asks row by row; a choice made    *)
(* meanwhile leaves out the later ones) ...                                *)
Compose ==
    /\ export.at = "idle"
    /\ Pending # {}
    /\ Composed({row \in Batch : row.actor \notin optedOut})
    /\ UNCHANGED <<tables, cached, req, choices, ingested, history, faults>>

(* ... and posts the rest. The ingest keeps what it does not have. Without *)
(* an answer, and on 429 and 5xx, the same rows go again next time; a 4xx  *)
(* is passed over, as are the rows left out.                               *)
Passed(rows) ==
    /\ export' = [export EXCEPT !.at = "passed"]
    /\ skipped' = skipped \union IdsOf(rows)

(* Mutant: with nothing to post the cursor stays. *)
PostRecords ==
    /\ export.at = "composed"
    /\ IF export.records = {} THEN export' = NoExport /\ UNCHANGED <<ingested, skipped>>
       ELSE /\ ingested' = ingested \union EventsOf(export.records)
            /\ Passed(export.rows \ export.records)
    /\ UNCHANGED <<tables, cached, req, choices, accepted, removed, overtaken, faults>>

Post ==
    /\ export.at = "composed"
    /\ \/ /\ ingested' = ingested \union EventsOf(export.records)
          /\ Passed(export.rows \ export.records)
          /\ UNCHANGED faults
       \/ /\ export.records # {} /\ Fault
          /\ Passed(export.rows) /\ UNCHANGED ingested
       \/ /\ export.records # {} /\ Fault
          /\ ingested' \in {ingested, ingested \union EventsOf(export.records)}
          /\ export' = NoExport /\ UNCHANGED skipped
    /\ UNCHANGED <<tables, cached, req, choices, accepted, removed, overtaken>>

(* Mutant: the cursor goes to the last id drawn. *)
AdvanceToLast ==
    /\ export.at = "passed"
    /\ cursor' = lastId
    /\ overtaken' = overtaken \union {id \in export.pending : id <= LastId(export.rows)}
    /\ export' = NoExport
    /\ UNCHANGED <<secret, table, lastId, optedOut, cached, req, choices, ingested, accepted,
                   removed, skipped, faults>>

(* The cursor goes to the last row fetched: the ids that were drawn before *)
(* it and not committed then are behind it from now on.                    *)
Advance ==
    /\ export.at = "passed"
    /\ cursor' = LastId(export.rows)
    /\ overtaken' = overtaken \union {id \in export.pending : id <= cursor'}
    /\ export' = NoExport
    /\ UNCHANGED <<secret, table, lastId, optedOut, cached, req, choices, ingested, accepted,
                   removed, skipped, faults>>

(* The exporter dies; its cursor is where it was.                          *)
ExporterDies ==
    /\ export.at # "idle"
    /\ Fault
    /\ export' = NoExport
    /\ UNCHANGED <<tables, cached, req, choices, ingested, history>>

-----------------------------------------------------------------------------
Handle(r) ==
    MintSecret(r) \/ InsertFresh(r) \/ Commit(r) \/ InsertSingly(r)

Next ==
    \/ \E r \in Replicas :
        \/ ReadSecret(r) \/ Handle(r) \/ StoreFails(r)
        \/ \E batch \in Batches : TakeBatch(r, batch)
        \/ \E out \in BOOLEAN : SetOptOut(r, out)
    \/ Purge
    \/ Compose \/ Post \/ Advance \/ ExporterDies

Spec == Init /\ [][Next]_vars

(* Handlers go on, and a CronJob would call export_pending over and over.  *)
FairSpec ==
    /\ Spec
    /\ \A r \in Replicas : WF_vars(Handle(r))
    /\ WF_vars(Compose \/ Post \/ Advance)

-----------------------------------------------------------------------------
(* 202 means stored: an event that was answered so is in the table until   *)
(* an opt-out or a purge deletes it, whatever batches overlapped.          *)
AcceptedIsKept == accepted \subseteq EventsOf(table) \union removed

(* Opting out deletes every row there is of the analyst, whichever replica *)
(* stored it: all key the analyst's pseudonym with the one secret. Rows of *)
(* a request in flight come after it, and the code keeps them.             *)
OptOutDeletes ==
    [][choices' # choices /\ optedOut' # {} => table' = {}]_vars

(* Behind the cursor is nothing that should have gone: a row there was     *)
(* sent, or left out, or rejected, or committed after the rows that were   *)
(* drawn behind it had gone.                                               *)
CursorPassesSent ==
    \A row \in table : row.id <= cursor =>
        row.event \in ingested \/ row.id \in skipped \/ row.id \in overtaken

(* Every row leaves: it is sent, unless it is deleted, left out, rejected  *)
(* or overtaken before.                                                    *)
EveryRowLeaves ==
    \A id \in Ids : (\E row \in table : row.id = id)
        ~> \/ \E row \in table : row.id = id /\ row.event \in ingested
           \/ id \in skipped \union overtaken
           \/ id \notin IdsOf(table)
=============================================================================
