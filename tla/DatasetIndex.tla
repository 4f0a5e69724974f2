---------------------------- MODULE DatasetIndex ----------------------------
(***************************************************************************)
(* How app/services/session_service.py finds one user's sessions: next to  *)
(* the blob sess:{sid} it keeps a summary sess:{sid}:meta, the set         *)
(* user:{uid}:sids and, per dataset, the index entry user:{uid}:ds:{dsid}. *)
(* The four are written by separate awaits, so every operation on them is  *)
(* seen half done by the others, and each await can fail.                  *)
(***************************************************************************)
EXTENDS Naturals, FiniteSets

CONSTANTS
    Sid, Dataset, DatasetOf,    \* the user's sessions and their datasets
    Save,                       \* save_session calls
    Drop,                       \* delete_session calls
    DropData,                   \* DELETE /datasets/{id} calls
    Find,                       \* find_session_by_dataset_for_user calls
    SidOf,                      \* the session of a Save or Drop
    AskedFor,                   \* the dataset of a Find or DropData
    Saved,                      \* the sessions saved before all of these
    NoSid,
    Expiring,                   \* bound: the datasets whose index entry may expire
    MaxInFlight                 \* bound: operations running at a time

Op == Save \union Drop \union DropData \union Find

ASSUME IndexAssumption ==
    /\ DatasetOf \in [Sid -> Dataset]
    /\ SidOf \in [Save \union Drop -> Sid]
    /\ AskedFor \in [Find \union DropData -> Dataset]
    /\ Saved \subseteq Sid
    /\ NoSid \notin Sid
    /\ Expiring \subseteq Dataset
    /\ MaxInFlight \in Nat
    /\ Save \intersect (Drop \union DropData \union Find) = {}
    /\ Drop \intersect (DropData \union Find) = {}
    /\ DropData \intersect Find = {}

VARIABLES
    stored,     \* sessions with a blob
    summary,    \* sessions with a summary
    members,    \* user:{uid}:sids
    index,      \* user:{uid}:ds:{dsid}
    await,      \* the next await of each operation
    asked,      \* the sessions an operation is looking at
    found,      \* those it has a summary of
    owed,       \* those whose summary it is about to backfill
    answer,     \* what a Find returned
    failed,     \* operations that met a failure, and requests answered 404
    before      \* history: the operations over when this one began

indexVars ==
    <<stored, summary, members, index, await, asked, found, owed, answer, failed, before>>
keys == <<stored, summary, members, index>>
reading == <<asked, found, owed, answer>>

Steps == {"idle", "blob", "member", "summary", "index", "read",
          "fastMeta", "fastBlob", "fastFill", "members", "metas", "blobs", "fill",
          "backfill", "over"}

IndexTypeOK ==
    /\ stored \subseteq Sid
    /\ summary \subseteq Sid
    /\ members \subseteq Sid
    /\ index \in [Dataset -> Sid \union {NoSid}]
    /\ await \in [Op -> Steps]
    /\ asked \in [Op -> SUBSET Sid]
    /\ found \in [Op -> SUBSET Sid]
    /\ owed \in [Op -> SUBSET Sid]
    /\ answer \in [Op -> Sid \union {NoSid}]
    /\ failed \subseteq Op
    /\ before \in [Op -> SUBSET Op]

IndexInit ==
    /\ stored = Saved /\ summary = Saved /\ members = Saved
    /\ index \in [Dataset -> Saved \union {NoSid}]
    /\ \A d \in Dataset :
          IF index[d] = NoSid THEN \A s \in Saved : DatasetOf[s] # d
          ELSE DatasetOf[index[d]] = d
    /\ await = [o \in Op |-> "idle"]
    /\ asked = [o \in Op |-> {}]
    /\ found = [o \in Op |-> {}]
    /\ owed = [o \in Op |-> {}]
    /\ answer = [o \in Op |-> NoSid]
    /\ failed = {}
    /\ before = [o \in Op |-> {}]

Goto(o, step) == await' = [await EXCEPT ![o] = step]
Fails(o) == failed' = failed \union {o}

(* The coroutine ends, and its local variables with it. *)
End(o) ==
    /\ Goto(o, "over")
    /\ asked' = [asked EXCEPT ![o] = {}]
    /\ found' = [found EXCEPT ![o] = {}]
    /\ owed' = [owed EXCEPT ![o] = {}]

(* Leaving "idle" notes which operations are over. *)
Begin(o) ==
    /\ await[o] = "idle"
    /\ Cardinality({p \in Op : await[p] \notin {"idle", "over"}}) < MaxInFlight
    /\ before' = [before EXCEPT ![o] = {p \in Op : await[p] = "over"}]

(* The dataset's index entry. *)
Point(d, s) == index' = [index EXCEPT ![d] = s]

-----------------------------------------------------------------------------
(* save_session: the blob, the set, the summary, the index entry.          *)
SaveBlob(o) ==
    /\ o \in Save
    /\ Begin(o)
    /\ stored' = stored \union {SidOf[o]}
    /\ Goto(o, "member")
    /\ UNCHANGED <<summary, members, index, reading, failed>>

SaveMember(o) ==
    /\ o \in Save
    /\ await[o] = "member"
    /\ members' = members \union {SidOf[o]}
    /\ Goto(o, "summary")
    /\ UNCHANGED <<stored, summary, index, reading, failed, before>>

SaveSummary(o) ==
    /\ o \in Save
    /\ await[o] = "summary"
    /\ summary' = summary \union {SidOf[o]}
    /\ Goto(o, "index")
    /\ UNCHANGED <<stored, members, index, reading, failed, before>>

SaveIndex(o) ==
    /\ o \in Save
    /\ await[o] = "index"
    /\ Point(DatasetOf[SidOf[o]], SidOf[o])
    /\ Goto(o, "over")
    /\ UNCHANGED <<stored, summary, members, reading, failed, before>>

(* An await fails, executed or not: save_session returns False with the    *)
(* rest undone.                                                            *)
SaveFails(o) ==
    /\ o \in Save
    /\ await[o] \in {"member", "summary", "index"}
    /\ \/ UNCHANGED index
       \/ await[o] = "index" /\ Point(DatasetOf[SidOf[o]], SidOf[o])
    /\ Goto(o, "over")
    /\ Fails(o)
    /\ UNCHANGED <<stored, summary, members, reading, before>>

-----------------------------------------------------------------------------
(* delete_session reads the session first: with the breaker open, the read *)
(* failing or the session gone it knows neither user nor dataset.          *)
DropRead(o) ==
    /\ o \in Drop
    /\ Begin(o)
    /\ \/ asked' = [asked EXCEPT ![o] = stored \intersect {SidOf[o]}]
       \/ UNCHANGED asked
    /\ Goto(o, "blob")
    /\ UNCHANGED <<keys, found, owed, answer, failed>>

DropBlob(o) ==
    /\ o \in Drop
    /\ await[o] = "blob"
    /\ stored' = stored \ {SidOf[o]}
    /\ Goto(o, "summary")
    /\ UNCHANGED <<summary, members, index, reading, failed, before>>

(* Mutant: the summary is left to its TTL. *)
DropSummaryLater(o) ==
    /\ o \in Drop
    /\ await[o] = "summary"
    /\ Goto(o, IF asked[o] = {} THEN "over" ELSE "member")
    /\ UNCHANGED <<stored, summary, members, index, reading, failed, before>>

DropSummary(o) ==
    /\ o \in Drop
    /\ await[o] = "summary"
    /\ summary' = summary \ {SidOf[o]}
    /\ Goto(o, IF asked[o] = {} THEN "over" ELSE "member")
    /\ UNCHANGED <<stored, members, index, reading, failed, before>>

DropMember(o) ==
    /\ o \in Drop
    /\ await[o] = "member"
    /\ members' = members \ {SidOf[o]}
    /\ Goto(o, "index")
    /\ UNCHANGED <<stored, summary, index, reading, failed, before>>

(* The entry goes even when it points at another session of the dataset.   *)
DropIndex(o) ==
    /\ o \in Drop
    /\ await[o] = "index"
    /\ Point(DatasetOf[SidOf[o]], NoSid)
    /\ End(o)
    /\ UNCHANGED <<stored, summary, members, answer, failed, before>>

(* delete_session logs a failed await and returns. *)
DropFails(o) ==
    /\ o \in Drop
    /\ await[o] \in {"blob", "summary", "member", "index"}
    /\ End(o)
    /\ Fails(o)
    /\ UNCHANGED <<keys, answer, before>>

-----------------------------------------------------------------------------
(* DELETE /datasets/{id}: a 404 unless _user_datasets lists the dataset,   *)
(* which reads the summaries of all the user's sessions.                   *)
DropDataList(o) ==
    /\ o \in DropData
    /\ Begin(o)
    /\ asked' = [asked EXCEPT ![o] = members]
    /\ Goto(o, "metas")
    /\ UNCHANGED <<keys, found, owed, answer, failed>>

DropDataCheck(o) ==
    /\ o \in DropData
    /\ await[o] = "fill"
    /\ owed[o] = {}
    /\ IF AskedFor[o] \in {DatasetOf[s] : s \in found[o]}
       THEN Goto(o, "members") /\ UNCHANGED <<asked, found, owed, failed>>
       ELSE End(o) /\ Fails(o)
    /\ UNCHANGED <<keys, answer, before>>

(* The set again, then the blobs: those of the dataset are the targets,    *)
(* and _mget_safe turns a blob it cannot read into a missing one.          *)
DropDataMembers(o) ==
    /\ o \in DropData
    /\ await[o] = "members"
    /\ asked' = [asked EXCEPT ![o] = members]
    /\ found' = [found EXCEPT ![o] = {}]
    /\ Goto(o, "read")
    /\ UNCHANGED <<keys, owed, answer, failed, before>>

DropDataRead(o) ==
    /\ o \in DropData
    /\ await[o] = "read"
    /\ \E targets \in SUBSET {s \in asked[o] \intersect stored : DatasetOf[s] = AskedFor[o]} :
          asked' = [asked EXCEPT ![o] = targets]
    /\ Goto(o, "blob")
    /\ UNCHANGED <<keys, found, owed, answer, failed, before>>

(* The loop over the targets: blob, then set. *)
DropDataBlob(o) ==
    /\ o \in DropData
    /\ await[o] = "blob"
    /\ \/ /\ asked[o] = {}
          /\ End(o)
          /\ UNCHANGED stored
       \/ \E s \in asked[o] :
             /\ stored' = stored \ {s}
             /\ asked' = [asked EXCEPT ![o] = @ \ {s}]
             /\ owed' = [owed EXCEPT ![o] = {s}]
             /\ Goto(o, "member")
             /\ UNCHANGED found
    /\ UNCHANGED <<summary, members, index, answer, failed, before>>

DropDataMember(o) ==
    /\ o \in DropData
    /\ await[o] = "member"
    /\ members' = members \ owed[o]
    /\ owed' = [owed EXCEPT ![o] = {}]
    /\ Goto(o, "blob")
    /\ UNCHANGED <<stored, summary, index, asked, found, answer, failed, before>>

(* A failed await ends the request with a 500. *)
DropDataFails(o) ==
    /\ o \in DropData
    /\ await[o] \in {"members", "blob", "member"}
    /\ End(o)
    /\ Fails(o)
    /\ UNCHANGED <<keys, answer, before>>

-----------------------------------------------------------------------------
(* find_session_by_dataset_for_user, the fast path: the index entry, then  *)
(* the summary of the session it names.                                    *)
FindIndex(o) ==
    /\ o \in Find
    /\ Begin(o)
    /\ asked' = [asked EXCEPT ![o] = {index[AskedFor[o]]} \ {NoSid}]
    /\ Goto(o, IF index[AskedFor[o]] = NoSid THEN "members" ELSE "fastMeta")
    /\ UNCHANGED <<keys, found, owed, answer, failed>>

(* _load_metas: the summaries, then the blobs of the sessions without one, *)
(* then a summary backfilled for each of those that has a blob.  What      *)
(* _mget_safe fails to read counts as missing.                             *)
ReadSome(o, there) ==
    \E seen \in SUBSET there :
       /\ found' = [found EXCEPT ![o] = @ \union seen]
       /\ failed' = IF seen = there THEN failed ELSE failed \union ({o} \intersect Find)

Metas(o, here, next) ==
    /\ await[o] = here
    /\ ReadSome(o, asked[o] \intersect summary)
    /\ owed' = [owed EXCEPT ![o] = asked[o] \ found'[o]]
    /\ Goto(o, next)
    /\ UNCHANGED <<keys, asked, answer, before>>

Blobs(o, here, next) ==
    /\ await[o] = here
    /\ ReadSome(o, owed[o] \intersect stored)
    /\ owed' = [owed EXCEPT ![o] = @ \intersect found'[o]]
    /\ Goto(o, next)
    /\ UNCHANGED <<keys, asked, answer, before>>

Fill(o, here) ==
    /\ await[o] = here
    /\ \E s \in owed[o] :
          /\ \/ summary' = summary \union {s}
             \/ UNCHANGED summary
          /\ owed' = [owed EXCEPT ![o] = @ \ {s}]
    /\ UNCHANGED <<stored, members, index, await, asked, found, answer, failed, before>>

LoadMetas(o) ==
    /\ o \in Find \union DropData
    /\ \/ Metas(o, "fastMeta", "fastBlob") \/ Blobs(o, "fastBlob", "fastFill") \/ Fill(o, "fastFill")
       \/ Metas(o, "metas", "blobs") \/ Blobs(o, "blobs", "fill") \/ Fill(o, "fill")

(* Mutant: an index entry that leads nowhere ends the lookup. *)
FindFastOnly(o) ==
    /\ o \in Find
    /\ await[o] = "fastFill"
    /\ owed[o] = {}
    /\ \E s \in found[o] \union {NoSid} : answer' = [answer EXCEPT ![o] = s]
    /\ End(o)
    /\ UNCHANGED <<keys, failed, before>>

FindFast(o) ==
    /\ o \in Find
    /\ await[o] = "fastFill"
    /\ owed[o] = {}
    /\ \/ /\ found[o] = {}
          /\ Goto(o, "members")
          /\ UNCHANGED reading
       \/ \E s \in found[o] :
             /\ answer' = [answer EXCEPT ![o] = s]
             /\ End(o)
    /\ UNCHANGED <<keys, failed, before>>

(* The fallback: every session of the user, first hit of the dataset.      *)
FindMembers(o) ==
    /\ o \in Find
    /\ await[o] = "members"
    /\ IF members = {}
       THEN End(o)
       ELSE /\ asked' = [asked EXCEPT ![o] = members]
            /\ found' = [found EXCEPT ![o] = {}]
            /\ Goto(o, "metas")
            /\ UNCHANGED owed
    /\ UNCHANGED <<keys, answer, failed, before>>

FindScan(o) ==
    /\ o \in Find
    /\ await[o] = "fill"
    /\ owed[o] = {}
    /\ LET hits == {s \in found[o] : DatasetOf[s] = AskedFor[o]} IN
          \/ /\ hits = {}
             /\ End(o)
             /\ UNCHANGED answer
          \/ \E s \in hits :
                /\ answer' = [answer EXCEPT ![o] = s]
                /\ Goto(o, "backfill")
                /\ UNCHANGED <<asked, found, owed>>
    /\ UNCHANGED <<keys, failed, before>>

FindBackfill(o) ==
    /\ o \in Find
    /\ await[o] = "backfill"
    /\ \/ Point(AskedFor[o], answer[o])
       \/ UNCHANGED index
    /\ End(o)
    /\ UNCHANGED <<stored, summary, members, answer, failed, before>>

(* The GET of the index entry or the SMEMBERS raises: logged, None. *)
FindFails(o) ==
    /\ o \in Find
    /\ \/ Begin(o)
       \/ await[o] = "members" /\ UNCHANGED before
    /\ End(o)
    /\ Fails(o)
    /\ UNCHANGED <<keys, answer>>

(* refresh_session_ttl renews the blob and the summary, not the index. *)
IndexExpires(d) ==
    /\ index[d] # NoSid
    /\ Point(d, NoSid)
    /\ UNCHANGED <<stored, summary, members, await, reading, failed, before>>

SaveStep(o) == SaveBlob(o) \/ SaveMember(o) \/ SaveSummary(o) \/ SaveIndex(o) \/ SaveFails(o)
DropStep(o) ==
    DropRead(o) \/ DropBlob(o) \/ DropSummary(o) \/ DropMember(o) \/ DropIndex(o) \/ DropFails(o)
DropDataStep(o) ==
    \/ DropDataList(o) \/ DropDataCheck(o) \/ DropDataMembers(o) \/ DropDataRead(o)
    \/ DropDataBlob(o) \/ DropDataMember(o) \/ DropDataFails(o)
FindStep(o) ==
    FindIndex(o) \/ FindFast(o) \/ FindMembers(o) \/ FindScan(o)
    \/ FindBackfill(o) \/ FindFails(o)

IndexNext ==
    \/ \E o \in Op : SaveStep(o) \/ DropStep(o) \/ DropDataStep(o) \/ FindStep(o) \/ LoadMetas(o)
    \/ \E d \in Expiring : IndexExpires(d)

IndexSpec == IndexInit /\ [][IndexNext]_indexVars
-----------------------------------------------------------------------------
(* A save that was over, unfailed, before operation o began. *)
SavedBefore(o, s) ==
    s \in Saved \/ \E w \in (Save \intersect before[o]) \ failed : SidOf[w] = s

(* Operation d deletes session s. *)
Deletes(d, s) ==
    \/ d \in Drop /\ SidOf[d] = s
    \/ d \in DropData /\ AskedFor[d] = DatasetOf[s]

(* A deletion of session s began, and was not over before a save of it     *)
(* that was itself over, unfailed, before o began.                         *)
DeletedSince(o, s) ==
    \E d \in Drop \union DropData :
       /\ await[d] # "idle" /\ Deletes(d, s)
       /\ \A w \in (Save \intersect before[o]) \ failed : SidOf[w] = s => d \notin before[w]

(* A lookup that meets no failure answers None only if each session of the *)
(* dataset saved before it began is being, or has been, deleted: not when  *)
(* the shared index entry went with a sibling session or expired.          *)
FindsLive ==
    \A o \in Find \ failed : (await[o] = "over" /\ answer[o] = NoSid) =>
        \A s \in Sid :
           (DatasetOf[s] = AskedFor[o] /\ SavedBefore(o, s)) => DeletedSince(o, s)

(* Neither over before the other began. *)
Overlap(o, p) == o \notin before[p] /\ p \notin before[o]

(* After a delete_session without failure no later lookup answers with the *)
(* session, whatever the deletion knew of it, unless a save or another     *)
(* lookup's backfill ran beside the deletion or after it.                  *)
DeletedStaysHidden ==
    \A o \in Find : await[o] = "over" =>
        \A d \in (Drop \intersect before[o]) \ failed : answer[o] = SidOf[d] =>
            \/ \E w \in Save : SidOf[w] = SidOf[d] /\ w \notin before[d]
            \/ \E p \in (Find \union DropData) \ {o} : await[p] # "idle" /\ Overlap(p, d)
=============================================================================
