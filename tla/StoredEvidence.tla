--------------------------- MODULE StoredEvidence ---------------------------
(* Photos of one participant's answer, from the upload to the end of the   *)
(* record: the rows that name them (evidence_uploads, fulfillment_         *)
(* evidences) and the objects in storage, which no transaction ties        *)
(* together.  Actors: invocations of evidence-upload and evidence-discard,  *)
(* fulfillment-submit, the weekly evidence-purge, the hourly retention-     *)
(* maintenance, and a purchase of permanent access.                        *)
EXTENDS Integers, FiniteSets

CONSTANTS Uploads,     \* upload ids, each of one idempotency key of the client
          Attempts,    \* invocations of evidence-upload, retries of a key included
          Keepers,     \* invocations of retention-maintenance
          MaxPhotos,   \* photos of one answer (the code: 3)
          MaxFaults    \* refused or unanswered storage calls, deaths, late invocations

NoOne == "nobody"

(* What the constants must be; the MC modules assume it of their values. *)
ConstantsFit ==
  /\ NoOne \notin Keepers
  /\ MaxPhotos \in Nat \ {0} /\ MaxFaults \in Nat

VARIABLES row,       \* evidence_uploads
          named,     \* uploads whose row holds its storage keys
          evidence,  \* fulfillment_evidences, one row per bound upload
          stored,    \* objects in the bucket
          attempt,   \* memory of an invocation of evidence-upload
          discarding,\* objects an invocation of evidence-discard still removes
          purge,     \* memory of evidence-purge
          answer,    \* the participant's check of the round
          window,    \* before or after check_deadline_at
          access,    \* somebody may read the record without having bought it
          paid,      \* permanent access bought
          grant,     \* lf_permanent_access_grant between its check and its insert
          record,    \* purge_state, or "gone"
          job,       \* promise_purge_jobs
          keeper,    \* memory of an invocation of retention-maintenance
          faults

vars == <<row, named, evidence, stored, attempt, discarding, purge, answer, window, access,
          paid, grant, record, job, keeper, faults>>
photos == <<row, named, evidence, stored, attempt, discarding, purge, answer>>
life   == <<window, access, paid, grant, record, job, keeper>>

Parts      == {"full", "thumb"}
Objects    == Uploads \X Parts
ObjectsOf(us) == us \X Parts
RowStates  == {"none", "PENDING", "READY", "BOUND", "DISCARDED", "deleted"}
NoAttempt  == [pc |-> "idle", upload |-> {}, put |-> {}]
NoPurge    == [pc |-> "idle", evidences |-> {}, uploads |-> {}, keys |-> {}, gone |-> {}]
NoJob      == [status |-> "none", lease |-> NoOne, lapsed |-> FALSE]
NoKeeper   == [pc |-> "idle", keys |-> {}]

Init == /\ row = [u \in Uploads |-> "none"] /\ named = {}
        /\ evidence = [u \in Uploads |-> "none"]
        /\ stored = {}
        /\ attempt = [a \in Attempts |-> NoAttempt]
        /\ discarding = {} /\ purge = NoPurge
        /\ answer = "none" /\ window = "open"
        /\ access = TRUE /\ paid = FALSE /\ grant = "none"
        /\ record = "AVAILABLE" /\ job = NoJob
        /\ keeper = [k \in Keepers |-> NoKeeper]
        /\ faults = 0

Fault == faults < MaxFaults /\ faults' = faults + 1
MayRead == record = "AVAILABLE" /\ (access \/ paid)
Checking == window = "open" /\ record = "AVAILABLE"

--------------------------------------------------------------------------
(* evidence-upload.  A key that is known answers with its row whatever the  *)
(* promise has become; READY ends the call, a row in another state than     *)
(* PENDING refuses it.                                                     *)
Held == {u \in Uploads : row[u] \in {"PENDING", "READY"}}
Reserve(a, u) ==
  /\ attempt[a].pc = "idle" /\ row[u] \in {"none", "PENDING"}
  /\ row[u] = "none" => Checking /\ Cardinality(Held) < MaxPhotos
  /\ row' = [row EXCEPT ![u] = "PENDING"]
  /\ attempt' = [attempt EXCEPT ![a] = [pc |-> "full", upload |-> {u}, put |-> {}]]
  /\ UNCHANGED <<named, evidence, stored, discarding, purge, answer, faults>> /\ UNCHANGED life

(* The two objects are written over whatever stands under their keys. *)
After(pc) == IF pc = "full" THEN "thumb" ELSE "complete"
Store(a) ==
  LET key == attempt[a].upload \X {attempt[a].pc}
  IN /\ attempt[a].pc \in Parts
     /\ stored' = stored \cup key
     /\ attempt' = [attempt EXCEPT ![a].pc = After(@), ![a].put = @ \cup key]
     /\ UNCHANGED <<row, named, evidence, discarding, purge, answer, faults>> /\ UNCHANGED life

(* A storage call that fails, its object written or not: what was put       *)
(* before it is removed again.                                             *)
StoreFails(a) ==
  /\ attempt[a].pc \in Parts /\ Fault
  /\ \/ UNCHANGED stored
     \/ stored' = stored \cup (attempt[a].upload \X {attempt[a].pc})
  /\ attempt' = [attempt EXCEPT ![a].pc = "clean up"]
  /\ UNCHANGED <<row, named, evidence, discarding, purge, answer>> /\ UNCHANGED life
CleanUp(a) ==
  /\ attempt[a].pc = "clean up"
  /\ stored' = stored \ attempt[a].put
  /\ attempt' = [attempt EXCEPT ![a] = NoAttempt]
  /\ UNCHANGED <<row, named, evidence, discarding, purge, answer, faults>> /\ UNCHANGED life

(* lf_evidence_upload_complete; a row that is gone or discarded refuses, and *)
(* nothing is removed then.                                                *)
Complete(a) ==
  \E u \in attempt[a].upload :
    /\ attempt[a].pc = "complete"
    /\ IF row[u] = "PENDING"
       THEN row' = [row EXCEPT ![u] = "READY"] /\ named' = named \cup {u}
       ELSE UNCHANGED <<row, named>>
    /\ attempt' = [attempt EXCEPT ![a] = NoAttempt]
    /\ UNCHANGED <<evidence, stored, discarding, purge, answer, faults>> /\ UNCHANGED life

(* The invocation ends where it stands: the image cannot be read, a clean-up *)
(* fails, the process dies.                                                *)
AttemptEnds(a) ==
  /\ attempt[a].pc # "idle" /\ Fault
  /\ attempt' = [attempt EXCEPT ![a] = NoAttempt]
  /\ UNCHANGED <<row, named, evidence, stored, discarding, purge, answer>> /\ UNCHANGED life

--------------------------------------------------------------------------
(* fulfillment-submit as far as photos go: an answer binds READY uploads,   *)
(* its one revision (only while the other has not answered) keeps some of   *)
(* the photos and takes the others away.                                   *)
Bind(us, kept) ==
  /\ row' = [u \in Uploads |-> IF u \in us THEN "BOUND" ELSE row[u]]
  /\ evidence' = [u \in Uploads |-> CASE u \in us -> "shown"
                                      [] evidence[u] = "shown" /\ u \notin kept -> "removed"
                                      [] OTHER -> evidence[u]]
  /\ UNCHANGED <<named, stored, attempt, discarding, purge, faults>> /\ UNCHANGED life
Ready == {u \in Uploads : row[u] = "READY"}
Shown == {u \in Uploads : evidence[u] = "shown"}
Submit == /\ Checking /\ answer = "none" /\ answer' = "given"
          /\ \E us \in SUBSET Ready : Cardinality(us) <= MaxPhotos /\ Bind(us, {})
Revise == /\ Checking /\ answer = "given" /\ answer' = "revised"
          /\ \E us \in SUBSET Ready : \E kept \in SUBSET Shown :
               Cardinality(us) + Cardinality(kept) <= MaxPhotos /\ Bind(us, kept)

(* evidence-discard: the row first, then the objects the row names.  A       *)
(* removal that fails is left to the purge.                                *)
DiscardRow(u) ==
  /\ row[u] \in {"PENDING", "READY", "DISCARDED"} /\ discarding = {}
  /\ row' = [row EXCEPT ![u] = "DISCARDED"]
  /\ discarding' = ObjectsOf({u} \cap named)
  /\ UNCHANGED <<named, evidence, stored, attempt, purge, answer, faults>> /\ UNCHANGED life
DiscardObjects ==
  /\ discarding # {} /\ discarding' = {}
  /\ \/ stored' = stored \ discarding /\ UNCHANGED faults
     \/ UNCHANGED stored /\ Fault
  /\ UNCHANGED <<row, named, evidence, attempt, purge, answer>> /\ UNCHANGED life

--------------------------------------------------------------------------
(* evidence-purge: list with the keys the rows name now, remove the objects *)
(* of one target after another, mark the rows of those that went.          *)
ExpiredReadily == TRUE
Expired == window = "over"
UploadTargets == {u \in Uploads : row[u] = "DISCARDED" \/ (Expired /\ row[u] \in {"PENDING", "READY"})}
PurgeList ==
  LET evidences == {u \in Uploads : evidence[u] = "removed"}
  IN /\ purge.pc = "idle" /\ evidences \cup UploadTargets # {}
     /\ purge' = [pc |-> "remove", gone |-> {}, evidences |-> evidences, uploads |-> UploadTargets,
                  keys |-> ObjectsOf(evidences \cup (UploadTargets \cap named))]
     /\ UNCHANGED <<row, named, evidence, stored, attempt, discarding, answer, faults>> /\ UNCHANGED life
PurgeTarget(u) ==
  LET keys == ObjectsOf({u}) \cap purge.keys
      left == [purge EXCEPT !.evidences = @ \ {u}, !.uploads = @ \ {u}]
  IN /\ purge.pc = "remove" /\ u \in purge.evidences \cup purge.uploads
     /\ \/ /\ stored' = stored \ keys /\ UNCHANGED faults
           /\ purge' = [left EXCEPT !.gone = @ \cup {<<u, u \in purge.evidences>>}]
        \/ UNCHANGED stored /\ purge' = left /\ Fault
     /\ UNCHANGED <<row, named, evidence, attempt, discarding, answer>> /\ UNCHANGED life
PurgeComplete ==
  /\ purge.pc = "remove" /\ purge.evidences \cup purge.uploads = {}
  /\ evidence' = [u \in Uploads |-> IF <<u, TRUE>> \in purge.gone /\ evidence[u] # "none"
                                    THEN "purged" ELSE evidence[u]]
  /\ row' = [u \in Uploads |-> IF <<u, FALSE>> \in purge.gone /\ row[u] # "BOUND"
                               THEN "deleted" ELSE row[u]]
  /\ purge' = NoPurge
  /\ UNCHANGED <<named, stored, attempt, discarding, answer, faults>> /\ UNCHANGED life
PurgeDies == /\ purge.pc = "remove" /\ Fault /\ purge' = NoPurge
             /\ UNCHANGED <<row, named, evidence, stored, attempt, discarding, answer>> /\ UNCHANGED life

--------------------------------------------------------------------------
(* Access to the record.  It ends weeks after the check window, when no     *)
(* upload of it runs any more.  A purchase asks for access, then inserts    *)
(* its row; the foreign key needs the promise to be there.                 *)
WindowCloses == /\ window = "open" /\ window' = "over"
                /\ UNCHANGED <<access, paid, grant, record, job, keeper, faults>> /\ UNCHANGED photos
AccessEnds == /\ window = "over" /\ access /\ access' = FALSE
              /\ \A a \in Attempts : attempt[a].pc = "idle"
              /\ UNCHANGED <<window, paid, grant, record, job, keeper, faults>> /\ UNCHANGED photos
GrantCheck == /\ grant = "none" /\ MayRead /\ grant' = "allowed"
              /\ UNCHANGED <<window, access, paid, record, job, keeper, faults>> /\ UNCHANGED photos
GrantCommit == /\ grant = "allowed" /\ grant' = "done"
               /\ paid' = (record # "gone")
               /\ UNCHANGED <<window, access, record, job, keeper, faults>> /\ UNCHANGED photos

(* retention-maintenance: queue the records nobody may read, claim the      *)
(* queue with a snapshot of the keys, remove the objects, finalize.        *)
Maintain(k) ==
  /\ keeper[k].pc = "idle"
  /\ keeper' = [keeper EXCEPT ![k] = [NoKeeper EXCEPT !.pc = "claim"]]
  /\ IF record = "AVAILABLE" /\ ~MayRead
     THEN /\ record' = "PURGING"
          /\ job' = IF job.status = "none" THEN [NoJob EXCEPT !.status = "PENDING"] ELSE job
     ELSE UNCHANGED <<record, job>>
  /\ UNCHANGED <<window, access, paid, grant, faults>> /\ UNCHANGED photos
ClaimableOnce == job.status = "PENDING"
Claimable == job.status = "PENDING" \/ (job.status = "LEASED" /\ job.lapsed)
NamedObjects == ObjectsOf(named \cup {u \in Uploads : evidence[u] # "none"})
Claim(k) ==
  /\ keeper[k].pc = "claim"
  /\ IF Claimable
     THEN /\ job' = [status |-> "LEASED", lease |-> k, lapsed |-> FALSE]
          /\ keeper' = [keeper EXCEPT ![k] = [pc |-> "remove", keys |-> NamedObjects]]
     ELSE keeper' = [keeper EXCEPT ![k] = NoKeeper] /\ UNCHANGED job
  /\ UNCHANGED <<window, access, paid, grant, record, faults>> /\ UNCHANGED photos
RemoveObjects(k) ==
  /\ keeper[k].pc = "remove"
  /\ \/ /\ stored' = stored \ keeper[k].keys /\ UNCHANGED faults
        /\ keeper' = [keeper EXCEPT ![k] = [NoKeeper EXCEPT !.pc = "finalize"]]
     \/ UNCHANGED stored /\ Fault /\ keeper' = [keeper EXCEPT ![k] = NoKeeper]
  /\ UNCHANGED <<row, named, evidence, attempt, discarding, purge, answer>>
  /\ UNCHANGED <<window, access, paid, grant, record, job>>

(* lf_purge_job_finalize judges once more: whoever may read keeps the record *)
(* (the objects are gone by then).                                         *)
Holds(k) == job.status = "LEASED" /\ job.lease = k /\ ~job.lapsed
RegainedNever == FALSE
Regained == access \/ paid
Finalize(k) ==
  /\ keeper[k].pc = "finalize"
  /\ keeper' = [keeper EXCEPT ![k] = NoKeeper]
  /\ IF ~Holds(k) \/ record # "PURGING" THEN UNCHANGED <<record, job, row, named, evidence>>
     ELSE IF Regained
     THEN record' = "AVAILABLE" /\ job' = NoJob /\ UNCHANGED <<row, named, evidence>>
     ELSE /\ record' = "gone" /\ job' = NoJob /\ named' = {}
          /\ row' = [u \in Uploads |-> IF row[u] = "none" THEN "none" ELSE "deleted"]
          /\ evidence' = [u \in Uploads |-> "none"]
  /\ UNCHANGED <<stored, attempt, discarding, purge, answer, window, access, paid, grant, faults>>
KeeperDies(k) == /\ keeper[k].pc # "idle" /\ Fault
                 /\ keeper' = [keeper EXCEPT ![k] = NoKeeper]
                 /\ UNCHANGED <<window, access, paid, grant, record, job>> /\ UNCHANGED photos
(* Ten minutes.  A lease whose holder still works on it runs out only when  *)
(* something holds the invocation up.                                      *)
LeaseEnds == /\ job.status = "LEASED" /\ ~job.lapsed /\ job' = [job EXCEPT !.lapsed = TRUE]
             /\ IF \E k \in Keepers : job.lease = k /\ keeper[k].pc \in {"remove", "finalize"}
                THEN Fault ELSE UNCHANGED faults
             /\ UNCHANGED <<window, access, paid, grant, record, keeper>> /\ UNCHANGED photos

UploadStep(a) == Store(a) \/ StoreFails(a) \/ CleanUp(a) \/ Complete(a) \/ AttemptEnds(a)
PurgeStep == PurgeList \/ PurgeComplete \/ \E u \in Uploads : PurgeTarget(u)
KeeperStep(k) == Maintain(k) \/ Claim(k) \/ RemoveObjects(k) \/ Finalize(k)
Next == \/ \E a \in Attempts : UploadStep(a) \/ \E u \in Uploads : Reserve(a, u)
        \/ Submit \/ Revise \/ DiscardObjects \/ \E u \in Uploads : DiscardRow(u)
        \/ PurgeStep \/ PurgeDies
        \/ WindowCloses \/ AccessEnds \/ GrantCheck \/ GrantCommit \/ LeaseEnds
        \/ \E k \in Keepers : KeeperStep(k) \/ KeeperDies(k)

(* Both workers are called on schedule for ever, and time passes.  Nobody *)
(* has to upload, answer, discard or buy.                                  *)
Fairness == /\ WF_vars(PurgeStep) /\ WF_vars(LeaseEnds)
            /\ \A k \in Keepers : WF_vars(KeeperStep(k))
Spec == Init /\ [][Next]_vars /\ Fairness

--------------------------------------------------------------------------
(* The tables have their types; a READY or BOUND upload names its objects   *)
(* (the check constraint of evidence_uploads), a photo that was ever shown  *)
(* comes from a bound upload, and a job exists exactly while the record is  *)
(* being purged.                                                           *)
TypeOK ==
  /\ row \in [Uploads -> RowStates] /\ named \subseteq Uploads /\ stored \subseteq Objects
  /\ \A u \in Uploads : /\ row[u] \in {"READY", "BOUND"} => u \in named
                        /\ evidence[u] \in {"none", "shown", "removed", "purged"}
                        /\ evidence[u] # "none" => row[u] = "BOUND"
  /\ attempt \in [Attempts -> [pc : {"idle", "full", "thumb", "complete", "clean up"},
                               upload : SUBSET Uploads, put : SUBSET Objects]]
  /\ record \in {"AVAILABLE", "PURGING", "gone"} /\ (job.status # "none") <=> (record = "PURGING")

(* Neither the weekly purge nor a discard takes an object of a photo that   *)
(* is shown, however long ago it made its list: photos leave storage while  *)
(* they are shown only with the record, or by an upload's own clean-up.     *)
PurgeSparesEvidence ==
  [][\A u \in Shown : ObjectsOf({u}) \cap (stored \ stored') # {}
        => record = "PURGING" \/ \E a \in Attempts : attempt'[a] # attempt[a]]_vars

(* A record somebody has bought permanent access to is never erased, also   *)
(* when the purchase commits between the queueing of the record and its     *)
(* finalisation.                                                           *)
PaidRecordKept == paid => record # "gone"

(* What is over goes in the end, whatever failed on the way: a record that  *)
(* nobody may read and nobody has paid for, and the objects of a photo its  *)
(* owner has taken away.                                                   *)
WhatIsOverGoes ==
  /\ <>[](access \/ record = "gone" \/ paid)
  /\ <>[](\A u \in Uploads : evidence[u] = "removed" => ObjectsOf({u}) \cap stored = {})

(* A photo that is shown has its two objects, until the record goes         *)
(* (docs/기획/02_세부기능명세서.md:977).                                    *)
EvidenceKeepsItsObjects ==
  record = "AVAILABLE" => \A u \in Shown : ObjectsOf({u}) \subseteq stored
=============================================================================
