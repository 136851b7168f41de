------------------------- MODULE StoredEvidenceProofs -------------------------
(* Theorems about StoredEvidence for every number of uploads, of invocations   *)
(* of the functions and workers, and of faults.  The lemmas about one step     *)
(* hold of every step that leaves the tables of this component alone, too, so  *)
(* that a system it is a part of may cite them.                                *)
EXTENDS StoredEvidence, TLAPS

(* The types, with those of the memory of the workers, which TypeOK leaves  *)
(* open.                                                                    *)
RowsOK ==
  /\ row \in [Uploads -> RowStates] /\ named \subseteq Uploads
  /\ evidence \in [Uploads -> {"none", "shown", "removed", "purged"}]
  /\ \A u \in Uploads : /\ row[u] \in {"READY", "BOUND"} => u \in named
                        /\ evidence[u] # "none" => row[u] = "BOUND"
Attempt == [pc : {"idle", "full", "thumb", "complete", "clean up"},
            upload : SUBSET Uploads, put : SUBSET Objects]
ObjectsOK ==
  /\ stored \subseteq Objects /\ discarding \subseteq Objects
  /\ attempt \in [Attempts -> Attempt]
Purging == [pc : {"idle", "remove"}, evidences : SUBSET Uploads, uploads : SUBSET Uploads,
            keys : SUBSET Objects, gone : SUBSET (Uploads \X BOOLEAN)]
PurgeOK == purge \in Purging
Keeper == [pc : {"idle", "claim", "remove", "finalize"}, keys : SUBSET Objects]
RecordOK ==
  /\ record \in {"AVAILABLE", "PURGING", "gone"}
  /\ job \in [status : {"none", "PENDING", "LEASED"}, lease : Keepers \cup {NoOne},
              lapsed : BOOLEAN]
  /\ job.status # "none" <=> record = "PURGING"
  /\ keeper \in [Keepers -> Keeper]
  /\ window \in {"open", "over"} /\ access \in BOOLEAN /\ paid \in BOOLEAN
Types == RowsOK /\ ObjectsOK /\ PurgeOK /\ RecordOK

(* What the weekly purge and a discard hold in their memory is of photos    *)
(* that can never be shown again.                                           *)
ListedIsOver ==
  /\ \A o \in discarding : row[o[1]] \in {"DISCARDED", "deleted"}
  /\ \A u \in purge.evidences : evidence[u] \in {"removed", "purged"} \/ row[u] = "deleted"
  /\ \A u \in purge.uploads : \/ row[u] \in {"DISCARDED", "deleted"}
                              \/ window = "over" /\ row[u] \in {"PENDING", "READY"}

(* Once nobody may read the record without having bought it, no upload that *)
(* is under way is one of a photo that is shown.                            *)
AfterAccess ==
  /\ access \/ window = "over"
  /\ access \/ \A a \in Attempts : \A u \in attempt[a].upload : evidence[u] # "shown"
  /\ \A a \in Attempts : attempt[a].pc = "idle" => attempt[a].upload = {}
  /\ record = "AVAILABLE" \/ ~access

ShownGone == ObjectsOf(Shown) \cap stored = {}

(* An invocation of the retention worker that has a list has every photo     *)
(* that is shown on it; once it has removed them they stay away, so that a   *)
(* second one, late with the same list, finds nothing of them any more.      *)
KeeperLists ==
  \A k \in Keepers :
    /\ keeper[k].pc \in {"remove", "finalize"} => ~access
    /\ keeper[k].pc = "remove" => ObjectsOf(Shown) \subseteq keeper[k].keys
    /\ keeper[k].pc = "remove" /\ record # "PURGING" => ShownGone
    /\ keeper[k].pc = "finalize" => ShownGone

IInv == Types /\ ListedIsOver /\ AfterAccess /\ KeeperLists /\ PaidRecordKept

Tables == <<photos, life>>
--------------------------------------------------------------------------
LEMMA InitIInv == ASSUME ConstantsFit PROVE Init => IInv
  <1> SUFFICES ASSUME Init PROVE IInv
    OBVIOUS
  <1>1. RowsOK /\ ObjectsOK /\ PurgeOK /\ RecordOK
    BY DEF Init, RowsOK, RowStates, ObjectsOK, Attempt, NoAttempt, PurgeOK, Purging, NoPurge,
           RecordOK, NoJob, Keeper, NoKeeper
  <1>2. ListedIsOver /\ AfterAccess /\ KeeperLists /\ PaidRecordKept
    BY DEF Init, ListedIsOver, AfterAccess, KeeperLists, PaidRecordKept, NoPurge, NoAttempt, NoKeeper
  <1> QED BY <1>1, <1>2 DEF IInv, Types

LEMMA TypesImplyTypeOK == Types => TypeOK
  BY DEF Types, RowsOK, ObjectsOK, RecordOK, TypeOK, Attempt
--------------------------------------------------------------------------
(* Types                                                                    *)

LEMMA RowsStep ==
  ASSUME RowsOK, ObjectsOK, Next \/ UNCHANGED Tables
  PROVE  RowsOK'
  <1>1. ASSUME NEW a \in Attempts, NEW u \in Uploads, Reserve(a, u)
        PROVE  RowsOK'
    BY <1>1 DEF Reserve, RowsOK, RowStates
  <1>2. ASSUME NEW a \in Attempts, Complete(a)
        PROVE  RowsOK'
    <2>1. attempt[a].upload \subseteq Uploads
      BY DEF ObjectsOK, Attempt
    <2> QED BY <1>2, <2>1 DEF Complete, RowsOK, RowStates
  <1>3. ASSUME NEW us \in SUBSET Ready, NEW kept, Bind(us, kept)
        PROVE  RowsOK'
    <2>1. us \subseteq Uploads /\ \A u \in us : row[u] = "READY"
      BY DEF Ready
    <2>2. /\ row' \in [Uploads -> RowStates] /\ named' = named
          /\ evidence' \in [Uploads -> {"none", "shown", "removed", "purged"}]
      BY <1>3 DEF Bind, RowsOK, RowStates
    <2>3. ASSUME NEW u \in Uploads
          PROVE  /\ row'[u] \in {"READY", "BOUND"} => u \in named
                 /\ evidence'[u] # "none" => row'[u] = "BOUND"
      <3>1. row'[u] = IF u \in us THEN "BOUND" ELSE row[u]
        BY <1>3 DEF Bind
      <3>2. u \in us \/ evidence'[u] = evidence[u] \/ evidence[u] = "shown"
        BY <1>3 DEF Bind
      <3> QED BY <2>1, <3>1, <3>2 DEF RowsOK
    <2> QED BY <2>2, <2>3 DEF RowsOK
  <1>4. ASSUME NEW u \in Uploads, DiscardRow(u)
        PROVE  RowsOK'
    BY <1>4 DEF DiscardRow, RowsOK, RowStates
  <1>5. CASE PurgeComplete
    BY <1>5 DEF PurgeComplete, RowsOK, RowStates
  <1>6. ASSUME NEW k \in Keepers, Finalize(k)
        PROVE  RowsOK'
    BY <1>6 DEF Finalize, RowsOK, RowStates
  <1>7. ASSUME UNCHANGED <<row, named, evidence>>
        PROVE  RowsOK'
    BY <1>7 DEF RowsOK
  <1>8. ASSUME NEW a \in Attempts, Store(a) \/ StoreFails(a) \/ CleanUp(a) \/ AttemptEnds(a)
        PROVE  UNCHANGED <<row, named, evidence>>
    BY <1>8 DEF Store, StoreFails, CleanUp, AttemptEnds
  <1>9. ASSUME NEW u \in Uploads, PurgeTarget(u)
        PROVE  UNCHANGED <<row, named, evidence>>
    BY <1>9 DEF PurgeTarget
  <1>10. ASSUME NEW k \in Keepers, Maintain(k) \/ Claim(k) \/ RemoveObjects(k) \/ KeeperDies(k)
         PROVE  UNCHANGED <<row, named, evidence>>
    BY <1>10 DEF Maintain, Claim, RemoveObjects, KeeperDies, photos
  <1>11. ASSUME \/ DiscardObjects \/ PurgeList \/ PurgeDies \/ WindowCloses \/ AccessEnds
                \/ GrantCheck \/ GrantCommit \/ LeaseEnds \/ UNCHANGED Tables
         PROVE  UNCHANGED <<row, named, evidence>>
    BY <1>11 DEF DiscardObjects, PurgeList, PurgeDies, WindowCloses, AccessEnds, GrantCheck,
                 GrantCommit, LeaseEnds, Tables, photos
  <1>12. CASE Submit \/ Revise
    BY <1>3, <1>12 DEF Submit, Revise
  <1> QED BY <1>1, <1>2, <1>4, <1>5, <1>6, <1>7, <1>8, <1>9, <1>10, <1>11, <1>12
          DEF Next, UploadStep, PurgeStep, KeeperStep

LEMMA ObjectsStep ==
  ASSUME ObjectsOK, RowsOK, Next \/ UNCHANGED Tables
  PROVE  ObjectsOK'
  <1>1. ASSUME NEW a \in Attempts, NEW u \in Uploads, Reserve(a, u)
        PROVE  ObjectsOK'
    BY <1>1 DEF Reserve, ObjectsOK, Attempt
  <1>2. ASSUME NEW a \in Attempts, Store(a)
        PROVE  ObjectsOK'
    <2> DEFINE key == attempt[a].upload \X {attempt[a].pc}
               new == [attempt[a] EXCEPT !.pc = After(@), !.put = @ \cup key]
    <2>1. attempt[a] \in Attempt /\ attempt[a].pc \in Parts
      BY <1>2 DEF ObjectsOK, Store
    <2>2. key \subseteq Objects
      BY <2>1 DEF Objects, Attempt
    <2> HIDE DEF key
    <2>3. After(attempt[a].pc) \in {"thumb", "complete"}
      BY DEF After
    <2>4. new \in Attempt
      BY <2>1, <2>2, <2>3 DEF Attempt
    <2>5. attempt' = [attempt EXCEPT ![a] = new]
      BY <1>2 DEF Store, key
    <2>6. stored' = stored \cup key /\ discarding' = discarding
      BY <1>2 DEF Store, key
    <2> HIDE DEF new
    <2> QED BY <2>2, <2>4, <2>5, <2>6 DEF ObjectsOK
  <1>3. ASSUME NEW a \in Attempts, StoreFails(a)
        PROVE  ObjectsOK'
    <2>1. attempt[a] \in Attempt /\ attempt[a].pc \in Parts
      BY <1>3 DEF ObjectsOK, StoreFails
    <2>2. attempt[a].upload \X {attempt[a].pc} \subseteq Objects
      BY <2>1 DEF Objects, Attempt
    <2>3. attempt' = [attempt EXCEPT ![a] = [attempt[a] EXCEPT !.pc = "clean up"]]
          /\ discarding' = discarding
          /\ \/ stored' = stored
             \/ stored' = stored \cup (attempt[a].upload \X {attempt[a].pc})
      BY <1>3 DEF StoreFails
    <2>4. [attempt[a] EXCEPT !.pc = "clean up"] \in Attempt
      BY <2>1 DEF Attempt
    <2> QED BY <2>2, <2>3, <2>4 DEF ObjectsOK
  <1>4. ASSUME NEW a \in Attempts, CleanUp(a) \/ Complete(a) \/ AttemptEnds(a)
        PROVE  ObjectsOK'
    <2>1. NoAttempt \in Attempt
      BY DEF NoAttempt, Attempt
    <2> QED BY <1>4, <2>1 DEF CleanUp, Complete, AttemptEnds, ObjectsOK
  <1>5. ASSUME NEW u \in Uploads, DiscardRow(u)
        PROVE  ObjectsOK'
    <2>1. ObjectsOf({u} \cap named) \subseteq Objects
      BY DEF ObjectsOf, Objects
    <2> QED BY <1>5, <2>1 DEF DiscardRow, ObjectsOK
  <1>6. CASE DiscardObjects
    BY <1>6 DEF DiscardObjects, ObjectsOK
  <1>7. ASSUME NEW u \in Uploads, PurgeTarget(u)
        PROVE  ObjectsOK'
    BY <1>7 DEF PurgeTarget, ObjectsOK
  <1>8. ASSUME NEW k \in Keepers, RemoveObjects(k)
        PROVE  ObjectsOK'
    BY <1>8 DEF RemoveObjects, ObjectsOK
  <1>9. ASSUME UNCHANGED <<stored, attempt, discarding>>
        PROVE  ObjectsOK'
    BY <1>9 DEF ObjectsOK
  <1>10. ASSUME NEW k \in Keepers, Maintain(k) \/ Claim(k) \/ Finalize(k) \/ KeeperDies(k)
         PROVE  UNCHANGED <<stored, attempt, discarding>>
    BY <1>10 DEF Maintain, Claim, Finalize, KeeperDies, photos
  <1>11. ASSUME \/ Submit \/ Revise \/ PurgeList \/ PurgeComplete \/ PurgeDies
                \/ WindowCloses \/ AccessEnds \/ GrantCheck \/ GrantCommit \/ LeaseEnds
                \/ UNCHANGED Tables
         PROVE  UNCHANGED <<stored, attempt, discarding>>
    BY <1>11 DEF Submit, Revise, Bind, PurgeList, PurgeComplete, PurgeDies, WindowCloses,
                 AccessEnds, GrantCheck, GrantCommit, LeaseEnds, Tables, photos
  <1> QED BY <1>1, <1>2, <1>3, <1>4, <1>5, <1>6, <1>7, <1>8, <1>9, <1>10, <1>11
          DEF Next, UploadStep, PurgeStep, KeeperStep

LEMMA PurgeTypeStep ==
  ASSUME PurgeOK, Next \/ UNCHANGED Tables
  PROVE  PurgeOK'
  <1>1. CASE PurgeList
    <2> DEFINE evidences == {u \in Uploads : evidence[u] = "removed"}
    <2>1. ObjectsOf(evidences \cup (UploadTargets \cap named)) \subseteq Objects
      BY DEF ObjectsOf, Objects, UploadTargets
    <2>2. UploadTargets \subseteq Uploads
      BY DEF UploadTargets
    <2> QED BY <1>1, <2>1, <2>2 DEF PurgeList, PurgeOK, Purging
  <1>2. ASSUME NEW u \in Uploads, PurgeTarget(u)
        PROVE  PurgeOK'
    <2> DEFINE left == [purge EXCEPT !.evidences = @ \ {u}, !.uploads = @ \ {u}]
    <2>1. left \in Purging /\ left.gone = purge.gone
      BY DEF PurgeOK, Purging
    <2>2. <<u, u \in purge.evidences>> \in Uploads \X BOOLEAN
      <3>1. (u \in purge.evidences) \in BOOLEAN
        OBVIOUS
      <3> QED BY <3>1
    <2>3. purge' = left \/ purge' = [left EXCEPT !.gone = @ \cup {<<u, u \in purge.evidences>>}]
      BY <1>2 DEF PurgeTarget
    <2> HIDE DEF left
    <2> QED BY <2>1, <2>2, <2>3 DEF PurgeOK, Purging
  <1>3. CASE PurgeComplete \/ PurgeDies
    <2>1. NoPurge \in Purging
      BY DEF NoPurge, Purging
    <2> QED BY <1>3, <2>1 DEF PurgeComplete, PurgeDies, PurgeOK
  <1>4. ASSUME UNCHANGED purge
        PROVE  PurgeOK'
    BY <1>4 DEF PurgeOK
  <1>5. ASSUME NEW a \in Attempts, UploadStep(a) \/ \E u \in Uploads : Reserve(a, u)
        PROVE  UNCHANGED purge
    BY <1>5 DEF UploadStep, Reserve, Store, StoreFails, CleanUp, Complete, AttemptEnds
  <1>6. ASSUME NEW k \in Keepers, KeeperStep(k) \/ KeeperDies(k)
        PROVE  UNCHANGED purge
    BY <1>6 DEF KeeperStep, Maintain, Claim, RemoveObjects, Finalize, KeeperDies, photos
  <1>7. ASSUME \/ Submit \/ Revise \/ DiscardObjects \/ (\E u \in Uploads : DiscardRow(u))
               \/ WindowCloses \/ AccessEnds \/ GrantCheck \/ GrantCommit \/ LeaseEnds
               \/ UNCHANGED Tables
        PROVE  UNCHANGED purge
    BY <1>7 DEF Submit, Revise, Bind, DiscardObjects, DiscardRow, WindowCloses, AccessEnds,
                GrantCheck, GrantCommit, LeaseEnds, Tables, photos
  <1> QED BY <1>1, <1>2, <1>3, <1>4, <1>5, <1>6, <1>7 DEF Next, PurgeStep

LEMMA RecordStep ==
  ASSUME RecordOK, RowsOK, Next \/ UNCHANGED Tables
  PROVE  RecordOK'
  <1> DEFINE Rec == <<window, access, paid, record, job, keeper>>
  <1>0. NoKeeper \in Keeper
    BY DEF NoKeeper, Keeper
  <1>1. CASE WindowCloses \/ AccessEnds \/ GrantCommit
    BY <1>1 DEF WindowCloses, AccessEnds, GrantCommit, RecordOK
  <1>2. ASSUME NEW k \in Keepers, Maintain(k)
        PROVE  RecordOK'
    <2>1. [NoKeeper EXCEPT !.pc = "claim"] \in Keeper
      BY DEF NoKeeper, Keeper
    <2> QED BY <1>2, <2>1 DEF Maintain, RecordOK, NoJob
  <1>3. ASSUME NEW k \in Keepers, Claim(k)
        PROVE  RecordOK'
    <2>1. NamedObjects \subseteq Objects
      BY DEF NamedObjects, ObjectsOf, Objects, RowsOK
    <2>2. [pc |-> "remove", keys |-> NamedObjects] \in Keeper
      BY <2>1 DEF Keeper
    <2>3. Claimable => job.status # "none"
      BY DEF Claimable
    <2>4. keeper' \in [Keepers -> Keeper]
      BY <1>0, <1>3, <2>2 DEF Claim, RecordOK
    <2>5. [status |-> "LEASED", lease |-> k, lapsed |-> FALSE]
            \in [status : {"none", "PENDING", "LEASED"}, lease : Keepers \cup {NoOne},
                lapsed : BOOLEAN]
      OBVIOUS
    <2>6. CASE Claimable
      BY <1>3, <2>3, <2>4, <2>5, <2>6 DEF Claim, RecordOK
    <2>7. CASE ~Claimable
      BY <1>3, <2>4, <2>7 DEF Claim, RecordOK
    <2> QED BY <2>6, <2>7
  <1>4. ASSUME NEW k \in Keepers, RemoveObjects(k)
        PROVE  RecordOK'
    <2>1. [NoKeeper EXCEPT !.pc = "finalize"] \in Keeper
      BY DEF NoKeeper, Keeper
    <2> QED BY <1>0, <1>4, <2>1 DEF RemoveObjects, RecordOK
  <1>5. ASSUME NEW k \in Keepers, Finalize(k)
        PROVE  RecordOK'
    <2>1. NoJob \in [status : {"none", "PENDING", "LEASED"}, lease : Keepers \cup {NoOne},
                     lapsed : BOOLEAN]
          /\ NoJob.status = "none"
      BY DEF NoJob
    <2> QED BY <1>0, <1>5, <2>1 DEF Finalize, RecordOK
  <1>6. ASSUME NEW k \in Keepers, KeeperDies(k)
        PROVE  RecordOK'
    BY <1>0, <1>6 DEF KeeperDies, RecordOK
  <1>7. CASE LeaseEnds
    <2>1. [job EXCEPT !.lapsed = TRUE] \in [status : {"none", "PENDING", "LEASED"},
                                           lease : Keepers \cup {NoOne}, lapsed : BOOLEAN]
          /\ [job EXCEPT !.lapsed = TRUE].status = job.status
      BY DEF RecordOK
    <2> QED BY <1>7, <2>1 DEF LeaseEnds, RecordOK
  <1>8. ASSUME UNCHANGED Rec
        PROVE  RecordOK'
    BY <1>8 DEF RecordOK
  <1>9. ASSUME NEW a \in Attempts, UploadStep(a) \/ \E u \in Uploads : Reserve(a, u)
        PROVE  UNCHANGED Rec
    BY <1>9 DEF UploadStep, Reserve, Store, StoreFails, CleanUp, Complete, AttemptEnds, life
  <1>10. ASSUME \/ Submit \/ Revise \/ DiscardObjects \/ (\E u \in Uploads : DiscardRow(u))
                \/ PurgeStep \/ PurgeDies \/ GrantCheck \/ UNCHANGED Tables
         PROVE  UNCHANGED Rec
    BY <1>10 DEF Submit, Revise, Bind, DiscardObjects, DiscardRow, PurgeStep, PurgeList,
                 PurgeComplete, PurgeTarget, PurgeDies, GrantCheck, Tables, life
  <1> HIDE DEF Rec
  <1> QED BY <1>1, <1>2, <1>3, <1>4, <1>5, <1>6, <1>7, <1>8, <1>9, <1>10 DEF Next, KeeperStep

LEMMA TypesStep == ASSUME Types, Next \/ UNCHANGED Tables PROVE Types'
  BY RowsStep, ObjectsStep, PurgeTypeStep, RecordStep DEF Types
--------------------------------------------------------------------------
(* What is listed is over                                                   *)

(* What no step does to a row: an upload that was discarded or deleted is    *)
(* never bound any more, a photo that was taken away is never shown again,   *)
(* and once the window is over an upload that was not bound never will be.   *)
Discarded(u) == row[u] \in {"DISCARDED", "deleted"}
Unbindable(u) == Discarded(u) \/ (window = "over" /\ row[u] \in {"PENDING", "READY"})
TakenAway(u) == evidence[u] \in {"removed", "purged"} \/ row[u] = "deleted"
Stays(u) == /\ Discarded(u) => Discarded(u)'
            /\ Unbindable(u) => Unbindable(u)'
            /\ TakenAway(u) => TakenAway(u)'

LEMMA OverStays ==
  ASSUME Types, Next \/ UNCHANGED Tables, NEW u \in Uploads
  PROVE  Stays(u)
  <1> USE DEF Stays, Discarded, Unbindable, TakenAway
  <1>0. /\ row \in [Uploads -> RowStates]
        /\ evidence \in [Uploads -> {"none", "shown", "removed", "purged"}]
        /\ row[u] \in {"READY", "BOUND"} => u \in named
        /\ evidence[u] # "none" => row[u] = "BOUND"
    BY DEF Types, RowsOK
  <1>1. ASSUME NEW a \in Attempts, NEW v \in Uploads, Reserve(a, v)
        PROVE  Stays(u)
    <2>1. /\ row' = [row EXCEPT ![v] = "PENDING"] /\ row[v] \in {"none", "PENDING"}
          /\ evidence' = evidence /\ window' = window
      BY <1>1 DEF Reserve, life
    <2> QED BY <1>0, <2>1
  <1>2. ASSUME NEW a \in Attempts, Complete(a)
        PROVE  Stays(u)
    <2>1. /\ evidence' = evidence /\ window' = window
          /\ row' = row \/ \E v : row' = [row EXCEPT ![v] = "READY"] /\ row[v] = "PENDING"
      BY <1>2 DEF Complete, life
    <2> QED BY <1>0, <2>1
  <1>3. CASE Submit \/ Revise
    <2>1. PICK us \in SUBSET Ready : \E kept : Bind(us, kept)
      BY <1>3 DEF Submit, Revise
    <2> PICK kept : Bind(us, kept)
      BY <2>1
    <2>2. window = "open"
      BY <1>3 DEF Submit, Revise, Checking
    <2>3. row'[u] = IF u \in us THEN "BOUND" ELSE row[u]
      BY <2>1 DEF Bind
    <2>4. CASE u \in us
      <3>1. row[u] = "READY"
        BY <2>4 DEF Ready
      <3> QED BY <1>0, <2>2, <3>1
    <2>5. CASE u \notin us
      <3>1. evidence[u] # "shown" => evidence'[u] = evidence[u]
        BY <2>1, <2>5 DEF Bind
      <3> QED BY <1>0, <2>2, <2>3, <2>5, <3>1
    <2> QED BY <2>4, <2>5
  <1>4. ASSUME NEW v \in Uploads, DiscardRow(v)
        PROVE  Stays(u)
    <2>1. /\ row' = [row EXCEPT ![v] = "DISCARDED"] /\ row[v] \in {"PENDING", "READY", "DISCARDED"}
          /\ evidence' = evidence /\ window' = window
      BY <1>4 DEF DiscardRow, life
    <2> QED BY <1>0, <2>1
  <1>5. CASE PurgeComplete
    <2>1. /\ row'[u] \in {row[u], "deleted"}
          /\ row[u] = "BOUND" => row'[u] = "BOUND"
          /\ evidence'[u] \in {evidence[u], "purged"} /\ window' = window
      BY <1>5 DEF PurgeComplete, life
    <2> QED BY <1>0, <2>1
  <1>6. ASSUME NEW k \in Keepers, Finalize(k)
        PROVE  Stays(u)
    <2>1. /\ window' = window
          /\ \/ row' = row /\ evidence' = evidence
             \/ row'[u] = IF row[u] = "none" THEN "none" ELSE "deleted"
      BY <1>6 DEF Finalize
    <2> QED BY <1>0, <2>1
  <1>7. CASE WindowCloses
    BY <1>7 DEF WindowCloses, photos
  <1>8. ASSUME UNCHANGED <<row, evidence, window>>
        PROVE  Stays(u)
    BY <1>8
  <1>9. ASSUME NEW a \in Attempts, Store(a) \/ StoreFails(a) \/ CleanUp(a) \/ AttemptEnds(a)
        PROVE  UNCHANGED <<row, evidence, window>>
    BY <1>9 DEF Store, StoreFails, CleanUp, AttemptEnds, life
  <1>10. ASSUME NEW v \in Uploads, PurgeTarget(v)
         PROVE  UNCHANGED <<row, evidence, window>>
    BY <1>10 DEF PurgeTarget, life
  <1>11. ASSUME NEW k \in Keepers, Maintain(k) \/ Claim(k) \/ RemoveObjects(k) \/ KeeperDies(k)
         PROVE  UNCHANGED <<row, evidence, window>>
    BY <1>11 DEF Maintain, Claim, RemoveObjects, KeeperDies, photos
  <1>12. ASSUME \/ DiscardObjects \/ PurgeList \/ PurgeDies \/ AccessEnds
                \/ GrantCheck \/ GrantCommit \/ LeaseEnds \/ UNCHANGED Tables
         PROVE  UNCHANGED <<row, evidence, window>>
    BY <1>12 DEF DiscardObjects, PurgeList, PurgeDies, AccessEnds, GrantCheck, GrantCommit,
                 LeaseEnds, Tables, photos, life
  <1> QED BY <1>1, <1>2, <1>3, <1>4, <1>5, <1>6, <1>7, <1>8, <1>9, <1>10, <1>11, <1>12
          DEF Next, UploadStep, PurgeStep, KeeperStep

LEMMA ListedStep ==
  ASSUME Types, ListedIsOver, Next \/ UNCHANGED Tables
  PROVE  ListedIsOver'
  <1>0. /\ \A o \in discarding : o[1] \in Uploads /\ Discarded(o[1])
        /\ purge.evidences \subseteq Uploads /\ \A u \in purge.evidences : TakenAway(u)
        /\ purge.uploads \subseteq Uploads /\ \A u \in purge.uploads : Unbindable(u)
    BY DEF Types, ObjectsOK, Objects, PurgeOK, Purging, ListedIsOver, Discarded, TakenAway, Unbindable
  <1>1. \A u \in Uploads : Stays(u)
    BY OverStays
  <1> SUFFICES /\ \A o \in discarding' : Discarded(o[1])'
               /\ \A u \in purge'.evidences : TakenAway(u)'
               /\ \A u \in purge'.uploads : Unbindable(u)'
    BY DEF ListedIsOver, Discarded, TakenAway, Unbindable
  <1>2. ASSUME discarding' \subseteq discarding, purge'.evidences \subseteq purge.evidences,
               purge'.uploads \subseteq purge.uploads
        PROVE  /\ \A o \in discarding' : Discarded(o[1])'
               /\ \A u \in purge'.evidences : TakenAway(u)'
               /\ \A u \in purge'.uploads : Unbindable(u)'
    BY <1>0, <1>1, <1>2 DEF Stays
  <1>3. ASSUME NEW v \in Uploads, DiscardRow(v)
        PROVE  /\ \A o \in discarding' : Discarded(o[1])'
               /\ purge' = purge
    <2>1. discarding' \subseteq {v} \X Parts /\ purge' = purge /\ row'[v] = "DISCARDED"
      BY <1>3 DEF DiscardRow, ObjectsOf, Types, RowsOK
    <2> QED BY <2>1 DEF Discarded
  <1>4. ASSUME PurgeList
        PROVE  /\ \A u \in purge'.evidences : TakenAway(u)'
               /\ \A u \in purge'.uploads : Unbindable(u)'
               /\ discarding' = discarding
    BY <1>4 DEF PurgeList, TakenAway, Unbindable, Discarded, UploadTargets, Expired, life
  <1>5. ASSUME NEW v \in Uploads, PurgeTarget(v)
        PROVE  /\ discarding' = discarding /\ purge'.evidences \subseteq purge.evidences
               /\ purge'.uploads \subseteq purge.uploads
    <2> DEFINE left == [purge EXCEPT !.evidences = @ \ {v}, !.uploads = @ \ {v}]
    <2>1. left.evidences = purge.evidences \ {v} /\ left.uploads = purge.uploads \ {v}
          /\ left \in Purging
      BY DEF Types, PurgeOK, Purging
    <2>2. purge' = left \/ purge' = [left EXCEPT !.gone = @ \cup {<<v, v \in purge.evidences>>}]
      BY <1>5 DEF PurgeTarget
    <2> HIDE DEF left
    <2> QED BY <1>5, <2>1, <2>2 DEF PurgeTarget, Purging
  <1>6. ASSUME PurgeComplete \/ PurgeDies \/ DiscardObjects
        PROVE  /\ discarding' \subseteq discarding /\ purge'.evidences \subseteq purge.evidences
               /\ purge'.uploads \subseteq purge.uploads
    <2>1. NoPurge.evidences = {} /\ NoPurge.uploads = {}
      BY DEF NoPurge
    <2>2. CASE PurgeComplete \/ PurgeDies
      BY <2>1, <2>2 DEF PurgeComplete, PurgeDies
    <2>3. CASE DiscardObjects
      BY <2>3 DEF DiscardObjects
    <2> QED BY <1>6, <2>2, <2>3
  <1>7. ASSUME NEW a \in Attempts, UploadStep(a) \/ \E u \in Uploads : Reserve(a, u)
        PROVE  UNCHANGED <<discarding, purge>>
    BY <1>7 DEF UploadStep, Reserve, Store, StoreFails, CleanUp, Complete, AttemptEnds
  <1>8. ASSUME NEW k \in Keepers, KeeperStep(k) \/ KeeperDies(k)
        PROVE  UNCHANGED <<discarding, purge>>
    BY <1>8 DEF KeeperStep, Maintain, Claim, RemoveObjects, Finalize, KeeperDies, photos
  <1>9. ASSUME \/ Submit \/ Revise \/ WindowCloses \/ AccessEnds \/ GrantCheck \/ GrantCommit
               \/ LeaseEnds \/ UNCHANGED Tables
        PROVE  UNCHANGED <<discarding, purge>>
    BY <1>9 DEF Submit, Revise, Bind, WindowCloses, AccessEnds, GrantCheck, GrantCommit,
                LeaseEnds, Tables, photos
  <1>10. ASSUME UNCHANGED <<discarding, purge>>
         PROVE  /\ discarding' \subseteq discarding /\ purge'.evidences \subseteq purge.evidences
                /\ purge'.uploads \subseteq purge.uploads
    BY <1>10
  <1>11. CASE \E v \in Uploads : DiscardRow(v)
    BY <1>0, <1>1, <1>3, <1>11 DEF Stays
  <1>12. CASE PurgeList
    BY <1>0, <1>1, <1>4, <1>12 DEF Stays
  <1>13. CASE \E v \in Uploads : PurgeTarget(v)
    BY <1>2, <1>5, <1>13
  <1>14. CASE PurgeComplete \/ PurgeDies \/ DiscardObjects
    BY <1>2, <1>6, <1>14
  <1>15. CASE UNCHANGED <<discarding, purge>>
    BY <1>2, <1>10, <1>15
  <1> QED BY <1>7, <1>8, <1>9, <1>11, <1>12, <1>13, <1>14, <1>15 DEF Next, PurgeStep
--------------------------------------------------------------------------
(* The record's end                                                         *)

(* A photo comes to be shown only while the window is open.                 *)
LEMMA ShownStep ==
  ASSUME Types, Next \/ UNCHANGED Tables
  PROVE  window = "over" => Shown' \subseteq Shown
  <1>1. ASSUME UNCHANGED evidence
        PROVE  Shown' \subseteq Shown
    BY <1>1 DEF Shown
  <1>2. CASE Submit \/ Revise
    BY <1>2 DEF Submit, Revise, Checking
  <1>3. CASE PurgeComplete
    BY <1>3 DEF PurgeComplete, Shown
  <1>4. ASSUME NEW k \in Keepers, Finalize(k)
        PROVE  Shown' \subseteq Shown
    BY <1>4 DEF Finalize, Shown
  <1>5. ASSUME NEW a \in Attempts, UploadStep(a) \/ \E u \in Uploads : Reserve(a, u)
        PROVE  UNCHANGED evidence
    BY <1>5 DEF UploadStep, Reserve, Store, StoreFails, CleanUp, Complete, AttemptEnds
  <1>6. ASSUME NEW k \in Keepers, Maintain(k) \/ Claim(k) \/ RemoveObjects(k) \/ KeeperDies(k)
        PROVE  UNCHANGED evidence
    BY <1>6 DEF Maintain, Claim, RemoveObjects, KeeperDies, photos
  <1>7. ASSUME \/ DiscardObjects \/ (\E u \in Uploads : DiscardRow(u) \/ PurgeTarget(u))
               \/ PurgeList \/ PurgeDies \/ WindowCloses \/ AccessEnds \/ GrantCheck
               \/ GrantCommit \/ LeaseEnds \/ UNCHANGED Tables
        PROVE  UNCHANGED evidence
    BY <1>7 DEF DiscardObjects, DiscardRow, PurgeTarget, PurgeList, PurgeDies, WindowCloses,
                AccessEnds, GrantCheck, GrantCommit, LeaseEnds, Tables, photos
  <1> QED BY <1>1, <1>2, <1>3, <1>4, <1>5, <1>6, <1>7 DEF Next, PurgeStep, KeeperStep

(* The parts of AfterAccess.                                                *)
Uploading(a) == /\ access \/ \A u \in attempt[a].upload : evidence[u] # "shown"
                /\ attempt[a].pc = "idle" => attempt[a].upload = {}

LEMMA UploadingStep ==
  ASSUME Types, AfterAccess, Next \/ UNCHANGED Tables, NEW a \in Attempts
  PROVE  Uploading(a)'
  <1> USE DEF Uploading
  <1>0. /\ attempt \in [Attempts -> Attempt]
        /\ Uploading(a) /\ (access \/ window = "over")
        /\ \A u \in Uploads : row[u] \in {"none", "PENDING"} => evidence[u] # "shown"
        /\ access \in BOOLEAN
    BY DEF Types, RowsOK, ObjectsOK, RecordOK, AfterAccess
  <1>1. ~access => Shown' \subseteq Shown
    BY <1>0, ShownStep
  <1>2. \A u \in Uploads : (u \in Shown) = (evidence[u] = "shown")
                           /\ (u \in Shown') = (evidence'[u] = "shown")
    BY DEF Shown
  <1>3. attempt[a].upload \subseteq Uploads
    BY <1>0 DEF Attempt
  <1>4. CASE attempt'[a] = attempt[a] /\ access' = access
    BY <1>0, <1>1, <1>2, <1>3, <1>4
  <1>5. CASE attempt'[a] = attempt[a] /\ access' # access
    <2>1. attempt[a].pc = "idle"
      <3>1. ~AccessEnds => access' = access
        BY DEF Next, UploadStep, Reserve, Store, StoreFails, CleanUp, Complete, AttemptEnds,
               Submit, Revise, Bind, DiscardObjects, DiscardRow, PurgeStep, PurgeList,
               PurgeTarget, PurgeComplete, PurgeDies, WindowCloses, GrantCheck, GrantCommit,
               LeaseEnds, KeeperStep, Maintain, Claim, RemoveObjects, Finalize, KeeperDies,
               Tables, life
      <3> QED BY <1>5, <3>1 DEF AccessEnds
    <2> QED BY <1>0, <1>5, <2>1
  <1>6. CASE attempt'[a] # attempt[a]
    <2>1. ASSUME NEW v \in Uploads, Reserve(a, v)
          PROVE  Uploading(a)'
      <3>1. /\ attempt'[a] = [pc |-> "full", upload |-> {v}, put |-> {}]
            /\ row[v] \in {"none", "PENDING"} /\ evidence' = evidence
        BY <1>0, <2>1 DEF Reserve
      <3> QED BY <1>0, <3>1
    <2>2. ASSUME Store(a) \/ StoreFails(a)
          PROVE  Uploading(a)'
      <3>1. /\ attempt'[a].upload = attempt[a].upload /\ attempt'[a].pc # "idle"
            /\ evidence' = evidence /\ access' = access
        BY <1>0, <2>2 DEF Store, StoreFails, Attempt, After, life
      <3> QED BY <1>0, <3>1
    <2>3. ASSUME CleanUp(a) \/ Complete(a) \/ AttemptEnds(a)
          PROVE  Uploading(a)'
      <3>1. attempt'[a] = NoAttempt
        BY <1>0, <2>3 DEF CleanUp, Complete, AttemptEnds
      <3> QED BY <3>1 DEF NoAttempt
    <2>4. ASSUME NEW b \in Attempts, b # a, UploadStep(b) \/ \E v \in Uploads : Reserve(b, v)
          PROVE  attempt'[a] = attempt[a]
      BY <1>0, <2>4 DEF UploadStep, Reserve, Store, StoreFails, CleanUp, Complete, AttemptEnds
    <2>5. ASSUME NEW k \in Keepers, KeeperStep(k) \/ KeeperDies(k)
          PROVE  attempt' = attempt
      BY <2>5 DEF KeeperStep, Maintain, Claim, RemoveObjects, Finalize, KeeperDies, photos
    <2>6. ASSUME \/ Submit \/ Revise \/ DiscardObjects \/ (\E u \in Uploads : DiscardRow(u))
                 \/ PurgeStep \/ PurgeDies \/ WindowCloses \/ AccessEnds \/ GrantCheck
                 \/ GrantCommit \/ LeaseEnds \/ UNCHANGED Tables
          PROVE  attempt' = attempt
      BY <2>6 DEF Submit, Revise, Bind, DiscardObjects, DiscardRow, PurgeStep, PurgeList,
                  PurgeTarget, PurgeComplete, PurgeDies, WindowCloses, AccessEnds, GrantCheck,
                  GrantCommit, LeaseEnds, Tables, photos
    <2> QED BY <1>6, <2>1, <2>2, <2>3, <2>4, <2>5, <2>6 DEF Next, UploadStep
  <1> QED BY <1>4, <1>5, <1>6

LEMMA AfterAccessStep ==
  ASSUME Types, AfterAccess, Next \/ UNCHANGED Tables
  PROVE  AfterAccess'
  <1>1. \A a \in Attempts : Uploading(a)'
    BY UploadingStep
  <1>2. (access \/ window = "over") /\ (record = "AVAILABLE" \/ ~access)
    BY DEF AfterAccess
  <1>3. (access \/ window = "over")' /\ (record = "AVAILABLE" \/ ~access)'
    <2>1. CASE UNCHANGED <<window, access, record>>
      BY <1>2, <2>1
    <2>2. CASE WindowCloses \/ AccessEnds
      BY <1>2, <2>2 DEF WindowCloses, AccessEnds
    <2>3. ASSUME NEW k \in Keepers, Maintain(k) \/ Finalize(k)
          PROVE  (access \/ window = "over")' /\ (record = "AVAILABLE" \/ ~access)'
      BY <1>2, <2>3 DEF Maintain, Finalize, MayRead, Regained
    <2>4. ASSUME NEW k \in Keepers, Claim(k) \/ RemoveObjects(k) \/ KeeperDies(k)
          PROVE  UNCHANGED <<window, access, record>>
      BY <2>4 DEF Claim, RemoveObjects, KeeperDies
    <2>5. ASSUME NEW a \in Attempts, UploadStep(a) \/ \E u \in Uploads : Reserve(a, u)
          PROVE  UNCHANGED <<window, access, record>>
      BY <2>5 DEF UploadStep, Reserve, Store, StoreFails, CleanUp, Complete, AttemptEnds, life
    <2>6. ASSUME \/ Submit \/ Revise \/ DiscardObjects \/ (\E u \in Uploads : DiscardRow(u))
                 \/ PurgeStep \/ PurgeDies \/ GrantCheck \/ GrantCommit \/ LeaseEnds
                 \/ UNCHANGED Tables
          PROVE  UNCHANGED <<window, access, record>>
      BY <2>6 DEF Submit, Revise, Bind, DiscardObjects, DiscardRow, PurgeStep, PurgeList,
                  PurgeTarget, PurgeComplete, PurgeDies, GrantCheck, GrantCommit, LeaseEnds,
                  Tables, life
    <2> QED BY <2>1, <2>2, <2>3, <2>4, <2>5, <2>6 DEF Next, KeeperStep
  <1> QED BY <1>1, <1>3 DEF AfterAccess, Uploading

(* Nothing of a photo that is shown is written any more once nobody may read *)
(* the record: its upload is not under way.                                 *)
LEMMA StoredStep ==
  ASSUME Types, AfterAccess, ~access, Next \/ UNCHANGED Tables
  PROVE  ObjectsOf(Shown) \cap stored' \subseteq stored
  <1>1. ASSUME NEW a \in Attempts, Store(a) \/ StoreFails(a)
        PROVE  ObjectsOf(Shown) \cap stored' \subseteq stored
    <2>1. \A u \in attempt[a].upload : u \notin Shown
      BY DEF AfterAccess, Shown
    <2>2. stored' \subseteq stored \cup (attempt[a].upload \X {attempt[a].pc})
      BY <1>1 DEF Store, StoreFails
    <2> QED BY <2>1, <2>2 DEF ObjectsOf
  <1>2. ASSUME stored' \subseteq stored
        PROVE  ObjectsOf(Shown) \cap stored' \subseteq stored
    BY <1>2
  <1>3. ASSUME NEW a \in Attempts,
               CleanUp(a) \/ Complete(a) \/ AttemptEnds(a) \/ \E u \in Uploads : Reserve(a, u)
        PROVE  stored' \subseteq stored
    BY <1>3 DEF Reserve, CleanUp, Complete, AttemptEnds
  <1>4. ASSUME NEW k \in Keepers, KeeperStep(k) \/ KeeperDies(k)
        PROVE  stored' \subseteq stored
    BY <1>4 DEF KeeperStep, Maintain, Claim, RemoveObjects, Finalize, KeeperDies, photos
  <1>5. ASSUME \/ Submit \/ Revise \/ DiscardObjects \/ (\E u \in Uploads : DiscardRow(u))
               \/ PurgeStep \/ PurgeDies \/ WindowCloses \/ AccessEnds \/ GrantCheck
               \/ GrantCommit \/ LeaseEnds \/ UNCHANGED Tables
        PROVE  stored' \subseteq stored
    BY <1>5 DEF Submit, Revise, Bind, DiscardObjects, DiscardRow, PurgeStep, PurgeList,
                PurgeTarget, PurgeComplete, PurgeDies, WindowCloses, AccessEnds, GrantCheck,
                GrantCommit, LeaseEnds, Tables, photos
  <1> QED BY <1>1, <1>2, <1>3, <1>4, <1>5 DEF Next, UploadStep

LEMMA AccessStep ==
  ASSUME Next \/ UNCHANGED Tables
  PROVE  access' = access \/ AccessEnds
  BY DEF Next, UploadStep, Reserve, Store, StoreFails, CleanUp, Complete, AttemptEnds, Submit,
         Revise, Bind, DiscardObjects, DiscardRow, PurgeStep, PurgeList, PurgeTarget,
         PurgeComplete, PurgeDies, WindowCloses, GrantCheck, GrantCommit, LeaseEnds, KeeperStep,
         Maintain, Claim, RemoveObjects, Finalize, KeeperDies, Tables, life

LEMMA ShownGoneStays ==
  ASSUME Types, AfterAccess, ~access, ShownGone, Next \/ UNCHANGED Tables
  PROVE  ShownGone'
  <1>1. Shown' \subseteq Shown
    BY ShownStep DEF AfterAccess
  <1>2. ObjectsOf(Shown) \cap stored' \subseteq stored
    BY StoredStep
  <1>3. ObjectsOf(Shown)' \subseteq ObjectsOf(Shown)
    BY <1>1 DEF ObjectsOf
  <1> QED BY <1>2, <1>3 DEF ShownGone

(* The part of KeeperLists that is about one invocation.                    *)
Keeping(k) == /\ keeper[k].pc \in {"remove", "finalize"} => ~access
              /\ keeper[k].pc = "remove" => ObjectsOf(Shown) \subseteq keeper[k].keys
              /\ keeper[k].pc = "remove" /\ record # "PURGING" => ShownGone
              /\ keeper[k].pc = "finalize" => ShownGone

LEMMA KeepingStep ==
  ASSUME Types, AfterAccess, KeeperLists, Next \/ UNCHANGED Tables, NEW k \in Keepers
  PROVE  Keeping(k)'
  <1>0. Keeping(k) /\ keeper \in [Keepers -> Keeper] /\ access \in BOOLEAN
    BY DEF KeeperLists, Keeping, Types, RecordOK
  <1>1. ~access => ~access'
    BY AccessStep DEF AccessEnds
  <1>2. ~access => Shown' \subseteq Shown /\ ObjectsOf(Shown)' \subseteq ObjectsOf(Shown)
    BY ShownStep DEF AfterAccess, ObjectsOf
  <1>3. ~access /\ ShownGone => ShownGone'
    BY ShownGoneStays
  <1>4. ASSUME keeper'[k].pc \in {"idle", "claim"}
        PROVE  Keeping(k)'
    BY <1>4 DEF Keeping
  <1>5. ASSUME keeper'[k] = keeper[k],
               keeper[k].pc = "remove" /\ record' # "PURGING" => record # "PURGING" \/ ShownGone
        PROVE  Keeping(k)'
    BY <1>0, <1>1, <1>2, <1>3, <1>5 DEF Keeping
  <1>6. CASE Maintain(k)
    BY <1>0, <1>4, <1>6 DEF Maintain, NoKeeper
  <1>7. CASE Claim(k)
    <2>1. CASE ~Claimable
      BY <1>0, <1>4, <1>7, <2>1 DEF Claim, NoKeeper
    <2>2. CASE Claimable
      <3>1. record = "PURGING" /\ ~access
        BY <2>2 DEF Claimable, Types, RecordOK, AfterAccess
      <3>2. /\ keeper'[k] = [pc |-> "remove", keys |-> NamedObjects]
            /\ record' = record /\ access' = access /\ evidence' = evidence
        BY <1>0, <1>7, <2>2 DEF Claim, photos
      <3>3. ObjectsOf(Shown)' \subseteq NamedObjects
        BY <3>2 DEF ObjectsOf, Shown, NamedObjects
      <3> QED BY <3>1, <3>2, <3>3 DEF Keeping
    <2> QED BY <2>1, <2>2
  <1>8. CASE RemoveObjects(k)
    <2>1. CASE keeper' = [keeper EXCEPT ![k] = NoKeeper]
      BY <1>0, <1>4, <2>1 DEF NoKeeper
    <2>2. CASE keeper' # [keeper EXCEPT ![k] = NoKeeper]
      <3>1. /\ keeper[k].pc = "remove" /\ stored' = stored \ keeper[k].keys
            /\ keeper'[k].pc = "finalize" /\ evidence' = evidence
        BY <1>0, <1>8, <2>2 DEF RemoveObjects, NoKeeper
      <3>2. ~access' /\ ObjectsOf(Shown) \subseteq keeper[k].keys
        BY <1>0, <1>1, <3>1 DEF Keeping
      <3>3. ShownGone'
        BY <3>1, <3>2 DEF ShownGone, ObjectsOf, Shown
      <3> QED BY <3>1, <3>2, <3>3 DEF Keeping
    <2> QED BY <2>1, <2>2
  <1>9. CASE Finalize(k) \/ KeeperDies(k)
    BY <1>0, <1>4, <1>9 DEF Finalize, KeeperDies, NoKeeper
  <1>10. ASSUME NEW j \in Keepers, j # k, Finalize(j)
         PROVE  Keeping(k)'
    <2>1. keeper[j].pc = "finalize" /\ keeper'[k] = keeper[k]
      BY <1>0, <1>10 DEF Finalize
    <2>2. ShownGone
      BY <2>1 DEF KeeperLists
    <2> QED BY <1>5, <2>1, <2>2
  <1>11. ASSUME NEW j \in Keepers, j # k,
                Maintain(j) \/ Claim(j) \/ RemoveObjects(j) \/ KeeperDies(j)
         PROVE  /\ keeper'[k] = keeper[k]
                /\ record' = record \/ record' = "PURGING"
    BY <1>0, <1>11 DEF Maintain, Claim, RemoveObjects, KeeperDies
  <1>12. ASSUME NEW a \in Attempts, UploadStep(a) \/ \E u \in Uploads : Reserve(a, u)
         PROVE  UNCHANGED <<keeper, record>>
    BY <1>12 DEF UploadStep, Reserve, Store, StoreFails, CleanUp, Complete, AttemptEnds, life
  <1>13. ASSUME \/ Submit \/ Revise \/ DiscardObjects \/ (\E u \in Uploads : DiscardRow(u))
                \/ PurgeStep \/ PurgeDies \/ WindowCloses \/ AccessEnds \/ GrantCheck
                \/ GrantCommit \/ LeaseEnds \/ UNCHANGED Tables
         PROVE  UNCHANGED <<keeper, record>>
    BY <1>13 DEF Submit, Revise, Bind, DiscardObjects, DiscardRow, PurgeStep, PurgeList,
                 PurgeTarget, PurgeComplete, PurgeDies, WindowCloses, AccessEnds, GrantCheck,
                 GrantCommit, LeaseEnds, Tables, life
  <1> QED BY <1>5, <1>6, <1>7, <1>8, <1>9, <1>10, <1>11, <1>12, <1>13 DEF Next, KeeperStep

LEMMA KeeperListsStep ==
  ASSUME Types, AfterAccess, KeeperLists, Next \/ UNCHANGED Tables
  PROVE  KeeperLists'
  BY KeepingStep DEF KeeperLists, Keeping

LEMMA PaidStep ==
  ASSUME RecordOK, PaidRecordKept, Next \/ UNCHANGED Tables
  PROVE  PaidRecordKept'
  <1>1. ASSUME UNCHANGED <<paid, record>>
        PROVE  PaidRecordKept'
    BY <1>1 DEF PaidRecordKept
  <1>2. CASE GrantCommit
    BY <1>2 DEF GrantCommit, PaidRecordKept
  <1>3. ASSUME NEW k \in Keepers, Maintain(k) \/ Finalize(k)
        PROVE  PaidRecordKept'
    BY <1>3 DEF Maintain, Finalize, Regained, PaidRecordKept
  <1>4. ASSUME NEW k \in Keepers, Claim(k) \/ RemoveObjects(k) \/ KeeperDies(k)
        PROVE  UNCHANGED <<paid, record>>
    BY <1>4 DEF Claim, RemoveObjects, KeeperDies
  <1>5. ASSUME NEW a \in Attempts, UploadStep(a) \/ \E u \in Uploads : Reserve(a, u)
        PROVE  UNCHANGED <<paid, record>>
    BY <1>5 DEF UploadStep, Reserve, Store, StoreFails, CleanUp, Complete, AttemptEnds, life
  <1>6. ASSUME \/ Submit \/ Revise \/ DiscardObjects \/ (\E u \in Uploads : DiscardRow(u))
               \/ PurgeStep \/ PurgeDies \/ WindowCloses \/ AccessEnds \/ GrantCheck
               \/ LeaseEnds \/ UNCHANGED Tables
        PROVE  UNCHANGED <<paid, record>>
    BY <1>6 DEF Submit, Revise, Bind, DiscardObjects, DiscardRow, PurgeStep, PurgeList,
                PurgeTarget, PurgeComplete, PurgeDies, WindowCloses, AccessEnds, GrantCheck,
                LeaseEnds, Tables, life
  <1> QED BY <1>1, <1>2, <1>3, <1>4, <1>5, <1>6 DEF Next, KeeperStep

(* The count of faults, which other services share, moves one at a time.      *)
LEMMA FaultsStep == ASSUME Next PROVE faults' = faults \/ faults' = faults + 1
  <1>1. ASSUME NEW a \in Attempts, NEW u \in Uploads, Reserve(a, u)
        PROVE  faults' = faults
    BY <1>1 DEF Reserve
  <1>2. ASSUME NEW a \in Attempts, Store(a) \/ CleanUp(a) \/ Complete(a)
        PROVE  faults' = faults
    BY <1>2 DEF Store, CleanUp, Complete
  <1>3. ASSUME NEW a \in Attempts, StoreFails(a) \/ AttemptEnds(a)
        PROVE  faults' = faults + 1
    BY <1>3 DEF StoreFails, AttemptEnds, Fault
  <1>4. ASSUME Submit \/ Revise \/ PurgeList \/ PurgeComplete \/ \E u \in Uploads : DiscardRow(u)
        PROVE  faults' = faults
    BY <1>4 DEF Submit, Revise, Bind, PurgeList, PurgeComplete, DiscardRow
  <1>5. ASSUME DiscardObjects \/ PurgeDies \/ \E u \in Uploads : PurgeTarget(u)
        PROVE  faults' = faults \/ faults' = faults + 1
    BY <1>5 DEF DiscardObjects, PurgeDies, PurgeTarget, Fault
  <1>6. ASSUME WindowCloses \/ AccessEnds \/ GrantCheck \/ GrantCommit
        PROVE  faults' = faults
    BY <1>6 DEF WindowCloses, AccessEnds, GrantCheck, GrantCommit
  <1>7. ASSUME LeaseEnds
        PROVE  faults' = faults \/ faults' = faults + 1
    BY <1>7 DEF LeaseEnds, Fault
  <1>8. ASSUME NEW k \in Keepers, Maintain(k) \/ Claim(k) \/ Finalize(k)
        PROVE  faults' = faults
    BY <1>8 DEF Maintain, Claim, Finalize
  <1>9. ASSUME NEW k \in Keepers, RemoveObjects(k) \/ KeeperDies(k)
        PROVE  faults' = faults \/ faults' = faults + 1
    BY <1>9 DEF RemoveObjects, KeeperDies, Fault
  <1> QED BY <1>1, <1>2, <1>3, <1>4, <1>5, <1>6, <1>7, <1>8, <1>9
          DEF Next, UploadStep, PurgeStep, KeeperStep

LEMMA StepIInv == ASSUME IInv, Next \/ UNCHANGED Tables PROVE IInv'
  BY TypesStep, ListedStep, AfterAccessStep, KeeperListsStep, PaidStep DEF IInv, Types
--------------------------------------------------------------------------
(* The discards and the purge                                               *)

Spares == \A u \in Shown : ObjectsOf({u}) \cap (stored \ stored') # {}
            => record = "PURGING" \/ \E a \in Attempts : attempt'[a] # attempt[a]

LEMMA StepSpares == ASSUME IInv, Next \/ UNCHANGED Tables PROVE Spares
  <1>0. /\ Types /\ ListedIsOver /\ KeeperLists
        /\ \A u \in Shown : row[u] = "BOUND" /\ evidence[u] = "shown"
    BY DEF IInv, Types, RowsOK, Shown
  <1> SUFFICES ASSUME NEW u \in Shown, ObjectsOf({u}) \cap (stored \ stored') # {}
               PROVE  record = "PURGING" \/ \E a \in Attempts : attempt'[a] # attempt[a]
    BY DEF Spares
  <1>1. PICK o \in ObjectsOf({u}) : o \in stored /\ o \notin stored'
    OBVIOUS
  <1>2. o[1] = u
    BY DEF ObjectsOf
  <1>3. ASSUME NEW a \in Attempts, CleanUp(a)
        PROVE  attempt'[a] # attempt[a]
    <2>1. attempt'[a] = NoAttempt /\ attempt[a].pc = "clean up"
      BY <1>0, <1>3 DEF CleanUp, Types, ObjectsOK
    <2>2. NoAttempt.pc = "idle"
      BY DEF NoAttempt
    <2> QED BY <2>1, <2>2
  <1>4. ~DiscardObjects
    <2>1. DiscardObjects => o \in discarding
      BY <1>1 DEF DiscardObjects
    <2> QED BY <1>0, <1>2, <2>1 DEF ListedIsOver
  <1>5. ASSUME NEW v \in Uploads, PurgeTarget(v)
        PROVE  FALSE
    <2>1. o \in ObjectsOf({v}) /\ v \in purge.evidences \cup purge.uploads
      BY <1>1, <1>5 DEF PurgeTarget
    <2>2. v = u
      BY <1>2, <2>1 DEF ObjectsOf
    <2> QED BY <1>0, <2>1, <2>2 DEF ListedIsOver
  <1>6. ASSUME NEW k \in Keepers, RemoveObjects(k)
        PROVE  record = "PURGING"
    <2>1. keeper[k].pc = "remove" /\ o \in ObjectsOf(Shown) \cap stored
      BY <1>1, <1>6 DEF RemoveObjects, ObjectsOf
    <2> QED BY <1>0, <2>1 DEF KeeperLists, ShownGone
  <1>7. ASSUME NEW a \in Attempts,
               \/ Store(a) \/ StoreFails(a) \/ Complete(a) \/ AttemptEnds(a)
               \/ \E v \in Uploads : Reserve(a, v)
        PROVE  stored \subseteq stored'
    BY <1>7 DEF Reserve, Store, StoreFails, Complete, AttemptEnds
  <1>8. ASSUME NEW k \in Keepers, Maintain(k) \/ Claim(k) \/ Finalize(k) \/ KeeperDies(k)
        PROVE  stored \subseteq stored'
    BY <1>8 DEF Maintain, Claim, Finalize, KeeperDies, photos
  <1>9. ASSUME \/ Submit \/ Revise \/ (\E v \in Uploads : DiscardRow(v))
               \/ PurgeList \/ PurgeComplete \/ PurgeDies \/ WindowCloses \/ AccessEnds
               \/ GrantCheck \/ GrantCommit \/ LeaseEnds \/ UNCHANGED Tables
        PROVE  stored \subseteq stored'
    BY <1>9 DEF Submit, Revise, Bind, DiscardRow, PurgeList, PurgeComplete, PurgeDies,
                WindowCloses, AccessEnds, GrantCheck, GrantCommit, LeaseEnds, Tables, photos
  <1> QED BY <1>1, <1>3, <1>4, <1>5, <1>6, <1>7, <1>8, <1>9
          DEF Next, UploadStep, PurgeStep, KeeperStep
--------------------------------------------------------------------------
(* The record and its photos keep to the inductive invariant.               *)
THEOREM Inductive == ASSUME ConstantsFit PROVE Spec => []IInv
  <1>1. Init => IInv
    BY InitIInv
  <1>2. IInv /\ [Next]_vars => IInv'
    BY StepIInv DEF vars, Tables, photos, life
  <1> QED BY <1>1, <1>2, PTL DEF Spec

(* The tables have their types: a READY or BOUND upload names its objects, a *)
(* photo that was shown comes from a bound upload, a job exists exactly      *)
(* while the record is being purged.                                        *)
THEOREM TypeCorrect == ASSUME ConstantsFit PROVE Spec => []TypeOK
  <1>1. IInv => TypeOK
    BY TypesImplyTypeOK DEF IInv
  <1> QED BY Inductive, <1>1, PTL

(* The weekly purge and the discards of evidence-discard never take an       *)
(* object of a photo that is shown, however old their lists are.            *)
THEOREM PurgeIsSparing == ASSUME ConstantsFit PROVE Spec => PurgeSparesEvidence
  <1>1. IInv /\ [Next]_vars => [Spares]_vars
    BY StepSpares DEF vars, Tables, photos, life
  <1> QED BY Inductive, <1>1, PTL DEF Spec, PurgeSparesEvidence, Spares

(* A record somebody has bought permanent access to is never erased.        *)
THEOREM PaidIsKept == ASSUME ConstantsFit PROVE Spec => []PaidRecordKept
  <1>1. IInv => PaidRecordKept
    BY DEF IInv
  <1> QED BY Inductive, <1>1, PTL
=============================================================================
