-------------------------- MODULE AnswerScreensProofs --------------------------
(* A screen is told "done" only of what it asked for, for any number of       *)
(* rounds, keys, calls and faults.  The server does not compare a body with    *)
(* the one it answered under the same key, so this rests on the screen: a key  *)
(* it presses again must stand for the same body.  The page compares what it   *)
(* would send; the app forgets its key with every edit, and the one change of   *)
(* its form that is no edit, the draft it fetched, breaks the rule: from then   *)
(* on nothing is claimed until the screen is entered again.                    *)
(* And what was entered on the page can be restored.                          *)
EXTENDS AnswerScreens, TLAPS

Kinds    == {"submit", "reopen"}
Marks    == Answers \cup {"none"}
Bodies   == [kind : Kinds \cup {"none"}, answer : Marks, revise : BOOLEAN, photo : BOOLEAN]
States   == [status : {"CHECKING", "DISPUTED", "COMPLETED", "BROKEN", "UNRESOLVED"},
             round : Rounds, mine : Marks, revised : BOOLEAN, other : Marks]
Forms    == [answer : Marks, revising : BOOLEAN,
             photo : {"none", "uploading", "ready", "failed"}, round : 0 .. MaxRounds]
DraftRows   == [answer : Marks, photo : BOOLEAN] \cup {NoDraft}
Fetched  == [pc : {"none", "asked", "read"}, mine : BOOLEAN, draft : DraftRows]
Intents  == [key : 0 .. MaxKeys, round : 0 .. MaxRounds, body : Bodies]
CallRows == [pc : {"idle", "sent", "answered", "cleared"}, here : BOOLEAN, key : 0 .. MaxKeys,
             round : 0 .. MaxRounds, body : Bodies,
             result : {"none", "ok", "conflict", "lost"}, done : Bodies]

(* What each variable holds; what nothing below depends on is left out.       *)
ServerTypes == promise \in States /\ replies \in [1 .. MaxKeys -> Bodies]
ScreenTypes ==
  /\ client \in {"web", "app"} /\ page \in {"loading", "ready", "error"}
  /\ view \in States /\ form \in Forms
StorageTypes ==
  /\ draft \in [Rounds -> DraftRows] /\ fetch \in [Rounds -> Fetched]
  /\ saves \subseteq [round : Rounds, draft : DraftRows]
CallTypes ==
  /\ keys \in 0 .. MaxKeys
  /\ intents \in [Kinds -> Intents] /\ calls \in [Slots -> CallRows]
  /\ \A s \in Slots : calls[s].pc = "idle" => calls[s] = NoCall
Types == ServerTypes /\ ScreenTypes /\ StorageTypes /\ CallTypes

(* A key that is in use has been made, for one intention.                      *)
Made ==
  /\ \A n \in Kinds : intents[n].key <= keys
  /\ \A n, m \in Kinds : intents[n].key = intents[m].key => n = m \/ intents[n].key = 0
  /\ \A s \in Slots : calls[s].pc # "idle" => calls[s].key \in 1 .. keys /\ calls[s].body.kind \in Kinds
  /\ \A k \in 1 .. MaxKeys : replies[k] # NoBody => k <= keys

(* Nothing but the draft it fetched has changed what the app would press with  *)
(* the key it keeps.                                                         *)
Steady == "draft" \notin late

(* Then whoever carries a key of this screen carries it with the same body:    *)
(* what is kept at the server, the calls under way (also those of the screen   *)
(* as it was before it was left), and what the screen would press again.       *)
OneBody == Steady =>
  /\ \A s, t \in Slots : /\ calls[s].pc # "idle" /\ calls[t].pc # "idle"
                         /\ calls[s].here /\ calls[s].key = calls[t].key
                         => calls[s].body = calls[t].body
  /\ \A s \in Slots : calls[s].pc # "idle" =>
       /\ calls[s].here => replies[calls[s].key] \in {NoBody, calls[s].body}
       /\ \A n \in Kinds : intents[n].key = calls[s].key => intents[n].body = calls[s].body
  /\ \A n \in Kinds : intents[n].key # 0 => replies[intents[n].key] \in {NoBody, intents[n].body}
Told == Steady =>
  \A s \in Slots : calls[s].pc \in {"answered", "cleared"} /\ calls[s].here /\ calls[s].result = "ok"
                    => calls[s].done = calls[s].body

(* The app would press a kept key with the body it stands for.                *)
SentAsShown ==
  /\ intents["reopen"].key # 0 => intents["reopen"].body = Reopening
  /\ Steady /\ client = "app" /\ intents["submit"].key # 0
       => intents["submit"].body = Body /\ form.photo # "uploading"

(* The page fetches and saves nothing in the background, and has every change  *)
(* of the form in storage, unless a submission of the page it was has ended    *)
(* the draft.                                                                *)
AtOnce == client = "web" => /\ Steady /\ saves = {}
                            /\ \A r \in Rounds : fetch[r].pc = "none"
Stored == client = "web" /\ "done" \notin late /\ form.round # 0 => draft[form.round] = Kept(form)

IInv == Types /\ Made /\ OneBody /\ Told /\ SentAsShown /\ AtOnce /\ Stored
Tables == <<promise, photo, replies, client, page, view, form, draft, restored, fetch, saves,
            intents, calls, busy, load, keys, late>>

--------------------------------------------------------------------------
LEMMA InitIInv == ASSUME ConstantsFit, Init PROVE IInv
  <1>1. Opened \in States /\ NoBody \in Bodies /\ NoForm \in Forms /\ NoIntent \in Intents
        /\ NoCall \in CallRows /\ NoFetch \in Fetched
    BY DEF ConstantsFit, Opened, States, NoBody, Bodies, NoForm, Forms, NoIntent, Intents, NoCall,
           CallRows, Marks, Answers, Kinds, Rounds, NoFetch, Fetched, DraftRows
  <1>2. intents = [n \in Kinds |-> NoIntent]
    BY DEF Init, Kinds
  <1>3. Types
    BY <1>1, <1>2 DEF Types, ServerTypes, ScreenTypes, StorageTypes, CallTypes, Init, ConstantsFit, DraftRows
  <1>4. Made /\ OneBody /\ Told /\ SentAsShown
    BY <1>2 DEF Init, Made, OneBody, Told, SentAsShown, NoIntent, NoCall, Kinds
  <1>5. AtOnce /\ Stored
    BY DEF Init, AtOnce, Steady, NoFetch, Stored, NoForm
  <1> QED BY <1>3, <1>4, <1>5 DEF IInv

--------------------------------------------------------------------------
(* What becomes of a promise is a promise.                                    *)
LEMMA JudgedFits == ASSUME NEW p \in States PROVE Judged(p) \in States
  BY DEF Judged, States, Marks, Answers

LEMMA ExecutedFits ==
  ASSUME ConstantsFit, promise \in States, NEW b \in Bodies, Accepts(b)
  PROVE  Executed(b) \in States
  <1>1. CASE b.kind = "reopen"
    <2>1. Executed(b) = [Opened EXCEPT !.round = promise.round + 1] /\ promise.round < MaxRounds
      BY <1>1 DEF Accepts, Executed, NextRound
    <2>2. promise.round + 1 \in Rounds
      BY <2>1 DEF ConstantsFit, States, Rounds
    <2> QED BY <2>1, <2>2 DEF Opened, States, Marks
  <1>2. CASE b.kind # "reopen"
    <2> DEFINE p == [promise EXCEPT !.mine = b.answer, !.revised = b.revise]
    <2>1. p \in States
      BY DEF States, Bodies
    <2>2. Executed(b) = Judged(p)
      BY <1>2 DEF Executed
    <2> HIDE DEF p
    <2> QED BY <2>1, <2>2, JudgedFits
  <1> QED BY <1>1, <1>2

LEMMA OthersFit ==
  ASSUME ConstantsFit, promise \in States, OtherAnswers \/ OtherReopens \/ Deadline
  PROVE  promise' \in States
  <1>1. CASE OtherAnswers
    <2>1. PICK a \in Answers : promise' = Judged([promise EXCEPT !.other = a])
      BY <1>1 DEF OtherAnswers
    <2> DEFINE p == [promise EXCEPT !.other = a]
    <2>2. p \in States
      BY DEF States, Marks
    <2>3. promise' = Judged(p)
      BY <2>1
    <2> HIDE DEF p
    <2> QED BY <2>2, <2>3, JudgedFits
  <1>2. CASE OtherReopens
    <2>1. Reopening \in Bodies
      BY DEF Reopening, NoBody, Bodies, Kinds, Marks
    <2> QED BY <1>2, <2>1, ExecutedFits DEF OtherReopens
  <1>3. CASE Deadline
    BY <1>3 DEF Deadline, States
  <1> QED BY <1>1, <1>2, <1>3

--------------------------------------------------------------------------
(* The steps, told apart by what they do to the screen, its storage and calls. *)
Backstage ==
  /\ UNCHANGED <<client, view, form, intents, calls, keys, late>>
  /\ page' \in {page, "loading", "error"}
  /\ UNCHANGED replies \/ \E k \in 1 .. MaxKeys : replies' = [replies EXCEPT ![k] = NoBody]
  /\ UNCHANGED promise \/ OtherAnswers \/ OtherReopens \/ Deadline
  /\ \/ UNCHANGED <<draft, fetch, saves>>
     \/ \E w \in saves : SaveEnds(w)
     \/ \E r \in Rounds : FetchReads(r)
Edits ==
  /\ \E f \in Forms, round \in 0 .. MaxRounds :
       /\ form' = [f EXCEPT !.round = round] /\ draft' = Saved(f, round)
       /\ \/ UNCHANGED saves
          \/ client = "app" /\ saves' = saves \cup {[round |-> view.round, draft |-> Kept(f)]}
  /\ UNCHANGED <<promise, replies, client, page, view, fetch, late, calls, keys>>
  /\ \/ intents' = [intents EXCEPT !.submit = KeyAfterEdit]
     \/ UNCHANGED intents /\ form.photo = "uploading"
Presses(name, body) ==
  /\ Press(name, body) /\ body.kind = name
  /\ name = "reopen" => body = Reopening
  /\ name = "submit" => body = Body /\ form.photo # "uploading"

LEMMA EditsAreEdits ==
  ASSUME ConstantsFit, Types,
         \/ \E a \in Answers : Choose(a)
         \/ StartRevision \/ TakePhoto \/ RetryPhoto \/ UploadEnds \/ RemovePhoto
  PROVE  Edits
  <1> USE DEF Types, ScreenTypes
  <1>1. /\ \A a \in Marks : [form EXCEPT !.answer = a] \in Forms
        /\ \A x \in {"none", "uploading", "ready", "failed"} : [form EXCEPT !.photo = x] \in Forms
        /\ \A a \in Marks : [NoForm EXCEPT !.answer = a, !.revising = TRUE] \in Forms
    <2>1. NoForm \in Forms
      BY DEF ConstantsFit, Forms, NoForm, Marks
    <2> QED BY <2>1 DEF Forms
  <1>2. view.round \in 0 .. MaxRounds /\ form.round \in 0 .. MaxRounds /\ view.mine \in Marks
    BY DEF ConstantsFit, States, Forms, Rounds
  <1>3. ASSUME NEW f \in Forms, NEW round \in 0 .. MaxRounds, NEW saving, EditIn(f, round, saving),
               UNCHANGED <<promise, replies>>,
               \/ intents' = [intents EXCEPT !.submit = KeyAfterEdit]
               \/ UNCHANGED intents /\ form.photo = "uploading"
        PROVE  Edits
    BY <1>3 DEF EditIn, SaveStarts, Edits
  <1>4. ASSUME NEW f \in Forms, Edit(f), UNCHANGED <<promise, replies>> PROVE Edits
    BY <1>2, <1>3, <1>4 DEF Edit
  <1>5. ASSUME NEW a \in Answers, Choose(a) PROVE Edits
    BY <1>1, <1>4, <1>5 DEF Choose, Marks, server
  <1>6. CASE StartRevision
    BY <1>1, <1>2, <1>3, <1>6 DEF StartRevision, server
  <1>7. CASE TakePhoto \/ RetryPhoto \/ RemovePhoto
    BY <1>1, <1>4, <1>7 DEF TakePhoto, RetryPhoto, RemovePhoto, server
  <1>8. CASE UploadEnds
    <2>1. PICK x \in {"ready", "failed"} :
            EditIn([form EXCEPT !.photo = x], IF client = "web" THEN form.round ELSE view.round, restored.saving)
      BY <1>8 DEF UploadEnds
    <2>2. UNCHANGED <<promise, replies, intents>> /\ form.photo = "uploading"
      BY <1>8 DEF UploadEnds
    <2> QED BY <1>1, <1>2, <1>3, <2>1, <2>2
  <1> QED BY <1>5, <1>6, <1>7, <1>8

LEMMA StepSorts ==
  ASSUME ConstantsFit, Types, Next \/ UNCHANGED Tables
  PROVE  \/ Backstage \/ Edits
         \/ \E name \in Kinds, body \in Bodies : Presses(name, body)
         \/ \E s \in Slots : Serve(s) \/ ClearDraft(s) \/ Continue(s)
         \/ LoadEnds \/ Reenter
         \/ \E r \in Rounds : FetchEnds(r)
  <1>1. CASE PromiseMoves \/ \E k \in 1 .. MaxKeys : KeyLapses(k)
    BY <1>1 DEF PromiseMoves, KeyLapses, Backstage, screen, storage
  <1>2. CASE \/ \E a \in Answers : Choose(a)
             \/ StartRevision \/ TakePhoto \/ RetryPhoto \/ UploadEnds \/ RemovePhoto
    BY <1>2, EditsAreEdits
  <1>3. CASE Submit
    <2>1. Body \in Bodies /\ "submit" \in Kinds /\ Body.kind = "submit"
      BY DEF Types, ScreenTypes, Forms, Body, Bodies, Kinds
    <2> QED BY <1>3, <2>1 DEF Submit, Presses
  <1>4. CASE Reopen
    <2>1. Reopening \in Bodies /\ "reopen" \in Kinds /\ Reopening.kind = "reopen"
      BY DEF Reopening, NoBody, Bodies, Kinds, Marks
    <2> QED BY <1>4, <2>1 DEF Reopen, Presses
  <1>5. CASE PressElsewhere \/ LoadFails \/ RetryLoad \/ UNCHANGED Tables
    BY <1>5 DEF PressElsewhere, LoadFails, RetryLoad, Tables, Backstage, server, storage
  <1>6. CASE (\E w \in saves : SaveEnds(w)) \/ \E r \in Rounds : FetchReads(r)
    BY <1>6 DEF SaveEnds, FetchReads, Backstage, server
  <1> QED BY <1>1, <1>2, <1>3, <1>4, <1>5, <1>6 DEF Next

--------------------------------------------------------------------------
(* A press: its key is new, or has been pressed with the same body, unless a   *)
(* fetched draft has come between.                                            *)
PressedWith(name, body, s, key) ==
  /\ calls[s].pc = "idle" /\ keys' = IF key > keys THEN key ELSE keys
  /\ \/ key = keys + 1
     \/ key = intents[name].key /\ (Steady => intents[name].body = body)
  /\ intents' = [intents EXCEPT ![name] = [key |-> key, round |-> view.round, body |-> body]]
  /\ calls' = [calls EXCEPT ![s] = [NoCall EXCEPT !.pc = "sent", !.here = TRUE, !.key = key,
                                     !.round = view.round, !.body = body]]

LEMMA PressFacts ==
  ASSUME ConstantsFit, Types, SentAsShown,
         NEW name \in Kinds, NEW body \in Bodies, Presses(name, body)
  PROVE  \E s \in Slots, key \in 1 .. MaxKeys : PressedWith(name, body, s, key)
  <1> DEFINE key == IF Reused(intents[name], body) THEN intents[name].key ELSE keys + 1
  <1>1. /\ key <= MaxKeys /\ keys' = IF key > keys THEN key ELSE keys
        /\ intents' = [intents EXCEPT ![name] = [key |-> key, round |-> view.round, body |-> body]]
    BY DEF Presses, Press
  <1>2. PICK s \in Slots :
          /\ calls[s] = NoCall
          /\ calls' = [calls EXCEPT ![s] = [NoCall EXCEPT !.pc = "sent", !.here = TRUE, !.key = key,
                                             !.round = view.round, !.body = body]]
    BY DEF Presses, Press
  <1>3. calls[s].pc = "idle"
    BY <1>2 DEF NoCall
  <1>4. intents[name].key \in Nat /\ keys \in Nat
    BY DEF Types, CallTypes, Intents
  <1>5. CASE Reused(intents[name], body)
    <2>1. intents[name].key # 0 /\ (client = "app" \/ intents[name].body = body)
      BY <1>5 DEF Reused, SameIntent
    <2>2. Steady => intents[name].body = body
      BY <2>1 DEF SentAsShown, Presses, Kinds
    <2>3. key = intents[name].key /\ key \in 1 .. MaxKeys
      BY <1>1, <1>4, <1>5, <2>1 DEF ConstantsFit
    <2> HIDE DEF key
    <2> QED BY <1>1, <1>2, <1>3, <2>2, <2>3 DEF PressedWith
  <1>6. CASE ~Reused(intents[name], body)
    <2>1. key = keys + 1 /\ key \in 1 .. MaxKeys
      BY <1>1, <1>4, <1>6 DEF ConstantsFit
    <2> HIDE DEF key
    <2> QED BY <1>1, <1>2, <1>3, <2>1 DEF PressedWith
  <1> QED BY <1>5, <1>6

(* A call at the server: what it is told is done is what it asked for, and it   *)
(* is told so only of what is kept under its key or is carried out now.        *)
ServedAs(s, result, done) ==
  /\ result = "ok" /\ calls[s].here /\ Steady => done = calls[s].body
  /\ calls' = [calls EXCEPT ![s] = [calls[s] EXCEPT !.pc = "answered", !.result = result, !.done = done]]
  /\ \/ UNCHANGED <<promise, replies>>
     \/ /\ replies[calls[s].key] = NoBody
        /\ Accepts(calls[s].body) /\ promise' = Executed(calls[s].body)
        /\ replies' = [replies EXCEPT ![calls[s].key] = calls[s].body]

LEMMA ServeFacts ==
  ASSUME ConstantsFit, Types, Made, OneBody, NEW s \in Slots, Serve(s)
  PROVE  /\ calls[s].pc = "sent" /\ calls[s] \in CallRows /\ calls[s].key \in 1 .. MaxKeys
         /\ UNCHANGED client /\ UNCHANGED screen
         /\ \E result \in {"ok", "conflict", "lost"}, done \in Bodies : ServedAs(s, result, done)
  <1>1. calls[s].pc = "sent" /\ UNCHANGED client /\ UNCHANGED screen /\ calls[s] \in CallRows
    BY DEF Serve, Types, CallTypes
  <1>2. calls[s].key \in 1 .. MaxKeys
    BY <1>1 DEF Made, CallRows
  <1>3. /\ replies[calls[s].key] \in Bodies /\ calls[s].body \in Bodies /\ calls[s].done \in Bodies
        /\ calls[s].here /\ Steady => replies[calls[s].key] \in {NoBody, calls[s].body}
    BY <1>1, <1>2 DEF Types, ServerTypes, CallRows, OneBody
  <1>4. [calls[s] EXCEPT !.pc = "answered", !.result = "lost"]
          = [calls[s] EXCEPT !.pc = "answered", !.result = "lost", !.done = calls[s].done]
    BY <1>1 DEF CallRows
  <1>5. \E result \in {"ok", "conflict", "lost"}, done \in Bodies : ServedAs(s, result, done)
    BY <1>3, <1>4 DEF Serve, server, ServedAs
  <1> QED BY <1>1, <1>2, <1>5

--------------------------------------------------------------------------
(* Each variable keeps its type.                                              *)
LEMMA StepServerTypes ==
  ASSUME ConstantsFit, Types, Made, OneBody, Next \/ UNCHANGED Tables PROVE ServerTypes'
  <1> USE DEF Types, ServerTypes
  <1>1. CASE UNCHANGED <<promise, replies>>
    BY <1>1
  <1>2. CASE Backstage
    <2>1. promise' \in States
      BY <1>2, OthersFit DEF Backstage
    <2>2. NoBody \in Bodies
      BY DEF NoBody, Bodies, Kinds, Marks
    <2> QED BY <1>2, <2>1, <2>2 DEF Backstage
  <1>3. ASSUME NEW s \in Slots, Serve(s) PROVE ServerTypes'
    <2>1. calls[s].body \in Bodies
      BY <1>3, ServeFacts DEF CallRows
    <2> QED BY <1>3, <2>1, ServeFacts, ExecutedFits DEF ServedAs
  <1>4. CASE Edits \/ LoadEnds \/ Reenter \/ \E r \in Rounds : FetchEnds(r)
    BY <1>1, <1>4 DEF Edits, LoadEnds, Reenter, FetchEnds, server
  <1>5. CASE \E name \in Kinds, body \in Bodies : Presses(name, body)
    BY <1>1, <1>5 DEF Presses, Press, server
  <1>6. CASE \E s \in Slots : ClearDraft(s) \/ Continue(s)
    BY <1>1, <1>6 DEF ClearDraft, Continue, server
  <1> QED BY <1>2, <1>3, <1>4, <1>5, <1>6, StepSorts

(* What a draft and a form become of one another.                             *)
LEMMA FormsAndDrafts ==
  ASSUME ConstantsFit, Types
  PROVE  /\ \A f \in Forms : Kept(f) \in DraftRows
         /\ \A d \in DraftRows, round \in 0 .. MaxRounds, mine \in BOOLEAN : Refilled(d, round, mine) \in Forms
         /\ NoForm \in Forms /\ NoFetch \in Fetched /\ NoDraft \in DraftRows
         /\ view.round \in Rounds /\ promise.round \in Rounds /\ Rounds \subseteq 0 .. MaxRounds
  <1>1. \A f \in Forms : Kept(f) \in DraftRows
    BY DEF Forms, Kept, DraftRows
  <1>2. \A d \in DraftRows, round \in 0 .. MaxRounds, mine \in BOOLEAN : Refilled(d, round, mine) \in Forms
    BY DEF Types, ScreenTypes, DraftRows, Forms, Refilled
  <1>3. NoForm \in Forms /\ NoDraft \in DraftRows
    BY DEF ConstantsFit, NoForm, Forms, Marks, DraftRows
  <1>4. NoFetch \in Fetched
    BY <1>3 DEF NoFetch, Fetched
  <1>5. view.round \in Rounds /\ promise.round \in Rounds /\ Rounds \subseteq 0 .. MaxRounds
    BY DEF ConstantsFit, Types, ServerTypes, ScreenTypes, States, Rounds
  <1> QED BY <1>1, <1>2, <1>3, <1>4, <1>5

LEMMA StepScreenTypes ==
  ASSUME ConstantsFit, Types, Next \/ UNCHANGED Tables PROVE ScreenTypes'
  <1> USE DEF ScreenTypes
  <1>0. Types /\ ScreenTypes
    BY DEF Types
  <1>1. CASE Backstage
    BY <1>0, <1>1 DEF Backstage
  <1>2. CASE Edits
    <2>1. PICK f \in Forms, round \in 0 .. MaxRounds : form' = [f EXCEPT !.round = round]
      BY <1>2 DEF Edits
    <2>2. form' \in Forms
      BY <2>1 DEF Forms
    <2> QED BY <1>0, <1>2, <2>2 DEF Edits
  <1>3. CASE \E name \in Kinds, body \in Bodies : Presses(name, body)
    BY <1>0, <1>3 DEF Presses, Press
  <1>4. CASE \E s \in Slots : Serve(s) \/ ClearDraft(s)
    BY <1>0, <1>4 DEF Serve, ClearDraft, screen
  <1>5. ASSUME NEW s \in Slots, Continue(s) PROVE ScreenTypes'
    <2>1. page' \in {page, "loading", "error"} /\ UNCHANGED <<client, view>> /\ form' \in {form, NoForm}
      BY <1>5 DEF Continue, Done, Refused, Lost, Abandoned, LoadAfter
    <2> QED BY <1>0, <2>1, FormsAndDrafts
  <1>6. CASE LoadEnds
    <2>1. view' = promise /\ page' = "ready" /\ UNCHANGED client
          /\ form' \in {form, Refilled(draft[promise.round], promise.round, promise.mine # "none")}
      BY <1>6 DEF LoadEnds, LoadedPage, LoadedApp
    <2>2. Refilled(draft[promise.round], promise.round, promise.mine # "none") \in Forms
      BY <1>0, FormsAndDrafts DEF Types, StorageTypes
    <2> QED BY <1>0, <2>1, <2>2 DEF Types, ServerTypes
  <1>7. CASE Reenter
    BY <1>0, <1>7, FormsAndDrafts DEF Reenter
  <1>8. ASSUME NEW r \in Rounds, FetchEnds(r) PROVE ScreenTypes'
    <2>1. UNCHANGED <<client, page, view>> /\ form' = Refilled(fetch[r].draft, view.round, fetch[r].mine)
      BY <1>8 DEF FetchEnds
    <2>2. fetch[r].draft \in DraftRows /\ fetch[r].mine \in BOOLEAN
      BY DEF Types, StorageTypes, Fetched
    <2> QED BY <1>0, <2>1, <2>2, FormsAndDrafts
  <1> QED BY <1>0, <1>1, <1>2, <1>3, <1>4, <1>5, <1>6, <1>7, <1>8, StepSorts

LEMMA StepStorageTypes ==
  ASSUME ConstantsFit, Types, Next \/ UNCHANGED Tables PROVE StorageTypes'
  <1> USE DEF StorageTypes
  <1>0. Types /\ StorageTypes /\ form \in Forms
    BY DEF Types, ScreenTypes
  <1>1. CASE UNCHANGED <<draft, fetch, saves>>
    BY <1>0, <1>1
  <1>2. CASE Backstage
    <2>1. ASSUME NEW w \in saves, SaveEnds(w) PROVE StorageTypes'
      <3>1. w.draft \in DraftRows /\ saves' \subseteq saves /\ UNCHANGED fetch
        BY <1>0, <2>1 DEF SaveEnds
      <3> QED BY <1>0, <2>1, <3>1, FormsAndDrafts DEF SaveEnds, Cleared
    <2>2. ASSUME NEW r \in Rounds, FetchReads(r) PROVE StorageTypes'
      <3>1. UNCHANGED <<draft, saves>>
            /\ \/ fetch' = [fetch EXCEPT ![r].pc = "read", ![r].draft = draft[r]]
               \/ fetch' = [fetch EXCEPT ![r].pc = "read"]
        BY <2>2 DEF FetchReads
      <3>2. fetch' \in [Rounds -> Fetched]
        BY <1>0, <3>1 DEF Fetched
      <3> QED BY <1>0, <3>1, <3>2
    <2> QED BY <1>1, <1>2, <2>1, <2>2 DEF Backstage
  <1>3. CASE Edits
    <2>1. PICK f \in Forms, round \in 0 .. MaxRounds :
            /\ draft' = Saved(f, round)
            /\ saves' = saves \/ saves' = saves \cup {[round |-> view.round, draft |-> Kept(f)]}
      BY <1>3 DEF Edits
    <2>2. UNCHANGED fetch
      BY <1>3 DEF Edits
    <2>3. Kept(f) \in DraftRows /\ view.round \in Rounds
      BY FormsAndDrafts
    <2>4. draft' \in [Rounds -> DraftRows]
      BY <1>0, <2>1, <2>3 DEF Saved
    <2>5. saves' \subseteq [round : Rounds, draft : DraftRows]
      BY <1>0, <2>1, <2>3
    <2> QED BY <1>0, <2>2, <2>4, <2>5
  <1>4. CASE \E name \in Kinds, body \in Bodies : Presses(name, body)
    BY <1>1, <1>4 DEF Presses, Press, storage
  <1>5. CASE \E s \in Slots : Serve(s)
    BY <1>1, <1>5 DEF Serve, screen, storage
  <1>6. ASSUME NEW s \in Slots, ClearDraft(s) \/ Continue(s) PROVE StorageTypes'
    <2>1. UNCHANGED <<fetch, saves>> /\ draft' \in {draft, Cleared(calls[s].round)}
      BY <1>6 DEF ClearDraft, Continue, Done, Refused, Lost, Abandoned
    <2> QED BY <1>0, <2>1, FormsAndDrafts DEF Cleared
  <1>7. CASE LoadEnds
    <2>1. CASE LoadedPage(promise)
      <3>1. UNCHANGED <<fetch, saves>> /\ draft' \in {draft, Cleared(promise.round)}
        BY <2>1 DEF LoadedPage
      <3> QED BY <1>0, <3>1, FormsAndDrafts DEF Cleared
    <2>2. CASE LoadedApp(promise)
      <3> DEFINE asked == [NoFetch EXCEPT !.pc = "asked", !.mine = promise.mine # "none"]
      <3>1. asked \in Fetched
        BY FormsAndDrafts DEF Fetched
      <3>2. /\ UNCHANGED draft /\ fetch' \in {fetch, [fetch EXCEPT ![promise.round] = asked]}
            /\ saves' \in {saves, saves \cup {[round |-> promise.round, draft |-> Kept(form)]}}
        BY <2>2 DEF LoadedApp, SaveStarts
      <3> HIDE DEF asked
      <3> QED BY <1>0, <3>1, <3>2, FormsAndDrafts
    <2> QED BY <1>7, <2>1, <2>2 DEF LoadEnds
  <1>8. CASE Reenter
    BY <1>0, <1>8, FormsAndDrafts DEF Reenter
  <1>9. ASSUME NEW r \in Rounds, FetchEnds(r) PROVE StorageTypes'
    <2>1. /\ UNCHANGED draft /\ fetch' = [fetch EXCEPT ![r] = NoFetch]
          /\ saves' \in {saves, saves \cup {[round |-> view.round, draft |-> Kept(form')]}}
      BY <1>9 DEF FetchEnds, SaveStarts
    <2>2. form' \in Forms
      BY <1>9, StepScreenTypes DEF ScreenTypes, Next
    <2> QED BY <1>0, <2>1, <2>2, FormsAndDrafts
  <1> QED BY <1>2, <1>3, <1>4, <1>5, <1>6, <1>7, <1>8, <1>9, StepSorts

LEMMA StepCallTypes ==
  ASSUME ConstantsFit, Types, Made, OneBody, SentAsShown, Next \/ UNCHANGED Tables PROVE CallTypes'
  <1> USE DEF CallTypes
  <1>0. Types /\ CallTypes /\ NoIntent \in Intents /\ NoBody \in Bodies /\ NoCall \in CallRows
    BY DEF Types, ConstantsFit, NoIntent, Intents, NoBody, Bodies, Kinds, Marks, NoCall, CallRows
  <1>1. CASE Backstage
    BY <1>0, <1>1 DEF Backstage
  <1>2. CASE Edits
    <2>1. UNCHANGED <<calls, keys>>
      BY <1>2 DEF Edits
    <2>2. intents' \in {intents, [intents EXCEPT !.submit = NoIntent]}
      BY <1>0, <1>2 DEF Edits, KeyAfterEdit, Kinds
    <2> QED BY <1>0, <2>1, <2>2
  <1>3. ASSUME NEW name \in Kinds, NEW body \in Bodies, Presses(name, body) PROVE CallTypes'
    <2>1. PICK s \in Slots, key \in 1 .. MaxKeys : PressedWith(name, body, s, key)
      BY <1>3, PressFacts
    <2>2. key \in 0 .. MaxKeys /\ view.round \in 0 .. MaxRounds
      BY <1>0, <2>1, FormsAndDrafts DEF ConstantsFit
    <2>3. [key |-> key, round |-> view.round, body |-> body] \in Intents
      BY <2>2 DEF Intents
    <2>4. [NoCall EXCEPT !.pc = "sent", !.here = TRUE, !.key = key, !.round = view.round, !.body = body]
            \in CallRows
      BY <1>0, <2>2 DEF CallRows, NoCall
    <2>5. keys' \in 0 .. MaxKeys
      BY <1>0, <2>1, <2>2 DEF PressedWith
    <2> QED BY <1>0, <2>1, <2>3, <2>4, <2>5 DEF NoCall, PressedWith
  <1>4. ASSUME NEW s \in Slots, Serve(s) PROVE CallTypes'
    <2>1. calls[s] \in CallRows /\ UNCHANGED <<keys, intents>>
      BY <1>4, ServeFacts DEF screen
    <2>2. PICK result \in {"ok", "conflict", "lost"}, done \in Bodies : ServedAs(s, result, done)
      BY <1>4, ServeFacts
    <2> QED BY <1>0, <2>1, <2>2 DEF CallRows, ServedAs
  <1>5. ASSUME NEW s \in Slots, ClearDraft(s) PROVE CallTypes'
    <2>1. UNCHANGED <<keys, intents>> /\ calls' = [calls EXCEPT ![s].pc = "cleared"]
      BY <1>5 DEF ClearDraft
    <2> QED BY <1>0, <2>1 DEF CallRows
  <1>6. ASSUME NEW s \in Slots, Continue(s) PROVE CallTypes'
    <2>1. UNCHANGED keys /\ calls' = [calls EXCEPT ![s] = NoCall]
      BY <1>6 DEF Continue
    <2>2. intents' \in {intents, [intents EXCEPT ![calls[s].body.kind] = NoIntent]}
      BY <1>6 DEF Continue, Done, Refused, Lost, Abandoned
    <2> QED BY <1>0, <2>1, <2>2
  <1>7. CASE LoadEnds
    <2>1. UNCHANGED <<calls, keys>> /\ intents' = Reconciled(promise)
      BY <1>7 DEF LoadEnds
    <2> QED BY <1>0, <2>1 DEF Reconciled
  <1>8. CASE Reenter
    <2>1. /\ UNCHANGED keys /\ intents' = [n \in Kinds |-> NoIntent]
          /\ calls' = [s \in Slots |-> [calls[s] EXCEPT !.here = FALSE]]
      BY <1>8 DEF Reenter, Kinds
    <2> QED BY <1>0, <2>1 DEF CallRows, NoCall
  <1>9. CASE \E r \in Rounds : FetchEnds(r)
    BY <1>0, <1>9 DEF FetchEnds
  <1> QED BY <1>0, <1>1, <1>2, <1>3, <1>4, <1>5, <1>6, <1>7, <1>8, <1>9, StepSorts

--------------------------------------------------------------------------
(* What a step does to the keys that are kept: with an edit, an answer or a     *)
(* load intentions are forgotten and no other changes; when the screen is      *)
(* entered again all are.                                                    *)
Forgets == \A n \in Kinds : intents'[n] \in {intents[n], NoIntent}

LEMMA Forgetting ==
  ASSUME ConstantsFit, Types
  PROVE  /\ Edits => Forgets
         /\ \A s \in Slots : Continue(s) => Forgets
         /\ LoadEnds => Forgets
         /\ Reenter => \A n \in Kinds : intents'[n] = NoIntent
  <1> USE DEF Forgets
  <1>0. intents \in [Kinds -> Intents]
    BY DEF Types, CallTypes
  <1>1. Edits => Forgets
    BY <1>0 DEF Edits, KeyAfterEdit, Kinds
  <1>2. ASSUME NEW s \in Slots, Continue(s) PROVE Forgets
    BY <1>0, <1>2 DEF Continue, Done, Refused, Lost, Abandoned
  <1>3. LoadEnds => Forgets
    BY <1>0 DEF LoadEnds, Reconciled
  <1>4. Reenter => \A n \in Kinds : intents'[n] = NoIntent
    BY DEF Reenter, Kinds
  <1> QED BY <1>1, <1>2, <1>3, <1>4

LEMMA StepKeys ==
  ASSUME ConstantsFit, IInv, Next \/ UNCHANGED Tables
  PROVE  Made' /\ OneBody' /\ Told'
  <1> USE DEF Made, OneBody, Told
  <1>0. /\ Types /\ Made /\ OneBody /\ Told /\ SentAsShown
        /\ keys \in Nat /\ intents \in [Kinds -> Intents] /\ calls \in [Slots -> CallRows]
        /\ replies \in [1 .. MaxKeys -> Bodies] /\ NoIntent.key = 0 /\ NoCall.pc = "idle"
        /\ \A s \in Slots : calls[s].pc # "idle" => calls[s].key \in 1 .. MaxKeys
        /\ \A n \in Kinds : intents[n].key # 0 => intents[n].key \in 1 .. MaxKeys
    BY DEF IInv, Types, CallTypes, ServerTypes, ConstantsFit, NoIntent, NoCall, CallRows, Intents
  <1>1. CASE Backstage
    <2>1. UNCHANGED <<intents, calls, keys, late>> /\ \A k \in 1 .. MaxKeys : replies'[k] \in {replies[k], NoBody}
      BY <1>0, <1>1 DEF Backstage
    <2> QED BY <1>0, <2>1 DEF Steady
  <1>2. ASSUME Forgets, UNCHANGED <<replies, calls, keys>>, Steady' => Steady
        PROVE  Made' /\ OneBody' /\ Told'
    BY <1>0, <1>2 DEF Forgets
  <1>3. CASE Edits
    BY <1>0, <1>2, <1>3, Forgetting DEF Edits, Steady
  <1>4. CASE LoadEnds
    BY <1>0, <1>2, <1>4, Forgetting DEF LoadEnds, server, Steady
  <1>5. CASE \E r \in Rounds : FetchEnds(r)
    <2>1. UNCHANGED <<intents, replies, calls, keys>> /\ late \subseteq late'
      BY <1>5 DEF FetchEnds, server
    <2> QED BY <1>2, <2>1 DEF Steady, Forgets
  <1>6. CASE Reenter
    <2>1. UNCHANGED <<replies, keys>> /\ \A n \in Kinds : intents'[n] = NoIntent
      BY <1>0, <1>6, Forgetting DEF Reenter, server
    <2>2. \A s \in Slots : /\ calls'[s].pc = calls[s].pc /\ calls'[s].key = calls[s].key
                           /\ calls'[s].body = calls[s].body /\ ~calls'[s].here
      BY <1>0, <1>6 DEF Reenter, CallRows
    <2> QED BY <1>0, <2>1, <2>2
  <1>7. ASSUME NEW s \in Slots, ClearDraft(s) PROVE Made' /\ OneBody' /\ Told'
    <2>1. UNCHANGED <<intents, replies, keys, late>> /\ calls[s].pc = "answered"
          /\ calls' = [calls EXCEPT ![s].pc = "cleared"]
      BY <1>7 DEF ClearDraft, server
    <2>2. \A t \in Slots : /\ calls'[t].pc = IF t = s THEN "cleared" ELSE calls[t].pc
                           /\ calls'[t].key = calls[t].key /\ calls'[t].body = calls[t].body
                           /\ calls'[t].here = calls[t].here /\ calls'[t].done = calls[t].done
                           /\ calls'[t].result = calls[t].result
      BY <1>0, <2>1 DEF CallRows
    <2>3. \A t \in Slots : calls'[t].pc # "idle" <=> calls[t].pc # "idle"
      BY <2>1, <2>2
    <2>4. Made'
      BY <1>0, <2>1, <2>2, <2>3
    <2>5. OneBody'
      BY <1>0, <2>1, <2>2, <2>3 DEF Steady
    <2>6. Told'
      BY <1>0, <2>1, <2>2 DEF Steady
    <2> QED BY <2>4, <2>5, <2>6
  <1>8. ASSUME NEW s \in Slots, Continue(s) PROVE Made' /\ OneBody' /\ Told'
    <2>1. Forgets /\ UNCHANGED <<replies, keys>> /\ calls' = [calls EXCEPT ![s] = NoCall]
      BY <1>0, <1>8, Forgetting DEF Continue, server
    <2>2. \A t \in Slots : calls'[t].pc # "idle" => calls'[t] = calls[t]
      BY <1>0, <2>1
    <2>3. Steady' => Steady
      BY <1>8 DEF Continue, Done, Refused, Lost, Abandoned, Steady
    <2> QED BY <1>0, <2>1, <2>2, <2>3 DEF Forgets
  <1>9. ASSUME NEW s \in Slots, Serve(s) PROVE Made' /\ OneBody' /\ Told'
    <2>1. PICK result \in {"ok", "conflict", "lost"}, done \in Bodies : ServedAs(s, result, done)
      BY <1>0, <1>9, ServeFacts
    <2>2. /\ calls[s].pc = "sent" /\ UNCHANGED <<intents, keys, late>>
          /\ \/ UNCHANGED replies
             \/ replies' = [replies EXCEPT ![calls[s].key] = calls[s].body]
      BY <1>0, <1>9, <2>1, ServeFacts DEF screen, storage, ServedAs
    <2>3. \A t \in Slots : /\ calls'[t].pc = "idle" <=> calls[t].pc = "idle"
                           /\ calls'[t].key = calls[t].key /\ calls'[t].body = calls[t].body
                           /\ calls'[t].here = calls[t].here
                           /\ t # s => calls'[t] = calls[t]
      BY <1>0, <2>1, <2>2 DEF ServedAs, CallRows
    <2>4. Told'
      <3>1. calls'[s].result = result /\ calls'[s].done = done
        BY <1>0, <2>1 DEF ServedAs, CallRows
      <3> QED BY <1>0, <2>1, <2>2, <2>3, <3>1 DEF ServedAs, Steady
    <2>5. calls[s].key \in 1 .. keys /\ calls[s].key \in 1 .. MaxKeys
      BY <1>0, <2>2
    <2>6. CASE UNCHANGED replies
      BY <1>0, <2>2, <2>3, <2>4, <2>6 DEF Steady
    <2>7. CASE replies' = [replies EXCEPT ![calls[s].key] = calls[s].body]
      <3>1. \A k \in 1 .. MaxKeys : replies'[k] = IF k = calls[s].key THEN calls[s].body ELSE replies[k]
        BY <1>0, <2>7
      <3>2. Made'
        BY <1>0, <2>2, <2>3, <2>5, <3>1
      <3>3. OneBody'
        BY <1>0, <2>2, <2>3, <3>1 DEF Steady
      <3> QED BY <2>4, <3>2, <3>3
    <2> QED BY <2>2, <2>6, <2>7
  <1>10. ASSUME NEW name \in Kinds, NEW body \in Bodies, Presses(name, body)
        PROVE  Made' /\ OneBody' /\ Told'
    <2>1. PICK s \in Slots, key \in 1 .. MaxKeys : PressedWith(name, body, s, key)
      BY <1>0, <1>10, PressFacts
    <2>2. UNCHANGED <<replies, late>> /\ body.kind \in Kinds
      BY <1>10 DEF Presses, Press, server, storage
    <2>3. /\ keys' >= keys /\ key <= keys' /\ keys' \in Nat
          /\ key = keys + 1 \/ (key = intents[name].key /\ (Steady => intents[name].body = body))
      BY <1>0, <2>1 DEF PressedWith
    <2>4. \A n \in Kinds : IF n = name THEN intents'[n].key = key /\ intents'[n].body = body
                           ELSE intents'[n] = intents[n]
      BY <1>0, <2>1 DEF PressedWith
    <2>5. /\ calls'[s].pc = "sent" /\ calls'[s].key = key /\ calls'[s].body = body
          /\ \A t \in Slots : t # s => calls'[t] = calls[t]
      BY <1>0, <2>1 DEF PressedWith, NoCall
    <2>6. \A n \in Kinds : n # name => intents[n].key # key
      BY <1>0, <2>3
    <2>7. Made'
      <3>0. /\ \A n \in Kinds : intents[n].key \in Int /\ intents[n].key <= keys
            /\ \A t \in Slots : calls[t].pc # "idle" => calls[t].key \in 1 .. keys
            /\ keys \in Int /\ keys' \in Int /\ key \in Int /\ key >= 1
        BY <1>0, <2>3 DEF Intents
      <3>1. \A n \in Kinds : intents'[n].key <= keys'
        <4> TAKE n \in Kinds
        <4>1. CASE n = name
          BY <2>3, <2>4, <4>1
        <4>2. CASE n # name
          BY <2>3, <2>4, <3>0, <4>2
        <4> QED BY <4>1, <4>2
      <3>2. \A n, m \in Kinds : intents'[n].key = intents'[m].key => n = m \/ intents'[n].key = 0
        BY <1>0, <2>4, <2>6
      <3>3. \A t \in Slots : calls'[t].pc # "idle" => calls'[t].key \in 1 .. keys' /\ calls'[t].body.kind \in Kinds
        <4> TAKE t \in Slots
        <4>1. CASE t = s
          BY <2>2, <2>3, <2>5, <3>0, <4>1
        <4>2. CASE t # s
          BY <1>0, <2>3, <2>5, <3>0, <4>2
        <4> QED BY <4>1, <4>2
      <3>4. \A k \in 1 .. MaxKeys : replies'[k] # NoBody => k <= keys'
        BY <1>0, <2>2, <2>3
      <3> QED BY <3>1, <3>2, <3>3, <3>4
    <2>8. ASSUME Steady PROVE OneBody'
      <3>1. /\ replies[key] \in {NoBody, body}
            /\ \A t \in Slots : calls[t].pc # "idle" /\ calls[t].key = key => calls[t].body = body
        BY <1>0, <2>3, <2>8
      <3>2. \A t, u \in Slots : /\ calls'[t].pc # "idle" /\ calls'[u].pc # "idle"
                                /\ calls'[t].here /\ calls'[t].key = calls'[u].key
                                => calls'[t].body = calls'[u].body
        BY <1>0, <2>5, <2>8, <3>1
      <3>3. \A t \in Slots : calls'[t].pc # "idle" /\ calls'[t].here
                               => replies'[calls'[t].key] \in {NoBody, calls'[t].body}
        BY <1>0, <2>2, <2>5, <2>8, <3>1
      <3>4. \A t \in Slots, n \in Kinds :
              calls'[t].pc # "idle" /\ intents'[n].key = calls'[t].key => intents'[n].body = calls'[t].body
        BY <1>0, <2>4, <2>5, <2>6, <2>8, <3>1
      <3>5. \A n \in Kinds : intents'[n].key # 0 => replies'[intents'[n].key] \in {NoBody, intents'[n].body}
        BY <1>0, <2>2, <2>4, <2>8, <3>1
      <3> QED BY <3>2, <3>3, <3>4, <3>5
    <2>9. OneBody' /\ Told'
      <3>1. Steady' => Steady
        BY <2>2 DEF Steady
      <3>2. OneBody'
        BY <2>8, <3>1
      <3>3. Told'
        BY <1>0, <2>5, <3>1
      <3> QED BY <3>2, <3>3
    <2> QED BY <2>7, <2>9
  <1> QED BY <1>0, <1>1, <1>3, <1>4, <1>5, <1>6, <1>7, <1>8, <1>9, <1>10, StepSorts

--------------------------------------------------------------------------
LEMMA StepSent ==
  ASSUME ConstantsFit, IInv, Next \/ UNCHANGED Tables PROVE SentAsShown'
  <1> USE DEF SentAsShown
  <1>0. /\ Types /\ Made /\ SentAsShown /\ client \in {"web", "app"} /\ intents \in [Kinds -> Intents]
        /\ "submit" \in Kinds /\ "reopen" \in Kinds /\ NoIntent.key = 0
    BY DEF IInv, Types, ScreenTypes, CallTypes, Kinds, NoIntent
  <1>1. ASSUME Forgets, UNCHANGED client, Steady' => Steady,
               UNCHANGED form \/ client = "web" \/ intents'["submit"].key = 0
        PROVE  SentAsShown'
    BY <1>0, <1>1 DEF Forgets, Body
  <1>2. CASE Backstage
    BY <1>0, <1>1, <1>2 DEF Backstage, Forgets, Steady
  <1>3. CASE \E s \in Slots : Serve(s) \/ ClearDraft(s)
    BY <1>0, <1>1, <1>3 DEF Serve, ClearDraft, screen, storage, Forgets, Steady
  <1>4. CASE Edits
    <2>1. Forgets /\ UNCHANGED <<client, late>>
      BY <1>0, <1>4, Forgetting DEF Edits
    <2>2. CASE client = "web" \/ intents'["submit"].key = 0
      BY <1>1, <2>1, <2>2 DEF Steady
    <2>3. CASE client = "app" /\ UNCHANGED intents /\ form.photo = "uploading"
      BY <1>0, <2>1, <2>3 DEF Steady
    <2> QED BY <1>0, <1>4, <2>2, <2>3 DEF Edits, KeyAfterEdit
  <1>5. ASSUME NEW name \in Kinds, NEW body \in Bodies, Presses(name, body) PROVE SentAsShown'
    <2>1. /\ intents'[name].body = body
          /\ \A n \in Kinds : n # name => intents'[n] = intents[n]
      <3>1. \E s \in Slots, key \in 1 .. MaxKeys : PressedWith(name, body, s, key)
        BY <1>0, <1>5, PressFacts
      <3> QED BY <1>0, <3>1 DEF PressedWith
    <2>2. UNCHANGED <<client, form, late>> /\ Body' = Body
      BY <1>5 DEF Presses, Press, Body, storage
    <2> QED BY <1>0, <1>5, <2>1, <2>2 DEF Presses, Kinds, Steady
  <1>6. ASSUME NEW s \in Slots, Continue(s) PROVE SentAsShown'
    <2>1. Forgets /\ UNCHANGED client /\ (Steady' => Steady)
      BY <1>0, <1>6, Forgetting DEF Continue, Done, Refused, Lost, Abandoned, Steady
    <2>2. UNCHANGED form \/ intents'["submit"].key = 0
      <3>1. calls[s].body.kind \in Kinds
        BY <1>0, <1>6 DEF Continue, Made
      <3> QED BY <1>0, <1>6, <3>1 DEF Kinds, Continue, Done, Refused, Lost, Abandoned
    <2> QED BY <1>1, <2>1, <2>2
  <1>7. CASE LoadEnds
    <2>1. Forgets /\ UNCHANGED <<client, late>> /\ (UNCHANGED form \/ client = "web")
      BY <1>0, <1>7, Forgetting DEF LoadEnds, LoadedApp
    <2> QED BY <1>1, <2>1 DEF Steady
  <1>8. CASE Reenter
    BY <1>0, <1>8, Forgetting
  <1>9. ASSUME NEW r \in Rounds, FetchEnds(r) PROVE SentAsShown'
    <2>1. /\ UNCHANGED <<client, intents>>
          /\ late' = IF intents["submit"].key # 0 /\ Body' # Body THEN late \cup {"draft"} ELSE late
      BY <1>9 DEF FetchEnds
    <2>2. form' = form \/ form'.photo \in {"none", "ready"}
      BY <1>9 DEF FetchEnds, Refilled
    <2> QED BY <1>0, <2>1, <2>2 DEF Steady
  <1> QED BY <1>0, <1>2, <1>3, <1>4, <1>5, <1>6, <1>7, <1>8, <1>9, StepSorts

LEMMA StepAtOnce ==
  ASSUME ConstantsFit, IInv, Next \/ UNCHANGED Tables PROVE AtOnce' /\ client' = client
  <1> USE DEF AtOnce
  <1>0. /\ Types /\ AtOnce /\ fetch \in [Rounds -> Fetched] /\ NoFetch.pc = "none"
    BY DEF IInv, Types, StorageTypes, NoFetch
  <1>1. CASE UNCHANGED <<client, fetch, saves, late>>
    BY <1>0, <1>1 DEF Steady
  <1>2. CASE Backstage
    BY <1>0, <1>1, <1>2 DEF Backstage, FetchReads
  <1>3. CASE Edits
    BY <1>0, <1>3 DEF Edits, Steady
  <1>4. CASE \E name \in Kinds, body \in Bodies : Presses(name, body)
    BY <1>1, <1>4 DEF Presses, Press, storage
  <1>5. CASE \E s \in Slots : Serve(s) \/ ClearDraft(s)
    BY <1>1, <1>5 DEF Serve, ClearDraft, screen, storage
  <1>6. ASSUME NEW s \in Slots, Continue(s) PROVE AtOnce' /\ client' = client
    <2>1. UNCHANGED <<client, fetch, saves>> /\ late' \in {late, late \cup {"done"}}
      BY <1>6 DEF Continue, Done, Refused, Lost, Abandoned
    <2> QED BY <1>0, <2>1 DEF Steady
  <1>7. CASE LoadEnds
    BY <1>0, <1>7 DEF LoadEnds, LoadedPage, Steady
  <1>8. CASE Reenter
    BY <1>0, <1>8 DEF Reenter, Steady
  <1>9. CASE \E r \in Rounds : FetchEnds(r)
    BY <1>0, <1>9 DEF FetchEnds
  <1> QED BY <1>0, <1>2, <1>3, <1>4, <1>5, <1>6, <1>7, <1>8, <1>9, StepSorts

LEMMA StepStored ==
  ASSUME ConstantsFit, IInv, Next \/ UNCHANGED Tables PROVE Stored'
  <1> USE DEF Stored
  <1>0. /\ Types /\ Stored /\ AtOnce /\ form \in Forms /\ draft \in [Rounds -> DraftRows]
        /\ NoForm.round = 0 /\ promise.round \in Rounds
    BY FormsAndDrafts DEF IInv, Types, ScreenTypes, StorageTypes, NoForm
  <1>1. SUFFICES ASSUME client = "web", client' = "web", "done" \notin late', form'.round # 0
                 PROVE  draft'[form'.round] = Kept(form')
    BY StepAtOnce
  <1>2. CASE UNCHANGED <<form, draft, late>>
    BY <1>0, <1>1, <1>2 DEF Kept
  <1>3. CASE Backstage
    BY <1>0, <1>1, <1>2, <1>3 DEF Backstage, AtOnce, FetchReads
  <1>4. CASE Edits
    <2>1. PICK f \in Forms, round \in 0 .. MaxRounds :
            form' = [f EXCEPT !.round = round] /\ draft' = Saved(f, round)
      BY <1>4 DEF Edits
    <2>2. form'.round = round /\ Kept(form') = Kept(f) /\ round \in Rounds
      BY <1>1, <2>1 DEF Forms, Kept, Rounds, ConstantsFit
    <2> QED BY <1>0, <1>1, <2>1, <2>2 DEF Saved
  <1>5. CASE \E name \in Kinds, body \in Bodies : Presses(name, body)
    BY <1>2, <1>5 DEF Presses, Press, storage
  <1>6. CASE \E s \in Slots : Serve(s) \/ ClearDraft(s)
    BY <1>1, <1>2, <1>6 DEF Serve, ClearDraft, screen, storage
  <1>7. ASSUME NEW s \in Slots, Continue(s) PROVE draft'[form'.round] = Kept(form')
    BY <1>0, <1>1, <1>2, <1>7 DEF Continue, Done, Refused, Lost, Abandoned
  <1>8. CASE LoadEnds
    <2>1. /\ form' = IF Fetches(promise)
                     THEN Refilled(draft[promise.round], promise.round, promise.mine # "none") ELSE form
          /\ draft' = draft \/ (~CanRestore(promise) /\ form = NoForm)
          /\ UNCHANGED late
      BY <1>1, <1>8 DEF LoadEnds, LoadedPage
    <2>2. CASE Fetches(promise) /\ draft[promise.round] # NoDraft
      <3>1. draft' = draft
        BY <2>1, <2>2 DEF Fetches
      <3>2. /\ form'.round = promise.round /\ form'.answer = draft[promise.round].answer
            /\ form'.photo = IF draft[promise.round].photo THEN "ready" ELSE "none"
        BY <2>1, <2>2 DEF Refilled
      <3>3. draft[promise.round] \in [answer : Marks, photo : BOOLEAN]
        BY <1>0, <2>2 DEF DraftRows
      <3> QED BY <3>1, <3>2, <3>3 DEF Kept
    <2>3. CASE ~(Fetches(promise) /\ draft[promise.round] # NoDraft)
      <3>1. form' = form
        BY <2>1, <2>3 DEF Refilled
      <3>2. draft' = draft
        BY <1>0, <1>1, <2>1, <3>1
      <3> QED BY <1>2, <2>1, <3>1, <3>2
    <2> QED BY <2>2, <2>3
  <1>9. CASE Reenter
    BY <1>0, <1>1, <1>9 DEF Reenter
  <1>10. CASE \E r \in Rounds : FetchEnds(r)
    BY <1>0, <1>1, <1>10 DEF AtOnce, FetchEnds
  <1> QED BY <1>0, <1>3, <1>4, <1>5, <1>6, <1>7, <1>8, <1>9, <1>10, StepSorts

LEMMA StepIInv == ASSUME ConstantsFit, IInv, Next \/ UNCHANGED Tables PROVE IInv'
  <1>1. Types'
    BY StepServerTypes, StepScreenTypes, StepStorageTypes, StepCallTypes DEF IInv, Types
  <1> QED BY <1>1, StepKeys, StepSent, StepAtOnce, StepStored DEF IInv

LEMMA TypesImplyTypeOK == IInv => TypeOK
  BY DEF IInv, Types, ServerTypes, ScreenTypes, CallTypes, Made, TypeOK, States, Forms, Intents, Kinds

(* What is written under "done" is what the screen asked for.                  *)
Confirmed == \A s \in DOMAIN calls :
  calls[s].pc \in {"answered", "cleared"} /\ calls[s].here /\ calls[s].result = "ok"
  /\ (client = "app" => "draft" \notin late) => calls[s].done = calls[s].body
LEMMA ToldIsAsked == IInv => Confirmed
  BY DEF IInv, Types, ScreenTypes, CallTypes, AtOnce, Steady, Told, Confirmed

(* On the page, what is shown of the round can be restored.                   *)
LEMMA StoredSurvives == ASSUME ConstantsFit PROVE IInv => DraftSurvives
  BY FormsAndDrafts DEF ConstantsFit, IInv, Rounds, Stored, DraftSurvives

--------------------------------------------------------------------------
(* The screen keeps to the inductive invariant.                               *)
THEOREM Inductive == ASSUME ConstantsFit PROVE Spec => []IInv
  <1>1. Init => IInv
    BY InitIInv
  <1>2. IInv /\ [Next]_vars => IInv'
    BY StepIInv DEF vars, storage, Tables
  <1> QED BY <1>1, <1>2, PTL DEF Spec

(* What the screen remembers of a key is a key it has made.                   *)
THEOREM TypeCorrect == ASSUME ConstantsFit PROVE Spec => []TypeOK
  BY Inductive, TypesImplyTypeOK, PTL

(* However often calls are lost, loaded over or pressed again, a screen is told *)
(* "done" only of what it asked for: the page always, the app until a draft it *)
(* fetched has replaced what it pressed.                                     *)
THEOREM ConfirmedRight == ASSUME ConstantsFit PROVE Spec => ConfirmedIsDone
  <1>1. IInv /\ [Next]_vars => [Confirmed]_vars
    BY ToldIsAsked
  <1> QED BY Inductive, <1>1, PTL DEF Spec, ConfirmedIsDone, Confirmed

(* What the participant enters on the page can be restored if it goes away.   *)
THEOREM PageDraftSurvives == ASSUME ConstantsFit PROVE Spec => []DraftSurvives
  BY Inductive, StoredSurvives, PTL
=============================================================================
