---------------------------- MODULE AnswerScreens ----------------------------
(* One participant's screen of the fulfilment check and the calls it makes: *)
(* the card of the web page (SCR-W04) or the screen of the app (SCR-A06),   *)
(* with its draft in local storage, its idempotency keys, photos, loads,    *)
(* lost requests and answers, a page that is reloaded or left with a call   *)
(* under way, while the other participant and the deadline move on.  The    *)
(* page's storage answers at once; the app's is encrypted and asynchronous: *)
(* its draft is fetched, saved and cleared while the form is used.          *)
(* A comment is part of the answer: both make the body of a submission.     *)
EXTENDS Integers, FiniteSets

CONSTANTS Clients,    \* which screens: a subset of {"web", "app"}
          MaxRounds,  \* rounds the participants start
          MaxKeys,    \* idempotency keys the screen makes
          MaxCalls,   \* calls under way at once
          MaxSaves,   \* writes of the app's drafts under way at once
          Photos,     \* whether the participant may take a photo
          MaxFaults   \* lost requests and answers, failed loads and uploads

(* What the constants must be; the MC modules assume it of their values. *)
ConstantsFit ==
  /\ Clients \subseteq {"web", "app"} /\ Clients # {}
  /\ MaxRounds \in Nat \ {0} /\ MaxKeys \in Nat /\ MaxFaults \in Nat
  /\ MaxCalls \in Nat \ {0} /\ MaxSaves \in Nat \ {0} /\ Photos \in BOOLEAN

VARIABLES promise,   \* promises and fulfillment_checks of the current round
          photo,     \* evidence_uploads: the row of the one photo taken
          replies,   \* idempotency_keys: what was done under a key
          client, page, view, form,
          draft,     \* the draft kept in local storage, per round
          restored,  \* app: the round whose draft is fetched, and whether edits are saved
          fetch,     \* app: the fetch of a round's draft under way, and what it has read
          saves,     \* app: writes of drafts under way
          intents,   \* the key kept for the next submission, and for reopening
          calls, busy,
          load,      \* a load under way, and what its caller does after it
          keys, faults,
          late       \* what came too late since the screen was entered (see FetchEnds, Continue)

storage == <<draft, restored, fetch, saves, late>>
vars == <<promise, photo, replies, client, page, view, form, storage, intents, calls,
          busy, load, keys, faults>>
server == <<promise, photo, replies>>
screen == <<page, view, form, storage, intents, busy, load, keys>>

Answers  == {"KEPT", "NOT_KEPT"}
Rounds   == 1 .. MaxRounds
Slots    == 1 .. MaxCalls
NoBody   == [kind |-> "none", answer |-> "none", revise |-> FALSE, photo |-> FALSE]
Reopening == [NoBody EXCEPT !.kind = "reopen"]
NoDraft  == [answer |-> "absent", photo |-> FALSE]
NoFetch  == [pc |-> "none", mine |-> FALSE, draft |-> NoDraft]
NoForm   == [answer |-> "none", revising |-> FALSE, photo |-> "none", round |-> 0]
NotRestored == [round |-> 0, saving |-> FALSE]
NoIntent == [key |-> 0, round |-> 0, body |-> NoBody]
NoCall   == [pc |-> "idle", here |-> FALSE, key |-> 0, round |-> 0, body |-> NoBody,
             result |-> "none", done |-> NoBody]
NoLoad   == [on |-> FALSE, body |-> NoBody, round |-> 0]
Loading  == [NoLoad EXCEPT !.on = TRUE]
Opened   == [status |-> "CHECKING", round |-> 1, mine |-> "none", revised |-> FALSE, other |-> "none"]

Init == /\ promise = Opened /\ photo = [row |-> "none", round |-> 0]
        /\ replies = [k \in 1 .. MaxKeys |-> NoBody]
        /\ client \in Clients
        /\ page = "loading" /\ view = Opened /\ form = NoForm
        /\ draft = [r \in Rounds |-> NoDraft]
        /\ restored = NotRestored /\ fetch = [r \in Rounds |-> NoFetch] /\ saves = {} /\ late = {}
        /\ intents = [submit |-> NoIntent, reopen |-> NoIntent]
        /\ calls = [s \in Slots |-> NoCall] /\ busy = FALSE
        /\ load = Loading /\ keys = 0 /\ faults = 0

Fault == faults < MaxFaults /\ faults' = faults + 1

--------------------------------------------------------------------------
(* The server: lf_fulfillment_submit, lf_fulfillment_reopen, the other      *)
(* participant and J-03.  An unanswered first round ends the promise, a     *)
(* later one leaves it disputed.                                           *)
Judged(p) == [p EXCEPT !.status =
  CASE p.mine = "none" \/ p.other = "none" -> "CHECKING"
    [] p.mine # p.other -> "DISPUTED"
    [] p.mine = "KEPT" -> "COMPLETED"
    [] OTHER -> "BROKEN"]
NextRound(p) == [Opened EXCEPT !.round = p.round + 1]
PhotoFits == photo.row = "READY" /\ photo.round = promise.round
Accepts(body) ==
  IF body.kind = "reopen" THEN promise.status = "DISPUTED" /\ promise.round < MaxRounds
  ELSE /\ promise.status = "CHECKING"
       /\ IF promise.mine = "none" THEN ~body.revise
          ELSE body.revise /\ ~promise.revised /\ promise.other = "none"
       /\ body.photo => PhotoFits
Executed(body) ==
  IF body.kind = "reopen" THEN NextRound(promise)
  ELSE Judged([promise EXCEPT !.mine = body.answer, !.revised = body.revise])

OtherAnswers == /\ promise.status = "CHECKING" /\ promise.other = "none"
                /\ \E a \in Answers : promise' = Judged([promise EXCEPT !.other = a])
OtherReopens == Accepts(Reopening) /\ promise' = Executed(Reopening)
Deadline == /\ promise.status = "CHECKING"
            /\ promise' = [promise EXCEPT !.status = IF promise.round = 1 THEN "UNRESOLVED" ELSE "DISPUTED"]
PromiseMoves == /\ OtherAnswers \/ OtherReopens \/ Deadline
                /\ UNCHANGED <<photo, replies, client, calls, faults>> /\ UNCHANGED screen
(* An answer is kept under its key for ten minutes. *)
KeyLapses(k) == /\ replies[k] # NoBody /\ replies' = [replies EXCEPT ![k] = NoBody]
                /\ UNCHANGED <<promise, photo, client, calls, faults>> /\ UNCHANGED screen

--------------------------------------------------------------------------
(* A call reaches the server, or does not; its answer comes back, or does   *)
(* not.  An error is not kept under the key, and the body is not compared.  *)
Serve(s) ==
  LET c == calls[s]
      known == replies[c.key] # NoBody
      ok == known \/ Accepts(c.body)
      answered == [c EXCEPT !.pc = "answered",
                            !.result = IF ok THEN "ok" ELSE "conflict",
                            !.done = IF known THEN replies[c.key] ELSE c.body]
      lost == [c EXCEPT !.pc = "answered", !.result = "lost"]
      served == IF known \/ ~ok THEN UNCHANGED server
                ELSE /\ promise' = Executed(c.body)
                     /\ photo' = IF c.body.photo THEN [photo EXCEPT !.row = "BOUND"] ELSE photo
                     /\ replies' = [replies EXCEPT ![c.key] = c.body]
  IN /\ c.pc = "sent"
     /\ \/ served /\ calls' = [calls EXCEPT ![s] = answered] /\ UNCHANGED faults
        \/ served /\ calls' = [calls EXCEPT ![s] = lost] /\ Fault
        \/ UNCHANGED server /\ calls' = [calls EXCEPT ![s] = lost] /\ Fault
     /\ UNCHANGED client /\ UNCHANGED screen

--------------------------------------------------------------------------
(* What the screen shows. *)
MayRevise(v) == v.mine # "none" /\ ~v.revised /\ v.other = "none"
FormShown == /\ page = "ready"
             /\ IF client = "web"
                THEN view.status = "CHECKING" /\ (view.mine = "none" \/ form.revising)
                ELSE (view.status = "CHECKING" /\ view.mine = "none") \/ form.revising

(* The app forgets the key of its submission with every edit; the page       *)
(* compares what it would send with what it has sent.  The page writes an   *)
(* edit to storage at once; the app starts a write and does not wait for it,*)
(* and none before the draft has been fetched.                             *)
KeyKept == intents.submit
KeyAfterEdit == IF client = "app" THEN NoIntent ELSE intents.submit
Kept(f) == [answer |-> f.answer, photo |-> f.photo = "ready"]
SavedUnanswered(f, round) ==
  IF client = "web" /\ view.mine = "none" THEN [draft EXCEPT ![round] = Kept(f)] ELSE draft
Saved(f, round) == IF client = "web" THEN [draft EXCEPT ![round] = Kept(f)] ELSE draft
SaveStarts(v, f, saving) ==
  /\ saves' = IF client = "app" /\ saving /\ v.status = "CHECKING" /\ (v.mine = "none" \/ f.revising)
              THEN saves \cup {[round |-> v.round, draft |-> Kept(f)]} ELSE saves
  /\ Cardinality(saves') <= MaxSaves
EditIn(f, round, saving) ==
  /\ form' = [f EXCEPT !.round = round]
  /\ draft' = Saved(f, round) /\ SaveStarts(view, f, saving)
  /\ restored' = [restored EXCEPT !.saving = saving]
  /\ UNCHANGED <<client, page, view, fetch, late, calls, busy, load, keys>>
Edit(f) == /\ EditIn(f, view.round, restored.saving)
           /\ intents' = [intents EXCEPT !.submit = KeyAfterEdit]

Choose(a) == /\ FormShown /\ form.answer # a /\ Edit([form EXCEPT !.answer = a])
             /\ UNCHANGED faults /\ UNCHANGED server
StartRevision ==
  /\ page = "ready" /\ view.status = "CHECKING" /\ MayRevise(view) /\ ~form.revising
  /\ client = "app" => ~busy
  /\ EditIn([NoForm EXCEPT !.answer = view.mine, !.revising = TRUE], view.round, client = "app")
  /\ intents' = [intents EXCEPT !.submit = KeyAfterEdit]
  /\ UNCHANGED faults /\ UNCHANGED server

(* Photos.  An upload that fails shows it; the page lets a failed photo     *)
(* only be tried again.  A photo that was submitted cannot be discarded.    *)
TakePhoto == /\ Photos /\ FormShown /\ form.photo = "none" /\ photo.row = "none"
             /\ Edit([form EXCEPT !.photo = "uploading"])
             /\ UNCHANGED faults /\ UNCHANGED server
RetryPhoto == /\ FormShown /\ form.photo = "failed" /\ Edit([form EXCEPT !.photo = "uploading"])
              /\ UNCHANGED faults /\ UNCHANGED server
UploadEnds ==
  LET round == IF client = "web" THEN form.round ELSE view.round
      Shows(state) == EditIn([form EXCEPT !.photo = state], round, restored.saving)
      fits == promise.status = "CHECKING" /\ promise.round = form.round
  IN /\ form.photo = "uploading"
     /\ \/ fits /\ Shows("ready") /\ photo' = [row |-> "READY", round |-> form.round] /\ UNCHANGED faults
        \/ ~fits /\ Shows("failed") /\ UNCHANGED <<photo, faults>>
        \/ Shows("failed") /\ UNCHANGED photo /\ Fault
     /\ UNCHANGED <<promise, replies, intents>>
RemovePhoto ==
  /\ FormShown
  /\ \/ form.photo = "ready" /\ photo.row # "BOUND" /\ photo' = [photo EXCEPT !.row = "DISCARDED"]
     \/ form.photo = "failed" /\ client = "app" /\ UNCHANGED photo
  /\ Edit([form EXCEPT !.photo = "none"])
  /\ UNCHANGED <<promise, replies, faults>>

--------------------------------------------------------------------------
(* A press: the key that was kept for the same intention, or a new one.     *)
SameIntentOfRound(intent, body) == intent.round = view.round
SameIntent(intent, body) == intent.round = view.round /\ intent.body = body
Reused(intent, body) == intent.key # 0 /\ (client = "app" \/ SameIntent(intent, body))
Press(name, body) ==
  LET intent == intents[name]
      key == IF Reused(intent, body) THEN intent.key ELSE keys + 1
  IN \E s \in Slots :
       /\ calls[s] = NoCall /\ \A t \in 1 .. s - 1 : calls[t] # NoCall
       /\ key <= MaxKeys /\ keys' = IF key > keys THEN key ELSE keys
       /\ intents' = [intents EXCEPT ![name] = [key |-> key, round |-> view.round, body |-> body]]
       /\ calls' = [calls EXCEPT ![s] = [NoCall EXCEPT !.pc = "sent", !.here = TRUE, !.key = key,
                                          !.round = view.round, !.body = body]]
       /\ busy' = TRUE
       /\ UNCHANGED <<client, page, view, form, storage, load, faults>> /\ UNCHANGED server
Body == [kind |-> "submit", answer |-> form.answer, revise |-> form.revising,
         photo |-> form.photo = "ready"]
Submit == /\ FormShown /\ ~busy /\ form.answer # "none" /\ form.photo # "uploading"
          /\ Press("submit", Body)
Reopen == /\ page = "ready" /\ view.status = "DISPUTED" /\ ~busy /\ Press("reopen", Reopening)

(* The page has one "pending" for all its cards: a press on another card    *)
(* gives the buttons of this one back.                                     *)
PressElsewhere == /\ client = "web" /\ busy /\ page = "ready" /\ busy' = FALSE
                  /\ UNCHANGED <<client, page, view, form, storage, intents, calls, load,
                                 keys, faults>> /\ UNCHANGED server

(* What follows the answer to a call.  An answer that was accepted ends the  *)
(* draft: the page drops it with the form, the app waits for its storage    *)
(* first.  A call of a screen that was left does so all the same, unless    *)
(* the page was reloaded or the app killed.                                *)
EndsDraft(call) == call.result = "ok" /\ call.body.kind = "submit"
Cleared(round) == [draft EXCEPT ![round] = NoDraft]
ClearDraft(s) ==
  /\ client = "app" /\ calls[s].pc = "answered" /\ EndsDraft(calls[s])
  /\ \/ draft' = Cleared(calls[s].round) /\ UNCHANGED faults
     \/ UNCHANGED draft /\ Fault
  /\ calls' = [calls EXCEPT ![s].pc = "cleared"]
  /\ UNCHANGED <<client, page, view, form, restored, fetch, saves, late, intents, busy, load, keys>>
  /\ UNCHANGED server

LoadAfter(call) == /\ load' = [on |-> TRUE, body |-> call.body, round |-> call.round]
                   /\ page' = IF client = "web" THEN "loading" ELSE page
Done(call) ==
  /\ call.result = "ok" /\ LoadAfter(NoCall)
  /\ intents' = [intents EXCEPT ![call.body.kind] = NoIntent]
  /\ IF call.body.kind = "reopen" THEN UNCHANGED <<form, draft, restored>>
     ELSE /\ form' = NoForm /\ draft' = IF client = "web" THEN Cleared(call.round) ELSE draft
          /\ restored' = [restored EXCEPT !.saving = FALSE]
  /\ UNCHANGED <<busy, late>>
Refused(call) == /\ call.result = "conflict" /\ LoadAfter(call)
                 /\ UNCHANGED <<intents, form, draft, restored, late, busy>>
Lost(call) == /\ call.result = "lost" /\ busy' = FALSE
              /\ page' = IF client = "web" THEN "error" ELSE page
              /\ UNCHANGED <<intents, form, draft, restored, late, load>>
Abandoned(call) ==
  /\ \/ UNCHANGED <<draft, late>>
     \/ /\ client = "web" /\ EndsDraft(call)
        /\ draft' = Cleared(call.round) /\ late' = late \cup {"done"}
  /\ UNCHANGED <<intents, form, restored, load, page, busy>>
Continue(s) ==
  /\ calls[s].pc \in {"answered", "cleared"} /\ calls' = [calls EXCEPT ![s] = NoCall]
  /\ IF calls[s].here
     THEN /\ calls[s].pc = "cleared" \/ ~(client = "app" /\ EndsDraft(calls[s]))
          /\ Done(calls[s]) \/ Refused(calls[s]) \/ Lost(calls[s])
     ELSE Abandoned(calls[s])
  /\ UNCHANGED <<client, view, fetch, saves, keys, faults>> /\ UNCHANGED server

--------------------------------------------------------------------------
(* A load.  The page keeps the key of an intention until what it loads      *)
(* shows it done or past; the app does after a refusal only.                *)
Settled(intent, v) ==
  IF intent.body.kind = "reopen" THEN v.status # "DISPUTED" \/ v.round # intent.round
  ELSE \/ v.status # "CHECKING" \/ v.round # intent.round
       \/ v.mine = intent.body.answer /\ (intent.body.revise => v.revised)
ShownDone(v) == \/ load.body.kind = "submit" /\ v.mine = load.body.answer
                \/ load.body.kind = "reopen" /\ v.status = "CHECKING" /\ v.round > load.round
Reconciled(v) ==
  [n \in DOMAIN intents |->
     IF IF client = "web" THEN Settled(intents[n], v) ELSE load.body.kind = n /\ ShownDone(v)
     THEN NoIntent ELSE intents[n]]

(* A draft in storage comes back while its round may still be answered: on   *)
(* the page with the load, unless there is one in memory; the app asks for  *)
(* it once per round.  The page drops one that came too late.              *)
CanRestore(v) == v.status = "CHECKING" /\ (v.mine = "none" \/ MayRevise(v))
Fetches(v) == CanRestore(v) /\ IF client = "web" THEN form = NoForm ELSE restored.round # v.round
Refilled(d, round, mine) ==
  IF d = NoDraft THEN form
  ELSE [answer |-> d.answer, photo |-> IF d.photo THEN "ready" ELSE "none", round |-> round,
        revising |-> mine \/ form.revising]
LoadedPage(v) ==
  /\ form' = IF Fetches(v) THEN Refilled(draft[v.round], v.round, v.mine # "none") ELSE form
  /\ draft' = IF v.status = "CHECKING" /\ ~CanRestore(v) /\ form = NoForm THEN Cleared(v.round) ELSE draft
  /\ UNCHANGED <<restored, fetch, saves>>
LoadedApp(v) ==
  /\ IF Fetches(v)
     THEN /\ restored' = [restored EXCEPT !.round = v.round]
          /\ fetch' = [fetch EXCEPT ![v.round] = [NoFetch EXCEPT !.pc = "asked", !.mine = v.mine # "none"]]
     ELSE UNCHANGED <<restored, fetch>>
  /\ SaveStarts(v, form, restored.saving)
  /\ UNCHANGED <<form, draft>>
LoadEnds ==
  /\ load.on /\ view' = promise /\ page' = "ready" /\ intents' = Reconciled(promise)
  /\ IF client = "web" THEN LoadedPage(promise) ELSE LoadedApp(promise)
  /\ load' = NoLoad /\ busy' = FALSE
  /\ UNCHANGED <<client, calls, keys, faults, late>> /\ UNCHANGED server
LoadFails == /\ load.on /\ Fault /\ load' = NoLoad /\ page' = "error" /\ busy' = FALSE
             /\ UNCHANGED <<client, view, form, storage, intents, calls, keys>> /\ UNCHANGED server
RetryLoad == /\ page = "error" /\ ~load.on /\ load' = Loading /\ page' = "loading"
             /\ UNCHANGED <<client, view, form, storage, intents, calls, busy, keys, faults>>
             /\ UNCHANGED server
(* The app's storage.  Nothing orders its writes: one of several to the same *)
(* round may leave a draft that cannot be read, as the first make their own *)
(* keys.  What is fetched replaces the form as it stands by then, whatever  *)
(* was entered, and the key of a press is kept.                            *)
SaveEnds(w) ==
  /\ saves' = saves \ {w}
  /\ \/ draft' = [draft EXCEPT ![w.round] = w.draft] /\ UNCHANGED faults
     \/ (\E o \in saves' : o.round = w.round) /\ draft' = Cleared(w.round) /\ UNCHANGED faults
     \/ UNCHANGED draft /\ Fault
  /\ UNCHANGED <<client, page, view, form, restored, fetch, late, intents, calls, busy, load, keys>>
  /\ UNCHANGED server
FetchReads(r) ==
  /\ fetch[r].pc = "asked"
  /\ \/ fetch' = [fetch EXCEPT ![r].pc = "read", ![r].draft = draft[r]] /\ UNCHANGED faults
     \/ fetch' = [fetch EXCEPT ![r].pc = "read"] /\ Fault
  /\ UNCHANGED <<client, page, view, form, draft, restored, saves, late, intents, calls, busy, load,
                 keys>> /\ UNCHANGED server
FetchEnds(r) ==
  /\ fetch[r].pc = "read" /\ fetch' = [fetch EXCEPT ![r] = NoFetch]
  /\ form' = Refilled(fetch[r].draft, view.round, fetch[r].mine)
  /\ restored' = [restored EXCEPT !.saving = TRUE] /\ SaveStarts(view, form', TRUE)
  /\ late' = IF intents.submit.key # 0 /\ Body' # Body THEN late \cup {"draft"} ELSE late
  /\ UNCHANGED <<client, page, view, draft, intents, calls, busy, load, keys, faults>>
  /\ UNCHANGED server

(* The page is reloaded, the app killed, the screen left and entered again: *)
(* what is in memory goes, calls under way run on without anybody waiting   *)
(* for them, and so do the app's writes unless it was killed.              *)
Reenter == /\ page' = "loading" /\ load' = Loading /\ form' = NoForm /\ restored' = NotRestored
           /\ fetch' = [r \in Rounds |-> NoFetch] /\ saves' \in {saves, {}} /\ late' = {}
           /\ intents' = [submit |-> NoIntent, reopen |-> NoIntent] /\ busy' = FALSE
           /\ calls' = [s \in Slots |-> [calls[s] EXCEPT !.here = FALSE]]
           /\ UNCHANGED <<client, view, draft, keys, faults>> /\ UNCHANGED server

Next == \/ PromiseMoves \/ \E k \in 1 .. MaxKeys : KeyLapses(k)
        \/ \E a \in Answers : Choose(a)
        \/ StartRevision \/ TakePhoto \/ RetryPhoto \/ UploadEnds \/ RemovePhoto
        \/ Submit \/ Reopen \/ PressElsewhere
        \/ \E s \in Slots : Serve(s) \/ ClearDraft(s) \/ Continue(s)
        \/ LoadEnds \/ LoadFails \/ RetryLoad \/ Reenter
        \/ \E w \in saves : SaveEnds(w)
        \/ \E r \in Rounds : FetchReads(r) \/ FetchEnds(r)
Spec == Init /\ [][Next]_vars

--------------------------------------------------------------------------
(* The variables have their types; what the page remembers of a key is a    *)
(* key it has made.                                                        *)
TypeOK ==
  /\ promise.status \in {"CHECKING", "DISPUTED", "COMPLETED", "BROKEN", "UNRESOLVED"}
  /\ promise.round \in Rounds /\ view.round \in Rounds
  /\ page \in {"loading", "ready", "error"} /\ keys \in 0 .. MaxKeys
  /\ form.photo \in {"none", "uploading", "ready", "failed"}
  /\ \A n \in DOMAIN intents : intents[n].key \in 0 .. keys

(* A screen is told "done" only of what it asked for: an answer kept under   *)
(* a key is never taken for another answer, revision, photo or reopening,   *)
(* however often calls were lost, loaded over or pressed again; on the page *)
(* always, in the app unless the fetched draft has replaced what was sent.  *)
ConfirmedIsDone ==
  [][\A s \in DOMAIN calls :
       calls[s].pc \in {"answered", "cleared"} /\ calls[s].here /\ calls[s].result = "ok"
       /\ (client = "app" => "draft" \notin late) => calls[s].done = calls[s].body]_vars

(* What the participant has entered on the page for the round it shows can   *)
(* be restored if the page goes away now: local storage holds it as it      *)
(* stands in the form (a photo once it is uploaded), unless a submission    *)
(* of the page as it was before it was left has ended the draft since.      *)
DraftSurvives ==
  /\ client = "web" /\ "done" \notin late
  /\ FormShown /\ ~busy /\ view.status = "CHECKING" /\ form.round = view.round /\ form.answer # "none"
  => draft[view.round] = Kept(form)

(* In the app, after a lost answer, a repetition uses the key and a changed  *)
(* submission a new one (scr-a06-fulfillment-check.test.tsx:894): a         *)
(* submission never goes out under a key under which another was done.      *)
ChangedMeansNewKey ==
  \A s \in Slots : client = "app" /\ calls[s].pc = "sent"
                   => replies[calls[s].key] \in {NoBody, calls[s].body}

(* Each round is answered anew (docs/기획/02_세부기능명세서.md:457): on a screen *)
(* that shows the promise as it is, the form revises an answer exactly when  *)
(* the participant has given one in this round.                             *)
RevisionFits ==
  FormShown /\ view = promise /\ view.status = "CHECKING" => (form.revising <=> view.mine # "none")
=============================================================================
