------------------------------- MODULE MCClients -------------------------------
(* What users and their devices do at once, on small instances, one part in a *)
(* behaviour: a screen of the fulfilment check (the page without photos and    *)
(* with one; the app, whose storage multiplies its states, through two rounds  *)
(* with one key, through one with two keys, and with two writes at once), the  *)
(* photos of an answer in storage, purchases on a phone, and the creator's     *)
(* devices on the promise tables.  Safety only.                               *)
EXTENDS Integers, FiniteSets

CONSTANTS MaxFaults,
          MaxRounds, MaxKeys,
          Uploads, Attempts, Keepers, MaxPhotos,
          Purchases, Order, Accounts, Buyer, Promises, Calls, Window,
          Phones, Drafts, Workload, Texts, NoText, Nobody, Capacity, MaxLinks

VARIABLES part,   \* what this behaviour is about
          faults,
          promise, photo, replies, client, page, view, form, draft, restored, fetch, saves,
          intents, calls, busy, load, keys, late,
          row, named, evidence, stored, attempt, discarding, purge, answer, window, access,
          paid, grant, record, job, keeper,
          store, bought, revoked, actor, task, verifying, run,
          status, text, sealed, link, holdsSlot, holdsRow, holdsLink, pc, call, todo, terms

Presses  == INSTANCE AnswerScreensProofs WITH Clients <- {"web"}, Photos <- FALSE, MaxSaves <- 1,
                     MaxCalls <- 2, MaxFaults <- 0
Losses   == INSTANCE AnswerScreensProofs WITH Clients <- {"web"}, Photos <- FALSE, MaxSaves <- 1, MaxCalls <- 1
OnePhoto == INSTANCE AnswerScreensProofs WITH Clients <- {"web"}, Photos <- TRUE, MaxSaves <- 1,
                     MaxCalls <- 1, MaxFaults <- 0
AppRounds == INSTANCE AnswerScreensProofs WITH Clients <- {"app"}, Photos <- FALSE, MaxSaves <- 1,
                     MaxCalls <- 1, MaxKeys <- 1, MaxFaults <- 0
AppKeys  == INSTANCE AnswerScreensProofs WITH Clients <- {"app"}, Photos <- FALSE, MaxSaves <- 1,
                     MaxCalls <- 1, MaxRounds <- 1
AppSaves == INSTANCE AnswerScreensProofs WITH Clients <- {"app"}, Photos <- FALSE, MaxSaves <- 2,
                     MaxCalls <- 1, MaxKeys <- 1, MaxRounds <- 1, MaxFaults <- 0
Photo    == INSTANCE StoredEvidenceProofs
Shop     == INSTANCE StorePurchasesProofs WITH Accounts <- {Buyer}, row <- bought, calls <- verifying
TwoUsers == INSTANCE StorePurchasesProofs WITH Purchases <- {Order}, row <- bought, calls <- verifying
Tx       == INSTANCE InviteTransactionsProofs WITH Devices <- Phones, Promises <- Drafts, Answerers <- {}

ASSUME ClientConstants ==
  /\ Presses!ConstantsFit /\ Losses!ConstantsFit /\ OnePhoto!ConstantsFit
  /\ AppRounds!ConstantsFit /\ AppKeys!ConstantsFit /\ AppSaves!ConstantsFit
  /\ MaxKeys # 0
  /\ Photo!ConstantsFit /\ Shop!ConstantsFit /\ TwoUsers!ConstantsFit /\ Tx!ConstantsFit

screen == <<promise, photo, replies, client, page, view, form, draft, restored, fetch, saves,
            intents, calls, busy, load, keys, late>>
photos == <<row, named, evidence, stored, attempt, discarding, purge, answer, window, access,
            paid, grant, record, job, keeper>>
shop   == <<store, bought, revoked, actor, task, verifying, run>>
tx     == <<status, text, sealed, link, holdsSlot, holdsRow, holdsLink, pc, call, todo, terms>>
vars   == <<part, faults, screen, photos, shop, tx>>

On(p) == part = p /\ part' = p

Screens == {"presses", "losses", "one photo", "app rounds", "app keys", "app saves"}
Init == /\ part \in Screens \cup {"photos", "shop", "two users", "tx"}
        /\ CASE part = "presses" -> Presses!Init
             [] part = "one photo" -> OnePhoto!Init
             [] part = "app rounds" -> AppRounds!Init
             [] part = "app keys" -> AppKeys!Init
             [] part = "app saves" -> AppSaves!Init
             [] OTHER -> Losses!Init
        /\ IF part = "two users" THEN TwoUsers!Init ELSE Shop!Init
        /\ Photo!Init /\ Tx!Init
Next == \/ /\ UNCHANGED <<photos, shop, tx>>
           /\ \/ On("presses") /\ Presses!Next
              \/ On("losses") /\ Losses!Next
              \/ On("one photo") /\ OnePhoto!Next
              \/ On("app rounds") /\ AppRounds!Next
              \/ On("app keys") /\ AppKeys!Next
              \/ On("app saves") /\ AppSaves!Next
        \/ UNCHANGED <<screen, photos, tx>> /\ \/ On("shop") /\ Shop!Next
                                               \/ On("two users") /\ TwoUsers!Next
        \/ UNCHANGED <<screen, shop, tx>> /\ On("photos") /\ Photo!Next
        \/ UNCHANGED <<faults, screen, photos, shop>> /\ On("tx") /\ Tx!Next
Spec == Init /\ [][Next]_vars

--------------------------------------------------------------------------
(* What the part of a behaviour holds (a screen, the storage, the purchases, *)
(* the promise tables) has its type.                                        *)
TypeOK == /\ part \in Screens => Losses!TypeOK
          /\ part = "photos" => Photo!TypeOK
          /\ part = "tx" => Tx!TypeOK
          /\ part = "two users" => TwoUsers!TypeOK
          /\ part = "shop" => Shop!TypeOK

(* A screen is told "done" only of what it asked for; in the app unless a     *)
(* fetched draft has replaced it.                                            *)
ConfirmedIsDone == Losses!ConfirmedIsDone
(* What was entered on the page for the round it shows is in local storage. *)
DraftSurvives == Losses!DraftSurvives
(* Purge and discard take no object of a photo that is shown. *)
PurgeSparesEvidence == Photo!PurgeSparesEvidence
(* What is consumed has been granted, to the account that paid. *)
SpentIsGranted == IF part = "two users" THEN TwoUsers!SpentIsGranted ELSE Shop!SpentIsGranted
(* The creator's devices never put more promises in slots than there are. *)
SlotsBounded == Tx!SlotsBounded
(* Two devices that save, send, resend and revoke never wait for each other; *)
(* with a deletion among their calls they may (see MCInviteTransactions).    *)
NoWaitCycle == Tx!NoWaitCycle
=============================================================================
