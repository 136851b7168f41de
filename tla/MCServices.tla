------------------------------ MODULE MCServices ------------------------------
(* The server-side services on small instances, one of them in a behaviour:  *)
(* the workers and calls of PushDelivery, StoredEvidence, StorePurchases,    *)
(* RewardedAds and AccountErasure share no table with each other that these  *)
(* modules look at, and InviteTransactions is the promise tables' own        *)
(* instance.  What a service promises is checked under its own fairness.     *)
EXTENDS Integers, FiniteSets

CONSTANTS MaxFaults,
          Intents, Devices, Users, Recipient, Workers, MaxAttempts, MaxMoves,
          Uploads, Attempts, Keepers, MaxPhotos,
          Purchases, Accounts, Calls, Window,
          MaxIntents, MaxAds, MaxKeys,
          Leavers, Requests, Erasers,
          Phones, Answerers, Workload, Promises, Texts, NoText, Nobody, Capacity, MaxLinks

VARIABLES part,   \* the service this behaviour is about
          faults,
          outbox, delivery, inbox, owner, gone, worker, accepted, moves,
          row, named, evidence, stored, attempt, discarding, purge, answer, window, access,
          paid, grant, record, job, keeper,
          store, bought, revoked, actor, task, calls, run,
          once, eligible, intent, live, ad, signing, cache, sheet,
          login, erasure, request, eraser,
          status, text, sealed, link, holdsSlot, holdsRow, holdsLink, pc, call, todo, terms

Push  == INSTANCE PushDelivery
Photo == INSTANCE StoredEvidenceProofs
Shop  == INSTANCE StorePurchasesProofs WITH row <- bought
Ads   == INSTANCE RewardedAds
Erase == INSTANCE AccountErasure WITH Accounts <- Leavers, Workers <- Erasers,
                                      outbox <- erasure, worker <- eraser
Tx    == INSTANCE InviteTransactionsProofs WITH Devices <- Phones

ASSUME ServiceConstants ==
  /\ Push!ConstantsFit /\ Photo!ConstantsFit /\ Shop!ConstantsFit
  /\ Ads!ConstantsFit /\ Erase!ConstantsFit /\ Tx!ConstantsFit

push  == <<outbox, delivery, inbox, owner, gone, worker, accepted, moves>>
photo == <<row, named, evidence, stored, attempt, discarding, purge, answer, window, access,
           paid, grant, record, job, keeper>>
shop  == <<store, bought, revoked, actor, task, calls, run>>
ads   == <<once, eligible, intent, live, ad, signing, cache, sheet>>
erase == <<login, erasure, request, eraser>>
tx    == <<status, text, sealed, link, holdsSlot, holdsRow, holdsLink, pc, call, todo, terms>>
vars  == <<part, faults, push, photo, shop, ads, erase, tx>>

On(p) == part = p /\ part' = p
SomeOne(set, x) == x = CHOOSE y \in set : TRUE

Init == /\ part \in {"push", "photo", "shop", "ads", "erase", "tx"}
        /\ Push!Init /\ Photo!Init /\ Shop!Init /\ Ads!Init /\ Erase!Init /\ Tx!Init
        /\ part # "push" => gone = {}
        /\ part # "shop" => SomeOne(Accounts, actor)
        /\ part # "ads"  => once
Next == \/ On("push")  /\ Push!Next  /\ UNCHANGED <<photo, shop, ads, erase, tx>>
        \/ On("photo") /\ Photo!Next /\ UNCHANGED <<push, shop, ads, erase, tx>>
        \/ On("shop")  /\ Shop!Next  /\ UNCHANGED <<push, photo, ads, erase, tx>>
        \/ On("ads")   /\ Ads!Next   /\ UNCHANGED <<push, photo, shop, erase, tx>>
        \/ On("erase") /\ Erase!Next /\ UNCHANGED <<push, photo, shop, ads, tx>>
        \/ On("tx")    /\ Tx!Next    /\ UNCHANGED <<faults, push, photo, shop, ads, erase>>

(* The fairness of each service, while the behaviour is about it. *)
Fairness ==
  /\ \A r \in Push!Rows : WF_push(part = "push" /\ Push!LeaseEnds(r))
  /\ \A i \in Intents : WF_push(part = "push" /\ Push!IntentLeaseEnds(i))
  /\ \A w \in Workers : WF_push(part = "push" /\ Push!WorkerStep(w))
  /\ WF_photo(part = "photo" /\ Photo!PurgeStep) /\ WF_photo(part = "photo" /\ Photo!LeaseEnds)
  /\ \A k \in Keepers : WF_photo(part = "photo" /\ Photo!KeeperStep(k))
  /\ WF_shop(part = "shop" /\ Shop!Reconcile) /\ WF_shop(part = "shop" /\ Shop!NextDay)
  /\ \A c \in Calls : WF_shop(part = "shop" /\ Shop!Server(c))
  /\ WF_ads(part = "ads" /\ Ads!MinuteOver)
  /\ \A a \in Ads!Ads : WF_ads(part = "ads" /\ Ads!Callback(a))
  /\ \A w \in Erasers : WF_erase(part = "erase" /\ Erase!WorkerStep(w))
  /\ \A u \in Leavers : WF_erase(part = "erase" /\ Erase!LeaseEnds(u))
  /\ \A s \in Tx!Sessions : SF_tx(part = "tx" /\ Tx!Step(s))
Spec == Init /\ [][Next]_vars /\ Fairness

--------------------------------------------------------------------------
(* Each service's tables have their types. *)
TypeOK == Push!TypeOK /\ Photo!TypeOK /\ Shop!TypeOK /\ Ads!TypeOK /\ Erase!TypeOK /\ Tx!TypeOK

(* Recorded tickets and outcomes of a push message stay. *)
SettledStays == Push!SettledStays
(* A message goes to Expo twice only after something went wrong. *)
ResentOnlyAfterFault == Push!ResentOnlyAfterFault
(* DeviceNotRegistered never takes the token of another account. *)
TokenOfOthersKept == Push!TokenOfOthersKept
(* Whatever is queued for a worker is settled in the end: every intent and    *)
(* delivery of a notification, every login of a withdrawn account.           *)
EveryQueueSettles == <>[](part = "push" => Push!Settled) /\ Erase!AccountsErased

(* A record somebody bought access to is never erased. *)
PaidRecordKept == Photo!PaidRecordKept
(* Records nobody may read, and photos taken away, go in the end. *)
WhatIsOverGoes == Photo!WhatIsOverGoes

(* A refunded purchase is taken back in the end. *)
RefundTakenBack == Shop!RefundTakenBack
(* An ad watched in time gets its intent decided. *)
WatchedIsDecided == Ads!WatchedIsDecided

(* The hash sealed by an approval is that of the text the promise holds. *)
SealedIsText == Tx!SealedIsText
(* No group of calls waits for each other. *)
NoWaitCycle == Tx!NoWaitCycle
(* Every call comes to an end. *)
EveryCallReturns == Tx!EveryCallReturns
(* The committed rows move along the transition table. *)
ImplementsLifecycle == Tx!ImplementsLifecycle
=============================================================================
