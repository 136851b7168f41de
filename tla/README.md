# Littlefinger in TLA+

Littlefinger lets two people agree on a promise, keep it, and judge together
whether it was kept. Its logic is not in the apps but in PostgreSQL: every
operation is one `security definer` function in `supabase/migrations/`, called
by a thin edge function in `supabase/functions/`, and a handful of `pg_cron`
batches. Around it are workers and callbacks that deal with services outside
(Expo, object storage, Google Play, AdMob, Supabase Auth) and two clients that
keep drafts, keys and photos of their own. This project models that logic,
checks it with TLC on small instances and proves the main results about
agreement with TLAPS for every value of the constants.

Paths below are relative to the repository; `M/` stands for
`supabase/migrations/`.

## 1. Inventory

| Part | State it keeps | Operations | Talks to |
|---|---|---|---|
| Transition table | – | `packages/shared/src/transitions.ts`, T-01 … T-21 | every other part respects it |
| Drafts, sending, resending | `promises`, `promise_versions`, `invitations` | promise-create, promise-draft-update, promise-invite, invite-revoke, promise-pending-delete, delete of a draft row | slots, outbox, idempotency |
| Answers | `approvals`, `promise_participants` | promise-approve, promise-decline, promise-amend, invite-decline-public | links, blocks, outbox |
| J-04 | `invitations` | batch every 30 minutes | outbox |
| Slots and purchases | `slot_purchases`, revocations, an advisory lock per user | slot count; purchase-verify, purchase-reconcile; what the app does with a purchase until it is consumed | Google Play |
| Accounts and blocks | `users`, `blocks` | account-withdraw, user-block, user-unblock | drafts, links, amendments, auth outbox |
| Fulfilment checks | `fulfillment_checks`, round and deadline in `promises`, `trust_profiles` | J-02 opens a check, both parties submit, J-03 closes what nobody answered, reopen of a dispute (T-11 … T-17) | trust profile, outbox, slots |
| Amendments, cancellation, finish | `amend_requests`, proposals in `promise_versions` | request, respond, withdraw, J-05 (T-07 … T-10, T-19 … T-21) | fulfilment, account-withdraw |
| Notification outbox, push | `notification_outbox`, `push_deliveries` with leases, tickets and attempts, `device_tokens` | one cron worker in four stages: intents, deliveries, receipts, aggregation; registering a device | Expo |
| Evidence | `evidence_uploads`, `fulfillment_evidences`, objects in a bucket | reserve, two uploads, complete, discard, bind by an answer, weekly purge | storage |
| Retention (J-11) | access windows, `promise_purge_jobs` | maintenance, lease of a job, removal of objects, finalize | storage, purchases |
| Rewarded ads | `reward_intents` | intent, ad, signed callback, grant, the waiting sheet | AdMob |
| Auth deletion outbox | `auth_deletion_outbox` with leases | delete at once, retry by cron | Supabase Auth |
| Idempotency keys | `idempotency_keys` with a stored answer | begin, finish | every mutating edge function |
| Web and app answer screens | a form, a draft in local storage (the page's at once, the app's fetched and saved in the background), keys of presses, a loaded page | submit, revise, reopen, photos, reload | fulfilment, evidence, idempotency |
| Witnesses | `promise_participants` WITNESS rows, links | join, sign, leave | answers, withdrawal |
| Draft clean-up J-06, reminders J-01 | `reminders`, NT-21 | warn, then delete; fire or cancel | outbox |
| Keep rate, trust profile, KST dates | counters | recompute; calendar functions | fulfilment |
| Inbox, aliases, celebration, home, detail | single rows, projections | reads and single-row writes | – |
| Other client screens | forms | any sequence of calls | – |

What is hard here:

* **Interleaving.** Functions run under READ COMMITTED. Some read a status
  without a lock and decide by it; revocations and deletions work on the
  snapshot of their statement; two devices and a partner act at once.
* **Lock order.** A slot lock, row locks of invitations, a row lock of a
  promise: taken in different functions, some of them by a cascading delete.
* **Long sequences.** A promise can be suggested on, rewritten, resent, expire
  and be resent again. Text, link, partner and approvals must stay in step.
* **Dates.** An answer may not come after its link lapsed, and the batch must
  collect exactly those.
* **Departure.** An account withdraws while its promises are in flight.
* **The night.** J-02, J-03 and J-05 run ten minutes apart; each reads dates and
  deadlines another wrote, and people act between them.
* **Services outside.** A message is sent and its worker dies; a callback comes
  twice, late, or signed with a key the server has not fetched; a purchase is
  paid while the app is closed, and refunded later. Leases let a second worker in,
  and the first one may still come back.
* **Rows and objects.** A photo is a row and two objects that no transaction
  covers. Uploads, discards, the weekly purge and the retention worker each
  write one side before the other, and can stop in between.
* **The screen is behind.** A form belongs to a round that may be over; an answer
  got lost, a press is repeated, a reload fails, the user edits while a call is out. The
  app's encrypted storage answers late: its draft arrives in a form that is in use.

What makes each part correct:

| Part | Correct when |
|---|---|
| Sending, answers, J-04 | one live link, only while PENDING, showing the text in force; signatures of the two parties under that text; settled links and partners stay; lapsed links are collected |
| Slots | a promise enters PENDING only into a free slot, on every path and under every interleaving |
| Withdrawal | nothing of a withdrawn account is open, now or through a later call |
| Transition table | every committed change is an entry of it |
| Transactions | no circle of waiting, every call returns, no partial effect |
| Fulfilment | one verdict per round, from both answers of that round; a check window nobody can miss; slot count survives reopening |
| Amendments | at most one pending request, and only while the promise is AMEND_PENDING |
| Push | every intent and delivery is settled; a second message only after a fault; a late worker changes nothing that is settled; nobody loses a token to another account's error |
| Evidence | photos taken away or never bound go in the end; clean-up takes no object of a photo that is shown |
| Retention | a record that was agreed on and that somebody bought access to is never erased; a record nobody may read goes |
| Purchases | consumed only after it was granted to the account that paid; a refunded purchase is taken back |
| Rewarded ads | an ad watched in time gets its intent decided, however often the callback fails or repeats |
| Account erasure | every withdrawn account loses its login, whoever dies on the way |
| Answer screens | what was entered on the page for the round survives; "done" is shown only of what was asked for (in the app both are broken by its late draft, section 4) |

`PROJECT.json` lists the hazards with the line at which each bites and the
property that covers it; one without a property has a note with the reason.

## 2. Modules

| Module | What it is |
|---|---|
| `PromiseLifecycle` | the abstract specification: a status per promise, and the pairs of statuses a step may take |
| `Agreement` | how a promise comes about, one action per server function, each transaction one step |
| `InviteTransactions` | the functions of `Agreement` that touch an invitation, statement by statement, with locks |
| `Fulfillment` | what becomes of an active promise: requests, checks, disputes, the nightly batches, one action per function or batch |
| `PushDelivery` | the outbox and the push worker, with leases, tickets, receipts and phones that change hands |
| `StoredEvidence` | photos as rows and objects, bought access, and the erasure of records |
| `StorePurchases` | a purchase from the store's sheet to consumption or refund: app, server and Google Play |
| `RewardedAds` | an intent, its ad, and AdMob's callback |
| `AccountErasure` | the login of a withdrawn account, deleted at once or by leased retries |
| `AnswerScreens` | the answer screen of a fulfilment check, web and app, against the calls it makes |
| `MCAgreement`, `MCInviteTransactions`, `MCFulfillment` | symmetry sets for TLC, instances |
| `MCServices` | the server's services on small instances, with their fairness |
| `MCClients` | what clients do, on other instances of the same modules |
| `AgreementProofs`, `FulfillmentProofs` | theorems about the two halves of a promise's life |
| `InviteTransactionsProofs`, `StoredEvidenceProofs`, `StorePurchasesProofs`, `AnswerScreensProofs` | inductive invariants of a component and the lemmas about its steps |
| `MCServicesProofs`, `MCClientsProofs` | the theorems about the compositions, from those lemmas; push delivery, ads and logins are in the first |

`Agreement`, `InviteTransactions` and `Fulfillment` implement `PromiseLifecycle`. `Agreement` ends where a promise becomes
ACTIVE, and `Fulfillment` starts there. `Agreement`
says what a call about an invitation does, `InviteTransactions` what happens when its statements interleave
with those of other calls.

### Agreement

| Variable | Column |
|---|---|
| `today`, `fresh` | the KST date, the promises whose `created_at` falls on it |
| `status`, `creator`, `content` | `promises` and version 1 of `promise_versions` (always written together before activation) |
| `partner` | the PARTNER row of `promise_participants` |
| `issued`, `link` | PARTNER rows of `invitations`, indexed by `resend_count`; each remembers the text it was sent with (a history variable, for `LinkShowsItsTerms`) |
| `signed` | `approvals` with the text each was given under |
| `account`, `blocks`, `bought` | `users.status`, `blocks`, purchases that are not revoked |

| Action | Function |
|---|---|
| `CreateDraft`, `CreateAndSend` | `lf_promise_create` |
| `UpdateDraft`, `UpdateAndSend` | `lf_promise_draft_update` |
| `Invite`, `IssueLink` | `lf_promise_invite`, `lf_invite_issue_row` |
| `RevokeInvite`, `DeleteUnsettled` | `lf_invite_revoke`, `lf_promise_pending_delete` and the row delete RLS allows on a draft |
| `Approve`, `Decline`, `AmendSuggest` | `lf_promise_approve`, `lf_promise_decline`, `lf_promise_amend_suggest` |
| `DeclinePublic` | `lf_invite_decline_public`, PARTNER links |
| `ExpireInvitations` | J-04 |
| `AccountWithdraw`, `UserBlock`, `UserUnblock` | account and block functions |
| `SlotGrant`, `SlotRevoke` | `lf_slot_grant`, `lf_slot_revoke` |
| `NextDay` | the calendar |

An action whose guard fails stands for an error answer, which changes nothing.
Clients are unconstrained: any user may issue any call at any time.

An `account` is ACTIVE, WITHDRAWN, or IN_FLIGHT. Every edge function asks
`lf_assert_actor` whether the account is ACTIVE, in a call of its own before the call
that does the work (`supabase/functions/_shared/runtime.ts:58`), and the answering
functions then ask only that the `users` row exists. IN_FLIGHT is an account that has
withdrawn while such a call had passed the question: it may still answer, once. The
functions of the creator and the block functions ask again in their own transaction,
so nothing but an answer can come from it.

### InviteTransactions

A session runs one call at a time; `pc` names the statement it is at. Every
statement reads the committed tables; a locking statement is enabled when the
lock is free (`FreeFor`) and then looks at the row again, which is what
READ COMMITTED does after a wait. `Scan` takes the snapshot of a statement that
locks several links, `LockLinks` visits them one by one in any order (in order
of age in the deletion, which sorts them). Uncommitted writes are not stored;
they follow from the call and its locks and appear at commit, which coincides with the last
statement that can wait. `Release` is COMMIT or ROLLBACK. A deleted row keeps
the status `Gone`, because an id is never given out twice; `Rows` maps it to
"no row" for the refinement.

### Fulfillment

| Variable | Column |
|---|---|
| `today`, `clock` | the KST date and the part of the day: before J-02 (00:10), J-03 (00:20), J-05 (00:30), after |
| `missed` | how many batch runs did not happen |
| `status`, `terms`, `current`, `round`, `deadline` | `promises`: status, end date and keeper, current version, `check_round_no`, `check_deadline_at` |
| `version` | `promise_versions`; entry r is the proposal of the r-th request, entry 0 what was signed first |
| `requests` | `amend_requests` of a promise, in their order |
| `check` | `fulfillment_checks` by promise, round and user |
| `profile` | the four verdict counters of `trust_profiles` |
| `account` | `users.status` |

| Action | Function |
|---|---|
| `RequestAmend`, `RequestCancel`, `RequestFinish` | `lf_promise_amend_request`, `lf_promise_finish_request` |
| `ApproveAmend`, `ApproveCancel`, `ApproveFinish`, `Decline` | `lf_promise_amend_respond`, `lf_promise_finish_respond` |
| `WithdrawRequest` | `lf_promise_amend_withdraw` |
| `Submit`, `Revise` | `lf_fulfillment_submit` without and with `p_revise` |
| `Reopen` | `lf_fulfillment_reopen` |
| `EnterChecking`, `CloseDueChecks`, `ExpireAmendRequests` | J-02, J-03, J-05 |
| `MissRun`, `NextDay` | a batch that does not run; the calendar |
| `AccountWithdraw` | `lf_account_withdraw`, as far as promises both agreed on go |

A time is a part of a day, so two times in the same part count as equal: an
answer in the part in which its deadline falls is refused, and a batch at the
end of that part collects it.

### PushDelivery

| Variable | What it is |
|---|---|
| `outbox` | `notification_outbox`: status, attempts and lease of an intent |
| `delivery` | `push_deliveries`, one row per intent and device: status, owner, lease, ticket |
| `inbox` | the PUSH row of `notifications`, which the stages keep up to date with the deliveries |
| `owner`, `gone` | `device_tokens`, and installations Expo no longer knows |
| `worker` | the rows an invocation of push-send holds in memory, and what Expo told it |
| `accepted` | how often Expo took a message (a history variable) |

| Action | Function |
|---|---|
| `ClaimIntent`, `FanOut`, `RecordIntent` | `processNotificationOutbox` with `lf_notification_outbox_claim` and its result |
| `ClaimDeliveries`, `Send`, `RecordTickets` | `processDeliveries`, `lf_push_claim_deliveries`, `lf_push_record_tickets` |
| `ClaimReceipts`, `AskReceipts`, `RecordReceipts` | `processReceipts`, `lf_push_claim_receipts`, `lf_push_record_receipts` |
| `Aggregate` (inside the recording actions) | `lf_push_refresh_notification_status` |
| `Die`, `Late`, `LeaseEnds`, `IntentLeaseEnds` | an invocation that is killed or runs out of its budget, leases that lapse |
| `Register`, `Unregister`, `Uninstall` | the device-token functions; an app that is removed |

`Die` and a lease that ends while its worker still works are the faults of this
module; `MaxFaults` bounds them together.

### StoredEvidence

| Variable | What it is |
|---|---|
| `row`, `named`, `evidence` | `evidence_uploads`, those with storage keys in the row, `fulfillment_evidences` |
| `stored` | the objects that are in the bucket |
| `attempt`, `discarding`, `purge`, `keeper` | memory of an invocation of evidence-upload, -discard, -purge and retention-maintenance |
| `answer`, `window` | the participant's answer of the round, and whether its deadline passed |
| `access`, `paid`, `grant` | who may read the record: for a time, or because it was bought; a grant between its check and its insert |
| `record`, `job` | `purge_state`, and `promise_purge_jobs` with its lease |

| Action | Function |
|---|---|
| `Reserve`, `Store`, `StoreFails`, `CleanUp`, `Complete`, `AttemptEnds` | `createEvidenceUploadHandler`, `lf_evidence_upload_reserve`, `_complete` |
| `Submit`, `Revise` | the evidence part of `lf_fulfillment_submit_unfiltered` |
| `DiscardRow`, `DiscardObjects` | evidence-discard: the row first, the objects after |
| `PurgeList`, `PurgeTarget`, `PurgeComplete`, `PurgeDies` | the weekly evidence-purge |
| `WindowCloses`, `AccessEnds`, `GrantCheck`, `GrantCommit` | time, and `lf_permanent_access_grant` |
| `Maintain`, `Claim`, `RemoveObjects`, `Finalize`, `KeeperDies`, `LeaseEnds` | J-11 and its leased jobs |

### StorePurchases

| Variable | What it is |
|---|---|
| `store` | what Google Play knows of a purchase: pending, bought, refunded; for whom, consumed or not |
| `row`, `revoked` | `slot_purchases` and the permanent grants; `slot_purchase_revocations` |
| `actor`, `task` | the account signed in on the phone; the purchase and the recovery under way |
| `calls`, `run` | invocations of purchase-verify; purchase-reconcile between its list and its revocations |

| Action | Function |
|---|---|
| `Buy`, `GiveUp`, `Heard`, `Paid` | `purchaseSlot`, `purchasePermanentAccess`, their listeners, the store |
| `OpenSheet`, `Recover`, `GoOn`, `Answered`, `Consume`, `Disturbed`, `AppEnds`, `SignIn` | recovery of unconsumed purchases, verification and `finishTransaction` |
| `Ask`, `Grant` | `createPurchaseVerifyHandler`, `lf_slot_grant`, `lf_permanent_access_grant` |
| `Refund`, `ReconcileList`, `ReconcileRevoke`, `ReconcileEnds`, `NextDay` | voided purchases and the reconciliation of a window of days |

### RewardedAds

| Variable | What it is |
|---|---|
| `once`, `eligible` | whether the reward is granted once only; what promise and role allow besides |
| `intent`, `live` | `reward_intents` and those that have not expired |
| `ad` | an ad: shown, watched (in time or not), for which intent, signed with which key |
| `signing`, `cache` | Google's key, and what reward-callback holds of it |
| `sheet` | the sheet of the app |

| Action | Function |
|---|---|
| `Press`, `Show`, `Earn`, `Unlock` | the sheet, `lf_reward_intent_create`, `showRewardedAd`, the poll for the grant |
| `Callback`, `CallbackFails` | `createRewardCallbackHandler`, `lf_reward_grant`; a callback stays until it is answered with 2xx |
| `MinuteOver`, `CacheEnds`, `Rotates` | the verifier's key cache, its limit of one forced fetch a minute, and AdMob's keys |
| `Expires`, `MovesOn` | an intent's life ends; the promise leaves the state that allowed it |

### AccountErasure

| Variable | What it is |
|---|---|
| `login` | accounts in `auth.users` |
| `outbox` | `auth_deletion_outbox` with its lease |
| `request`, `worker` | invocations of account-withdraw and of account-delete-retry |

| Action | Function |
|---|---|
| `Withdraw`, `DeleteAtOnce`, `MarkAtOnce`, `RequestFails` | `createAccountWithdrawHandler`, `lf_enqueue_auth_deletion`, `lf_auth_deletion_complete_immediate` |
| `Claim`, `Delete`, `Complete`, `Retry`, `WorkerEnds`, `LeaseEnds` | `createAccountDeleteRetryHandler` and the functions it calls |

### AnswerScreens

| Variable | What it is |
|---|---|
| `promise`, `photo`, `replies` | the server's side: round and answers, the row of the photo, `idempotency_keys` |
| `client` | "web" (`scr-w04-participant-promises.tsx`) or "app" (`fulfillment/[promise_id].tsx`) |
| `page`, `view`, `form` | what is on show, the promise as last loaded, what was entered |
| `draft` | the draft in local storage by round |
| `restored`, `fetch`, `saves` | the app's storage: the round whose draft it has asked for and whether edits are saved, a fetch under way and what it has read, writes under way |
| `intents`, `keys` | the idempotency key kept for the next submission and for reopening; keys given out |
| `calls`, `busy`, `load` | calls under way, the buttons that wait, a load and what its caller does after it |
| `late` | what came too late since the screen was entered: a fetched draft that changed what a kept key stands for, the end of a submission of the page as it was before it was left (a history variable) |

| Action | Function |
|---|---|
| `Edit`, `Choose`, `StartRevision` | form changes and what they save |
| `TakePhoto`, `UploadEnds`, `RetryPhoto`, `RemovePhoto` | the photo of the form |
| `Submit`, `Reopen`, `PressElsewhere` | a press, with the key it gets |
| `Serve` | the call at the server, under its key |
| `Done`, `Refused`, `Lost`, `Continue` | what the client does with an answer, or without one |
| `ClearDraft`, `Abandoned` | the end of the draft after an accepted answer: in the app awaited, also by a screen that was left |
| `LoadEnds`, `LoadFails`, `RetryLoad`, `Reenter` | loads, and leaving and opening the screen |
| `FetchReads`, `FetchEnds`, `SaveEnds` | the app's draft read from storage, put into the form, and written |
| `PromiseMoves`, `KeyLapses` | the other party, J-03; a stored answer after ten minutes |

The page's session storage answers at once, and its draft is read and written in the
step that loads or edits. In the app nothing waits for storage: the form is shown as
soon as the promise is loaded (`fulfillment/[promise_id].tsx:540`), the draft arrives
some time later and replaces the form as it stands then (`:587`), edits are saved only
after that (`:613`), by writes nobody awaits (`:621`), of which several may be under way
and end in any order, and a submission may be pressed in between (`:784`).

### MCServices and MCClients

Services that share no table the modules look at need no product of their
states. `part` is chosen in Init and names the one a behaviour is about; `Next`
takes the steps of that one, and its variables alone move. A property is then
that of the service, over all behaviours; where it is liveness and the
service's own formula would fail while another service runs, it says
`part = … =>`. `EveryQueueSettles` and `TypeOK` are conjunctions of the services'
properties. `MCClients` does the same for instances that are larger where
clients, rather than workers, do the interleaving.

## 3. Runs

| Run | Instance | What it shows |
|---|---|---|
| `agreement_links` | 3 users, 1 promise, 2 resends, 3 days | `OneLiveLink`, `LiveLinkOnlyWhilePending`, `LinkShowsItsTerms`, `SignedTerms`, `PartnerIsKept`, `SettledLinkIsFinal`, and J-04 reaches every lapsed link (`LapsedLinkSettles`) |
| `agreement_slots` | 2 users, 2 promises, 1 free slot, 1 purchase each | slots are taken only when free (`SlotTakenOnlyWhenFree`), withdrawal leaves nothing open (`WithdrawnOwnNothingOpen`), the table is respected (`ImplementsLifecycle`) |
| `invite_tx_slots` | 2 devices, 1 answer, 2 promises | **violation**: a promise too many in slots |
| `invite_tx_links` | 2 devices, 1 answer, 1 promise | **violation**: two live links |
| `invite_tx_erase` | 2 devices, 1 answer, 1 promise | **violation**: a circle of waiting with a deletion |
| `fulfillment` | 1 promise, 2 rounds, 1 request, 1 missed batch, one account that may withdraw | verdict and expiry fit the answers of their round (`StatusFitsAnswers`), answers stand (`AnswersStand`), profiles follow the rows (`ProfilesCurrent`), a hold has exactly one request (`HeldByOneRequest`), what is in force was agreed (`InForceIsAgreed`), the table is respected (`FollowsLifecycle`), every check and request ends (`ChecksClose`, `RequestsLapse`) |
| `services` | each service alone, one fault | push: `SettledStays`, `ResentOnlyAfterFault`, `TokenOfOthersKept`; push and account erasure: `EveryQueueSettles`; evidence: `PaidRecordKept`, `WhatIsOverGoes`; purchases: `RefundTakenBack`; ads: `WatchedIsDecided`; promise calls by statement: `SealedIsText`, `NoWaitCycle`, `EveryCallReturns`, `ImplementsLifecycle` |
| `clients` | each client alone | the page: `DraftSurvives`, `ConfirmedIsDone`; the app: `ConfirmedIsDone`, until a fetched draft replaces what was sent; two uploads: `PurgeSparesEvidence`; purchases on one phone: `SpentIsGranted`; two devices of one creator: `SlotsBounded`, `NoWaitCycle` |
| `clients_key` | the app, 1 round, 1 key, 1 lost answer | **violation**: another answer goes out under a key that is done |
| `evidence_objects` | 1 upload, 2 attempts, 1 fault | **violation**: a READY upload loses an object |
| `clients_revision` | 1 client, 2 rounds | **violation**: a revision form outlives its round |
| `fulfillment_window` | 1 promise, 1 request, windows of 2 days | **violation**: a check opens with less than its window left |

Bounds, and why they suffice:

* *Users.* Three: a creator, the first partner, and somebody else who opens the
  resent link. Two where only slots and withdrawal matter.
* *Resends.* Two, so that a promise goes through suggestion and resend twice and
  the limit itself is reached.
* *Texts.* In `agreement_links` contents differ by their end date, of which there are
  three; `SealedIsText` needs two texts.
* *Days.* A link lives one day and there are three, so a link can be answered,
  lapse, be collected or be replaced, and an end date can pass under a link.
* *Slots.* One free slot and two promises put the count at, below and, after a
  revoked purchase, above the capacity.
* *Links.* `MaxLinks` bounds the rows in `invitations`. A call that would need one
  more is not started, so that nothing is cut off in the middle of a call.
  `services` has one device, two who answer, one promise and two links (an answer
  beside every creator call, a resend among them), `clients` two devices, two
  promises, one slot and four links (two creator calls at once, over the slot).
  These are the interleavings the locks do order. `SealedIsText` is
  checked with one device, and `OneLiveLink` proved with one; what two devices do to the
  links `invite_tx_links` shows.
  `SlotsBounded` holds with two devices and no answer, and so does `NoWaitCycle` while
  neither deletes: `services` looks for waits between answers and one device, deletions
  among its calls, and `clients` for waits between two devices. Deletions beside a second
  device do wait in a circle (section 4, item 3).
* *Workers.* Two, so that one that comes late meets one that took over, and two
  attempts, so that the limit is reached. One intent and one device make one
  delivery, and two users let the device change hands. Two leavers and two
  erasers; two keepers for one record.
* *Purchases.* One purchase with two calls at once and a reconciliation window of
  four days in `services`; in `clients` two of one account, and one that is paid
  while another account is signed in.
* *Rounds of the screens.* Two, so that a key, a draft and a form outlive one reopening.
  Section 5 proves their properties for any number.
* *Ads.* Two intents, two ads and two signing keys: an ad for an intent that a
  newer one replaced, and a callback signed with a key the cache does not hold.
* *Screens.* Two rounds and two keys: a press and its repetition, in the round it was
  meant for and in the next. Two calls under way without faults ("presses"), one
  call with a lost answer or a failing load ("losses"), and one photo without faults.
  The app has its fetch and its writes besides, and is looked at in three parts: two
  rounds with one key, one round with two keys and a lost answer, and one round with
  two writes of a draft at once (`MaxSaves`; in the others a change that needs a second
  write waits for the first). Section 5 proves `ConfirmedIsDone` for any number of
  each, and for photos in the app.
* *Faults.* One in a behaviour: a crash, a lost answer, a failing call to a service, a
  lease that lapses under its worker. The liveness properties then say that a
  single failure of any kind is recovered from; they do not say so of a service
  that fails for ever.
* *Rounds and requests.* Two rounds put the answers of one beside those of the
  next, and the other expiry rule of J-03 (UNRESOLVED, then DISPUTED) at work. Two
  requests in a row let a proposal be refused or superseded before the next.
* *Calendar.* Windows of a day, and an end date early enough for a check to
  open, be disputed, be reopened and close before the calendar ends. The two
  liveness properties speak of what is due by the last midnight, or by the one
  before where a run may be missed. One missed run lets J-02 or J-03 come a day late in either round.
* *Symmetry* is used in `agreement_slots` only (users, promises), which checks no
  liveness.

Deadlock is not checked where work may simply be over: the calendar ends, limits
are reached, every queue is settled, nobody presses anything. What must not stop
halfway is said by `NoWaitCycle`, `EveryCallReturns` and `EveryQueueSettles`.

Fairness:

* `Agreement` has weak fairness on `ExpireInvitations` only: `pg_cron` starts J-04
  every thirty minutes, whatever people do. Nothing makes a person act.
* `Fulfillment` has weak fairness on `Passing`, the three batches and the calendar:
  time passes and `pg_cron` starts the jobs. A run may be missed, `MaxMissed` times.
  Nothing makes a person answer; `ChecksClose` and `RequestsLapse` hold without it.
* `InviteTransactions` has strong fairness on the steps of a session that has
  begun a call, none on beginning one: PostgreSQL serves lock waiters in the
  order of their arrival, so a lock that is freed again and again is granted,
  and a function once started runs until it commits or fails. It assumes no
  more than that: `EveryCallReturns` is false where `NoWaitCycle` is.
* `PushDelivery`, `StoredEvidence` and `AccountErasure` have weak fairness on the
  steps of their workers (`cron.schedule` starts them again and again, and one that
  runs goes on) and on the lapse of a lease. Nobody has to upload, answer or
  register a device.
* `StorePurchases` has weak fairness on purchase-reconcile, the days and the steps of a
  verification that was begun. Nobody has to buy, and the app need not be opened.
* `RewardedAds` has weak fairness on callbacks, which AdMob repeats until one is
  answered with 2xx, and on the minute after which the verifier may ask for keys again.
* `MCClients` has none: users owe the system nothing, and its properties are safety.

Every property has a mutant in `PROJECT.json`: a dropped guard, a forgotten
write, an earlier lock, under which TLC finds it violated.

## 4. What the runs found

1. **A resend can overfill the slots** (`invite_tx_slots`).
   `lf_invite_issue_row` reads the status without a lock
   (`M/20260824000001_paid_promise_slots.sql:226`) and asks for a slot only if it read
   DRAFT. A resend reads PENDING; the partner suggests a change, the promise is
   a DRAFT and its slot free; another promise takes the slot; the resend's update
   accepts `status in ('DRAFT','PENDING')` and sends it.
2. **Two resends leave two links** (`invite_tx_links`). The second revocation works on
   a snapshot without the first one's new link. The specification
   (`docs/기획/02_세부기능명세서.md:255`) wants the old token revoked at once. Answers stay
   consistent all the same: the first one wins (`SealedIsText`).
3. **Deletion, resend and answer can deadlock** (`invite_tx_erase`). The comment at
   `M/20260831052923_pending_promise_delete.sql:30` relies on the order
   invitations → promises. A link issued after the deletion's scan is locked by
   its answer before the deletion's cascade reaches it. PostgreSQL aborts one
   of them, so no data is damaged; the caller sees an error.
4. **A check window can be over as it opens** (`fulfillment_window`). J-02 counts the
   window from the day after `end_date` (`M/20260731052537_harden_fulfillment_privacy_and_lifecycle.sql:384`),
   also for a promise that a request held in AMEND_PENDING past that day. The
   specification gives seven days from entering CHECKING
   (`docs/기획/02_세부기능명세서.md:430`; line 83 says `end_date + 8 days 00:00`, which is
   the same only without a hold). A request made on the last day and never answered
   lapses at the J-05 seven days later; the next J-02 opens the check with its
   deadline past, and J-03 closes it ten minutes later as UNRESOLVED.
5. **A failing retry takes the objects of a finished upload** (`evidence_objects`).
   Both attempts of one upload write the same object names. The first stores both
   objects; a retry is let in while the row is still PENDING; the first completes
   the row as READY; the retry stores the full image, fails on the thumbnail, and
   its `cleanupStored` (`supabase/functions/evidence-upload/handler.ts:139`)
   removes what the READY row names. An answer binds it all the same.
   `supabase/functions/_shared/storage-runtime.ts:15` wants retries of one key to
   converge.
6. **A revision form outlives its round** (`clients_revision`). The web page keeps the
   form across a reload of its data (`scr-w04-participant-promises.tsx:1608` submits it
   with `revise: true`), the app shows it because `showForm = canAnswer || editing`
   (`fulfillment/[promise_id].tsx:936`). After the dispute is reopened there is no
   answer of the new round to revise; the server refuses until the screen is opened anew.
7. **Another answer goes out under a key that is done** (`clients_key`). In the app the
   form can be used while its draft is being fetched. What arrives is put into it whatever
   it holds by then (`fulfillment/[promise_id].tsx:587`) and leaves
   `submitIdempotencyKey` as it is (`:584`–`:611`, reused at `:796`). A NOT_KEPT draft is
   stored; the user opens the screen, chooses KEPT and submits before the draft has
   come; the server takes KEPT, its answer is lost, and the draft sets NOT_KEPT. The next
   press goes out under the first key and is told "done" from what is stored there. The
   test `scr-a06-fulfillment-check.test.tsx:894` wants a new key for a changed submission.

Met while reading, and not a run, because no document claims the contrary, a run above shows the cause, or the
model abstracts from it:

* A submission carries no round: one sent for round 1 that arrives after the
  dispute was reopened is taken as the answer of round 2.
* A local draft that names a photo which an answer has bound since is restored
  with that photo as READY, and submitting it is refused.
* In the promise detail of the app, `reopenKey` is never cleared and the keys of the
  amend forms outlive a failed reload (`promise/[promise_id].tsx`): the same request
  within ten minutes gets the stored answer of the earlier one.
* The editor draws a new idempotency key for every press, so a press after a lost
  answer of promise-create makes a second promise.
* The editor's fields stay open while it submits, and its screen stays mounted under the
  next one: an edit made meanwhile is saved three seconds later, after the local draft
  was cleared (`promise/edit.tsx`, `lib/draft-autosave.ts`), and comes back as the
  draft of the next new promise.
* The late draft of item 7 replaces an answer also before any press, and nothing that was
  entered before it came is saved (`fulfillment/[promise_id].tsx:613`), although
  `docs/기획/02_세부기능명세서.md:1313` wants a local draft at all times.
* `purchaseInFlight` stays set if the store never reports back.
* An ad reported after a newer intent replaced its own is not rewarded, and two ads
  under one intent grant once.
* An upload that completes between the purge's list and its mark leaves objects that
  no row names.
* In the app a key kept after a lost answer can outlive two reopenings, if both come
  within the ten minutes of the stored answer and nothing is edited meanwhile. A submission
  of the third round under it is answered from the store, as one of an earlier round. The
  screen clears the form and stops saving (`fulfillment/[promise_id].tsx:830`), loads a
  round that is still unanswered, and does not fetch its draft a second time (`:582`), so
  what is entered after that is not saved until the screen is opened anew.
* The first writes of the app's encrypted storage make a key each; two at once can leave a
  draft that cannot be read (`lib/large-secure-store.ts`).
* A submission of a page that was left removes the draft of its round when it is answered
  (`scr-w04-participant-promises.tsx:1639`), also if the page that is open now has
  written it.
* An answer that passed the question for an active account can be executed after the
  account has withdrawn. It changes nothing of what the withdrawal closed, whose links are
  revoked; the links of others it can still answer.

## 5. Proofs

Eight modules hold the proofs. Those of a component are in a module named after it and
are lemmas about one step, stated for the component's constants
(`ASSUME ConstantsFit`, which is what the MC modules assume of their values) and, where
it is a part of a composition, for every step that leaves its tables alone as well. The
compositions then say of each step which part moves, and cite those lemmas through
their instances. So the theorems about `MCServices` and `MCClients` hold for any number
of messages, photos, purchases, accounts, workers, rounds, keys, calls, sessions and faults; the runs
of section 3 check the same formulas on small instances.

| Theorem of the specification | Properties |
|---|---|
| `Agreement`: `AgreementProofs` | `TypeOK`, `OneLiveLink`, `LiveLinkOnlyWhilePending`, `LinkShowsItsTerms`, `SignedTerms`, `PartnerIsKept`, `SettledLinkIsFinal`, `SlotTakenOnlyWhenFree`, `WithdrawnOwnNothingOpen`, `ImplementsLifecycle` |
| `Fulfillment`: `FulfillmentProofs` | `TypeOK`, `StatusFitsAnswers`, `HeldByOneRequest`, `InForceIsAgreed`, `ProfilesCurrent`, `AnswersStand`, `FollowsLifecycle` |
| `MCServices`: `MCServicesProofs` | `TypeOK`, `ResentOnlyAfterFault`, `SettledStays`, `TokenOfOthersKept`, `PaidRecordKept`, `ImplementsLifecycle`; with one device of the creator also `SealedIsText`, `NoWaitCycle`, and that one link is out |
| `MCClients`: `MCClientsProofs` | `TypeOK`, `ConfirmedIsDone`, `SpentIsGranted`, `SlotsBounded`, `PurgeSparesEvidence`, `DraftSurvives` |

Each is proved from an inductive invariant `IInv`: the property, and what has to be known
of every other variable for one step to keep it. TLC checked every `IInv` as an
invariant of a run before it was proved.

### Agreement

The only assumption is `AgreementConstants`: the limits are natural numbers, `NoUser`
is not a user, and `Promises` is finite (cardinalities are taken of its subsets). None of
the safety invariants is inductive alone. `IInv` is `TypeOK` and, for every promise,
`RowInv`:

* `RowComplete` – exactly the rows that exist have a creator and a content;
* `RowLinks` – link entries from `issued` on are blank, two live links are the
  same link, and a live one belongs to a PENDING row and carries its content.
  The first part is what makes a new link land in a blank entry instead of
  rewriting a settled one;
* `RowSigned` – an active row has a joined partner other than its creator, both
  approvals under its content, and a used link with it. It is kept because a
  content is only rewritten in DRAFT, which needs the other two parts.

`RowInv` speaks of one promise at a time, so a step on `p` leaves every other
promise's part untouched, and only AccountWithdraw, J-04 and the calendar need an
argument about all rows. `Refinement` shows that every step is an entry of the transition
table for each row or leaves it; `SlotTakenOnlyWhenFreeHolds` shows that sending adds
exactly one promise to the creator's slots and every other step adds none;
`WithdrawnOwnNothingOpenHolds` combines the invariant with the guards on `account`.

### Fulfillment

`RowInv` again speaks of one promise. `RowAnswers` says for each status which answers
of the running round it rests on, and that later rounds are empty – which is what makes a
reopened round start blank. `RowHeld` says that the one open request is the last one made,
and `RowVersions` that the version in force has the terms the promise is judged by and
was proposed by one party and approved by the other. `ProfilesCurrent` needs no
strengthening beyond them: each call that settles a promise recomputes the counters
of both parties from the rows. The batches (J-02, J-03, J-05) and account-withdraw
treat every promise at once; their lemmas show the effect on one row and that the
rows outside their selection stay.

### InviteTransactions

`IInv` ties four things that are kept in different places: the kind of a call and the
statement a session is at (`Place`), the locks it holds there (`RowLocks`, `LinkLocks`),
what it saw under them, and the table now. A rewrite that sends holds its row and the row
is still DRAFT; a deletion about to erase holds its row and it is still PENDING; an answer
holds its link, which is still PENDING. From that `StepFollows` derives that every commit
is an entry of the transition table (`TableImplemented`) for any number of
devices and answers – although several calls decide by a row they read without a lock.

Three properties do not hold of every workload (section 4), and the theorems name the
workloads of which they do:

* `SlotsHold`: when nobody answers, a session about to send a draft holds the slot lock
  and a slot is free (`HasSlot`). An answer that returns a promise to DRAFT under a resend
  breaks it, as `invite_tx_slots` shows.
* `OneDevice`: with one device of the creator, the links a resend or a deletion has still
  to lock, together with those it holds, are all live links of its promise (`Covers`).
  Hence one live link, and an answer commits the terms it has read (`TermsFit`), which is
  `SealedIsText`. `AloneMeansNoCycle` follows a cycle of waiting calls: an
  answer waits for links or for a row, only the device holds both kinds against it, and the
  device waits only for a link it covers, whose holder cannot be waiting for the device's
  row. Two devices break the first and the last part
  (`invite_tx_links`, `invite_tx_erase`).

### The answer screens

The server answers a repeated call from what it stored under the key and does not compare
the body, so `ConfirmedIsDone` rests on what the clients keep. `OneBody` says that
whoever carries a key (the stored answer, a call under way, the intention kept for the
next press) carries it with the same body, and `Made` that a new key is in nobody's hands.
A press keeps both if the key it takes up again stands for the body it sends. The page
compares the two. The app does not: it forgets the key with every edit, and
`SentAsShown` says that this is enough as long as nothing else changes the form. One
thing does: the draft it has fetched, when it comes after a press (`FetchEnds`; section
4, item 7). So for the app all of this is claimed under `Steady`: no fetched draft has
changed what a kept key stands for since the screen was entered. `late` records when that
happens, and entering the screen anew, which forgets every key, starts over. A draft
that comes before the first press, or while no key is kept, or that says what the form
says, leaves `Steady` as it is; that is every use of the screen but the one of item 7. For
the page, which fetches nothing in the background (`AtOnce`), it always holds, and the
property is without condition.
`Told` carries the result from the server to the screen, over the wait for the app's
storage. Calls of a screen that was left keep their keys and are covered by the same parts.

`DraftSurvives` holds on the page because it writes every change through (`Stored`): the
draft of the round of the form is what the form holds, from the first edit to the
accepted answer that ends both. A submission of the page as it was before it was left
ends the draft as well, without the form, and is the exception the property names.
`PageDraftSurvives` of `AnswerScreensProofs` proves it for one screen, `DraftsSurvive` for
the three instances of the page in `MCClients`. For the app nothing of the kind is
claimed: a late draft replaces what was entered (section 4).

### The services

* **Push delivery.** `Sending`: a row still leased to an invocation that is about to send
  it has no ticket and an attempt left – the fencing from which `SettledStays` follows.
  `ResentOnlyAfterFault` bounds the times Expo accepts a message by one more than the
  faults, and needs an account of them (`Accounted`): acceptances so far, plus the
  invocations that are still going to send a delivery they no longer hold, are at most
  the faults so far, plus one when a ticket is recorded or is about to be by a holder in
  time. A lease that runs out under its holder is a fault, and pays for the
  second acceptance before it happens.
* **Evidence.** Whatever the weekly purge and a discard have in memory is of photos
  that can never be shown again (`ListedIsOver`), however old the list is. For the
  retention worker the opposite holds: its list has every photo that is shown, and once an
  invocation has removed them they stay away (`KeeperLists`), because uploads are over when
  access ends (`AfterAccess`). `PaidRecordKept` rests on the foreign key: the grant
  inserts only while the promise is there, and finalisation judges once more.
* **Purchases.** A call that has been granted, and a task about to consume, are about a
  purchase that is written for the account that paid (`CallsFit`, `TasksFit`): an answer
  goes to the one task that waits for it, also after the account on the phone has changed.
* **Rewarded ads and logins**: one intent waits, and a reward that is given once is granted to one intent; a row of the deletion outbox is
  leased exactly while it names its worker.

The steps of push delivery, ads and logins are proved in `MCServicesProofs` itself.
The services share the count of faults. `SharedFaults` shows that no step takes one back,
which is all that the account of push delivery needs to know of the others.

### Only model-checked

* Liveness: `LapsedLinkSettles`, `ChecksClose`, `RequestsLapse`, `EveryCallReturns`,
  `EveryQueueSettles`, `WhatIsOverGoes`, `RefundTakenBack`, `WatchedIsDecided`. A proof
  from weak fairness needs ENABLED, which the prover does not reason about.
* `NoWaitCycle` with two devices (`clients`).
* The properties of the violation runs, which do not hold.

## 6. Abstractions

* Texts are opaque; whether two are equal is all the properties need, so the
  content hash is the text itself.
* Tokens are the identity of their link: guessing one is not modelled.
* Notifications, reminders, metrics and formatting are not written. The
  functions write them in the same transaction and never read them again.
* `Agreement` takes every call as one transaction without interleaving; where that
  matters for links and slots, `InviteTransactions` splits it. account-withdraw is
  one transaction everywhere.
* Statuses after ACTIVE are out of `Agreement`; its slots therefore count PENDING
  and ACTIVE only. `Fulfillment` takes up there, without slots: a
  reopened dispute, which takes a slot unasked, is in neither.
* `Fulfillment` takes each call as one transaction. The answers' evidence,
  reminders, celebrations and messages are not read by anything it models; record
  access (`lf_has_record_access`) is always given here; its end is in `StoredEvidence`. The
  stored active count and the rate of a profile are left out.
* WITNESS links are out. They share the `invitations` table but no
  function of `Agreement` moves a promise because of one.
* Time is in days, and 72 hours are `InviteTTL` days. What matters is the order of
  expiry, end date and batch.
* `PushDelivery`: a retry may come at any time, since no property speaks of the delay
  before it; wording, quiet hours and the limit
  of three newest devices per user are left out; a token that Expo refuses is either
  still the recipient's or another user's.
* `StoredEvidence`: one participant's answer and one record. The warning before a purge,
  the records that were never agreed on, and the receipts kept of a purge are left out.
* `StorePurchases`: the store's refusal of an owned product and `lf_assert_actor` are
  left out; prices and receipts are the identity of the purchase.
* The question for an active account that precedes every call is not a step of its own.
  `Agreement` keeps what can come of it (IN_FLIGHT): such an account may answer any live
  link, also one it had not opened when it withdrew, which is more than the code allows.
  `Fulfillment` takes the question as part of the call.
* `AnswerScreens`: one promise on the page, one photo at most. A comment is part of the
  answer. The photos an earlier answer retains, and leaving the screen after COMPLETED are
  left out. A photo whose upload is under way when a fetched draft replaces the form is
  taken not to arrive. Removing a photo is one step with the call that discards it. A
  read of the app's storage (session, key, encrypted value) is one step; a write is one
  that happens, fails, or spoils the value together with another one.
* Rate limits are a counter of one row and are not modelled.

## 7. Plan

Written, in the order of the plan:

1. `PromiseLifecycle`, 2. `Agreement` with its proofs, 3. `InviteTransactions`,
4. `Fulfillment`, 5. `PushDelivery`, 6. `StoredEvidence` (upload, purge and
retention share rows and objects, so they are one module), 7. `StorePurchases`,
8. `RewardedAds`, 9. `AccountErasure`, 10. `AnswerScreens`; `MCServices` and
`MCClients` put them side by side.

Not modelled:

* *J-06, draft clean-up*: one batch that warns and later deletes by age, over single
  rows. Its one interesting case, an edit between the two, is in the list of hazards.
* *J-01, reminders*: which rows of a schedule are due, by dates and quiet hours, without
  a second actor.
* *Witnesses*: a second kind of link, signed by people who decide nothing about the
  promise, and what a witness's withdrawal does to a pending promise (in the list of
  hazards).
* *The statements of account-withdraw*, against those of requests and J-02: their locks
  are in the list of hazards.
* *Slots taken by reopening*: needs `Agreement` and `Fulfillment` in one state, whose
  product is beyond TLC at bounds where both have something to do.
* *Keep rate, KST dates, content hash*: arithmetic and formatting over one input, which
  unit tests reach.
* *HTTP shells and projections*: authentication, parsing and layout around one database
  function each.
* *Other client screens*: a form over one call each; the server's modules take a client
  to be any sequence of calls.
