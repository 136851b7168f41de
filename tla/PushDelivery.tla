---------------------------- MODULE PushDelivery ----------------------------
(* From an intent in notification_outbox to the receipt of a push message: *)
(* the worker push-send (claim receipts, ask Expo, record; claim an        *)
(* intent, fan it out, record; claim deliveries, send, record), several    *)
(* invocations of it at once, and the database functions it calls.         *)
(* A lease names the invocation that holds it: an invocation holds a row   *)
(* again only after it has let go of everything it held before.            *)
EXTENDS Integers, FiniteSets

CONSTANTS Intents, Devices, Users, Recipient, Workers,
          MaxAttempts,  \* attempts of an intent and of a delivery (the code: 4)
          MaxFaults,    \* deaths, lost answers and late invocations in a behaviour
          MaxMoves      \* installations that change hands or end

NoOne == "nobody"

(* What the constants must be; the MC modules assume it of their values. *)
ConstantsFit ==
  /\ Recipient \in Users /\ NoOne \notin Users \cup Workers
  /\ MaxAttempts \in Nat \ {0} /\ MaxFaults \in Nat /\ MaxMoves \in Nat

VARIABLES outbox,     \* notification_outbox, one row per intent
          delivery,   \* push_deliveries, one row per intent and device fanned out to
          inbox,      \* notifications: "none", or the status of the PUSH row
          owner,      \* device_tokens: whose the token of a device is
          gone,       \* devices whose installation Expo no longer knows
          worker,     \* what an invocation holds in its memory
          accepted,   \* messages Expo has accepted, per delivery
          faults, moves

vars == <<outbox, delivery, inbox, owner, gone, worker, accepted, faults, moves>>

Rows     == Intents \X Devices
Statuses == {"NONE", "QUEUED", "RETRY", "LEASED", "RECEIPT_PENDING", "DELIVERED", "FAILED"}
Outcomes == {"none", "ticket", "ticket to nobody", "delivered", "retry", "failed", "unregistered"}

Idle     == [pc |-> "idle", rows |-> {}, result |-> [r \in Rows |-> "none"], token |-> {}, intent |-> {}]
NoRow    == [status |-> "NONE", attempts |-> 0, lease |-> NoOne, lapsed |-> FALSE,
             token |-> FALSE, snapshot |-> FALSE, ticket |-> "none"]
Intent   == [status |-> "PENDING", attempts |-> 0, lease |-> NoOne, lapsed |-> FALSE]

Init == /\ outbox = [i \in Intents |-> Intent]
        /\ delivery = [r \in Rows |-> NoRow]
        /\ inbox = [i \in Intents |-> "none"]
        /\ owner = [d \in Devices |-> Recipient]
        /\ gone \in SUBSET Devices   \* an app removed before the message
        /\ worker = [w \in Workers |-> Idle]
        /\ accepted = [r \in Rows |-> 0]
        /\ faults = 0 /\ moves = 0

--------------------------------------------------------------------------
(* Leases.  "lapsed" says that lease_expires_at has come.  The other delays *)
(* (next_attempt_at: 1, 5 and 15 minutes, 15 for a receipt) may be any     *)
(* time, also none.                                                        *)
LapsedSooner(row) == row.status = "LEASED"
Lapsed(row)   == row.status = "LEASED" /\ row.lapsed
Released(row) == [row EXCEPT !.lease = NoOne, !.lapsed = FALSE,
                     !.status = IF row.ticket = "none" THEN "RETRY" ELSE "RECEIPT_PENDING"]
(* Both claims of deliveries begin by releasing every lapsed lease. *)
Swept == [r \in Rows |-> IF Lapsed(delivery[r]) THEN Released(delivery[r]) ELSE delivery[r]]

(* lf_push_refresh_notification_status: a push is SENT once one device has *)
(* it, FAILED once every device has failed.                                *)
Refreshed(rows, i) ==
  LET made == {d \in Devices : rows[<<i, d>>].status # "NONE"}
  IN CASE \E d \in made : rows[<<i, d>>].status = "DELIVERED" -> "SENT"
       [] made # {} /\ \A d \in made : rows[<<i, d>>].status = "FAILED" -> "FAILED"
       [] OTHER -> inbox[i]
Aggregate(rows, touched) ==
  inbox' = [i \in Intents |-> IF \E d \in Devices : <<i, d>> \in touched
                              THEN Refreshed(rows, i) ELSE inbox[i]]

Move(w, pc) == [worker[w] EXCEPT !.pc = pc]

--------------------------------------------------------------------------
(* processReceipts.  Tickets whose receipt is due are leased, Expo is asked *)
(* for all of them in one request, and the answers are recorded.           *)
ClaimReceipts(w) ==
  LET ready == {r \in Rows : Swept[r].status = "RECEIPT_PENDING"}
  IN /\ worker[w].pc = "idle"
     /\ delivery' = [r \in Rows |-> IF r \in ready
                        THEN [Swept[r] EXCEPT !.status = "LEASED", !.lease = w]
                        ELSE Swept[r]]
     /\ worker' = [worker EXCEPT ![w] = [Idle EXCEPT !.pc = IF ready = {} THEN "outbox" ELSE "ask",
                                                     !.rows = ready]]
     /\ UNCHANGED <<outbox, inbox, owner, gone, accepted, faults, moves>>

(* What Expo knows of a message: it arrived, it got lost, or its            *)
(* installation was gone when it was sent.  A receipt that is missing fails. *)
Receipts(r) == {"failed"} \cup IF delivery[r].ticket = "ticket to nobody" THEN {"unregistered"} ELSE {"delivered"}

AskReceipts(w) ==
  /\ worker[w].pc = "ask"
  /\ \/ \E res \in [Rows -> Outcomes] :
          /\ \A r \in Rows : IF r \in worker[w].rows THEN res[r] \in Receipts(r) ELSE res[r] = "none"
          /\ worker' = [worker EXCEPT ![w] = [Move(w, "note receipts") EXCEPT !.result = res]]
          /\ UNCHANGED faults
     \/ /\ faults < MaxFaults /\ faults' = faults + 1   \* HTTP 429, 5xx or no answer
        /\ worker' = [worker EXCEPT ![w] = [Move(w, "note receipts") EXCEPT
              !.result = [r \in Rows |-> IF r \in worker[w].rows THEN "retry" ELSE "none"]]]
  /\ UNCHANGED <<outbox, delivery, inbox, owner, gone, accepted, moves>>

(* A result counts while the delivery is leased to who brings it. *)
HoldsByRow(w, r) == delivery[r].status # "NONE"

Holds(w, r) == delivery[r].status = "LEASED" /\ delivery[r].lease = w
(* DeviceNotRegistered deletes the token the message went to, while it is   *)
(* still the recipient's; deliveries that named it forget it.              *)
DeadByName(w) == {r[2] : r \in {q \in worker[w].rows : /\ Holds(w, q)
                                                /\ worker[w].result[q] = "unregistered"
                                                /\ delivery[q].snapshot}}
Dead(w) == {r[2] : r \in {q \in worker[w].rows : /\ Holds(w, q)
                                                 /\ worker[w].result[q] = "unregistered"
                                                 /\ delivery[q].token
                                                 /\ delivery[q].snapshot
                                                 /\ owner[q[2]] = Recipient}}
Forget(rows, dead) == [r \in Rows |-> IF r[2] \in dead THEN [rows[r] EXCEPT !.token = FALSE] ELSE rows[r]]

Record(w, recorded, next) ==
  LET mine == {r \in worker[w].rows : Holds(w, r)}
      rows == Forget([r \in Rows |-> IF r \in mine THEN recorded[r] ELSE delivery[r]], Dead(w))
  IN /\ delivery' = rows
     /\ Aggregate(rows, mine)
     /\ owner' = [d \in Devices |-> IF d \in Dead(w) THEN NoOne ELSE owner[d]]
     /\ worker' = [worker EXCEPT ![w] = [Idle EXCEPT !.pc = next]]
     /\ UNCHANGED <<outbox, gone, accepted, faults, moves>>

RecordReceipts(w) ==
  LET receipted == [r \in Rows |->
        [delivery[r] EXCEPT !.lease = NoOne, !.lapsed = FALSE,
           !.status = CASE worker[w].result[r] = "delivered" -> "DELIVERED"
                        [] worker[w].result[r] = "retry" -> "RECEIPT_PENDING"
                        [] OTHER -> "FAILED"]]
  IN worker[w].pc = "note receipts" /\ Record(w, receipted, "outbox")

--------------------------------------------------------------------------
(* processNotificationOutbox: one intent at a time.  A lapsed lease costs  *)
(* its attempt; after the last one the intent has failed.                  *)
ReclaimedForEver(row) ==
  IF ~Lapsed(row) \/ row.attempts >= MaxAttempts THEN row
  ELSE [row EXCEPT !.lease = NoOne, !.lapsed = FALSE, !.status = "PENDING"]
Reclaimed(row) ==
  IF ~Lapsed(row) THEN row
  ELSE [row EXCEPT !.lease = NoOne, !.lapsed = FALSE,
           !.status = IF row.attempts >= MaxAttempts THEN "FAILED" ELSE "PENDING"]
ClaimIntent(w) ==
  LET open == {i \in Intents : LET row == Reclaimed(outbox[i]) IN row.status = "PENDING"}
      swept == [i \in Intents |-> Reclaimed(outbox[i])]
  IN /\ worker[w].pc = "outbox"
     /\ \/ /\ open = {} /\ outbox' = swept
           /\ worker' = [worker EXCEPT ![w] = Move(w, "deliveries")]
        \/ \E i \in open :
             /\ outbox' = [swept EXCEPT ![i] = [status |-> "LEASED", lease |-> w, lapsed |-> FALSE,
                                                attempts |-> swept[i].attempts + 1]]
             /\ worker' = [worker EXCEPT ![w] = [Move(w, "fan out") EXCEPT !.intent = {i}]]
     /\ UNCHANGED <<delivery, inbox, owner, gone, accepted, faults, moves>>

(* lf_notification_fanout: the in-app row and the push row are written      *)
(* once; a second fan-out of the same intent only counts what is there.    *)
(* It is refused while the recipient's account is not active, and an        *)
(* unknown template never reaches it: "refused" stands for both.           *)
Fanned(i) == inbox[i] # "none"
FanOut(w) ==
  \E i \in worker[w].intent :
    /\ worker[w].pc = "fan out"
    /\ \/ /\ worker' = [worker EXCEPT ![w] = Move(w, "note failed")]
          /\ UNCHANGED <<inbox, delivery>>
       \/ /\ worker' = [worker EXCEPT ![w] = Move(w, "note fanned")]
          /\ IF Fanned(i) THEN UNCHANGED <<inbox, delivery>>
             ELSE LET to == {d \in Devices : owner[d] = Recipient}
                  IN /\ inbox' = [inbox EXCEPT ![i] = IF to = {} THEN "in app" ELSE "QUEUED"]
                     /\ delivery' = [r \in Rows |-> IF r[1] = i /\ r[2] \in to
                                        THEN [NoRow EXCEPT !.status = "QUEUED", !.token = TRUE]
                                        ELSE delivery[r]]
    /\ UNCHANGED <<outbox, owner, gone, accepted, faults, moves>>

(* lf_notification_outbox_record refuses whoever lost the lease; the       *)
(* worker swallows that and goes on.                                       *)
RecordIntent(w) ==
  \E i \in worker[w].intent :
    /\ worker[w].pc \in {"note fanned", "note failed"}
    /\ outbox' = IF ~(outbox[i].status = "LEASED" /\ outbox[i].lease = w) THEN outbox
                 ELSE [outbox EXCEPT ![i] = [@ EXCEPT !.lease = NoOne, !.lapsed = FALSE,
                        !.status = CASE worker[w].pc = "note fanned" -> "PROCESSED"
                                     [] outbox[i].attempts >= MaxAttempts -> "FAILED"
                                     [] OTHER -> "PENDING"]]
    /\ worker' = [worker EXCEPT ![w] = [Idle EXCEPT !.pc = "outbox"]]
    /\ UNCHANGED <<delivery, inbox, owner, gone, accepted, faults, moves>>

--------------------------------------------------------------------------
(* processDeliveries.  The claim copies the token of the device while it   *)
(* is the recipient's; without one the delivery fails unsent.              *)
ClaimDeliveries(w) ==
  LET ready == {r \in Rows : /\ Swept[r].status \in {"QUEUED", "RETRY"}
                             /\ Swept[r].ticket = "none" /\ Swept[r].attempts < MaxAttempts}
  IN /\ worker[w].pc = "deliveries"
     /\ delivery' = [r \in Rows |-> IF r \notin ready THEN Swept[r]
                      ELSE [Swept[r] EXCEPT !.status = "LEASED", !.lease = w,
                              !.snapshot = Swept[r].token /\ owner[r[2]] = Recipient]]
     /\ worker' = [worker EXCEPT ![w] = IF ready = {} THEN Idle
                     ELSE [Move(w, "send") EXCEPT !.rows = ready,
                             !.token = {r \in ready : delivery'[r].snapshot}]]
     /\ UNCHANGED <<outbox, inbox, owner, gone, accepted, faults, moves>>

(* One request for the batch.  Expo takes a message (a ticket; whether an   *)
(* installation was there to get it is known later), asks to slow down,    *)
(* refuses it, or knows the token is dead; or the answer to the whole      *)
(* request is lost, the messages taken or not.                             *)
Sends(w, r) == IF r \notin worker[w].token THEN {"failed"}
               ELSE IF r[2] \in gone THEN {"ticket to nobody", "retry", "failed", "unregistered"}
               ELSE {"ticket", "retry", "failed"}
Tickets == {"ticket", "ticket to nobody"}
Send(w) ==
  /\ worker[w].pc = "send"
  /\ \E res \in [Rows -> Outcomes] :
       /\ \A r \in Rows : IF r \in worker[w].rows THEN res[r] \in Sends(w, r) ELSE res[r] = "none"
       /\ accepted' = [r \in Rows |-> accepted[r] + IF res[r] \in Tickets THEN 1 ELSE 0]
       /\ \/ /\ worker' = [worker EXCEPT ![w] = [Move(w, "note tickets") EXCEPT !.result = res]]
             /\ UNCHANGED faults
          \/ /\ faults < MaxFaults /\ faults' = faults + 1
             /\ worker' = [worker EXCEPT ![w] = [Move(w, "note tickets") EXCEPT
                   !.result = [r \in Rows |-> IF r \in worker[w].token THEN "retry" ELSE res[r]]]]
  /\ UNCHANGED <<outbox, delivery, inbox, owner, gone, moves>>

(* lf_push_record_tickets: an attempt is counted when it is recorded. *)
Tried(w, r) == delivery[r].attempts + IF r \in worker[w].token THEN 1 ELSE 0
RecordTickets(w) ==
  LET ticketed == [r \in Rows |->
        LET outcome == worker[w].result[r]
        IN [delivery[r] EXCEPT !.lease = NoOne, !.lapsed = FALSE, !.attempts = Tried(w, r),
              !.ticket = IF outcome \in Tickets THEN outcome ELSE @,
              !.status = CASE outcome \in Tickets -> "RECEIPT_PENDING"
                           [] outcome = "retry" /\ Tried(w, r) < MaxAttempts -> "RETRY"
                           [] OTHER -> "FAILED"]]
  IN worker[w].pc = "note tickets" /\ Record(w, ticketed, "idle")

--------------------------------------------------------------------------
(* An invocation ends early: it dies, or its time is up between claiming    *)
(* and asking.  What it holds stays leased.                                *)
Die(w) ==
  /\ worker[w].pc # "idle" /\ faults < MaxFaults
  /\ worker' = [worker EXCEPT ![w] = Idle] /\ faults' = faults + 1
  /\ UNCHANGED <<outbox, delivery, inbox, owner, gone, accepted, moves>>

(* A lease runs out.  Lease and time limit of an invocation are 60 and 45  *)
(* seconds, so one whose holder still works on it runs out only when       *)
(* something holds the invocation up.                                      *)
Late(late) == /\ late => faults < MaxFaults
              /\ faults' = faults + IF late THEN 1 ELSE 0
LeaseEnds(r) ==
  /\ delivery[r].status = "LEASED" /\ ~delivery[r].lapsed
  /\ Late(\E w \in Workers : Holds(w, r) /\ r \in worker[w].rows)
  /\ delivery' = [delivery EXCEPT ![r].lapsed = TRUE]
  /\ UNCHANGED <<outbox, inbox, owner, gone, worker, accepted, moves>>
IntentLeaseEnds(i) ==
  /\ outbox[i].status = "LEASED" /\ ~outbox[i].lapsed
  /\ Late(\E w \in Workers : outbox[i].lease = w /\ i \in worker[w].intent)
  /\ outbox' = [outbox EXCEPT ![i].lapsed = TRUE]
  /\ UNCHANGED <<delivery, inbox, owner, gone, worker, accepted, moves>>

(* Phones: the app is removed; somebody signs in on one, or signs out.  The *)
(* token of a phone that changes hands gets a new row, and deliveries that  *)
(* named the deleted one forget it.                                         *)
Uninstall(d) == /\ d \notin gone /\ gone' = gone \cup {d} /\ UNCHANGED <<owner, delivery>>
Register(u, d) == /\ owner[d] # u \/ d \in gone
                  /\ owner' = [owner EXCEPT ![d] = u] /\ gone' = gone \ {d}
                  /\ delivery' = IF owner[d] = u THEN delivery ELSE Forget(delivery, {d})
Unregister(d) == /\ owner[d] # NoOne /\ d \notin gone
                 /\ owner' = [owner EXCEPT ![d] = NoOne] /\ delivery' = Forget(delivery, {d})
                 /\ UNCHANGED gone
PhoneStep == /\ moves < MaxMoves /\ moves' = moves + 1
             /\ \E d \in Devices : Uninstall(d) \/ Unregister(d) \/ \E u \in Users : Register(u, d)
             /\ UNCHANGED <<outbox, inbox, worker, accepted, faults>>

WorkerStep(w) == \/ ClaimReceipts(w) \/ AskReceipts(w) \/ RecordReceipts(w)
                 \/ ClaimIntent(w) \/ FanOut(w) \/ RecordIntent(w)
                 \/ ClaimDeliveries(w) \/ Send(w) \/ RecordTickets(w)
Clock == (\E r \in Rows : LeaseEnds(r)) \/ (\E i \in Intents : IntentLeaseEnds(i))
Next == Clock \/ PhoneStep \/ \E w \in Workers : WorkerStep(w) \/ Die(w)

(* The cron job calls the worker every ten minutes and time passes; nobody *)
(* has to touch a phone and nothing has to fail.                           *)
Fairness == /\ \A r \in Rows : WF_vars(LeaseEnds(r))
            /\ \A i \in Intents : WF_vars(IntentLeaseEnds(i))
            /\ \A w \in Workers : WF_vars(WorkerStep(w))
Spec == Init /\ [][Next]_vars /\ Fairness

--------------------------------------------------------------------------
(* The tables and the memory of an invocation have their types; a row is   *)
(* leased exactly while a lease names its holder (the check constraint      *)
(* push_deliveries_lease_shape).                                           *)
TypeOK ==
  /\ outbox \in [Intents -> [status : {"PENDING", "LEASED", "PROCESSED", "FAILED"},
                             attempts : 0 .. MaxAttempts, lease : Workers \cup {NoOne}, lapsed : BOOLEAN]]
  /\ delivery \in [Rows -> [status : Statuses, attempts : 0 .. MaxAttempts,
                            lease : Workers \cup {NoOne}, lapsed : BOOLEAN, token : BOOLEAN,
                            snapshot : BOOLEAN, ticket : Tickets \cup {"none"}]]
  /\ \A r \in Rows : (delivery[r].status = "LEASED") <=> (delivery[r].lease # NoOne)
  /\ \A i \in Intents : inbox[i] \in {"none", "in app", "QUEUED", "SENT", "FAILED"}
  /\ owner \in [Devices -> Users \cup {NoOne}] /\ gone \subseteq Devices

(* What has been recorded stays: a ticket is never replaced, and a          *)
(* delivery that arrived or failed for good is not touched by the late      *)
(* results of an invocation that lost its lease.                           *)
SettledStays ==
  [][\A r \in Rows :
       /\ delivery[r].ticket # "none" => delivery'[r].ticket = delivery[r].ticket
       /\ delivery[r].status \in {"DELIVERED", "FAILED"} => delivery'[r].status = delivery[r].status]_vars

(* Expo is given a message a second time only after something went wrong   *)
(* (a death, a lost answer, a late invocation): retries and receipts never *)
(* send one twice by themselves.                                           *)
ResentOnlyAfterFault == \A r \in Rows : accepted[r] <= 1 + faults

(* A worker never deletes the token of a phone that meanwhile belongs to   *)
(* another account, however late Expo says its message had nowhere to go.  *)
TokenOfOthersKept ==
  [][\A d \in Devices : owner[d] \notin {Recipient, NoOne} /\ owner'[d] = NoOne
                        => \A w \in Workers : worker'[w] = worker[w]]_vars

(* Every intent is processed or has failed in the end, and every delivery  *)
(* of it has a final status: no lease, delay or dead invocation keeps one. *)
Settled == /\ \A i \in Intents : outbox[i].status \in {"PROCESSED", "FAILED"}
           /\ \A r \in Rows : delivery[r].status \in {"NONE", "DELIVERED", "FAILED"}
=============================================================================
