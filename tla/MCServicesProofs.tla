--------------------------- MODULE MCServicesProofs ---------------------------
(* The promises of MCServices, for every number of messages, photos,         *)
(* purchases, workers, calls and faults.  What each service keeps is proved  *)
(* for a step of it or a step that leaves its tables alone: photos,          *)
(* purchases and the calls on a promise in modules of their own,             *)
(* StoredEvidenceProofs and the like, push delivery, rewarded ads and the    *)
(* deletion of logins here.                                                 *)
EXTENDS MCServices, FiniteSetTheorems, TLAPS

--------------------------------------------------------------------------
(* Push delivery                                                            *)

(* A row of push_deliveries: leased exactly while a lease names its holder,   *)
(* its lease run out only while it is leased, without a ticket before it is   *)
(* made.                                                                     *)
PushRow == [status : Push!Statuses, attempts : 0 .. MaxAttempts, lease : Workers \cup {Push!NoOne},
            lapsed : BOOLEAN, token : BOOLEAN, snapshot : BOOLEAN, ticket : Push!Tickets \cup {"none"}]
Delivery == {d \in PushRow : /\ (d.status = "LEASED") <=> (d.lease # Push!NoOne)
                             /\ d.lapsed => d.status = "LEASED"
                             /\ d.status = "NONE" => d.ticket = "none"}
(* A row of notification_outbox: an intent that waits has an attempt left.    *)
IntentRow == [status : {"PENDING", "LEASED", "PROCESSED", "FAILED"}, attempts : 0 .. MaxAttempts,
              lease : Workers \cup {Push!NoOne}, lapsed : BOOLEAN]
IntentRowOK == {o \in IntentRow : o.status = "PENDING" => o.attempts < MaxAttempts}
Pcs == {"idle", "ask", "note receipts", "outbox", "fan out", "note fanned", "note failed",
        "deliveries", "send", "note tickets"}
Worker == [pc : Pcs, rows : SUBSET Push!Rows, result : [Push!Rows -> Push!Outcomes], token : SUBSET Push!Rows,
           intent : SUBSET Intents]

OutboxOK   == outbox \in [Intents -> IntentRowOK]
DeliveryOK == delivery \in [Push!Rows -> Delivery]
InboxOK    == /\ inbox \in [Intents -> {"none", "in app", "QUEUED", "SENT", "FAILED"}]
              /\ \A r \in Push!Rows : inbox[r[1]] = "none" => delivery[r].status = "NONE"
WorkersOK  == /\ worker \in [Workers -> Worker]
              /\ \A w \in Workers : worker[w].token \subseteq worker[w].rows
PhonesOK   == owner \in [Devices -> Users \cup {Push!NoOne}] /\ gone \subseteq Devices
CountsOK   == accepted \in [Push!Rows -> Nat] /\ faults \in Nat
PushTypes == OutboxOK /\ DeliveryOK /\ InboxOK /\ WorkersOK /\ PhonesOK /\ CountsOK

(* A delivery that is still leased to the invocation about to send it, or to  *)
(* record what Expo said, has no ticket yet and an attempt left.             *)
Unsent(w, r) == worker[w].pc \in {"send", "note tickets"} /\ r \in worker[w].rows /\ Push!Holds(w, r)
                  => delivery[r].ticket = "none" /\ delivery[r].attempts < MaxAttempts
Sending == \A w \in Workers : \A r \in Push!Rows : Unsent(w, r)

(* Each acceptance of a message is paid for: the first one by the ticket, or  *)
(* by the result that its holder will record in time, every other by a fault. *)
(* An invocation about to send a delivery that it lost, or is about to lose,  *)
(* has its fault reserved.                                                   *)
InTime(w, r) == Push!Holds(w, r) /\ ~delivery[r].lapsed
Noting(w, r) == /\ InTime(w, r) /\ worker[w].pc = "note tickets"
                /\ r \in worker[w].rows /\ worker[w].result[r] \in Push!Tickets
Ticketed(r) == delivery[r].ticket # "none" \/ \E w \in Workers : Noting(w, r)
Stale(r) == {w \in Workers : worker[w].pc = "send" /\ r \in worker[w].token /\ ~InTime(w, r)}
PaidFor(r) == /\ IsFiniteSet(Stale(r))
              /\ accepted[r] + Cardinality(Stale(r)) <= faults + IF Ticketed(r) THEN 1 ELSE 0
Accounted == \A r \in Push!Rows : PaidFor(r)

PushInv == PushTypes /\ Sending /\ Accounted

(* Two rows of push_deliveries that differ at most in the token they name.    *)
Alike(d, e) == /\ d.status = e.status /\ d.attempts = e.attempts /\ d.lease = e.lease
               /\ d.lapsed = e.lapsed /\ d.ticket = e.ticket
--------------------------------------------------------------------------
LEMMA IdleIsWorker == Push!Idle \in Worker /\ Push!Idle.token = {} /\ Push!Idle.pc = "idle" /\ Push!Idle.rows = {}
  BY DEF Push!Idle, Worker, Pcs, Push!Outcomes

LEMMA InitPush == ASSUME Push!ConstantsFit PROVE Push!Init => PushInv
  <1> SUFFICES ASSUME Push!Init PROVE PushInv
    OBVIOUS
  <1>1. OutboxOK
    BY DEF Push!Init, OutboxOK, IntentRowOK, IntentRow, Push!Intent, Push!ConstantsFit
  <1>2. Push!NoRow \in Delivery /\ Push!NoRow.status = "NONE" /\ Push!NoRow.ticket = "none" /\ Push!NoRow.lease = Push!NoOne
    BY DEF Push!NoRow, Delivery, PushRow, Push!Statuses, Push!Tickets, Push!ConstantsFit
  <1>3. DeliveryOK /\ \A r \in Push!Rows : delivery[r] = Push!NoRow
    BY <1>2 DEF Push!Init, DeliveryOK
  <1>4. InboxOK
    BY <1>2, <1>3 DEF Push!Init, InboxOK, Push!Rows
  <1>5. WorkersOK /\ \A w \in Workers : worker[w].pc = "idle"
    BY IdleIsWorker DEF Push!Init, WorkersOK
  <1>6. PhonesOK /\ CountsOK
    BY DEF Push!Init, PhonesOK, CountsOK, Push!ConstantsFit
  <1>7. Sending
    BY <1>5 DEF Sending, Unsent
  <1>8. ASSUME NEW r \in Push!Rows
        PROVE  PaidFor(r)
    <2>1. Stale(r) = {}
      BY <1>5 DEF Stale
    <2>2. accepted[r] = 0 /\ faults = 0
      BY DEF Push!Init
    <2> QED BY <2>1, <2>2, FS_EmptySet DEF PaidFor
  <1> QED BY <1>1, <1>3, <1>4, <1>5, <1>6, <1>7, <1>8 DEF PushInv, PushTypes, Accounted

LEMMA PushImpliesTypeOK == PushTypes => Push!TypeOK
  BY DEF PushTypes, OutboxOK, DeliveryOK, InboxOK, PhonesOK, Push!TypeOK, IntentRowOK, IntentRow,
         Delivery, PushRow
--------------------------------------------------------------------------
(* What the parts of a step do to a row                                      *)

(* The sweep releases the leases that have run out, and nothing else.         *)
LEMMA SweptRow ==
  ASSUME Push!ConstantsFit, DeliveryOK, NEW r \in Push!Rows
  PROVE  /\ Push!Swept[r] \in Delivery
         /\ Push!Swept[r].ticket = delivery[r].ticket
              /\ Push!Swept[r].attempts = delivery[r].attempts
         /\ ~Push!Lapsed(delivery[r]) => Push!Swept[r] = delivery[r]
         /\ Push!Lapsed(delivery[r]) => /\ Push!Swept[r].lease = Push!NoOne /\ ~Push!Swept[r].lapsed
                                        /\ Push!Swept[r].status \in {"RETRY", "RECEIPT_PENDING"}
  <1>1. delivery[r] \in Delivery
    BY DEF DeliveryOK
  <1>2. Push!Swept[r] = IF Push!Lapsed(delivery[r]) THEN Push!Released(delivery[r]) ELSE delivery[r]
    BY DEF Push!Swept
  <1>3. Push!Released(delivery[r]) \in PushRow
    BY <1>1 DEF Push!Released, Delivery, PushRow, Push!Statuses
  <1> QED BY <1>1, <1>2, <1>3 DEF Push!Released, Delivery, PushRow, Push!ConstantsFit

(* A row that is claimed.                                                    *)
Claimed(r, w) == /\ Push!Swept[r].status # "LEASED" /\ Push!Swept[r].status # "NONE"
                 /\ delivery'[r].status = "LEASED" /\ delivery'[r].lease = w
                 /\ ~delivery'[r].lapsed
                 /\ delivery'[r].ticket = Push!Swept[r].ticket
                 /\ delivery'[r].attempts = Push!Swept[r].attempts

LEMMA ClaimReceiptsRow ==
  ASSUME Push!ConstantsFit, DeliveryOK, WorkersOK, NEW w \in Workers, Push!ClaimReceipts(w),
         NEW r \in Push!Rows
  PROVE  /\ delivery'[r] \in Delivery
         /\ worker'[w] \in Worker /\ worker'[w].pc \in {"outbox", "ask"} /\ worker'[w].token = {}
         /\ IF r \in worker'[w].rows THEN Claimed(r, w) /\ Push!Swept[r].status = "RECEIPT_PENDING"
                                     ELSE delivery'[r] = Push!Swept[r]
  <1> DEFINE ready == {q \in Push!Rows : Push!Swept[q].status = "RECEIPT_PENDING"}
             new == [Push!Idle EXCEPT !.pc = IF ready = {} THEN "outbox" ELSE "ask", !.rows = ready]
  <1>1. worker' = [worker EXCEPT ![w] = new]
    BY DEF Push!ClaimReceipts
  <1>2. new \in Worker /\ new.rows = ready /\ new.token = {} /\ new.pc \in {"outbox", "ask"}
    BY DEF Push!Idle, Worker, Pcs, Push!Outcomes
  <1>3. worker'[w] = new
    BY <1>1 DEF WorkersOK
  <1>4. delivery'[r] = IF r \in ready THEN [Push!Swept[r] EXCEPT !.status = "LEASED", !.lease = w]
                                      ELSE Push!Swept[r]
    BY DEF Push!ClaimReceipts
  <1>5. Push!Swept[r] \in Delivery
    BY SweptRow
  <1> HIDE DEF new
  <1>6. CASE r \in ready
    <2>1. Push!Swept[r].status = "RECEIPT_PENDING"
      BY <1>6
    <2>2. [Push!Swept[r] EXCEPT !.status = "LEASED", !.lease = w] \in PushRow
      BY <1>5 DEF Delivery, PushRow, Push!Statuses
    <2> QED BY <1>2, <1>3, <1>4, <1>5, <1>6, <2>1, <2>2 DEF Claimed, Delivery, PushRow,
               Push!ConstantsFit
  <1>7. CASE r \notin ready
    BY <1>2, <1>3, <1>4, <1>5, <1>7
  <1> QED BY <1>6, <1>7

LEMMA ClaimDeliveriesRow ==
  ASSUME Push!ConstantsFit, DeliveryOK, WorkersOK, NEW w \in Workers, Push!ClaimDeliveries(w),
         NEW r \in Push!Rows
  PROVE  /\ delivery'[r] \in Delivery
         /\ worker'[w] \in Worker /\ worker'[w].pc \in {"idle", "send"}
         /\ worker'[w].token \subseteq worker'[w].rows
         /\ IF r \in worker'[w].rows
            THEN Claimed(r, w) /\ Push!Swept[r].status \in {"QUEUED", "RETRY"}
                 /\ Push!Swept[r].ticket = "none" /\ Push!Swept[r].attempts < MaxAttempts
            ELSE delivery'[r] = Push!Swept[r]
  <1> DEFINE ready == {q \in Push!Rows : /\ Push!Swept[q].status \in {"QUEUED", "RETRY"}
                                         /\ Push!Swept[q].ticket = "none"
                                              /\ Push!Swept[q].attempts < MaxAttempts}
             full == [Push!Move(w, "send") EXCEPT !.rows = ready,
                                                  !.token = {q \in ready : delivery'[q].snapshot}]
             new == IF ready = {} THEN Push!Idle ELSE full
  <1>1. worker' = [worker EXCEPT ![w] = new]
    BY DEF Push!ClaimDeliveries
  <1>2. full \in Worker /\ full.rows = ready /\ full.token \subseteq ready /\ full.pc = "send"
    BY DEF Push!Move, Worker, WorkersOK, Pcs
  <1>3. /\ new \in Worker /\ new.rows = ready /\ new.token \subseteq ready
        /\ new.pc \in {"idle", "send"}
    BY <1>2, IdleIsWorker
  <1>4. worker'[w] = new
    BY <1>1 DEF WorkersOK
  <1>5. delivery'[r] = IF r \notin ready THEN Push!Swept[r]
                       ELSE [Push!Swept[r] EXCEPT !.status = "LEASED", !.lease = w,
                               !.snapshot = Push!Swept[r].token /\ owner[r[2]] = Recipient]
    BY DEF Push!ClaimDeliveries
  <1>6. Push!Swept[r] \in Delivery
    BY SweptRow
  <1> HIDE DEF new
  <1>7. CASE r \in ready
    <2>1. Push!Swept[r].status \in {"QUEUED", "RETRY"} /\ Push!Swept[r].ticket = "none"
          /\ Push!Swept[r].attempts < MaxAttempts
      BY <1>7
    <2>2. (Push!Swept[r].token /\ owner[r[2]] = Recipient) \in BOOLEAN
      OBVIOUS
    <2>3. delivery'[r] \in PushRow
      BY <1>5, <1>6, <1>7, <2>2 DEF Delivery, PushRow, Push!Statuses
    <2>4. /\ delivery'[r].status = "LEASED" /\ delivery'[r].lease = w
          /\ delivery'[r].lapsed = Push!Swept[r].lapsed
               /\ delivery'[r].ticket = Push!Swept[r].ticket
          /\ delivery'[r].attempts = Push!Swept[r].attempts
      BY <1>5, <1>6, <1>7 DEF Delivery, PushRow
    <2> QED BY <1>3, <1>4, <1>6, <1>7, <2>1, <2>3, <2>4 DEF Claimed, Delivery, Push!ConstantsFit
  <1>8. CASE r \notin ready
    BY <1>3, <1>4, <1>5, <1>6, <1>8
  <1> QED BY <1>7, <1>8

(* Recording the results of a batch: what the invocation still holds becomes  *)
(* what is recorded, and nothing else changes but the tokens.                *)
LEMMA RecordRow ==
  ASSUME Push!ConstantsFit, DeliveryOK, WorkersOK, NEW w \in Workers, NEW recorded, NEW next \in Pcs,
         Push!Record(w, recorded, next), NEW r \in Push!Rows,
         r \in worker[w].rows /\ Push!Holds(w, r) => recorded[r] \in Delivery
  PROVE  /\ delivery'[r] \in Delivery
         /\ Alike(delivery'[r], IF r \in worker[w].rows /\ Push!Holds(w, r) THEN recorded[r]
                                ELSE delivery[r])
         /\ worker' = [worker EXCEPT ![w] = [Push!Idle EXCEPT !.pc = next]]
         /\ worker'[w] \in Worker /\ worker'[w].pc = next /\ worker'[w].token = {}
  <1> DEFINE mine == {q \in worker[w].rows : Push!Holds(w, q)}
             rows == [q \in Push!Rows |-> IF q \in mine THEN recorded[q] ELSE delivery[q]]
  <1>1. delivery' = Push!Forget(rows, Push!Dead(w))
    BY DEF Push!Record
  <1>2. rows[r] \in Delivery
    BY DEF DeliveryOK
  <1>3. rows[r] = IF r \in worker[w].rows /\ Push!Holds(w, r) THEN recorded[r] ELSE delivery[r]
    OBVIOUS
  <1> HIDE DEF rows
  <1>4. delivery'[r] = rows[r] \/ delivery'[r] = [rows[r] EXCEPT !.token = FALSE]
    BY <1>1 DEF Push!Forget
  <1>5. [rows[r] EXCEPT !.token = FALSE] \in Delivery /\ Alike([rows[r] EXCEPT !.token = FALSE], rows[r])
    BY <1>2 DEF Delivery, PushRow, Alike
  <1>6. worker' = [worker EXCEPT ![w] = [Push!Idle EXCEPT !.pc = next]]
    BY DEF Push!Record
  <1>7. [Push!Idle EXCEPT !.pc = next] \in Worker /\ [Push!Idle EXCEPT !.pc = next].token = {}
        /\ [Push!Idle EXCEPT !.pc = next].pc = next
    BY DEF Push!Idle, Worker, Push!Outcomes
  <1> QED BY <1>2, <1>3, <1>4, <1>5, <1>6, <1>7 DEF Alike, WorkersOK

Receipted(w, r) == [delivery[r] EXCEPT !.lease = Push!NoOne, !.lapsed = FALSE,
                     !.status = CASE worker[w].result[r] = "delivered" -> "DELIVERED"
                                  [] worker[w].result[r] = "retry" -> "RECEIPT_PENDING"
                                  [] OTHER -> "FAILED"]
LEMMA RecordReceiptsRow ==
  ASSUME Push!ConstantsFit, DeliveryOK, WorkersOK, NEW w \in Workers, Push!RecordReceipts(w),
         NEW r \in Push!Rows
  PROVE  /\ delivery'[r] \in Delivery
         /\ Alike(delivery'[r], IF r \in worker[w].rows /\ Push!Holds(w, r) THEN Receipted(w, r)
                                ELSE delivery[r])
         /\ worker' = [worker EXCEPT ![w] = [Push!Idle EXCEPT !.pc = "outbox"]]
         /\ worker'[w] \in Worker /\ worker'[w].pc = "outbox" /\ worker'[w].token = {}
  <1> DEFINE receipted == [q \in Push!Rows |-> Receipted(w, q)]
  <1>1. Push!Record(w, receipted, "outbox")
    BY DEF Push!RecordReceipts, Receipted
  <1>2. Receipted(w, r) \in Delivery
    <2>1. Receipted(w, r) \in PushRow
      BY DEF Receipted, DeliveryOK, Delivery, PushRow, Push!Statuses
    <2>2. /\ Receipted(w, r).lease = Push!NoOne /\ ~Receipted(w, r).lapsed
          /\ Receipted(w, r).status \in {"DELIVERED", "RECEIPT_PENDING", "FAILED"}
      BY DEF Receipted, DeliveryOK, Delivery, PushRow
    <2> QED BY <2>1, <2>2 DEF Delivery
  <1>3. receipted[r] = Receipted(w, r)
    OBVIOUS
  <1>4. "outbox" \in Pcs
    BY DEF Pcs
  <1> HIDE DEF receipted
  <1> QED BY <1>1, <1>2, <1>3, <1>4, RecordRow

Recorded(w, r) ==
  LET outcome == worker[w].result[r]
  IN [delivery[r] EXCEPT !.lease = Push!NoOne, !.lapsed = FALSE, !.attempts = Push!Tried(w, r),
        !.ticket = IF outcome \in Push!Tickets THEN outcome ELSE @,
        !.status = CASE outcome \in Push!Tickets -> "RECEIPT_PENDING"
                     [] outcome = "retry" /\ Push!Tried(w, r) < MaxAttempts -> "RETRY"
                     [] OTHER -> "FAILED"]
LEMMA RecordTicketsRow ==
  ASSUME Push!ConstantsFit, DeliveryOK, WorkersOK, Sending, NEW w \in Workers, Push!RecordTickets(w),
         NEW r \in Push!Rows
  PROVE  /\ delivery'[r] \in Delivery
         /\ Alike(delivery'[r], IF r \in worker[w].rows /\ Push!Holds(w, r) THEN Recorded(w, r)
                                ELSE delivery[r])
         /\ worker' = [worker EXCEPT ![w] = [Push!Idle EXCEPT !.pc = "idle"]]
         /\ worker'[w] \in Worker /\ worker'[w].pc = "idle" /\ worker'[w].token = {}
  <1> DEFINE ticketed == [q \in Push!Rows |-> Recorded(w, q)]
  <1>1. Push!Record(w, ticketed, "idle") /\ worker[w].pc = "note tickets"
    BY DEF Push!RecordTickets, Recorded
  <1>2. ASSUME r \in worker[w].rows, Push!Holds(w, r)
        PROVE  Recorded(w, r) \in Delivery
    <2>1. delivery[r].attempts < MaxAttempts /\ delivery[r] \in PushRow
      BY <1>1, <1>2 DEF Sending, Unsent, DeliveryOK, Delivery
    <2>2. Push!Tried(w, r) \in 0 .. MaxAttempts
      BY <2>1 DEF Push!Tried, PushRow, Push!ConstantsFit
    <2>3. Recorded(w, r) \in PushRow
      BY <2>1, <2>2 DEF Recorded, PushRow, Push!Statuses
    <2>4. /\ Recorded(w, r).lease = Push!NoOne /\ ~Recorded(w, r).lapsed
          /\ Recorded(w, r).status \in {"RECEIPT_PENDING", "RETRY", "FAILED"}
      BY <2>1 DEF Recorded, PushRow
    <2> QED BY <2>3, <2>4 DEF Delivery
  <1>3. ticketed[r] = Recorded(w, r)
    OBVIOUS
  <1>4. "idle" \in Pcs
    BY DEF Pcs
  <1>5. r \in worker[w].rows /\ Push!Holds(w, r) => ticketed[r] \in Delivery
    BY <1>2, <1>3
  <1> HIDE DEF ticketed
  <1>6. /\ delivery'[r] \in Delivery
        /\ Alike(delivery'[r], IF r \in worker[w].rows /\ Push!Holds(w, r) THEN ticketed[r]
                               ELSE delivery[r])
        /\ worker' = [worker EXCEPT ![w] = [Push!Idle EXCEPT !.pc = "idle"]]
        /\ worker'[w] \in Worker /\ worker'[w].pc = "idle" /\ worker'[w].token = {}
    BY <1>1, <1>4, <1>5, RecordRow
  <1> QED BY <1>3, <1>6
--------------------------------------------------------------------------
(* Types                                                                     *)

LEMMA OutboxStep ==
  ASSUME Push!ConstantsFit, OutboxOK, Push!Next \/ UNCHANGED push
  PROVE  OutboxOK'
  <1>1. ASSUME NEW w \in Workers, Push!ClaimIntent(w)
        PROVE  OutboxOK'
    <2> DEFINE swept == [i \in Intents |-> Push!Reclaimed(outbox[i])]
    <2>1. ASSUME NEW i \in Intents
          PROVE  Push!Reclaimed(outbox[i]) \in IntentRowOK
      <3> DEFINE freed == [outbox[i] EXCEPT !.lease = Push!NoOne, !.lapsed = FALSE,
                             !.status = IF outbox[i].attempts >= MaxAttempts THEN "FAILED" ELSE "PENDING"]
      <3>1. outbox[i] \in IntentRowOK /\ outbox[i].attempts \in Nat /\ MaxAttempts \in Nat
        BY DEF OutboxOK, IntentRowOK, IntentRow, Push!ConstantsFit
      <3>2. freed \in IntentRow
        BY <3>1 DEF IntentRowOK, IntentRow
      <3>3. freed.status = "PENDING" => freed.attempts < MaxAttempts
        BY <3>1 DEF IntentRowOK, IntentRow
      <3>4. Push!Reclaimed(outbox[i]) = outbox[i] \/ Push!Reclaimed(outbox[i]) = freed
        BY DEF Push!Reclaimed
      <3> HIDE DEF freed
      <3> QED BY <3>1, <3>2, <3>3, <3>4 DEF IntentRowOK
    <2>2. swept \in [Intents -> IntentRowOK]
      BY <2>1
    <2>3. CASE outbox' = swept
      BY <2>2, <2>3 DEF OutboxOK
    <2>4. ASSUME NEW i \in Intents, swept[i].status = "PENDING",
                 outbox' = [swept EXCEPT ![i] = [status |-> "LEASED", lease |-> w, lapsed |-> FALSE,
                                                 attempts |-> swept[i].attempts + 1]]
          PROVE  OutboxOK'
      <3>1. swept[i].attempts + 1 \in 0 .. MaxAttempts
        BY <2>2, <2>4 DEF IntentRowOK, IntentRow, Push!ConstantsFit
      <3> HIDE DEF swept
      <3>2. [status |-> "LEASED", lease |-> w, lapsed |-> FALSE,
             attempts |-> swept[i].attempts + 1] \in IntentRowOK
        BY <3>1 DEF IntentRowOK, IntentRow
      <3> QED BY <2>2, <2>4, <3>2 DEF OutboxOK
    <2> QED BY <1>1, <2>3, <2>4 DEF Push!ClaimIntent
  <1>2. ASSUME NEW w \in Workers, Push!RecordIntent(w)
        PROVE  OutboxOK'
    <2>1. PICK i \in worker[w].intent :
            outbox' = IF ~(outbox[i].status = "LEASED" /\ outbox[i].lease = w) THEN outbox
                      ELSE [outbox EXCEPT ![i] = [outbox[i] EXCEPT !.lease = Push!NoOne, !.lapsed = FALSE,
                             !.status = CASE worker[w].pc = "note fanned" -> "PROCESSED"
                                          [] outbox[i].attempts >= MaxAttempts -> "FAILED"
                                          [] OTHER -> "PENDING"]]
      BY <1>2 DEF Push!RecordIntent
    <2> DEFINE new == [outbox[i] EXCEPT !.lease = Push!NoOne, !.lapsed = FALSE,
                         !.status = CASE worker[w].pc = "note fanned" -> "PROCESSED"
                                      [] outbox[i].attempts >= MaxAttempts -> "FAILED"
                                      [] OTHER -> "PENDING"]
    <2>2. i \in Intents => new \in IntentRowOK
      <3> SUFFICES ASSUME i \in Intents PROVE new \in IntentRowOK
        OBVIOUS
      <3>1. outbox[i] \in IntentRowOK /\ outbox[i].attempts \in Nat /\ MaxAttempts \in Nat
        BY DEF OutboxOK, IntentRowOK, IntentRow, Push!ConstantsFit
      <3>2. new \in IntentRow
        BY <3>1 DEF IntentRowOK, IntentRow
      <3>3. new.attempts = outbox[i].attempts
        BY <3>1 DEF IntentRowOK, IntentRow
      <3>4. outbox[i].attempts >= MaxAttempts => new.status # "PENDING"
        BY <3>1 DEF IntentRowOK, IntentRow
      <3> HIDE DEF new
      <3>5. new.status = "PENDING" => new.attempts < MaxAttempts
        BY <3>1, <3>3, <3>4
      <3> QED BY <3>2, <3>5 DEF IntentRowOK
    <2> HIDE DEF new
    <2>3. outbox' = outbox \/ outbox' = [outbox EXCEPT ![i] = new]
      BY <2>1 DEF new
    <2> QED BY <2>2, <2>3 DEF OutboxOK
  <1>3. ASSUME NEW i \in Intents, Push!IntentLeaseEnds(i)
        PROVE  OutboxOK'
    <2>1. [outbox[i] EXCEPT !.lapsed = TRUE] \in IntentRowOK
      BY DEF OutboxOK, IntentRowOK, IntentRow
    <2>2. outbox' = [outbox EXCEPT ![i] = [outbox[i] EXCEPT !.lapsed = TRUE]]
      BY <1>3 DEF Push!IntentLeaseEnds
    <2> QED BY <2>1, <2>2 DEF OutboxOK
  <1>4. CASE UNCHANGED outbox
    BY <1>4 DEF OutboxOK
  <1>5. ASSUME NEW w \in Workers,
               \/ Push!ClaimReceipts(w) \/ Push!AskReceipts(w) \/ Push!RecordReceipts(w) \/ Push!FanOut(w)
               \/ Push!ClaimDeliveries(w) \/ Push!Send(w) \/ Push!RecordTickets(w) \/ Push!Die(w)
        PROVE  UNCHANGED outbox
    BY <1>5 DEF Push!ClaimReceipts, Push!AskReceipts, Push!RecordReceipts, Push!FanOut,
       Push!ClaimDeliveries, Push!Send,
                Push!RecordTickets, Push!Record, Push!Die
  <1>6. ASSUME Push!PhoneStep \/ (\E r \in Push!Rows : Push!LeaseEnds(r)) \/ UNCHANGED push
        PROVE  UNCHANGED outbox
    BY <1>6 DEF Push!PhoneStep, Push!LeaseEnds, push
  <1> QED BY <1>1, <1>2, <1>3, <1>4, <1>5, <1>6 DEF Push!Next, Push!Clock, Push!WorkerStep

(* How the row of a delivery may change in a step of one invocation, or of    *)
(* the rest.                                                                 *)
LEMMA FanOutRow ==
  ASSUME Push!ConstantsFit, DeliveryOK, InboxOK, WorkersOK, NEW w \in Workers, Push!FanOut(w),
         NEW r \in Push!Rows
  PROVE  /\ delivery'[r] \in Delivery
         /\ \/ delivery'[r] = delivery[r] /\ (inbox'[r[1]] = "none" => inbox[r[1]] = "none")
            \/ /\ delivery[r].status = "NONE" /\ delivery'[r].status = "QUEUED"
               /\ delivery'[r].lease = Push!NoOne /\ ~delivery'[r].lapsed
               /\ delivery'[r].ticket = "none" /\ inbox'[r[1]] # "none"
         /\ inbox' \in [Intents -> {"none", "in app", "QUEUED", "SENT", "FAILED"}]
         /\ worker'[w] \in Worker /\ worker'[w].pc \in {"note fanned", "note failed"}
         /\ worker'[w].token = worker[w].token /\ worker'[w].rows = worker[w].rows
         /\ \A v \in Workers \ {w} : worker'[v] = worker[v]
  <1>1. PICK i \in worker[w].intent :
          \/ /\ worker' = [worker EXCEPT ![w] = Push!Move(w, "note failed")]
             /\ UNCHANGED <<inbox, delivery>>
          \/ /\ worker' = [worker EXCEPT ![w] = Push!Move(w, "note fanned")]
             /\ IF Push!Fanned(i) THEN UNCHANGED <<inbox, delivery>>
                ELSE LET to == {d \in Devices : owner[d] = Recipient}
                     IN /\ inbox' = [inbox EXCEPT ![i] = IF to = {} THEN "in app" ELSE "QUEUED"]
                        /\ delivery' = [q \in Push!Rows |-> IF q[1] = i /\ q[2] \in to
                                           THEN [Push!NoRow EXCEPT !.status = "QUEUED", !.token = TRUE]
                                           ELSE delivery[q]]
    BY DEF Push!FanOut
  <1>2. i \in Intents /\ r[1] \in Intents
    BY DEF WorkersOK, Worker, Push!Rows
  <1>3. /\ worker'[w] \in Worker /\ worker'[w].pc \in {"note fanned", "note failed"}
        /\ worker'[w].token = worker[w].token /\ worker'[w].rows = worker[w].rows
        /\ \A v \in Workers \ {w} : worker'[v] = worker[v]
    <2>1. ASSUME NEW at \in Pcs
          PROVE  Push!Move(w, at) \in Worker /\ Push!Move(w, at).pc = at
                 /\ Push!Move(w, at).token = worker[w].token
                      /\ Push!Move(w, at).rows = worker[w].rows
      BY DEF Push!Move, WorkersOK, Worker
    <2>2. {"note fanned", "note failed"} \subseteq Pcs
      BY DEF Pcs
    <2> QED BY <1>1, <2>1, <2>2 DEF WorkersOK
  <1>4. CASE UNCHANGED <<inbox, delivery>>
    BY <1>3, <1>4 DEF DeliveryOK, InboxOK
  <1>5. CASE ~UNCHANGED <<inbox, delivery>>
    <2> DEFINE to == {d \in Devices : owner[d] = Recipient}
               made == [Push!NoRow EXCEPT !.status = "QUEUED", !.token = TRUE]
    <2>1. /\ inbox[i] = "none"
          /\ inbox' = [inbox EXCEPT ![i] = IF to = {} THEN "in app" ELSE "QUEUED"]
          /\ delivery'[r] = IF r[1] = i /\ r[2] \in to THEN made ELSE delivery[r]
      BY <1>1, <1>5 DEF Push!Fanned
    <2>2. /\ made \in Delivery /\ made.status = "QUEUED" /\ made.lease = Push!NoOne /\ ~made.lapsed
          /\ made.ticket = "none"
      <3>1. Push!NoRow \in PushRow /\ Push!NoRow.lease = Push!NoOne /\ Push!NoRow.lapsed = FALSE /\ Push!NoRow.ticket = "none"
        BY DEF Push!NoRow, PushRow, Push!Statuses, Push!ConstantsFit
      <3>2. made \in PushRow
        BY <3>1 DEF PushRow, Push!Statuses
      <3>3. /\ made.status = "QUEUED" /\ made.lease = Push!NoOne /\ made.lapsed = FALSE
            /\ made.ticket = "none"
        BY <3>1 DEF PushRow
      <3> HIDE DEF made
      <3> QED BY <3>2, <3>3 DEF Delivery
    <2>3. inbox' \in [Intents -> {"none", "in app", "QUEUED", "SENT", "FAILED"}]
          /\ inbox'[i] # "none" /\ (r[1] # i => inbox'[r[1]] = inbox[r[1]])
      BY <1>2, <2>1 DEF InboxOK
    <2> HIDE DEF made, to
    <2>4. CASE r[1] = i /\ r[2] \in to
      BY <1>3, <2>1, <2>2, <2>3, <2>4 DEF InboxOK
    <2>5. CASE ~(r[1] = i /\ r[2] \in to)
      BY <1>3, <2>1, <2>3, <2>5 DEF DeliveryOK
    <2> QED BY <2>4, <2>5
  <1> QED BY <1>4, <1>5

(* The other steps of an invocation, which leave the deliveries alone.        *)
Moved(w) == /\ worker'[w] \in Worker
            /\ \A v \in Workers \ {w} : worker'[v] = worker[v]

LEMMA AskReceiptsWorker ==
  ASSUME WorkersOK, NEW w \in Workers, Push!AskReceipts(w)
  PROVE  /\ Moved(w) /\ worker' = [worker EXCEPT ![w] = worker'[w]]
         /\ worker'[w].pc = "note receipts" /\ worker'[w].token = worker[w].token
         /\ worker'[w].rows = worker[w].rows
  <1>1. PICK res \in [Push!Rows -> Push!Outcomes] :
          worker' = [worker EXCEPT ![w] = [Push!Move(w, "note receipts") EXCEPT !.result = res]]
    <2>1. [r \in Push!Rows |-> IF r \in worker[w].rows THEN "retry" ELSE "none"] \in [Push!Rows -> Push!Outcomes]
      BY DEF Push!Outcomes
    <2> QED BY <2>1 DEF Push!AskReceipts
  <1> DEFINE new == [Push!Move(w, "note receipts") EXCEPT !.result = res]
  <1>2. new \in Worker /\ new.pc = "note receipts" /\ new.token = worker[w].token
        /\ new.rows = worker[w].rows
    BY DEF Push!Move, WorkersOK, Worker, Pcs
  <1> HIDE DEF new
  <1>3. worker' = [worker EXCEPT ![w] = new]
    BY <1>1 DEF new
  <1>4. worker'[w] = new
    BY <1>3 DEF WorkersOK
  <1> QED BY <1>2, <1>3, <1>4 DEF Moved, WorkersOK

LEMMA SendWorker ==
  ASSUME WorkersOK, NEW w \in Workers, Push!Send(w)
  PROVE  /\ Moved(w) /\ worker' = [worker EXCEPT ![w] = worker'[w]]
         /\ worker'[w].pc = "note tickets" /\ worker'[w].token = worker[w].token
         /\ worker'[w].rows = worker[w].rows
         /\ \E res \in [Push!Rows -> Push!Outcomes] :
              /\ \A r \in Push!Rows : res[r] \in Push!Tickets => r \in worker[w].token
              /\ accepted' = [r \in Push!Rows |-> accepted[r] + IF res[r] \in Push!Tickets THEN 1 ELSE 0]
              /\ \/ worker'[w].result = res /\ faults' = faults
                 \/ faults' = faults + 1
  <1>1. PICK res \in [Push!Rows -> Push!Outcomes] :
          /\ \A r \in Push!Rows : IF r \in worker[w].rows THEN res[r] \in Push!Sends(w, r) ELSE res[r] = "none"
          /\ accepted' = [r \in Push!Rows |-> accepted[r] + IF res[r] \in Push!Tickets THEN 1 ELSE 0]
          /\ \/ /\ worker' = [worker EXCEPT ![w] = [Push!Move(w, "note tickets") EXCEPT !.result = res]]
                /\ UNCHANGED faults
             \/ /\ faults < MaxFaults /\ faults' = faults + 1
                /\ worker' = [worker EXCEPT ![w] = [Push!Move(w, "note tickets") EXCEPT
                     !.result = [r \in Push!Rows |-> IF r \in worker[w].token THEN "retry" ELSE res[r]]]]
    BY DEF Push!Send
  <1>2. \A r \in Push!Rows : res[r] \in Push!Tickets => r \in worker[w].token
    BY <1>1 DEF Push!Sends, Push!Tickets
  <1>3. [r \in Push!Rows |-> IF r \in worker[w].token THEN "retry" ELSE res[r]] \in [Push!Rows -> Push!Outcomes]
    BY DEF Push!Outcomes
  <1>4. ASSUME NEW result \in [Push!Rows -> Push!Outcomes],
               worker' = [worker EXCEPT ![w] = [Push!Move(w, "note tickets") EXCEPT !.result = result]]
        PROVE  /\ Moved(w) /\ worker' = [worker EXCEPT ![w] = worker'[w]]
               /\ worker'[w].pc = "note tickets" /\ worker'[w].token = worker[w].token
               /\ worker'[w].rows = worker[w].rows /\ worker'[w].result = result
    <2> DEFINE new == [Push!Move(w, "note tickets") EXCEPT !.result = result]
    <2>1. new \in Worker /\ new.pc = "note tickets" /\ new.token = worker[w].token
          /\ new.rows = worker[w].rows /\ new.result = result
      BY DEF Push!Move, WorkersOK, Worker, Pcs
    <2> HIDE DEF new
    <2>2. worker' = [worker EXCEPT ![w] = new]
      BY <1>4 DEF new
    <2>3. worker'[w] = new
      BY <2>2 DEF WorkersOK
    <2> QED BY <2>1, <2>2, <2>3 DEF Moved, WorkersOK
  <1> QED BY <1>1, <1>2, <1>3, <1>4

LEMMA IntentWorker ==
  ASSUME WorkersOK, NEW w \in Workers, Push!ClaimIntent(w) \/ Push!RecordIntent(w)
  PROVE  /\ Moved(w) /\ worker' = [worker EXCEPT ![w] = worker'[w]]
         /\ worker'[w].pc \in {"deliveries", "fan out", "outbox"}
         /\ worker'[w].token \subseteq worker'[w].rows
  <1>1. PICK new : /\ worker' = [worker EXCEPT ![w] = new]
                   /\ \/ new = Push!Move(w, "deliveries")
                      \/ \E i \in Intents : new = [Push!Move(w, "fan out") EXCEPT !.intent = {i}]
                      \/ new = [Push!Idle EXCEPT !.pc = "outbox"]
    BY DEF Push!ClaimIntent, Push!RecordIntent
  <1>2. /\ new \in Worker /\ new.pc \in {"deliveries", "fan out", "outbox"}
        /\ new.token \subseteq new.rows
    <2>1. CASE new = Push!Move(w, "deliveries")
      BY <2>1 DEF Push!Move, WorkersOK, Worker, Pcs
    <2>2. CASE \E i \in Intents : new = [Push!Move(w, "fan out") EXCEPT !.intent = {i}]
      <3>1. PICK i \in Intents : new = [Push!Move(w, "fan out") EXCEPT !.intent = {i}]
        BY <2>2
      <3>2. [Push!Move(w, "fan out") EXCEPT !.intent = {i}] \in Worker
        BY DEF Push!Move, WorkersOK, Worker, Pcs
      <3>3. Push!Move(w, "fan out") \in Worker /\ Push!Move(w, "fan out").pc = "fan out"
            /\ Push!Move(w, "fan out").token = worker[w].token
                 /\ Push!Move(w, "fan out").rows = worker[w].rows
        BY DEF Push!Move, WorkersOK, Worker, Pcs
      <3> QED BY <3>1, <3>2, <3>3 DEF Worker, WorkersOK
    <2>3. CASE new = [Push!Idle EXCEPT !.pc = "outbox"]
      BY <2>3, IdleIsWorker DEF Worker, Pcs
    <2> QED BY <1>1, <2>1, <2>2, <2>3
  <1>3. worker'[w] = new
    BY <1>1 DEF WorkersOK
  <1> QED BY <1>1, <1>2, <1>3 DEF Moved, WorkersOK

LEMMA WorkersStep ==
  ASSUME Push!ConstantsFit, DeliveryOK, InboxOK, WorkersOK, Sending, Push!Next \/ UNCHANGED push
  PROVE  WorkersOK'
  <1>0. ASSUME NEW w \in Workers, NEW new \in Worker, worker' = [worker EXCEPT ![w] = new],
               new.token \subseteq new.rows
        PROVE  WorkersOK'
    BY <1>0 DEF WorkersOK
  <1>1. ASSUME NEW w \in Workers, Push!ClaimReceipts(w) \/ Push!ClaimDeliveries(w)
        PROVE  WorkersOK'
    <2>1. PICK new : worker' = [worker EXCEPT ![w] = new]
      BY <1>1 DEF Push!ClaimReceipts, Push!ClaimDeliveries
    <2>2. worker'[w] = new
      BY <2>1 DEF WorkersOK
    <2>4. new \in Worker /\ new.token \subseteq new.rows
      <3>1. CASE Push!ClaimReceipts(w)
        <4> DEFINE ready == {q \in Push!Rows : Push!Swept[q].status = "RECEIPT_PENDING"}
                   one == [Push!Idle EXCEPT !.pc = IF ready = {} THEN "outbox" ELSE "ask", !.rows = ready]
        <4>1. one \in Worker /\ one.token = {}
          BY DEF Push!Idle, Worker, Pcs, Push!Outcomes
        <4>2. worker'[w] = one
          BY <3>1 DEF Push!ClaimReceipts, WorkersOK
        <4> QED BY <2>2, <4>1, <4>2
      <3>2. CASE Push!ClaimDeliveries(w)
        <4> DEFINE ready == {q \in Push!Rows : /\ Push!Swept[q].status \in {"QUEUED", "RETRY"}
                                               /\ Push!Swept[q].ticket = "none"
                                                    /\ Push!Swept[q].attempts < MaxAttempts}
                   one == [Push!Move(w, "send") EXCEPT !.rows = ready,
                                                       !.token = {q \in ready : delivery'[q].snapshot}]
        <4>1. one \in Worker /\ one.token \subseteq one.rows
          BY DEF Push!Move, Worker, WorkersOK, Pcs
        <4>2. worker'[w] = Push!Idle \/ worker'[w] = one
          BY <3>2 DEF Push!ClaimDeliveries, WorkersOK
        <4> QED BY <2>2, <4>1, <4>2, IdleIsWorker
      <3> QED BY <1>1, <3>1, <3>2
    <2> QED BY <1>0, <2>1, <2>4
  <1>2. ASSUME NEW w \in Workers, Push!RecordReceipts(w) \/ Push!RecordTickets(w) \/ Push!Die(w)
        PROVE  WorkersOK'
    <2>1. PICK at \in {"outbox", "idle"} : worker' = [worker EXCEPT ![w] = [Push!Idle EXCEPT !.pc = at]]
      <3>1. Push!Die(w) => worker' = [worker EXCEPT ![w] = [Push!Idle EXCEPT !.pc = "idle"]]
        BY DEF Push!Die, Push!Idle
      <3> QED BY <1>2, <3>1 DEF Push!RecordReceipts, Push!RecordTickets, Push!Record
    <2>2. [Push!Idle EXCEPT !.pc = at] \in Worker /\ [Push!Idle EXCEPT !.pc = at].token = {}
      BY IdleIsWorker DEF Worker, Pcs
    <2> QED BY <1>0, <2>1, <2>2
  <1>3. ASSUME NEW w \in Workers, Push!AskReceipts(w)
        PROVE  WorkersOK'
    BY <1>0, <1>3, AskReceiptsWorker DEF Moved, WorkersOK
  <1>4. ASSUME NEW w \in Workers, Push!Send(w)
        PROVE  WorkersOK'
    BY <1>0, <1>4, SendWorker DEF Moved, WorkersOK
  <1>5. ASSUME NEW w \in Workers, Push!ClaimIntent(w) \/ Push!RecordIntent(w)
        PROVE  WorkersOK'
    BY <1>0, <1>5, IntentWorker DEF Moved
  <1>6. ASSUME NEW w \in Workers, Push!FanOut(w)
        PROVE  WorkersOK'
    <2>1. PICK at \in {"note fanned", "note failed"} : worker' = [worker EXCEPT ![w] = Push!Move(w, at)]
      BY <1>6 DEF Push!FanOut
    <2>2. Push!Move(w, at) \in Worker /\ Push!Move(w, at).token \subseteq Push!Move(w, at).rows
      BY DEF Push!Move, WorkersOK, Worker, Pcs
    <2> QED BY <1>0, <2>1, <2>2
  <1>7. CASE UNCHANGED worker
    BY <1>7 DEF WorkersOK
  <1>8. ASSUME Push!PhoneStep \/ Push!Clock \/ UNCHANGED push
        PROVE  UNCHANGED worker
    BY <1>8 DEF Push!PhoneStep, Push!Clock, Push!LeaseEnds, Push!IntentLeaseEnds, push
  <1> QED BY <1>1, <1>2, <1>3, <1>4, <1>5, <1>6, <1>7, <1>8 DEF Push!Next, Push!WorkerStep

(* The deliveries: their types, and that a row is made only with the          *)
(* notification of its intent.                                               *)
Made(r) == (inbox'[r[1]] = "none" => inbox[r[1]] = "none" /\ delivery'[r].status = "NONE")
RowStep(r) == delivery'[r] \in Delivery /\ Made(r)

LEMMA AggregateKeeps ==
  ASSUME NEW rows, NEW touched, Push!Aggregate(rows, touched), InboxOK
  PROVE  /\ inbox' \in [Intents -> {"none", "in app", "QUEUED", "SENT", "FAILED"}]
         /\ \A i \in Intents : inbox'[i] = "none" => inbox[i] = "none"
  BY DEF Push!Aggregate, Push!Refreshed, InboxOK

LEMMA LeaseEndsRow ==
  ASSUME DeliveryOK, NEW q \in Push!Rows, Push!LeaseEnds(q), NEW r \in Push!Rows
  PROVE  /\ delivery'[r] \in Delivery
         /\ IF r = q THEN /\ Alike(delivery'[r], [delivery[r] EXCEPT !.lapsed = TRUE])
                          /\ delivery[r].status = "LEASED"
                     ELSE delivery'[r] = delivery[r]
  <1>1. delivery' = [delivery EXCEPT ![q] = [delivery[q] EXCEPT !.lapsed = TRUE]]
        /\ delivery[q].status = "LEASED"
    BY DEF Push!LeaseEnds
  <1>2. [delivery[q] EXCEPT !.lapsed = TRUE] \in Delivery
    BY <1>1 DEF DeliveryOK, Delivery, PushRow
  <1> QED BY <1>1, <1>2 DEF DeliveryOK, Alike

LEMMA PhoneRow ==
  ASSUME DeliveryOK, Push!PhoneStep, NEW r \in Push!Rows
  PROVE  delivery'[r] \in Delivery /\ Alike(delivery'[r], delivery[r])
  <1>1. delivery' = delivery \/ \E d : delivery' = Push!Forget(delivery, {d})
    BY DEF Push!PhoneStep, Push!Uninstall, Push!Register, Push!Unregister
  <1>2. delivery'[r] = delivery[r] \/ delivery'[r] = [delivery[r] EXCEPT !.token = FALSE]
    BY <1>1 DEF Push!Forget
  <1>3. [delivery[r] EXCEPT !.token = FALSE] \in Delivery
        /\ Alike([delivery[r] EXCEPT !.token = FALSE], delivery[r])
    BY DEF DeliveryOK, Delivery, PushRow, Alike
  <1> QED BY <1>2, <1>3 DEF DeliveryOK, Alike

LEMMA DeliveryStep ==
  ASSUME Push!ConstantsFit, PushTypes, Sending, Push!Next \/ UNCHANGED push
  PROVE  DeliveryOK' /\ InboxOK'
  <1> USE DEF PushTypes
  <1>1. ASSUME NEW w \in Workers, Push!ClaimReceipts(w) \/ Push!ClaimDeliveries(w), NEW r \in Push!Rows
        PROVE  RowStep(r)
    <2>1. delivery'[r] \in Delivery
      BY <1>1, ClaimReceiptsRow, ClaimDeliveriesRow
    <2>2. delivery[r].status = "NONE" => Push!Swept[r].status = "NONE"
      BY SweptRow DEF Push!Lapsed
    <2>3. delivery'[r].status = "NONE" \/ delivery[r].status # "NONE"
      BY <1>1, <2>2, ClaimReceiptsRow, ClaimDeliveriesRow
    <2>4. inbox' = inbox
      BY <1>1 DEF Push!ClaimReceipts, Push!ClaimDeliveries
    <2> QED BY <2>1, <2>3, <2>4 DEF RowStep, Made, InboxOK
  <1>2. ASSUME NEW w \in Workers, Push!RecordReceipts(w) \/ Push!RecordTickets(w), NEW r \in Push!Rows
        PROVE  RowStep(r)
    <2>1. delivery'[r] \in Delivery
      BY <1>2, RecordReceiptsRow, RecordTicketsRow
    <2>2. Push!Holds(w, r) => delivery[r].status # "NONE"
      BY DEF Push!Holds
    <2>3. delivery'[r].status = "NONE" \/ delivery[r].status # "NONE"
      BY <1>2, <2>2, RecordReceiptsRow, RecordTicketsRow DEF Alike
    <2>4. inbox'[r[1]] = "none" => inbox[r[1]] = "none"
      BY <1>2, AggregateKeeps DEF Push!RecordReceipts, Push!RecordTickets, Push!Record, Push!Rows
    <2> QED BY <2>1, <2>3, <2>4 DEF RowStep, Made, InboxOK
  <1>3. ASSUME NEW w \in Workers, Push!FanOut(w), NEW r \in Push!Rows
        PROVE  RowStep(r)
    <2>1. /\ delivery'[r] \in Delivery
          /\ \/ delivery'[r] = delivery[r] /\ (inbox'[r[1]] = "none" => inbox[r[1]] = "none")
             \/ inbox'[r[1]] # "none"
      BY <1>3, FanOutRow
    <2> QED BY <2>1 DEF RowStep, Made, InboxOK
  <1>4. ASSUME NEW q \in Push!Rows, Push!LeaseEnds(q), NEW r \in Push!Rows
        PROVE  RowStep(r)
    <2>1. inbox' = inbox
      BY <1>4 DEF Push!LeaseEnds
    <2>2. delivery'[r].status = delivery[r].status /\ delivery'[r] \in Delivery
      <3>1. [delivery[r] EXCEPT !.lapsed = TRUE].status = delivery[r].status
        BY DEF DeliveryOK, Delivery, PushRow
      <3> QED BY <1>4, <3>1, LeaseEndsRow DEF Alike
    <2> QED BY <2>1, <2>2 DEF RowStep, Made, InboxOK
  <1>5. ASSUME Push!PhoneStep, NEW r \in Push!Rows
        PROVE  RowStep(r)
    BY <1>5, PhoneRow DEF RowStep, Made, InboxOK, Alike, Push!PhoneStep
  <1>6. ASSUME UNCHANGED <<delivery, inbox>>, NEW r \in Push!Rows
        PROVE  RowStep(r)
    BY <1>6 DEF RowStep, Made, InboxOK, DeliveryOK
  <1>7. ASSUME NEW w \in Workers,
               Push!AskReceipts(w) \/ Push!ClaimIntent(w) \/ Push!RecordIntent(w) \/ Push!Send(w) \/ Push!Die(w)
        PROVE  UNCHANGED <<delivery, inbox>>
    BY <1>7 DEF Push!AskReceipts, Push!ClaimIntent, Push!RecordIntent, Push!Send, Push!Die
  <1>8. ASSUME (\E i \in Intents : Push!IntentLeaseEnds(i)) \/ UNCHANGED push
        PROVE  UNCHANGED <<delivery, inbox>>
    BY <1>8 DEF Push!IntentLeaseEnds, push
  <1>9. \A r \in Push!Rows : RowStep(r)
    BY <1>1, <1>2, <1>3, <1>4, <1>5, <1>6, <1>7, <1>8 DEF Push!Next, Push!Clock, Push!WorkerStep
  <1>10. delivery' = [r \in Push!Rows |-> delivery'[r]]
    <2>1. ASSUME NEW w \in Workers, Push!ClaimReceipts(w) \/ Push!ClaimDeliveries(w)
          PROVE  delivery' = [r \in Push!Rows |-> delivery'[r]]
      BY <2>1 DEF Push!ClaimReceipts, Push!ClaimDeliveries
    <2>2. ASSUME NEW w \in Workers, Push!RecordReceipts(w) \/ Push!RecordTickets(w)
          PROVE  delivery' = [r \in Push!Rows |-> delivery'[r]]
      BY <2>2 DEF Push!RecordReceipts, Push!RecordTickets, Push!Record, Push!Forget
    <2>3. ASSUME NEW w \in Workers, Push!FanOut(w)
          PROVE  delivery' = [r \in Push!Rows |-> delivery'[r]]
      <3>1. delivery' = delivery \/ \E f : delivery' = [r \in Push!Rows |-> f[r]]
        <4>1. PICK i \in worker[w].intent :
                \/ UNCHANGED delivery
                \/ delivery' = [q \in Push!Rows |->
                     IF q[1] = i /\ q[2] \in {d \in Devices : owner[d] = Recipient}
                     THEN [Push!NoRow EXCEPT !.status = "QUEUED", !.token = TRUE] ELSE delivery[q]]
          BY <2>3 DEF Push!FanOut
        <4> QED BY <4>1
      <3> QED BY <3>1 DEF DeliveryOK
    <2>4. ASSUME (\E q \in Push!Rows : Push!LeaseEnds(q)) \/ Push!PhoneStep
          PROVE  delivery' = [r \in Push!Rows |-> delivery'[r]]
      BY <2>4 DEF Push!LeaseEnds, Push!PhoneStep, Push!Uninstall, Push!Register, Push!Unregister,
         Push!Forget, DeliveryOK
    <2>5. ASSUME UNCHANGED delivery
          PROVE  delivery' = [r \in Push!Rows |-> delivery'[r]]
      BY <2>5 DEF DeliveryOK
    <2> QED BY <1>7, <1>8, <2>1, <2>2, <2>3, <2>4, <2>5 DEF Push!Next, Push!Clock, Push!WorkerStep
  <1>11. inbox' \in [Intents -> {"none", "in app", "QUEUED", "SENT", "FAILED"}]
    <2>1. ASSUME NEW w \in Workers, Push!RecordReceipts(w) \/ Push!RecordTickets(w)
          PROVE  inbox' \in [Intents -> {"none", "in app", "QUEUED", "SENT", "FAILED"}]
      BY <2>1, AggregateKeeps DEF Push!RecordReceipts, Push!RecordTickets, Push!Record
    <2>2. ASSUME NEW w \in Workers, Push!FanOut(w)
          PROVE  inbox' \in [Intents -> {"none", "in app", "QUEUED", "SENT", "FAILED"}]
      BY <2>2 DEF Push!FanOut, InboxOK
    <2>3. ASSUME NEW w \in Workers, Push!ClaimReceipts(w) \/ Push!ClaimDeliveries(w)
          PROVE  inbox' = inbox
      BY <2>3 DEF Push!ClaimReceipts, Push!ClaimDeliveries
    <2>4. ASSUME (\E q \in Push!Rows : Push!LeaseEnds(q)) \/ Push!PhoneStep
          PROVE  inbox' = inbox
      BY <2>4 DEF Push!LeaseEnds, Push!PhoneStep
    <2> QED BY <1>7, <1>8, <2>1, <2>2, <2>3, <2>4 DEF Push!Next, Push!Clock, Push!WorkerStep,
               InboxOK
  <1> QED BY <1>9, <1>10, <1>11 DEF RowStep, Made, DeliveryOK, InboxOK

LEMMA PhonesStep ==
  ASSUME Push!ConstantsFit, PhonesOK, Push!Next \/ UNCHANGED push
  PROVE  PhonesOK'
  <1>1. CASE Push!PhoneStep
    BY <1>1 DEF Push!PhoneStep, Push!Uninstall, Push!Register, Push!Unregister, PhonesOK
  <1>2. ASSUME NEW w \in Workers, Push!RecordReceipts(w) \/ Push!RecordTickets(w)
        PROVE  PhonesOK'
    BY <1>2 DEF Push!RecordReceipts, Push!RecordTickets, Push!Record, PhonesOK
  <1>3. ASSUME UNCHANGED <<owner, gone>>
        PROVE  PhonesOK'
    BY <1>3 DEF PhonesOK
  <1>4. ASSUME NEW w \in Workers,
               \/ Push!ClaimReceipts(w) \/ Push!AskReceipts(w) \/ Push!ClaimIntent(w) \/ Push!FanOut(w)
               \/ Push!RecordIntent(w) \/ Push!ClaimDeliveries(w) \/ Push!Send(w) \/ Push!Die(w)
        PROVE  UNCHANGED <<owner, gone>>
    BY <1>4 DEF Push!ClaimReceipts, Push!AskReceipts, Push!ClaimIntent, Push!FanOut,
       Push!RecordIntent, Push!ClaimDeliveries,
                Push!Send, Push!Die
  <1>5. ASSUME Push!Clock \/ UNCHANGED push
        PROVE  UNCHANGED <<owner, gone>>
    BY <1>5 DEF Push!Clock, Push!LeaseEnds, Push!IntentLeaseEnds, push
  <1> QED BY <1>1, <1>2, <1>3, <1>4, <1>5 DEF Push!Next, Push!WorkerStep

(* The count of faults only grows.                                            *)
Later == faults' \in Nat /\ faults' >= faults
Elsewhere == UNCHANGED push /\ Later

LEMMA FaultsStep == ASSUME faults \in Nat, Push!Next PROVE Later
  <1>1. faults' = faults \/ faults' = faults + 1
    <2>1. CASE Push!Clock \/ Push!PhoneStep
      <3>1. ASSUME NEW late, Push!Late(late)
            PROVE  faults' = faults \/ faults' = faults + 1
        BY <3>1 DEF Push!Late
      <3>2. Push!Clock => \E late : Push!Late(late)
        BY DEF Push!Clock, Push!LeaseEnds, Push!IntentLeaseEnds
      <3> QED BY <2>1, <3>1, <3>2 DEF Push!PhoneStep
    <2>2. ASSUME NEW w \in Workers, Push!AskReceipts(w) \/ Push!Send(w) \/ Push!Die(w)
          PROVE  faults' = faults \/ faults' = faults + 1
      BY <2>2 DEF Push!AskReceipts, Push!Send, Push!Die
    <2>3. ASSUME NEW w \in Workers,
                 \/ Push!ClaimReceipts(w) \/ Push!RecordReceipts(w) \/ Push!ClaimIntent(w) \/ Push!FanOut(w)
                 \/ Push!RecordIntent(w) \/ Push!ClaimDeliveries(w) \/ Push!RecordTickets(w)
          PROVE  faults' = faults
      BY <2>3 DEF Push!ClaimReceipts, Push!RecordReceipts, Push!ClaimIntent, Push!FanOut,
         Push!RecordIntent,
                  Push!ClaimDeliveries, Push!RecordTickets, Push!Record
    <2> QED BY <2>1, <2>2, <2>3 DEF Push!Next, Push!WorkerStep
  <1> QED BY <1>1 DEF Later

LEMMA CountsStep ==
  ASSUME Push!ConstantsFit, PushTypes, Push!Next \/ Elsewhere
  PROVE  CountsOK'
  <1>0. faults' \in Nat
    BY FaultsStep DEF Elsewhere, Later, PushTypes, CountsOK
  <1>1. ASSUME NEW w \in Workers, Push!Send(w)
        PROVE  accepted' \in [Push!Rows -> Nat]
    <2>1. PICK res : accepted' = [r \in Push!Rows |-> accepted[r] + IF res[r] \in Push!Tickets THEN 1 ELSE 0]
      BY <1>1 DEF Push!Send
    <2> QED BY <2>1 DEF PushTypes, CountsOK
  <1>2. ASSUME UNCHANGED accepted
        PROVE  accepted' \in [Push!Rows -> Nat]
    BY <1>2 DEF PushTypes, CountsOK
  <1>3. ASSUME NEW w \in Workers,
               \/ Push!ClaimReceipts(w) \/ Push!AskReceipts(w) \/ Push!RecordReceipts(w) \/ Push!ClaimIntent(w)
               \/ Push!FanOut(w) \/ Push!RecordIntent(w) \/ Push!ClaimDeliveries(w) \/ Push!RecordTickets(w) \/ Push!Die(w)
        PROVE  UNCHANGED accepted
    BY <1>3 DEF Push!ClaimReceipts, Push!AskReceipts, Push!RecordReceipts, Push!ClaimIntent,
       Push!FanOut, Push!RecordIntent,
                Push!ClaimDeliveries, Push!RecordTickets, Push!Record, Push!Die
  <1>4. ASSUME Push!Clock \/ Push!PhoneStep \/ Elsewhere
        PROVE  UNCHANGED accepted
    BY <1>4 DEF Push!Clock, Push!LeaseEnds, Push!IntentLeaseEnds, Push!PhoneStep, Elsewhere, push
  <1> QED BY <1>0, <1>1, <1>2, <1>3, <1>4 DEF Push!Next, Push!WorkerStep, CountsOK

LEMMA PushTypesStep ==
  ASSUME Push!ConstantsFit, PushTypes, Sending, Push!Next \/ Elsewhere
  PROVE  PushTypes'
  BY OutboxStep, DeliveryStep, WorkersStep, PhonesStep, CountsStep DEF PushTypes, Elsewhere
--------------------------------------------------------------------------
(* Leases                                                                    *)

(* A step of one invocation leaves what another one holds with it, unless the *)
(* lease has run out, and gives it nothing.                                  *)
Undisturbed(v, r) ==
  /\ worker'[v] = worker[v]
  /\ InTime(v, r) => InTime(v, r)'
  /\ Push!Holds(v, r)' => /\ Push!Holds(v, r) /\ delivery'[r].ticket = delivery[r].ticket
                          /\ delivery'[r].attempts = delivery[r].attempts

LEMMA OthersUndisturbed ==
  ASSUME Push!ConstantsFit, PushTypes, Sending, NEW w \in Workers, Push!WorkerStep(w) \/ Push!Die(w),
         NEW v \in Workers \ {w}, NEW r \in Push!Rows
  PROVE  Undisturbed(v, r)
  <1> USE DEF PushTypes
  <1>0. Push!NoOne \notin Workers
    BY DEF Push!ConstantsFit
  <1>1. worker'[v] = worker[v]
    BY DEF Push!WorkerStep, Push!ClaimReceipts, Push!AskReceipts, Push!RecordReceipts,
           Push!ClaimIntent, Push!FanOut,
           Push!RecordIntent, Push!ClaimDeliveries, Push!Send, Push!RecordTickets, Push!Record,
           Push!Die, WorkersOK
  <1>2. CASE Push!ClaimReceipts(w) \/ Push!ClaimDeliveries(w)
    <2>1. Claimed(r, w) \/ delivery'[r] = Push!Swept[r]
      BY <1>2, ClaimReceiptsRow, ClaimDeliveriesRow
    <2>2. CASE Claimed(r, w)
      <3>1. ~InTime(v, r)
        BY <2>2, SweptRow DEF Claimed, InTime, Push!Holds, Push!Lapsed
      <3> QED BY <1>1, <2>2, <3>1 DEF Claimed, Push!Holds, Undisturbed
    <2>3. CASE delivery'[r] = Push!Swept[r]
      BY <1>0, <1>1, <2>3, SweptRow DEF InTime, Push!Holds, Push!Lapsed, Undisturbed
    <2> QED BY <2>1, <2>2, <2>3
  <1>3. CASE Push!RecordReceipts(w) \/ Push!RecordTickets(w)
    <2>1. CASE r \in worker[w].rows /\ Push!Holds(w, r)
      <3>1. ~Push!Holds(v, r)
        BY <2>1 DEF Push!Holds
      <3>2. Receipted(w, r).lease = Push!NoOne /\ Recorded(w, r).lease = Push!NoOne
        BY DEF Receipted, Recorded, DeliveryOK, Delivery, PushRow
      <3>3. delivery'[r].lease = Push!NoOne
        BY <1>3, <2>1, <3>2, RecordReceiptsRow, RecordTicketsRow DEF Alike
      <3> QED BY <1>0, <1>1, <3>1, <3>3 DEF InTime, Push!Holds, Undisturbed
    <2>2. CASE ~(r \in worker[w].rows /\ Push!Holds(w, r))
      <3>1. Alike(delivery'[r], delivery[r])
        BY <1>3, <2>2, RecordReceiptsRow, RecordTicketsRow
      <3> QED BY <1>1, <3>1 DEF Alike, InTime, Push!Holds, Undisturbed
    <2> QED BY <2>1, <2>2
  <1>4. CASE Push!FanOut(w)
    <2>1. \/ delivery'[r] = delivery[r]
          \/ delivery[r].status = "NONE" /\ delivery'[r].lease = Push!NoOne
      BY <1>4, FanOutRow
    <2> QED BY <1>0, <1>1, <2>1 DEF InTime, Push!Holds, Undisturbed
  <1>5. CASE Push!AskReceipts(w) \/ Push!ClaimIntent(w) \/ Push!RecordIntent(w) \/ Push!Send(w) \/ Push!Die(w)
    <2>1. delivery' = delivery
      BY <1>5 DEF Push!AskReceipts, Push!ClaimIntent, Push!RecordIntent, Push!Send, Push!Die
    <2> QED BY <1>1, <2>1 DEF InTime, Push!Holds, Undisturbed
  <1> QED BY <1>2, <1>3, <1>4, <1>5 DEF Push!WorkerStep

LEMMA PhoneUndisturbed ==
  ASSUME PushTypes, Push!PhoneStep \/ (\E i \in Intents : Push!IntentLeaseEnds(i)) \/ UNCHANGED push,
         NEW v \in Workers, NEW r \in Push!Rows
  PROVE  Undisturbed(v, r)
  <1> USE DEF PushTypes
  <1>1. CASE Push!PhoneStep
    <2>1. worker' = worker
      BY <1>1 DEF Push!PhoneStep
    <2> QED BY <1>1, <2>1, PhoneRow DEF Alike, InTime, Push!Holds, Undisturbed
  <1>2. CASE (\E i \in Intents : Push!IntentLeaseEnds(i)) \/ UNCHANGED push
    BY <1>2 DEF Push!IntentLeaseEnds, push, InTime, Push!Holds, Undisturbed
  <1> QED BY <1>1, <1>2

LEMMA SendingStep ==
  ASSUME Push!ConstantsFit, PushTypes, Sending, Push!Next \/ UNCHANGED push
  PROVE  Sending'
  <1> SUFFICES ASSUME NEW w \in Workers, NEW r \in Push!Rows
               PROVE  Unsent(w, r)'
    BY DEF Sending
  <1> USE DEF PushTypes
  <1>0. Unsent(w, r)
    BY DEF Sending
  <1>1. ASSUME Undisturbed(w, r)
        PROVE  Unsent(w, r)'
    BY <1>0, <1>1 DEF Unsent, Undisturbed
  <1>2. ASSUME NEW v \in Workers, v # w, Push!WorkerStep(v) \/ Push!Die(v)
        PROVE  Unsent(w, r)'
    BY <1>1, <1>2, OthersUndisturbed
  <1>3. CASE Push!PhoneStep \/ (\E i \in Intents : Push!IntentLeaseEnds(i)) \/ UNCHANGED push
    BY <1>1, <1>3, PhoneUndisturbed
  <1>4. ASSUME NEW q \in Push!Rows, Push!LeaseEnds(q)
        PROVE  Unsent(w, r)'
    <2>1. worker' = worker
      BY <1>4 DEF Push!LeaseEnds
    <2>2. /\ delivery'[r].status = delivery[r].status /\ delivery'[r].lease = delivery[r].lease
          /\ delivery'[r].ticket = delivery[r].ticket
               /\ delivery'[r].attempts = delivery[r].attempts
      <3>1. /\ [delivery[r] EXCEPT !.lapsed = TRUE].status = delivery[r].status
            /\ [delivery[r] EXCEPT !.lapsed = TRUE].lease = delivery[r].lease
            /\ [delivery[r] EXCEPT !.lapsed = TRUE].ticket = delivery[r].ticket
            /\ [delivery[r] EXCEPT !.lapsed = TRUE].attempts = delivery[r].attempts
        BY DEF DeliveryOK, Delivery, PushRow
      <3> QED BY <1>4, <3>1, LeaseEndsRow DEF Alike
    <2> QED BY <1>0, <2>1, <2>2 DEF Unsent, Push!Holds
  <1>5. CASE Push!ClaimDeliveries(w)
    <2>1. r \in worker'[w].rows => delivery'[r].ticket = "none" /\ delivery'[r].attempts < MaxAttempts
      BY <1>5, ClaimDeliveriesRow DEF Claimed
    <2> QED BY <2>1 DEF Unsent
  <1>6. CASE Push!Send(w)
    <2>1. /\ worker[w].pc = "send" /\ delivery' = delivery
          /\ worker'[w].rows = worker[w].rows
      BY <1>6, SendWorker DEF Push!Send
    <2> QED BY <1>0, <2>1 DEF Unsent, Push!Holds
  <1>7. CASE \/ Push!ClaimReceipts(w) \/ Push!AskReceipts(w) \/ Push!RecordReceipts(w) \/ Push!ClaimIntent(w)
             \/ Push!FanOut(w) \/ Push!RecordIntent(w) \/ Push!RecordTickets(w) \/ Push!Die(w)
    <2>1. worker'[w].pc \notin {"send", "note tickets"}
      <3>1. CASE Push!ClaimReceipts(w)
        BY <3>1, ClaimReceiptsRow
      <3>2. CASE Push!AskReceipts(w)
        BY <3>2, AskReceiptsWorker
      <3>3. CASE Push!RecordReceipts(w) \/ Push!RecordTickets(w)
        BY <3>3, RecordReceiptsRow, RecordTicketsRow
      <3>4. CASE Push!ClaimIntent(w) \/ Push!RecordIntent(w)
        BY <3>4, IntentWorker
      <3>5. CASE Push!FanOut(w)
        BY <3>5, FanOutRow
      <3>6. CASE Push!Die(w)
        BY <3>6, IdleIsWorker DEF Push!Die, WorkersOK
      <3> QED BY <1>7, <3>1, <3>2, <3>3, <3>4, <3>5, <3>6
    <2> QED BY <2>1 DEF Unsent
  <1> QED BY <1>2, <1>3, <1>4, <1>5, <1>6, <1>7 DEF Push!Next, Push!Clock, Push!WorkerStep
--------------------------------------------------------------------------
(* What is recorded stays                                                    *)

SettledRow(r) ==
  /\ delivery[r].ticket # "none" => delivery'[r].ticket = delivery[r].ticket
  /\ delivery[r].status \in {"DELIVERED", "FAILED"} => delivery'[r].status = delivery[r].status

LEMMA StepSettled ==
  ASSUME Push!ConstantsFit, PushTypes, Sending, Push!Next \/ UNCHANGED push, NEW r \in Push!Rows
  PROVE  SettledRow(r)
  <1> USE DEF PushTypes
  <1>0. delivery[r] \in Delivery
    BY DEF DeliveryOK
  <1>1. ASSUME delivery'[r].ticket = delivery[r].ticket, delivery'[r].status = delivery[r].status
        PROVE  SettledRow(r)
    BY <1>1 DEF SettledRow
  <1>2. ASSUME NEW w \in Workers, Push!ClaimReceipts(w) \/ Push!ClaimDeliveries(w)
        PROVE  SettledRow(r)
    <2>1. delivery'[r].ticket = delivery[r].ticket
      BY <1>2, SweptRow, ClaimReceiptsRow, ClaimDeliveriesRow DEF Claimed
    <2>2. CASE delivery[r].status \in {"DELIVERED", "FAILED"}
      <3>1. Push!Swept[r].status = delivery[r].status
        BY <2>2, SweptRow DEF Push!Lapsed
      <3>2. delivery'[r] = Push!Swept[r]
        BY <1>2, <2>2, <3>1, ClaimReceiptsRow, ClaimDeliveriesRow
      <3> QED BY <2>1, <3>1, <3>2 DEF SettledRow
    <2> QED BY <2>1, <2>2 DEF SettledRow
  <1>3. ASSUME NEW w \in Workers, Push!RecordReceipts(w)
        PROVE  SettledRow(r)
    <2>1. Receipted(w, r).ticket = delivery[r].ticket
      BY <1>0 DEF Receipted, Delivery, PushRow
    <2>2. Push!Holds(w, r) => delivery[r].status = "LEASED"
      BY DEF Push!Holds
    <2> QED BY <1>3, <2>1, <2>2, RecordReceiptsRow DEF Alike, SettledRow
  <1>4. ASSUME NEW w \in Workers, Push!RecordTickets(w)
        PROVE  SettledRow(r)
    <2>1. Push!Holds(w, r) => delivery[r].status = "LEASED"
      BY DEF Push!Holds
    <2>2. r \in worker[w].rows /\ Push!Holds(w, r) => delivery[r].ticket = "none"
      BY <1>4 DEF Push!RecordTickets, Sending, Unsent
    <2> QED BY <1>4, <2>1, <2>2, RecordTicketsRow DEF Alike, SettledRow
  <1>5. ASSUME NEW w \in Workers, Push!FanOut(w)
        PROVE  SettledRow(r)
    <2>1. \/ delivery'[r] = delivery[r]
          \/ delivery[r].status = "NONE"
      BY <1>5, FanOutRow
    <2> QED BY <1>0, <2>1 DEF SettledRow, Delivery
  <1>6. ASSUME NEW q \in Push!Rows, Push!LeaseEnds(q)
        PROVE  SettledRow(r)
    <2>1. /\ [delivery[r] EXCEPT !.lapsed = TRUE].status = delivery[r].status
          /\ [delivery[r] EXCEPT !.lapsed = TRUE].ticket = delivery[r].ticket
      BY <1>0 DEF Delivery, PushRow
    <2> QED BY <1>1, <1>6, <2>1, LeaseEndsRow DEF Alike
  <1>7. CASE Push!PhoneStep
    BY <1>1, <1>7, PhoneRow DEF Alike
  <1>8. ASSUME NEW w \in Workers,
               Push!AskReceipts(w) \/ Push!ClaimIntent(w) \/ Push!RecordIntent(w) \/ Push!Send(w) \/ Push!Die(w)
        PROVE  UNCHANGED delivery
    BY <1>8 DEF Push!AskReceipts, Push!ClaimIntent, Push!RecordIntent, Push!Send, Push!Die
  <1>9. ASSUME (\E i \in Intents : Push!IntentLeaseEnds(i)) \/ UNCHANGED push
        PROVE  UNCHANGED delivery
    BY <1>9 DEF Push!IntentLeaseEnds, push
  <1> QED BY <1>1, <1>2, <1>3, <1>4, <1>5, <1>6, <1>7, <1>8, <1>9 DEF Push!Next, Push!Clock,
             Push!WorkerStep

(* A worker takes a token from a phone only while it is the recipient's; the  *)
(* phones themselves do not touch a worker.                                  *)
OthersKeep == \A d \in Devices : owner[d] \notin {Recipient, Push!NoOne} /\ owner'[d] = Push!NoOne
                                   => \A w \in Workers : worker'[w] = worker[w]

LEMMA StepOthersKeep ==
  ASSUME Push!Next \/ UNCHANGED push
  PROVE  OthersKeep
  <1>1. ASSUME UNCHANGED worker
        PROVE  OthersKeep
    BY <1>1 DEF OthersKeep
  <1>2. ASSUME UNCHANGED owner
        PROVE  OthersKeep
    BY <1>2 DEF OthersKeep
  <1>3. ASSUME NEW w \in Workers, Push!RecordReceipts(w) \/ Push!RecordTickets(w)
        PROVE  OthersKeep
    <2>1. owner' = [d \in Devices |-> IF d \in Push!Dead(w) THEN Push!NoOne ELSE owner[d]]
      BY <1>3 DEF Push!RecordReceipts, Push!RecordTickets, Push!Record
    <2>2. \A d \in Push!Dead(w) : owner[d] = Recipient
      BY DEF Push!Dead
    <2> QED BY <2>1, <2>2 DEF OthersKeep
  <1>4. ASSUME NEW w \in Workers,
               \/ Push!ClaimReceipts(w) \/ Push!AskReceipts(w) \/ Push!ClaimIntent(w) \/ Push!FanOut(w)
               \/ Push!RecordIntent(w) \/ Push!ClaimDeliveries(w) \/ Push!Send(w) \/ Push!Die(w)
        PROVE  UNCHANGED owner
    BY <1>4 DEF Push!ClaimReceipts, Push!AskReceipts, Push!ClaimIntent, Push!FanOut,
       Push!RecordIntent, Push!ClaimDeliveries,
                Push!Send, Push!Die
  <1>5. ASSUME Push!PhoneStep \/ Push!Clock \/ UNCHANGED push
        PROVE  UNCHANGED worker
    BY <1>5 DEF Push!PhoneStep, Push!Clock, Push!LeaseEnds, Push!IntentLeaseEnds, push
  <1> QED BY <1>1, <1>2, <1>3, <1>4, <1>5 DEF Push!Next, Push!WorkerStep
--------------------------------------------------------------------------
(* What a fault pays for                                                     *)

LEMMA OneMore ==
  ASSUME NEW S, NEW x, NEW T \in SUBSET (S \cup {x}), IsFiniteSet(S)
  PROVE  /\ IsFiniteSet(T) /\ Cardinality(T) \in Nat /\ Cardinality(S) \in Nat
         /\ Cardinality(T) <= Cardinality(S) + 1
  <1>1. /\ IsFiniteSet(S \cup {x})
        /\ Cardinality(S \cup {x}) = IF x \in S THEN Cardinality(S) ELSE Cardinality(S) + 1
    BY FS_AddElement
  <1>2. IsFiniteSet(T) /\ Cardinality(T) <= Cardinality(S \cup {x})
    BY <1>1, FS_Subset
  <1>3. Cardinality(S) \in Nat /\ Cardinality(T) \in Nat /\ Cardinality(S \cup {x}) \in Nat
    BY <1>1, <1>2, FS_CardinalityType
  <1>4. Cardinality(S \cup {x}) <= Cardinality(S) + 1
    BY <1>1, <1>3
  <1> QED BY <1>2, <1>3, <1>4

(* Nothing is sent, nobody new is about to send without a lease, and a ticket *)
(* that was there, or about to be recorded, is not lost without a fault.      *)
LEMMA NothingSent ==
  ASSUME PushTypes, PushTypes', NEW r \in Push!Rows, PaidFor(r), Later,
         accepted'[r] = accepted[r], Stale(r)' \subseteq Stale(r),
         Ticketed(r) => Ticketed(r)' \/ faults' > faults
  PROVE  PaidFor(r)'
  <1>1. /\ faults \in Nat /\ faults' \in Nat /\ faults' >= faults /\ accepted[r] \in Nat
        /\ IsFiniteSet(Stale(r))
        /\ accepted[r] + Cardinality(Stale(r)) <= faults + IF Ticketed(r) THEN 1 ELSE 0
    BY DEF PushTypes, CountsOK, Later, PaidFor
  <1>2. IsFiniteSet(Stale(r)') /\ Cardinality(Stale(r)') <= Cardinality(Stale(r))
    BY <1>1, FS_Subset
  <1>3. Cardinality(Stale(r)) \in Nat /\ Cardinality(Stale(r)') \in Nat
    BY <1>1, <1>2, FS_CardinalityType
  <1>4. accepted'[r] + Cardinality(Stale(r)') <= faults' + IF Ticketed(r)' THEN 1 ELSE 0
    BY <1>1, <1>2, <1>3
  <1> QED BY <1>2, <1>4 DEF PaidFor

(* A step of one invocation that sends nothing.                               *)
LEMMA OneStepSends ==
  ASSUME Push!ConstantsFit, PushTypes, PushTypes', Sending, NEW w \in Workers, Push!WorkerStep(w) \/ Push!Die(w), ~Push!Send(w),
         NEW r \in Push!Rows, PaidFor(r), Later,
         worker'[w].pc = "send" /\ r \in worker'[w].token => InTime(w, r)',
         Noting(w, r) => delivery'[r].ticket # "none" \/ faults' > faults
  PROVE  PaidFor(r)'
  <1>1. \A v \in Workers \ {w} : Undisturbed(v, r)
    BY OthersUndisturbed
  <1>2. Stale(r)' \subseteq Stale(r)
    <2> SUFFICES ASSUME NEW v \in Workers, v \in Stale(r)' PROVE v \in Stale(r)
      BY DEF Stale
    <2>1. v # w
      BY DEF Stale
    <2> QED BY <1>1, <2>1 DEF Stale, Undisturbed
  <1>3. accepted' = accepted
    BY DEF Push!WorkerStep, Push!ClaimReceipts, Push!AskReceipts, Push!RecordReceipts,
           Push!ClaimIntent, Push!FanOut,
           Push!RecordIntent, Push!ClaimDeliveries, Push!RecordTickets, Push!Record, Push!Die
  <1>4. delivery[r].ticket # "none" => delivery'[r].ticket # "none"
    <2>1. Push!Next
      BY DEF Push!Next
    <2> QED BY <2>1, StepSettled DEF SettledRow
  <1>5. ASSUME NEW v \in Workers \ {w}, Noting(v, r)
        PROVE  Noting(v, r)'
    BY <1>1, <1>5 DEF Undisturbed, Noting
  <1>6. Ticketed(r) => Ticketed(r)' \/ faults' > faults
    BY <1>4, <1>5 DEF Ticketed
  <1> QED BY <1>2, <1>3, <1>6, NothingSent

(* Two invocations never hold the same delivery.                              *)
LEMMA OneHolder ==
  ASSUME NEW w, NEW v, NEW r, Push!Holds(w, r), Push!Holds(v, r)
  PROVE  v = w
  BY DEF Push!Holds

LEMMA SendAccounted ==
  ASSUME Push!ConstantsFit, PushTypes, PushTypes', Sending, NEW w \in Workers, Push!Send(w),
         NEW r \in Push!Rows, PaidFor(r)
  PROVE  PaidFor(r)'
  <1> DEFINE ticket == IF Ticketed(r) THEN 1 ELSE 0
  <1>1. /\ worker'[w].pc = "note tickets" /\ worker'[w].token = worker[w].token
        /\ worker'[w].rows = worker[w].rows
        /\ worker[w].pc = "send" /\ delivery' = delivery
        /\ \A v \in Workers \ {w} : worker'[v] = worker[v]
    BY SendWorker DEF PushTypes, Moved, Push!Send
  <1>2. PICK res \in [Push!Rows -> Push!Outcomes] :
          /\ \A q \in Push!Rows : res[q] \in Push!Tickets => q \in worker[w].token
          /\ accepted' = [q \in Push!Rows |-> accepted[q] + IF res[q] \in Push!Tickets THEN 1 ELSE 0]
          /\ \/ worker'[w].result = res /\ faults' = faults
             \/ faults' = faults + 1
    BY SendWorker DEF PushTypes
  <1>3. Stale(r)' = Stale(r) \ {w}
    <2>1. \A v \in Workers : InTime(v, r)' = InTime(v, r)
      BY <1>1 DEF InTime, Push!Holds
    <2> QED BY <1>1, <2>1 DEF Stale
  <1>4. Ticketed(r) => Ticketed(r)'
    <2>1. ASSUME NEW v \in Workers, Noting(v, r)
          PROVE  Noting(v, r)'
      <3>1. v # w
        BY <1>1, <2>1 DEF Noting
      <3> QED BY <1>1, <2>1, <3>1 DEF Noting, InTime, Push!Holds
    <2> QED BY <1>1, <2>1 DEF Ticketed
  <1>5. Later /\ faults \in Nat /\ faults' \in Nat /\ accepted[r] \in Nat
    BY <1>2 DEF PushTypes, CountsOK, Later
  <1>6. CASE res[r] \notin Push!Tickets
    <2>1. accepted'[r] = accepted[r]
      BY <1>2, <1>5, <1>6
    <2> QED BY <1>3, <1>4, <1>5, <2>1, NothingSent
  <1>7. CASE res[r] \in Push!Tickets
    <2>1. accepted'[r] = accepted[r] + 1 /\ r \in worker[w].token
      BY <1>2, <1>7
    <2>2. /\ IsFiniteSet(Stale(r))
          /\ accepted[r] + Cardinality(Stale(r)) <= faults + IF Ticketed(r) THEN 1 ELSE 0
      BY DEF PaidFor
    <2>3. /\ IsFiniteSet(Stale(r)') /\ Cardinality(Stale(r)') \in Nat /\ Cardinality(Stale(r)) \in Nat
          /\ Cardinality(Stale(r)') = IF w \in Stale(r) THEN Cardinality(Stale(r)) - 1
                                      ELSE Cardinality(Stale(r))
      BY <1>3, <2>2, FS_RemoveElement, FS_CardinalityType
    <2>4. CASE w \in Stale(r)
      <3>1. accepted'[r] + Cardinality(Stale(r)') <= faults' + IF Ticketed(r)' THEN 1 ELSE 0
        BY <1>4, <1>5, <2>1, <2>2, <2>3, <2>4 DEF Later
      <3> QED BY <2>3, <3>1 DEF PaidFor
    <2>5. CASE w \notin Stale(r)
      <3>1. InTime(w, r)
        BY <1>1, <2>1, <2>5 DEF Stale
      <3>2. r \in worker[w].rows
        BY <2>1 DEF PushTypes, WorkersOK
      <3>3. ~Ticketed(r)
        <4>1. delivery[r].ticket = "none"
          BY <1>1, <3>1, <3>2 DEF Sending, Unsent, InTime
        <4>2. ASSUME NEW v \in Workers, Noting(v, r)
              PROVE  FALSE
          <5>1. v = w
            BY <3>1, <4>2, OneHolder DEF Noting, InTime
          <5> QED BY <1>1, <4>2, <5>1 DEF Noting
        <4> QED BY <4>1, <4>2 DEF Ticketed
      <3>4. Ticketed(r)' \/ faults' = faults + 1
        <4>1. InTime(w, r)'
          BY <1>1, <3>1 DEF InTime, Push!Holds
        <4> QED BY <1>1, <1>2, <1>7, <3>2, <4>1 DEF Ticketed, Noting
      <3>5. accepted'[r] + Cardinality(Stale(r)') <= faults' + IF Ticketed(r)' THEN 1 ELSE 0
        BY <1>2, <1>5, <2>1, <2>2, <2>3, <2>5, <3>3, <3>4
      <3> QED BY <2>3, <3>5 DEF PaidFor
    <2> QED BY <2>4, <2>5
  <1> QED BY <1>6, <1>7

LEMMA LapseAccounted ==
  ASSUME Push!ConstantsFit, PushTypes, PushTypes', Sending, NEW q \in Push!Rows, Push!LeaseEnds(q),
         NEW r \in Push!Rows, PaidFor(r)
  PROVE  PaidFor(r)'
  <1>1. /\ worker' = worker /\ accepted' = accepted
        /\ faults' = faults + IF \E w \in Workers : Push!Holds(w, q)
             /\ q \in worker[w].rows THEN 1 ELSE 0
    BY DEF Push!LeaseEnds, Push!Late
  <1>2. Later /\ faults \in Nat /\ faults' \in Nat /\ accepted[r] \in Nat
    BY <1>1 DEF PushTypes, CountsOK, Later
  <1>3. /\ delivery'[r].ticket = delivery[r].ticket /\ delivery'[r].status = delivery[r].status
        /\ delivery'[r].lease = delivery[r].lease
    <2>1. /\ [delivery[r] EXCEPT !.lapsed = TRUE].status = delivery[r].status
          /\ [delivery[r] EXCEPT !.lapsed = TRUE].ticket = delivery[r].ticket
          /\ [delivery[r] EXCEPT !.lapsed = TRUE].lease = delivery[r].lease
      BY DEF PushTypes, DeliveryOK, Delivery, PushRow
    <2> QED BY <2>1, LeaseEndsRow DEF Alike, PushTypes
  <1>4. \A v \in Workers : Push!Holds(v, r)' = Push!Holds(v, r)
    BY <1>3 DEF Push!Holds
  <1>5. CASE r # q
    <2>1. delivery'[r] = delivery[r]
      BY <1>5, LeaseEndsRow DEF PushTypes
    <2>2. Stale(r)' = Stale(r) /\ Ticketed(r)' = Ticketed(r)
      BY <1>1, <2>1 DEF Stale, Ticketed, Noting, InTime, Push!Holds
    <2> QED BY <1>1, <1>2, <2>2, NothingSent
  <1>6. CASE r = q /\ ~\E w \in Workers : Push!Holds(w, q) /\ q \in worker[w].rows
    <2>1. Stale(r)' \subseteq Stale(r)
      BY <1>1, <1>6 DEF Stale, InTime, PushTypes, WorkersOK
    <2>2. Ticketed(r) => Ticketed(r)'
      BY <1>3, <1>6 DEF Ticketed, Noting, InTime
    <2> QED BY <1>1, <1>2, <2>1, <2>2, NothingSent
  <1>7. ASSUME r = q, NEW w \in Workers, Push!Holds(w, q), q \in worker[w].rows
        PROVE  PaidFor(r)'
    <2>1. faults' = faults + 1
      BY <1>1, <1>7
    <2>2. \A v \in Workers \ {w} : ~Push!Holds(v, r)
      BY <1>7, OneHolder
    <2>3. CASE worker[w].pc = "send"
      <3>1. delivery[r].ticket = "none"
        BY <1>7, <2>3 DEF Sending, Unsent
      <3>2. ~Ticketed(r)
        BY <2>2, <2>3, <3>1 DEF Ticketed, Noting, InTime
      <3>3. Stale(r)' \subseteq Stale(r) \cup {w}
        BY <1>1, <2>2 DEF Stale, InTime
      <3>4. /\ IsFiniteSet(Stale(r)) /\ accepted[r] + Cardinality(Stale(r)) <= faults
        BY <1>2, <3>2 DEF PaidFor
      <3>5. /\ IsFiniteSet(Stale(r)') /\ Cardinality(Stale(r)') \in Nat
            /\ Cardinality(Stale(r)) \in Nat /\ Cardinality(Stale(r)') <= Cardinality(Stale(r)) + 1
        BY <3>3, <3>4, OneMore
      <3>6. accepted'[r] + Cardinality(Stale(r)') <= faults' + IF Ticketed(r)' THEN 1 ELSE 0
        BY <1>1, <1>2, <2>1, <3>4, <3>5
      <3> QED BY <3>5, <3>6 DEF PaidFor
    <2>4. CASE worker[w].pc # "send"
      <3>1. Stale(r)' \subseteq Stale(r)
        BY <1>1, <2>2, <2>4 DEF Stale, InTime
      <3> QED BY <1>1, <1>2, <2>1, <3>1, NothingSent
    <2> QED BY <2>3, <2>4
  <1> QED BY <1>5, <1>6, <1>7

LEMMA AccountedStep ==
  ASSUME Push!ConstantsFit, PushTypes, PushTypes', Sending, Accounted, Push!Next \/ Elsewhere
  PROVE  Accounted'
  <1> SUFFICES ASSUME NEW r \in Push!Rows
               PROVE  PaidFor(r)'
    BY DEF Accounted
  <1>0. PaidFor(r) /\ Later
    BY FaultsStep DEF Accounted, Elsewhere, PushTypes, CountsOK
  <1>1. ASSUME NEW q \in Push!Rows, Push!LeaseEnds(q)
        PROVE  PaidFor(r)'
    BY <1>0, <1>1, LapseAccounted
  <1>2. CASE Push!PhoneStep \/ (\E i \in Intents : Push!IntentLeaseEnds(i)) \/ Elsewhere
    <2>1. \A v \in Workers : Undisturbed(v, r)
      BY <1>2, PhoneUndisturbed DEF Elsewhere
    <2>2. accepted' = accepted
      BY <1>2 DEF Push!PhoneStep, Push!IntentLeaseEnds, Elsewhere, push
    <2>3. delivery'[r].ticket = delivery[r].ticket
      BY <1>2, PhoneRow DEF PushTypes, Alike, Push!IntentLeaseEnds, Elsewhere, push
    <2>4. Stale(r)' \subseteq Stale(r)
      BY <2>1 DEF Undisturbed, Stale
    <2>5. Ticketed(r) => Ticketed(r)'
      BY <2>1, <2>3 DEF Undisturbed, Ticketed, Noting
    <2> QED BY <1>0, <2>2, <2>4, <2>5, NothingSent
  <1>3. ASSUME NEW w \in Workers, Push!Send(w)
        PROVE  PaidFor(r)'
    BY <1>0, <1>3, SendAccounted
  <1>4. ASSUME NEW w \in Workers, Push!WorkerStep(w) \/ Push!Die(w), ~Push!Send(w)
        PROVE  PaidFor(r)'
    <2>1. worker'[w].pc = "send" /\ r \in worker'[w].token => InTime(w, r)'
      <3>1. CASE Push!ClaimDeliveries(w)
        <4>1. r \in worker'[w].token => Claimed(r, w)
          BY <3>1, ClaimDeliveriesRow DEF PushTypes
        <4> QED BY <4>1 DEF Claimed, InTime, Push!Holds
      <3>2. CASE Push!ClaimReceipts(w)
        BY <3>2, ClaimReceiptsRow DEF PushTypes
      <3>3. CASE Push!AskReceipts(w)
        BY <3>3, AskReceiptsWorker DEF PushTypes
      <3>4. CASE Push!RecordReceipts(w) \/ Push!RecordTickets(w)
        BY <3>4, RecordReceiptsRow, RecordTicketsRow DEF PushTypes
      <3>5. CASE Push!ClaimIntent(w) \/ Push!RecordIntent(w)
        BY <3>5, IntentWorker DEF PushTypes
      <3>6. CASE Push!FanOut(w)
        BY <3>6, FanOutRow DEF PushTypes
      <3>7. CASE Push!Die(w)
        BY <3>7, IdleIsWorker DEF Push!Die, PushTypes, WorkersOK
      <3> QED BY <1>4, <3>1, <3>2, <3>3, <3>4, <3>5, <3>6, <3>7 DEF Push!WorkerStep
    <2>2. Noting(w, r) => delivery'[r].ticket # "none" \/ faults' > faults
      <3> SUFFICES ASSUME Noting(w, r)
                   PROVE  delivery'[r].ticket # "none" \/ faults' > faults
        OBVIOUS
      <3>1. worker[w].pc = "note tickets"
        BY DEF Noting
      <3>2. CASE Push!RecordTickets(w)
        <4>1. delivery[r] \in PushRow
          BY DEF PushTypes, DeliveryOK, Delivery
        <4>2. Recorded(w, r).ticket \in Push!Tickets
          BY <4>1 DEF Noting, Recorded, PushRow
        <4> QED BY <3>2, <4>2, RecordTicketsRow DEF PushTypes, Noting, InTime, Alike, Push!Tickets
      <3>3. CASE Push!Die(w)
        BY <3>3 DEF Push!Die, PushTypes, CountsOK
      <3>4. ASSUME \/ Push!ClaimReceipts(w) \/ Push!AskReceipts(w) \/ Push!RecordReceipts(w) \/ Push!ClaimIntent(w)
                   \/ Push!FanOut(w) \/ Push!RecordIntent(w) \/ Push!ClaimDeliveries(w)
            PROVE  FALSE
        BY <3>1, <3>4 DEF Push!ClaimReceipts, Push!AskReceipts, Push!RecordReceipts,
           Push!ClaimIntent, Push!FanOut,
                          Push!RecordIntent, Push!ClaimDeliveries
      <3> QED BY <1>4, <3>2, <3>3, <3>4 DEF Push!WorkerStep
    <2> QED BY <1>0, <1>4, <2>1, <2>2, OneStepSends
  <1> QED BY <1>1, <1>2, <1>3, <1>4 DEF Push!Next, Push!Clock, Push!WorkerStep

LEMMA StepPush == ASSUME Push!ConstantsFit, PushInv, Push!Next \/ Elsewhere PROVE PushInv'
  <1>1. PushTypes'
    BY PushTypesStep DEF PushInv
  <1>2. Sending'
    BY SendingStep DEF PushInv, Elsewhere
  <1>3. Accounted'
    BY <1>1, AccountedStep DEF PushInv
  <1> QED BY <1>1, <1>2, <1>3 DEF PushInv

LEMMA AccountsBound == PushInv => Push!ResentOnlyAfterFault
  <1> SUFFICES ASSUME PushInv, NEW r \in Push!Rows
               PROVE  accepted[r] <= 1 + faults
    BY DEF Push!ResentOnlyAfterFault
  <1>1. /\ IsFiniteSet(Stale(r)) /\ accepted[r] \in Nat /\ faults \in Nat
        /\ accepted[r] + Cardinality(Stale(r)) <= faults + IF Ticketed(r) THEN 1 ELSE 0
    BY DEF PushInv, PushTypes, CountsOK, Accounted, PaidFor
  <1>2. Cardinality(Stale(r)) \in Nat
    BY <1>1, FS_CardinalityType
  <1> QED BY <1>1, <1>2

--------------------------------------------------------------------------
(* Rewarded ads                                                             *)

AdStates == {"none", "on", "earned", "answered"}
Ad == [state : AdStates, intent : 0 .. MaxIntents, inTime : BOOLEAN, key : 0 .. MaxKeys]
IntentStates == {"none", "PENDING", "GRANTED", "REJECTED"}
AdsTyped ==
  /\ intent \in [Ads!RewardIntents -> IntentStates]
  /\ live \subseteq Ads!RewardIntents
  /\ ad \in [Ads!Ads -> Ad]
  /\ signing \in 1 .. MaxKeys
  /\ cache \in [keys : SUBSET (1 .. MaxKeys), forced : BOOLEAN]
  /\ sheet \in [pc : {"idle", "ad", "watch", "poll"}, intent : 0 .. MaxIntents, ad : 0 .. MaxAds]
AdsInv == AdsTyped /\ Ads!AtMostOne("PENDING") /\ (once => Ads!AtMostOne("GRANTED"))

LEMMA InitAds == ASSUME Ads!ConstantsFit PROVE Ads!Init => AdsInv
  <1> SUFFICES ASSUME Ads!Init PROVE AdsInv
    OBVIOUS
  <1>1. /\ Ads!NoAd \in Ad /\ 1 \in 1 .. MaxKeys
        /\ Ads!Closed \in [pc : {"idle", "ad", "watch", "poll"}, intent : 0 .. MaxIntents, ad : 0 .. MaxAds]
    BY DEF Ads!ConstantsFit, Ads!NoAd, Ads!Closed, Ad, AdStates
  <1>2. Ads!NoKeys \in [keys : SUBSET (1 .. MaxKeys), forced : BOOLEAN]
    BY DEF Ads!NoKeys
  <1> QED BY <1>1, <1>2 DEF Ads!Init, AdsInv, AdsTyped, Ads!AtMostOne, IntentStates

LEMMA AdsImplyTypeOK == AdsInv => Ads!TypeOK
  <1> SUFFICES ASSUME AdsInv PROVE Ads!TypeOK
    OBVIOUS
  <1>1. cache.keys \subseteq 1 .. MaxKeys /\ live \subseteq Ads!RewardIntents
    BY DEF AdsInv, AdsTyped
  <1>2. intent \in [Ads!RewardIntents -> {"none", "PENDING", "GRANTED", "REJECTED"}]
    BY DEF AdsInv, AdsTyped, IntentStates
  <1>3. ad \in [Ads!Ads -> [state : {"none", "on", "earned", "answered"}, intent : 0 .. MaxIntents,
                           inTime : BOOLEAN, key : 0 .. MaxKeys]]
    BY DEF AdsInv, AdsTyped, Ad, AdStates
  <1> QED BY <1>1, <1>2, <1>3 DEF AdsInv, Ads!TypeOK

(* A new intent takes the place of the one that waited, and is asked for     *)
(* only by whoever may still be granted something.                          *)
LEMMA PressAds == ASSUME Ads!ConstantsFit, AdsInv, Ads!Press PROVE AdsInv'
  <1>1. PICK i \in Ads!RewardIntents :
          /\ \/ Ads!Waiting # {} /\ UNCHANGED <<intent, live>>
             \/ /\ Ads!Waiting = {} /\ intent[i] = "none" /\ live' = live \cup {i}
                /\ intent' = [j \in Ads!RewardIntents |-> IF j = i THEN "PENDING"
                                ELSE IF intent[j] = "PENDING" THEN "REJECTED" ELSE intent[j]]
          /\ \/ sheet' = [Ads!Closed EXCEPT !.pc = "ad", !.intent = i]
             \/ UNCHANGED sheet
          /\ UNCHANGED <<once, eligible, ad, signing, cache>>
    BY DEF Ads!Press
  <1>2. i \in 0 .. MaxIntents /\ 0 \in 0 .. MaxAds
    BY DEF Ads!RewardIntents, Ads!ConstantsFit
  <1>3. sheet' \in [pc : {"idle", "ad", "watch", "poll"}, intent : 0 .. MaxIntents, ad : 0 .. MaxAds]
    BY <1>1, <1>2 DEF Ads!Closed, AdsInv, AdsTyped
  <1>4. intent' \in [Ads!RewardIntents -> IntentStates] /\ live' \subseteq Ads!RewardIntents
    BY <1>1 DEF AdsInv, AdsTyped, IntentStates
  <1>5. Ads!AtMostOne("PENDING")' /\ (once' => Ads!AtMostOne("GRANTED")')
    BY <1>1 DEF AdsInv, Ads!AtMostOne
  <1> QED BY <1>1, <1>3, <1>4, <1>5 DEF AdsInv, AdsTyped

(* A callback settles the intent of its ad and remembers the keys it used.   *)
LEMMA CallbackAds ==
  ASSUME Ads!ConstantsFit, AdsInv, NEW a \in Ads!Ads, Ads!Callback(a) \/ Ads!CallbackFails(a)
  PROVE  AdsInv'
  <1> DEFINE asked == cache.forced \/ Ads!AsksAgain(a)
  <1>1. /\ asked \in BOOLEAN /\ Ads!KeysFor(a) \subseteq 1 .. MaxKeys
        /\ cache.keys \subseteq 1 .. MaxKeys /\ cache.forced \in BOOLEAN
    <2>1. signing \in 1 .. MaxKeys /\ cache.keys \subseteq 1 .. MaxKeys /\ cache.forced \in BOOLEAN
      BY DEF AdsInv, AdsTyped
    <2>2. Ads!Published \subseteq 1 .. MaxKeys
      BY <2>1 DEF Ads!Published, Ads!ConstantsFit
    <2>3. asked \in BOOLEAN
      BY <2>1 DEF Ads!AsksAgain
    <2> QED BY <2>1, <2>2, <2>3 DEF Ads!KeysFor, Ads!Fresh
  <1> HIDE DEF asked
  <1>2. \/ cache' = [keys |-> Ads!KeysFor(a), forced |-> asked]
        \/ cache' = [cache EXCEPT !.forced = asked]
    BY DEF Ads!Callback, Ads!CallbackFails, asked
  <1>3. cache' \in [keys : SUBSET (1 .. MaxKeys), forced : BOOLEAN]
    BY <1>1, <1>2 DEF AdsInv, AdsTyped
  <1>4. UNCHANGED <<once, live, signing, sheet>>
    BY DEF Ads!Callback, Ads!CallbackFails
  <1>5. ad' \in [Ads!Ads -> Ad]
    <2>1. ad' = ad \/ ad' = [ad EXCEPT ![a].state = "answered"]
      BY DEF Ads!Callback, Ads!CallbackFails
    <2> QED BY <2>1 DEF AdsInv, AdsTyped, Ad, AdStates
  <1>6. intent' = intent \/ intent' = Ads!Granted(a)
    BY DEF Ads!Callback, Ads!CallbackFails
  <1>7. CASE intent' = intent
    BY <1>3, <1>4, <1>5, <1>7 DEF AdsInv, AdsTyped, Ads!AtMostOne
  <1>8. CASE intent' = Ads!Granted(a) /\ intent' # intent
    <2> DEFINE i == ad[a].intent
    <2>1. PICK s \in {"GRANTED", "REJECTED"} :
            /\ intent' = [intent EXCEPT ![i] = s]
            /\ intent[i] = "PENDING"
            /\ s = "GRANTED" => Ads!Allowed
      BY <1>8 DEF Ads!Granted
    <2> HIDE DEF i
    <2>2. intent' \in [Ads!RewardIntents -> IntentStates]
      BY <2>1 DEF AdsInv, AdsTyped, IntentStates
    <2>3. Ads!AtMostOne("PENDING")'
      BY <2>1 DEF AdsInv, AdsTyped, Ads!AtMostOne
    <2>4. once' => Ads!AtMostOne("GRANTED")'
      BY <1>4, <2>1 DEF AdsInv, AdsTyped, Ads!AtMostOne, Ads!Allowed
    <2> QED BY <1>3, <1>4, <1>5, <2>2, <2>3, <2>4 DEF AdsInv, AdsTyped
  <1> QED BY <1>6, <1>7, <1>8

LEMMA StepAds ==
  ASSUME Ads!ConstantsFit, AdsInv, Ads!Next \/ UNCHANGED ads
  PROVE  AdsInv'
  <1> USE DEF AdsInv, AdsTyped, Ads!AtMostOne
  <1>1. ASSUME NEW a \in Ads!Ads, Ads!Show(a)
        PROVE  AdsInv'
    <2>0. sheet.intent \in 0 .. MaxIntents /\ 0 \in 0 .. MaxKeys
      BY DEF Ads!ConstantsFit
    <2>1. [Ads!NoAd EXCEPT !.state = "on", !.intent = sheet.intent] \in Ad
      BY <2>0 DEF Ads!NoAd, Ad, AdStates
    <2>2. ad' \in [Ads!Ads -> Ad]
      BY <1>1, <2>1 DEF Ads!Show
    <2>3. a \in 0 .. MaxAds
      BY DEF Ads!Ads, Ads!ConstantsFit
    <2> QED BY <1>1, <2>2, <2>3 DEF Ads!Show
  <1>2. ASSUME NEW a \in Ads!Ads, Ads!Earn(a)
        PROVE  AdsInv'
    <2>0. signing \in 0 .. MaxKeys /\ (ad[a].intent \in live) \in BOOLEAN /\ ad[a] \in Ad
      BY DEF Ads!ConstantsFit
    <2>1. ASSUME NEW b \in BOOLEAN
          PROVE  [ad[a] EXCEPT !.state = "earned", !.inTime = b, !.key = signing] \in Ad
      BY <2>0 DEF Ad, AdStates
    <2>2. ad' \in [Ads!Ads -> Ad]
      BY <1>2, <2>0, <2>1 DEF Ads!Earn
    <2> QED BY <1>2, <2>2 DEF Ads!Earn
  <1>3. CASE Ads!Unlock
    <2>1. Ads!Closed \in [pc : {"idle", "ad", "watch", "poll"}, intent : 0 .. MaxIntents, ad : 0 .. MaxAds]
      BY DEF Ads!ConstantsFit, Ads!Closed
    <2>2. sheet' = Ads!Closed \/ sheet' = [sheet EXCEPT !.pc = "poll"]
      BY <1>3 DEF Ads!Unlock
    <2> QED BY <1>3, <2>1, <2>2 DEF Ads!Unlock
  <1>4. CASE Ads!MinuteOver \/ Ads!CacheEnds
    <2>1. cache' = Ads!NoKeys \/ cache' = [cache EXCEPT !.forced = FALSE]
      BY <1>4 DEF Ads!MinuteOver, Ads!CacheEnds
    <2>2. Ads!NoKeys \in [keys : SUBSET (1 .. MaxKeys), forced : BOOLEAN]
      BY DEF Ads!NoKeys
    <2>3. [cache EXCEPT !.forced = FALSE] \in [keys : SUBSET (1 .. MaxKeys), forced : BOOLEAN]
      OBVIOUS
    <2>4. cache' \in [keys : SUBSET (1 .. MaxKeys), forced : BOOLEAN]
      BY <2>1, <2>2, <2>3
    <2> QED BY <1>4, <2>4 DEF Ads!MinuteOver, Ads!CacheEnds
  <1>5. CASE Ads!Rotates
    BY <1>5 DEF Ads!Rotates, Ads!ConstantsFit
  <1>6. ASSUME NEW i \in Ads!RewardIntents, Ads!Expires(i)
        PROVE  AdsInv'
    BY <1>6 DEF Ads!Expires
  <1>7. CASE Ads!MovesOn \/ UNCHANGED ads
    BY <1>7 DEF Ads!MovesOn, ads
  <1> QED BY <1>1, <1>2, <1>3, <1>4, <1>5, <1>6, <1>7, PressAds, CallbackAds DEF Ads!Next

--------------------------------------------------------------------------
(* The logins of withdrawn accounts                                         *)

Batch(pcs) == [pc : pcs, account : SUBSET Leavers, left : SUBSET Leavers]
ErasureRow == [status : {"none", "PENDING", "LEASED", "PROCESSED"},
              lease : Erasers \cup {Erase!NoOne}, lapsed : BOOLEAN]
EraseInv ==
  /\ login \subseteq Leavers
  /\ erasure \in [Leavers -> ErasureRow]
  /\ \A u \in Leavers : erasure[u].status = "LEASED" <=> erasure[u].lease # Erase!NoOne
  /\ request \in [Requests -> Batch({"idle", "delete", "mark"})]
  /\ eraser \in [Erasers -> Batch({"idle", "next", "complete", "retry"})]

LEMMA EraseImpliesTypeOK == EraseInv => Erase!TypeOK
  BY DEF EraseInv, Erase!TypeOK, ErasureRow

LEMMA InitErase == Erase!Init => EraseInv
  BY DEF Erase!Init, EraseInv, ErasureRow, Batch, Erase!NoRow, Erase!Idle, Erase!NoOne

LEMMA StepErase ==
  ASSUME Erase!ConstantsFit, EraseInv, Erase!Next \/ UNCHANGED erase
  PROVE  EraseInv'
  <1>r. ASSUME NEW s \in {"PENDING", "PROCESSED"}
        PROVE  /\ Erase!Row(s) \in ErasureRow /\ Erase!Row(s).status # "LEASED"
               /\ Erase!Row(s).lease = Erase!NoOne
    BY DEF Erase!Row, Erase!NoRow, ErasureRow
  <1>i. /\ Erase!Idle \in Batch({"idle", "delete", "mark"})
        /\ Erase!Idle \in Batch({"idle", "next", "complete", "retry"})
    BY DEF Erase!Idle, Batch
  <1>b. ASSUME NEW p \in {"next", "complete", "retry"}, NEW us \in SUBSET Leavers, NEW vs \in SUBSET Leavers
        PROVE  [pc |-> p, account |-> us, left |-> vs] \in Batch({"idle", "next", "complete", "retry"})
    BY DEF Batch
  <1>w. ASSUME NEW w \in Erasers
        PROVE  eraser[w].account \subseteq Leavers /\ eraser[w].left \subseteq Leavers
    BY DEF EraseInv, Batch
  <1>1. ASSUME NEW r \in Requests, NEW u \in Leavers, Erase!Withdraw(r, u)
        PROVE  EraseInv'
    <2>1. request' \in [Requests -> Batch({"idle", "delete", "mark"})]
      BY <1>1 DEF Erase!Withdraw, Erase!Idle, EraseInv, Batch
    <2> QED BY <1>1, <1>r, <2>1 DEF Erase!Withdraw, EraseInv
  <1>2. ASSUME NEW r \in Requests, Erase!DeleteAtOnce(r) \/ Erase!RequestFails(r)
        PROVE  EraseInv'
    <2>1. request' \in [Requests -> Batch({"idle", "delete", "mark"})]
      BY <1>2, <1>i DEF Erase!DeleteAtOnce, Erase!RequestFails, EraseInv, Batch
    <2>2. login' \subseteq Leavers /\ UNCHANGED <<erasure, eraser>>
      BY <1>2 DEF Erase!DeleteAtOnce, Erase!RequestFails, Erase!Deleted, EraseInv
    <2> QED BY <2>1, <2>2 DEF EraseInv
  <1>3. ASSUME NEW r \in Requests, Erase!MarkAtOnce(r)
        PROVE  EraseInv'
    <2>1. request' \in [Requests -> Batch({"idle", "delete", "mark"})]
      BY <1>3, <1>i DEF Erase!MarkAtOnce, EraseInv
    <2>2. UNCHANGED <<login, eraser>>
      BY <1>3 DEF Erase!MarkAtOnce
    <2> QED BY <1>3, <1>r, <2>1, <2>2 DEF Erase!MarkAtOnce, EraseInv
  <1>4. ASSUME NEW w \in Erasers, Erase!Claim(w)
        PROVE  EraseInv'
    <2> DEFINE new == [Erase!Row("LEASED") EXCEPT !.lease = w]
    <2>1. new \in ErasureRow /\ new.status = "LEASED" /\ new.lease = w /\ w # Erase!NoOne
      BY DEF Erase!Row, Erase!NoRow, ErasureRow, Erase!ConstantsFit
    <2> HIDE DEF new
    <2>2. PICK due \in SUBSET Leavers :
            /\ erasure' = [u \in Leavers |-> IF u \in due THEN new ELSE erasure[u]]
            /\ eraser' = [eraser EXCEPT ![w] = [Erase!Idle EXCEPT !.pc = "next", !.left = due]]
      BY <1>4 DEF Erase!Claim, new
    <2>3. eraser' \in [Erasers -> Batch({"idle", "next", "complete", "retry"})]
      BY <2>2 DEF Erase!Idle, EraseInv, Batch
    <2>4. UNCHANGED <<login, request>>
      BY <1>4 DEF Erase!Claim
    <2> QED BY <2>1, <2>2, <2>3, <2>4 DEF EraseInv
  <1>d. ASSUME NEW w \in Erasers, Erase!Done(w)
        PROVE  eraser' \in [Erasers -> Batch({"idle", "next", "complete", "retry"})]
    <2>1. eraser[w] \in Batch({"idle", "next", "complete", "retry"})
      BY DEF EraseInv
    <2>2. [eraser[w] EXCEPT !.pc = "next", !.account = {}] \in Batch({"idle", "next", "complete", "retry"})
      BY <2>1 DEF Batch
    <2> QED BY <1>d, <1>i, <2>2 DEF Erase!Done, EraseInv
  <1>m. ASSUME NEW w \in Erasers, Erase!Move(w, "retry")
        PROVE  eraser' \in [Erasers -> Batch({"idle", "next", "complete", "retry"})]
    BY <1>m DEF Erase!Move, EraseInv, Batch
  <1>5. ASSUME NEW w \in Erasers, NEW u \in Leavers, Erase!Delete(w, u)
        PROVE  EraseInv'
    <2>1. eraser' \in [Erasers -> Batch({"idle", "next", "complete", "retry"})]
      <3>1. PICK p \in {"complete", "retry"} :
              eraser' = [eraser EXCEPT ![w] = [pc |-> p, account |-> {u}, left |-> eraser[w].left \ {u}]]
        BY <1>5 DEF Erase!Delete
      <3>2. {u} \in SUBSET Leavers /\ eraser[w].left \ {u} \in SUBSET Leavers
        BY <1>w
      <3> QED BY <1>b, <3>1, <3>2 DEF EraseInv
    <2>2. login' \subseteq Leavers /\ UNCHANGED <<erasure, request>>
      BY <1>5 DEF Erase!Delete, Erase!Deleted, EraseInv
    <2> QED BY <2>1, <2>2 DEF EraseInv
  <1>6. ASSUME NEW w \in Erasers, Erase!Complete(w) \/ Erase!Retry(w)
        PROVE  EraseInv'
    <2>1. eraser' \in [Erasers -> Batch({"idle", "next", "complete", "retry"})]
      BY <1>6, <1>d, <1>m DEF Erase!Complete, Erase!Retry
    <2>2. PICK u \in Leavers, s \in {"PENDING", "PROCESSED"} :
            erasure' = erasure \/ erasure' = [erasure EXCEPT ![u] = Erase!Row(s)]
      BY <1>6, <1>w DEF Erase!Complete, Erase!Retry
    <2>3. UNCHANGED <<login, request>>
      BY <1>6 DEF Erase!Complete, Erase!Retry
    <2> QED BY <1>r, <2>1, <2>2, <2>3 DEF EraseInv
  <1>7. ASSUME NEW w \in Erasers, Erase!WorkerEnds(w)
        PROVE  EraseInv'
    BY <1>7, <1>i DEF Erase!WorkerEnds, EraseInv
  <1>8. ASSUME NEW u \in Leavers, Erase!LeaseEnds(u)
        PROVE  EraseInv'
    <2>1. /\ erasure' = [erasure EXCEPT ![u].lapsed = TRUE] /\ UNCHANGED <<login, request, eraser>>
      BY <1>8 DEF Erase!LeaseEnds
    <2>2. erasure' \in [Leavers -> ErasureRow]
      BY <2>1 DEF EraseInv, ErasureRow
    <2> QED BY <2>1, <2>2 DEF EraseInv, ErasureRow
  <1>9. CASE UNCHANGED erase
    BY <1>9 DEF EraseInv, erase
  <1> QED BY <1>1, <1>2, <1>3, <1>4, <1>5, <1>6, <1>7, <1>8, <1>9
          DEF Erase!Next, Erase!RequestStep, Erase!WorkerStep

--------------------------------------------------------------------------
(* The services together                                                    *)

IInv == PushInv /\ Photo!IInv /\ Shop!IInv /\ AdsInv /\ EraseInv /\ Tx!IInv

LEMMA InitIInv == Init => IInv
  <1> SUFFICES ASSUME Init PROVE IInv
    OBVIOUS
  <1>1. /\ Push!ConstantsFit /\ Photo!ConstantsFit /\ Shop!ConstantsFit
        /\ Ads!ConstantsFit /\ Tx!ConstantsFit
    BY ServiceConstants DEF ServiceConstants
  <1>2. Push!Init /\ Photo!Init /\ Shop!Init /\ Ads!Init /\ Erase!Init /\ Tx!Init
    BY DEF Init
  <1>3. PushInv
    BY <1>1, <1>2, InitPush
  <1>4. Photo!IInv
    BY <1>1, <1>2, Photo!InitIInv
  <1>5. Shop!IInv
    BY <1>1, <1>2, Shop!InitIInv
  <1>6. Tx!IInv
    BY <1>1, <1>2, Tx!InitIInv
  <1> QED BY <1>1, <1>2, <1>3, <1>4, <1>5, <1>6, InitAds, InitErase DEF IInv

(* The faults are counted by all services: no step of one takes a fault of   *)
(* another back.                                                            *)
LEMMA SharedFaults ==
  ASSUME Photo!Next \/ Shop!Next \/ Ads!Next \/ Erase!Next
  PROVE  faults' = faults \/ faults' = faults + 1
  <1>1. CASE Photo!Next
    BY <1>1, Photo!FaultsStep
  <1>2. CASE Shop!Next
    BY <1>2, Shop!FaultsStep
  <1>3. CASE Ads!Next
    <2>1. ASSUME NEW a \in Ads!Ads, Ads!Callback(a) \/ Ads!CallbackFails(a)
          PROVE  faults' = faults \/ faults' = faults + 1
      BY <2>1 DEF Ads!Callback, Ads!CallbackFails, Ads!Fault
    <2>2. ASSUME NEW a \in Ads!Ads, Ads!Show(a) \/ Ads!Earn(a)
          PROVE  faults' = faults
      BY <2>2 DEF Ads!Show, Ads!Earn
    <2>3. ASSUME \/ Ads!MinuteOver \/ Ads!CacheEnds \/ Ads!Rotates \/ Ads!MovesOn
                 \/ \E i \in Ads!RewardIntents : Ads!Expires(i)
          PROVE  faults' = faults
      BY <2>3 DEF Ads!MinuteOver, Ads!CacheEnds, Ads!Rotates, Ads!MovesOn, Ads!Expires
    <2>4. ASSUME Ads!Press \/ Ads!Unlock
          PROVE  faults' = faults \/ faults' = faults + 1
      BY <2>4 DEF Ads!Press, Ads!Unlock, Ads!Fault
    <2> QED BY <1>3, <2>1, <2>2, <2>3, <2>4 DEF Ads!Next
  <1>4. CASE Erase!Next
    <2>1. ASSUME NEW r \in Requests,
                 \/ Erase!DeleteAtOnce(r) \/ Erase!MarkAtOnce(r)
                 \/ \E u \in Leavers : Erase!Withdraw(r, u)
          PROVE  faults' = faults
      BY <2>1 DEF Erase!DeleteAtOnce, Erase!MarkAtOnce, Erase!Withdraw
    <2>2. ASSUME NEW w \in Erasers, Erase!Claim(w) \/ Erase!Retry(w)
          PROVE  faults' = faults
      BY <2>2 DEF Erase!Claim, Erase!Retry
    <2>3. ASSUME NEW w \in Erasers,
                 Erase!Complete(w) \/ Erase!WorkerEnds(w) \/ \E u \in Leavers : Erase!Delete(w, u)
          PROVE  faults' = faults \/ faults' = faults + 1
      BY <2>3 DEF Erase!Complete, Erase!WorkerEnds, Erase!Delete, Erase!Fault
    <2>4. ASSUME NEW r \in Requests, Erase!RequestFails(r)
          PROVE  faults' = faults + 1
      BY <2>4 DEF Erase!RequestFails, Erase!Fault
    <2>5. ASSUME NEW u \in Leavers, Erase!LeaseEnds(u)
          PROVE  faults' = faults \/ faults' = faults + 1
      BY <2>5 DEF Erase!LeaseEnds, Erase!Fault
    <2> QED BY <1>4, <2>1, <2>2, <2>3, <2>4, <2>5
            DEF Erase!Next, Erase!RequestStep, Erase!WorkerStep
  <1> QED BY <1>1, <1>2, <1>3, <1>4

(* A step of the services is a step of one of them and leaves the tables of  *)
(* the others alone.                                                        *)
Apart == /\ Push!Next \/ Elsewhere
         /\ Photo!Next \/ UNCHANGED Photo!Tables
         /\ Shop!Next \/ UNCHANGED Shop!Tables
         /\ Ads!Next \/ UNCHANGED ads
         /\ Erase!Next \/ UNCHANGED erase
         /\ [Tx!Next]_Tx!vars

LEMMA StepsApart == ASSUME IInv, [Next]_vars PROVE Apart
  <1>t. faults \in Nat
    BY DEF IInv, PushInv, PushTypes, CountsOK
  <1>0. ASSUME UNCHANGED push, faults' = faults \/ faults' = faults + 1
        PROVE  Elsewhere
    BY <1>t, <1>0 DEF push, Elsewhere, Later
  <1>1. UNCHANGED photo => UNCHANGED Photo!Tables
    BY DEF photo, Photo!Tables, Photo!photos, Photo!life
  <1>2. UNCHANGED shop => UNCHANGED Shop!Tables
    BY DEF shop, Shop!Tables
  <1>3. UNCHANGED tx => UNCHANGED Tx!vars
    BY DEF tx, Tx!vars, Tx!tables, Tx!locks
  <1>4. CASE Push!Next /\ UNCHANGED <<photo, shop, ads, erase, tx>>
    BY <1>1, <1>2, <1>3, <1>4 DEF Apart
  <1>5. CASE Photo!Next /\ UNCHANGED <<push, shop, ads, erase, tx>>
    BY <1>0, <1>2, <1>3, <1>5, SharedFaults DEF Apart
  <1>6. CASE Shop!Next /\ UNCHANGED <<push, photo, ads, erase, tx>>
    BY <1>0, <1>1, <1>3, <1>6, SharedFaults DEF Apart
  <1>7. CASE Ads!Next /\ UNCHANGED <<push, photo, shop, erase, tx>>
    BY <1>0, <1>1, <1>2, <1>3, <1>7, SharedFaults DEF Apart
  <1>8. CASE Erase!Next /\ UNCHANGED <<push, photo, shop, ads, tx>>
    BY <1>0, <1>1, <1>2, <1>3, <1>8, SharedFaults DEF Apart
  <1>9. CASE Tx!Next /\ UNCHANGED <<faults, push, photo, shop, ads, erase>>
    BY <1>0, <1>1, <1>2, <1>9 DEF Apart
  <1>10. CASE UNCHANGED vars
    BY <1>0, <1>1, <1>2, <1>3, <1>10 DEF Apart, vars
  <1> QED BY <1>4, <1>5, <1>6, <1>7, <1>8, <1>9, <1>10 DEF Next

LEMMA StepIInv == ASSUME IInv, [Next]_vars PROVE IInv'
  <1>0. /\ Push!ConstantsFit /\ Photo!ConstantsFit /\ Shop!ConstantsFit
        /\ Ads!ConstantsFit /\ Erase!ConstantsFit /\ Tx!ConstantsFit
    BY ServiceConstants DEF ServiceConstants
  <1>1. Apart /\ PushInv /\ Photo!IInv /\ Shop!IInv /\ AdsInv /\ EraseInv /\ Tx!IInv
    BY StepsApart DEF IInv
  <1>2. PushInv'
    BY <1>0, <1>1, StepPush DEF Apart
  <1>3. Photo!IInv'
    BY <1>0, <1>1, Photo!StepIInv DEF Apart
  <1>4. Shop!IInv'
    BY <1>0, <1>1, Shop!StepIInv DEF Apart
  <1>5. Tx!IInv'
    BY <1>0, <1>1, Tx!StepIInv DEF Apart
  <1>6. AdsInv' /\ EraseInv'
    BY <1>0, <1>1, StepAds, StepErase DEF Apart
  <1> QED BY <1>2, <1>3, <1>4, <1>5, <1>6 DEF IInv

(* Every service keeps its own invariant, whichever moves.                   *)
THEOREM Inductive == Spec => []IInv
  BY InitIInv, StepIInv, PTL DEF Spec

(* Every table, lock and piece of memory of the services has its type.       *)
THEOREM TypeCorrect == Spec => []TypeOK
  <1>1. IInv => TypeOK
    BY PushImpliesTypeOK, Photo!TypesImplyTypeOK, Shop!TypesImplyTypeOK, Tx!TypesImplyTypeOK,
       AdsImplyTypeOK, EraseImpliesTypeOK
       DEF IInv, PushInv, Photo!IInv, Shop!IInv, Tx!IInv, TypeOK
  <1> QED BY Inductive, <1>1, PTL

(* Expo accepts a message once more only for a fault each time.              *)
THEOREM ResentForAFault == Spec => []ResentOnlyAfterFault
  <1>1. IInv => ResentOnlyAfterFault
    BY AccountsBound DEF IInv, ResentOnlyAfterFault
  <1> QED BY Inductive, <1>1, PTL

(* A record somebody has bought permanent access to is never erased.         *)
THEOREM PaidIsKept == Spec => []PaidRecordKept
  <1>1. IInv => PaidRecordKept
    BY DEF IInv, Photo!IInv, PaidRecordKept
  <1> QED BY Inductive, <1>1, PTL

(* Tickets and outcomes of a push message stay, whoever still holds an old   *)
(* lease.                                                                   *)
THEOREM SettledIsFinal == Spec => SettledStays
  <1>1. IInv /\ [Next]_vars => [\A r \in Push!Rows : SettledRow(r)]_Push!vars
    <2> SUFFICES ASSUME IInv, [Next]_vars, NEW r \in Push!Rows
                 PROVE  SettledRow(r)
      OBVIOUS
    <2>1. Push!Next \/ UNCHANGED push
      BY StepsApart DEF Apart, Elsewhere
    <2> QED BY <2>1, ServiceConstants, StepSettled DEF ServiceConstants, IInv, PushInv
  <1> QED BY Inductive, <1>1, PTL DEF Spec, SettledStays, Push!SettledStays, SettledRow

(* A worker never deletes the token of a phone that belongs to another       *)
(* account by now.                                                          *)
THEOREM OthersTokensKept == Spec => TokenOfOthersKept
  <1>1. IInv /\ [Next]_vars => [OthersKeep]_Push!vars
    <2> SUFFICES ASSUME IInv, [Next]_vars
                 PROVE  OthersKeep
      OBVIOUS
    <2>1. Push!Next \/ UNCHANGED push
      BY StepsApart DEF Apart, Elsewhere
    <2> QED BY <2>1, StepOthersKeep
  <1> QED BY Inductive, <1>1, PTL DEF Spec, TokenOfOthersKept, Push!TokenOfOthersKept, OthersKeep

(* What the calls commit moves along the transition table of a promise,      *)
(* however many devices and answers interleave.                             *)
THEOREM TableImplemented == Spec => ImplementsLifecycle
  <1>1. Init => Tx!PL!Init
    BY DEF Init, Tx!Init, Tx!PL!Init, Tx!Rows, Tx!NoRow, Tx!Gone, Tx!PL!NoRow
  <1>2. IInv /\ [Next]_vars => [Tx!PL!Step]_Tx!Rows
    BY StepsApart, ServiceConstants, Tx!StepFollows DEF ServiceConstants, Apart, IInv
  <1> QED BY <1>1, <1>2, Inductive, PTL DEF Spec, ImplementsLifecycle, Tx!ImplementsLifecycle, Tx!PL!Spec

(* With one device of the creator and any number of answers: what is kept     *)
(* about the links, the texts and the locks is inductive.                    *)
LEMMA OneDevice ==
  ASSUME NEW d \in Phones, Phones = {d}
  PROVE  Spec => [](IInv /\ Tx!AloneInv)
  <1>0. Tx!ConstantsFit
    BY ServiceConstants DEF ServiceConstants
  <1>1. Init => Tx!AloneInv
    BY <1>0, Tx!InitAlone DEF Init
  <1>2. IInv /\ Tx!AloneInv /\ [Next]_vars => Tx!AloneInv'
    BY <1>0, StepsApart, Tx!StepAlone DEF Apart, IInv
  <1> QED BY <1>1, <1>2, Inductive, PTL DEF Spec

(* With one device of the creator, nothing is sealed but the text the        *)
(* promise holds, however many answers lock, wait and commit.               *)
THEOREM OneSealedText ==
  ASSUME NEW d \in Phones, Phones = {d} PROVE Spec => []SealedIsText
  <1>1. Tx!AloneInv => SealedIsText
    BY DEF Tx!AloneInv, SealedIsText
  <1> QED BY <1>1, OneDevice, PTL

(* With one device of the creator, two links of a promise are never out.     *)
THEOREM OneLinkOut ==
  ASSUME NEW d \in Phones, Phones = {d} PROVE Spec => []Tx!OneLiveLink
  <1>1. Tx!AloneInv => Tx!OneLiveLink
    BY ServiceConstants, Tx!AloneMeansOneLink DEF ServiceConstants
  <1> QED BY <1>1, OneDevice, PTL

(* With one device of the creator, no group of calls waits for each other.   *)
THEOREM NoDeadlock ==
  ASSUME NEW d \in Phones, Phones = {d} PROVE Spec => []NoWaitCycle
  <1>1. IInv /\ Tx!AloneInv => NoWaitCycle
    BY ServiceConstants, Tx!AloneMeansNoCycle DEF ServiceConstants, IInv, NoWaitCycle
  <1> QED BY <1>1, OneDevice, PTL
=============================================================================
