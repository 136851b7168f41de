------------------------ MODULE StorePurchasesProofs ------------------------
(* Theorems about StorePurchases for every number of purchases, accounts,     *)
(* promises, calls, days and faults.  The lemmas about one step hold of every *)
(* step that leaves the tables of this component alone, too, so that a system *)
(* it is a part of may cite them.                                            *)
EXTENDS StorePurchases, TLAPS

Purchase == [state : {"none", "pending", "paid", "refunded"}, goods : Goods,
             account : Accounts \cup {NoUser}, spent : BOOLEAN, age : 0 .. Window]
Row  == [user : Accounts \cup {NoUser}, goods : Goods]
Task == [pc : {"idle", "listen", "next", "verify", "consume"}, goods : Goods,
         left : SUBSET Purchases, token : SUBSET Purchases]
Call == [pc : {"idle", "ask", "grant", "granted", "refused"}, task : Tasks \cup {"none"},
         token : SUBSET Purchases, user : Accounts \cup {NoUser}, goods : Goods, old : BOOLEAN]

StoreOK == store \in [Purchases -> Purchase]
RowsOK  == /\ row \in [Purchases -> Row] /\ revoked \subseteq Purchases
           /\ \A x \in revoked : row[x] # NoRow
           /\ run \in [pc : {"due", "revoke", "done"}, left : SUBSET Purchases]
AppOK   == actor \in Accounts /\ task \in [Tasks -> Task] /\ calls \in [Calls -> Call]
Types == StoreOK /\ RowsOK /\ AppOK

(* What was paid for stands in the table, for who paid.                      *)
Right(x) == row[x] # NoRow /\ row[x] = [user |-> store[x].account, goods |-> store[x].goods]
SpentRight == \A x \in Purchases : store[x].spent => Right(x)

(* What is written, and what a call is about to write, is of a purchase that  *)
(* was made, for the account that made it.                                   *)
Begun(x) == store[x].state # "none"
Fitting(call, x) == /\ Begun(x) /\ store[x].account = call.user
                    /\ IF call.goods = Slot THEN store[x].goods = Slot
                       ELSE store[x].goods \in {call.goods, Slot}
Written == \A x \in Purchases : row[x] # NoRow => Begun(x)
CallFits(c) == /\ calls[c].pc \in {"ask", "grant", "granted"} => calls[c].user \in Accounts
               /\ \A x, y \in calls[c].token : x = y
               /\ \A x \in calls[c].token :
                    /\ calls[c].pc \in {"grant", "granted"} => Fitting(calls[c], x)
                    /\ calls[c].pc = "granted" => Right(x)
CallsFit == \A c \in Calls : CallFits(c)

(* A task waits for one call, about the purchase the task is about.           *)
Waiting(c) == calls[c].task # "none" => /\ task[calls[c].task].pc = "verify"
                                        /\ calls[c].token = task[calls[c].task].token
OneCall == \A c, d \in Calls : calls[c].task = calls[d].task /\ c # d => calls[c].task = "none"
TasksFit == /\ \A c \in Calls : Waiting(c)
            /\ OneCall
            /\ \A t \in Tasks : task[t].pc = "consume" => \A x \in task[t].token : Right(x)

IInv == Types /\ Written /\ CallsFit /\ TasksFit /\ SpentRight

Tables == <<store, row, revoked, actor, task, calls, run>>
--------------------------------------------------------------------------
LEMMA Nothing ==
  ConstantsFit => /\ NoStore \in Purchase /\ NoStore.state = "none" /\ ~NoStore.spent
                  /\ NoRow \in Row /\ NoTask \in Task /\ NoTask.pc = "idle" /\ NoTask.goods = Slot
                  /\ NoCall \in Call /\ NoCall.pc = "idle" /\ NoCall.task = "none"
                  /\ NoCall.token = {}
  BY DEF ConstantsFit, NoStore, Purchase, NoRow, Row, NoTask, Task, NoCall, Call, Goods, Tasks

LEMMA InitIInv == ASSUME ConstantsFit PROVE Init => IInv
  <1> SUFFICES ASSUME Init PROVE IInv
    OBVIOUS
  <1>1. Types
    BY Nothing DEF Init, Types, StoreOK, RowsOK, AppOK, NoRun
  <1>2. Written /\ SpentRight
    BY Nothing DEF Init, Written, SpentRight
  <1>3. CallsFit
    BY Nothing DEF Init, CallsFit, CallFits
  <1>4. TasksFit
    BY Nothing DEF Init, TasksFit, Waiting, OneCall
  <1> QED BY <1>1, <1>2, <1>3, <1>4 DEF IInv

LEMMA TypesImplyTypeOK == Types => TypeOK
  BY DEF Types, StoreOK, RowsOK, AppOK, TypeOK, Purchase, Row
--------------------------------------------------------------------------
(* Types                                                                     *)

(* What becomes of a purchase in a step: its account and goods stand once it  *)
(* is begun, and it is consumed only by a task that got its answer.          *)
Kept(x) == /\ Begun(x) => /\ Begun(x)' /\ store'[x].account = store[x].account
                          /\ store'[x].goods = store[x].goods
           /\ store'[x].spent => \/ store[x].spent
                                 \/ \E t \in Tasks : task[t].pc = "consume" /\ x \in task[t].token

LEMMA StoreStep ==
  ASSUME ConstantsFit, Types, Next \/ UNCHANGED Tables
  PROVE  StoreOK' /\ \A x \in Purchases : Kept(x)
  <1> USE DEF Types
  <1>0. ASSUME NEW y \in Purchases, NEW new \in Purchase, store' = [store EXCEPT ![y] = new],
               store[y].state # "none" => /\ new.state # "none" /\ new.account = store[y].account
                                          /\ new.goods = store[y].goods,
               new.spent => \/ store[y].spent
                            \/ \E t \in Tasks : task[t].pc = "consume" /\ y \in task[t].token
        PROVE  StoreOK' /\ \A x \in Purchases : Kept(x)
    BY <1>0 DEF StoreOK, Kept, Begun
  <1>1. ASSUME NEW g \in Goods, Buy(g)
        PROVE  StoreOK' /\ \A x \in Purchases : Kept(x)
    <2>1. PICK y \in Purchases, s \in {"paid", "pending"} :
            /\ store[y].state = "none"
            /\ store' = [store EXCEPT ![y] = [store[y] EXCEPT !.state = s, !.goods = g, !.account = actor]]
      BY <1>1 DEF Buy
    <2> DEFINE new == [store[y] EXCEPT !.state = s, !.goods = g, !.account = actor]
    <2>2. new \in Purchase /\ new.spent = store[y].spent
      BY DEF StoreOK, AppOK, Purchase
    <2>3. store' = [store EXCEPT ![y] = new]
      BY <2>1
    <2> HIDE DEF new
    <2> QED BY <1>0, <2>1, <2>2, <2>3
  <1>2. ASSUME NEW y \in Purchases, NEW s \in {"paid", "refunded"}, store[y].state \in {"pending", "paid"},
               store' = [store EXCEPT ![y].state = s]
        PROVE  StoreOK' /\ \A x \in Purchases : Kept(x)
    <2> DEFINE new == [store[y] EXCEPT !.state = s]
    <2>1. /\ new \in Purchase /\ new.spent = store[y].spent /\ new.state # "none"
          /\ new.account = store[y].account /\ new.goods = store[y].goods
      BY DEF StoreOK, Purchase
    <2>2. store' = [store EXCEPT ![y] = new]
      BY <1>2
    <2> HIDE DEF new
    <2> QED BY <1>0, <2>1, <2>2
  <1>3. ASSUME NEW y \in Purchases, Paid(y) \/ Refund(y)
        PROVE  StoreOK' /\ \A x \in Purchases : Kept(x)
    BY <1>2, <1>3 DEF Paid, Refund
  <1>4. ASSUME NEW t \in Tasks, Consume(t)
        PROVE  StoreOK' /\ \A x \in Purchases : Kept(x)
    <2>1. PICK y \in task[t].token :
            store' = [store EXCEPT ![y].spent = store[y].spent \/ store[y].state = "paid"]
      BY <1>4 DEF Consume
    <2>2. y \in Purchases /\ task[t].pc = "consume"
      BY <1>4 DEF AppOK, Task, Consume
    <2> DEFINE new == [store[y] EXCEPT !.spent = store[y].spent \/ store[y].state = "paid"]
    <2>3. (store[y].spent \/ store[y].state = "paid") \in BOOLEAN
      OBVIOUS
    <2>4. new \in Purchase
      BY <2>2, <2>3 DEF StoreOK, Purchase
    <2>5. new.state = store[y].state /\ new.account = store[y].account /\ new.goods = store[y].goods
      BY <2>2 DEF StoreOK, Purchase
    <2>6. store' = [store EXCEPT ![y] = new]
      BY <2>1
    <2> HIDE DEF new
    <2> QED BY <1>0, <2>1, <2>2, <2>4, <2>5, <2>6
  <1>5. CASE NextDay
    <2>1. store' = [x \in Purchases |-> IF store[x].state = "refunded" /\ store[x].age < Window
                                        THEN [store[x] EXCEPT !.age = store[x].age + 1] ELSE store[x]]
      BY <1>5 DEF NextDay
    <2>2. ASSUME NEW x \in Purchases
          PROVE  /\ store'[x] \in Purchase /\ store'[x].spent = store[x].spent
                 /\ store'[x].state = store[x].state /\ store'[x].account = store[x].account
                 /\ store'[x].goods = store[x].goods
      <3>1. store[x] \in Purchase
        BY DEF StoreOK
      <3>2. CASE store[x].state = "refunded" /\ store[x].age < Window
        <4> DEFINE new == [store[x] EXCEPT !.age = store[x].age + 1]
        <4>1. store[x].age + 1 \in 0 .. Window
          BY <3>1, <3>2 DEF Purchase, ConstantsFit
        <4>2. /\ new \in Purchase /\ new.spent = store[x].spent /\ new.state = store[x].state
              /\ new.account = store[x].account /\ new.goods = store[x].goods
          BY <3>1, <4>1 DEF Purchase
        <4>3. store'[x] = new
          BY <2>1, <3>2
        <4> QED BY <4>2, <4>3
      <3>3. CASE ~(store[x].state = "refunded" /\ store[x].age < Window)
        BY <2>1, <3>1, <3>3
      <3> QED BY <3>2, <3>3
    <2> QED BY <2>1, <2>2 DEF StoreOK, Kept, Begun
  <1>6. CASE UNCHANGED store
    BY <1>6 DEF StoreOK, Kept, Begun
  <1>7. ASSUME NEW x \in Purchases, Heard(x) \/ Recover(x) \/ ReconcileRevoke(x)
        PROVE  UNCHANGED store
    BY <1>7 DEF Heard, Recover, Verify, ReconcileRevoke
  <1>8. ASSUME NEW c \in Calls, Server(c)
        PROVE  UNCHANGED store
    BY <1>8 DEF Server, Ask, Grant, Answered
  <1>9. ASSUME \/ \E g \in Goods : OpenSheet(g)
               \/ GiveUp \/ (\E t \in Tasks : Disturbed(t)) \/ AppEnds
               \/ (\E u \in Accounts : SignIn(u)) \/ ReconcileList \/ ReconcileEnds
               \/ UNCHANGED Tables
        PROVE  UNCHANGED store
    BY <1>9 DEF OpenSheet, GiveUp, Disturbed, AppEnds, SignIn, ReconcileList, ReconcileEnds, Tables
  <1> QED BY <1>1, <1>3, <1>4, <1>5, <1>6, <1>7, <1>8, <1>9 DEF Next, Reconcile

(* A row of slot_purchases is written once, by a call that Google's answer    *)
(* fitted; it is what was paid for when the call is told so.                 *)
Granting(c, x) == /\ calls[c].pc = "grant" /\ x \in calls[c].token
                  /\ row'[x] = [user |-> calls[c].user, goods |-> Bought(calls[c], x)]
RowKept(x) == /\ row[x] # NoRow => row'[x] = row[x]
              /\ row'[x] = row[x] \/ \E c \in Calls : Granting(c, x)

LEMMA RowStep ==
  ASSUME ConstantsFit, Types, Next \/ UNCHANGED Tables
  PROVE  RowsOK' /\ \A x \in Purchases : RowKept(x)
  <1> USE DEF Types
  <1>1. ASSUME NEW c \in Calls, Grant(c)
        PROVE  RowsOK' /\ \A x \in Purchases : RowKept(x)
    <2>1. PICK y \in calls[c].token :
            /\ calls[c].pc = "grant"
            /\ \/ row' = [row EXCEPT ![y] = IF row[y] = NoRow
                                            THEN [user |-> calls[c].user, goods |-> Bought(calls[c], y)]
                                            ELSE row[y]]
               \/ UNCHANGED row
            /\ revoked' = revoked /\ run' = run
      BY <1>1 DEF Grant
    <2>2. y \in Purchases /\ calls[c] \in Call
      BY DEF AppOK, Call
    <2> DEFINE new == [user |-> calls[c].user, goods |-> Bought(calls[c], y)]
               written == IF row[y] = NoRow THEN new ELSE row[y]
    <2>3. new \in Row
      BY <2>2 DEF Row, Call, Bought, Goods
    <2>4. row' = [row EXCEPT ![y] = written] \/ row' = row
      BY <2>1
    <2>5. written \in Row /\ (row[y] # NoRow => written = row[y]) /\ (row[y] = NoRow => written = new)
      BY <2>2, <2>3 DEF RowsOK
    <2> HIDE DEF written
    <2>6. RowsOK'
      BY <2>1, <2>2, <2>4, <2>5 DEF RowsOK
    <2>7. \A x \in Purchases : RowKept(x)
      BY <2>1, <2>2, <2>4, <2>5 DEF RowsOK, RowKept, Granting
    <2> QED BY <2>6, <2>7
  <1>2. ASSUME UNCHANGED row, revoked' \subseteq revoked \cup {x \in Purchases : row[x] # NoRow},
               run' \in [pc : {"due", "revoke", "done"}, left : SUBSET Purchases]
        PROVE  RowsOK' /\ \A x \in Purchases : RowKept(x)
    BY <1>2 DEF RowsOK, RowKept
  <1>3. CASE ReconcileList \/ ReconcileEnds \/ NextDay
    BY <1>2, <1>3 DEF ReconcileList, ReconcileEnds, NextDay, NoRun
  <1>4. ASSUME NEW x \in Purchases, ReconcileRevoke(x)
        PROVE  RowsOK' /\ \A z \in Purchases : RowKept(z)
    <2>1. run' = [run EXCEPT !.left = run.left \ {x}] /\ UNCHANGED row
          /\ revoked' = IF Revocable(x) THEN revoked \cup {x} ELSE revoked
      BY <1>4 DEF ReconcileRevoke
    <2>2. run' \in [pc : {"due", "revoke", "done"}, left : SUBSET Purchases]
      BY <2>1 DEF RowsOK
    <2> QED BY <1>2, <2>1, <2>2 DEF Revocable
  <1>5. ASSUME UNCHANGED <<row, revoked, run>>
        PROVE  RowsOK' /\ \A x \in Purchases : RowKept(x)
    BY <1>5 DEF RowsOK, RowKept
  <1>6. ASSUME NEW x \in Purchases, Paid(x) \/ Heard(x) \/ Recover(x) \/ Refund(x)
        PROVE  UNCHANGED <<row, revoked, run>>
    BY <1>6 DEF Paid, Heard, Recover, Verify, Refund, server
  <1>7. ASSUME NEW c \in Calls, Ask(c) \/ Answered(c)
        PROVE  UNCHANGED <<row, revoked, run>>
    BY <1>7 DEF Ask, Answered, server
  <1>8. ASSUME \/ \E g \in Goods : Buy(g) \/ OpenSheet(g)
               \/ GiveUp \/ (\E t \in Tasks : Consume(t) \/ Disturbed(t)) \/ AppEnds
               \/ (\E u \in Accounts : SignIn(u)) \/ UNCHANGED Tables
        PROVE  UNCHANGED <<row, revoked, run>>
    BY <1>8 DEF Buy, OpenSheet, GiveUp, Consume, Disturbed, AppEnds, SignIn, Tables, server
  <1> QED BY <1>1, <1>3, <1>4, <1>5, <1>6, <1>7, <1>8 DEF Next, Reconcile, Server
--------------------------------------------------------------------------
(* What a step does to the calls and the tasks.                              *)
NewCall(c, new) == calls' = [calls EXCEPT ![c] = new] /\ new \in Call
NewTask(t, new) == task' = [task EXCEPT ![t] = new] /\ new \in Task

LEMMA GoOnTask ==
  ASSUME ConstantsFit, Types, NEW t \in Tasks
  PROVE  GoOn(t) \in Task /\ GoOn(t).pc \in {"idle", "next"}
  <1>1. task[t] \in Task
    BY DEF Types, AppOK
  <1>2. [task[t] EXCEPT !.pc = "next", !.token = {}] \in Task
        /\ [task[t] EXCEPT !.pc = "next", !.token = {}].pc = "next"
    BY <1>1 DEF Task
  <1> QED BY <1>2, Nothing DEF GoOn

(* The phone asks: a task that was not waiting waits for a new call.          *)
Asks == \E c \in Calls : \E t \in Tasks : \E x \in Purchases : \E call, new :
          /\ NewCall(c, call) /\ calls[c].pc = "idle" /\ call.pc = "ask" /\ call.task = t
          /\ call.token = {x} /\ call.user = actor
          /\ NewTask(t, new) /\ task[t].pc \in {"listen", "next"} /\ new.pc = "verify"
          /\ new.token = {x}
(* The phone goes on with a task that was not waiting.                        *)
GoesOn == \E t \in Tasks : \E new :
            NewTask(t, new) /\ task[t].pc # "verify" /\ new.pc \in {"idle", "listen", "next"}
            /\ calls' = calls
(* The phone forgets a task, or all of them, and with it who waits.           *)
Forgets == \E ts \in SUBSET Tasks :
             /\ task' \in [Tasks -> Task]
             /\ \A t \in Tasks : IF t \in ts THEN task'[t].pc \in {"idle", "next"}
                                             ELSE task'[t] = task[t]
             /\ calls' \in [Calls -> Call]
             /\ \A c \in Calls :
                  \/ calls'[c] = calls[c] /\ calls[c].task \notin ts
                  \/ calls'[c] = [calls[c] EXCEPT !.task = "none"]
(* The server works on a call; midnight passes.                               *)
Works == /\ task' = task /\ calls' \in [Calls -> Call]
         /\ \A c \in Calls : /\ calls'[c].task = calls[c].task /\ calls'[c].token = calls[c].token
                             /\ calls'[c].user = calls[c].user /\ calls'[c].goods = calls[c].goods
                             /\ \/ calls'[c].pc = calls[c].pc
                                \/ Ask(c) \/ Grant(c)

LEMMA VerifyAsks ==
  ASSUME ConstantsFit, Types, NEW t \in Tasks, NEW x \in Purchases, NEW next \in Task,
         Verify(t, x, next), task[t].pc \in {"listen", "next"}
  PROVE  Asks
  <1>1. PICK c \in Calls :
          /\ calls[c].pc = "idle"
          /\ calls' = [calls EXCEPT ![c] = [NoCall EXCEPT !.pc = "ask", !.task = t, !.token = {x},
                                            !.user = actor, !.goods = next.goods]]
          /\ task' = [task EXCEPT ![t] = [next EXCEPT !.pc = "verify", !.token = {x}]]
    BY DEF Verify
  <1> DEFINE call == [NoCall EXCEPT !.pc = "ask", !.task = t, !.token = {x},
                                    !.user = actor, !.goods = next.goods]
             new == [next EXCEPT !.pc = "verify", !.token = {x}]
  <1>2. /\ call \in Call /\ call.pc = "ask" /\ call.task = t /\ call.token = {x}
        /\ call.user = actor
    <2>1. actor \in Accounts /\ next.goods \in Goods
      BY DEF Types, AppOK, Task
    <2> QED BY <2>1, Nothing DEF Call
  <1>3. new \in Task /\ new.pc = "verify" /\ new.token = {x}
    BY DEF Task
  <1>4. NewCall(c, call) /\ NewTask(t, new)
    BY <1>1, <1>2, <1>3 DEF NewCall, NewTask
  <1> HIDE DEF call, new
  <1> QED BY <1>1, <1>2, <1>3, <1>4 DEF Asks

LEMMA AppMoves ==
  ASSUME ConstantsFit, Types, Next \/ UNCHANGED Tables
  PROVE  /\ actor' \in Accounts
         /\ \/ Asks \/ GoesOn \/ Forgets \/ Works \/ \E c \in Calls : Answered(c)
  <1> USE DEF Types
  <1>0. /\ actor \in Accounts /\ task \in [Tasks -> Task] /\ calls \in [Calls -> Call]
        /\ "buy" \in Tasks /\ "recover" \in Tasks
    BY DEF AppOK, Tasks
  <1>1. actor' \in Accounts
    <2>1. actor' = actor \/ \E u \in Accounts : actor' = u
      BY DEF Next, Buy, OpenSheet, GiveUp, Paid, Heard, Recover, Verify, Refund, Consume, Disturbed,
             AppEnds, SignIn, Server, Ask, Grant, Answered, Reconcile, ReconcileList, ReconcileEnds,
             ReconcileRevoke, NextDay, Tables, app
    <2> QED BY <1>0, <2>1
  <1>2. ASSUME NEW t \in Tasks, NEW new \in Task, task' = [task EXCEPT ![t] = new], calls' = calls,
               task[t].pc # "verify", new.pc \in {"idle", "listen", "next"}
        PROVE  GoesOn
    BY <1>2 DEF GoesOn, NewTask
  <1>3. ASSUME NEW g \in Goods, Buy(g)
        PROVE  GoesOn
    <2>1. [NoTask EXCEPT !.pc = "listen", !.goods = g] \in Task
          /\ [NoTask EXCEPT !.pc = "listen", !.goods = g].pc = "listen"
      BY Nothing DEF Task
    <2> QED BY <1>0, <1>2, <1>3, <2>1 DEF Buy
  <1>4. ASSUME GiveUp
        PROVE  GoesOn
    BY <1>0, <1>2, <1>4, Nothing DEF GiveUp
  <1>5. ASSUME NEW g \in Goods, OpenSheet(g)
        PROVE  GoesOn
    <2>1. Unspent(g) \subseteq Purchases
      BY DEF Unspent
    <2>2. [NoTask EXCEPT !.pc = "next", !.goods = g, !.left = Unspent(g)] \in Task
          /\ [NoTask EXCEPT !.pc = "next", !.goods = g, !.left = Unspent(g)].pc = "next"
      BY <2>1, Nothing DEF Task
    <2> QED BY <1>0, <1>2, <1>5, <2>2 DEF OpenSheet
  <1>6. ASSUME NEW x \in Purchases, Heard(x)
        PROVE  Asks
    BY <1>0, <1>6, VerifyAsks DEF Heard
  <1>7. ASSUME NEW x \in Purchases, Recover(x)
        PROVE  Asks
    <2>1. [task["recover"] EXCEPT !.left = task["recover"].left \ {x}] \in Task
      BY <1>0 DEF Task
    <2> QED BY <1>0, <1>7, <2>1, VerifyAsks DEF Recover
  <1>8. ASSUME NEW t \in Tasks, Consume(t)
        PROVE  GoesOn
    BY <1>2, <1>8, GoOnTask DEF Consume
  <1>9. ASSUME NEW c \in Calls
        PROVE  /\ [calls[c] EXCEPT !.task = "none"] \in Call
               /\ \A b \in BOOLEAN : [calls[c] EXCEPT !.old = b] \in Call
    BY <1>0 DEF Call
  <1>10. ASSUME NEW t \in Tasks, Disturbed(t)
         PROVE  Forgets
    <2>1. /\ task' = [task EXCEPT ![t] = GoOn(t)]
          /\ calls' = [c \in Calls |-> IF calls[c].task = t THEN [calls[c] EXCEPT !.task = "none"]
                                       ELSE calls[c]]
      BY <1>10 DEF Disturbed
    <2>2. {t} \in SUBSET Tasks
      OBVIOUS
    <2> QED BY <1>0, <1>9, <2>1, <2>2, GoOnTask DEF Forgets
  <1>11. ASSUME AppEnds
         PROVE  Forgets
    <2>1. /\ task' = [t \in Tasks |-> NoTask]
          /\ calls' = [c \in Calls |-> [calls[c] EXCEPT !.task = "none"]]
      BY <1>11 DEF AppEnds
    <2>2. Tasks \in SUBSET Tasks
      OBVIOUS
    <2>3. task' \in [Tasks -> Task] /\ \A t \in Tasks : task'[t].pc = "idle"
      BY <2>1, Nothing
    <2>4. calls' \in [Calls -> Call] /\ \A c \in Calls : calls'[c] = [calls[c] EXCEPT !.task = "none"]
      BY <1>9, <2>1
    <2> QED BY <2>2, <2>3, <2>4 DEF Forgets
  <1>12. ASSUME NextDay
         PROVE  Works
    <2>1. /\ task' = task
          /\ calls' = [c \in Calls |-> [calls[c] EXCEPT !.old = (calls[c].pc # "idle")]]
      BY <1>12 DEF NextDay
    <2>2. ASSUME NEW c \in Calls
          PROVE  /\ calls'[c] \in Call
                 /\ calls'[c].task = calls[c].task /\ calls'[c].token = calls[c].token
                 /\ calls'[c].user = calls[c].user /\ calls'[c].goods = calls[c].goods
                 /\ calls'[c].pc = calls[c].pc \/ Ask(c) \/ Grant(c)
      <3>1. (calls[c].pc # "idle") \in BOOLEAN
        OBVIOUS
      <3>2. calls'[c] = [calls[c] EXCEPT !.old = (calls[c].pc # "idle")]
        BY <2>1
      <3> QED BY <1>0, <1>9, <3>1, <3>2 DEF Call
    <2>3. calls' \in [Calls -> Call]
      BY <2>1, <2>2
    <2>4. task' = task
      BY <2>1
    <2> QED BY <2>2, <2>3, <2>4 DEF Works
  <1>13. ASSUME NEW c \in Calls, Ask(c) \/ Grant(c)
         PROVE  Works
    <2>1. PICK pc \in {"grant", "refused", "granted"} : calls' = [calls EXCEPT ![c].pc = pc]
      BY <1>13 DEF Ask, Grant
    <2>2. [calls[c] EXCEPT !.pc = pc] \in Call
      BY <1>0 DEF Call
    <2>3. task' = task
      BY <1>13 DEF Ask, Grant
    <2>4. ASSUME NEW d \in Calls
          PROVE  /\ calls'[d].task = calls[d].task /\ calls'[d].token = calls[d].token
                 /\ calls'[d].user = calls[d].user /\ calls'[d].goods = calls[d].goods
                 /\ calls'[d].pc = calls[d].pc \/ Ask(d) \/ Grant(d)
      BY <1>0, <1>13, <2>1 DEF Call
    <2>5. calls' \in [Calls -> Call]
      BY <1>0, <2>1, <2>2
    <2> QED BY <2>3, <2>4, <2>5 DEF Works
  <1>14. ASSUME UNCHANGED <<task, calls>>
         PROVE  Works
    <2>1. ASSUME NEW c \in Calls
          PROVE  /\ calls'[c].task = calls[c].task /\ calls'[c].token = calls[c].token
                 /\ calls'[c].user = calls[c].user /\ calls'[c].goods = calls[c].goods
                 /\ calls'[c].pc = calls[c].pc \/ Ask(c) \/ Grant(c)
      BY <1>14
    <2>2. task' = task /\ calls' \in [Calls -> Call]
      BY <1>0, <1>14
    <2> QED BY <2>1, <2>2 DEF Works
  <1>15. ASSUME NEW x \in Purchases, Paid(x) \/ Refund(x) \/ ReconcileRevoke(x)
         PROVE  UNCHANGED <<task, calls>>
    BY <1>15 DEF Paid, Refund, ReconcileRevoke, app
  <1>16. ASSUME (\E u \in Accounts : SignIn(u)) \/ ReconcileList \/ ReconcileEnds \/ UNCHANGED Tables
         PROVE  UNCHANGED <<task, calls>>
    BY <1>16 DEF SignIn, ReconcileList, ReconcileEnds, Tables, app
  <1> QED BY <1>1, <1>3, <1>4, <1>5, <1>6, <1>7, <1>8, <1>10, <1>11, <1>12, <1>13, <1>14, <1>15, <1>16
          DEF Next, Reconcile, Server

(* An answer goes to the task that waits for it.                              *)
LEMMA AnswerGoes ==
  ASSUME ConstantsFit, Types, NEW c \in Calls, Answered(c)
  PROVE  /\ calls[c].pc \in {"granted", "refused"} /\ NewCall(c, NoCall)
         /\ IF calls[c].task = "none" THEN task' = task
            ELSE \E new : /\ NewTask(calls[c].task, new)
                          /\ \/ new.pc \in {"idle", "next"}
                             \/ /\ new.pc = "consume" /\ calls[c].pc = "granted"
                                /\ new.token = task[calls[c].task].token
  <1> DEFINE t == calls[c].task
             spend == [task[t] EXCEPT !.pc = "consume"]
             new == IF calls[c].pc = "granted" THEN spend ELSE GoOn(t)
  <1>1. /\ calls[c].pc \in {"granted", "refused"} /\ calls' = [calls EXCEPT ![c] = NoCall]
        /\ task' = IF t = "none" THEN task ELSE [task EXCEPT ![t] = new]
    BY DEF Answered
  <1>2. NewCall(c, NoCall)
    BY <1>1, Nothing DEF NewCall
  <1>3. CASE t # "none"
    <2>1. t \in Tasks
      BY <1>3 DEF Types, AppOK, Call
    <2>2. spend \in Task /\ spend.pc = "consume" /\ spend.token = task[t].token
      BY <2>1 DEF Types, AppOK, Task
    <2>3. new \in Task
      BY <2>1, <2>2, GoOnTask
    <2>4. new.pc \in {"idle", "next"} \/ /\ new.pc = "consume" /\ calls[c].pc = "granted"
                                         /\ new.token = task[t].token
      BY <2>1, <2>2, GoOnTask
    <2>5. task' = [task EXCEPT ![t] = new]
      BY <1>1, <1>3
    <2> HIDE DEF new
    <2> QED BY <1>1, <1>2, <1>3, <2>3, <2>4, <2>5 DEF NewTask
  <1> QED BY <1>1, <1>2, <1>3

LEMMA AppStep ==
  ASSUME ConstantsFit, Types, Next \/ UNCHANGED Tables
  PROVE  AppOK'
  <1>0. task \in [Tasks -> Task] /\ calls \in [Calls -> Call]
    BY DEF Types, AppOK
  <1>1. actor' \in Accounts /\ (Asks \/ GoesOn \/ Forgets \/ Works \/ \E c \in Calls : Answered(c))
    BY AppMoves
  <1>2. task' \in [Tasks -> Task] /\ calls' \in [Calls -> Call]
    <2>1. CASE Asks \/ GoesOn
      BY <1>0, <2>1 DEF Asks, GoesOn, NewCall, NewTask
    <2>2. CASE Forgets \/ Works
      BY <1>0, <2>2 DEF Forgets, Works
    <2>3. ASSUME NEW c \in Calls, Answered(c)
          PROVE  task' \in [Tasks -> Task] /\ calls' \in [Calls -> Call]
      BY <1>0, <2>3, AnswerGoes DEF NewCall, NewTask
    <2> QED BY <1>1, <2>1, <2>2, <2>3
  <1> QED BY <1>1, <1>2 DEF AppOK

LEMMA TypesStep ==
  ASSUME ConstantsFit, Types, Next \/ UNCHANGED Tables
  PROVE  Types'
  BY StoreStep, RowStep, AppStep DEF Types
--------------------------------------------------------------------------
(* From the store to the table                                               *)

LEMMA WrittenStep ==
  ASSUME ConstantsFit, Types, Written, CallsFit, Next \/ UNCHANGED Tables
  PROVE  Written'
  <1> SUFFICES ASSUME NEW x \in Purchases, row'[x] # NoRow PROVE Begun(x)'
    BY DEF Written
  <1>1. Kept(x) /\ RowKept(x)
    BY StoreStep, RowStep
  <1>2. ASSUME NEW c \in Calls, Granting(c, x)
        PROVE  Begun(x)
    BY <1>2 DEF Granting, CallsFit, CallFits, Fitting
  <1>3. Begun(x)
    BY <1>1, <1>2 DEF RowKept, Written
  <1> QED BY <1>1, <1>3 DEF Kept

(* What is right stays right.                                                *)
LEMMA RightStays ==
  ASSUME ConstantsFit, Types, Written, Next \/ UNCHANGED Tables, NEW x \in Purchases, Right(x)
  PROVE  Right(x)'
  <1>1. Kept(x) /\ RowKept(x)
    BY StoreStep, RowStep
  <1>2. row[x] # NoRow /\ Begun(x)
    BY DEF Right, Written
  <1> QED BY <1>1, <1>2 DEF Kept, RowKept, Right

(* A call that is told "granted" finds what was paid for in the table.        *)
LEMMA GrantedIsRight ==
  ASSUME ConstantsFit, Types, Written, CallsFit, NEW c \in Calls, Grant(c), NEW x \in calls[c].token,
         calls'[c].pc = "granted"
  PROVE  Right(x)'
  <1> DEFINE call == calls[c]
             new == [user |-> call.user, goods |-> Bought(call, x)]
             written == IF row[x] = NoRow THEN new ELSE row[x]
  <1>1. \A y \in calls[c].token : x = y
    BY DEF CallsFit, CallFits
  <1>2. /\ call.pc = "grant" /\ store' = store
        /\ \/ /\ row' = [row EXCEPT ![x] = written]
              /\ calls' = [calls EXCEPT ![c].pc =
                   IF written = new /\ new.goods = call.goods THEN "granted" ELSE "refused"]
           \/ calls' = [calls EXCEPT ![c].pc = "refused"]
    BY <1>1 DEF Grant
  <1>3. calls[c] \in Call /\ x \in Purchases /\ row \in [Purchases -> Row]
        /\ calls \in [Calls -> Call]
    BY DEF Types, AppOK, RowsOK, Call
  <1>4. /\ row' = [row EXCEPT ![x] = written] /\ written = new /\ new.goods = call.goods
    BY <1>2, <1>3 DEF Call
  <1>5. Fitting(call, x) /\ call.user \in Accounts
    BY <1>2 DEF CallsFit, CallFits
  <1>6. Bought(call, x) = store[x].goods /\ call.user = store[x].account
    BY <1>4, <1>5 DEF Fitting, Bought
  <1>7. row'[x] = [user |-> store[x].account, goods |-> store[x].goods]
    BY <1>3, <1>4, <1>6
  <1>8. row'[x] # NoRow
    BY <1>5, <1>6, <1>7 DEF NoRow, ConstantsFit
  <1> QED BY <1>2, <1>7, <1>8 DEF Right

(* What the calls hold.                                                      *)
LEMMA CallsStep ==
  ASSUME ConstantsFit, Types, Written, CallsFit, Next \/ UNCHANGED Tables
  PROVE  CallsFit'
  <1> SUFFICES ASSUME NEW c \in Calls PROVE CallFits(c)'
    BY DEF CallsFit
  <1>0. /\ CallFits(c) /\ calls[c] \in Call /\ calls \in [Calls -> Call] /\ actor \in Accounts
        /\ \A x \in Purchases : Kept(x)
        /\ \A x \in Purchases : Right(x) => Right(x)'
    BY StoreStep, RightStays DEF CallsFit, Types, AppOK
  <1>1. ASSUME calls'[c].pc = calls[c].pc, calls'[c].token = calls[c].token,
               calls'[c].user = calls[c].user, calls'[c].goods = calls[c].goods
        PROVE  CallFits(c)'
    <2>1. \A x \in calls[c].token : x \in Purchases
      BY <1>0 DEF Call
    <2>2. \A x \in calls[c].token : Fitting(calls[c], x) => Fitting(calls[c], x)'
      BY <1>0, <1>1, <2>1 DEF Kept, Fitting
    <2> QED BY <1>0, <1>1, <2>1, <2>2 DEF CallFits
  <1>2. ASSUME calls'[c].token = {}, calls'[c].pc = "idle"
        PROVE  CallFits(c)'
    BY <1>2 DEF CallFits
  <1>3. CASE Asks
    <2>1. PICK d \in Calls : \E x \in Purchases : \E call :
            /\ NewCall(d, call) /\ call.pc = "ask" /\ call.token = {x} /\ call.user = actor
      BY <1>3 DEF Asks
    <2> PICK x \in Purchases : \E call :
            NewCall(d, call) /\ call.pc = "ask" /\ call.token = {x} /\ call.user = actor
      BY <2>1
    <2> PICK call :
            NewCall(d, call) /\ call.pc = "ask" /\ call.token = {x} /\ call.user = actor
      OBVIOUS
    <2>2. CASE c = d
      BY <1>0, <2>2 DEF NewCall, CallFits
    <2>3. CASE c # d
      BY <1>0, <1>1, <2>3 DEF NewCall
    <2> QED BY <2>2, <2>3
  <1>4. CASE GoesOn
    BY <1>1, <1>4 DEF GoesOn
  <1>5. CASE Forgets
    <2>1. calls'[c] = calls[c] \/ calls'[c] = [calls[c] EXCEPT !.task = "none"]
      BY <1>5 DEF Forgets
    <2>2. /\ [calls[c] EXCEPT !.task = "none"].pc = calls[c].pc
          /\ [calls[c] EXCEPT !.task = "none"].token = calls[c].token
          /\ [calls[c] EXCEPT !.task = "none"].user = calls[c].user
          /\ [calls[c] EXCEPT !.task = "none"].goods = calls[c].goods
      BY <1>0 DEF Call
    <2> QED BY <1>1, <2>1, <2>2
  <1>6. ASSUME NEW d \in Calls, Answered(d)
        PROVE  CallFits(c)'
    <2>1. calls' = [calls EXCEPT ![d] = NoCall]
      BY <1>6 DEF Answered
    <2> QED BY <1>0, <1>1, <1>2, <2>1, Nothing
  <1>7. CASE Works
    <2>1. /\ calls'[c].token = calls[c].token /\ calls'[c].user = calls[c].user
          /\ calls'[c].goods = calls[c].goods
          /\ calls'[c].pc = calls[c].pc \/ Ask(c) \/ Grant(c)
      BY <1>7 DEF Works
    <2>2. CASE Ask(c)
      <3>1. PICK x \in calls[c].token :
              /\ calls[c].pc = "ask" /\ store' = store
              /\ calls' = [calls EXCEPT ![c].pc = IF Fits(calls[c], x) THEN "grant" ELSE "refused"]
        BY <2>2 DEF Ask
      <3>2. calls'[c].pc = IF Fits(calls[c], x) THEN "grant" ELSE "refused"
        BY <1>0, <3>1 DEF Call
      <3>3. Fits(calls[c], x) => Fitting(calls[c], x)
        BY DEF Fits, Fitting, Begun
      <3>4. \A y \in calls[c].token : y = x
        BY <1>0 DEF CallFits
      <3>5. Fits(calls[c], x) => Fitting(calls[c], x)'
        BY <2>1, <3>1, <3>3 DEF Fitting, Begun
      <3> QED BY <1>0, <2>1, <3>1, <3>2, <3>4, <3>5 DEF CallFits
    <2>3. CASE Grant(c)
      <3>1. /\ calls[c].pc = "grant" /\ store' = store
            /\ calls'[c].pc \in {"granted", "refused"}
        BY <1>0, <2>3 DEF Grant, Call
      <3>2. \A x \in calls[c].token : Fitting(calls[c], x)'
        BY <1>0, <2>1, <3>1 DEF CallFits, Fitting, Begun
      <3>3. \A x \in calls[c].token : calls'[c].pc = "granted" => Right(x)'
        BY <2>3, GrantedIsRight
      <3> QED BY <1>0, <2>1, <3>1, <3>2, <3>3 DEF CallFits
    <2> QED BY <1>1, <2>1, <2>2, <2>3
  <1> QED BY <1>3, <1>4, <1>5, <1>6, <1>7, AppMoves

(* What the tasks wait for.                                                  *)
LEMMA ConsumesWhatIsRight ==
  ASSUME ConstantsFit, Types, Written, CallsFit, TasksFit, Next \/ UNCHANGED Tables,
         NEW t \in Tasks, task'[t].pc = "consume", NEW x \in task'[t].token
  PROVE  Right(x)'
  <1>0. task \in [Tasks -> Task] /\ calls \in [Calls -> Call]
    BY DEF Types, AppOK
  <1>1. ASSUME task'[t] = task[t]
        PROVE  Right(x)'
    <2>1. Right(x) /\ x \in Purchases
      BY <1>0, <1>1 DEF TasksFit, Task
    <2> QED BY <2>1, RightStays
  <1>2. CASE Asks
    BY <1>0, <1>1, <1>2 DEF Asks, NewTask
  <1>3. CASE GoesOn
    BY <1>0, <1>1, <1>3 DEF GoesOn, NewTask
  <1>4. CASE Forgets
    BY <1>1, <1>4 DEF Forgets
  <1>5. CASE Works
    BY <1>1, <1>5 DEF Works
  <1>6. ASSUME NEW c \in Calls, Answered(c)
        PROVE  Right(x)'
    <2>1. CASE calls[c].task = t
      <3>1. t # "none"
        BY DEF Tasks
      <3>2. PICK new : /\ NewTask(t, new)
                       /\ \/ new.pc \in {"idle", "next"}
                          \/ /\ new.pc = "consume" /\ calls[c].pc = "granted"
                             /\ new.token = task[t].token
        BY <1>6, <2>1, <3>1, AnswerGoes
      <3>3. calls[c].pc = "granted" /\ x \in task[t].token
        BY <1>0, <3>2 DEF NewTask
      <3>4. calls[c].token = task[t].token
        BY <2>1, <3>1 DEF TasksFit, Waiting
      <3>5. Right(x) /\ x \in Purchases
        BY <1>0, <3>3, <3>4 DEF CallsFit, CallFits, Call
      <3> QED BY <3>5, RightStays
    <2>2. CASE calls[c].task # t
      BY <1>0, <1>1, <1>6, <2>2, AnswerGoes DEF NewTask
    <2> QED BY <2>1, <2>2
  <1> QED BY <1>2, <1>3, <1>4, <1>5, <1>6, AppMoves

LEMMA WaitingStep ==
  ASSUME ConstantsFit, Types, TasksFit, Next \/ UNCHANGED Tables
  PROVE  OneCall' /\ \A c \in Calls : Waiting(c)'
  <1>0. /\ task \in [Tasks -> Task] /\ calls \in [Calls -> Call]
        /\ OneCall /\ \A c \in Calls : Waiting(c)
        /\ \A c \in Calls : calls[c].task \in Tasks \cup {"none"}
    BY DEF Types, AppOK, TasksFit, Call
  <1>1. CASE Asks
    <2>1. PICK d \in Calls, t \in Tasks : \E x \in Purchases : \E call, new :
            /\ NewCall(d, call) /\ call.task = t /\ call.token = {x}
            /\ NewTask(t, new) /\ task[t].pc \in {"listen", "next"} /\ new.pc = "verify"
            /\ new.token = {x}
      BY <1>1 DEF Asks
    <2>2. PICK x \in Purchases : \E call, new :
            /\ NewCall(d, call) /\ call.task = t /\ call.token = {x}
            /\ NewTask(t, new) /\ new.pc = "verify" /\ new.token = {x}
      BY <2>1
    <2>3. /\ calls'[d].task = t /\ calls'[d].token = {x} /\ \A c \in Calls : c # d => calls'[c] = calls[c]
          /\ task'[t].pc = "verify" /\ task'[t].token = {x}
          /\ \A s \in Tasks : s # t => task'[s] = task[s]
      BY <1>0, <2>2 DEF NewCall, NewTask
    <2>4. \A c \in Calls : calls[c].task # t
      BY <1>0, <2>1 DEF Waiting, Tasks
    <2>5. ASSUME NEW c \in Calls
          PROVE  Waiting(c)'
      <3>1. CASE c = d
        BY <2>3, <3>1 DEF Waiting
      <3>2. CASE c # d
        <4>1. calls'[c] = calls[c] /\ calls[c].task # t /\ Waiting(c)
          BY <1>0, <2>3, <2>4, <3>2
        <4>2. calls[c].task # "none" => task'[calls[c].task] = task[calls[c].task]
          BY <1>0, <2>3, <4>1
        <4> QED BY <4>1, <4>2 DEF Waiting
      <3> QED BY <3>1, <3>2
    <2>6. OneCall'
      <3>1. ASSUME NEW c \in Calls, NEW e \in Calls, c # e, calls'[c].task = calls'[e].task
            PROVE  calls'[c].task = "none"
        <4>1. CASE c = d
          BY <2>3, <2>4, <3>1, <4>1
        <4>2. CASE e = d
          BY <2>3, <2>4, <3>1, <4>2
        <4>3. CASE c # d /\ e # d
          BY <1>0, <2>3, <2>4, <3>1, <4>1, <4>2 DEF OneCall
        <4> QED BY <4>1, <4>2, <4>3
      <3> QED BY <3>1 DEF OneCall
    <2> QED BY <2>5, <2>6
  <1>2. CASE GoesOn
    <2>1. PICK t \in Tasks : \E new : NewTask(t, new) /\ task[t].pc # "verify" /\ calls' = calls
      BY <1>2 DEF GoesOn
    <2>2. \A s \in Tasks : s # t => task'[s] = task[s]
      BY <1>0, <2>1 DEF NewTask
    <2>3. \A c \in Calls : calls[c].task # t
      BY <1>0, <2>1 DEF Waiting, Tasks
    <2> QED BY <1>0, <2>1, <2>2, <2>3 DEF Waiting, OneCall
  <1>3. CASE Forgets
    <2>1. PICK ts \in SUBSET Tasks :
            /\ \A t \in Tasks : t \notin ts => task'[t] = task[t]
            /\ \A c \in Calls : \/ calls'[c] = calls[c] /\ calls[c].task \notin ts
                                \/ calls'[c] = [calls[c] EXCEPT !.task = "none"]
      BY <1>3 DEF Forgets
    <2>2. ASSUME NEW c \in Calls
          PROVE  \/ calls'[c] = calls[c] /\ calls[c].task \notin ts
                 \/ calls'[c].task = "none"
      <3>1. [calls[c] EXCEPT !.task = "none"].task = "none"
        BY <1>0 DEF Call
      <3> QED BY <2>1, <3>1
    <2>3. ASSUME NEW c \in Calls
          PROVE  Waiting(c)'
      BY <1>0, <2>1, <2>2, <2>3 DEF Waiting
    <2> QED BY <1>0, <2>2, <2>3 DEF OneCall
  <1>4. CASE Works
    BY <1>0, <1>4 DEF Works, Waiting, OneCall
  <1>5. ASSUME NEW d \in Calls, Answered(d)
        PROVE  OneCall' /\ \A c \in Calls : Waiting(c)'
    <2>1. /\ calls'[d].task = "none" /\ \A c \in Calls : c # d => calls'[c] = calls[c]
      BY <1>0, <1>5, AnswerGoes, Nothing DEF NewCall
    <2>2. \A t \in Tasks : calls[d].task # t => task'[t] = task[t]
      BY <1>0, <1>5, AnswerGoes DEF NewTask
    <2>3. ASSUME NEW c \in Calls
          PROVE  Waiting(c)'
      <3>1. c # d /\ calls[c].task # "none" => calls[c].task # calls[d].task
        BY <1>0 DEF OneCall
      <3> QED BY <1>0, <2>1, <2>2, <3>1 DEF Waiting
    <2> QED BY <1>0, <2>1, <2>3 DEF OneCall
  <1> QED BY <1>1, <1>2, <1>3, <1>4, <1>5, AppMoves

LEMMA TasksStep ==
  ASSUME ConstantsFit, Types, Written, CallsFit, TasksFit, Next \/ UNCHANGED Tables
  PROVE  TasksFit'
  BY WaitingStep, ConsumesWhatIsRight DEF TasksFit

LEMMA SpentStep ==
  ASSUME ConstantsFit, Types, Written, TasksFit, SpentRight, Next \/ UNCHANGED Tables
  PROVE  SpentRight'
  <1> SUFFICES ASSUME NEW x \in Purchases, store'[x].spent PROVE Right(x)'
    BY DEF SpentRight
  <1>1. Right(x)
    BY StoreStep DEF Kept, SpentRight, TasksFit
  <1> QED BY <1>1, RightStays

LEMMA StepIInv == ASSUME ConstantsFit, IInv, Next \/ UNCHANGED Tables PROVE IInv'
  BY TypesStep, WrittenStep, CallsStep, TasksStep, SpentStep DEF IInv

(* The count of faults, which other services share, moves one at a time.      *)
LEMMA FaultsStep == ASSUME Next PROVE faults' = faults \/ faults' = faults + 1
  <1>1. ASSUME NEW g \in Goods, Buy(g) \/ OpenSheet(g) PROVE faults' = faults
    BY <1>1 DEF Buy, OpenSheet
  <1>2. ASSUME NEW x \in Purchases, Paid(x) \/ Heard(x) \/ Recover(x) \/ Refund(x) PROVE faults' = faults
    BY <1>2 DEF Paid, Heard, Recover, Verify, Refund
  <1>3. ASSUME NEW t \in Tasks, Consume(t) \/ Disturbed(t)
        PROVE  faults' = faults \/ faults' = faults + 1
    BY <1>3 DEF Consume, Disturbed, Fault
  <1>4. ASSUME AppEnds \/ \E u \in Accounts : SignIn(u) PROVE faults' = faults + 1
    BY <1>4 DEF AppEnds, SignIn, Fault
  <1>5. ASSUME NEW c \in Calls, Ask(c) \/ Grant(c) \/ Answered(c) PROVE faults' = faults
    BY <1>5 DEF Ask, Grant, Answered
  <1>6. ASSUME ReconcileList \/ NextDay \/ \E x \in Purchases : ReconcileRevoke(x) PROVE faults' = faults
    BY <1>6 DEF ReconcileList, NextDay, ReconcileRevoke
  <1>7. ASSUME ReconcileEnds PROVE faults' = faults \/ faults' = faults + 1
    BY <1>7 DEF ReconcileEnds, Fault
  <1>8. ASSUME GiveUp PROVE faults' = faults
    BY <1>8 DEF GiveUp
  <1> QED BY <1>1, <1>2, <1>3, <1>4, <1>5, <1>6, <1>7, <1>8 DEF Next, Server, Reconcile

LEMMA SpentIsRight == IInv => SpentIsGranted
  BY DEF IInv, SpentRight, Right, SpentIsGranted
--------------------------------------------------------------------------
(* The purchases keep to the inductive invariant.                             *)
THEOREM Inductive == ASSUME ConstantsFit PROVE Spec => []IInv
  <1>1. Init => IInv
    BY InitIInv
  <1>2. IInv /\ [Next]_vars => IInv'
    BY StepIInv DEF vars, Tables
  <1> QED BY <1>1, <1>2, PTL DEF Spec

(* The tables have their types, and only what is written is revoked.          *)
THEOREM TypeCorrect == ASSUME ConstantsFit PROVE Spec => []TypeOK
  <1>1. IInv => TypeOK
    BY TypesImplyTypeOK DEF IInv
  <1> QED BY Inductive, <1>1, PTL

(* A purchase is consumed only when what was paid for has been written for    *)
(* the account that paid.                                                    *)
THEOREM ConsumedIsGranted == ASSUME ConstantsFit PROVE Spec => []SpentIsGranted
  BY Inductive, SpentIsRight, PTL
=============================================================================
