--------------------------- MODULE StorePurchases ---------------------------
(* Slots and permanent access, from the store to the tables: the phone that *)
(* buys, verifies and consumes, and recovers what it did not get to;        *)
(* purchase-verify, which believes Google only; refunds, and the daily      *)
(* purchase-reconcile that takes back what was granted.                    *)
EXTENDS Integers, FiniteSets

CONSTANTS Purchases,  \* purchase tokens, each with its order id
          Accounts, Promises,
          Calls,      \* calls of purchase-verify under way at once
          Window,     \* days for which Google lists a refund (the code asks for 29)
          MaxFaults   \* lost answers, ends of the app, sign-ins, runs that fail

Slot == "slot"        \* what is bought: a slot, or permanent access to a promise
NoUser == "nobody"

(* What the constants must be; the MC modules assume it of their values. *)
ConstantsFit ==
  /\ Slot \notin Promises /\ NoUser \notin Accounts
  /\ Window \in Nat \ {0} /\ MaxFaults \in Nat

VARIABLES store,      \* what Google knows of a purchase
          row,        \* slot_purchases
          revoked,    \* slot_purchase_revocations
          actor,      \* the account signed in on the phone
          task,       \* the purchase under way, and the recovery under way
          calls,
          run,        \* purchase-reconcile
          faults

vars == <<store, row, revoked, actor, task, calls, run, faults>>

Goods   == Promises \cup {Slot}
Tasks   == {"buy", "recover"}
NoStore == [state |-> "none", goods |-> Slot, account |-> NoUser, spent |-> FALSE, age |-> 0]
NoRow   == [user |-> NoUser, goods |-> Slot]
NoTask  == [pc |-> "idle", goods |-> Slot, left |-> {}, token |-> {}]
NoCall  == [pc |-> "idle", task |-> "none", token |-> {}, user |-> NoUser, goods |-> Slot, old |-> FALSE]
NoRun   == [pc |-> "due", left |-> {}]

Init == /\ store = [x \in Purchases |-> NoStore] /\ row = [x \in Purchases |-> NoRow]
        /\ revoked = {} /\ actor \in Accounts
        /\ task = [t \in Tasks |-> NoTask] /\ calls = [c \in Calls |-> NoCall]
        /\ run = NoRun /\ faults = 0

Fault == faults < MaxFaults /\ faults' = faults + 1
app    == <<actor, task, calls>>
server == <<row, revoked, run>>

--------------------------------------------------------------------------
(* Buying: purchaseSlot and purchasePermanentAccess.  One purchase at a     *)
(* time; the listener takes the next purchase the store reports, whichever  *)
(* it is, one that had been pending included.                              *)
Buy(g) == /\ task["buy"].pc = "idle" 
          /\ \E x \in Purchases :
               /\ store[x].state = "none"
               /\ \E s \in {"paid", "pending"} :
                    store' = [store EXCEPT ![x] = [@ EXCEPT !.state = s, !.goods = g, !.account = actor]]
          /\ task' = [task EXCEPT !["buy"] = [NoTask EXCEPT !.pc = "listen", !.goods = g]]
          /\ UNCHANGED <<actor, calls, faults>> /\ UNCHANGED server
GiveUp == /\ task["buy"].pc = "listen" /\ task' = [task EXCEPT !["buy"] = NoTask]
          /\ UNCHANGED <<store, actor, calls, faults>> /\ UNCHANGED server
Paid(x) == /\ store[x].state = "pending" /\ store' = [store EXCEPT ![x].state = "paid"]
           /\ UNCHANGED faults /\ UNCHANGED server /\ UNCHANGED app

(* verifySlotPurchase, verifyPermanentAccessPurchase: a call with the token  *)
(* of the purchase, for a slot or for the promise the task is about.        *)
Verify(t, x, next) ==
  \E c \in Calls :
    /\ calls[c].pc = "idle"
    /\ calls' = [calls EXCEPT ![c] = [NoCall EXCEPT !.pc = "ask", !.task = t, !.token = {x},
                                      !.user = actor, !.goods = next.goods]]
    /\ task' = [task EXCEPT ![t] = [next EXCEPT !.pc = "verify", !.token = {x}]]
    /\ UNCHANGED <<store, actor, faults>> /\ UNCHANGED server
Heard(x) == /\ task["buy"].pc = "listen" /\ store[x].state \in {"paid", "pending"} /\ ~store[x].spent
            /\ Verify("buy", x, task["buy"])

(* reconcileSlotPurchases, reconcilePermanentAccessPurchase: opening a sheet *)
(* verifies and consumes, one after another, the purchases still unspent    *)
(* that are for what the sheet sells.                                       *)
Unspent(g) == {x \in Purchases : store[x].state \in {"paid", "pending"} /\ ~store[x].spent /\ store[x].goods = g}
OpenSheet(g) == /\ task["recover"].pc = "idle" /\ Unspent(g) # {}
                /\ task' = [task EXCEPT !["recover"] = [NoTask EXCEPT !.pc = "next", !.goods = g,
                                                        !.left = Unspent(g)]]
                /\ UNCHANGED <<store, actor, calls, faults>> /\ UNCHANGED server
Recover(x) == /\ task["recover"].pc = "next" /\ x \in task["recover"].left
              /\ Verify("recover", x, [task["recover"] EXCEPT !.left = @ \ {x}])

(* What an answer leads to: only "granted" for what the task is about is     *)
(* consumed.  A recovery swallows a refusal and goes on.                    *)
GoOn(t) == IF task[t].left = {} THEN NoTask ELSE [task[t] EXCEPT !.pc = "next", !.token = {}]
Answered(c) ==
  LET t == calls[c].task
  IN /\ calls[c].pc \in {"granted", "refused"}
     /\ calls' = [calls EXCEPT ![c] = NoCall]
     /\ task' = IF t = "none" THEN task
                ELSE [task EXCEPT ![t] = IF calls[c].pc = "granted" THEN [@ EXCEPT !.pc = "consume"]
                                         ELSE GoOn(t)]
     /\ UNCHANGED <<store, actor, faults>> /\ UNCHANGED server
Consume(t) ==
  /\ task[t].pc = "consume" /\ task' = [task EXCEPT ![t] = GoOn(t)]
  /\ \E x \in task[t].token :
       store' = [store EXCEPT ![x].spent = @ \/ store[x].state = "paid"]
  /\ UNCHANGED <<actor, calls, faults>> /\ UNCHANGED server

(* The answer is lost, or consuming fails: the purchase stays unspent.       *)
Disturbed(t) ==
  /\ task[t].pc \in {"verify", "consume"} /\ Fault
  /\ task' = [task EXCEPT ![t] = GoOn(t)]
  /\ calls' = [c \in Calls |-> IF calls[c].task = t THEN [calls[c] EXCEPT !.task = "none"] ELSE calls[c]]
  /\ UNCHANGED <<store, actor>> /\ UNCHANGED server
(* The app ends; another account signs in, whatever is under way. *)
AppEnds == /\ Fault /\ task' = [t \in Tasks |-> NoTask]
           /\ calls' = [c \in Calls |-> [calls[c] EXCEPT !.task = "none"]]
           /\ UNCHANGED <<store, actor>> /\ UNCHANGED server
SignIn(u) == /\ u # actor /\ actor' = u /\ Fault
             /\ UNCHANGED <<store, task, calls>> /\ UNCHANGED server

--------------------------------------------------------------------------
(* purchase-verify: Google is asked, then lf_slot_grant or                  *)
(* lf_permanent_access_grant writes; what Google says may have changed in   *)
(* between.  A purchase counts for the account, and the promise, it was     *)
(* made for; one order is written once.                                    *)
FitsAccount(call, x) == store[x].state = "paid" /\ store[x].account = call.user
Fits(call, x) == /\ store[x].state = "paid" /\ store[x].account = call.user
                 /\ IF call.goods = Slot THEN store[x].goods = Slot
                    ELSE store[x].goods \in {call.goods, Slot}
Ask(c) ==
  \E x \in calls[c].token :
    /\ calls[c].pc = "ask"
    /\ calls' = [calls EXCEPT ![c].pc = IF Fits(calls[c], x) THEN "grant" ELSE "refused"]
    /\ UNCHANGED <<store, actor, task, faults>> /\ UNCHANGED server
(* The call of a sheet of permanent access may carry a slot: the slot is     *)
(* granted, the app does not take the answer.                               *)
Bought(call, x) == IF store[x].goods = Slot THEN Slot ELSE call.goods
Grant(c) ==
  \E x \in calls[c].token :
    LET call == calls[c]
        new == [user |-> call.user, goods |-> Bought(call, x)]
        written == IF row[x] = NoRow THEN new ELSE row[x]
    IN /\ call.pc = "grant"
       /\ \/ /\ row' = [row EXCEPT ![x] = written]
             /\ calls' = [calls EXCEPT ![c].pc =
                  IF written = new /\ new.goods = call.goods THEN "granted" ELSE "refused"]
          \/ /\ new.goods # Slot /\ UNCHANGED row   \* the record may not be read any more
             /\ calls' = [calls EXCEPT ![c].pc = "refused"]
       /\ UNCHANGED <<store, revoked, actor, task, run, faults>>

--------------------------------------------------------------------------
(* Refunds, also of purchases left unconsumed for days.  purchase-reconcile *)
(* runs once a day, reads the refunds of the last days and revokes one      *)
(* after another; a token without a row changes nothing.                    *)
Refund(x) == /\ store[x].state = "paid" /\ store' = [store EXCEPT ![x].state = "refunded"]
             /\ UNCHANGED faults /\ UNCHANGED server /\ UNCHANGED app
ListedToday(x) == store[x].state = "refunded" /\ store[x].age = 0
Listed(x) == store[x].state = "refunded" /\ store[x].age < Window
ReconcileList == /\ run.pc = "due"
                 /\ run' = [pc |-> "revoke", left |-> {x \in Purchases : Listed(x)}]
                 /\ UNCHANGED <<store, row, revoked, faults>> /\ UNCHANGED app
RevocableAny(x) == TRUE
Revocable(x) == row[x] # NoRow
ReconcileRevoke(x) ==
  /\ run.pc = "revoke" /\ x \in run.left
  /\ run' = [run EXCEPT !.left = @ \ {x}]
  /\ revoked' = IF Revocable(x) THEN revoked \cup {x} ELSE revoked
  /\ UNCHANGED <<store, row, faults>> /\ UNCHANGED app
ReconcileEnds ==
  /\ \/ run.pc = "revoke" /\ run.left = {} /\ UNCHANGED faults
     \/ run.pc \in {"due", "revoke"} /\ Fault
  /\ run' = [pc |-> "done", left |-> {}]
  /\ UNCHANGED <<store, row, revoked>> /\ UNCHANGED app
(* A day passes.  A call sees one midnight at most. *)
NextDay ==
  /\ run.pc = "done" /\ run' = NoRun /\ \A c \in Calls : ~calls[c].old
  /\ store' = [x \in Purchases |-> IF store[x].state = "refunded" /\ store[x].age < Window
                                   THEN [store[x] EXCEPT !.age = @ + 1] ELSE store[x]]
  /\ calls' = [c \in Calls |-> [calls[c] EXCEPT !.old = (calls[c].pc # "idle")]]
  /\ UNCHANGED <<row, revoked, actor, task, faults>>
Reconcile == ReconcileList \/ ReconcileEnds \/ \E x \in Purchases : ReconcileRevoke(x)
Server(c) == Ask(c) \/ Grant(c) \/ Answered(c)
Next == \/ \E g \in Goods : Buy(g) \/ OpenSheet(g)
        \/ GiveUp \/ \E x \in Purchases : Paid(x) \/ Heard(x) \/ Recover(x) \/ Refund(x)
        \/ \E t \in Tasks : Consume(t) \/ Disturbed(t)
        \/ AppEnds \/ \E u \in Accounts : SignIn(u)
        \/ \E c \in Calls : Server(c)
        \/ Reconcile \/ NextDay

(* Calls end, the night's run is started, days pass.  Nobody has to buy, to  *)
(* open a sheet or to keep the app running.                                 *)
Fairness == WF_vars(Reconcile) /\ WF_vars(NextDay) /\ \A c \in Calls : WF_vars(Server(c))
Spec == Init /\ [][Next]_vars /\ Fairness

--------------------------------------------------------------------------
(* The tables have their types, and only what is written is revoked. *)
TypeOK ==
  /\ store \in [Purchases -> [state : {"none", "pending", "paid", "refunded"}, goods : Goods,
                              account : Accounts \cup {NoUser}, spent : BOOLEAN, age : 0 .. Window]]
  /\ row \in [Purchases -> [user : Accounts \cup {NoUser}, goods : Goods]]
  /\ \A x \in revoked : row[x] # NoRow
  /\ actor \in Accounts

(* A purchase is consumed only when what was paid for has been written, for  *)
(* the account that paid, for the promise it was paid for: not when an       *)
(* event of another purchase arrives, when the account changes or when two  *)
(* tasks verify it at once.  Consumed, it could not be recovered.           *)
SpentIsGranted ==
  \A x \in Purchases : store[x].spent => row[x] = [user |-> store[x].account, goods |-> store[x].goods]

(* What was refunded is taken back, also when the refund overtakes the       *)
(* verification of the purchase, or a night's run fails.                    *)
RefundTakenBack ==
  <>[](\A x \in Purchases : store[x].state = "refunded" /\ row[x] # NoRow => x \in revoked)
=============================================================================
