---------------------------- MODULE AccountErasure ----------------------------
(* What is left of an account after its withdrawal: the login at Supabase    *)
(* Auth, which no transaction reaches.  account-withdraw tries to delete it  *)
(* at once; auth_deletion_outbox, written with the withdrawal, and the       *)
(* worker account-delete-retry see that it goes.                            *)
EXTENDS Integers, FiniteSets

CONSTANTS Accounts,
          Requests,   \* calls of account-withdraw
          Workers,    \* invocations of account-delete-retry
          MaxFaults   \* failed calls, deaths, late invocations

NoOne == "nobody"

(* What the constants must be; the MC modules assume it of their values. *)
ConstantsFit ==
  NoOne \notin Accounts \cup Workers /\ MaxFaults \in Nat

VARIABLES login,    \* accounts that auth.users still has
          outbox,   \* auth_deletion_outbox
          request, worker, faults

vars == <<login, outbox, request, worker, faults>>

NoRow == [status |-> "none", lease |-> NoOne, lapsed |-> FALSE]
Row(status) == [NoRow EXCEPT !.status = status]
Idle  == [pc |-> "idle", account |-> {}, left |-> {}]

Init == /\ login = Accounts /\ outbox = [u \in Accounts |-> NoRow]
        /\ request = [r \in Requests |-> Idle] /\ worker = [w \in Workers |-> Idle]
        /\ faults = 0

Fault == faults < MaxFaults /\ faults' = faults + 1
(* deleteAuthUser: a login that is gone already (404) is as good as deleted. *)
Deleted(us) == login' = login \ us

--------------------------------------------------------------------------
(* account-withdraw.  The caller is authenticated; a repeated withdrawal     *)
(* finds its row.                                                           *)
Withdraw(r, u) ==
  /\ request[r].pc = "idle" /\ u \in login
  /\ outbox' = IF outbox[u] = NoRow THEN [outbox EXCEPT ![u] = Row("PENDING")] ELSE outbox
  /\ request' = [request EXCEPT ![r] = [Idle EXCEPT !.pc = "delete", !.account = {u}]]
  /\ UNCHANGED <<login, worker, faults>>
DeleteAtOnce(r) == /\ request[r].pc = "delete" /\ Deleted(request[r].account)
                   /\ request' = [request EXCEPT ![r].pc = "mark"]
                   /\ UNCHANGED <<outbox, worker, faults>>
MarkAtOnce(r) ==
  /\ request[r].pc = "mark" /\ request' = [request EXCEPT ![r] = Idle]
  /\ outbox' = [u \in Accounts |-> IF u \in request[r].account THEN Row("PROCESSED") ELSE outbox[u]]
  /\ UNCHANGED <<login, worker, faults>>
RequestFails(r) == /\ request[r].pc # "idle" /\ Fault /\ request' = [request EXCEPT ![r] = Idle]
                   /\ UNCHANGED <<login, outbox, worker>>

--------------------------------------------------------------------------
(* account-delete-retry: claim a batch, then one account after another; a    *)
(* failure gives the row back, a failure to do that ends the batch.         *)
Claimable(row) == row.status = "PENDING" \/ (row.status = "LEASED" /\ row.lapsed)
Holds(w, u) == outbox[u].status = "LEASED" /\ outbox[u].lease = w
Move(w, pc) == worker' = [worker EXCEPT ![w].pc = pc]
Done(w) == worker' = [worker EXCEPT ![w] = IF @.left = {} THEN Idle ELSE [@ EXCEPT !.pc = "next", !.account = {}]]
Claim(w) ==
  LET due == {u \in Accounts : Claimable(outbox[u])}
  IN /\ worker[w].pc = "idle" /\ due # {}
     /\ outbox' = [u \in Accounts |-> IF u \in due THEN [Row("LEASED") EXCEPT !.lease = w] ELSE outbox[u]]
     /\ worker' = [worker EXCEPT ![w] = [Idle EXCEPT !.pc = "next", !.left = due]]
     /\ UNCHANGED <<login, request, faults>>
Delete(w, u) ==
  /\ worker[w].pc = "next" /\ u \in worker[w].left
  /\ \/ Deleted({u}) /\ UNCHANGED faults
        /\ worker' = [worker EXCEPT ![w] = [pc |-> "complete", account |-> {u}, left |-> @.left \ {u}]]
     \/ UNCHANGED login /\ Fault
        /\ worker' = [worker EXCEPT ![w] = [pc |-> "retry", account |-> {u}, left |-> @.left \ {u}]]
  /\ UNCHANGED <<outbox, request>>
Complete(w) ==
  \E u \in worker[w].account :
    /\ worker[w].pc = "complete"
    /\ \/ /\ Holds(w, u) /\ Done(w) /\ outbox' = [outbox EXCEPT ![u] = Row("PROCESSED")]
          /\ UNCHANGED faults
       \/ ~Holds(w, u) /\ Move(w, "retry") /\ UNCHANGED <<outbox, faults>>   \* AUTH_DELETE_LEASE_LOST
       \/ Fault /\ Move(w, "retry") /\ UNCHANGED outbox
    /\ UNCHANGED <<login, request>>
Retry(w) ==
  \E u \in worker[w].account :
    /\ worker[w].pc = "retry" /\ Done(w)
    /\ outbox' = IF Holds(w, u) THEN [outbox EXCEPT ![u] = Row("PENDING")] ELSE outbox
    /\ UNCHANGED <<login, request, faults>>
WorkerEnds(w) == /\ worker[w].pc # "idle" /\ Fault /\ worker' = [worker EXCEPT ![w] = Idle]
                 /\ UNCHANGED <<login, outbox, request>>
(* Five minutes; a batch takes longer only when something holds it up. *)
LeaseEnds(u) ==
  /\ outbox[u].status = "LEASED" /\ ~outbox[u].lapsed
  /\ outbox' = [outbox EXCEPT ![u].lapsed = TRUE]
  /\ IF \E w \in Workers : Holds(w, u) /\ u \in worker[w].left \cup worker[w].account
     THEN Fault ELSE UNCHANGED faults
  /\ UNCHANGED <<login, request, worker>>

RequestStep(r) == DeleteAtOnce(r) \/ MarkAtOnce(r)
WorkerStep(w) == Claim(w) \/ Complete(w) \/ Retry(w) \/ \E u \in Accounts : Delete(w, u)
Next == \/ \E r \in Requests : RequestStep(r) \/ RequestFails(r) \/ \E u \in Accounts : Withdraw(r, u)
        \/ \E w \in Workers : WorkerStep(w) \/ WorkerEnds(w)
        \/ \E u \in Accounts : LeaseEnds(u)

(* The worker is called every quarter of an hour, and leases run out. *)
Fairness == /\ \A w \in Workers : WF_vars(WorkerStep(w))
            /\ \A u \in Accounts : WF_vars(LeaseEnds(u))
Spec == Init /\ [][Next]_vars /\ Fairness

--------------------------------------------------------------------------
(* The rows have their types (a lease exactly while LEASED). *)
TypeOK ==
  /\ login \subseteq Accounts
  /\ outbox \in [Accounts -> [status : {"none", "PENDING", "LEASED", "PROCESSED"},
                              lease : Workers \cup {NoOne}, lapsed : BOOLEAN]]
  /\ \A u \in Accounts : outbox[u].status = "LEASED" <=> outbox[u].lease # NoOne

(* The login of a withdrawn account goes, whoever deletes it and whatever    *)
(* fails on the way, and its row is not closed before it is gone.           *)
AccountsErased ==
  <>[](\A u \in Accounts : outbox[u] # NoRow => outbox[u].status = "PROCESSED" /\ u \notin login)
=============================================================================
