-------------------------- MODULE PromiseLifecycle --------------------------
(***************************************************************************)
(* The transition table of a promise: what packages/shared/src/            *)
(* transitions.ts states and every server function must respect.  The      *)
(* table is the whole abstract specification: one variable, the status of  *)
(* each promise row, and the pairs of statuses it may step through.        *)
(*                                                                         *)
(* One transaction may take a row through two entries of the table at      *)
(* once (saving and sending a promise is T-01 followed by T-02), and one   *)
(* transaction may move several rows (an account withdrawal).  A row that  *)
(* was never activated may also be deleted.                                *)
(***************************************************************************)
CONSTANT Promises

VARIABLE status

(* promise_status of the schema; NoRow is a promise that has no row. *)
Statuses == {"DRAFT", "PENDING", "ACTIVE", "AMEND_PENDING", "CHECKING",
             "COMPLETED", "BROKEN", "DISPUTED", "UNRESOLVED",
             "DECLINED", "CANCELED"}
NoRow == "NO_ROW"

(* T-01 .. T-21, the pairs of the table. *)
Transitions ==
  {<<NoRow, "DRAFT">>,              <<"DRAFT", "PENDING">>,
   <<"PENDING", "ACTIVE">>,         <<"PENDING", "DECLINED">>,
   <<"PENDING", "DRAFT">>,          <<"PENDING", "PENDING">>,
   <<"ACTIVE", "AMEND_PENDING">>,   <<"AMEND_PENDING", "ACTIVE">>,
   <<"AMEND_PENDING", "CANCELED">>, <<"AMEND_PENDING", "CHECKING">>,
   <<"ACTIVE", "CHECKING">>,        <<"CHECKING", "COMPLETED">>,
   <<"CHECKING", "BROKEN">>,        <<"CHECKING", "DISPUTED">>,
   <<"CHECKING", "UNRESOLVED">>,    <<"DISPUTED", "CHECKING">>,
   <<"DISPUTED", "DISPUTED">>}

(* Rows that may disappear before anybody agreed to anything: a draft, or  *)
(* a pending promise its creator takes back.                               *)
Deletions == {"DRAFT", "PENDING"} \X {NoRow}

(* Saving and sending in one transaction: T-01 and T-02 together. *)
Composed == {<<NoRow, "PENDING">>}

Allowed == Transitions \cup Deletions \cup Composed

Init == status = [p \in Promises |-> NoRow]

(* Every row either stays as it is or takes an entry of the table. *)
Step ==
  /\ status' \in [Promises -> Statuses \cup {NoRow}]
  /\ \A p \in Promises :
       \/ status'[p] = status[p]
       \/ <<status[p], status'[p]>> \in Allowed

Spec == Init /\ [][Step]_status
=============================================================================
