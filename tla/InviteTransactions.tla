-------------------------- MODULE InviteTransactions --------------------------
(***************************************************************************)
(* The functions of Agreement that touch an invitation, statement by       *)
(* statement, as PostgreSQL runs them under READ COMMITTED: every          *)
(* statement reads what is committed when it starts, an UPDATE or a SELECT *)
(* FOR UPDATE waits for the row's lock and then looks at the row again,    *)
(* all locks go at the end of the transaction.  A session is one           *)
(* connection; it runs one call after another.                             *)
(*                                                                         *)
(* A transaction that needs no further lock commits in that same step: what*)
(* other sessions read in between is what they could have read before it.  *)
(* Uncommitted writes are not stored: they follow from the locks a session *)
(* holds and are applied when it commits.                                  *)
(*                                                                         *)
(* One creator, whose slots are counted; answers come from one partner.    *)
(* Dates and the limits on drafts and resends are those of Agreement.      *)
(***************************************************************************)
EXTENDS Integers, FiniteSets

CONSTANTS
  Devices,     \* sessions that run the creator's calls
  Answerers,   \* sessions that answer links
  Workload,    \* the kinds of calls the devices make in an instance
  Promises,
  Texts,       \* what a promise can say
  NoText,
  Nobody,      \* no session
  Capacity,    \* lf_slot_capacity of the creator
  MaxLinks     \* bound of the model: rows in invitations

Sessions == Devices \cup Answerers
LinkIds == 1 .. MaxLinks

VARIABLES
  status,     \* promises.status, committed
  text,       \* promise_versions, version 1, committed
  sealed,     \* its content_hash, once activated_at is set
  link,       \* invitations, committed
  holdsSlot,  \* the session that holds the creator's slot lock
  holdsRow,   \* the sessions that hold the row locks of promises
  holdsLink,  \* and of invitations
  pc, call,   \* where a session is, in which call
  todo,       \* the rows its statement still has to visit
  terms       \* v_ver as an answer read it

tables == <<status, text, sealed, link>>
locks == <<holdsSlot, holdsRow, holdsLink>>
vars == <<tables, locks, pc, call, todo, terms>>
-----------------------------------------------------------------------------
NoRow == "NO_ROW"
Gone == "GONE"      \* a row that was deleted; its id is not given out again
Statuses == {"DRAFT", "PENDING", "ACTIVE", "DECLINED"}
NoPromise == "NONE"
Link == [promise : Promises, state : {"PENDING", "USED", "REVOKED"}]
NoLink == [promise |-> NoPromise, state |-> "NONE"]
Deleted == [promise |-> NoPromise, state |-> "DELETED"]

(* What the constants must be; the MC modules assume it of their values. *)
ConstantsFit ==
  /\ Nobody \notin Sessions /\ Devices \cap Answerers = {}
  /\ NoPromise \notin Promises
  /\ {Capacity, MaxLinks} \subseteq Nat

Answers == {"APPROVE", "DECLINE", "AMEND_SUGGEST"}
Becomes == [APPROVE |-> "ACTIVE", DECLINE |-> "DECLINED", AMEND_SUGGEST |-> "DRAFT"]

CreatorCalls ==
  [kind : {"CREATE_DRAFT", "CREATE", "SAVE", "UPDATE"}, on : Promises, with : Texts]
  \cup [kind : {"SEND", "REVOKE", "DELETE"}, on : Promises, with : {NoText}]
AnswerCalls == [kind : Answers, on : LinkIds, with : {NoText}]
NoCall == [kind |-> "NONE", on |-> NoPromise, with |-> NoText]

LinksOf(p) == {i \in LinkIds : link[i].promise = p}
Live(p) == {i \in LinksOf(p) : link[i].state = "PENDING"}
Held == {p \in Promises : status[p] \in {"PENDING", "ACTIVE"}}
Mine(s) == {i \in LinkIds : holdsLink[i] = s}

FreeFor(holder, s) == holder \in {Nobody, s}

StartOfRowFirst ==
  [CREATE_DRAFT |-> "insert", CREATE |-> "slot", SAVE |-> "rewrite", UPDATE |-> "slot",
   SEND |-> "read", REVOKE |-> "scan", DELETE |-> "lockRow",
   APPROVE |-> "lockLink", DECLINE |-> "lockLink", AMEND_SUGGEST |-> "lockLink"]

StartOfSlotLate ==
  [CREATE_DRAFT |-> "insert", CREATE |-> "slot", SAVE |-> "rewrite", UPDATE |-> "rewrite",
   SEND |-> "read", REVOKE |-> "scan", DELETE |-> "scan",
   APPROVE |-> "lockLink", DECLINE |-> "lockLink", AMEND_SUGGEST |-> "lockLink"]

(* The statement each call starts with. *)
StartOf ==
  [CREATE_DRAFT |-> "insert", CREATE |-> "slot", SAVE |-> "rewrite", UPDATE |-> "slot",
   SEND |-> "read", REVOKE |-> "scan", DELETE |-> "scan",
   APPROVE |-> "lockLink", DECLINE |-> "lockLink", AMEND_SUGGEST |-> "lockLink"]

Init ==
  /\ status = [p \in Promises |-> NoRow]
  /\ text = [p \in Promises |-> NoText]
  /\ sealed = [p \in Promises |-> NoText]
  /\ link = [i \in LinkIds |-> NoLink]
  /\ holdsSlot = Nobody
  /\ holdsRow = [p \in Promises |-> Nobody]
  /\ holdsLink = [i \in LinkIds |-> Nobody]
  /\ pc = [s \in Sessions |-> "idle"]
  /\ call = [s \in Sessions |-> NoCall]
  /\ todo = [s \in Sessions |-> {}]
  /\ terms = [s \in Sessions |-> NoText]
-----------------------------------------------------------------------------
(* COMMIT and ROLLBACK let go of every lock. *)
Release(s) ==
  /\ holdsSlot' = IF holdsSlot = s THEN Nobody ELSE holdsSlot
  /\ holdsRow' = [p \in Promises |-> IF holdsRow[p] = s THEN Nobody ELSE holdsRow[p]]
  /\ holdsLink' = [i \in LinkIds |-> IF holdsLink[i] = s THEN Nobody ELSE holdsLink[i]]
  /\ pc' = [pc EXCEPT ![s] = "idle"]
  /\ call' = [call EXCEPT ![s] = NoCall]
  /\ todo' = [todo EXCEPT ![s] = {}]
  /\ terms' = [terms EXCEPT ![s] = NoText]

FailKeepingLocks(s) ==
  /\ pc' = [pc EXCEPT ![s] = "idle"]
  /\ call' = [call EXCEPT ![s] = NoCall]
  /\ UNCHANGED <<tables, locks, todo, terms>>

Fail(s) == Release(s) /\ UNCHANGED tables

Go(s, label) == pc' = [pc EXCEPT ![s] = label]

(* A client starts a call: a creation gets an id of its own, every other   *)
(* call names a promise that has been created.  The model stops issuing    *)
(* when it runs out of link rows (MaxLinks).                               *)
Creating == {"CREATE_DRAFT", "CREATE"}
Issuing == {"CREATE", "UPDATE", "SEND"}
Named(c) ==
  IF c.kind \in Creating
  THEN status[c.on] = NoRow /\ \A t \in Sessions : call[t].on # c.on
  ELSE status[c.on] # NoRow
Unused == {i \in LinkIds : link[i] = NoLink}

Begin(s) ==
  /\ pc[s] = "idle"
  /\ \E c \in IF s \in Devices
             THEN {a \in CreatorCalls : a.kind \in Workload /\ Named(a)}
             ELSE {a \in AnswerCalls : link[a.on] # NoLink} :
        /\ c.kind \in Issuing => Cardinality({t \in Sessions : call[t].kind \in Issuing})
                                   < Cardinality(Unused)
        /\ call' = [call EXCEPT ![s] = c]
        /\ Go(s, StartOf[c.kind])
  /\ UNCHANGED <<tables, locks, todo, terms>>

(* lf_slot_lock: an advisory lock, before any row *)
TakeSlot(s) ==
  /\ pc[s] = "slot"
  /\ FreeFor(holdsSlot, s)
  /\ holdsSlot' = s
  /\ Go(s, IF call[s].kind = "CREATE" THEN "insert" ELSE "rewrite")
  /\ UNCHANGED <<tables, holdsRow, holdsLink, call, todo, terms>>

SlotFree == Cardinality(Held) < Capacity

(* The next invitation; the rows this session revoked change with it. *)
Issue(s, p) ==
  link' = [i \in LinkIds |->
       IF i \in Unused /\ \A j \in Unused : i <= j THEN [promise |-> p, state |-> "PENDING"]
       ELSE IF i \in Mine(s) THEN [link[i] EXCEPT !.state = "REVOKED"]
       ELSE link[i]]

(* lf_promise_create: rows nobody else can see yet. *)
Insert(s) ==
  LET p == call[s].on IN
  /\ pc[s] = "insert"
  /\ \/ /\ call[s].kind = "CREATE" => SlotFree
        /\ text' = [text EXCEPT ![p] = call[s].with]
        /\ IF call[s].kind = "CREATE"
           THEN status' = [status EXCEPT ![p] = "PENDING"] /\ Issue(s, p)
           ELSE status' = [status EXCEPT ![p] = "DRAFT"] /\ UNCHANGED link
        /\ UNCHANGED sealed
        /\ Release(s)
     \/ call[s].kind = "CREATE" /\ ~SlotFree /\ Fail(s)

(* lf_promise_draft_update up to the second of its two updates. *)
Rewrite(s) ==
  LET p == call[s].on IN
  /\ pc[s] = "rewrite"
  /\ \/ status[p] # "DRAFT" /\ Fail(s)
     \/ /\ status[p] = "DRAFT" /\ FreeFor(holdsRow[p], s)
        /\ call[s].kind = "SAVE"
        /\ text' = [text EXCEPT ![p] = call[s].with]
        /\ UNCHANGED <<status, sealed, link>>
        /\ Release(s)
     \/ /\ status[p] = "DRAFT" /\ FreeFor(holdsRow[p], s)
        /\ call[s].kind = "UPDATE"
        /\ holdsRow' = [holdsRow EXCEPT ![p] = s]
        /\ Go(s, "count")
        /\ UNCHANGED <<tables, holdsSlot, holdsLink, call, todo, terms>>

(* lf_invite_issue_row: v_status, read without a lock *)
ReadStatus(s) ==
  LET p == call[s].on IN
  /\ pc[s] = "read"
  /\ \/ /\ status[p] = "DRAFT" /\ Go(s, "count")
        /\ UNCHANGED <<tables, locks, call, todo, terms>>
     \/ /\ status[p] = "PENDING" /\ Go(s, "scan")
        /\ UNCHANGED <<tables, locks, call, todo, terms>>
     \/ status[p] \notin {"DRAFT", "PENDING"} /\ Fail(s)

CountSlotsOnly(s) ==
  /\ pc[s] = "count"
  /\ \/ SlotFree /\ Go(s, "scan") /\ UNCHANGED <<tables, locks, call, todo, terms>>
     \/ ~SlotFree /\ Fail(s)

(* lf_assert_slot_available: the slot lock, held already or not, and the   *)
(* count under it                                                          *)
CountSlots(s) ==
  /\ pc[s] = "count"
  /\ FreeFor(holdsSlot, s)
  /\ \/ /\ SlotFree
        /\ holdsSlot' = s
        /\ Go(s, "scan")
        /\ UNCHANGED <<tables, holdsRow, holdsLink, call, todo, terms>>
     \/ ~SlotFree /\ Fail(s)

(* The snapshot of a statement that will lock links. *)
Scan(s) ==
  LET p == call[s].on IN
  /\ pc[s] = "scan"
  /\ todo' = [todo EXCEPT ![s] = IF call[s].kind = "DELETE" THEN LinksOf(p) ELSE Live(p)]
  /\ Go(s, "lockLinks")
  /\ UNCHANGED <<tables, locks, call, terms>>

(* It visits the rows of its snapshot, waiting for each, and keeps those   *)
(* that still match: all of them (a deletion in order of age), or for      *)
(* invite-revoke the first.                                                *)
LockLinks(s) ==
  /\ pc[s] = "lockLinks"
  /\ \E i \in todo[s] :
       /\ call[s].kind = "DELETE" => \A j \in todo[s] : i <= j
       /\ FreeFor(holdsLink[i], s)
       /\ LET matches == IF call[s].kind = "DELETE" THEN link[i] # NoLink
                         ELSE link[i].state = "PENDING"
          IN  /\ holdsLink' = IF matches THEN [holdsLink EXCEPT ![i] = s] ELSE holdsLink
              /\ todo' = [todo EXCEPT ![s] =
                   IF matches /\ call[s].kind = "REVOKE" THEN {} ELSE @ \ {i}]
  /\ UNCHANGED <<tables, holdsSlot, holdsRow, pc, call, terms>>

LinksLocked(s) ==
  /\ pc[s] = "lockLinks"
  /\ todo[s] = {}
  /\ Go(s, CASE call[s].kind = "REVOKE" -> "unsend"
             [] call[s].kind = "DELETE" -> "lockRow"
             [] call[s].kind \in {"SEND", "UPDATE"} -> "issue")
  /\ UNCHANGED <<tables, locks, call, todo, terms>>

IssueRowUnconditionally(s) ==
  LET p == call[s].on IN
  /\ pc[s] = "issue"
  /\ FreeFor(holdsRow[p], s)
  /\ Issue(s, p)
  /\ status' = [status EXCEPT ![p] = "PENDING"]
  /\ text' = IF call[s].kind = "UPDATE" THEN [text EXCEPT ![p] = call[s].with] ELSE text
  /\ UNCHANGED sealed
  /\ Release(s)

(* lf_invite_issue_row: the insert and the conditional update of promises *)
IssueRow(s) ==
  LET p == call[s].on IN
  /\ pc[s] = "issue"
  /\ FreeFor(holdsRow[p], s)
  /\ \/ /\ status[p] \in {"DRAFT", "PENDING"}
        /\ Issue(s, p)
        /\ status' = [status EXCEPT ![p] = "PENDING"]
        /\ text' = IF call[s].kind = "UPDATE" THEN [text EXCEPT ![p] = call[s].with] ELSE text
        /\ UNCHANGED sealed
        /\ Release(s)
     \/ status[p] \notin {"DRAFT", "PENDING"} /\ Fail(s)

(* lf_invite_revoke: the status is read, not locked *)
Unsend(s) ==
  /\ pc[s] = "unsend"
  /\ \/ /\ status[call[s].on] = "PENDING" /\ Mine(s) # {}
        /\ link' = [i \in LinkIds |-> IF i \in Mine(s) THEN [link[i] EXCEPT !.state = "REVOKED"]
                                                       ELSE link[i]]
        /\ UNCHANGED <<status, text, sealed>>
        /\ Release(s)
     \/ (status[call[s].on] # "PENDING" \/ Mine(s) = {}) /\ Fail(s)

(* lf_promise_pending_delete: the row, then everything that hangs on it *)
LockRow(s) ==
  LET p == call[s].on IN
  /\ pc[s] = "lockRow"
  /\ FreeFor(holdsRow[p], s)
  /\ \/ /\ status[p] = "PENDING"
        /\ holdsRow' = [holdsRow EXCEPT ![p] = s]
        /\ Go(s, "erase")
        /\ UNCHANGED <<tables, holdsSlot, holdsLink, call, todo, terms>>
     \/ status[p] # "PENDING" /\ Fail(s)

Erase(s) ==
  LET p == call[s].on IN
  /\ pc[s] = "erase"
  /\ \A i \in LinksOf(p) : FreeFor(holdsLink[i], s)
  /\ status' = [status EXCEPT ![p] = Gone]
  /\ text' = [text EXCEPT ![p] = NoText]
  /\ link' = [i \in LinkIds |-> IF i \in LinksOf(p) THEN Deleted ELSE link[i]]
  /\ UNCHANGED sealed
  /\ Release(s)
-----------------------------------------------------------------------------
LockLinkInAnyState(s) ==
  LET i == call[s].on IN
  /\ pc[s] = "lockLink"
  /\ FreeFor(holdsLink[i], s)
  /\ \/ /\ link[i] # Deleted
        /\ holdsLink' = [holdsLink EXCEPT ![i] = s]
        /\ Go(s, "readTerms")
        /\ UNCHANGED <<tables, holdsSlot, holdsRow, call, todo, terms>>
     \/ link[i] = Deleted /\ Fail(s)

(* lf_promise_approve and lf_invite_lock_for_response *)
LockLink(s) ==
  LET i == call[s].on IN
  /\ pc[s] = "lockLink"
  /\ FreeFor(holdsLink[i], s)
  /\ \/ /\ link[i].state = "PENDING"
        /\ holdsLink' = [holdsLink EXCEPT ![i] = s]
        /\ Go(s, "readTerms")
        /\ UNCHANGED <<tables, holdsSlot, holdsRow, call, todo, terms>>
     \/ link[i].state # "PENDING" /\ Fail(s)

(* v_ver: the version that is not active yet, read without a lock *)
ReadTerms(s) ==
  LET p == link[call[s].on].promise IN
  /\ pc[s] = "readTerms"
  /\ \/ /\ sealed[p] = NoText
        /\ terms' = [terms EXCEPT ![s] = text[p]]
        /\ Go(s, "answer")
        /\ UNCHANGED <<tables, locks, call, todo>>
     \/ sealed[p] # NoText /\ Fail(s)

(* The conditional update of promises, then everything else the answer writes. *)
AnswerLink(s) ==
  LET i == call[s].on
      p == link[i].promise
      a == call[s].kind
  IN
  /\ pc[s] = "answer"
  /\ FreeFor(holdsRow[p], s)
  /\ \/ /\ status[p] = "PENDING"
        /\ status' = [status EXCEPT ![p] = Becomes[a]]
        /\ sealed' = IF a = "APPROVE" THEN [sealed EXCEPT ![p] = terms[s]] ELSE sealed
        /\ link' = [link EXCEPT ![i].state = "USED"]
        /\ UNCHANGED text
        /\ Release(s)
     \/ status[p] # "PENDING" /\ Fail(s)
-----------------------------------------------------------------------------
Step(s) ==
  \/ TakeSlot(s) \/ Insert(s) \/ Rewrite(s) \/ ReadStatus(s) \/ CountSlots(s)
  \/ Scan(s) \/ LockLinks(s) \/ LinksLocked(s) \/ IssueRow(s) \/ Unsend(s)
  \/ LockRow(s) \/ Erase(s) \/ LockLink(s) \/ ReadTerms(s) \/ AnswerLink(s)

Next == \E s \in Sessions : Begin(s) \/ Step(s)

(* Lock queues are served in turn, and a started call runs to its end. *)
Fairness == \A s \in Sessions : SF_vars(Step(s))

Spec == Init /\ [][Next]_vars /\ Fairness
-----------------------------------------------------------------------------
(* Type invariant. *)
TypeOK ==
  /\ status \in [Promises -> Statuses \cup {NoRow, Gone}]
  /\ text \in [Promises -> Texts \cup {NoText}]
  /\ sealed \in [Promises -> Texts \cup {NoText}]
  /\ link \in [LinkIds -> Link \cup {NoLink, Deleted}]
  /\ holdsSlot \in Devices \cup {Nobody}
  /\ holdsRow \in [Promises -> Sessions \cup {Nobody}]
  /\ holdsLink \in [LinkIds -> Sessions \cup {Nobody}]
  /\ todo \in [Sessions -> SUBSET LinkIds]
  /\ terms \in [Sessions -> Texts \cup {NoText}]

(* Two answers to the same promise race for its links; what the winner     *)
(* seals is the text the promise holds, though approve reads the text      *)
(* before it holds the promise's row.                                      *)
SealedIsText ==
  \A p \in Promises : status[p] = "ACTIVE" => sealed[p] = text[p]

(* Reissuing, revoking and answering never leave two links out. *)
OneLiveLink == \A p \in Promises : Cardinality(Live(p)) <= 1

(* The creator never has more promises in slots than slots. *)
SlotsBounded == Cardinality(Held) <= Capacity

(* The sessions that hold a lock s waits for, now or before it can finish  *)
(* its statement.                                                          *)
Holders(s) ==
  CASE pc[s] \in {"slot", "count"} -> {holdsSlot}
    [] pc[s] = "lockLinks" -> {holdsLink[i] : i \in todo[s]}
    [] pc[s] = "lockLink" -> {holdsLink[call[s].on]}
    [] pc[s] \in {"rewrite", "issue", "lockRow"} -> {holdsRow[call[s].on]}
    [] pc[s] = "answer" -> {holdsRow[link[call[s].on].promise]}
    [] pc[s] = "erase" -> {holdsLink[i] : i \in LinksOf(call[s].on)}
    [] OTHER -> {}

WaitsFor(s) == Holders(s) \ {s, Nobody}

(* The lock order (slot, links, promise) leaves no group of calls in which *)
(* everyone waits for another one of the group.                            *)
NoWaitCycle ==
  \A group \in (SUBSET Sessions) \ {{}} : \E s \in group : WaitsFor(s) \cap group = {}

(* Every call comes to an answer, an error or a commit. *)
EveryCallReturns == \A s \in Sessions : []<>(pc[s] = "idle")

(* What is committed moves only along the shared transition table. *)
Rows == [p \in Promises |-> IF status[p] = Gone THEN NoRow ELSE status[p]]
PL == INSTANCE PromiseLifecycle WITH status <- Rows
ImplementsLifecycle == PL!Spec
=============================================================================
