----------------------------- MODULE Fulfillment -----------------------------
(***************************************************************************)
(* What becomes of a promise once both have agreed: requests to amend,     *)
(* cancel or finish it, the check after its end date, disputes and their   *)
(* reopening, and the three daily batches.  One action per server function *)
(* or batch, each one transaction.                                         *)
(*                                                                         *)
(* Tables and what stands for them                                         *)
(*   promises            status, terms (end_date and keeper), current,     *)
(*                       round (check_round_no), deadline                  *)
(*   promise_versions    version: 0 is the one both signed first, r the    *)
(*                       proposal of the r-th request                      *)
(*   amend_requests      requests, in the order they were made; expires_at *)
(*                       only as long as the request is pending            *)
(*   fulfillment_checks  check[p][n][u]: u's answer in round n             *)
(*   trust_profiles      profile                                           *)
(*   users.status        account                                           *)
(*                                                                         *)
(* A day has four parts, divided by the batches: J-02 at 00:10, J-03 at    *)
(* 00:20, J-05 at 00:30.  Times of day count as the part they fall into.   *)
(***************************************************************************)
EXTENDS Integers, Sequences, FiniteSets

CONSTANTS
  Parties,     \* the creator and the partner
  Promises,
  NoDate,      \* end_date is null
  CheckDays,   \* check_deadline_days
  AmendDays,   \* lf_amend_auto_withdraw_days
  EndDates,    \* bound of the model: the dates people agree on
  Keepers,     \* bound of the model: who is to keep a promise
  Leavers,     \* bound of the model: who may give up the account
  LastDay,     \* bound of the model: the calendar ends here
  MaxRounds,   \* bound of the model: rounds of checks
  MaxRequests, \* bound of the model: requests on one promise
  MaxMissed    \* bound of the model: runs of a batch that do not happen

ASSUME FulfillmentConstants ==
  /\ CheckDays \in Nat /\ AmendDays \in Nat
  /\ LastDay \in Nat /\ MaxRounds \in Nat \ {0} /\ MaxRequests \in Nat
  /\ MaxMissed \in Nat
  /\ NoDate \notin Nat
  /\ EndDates \subseteq 0 .. LastDay
  /\ Keepers \subseteq SUBSET Parties /\ Leavers \subseteq Parties
  /\ IsFiniteSet(Promises)
  /\ \E u, v \in Parties : u # v /\ Parties = {u, v}

VARIABLES today, clock, missed,
          status, terms, current, round, deadline,
          version, requests, check, profile, account

calendar == <<today, clock, missed>>
promise == <<status, terms, current, round, deadline>>
vars == <<calendar, promise, version, requests, check, profile, account>>
-----------------------------------------------------------------------------
Statuses == {"ACTIVE", "AMEND_PENDING", "CHECKING", "COMPLETED", "BROKEN",
             "DISPUTED", "UNRESOLVED", "CANCELED"}
Days == 0 .. LastDay
Clock == 0 .. 3
Midnight(d) == 4 * d
Now == Midnight(today) + clock
Times == 0 .. Midnight(LastDay + CheckDays + AmendDays + 1)

NotBefore(date, d) == date # NoDate => date >= d

Terms == [end : EndDates \cup {NoDate}, keeper : Keepers]
Versions == 0 .. MaxRequests
Version == [terms : Terms, stage : {"PROPOSED", "IN_FORCE", "SUPERSEDED"}]
NoVersion == [terms |-> [end |-> NoDate, keeper |-> {}], stage |-> "NONE"]

Request == [by : Parties, type : {"AMEND", "CANCEL", "FINISH"}, expires : Times,
            status : {"PENDING", "APPROVED", "DECLINED", "WITHDRAWN", "EXPIRED"},
            responder : SUBSET Parties]

Rounds == 1 .. MaxRounds
Answers == {"KEPT", "NOT_KEPT"}
Check == [answer : Answers \cup {"NONE"}, revised : BOOLEAN]
NoCheck == [answer |-> "NONE", revised |-> FALSE]

Other(u) == CHOOSE v \in Parties : v # u
AnswerOf(p, u) == check[p][round[p]][u].answer
Answered(p) == {u \in Parties : AnswerOf(p, u) # "NONE"}

Pending(p) == {r \in DOMAIN requests[p] : requests[p][r].status = "PENDING"}

(* The promises a profile counts; u's own share of the verdicts (keeper).  *)
Rows(st, s) == {p \in Promises : st[p] = s}
Kept(st, s, u) == {p \in Rows(st, s) : u \in terms[p].keeper}
Tally(st) ==
  [u \in Parties |->
     [completed  |-> Cardinality(Kept(st, "COMPLETED", u)),
      broken     |-> Cardinality(Kept(st, "BROKEN", u)),
      disputed   |-> Cardinality(Rows(st, "DISPUTED")),
      unresolved |-> Cardinality(Rows(st, "UNRESOLVED"))]]

(* lf_recompute_promise_trust_profiles, once a row has reached or left a   *)
(* verdict; every promise is the creator's and the partner's.              *)
Recompute == profile' = Tally(status')
RecomputeIf(changed) == profile' = IF changed THEN Tally(status') ELSE profile

(* Promises that have just been activated, on the first day. *)
Init ==
  /\ today = 0 /\ clock = 3 /\ missed = 0
  /\ status = [p \in Promises |-> "ACTIVE"]
  /\ terms \in [Promises -> Terms]
  /\ current = [p \in Promises |-> 0]
  /\ round = [p \in Promises |-> 1]
  /\ deadline = [p \in Promises |-> 0]
  /\ version = [p \in Promises |-> [r \in Versions |->
                 IF r = 0 THEN [terms |-> terms[p], stage |-> "IN_FORCE"] ELSE NoVersion]]
  /\ requests = [p \in Promises |-> <<>>]
  /\ check = [p \in Promises |-> [n \in Rounds |-> [u \in Parties |-> NoCheck]]]
  /\ profile = Tally(status)
  /\ account = [u \in Parties |-> "ACTIVE"]
-----------------------------------------------------------------------------
(* Requests                                                                *)

(* A new row in amend_requests; the unique index refuses a second pending  *)
(* one, the status a request while another is open.                        *)
Ask(u, p, type) ==
  /\ account[u] = "ACTIVE"
  /\ status[p] = "ACTIVE"
  /\ Pending(p) = {}
  /\ Len(requests[p]) < MaxRequests
  /\ requests' = [requests EXCEPT ![p] = Append(@,
       [by |-> u, type |-> type, expires |-> Now + Midnight(AmendDays),
        status |-> "PENDING", responder |-> {}])]
  /\ status' = [status EXCEPT ![p] = "AMEND_PENDING"]
  /\ UNCHANGED <<calendar, terms, current, round, deadline, check, profile, account>>

(* The proposal must change something and end after today. *)
RequestAmend(u, p, t) ==
  /\ t # version[p][current[p]].terms
  /\ NotBefore(t.end, today + 1)
  /\ Ask(u, p, "AMEND")
  /\ version' = [version EXCEPT ![p][Len(requests[p]) + 1] =
                   [terms |-> t, stage |-> "PROPOSED"]]

RequestCancel(u, p) == Ask(u, p, "CANCEL") /\ UNCHANGED version

(* promise-finish-request: only for a promise without an end date *)
RequestFinish(u, p) ==
  /\ terms[p].end = NoDate
  /\ Ask(u, p, "FINISH")
  /\ UNCHANGED version

MayRespondOneself(u, p, r) ==
  /\ account[u] = "ACTIVE"
  /\ status[p] = "AMEND_PENDING"
  /\ r \in Pending(p)
  /\ requests[p][r].expires > Now

(* Who may respond: the other party, in time. *)
MayRespond(u, p, r) ==
  /\ account[u] = "ACTIVE"
  /\ status[p] = "AMEND_PENDING"
  /\ r \in Pending(p)
  /\ requests[p][r].by # u
  /\ requests[p][r].expires > Now

Closed(request, s, by) == [request EXCEPT !.status = s, !.responder = by, !.expires = 0]

Settle(p, r, u, s) == requests' = [requests EXCEPT ![p][r] = Closed(@, s, {u})]

Decline(u, p, r) ==
  /\ MayRespond(u, p, r)
  /\ Settle(p, r, u, "DECLINED")
  /\ status' = [status EXCEPT ![p] = "ACTIVE"]
  /\ UNCHANGED <<calendar, terms, current, round, deadline, version, check, profile, account>>

(* The proposal takes the place of the version in force, unless its end    *)
(* date has gone by in the meantime.                                       *)
ApproveAmend(u, p, r) ==
  LET t == version[p][r].terms IN
  /\ MayRespond(u, p, r)
  /\ requests[p][r].type = "AMEND"
  /\ NotBefore(t.end, today)
  /\ Settle(p, r, u, "APPROVED")
  /\ version' = [version EXCEPT ![p][current[p]].stage = "SUPERSEDED",
                                ![p][r].stage = "IN_FORCE"]
  /\ current' = [current EXCEPT ![p] = r]
  /\ terms' = [terms EXCEPT ![p] = t]
  /\ status' = [status EXCEPT ![p] = "ACTIVE"]
  /\ UNCHANGED <<calendar, round, deadline, check, profile, account>>

ApproveCancel(u, p, r) ==
  /\ MayRespond(u, p, r)
  /\ requests[p][r].type = "CANCEL"
  /\ Settle(p, r, u, "APPROVED")
  /\ status' = [status EXCEPT ![p] = "CANCELED"]
  /\ UNCHANGED <<calendar, terms, current, round, deadline, version, check, profile, account>>

(* promise-finish-respond: the check starts at once *)
ApproveFinish(u, p, r) ==
  /\ MayRespond(u, p, r)
  /\ requests[p][r].type = "FINISH"
  /\ Settle(p, r, u, "APPROVED")
  /\ status' = [status EXCEPT ![p] = "CHECKING"]
  /\ deadline' = [deadline EXCEPT ![p] = Now + Midnight(CheckDays)]
  /\ UNCHANGED <<calendar, terms, current, round, version, check, profile, account>>

WithdrawRequest(u, p, r) ==
  /\ account[u] = "ACTIVE"
  /\ status[p] = "AMEND_PENDING"
  /\ r \in Pending(p)
  /\ requests[p][r].by = u
  /\ requests[p][r].expires > Now
  /\ Settle(p, r, u, "WITHDRAWN")
  /\ status' = [status EXCEPT ![p] = "ACTIVE"]
  /\ UNCHANGED <<calendar, terms, current, round, deadline, version, check, profile, account>>
-----------------------------------------------------------------------------
(* Checks                                                                  *)

(* The verdict of two answers. *)
Verdict(a, b) ==
  CASE a = "KEPT" /\ b = "KEPT" -> "COMPLETED"
    [] a = "NOT_KEPT" /\ b = "NOT_KEPT" -> "BROKEN"
    [] OTHER -> "DISPUTED"

MayAnswer(u, p) ==
  /\ account[u] = "ACTIVE"
  /\ status[p] = "CHECKING"
  /\ Now < deadline[p]

SubmitOnAnyRound(u, p, a) ==
  LET theirs == {check[p][n][Other(u)].answer : n \in Rounds} \ {"NONE"} IN
  /\ MayAnswer(u, p)
  /\ AnswerOf(p, u) = "NONE"
  /\ check' = [check EXCEPT ![p][round[p]][u].answer = a]
  /\ status' = [status EXCEPT ![p] = IF theirs = {} THEN "CHECKING"
                                     ELSE Verdict(a, CHOOSE b \in theirs : TRUE)]
  /\ RecomputeIf(theirs # {})
  /\ UNCHANGED <<calendar, terms, current, round, deadline, version, requests, account>>

(* fulfillment-submit: the second answer of the round decides. *)
Submit(u, p, a) ==
  /\ MayAnswer(u, p)
  /\ AnswerOf(p, u) = "NONE"
  /\ check' = [check EXCEPT ![p][round[p]][u].answer = a]
  /\ status' = [status EXCEPT ![p] =
       IF AnswerOf(p, Other(u)) = "NONE" THEN "CHECKING"
                                         ELSE Verdict(a, AnswerOf(p, Other(u)))]
  /\ RecomputeIf(AnswerOf(p, Other(u)) # "NONE")
  /\ UNCHANGED <<calendar, terms, current, round, deadline, version, requests, account>>

ReviseAgain(u, p, a) ==
  /\ MayAnswer(u, p)
  /\ AnswerOf(p, u) # "NONE"
  /\ AnswerOf(p, Other(u)) = "NONE"
  /\ check' = [check EXCEPT ![p][round[p]][u] = [answer |-> a, revised |-> TRUE]]
  /\ UNCHANGED <<calendar, promise, version, requests, profile, account>>

(* fulfillment-submit with p_revise: once, before the other has answered *)
Revise(u, p, a) ==
  /\ MayAnswer(u, p)
  /\ AnswerOf(p, u) # "NONE"
  /\ ~check[p][round[p]][u].revised
  /\ AnswerOf(p, Other(u)) = "NONE"
  /\ check' = [check EXCEPT ![p][round[p]][u] = [answer |-> a, revised |-> TRUE]]
  /\ UNCHANGED <<calendar, promise, version, requests, profile, account>>

StartRound(p) ==
  /\ round[p] < MaxRounds
  /\ status' = [status EXCEPT ![p] = "CHECKING"]
  /\ round' = [round EXCEPT ![p] = @ + 1]
  /\ deadline' = [deadline EXCEPT ![p] = Now + Midnight(CheckDays)]
  /\ UNCHANGED <<calendar, terms, current, version, requests, check, account>>

ReopenKeepingProfiles(u, p) ==
  /\ account[u] = "ACTIVE"
  /\ status[p] = "DISPUTED"
  /\ StartRound(p)
  /\ UNCHANGED profile

ReopenUnresolved(u, p) ==
  /\ account[u] = "ACTIVE"
  /\ status[p] \in {"DISPUTED", "UNRESOLVED"}
  /\ StartRound(p)
  /\ Recompute

(* fulfillment-reopen *)
Reopen(u, p) ==
  /\ account[u] = "ACTIVE"
  /\ status[p] = "DISPUTED"
  /\ StartRound(p)
  /\ Recompute
-----------------------------------------------------------------------------
(* Batches and the calendar                                                *)

Overdue(p) == status[p] = "ACTIVE" /\ terms[p].end # NoDate /\ terms[p].end < today

(* J-02: the window is counted from the day after the end date. *)
EnterChecking ==
  /\ clock = 0
  /\ clock' = 1
  /\ status' = [p \in Promises |-> IF Overdue(p) THEN "CHECKING" ELSE status[p]]
  /\ round' = [p \in Promises |-> IF Overdue(p) THEN 1 ELSE round[p]]
  /\ deadline' = [p \in Promises |-> IF Overdue(p)
                    THEN Midnight(terms[p].end + 1 + CheckDays) ELSE deadline[p]]
  /\ UNCHANGED <<today, missed, terms, current, version, requests, check, profile, account>>

Due(p) == status[p] = "CHECKING" /\ deadline[p] <= Now /\ Cardinality(Answered(p)) < 2

CloseDueChecksNobodyAnswered ==
  /\ clock = 1
  /\ clock' = 2
  /\ status' = [p \in Promises |->
       IF Due(p) /\ Answered(p) = {}
       THEN IF round[p] = 1 THEN "UNRESOLVED" ELSE "DISPUTED" ELSE status[p]]
  /\ RecomputeIf(\E p \in Promises : Due(p))
  /\ UNCHANGED <<today, missed, terms, current, round, deadline, version, requests, check,
                 account>>

(* J-03 *)
CloseDueChecks ==
  /\ clock = 1
  /\ clock' = 2
  /\ status' = [p \in Promises |->
       IF Due(p) THEN IF round[p] = 1 THEN "UNRESOLVED" ELSE "DISPUTED" ELSE status[p]]
  /\ RecomputeIf(\E p \in Promises : Due(p))
  /\ UNCHANGED <<today, missed, terms, current, round, deadline, version, requests, check,
                 account>>

Lapsed(p) == {r \in Pending(p) : status[p] = "AMEND_PENDING" /\ requests[p][r].expires <= Now}

Ended(p, rs, s, by) ==
  [r \in DOMAIN requests[p] |->
     IF r \in rs THEN Closed(requests[p][r], s, by) ELSE requests[p][r]]

ExpireToPending ==
  /\ clock = 2
  /\ clock' = 3
  /\ requests' = [p \in Promises |-> Ended(p, Lapsed(p), "EXPIRED", {})]
  /\ status' = [p \in Promises |-> IF Lapsed(p) # {} THEN "PENDING" ELSE status[p]]
  /\ UNCHANGED <<today, missed, terms, current, round, deadline, version, check, profile,
                 account>>

ExpireAmendmentsOnly ==
  LET lapsed(p) == {r \in Lapsed(p) : requests[p][r].type # "FINISH"} IN
  /\ clock = 2
  /\ clock' = 3
  /\ requests' = [p \in Promises |-> Ended(p, lapsed(p), "EXPIRED", {})]
  /\ status' = [p \in Promises |-> IF lapsed(p) # {} THEN "ACTIVE" ELSE status[p]]
  /\ UNCHANGED <<today, missed, terms, current, round, deadline, version, check, profile,
                 account>>

(* J-05 *)
ExpireAmendRequests ==
  /\ clock = 2
  /\ clock' = 3
  /\ requests' = [p \in Promises |-> Ended(p, Lapsed(p), "EXPIRED", {})]
  /\ status' = [p \in Promises |-> IF Lapsed(p) # {} THEN "ACTIVE" ELSE status[p]]
  /\ UNCHANGED <<today, missed, terms, current, round, deadline, version, check, profile,
                 account>>

(* A batch that does not run today. *)
MissRun ==
  /\ clock < 3 /\ missed < MaxMissed
  /\ clock' = clock + 1 /\ missed' = missed + 1
  /\ UNCHANGED <<today, promise, version, requests, check, profile, account>>

NextDay ==
  /\ clock = 3 /\ today < LastDay
  /\ today' = today + 1 /\ clock' = 0
  /\ UNCHANGED <<missed, promise, version, requests, check, profile, account>>

AccountWithdrawKeepingRequests(u) ==
  /\ account[u] = "ACTIVE"
  /\ account' = [account EXCEPT ![u] = "WITHDRAWN"]
  /\ status' = [p \in Promises |-> IF status[p] = "AMEND_PENDING" THEN "ACTIVE" ELSE status[p]]
  /\ UNCHANGED <<calendar, terms, current, round, deadline, version, requests, check, profile>>

(* account-withdraw: what it does to promises both have agreed on.  All of *)
(* them are u's, as creator or as partner.                                 *)
AccountWithdraw(u) ==
  /\ account[u] = "ACTIVE"
  /\ account' = [account EXCEPT ![u] = "WITHDRAWN"]
  /\ requests' = [p \in Promises |->
       IF status[p] = "AMEND_PENDING" THEN Ended(p, Pending(p), "WITHDRAWN", {u})
                                      ELSE requests[p]]
  /\ status' = [p \in Promises |-> IF status[p] = "AMEND_PENDING" THEN "ACTIVE" ELSE status[p]]
  /\ UNCHANGED <<calendar, terms, current, round, deadline, version, check, profile>>
-----------------------------------------------------------------------------
RequestStep(u, p) ==
  \/ \E t \in Terms : RequestAmend(u, p, t)
  \/ RequestCancel(u, p)
  \/ RequestFinish(u, p)
  \/ \E r \in DOMAIN requests[p] :
       \/ Decline(u, p, r) \/ WithdrawRequest(u, p, r)
       \/ ApproveAmend(u, p, r) \/ ApproveCancel(u, p, r) \/ ApproveFinish(u, p, r)

CheckStep(u, p) ==
  \/ \E a \in Answers : Submit(u, p, a) \/ Revise(u, p, a)
  \/ Reopen(u, p)

(* Time and the scheduler; nobody but they is bound to act. *)
Passing == EnterChecking \/ CloseDueChecks \/ ExpireAmendRequests \/ NextDay

Next ==
  \/ \E u \in Parties, p \in Promises : RequestStep(u, p) \/ CheckStep(u, p)
  \/ \E u \in Leavers : AccountWithdraw(u)
  \/ MissRun
  \/ Passing

Spec == Init /\ [][Next]_vars /\ WF_vars(Passing)
-----------------------------------------------------------------------------
(* Type invariant. *)
TypeOK ==
  /\ today \in Days /\ clock \in Clock /\ missed \in 0 .. MaxMissed
  /\ status \in [Promises -> Statuses]
  /\ terms \in [Promises -> Terms]
  /\ current \in [Promises -> Versions]
  /\ round \in [Promises -> Rounds]
  /\ deadline \in [Promises -> Times]
  /\ version \in [Promises -> [Versions -> Version \cup {NoVersion}]]
  /\ requests \in [Promises -> Seq(Request)]
  /\ \A p \in Promises : Len(requests[p]) <= MaxRequests
  /\ check \in [Promises -> [Rounds -> [Parties -> Check]]]
  /\ profile \in [Parties -> [completed : Nat, broken : Nat, disputed : Nat, unresolved : Nat]]
  /\ account \in [Parties -> {"ACTIVE", "WITHDRAWN"}]

(* The status says what the answers of the running round say: a verdict    *)
(* rests on both answers of its own round, an expiry on a missing one, and *)
(* no check stays open once both have answered (J-03 skips those).         *)
StatusFitsAnswers ==
  \A p \in Promises :
    LET everyone == Answered(p) = Parties
        verdicts == {Verdict(AnswerOf(p, u), AnswerOf(p, Other(u))) : u \in Parties}
    IN  CASE status[p] \in {"COMPLETED", "BROKEN"} -> everyone /\ verdicts = {status[p]}
          [] status[p] = "DISPUTED"   -> \/ everyone /\ verdicts = {"DISPUTED"}
                                         \/ ~everyone /\ round[p] > 1
          [] status[p] = "UNRESOLVED" -> ~everyone /\ round[p] = 1
          [] status[p] = "CHECKING"   -> ~everyone
          [] OTHER                    -> Answered(p) = {} /\ round[p] = 1

(* A promise is held exactly as long as one request is open: no request    *)
(* outlives the hold, where nothing would ever settle it and the unique    *)
(* index would block the next, and no hold outlives its request.           *)
HeldByOneRequest ==
  \A p \in Promises :
    Cardinality(Pending(p)) = IF status[p] = "AMEND_PENDING" THEN 1 ELSE 0

(* The terms a promise is judged by are those of its one version in force, *)
(* and a version that came by amendment was asked for by one party and     *)
(* approved by the other; so was a cancellation.                           *)
InForceIsAgreed ==
  \A p \in Promises :
    LET agreed(r, type) == /\ r \in DOMAIN requests[p]
                           /\ requests[p][r].type = type
                           /\ requests[p][r].status = "APPROVED"
                           /\ requests[p][r].responder = {Other(requests[p][r].by)}
    IN  /\ version[p][current[p]].terms = terms[p]
        /\ \A r \in Versions : version[p][r].stage = "IN_FORCE" <=> r = current[p]
        /\ current[p] # 0 => agreed(current[p], "AMEND")
        /\ status[p] = "CANCELED" => agreed(Len(requests[p]), "CANCEL")

(* The stored profiles are what the rows say, after every transaction. *)
ProfilesCurrent == profile = Tally(status)

(* Nobody changes an answer once the other one is in, or twice, or in a    *)
(* round that is over.                                                     *)
AnswersStand ==
  [][\A p \in Promises, n \in Rounds, u \in Parties :
        check[p][n][u].answer # "NONE" /\ check'[p][n][u] # check[p][n][u] =>
          /\ n = round[p] /\ status[p] = "CHECKING"
          /\ ~check[p][n][u].revised
          /\ check[p][n][Other(u)].answer = "NONE"]_vars

(* Every step is an entry of the transition table. *)
PL == INSTANCE PromiseLifecycle
FollowsLifecycle == [][PL!Step]_status

(* What is due by then is collected before the calendar ends, whatever was *)
(* missed: the batches run after midnight.                                 *)
WithinCalendar(t) == t <= Midnight(LastDay - MaxMissed)

(* Every round of checks ends: J-03 forgets none, whoever answered. *)
ChecksClose ==
  \A p \in Promises, n \in Rounds :
    status[p] = "CHECKING" /\ round[p] = n /\ WithinCalendar(deadline[p])
      ~> ~(status[p] = "CHECKING" /\ round[p] = n)

(* Every request ends, by an answer or by J-05: a promise is never held    *)
(* for good.                                                               *)
RequestsLapse ==
  \A p \in Promises, r \in 1 .. MaxRequests :
    r \in Pending(p) /\ WithinCalendar(requests[p][r].expires) ~> r \notin Pending(p)

(* The check window is CheckDays long from the moment the check opens.     *)
FullCheckWindow ==
  [][\A p \in Promises : status[p] # "CHECKING" /\ status'[p] = "CHECKING"
        => deadline'[p] >= Now + Midnight(CheckDays)]_vars
=============================================================================
