-------------------------- MODULE FulfillmentProofs --------------------------
(***************************************************************************)
(* Theorems about Fulfillment for every number of promises, every set of   *)
(* end dates and keepers, every length of the windows and of the calendar  *)
(* and every bound on rounds, requests and missed batches.                 *)
(***************************************************************************)
EXTENDS Fulfillment, TLAPS, FiniteSetTheorems

Verdicts == {"COMPLETED", "BROKEN", "DISPUTED", "UNRESOLVED"}

(* What holds of the rows of one promise.  StatusFitsAnswers does not say  *)
(* that the rounds to come are blank, and a reopening needs it; the        *)
(* versions need to know that an open request is the last one made, so     *)
(* that the request an approved version came by is never touched again.    *)
RowAnswers(p) ==
  /\ status[p] = "COMPLETED" => \A u \in Parties : AnswerOf(p, u) = "KEPT"
  /\ status[p] = "BROKEN" => \A u \in Parties : AnswerOf(p, u) = "NOT_KEPT"
  /\ status[p] = "DISPUTED" =>
       \/ \E u, v \in Parties : AnswerOf(p, u) = "KEPT" /\ AnswerOf(p, v) = "NOT_KEPT"
       \/ round[p] > 1 /\ \E u \in Parties : AnswerOf(p, u) = "NONE"
  /\ status[p] = "UNRESOLVED" => round[p] = 1
  /\ status[p] \in {"CHECKING", "UNRESOLVED"} => \E u \in Parties : AnswerOf(p, u) = "NONE"
  /\ status[p] \in {"ACTIVE", "AMEND_PENDING", "CANCELED"} =>
       round[p] = 1 /\ \A u \in Parties : AnswerOf(p, u) = "NONE"
  /\ \A n \in Rounds, u \in Parties : n > round[p] => check[p][n][u].answer = "NONE"

RowHeld(p) ==
  /\ status[p] = "AMEND_PENDING" => Len(requests[p]) \in Pending(p)
  /\ \A r \in Pending(p) : status[p] = "AMEND_PENDING" /\ r = Len(requests[p])

Agreed(p, r, type) ==
  /\ r \in DOMAIN requests[p]
  /\ requests[p][r].type = type
  /\ requests[p][r].status = "APPROVED"
  /\ requests[p][r].responder = {Other(requests[p][r].by)}

RowVersions(p) ==
  /\ version[p][current[p]].terms = terms[p]
  /\ \A r \in Versions : version[p][r].stage = "IN_FORCE" <=> r = current[p]
  /\ current[p] # 0 => Agreed(p, current[p], "AMEND")
  /\ status[p] = "CANCELED" => Agreed(p, Len(requests[p]), "CANCEL")
  /\ \A r \in Pending(p) : requests[p][r].type = "AMEND" => version[p][r].stage = "PROPOSED"

RowInv(p) == RowAnswers(p) /\ RowHeld(p) /\ RowVersions(p)

IInv == TypeOK /\ ProfilesCurrent /\ \A p \in Promises : RowInv(p)

SameRow(p) ==
  /\ status'[p] = status[p] /\ terms'[p] = terms[p] /\ current'[p] = current[p]
  /\ round'[p] = round[p] /\ version'[p] = version[p] /\ requests'[p] = requests[p]
  /\ check'[p] = check[p]
-----------------------------------------------------------------------------
(* Each party has exactly one counterpart. *)
LEMMA OtherParty ==
  ASSUME NEW u \in Parties
  PROVE  /\ Other(u) \in Parties /\ Other(u) # u
         /\ \A v \in Parties : v = u \/ v = Other(u)
  <1>1. \E v \in Parties : v # u
    BY FulfillmentConstants
  <1>2. Other(u) \in Parties /\ Other(u) # u
    BY <1>1 DEF Other
  <1> QED BY <1>2, FulfillmentConstants

(* A tally counts finite sets of promises. *)
LEMMA TallyType ==
  ASSUME NEW st
  PROVE  Tally(st) \in [Parties -> [completed : Nat, broken : Nat, disputed : Nat,
                                    unresolved : Nat]]
  <1>1. ASSUME NEW S \in SUBSET Promises
        PROVE  Cardinality(S) \in Nat
    BY <1>1, FulfillmentConstants, FS_Subset, FS_CardinalityType
  <1>2. \A s : Rows(st, s) \in SUBSET Promises
    BY DEF Rows
  <1>3. \A s, u : Kept(st, s, u) \in SUBSET Promises
    BY <1>2 DEF Kept
  <1> QED BY <1>1, <1>2, <1>3 DEF Tally

(* A profile stays current as long as no promise reaches or leaves a       *)
(* verdict and the keepers of those that have one stay the same ...        *)
LEMMA TallyKept ==
  ASSUME \A p \in Promises : status[p] \in Verdicts \/ status'[p] \in Verdicts =>
                               status'[p] = status[p] /\ terms'[p] = terms[p]
  PROVE  Tally(status)' = Tally(status)
  <1>1. \A s \in Verdicts : Rows(status, s)' = Rows(status, s)
    BY DEF Rows
  <1>2. \A u : \A s \in Verdicts : Kept(status, s, u)' = Kept(status, s, u)
    BY DEF Rows, Kept
  <1> QED BY <1>1, <1>2 DEF Tally, Verdicts

(* ... and a recount with the terms of this step counts the next state.    *)
LEMMA TallyNow ==
  ASSUME UNCHANGED terms
  PROVE  Tally(status)' = Tally(status')
  BY DEF Tally, Kept, Rows

LEMMA Unmoved ==
  ASSUME NEW p \in Promises, RowInv(p), SameRow(p)
  PROVE  RowInv(p)'
  BY DEF SameRow, RowInv, RowAnswers, RowHeld, RowVersions, AnswerOf, Pending, Agreed

LEMMA InitIInv == Init => IInv
  <1> SUFFICES ASSUME Init PROVE IInv
    OBVIOUS
  <1>1. TypeOK
    <2>1. 0 \in Times /\ 0 \in Versions /\ 1 \in Rounds /\ 0 \in Days /\ 3 \in Clock
      BY FulfillmentConstants DEF Times, Midnight, Versions, Rounds, Days, Clock
    <2>2. \A p \in Promises : [terms |-> terms[p], stage |-> "IN_FORCE"] \in Version
      BY DEF Init, Version
    <2>3. profile \in [Parties -> [completed : Nat, broken : Nat, disputed : Nat,
                                   unresolved : Nat]]
      BY TallyType DEF Init
    <2>4. requests \in [Promises -> Seq(Request)] /\ \A p \in Promises : Len(requests[p]) = 0
      BY DEF Init
    <2>5. check \in [Promises -> [Rounds -> [Parties -> Check]]]
      BY DEF Init, Check, NoCheck
    <2> QED BY <2>1, <2>2, <2>3, <2>4, <2>5, FulfillmentConstants DEF Init, TypeOK, Statuses
  <1>2. ASSUME NEW p \in Promises
        PROVE  RowInv(p)
    <2>1. Pending(p) = {}
      BY DEF Init, Pending
    <2>2. RowAnswers(p)
      BY FulfillmentConstants DEF Init, RowAnswers, AnswerOf, NoCheck, Rounds
    <2>3. RowVersions(p)
      BY <2>1, FulfillmentConstants DEF Init, RowVersions, Versions, NoVersion
    <2> QED BY <2>1, <2>2, <2>3 DEF RowInv, RowHeld, Init
  <1> QED BY <1>1, <1>2 DEF IInv, ProfilesCurrent, Init

(* A step that moves the row of one promise only. *)
LEMMA OneRow ==
  ASSUME IInv, TypeOK', ProfilesCurrent', NEW p \in Promises, RowInv(p)',
         \A q \in Promises \ {p} : SameRow(q)
  PROVE  IInv'
  <1>1. ASSUME NEW q \in Promises \ {p}
        PROVE  RowInv(q)'
    BY <1>1, Unmoved DEF IInv
  <1> QED BY <1>1 DEF IInv
-----------------------------------------------------------------------------
(* Requests                                                                *)

LEMMA TimesOf ==
  ASSUME TypeOK
  PROVE  /\ Now \in Times /\ 0 \in Times
         /\ Now + Midnight(AmendDays) \in Times /\ Now + Midnight(CheckDays) \in Times
  BY FulfillmentConstants DEF TypeOK, Times, Now, Midnight, Days, Clock

(* A new request is the last one and the only one that is open. *)
Asked(p, type) ==
  /\ requests' \in [Promises -> Seq(Request)]
  /\ Len(requests'[p]) = Len(requests[p]) + 1 /\ Len(requests'[p]) <= MaxRequests
  /\ Pending(p)' = {Len(requests[p]) + 1}
  /\ requests'[p][Len(requests[p]) + 1].type = type
  /\ \A r \in DOMAIN requests[p] : r \in DOMAIN requests'[p]
                                   /\ requests'[p][r] = requests[p][r]
  /\ \A q \in Promises : q # p => requests'[q] = requests[q]

LEMMA AskEffect ==
  ASSUME IInv, NEW u \in Parties, NEW p \in Promises,
         NEW type \in {"AMEND", "CANCEL", "FINISH"}, Ask(u, p, type)
  PROVE  Asked(p, type)
  <1> DEFINE new == [by |-> u, type |-> type, expires |-> Now + Midnight(AmendDays),
                     status |-> "PENDING", responder |-> {}]
  <1>1. new \in Request
    BY TimesOf DEF IInv, Request
  <1>2. requests[p] \in Seq(Request) /\ Len(requests[p]) \in Nat /\ Len(requests[p]) < MaxRequests
    BY DEF IInv, TypeOK, Ask
  <1>3. requests' = [requests EXCEPT ![p] = Append(@, new)]
    BY DEF Ask
  <1> HIDE DEF new
  <1>4. requests'[p] = Append(requests[p], new)
    BY <1>3 DEF IInv, TypeOK
  <1>5. /\ DOMAIN requests[p] = 1 .. Len(requests[p])
        /\ DOMAIN requests'[p] = 1 .. Len(requests[p]) + 1
        /\ Len(requests'[p]) = Len(requests[p]) + 1
        /\ requests'[p] \in Seq(Request)
        /\ requests'[p][Len(requests[p]) + 1] = new
        /\ \A r \in 1 .. Len(requests[p]) : requests'[p][r] = requests[p][r]
    BY <1>1, <1>2, <1>4
  <1>6. new.status = "PENDING" /\ new.type = type
    BY DEF new
  <1>7. Pending(p) = {}
    BY DEF Ask
  <1>8. Pending(p)' = {Len(requests[p]) + 1}
    BY <1>2, <1>5, <1>6, <1>7 DEF Pending
  <1>9. requests' \in [Promises -> Seq(Request)]
        /\ \A q \in Promises \ {p} : requests'[q] = requests[q]
    BY <1>1, <1>2, <1>3 DEF IInv, TypeOK
  <1> QED BY <1>2, <1>5, <1>6, <1>8, <1>9, FulfillmentConstants DEF Asked

(* Nothing that rests on the requests of before is disturbed by one more.  *)
LEMMA AskStep ==
  ASSUME IInv, NEW u \in Parties, NEW p \in Promises,
         NEW type \in {"AMEND", "CANCEL", "FINISH"}, Ask(u, p, type),
         IF type = "AMEND"
         THEN \E t \in Terms : version' = [version EXCEPT ![p][Len(requests[p]) + 1] =
                                              [terms |-> t, stage |-> "PROPOSED"]]
         ELSE version' = version
  PROVE  IInv'
  <1> DEFINE n == Len(requests[p]) + 1
  <1>1. n \in Versions /\ n # 0 /\ n \notin DOMAIN requests[p] /\ n # current[p]
    <2>1. /\ Len(requests[p]) \in Nat /\ DOMAIN requests[p] = 1 .. Len(requests[p])
          /\ Len(requests[p]) < MaxRequests
      BY DEF IInv, TypeOK, Ask
    <2>2. n \in Versions /\ n # 0 /\ n \notin DOMAIN requests[p]
      BY <2>1, FulfillmentConstants DEF Versions
    <2>3. current[p] # 0 => current[p] \in DOMAIN requests[p]
      BY DEF IInv, RowInv, RowVersions, Agreed
    <2> QED BY <2>2, <2>3
  <1>2. /\ version' \in [Promises -> [Versions -> Version \cup {NoVersion}]]
        /\ \A q \in Promises, r \in Versions : q # p \/ r # n => version'[q][r] = version[q][r]
        /\ \A q \in Promises : q # p => version'[q] = version[q]
        /\ type = "AMEND" => version'[p][n].stage = "PROPOSED"
        /\ version'[p][n].stage = "IN_FORCE" => version[p][n].stage = "IN_FORCE"
    <2>1. CASE type # "AMEND"
      BY <2>1 DEF IInv, TypeOK
    <2>2. CASE type = "AMEND"
      <3>1. PICK t \in Terms : version' = [version EXCEPT ![p][n] =
                                              [terms |-> t, stage |-> "PROPOSED"]]
        BY <2>2
      <3>2. [terms |-> t, stage |-> "PROPOSED"] \in Version
        BY DEF Version
      <3> QED BY <1>1, <3>1, <3>2 DEF IInv, TypeOK
    <2> QED BY <2>1, <2>2
  <1>3. /\ requests' \in [Promises -> Seq(Request)]
        /\ Len(requests'[p]) = n /\ n <= MaxRequests
        /\ Pending(p)' = {n} /\ requests'[p][n].type = type
        /\ \A r \in DOMAIN requests[p] : r \in DOMAIN requests'[p]
                                         /\ requests'[p][r] = requests[p][r]
        /\ \A q \in Promises : q # p => requests'[q] = requests[q]
    BY AskEffect DEF Asked
  <1>4. /\ status' = [status EXCEPT ![p] = "AMEND_PENDING"] /\ status[p] = "ACTIVE"
        /\ UNCHANGED <<calendar, terms, current, round, deadline, check, profile, account>>
    BY DEF Ask
  <1> HIDE DEF n
  <1>5. TypeOK'
    <2>1. \A q \in Promises : Len(requests'[q]) <= MaxRequests
      BY <1>3 DEF IInv, TypeOK
    <2> QED BY <2>1, <1>2, <1>3, <1>4 DEF IInv, TypeOK, calendar, Statuses
  <1>6. ProfilesCurrent'
    BY <1>4, TallyKept DEF IInv, TypeOK, ProfilesCurrent, Verdicts
  <1>7. RowInv(p)'
    <2>1. RowAnswers(p)'
      BY <1>4 DEF IInv, TypeOK, RowInv, RowAnswers, AnswerOf
    <2>2. RowHeld(p)'
      BY <1>3, <1>4 DEF IInv, TypeOK, RowHeld
    <2>3. current[p] # 0 => Agreed(p, current[p], "AMEND")'
      BY <1>3, <1>4 DEF IInv, RowInv, RowVersions, Agreed
    <2>4. RowVersions(p)'
      <3>1. version'[p][current[p]] = version[p][current[p]] /\ current'[p] = current[p]
        BY <1>1, <1>2, <1>4 DEF IInv, TypeOK
      <3>2. status'[p] # "CANCELED" /\ terms'[p] = terms[p]
        BY <1>4 DEF IInv, TypeOK
      <3>3. \A r \in Versions : version'[p][r].stage = "IN_FORCE" <=> r = current[p]
        BY <1>1, <1>2 DEF IInv, RowInv, RowVersions
      <3>4. \A r \in Pending(p)' : requests'[p][r].type = "AMEND" => version'[p][r].stage = "PROPOSED"
        BY <1>2, <1>3
      <3> QED BY <2>3, <3>1, <3>2, <3>3, <3>4 DEF IInv, RowInv, RowVersions
    <2> QED BY <2>1, <2>2, <2>4 DEF RowInv
  <1>8. \A q \in Promises \ {p} : SameRow(q)
    BY <1>2, <1>3, <1>4 DEF IInv, TypeOK, SameRow
  <1> QED BY <1>5, <1>6, <1>7, <1>8, OneRow

(* Settling the open request of p closes it and touches no other. *)
Settled(p, r, s, by) ==
  /\ requests' \in [Promises -> Seq(Request)]
  /\ r \in Versions /\ r # 0 /\ r # current[p]
  /\ r \in DOMAIN requests[p] /\ r = Len(requests[p]) /\ requests[p][r] \in Request
  /\ DOMAIN requests'[p] = DOMAIN requests[p] /\ Len(requests'[p]) = Len(requests[p])
  /\ Pending(p)' = {}
  /\ requests'[p][r] = Closed(requests[p][r], s, by)
  /\ \A i \in DOMAIN requests[p] : i # r => requests'[p][i] = requests[p][i]
  /\ \A q \in Promises : q # p => requests'[q] = requests[q]

LEMMA SettleEffect ==
  ASSUME IInv, NEW p \in Promises, NEW r \in Pending(p), NEW u \in Parties,
         NEW s \in {"APPROVED", "DECLINED", "WITHDRAWN"}, Settle(p, r, u, s)
  PROVE  Settled(p, r, s, {u})
  <1>1. /\ requests[p] \in Seq(Request) /\ Len(requests[p]) \in Nat
        /\ DOMAIN requests[p] = 1 .. Len(requests[p])
    BY DEF IInv, TypeOK
  <1>2. r \in DOMAIN requests[p] /\ requests[p][r].status = "PENDING" /\ r = Len(requests[p])
    BY DEF Pending, IInv, RowInv, RowHeld
  <1>3. requests[p][r] \in Request /\ Closed(requests[p][r], s, {u}) \in Request
    <2>1. requests[p][r] \in Request
      BY <1>1, <1>2
    <2>2. 0 \in Times
      BY TimesOf DEF IInv
    <2> QED BY <2>1, <2>2 DEF Closed, Request
  <1>4. /\ requests'[p] = [requests[p] EXCEPT ![r] = Closed(@, s, {u})]
        /\ \A q \in Promises : q # p => requests'[q] = requests[q]
    BY DEF Settle, IInv, TypeOK
  <1>5. /\ DOMAIN requests'[p] = DOMAIN requests[p]
        /\ requests'[p][r] = Closed(requests[p][r], s, {u})
        /\ \A i \in DOMAIN requests[p] : i # r => requests'[p][i] = requests[p][i]
        /\ requests'[p] \in Seq(Request) /\ Len(requests'[p]) = Len(requests[p])
    BY <1>1, <1>2, <1>3, <1>4
  <1>6. requests' \in [Promises -> Seq(Request)]
    BY <1>3, <1>1, <1>2, <1>4, <1>5 DEF Settle, IInv, TypeOK
  <1>7. requests'[p][r].status # "PENDING"
    BY <1>3, <1>5 DEF Closed, Request
  <1>8. Pending(p)' = {}
    <2>1. \A i \in Pending(p) : i = r
      BY <1>2 DEF IInv, RowInv, RowHeld
    <2> QED BY <1>5, <1>7, <2>1 DEF Pending
  <1>9. r \in Versions /\ r # 0
    BY <1>1, <1>2, FulfillmentConstants DEF IInv, TypeOK, Versions
  <1>10. r # current[p]
    BY <1>2, <1>9 DEF IInv, RowInv, RowVersions, Agreed
  <1> QED BY <1>2, <1>3, <1>4, <1>5, <1>6, <1>8, <1>9, <1>10 DEF Settled

(* A request that ends without a new version: the promise is free again,   *)
(* canceled or in its check, and its terms and answers stay.               *)
LEMMA SettleStep ==
  ASSUME IInv, NEW p \in Promises, NEW r \in Pending(p), NEW u \in Parties,
         NEW s \in {"APPROVED", "DECLINED", "WITHDRAWN"}, Settle(p, r, u, s),
         status[p] = "AMEND_PENDING",
         NEW st \in {"ACTIVE", "CHECKING", "CANCELED"},
         status' = [status EXCEPT ![p] = st],
         st = "CANCELED" => /\ s = "APPROVED" /\ requests[p][r].type = "CANCEL"
                            /\ requests[p][r].by # u,
         deadline' \in [Promises -> Times],
         UNCHANGED <<calendar, terms, current, round, version, check, profile, account>>
  PROVE  IInv'
  <1>1. Settled(p, r, s, {u})
    BY SettleEffect
  <1>2. TypeOK'
    <2>1. \A q \in Promises : Len(requests'[q]) <= MaxRequests
      BY <1>1 DEF IInv, TypeOK, Settled
    <2> QED BY <2>1, <1>1 DEF IInv, TypeOK, calendar, Statuses, Settled
  <1>3. ProfilesCurrent'
    BY TallyKept DEF IInv, TypeOK, ProfilesCurrent, Verdicts
  <1>4. RowInv(p)'
    <2>1. status'[p] = st /\ status'[p] \notin {"AMEND_PENDING", "COMPLETED", "BROKEN",
                                                "DISPUTED", "UNRESOLVED"}
      BY DEF IInv, TypeOK
    <2>2. RowAnswers(p)'
      BY <2>1, FulfillmentConstants DEF IInv, RowInv, RowAnswers, AnswerOf
    <2>3. RowHeld(p)'
      BY <1>1, <2>1 DEF RowHeld, Settled
    <2>4. current[p] # 0 => Agreed(p, current[p], "AMEND")'
      <3> SUFFICES ASSUME current[p] # 0
                   PROVE  Agreed(p, current[p], "AMEND")'
        OBVIOUS
      <3>1. Agreed(p, current[p], "AMEND") /\ current'[p] = current[p]
        BY DEF IInv, RowInv, RowVersions
      <3> QED BY <1>1, <3>1 DEF Agreed, Settled
    <2>5. st = "CANCELED" => Agreed(p, Len(requests[p]), "CANCEL")'
      <3>1. requests[p][r].by \in Parties
        BY <1>1 DEF Request, Settled
      <3>2. requests[p][r].by # u => u = Other(requests[p][r].by)
        BY <3>1, OtherParty
      <3> QED BY <1>1, <3>2 DEF Agreed, Closed, Request, Settled
    <2>6. RowVersions(p)'
      BY <1>1, <2>1, <2>4, <2>5 DEF IInv, RowInv, RowVersions, Settled
    <2> QED BY <2>2, <2>3, <2>6 DEF RowInv
  <1>5. \A q \in Promises \ {p} : SameRow(q)
    BY <1>1 DEF IInv, TypeOK, SameRow, Settled
  <1> QED BY <1>2, <1>3, <1>4, <1>5, OneRow

(* The approved proposal takes the place of the version in force. *)
LEMMA ApproveAmendStep ==
  ASSUME IInv, NEW u \in Parties, NEW p \in Promises, NEW r \in DOMAIN requests[p],
         ApproveAmend(u, p, r)
  PROVE  IInv'
  <1> DEFINE t == version[p][r].terms
  <1>1. /\ r \in Pending(p) /\ status[p] = "AMEND_PENDING"
        /\ requests[p][r].type = "AMEND" /\ requests[p][r].by # u
        /\ Settle(p, r, u, "APPROVED")
    BY DEF ApproveAmend, MayRespond
  <1>2. Settled(p, r, "APPROVED", {u})
    BY <1>1, SettleEffect
  <1>3. version[p][r] \in Version /\ version[p][r].stage = "PROPOSED" /\ t \in Terms
    <2>1. version[p][r].stage = "PROPOSED"
      BY <1>1 DEF IInv, RowInv, RowVersions
    <2>2. version[p][r] \in Version \cup {NoVersion}
      BY <1>2 DEF IInv, TypeOK, Settled
    <2>3. version[p][r] \in Version
      BY <2>1, <2>2 DEF NoVersion
    <2> QED BY <2>1, <2>3 DEF Version
  <1>4. current[p] \in Versions /\ version[p][current[p]] \in Version
    <2>1. current[p] \in Versions
      BY DEF IInv, TypeOK
    <2>2. version[p][current[p]].stage = "IN_FORCE"
      BY <2>1 DEF IInv, RowInv, RowVersions
    <2>3. version[p][current[p]] \in Version \cup {NoVersion}
      BY <2>1 DEF IInv, TypeOK
    <2> QED BY <2>1, <2>2, <2>3 DEF NoVersion
  <1>5. /\ version' = [version EXCEPT ![p] = [@ EXCEPT ![current[p]].stage = "SUPERSEDED",
                                                       ![r].stage = "IN_FORCE"]]
        /\ current' = [current EXCEPT ![p] = r]
        /\ terms' = [terms EXCEPT ![p] = t]
        /\ status' = [status EXCEPT ![p] = "ACTIVE"]
        /\ UNCHANGED <<calendar, round, deadline, check, profile, account>>
    BY DEF ApproveAmend
  <1>6. /\ version'[p] \in [Versions -> Version \cup {NoVersion}]
        /\ version'[p][r].terms = t /\ version'[p][r].stage = "IN_FORCE"
        /\ \A i \in Versions : version'[p][i].stage = "IN_FORCE" => i = r
    <2>1. version[p] \in [Versions -> Version \cup {NoVersion}]
      BY DEF IInv, TypeOK
    <2>2. version'[p] = [version[p] EXCEPT ![current[p]].stage = "SUPERSEDED",
                                           ![r].stage = "IN_FORCE"]
      BY <1>5 DEF IInv, TypeOK
    <2>3. /\ version'[p][r] = [version[p][r] EXCEPT !.stage = "IN_FORCE"]
          /\ version'[p][current[p]] = [version[p][current[p]] EXCEPT !.stage = "SUPERSEDED"]
          /\ \A i \in Versions : i # r /\ i # current[p] => version'[p][i] = version[p][i]
      BY <1>2, <1>4, <2>1, <2>2 DEF Settled
    <2>4. version'[p][r] \in Version /\ version'[p][current[p]] \in Version
      BY <1>3, <1>4, <2>3 DEF Version
    <2>5. \A i \in Versions : version[p][i].stage = "IN_FORCE" <=> i = current[p]
      BY DEF IInv, RowInv, RowVersions
    <2>6. version'[p][r].terms = t /\ version'[p][r].stage = "IN_FORCE"
          /\ version'[p][current[p]].stage # "IN_FORCE"
      BY <1>3, <1>4, <2>3 DEF Version
    <2>7. \A i \in Versions : version'[p][i].stage = "IN_FORCE" => i = r
      BY <2>3, <2>5, <2>6
    <2> QED BY <2>1, <2>2, <2>3, <2>4, <2>6, <2>7, <1>2, <1>4 DEF Settled
  <1>7. TypeOK'
    <2>1. \A q \in Promises : Len(requests'[q]) <= MaxRequests
      BY <1>2 DEF IInv, TypeOK, Settled
    <2>2. version' \in [Promises -> [Versions -> Version \cup {NoVersion}]]
      BY <1>5, <1>6 DEF IInv, TypeOK
    <2> HIDE DEF t
    <2> QED BY <2>1, <2>2, <1>2, <1>3, <1>5 DEF IInv, TypeOK, calendar, Statuses, Settled
  <1>8. ProfilesCurrent'
    BY <1>1, <1>5, TallyKept DEF IInv, TypeOK, ProfilesCurrent, Verdicts
  <1>9. RowInv(p)'
    <2>1. status'[p] = "ACTIVE" /\ current'[p] = r /\ terms'[p] = t
      BY <1>5 DEF IInv, TypeOK
    <2>2. RowAnswers(p)'
      BY <1>1, <1>5, <2>1 DEF IInv, RowInv, RowAnswers, AnswerOf
    <2>3. RowHeld(p)'
      BY <1>2, <2>1 DEF RowHeld, Settled
    <2>4. Agreed(p, r, "AMEND")'
      <3>1. requests[p][r].by \in Parties
        BY <1>2 DEF Request, Settled
      <3>2. u = Other(requests[p][r].by)
        BY <1>1, <3>1, OtherParty
      <3> QED BY <1>1, <1>2, <3>2 DEF Agreed, Closed, Request, Settled
    <2>5. RowVersions(p)'
      BY <1>2, <1>6, <2>1, <2>4 DEF RowVersions, Settled
    <2> QED BY <2>2, <2>3, <2>5 DEF RowInv
  <1>10. \A q \in Promises \ {p} : SameRow(q)
    BY <1>2, <1>5 DEF IInv, TypeOK, SameRow, Settled
  <1> QED BY <1>7, <1>8, <1>9, <1>10, OneRow
-----------------------------------------------------------------------------
(* Checks                                                                  *)

(* The answer of one party to the running round of p. *)
LEMMA AnswerEffect ==
  ASSUME TypeOK, NEW p \in Promises, NEW u \in Parties, NEW c \in Check,
         check' = [check EXCEPT ![p][round[p]][u] = c], round' = round
  PROVE  /\ check' \in [Promises -> [Rounds -> [Parties -> Check]]]
         /\ AnswerOf(p, u)' = c.answer
         /\ \A v \in Parties : v # u => AnswerOf(p, v)' = AnswerOf(p, v)
         /\ \A n \in Rounds, v \in Parties :
              n # round[p] \/ v # u => check'[p][n][v] = check[p][n][v]
         /\ \A q \in Promises : q # p => check'[q] = check[q]
  <1>1. round[p] \in Rounds
    BY DEF TypeOK
  <1>2. check \in [Promises -> [Rounds -> [Parties -> Check]]]
    BY DEF TypeOK
  <1>3. /\ check'[p] = [check[p] EXCEPT ![round[p]] = [@ EXCEPT ![u] = c]]
        /\ \A q \in Promises : q # p => check'[q] = check[q]
    BY <1>2
  <1>4. /\ check'[p][round[p]] = [check[p][round[p]] EXCEPT ![u] = c]
        /\ \A n \in Rounds : n # round[p] => check'[p][n] = check[p][n]
    BY <1>1, <1>2, <1>3
  <1>5. /\ check'[p][round[p]][u] = c
        /\ \A v \in Parties : v # u => check'[p][round[p]][v] = check[p][round[p]][v]
    BY <1>1, <1>2, <1>4
  <1>6. check' \in [Promises -> [Rounds -> [Parties -> Check]]]
    BY <1>1, <1>2
  <1> QED BY <1>3, <1>4, <1>5, <1>6 DEF AnswerOf

LEMMA SubmitStep ==
  ASSUME IInv, NEW u \in Parties, NEW p \in Promises, NEW a \in Answers, Submit(u, p, a)
  PROVE  IInv'
  <1> DEFINE b == AnswerOf(p, Other(u))
             c == [check[p][round[p]][u] EXCEPT !.answer = a]
             s == IF b = "NONE" THEN "CHECKING" ELSE Verdict(a, b)
  <1>1. round[p] \in Rounds /\ b \in Answers \cup {"NONE"} /\ c \in Check /\ c.answer = a
    <2>1. /\ round[p] \in Rounds /\ Other(u) \in Parties
          /\ check[p][round[p]][u] \in Check /\ check[p][round[p]][Other(u)] \in Check
      BY OtherParty DEF IInv, TypeOK
    <2> QED BY <2>1 DEF AnswerOf, Check
  <1>2. check' = [check EXCEPT ![p][round[p]][u] = c]
    BY DEF Submit
  <1>3. /\ status[p] = "CHECKING" /\ status' = [status EXCEPT ![p] = s]
        /\ RecomputeIf(b # "NONE")
        /\ UNCHANGED <<calendar, terms, current, round, deadline, version, requests, account>>
    BY DEF Submit, MayAnswer
  <1>4. s \in {"CHECKING", "COMPLETED", "BROKEN", "DISPUTED"}
    BY DEF Verdict
  <1> HIDE DEF c
  <1>5. /\ check' \in [Promises -> [Rounds -> [Parties -> Check]]]
        /\ AnswerOf(p, u)' = a /\ AnswerOf(p, Other(u))' = b
        /\ \A n \in Rounds, v \in Parties :
             n # round[p] => check'[p][n][v] = check[p][n][v]
        /\ \A q \in Promises : q # p => check'[q] = check[q]
    <2>1. /\ check' \in [Promises -> [Rounds -> [Parties -> Check]]]
          /\ AnswerOf(p, u)' = c.answer
          /\ \A v \in Parties : v # u => AnswerOf(p, v)' = AnswerOf(p, v)
          /\ \A n \in Rounds, v \in Parties :
               n # round[p] \/ v # u => check'[p][n][v] = check[p][n][v]
          /\ \A q \in Promises : q # p => check'[q] = check[q]
      BY <1>1, <1>2, <1>3, AnswerEffect DEF IInv
    <2> QED BY <2>1, <1>1, OtherParty
  <1> HIDE DEF s
  <1>6. TypeOK'
    BY <1>3, <1>4, <1>5, TallyType DEF IInv, TypeOK, calendar, Statuses, RecomputeIf
  <1>7. ProfilesCurrent'
    <2>1. CASE b = "NONE"
      <3>1. profile' = profile /\ status' = status
        BY <1>3, <2>1 DEF RecomputeIf, IInv, TypeOK, s
      <3> QED BY <3>1, <1>3, TallyKept DEF IInv, ProfilesCurrent
    <2>2. CASE b # "NONE"
      BY <1>3, <2>2, TallyNow DEF RecomputeIf, ProfilesCurrent
    <2> QED BY <2>1, <2>2
  <1>8. RowInv(p)'
    <2>1. status'[p] = s /\ round'[p] = round[p]
      BY <1>3 DEF IInv, TypeOK
    <2>2. \A v \in Parties : AnswerOf(p, v)' = a \/ AnswerOf(p, v)' = b
      BY <1>5, OtherParty
    <2>3. \A n \in Rounds, v \in Parties : n > round[p] => check'[p][n][v].answer = "NONE"
      BY <1>1, <1>5 DEF IInv, RowInv, RowAnswers, Rounds
    <2>4. RowAnswers(p)'
      BY <1>1, <1>5, <2>1, <2>2, <2>3, OtherParty DEF RowAnswers, s, Verdict, Answers
    <2>5. RowHeld(p)'
      BY <1>3, <1>4, <2>1 DEF IInv, RowInv, RowHeld, Pending
    <2>6. RowVersions(p)'
      BY <1>3, <1>4, <2>1 DEF IInv, RowInv, RowVersions, Pending, Agreed
    <2> QED BY <2>4, <2>5, <2>6 DEF RowInv
  <1>9. \A q \in Promises \ {p} : SameRow(q)
    BY <1>3, <1>5 DEF IInv, TypeOK, SameRow
  <1> QED BY <1>6, <1>7, <1>8, <1>9, OneRow

LEMMA ReviseStep ==
  ASSUME IInv, NEW u \in Parties, NEW p \in Promises, NEW a \in Answers, Revise(u, p, a)
  PROVE  IInv'
  <1> DEFINE c == [answer |-> a, revised |-> TRUE]
  <1>1. c \in Check /\ c.answer = a
    BY DEF Check
  <1>2. /\ check' = [check EXCEPT ![p][round[p]][u] = c]
        /\ status[p] = "CHECKING" /\ AnswerOf(p, Other(u)) = "NONE"
        /\ UNCHANGED <<calendar, promise, version, requests, profile, account>>
    BY DEF Revise, MayAnswer
  <1> HIDE DEF c
  <1>3. UNCHANGED <<calendar, status, terms, current, round, deadline, version, requests,
                    profile, account>>
    BY <1>2 DEF promise
  <1>4. /\ check' \in [Promises -> [Rounds -> [Parties -> Check]]]
        /\ \A v \in Parties : v # u => AnswerOf(p, v)' = AnswerOf(p, v)
        /\ \A n \in Rounds, v \in Parties :
             n # round[p] \/ v # u => check'[p][n][v] = check[p][n][v]
        /\ \A q \in Promises : q # p => check'[q] = check[q]
    BY <1>1, <1>2, <1>3, AnswerEffect DEF IInv
  <1>5. TypeOK'
    BY <1>3, <1>4 DEF IInv, TypeOK, calendar
  <1>6. ProfilesCurrent'
    BY <1>3, TallyKept DEF IInv, ProfilesCurrent
  <1>7. RowInv(p)'
    <2>1. AnswerOf(p, Other(u))' = "NONE" /\ Other(u) \in Parties
      BY <1>2, <1>4, OtherParty
    <2>2. \A n \in Rounds, v \in Parties : n > round[p] => check'[p][n][v].answer = "NONE"
      <3>1. \A n \in Rounds, v \in Parties : n > round[p] => check[p][n][v].answer = "NONE"
        BY DEF IInv, RowInv, RowAnswers
      <3>2. round[p] \in Nat /\ Rounds \subseteq Nat
        BY DEF IInv, TypeOK, Rounds
      <3>3. \A n \in Rounds, v \in Parties : n > round[p] => check'[p][n][v] = check[p][n][v]
        BY <1>4, <3>2
      <3> QED BY <3>1, <3>3
    <2>3. RowAnswers(p)'
      BY <1>2, <1>3, <2>1, <2>2 DEF RowAnswers
    <2> QED BY <1>3, <2>3 DEF IInv, RowInv, RowHeld, RowVersions, Pending, Agreed
  <1>8. \A q \in Promises \ {p} : SameRow(q)
    BY <1>3, <1>4 DEF SameRow
  <1> QED BY <1>5, <1>6, <1>7, <1>8, OneRow

LEMMA ReopenStep ==
  ASSUME IInv, NEW u \in Parties, NEW p \in Promises, Reopen(u, p)
  PROVE  IInv'
  <1>1. /\ status[p] = "DISPUTED" /\ round[p] < MaxRounds
        /\ status' = [status EXCEPT ![p] = "CHECKING"]
        /\ round' = [round EXCEPT ![p] = @ + 1]
        /\ deadline' = [deadline EXCEPT ![p] = Now + Midnight(CheckDays)]
        /\ profile' = Tally(status')
        /\ UNCHANGED <<calendar, terms, current, version, requests, check, account>>
    BY DEF Reopen, StartRound, Recompute
  <1>2. round[p] \in Rounds /\ round'[p] = round[p] + 1 /\ round'[p] \in Rounds
    BY <1>1, FulfillmentConstants DEF IInv, TypeOK, Rounds
  <1>3. TypeOK'
    BY <1>1, <1>2, TimesOf, TallyType DEF IInv, TypeOK, calendar, Statuses
  <1>4. ProfilesCurrent'
    BY <1>1, TallyNow DEF ProfilesCurrent
  <1>5. RowInv(p)'
    <2>1. status'[p] = "CHECKING"
      BY <1>1 DEF IInv, TypeOK
    <2>2. RowAnswers(p)'
      <3>1. \A n \in Rounds, v \in Parties : n > round[p] => check'[p][n][v].answer = "NONE"
        BY <1>1 DEF IInv, RowInv, RowAnswers
      <3>2. \A v \in Parties : AnswerOf(p, v)' = "NONE"
        BY <1>2, <3>1 DEF AnswerOf, Rounds
      <3>3. \A n \in Rounds, v \in Parties : n > round'[p] => check'[p][n][v].answer = "NONE"
        BY <1>2, <3>1 DEF Rounds
      <3> QED BY <2>1, <3>2, <3>3, FulfillmentConstants DEF RowAnswers
    <2> QED BY <1>1, <2>1, <2>2 DEF IInv, RowInv, RowHeld, RowVersions, Pending, Agreed
  <1>6. \A q \in Promises \ {p} : SameRow(q)
    BY <1>1 DEF IInv, TypeOK, SameRow
  <1> QED BY <1>3, <1>4, <1>5, <1>6, OneRow
-----------------------------------------------------------------------------
(* Batches, the calendar and the accounts                                  *)

LEMMA EnterCheckingStep == IInv /\ EnterChecking => IInv'
  <1> SUFFICES ASSUME IInv, EnterChecking PROVE IInv'
    OBVIOUS
  <1>1. /\ clock' = 1
        /\ status' = [p \in Promises |-> IF Overdue(p) THEN "CHECKING" ELSE status[p]]
        /\ round' = [p \in Promises |-> IF Overdue(p) THEN 1 ELSE round[p]]
        /\ deadline' = [p \in Promises |-> IF Overdue(p)
                          THEN Midnight(terms[p].end + 1 + CheckDays) ELSE deadline[p]]
        /\ UNCHANGED <<today, missed, terms, current, version, requests, check, profile, account>>
    BY DEF EnterChecking
  <1>2. ASSUME NEW p \in Promises, Overdue(p)
        PROVE  Midnight(terms[p].end + 1 + CheckDays) \in Times
    <2>1. terms[p].end \in EndDates
      BY <1>2 DEF IInv, TypeOK, Terms, Overdue
    <2>2. terms[p].end \in 0 .. LastDay
      BY <2>1, FulfillmentConstants
    <2> QED BY <2>2, FulfillmentConstants DEF Midnight, Times
  <1>3. TypeOK'
    <2>1. 1 \in Rounds /\ 1 \in Clock
      BY FulfillmentConstants DEF Rounds, Clock
    <2>2. status' \in [Promises -> Statuses] /\ round' \in [Promises -> Rounds]
      BY <1>1, <2>1 DEF IInv, TypeOK, Statuses
    <2>3. deadline' \in [Promises -> Times]
      BY <1>1, <1>2 DEF IInv, TypeOK
    <2> QED BY <1>1, <2>1, <2>2, <2>3 DEF IInv, TypeOK
  <1>4. ProfilesCurrent'
    BY <1>1, TallyKept DEF IInv, TypeOK, ProfilesCurrent, Verdicts, Overdue
  <1>5. ASSUME NEW p \in Promises
        PROVE  RowInv(p)'
    <2>1. CASE Overdue(p)
      <3>1. status[p] = "ACTIVE" /\ round[p] = 1
        BY <2>1 DEF Overdue, IInv, RowInv, RowAnswers
      <3>2. status'[p] = "CHECKING" /\ round'[p] = 1
        BY <1>1, <2>1
      <3>3. RowAnswers(p)'
        BY <1>1, <3>1, <3>2, FulfillmentConstants DEF IInv, RowInv, RowAnswers, AnswerOf
      <3> QED BY <1>1, <3>1, <3>2, <3>3 DEF IInv, RowInv, RowHeld, RowVersions, Pending, Agreed
    <2>2. CASE ~Overdue(p)
      BY <1>1, <2>2, Unmoved DEF IInv, SameRow
    <2> QED BY <2>1, <2>2
  <1> QED BY <1>3, <1>4, <1>5 DEF IInv

(* A check that is due lacks an answer. *)
LEMMA DueLacksAnswer ==
  ASSUME NEW p \in Promises, Due(p)
  PROVE  \E u \in Parties : AnswerOf(p, u) = "NONE"
  <1>1. PICK u \in Parties, v \in Parties : u # v /\ Parties = {u, v}
    BY FulfillmentConstants
  <1>2. Cardinality(Parties) = 2
    <2>1. IsFiniteSet({u}) /\ Cardinality({u}) = 1
      BY FS_Singleton
    <2>2. Cardinality({u} \cup {v}) = 2
      BY <1>1, <2>1, FS_AddElement
    <2>3. {u} \cup {v} = Parties
      BY <1>1
    <2> QED BY <2>2, <2>3
  <1>3. Answered(p) # Parties
    BY <1>2 DEF Due
  <1> QED BY <1>3 DEF Answered

LEMMA CloseDueChecksStep == IInv /\ CloseDueChecks => IInv'
  <1> SUFFICES ASSUME IInv, CloseDueChecks PROVE IInv'
    OBVIOUS
  <1>1. /\ clock' = 2
        /\ status' = [p \in Promises |->
             IF Due(p) THEN IF round[p] = 1 THEN "UNRESOLVED" ELSE "DISPUTED" ELSE status[p]]
        /\ RecomputeIf(\E p \in Promises : Due(p))
        /\ UNCHANGED <<today, missed, terms, current, round, deadline, version, requests, check,
                       account>>
    BY DEF CloseDueChecks
  <1>2. TypeOK'
    <2>1. status' \in [Promises -> Statuses]
      BY <1>1 DEF IInv, TypeOK, Statuses
    <2>2. profile' \in [Parties -> [completed : Nat, broken : Nat, disputed : Nat,
                                    unresolved : Nat]]
      BY <1>1, TallyType DEF IInv, TypeOK, RecomputeIf
    <2> QED BY <1>1, <2>1, <2>2 DEF IInv, TypeOK, Clock
  <1>3. ProfilesCurrent'
    <2>1. CASE \E p \in Promises : Due(p)
      BY <1>1, <2>1, TallyNow DEF RecomputeIf, ProfilesCurrent
    <2>2. CASE ~ \E p \in Promises : Due(p)
      <3>1. profile' = profile /\ \A p \in Promises : status'[p] = status[p]
        BY <1>1, <2>2 DEF RecomputeIf
      <3> QED BY <1>1, <3>1, TallyKept DEF IInv, ProfilesCurrent
    <2> QED BY <2>1, <2>2
  <1>4. ASSUME NEW p \in Promises
        PROVE  RowInv(p)'
    <2>1. CASE Due(p)
      <3>1. status[p] = "CHECKING" /\ round[p] \in Rounds
        BY <2>1 DEF Due, IInv, TypeOK
      <3>2. status'[p] = IF round[p] = 1 THEN "UNRESOLVED" ELSE "DISPUTED"
        BY <1>1, <2>1
      <3>3. round[p] # 1 => round[p] > 1
        BY <3>1 DEF Rounds
      <3>4. RowAnswers(p)'
        BY <1>1, <2>1, <3>2, <3>3, DueLacksAnswer DEF IInv, RowInv, RowAnswers, AnswerOf
      <3> QED BY <1>1, <3>1, <3>2, <3>4 DEF IInv, RowInv, RowHeld, RowVersions, Pending, Agreed
    <2>2. CASE ~Due(p)
      BY <1>1, <2>2, Unmoved DEF IInv, SameRow
    <2> QED BY <2>1, <2>2
  <1> QED BY <1>2, <1>3, <1>4 DEF IInv

(* Ending the open requests of a promise, all of them or none. *)
LEMMA EndedEffect ==
  ASSUME IInv, NEW p \in Promises, NEW rs \in SUBSET Pending(p),
         NEW s \in {"EXPIRED", "WITHDRAWN"}, NEW by \in SUBSET Parties,
         requests'[p] = Ended(p, rs, s, by)
  PROVE  /\ requests'[p] \in Seq(Request) /\ Len(requests'[p]) = Len(requests[p])
         /\ DOMAIN requests'[p] = DOMAIN requests[p]
         /\ \A r \in DOMAIN requests[p] : r \notin rs => requests'[p][r] = requests[p][r]
         /\ Pending(p)' = Pending(p) \ rs
  <1>1. /\ requests[p] \in Seq(Request) /\ Len(requests[p]) \in Nat
        /\ DOMAIN requests[p] = 1 .. Len(requests[p])
    BY DEF IInv, TypeOK
  <1>2. 0 \in Times
    BY TimesOf DEF IInv
  <1>3. \A r \in DOMAIN requests[p] : /\ requests[p][r] \in Request
                                      /\ Closed(requests[p][r], s, by) \in Request
                                      /\ Closed(requests[p][r], s, by).status # "PENDING"
    <2>1. \A r \in DOMAIN requests[p] : requests[p][r] \in Request
      BY <1>1
    <2> QED BY <1>2, <2>1 DEF Closed, Request
  <1>4. requests'[p] = [r \in 1 .. Len(requests[p]) |->
                          IF r \in rs THEN Closed(requests[p][r], s, by) ELSE requests[p][r]]
    BY <1>1 DEF Ended
  <1>5. requests'[p] \in Seq(Request) /\ Len(requests'[p]) = Len(requests[p])
        /\ DOMAIN requests'[p] = DOMAIN requests[p]
    BY <1>1, <1>3, <1>4
  <1>6. \A r \in DOMAIN requests[p] :
          requests'[p][r] = IF r \in rs THEN Closed(requests[p][r], s, by) ELSE requests[p][r]
    BY <1>1, <1>4
  <1>7. Pending(p)' = Pending(p) \ rs
    BY <1>3, <1>5, <1>6 DEF Pending
  <1> QED BY <1>5, <1>6, <1>7

(* A promise whose open request ends without an answer is free again. *)
LEMMA EndedRow ==
  ASSUME IInv, NEW p \in Promises, NEW rs, rs = {} \/ rs = Pending(p),
         NEW s \in {"EXPIRED", "WITHDRAWN"}, NEW by \in SUBSET Parties,
         requests'[p] = Ended(p, rs, s, by),
         status'[p] = IF rs # {} THEN "ACTIVE" ELSE status[p],
         UNCHANGED <<terms, current, round, version, check>>
  PROVE  /\ requests'[p] \in Seq(Request) /\ Len(requests'[p]) <= MaxRequests
         /\ RowInv(p)'
  <1>1. /\ requests'[p] \in Seq(Request) /\ Len(requests'[p]) = Len(requests[p])
        /\ DOMAIN requests'[p] = DOMAIN requests[p]
        /\ \A r \in DOMAIN requests[p] : r \notin rs => requests'[p][r] = requests[p][r]
        /\ Pending(p)' = Pending(p) \ rs
    BY EndedEffect
  <1>2. rs # {} => status[p] = "AMEND_PENDING" /\ Pending(p)' = {}
    BY <1>1 DEF IInv, RowInv, RowHeld
  <1>3. RowAnswers(p)'
    BY <1>2 DEF IInv, RowInv, RowAnswers, AnswerOf
  <1>4. RowHeld(p)'
    BY <1>1, <1>2 DEF IInv, RowInv, RowHeld
  <1>5. \A r \in DOMAIN requests[p] : requests[p][r].status = "APPROVED" =>
          requests'[p][r] = requests[p][r]
    BY <1>1 DEF Pending
  <1>6. current[p] # 0 => Agreed(p, current[p], "AMEND")'
    BY <1>1, <1>5 DEF IInv, RowInv, RowVersions, Agreed
  <1>7. status'[p] = "CANCELED" => Agreed(p, Len(requests[p]), "CANCEL")'
    BY <1>1, <1>2, <1>5 DEF IInv, RowInv, RowVersions, Agreed
  <1>8. \A r \in Pending(p)' : r \in Pending(p) /\ requests'[p][r] = requests[p][r]
    BY <1>1 DEF Pending
  <1>9. RowVersions(p)'
    BY <1>6, <1>7, <1>8 DEF IInv, RowInv, RowVersions
  <1>10. Len(requests'[p]) <= MaxRequests
    BY <1>1 DEF IInv, TypeOK
  <1> QED BY <1>1, <1>3, <1>4, <1>9, <1>10 DEF RowInv

LEMMA ExpireAmendRequestsStep == IInv /\ ExpireAmendRequests => IInv'
  <1> SUFFICES ASSUME IInv, ExpireAmendRequests PROVE IInv'
    OBVIOUS
  <1>1. /\ clock' = 3
        /\ requests' = [p \in Promises |-> Ended(p, Lapsed(p), "EXPIRED", {})]
        /\ status' = [p \in Promises |-> IF Lapsed(p) # {} THEN "ACTIVE" ELSE status[p]]
        /\ UNCHANGED <<today, missed, terms, current, round, deadline, version, check, profile,
                       account>>
    BY DEF ExpireAmendRequests
  <1>2. ASSUME NEW p \in Promises
        PROVE  Lapsed(p) = {} \/ Lapsed(p) = Pending(p)
    BY DEF Lapsed, IInv, RowInv, RowHeld
  <1>3. ASSUME NEW p \in Promises
        PROVE  /\ requests'[p] \in Seq(Request) /\ Len(requests'[p]) <= MaxRequests
               /\ RowInv(p)'
    <2>1. requests'[p] = Ended(p, Lapsed(p), "EXPIRED", {})
          /\ status'[p] = IF Lapsed(p) # {} THEN "ACTIVE" ELSE status[p]
      BY <1>1
    <2>2. UNCHANGED <<terms, current, round, version, check>> /\ {} \in SUBSET Parties
      BY <1>1
    <2> QED BY <1>2, <2>1, <2>2, EndedRow
  <1>4. TypeOK'
    BY <1>1, <1>3 DEF IInv, TypeOK, Statuses, Clock
  <1>5. ProfilesCurrent'
    BY <1>1, TallyKept DEF IInv, TypeOK, ProfilesCurrent, Verdicts, Lapsed
  <1> QED BY <1>3, <1>4, <1>5 DEF IInv

LEMMA AccountWithdrawStep ==
  ASSUME IInv, NEW u \in Leavers, AccountWithdraw(u)
  PROVE  IInv'
  <1> DEFINE rs(p) == IF status[p] = "AMEND_PENDING" THEN Pending(p) ELSE {}
  <1>1. /\ account' = [account EXCEPT ![u] = "WITHDRAWN"]
        /\ requests' = [p \in Promises |->
             IF status[p] = "AMEND_PENDING" THEN Ended(p, Pending(p), "WITHDRAWN", {u})
                                            ELSE requests[p]]
        /\ status' = [p \in Promises |->
             IF status[p] = "AMEND_PENDING" THEN "ACTIVE" ELSE status[p]]
        /\ UNCHANGED <<calendar, terms, current, round, deadline, version, check, profile>>
    BY DEF AccountWithdraw
  <1>2. u \in Parties
    BY FulfillmentConstants
  <1>3. ASSUME NEW p \in Promises
        PROVE  /\ requests'[p] \in Seq(Request) /\ Len(requests'[p]) <= MaxRequests
               /\ RowInv(p)'
    <2>1. CASE status[p] = "AMEND_PENDING"
      <3>1. Pending(p) # {}
        BY <2>1 DEF IInv, RowInv, RowHeld
      <3>2. /\ requests'[p] = Ended(p, Pending(p), "WITHDRAWN", {u})
            /\ status'[p] = "ACTIVE"
        BY <1>1, <2>1
      <3> QED BY <1>1, <1>2, <3>1, <3>2, EndedRow
    <2>2. CASE status[p] # "AMEND_PENDING"
      <3>1. requests'[p] = requests[p] /\ status'[p] = status[p]
        BY <1>1, <2>2
      <3>2. RowInv(p)'
        BY <1>1, <3>1, Unmoved DEF IInv, SameRow
      <3> QED BY <3>1, <3>2 DEF IInv, TypeOK
    <2> QED BY <2>1, <2>2
  <1>4. TypeOK'
    BY <1>1, <1>2, <1>3 DEF IInv, TypeOK, Statuses, calendar
  <1>5. ProfilesCurrent'
    BY <1>1, TallyKept DEF IInv, TypeOK, ProfilesCurrent, Verdicts
  <1> QED BY <1>3, <1>4, <1>5 DEF IInv

(* Days that pass and batches that do not run leave the rows alone. *)
LEMMA CalendarStep ==
  ASSUME IInv, today' \in Days, clock' \in Clock, missed' \in 0 .. MaxMissed,
         UNCHANGED <<promise, version, requests, check, profile, account>>
  PROVE  IInv'
  <1>1. UNCHANGED <<status, terms, current, round, deadline, version, requests, check,
                    profile, account>>
    BY DEF promise
  <1>2. TypeOK'
    BY <1>1 DEF IInv, TypeOK
  <1>3. ProfilesCurrent'
    BY <1>1, TallyKept DEF IInv, ProfilesCurrent
  <1>4. ASSUME NEW p \in Promises
        PROVE  RowInv(p)'
    BY <1>1, Unmoved DEF IInv, SameRow
  <1> QED BY <1>2, <1>3, <1>4 DEF IInv
-----------------------------------------------------------------------------
LEMMA RequestIInv ==
  ASSUME IInv, NEW u \in Parties, NEW p \in Promises, RequestStep(u, p)
  PROVE  IInv'
  <1>1. ASSUME NEW t \in Terms, RequestAmend(u, p, t)
        PROVE  IInv'
    BY <1>1, AskStep DEF RequestAmend
  <1>2. CASE RequestCancel(u, p)
    BY <1>2, AskStep DEF RequestCancel
  <1>3. CASE RequestFinish(u, p)
    BY <1>3, AskStep DEF RequestFinish
  <1>4. ASSUME NEW r \in DOMAIN requests[p], Decline(u, p, r)
        PROVE  IInv'
    BY <1>4, SettleStep DEF Decline, MayRespond, IInv, TypeOK
  <1>5. ASSUME NEW r \in DOMAIN requests[p], WithdrawRequest(u, p, r)
        PROVE  IInv'
    BY <1>5, SettleStep DEF WithdrawRequest, IInv, TypeOK
  <1>6. ASSUME NEW r \in DOMAIN requests[p], ApproveAmend(u, p, r)
        PROVE  IInv'
    BY <1>6, ApproveAmendStep
  <1>7. ASSUME NEW r \in DOMAIN requests[p], ApproveCancel(u, p, r)
        PROVE  IInv'
    BY <1>7, SettleStep DEF ApproveCancel, MayRespond, IInv, TypeOK
  <1>8. ASSUME NEW r \in DOMAIN requests[p], ApproveFinish(u, p, r)
        PROVE  IInv'
    <2>1. deadline' \in [Promises -> Times]
      BY <1>8, TimesOf DEF ApproveFinish, IInv, TypeOK
    <2> QED BY <1>8, <2>1, SettleStep DEF ApproveFinish, MayRespond
  <1> QED BY <1>1, <1>2, <1>3, <1>4, <1>5, <1>6, <1>7, <1>8 DEF RequestStep

LEMMA StepIInv == IInv /\ [Next]_vars => IInv'
  <1> SUFFICES ASSUME IInv, [Next]_vars PROVE IInv'
    OBVIOUS
  <1>1. ASSUME NEW u \in Parties, NEW p \in Promises, RequestStep(u, p)
        PROVE  IInv'
    BY <1>1, RequestIInv
  <1>2. ASSUME NEW u \in Parties, NEW p \in Promises, CheckStep(u, p)
        PROVE  IInv'
    BY <1>2, SubmitStep, ReviseStep, ReopenStep DEF CheckStep
  <1>3. ASSUME NEW u \in Leavers, AccountWithdraw(u)
        PROVE  IInv'
    BY <1>3, AccountWithdrawStep
  <1>4. CASE MissRun
    <2>1. clock' \in Clock /\ missed' \in 0 .. MaxMissed /\ today' \in Days
      BY <1>4, FulfillmentConstants DEF MissRun, IInv, TypeOK, Clock
    <2> QED BY <1>4, <2>1, CalendarStep DEF MissRun
  <1>5. CASE EnterChecking
    BY <1>5, EnterCheckingStep
  <1>6. CASE CloseDueChecks
    BY <1>6, CloseDueChecksStep
  <1>7. CASE ExpireAmendRequests
    BY <1>7, ExpireAmendRequestsStep
  <1>8. CASE NextDay
    <2>1. clock' \in Clock /\ missed' \in 0 .. MaxMissed /\ today' \in Days
      BY <1>8, FulfillmentConstants DEF NextDay, IInv, TypeOK, Clock, Days
    <2> QED BY <1>8, <2>1, CalendarStep DEF NextDay
  <1>9. CASE UNCHANGED vars
    <2>1. clock' \in Clock /\ missed' \in 0 .. MaxMissed /\ today' \in Days
      BY <1>9 DEF vars, calendar, IInv, TypeOK
    <2> QED BY <1>9, <2>1, CalendarStep DEF vars
  <1> QED BY <1>1, <1>2, <1>3, <1>4, <1>5, <1>6, <1>7, <1>8, <1>9 DEF Next, Passing

(* The inductive invariant holds in every state of every behaviour. *)
THEOREM Inductive == Spec => []IInv
  BY InitIInv, StepIInv, PTL DEF Spec
-----------------------------------------------------------------------------
(* Every table has its type, in every state. *)
THEOREM TypeCorrect == Spec => []TypeOK
  <1>1. IInv => TypeOK
    BY DEF IInv
  <1> QED BY Inductive, <1>1, PTL

(* The status of a promise says what the answers of its running round say, *)
(* after every answer, revision, reopening and batch.                      *)
THEOREM StatusAgreesWithAnswers == Spec => []StatusFitsAnswers
  <1>1. IInv => StatusFitsAnswers
    <2> SUFFICES ASSUME IInv, NEW p \in Promises
                 PROVE  LET everyone == Answered(p) = Parties
                            verdicts == {Verdict(AnswerOf(p, u), AnswerOf(p, Other(u))) :
                                           u \in Parties}
                        IN  CASE status[p] \in {"COMPLETED", "BROKEN"} ->
                                   everyone /\ verdicts = {status[p]}
                              [] status[p] = "DISPUTED" ->
                                   \/ everyone /\ verdicts = {"DISPUTED"}
                                   \/ ~everyone /\ round[p] > 1
                              [] status[p] = "UNRESOLVED" -> ~everyone /\ round[p] = 1
                              [] status[p] = "CHECKING" -> ~everyone
                              [] OTHER -> Answered(p) = {} /\ round[p] = 1
      BY DEF StatusFitsAnswers
    <2> DEFINE everyone == Answered(p) = Parties
               verdict(u) == Verdict(AnswerOf(p, u), AnswerOf(p, Other(u)))
               verdicts == {verdict(u) : u \in Parties}
    <2>1. RowAnswers(p) /\ status[p] \in Statuses
      BY DEF IInv, RowInv, TypeOK
    <2>2. \E u \in Parties : TRUE
      BY FulfillmentConstants
    <2>3. (\E u \in Parties : AnswerOf(p, u) = "NONE") => ~everyone
      BY DEF Answered
    <2>4. (\A u \in Parties : AnswerOf(p, u) # "NONE") => everyone
      BY DEF Answered
    <2>5. (\A u \in Parties : AnswerOf(p, u) = "NONE") => Answered(p) = {}
      BY DEF Answered
    <2>6. ASSUME NEW s, \A u \in Parties : verdict(u) = s
          PROVE  verdicts = {s}
      BY <2>2, <2>6
    <2>7. CASE status[p] = "COMPLETED"
      <3>1. \A u \in Parties : AnswerOf(p, u) = "KEPT"
        BY <2>1, <2>7 DEF RowAnswers
      <3>2. \A u \in Parties : verdict(u) = "COMPLETED"
        BY <3>1, OtherParty DEF Verdict
      <3> QED BY <2>4, <2>6, <2>7, <3>1, <3>2
    <2>8. CASE status[p] = "BROKEN"
      <3>1. \A u \in Parties : AnswerOf(p, u) = "NOT_KEPT"
        BY <2>1, <2>8 DEF RowAnswers
      <3>2. \A u \in Parties : verdict(u) = "BROKEN"
        BY <3>1, OtherParty DEF Verdict
      <3> QED BY <2>4, <2>6, <2>8, <3>1, <3>2
    <2>9. CASE status[p] = "DISPUTED"
      <3>1. CASE \E u, v \in Parties : AnswerOf(p, u) = "KEPT" /\ AnswerOf(p, v) = "NOT_KEPT"
        <4>1. PICK u \in Parties, v \in Parties :
                AnswerOf(p, u) = "KEPT" /\ AnswerOf(p, v) = "NOT_KEPT"
          BY <3>1
        <4>2. /\ Other(u) = v /\ Other(v) = u
              /\ \A w \in Parties : w = u \/ w = v
          BY <4>1, OtherParty
        <4>3. everyone
          BY <2>4, <4>1, <4>2
        <4>4. \A w \in Parties : verdict(w) = "DISPUTED"
          BY <4>1, <4>2 DEF Verdict
        <4> QED BY <2>6, <2>9, <4>3, <4>4
      <3>2. CASE round[p] > 1 /\ \E u \in Parties : AnswerOf(p, u) = "NONE"
        BY <2>3, <2>9, <3>2
      <3> QED BY <2>1, <2>9, <3>1, <3>2 DEF RowAnswers
    <2>10. CASE status[p] \in {"UNRESOLVED", "CHECKING"}
      BY <2>1, <2>3, <2>10 DEF RowAnswers
    <2>11. CASE status[p] \in {"ACTIVE", "AMEND_PENDING", "CANCELED"}
      BY <2>1, <2>5, <2>11 DEF RowAnswers
    <2> HIDE DEF everyone, verdicts
    <2> QED BY <2>1, <2>7, <2>8, <2>9, <2>10, <2>11 DEF Statuses
  <1> QED BY Inductive, <1>1, PTL

(* A promise is held as long as exactly one request is open. *)
THEOREM HeldWhileRequested == Spec => []HeldByOneRequest
  <1>1. IInv => HeldByOneRequest
    <2> SUFFICES ASSUME IInv, NEW p \in Promises
                 PROVE  Cardinality(Pending(p)) = IF status[p] = "AMEND_PENDING" THEN 1 ELSE 0
      BY DEF HeldByOneRequest
    <2>1. CASE status[p] = "AMEND_PENDING"
      <3>1. Pending(p) = {Len(requests[p])}
        BY <2>1 DEF IInv, RowInv, RowHeld
      <3> QED BY <2>1, <3>1, FS_Singleton
    <2>2. CASE status[p] # "AMEND_PENDING"
      <3>1. Pending(p) = {}
        BY <2>2 DEF IInv, RowInv, RowHeld
      <3> QED BY <2>2, <3>1, FS_EmptySet
    <2> QED BY <2>1, <2>2
  <1> QED BY Inductive, <1>1, PTL

(* The terms a promise is judged by are those of its one version in force, *)
(* and only what both wanted amends or cancels it.                         *)
THEOREM InForceAgreed == Spec => []InForceIsAgreed
  <1>1. IInv => InForceIsAgreed
    BY DEF IInv, RowInv, RowVersions, Agreed, InForceIsAgreed
  <1> QED BY Inductive, <1>1, PTL

(* The stored profiles are what the rows say, after every transaction. *)
THEOREM ProfilesStayCurrent == Spec => []ProfilesCurrent
  <1>1. IInv => ProfilesCurrent
    BY DEF IInv
  <1> QED BY Inductive, <1>1, PTL

(* Nobody changes an answer once the other one is in, or twice, or in a    *)
(* round that is over.                                                     *)
THEOREM AnswersKept == Spec => AnswersStand
  <1> DEFINE Stand ==
        \A p \in Promises, n \in Rounds, u \in Parties :
          check[p][n][u].answer # "NONE" /\ check'[p][n][u] # check[p][n][u] =>
            /\ n = round[p] /\ status[p] = "CHECKING"
            /\ ~check[p][n][u].revised
            /\ check[p][n][Other(u)].answer = "NONE"
  <1>1. IInv /\ [Next]_vars => [Stand]_vars
    <2> SUFFICES ASSUME IInv, [Next]_vars PROVE Stand
      OBVIOUS
    <2>1. ASSUME NEW v \in Parties, NEW p \in Promises, CheckStep(v, p)
          PROVE  Stand
      <3>1. ASSUME NEW a \in Answers, Submit(v, p, a)
            PROVE  Stand
        <4> DEFINE c == [check[p][round[p]][v] EXCEPT !.answer = a]
        <4>1. /\ check' = [check EXCEPT ![p][round[p]][v] = c] /\ round' = round
              /\ AnswerOf(p, v) = "NONE"
          BY <3>1 DEF Submit
        <4>2. c \in Check
          <5>1. check[p][round[p]][v] \in Check
            BY DEF IInv, TypeOK
          <5> QED BY <5>1 DEF Check
        <4> HIDE DEF c
        <4>3. /\ \A n \in Rounds, w \in Parties :
                   n # round[p] \/ w # v => check'[p][n][w] = check[p][n][w]
              /\ \A q \in Promises : q # p => check'[q] = check[q]
          BY <4>1, <4>2, AnswerEffect DEF IInv
        <4> QED BY <4>1, <4>3 DEF AnswerOf
      <3>2. ASSUME NEW a \in Answers, Revise(v, p, a)
            PROVE  Stand
        <4> DEFINE c == [answer |-> a, revised |-> TRUE]
        <4>1. /\ check' = [check EXCEPT ![p][round[p]][v] = c] /\ round' = round
              /\ status[p] = "CHECKING" /\ ~check[p][round[p]][v].revised
              /\ AnswerOf(p, Other(v)) = "NONE"
          BY <3>2 DEF Revise, MayAnswer, promise
        <4>2. c \in Check
          BY DEF Check
        <4> HIDE DEF c
        <4>3. /\ \A n \in Rounds, w \in Parties :
                   n # round[p] \/ w # v => check'[p][n][w] = check[p][n][w]
              /\ \A q \in Promises : q # p => check'[q] = check[q]
          BY <4>1, <4>2, AnswerEffect DEF IInv
        <4> QED BY <4>1, <4>3 DEF AnswerOf
      <3>3. CASE Reopen(v, p)
        BY <3>3 DEF Reopen, StartRound
      <3> QED BY <2>1, <3>1, <3>2, <3>3 DEF CheckStep
    <2>2. ASSUME check' = check
          PROVE  Stand
      BY <2>2
    <2>3. ASSUME NEW v \in Parties, NEW p \in Promises, RequestStep(v, p)
          PROVE  check' = check
      BY <2>3 DEF RequestStep, RequestAmend, RequestCancel, RequestFinish, Ask, Decline,
                  WithdrawRequest, ApproveAmend, ApproveCancel, ApproveFinish
    <2>4. (\E v \in Leavers : AccountWithdraw(v)) \/ MissRun \/ Passing \/ UNCHANGED vars
            => check' = check
      BY DEF AccountWithdraw, MissRun, Passing, EnterChecking, CloseDueChecks,
             ExpireAmendRequests, NextDay, vars
    <2> HIDE DEF Stand
    <2> QED BY <2>1, <2>2, <2>3, <2>4 DEF Next
  <1> QED BY Inductive, <1>1, PTL DEF Spec, AnswersStand

(* The pairs of the transition table that an active promise may take. *)
Moves ==
  {<<"ACTIVE", "AMEND_PENDING">>,  <<"AMEND_PENDING", "ACTIVE">>,
   <<"AMEND_PENDING", "CANCELED">>, <<"AMEND_PENDING", "CHECKING">>,
   <<"ACTIVE", "CHECKING">>,       <<"CHECKING", "COMPLETED">>,
   <<"CHECKING", "BROKEN">>,       <<"CHECKING", "DISPUTED">>,
   <<"CHECKING", "UNRESOLVED">>,   <<"DISPUTED", "CHECKING">>}

LEMMA OneMove ==
  ASSUME TypeOK, TypeOK', NEW p \in Promises, NEW s,
         status' = [status EXCEPT ![p] = s], s = status[p] \/ <<status[p], s>> \in Moves
  PROVE  PL!Step
  <1>1. \A q \in Promises : status'[q] = status[q] \/ <<status[q], status'[q]>> \in Moves
    BY DEF TypeOK
  <1>2. status' \in [Promises -> PL!Statuses \cup {PL!NoRow}]
    BY DEF TypeOK, Statuses, PL!Statuses
  <1> QED BY <1>1, <1>2 DEF PL!Step, PL!Allowed, PL!Transitions, Moves

(* Fulfillment implements the transition table: every step of every server *)
(* function and batch is an entry of it, or leaves all promises alone.     *)
THEOREM TableImplemented == Spec => FollowsLifecycle
  <1>1. IInv /\ IInv' /\ [Next]_vars => [PL!Step]_status
    <2> SUFFICES ASSUME IInv, IInv', [Next]_vars, status' # status PROVE PL!Step
      OBVIOUS
    <2> USE DEF IInv
    <2>1. ASSUME NEW u \in Parties, NEW p \in Promises, RequestStep(u, p)
          PROVE  PL!Step
      <3>1. ASSUME NEW type, Ask(u, p, type)
            PROVE  PL!Step
        BY <3>1, OneMove DEF Ask, Moves
      <3>2. ASSUME NEW r \in DOMAIN requests[p],
                   Decline(u, p, r) \/ WithdrawRequest(u, p, r) \/ ApproveAmend(u, p, r)
            PROVE  PL!Step
        <4>1. status[p] = "AMEND_PENDING" /\ status' = [status EXCEPT ![p] = "ACTIVE"]
          BY <3>2 DEF Decline, WithdrawRequest, ApproveAmend, MayRespond
        <4> QED BY <4>1, OneMove DEF Moves
      <3>3. ASSUME NEW r \in DOMAIN requests[p], ApproveCancel(u, p, r)
            PROVE  PL!Step
        BY <3>3, OneMove DEF ApproveCancel, MayRespond, Moves
      <3>4. ASSUME NEW r \in DOMAIN requests[p], ApproveFinish(u, p, r)
            PROVE  PL!Step
        BY <3>4, OneMove DEF ApproveFinish, MayRespond, Moves
      <3> QED BY <2>1, <3>1, <3>2, <3>3, <3>4 DEF RequestStep, RequestAmend, RequestCancel,
                                                  RequestFinish
    <2>2. ASSUME NEW u \in Parties, NEW p \in Promises, CheckStep(u, p)
          PROVE  PL!Step
      <3>1. ASSUME NEW a \in Answers, Submit(u, p, a)
            PROVE  PL!Step
        <4>1. PICK s \in {"CHECKING", "COMPLETED", "BROKEN", "DISPUTED"} :
                status' = [status EXCEPT ![p] = s]
          BY <3>1 DEF Submit, Verdict
        <4>2. status[p] = "CHECKING"
          BY <3>1 DEF Submit, MayAnswer
        <4> QED BY <4>1, <4>2, OneMove DEF Moves
      <3>2. ASSUME NEW a \in Answers, Revise(u, p, a)
            PROVE  PL!Step
        BY <3>2 DEF Revise, promise
      <3>3. CASE Reopen(u, p)
        BY <3>3, OneMove DEF Reopen, StartRound, Moves
      <3> QED BY <2>2, <3>1, <3>2, <3>3 DEF CheckStep
    <2>3. ASSUME \A q \in Promises : status'[q] = status[q] \/ <<status[q], status'[q]>> \in Moves
          PROVE  PL!Step
      <3>1. status' \in [Promises -> PL!Statuses \cup {PL!NoRow}]
        BY DEF TypeOK, Statuses, PL!Statuses
      <3> QED BY <2>3, <3>1 DEF PL!Step, PL!Allowed, PL!Transitions, Moves
    <2>4. CASE EnterChecking
      BY <2>3, <2>4 DEF EnterChecking, Overdue, Moves
    <2>5. CASE CloseDueChecks
      BY <2>3, <2>5 DEF CloseDueChecks, Due, Moves
    <2>6. CASE ExpireAmendRequests
      BY <2>3, <2>6 DEF ExpireAmendRequests, Lapsed, Moves
    <2>7. ASSUME NEW u \in Leavers, AccountWithdraw(u)
          PROVE  PL!Step
      BY <2>3, <2>7 DEF AccountWithdraw, Moves
    <2>8. CASE MissRun \/ NextDay \/ UNCHANGED vars
      BY <2>8 DEF MissRun, NextDay, vars, promise
    <2> QED BY <2>1, <2>2, <2>4, <2>5, <2>6, <2>7, <2>8 DEF Next, Passing
  <1> QED BY Inductive, <1>1, PTL DEF Spec, FollowsLifecycle
=============================================================================
