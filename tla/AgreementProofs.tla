--------------------------- MODULE AgreementProofs ---------------------------
(***************************************************************************)
(* Theorems about Agreement for every set of users, promises and texts,    *)
(* every limit and every length of the calendar.                           *)
(***************************************************************************)
EXTENDS Agreement, FiniteSetTheorems, TLAPS

(* What holds of the rows of one promise.  Beyond the invariants of        *)
(* Agreement it says that the rows exist together or not at all, and that  *)
(* resend_count numbers the links without gaps.                            *)
RowComplete(p) ==
  /\ status[p] = NoRow => creator[p] = NoUser
  /\ status[p] # NoRow => creator[p] \in Users /\ content[p] \in Content

RowLinks(p) ==
  /\ \A i \in Links : i >= issued[p] => link[p][i] = NoLink
  /\ \A i, j \in Links : Live(p, i) /\ Live(p, j) => i = j
  /\ \A i \in Links : Live(p, i) => status[p] = "PENDING" /\ link[p][i].sent = content[p]

RowSigned(p) ==
  status[p] = "ACTIVE" =>
    /\ partner[p].status = "JOINED"
    /\ partner[p].user \in Users \ {creator[p]}
    /\ Answer(creator[p], "CREATOR", "APPROVE", content[p]) \in signed[p]
    /\ Answer(partner[p].user, "PARTNER", "APPROVE", content[p]) \in signed[p]
    /\ \E i \in Links : link[p][i].state = "USED" /\ link[p][i].sent = content[p]

RowInv(p) == RowComplete(p) /\ RowLinks(p) /\ RowSigned(p)

IInv == TypeOK /\ \A p \in Promises : RowInv(p)

SameRow(p) ==
  /\ status'[p] = status[p] /\ creator'[p] = creator[p] /\ content'[p] = content[p]
  /\ partner'[p] = partner[p] /\ issued'[p] = issued[p] /\ link'[p] = link[p]
  /\ signed'[p] = signed[p]
-----------------------------------------------------------------------------
(* Revoking keeps the shape of the links, leaves none out and touches only *)
(* those that were out.                                                    *)
LEMMA RevokedLinks ==
  ASSUME NEW links \in [Links -> Link \cup {NoLink}]
  PROVE  /\ Revoked(links) \in [Links -> Link \cup {NoLink}]
         /\ \A i \in Links : Revoked(links)[i].state # "PENDING"
         /\ \A i \in Links : links[i].state # "PENDING" => Revoked(links)[i] = links[i]
  <1>1. ASSUME NEW i \in Links
        PROVE  /\ Revoked(links)[i] \in Link \cup {NoLink}
               /\ Revoked(links)[i].state # "PENDING"
               /\ links[i].state # "PENDING" => Revoked(links)[i] = links[i]
    <2>1. links[i] \in Link \cup {NoLink}
      OBVIOUS
    <2>2. CASE links[i].state = "PENDING"
      <3>1. links[i] \in Link
        BY <2>1, <2>2 DEF NoLink
      <3> QED BY <2>2, <3>1 DEF Revoked, Link, LinkStates
    <2>3. CASE links[i].state # "PENDING"
      BY <2>1, <2>3 DEF Revoked
    <2> QED BY <2>2, <2>3
  <1> QED BY <1>1 DEF Revoked

(* A live link is a full row, and closing it gives a full row. *)
LEMMA LiveLinkRow ==
  ASSUME TypeOK, NEW p \in Promises, NEW i \in Links, Live(p, i)
  PROVE  /\ link[p][i] \in Link
         /\ \A s \in LinkStates : [link[p][i] EXCEPT !.state = s] \in Link
  <1>1. link[p][i] \in Link \cup {NoLink}
    BY DEF TypeOK
  <1>2. link[p][i] \in Link
    BY <1>1 DEF Live, NoLink
  <1> QED BY <1>2 DEF Link

(* Issuing a link for a text c. *)
LEMMA IssueLinkEffect ==
  ASSUME TypeOK, NEW p \in Promises, NEW c \in Content, IssueLink(p, c)
  PROVE  /\ issued[p] \in Links
         /\ link' \in [Promises -> [Links -> Link \cup {NoLink}]]
         /\ issued' \in [Promises -> 0 .. ResendMax + 1]
         /\ link'[p][issued[p]] = NewLink(c)
         /\ \A i \in Links \ {issued[p]} : /\ link'[p][i].state # "PENDING"
                                           /\ link'[p][i] = Revoked(link[p])[i]
         /\ \A q \in Promises \ {p} : link'[q] = link[q] /\ issued'[q] = issued[q]
         /\ issued'[p] = issued[p] + 1
  <1>1. issued[p] \in Links
    BY AgreementConstants DEF TypeOK, IssueLink, Links
  <1>2. NewLink(c) \in Link
    BY AgreementConstants DEF TypeOK, NewLink, Link, LinkStates, Days
  <1>3. link[p] \in [Links -> Link \cup {NoLink}]
    BY DEF TypeOK
  <1>4. /\ Revoked(link[p]) \in [Links -> Link \cup {NoLink}]
        /\ \A i \in Links : Revoked(link[p])[i].state # "PENDING"
    BY <1>3, RevokedLinks
  <1> DEFINE next == [Revoked(link[p]) EXCEPT ![issued[p]] = NewLink(c)]
  <1>5. next \in [Links -> Link \cup {NoLink}]
    BY <1>2, <1>4
  <1>6. /\ next[issued[p]] = NewLink(c)
        /\ \A i \in Links \ {issued[p]} : next[i] = Revoked(link[p])[i]
    BY <1>1, <1>4
  <1>7. link' = [link EXCEPT ![p] = next]
    BY DEF IssueLink
  <1>8. link \in [Promises -> [Links -> Link \cup {NoLink}]]
    BY DEF TypeOK
  <1> HIDE DEF next
  <1>9. /\ link' \in [Promises -> [Links -> Link \cup {NoLink}]]
        /\ link'[p] = next
        /\ \A q \in Promises \ {p} : link'[q] = link[q]
    BY <1>5, <1>7, <1>8
  <1>10. /\ issued' \in [Promises -> 0 .. ResendMax + 1]
         /\ issued'[p] = issued[p] + 1
         /\ \A q \in Promises \ {p} : issued'[q] = issued[q]
    BY <1>1, AgreementConstants DEF TypeOK, IssueLink, Links
  <1> QED BY <1>1, <1>4, <1>6, <1>9, <1>10

(* Closing a live link. *)
LEMMA CloseLinkEffect ==
  ASSUME TypeOK, NEW p \in Promises, NEW i \in Links, Live(p, i),
         NEW s \in LinkStates, CloseLink(p, i, s)
  PROVE  /\ link' \in [Promises -> [Links -> Link \cup {NoLink}]]
         /\ link'[p][i].state = s
         /\ link'[p][i].sent = link[p][i].sent
         /\ \A j \in Links \ {i} : link'[p][j] = link[p][j]
         /\ \A q \in Promises \ {p} : link'[q] = link[q]
  <1>1. [link[p][i] EXCEPT !.state = s] \in Link /\ link[p][i] \in Link
    BY LiveLinkRow
  <1> DEFINE closed == [link[p][i] EXCEPT !.state = s]
  <1>2. closed.state = s /\ closed.sent = link[p][i].sent
    BY <1>1 DEF Link
  <1>3. link' = [link EXCEPT ![p] = [link[p] EXCEPT ![i] = closed]]
    BY DEF CloseLink
  <1>4. link \in [Promises -> [Links -> Link \cup {NoLink}]]
    BY DEF TypeOK
  <1>5. closed \in Link \cup {NoLink}
    BY <1>1
  <1> HIDE DEF closed
  <1> QED BY <1>2, <1>3, <1>4, <1>5

(* The rows of a promise that a step leaves alone stay in order. *)
LEMMA SameRowInv ==
  ASSUME NEW p \in Promises, RowInv(p), SameRow(p)
  PROVE  RowInv(p)'
  BY DEF RowInv, RowComplete, RowLinks, RowSigned, SameRow, Live, Answer

(* Blank rows are in order. *)
LEMMA ErasedRowInv ==
  ASSUME NEW p \in Promises, status'[p] = NoRow, creator'[p] = NoUser,
         link'[p] = NoLinks
  PROVE  RowInv(p)'
  <1>1. \A i \in Links : link'[p][i] = NoLink /\ link'[p][i].state # "PENDING"
    BY DEF NoLinks, NoLink
  <1> QED BY <1>1 DEF RowInv, RowComplete, RowLinks, RowSigned, Live, NoRow

(* A promise just sent is in order. *)
LEMMA SentRowInv ==
  ASSUME TypeOK, NEW p \in Promises, RowInv(p), NEW c \in Content, IssueLink(p, c),
         status'[p] = "PENDING", content'[p] = c, creator'[p] \in Users
  PROVE  RowInv(p)'
  <1>1. /\ issued[p] \in Links /\ issued'[p] = issued[p] + 1
        /\ link'[p][issued[p]] = NewLink(c)
        /\ \A i \in Links \ {issued[p]} : /\ link'[p][i].state # "PENDING"
                                          /\ link'[p][i] = Revoked(link[p])[i]
    BY IssueLinkEffect
  <1>2. \A i \in Links : i > issued[p] => link'[p][i] = NoLink
    <2>1. link[p] \in [Links -> Link \cup {NoLink}]
      BY DEF TypeOK
    <2>2. \A i \in Links : i > issued[p] => link[p][i] = NoLink
      BY <1>1 DEF RowInv, RowLinks, Links
    <2> QED BY <1>1, <2>1, <2>2, RevokedLinks DEF NoLink, Links
  <1>3. RowLinks(p)'
    <2>1. NewLink(c).sent = c
      BY DEF NewLink
    <2> QED BY <1>1, <1>2, <2>1 DEF RowLinks, Live, Links
  <1> QED BY <1>3 DEF RowInv, RowComplete, RowSigned, NoRow

(* Closing a link of a promise in order, whatever the promise becomes: the *)
(* link was the only one out.                                              *)
LEMMA ClosedRowLinks ==
  ASSUME TypeOK, NEW p \in Promises, RowLinks(p), NEW i \in Links, Live(p, i),
         NEW s \in LinkStates \ {"PENDING"}, CloseLink(p, i, s),
         issued'[p] = issued[p]
  PROVE  RowLinks(p)'
  <1>1. /\ link'[p][i].state = s
        /\ \A j \in Links \ {i} : link'[p][j] = link[p][j]
    BY CloseLinkEffect
  <1>2. \A j \in Links : link'[p][j].state # "PENDING"
    BY <1>1 DEF RowLinks, Live
  <1>3. i < issued[p]
    <2>1. link[p][i] # NoLink
      BY DEF Live, NoLink
    <2> QED BY <2>1, AgreementConstants DEF RowLinks, TypeOK, Links
  <1>4. ASSUME NEW j \in Links, j >= issued'[p] PROVE link'[p][j] = NoLink
    <2>1. issued[p] \in Int
      BY AgreementConstants DEF TypeOK
    <2>2. j # i
      BY <1>3, <1>4, <2>1 DEF Links
    <2> QED BY <1>1, <1>4, <2>2 DEF RowLinks
  <1> QED BY <1>2, <1>4 DEF RowLinks, Live
-----------------------------------------------------------------------------
LEMMA InitIInv == Init => IInv
  <1> SUFFICES ASSUME Init PROVE IInv
    OBVIOUS
  <1>1. TypeOK
    <2>1. NoContent \in Content \cup {NoContent} /\ NoPartner \in Partner
      BY DEF NoPartner, Partner
    <2>2. NoLinks \in [Links -> Link \cup {NoLink}]
      BY DEF NoLinks
    <2> QED BY <2>1, <2>2, AgreementConstants DEF Init, TypeOK, Days
  <1>2. ASSUME NEW p \in Promises PROVE RowInv(p)
    <2>1. \A i \in Links : link[p][i] = NoLink /\ link[p][i].state # "PENDING"
      BY DEF Init, NoLinks, NoLink
    <2> QED BY <2>1 DEF Init, RowInv, RowComplete, RowLinks, RowSigned, Live, NoRow
  <1> QED BY <1>1, <1>2 DEF IInv

(* Writing or rewriting a draft, and sending it. *)
LEMMA CreatorStepIInv ==
  ASSUME IInv, NEW u \in Users, NEW p \in Promises, CreatorStep(u, p)
  PROVE  IInv'
  <1> USE AgreementConstants
  <1>t. TypeOK /\ RowInv(p) /\ \A q \in Promises : RowInv(q)
    BY DEF IInv
  <1>0. ASSUME \A q \in Promises \ {p} : SameRow(q), TypeOK', RowInv(p)'
        PROVE  IInv'
    BY <1>0, <1>t, SameRowInv DEF IInv
  <1>1. ASSUME NEW c \in Content, CreateDraft(u, p, c) PROVE IInv'
    <2>1. TypeOK'
      BY <1>1, <1>t DEF TypeOK, CreateDraft, InsertDraft, Statuses
    <2>2. \A q \in Promises \ {p} : SameRow(q)
      BY <1>1, <1>t DEF TypeOK, CreateDraft, InsertDraft, SameRow
    <2>3. RowInv(p)'
      BY <1>1, <1>t DEF TypeOK, CreateDraft, InsertDraft, RowInv, RowComplete,
           RowLinks, RowSigned, Live, NoRow
    <2> QED BY <2>1, <2>2, <2>3, <1>0
  <1>2. ASSUME NEW c \in Content, CreateAndSend(u, p, c) PROVE IInv'
    <2>0. IssueLink(p, c)
      BY <1>2 DEF CreateAndSend
    <2>1. TypeOK'
      BY <1>2, <1>t, <2>0, IssueLinkEffect DEF TypeOK, CreateAndSend, InsertDraft, Statuses
    <2>2. \A q \in Promises \ {p} : SameRow(q)
      BY <1>2, <1>t, <2>0, IssueLinkEffect DEF TypeOK, CreateAndSend, InsertDraft, SameRow
    <2>3. status'[p] = "PENDING" /\ content'[p] = c /\ creator'[p] = u
      BY <1>2, <1>t DEF TypeOK, CreateAndSend, InsertDraft
    <2>4. RowInv(p)'
      BY <1>t, <2>0, <2>3, SentRowInv
    <2> QED BY <2>1, <2>2, <2>4, <1>0
  <1>3. ASSUME NEW c \in Content, UpdateDraft(u, p, c) PROVE IInv'
    <2>1. TypeOK'
      BY <1>3, <1>t DEF TypeOK, UpdateDraft, RewriteDraft
    <2>2. \A q \in Promises \ {p} : SameRow(q)
      BY <1>3, <1>t DEF TypeOK, UpdateDraft, RewriteDraft, SameRow
    <2>3. RowInv(p)'
      BY <1>3, <1>t DEF TypeOK, UpdateDraft, RewriteDraft, RowInv, RowComplete,
           RowLinks, RowSigned, Live, NoRow
    <2> QED BY <2>1, <2>2, <2>3, <1>0
  <1>4. ASSUME NEW c \in Content, UpdateAndSend(u, p, c) PROVE IInv'
    <2>0. IssueLink(p, c)
      BY <1>4 DEF UpdateAndSend
    <2>1. TypeOK'
      BY <1>4, <1>t, <2>0, IssueLinkEffect DEF TypeOK, UpdateAndSend, RewriteDraft, Statuses
    <2>2. \A q \in Promises \ {p} : SameRow(q)
      BY <1>4, <1>t, <2>0, IssueLinkEffect DEF TypeOK, UpdateAndSend, RewriteDraft, SameRow
    <2>3. status'[p] = "PENDING" /\ content'[p] = c /\ creator'[p] = u
      BY <1>4, <1>t DEF TypeOK, UpdateAndSend, RewriteDraft
    <2>4. RowInv(p)'
      BY <1>t, <2>0, <2>3, SentRowInv
    <2> QED BY <2>1, <2>2, <2>4, <1>0
  <1>5. ASSUME Invite(u, p) PROVE IInv'
    <2>0. IssueLink(p, content[p]) /\ content[p] \in Content
      BY <1>5, <1>t DEF Invite, RowInv, RowComplete, NoRow
    <2>1. TypeOK'
      BY <1>5, <1>t, <2>0, IssueLinkEffect DEF TypeOK, Invite, Statuses
    <2>2. \A q \in Promises \ {p} : SameRow(q)
      BY <1>5, <1>t, <2>0, IssueLinkEffect DEF TypeOK, Invite, SameRow
    <2>3. status'[p] = "PENDING" /\ content'[p] = content[p] /\ creator'[p] = u
      BY <1>5, <1>t DEF TypeOK, Invite
    <2>4. RowInv(p)'
      BY <1>t, <2>0, <2>3, SentRowInv
    <2> QED BY <2>1, <2>2, <2>4, <1>0
  <1>6. ASSUME DeleteUnsettled(u, p) PROVE IInv'
    <2>1. TypeOK'
      <3>1. NoLinks \in [Links -> Link \cup {NoLink}] /\ NoPartner \in Partner
        BY DEF NoLinks, NoPartner, Partner
      <3> QED BY <1>6, <1>t, <3>1 DEF TypeOK, DeleteUnsettled, EraseRows, Without
    <2>2. \A q \in Promises \ {p} : SameRow(q)
      BY <1>6, <1>t DEF TypeOK, DeleteUnsettled, EraseRows, Without, SameRow
    <2>3. RowInv(p)'
      BY <1>6, ErasedRowInv DEF DeleteUnsettled, EraseRows, Without
    <2> QED BY <2>1, <2>2, <2>3, <1>0
  <1>7. ASSUME NEW i \in Links, RevokeInvite(u, p, i) PROVE IInv'
    <2>0. /\ Live(p, i) /\ "REVOKED" \in LinkStates
          /\ CloseLink(p, i, "REVOKED")
      BY <1>7 DEF RevokeInvite, LinkStates
    <2>1. TypeOK'
      BY <1>7, <1>t, <2>0, CloseLinkEffect DEF TypeOK, RevokeInvite
    <2>2. \A q \in Promises \ {p} : SameRow(q)
      BY <1>7, <1>t, <2>0, CloseLinkEffect DEF RevokeInvite, SameRow
    <2>3. RowLinks(p)'
      BY <1>7, <1>t, <2>0, ClosedRowLinks DEF RevokeInvite, RowInv
    <2>4. RowInv(p)'
      BY <1>7, <1>t, <2>3 DEF RevokeInvite, RowInv, RowComplete, RowSigned
    <2> QED BY <2>1, <2>2, <2>4, <1>0
  <1> QED BY <1>1, <1>2, <1>3, <1>4, <1>5, <1>6, <1>7 DEF CreatorStep

(* Answering a link. *)
LEMMA RespondIInv ==
  ASSUME IInv, NEW u \in Users, NEW p \in Promises, NEW i \in Links,
         NEW to \in {"DRAFT", "DECLINED"}, NEW s \in {"INVITED", "DECLINED"},
         NEW answers \in SUBSET Approval, Respond(u, p, i, to, s, answers)
  PROVE  IInv'
  <1>t. TypeOK /\ RowInv(p) /\ \A q \in Promises : RowInv(q)
    BY DEF IInv
  <1>0. /\ Live(p, i) /\ "USED" \in LinkStates \ {"PENDING"} /\ "USED" \in LinkStates
        /\ CloseLink(p, i, "USED")
    BY DEF Respond, CanRespond, Open, LinkStates
  <1>1. TypeOK'
    BY <1>t, <1>0, CloseLinkEffect DEF TypeOK, Respond, Partner, Statuses
  <1>2. \A q \in Promises \ {p} : SameRow(q)
    BY <1>t, <1>0, CloseLinkEffect DEF TypeOK, Respond, SameRow
  <1>3. RowLinks(p)'
    BY <1>t, <1>0, ClosedRowLinks DEF Respond, RowInv
  <1>4. RowInv(p)'
    BY <1>t, <1>3 DEF TypeOK, Respond, RowInv, RowComplete, RowSigned, NoRow
  <1> QED BY <1>1, <1>2, <1>4, <1>t, SameRowInv DEF IInv

LEMMA ApproveIInv ==
  ASSUME IInv, NEW u \in Users, NEW p \in Promises, NEW i \in Links, Approve(u, p, i)
  PROVE  IInv'
  <1>t. TypeOK /\ RowInv(p) /\ \A q \in Promises : RowInv(q)
    BY DEF IInv
  <1> DEFINE mine == Answer(creator[p], "CREATOR", "APPROVE", content[p])
             yours == Answer(u, "PARTNER", "APPROVE", content[p])
  <1>0. /\ CanRespond(u, p, i) /\ CloseLink(p, i, "USED") /\ status[p] = "PENDING"
        /\ status' = [status EXCEPT ![p] = "ACTIVE"]
        /\ partner' = [partner EXCEPT ![p] = [user |-> u, status |-> "JOINED"]]
        /\ signed' = [signed EXCEPT ![p] = @ \cup {mine, yours}]
        /\ UNCHANGED <<today, fresh, creator, content, issued, blocks, bought>>
    BY DEF Approve, Respond
  <1>a. Live(p, i) /\ u # creator[p]
    BY <1>0 DEF CanRespond, Open
  <1>u. "USED" \in LinkStates \ {"PENDING"} /\ "USED" \in LinkStates
    BY DEF LinkStates
  <1>b. mine \in Approval /\ yours \in Approval
    BY <1>t, <1>0 DEF RowInv, RowComplete, NoRow, Answer, Approval
  <1> HIDE DEF mine, yours
  <1>c. account' \in [Users -> {"ACTIVE", "WITHDRAWN", "IN_FLIGHT"}]
    BY <1>t DEF Approve, Respond, TypeOK
  <1>1. TypeOK'
    BY <1>t, <1>0, <1>a, <1>u, <1>b, <1>c, CloseLinkEffect DEF TypeOK, Partner, Statuses
  <1>2. \A q \in Promises \ {p} : SameRow(q)
    BY <1>t, <1>0, <1>a, <1>u, CloseLinkEffect DEF TypeOK, SameRow
  <1>3. RowLinks(p)'
    BY <1>t, <1>0, <1>a, <1>u, ClosedRowLinks DEF RowInv
  <1>4. RowSigned(p)'
    <2>1. link'[p][i].state = "USED" /\ link'[p][i].sent = content[p]
      BY <1>t, <1>0, <1>a, <1>u, CloseLinkEffect DEF RowInv, RowLinks
    <2>2. mine \in signed'[p] /\ yours \in signed'[p]
      BY <1>t, <1>0 DEF TypeOK
    <2>3. partner'[p] = [user |-> u, status |-> "JOINED"]
      BY <1>t, <1>0 DEF TypeOK
    <2> QED BY <1>0, <1>a, <2>1, <2>2, <2>3 DEF RowSigned, mine, yours, Answer
  <1>5. RowInv(p)'
    BY <1>t, <1>0, <1>3, <1>4 DEF TypeOK, RowInv, RowComplete, NoRow
  <1> QED BY <1>1, <1>2, <1>5, <1>t, SameRowInv DEF IInv

LEMMA PartnerStepIInv ==
  ASSUME IInv, NEW u \in Users, NEW p \in Promises, PartnerStep(u, p)
  PROVE  IInv'
  <1>1. PICK i \in Links : Approve(u, p, i) \/ Decline(u, p, i) \/ AmendSuggest(u, p, i)
    BY DEF PartnerStep
  <1>2. CASE Approve(u, p, i)
    BY <1>2, ApproveIInv
  <1>3. ASSUME status[p] = "PENDING" PROVE content[p] \in Content
    BY <1>3 DEF IInv, RowInv, RowComplete, NoRow
  <1>4. CASE Decline(u, p, i)
    <2>1. {Answer(u, "PARTNER", "DECLINE", content[p])} \in SUBSET Approval
      BY <1>3, <1>4 DEF Decline, Respond, Answer, Approval
    <2> QED BY <1>4, <2>1, RespondIInv DEF Decline
  <1>5. CASE AmendSuggest(u, p, i)
    <2>1. {Answer(u, "PARTNER", "AMEND_SUGGEST", content[p])} \in SUBSET Approval
      BY <1>3, <1>5 DEF AmendSuggest, Respond, Answer, Approval
    <2> QED BY <1>5, <2>1, RespondIInv DEF AmendSuggest
  <1> QED BY <1>1, <1>2, <1>4, <1>5

LEMMA DeclinePublicIInv ==
  ASSUME IInv, NEW p \in Promises, NEW i \in Links, DeclinePublic(p, i)
  PROVE  IInv'
  <1>t. TypeOK /\ RowInv(p) /\ \A q \in Promises : RowInv(q)
    BY DEF IInv
  <1>0. /\ Live(p, i) /\ "USED" \in LinkStates \ {"PENDING"} /\ "USED" \in LinkStates
        /\ CloseLink(p, i, "USED")
    BY DEF DeclinePublic, Open, LinkStates
  <1>1. TypeOK'
    <2>1. [partner[p] EXCEPT !.status = "DECLINED"] \in Partner
      BY <1>t DEF TypeOK, Partner
    <2> QED BY <1>t, <1>0, <2>1, CloseLinkEffect DEF TypeOK, DeclinePublic, Statuses
  <1>2. \A q \in Promises \ {p} : SameRow(q)
    BY <1>t, <1>0, CloseLinkEffect DEF TypeOK, DeclinePublic, SameRow
  <1>3. RowLinks(p)'
    BY <1>t, <1>0, ClosedRowLinks DEF DeclinePublic, RowInv
  <1>4. RowInv(p)'
    BY <1>t, <1>3 DEF TypeOK, DeclinePublic, RowInv, RowComplete, RowSigned, NoRow
  <1> QED BY <1>1, <1>2, <1>4, <1>t, SameRowInv DEF IInv
-----------------------------------------------------------------------------
LEMMA ExpireIInv ==
  ASSUME IInv, ExpireInvitations
  PROVE  IInv'
  <1>t. TypeOK /\ \A q \in Promises : RowInv(q)
    BY DEF IInv
  <1>1. ASSUME NEW p \in Promises, NEW i \in Links
        PROVE  /\ link'[p][i] \in Link \cup {NoLink}
               /\ link'[p][i].state = "PENDING" => Live(p, i)
               /\ ~Live(p, i) => link'[p][i] = link[p][i]
               /\ link'[p][i].sent = link[p][i].sent
    <2>1. link'[p][i] = IF Lapsed(p, i) THEN [link[p][i] EXCEPT !.state = "EXPIRED"]
                                        ELSE link[p][i]
      BY DEF ExpireInvitations
    <2>2. link[p][i] \in Link \cup {NoLink}
      BY <1>t DEF TypeOK
    <2>3. CASE Lapsed(p, i)
      <3>1. link[p][i] \in Link /\ [link[p][i] EXCEPT !.state = "EXPIRED"] \in Link
        BY <1>t, <2>3, LiveLinkRow DEF Lapsed, LinkStates
      <3>2. [link[p][i] EXCEPT !.state = "EXPIRED"].state = "EXPIRED"
        BY <3>1 DEF Link
      <3>3. [link[p][i] EXCEPT !.state = "EXPIRED"].sent = link[p][i].sent
        BY <3>1 DEF Link
      <3> QED BY <2>1, <2>3, <3>1, <3>2, <3>3 DEF Lapsed
    <2>4. CASE ~Lapsed(p, i)
      BY <2>1, <2>2, <2>4 DEF Live
    <2> QED BY <2>3, <2>4
  <1>2. TypeOK'
    <2>1. link' \in [Promises -> [Links -> Link \cup {NoLink}]]
      BY <1>1 DEF ExpireInvitations
    <2> QED BY <1>t, <2>1 DEF TypeOK, ExpireInvitations
  <1>3. ASSUME NEW p \in Promises PROVE RowInv(p)'
    <2>1. RowLinks(p)'
      <3>1. ASSUME NEW i \in Links, i >= issued[p] PROVE link'[p][i] = NoLink
        BY <1>1, <1>t, <3>1 DEF RowInv, RowLinks, Live, NoLink
      <3> QED BY <1>1, <1>t, <3>1 DEF RowInv, RowLinks, Live, ExpireInvitations
    <2>2. RowSigned(p)'
      <3>1. ASSUME NEW i \in Links, link[p][i].state = "USED"
            PROVE  link'[p][i].state = "USED" /\ link'[p][i].sent = link[p][i].sent
        BY <1>1, <3>1 DEF Live
      <3>2. RowSigned(p)
        BY <1>t DEF RowInv
      <3> QED BY <3>1, <3>2 DEF RowSigned, ExpireInvitations, Answer
    <2> QED BY <1>t, <2>1, <2>2 DEF RowInv, RowComplete, ExpireInvitations
  <1> QED BY <1>2, <1>3 DEF IInv

LEMMA WithdrawIInv ==
  ASSUME IInv, NEW u \in Users, AccountWithdraw(u)
  PROVE  IInv'
  <1>t. TypeOK /\ \A q \in Promises : RowInv(q)
    BY DEF IInv
  <1> DEFINE gone == Drafts(u)
             left == LeftBehind(u)
  <1>0. /\ EraseRows(gone)
        /\ status' = Without(Without(status, gone, NoRow), left, "DECLINED")
        /\ link' = [p \in Promises |-> IF p \in left THEN Revoked(link[p])
                                       ELSE Without(link, gone, NoLinks)[p]]
        /\ \E now \in {"WITHDRAWN", "IN_FLIGHT"} : account' = [account EXCEPT ![u] = now]
        /\ blocks' = {b \in blocks : u \notin {b[1], b[2]}}
        /\ UNCHANGED <<today, bought>>
    BY DEF AccountWithdraw
  <1>a. \A p \in left : status[p] = "PENDING" /\ p \notin gone
    BY DEF LeftBehind, Drafts
  <1>b. NoLinks \in [Links -> Link \cup {NoLink}] /\ NoPartner \in Partner
    BY DEF NoLinks, NoPartner, Partner
  <1>c. \A p \in Promises : /\ link[p] \in [Links -> Link \cup {NoLink}]
                            /\ Revoked(link[p]) \in [Links -> Link \cup {NoLink}]
    BY <1>t, RevokedLinks DEF TypeOK
  <1> HIDE DEF gone, left
  <1>1. TypeOK'
    <2>1. link' \in [Promises -> [Links -> Link \cup {NoLink}]]
      BY <1>0, <1>b, <1>c DEF Without
    <2>2. status' \in [Promises -> Statuses \cup {NoRow}]
      BY <1>0, <1>t DEF TypeOK, Without, Statuses
    <2>3. /\ creator' \in [Promises -> Users \cup {NoUser}]
          /\ content' \in [Promises -> Content \cup {NoContent}]
          /\ partner' \in [Promises -> Partner]
          /\ issued' \in [Promises -> 0 .. ResendMax + 1]
          /\ signed' \in [Promises -> SUBSET Approval]
          /\ fresh' \subseteq Promises
      BY <1>0, <1>t, <1>b, AgreementConstants DEF TypeOK, EraseRows, Without
    <2> QED BY <1>0, <1>t, <2>1, <2>2, <2>3 DEF TypeOK
  <1>2. ASSUME NEW p \in Promises PROVE RowInv(p)'
    <2>1. CASE p \in gone
      BY <1>0, <1>a, <2>1, ErasedRowInv DEF EraseRows, Without
    <2>2. CASE p \in left
      <3>1. /\ creator'[p] = creator[p] /\ content'[p] = content[p]
            /\ issued'[p] = issued[p] /\ status'[p] = "DECLINED"
            /\ link'[p] = Revoked(link[p])
        BY <1>0, <1>a, <2>2 DEF EraseRows, Without
      <3>2. RowLinks(p)'
        <4>1. /\ \A i \in Links : link'[p][i].state # "PENDING"
              /\ \A i \in Links : link[p][i].state # "PENDING" => link'[p][i] = link[p][i]
          BY <1>c, <3>1, RevokedLinks
        <4> QED BY <1>t, <3>1, <4>1 DEF RowInv, RowLinks, Live, NoLink
      <3> QED BY <1>t, <1>a, <2>2, <3>1, <3>2 DEF RowInv, RowComplete, RowSigned, NoRow
    <2>3. CASE p \notin gone /\ p \notin left
      <3>1. SameRow(p)
        BY <1>0, <2>3 DEF EraseRows, Without, SameRow
      <3> QED BY <1>t, <3>1, SameRowInv
    <2> QED BY <2>1, <2>2, <2>3
  <1> QED BY <1>1, <1>2 DEF IInv

LEMMA AccountStepIInv ==
  ASSUME IInv, NEW u \in Users, AccountStep(u)
  PROVE  IInv'
  <1>t. TypeOK /\ \A q \in Promises : RowInv(q)
    BY DEF IInv
  <1>0. ASSUME \A q \in Promises : SameRow(q), TypeOK' PROVE IInv'
    BY <1>0, <1>t, SameRowInv DEF IInv
  <1>1. CASE SlotGrant(u)
    <2>1. TypeOK'
      BY <1>1, <1>t, AgreementConstants DEF TypeOK, SlotGrant
    <2> QED BY <1>1, <1>0, <2>1 DEF SlotGrant, SameRow
  <1>2. CASE SlotRevoke(u)
    <2>1. TypeOK'
      BY <1>2, <1>t, AgreementConstants DEF TypeOK, SlotRevoke
    <2> QED BY <1>2, <1>0, <2>1 DEF SlotRevoke, SameRow
  <1>3. ASSUME NEW v \in Users, UserBlock(u, v) PROVE IInv'
    BY <1>3, <1>0, <1>t DEF TypeOK, UserBlock, SameRow
  <1>4. ASSUME NEW v \in Users, UserUnblock(u, v) PROVE IInv'
    BY <1>4, <1>0, <1>t DEF TypeOK, UserUnblock, SameRow
  <1> QED BY <1>1, <1>2, <1>3, <1>4, WithdrawIInv DEF AccountStep
-----------------------------------------------------------------------------
LEMMA StepIInv == IInv /\ [Next]_vars => IInv'
  <1> SUFFICES ASSUME IInv, [Next]_vars PROVE IInv'
    OBVIOUS
  <1>0. ASSUME \A q \in Promises : SameRow(q), TypeOK' PROVE IInv'
    BY <1>0, SameRowInv DEF IInv
  <1>1. CASE NextDay
    BY <1>0, <1>1, AgreementConstants DEF IInv, TypeOK, NextDay, SameRow, Days
  <1>2. CASE UNCHANGED vars
    BY <1>0, <1>2 DEF IInv, TypeOK, vars, SameRow
  <1> QED BY <1>1, <1>2, CreatorStepIInv, PartnerStepIInv, DeclinePublicIInv,
             AccountStepIInv, ExpireIInv DEF Next

(* The tables keep to the inductive invariant. *)
THEOREM Inductive == Spec => []IInv
  BY InitIInv, StepIInv, PTL DEF Spec

(* Every table keeps the shape of its columns. *)
THEOREM TypeCorrect == Spec => []TypeOK
  BY Inductive, PTL DEF IInv

(* At most one link of a promise can be answered. *)
THEOREM OneLiveLinkHolds == Spec => []OneLiveLink
  <1>1. IInv => OneLiveLink
    BY DEF IInv, RowInv, RowLinks, OneLiveLink
  <1> QED BY Inductive, <1>1, PTL

(* No link outlives the PENDING state it invites to answer. *)
THEOREM LiveLinkOnlyWhilePendingHolds == Spec => []LiveLinkOnlyWhilePending
  <1>1. IInv => LiveLinkOnlyWhilePending
    BY DEF IInv, RowInv, RowLinks, LiveLinkOnlyWhilePending
  <1> QED BY Inductive, <1>1, PTL

(* Whoever opens a link sees the terms that were sent with it. *)
THEOREM LinkShowsItsTermsHolds == Spec => []LinkShowsItsTerms
  <1>1. IInv => LinkShowsItsTerms
    BY DEF IInv, RowInv, RowLinks, LinkShowsItsTerms
  <1> QED BY Inductive, <1>1, PTL

(* An activated promise carries both approvals of the text in force. *)
THEOREM SignedTermsHolds == Spec => []SignedTerms
  <1>1. IInv => SignedTerms
    BY DEF IInv, RowInv, RowSigned, SignedTerms
  <1> QED BY Inductive, <1>1, PTL
-----------------------------------------------------------------------------
(* What a step may do: it moves statuses along the shared transition       *)
(* table, takes a slot only when one is free, and never changes whom a     *)
(* promise belongs to or what became of a link.                            *)

(* The steps that send a promise. *)
Sends(u, p) ==
  \/ \E c \in Content : CreateAndSend(u, p, c) \/ UpdateAndSend(u, p, c)
  \/ Invite(u, p)

(* What every step leaves of the other promises, and of this one. *)
LEMMA StatusMoves ==
  ASSUME IInv, [Next]_vars, NEW p \in Promises
  PROVE  \/ status'[p] = status[p]
         \/ <<status[p], status'[p]>> \in PL!Allowed
  <1>t. TypeOK /\ RowInv(p)
    BY DEF IInv
  <1> USE <1>t DEF PL!Allowed, PL!Transitions, PL!Deletions, PL!Composed, PL!NoRow,
          NoRow, TypeOK
  <1>1. ASSUME NEW u \in Users, NEW q \in Promises, CreatorStep(u, q)
        PROVE  \/ status'[p] = status[p]
               \/ <<status[p], status'[p]>> \in PL!Allowed
    <2>1. ASSUME NEW c \in Content, CreateDraft(u, q, c) \/ CreateAndSend(u, q, c)
          PROVE  \/ status'[p] = status[p]
                 \/ <<status[p], status'[p]>> \in PL!Allowed
      BY <2>1 DEF CreateDraft, CreateAndSend, InsertDraft
    <2>2. ASSUME NEW c \in Content, UpdateDraft(u, q, c) \/ UpdateAndSend(u, q, c)
          PROVE  \/ status'[p] = status[p]
                 \/ <<status[p], status'[p]>> \in PL!Allowed
      BY <2>2 DEF UpdateDraft, UpdateAndSend, RewriteDraft
    <2>3. CASE Invite(u, q)
      BY <2>3 DEF Invite
    <2>4. CASE DeleteUnsettled(u, q)
      BY <2>4 DEF DeleteUnsettled, Without
    <2>5. CASE \E i \in Links : RevokeInvite(u, q, i)
      BY <2>5 DEF RevokeInvite
    <2> QED BY <1>1, <2>1, <2>2, <2>3, <2>4, <2>5 DEF CreatorStep
  <1>2. ASSUME NEW u \in Users, NEW q \in Promises, PartnerStep(u, q)
        PROVE  \/ status'[p] = status[p]
               \/ <<status[p], status'[p]>> \in PL!Allowed
    BY <1>2 DEF PartnerStep, Approve, Decline, AmendSuggest, Respond
  <1>3. ASSUME NEW q \in Promises, NEW i \in Links, DeclinePublic(q, i)
        PROVE  \/ status'[p] = status[p]
               \/ <<status[p], status'[p]>> \in PL!Allowed
    BY <1>3 DEF DeclinePublic
  <1>4. ASSUME NEW u \in Users, AccountStep(u)
        PROVE  \/ status'[p] = status[p]
               \/ <<status[p], status'[p]>> \in PL!Allowed
    <2>1. CASE AccountWithdraw(u)
      BY <2>1 DEF AccountWithdraw, Without, Drafts, LeftBehind
    <2>2. CASE SlotGrant(u) \/ SlotRevoke(u)
      BY <2>2 DEF SlotGrant, SlotRevoke
    <2>3. CASE \E v \in Users : UserBlock(u, v) \/ UserUnblock(u, v)
      BY <2>3 DEF UserBlock, UserUnblock
    <2> QED BY <1>4, <2>1, <2>2, <2>3 DEF AccountStep
  <1>5. CASE ExpireInvitations \/ NextDay
    BY <1>5 DEF ExpireInvitations, NextDay
  <1>6. CASE UNCHANGED vars
    BY <1>6 DEF vars
  <1> QED BY <1>1, <1>2, <1>3, <1>4, <1>5, <1>6 DEF Next

(* The detailed life of a promise implements the shared transition table. *)
THEOREM Refinement == Spec => ImplementsLifecycle
  <1>1. Init => PL!Init
    BY DEF Init, PL!Init, NoRow, PL!NoRow
  <1>2. IInv /\ IInv' /\ [Next]_vars => [PL!Step]_status
    <2> SUFFICES ASSUME IInv, IInv', [Next]_vars PROVE PL!Step
      OBVIOUS
    <2>1. status' \in [Promises -> PL!Statuses \cup {PL!NoRow}]
      BY DEF IInv, TypeOK, Statuses, NoRow, PL!Statuses, PL!NoRow
    <2> QED BY <2>1, StatusMoves DEF PL!Step
  <1> QED BY <1>1, <1>2, Inductive, PTL DEF Spec, ImplementsLifecycle, PL!Spec
-----------------------------------------------------------------------------
(* A step that sends nothing brings no promise into a slot. *)
LEMMA QuietSteps ==
  ASSUME IInv, [Next]_vars, NEW p \in Promises,
         \A u \in Users, q \in Promises : ~Sends(u, q),
         status'[p] \in SlotHolders
  PROVE  status[p] \in SlotHolders /\ creator'[p] = creator[p]
  <1>t. TypeOK /\ RowInv(p)
    BY DEF IInv
  <1> DEFINE Goal == status[p] \in SlotHolders /\ creator'[p] = creator[p]
  <1> USE <1>t DEF TypeOK, SlotHolders, NoRow
  <1>1. ASSUME NEW u \in Users, NEW q \in Promises, CreatorStep(u, q) PROVE Goal
    <2>1. ASSUME NEW c \in Content, CreateDraft(u, q, c) PROVE Goal
      BY <2>1 DEF CreateDraft, InsertDraft
    <2>2. ASSUME NEW c \in Content, UpdateDraft(u, q, c) PROVE Goal
      BY <2>2 DEF UpdateDraft, RewriteDraft
    <2>3. CASE DeleteUnsettled(u, q)
      BY <2>3 DEF DeleteUnsettled, EraseRows, Without
    <2>4. CASE \E i \in Links : RevokeInvite(u, q, i)
      BY <2>4 DEF RevokeInvite
    <2> QED BY <1>1, <2>1, <2>2, <2>3, <2>4 DEF CreatorStep, Sends
  <1>2. ASSUME NEW u \in Users, NEW q \in Promises, PartnerStep(u, q) PROVE Goal
    BY <1>2 DEF PartnerStep, Approve, Decline, AmendSuggest, Respond
  <1>3. ASSUME NEW q \in Promises, NEW i \in Links, DeclinePublic(q, i) PROVE Goal
    BY <1>3 DEF DeclinePublic
  <1>4. ASSUME NEW u \in Users, AccountStep(u) PROVE Goal
    <2>1. CASE AccountWithdraw(u)
      BY <2>1 DEF AccountWithdraw, EraseRows, Without, Drafts, LeftBehind
    <2>2. CASE SlotGrant(u) \/ SlotRevoke(u)
      BY <2>2 DEF SlotGrant, SlotRevoke
    <2>3. CASE \E v \in Users : UserBlock(u, v) \/ UserUnblock(u, v)
      BY <2>3 DEF UserBlock, UserUnblock
    <2> QED BY <1>4, <2>1, <2>2, <2>3 DEF AccountStep
  <1>5. CASE ExpireInvitations \/ NextDay
    BY <1>5 DEF ExpireInvitations, NextDay
  <1>6. CASE UNCHANGED vars
    BY <1>6 DEF vars
  <1> QED BY <1>1, <1>2, <1>3, <1>4, <1>5, <1>6 DEF Next

(* A step that sends a promise p of u brings at most p into a slot of u,   *)
(* and p comes from outside only if a slot was free.                       *)
LEMMA SendingSteps ==
  ASSUME IInv, NEW u \in Users, NEW p \in Promises, Sends(u, p)
  PROVE  /\ bought' = bought
         /\ p \in Held(u) \/ SlotUsed(u) < SlotCapacity(u)
         /\ Held(u)' \subseteq Held(u) \cup {p}
         /\ \A v \in Users \ {u} : Held(v)' \subseteq Held(v)
  <1>t. TypeOK /\ RowInv(p)
    BY DEF IInv
  <1> DEFINE Goal == /\ bought' = bought
                     /\ p \in Held(u) \/ SlotUsed(u) < SlotCapacity(u)
                     /\ Held(u)' \subseteq Held(u) \cup {p}
                     /\ \A v \in Users \ {u} : Held(v)' \subseteq Held(v)
  <1> USE <1>t DEF TypeOK, Held
  <1>1. ASSUME NEW c \in Content, CreateAndSend(u, p, c) PROVE Goal
    BY <1>1 DEF CreateAndSend, InsertDraft, MaySend
  <1>2. ASSUME NEW c \in Content, UpdateAndSend(u, p, c) PROVE Goal
    BY <1>2 DEF UpdateAndSend, RewriteDraft, MaySend
  <1>3. CASE Invite(u, p)
    BY <1>3 DEF Invite, MaySend, SlotHolders
  <1> QED BY <1>1, <1>2, <1>3 DEF Sends

(* On every path into a slot the creator had one free. *)
THEOREM SlotTakenOnlyWhenFreeHolds == Spec => SlotTakenOnlyWhenFree
  <1>1. ASSUME IInv, [Next]_vars, NEW v \in Users, SlotUsed(v)' > SlotUsed(v)
        PROVE  SlotUsed(v)' <= SlotCapacity(v)
    <2>f. /\ IsFiniteSet(Held(v)) /\ IsFiniteSet(Held(v)')
          /\ SlotUsed(v) \in Nat /\ SlotUsed(v)' \in Nat
      BY AgreementConstants, FS_Subset, FS_CardinalityType DEF Held, SlotUsed
    <2>1. ~(Held(v)' \subseteq Held(v))
      BY <1>1, <2>f, FS_Subset DEF SlotUsed
    <2>2. PICK u \in Users, p \in Promises : Sends(u, p)
      <3>1. CASE \A u \in Users, q \in Promises : ~Sends(u, q)
        <4>1. ASSUME NEW p \in Held(v)' PROVE p \in Held(v)
          BY <1>1, <3>1, <4>1, QuietSteps DEF Held
        <4> QED BY <2>1, <4>1
      <3> QED BY <3>1
    <2>3. /\ u = v /\ p \notin Held(v) /\ SlotUsed(v) < SlotCapacity(v)
          /\ Held(v)' \subseteq Held(v) \cup {p}
      BY <1>1, <2>1, <2>2, SendingSteps
    <2>4. SlotUsed(v)' <= SlotUsed(v) + 1
      <3>1. /\ IsFiniteSet(Held(v) \cup {p})
            /\ Cardinality(Held(v) \cup {p}) = Cardinality(Held(v)) + 1
        BY <2>3, <2>f, FS_AddElement
      <3>2. Cardinality(Held(v)') <= Cardinality(Held(v) \cup {p})
        BY <2>3, <3>1, FS_Subset
      <3> QED BY <3>1, <3>2 DEF SlotUsed
    <2>5. SlotCapacity(v) \in Int
      BY <1>1, AgreementConstants DEF SlotCapacity, IInv, TypeOK
    <2> QED BY <2>f, <2>3, <2>4, <2>5
  <1>2. IInv /\ [Next]_vars =>
          [\A u \in Users : SlotUsed(u)' > SlotUsed(u) => SlotUsed(u)' <= SlotCapacity(u)]_vars
    BY <1>1
  <1> QED BY <1>2, Inductive, PTL DEF Spec, SlotTakenOnlyWhenFree
-----------------------------------------------------------------------------
(* What a step leaves of the partner and of the links of a promise that    *)
(* still exists after it.                                                  *)
PartnerKept(p) == partner[p].user # NoUser => partner'[p].user = partner[p].user

LinksKept(p) ==
  \A i \in Links : link[p][i].state \in {"USED", "REVOKED", "EXPIRED"}
                   => link'[p][i] = link[p][i]

LEMMA IssueKeepsLinks ==
  ASSUME IInv, NEW q \in Promises, NEW c \in Content, IssueLink(q, c), NEW p \in Promises
  PROVE  LinksKept(p)
  <1>t. TypeOK /\ RowInv(q)
    BY DEF IInv
  <1>1. CASE p # q
    BY <1>1, <1>t, IssueLinkEffect DEF LinksKept
  <1>2. CASE p = q
    <2>1. link[q] \in [Links -> Link \cup {NoLink}]
      BY <1>t DEF TypeOK
    <2>2. link[q][issued[q]] = NoLink
      <3>1. issued[q] \in Links
        BY <1>t, IssueLinkEffect
      <3> QED BY <1>t, <3>1 DEF RowInv, RowLinks, Links
    <2>3. ASSUME NEW i \in Links, link[q][i].state \in {"USED", "REVOKED", "EXPIRED"}
          PROVE  link'[q][i] = link[q][i]
      <3>1. i # issued[q] /\ link[q][i].state # "PENDING"
        BY <2>2, <2>3 DEF NoLink
      <3>2. Revoked(link[q])[i] = link[q][i]
        BY <2>1, <3>1, RevokedLinks
      <3>3. link'[q][i] = Revoked(link[q])[i]
        BY <1>t, <3>1, IssueLinkEffect
      <3> QED BY <3>2, <3>3
    <2> QED BY <1>2, <2>3 DEF LinksKept
  <1> QED BY <1>1, <1>2

LEMMA CloseKeepsLinks ==
  ASSUME IInv, NEW q \in Promises, NEW i \in Links, Live(q, i), NEW s \in LinkStates,
         CloseLink(q, i, s), NEW p \in Promises
  PROVE  LinksKept(p)
  BY CloseLinkEffect DEF IInv, LinksKept, Live

LEMMA KeptByStep ==
  ASSUME IInv, [Next]_vars, NEW p \in Promises, status'[p] # NoRow
  PROVE  PartnerKept(p) /\ LinksKept(p)
  <1>t. TypeOK /\ RowInv(p)
    BY DEF IInv
  <1> DEFINE Goal == PartnerKept(p) /\ LinksKept(p)
  <1>s. ASSUME partner'[p] = partner[p], LinksKept(p) PROVE Goal
    BY <1>s DEF PartnerKept
  <1>r. ASSUME partner'[p] = partner[p], link'[p] = link[p] PROVE Goal
    BY <1>r DEF PartnerKept, LinksKept
  <1>1. ASSUME NEW u \in Users, NEW q \in Promises, CreatorStep(u, q) PROVE Goal
    <2>1. CASE \E c \in Content : CreateDraft(u, q, c) \/ UpdateDraft(u, q, c)
      BY <2>1, <1>r DEF CreateDraft, UpdateDraft
    <2>2. CASE \E c \in Content : CreateAndSend(u, q, c) \/ UpdateAndSend(u, q, c)
      BY <2>2, <1>s, IssueKeepsLinks DEF CreateAndSend, UpdateAndSend
    <2>3. CASE Invite(u, q)
      <3>1. IssueLink(q, content[q]) /\ content[q] \in Content /\ partner' = partner
        BY <2>3 DEF Invite, IInv, RowInv, RowComplete, NoRow
      <3> QED BY <1>s, <3>1, IssueKeepsLinks
    <2>4. CASE DeleteUnsettled(u, q)
      BY <2>4, <1>r, <1>t DEF DeleteUnsettled, EraseRows, Without, TypeOK
    <2>5. CASE \E i \in Links : RevokeInvite(u, q, i)
      BY <2>5, <1>s, CloseKeepsLinks DEF RevokeInvite, LinkStates
    <2> QED BY <1>1, <2>1, <2>2, <2>3, <2>4, <2>5 DEF CreatorStep
  <1>2. ASSUME NEW u \in Users, NEW q \in Promises, PartnerStep(u, q) PROVE Goal
    <2>1. PICK i \in Links : /\ CanRespond(u, q, i) /\ CloseLink(q, i, "USED")
                             /\ \E s \in {"JOINED", "INVITED", "DECLINED"} :
                                  partner' = [partner EXCEPT ![q] = [user |-> u, status |-> s]]
      BY <1>2 DEF PartnerStep, Approve, Decline, AmendSuggest, Respond
    <2>2. LinksKept(p)
      BY <2>1, CloseKeepsLinks DEF CanRespond, Open, LinkStates
    <2>3. PartnerKept(p)
      BY <2>1, <1>t DEF CanRespond, PartnerKept, TypeOK
    <2> QED BY <2>2, <2>3
  <1>3. ASSUME NEW q \in Promises, NEW i \in Links, DeclinePublic(q, i) PROVE Goal
    <2>1. LinksKept(p)
      BY <1>3, CloseKeepsLinks DEF DeclinePublic, Open, LinkStates
    <2>2. PartnerKept(p)
      BY <1>3, <1>t DEF DeclinePublic, PartnerKept, TypeOK, Partner
    <2> QED BY <2>1, <2>2
  <1>4. ASSUME NEW u \in Users, AccountStep(u) PROVE Goal
    <2>1. CASE AccountWithdraw(u)
      <3>1. p \notin Drafts(u)
        BY <2>1 DEF AccountWithdraw, Without, LeftBehind, Drafts
      <3>2. partner'[p] = partner[p]
        BY <2>1, <3>1, <1>t DEF AccountWithdraw, EraseRows, Without, TypeOK
      <3>3. link'[p] = link[p] \/ link'[p] = Revoked(link[p])
        BY <2>1, <3>1, <1>t DEF AccountWithdraw, Without, TypeOK
      <3>4. LinksKept(p)
        BY <3>3, <1>t, RevokedLinks DEF LinksKept, TypeOK
      <3> QED BY <1>s, <3>2, <3>4
    <2>2. CASE SlotGrant(u) \/ SlotRevoke(u)
      BY <2>2, <1>r DEF SlotGrant, SlotRevoke
    <2>3. CASE \E v \in Users : UserBlock(u, v) \/ UserUnblock(u, v)
      BY <2>3, <1>r DEF UserBlock, UserUnblock
    <2> QED BY <1>4, <2>1, <2>2, <2>3 DEF AccountStep
  <1>5. CASE ExpireInvitations
    <2>1. \A i \in Links : ~Live(p, i) => link'[p][i] = link[p][i]
      BY <1>5 DEF ExpireInvitations, Lapsed
    <2> QED BY <1>5, <1>s, <2>1 DEF ExpireInvitations, LinksKept, Live
  <1>6. CASE NextDay \/ UNCHANGED vars
    BY <1>6, <1>r DEF NextDay, vars
  <1> QED BY <1>1, <1>2, <1>3, <1>4, <1>5, <1>6 DEF Next

(* Once somebody has answered, nobody else takes the partner's place. *)
THEOREM PartnerIsKeptHolds == Spec => PartnerIsKept
  <1>1. IInv /\ [Next]_vars =>
          [\A p \in Promises : partner[p].user # NoUser /\ status'[p] # NoRow
             => partner'[p].user = partner[p].user]_vars
    BY KeptByStep DEF PartnerKept
  <1> QED BY <1>1, Inductive, PTL DEF Spec, PartnerIsKept

(* Used, revoked and expired links stay what they are. *)
THEOREM SettledLinkIsFinalHolds == Spec => SettledLinkIsFinal
  <1>1. IInv /\ [Next]_vars =>
          [\A p \in Promises, i \in Links :
             link[p][i].state \in {"USED", "REVOKED", "EXPIRED"} /\ status'[p] # NoRow
             => link'[p][i] = link[p][i]]_vars
    BY KeptByStep DEF LinksKept
  <1> QED BY <1>1, Inductive, PTL DEF Spec, SettledLinkIsFinal
-----------------------------------------------------------------------------
(* No step opens anything for an account that is withdrawn. *)
LEMMA WithdrawnStep ==
  ASSUME IInv, WithdrawnOwnNothingOpen, [Next]_vars
  PROVE  WithdrawnOwnNothingOpen'
  <1>t. TypeOK /\ \A q \in Promises : RowInv(q)
    BY DEF IInv
  <1> SUFFICES ASSUME NEW v \in Users, account'[v] # "ACTIVE",
                      NEW p \in Promises, creator'[p] = v
               PROVE  status'[p] \in {"ACTIVE", "DECLINED"}
    BY DEF WithdrawnOwnNothingOpen
  <1> DEFINE Goal == status'[p] \in {"ACTIVE", "DECLINED"}
  <1>0. ASSUME account[v] # "ACTIVE", creator'[p] = creator[p], status'[p] = status[p]
        PROVE  Goal
    BY <1>0 DEF WithdrawnOwnNothingOpen
  <1>1. ASSUME NEW u \in Users, NEW q \in Promises, CreatorStep(u, q) PROVE Goal
    <2> USE <1>t DEF TypeOK
    <2>1. CASE \E c \in Content : CreateDraft(u, q, c) \/ CreateAndSend(u, q, c)
      BY <2>1, <1>0 DEF CreateDraft, CreateAndSend, InsertDraft
    <2>2. CASE \E c \in Content : UpdateDraft(u, q, c) \/ UpdateAndSend(u, q, c)
      BY <2>2, <1>0 DEF UpdateDraft, UpdateAndSend, RewriteDraft
    <2>3. CASE Invite(u, q)
      BY <2>3, <1>0 DEF Invite
    <2>4. CASE DeleteUnsettled(u, q)
      BY <2>4, <1>0, AgreementConstants DEF DeleteUnsettled, EraseRows, Without
    <2>5. CASE \E i \in Links : RevokeInvite(u, q, i)
      BY <2>5, <1>0 DEF RevokeInvite
    <2> QED BY <1>1, <2>1, <2>2, <2>3, <2>4, <2>5 DEF CreatorStep
  <1>2. ASSUME NEW u \in Users, NEW q \in Promises, PartnerStep(u, q) PROVE Goal
    <2>1. /\ account[v] # "ACTIVE" /\ creator' = creator /\ status[q] = "PENDING"
          /\ \A r \in Promises \ {q} : status'[r] = status[r]
      BY <1>2, <1>t DEF PartnerStep, Approve, Decline, AmendSuggest, Respond, TypeOK
    <2> QED BY <2>1, <1>0 DEF WithdrawnOwnNothingOpen
  <1>3. ASSUME NEW q \in Promises, NEW i \in Links, DeclinePublic(q, i) PROVE Goal
    BY <1>3, <1>0, <1>t DEF DeclinePublic, TypeOK
  <1>4. ASSUME NEW u \in Users, AccountStep(u) PROVE Goal
    <2>1. CASE AccountWithdraw(u)
      <3>1. /\ p \notin Drafts(u) /\ creator[p] = v
            /\ status'[p] = IF p \in LeftBehind(u) THEN "DECLINED" ELSE status[p]
            /\ v # u => account[v] # "ACTIVE"
        BY <2>1, <1>t, AgreementConstants DEF AccountWithdraw, EraseRows, Without, TypeOK
      <3>2. CASE v = u
        <4>1. status[p] \notin {"DRAFT", NoRow}
          BY <3>1, <3>2, <1>t, AgreementConstants DEF Drafts, RowInv, RowComplete
        <4> QED BY <3>1, <3>2, <4>1, <1>t DEF LeftBehind, TypeOK, Statuses
      <3>3. CASE v # u
        BY <3>1, <3>3 DEF WithdrawnOwnNothingOpen
      <3> QED BY <3>2, <3>3
    <2>2. CASE SlotGrant(u) \/ SlotRevoke(u)
      BY <2>2, <1>0 DEF SlotGrant, SlotRevoke
    <2>3. CASE \E w \in Users : UserBlock(u, w) \/ UserUnblock(u, w)
      BY <2>3, <1>0 DEF UserBlock, UserUnblock
    <2> QED BY <1>4, <2>1, <2>2, <2>3 DEF AccountStep
  <1>5. CASE ExpireInvitations \/ NextDay \/ UNCHANGED vars
    BY <1>5, <1>0 DEF ExpireInvitations, NextDay, vars
  <1> QED BY <1>1, <1>2, <1>3, <1>4, <1>5 DEF Next

(* A withdrawn account never again owns a draft or an open invitation. *)
THEOREM WithdrawnOwnNothingOpenHolds == Spec => []WithdrawnOwnNothingOpen
  <1>1. Init => WithdrawnOwnNothingOpen
    BY DEF Init, WithdrawnOwnNothingOpen
  <1> QED BY <1>1, WithdrawnStep, Inductive, PTL DEF Spec
=============================================================================
