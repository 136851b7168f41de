------------------------------ MODULE Agreement ------------------------------
(***************************************************************************)
(* How a promise comes about: drafts, invitation links, the answers to a   *)
(* link, the slots a creator's promises take, blocks and the withdrawal of *)
(* an account.  One action per server function; each is one database       *)
(* transaction, taken here as one step (InviteTransactions splits the same *)
(* functions into their statements).                                       *)
(*                                                                         *)
(* Tables and what stands for them                                         *)
(*   promises            status, creator, content                          *)
(*   promise_versions    content: version 1, whose row and the copy in     *)
(*                       promises are always written together              *)
(*   promise_participants partner (the CREATOR row is implied by creator)  *)
(*   invitations         link: the PARTNER links of a promise, indexed by  *)
(*                       resend_count, so the latest has the largest index *)
(*   approvals           signed                                            *)
(*   users, blocks       account, blocks                                   *)
(*   slot_purchases      bought: purchases that are not revoked            *)
(*                                                                         *)
(* Time is counted in KST days; the 72 hours of a link are InviteTTL days. *)
(***************************************************************************)
EXTENDS Integers, FiniteSets

CONSTANTS
  Users, Promises,
  Bodies,      \* everything a promise says except its end date
  NoUser,      \* user_id is null
  InviteTTL,   \* lf_invite_ttl_hours, in days
  ResendMax,   \* lf_invite_resend_max
  DraftMax,    \* lf_draft_max_concurrent
  DailyMax,    \* lf_promise_max_per_day
  FreeSlots,   \* lf_free_promise_slots
  LastDay,     \* bound of the model: the calendar ends here
  MaxBought    \* bound of the model: purchases of one user

ASSUME AgreementConstants ==
  /\ InviteTTL \in Nat /\ ResendMax \in Nat
  /\ DraftMax \in Nat /\ DailyMax \in Nat
  /\ FreeSlots \in Nat /\ LastDay \in Nat /\ MaxBought \in Nat
  /\ NoUser \notin Users
  /\ IsFiniteSet(Promises)

VARIABLES
  today,     \* the current KST date
  fresh,     \* the promises whose created_at falls on today
  status,    \* promises.status, NoRow when there is no row
  creator,   \* promises.creator_id
  content,   \* title .. penalty, and end_date, of version 1
  partner,   \* the PARTNER row of promise_participants
  issued,    \* how many PARTNER links the promise has had
  link,      \* invitations
  signed,    \* approvals
  account,   \* users.status, and whether an answer under way outlives a withdrawal
  blocks,    \* <<blocker, blocked>>
  bought     \* paid slots not revoked

vars == <<today, fresh, status, creator, content, partner, issued, link, signed,
          account, blocks, bought>>
-----------------------------------------------------------------------------
NoRow == "NO_ROW"
Statuses == {"DRAFT", "PENDING", "ACTIVE", "DECLINED"}
Days == 0 .. LastDay

Content == [body : Bodies, end : Days]
NoContent == [body |-> NoUser, end |-> 0]

LinkStates == {"PENDING", "USED", "REVOKED", "EXPIRED"}
Links == 0 .. ResendMax
Link == [state : LinkStates, expires : 0 .. LastDay + InviteTTL, sent : Content]
NoLink == [state |-> "NONE", expires |-> 0, sent |-> NoContent]
NoLinks == [i \in Links |-> NoLink]

Partner == [user : Users \cup {NoUser},
            status : {"NONE", "INVITED", "JOINED", "DECLINED"}]
NoPartner == [user |-> NoUser, status |-> "NONE"]

Approval == [user : Users, role : {"CREATOR", "PARTNER"},
             action : {"APPROVE", "DECLINE", "AMEND_SUGGEST"}, seen : Content]

(* The slots a creator uses and owns. *)
SlotHolders == {"PENDING", "ACTIVE"}
Held(u) == {p \in Promises : creator[p] = u /\ status[p] \in SlotHolders}
SlotUsed(u) == Cardinality(Held(u))
SlotCapacity(u) == FreeSlots + bought[u]

Drafts(u) == {p \in Promises : creator[p] = u /\ status[p] = "DRAFT"}

(* A link that can still be answered. *)
Live(p, i) == link[p][i].state = "PENDING"
Open(p, i) == Live(p, i) /\ today < link[p][i].expires

(* Deleting promise rows takes everything that hangs on them along. *)
Without(f, gone, blank) == [p \in Promises |-> IF p \in gone THEN blank ELSE f[p]]

EraseRows(gone) ==
  /\ fresh'   = fresh \ gone
  /\ creator' = Without(creator, gone, NoUser)
  /\ content' = Without(content, gone, NoContent)
  /\ partner' = Without(partner, gone, NoPartner)
  /\ issued'  = Without(issued, gone, 0)
  /\ signed'  = Without(signed, gone, {})

Init ==
  /\ today = 0
  /\ fresh = {}
  /\ status = [p \in Promises |-> NoRow]
  /\ creator = [p \in Promises |-> NoUser]
  /\ content = [p \in Promises |-> NoContent]
  /\ partner = [p \in Promises |-> NoPartner]
  /\ issued = [p \in Promises |-> 0]
  /\ link = [p \in Promises |-> NoLinks]
  /\ signed = [p \in Promises |-> {}]
  /\ account = [u \in Users |-> "ACTIVE"]
  /\ blocks = {}
  /\ bought = [u \in Users |-> 0]
-----------------------------------------------------------------------------
(* Sending                                                                 *)

MaySendAtLimit(u, c) ==
  /\ c.end >= today
  /\ SlotUsed(u) <= SlotCapacity(u)

(* A draft may be sent while its end date has not passed and a slot is     *)
(* free; the caller holds the creator's slot lock.                         *)
MaySend(u, c) ==
  /\ c.end >= today
  /\ SlotUsed(u) < SlotCapacity(u)

RevokedAll(links) ==
  [i \in Links |-> IF links[i].state # "NONE"
                   THEN [links[i] EXCEPT !.state = "REVOKED"]
                   ELSE links[i]]

Revoked(links) ==
  [i \in Links |-> IF links[i].state = "PENDING"
                   THEN [links[i] EXCEPT !.state = "REVOKED"]
                   ELSE links[i]]

NewLink(c) == [state |-> "PENDING", expires |-> today + InviteTTL, sent |-> c]

IssueBesideOthers(p, c) ==
  /\ issued[p] <= ResendMax
  /\ link' = [link EXCEPT ![p][issued[p]] = NewLink(c)]
  /\ issued' = [issued EXCEPT ![p] = @ + 1]

IssueOnceMore(p, c) ==
  /\ issued[p] <= ResendMax + 1
  /\ link' = [link EXCEPT ![p] = [Revoked(link[p]) EXCEPT ![issued[p]] = NewLink(c)]]
  /\ issued' = [issued EXCEPT ![p] = @ + 1]

(* lf_invite_issue_row: revoke the links that are out, add the next one,   *)
(* up to the resend limit.                                                 *)
IssueLink(p, c) ==
  /\ issued[p] <= ResendMax
  /\ link' = [link EXCEPT ![p] = [Revoked(link[p]) EXCEPT ![issued[p]] = NewLink(c)]]
  /\ issued' = [issued EXCEPT ![p] = @ + 1]

(* A link that is out is used, revoked or expires. *)
CloseLink(p, i, s) == link' = [link EXCEPT ![p][i].state = s]

(* promise-create, with or without sending. *)
InsertDraft(u, p, c) ==
  /\ account[u] = "ACTIVE"
  /\ status[p] = NoRow
  /\ c.end >= today
  /\ Cardinality(Drafts(u)) < DraftMax
  /\ Cardinality({q \in fresh : creator[q] = u}) < DailyMax
  /\ fresh' = fresh \cup {p}
  /\ creator' = [creator EXCEPT ![p] = u]
  /\ content' = [content EXCEPT ![p] = c]

CreateDraft(u, p, c) ==
  /\ InsertDraft(u, p, c)
  /\ status' = [status EXCEPT ![p] = "DRAFT"]
  /\ UNCHANGED <<today, partner, issued, link, signed, account, blocks, bought>>

CreateAndSend(u, p, c) ==
  /\ InsertDraft(u, p, c)
  /\ MaySend(u, c)
  /\ IssueLink(p, c)
  /\ status' = [status EXCEPT ![p] = "PENDING"]
  /\ UNCHANGED <<today, partner, signed, account, blocks, bought>>

RewriteUnsettled(u, p, c) ==
  /\ account[u] = "ACTIVE"
  /\ creator[p] = u
  /\ status[p] \in {"DRAFT", "PENDING"}
  /\ c.end >= today
  /\ content' = [content EXCEPT ![p] = c]

(* promise-draft-update, with or without sending. *)
RewriteDraft(u, p, c) ==
  /\ account[u] = "ACTIVE"
  /\ creator[p] = u
  /\ status[p] = "DRAFT"
  /\ c.end >= today
  /\ content' = [content EXCEPT ![p] = c]

UpdateDraft(u, p, c) ==
  /\ RewriteDraft(u, p, c)
  /\ UNCHANGED <<today, fresh, status, creator, partner, issued, link, signed,
                 account, blocks, bought>>

UpdateAndSend(u, p, c) ==
  /\ RewriteDraft(u, p, c)
  /\ MaySend(u, c)
  /\ IssueLink(p, c)
  /\ status' = [status EXCEPT ![p] = "PENDING"]
  /\ UNCHANGED <<today, fresh, creator, partner, signed, account, blocks, bought>>

(* promise-invite: a draft is sent as it is; a pending promise gets a new  *)
(* link, without a slot or end date check since it already has its slot.   *)
Invite(u, p) ==
  /\ account[u] = "ACTIVE"
  /\ creator[p] = u
  /\ status[p] \in {"DRAFT", "PENDING"}
  /\ status[p] = "DRAFT" => MaySend(u, content[p])
  /\ IssueLink(p, content[p])
  /\ status' = [status EXCEPT ![p] = "PENDING"]
  /\ UNCHANGED <<today, fresh, creator, content, partner, signed, account, blocks, bought>>

(* promise-pending-delete, and the row delete that the app issues for a    *)
(* draft.  The daily limit counts rows, so a deleted one is not counted.   *)
DeleteUnsettled(u, p) ==
  /\ account[u] = "ACTIVE"
  /\ creator[p] = u
  /\ status[p] \in {"DRAFT", "PENDING"}
  /\ EraseRows({p})
  /\ status' = Without(status, {p}, NoRow)
  /\ link' = Without(link, {p}, NoLinks)
  /\ UNCHANGED <<today, account, blocks, bought>>

(* invite-revoke: the latest link that is out; the promise stays PENDING.  *)
RevokeInvite(u, p, i) ==
  /\ account[u] = "ACTIVE"
  /\ creator[p] = u
  /\ status[p] = "PENDING"
  /\ Live(p, i)
  /\ \A j \in Links : Live(p, j) => j <= i
  /\ CloseLink(p, i, "REVOKED")
  /\ UNCHANGED <<today, fresh, status, creator, content, partner, issued, signed,
                 account, blocks, bought>>
-----------------------------------------------------------------------------
(* Answering                                                               *)

CanRespondOneself(u, p, i) ==
  /\ Open(p, i)
  /\ account[u] # "WITHDRAWN"
  /\ partner[p].user \in {NoUser, u}
  /\ <<u, creator[p]>> \notin blocks
  /\ <<creator[p], u>> \notin blocks

CanRespondWhoever(u, p, i) ==
  /\ Open(p, i)
  /\ account[u] # "WITHDRAWN"
  /\ u # creator[p]
  /\ <<u, creator[p]>> \notin blocks
  /\ <<creator[p], u>> \notin blocks

(* Who may answer a link (lf_invite_lock_for_response and the copy of it   *)
(* in lf_promise_approve).  That the account is ACTIVE is asked by the     *)
(* gate before every call, lf_assert_actor in a transaction of its own: a  *)
(* withdrawal that commits between the two finds the answer "IN_FLIGHT",   *)
(* and it is still carried out (here whichever link it was sent for).      *)
CanRespond(u, p, i) ==
  /\ Open(p, i)
  /\ account[u] # "WITHDRAWN"
  /\ u # creator[p]
  /\ partner[p].user \in {NoUser, u}
  /\ <<u, creator[p]>> \notin blocks
  /\ <<creator[p], u>> \notin blocks

Answer(u, role, action, c) ==
  [user |-> u, role |-> role, action |-> action, seen |-> c]

(* What every answer of an identified partner writes. *)
Respond(u, p, i, to, partnerStatus, answers) ==
  /\ CanRespond(u, p, i)
  /\ status[p] = "PENDING"
  /\ status' = [status EXCEPT ![p] = to]
  /\ partner' = [partner EXCEPT ![p] = [user |-> u, status |-> partnerStatus]]
  /\ signed' = [signed EXCEPT ![p] = @ \cup answers]
  /\ CloseLink(p, i, "USED")
  /\ account' = [account EXCEPT ![u] = IF @ = "ACTIVE" THEN @ ELSE "WITHDRAWN"]
  /\ UNCHANGED <<today, fresh, creator, content, issued, blocks, bought>>

(* promise-approve: the only answer that looks at the end date. *)
Approve(u, p, i) ==
  /\ content[p].end >= today
  /\ Respond(u, p, i, "ACTIVE", "JOINED",
             {Answer(creator[p], "CREATOR", "APPROVE", content[p]),
              Answer(u, "PARTNER", "APPROVE", content[p])})

(* promise-decline *)
Decline(u, p, i) ==
  Respond(u, p, i, "DECLINED", "DECLINED",
          {Answer(u, "PARTNER", "DECLINE", content[p])})

(* promise-amend: back to a draft, with the partner remembered. *)
AmendSuggest(u, p, i) ==
  Respond(u, p, i, "DRAFT", "INVITED",
          {Answer(u, "PARTNER", "AMEND_SUGGEST", content[p])})

DeclinePublicKeepingLink(p, i) ==
  /\ Open(p, i)
  /\ status[p] = "PENDING"
  /\ status' = [status EXCEPT ![p] = "DECLINED"]
  /\ partner' = [partner EXCEPT ![p].status = "DECLINED"]
  /\ UNCHANGED <<today, fresh, creator, content, issued, link, signed, account,
                 blocks, bought>>

(* invite-decline-public: whoever holds the link, without an account. *)
DeclinePublic(p, i) ==
  /\ Open(p, i)
  /\ status[p] = "PENDING"
  /\ status' = [status EXCEPT ![p] = "DECLINED"]
  /\ partner' = [partner EXCEPT ![p].status = "DECLINED"]
  /\ CloseLink(p, i, "USED")
  /\ UNCHANGED <<today, fresh, creator, content, issued, signed, account, blocks,
                 bought>>
-----------------------------------------------------------------------------
(* Batches, accounts, purchases and the calendar                           *)

Lapsed(p, i) == Live(p, i) /\ link[p][i].expires <= today

ExpireInvitationsLate ==
  /\ \E p \in Promises, i \in Links : Lapsed(p, i) /\ link[p][i].expires < today
  /\ link' = [p \in Promises |-> [i \in Links |->
                IF Lapsed(p, i) /\ link[p][i].expires < today
                THEN [link[p][i] EXCEPT !.state = "EXPIRED"]
                ELSE link[p][i]]]
  /\ UNCHANGED <<today, fresh, status, creator, content, partner, issued, signed,
                 account, blocks, bought>>

(* J-04 takes every lapsed link; the promise stays as it is. *)
ExpireInvitations ==
  /\ \E p \in Promises, i \in Links : Lapsed(p, i)
  /\ link' = [p \in Promises |-> [i \in Links |->
                IF Lapsed(p, i) THEN [link[p][i] EXCEPT !.state = "EXPIRED"]
                                ELSE link[p][i]]]
  /\ UNCHANGED <<today, fresh, status, creator, content, partner, issued, signed,
                 account, blocks, bought>>

LeftBehindOfOthers(u) ==
  {p \in Promises : /\ status[p] = "PENDING"
                    /\ partner[p].user = u /\ partner[p].status \in {"INVITED", "JOINED"}}

LeftBehindInAnyState(u) ==
  {p \in Promises : \/ creator[p] = u /\ status[p] # "DRAFT"
                    \/ partner[p].user = u /\ partner[p].status \in {"INVITED", "JOINED"}}

(* The pending promises that a withdrawing account leaves behind. *)
LeftBehind(u) ==
  {p \in Promises : /\ status[p] = "PENDING"
                    /\ \/ creator[p] = u
                       \/ partner[p].user = u /\ partner[p].status \in {"INVITED", "JOINED"}}

(* account-withdraw: the account's drafts disappear, its pending promises  *)
(* are declined with their links revoked, its blocks are lifted.  One      *)
(* answer of the account may have passed the gate before.                  *)
AccountWithdraw(u) ==
  /\ account[u] = "ACTIVE"
  /\ LET gone == Drafts(u)
         left == LeftBehind(u)
     IN  /\ EraseRows(gone)
         /\ status' = Without(Without(status, gone, NoRow), left, "DECLINED")
         /\ link' = [p \in Promises |->
                       IF p \in left THEN Revoked(link[p])
                                     ELSE Without(link, gone, NoLinks)[p]]
  /\ \E now \in {"WITHDRAWN", "IN_FLIGHT"} : account' = [account EXCEPT ![u] = now]
  /\ blocks' = {b \in blocks : u \notin {b[1], b[2]}}
  /\ UNCHANGED <<today, bought>>

(* lf_users_share_promise *)
Parties(p) == {creator[p]} \cup IF partner[p].status = "JOINED" THEN {partner[p].user} ELSE {}

UserBlock(u, v) ==
  /\ account[u] = "ACTIVE"
  /\ u # v
  /\ \E p \in Promises : {u, v} \subseteq Parties(p)
  /\ blocks' = blocks \cup {<<u, v>>}
  /\ UNCHANGED <<today, fresh, status, creator, content, partner, issued, link,
                 signed, account, bought>>

UserUnblock(u, v) ==
  /\ account[u] = "ACTIVE"
  /\ <<u, v>> \in blocks
  /\ blocks' = blocks \ {<<u, v>>}
  /\ UNCHANGED <<today, fresh, status, creator, content, partner, issued, link,
                 signed, account, bought>>

(* lf_slot_grant of a new order, lf_slot_revoke of one voided at the store. *)
SlotGrant(u) ==
  /\ account[u] = "ACTIVE"
  /\ bought[u] < MaxBought
  /\ bought' = [bought EXCEPT ![u] = @ + 1]
  /\ UNCHANGED <<today, fresh, status, creator, content, partner, issued, link,
                 signed, account, blocks>>

SlotRevoke(u) ==
  /\ bought[u] > 0
  /\ bought' = [bought EXCEPT ![u] = @ - 1]
  /\ UNCHANGED <<today, fresh, status, creator, content, partner, issued, link,
                 signed, account, blocks>>

NextDay ==
  /\ today < LastDay
  /\ today' = today + 1
  /\ fresh' = {}
  /\ UNCHANGED <<status, creator, content, partner, issued, link, signed,
                 account, blocks, bought>>
-----------------------------------------------------------------------------
CreatorStep(u, p) ==
  \/ \E c \in Content : \/ CreateDraft(u, p, c) \/ CreateAndSend(u, p, c)
                        \/ UpdateDraft(u, p, c) \/ UpdateAndSend(u, p, c)
  \/ Invite(u, p)
  \/ DeleteUnsettled(u, p)
  \/ \E i \in Links : RevokeInvite(u, p, i)

PartnerStep(u, p) ==
  \E i \in Links : Approve(u, p, i) \/ Decline(u, p, i) \/ AmendSuggest(u, p, i)

AccountStep(u) ==
  \/ AccountWithdraw(u) \/ SlotGrant(u) \/ SlotRevoke(u)
  \/ \E v \in Users : UserBlock(u, v) \/ UserUnblock(u, v)

Next ==
  \/ \E u \in Users, p \in Promises : CreatorStep(u, p) \/ PartnerStep(u, p)
  \/ \E p \in Promises, i \in Links : DeclinePublic(p, i)
  \/ \E u \in Users : AccountStep(u)
  \/ ExpireInvitations
  \/ NextDay

(* pg_cron starts J-04 every thirty minutes; nothing makes a user act. *)
Fairness == WF_vars(ExpireInvitations)

Spec == Init /\ [][Next]_vars /\ Fairness
-----------------------------------------------------------------------------
(* Type invariant: every table keeps the shape of its columns. *)
TypeOK ==
  /\ today \in Days
  /\ fresh \subseteq Promises
  /\ status \in [Promises -> Statuses \cup {NoRow}]
  /\ creator \in [Promises -> Users \cup {NoUser}]
  /\ content \in [Promises -> Content \cup {NoContent}]
  /\ partner \in [Promises -> Partner]
  /\ issued \in [Promises -> 0 .. ResendMax + 1]
  /\ link \in [Promises -> [Links -> Link \cup {NoLink}]]
  /\ signed \in [Promises -> SUBSET Approval]
  /\ account \in [Users -> {"ACTIVE", "WITHDRAWN", "IN_FLIGHT"}]
  /\ blocks \subseteq Users \X Users
  /\ bought \in [Users -> 0 .. MaxBought]

(* At most one link of a promise is out, so revoking or answering "the"    *)
(* link (lf_invite_revoke takes the latest only) leaves none behind.       *)
OneLiveLink ==
  \A p \in Promises : \A i, j \in Links : Live(p, i) /\ Live(p, j) => i = j

(* No link outlives the state it invites to answer: once a promise is      *)
(* agreed, declined, back in draft or gone, nothing can answer it.         *)
LiveLinkOnlyWhilePending ==
  \A p \in Promises, i \in Links : Live(p, i) => status[p] = "PENDING"

(* Whoever opens a link sees the terms that were sent with it: a draft is  *)
(* only rewritten while no link shows it (no version pins the text before  *)
(* activation, lf_promise_draft_update rewrites version 1 in place).       *)
LinkShowsItsTerms ==
  \A p \in Promises, i \in Links : Live(p, i) => link[p][i].sent = content[p]

(* An activated promise carries the approval of its creator and of exactly *)
(* the user who joined as its partner, both of the text now in force, and  *)
(* a used link that carried that text.                                     *)
SignedTerms ==
  \A p \in Promises : status[p] = "ACTIVE" =>
    /\ partner[p].status = "JOINED"
    /\ partner[p].user \in Users \ {creator[p]}
    /\ Answer(creator[p], "CREATOR", "APPROVE", content[p]) \in signed[p]
    /\ Answer(partner[p].user, "PARTNER", "APPROVE", content[p]) \in signed[p]
    /\ \E i \in Links : link[p][i].state = "USED" /\ link[p][i].sent = content[p]

(* A withdrawn account leaves no draft and no invitation of its own: the   *)
(* clean-up of account-withdraw is never undone by a later call or by the  *)
(* answer of a partner that puts a promise back to draft.                  *)
WithdrawnOwnNothingOpen ==
  \A u \in Users : account[u] # "ACTIVE" =>
    \A p \in Promises : creator[p] = u => status[p] \in {"ACTIVE", "DECLINED"}

(* A promise takes a slot only while its creator has one free, on every    *)
(* path into PENDING; losing a purchase never evicts a promise.            *)
SlotTakenOnlyWhenFree ==
  [][\A u \in Users : SlotUsed(u)' > SlotUsed(u) => SlotUsed(u)' <= SlotCapacity(u)]_vars

(* Once somebody has answered a promise it is theirs: resending it never   *)
(* lets a second person take the partner's place.                          *)
PartnerIsKept ==
  [][\A p \in Promises : partner[p].user # NoUser /\ status'[p] # NoRow
        => partner'[p].user = partner[p].user]_vars

(* What happened to a link is not rewritten: used, revoked and expired are *)
(* final as long as the promise exists.                                    *)
SettledLinkIsFinal ==
  [][\A p \in Promises, i \in Links :
        link[p][i].state \in {"USED", "REVOKED", "EXPIRED"} /\ status'[p] # NoRow
        => link'[p][i] = link[p][i]]_vars

(* J-04 reaches every lapsed link, whatever its promise went through. *)
LapsedLinkSettles ==
  \A p \in Promises, i \in Links : Lapsed(p, i) ~> ~Live(p, i)

(* The statuses move only along the shared transition table. *)
PL == INSTANCE PromiseLifecycle
ImplementsLifecycle == PL!Spec
=============================================================================
