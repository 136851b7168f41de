---------------------- MODULE InviteTransactionsProofs ----------------------
(***************************************************************************)
(* What the statements of the promise calls keep, whatever they interleave *)
(* with.  For any number of sessions: tables and locks keep their types,   *)
(* a locked row stays what the holder saw, and every commit is an entry of *)
(* the transition table.  The creator's devices alone: slots.  One device  *)
(* and any number of answers: one link, one sealed text, no deadlock.      *)
(***************************************************************************)
EXTENDS InviteTransactions, FiniteSetTheorems, TLAPS

Labels == {"idle", "slot", "insert", "rewrite", "read", "count", "scan", "lockLinks", "issue",
           "unsend", "lockRow", "erase", "lockLink", "readTerms", "answer"}

(* The tables, the locks and what a session remembers. *)
TablesOK ==
  /\ status \in [Promises -> Statuses \cup {NoRow, Gone}]
  /\ text \in [Promises -> Texts \cup {NoText}]
  /\ sealed \in [Promises -> Texts \cup {NoText}]
  /\ link \in [LinkIds -> Link \cup {NoLink, Deleted}]
LocksOK ==
  /\ holdsSlot \in Devices \cup {Nobody}
  /\ holdsRow \in [Promises -> Sessions \cup {Nobody}]
  /\ holdsLink \in [LinkIds -> Sessions \cup {Nobody}]
SessionsOK ==
  /\ pc \in [Sessions -> Labels]
  /\ call \in [Sessions -> CreatorCalls \cup AnswerCalls \cup {NoCall}]
  /\ todo \in [Sessions -> SUBSET LinkIds]
  /\ terms \in [Sessions -> Texts \cup {NoText}]
Types == TablesOK /\ LocksOK /\ SessionsOK

(* Who runs which call, and where in it a session can be. *)
Role(s) ==
  /\ s \in Devices => call[s] \in CreatorCalls \cup {NoCall}
  /\ s \in Answerers => call[s] \in AnswerCalls \cup {NoCall}
Place(s) ==
  /\ pc[s] = "idle" <=> call[s].kind = "NONE"
  /\ pc[s] = "slot" => call[s].kind \in {"CREATE", "UPDATE"}
  /\ pc[s] = "insert" => call[s].kind \in {"CREATE_DRAFT", "CREATE"}
  /\ pc[s] = "rewrite" => call[s].kind \in {"SAVE", "UPDATE"}
  /\ pc[s] = "read" => call[s].kind = "SEND"
  /\ pc[s] \in {"count", "issue"} => call[s].kind \in {"SEND", "UPDATE"}
  /\ pc[s] \in {"scan", "lockLinks"} => call[s].kind \in {"SEND", "UPDATE", "REVOKE", "DELETE"}
  /\ pc[s] = "unsend" => call[s].kind = "REVOKE"
  /\ pc[s] \in {"lockRow", "erase"} => call[s].kind = "DELETE"
  /\ pc[s] \in {"lockLink", "readTerms", "answer"} => call[s].kind \in Answers

(* A promise that is being created has no row, and no other call names it; *)
(* one that any other call names has, or had, a row.                       *)
Named1(s) ==
  /\ call[s].kind \in Creating =>
       /\ status[call[s].on] = NoRow
       /\ \A t \in Devices : t # s => call[t].on # call[s].on
  /\ call[s].kind \in {"SAVE", "UPDATE", "SEND", "REVOKE", "DELETE"} => status[call[s].on] # NoRow

(* Who holds the lock of a promise, and what it has seen there: a rewrite  *)
(* that sends saw a draft, a deletion a pending promise.                   *)
Rewrites(s) == call[s].kind = "UPDATE" /\ pc[s] \in {"count", "scan", "lockLinks", "issue"}
RowLocks(s) ==
  /\ \A p \in Promises : holdsRow[p] = s => p = call[s].on /\ (Rewrites(s) \/ pc[s] = "erase")
  /\ Rewrites(s) => holdsRow[call[s].on] = s /\ status[call[s].on] = "DRAFT"
  /\ pc[s] = "erase" => holdsRow[call[s].on] = s /\ status[call[s].on] = "PENDING"
(* Who holds a link's: a live one, unless the promise is to be deleted. *)
LinkLocks(s) ==
  /\ \A i \in LinkIds : holdsLink[i] = s =>
       /\ pc[s] \in {"lockLinks", "issue", "unsend", "lockRow", "erase", "readTerms", "answer"}
       /\ call[s].kind # "DELETE" => link[i].state = "PENDING"
  /\ pc[s] \in {"readTerms", "answer"} => holdsLink[call[s].on] = s

IInv == /\ Types
        /\ \A s \in Sessions : Role(s) /\ Place(s) /\ Named1(s) /\ RowLocks(s) /\ LinkLocks(s)
-----------------------------------------------------------------------------
(* With nobody to answer, a session that is about to send a draft has the  *)
(* slot lock and has counted under it.                                     *)
Sends(s) == call[s].kind \in {"SEND", "UPDATE"} /\ pc[s] \in {"scan", "lockLinks", "issue"}
HasSlot(s) ==
  /\ Sends(s) /\ status[call[s].on] = "DRAFT" => holdsSlot = s /\ SlotFree
  /\ pc[s] = "insert" /\ call[s].kind = "CREATE" => holdsSlot = s
SlotInv == IsFiniteSet(Held) /\ SlotsBounded /\ \A s \in Sessions : HasSlot(s)
-----------------------------------------------------------------------------
(* One device: live links belong to pending promises, one to each.         *)
LinksFit ==
  \A i \in LinkIds :
    /\ link[i].promise \in Promises => status[link[i].promise] \notin {NoRow, Gone}
    /\ link[i].state = "PENDING" => status[link[i].promise] = "PENDING"
    /\ link[i].state = "PENDING" =>
         \A j \in LinkIds : link[j].state = "PENDING" /\ link[j].promise = link[i].promise => i = j
(* What the device has still to lock, or holds, is all there is. *)
Covers(s) ==
  LET p == call[s].on IN
  /\ Sends(s) /\ pc[s] # "scan" => \A i \in Live(p) : i \in todo[s] \/ holdsLink[i] = s
  /\ call[s].kind = "DELETE" /\ pc[s] \in {"lockLinks", "lockRow", "erase"} =>
       \A i \in LinksOf(p) : i \in todo[s] \/ holdsLink[i] = s
  /\ pc[s] # "lockLinks" \/ call[s].kind = "UPDATE" => todo[s] = {}
(* What an answer has read is what the promise says. *)
TermsFit(s) == pc[s] = "answer" => terms[s] = text[link[call[s].on].promise]

AloneInv == LinksFit /\ SealedIsText /\ \A s \in Sessions : Covers(s) /\ TermsFit(s)
-----------------------------------------------------------------------------
(* What a step of s leaves of another session, ... *)
Same(t) == pc'[t] = pc[t] /\ call'[t] = call[t] /\ todo'[t] = todo[t] /\ terms'[t] = terms[t]
(* ... of locks, ... *)
Grips(s) ==
  /\ holdsSlot' = holdsSlot \/ (FreeFor(holdsSlot, s) /\ FreeFor(holdsSlot', s))
  /\ \A p \in Promises : holdsRow'[p] = holdsRow[p]
                         \/ (FreeFor(holdsRow[p], s) /\ FreeFor(holdsRow'[p], s))
  /\ \A i \in LinkIds : holdsLink'[i] = holdsLink[i]
                        \/ (FreeFor(holdsLink[i], s) /\ FreeFor(holdsLink'[i], s))
(* ... of links, and of statuses. *)
LinkMoves(s) ==
  \A i \in LinkIds : \/ link'[i] = link[i] \/ link[i] = NoLink
                     \/ holdsLink[i] = s
                     \/ pc[s] = "erase" /\ FreeFor(holdsLink[i], s)
StatusMoves(s) ==
  \A p \in Promises :
    \/ status'[p] = status[p]
    \/ /\ pc[s] = "insert" /\ p = call[s].on /\ status'[p] \in {"DRAFT", "PENDING"}
       /\ status'[p] = "PENDING" => call[s].kind = "CREATE" /\ SlotFree
    \/ /\ pc[s] = "issue" /\ p = call[s].on /\ FreeFor(holdsRow[p], s)
       /\ status[p] = "DRAFT" /\ status'[p] = "PENDING"
    \/ /\ pc[s] = "erase" /\ p = call[s].on /\ FreeFor(holdsRow[p], s)
       /\ status[p] = "PENDING" /\ status'[p] = Gone
    \/ /\ pc[s] = "answer" /\ p = link[call[s].on].promise /\ FreeFor(holdsRow[p], s)
       /\ status[p] = "PENDING" /\ status'[p] \in {"ACTIVE", "DECLINED", "DRAFT"}

LEMMA OthersStay ==
  ASSUME Types, NEW s \in Sessions, Begin(s) \/ Step(s), NEW t \in Sessions, t # s
  PROVE  Same(t)
  <1> USE DEF Types, SessionsOK, Go, Same
  <1>1. CASE Begin(s)
    BY <1>1 DEF Begin
  <1>2. ASSUME Release(s)
        PROVE  Same(t)
    BY <1>2 DEF Release
  <1>3. CASE TakeSlot(s) \/ ReadStatus(s) \/ CountSlots(s) \/ Rewrite(s)
    BY <1>2, <1>3 DEF TakeSlot, ReadStatus, CountSlots, Rewrite, Fail
  <1>4. CASE Scan(s) \/ LockLinks(s) \/ LinksLocked(s) \/ LockRow(s)
    BY <1>2, <1>4 DEF Scan, LockLinks, LinksLocked, LockRow, Fail
  <1>5. CASE Insert(s) \/ IssueRow(s) \/ Unsend(s) \/ Erase(s) \/ AnswerLink(s)
    BY <1>2, <1>5 DEF Insert, IssueRow, Unsend, Erase, AnswerLink, Fail
  <1>6. CASE LockLink(s) \/ ReadTerms(s)
    BY <1>2, <1>6 DEF LockLink, ReadTerms, Fail
  <1> QED BY <1>1, <1>3, <1>4, <1>5, <1>6 DEF Step

LEMMA LocksMove ==
  ASSUME Types, NEW s \in Sessions, Begin(s) \/ Step(s)
  PROVE  Grips(s)
  <1> USE DEF Types, LocksOK, Grips, FreeFor
  <1>1. CASE Begin(s)
    BY <1>1 DEF Begin, locks
  <1>2. ASSUME Release(s)
        PROVE  Grips(s)
    BY <1>2 DEF Release
  <1>3. CASE TakeSlot(s) \/ ReadStatus(s) \/ CountSlots(s) \/ Rewrite(s)
    BY <1>2, <1>3 DEF TakeSlot, ReadStatus, CountSlots, Rewrite, Fail, locks
  <1>4. CASE Scan(s) \/ LinksLocked(s) \/ LockRow(s)
    BY <1>2, <1>4 DEF Scan, LinksLocked, LockRow, Fail, locks
  <1>5. CASE LockLinks(s)
    BY <1>5 DEF LockLinks
  <1>6. CASE Insert(s) \/ IssueRow(s) \/ Unsend(s) \/ Erase(s) \/ AnswerLink(s)
    BY <1>2, <1>6 DEF Insert, IssueRow, Unsend, Erase, AnswerLink, Fail
  <1>7. CASE LockLink(s) \/ ReadTerms(s)
    BY <1>2, <1>7 DEF LockLink, ReadTerms, Fail, locks
  <1> QED BY <1>1, <1>3, <1>4, <1>5, <1>6, <1>7 DEF Step

LEMMA StatusesMove ==
  ASSUME ConstantsFit, IInv, NEW s \in Sessions, Begin(s) \/ Step(s)
  PROVE  StatusMoves(s)
  <1> USE DEF Types, TablesOK
  <1>a. Types /\ RowLocks(s) /\ Place(s)
    BY DEF IInv
  <1>1. CASE UNCHANGED status
    BY <1>1 DEF StatusMoves
  <1>2. CASE Insert(s)
    BY <1>2, <1>a, <1>1 DEF Insert, Fail, tables, StatusMoves
  <1>3. CASE IssueRow(s)
    BY <1>3, <1>a, <1>1 DEF IssueRow, Fail, tables, StatusMoves
  <1>4. CASE Erase(s)
    BY <1>4, <1>a, <1>1 DEF Erase, RowLocks, StatusMoves, FreeFor
  <1>5. CASE AnswerLink(s)
    BY <1>5, <1>a, <1>1 DEF AnswerLink, Fail, tables, StatusMoves, Becomes, Place, Answers
  <1> QED BY <1>1, <1>2, <1>3, <1>4, <1>5
          DEF Step, Begin, TakeSlot, ReadStatus, CountSlots, Rewrite, Scan, LinksLocked, LockRow,
              LockLinks, Unsend, LockLink, ReadTerms, Fail, tables

LEMMA LinksMove ==
  ASSUME ConstantsFit, IInv, NEW s \in Sessions, Begin(s) \/ Step(s)
  PROVE  LinkMoves(s)
  <1> USE DEF Types, TablesOK
  <1>a. Types /\ LinkLocks(s)
    BY DEF IInv
  <1>1. CASE UNCHANGED link
    BY <1>1 DEF LinkMoves
  <1>2. CASE Insert(s) \/ IssueRow(s)
    BY <1>2, <1>a, <1>1 DEF Insert, IssueRow, Fail, tables, LinkMoves, Issue, Unused, Mine
  <1>3. CASE Unsend(s)
    BY <1>3, <1>a, <1>1 DEF Unsend, Fail, tables, LinkMoves, Mine
  <1>4. CASE Erase(s)
    BY <1>4, <1>a, <1>1 DEF Erase, LinkMoves, LinksOf
  <1>5. CASE AnswerLink(s)
    BY <1>5, <1>a, <1>1 DEF AnswerLink, Fail, tables, LinkMoves, LinkLocks
  <1> QED BY <1>1, <1>2, <1>3, <1>4, <1>5
          DEF Step, Begin, TakeSlot, ReadStatus, CountSlots, Rewrite, Scan, LinksLocked, LockRow,
              LockLinks, LockLink, ReadTerms, Fail, tables
-----------------------------------------------------------------------------
(* What a session's place says of its call. *)
CreatorKinds == {"CREATE_DRAFT", "CREATE", "SAVE", "UPDATE", "SEND", "REVOKE", "DELETE"}
Known(s) ==
  /\ call[s].kind \in CreatorKinds => s \in Devices /\ call[s].on \in Promises
  /\ call[s].kind \in {"CREATE_DRAFT", "CREATE", "SAVE", "UPDATE"} => call[s].with \in Texts
  /\ call[s].kind \in Answers => s \in Answerers /\ call[s].on \in LinkIds

LEMMA CallKnown ==
  ASSUME ConstantsFit, Types, NEW s \in Sessions, Role(s)
  PROVE  Known(s)
  <1>1. CASE call[s] \in CreatorCalls
    BY <1>1 DEF Role, Known, CreatorCalls, AnswerCalls, NoCall, CreatorKinds, Answers, ConstantsFit, Sessions
  <1>2. CASE call[s] \in AnswerCalls
    BY <1>2 DEF Role, Known, CreatorCalls, AnswerCalls, NoCall, CreatorKinds, Answers, ConstantsFit, Sessions
  <1>3. CASE call[s] = NoCall
    BY <1>3 DEF Known, NoCall, CreatorKinds, Answers
  <1> QED BY <1>1, <1>2, <1>3 DEF Types, SessionsOK

LEMMA TypesImplyTypeOK ==
  ASSUME Types
  PROVE  TypeOK
  BY DEF Types, TablesOK, LocksOK, SessionsOK, TypeOK

LEMMA InitIInv ==
  ASSUME ConstantsFit, Init
  PROVE  IInv
  <1>1. Types
    BY DEF Init, Types, TablesOK, LocksOK, SessionsOK, Labels
  <1>2. ASSUME NEW s \in Sessions
        PROVE  Role(s) /\ Place(s) /\ Named1(s) /\ RowLocks(s) /\ LinkLocks(s)
    BY <1>2 DEF Init, Role, Place, Named1, RowLocks, LinkLocks, NoCall, Creating, Rewrites,
       ConstantsFit, Answers
  <1> QED BY <1>1, <1>2 DEF IInv

(* Nothing is held or remembered after a commit or a rollback. *)
LEMMA ReleaseTypes ==
  ASSUME Types, NEW s \in Sessions, Release(s)
  PROVE  LocksOK' /\ SessionsOK'
  BY DEF Types, LocksOK, SessionsOK, Release, Labels

LEMMA IssueTypes ==
  ASSUME Types, NEW s \in Sessions, NEW p \in Promises, Issue(s, p), LinkLocks(s),
         call[s].kind # "DELETE"
  PROVE  link' \in [LinkIds -> Link \cup {NoLink, Deleted}]
  <1>1. ASSUME NEW i \in LinkIds, i \in Mine(s)
        PROVE  [link[i] EXCEPT !.state = "REVOKED"] \in Link
    <2>1. link[i].state = "PENDING" /\ link[i] \in Link \cup {NoLink, Deleted}
      BY <1>1 DEF Mine, LinkLocks, Types, TablesOK
    <2> QED BY <2>1 DEF Link, NoLink, Deleted
  <1>2. [promise |-> p, state |-> "PENDING"] \in Link
    BY DEF Link
  <1> QED BY <1>1, <1>2 DEF Issue, Types, TablesOK

LEMMA TypesStep ==
  ASSUME ConstantsFit, IInv, NEW s \in Sessions, Begin(s) \/ Step(s)
  PROVE  Types'
  <1>a. Types /\ Place(s) /\ LinkLocks(s) /\ Known(s)
    BY CallKnown DEF IInv
  <1> USE <1>a
  <1>0. ASSUME Fail(s)
        PROVE  Types'
    BY <1>0, ReleaseTypes DEF Fail, tables, Types, TablesOK
  <1>1. CASE Begin(s)
    <2>1. PICK c \in CreatorCalls \cup AnswerCalls :
              call' = [call EXCEPT ![s] = c] /\ pc' = [pc EXCEPT ![s] = StartOf[c.kind]]
      BY <1>1 DEF Begin, Go
    <2>2. StartOf[c.kind] \in Labels
      BY DEF StartOf, Labels, CreatorCalls, AnswerCalls, Answers
    <2>3. SessionsOK'
      BY <1>1, <2>1, <2>2 DEF Begin, Types, SessionsOK
    <2> QED BY <1>1, <2>3 DEF Begin, Types, TablesOK, LocksOK, tables, locks
  <1>2. CASE TakeSlot(s)
    BY <1>2 DEF TakeSlot, Go, Types, TablesOK, LocksOK, SessionsOK, Labels, tables, Place, Known, CreatorKinds
  <1>3. CASE Insert(s)
    <2>1. call[s].on \in Promises /\ call[s].with \in Texts /\ call[s].kind # "DELETE"
      BY <1>3 DEF Insert, Place, Known, CreatorKinds
    <2>2. CASE ~Fail(s)
      <3>1. status' \in [Promises -> Statuses \cup {NoRow, Gone}]
        BY <1>3, <2>1, <2>2 DEF Insert, Types, TablesOK, Statuses
      <3>2. link' \in [LinkIds -> Link \cup {NoLink, Deleted}]
        BY <1>3, <2>1, <2>2, IssueTypes DEF Insert, Types, TablesOK
      <3>3. TablesOK'
        BY <1>3, <2>1, <2>2, <3>1, <3>2 DEF Insert, Types, TablesOK
      <3> QED BY <1>3, <2>2, <3>3, ReleaseTypes DEF Insert, Types
    <2> QED BY <2>2, <1>0
  <1>4. CASE Rewrite(s)
    <2>1. call[s].on \in Promises /\ call[s].with \in Texts
      BY <1>4 DEF Rewrite, Place, Known, CreatorKinds
    <2>2. CASE call[s].kind = "SAVE" /\ ~Fail(s)
      BY <1>4, <2>1, <2>2, ReleaseTypes DEF Rewrite, Types, TablesOK
    <2>3. CASE call[s].kind = "UPDATE" /\ ~Fail(s)
      BY <1>4, <2>1, <2>3 DEF Rewrite, Go, Types, TablesOK, LocksOK, SessionsOK, tables, Labels
    <2> QED BY <1>0, <1>4, <2>2, <2>3 DEF Rewrite
  <1>5. CASE ReadStatus(s) \/ CountSlots(s)
    BY <1>0, <1>5 DEF ReadStatus, CountSlots, Go, Types, TablesOK, LocksOK, SessionsOK, tables, locks,
       Labels, Place, Known, CreatorKinds
  <1>6. CASE Scan(s) \/ LinksLocked(s)
    BY <1>6 DEF Scan, LinksLocked, Go, LinksOf, Live, Types, TablesOK, LocksOK, SessionsOK, tables, locks,
       Labels, Place
  <1>7. CASE LockLinks(s)
    <2>1. PICK i \in todo[s] :
            /\ holdsLink' \in {holdsLink, [holdsLink EXCEPT ![i] = s]}
            /\ \E rest : rest \in {{}, todo[s] \ {i}} /\ todo' = [todo EXCEPT ![s] = rest]
      BY <1>7 DEF LockLinks, Types, SessionsOK
    <2>2. i \in LinkIds /\ todo[s] \subseteq LinkIds
      BY <2>1 DEF Types, SessionsOK
    <2>3. SessionsOK'
      BY <1>7, <2>1, <2>2 DEF LockLinks, Types, SessionsOK
    <2>4. LocksOK'
      BY <1>7, <2>1, <2>2 DEF LockLinks, Types, LocksOK
    <2> QED BY <1>7, <2>3, <2>4 DEF LockLinks, Types, TablesOK, tables
  <1>8. CASE IssueRow(s)
    <2>1. call[s].on \in Promises /\ call[s].kind # "DELETE"
          /\ (call[s].kind = "UPDATE" => call[s].with \in Texts)
      BY <1>8 DEF IssueRow, Place, Known, CreatorKinds
    <2>2. CASE ~Fail(s)
      <3>1. link' \in [LinkIds -> Link \cup {NoLink, Deleted}]
        BY <1>8, <2>1, <2>2, IssueTypes DEF IssueRow
      <3>2. TablesOK'
        BY <1>8, <2>1, <2>2, <3>1 DEF IssueRow, Types, TablesOK, Statuses
      <3> QED BY <1>8, <2>2, <3>2, ReleaseTypes DEF IssueRow, Types
    <2> QED BY <2>2, <1>0
  <1>9. CASE Unsend(s)
    <2>1. CASE ~Fail(s)
      <3>1. ASSUME NEW i \in LinkIds, i \in Mine(s)
            PROVE  [link[i] EXCEPT !.state = "REVOKED"] \in Link
        <4>1. link[i].state = "PENDING" /\ link[i] \in Link \cup {NoLink, Deleted}
          BY <1>9, <3>1 DEF Unsend, Place, Mine, LinkLocks, Types, TablesOK
        <4> QED BY <4>1 DEF Link, NoLink, Deleted
      <3>2. TablesOK'
        BY <1>9, <2>1, <3>1 DEF Unsend, Types, TablesOK
      <3> QED BY <1>9, <2>1, <3>2, ReleaseTypes DEF Unsend, Types
    <2> QED BY <2>1, <1>0
  <1>10. CASE LockRow(s)
    BY <1>0, <1>10 DEF LockRow, Go, Types, TablesOK, LocksOK, SessionsOK, tables, Labels, Place, Known,
       CreatorKinds
  <1>11. CASE Erase(s)
    <2>1. call[s].on \in Promises
      BY <1>11 DEF Erase, Place, Known, CreatorKinds
    <2>2. TablesOK'
      BY <1>11, <2>1 DEF Erase, Types, TablesOK
    <2> QED BY <1>11, <2>2, ReleaseTypes DEF Erase, Types
  <1>12. CASE LockLink(s)
    BY <1>0, <1>12 DEF LockLink, Go, Types, TablesOK, LocksOK, SessionsOK, tables, Labels, Place, Known
  <1>13. CASE ReadTerms(s) \/ AnswerLink(s)
    <2>1. /\ call[s].on \in LinkIds /\ call[s].kind \in Answers
          /\ link[call[s].on].state = "PENDING" /\ link[call[s].on] \in Link
      BY <1>13 DEF ReadTerms, AnswerLink, Place, Known, LinkLocks, Types, TablesOK, Link, NoLink, Deleted,
         Answers
    <2>2. link[call[s].on].promise \in Promises
      BY <2>1 DEF Link
    <2>3. CASE ReadTerms(s)
      BY <1>0, <2>1, <2>2, <2>3 DEF ReadTerms, Go, Types, TablesOK, LocksOK, SessionsOK, tables, locks,
         Labels
    <2>4. CASE AnswerLink(s) /\ ~Fail(s)
      <3>1. Becomes[call[s].kind] \in Statuses
        BY <2>1 DEF Becomes, Answers, Statuses
      <3>2. [link[call[s].on] EXCEPT !.state = "USED"] \in Link
        BY <2>1 DEF Link
      <3>3. TablesOK'
        BY <2>1, <2>2, <2>4, <3>1, <3>2 DEF AnswerLink, Types, TablesOK, SessionsOK
      <3> QED BY <2>4, <3>3, ReleaseTypes DEF AnswerLink, Types
    <2> QED BY <1>0, <1>13, <2>3, <2>4
  <1> QED BY <1>1, <1>2, <1>3, <1>4, <1>5, <1>6, <1>7, <1>8, <1>9, <1>10, <1>11, <1>12, <1>13 DEF Step
-----------------------------------------------------------------------------
(* A call stays what it is until it is over. *)
LEMMA CallsMove ==
  ASSUME Types, NEW s \in Sessions, Begin(s) \/ Step(s)
  PROVE  \/ Begin(s)
         \/ call'[s] = call[s]
         \/ call'[s] = NoCall /\ pc'[s] = "idle" /\ Release(s)
  <1> USE DEF Types, SessionsOK
  <1>1. ASSUME Release(s)
        PROVE  call'[s] = NoCall /\ pc'[s] = "idle"
    BY <1>1 DEF Release
  <1>2. CASE call' = call
    BY <1>2
  <1> QED BY <1>1, <1>2
          DEF Step, TakeSlot, Insert, Rewrite, ReadStatus, CountSlots, Scan, LockLinks, LinksLocked,
              IssueRow, Unsend, LockRow, Erase, LockLink, ReadTerms, AnswerLink, Fail

(* What a session knows outlives the steps of the others. *)
LEMMA OthersKnow ==
  ASSUME ConstantsFit, IInv, NEW s \in Sessions, Begin(s) \/ Step(s), NEW t \in Sessions, t # s
  PROVE  /\ Role(t)' /\ Place(t)' /\ Named1(t)' /\ RowLocks(t)' /\ LinkLocks(t)'
  <1>a. /\ Types /\ Known(t) /\ Known(s) /\ Place(s) /\ Place(t) /\ Named1(s) /\ Named1(t)
        /\ RowLocks(t) /\ LinkLocks(t) /\ LinkLocks(s) /\ Role(t)
    BY CallKnown DEF IInv
  <1>b. Same(t) /\ Grips(s) /\ LinkMoves(s) /\ StatusMoves(s)
    BY OthersStay, LocksMove, LinksMove, StatusesMove, <1>a
  <1>n. Nobody \notin Sessions
    BY DEF ConstantsFit
  <1>1. Role(t)' /\ Place(t)'
    BY <1>a, <1>b DEF Role, Place, Same
  <1>2. Named1(t)'
    <2>1. CASE call[t].kind \in Creating
      <3>1. call[t].on \in Promises /\ t \in Devices
        BY <1>a, <2>1 DEF Known, Creating, CreatorKinds
      <3>2. status'[call[t].on] = NoRow
        <4>1. CASE pc[s] \in {"insert", "issue", "erase"}
          <5>1. s \in Devices
            BY <1>a, <4>1 DEF Place, Known, CreatorKinds
          <5>2. call[s].on # call[t].on /\ status[call[t].on] = NoRow
            BY <1>a, <2>1, <5>1 DEF Named1
          <5> QED BY <1>b, <3>1, <4>1, <5>2 DEF StatusMoves
        <4>2. CASE pc[s] \notin {"insert", "issue", "erase"}
          BY <1>a, <1>b, <2>1, <3>1, <4>2 DEF StatusMoves, Named1, NoRow
        <4> QED BY <4>1, <4>2
      <3>3. s \in Devices => call'[s].on # call[t].on
        <4>0. SUFFICES ASSUME s \in Devices PROVE call'[s].on # call[t].on
          OBVIOUS
        <4>1. CASE Begin(s)
          <5>1. PICK c \in CreatorCalls : Named(c) /\ call' = [call EXCEPT ![s] = c]
            BY <4>0, <4>1 DEF Begin
          <5>2. c.on # call[t].on
            BY <1>a, <2>1, <5>1 DEF Named, Named1
          <5> QED BY <1>a, <5>1, <5>2 DEF Types, SessionsOK
        <4>2. CASE call'[s] = call[s]
          BY <1>a, <2>1, <4>0, <4>2 DEF Named1
        <4>3. CASE call'[s] = NoCall
          BY <3>1, <4>3 DEF NoCall, ConstantsFit
        <4>4. Begin(s) \/ call'[s] = call[s] \/ call'[s] = NoCall
          BY <1>a, CallsMove
        <4> QED BY <4>1, <4>2, <4>3, <4>4
      <3>4. ASSUME NEW u \in Devices, u # t
            PROVE  call'[u].on # call[t].on
        <4>1. CASE u # s
          <5>1. call'[u] = call[u]
            BY <1>a, <4>1, OthersStay DEF Same, Sessions
          <5> QED BY <1>a, <2>1, <3>4, <5>1 DEF Named1
        <4> QED BY <3>3, <4>1
      <3> QED BY <1>b, <2>1, <3>2, <3>4 DEF Named1, Same, Creating
    <2>2. CASE call[t].kind \in {"SAVE", "UPDATE", "SEND", "REVOKE", "DELETE"}
      <3>1. call[t].on \in Promises /\ status[call[t].on] # NoRow
        BY <1>a, <2>2 DEF Known, CreatorKinds, Named1
      <3>2. status'[call[t].on] # NoRow
        BY <1>b, <3>1 DEF StatusMoves, NoRow, Gone
      <3> QED BY <1>b, <2>2, <3>2 DEF Named1, Same, Creating
    <2> QED BY <1>b, <2>1, <2>2 DEF Named1, Same
  <1>3. RowLocks(t)'
    <2>1. ASSUME NEW p \in Promises
          PROVE  holdsRow'[p] = t <=> holdsRow[p] = t
      BY <1>b, <1>n DEF Grips, FreeFor
    <2>2. ASSUME NEW p \in Promises, holdsRow[p] = t, status[p] # NoRow
          PROVE  status'[p] = status[p]
      <3>1. ~FreeFor(holdsRow[p], s)
        BY <1>n, <2>2 DEF FreeFor
      <3>2. CASE pc[s] = "insert" /\ p = call[s].on
        BY <1>a, <2>2, <3>2 DEF Named1, Place, Creating
      <3> QED BY <1>b, <3>1, <3>2 DEF StatusMoves
    <2>3. Rewrites(t)' <=> Rewrites(t)
      BY <1>b DEF Rewrites, Same
    <2>4. Rewrites(t) => status'[call[t].on] = "DRAFT"
      BY <1>a, <2>2 DEF Rewrites, RowLocks, Known, CreatorKinds, NoRow
    <2>5. pc[t] = "erase" => call[t].on \in Promises /\ status'[call[t].on] = "PENDING"
      BY <1>a, <2>2 DEF RowLocks, Place, Known, CreatorKinds, NoRow
    <2>6. Rewrites(t) => call[t].on \in Promises
      BY <1>a DEF Rewrites, Known, CreatorKinds
    <2> QED BY <1>a, <1>b, <2>1, <2>3, <2>4, <2>5, <2>6 DEF RowLocks, Same
  <1>4. LinkLocks(t)'
    <2>1. ASSUME NEW i \in LinkIds
          PROVE  holdsLink'[i] = t <=> holdsLink[i] = t
      BY <1>b, <1>n DEF Grips, FreeFor
    <2>2. ASSUME NEW i \in LinkIds, holdsLink[i] = t, link[i].state = "PENDING"
          PROVE  link'[i] = link[i]
      BY <1>b, <1>n, <2>2 DEF LinkMoves, FreeFor, NoLink
    <2>3. pc[t] \in {"readTerms", "answer"} => call[t].on \in LinkIds
      BY <1>a DEF Place, Known
    <2> QED BY <1>a, <1>b, <2>1, <2>2, <2>3 DEF LinkLocks, Same
  <1> QED BY <1>1, <1>2, <1>3, <1>4

(* A commit or a rollback ends what the session knew. *)
LEMMA NothingAfterRelease ==
  ASSUME ConstantsFit, Types, NEW s \in Sessions, Release(s)
  PROVE  Role(s)' /\ Place(s)' /\ Named1(s)' /\ RowLocks(s)' /\ LinkLocks(s)'
  <1>1. call'[s] = NoCall /\ pc'[s] = "idle" /\ NoCall.kind = "NONE"
    BY DEF Release, Types, SessionsOK, NoCall
  <1>2. /\ \A p \in Promises : holdsRow'[p] # s
        /\ \A i \in LinkIds : holdsLink'[i] # s
    BY DEF Release, Types, LocksOK, ConstantsFit
  <1>3. Role(s)' /\ Place(s)' /\ Named1(s)'
    BY <1>1 DEF Role, Place, Named1, Creating, Answers
  <1>4. RowLocks(s)' /\ LinkLocks(s)'
    BY <1>1, <1>2 DEF RowLocks, LinkLocks, Rewrites
  <1> QED BY <1>3, <1>4

(* The statement a session comes to next fits its call and its locks. *)
LEMMA OwnKnows ==
  ASSUME ConstantsFit, IInv, NEW s \in Sessions, Begin(s) \/ Step(s)
  PROVE  Role(s)' /\ Place(s)' /\ Named1(s)' /\ RowLocks(s)' /\ LinkLocks(s)'
  <1> DEFINE Knows == Role(s) /\ Place(s) /\ Named1(s) /\ RowLocks(s) /\ LinkLocks(s)
  <1>a. Types /\ Knows /\ Known(s)
    BY CallKnown DEF IInv
  <1>0. ASSUME Release(s)
        PROVE  Knows'
    BY <1>0, <1>a, NothingAfterRelease
  <1>1. CASE Begin(s)
    <2>1. PICK c \in CreatorCalls \cup AnswerCalls :
            /\ s \in Devices => c \in CreatorCalls /\ Named(c)
            /\ s \notin Devices => c \in AnswerCalls
            /\ call' = [call EXCEPT ![s] = c] /\ pc' = [pc EXCEPT ![s] = StartOf[c.kind]]
      BY <1>1 DEF Begin, Go
    <2>2. call'[s] = c /\ pc'[s] = StartOf[c.kind]
      BY <1>a, <2>1 DEF Types, SessionsOK
    <2>3. /\ \A p \in Promises : holdsRow'[p] # s
          /\ \A i \in LinkIds : holdsLink'[i] # s
      BY <1>1, <1>a DEF Begin, locks, RowLocks, LinkLocks, Rewrites
    <2>4. Role(s)'
      BY <2>1, <2>2 DEF Role, ConstantsFit
    <2>5. c \in AnswerCalls => c.kind \in Answers
      BY DEF AnswerCalls
    <2>6. c \in CreatorCalls => c.kind \in CreatorKinds
      BY DEF CreatorCalls, CreatorKinds
    <2>7. Place(s)' /\ ~Rewrites(s)' /\ pc'[s] \notin {"erase", "readTerms", "answer"}
      BY <2>1, <2>2, <2>5, <2>6 DEF Place, Rewrites, StartOf, CreatorKinds, Answers
    <2>8. Named1(s)'
      <3>1. CASE s \in Devices
        <4>1. \A t \in Devices : t # s => call'[t] = call[t]
          BY <1>a, <2>1 DEF Types, SessionsOK, Sessions
        <4>2. status' = status
          BY <1>1 DEF Begin, tables
        <4> QED BY <2>1, <2>2, <3>1, <4>1, <4>2 DEF Named, Named1, Sessions, Creating
      <3>2. CASE s \notin Devices
        BY <2>1, <2>2, <2>5, <3>2 DEF Named1, Answers, Creating
      <3> QED BY <3>1, <3>2
    <2>9. RowLocks(s)' /\ LinkLocks(s)'
      BY <2>3, <2>7 DEF RowLocks, LinkLocks
    <2> QED BY <2>4, <2>7, <2>8, <2>9
  <1>2. ASSUME call' = call, tables' = tables, NEW label \in Labels, pc' = [pc EXCEPT ![s] = label],
               pc[s] # "idle"
        PROVE  Role(s)' /\ Named1(s)' /\ pc'[s] = label
    BY <1>2, <1>a DEF tables, Role, Named1, Types, SessionsOK
  <1>3. CASE TakeSlot(s)
    BY <1>2, <1>3, <1>a DEF TakeSlot, Go, Labels, Place, RowLocks, LinkLocks, Rewrites, Answers
  <1>4. CASE Rewrite(s) /\ ~Release(s)
    <2>1. call[s].kind = "UPDATE" /\ call[s].on \in Promises
      BY <1>4, <1>a DEF Rewrite, Fail, Known, Place, CreatorKinds
    <2>2. Role(s)' /\ Named1(s)' /\ pc'[s] = "count"
      BY <1>2, <1>4, <2>1 DEF Rewrite, Fail, Go, Labels
    <2>3. call' = call /\ status' = status /\ holdsLink' = holdsLink
          /\ holdsRow' = [holdsRow EXCEPT ![call[s].on] = s] /\ status[call[s].on] = "DRAFT"
      BY <1>4 DEF Rewrite, Fail, tables
    <2>4. Place(s)' /\ LinkLocks(s)'
      BY <1>4, <1>a, <2>1, <2>2, <2>3 DEF Rewrite, Place, LinkLocks, Answers
    <2>5. RowLocks(s)'
      BY <1>4, <1>a, <2>1, <2>2, <2>3 DEF Rewrite, RowLocks, Rewrites, Types, LocksOK
    <2> QED BY <2>2, <2>4, <2>5
  <1>5. CASE (ReadStatus(s) \/ CountSlots(s)) /\ ~Release(s)
    BY <1>2, <1>5, <1>a DEF ReadStatus, CountSlots, Fail, Go, locks, Labels, Place, RowLocks, LinkLocks,
       Rewrites, Answers, tables
  <1>6. CASE Scan(s) \/ LinksLocked(s)
    BY <1>2, <1>6, <1>a DEF Scan, LinksLocked, Go, locks, Labels, Place, RowLocks, LinkLocks, Rewrites,
       Answers, tables
  <1>7. CASE LockLinks(s)
    <2>1. PICK i \in todo[s] :
            holdsLink' = holdsLink \/ /\ holdsLink' = [holdsLink EXCEPT ![i] = s]
                                      /\ call[s].kind # "DELETE" => link[i].state = "PENDING"
      BY <1>7 DEF LockLinks
    <2>2. UNCHANGED <<tables, holdsRow, pc, call>> /\ pc[s] = "lockLinks"
      BY <1>7 DEF LockLinks
    <2>3. Role(s)' /\ Place(s)' /\ Named1(s)' /\ RowLocks(s)'
      BY <1>a, <2>2 DEF tables, Role, Place, Named1, RowLocks, Rewrites
    <2>4. LinkLocks(s)'
      BY <1>a, <2>1, <2>2 DEF tables, LinkLocks, Types, LocksOK
    <2> QED BY <2>3, <2>4
  <1>8. CASE LockRow(s) /\ ~Release(s)
    <2>1. call[s].kind = "DELETE" /\ call[s].on \in Promises
      BY <1>8, <1>a DEF LockRow, Known, Place, CreatorKinds
    <2>2. Role(s)' /\ Named1(s)' /\ pc'[s] = "erase"
      BY <1>2, <1>8 DEF LockRow, Fail, Go, Labels
    <2>3. call' = call /\ tables' = tables /\ holdsLink' = holdsLink
          /\ holdsRow' = [holdsRow EXCEPT ![call[s].on] = s] /\ status[call[s].on] = "PENDING"
      BY <1>8 DEF LockRow, Fail
    <2>4. Place(s)' /\ LinkLocks(s)'
      BY <1>8, <1>a, <2>1, <2>2, <2>3 DEF LockRow, Place, LinkLocks, Answers
    <2>5. RowLocks(s)'
      BY <1>8, <1>a, <2>1, <2>2, <2>3 DEF LockRow, RowLocks, Rewrites, Types, LocksOK, tables
    <2> QED BY <2>2, <2>4, <2>5
  <1>9. CASE LockLink(s) /\ ~Release(s)
    <2>1. call[s].kind \in Answers /\ call[s].on \in LinkIds
      BY <1>9, <1>a DEF LockLink, Known, Place
    <2>2. Role(s)' /\ Named1(s)' /\ pc'[s] = "readTerms"
      BY <1>2, <1>9 DEF LockLink, Fail, Go, Labels
    <2>3. call' = call /\ tables' = tables /\ holdsRow' = holdsRow
          /\ holdsLink' = [holdsLink EXCEPT ![call[s].on] = s] /\ link[call[s].on].state = "PENDING"
      BY <1>9 DEF LockLink, Fail
    <2>4. Place(s)' /\ RowLocks(s)'
      BY <1>9, <1>a, <2>1, <2>2, <2>3 DEF LockLink, Place, RowLocks, Rewrites, Answers, tables
    <2>5. LinkLocks(s)'
      BY <1>9, <1>a, <2>1, <2>2, <2>3 DEF LockLink, LinkLocks, Types, LocksOK, tables
    <2> QED BY <2>2, <2>4, <2>5
  <1>10. CASE ReadTerms(s) /\ ~Release(s)
    BY <1>2, <1>10, <1>a DEF ReadTerms, Fail, Go, locks, Labels, Place, RowLocks, LinkLocks, Rewrites,
       Answers, tables
  <1>11. CASE Release(s)
    BY <1>0, <1>11
  <1> QED BY <1>1, <1>3, <1>4, <1>5, <1>6, <1>7, <1>8, <1>9, <1>10, <1>11
          DEF Step, Insert, IssueRow, Unsend, Erase, AnswerLink, Fail

LEMMA StepIInv ==
  ASSUME ConstantsFit, IInv, [Next]_vars
  PROVE  IInv'
  <1>1. ASSUME NEW s \in Sessions, Begin(s) \/ Step(s)
        PROVE  IInv'
    <2>1. ASSUME NEW t \in Sessions
          PROVE  Role(t)' /\ Place(t)' /\ Named1(t)' /\ RowLocks(t)' /\ LinkLocks(t)'
      BY <1>1, OwnKnows, OthersKnow
    <2> QED BY <1>1, <2>1, TypesStep DEF IInv
  <1>2. CASE UNCHANGED vars
    BY <1>2 DEF vars, tables, locks, IInv, Types, TablesOK, LocksOK, SessionsOK, Role, Place, Named1,
       RowLocks, LinkLocks, Rewrites
  <1> QED BY <1>1, <1>2 DEF Next

(* Every commit is an entry of the transition table. *)
LEMMA StepFollows ==
  ASSUME ConstantsFit, IInv, [Next]_vars
  PROVE  [PL!Step]_Rows
  <1>1. IInv'
    BY StepIInv
  <1>2. Rows' \in [Promises -> PL!Statuses \cup {PL!NoRow}]
    BY <1>1 DEF IInv, Types, TablesOK, Rows, Statuses, NoRow, Gone, PL!Statuses, PL!NoRow
  <1>3. ASSUME NEW s \in Sessions, Begin(s) \/ Step(s), NEW p \in Promises
        PROVE  Rows'[p] = Rows[p] \/ <<Rows[p], Rows'[p]>> \in PL!Allowed
    <2>1. StatusMoves(s) /\ Named1(s) /\ Place(s) /\ Types
      BY <1>3, StatusesMove DEF IInv
    <2> QED BY <2>1 DEF StatusMoves, Named1, Place, Creating, Rows, Gone, NoRow, PL!NoRow, PL!Allowed,
               PL!Transitions, PL!Deletions, PL!Composed
  <1>4. CASE UNCHANGED vars
    BY <1>4 DEF vars, tables, Rows
  <1> QED BY <1>2, <1>3, <1>4 DEF Next, PL!Step
-----------------------------------------------------------------------------
(* Nobody answers: a promise takes a slot from the session that holds the  *)
(* slot lock and has seen one free, and from nobody else.                  *)
Grows(s) == \/ Held' \subseteq Held
            \/ holdsSlot = s /\ SlotFree /\ \E p \in Promises : Held' \subseteq Held \cup {p}

LEMMA HeldGrows ==
  ASSUME ConstantsFit, IInv, Answerers = {}, NEW s \in Sessions, HasSlot(s), Begin(s) \/ Step(s)
  PROVE  Grows(s)
  <1>a. StatusMoves(s) /\ Place(s) /\ Known(s) /\ Types
    BY StatusesMove, CallKnown DEF IInv
  <1>1. CASE Held' \subseteq Held
    BY <1>1 DEF Grows
  <1>2. ASSUME NEW q \in Promises, q \in Held', q \notin Held
        PROVE  /\ q = call[s].on /\ holdsSlot = s /\ SlotFree
    <2>1. status'[q] \in {"PENDING", "ACTIVE"} /\ status[q] \notin {"PENDING", "ACTIVE"}
      BY <1>2 DEF Held
    <2> QED BY <1>a, <2>1 DEF StatusMoves, HasSlot, Sends, Place, Gone
  <1>3. Held' \subseteq Held \cup {call[s].on}
    BY <1>2 DEF Held
  <1> QED BY <1>1, <1>2, <1>3 DEF Grows, Held

LEMMA StepSlots ==
  ASSUME ConstantsFit, IInv, Answerers = {}, SlotInv, [Next]_vars
  PROVE  SlotInv'
  <1>1. ASSUME NEW s \in Sessions, Begin(s) \/ Step(s)
        PROVE  SlotInv'
    <2>a. /\ Types /\ Grows(s) /\ Grips(s) /\ StatusMoves(s) /\ HasSlot(s) /\ Place(s)
      BY <1>1, HeldGrows, LocksMove, StatusesMove DEF IInv, SlotInv
    <2>n. Nobody \notin Sessions /\ Capacity \in Nat
      BY DEF ConstantsFit
    <2>0. IsFiniteSet(Held) /\ Cardinality(Held) <= Capacity /\ Cardinality(Held) \in Nat
      BY FS_CardinalityType DEF SlotInv, SlotsBounded
    <2>2. ASSUME NEW p \in Promises, Held' \subseteq Held \cup {p}, SlotFree
          PROVE  IsFiniteSet(Held)' /\ SlotsBounded'
      <3>1. /\ IsFiniteSet(Held \cup {p})
            /\ Cardinality(Held \cup {p}) <= Cardinality(Held) + 1 /\ Cardinality(Held \cup {p}) \in Nat
        <4>1. /\ IsFiniteSet(Held \cup {p})
              /\ Cardinality(Held \cup {p}) \in {Cardinality(Held), Cardinality(Held) + 1}
          BY <2>0, FS_AddElement
        <4> QED BY <2>0, <4>1
      <3>2. IsFiniteSet(Held') /\ Cardinality(Held') <= Cardinality(Held \cup {p})
            /\ Cardinality(Held') \in Nat
        BY <2>2, <3>1, FS_Subset, FS_CardinalityType
      <3> QED BY <2>0, <2>2, <2>n, <3>1, <3>2 DEF SlotFree, SlotsBounded
    <2>3. IsFiniteSet(Held)' /\ SlotsBounded'
      <3>1. CASE Held' \subseteq Held
        <4>1. IsFiniteSet(Held') /\ Cardinality(Held') <= Cardinality(Held) /\ Cardinality(Held') \in Nat
          BY <2>0, <3>1, FS_Subset, FS_CardinalityType
        <4> QED BY <2>0, <2>n, <4>1 DEF SlotsBounded
      <3> QED BY <2>2, <2>a, <3>1 DEF Grows
    <2>4. ASSUME NEW t \in Sessions, t # s
          PROVE  HasSlot(t)'
      <3>1. Same(t) /\ HasSlot(t) /\ Named1(t) /\ Place(t) /\ Known(t)
        BY <1>1, <2>4, OthersStay, CallKnown DEF IInv, SlotInv
      <3>2. ASSUME holdsSlot = t
            PROVE  holdsSlot' = t /\ Held' \subseteq Held
        BY <2>4, <2>a, <2>n, <3>2 DEF Grips, Grows, FreeFor
      <3>3. ASSUME Sends(t), status'[call[t].on] = "DRAFT"
            PROVE  holdsSlot = t /\ SlotFree
        <4>1. call[t].on \in Promises /\ status[call[t].on] # NoRow
          BY <3>1, <3>3 DEF Sends, Known, CreatorKinds, Named1
        <4>2. CASE status'[call[t].on] = status[call[t].on]
          BY <3>1, <3>3, <4>2 DEF HasSlot
        <4>3. pc[s] # "answer"
          BY <2>a, CallKnown DEF Place, Known, IInv
        <4>4. CASE pc[s] = "insert" /\ call[t].on = call[s].on
          BY <4>1, <4>4, <2>a DEF Place, IInv, Named1, Creating
        <4> QED BY <2>a, <3>3, <4>1, <4>2, <4>3, <4>4 DEF StatusMoves, Gone
      <3>4. ASSUME SlotFree, Held' \subseteq Held
            PROVE  SlotFree'
        <4>1. Cardinality(Held') <= Cardinality(Held) /\ Cardinality(Held') \in Nat
          BY <2>0, <3>4, FS_Subset, FS_CardinalityType
        <4> QED BY <2>0, <2>n, <3>4, <4>1 DEF SlotFree
      <3>5. Sends(t)' <=> Sends(t)
        BY <3>1 DEF Same, Sends
      <3> QED BY <3>1, <3>2, <3>3, <3>4, <3>5 DEF HasSlot, Same
    <2>5. HasSlot(s)'
      <3>0. ASSUME Release(s)
            PROVE  HasSlot(s)'
        BY <2>a, <3>0 DEF Release, HasSlot, Sends, Types, SessionsOK
      <3>1. CASE Begin(s)
        <4>1. PICK c \in CreatorCalls \cup AnswerCalls :
                call' = [call EXCEPT ![s] = c] /\ pc' = [pc EXCEPT ![s] = StartOf[c.kind]]
          BY <3>1 DEF Begin, Go
        <4>2. call'[s] = c /\ pc'[s] = StartOf[c.kind]
          BY <2>a, <4>1 DEF Types, SessionsOK
        <4>3. c.kind \in {"SEND", "UPDATE", "CREATE"} => pc'[s] \in {"read", "slot"}
          BY <4>2 DEF StartOf
        <4> QED BY <4>2, <4>3 DEF HasSlot, Sends
      <3>2. CASE TakeSlot(s)
        BY <2>a, <3>2 DEF TakeSlot, Go, HasSlot, Sends, Types, SessionsOK
      <3>3. CASE (Rewrite(s) \/ LockRow(s)) /\ ~Release(s)
        BY <2>a, <3>3 DEF Rewrite, LockRow, Fail, Go, HasSlot, Sends, Types, SessionsOK
      <3>4. CASE ReadStatus(s) /\ ~Release(s)
        BY <2>a, <3>4 DEF ReadStatus, Fail, Go, HasSlot, Sends, Types, SessionsOK, tables
      <3>5. CASE CountSlots(s) /\ ~Release(s)
        BY <2>a, <3>5 DEF CountSlots, Fail, Go, HasSlot, Sends, Types, SessionsOK, tables, SlotFree, Held
      <3>6. CASE Scan(s) \/ LockLinks(s) \/ LinksLocked(s)
        BY <2>a, <3>6 DEF Scan, LockLinks, LinksLocked, Go, HasSlot, Sends, Types, SessionsOK, tables, locks,
           SlotFree, Held, Place
      <3>7. CASE (LockLink(s) \/ ReadTerms(s)) /\ ~Release(s)
        BY <2>a, <3>7 DEF LockLink, ReadTerms, Fail, Go, HasSlot, Sends, Types, SessionsOK
      <3> QED BY <1>1, <3>0, <3>1, <3>2, <3>3, <3>4, <3>5, <3>6, <3>7
              DEF Step, Insert, IssueRow, Unsend, Erase, AnswerLink, Fail
    <2> QED BY <2>3, <2>4, <2>5 DEF SlotInv
  <1>2. CASE UNCHANGED vars
    BY <1>2 DEF vars, tables, locks, SlotInv, SlotsBounded, Held, HasSlot, Sends, SlotFree
  <1> QED BY <1>1, <1>2 DEF Next
-----------------------------------------------------------------------------
(* One device.  What an issue makes of the links: one more of p, and those *)
(* it has locked are revoked.                                              *)
LEMMA IssueMakes ==
  ASSUME ConstantsFit, Types, NEW s \in Sessions, NEW p \in Promises, Issue(s, p)
  PROVE  /\ \A i \in LinkIds :
              \/ link[i] = NoLink /\ link'[i] = [promise |-> p, state |-> "PENDING"]
              \/ i \notin Mine(s) /\ link'[i] = link[i]
              \/ i \in Mine(s) /\ link'[i] = [link[i] EXCEPT !.state = "REVOKED"]
         /\ \A i, j \in LinkIds : /\ link[i] = NoLink /\ link'[i].state = "PENDING"
                                  /\ link[j] = NoLink /\ link'[j].state = "PENDING"
                                  => i = j
  <1>1. ASSUME NEW i \in LinkIds
        PROVE  \/ link[i] = NoLink /\ link'[i] = [promise |-> p, state |-> "PENDING"]
               \/ i \notin Mine(s) /\ link'[i] = link[i]
               \/ i \in Mine(s) /\ link'[i] = [link[i] EXCEPT !.state = "REVOKED"]
    BY DEF Issue, Unused
  <1>2. ASSUME NEW i \in LinkIds, link[i] = NoLink, link'[i].state = "PENDING"
        PROVE  i \in Unused /\ \A j \in Unused : i <= j
    <2>1. NoLink.state # "PENDING" /\ [NoLink EXCEPT !.state = "REVOKED"].state # "PENDING"
      BY DEF NoLink
    <2> QED BY <1>2, <2>1 DEF Issue
  <1>3. LinkIds \subseteq Int
    BY DEF LinkIds, ConstantsFit
  <1>4. ASSUME NEW i \in LinkIds, NEW j \in LinkIds,
               i \in Unused /\ \A k \in Unused : i <= k, j \in Unused /\ \A k \in Unused : j <= k
        PROVE  i = j
    BY <1>3, <1>4
  <1> QED BY <1>1, <1>2, <1>4

LEMMA TextsMove ==
  ASSUME ConstantsFit, IInv, NEW s \in Sessions, Begin(s) \/ Step(s), NEW p \in Promises
  PROVE  \/ text'[p] = text[p] \/ status[p] \in {NoRow, "DRAFT"}
         \/ pc[s] = "erase" /\ p = call[s].on
  <1>a. Types /\ Place(s) /\ Named1(s) /\ RowLocks(s)
    BY DEF IInv
  <1>1. CASE UNCHANGED text
    BY <1>1
  <1>2. CASE Insert(s)
    BY <1>a, <1>1, <1>2 DEF Insert, Fail, tables, Place, Named1, Creating, Types, TablesOK
  <1>3. CASE Rewrite(s) \/ IssueRow(s)
    BY <1>a, <1>1, <1>3 DEF Rewrite, IssueRow, Fail, tables, RowLocks, Rewrites, Types, TablesOK
  <1>4. CASE Erase(s)
    BY <1>a, <1>4 DEF Erase, Types, TablesOK
  <1> QED BY <1>1, <1>2, <1>3, <1>4
          DEF Step, Begin, TakeSlot, ReadStatus, CountSlots, Scan, LinksLocked, LockRow,
              LockLinks, Unsend, LockLink, ReadTerms, AnswerLink, Fail, tables

LEMMA LinksStayFit ==
  ASSUME ConstantsFit, IInv, AloneInv, NEW s \in Sessions, Begin(s) \/ Step(s)
  PROVE  LinksFit'
  <1>a. /\ Types /\ Place(s) /\ Named1(s) /\ RowLocks(s) /\ LinkLocks(s) /\ Known(s)
        /\ LinksFit /\ Covers(s)
    BY CallKnown DEF IInv, AloneInv
  <1>l. \A i \in LinkIds : link[i] \in Link \cup {NoLink, Deleted}
    BY <1>a DEF Types, TablesOK
  <1>n. NoPromise \notin Promises
    BY DEF ConstantsFit
  <1>0. CASE UNCHANGED tables
    BY <1>0, <1>a DEF tables, LinksFit
  <1>f. CASE Fail(s)
    BY <1>f, <1>0 DEF Fail
  <1>1. ASSUME NEW p \in Promises, Issue(s, p), status[p] # Gone,
               status' = [status EXCEPT ![p] = "PENDING"],
               \A i \in Live(p) : i \in Mine(s)
        PROVE  LinksFit'
    <2>0. /\ status'[p] = "PENDING"
          /\ \A q \in Promises : q # p => status'[q] = status[q]
      BY <1>1, <1>a DEF Types, TablesOK
    <2>1. ASSUME NEW i \in LinkIds
          PROVE  \/ link[i] = NoLink /\ link'[i] = [promise |-> p, state |-> "PENDING"]
                 \/ i \notin Mine(s) /\ link'[i] = link[i]
                 \/ i \in Mine(s) /\ link'[i].promise = link[i].promise /\ link'[i].state = "REVOKED"
      <3>1. i \in Mine(s) => [link[i] EXCEPT !.state = "REVOKED"].promise = link[i].promise
                             /\ [link[i] EXCEPT !.state = "REVOKED"].state = "REVOKED"
        BY <1>l DEF Link, NoLink, Deleted
      <3> QED BY <1>a, <1>1, <3>1, IssueMakes
    <2>2. ASSUME NEW i \in LinkIds, link'[i].state = "PENDING"
          PROVE  \/ link[i] = NoLink /\ link'[i].promise = p
                 \/ link'[i] = link[i] /\ link[i].promise # p
      BY <1>1, <1>n, <2>1, <2>2 DEF Live, LinksOf
    <2>3. ASSUME NEW i \in LinkIds, link'[i].promise \in Promises
          PROVE  status'[link'[i].promise] \notin {NoRow, Gone}
      <3>1. link'[i].promise = p \/ link'[i].promise = link[i].promise
        BY <2>1
      <3> QED BY <1>a, <2>0, <2>3, <3>1 DEF LinksFit, NoRow, Gone
    <2>4. ASSUME NEW i \in LinkIds, link'[i].state = "PENDING"
          PROVE  status'[link'[i].promise] = "PENDING"
      <3>1. CASE link'[i] = link[i] /\ link[i].promise # p
        <4>1. link[i].promise \in Promises
          BY <1>l, <2>4, <3>1 DEF Link, NoLink, Deleted
        <4> QED BY <1>a, <2>0, <2>4, <3>1, <4>1 DEF LinksFit
      <3> QED BY <2>0, <2>2, <2>4, <3>1
    <2>5. ASSUME NEW i \in LinkIds, NEW j \in LinkIds, link'[i].state = "PENDING",
                 link'[j].state = "PENDING", link'[j].promise = link'[i].promise
          PROVE  i = j
      <3>1. CASE link[i] = NoLink /\ link[j] = NoLink
        BY <1>a, <1>1, <2>5, <3>1, IssueMakes
      <3>2. CASE link'[i] = link[i] /\ link'[j] = link[j]
        BY <1>a, <2>5, <3>2 DEF LinksFit
      <3> QED BY <2>2, <2>5, <3>1, <3>2
    <2> QED BY <2>3, <2>4, <2>5 DEF LinksFit
  <1>2. CASE Insert(s) /\ ~Fail(s)
    <2>1. call[s].on \in Promises /\ status[call[s].on] = NoRow
      BY <1>2, <1>a DEF Insert, Place, Known, CreatorKinds, Named1, Creating
    <2>2. CASE call[s].kind = "CREATE"
      <3>1. Live(call[s].on) = {}
        BY <1>a, <2>1 DEF LinksFit, Live, LinksOf
      <3> QED BY <1>1, <1>2, <2>1, <2>2, <3>1 DEF Insert, NoRow, Gone
    <2>3. CASE call[s].kind # "CREATE"
      <3>1. link' = link /\ status' = [status EXCEPT ![call[s].on] = "DRAFT"]
        BY <1>2, <2>3 DEF Insert
      <3> QED BY <1>a, <1>l, <2>1, <3>1
              DEF LinksFit, Types, TablesOK, Link, NoLink, Deleted, NoRow, Gone
    <2> QED BY <2>2, <2>3
  <1>3. CASE IssueRow(s) /\ ~Fail(s)
    <2>1. call[s].on \in Promises /\ status[call[s].on] \in {"DRAFT", "PENDING"}
      BY <1>3, <1>a DEF IssueRow, Place, Known, CreatorKinds
    <2>2. \A i \in Live(call[s].on) : i \in Mine(s)
      BY <1>3, <1>a DEF IssueRow, Place, Covers, Sends, Mine, Live, LinksOf
    <2> QED BY <1>1, <1>3, <2>1, <2>2 DEF IssueRow, Gone
  <1>4. CASE Unsend(s) /\ ~Fail(s)
    <2>1. ASSUME NEW i \in LinkIds
          PROVE  \/ link'[i] = link[i]
                 \/ link'[i].promise = link[i].promise /\ link'[i].state # "PENDING"
      <3> DEFINE revoked == [link[i] EXCEPT !.state = "REVOKED"]
      <3>1. revoked.promise = link[i].promise /\ revoked.state = "REVOKED"
        BY <1>l DEF Link, NoLink, Deleted
      <3>2. link'[i] = link[i] \/ link'[i] = revoked
        BY <1>4 DEF Unsend
      <3> HIDE DEF revoked
      <3> QED BY <3>1, <3>2
    <2>2. status' = status
      BY <1>4 DEF Unsend
    <2> QED BY <1>a, <2>1, <2>2 DEF LinksFit
  <1>5. CASE Erase(s)
    <2>1. ASSUME NEW i \in LinkIds
          PROVE  \/ link'[i] = Deleted
                 \/ link'[i] = link[i] /\ link[i].promise # call[s].on
      BY <1>5 DEF Erase, LinksOf
    <2>2. \A q \in Promises : q # call[s].on => status'[q] = status[q]
      BY <1>5, <1>a DEF Erase, Types, TablesOK
    <2>3. Deleted.promise \notin Promises /\ Deleted.state # "PENDING"
      BY <1>n DEF Deleted
    <2>4. \A i \in LinkIds : link[i].state = "PENDING" => link[i].promise \in Promises
      BY <1>l DEF Link, NoLink, Deleted
    <2> QED BY <1>a, <2>1, <2>2, <2>3, <2>4 DEF LinksFit
  <1>6. CASE AnswerLink(s) /\ ~Fail(s)
    <2>1. /\ call[s].on \in LinkIds /\ call[s].kind \in Answers
          /\ link[call[s].on].state = "PENDING" /\ link[call[s].on] \in Link
      BY <1>6, <1>a, <1>l DEF AnswerLink, Place, Known, LinkLocks, Link, NoLink, Deleted, Answers
    <2>2. PICK i \in LinkIds : i = call[s].on
      BY <2>1
    <2>3. link[i].promise \in Promises
      BY <2>1, <2>2 DEF Link
    <2>4. /\ status' = [status EXCEPT ![link[i].promise] = Becomes[call[s].kind]]
          /\ link' = [link EXCEPT ![i].state = "USED"]
      BY <1>6, <2>2 DEF AnswerLink
    <2>5. Becomes[call[s].kind] \notin {NoRow, Gone}
      BY <2>1 DEF Becomes, Answers, NoRow, Gone
    <2>6. link'[i].promise = link[i].promise /\ link'[i].state = "USED"
          /\ \A j \in LinkIds : j # i => link'[j] = link[j]
      BY <1>a, <2>1, <2>2, <2>4 DEF Types, TablesOK, Link
    <2>7. /\ status'[link[i].promise] \notin {NoRow, Gone}
          /\ \A q \in Promises : q # link[i].promise => status'[q] = status[q]
      BY <1>a, <2>3, <2>4, <2>5 DEF Types, TablesOK
    <2>8. \A j \in LinkIds : link[j].state = "PENDING" => link[j].promise \in Promises
      BY <1>l DEF Link, NoLink, Deleted
    <2>9. \A j \in LinkIds : j # i /\ link[j].state = "PENDING" => link[j].promise # link[i].promise
      BY <1>a, <2>1, <2>2 DEF LinksFit
    <2> QED BY <1>a, <2>6, <2>7, <2>8, <2>9 DEF LinksFit
  <1>7. CASE Rewrite(s)
    <2>1. link' = link /\ status' = status
      BY <1>7 DEF Rewrite, Fail, tables
    <2> QED BY <1>a, <2>1 DEF LinksFit
  <1> QED BY <1>0, <1>f, <1>2, <1>3, <1>4, <1>5, <1>6, <1>7
          DEF Step, Begin, TakeSlot, ReadStatus, CountSlots, Scan, LinksLocked, LockRow,
              LockLinks, LockLink, ReadTerms

LEMMA SealsStayRight ==
  ASSUME ConstantsFit, IInv, AloneInv, NEW s \in Sessions, Begin(s) \/ Step(s)
  PROVE  SealedIsText'
  <1> SUFFICES ASSUME NEW p \in Promises, status'[p] = "ACTIVE"
               PROVE  sealed'[p] = text'[p]
    BY DEF SealedIsText
  <1>a. /\ Types /\ Place(s) /\ LinkLocks(s) /\ Known(s) /\ StatusMoves(s)
        /\ SealedIsText /\ TermsFit(s) /\ RowLocks(s)
    BY CallKnown, StatusesMove DEF IInv, AloneInv
  <1>1. CASE AnswerLink(s) /\ ~Fail(s)
    <2>1. /\ call[s].on \in LinkIds /\ call[s].kind \in Answers
          /\ link[call[s].on].state = "PENDING" /\ link[call[s].on] \in Link
      BY <1>1, <1>a DEF AnswerLink, Place, Known, LinkLocks, Link, NoLink, Deleted, Answers, Types, TablesOK
    <2>2. PICK q \in Promises : q = link[call[s].on].promise
      BY <2>1 DEF Link
    <2>3. /\ status' = [status EXCEPT ![q] = Becomes[call[s].kind]] /\ text' = text
          /\ sealed' = IF call[s].kind = "APPROVE" THEN [sealed EXCEPT ![q] = terms[s]] ELSE sealed
      BY <1>1, <2>2 DEF AnswerLink
    <2>4. terms[s] = text[q]
      BY <1>1, <1>a, <2>2 DEF AnswerLink, TermsFit
    <2>5. CASE p = q
      <3>1. call[s].kind = "APPROVE"
        BY <1>a, <2>1, <2>3, <2>5 DEF Types, TablesOK, Becomes, Answers
      <3> QED BY <1>a, <2>3, <2>4, <2>5, <3>1 DEF Types, TablesOK
    <2>6. CASE p # q
      BY <1>a, <2>3, <2>6 DEF Types, TablesOK, SealedIsText
    <2> QED BY <2>5, <2>6
  <1>2. CASE sealed' = sealed
    <2>1. CASE status[p] = "ACTIVE"
      <3>1. text'[p] = text[p]
        BY <1>a, <2>1, TextsMove DEF RowLocks, NoRow
      <3> QED BY <1>2, <1>a, <2>1, <3>1 DEF SealedIsText
    <2>2. CASE status[p] # "ACTIVE"
      <3>1. pc[s] = "answer" /\ AnswerLink(s)
        BY <1>a, <2>2 DEF StatusMoves, Step, Begin, TakeSlot, Insert, Rewrite, ReadStatus, CountSlots, Scan,
           LockLinks, LinksLocked, IssueRow, Unsend, LockRow, Erase, LockLink, ReadTerms, Gone
      <3>2. ~Fail(s)
        BY <2>2 DEF Fail, tables
      <3> QED BY <1>1, <3>1, <3>2
    <2> QED BY <2>1, <2>2
  <1> QED BY <1>1, <1>2
          DEF Step, Begin, TakeSlot, Insert, Rewrite, ReadStatus, CountSlots, Scan,
              LockLinks, LinksLocked, IssueRow, Unsend, LockRow, Erase, LockLink, ReadTerms, AnswerLink,
              Fail, tables

(* What an answer has read stays what the promise says: its link is locked *)
(* and live, so the promise is pending, and nobody rewrites a pending one. *)
LEMMA TermsStayFit ==
  ASSUME ConstantsFit, IInv, NEW d \in Devices, Devices = {d}, AloneInv,
         NEW s \in Sessions, Begin(s) \/ Step(s), NEW t \in Sessions
  PROVE  TermsFit(t)'
  <1>a. /\ Types /\ Place(s) /\ Place(t) /\ LinkLocks(t) /\ Known(t) /\ Known(s) /\ LinksFit
        /\ TermsFit(t) /\ Covers(s) /\ LinkMoves(s)
    BY CallKnown, LinksMove DEF IInv, AloneInv
  <1>n. Nobody \notin Sessions
    BY DEF ConstantsFit
  <1>1. CASE t = s
    <2>1. CASE ReadTerms(s) /\ ~Fail(s)
      BY <1>1, <1>a, <2>1 DEF ReadTerms, TermsFit, tables, Types, SessionsOK
    <2>2. CASE ~ReadTerms(s)
      <3>1. ASSUME Release(s) \/ Begin(s)
            PROVE  pc'[s] # "answer"
        <4>1. CASE Begin(s)
          <5>1. PICK c \in CreatorCalls \cup AnswerCalls : pc' = [pc EXCEPT ![s] = StartOf[c.kind]]
            BY <4>1 DEF Begin, Go
          <5>2. StartOf[c.kind] # "answer"
            BY DEF StartOf, CreatorCalls, AnswerCalls, Answers
          <5> QED BY <1>a, <5>1, <5>2 DEF Types, SessionsOK
        <4> QED BY <1>a, <3>1, <4>1 DEF Release, Types, SessionsOK
      <3>2. pc'[s] # "answer"
        BY <1>a, <2>2, <3>1 DEF Step, TakeSlot, Insert, Rewrite, ReadStatus, CountSlots, Scan,
              LockLinks, LinksLocked, IssueRow, Unsend, LockRow, Erase, LockLink, AnswerLink,
              Fail, Go, Types, SessionsOK, Place
      <3> QED BY <1>1, <3>2 DEF TermsFit
    <2>3. CASE Fail(s)
      BY <1>1, <1>a, <2>3 DEF Fail, Release, TermsFit, Types, SessionsOK
    <2> QED BY <2>1, <2>2, <2>3
  <1>2. CASE t # s /\ pc[t] = "answer"
    <2>1. /\ call[t].on \in LinkIds /\ holdsLink[call[t].on] = t
          /\ link[call[t].on].state = "PENDING" /\ link[call[t].on] \in Link
      BY <1>2, <1>a DEF Place, Known, LinkLocks, Link, NoLink, Deleted, Answers, Types, TablesOK
    <2>2. PICK p \in Promises : p = link[call[t].on].promise
      BY <2>1 DEF Link
    <2>3. link'[call[t].on] = link[call[t].on]
      BY <1>2, <1>a, <1>n, <2>1 DEF LinkMoves, FreeFor, NoLink
    <2>4. status[p] = "PENDING"
      BY <1>a, <2>1, <2>2 DEF LinksFit
    <2>5. ~(Erase(s) /\ p = call[s].on)
      BY <1>2, <1>a, <1>n, <2>1, <2>2 DEF Erase, LinksOf, FreeFor
    <2>6. text'[p] = text[p]
      <3>1. CASE pc[s] = "erase" /\ p = call[s].on
        <4>1. Erase(s)
          BY <3>1 DEF Step, Begin, TakeSlot, Insert, Rewrite, ReadStatus, CountSlots, Scan,
              LockLinks, LinksLocked, IssueRow, Unsend, LockRow, LockLink, ReadTerms, AnswerLink
        <4> QED BY <2>5, <3>1, <4>1
      <3> QED BY <2>4, <3>1, TextsMove DEF NoRow
    <2>7. Same(t)
      BY <1>2, <1>a, OthersStay
    <2> QED BY <1>a, <1>2, <2>2, <2>3, <2>6, <2>7 DEF TermsFit, Same
  <1>3. CASE t # s /\ pc[t] # "answer"
    BY <1>3, <1>a, OthersStay DEF TermsFit, Same
  <1> QED BY <1>1, <1>2, <1>3

(* The one device locks every link it has to, and none comes meanwhile. *)
LEMMA StaysCovered ==
  ASSUME ConstantsFit, IInv, NEW d \in Devices, Devices = {d}, AloneInv,
         NEW s \in Sessions, Begin(s) \/ Step(s), NEW t \in Sessions
  PROVE  Covers(t)'
  <1>a. /\ Types /\ Place(s) /\ Place(t) /\ Known(t) /\ Known(s) /\ LinksFit
        /\ Covers(t) /\ Covers(s) /\ LinkMoves(s) /\ Grips(s) /\ RowLocks(s)
    BY CallKnown, LinksMove, LocksMove DEF IInv, AloneInv
  <1>n. Nobody \notin Sessions /\ Devices \cap Answerers = {}
    BY DEF ConstantsFit
  <1>0. ASSUME Release(s)
        PROVE  Covers(s)'
    BY <1>0, <1>a DEF Release, Covers, Sends, Types, SessionsOK
  <1>1. CASE t # s
    <2>0. Same(t)
      BY <1>1, <1>a, OthersStay
    <2>1. CASE call[t].kind \notin CreatorKinds
      BY <1>a, <2>0, <2>1 DEF Covers, Same, Sends, CreatorKinds, Place
    <2>2. CASE call[t].kind \in CreatorKinds
      <3>1. s \in Answerers /\ t = d
        BY <1>1, <1>a, <2>2 DEF Known, Sessions
      <3>2. pc[s] \notin {"insert", "issue", "unsend", "erase"}
        BY <1>a, <1>n, <3>1 DEF Place, Known, CreatorKinds
      <3>3. ASSUME NEW i \in LinkIds
            PROVE  \/ link'[i] = link[i]
                   \/ link'[i].promise = link[i].promise /\ link'[i].state # "PENDING"
        <4>1. CASE AnswerLink(s) /\ ~Fail(s)
          <5>1. link[i] \in Link \cup {NoLink, Deleted}
            BY <1>a DEF Types, TablesOK
          <5>2. [link[i] EXCEPT !.state = "USED"].promise = link[i].promise
                /\ [link[i] EXCEPT !.state = "USED"].state = "USED"
            BY <5>1 DEF Link, NoLink, Deleted
          <5>3. link'[i] = link[i] \/ link'[i] = [link[i] EXCEPT !.state = "USED"]
            BY <1>a, <4>1 DEF AnswerLink, Types, TablesOK
          <5> QED BY <5>2, <5>3
        <4> QED BY <3>2, <4>1
                DEF Step, Begin, TakeSlot, Insert, Rewrite, ReadStatus, CountSlots, Scan,
                    LockLinks, LinksLocked, IssueRow, Unsend, LockRow, Erase, LockLink, ReadTerms,
                    AnswerLink, Fail, tables
      <3>4. /\ \A q : Live(q)' \subseteq Live(q)
            /\ \A q : LinksOf(q)' = LinksOf(q)
        BY <3>3 DEF Live, LinksOf
      <3>5. ASSUME NEW i \in LinkIds, holdsLink[i] = t
            PROVE  holdsLink'[i] = t
        BY <1>1, <1>a, <1>n, <3>5 DEF Grips, FreeFor
      <3>6. LinksOf(call[t].on) \subseteq LinkIds /\ Live(call[t].on) \subseteq LinkIds
        BY DEF LinksOf, Live
      <3> QED BY <1>a, <2>0, <3>4, <3>5, <3>6 DEF Covers, Same, Sends
    <2> QED BY <2>1, <2>2
  <1>2. CASE t = s
    <2>1. CASE Begin(s)
      <3>1. PICK c \in CreatorCalls \cup AnswerCalls :
              call' = [call EXCEPT ![s] = c] /\ pc' = [pc EXCEPT ![s] = StartOf[c.kind]]
        BY <2>1 DEF Begin, Go
      <3>2. call'[s] = c /\ pc'[s] = StartOf[c.kind]
        BY <1>a, <3>1 DEF Types, SessionsOK
      <3>3. pc'[s] \notin {"lockLinks", "lockRow", "erase", "issue"}
        BY <3>2 DEF StartOf, CreatorCalls, AnswerCalls, Answers
      <3>4. todo'[s] = {}
        BY <1>a, <2>1 DEF Begin, Covers
      <3> QED BY <1>2, <3>3, <3>4 DEF Covers, Sends
    <2>2. CASE (TakeSlot(s) \/ Rewrite(s) \/ ReadStatus(s) \/ CountSlots(s)) /\ ~Release(s)
      BY <1>2, <1>a, <2>2 DEF TakeSlot, Rewrite, ReadStatus, CountSlots, Fail, Go, Covers, Sends, Place,
         Types, SessionsOK
    <2>3. CASE Scan(s)
      <3>1. /\ pc'[s] = "lockLinks" /\ call' = call /\ link' = link /\ pc[s] = "scan"
            /\ todo'[s] = IF call[s].kind = "DELETE" THEN LinksOf(call[s].on) ELSE Live(call[s].on)
        BY <1>a, <2>3 DEF Scan, Go, tables, Types, SessionsOK
      <3>2. call[s].kind = "UPDATE" => Live(call[s].on) = {}
        BY <1>a, <3>1 DEF RowLocks, Rewrites, LinksFit, Live, LinksOf
      <3>3. LinksOf(call[s].on)' = LinksOf(call[s].on) /\ Live(call[s].on)' = Live(call[s].on)
        BY <3>1 DEF LinksOf, Live
      <3> QED BY <1>2, <3>1, <3>2, <3>3 DEF Covers, Sends
    <2>4. CASE LockLinks(s)
      <3>1. PICK i \in todo[s] :
              LET matches == IF call[s].kind = "DELETE" THEN link[i] # NoLink
                             ELSE link[i].state = "PENDING"
              IN  /\ holdsLink' = IF matches THEN [holdsLink EXCEPT ![i] = s] ELSE holdsLink
                  /\ todo' = [todo EXCEPT ![s] =
                       IF matches /\ call[s].kind = "REVOKE" THEN {} ELSE @ \ {i}]
        BY <2>4 DEF LockLinks
      <3>2. /\ UNCHANGED <<link, pc, call>> /\ pc[s] = "lockLinks" /\ call[s].kind # "UPDATE"
        BY <1>a, <2>4, <3>1 DEF LockLinks, tables, Covers
      <3>3. call[s].kind # "REVOKE" => todo'[s] = todo[s] \ {i}
        BY <1>a, <3>1 DEF Types, SessionsOK
      <3>4. ASSUME NEW j \in LinkIds, j = i \/ holdsLink[j] = s,
                   \/ call[s].kind = "DELETE" /\ link[j] # NoLink
                   \/ call[s].kind = "SEND" /\ link[j].state = "PENDING"
            PROVE  holdsLink'[j] = s
        BY <1>a, <3>1, <3>4 DEF Types, LocksOK
      <3>5. \A j \in LinksOf(call[s].on) : call[s].kind = "DELETE" => j \in LinkIds /\ link[j] # NoLink
        BY <1>a DEF LinksOf, NoLink, Known, CreatorKinds, ConstantsFit
      <3>6. \A j \in Live(call[s].on) : j \in LinkIds /\ link[j].state = "PENDING"
        BY DEF Live, LinksOf
      <3>7. LinksOf(call[s].on)' = LinksOf(call[s].on) /\ Live(call[s].on)' = Live(call[s].on)
        BY <3>2 DEF LinksOf, Live
      <3> QED BY <1>2, <1>a, <3>2, <3>3, <3>4, <3>5, <3>6, <3>7 DEF Covers, Sends
    <2>5. CASE (LinksLocked(s) \/ LockRow(s)) /\ ~Release(s)
      <3>1. /\ UNCHANGED <<link, call, todo, holdsLink>> /\ todo[s] = {}
            /\ pc[s] \in {"lockLinks", "lockRow"} /\ pc'[s] \in {"unsend", "lockRow", "issue", "erase"}
            /\ Sends(s)' => Sends(s) /\ pc[s] = "lockLinks"
        BY <1>a, <2>5 DEF LinksLocked, LockRow, Fail, Go, tables, locks, Covers, Sends, Types, SessionsOK, Place
      <3>2. LinksOf(call[s].on)' = LinksOf(call[s].on) /\ Live(call[s].on)' = Live(call[s].on)
        BY <3>1 DEF LinksOf, Live
      <3> QED BY <1>2, <1>a, <3>1, <3>2 DEF Covers, Sends
    <2>6. CASE (LockLink(s) \/ ReadTerms(s)) /\ ~Release(s)
      BY <1>2, <1>a, <2>6 DEF LockLink, ReadTerms, Fail, Go, Covers, Sends, Place, Answers,
         Types, SessionsOK
    <2> QED BY <1>0, <1>2, <2>1, <2>2, <2>3, <2>4, <2>5, <2>6
            DEF Step, Insert, IssueRow, Unsend, Erase, AnswerLink, Fail
  <1> QED BY <1>1, <1>2

LEMMA StepAlone ==
  ASSUME ConstantsFit, IInv, NEW d \in Devices, Devices = {d}, AloneInv, [Next]_vars
  PROVE  AloneInv'
  <1>1. ASSUME NEW s \in Sessions, Begin(s) \/ Step(s)
        PROVE  AloneInv'
    BY <1>1, LinksStayFit, SealsStayRight, TermsStayFit, StaysCovered DEF AloneInv
  <1>2. CASE UNCHANGED vars
    BY <1>2 DEF vars, tables, locks, AloneInv, LinksFit, SealedIsText, Covers, Sends, TermsFit, Live, LinksOf
  <1> QED BY <1>1, <1>2 DEF Next

(* One link at most, counted. *)
LEMMA AloneMeansOneLink ==
  ASSUME ConstantsFit, AloneInv
  PROVE  OneLiveLink
  <1> SUFFICES ASSUME NEW p \in Promises
               PROVE  Cardinality(Live(p)) <= 1
    BY DEF OneLiveLink
  <1>1. CASE Live(p) = {}
    BY <1>1, FS_EmptySet
  <1>2. CASE Live(p) # {}
    <2>1. PICK i \in Live(p) : TRUE
      BY <1>2
    <2>2. Live(p) = {i}
      BY <2>1 DEF Live, LinksOf, AloneInv, LinksFit
    <2>3. Cardinality({i}) = 1
      BY FS_Singleton
    <2> QED BY <2>2, <2>3
  <1> QED BY <1>1, <1>2

(* Answers wait for links that other answers hold, or for the device; an   *)
(* answer the device waits for waits for nothing the device holds.         *)
LEMMA AloneMeansNoCycle ==
  ASSUME ConstantsFit, IInv, NEW d \in Devices, Devices = {d}, AloneInv
  PROVE  NoWaitCycle
  <1> SUFFICES ASSUME NEW group \in SUBSET Sessions, group # {},
                      \A s \in group : WaitsFor(s) \cap group # {}
               PROVE  FALSE
    <2>1. ASSUME NEW group \in (SUBSET Sessions) \ {{}}
          PROVE  \E s \in group : WaitsFor(s) \cap group = {}
      OBVIOUS
    <2> QED BY <2>1 DEF NoWaitCycle
  <1>0. \A s \in group : \E t \in group : t \in WaitsFor(s)
    OBVIOUS
  <1>n. /\ Nobody \notin Sessions /\ Devices \cap Answerers = {} /\ Sessions = Devices \cup Answerers
        /\ Types
    BY DEF ConstantsFit, Sessions, IInv
  <1>k. ASSUME NEW s \in Sessions
        PROVE  Known(s) /\ Place(s) /\ RowLocks(s) /\ LinkLocks(s) /\ Covers(s)
    BY CallKnown DEF IInv, AloneInv
  <1>1. ASSUME NEW p \in Promises, NEW s \in Sessions, holdsRow[p] = s
        PROVE  s = d /\ p = call[d].on /\ (Rewrites(d) \/ pc[d] = "erase")
    <2>1. (Rewrites(s) \/ pc[s] = "erase") /\ p = call[s].on
      BY <1>1, <1>k DEF RowLocks
    <2> QED BY <1>k, <1>n, <2>1 DEF Rewrites, Place, Known, CreatorKinds
  <1>2. ASSUME NEW a \in Answerers, NEW b \in Sessions, b \in WaitsFor(a)
        PROVE  \/ pc[a] = "answer" /\ b = d /\ (Rewrites(d) \/ pc[d] = "erase")
               \/ pc[a] = "lockLink" /\ \E i \in LinkIds : holdsLink[i] = b
    <2>0. Place(a) /\ Known(a) /\ LinkLocks(a) /\ a \notin Devices /\ a \in Sessions
      BY <1>k, <1>n
    <2>1. pc[a] \in {"lockLink", "answer"}
      BY <1>2, <2>0 DEF WaitsFor, Holders, Place, Known, CreatorKinds
    <2>2. call[a].on \in LinkIds
      BY <2>0, <2>1 DEF Place, Known
    <2>3. CASE pc[a] = "lockLink"
      BY <1>2, <2>2, <2>3 DEF WaitsFor, Holders
    <2>4. CASE pc[a] = "answer"
      <3>1. link[call[a].on].promise \in Promises
        BY <1>n, <2>0, <2>2, <2>4 DEF LinkLocks, Place, Known, Types, TablesOK, Link, NoLink, Deleted, Answers
      <3>2. holdsRow[link[call[a].on].promise] = b
        BY <1>2, <2>4 DEF WaitsFor, Holders
      <3> QED BY <1>1, <2>4, <3>1, <3>2
    <2> QED BY <2>1, <2>3, <2>4
  <1>3. ASSUME NEW b \in Answerers, NEW i \in LinkIds, holdsLink[i] = b
        PROVE  pc[b] \in {"readTerms", "answer"}
    BY <1>k, <1>n, <1>3 DEF LinkLocks, Place, Known, CreatorKinds
  <1>4. ASSUME NEW a \in group, NEW i \in LinkIds, holdsLink[i] = a, a \in Answerers
        PROVE  d \in group /\ pc[a] = "answer" /\ (Rewrites(d) \/ pc[d] = "erase")
    <2>1. PICK b \in group : b \in WaitsFor(a)
      BY <1>0
    <2> QED BY <1>2, <1>3, <1>4, <2>1
  <1>5. d \in group
    <2>1. SUFFICES ASSUME d \notin group PROVE FALSE
      OBVIOUS
    <2>2. group \subseteq Answerers
      BY <1>n, <2>1
    <2>3. PICK a \in group : TRUE
      OBVIOUS
    <2>4. PICK b \in group : b \in WaitsFor(a)
      BY <1>0, <2>3
    <2>5. \E i \in LinkIds : holdsLink[i] = b
      BY <1>2, <2>1, <2>2, <2>3, <2>4
    <2> QED BY <1>4, <2>1, <2>2, <2>5
  <1>6. PICK a \in group : a \in WaitsFor(d)
    BY <1>0, <1>5
  <1>7. a \in Answerers /\ a # d
    BY <1>6, <1>n DEF WaitsFor
  <1>8. \E i \in LinkIds : /\ holdsLink[i] = a
                           /\ \/ pc[d] = "lockLinks" /\ i \in todo[d]
                              \/ pc[d] = "erase" /\ i \in LinksOf(call[d].on)
    <2>0. Known(d) /\ Place(d) /\ d \in Sessions
      BY <1>k, <1>n
    <2>1. CASE pc[d] \in {"slot", "count"}
      <3>1. a = holdsSlot
        BY <1>6, <2>1 DEF WaitsFor, Holders
      <3> QED BY <1>7, <1>n, <3>1 DEF Types, LocksOK
    <2>2. CASE pc[d] \in {"rewrite", "issue", "lockRow"}
      <3>1. a = holdsRow[call[d].on] /\ call[d].on \in Promises
        BY <1>6, <2>0, <2>2 DEF WaitsFor, Holders, Place, Known, CreatorKinds
      <3> QED BY <1>1, <1>7, <1>n, <3>1
    <2>3. CASE pc[d] = "lockLinks"
      BY <1>6, <1>n, <2>0, <2>3 DEF WaitsFor, Holders, Types, SessionsOK
    <2>4. CASE pc[d] = "erase"
      BY <1>6, <2>4 DEF WaitsFor, Holders, LinksOf
    <2>5. CASE pc[d] \in {"lockLink", "answer"}
      BY <1>n, <2>0, <2>5 DEF Place, Known
    <2> QED BY <1>6, <2>1, <2>2, <2>3, <2>4, <2>5 DEF WaitsFor, Holders
  <1>9. PICK i \in LinkIds : /\ holdsLink[i] = a
                             /\ \/ pc[d] = "lockLinks" /\ i \in todo[d]
                                \/ pc[d] = "erase" /\ i \in LinksOf(call[d].on)
    BY <1>8
  <1>10. CASE pc[d] = "lockLinks"
    <2>1. Rewrites(d)
      BY <1>4, <1>7, <1>9, <1>10
    <2> QED BY <1>9, <1>10, <1>k, <1>n, <2>1 DEF Rewrites, Covers
  <1>11. CASE pc[d] = "erase"
    BY <1>7, <1>9, <1>11, <1>k, <1>n DEF Covers, Place
  <1> QED BY <1>9, <1>10, <1>11
-----------------------------------------------------------------------------
LEMMA InitSlots ==
  ASSUME ConstantsFit, Init
  PROVE  SlotInv
  <1>1. Held = {}
    BY DEF Init, Held, NoRow
  <1>2. ASSUME NEW s \in Sessions
        PROVE  HasSlot(s)
    BY DEF Init, HasSlot, Sends
  <1> QED BY <1>1, <1>2, FS_EmptySet DEF SlotInv, SlotsBounded, ConstantsFit

LEMMA InitAlone ==
  ASSUME ConstantsFit, Init
  PROVE  AloneInv
  <1>1. LinksFit /\ SealedIsText
    BY DEF Init, LinksFit, SealedIsText, NoLink, NoRow, ConstantsFit
  <1>2. ASSUME NEW s \in Sessions
        PROVE  Covers(s) /\ TermsFit(s)
    BY DEF Init, Covers, Sends, TermsFit, NoCall
  <1> QED BY <1>1, <1>2 DEF AloneInv

(* Whatever the sessions interleave, tables, locks and what each session   *)
(* saw fit together.                                                       *)
THEOREM Inductive == ASSUME ConstantsFit PROVE Spec => []IInv
  BY InitIInv, StepIInv, PTL DEF Spec

(* The tables and locks keep their types. *)
THEOREM TypeCorrect == ASSUME ConstantsFit PROVE Spec => []TypeOK
  <1>1. IInv => TypeOK
    BY TypesImplyTypeOK DEF IInv
  <1> QED BY <1>1, Inductive, PTL

(* Every commit is an entry of the transition table, whatever the calls    *)
(* read before it without a lock.                                          *)
THEOREM TableImplemented == ASSUME ConstantsFit PROVE Spec => ImplementsLifecycle
  <1>1. Init => PL!Init
    BY DEF Init, PL!Init, Rows, NoRow, Gone, PL!NoRow
  <1>2. IInv /\ [Next]_vars => [PL!Step]_Rows
    BY StepFollows
  <1> QED BY <1>1, <1>2, Inductive, PTL DEF Spec, ImplementsLifecycle, PL!Spec

(* With nobody to answer, any number of devices stays within the slots. *)
THEOREM SlotsHold == ASSUME ConstantsFit, Answerers = {} PROVE Spec => []SlotsBounded
  <1>1. SlotInv => SlotsBounded
    BY DEF SlotInv
  <1>2. IInv /\ SlotInv /\ [Next]_vars => SlotInv'
    BY StepSlots
  <1> QED BY <1>1, <1>2, InitSlots, Inductive, PTL DEF Spec

(* With one device and any number of answers: one live link, the text that *)
(* was read is the text that is sealed, and no group of calls waits for    *)
(* each other.                                                             *)
THEOREM OneDevice ==
  ASSUME ConstantsFit, NEW d \in Devices, Devices = {d}
  PROVE  Spec => [](OneLiveLink /\ SealedIsText /\ NoWaitCycle)
  <1>1. IInv /\ AloneInv => OneLiveLink /\ SealedIsText /\ NoWaitCycle
    BY AloneMeansOneLink, AloneMeansNoCycle DEF AloneInv
  <1>2. IInv /\ AloneInv /\ [Next]_vars => AloneInv'
    BY StepAlone
  <1> QED BY <1>1, <1>2, InitAlone, Inductive, PTL DEF Spec
=============================================================================
