----------------------- MODULE MembershipLocksProofs ------------------------
(***************************************************************************)
(* Theorems about MembershipLocks for every set of links and workers.      *)
(***************************************************************************)
EXTENDS MembershipLocks, TLAPS

Live(w) == tx[w].at # "idle"

(***************************************************************************)
(* A transaction that has read the membership keeps its row locked to the  *)
(* end.  That lock alone protects the checks and the rows to be revoked.   *)
(***************************************************************************)
Locked(w) == tx[w].at \in {"read", "written"} => holder[Member] = w

(* Which link a running transaction is about.                              *)
Linked(w) ==
  Live(w) =>
    /\ status # "absent"
    /\ tx[w].kind = "accept" => tx[w].link \in Invitation /\ outcome[tx[w].link] # "none"
    /\ tx[w].kind = "issue" =>
         /\ tx[w].link \in Invitation /\ outcome[tx[w].link] = "none"
         /\ \A v \in Worker : v # w /\ Live(v) /\ tx[v].kind \in {"accept", "issue"} =>
              tx[v].link # tx[w].link
    /\ tx[w].kind \in {"suspend", "activate"} => tx[w].link = Nobody

(* What was decided and marked for revocation still is so.                 *)
Decided(w) ==
  /\ tx[w].at \in {"read", "written"} /\ tx[w].passed => Passes(tx[w].kind, tx[w].link)
  /\ tx[w].at = "written" => tx[w].passed /\ tx[w].revoke = ToRevoke(w)

Inv == TypeOK /\ \A w \in Worker : Locked(w) /\ Linked(w) /\ Decided(w)

-----------------------------------------------------------------------------
LEMMA TxTypes ==
  ASSUME TypeOK, NEW w \in Worker
  PROVE  /\ tx[w] \in {Idle} \cup Running
         /\ Live(w) <=> tx[w] \in Running
         /\ Live(w) <=> tx[w] # Idle
         /\ ~Live(w) => tx[w] = Idle
  BY DEF TypeOK, Idle, Running, Live

LEMMA Locking ==
  ASSUME TypeOK, NEW w \in Worker, NEW rows \in SUBSET Row, Free(w, rows)
  PROVE  /\ Take(w, rows) \in [Row -> Worker \cup {Nobody}]
         /\ \A row \in rows : Take(w, rows)[row] = w
         /\ \A row \in Row : holder[row] = w => Take(w, rows)[row] = w
         /\ \A v \in Worker : \A row \in Row : holder[row] = v => Take(w, rows)[row] = v
  BY RowsAssumption DEF TypeOK, Take, Free

LEMMA Releasing ==
  ASSUME TypeOK, NEW w \in Worker
  PROVE  /\ Release(w) \in [Row -> Worker \cup {Nobody}]
         /\ \A v \in Worker : \A row \in Row : v # w /\ holder[row] = v => Release(w)[row] = v
  BY DEF TypeOK, Release

(* What a transaction has decided depends on the columns alone.            *)
LEMMA DecidedLasts ==
  ASSUME NEW v \in Worker, Decided(v), tx'[v] = tx[v], UNCHANGED <<status, outcome>>
  PROVE  Decided(v)'
  <1>1. ToRevoke(v)' = ToRevoke(v)
    BY DEF ToRevoke, Pending
  <1>2. \A kind, link : Passes(kind, link)' <=> Passes(kind, link)
    BY DEF Passes
  <1>3. QED
    BY <1>1, <1>2 DEF Decided

(* The transactions that a step leaves alone, when it writes no column.    *)
LEMMA OtherUnchanged ==
  ASSUME Inv, NEW w \in Worker, NEW v \in Worker, v # w, tx'[v] = tx[v],
         UNCHANGED <<status, outcome>>,
         \A row \in Row : holder[row] = v => holder'[row] = v,
         \A u \in Worker : u # w => tx'[u] = tx[u],
         Live(w)' => Live(w) /\ tx'[w].link = tx[w].link /\ tx'[w].kind = tx[w].kind
  PROVE  Locked(v)' /\ Linked(v)' /\ Decided(v)'
  <1>1. Locked(v)'
    BY DEF Inv, Locked, Row
  <1>2. Linked(v)'
    <2>1. Linked(v)
      BY DEF Inv
    <2>2. ASSUME NEW u \in Worker, Live(u)'
          PROVE  Live(u) /\ tx'[u].link = tx[u].link /\ tx'[u].kind = tx[u].kind
      BY <2>2 DEF Live
    <2>3. QED
      BY <2>1, <2>2 DEF Linked, Live
  <1>3. Decided(v)'
    BY DecidedLasts DEF Inv
  <1>4. QED
    BY <1>1, <1>2, <1>3

(* A transaction ends without a write, whatever it held. *)
LEMMA GiveUpInv ==
  ASSUME Inv, NEW w \in Worker, holder' = Release(w), tx' = [tx EXCEPT ![w] = Idle],
         UNCHANGED <<status, outcome>>
  PROVE  Inv'
  <1>1. tx'[w] = Idle /\ \A v \in Worker : v # w => tx'[v] = tx[v]
    BY DEF Inv, TypeOK
  <1>2. TypeOK'
    BY Releasing DEF Inv, TypeOK
  <1>3. Locked(w)' /\ Linked(w)' /\ Decided(w)'
    BY <1>1 DEF Locked, Linked, Decided, Live, Idle
  <1>4. \A v \in Worker : v # w => Locked(v)' /\ Linked(v)' /\ Decided(v)'
    BY <1>1, OtherUnchanged, Releasing DEF Live, Idle, Inv
  <1>5. QED
    BY <1>2, <1>3, <1>4 DEF Inv

LEMMA CreateInv ==
  ASSUME Inv, Create
  PROVE  Inv'
  <1>1. \A w \in Worker : ~Live(w)
    BY DEF Inv, Linked, Create
  <1>2. TypeOK'
    BY DEF Inv, TypeOK, Create
  <1>3. \A w \in Worker : Locked(w)' /\ Linked(w)' /\ Decided(w)'
    BY <1>1 DEF Create, Live, Locked, Linked, Decided
  <1>4. QED
    BY <1>2, <1>3 DEF Inv

(* The link of an issue is a primary key that nobody else has. *)
LEMMA BeginInv ==
  ASSUME Inv, NEW w \in Worker, NEW kind \in Kind, NEW link \in Invitation \cup {Nobody},
         Begin(w, kind, link)
  PROVE  Inv'
  <1> DEFINE row == [at |-> "begin", kind |-> kind, link |-> link,
                     passed |-> FALSE, revoke |-> {}]
  <1>1. /\ status # "absent" /\ tx[w] = Idle /\ link \in LinksFor(kind)
        /\ tx' = [tx EXCEPT ![w] = row] /\ UNCHANGED <<status, outcome, holder>>
    BY DEF Begin
  <1>2. row \in Running /\ row.at = "begin" /\ row.kind = kind /\ row.link = link
    BY DEF Running
  <1> HIDE DEF row
  <1>3. tx'[w] = row /\ \A v \in Worker : v # w => tx'[v] = tx[v]
    BY <1>1 DEF Inv, TypeOK
  <1>4. TypeOK'
    BY <1>1, <1>2 DEF Inv, TypeOK
  <1>5. kind = "issue" => /\ link \in Invitation /\ outcome[link] = "none"
                          /\ \A v \in Worker : Live(v) => tx[v].link # link
    BY <1>1, TxTypes DEF LinksFor, Inv
  <1>6. kind = "accept" => link \in Invitation /\ outcome[link] # "none"
    BY <1>1 DEF LinksFor
  <1>7. kind \in {"suspend", "activate"} => link = Nobody
    BY <1>1 DEF LinksFor
  <1>8. Locked(w)' /\ Decided(w)'
    BY <1>2, <1>3 DEF Locked, Decided
  <1>9. Linked(w)'
    BY <1>1, <1>2, <1>3, <1>5, <1>6, <1>7 DEF Linked, Live
  <1>10. ASSUME NEW v \in Worker, v # w
         PROVE  Locked(v)' /\ Linked(v)' /\ Decided(v)'
    <2>1. Locked(v)'
      BY <1>1, <1>3, <1>10 DEF Inv, Locked
    <2>2. Decided(v)'
      BY <1>1, <1>3, <1>10, DecidedLasts DEF Inv
    <2>3. Live(v) /\ tx[v].kind = "issue" /\ kind \in {"accept", "issue"} => link # tx[v].link
      <3>1. SUFFICES ASSUME Live(v), tx[v].kind = "issue", kind \in {"accept", "issue"}
                     PROVE  link # tx[v].link
        OBVIOUS
      <3>2. tx[v].link \in Invitation /\ outcome[tx[v].link] = "none"
        BY <3>1 DEF Inv, Linked
      <3>3. CASE kind = "issue"
        BY <1>5, <3>1, <3>3
      <3>4. CASE kind = "accept"
        BY <1>6, <3>2, <3>4
      <3>5. QED
        BY <3>1, <3>3, <3>4
    <2>4. Linked(v)'
      BY <1>1, <1>2, <1>3, <1>10, <2>3 DEF Inv, Linked, Live
    <2>5. QED
      BY <2>1, <2>2, <2>4
  <1>11. QED
    BY <1>4, <1>8, <1>9, <1>10 DEF Inv

(***************************************************************************)
(* A running transaction goes on to its next place, taking the rows it     *)
(* needs; its checks hold, or are made, at that moment.                    *)
(***************************************************************************)
LEMMA GoOnInv ==
  ASSUME Inv, NEW w \in Worker, Live(w), NEW rows \in SUBSET Row, Free(w, rows),
         holder' = Take(w, rows), UNCHANGED <<status, outcome>>,
         NEW row \in Running, tx' = [tx EXCEPT ![w] = row],
         row.kind = tx[w].kind, row.link = tx[w].link,
         row.at \in {"read", "written"} => Member \in rows \/ holder[Member] = w,
         row.at \in {"read", "written"} /\ row.passed => Passes(row.kind, row.link),
         row.at = "written" => row.passed /\ row.revoke = ToRevoke(w)
  PROVE  Inv'
  <1>1. tx'[w] = row /\ \A v \in Worker : v # w => tx'[v] = tx[v]
    BY DEF Inv, TypeOK
  <1>2. TypeOK'
    BY Locking DEF Inv, TypeOK
  <1>3. Locked(w)'
    BY <1>1, Locking DEF Inv, Locked, Row
  <1>4. Linked(w)'
    BY <1>1 DEF Inv, Linked, Live
  <1>5. Decided(w)'
    BY <1>1 DEF Decided, Passes, ToRevoke, Pending
  <1>6. \A v \in Worker : v # w => Locked(v)' /\ Linked(v)' /\ Decided(v)'
    BY <1>1, OtherUnchanged, Locking DEF Live, Inv
  <1>7. QED
    BY <1>2, <1>3, <1>4, <1>5, <1>6 DEF Inv

LEMMA LockInvitationInv ==
  ASSUME Inv, NEW w \in Worker, LockInvitation(w)
  PROVE  Inv'
  <1> DEFINE row == [tx[w] EXCEPT !.at = "locked_link"]
  <1>1. /\ tx[w].at = "begin" /\ tx[w].kind = "accept" /\ Free(w, {tx[w].link})
        /\ holder' = Take(w, {tx[w].link}) /\ tx' = [tx EXCEPT ![w] = row]
        /\ UNCHANGED <<status, outcome>>
    BY DEF LockInvitation, Inv, TypeOK
  <1>2. Live(w) /\ tx[w] \in Running
    BY <1>1, TxTypes DEF Live, Inv
  <1>3. {tx[w].link} \in SUBSET Row
    BY <1>1, <1>2 DEF Inv, Linked, Row
  <1>4. row \in Running /\ row.at = "locked_link" /\ row.kind = tx[w].kind /\ row.link = tx[w].link
    BY <1>2 DEF Running
  <1> HIDE DEF row
  <1>5. QED
    BY <1>1, <1>2, <1>3, <1>4, GoOnInv

LEMMA LockMemberInv ==
  ASSUME Inv, NEW w \in Worker, LockMember(w)
  PROVE  Inv'
  <1> DEFINE passed == Passes(tx[w].kind, tx[w].link)
             row    == [tx[w] EXCEPT !.at = "read", !.passed = passed]
  <1>1. /\ tx[w].at \in {"begin", "locked_link"} /\ Free(w, {Member})
        /\ holder' = Take(w, {Member}) /\ UNCHANGED <<status, outcome>>
    BY DEF LockMember, WantsMember
  <1>2. Live(w) /\ tx[w] \in Running
    BY <1>1, TxTypes DEF Live, Inv
  <1>3. passed \in BOOLEAN
    BY <1>2 DEF Passes, Running, Kind
  <1> HIDE DEF passed
  <1>4. tx' = [tx EXCEPT ![w] = row]
    BY DEF LockMember, Read, passed, Inv, TypeOK
  <1>5. /\ row \in Running /\ row.at = "read" /\ row.kind = tx[w].kind /\ row.link = tx[w].link
        /\ row.passed = passed
    BY <1>2, <1>3 DEF Running
  <1> HIDE DEF row
  <1>6. row.passed => Passes(row.kind, row.link)
    BY <1>5 DEF passed
  <1>7. QED
    BY <1>1, <1>2, <1>4, <1>5, <1>6, GoOnInv DEF Row

LEMMA RevokeRowsInv ==
  ASSUME Inv, NEW w \in Worker, RevokeRows(w)
  PROVE  Inv'
  <1> DEFINE row == [tx[w] EXCEPT !.at = "written", !.revoke = ToRevoke(w)]
  <1>1. /\ tx[w].at = "read" /\ tx[w].passed /\ Free(w, ToRevoke(w))
        /\ holder' = Take(w, ToRevoke(w)) /\ UNCHANGED <<status, outcome>>
    BY DEF RevokeRows
  <1>2. Live(w) /\ tx[w] \in Running
    BY <1>1, TxTypes DEF Live, Inv
  <1>3. ToRevoke(w) \in SUBSET Invitation
    BY DEF ToRevoke, Pending
  <1>4. tx' = [tx EXCEPT ![w] = row]
    BY DEF RevokeRows, Inv, TypeOK
  <1>5. /\ row \in Running /\ row.at = "written" /\ row.kind = tx[w].kind
        /\ row.link = tx[w].link /\ row.passed = tx[w].passed /\ row.revoke = ToRevoke(w)
    BY <1>2, <1>3 DEF Running
  <1> HIDE DEF row
  <1>6. holder[Member] = w /\ Passes(tx[w].kind, tx[w].link)
    BY <1>1 DEF Inv, Locked, Decided
  <1>7. QED
    BY <1>1, <1>2, <1>3, <1>4, <1>5, <1>6, GoOnInv DEF Row

-----------------------------------------------------------------------------
(* What a transaction writes when it commits. *)
LEMMA CommitWrites ==
  ASSUME Inv, NEW w \in Worker, Commit(w)
  PROVE  /\ tx[w] \in Running /\ tx[w].at = "written" /\ holder[Member] = w
         /\ Passes(tx[w].kind, tx[w].link)
         /\ tx[w].revoke = ToRevoke(w) /\ status # "absent" /\ Linked(w)
  <1>1. tx[w].at = "written"
    BY DEF Commit
  <1>2. Live(w)
    BY <1>1 DEF Live
  <1>3. QED
    BY <1>1, <1>2, TxTypes DEF Inv, Locked, Linked, Decided

(* Only one transaction is past the lock of the membership, so a commit    *)
(* finds the others before their checks.                                   *)
LEMMA CommitInv ==
  ASSUME Inv, NEW w \in Worker, Commit(w)
  PROVE  Inv'
  <1>1. /\ holder' = Release(w) /\ tx' = [tx EXCEPT ![w] = Idle]
        /\ status' = StatusAfter(tx[w].kind) /\ outcome' = Written(w)
    BY DEF Commit
  <1>2. /\ tx[w] \in Running /\ tx[w].at = "written" /\ holder[Member] = w
        /\ tx[w].revoke = ToRevoke(w) /\ status # "absent" /\ Linked(w)
    BY CommitWrites
  <1>3. tx'[w] = Idle /\ \A v \in Worker : v # w => tx'[v] = tx[v]
    BY <1>1 DEF Inv, TypeOK
  <1>4. tx[w].kind \in Kind /\ Live(w)
    BY <1>2 DEF Running, Live
  <1>5. status' \in {"invited", "active", "suspended"}
    BY <1>1, <1>2, <1>4 DEF StatusAfter, Kind, Inv, TypeOK
  <1>6. outcome' \in [Invitation -> Lifecycle!Outcome]
    BY <1>1 DEF Written, Inv, TypeOK, Lifecycle!Outcome
  <1>7. TypeOK'
    BY <1>1, <1>5, <1>6, Releasing DEF Inv, TypeOK
  <1>8. Locked(w)' /\ Linked(w)' /\ Decided(w)'
    BY <1>3 DEF Locked, Linked, Decided, Live, Idle
  <1>9. \A i \in Invitation : /\ outcome[i] # "none" => outcome'[i] # "none"
                              /\ outcome[i] = "none" /\ outcome'[i] # "none" =>
                                   tx[w].kind \in {"accept", "issue"} /\ i = tx[w].link
    BY <1>1, <1>2 DEF Written, ToRevoke, Pending
  <1>10. ASSUME NEW v \in Worker, v # w
         PROVE  Locked(v)' /\ Linked(v)' /\ Decided(v)'
    <2>1. tx'[v] = tx[v] /\ tx[v].at \notin {"read", "written"}
      BY <1>2, <1>3, <1>10 DEF Inv, Locked
    <2>2. Locked(v)' /\ Decided(v)'
      BY <2>1 DEF Locked, Decided
    <2>3. Linked(v)
      BY DEF Inv
    <2>4. \A u \in Worker : Live(u)' => Live(u) /\ tx'[u] = tx[u]
      BY <1>3 DEF Live, Idle
    <2>5. Live(v) /\ tx[v].kind = "issue" => outcome'[tx[v].link] = "none"
      BY <1>4, <1>9, <1>10, <2>3 DEF Linked
    <2>6. Linked(v)'
      BY <1>5, <1>9, <2>1, <2>3, <2>4, <2>5 DEF Linked, Live
    <2>7. QED
      BY <2>2, <2>6
  <1>11. QED
    BY <1>7, <1>8, <1>10 DEF Inv

LEMMA InitInv == Init => Inv
  <1> SUFFICES ASSUME Init
               PROVE  Inv
    OBVIOUS
  <1>1. TypeOK
    BY DEF Init, TypeOK, Lifecycle!Outcome
  <1>2. \A w \in Worker : tx[w].at = "idle"
    BY DEF Init, Idle
  <1>3. QED
    BY <1>1, <1>2 DEF Inv, Locked, Linked, Decided, Live

LEMMA NextInv == Inv /\ [Next]_vars => Inv'
  <1>1. ASSUME Inv, NEW w \in Worker, Step(w)
        PROVE  Inv'
    BY <1>1, LockInvitationInv, LockMemberInv, RevokeRowsInv, CommitInv, GiveUpInv
       DEF Step, Refuse, DeadlockAbort
  <1>2. Inv /\ Next => Inv'
    BY <1>1, CreateInv, BeginInv DEF Next
  <1>3. Inv /\ UNCHANGED vars => Inv'
    <2> SUFFICES ASSUME Inv, UNCHANGED vars
                 PROVE  Inv'
      OBVIOUS
    <2>1. TypeOK' /\ \A w \in Worker : Locked(w)' /\ Linked(w)'
      BY DEF vars, Inv, TypeOK, Locked, Linked, Live
    <2>2. \A w \in Worker : Decided(w)'
      BY DEF vars, Inv, Decided, Passes, ToRevoke, Pending
    <2>3. QED
      BY <2>1, <2>2 DEF Inv
  <1>4. QED
    BY <1>2, <1>3

LEMMA InvHolds == Spec => []Inv
  BY InitInv, NextInv, PTL DEF Spec

(* Every reachable state is well typed. *)
THEOREM TypeCorrect == Spec => []TypeOK
  <1>1. Inv => TypeOK
    BY DEF Inv
  <1>2. QED
    BY <1>1, InvHolds, PTL

(***************************************************************************)
(* The services of apps/accounts/services.py: what one of them checked     *)
(* under its row locks is still true when it writes.                       *)
(***************************************************************************)
THEOREM DecisionsHold == Spec => []DecisionHolds
  <1>1. Inv => DecisionHolds
    BY DEF Inv, Decided, DecisionHolds
  <1>2. QED
    BY <1>1, InvHolds, PTL

-----------------------------------------------------------------------------
(* A commit is the one step that the abstract specification sees, and is   *)
(* the command that the transaction serves.                                *)
LEMMA CommitIsCommand ==
  ASSUME Inv, NEW w \in Worker, Commit(w)
  PROVE  Lifecycle!Next
  <1>1. status' = StatusAfter(tx[w].kind) /\ outcome' = Written(w)
    BY DEF Commit
  <1>2. /\ tx[w].kind \in Kind /\ Passes(tx[w].kind, tx[w].link)
        /\ tx[w].revoke = ToRevoke(w) /\ status # "absent" /\ Linked(w) /\ Live(w)
    BY CommitWrites DEF Running, Live
  <1>3. outcome \in [Invitation -> Lifecycle!Outcome]
        /\ status \in {"absent", "invited", "active", "suspended"}
    BY DEF Inv, TypeOK
  <1>4. CASE tx[w].kind = "accept"
    <2> DEFINE i == tx[w].link
    <2>1. i \in Invitation /\ outcome[i] = "pending" /\ status = "invited" /\ status' = "active"
      BY <1>1, <1>2, <1>4 DEF Linked, Passes, StatusAfter
    <2>2. outcome' = [Lifecycle!Revoked EXCEPT ![i] = "accepted"]
      BY <1>1, <1>2, <1>4, <2>1 DEF Written, ToRevoke, Pending, Lifecycle!Revoked
    <2>3. Lifecycle!Accept(i)
      BY <2>1, <2>2 DEF Lifecycle!Accept
    <2>4. QED
      BY <2>1, <2>3 DEF Lifecycle!Next
  <1>5. CASE tx[w].kind = "issue"
    <2> DEFINE i == tx[w].link
    <2>1. i \in Invitation /\ outcome[i] = "none" /\ status = "invited" /\ status' = status
      BY <1>1, <1>2, <1>5 DEF Linked, Passes, StatusAfter
    <2>2. outcome' = [Lifecycle!Revoked EXCEPT ![i] = "pending"]
      BY <1>1, <1>2, <1>5, <2>1 DEF Written, ToRevoke, Pending, Lifecycle!Revoked
    <2>3. Lifecycle!Issue(i)
      BY <2>1, <2>2 DEF Lifecycle!Issue
    <2>4. QED
      BY <2>1, <2>3 DEF Lifecycle!Next
  <1>6. tx[w].kind \in {"suspend", "activate"} => outcome' = Lifecycle!Revoked
    BY <1>1, <1>2 DEF Written, ToRevoke, Pending, Lifecycle!Revoked
  <1>7. CASE tx[w].kind = "suspend"
    BY <1>1, <1>2, <1>3, <1>6, <1>7
       DEF Passes, StatusAfter, Lifecycle!Suspend, Lifecycle!Next
  <1>8. CASE tx[w].kind = "activate"
    BY <1>1, <1>2, <1>6, <1>8 DEF StatusAfter, Lifecycle!Activate, Lifecycle!Next
  <1>9. QED
    BY <1>2, <1>4, <1>5, <1>7, <1>8 DEF Kind

(***************************************************************************)
(* Under row locks the four services are the one-step commands of          *)
(* InvitationLifecycle, for any number of transactions and links.  The     *)
(* proof needs the lock of the membership row only.                        *)
(***************************************************************************)
THEOREM ServicesImplementLifecycle == Spec => ServicesAreAtomic
  <1>1. Init => Lifecycle!Init
    BY DEF Init, Lifecycle!Init
  <1>2. Inv /\ [Next]_vars => [Lifecycle!Next]_Lifecycle!lifecycle
    <2> SUFFICES ASSUME Inv, [Next]_vars
                 PROVE  [Lifecycle!Next]_Lifecycle!lifecycle
      OBVIOUS
    <2>1. CASE Create
      BY <2>1 DEF Create, Lifecycle!Create, Lifecycle!Next
    <2>2. ASSUME NEW w \in Worker, NEW kind \in Kind, NEW link \in Invitation \cup {Nobody},
                 Begin(w, kind, link)
          PROVE  UNCHANGED Lifecycle!lifecycle
      BY <2>2 DEF Begin, Lifecycle!lifecycle
    <2>3. ASSUME NEW w \in Worker, Step(w)
          PROVE  [Lifecycle!Next]_Lifecycle!lifecycle
      BY <2>3, CommitIsCommand
         DEF Step, LockInvitation, LockMember, RevokeRows, Refuse, DeadlockAbort, Lifecycle!lifecycle
    <2>4. CASE UNCHANGED vars
      BY <2>4 DEF vars, Lifecycle!lifecycle
    <2>5. QED
      BY <2>1, <2>2, <2>3, <2>4 DEF Next
  <1>3. QED
    BY <1>1, <1>2, InvHolds, PTL DEF Spec, ServicesAreAtomic, Lifecycle!Spec
=============================================================================
