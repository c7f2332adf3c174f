--------------------------- MODULE MembershipLocks --------------------------
(***************************************************************************)
(* The same services as transactions of PostgreSQL (READ COMMITTED): row   *)
(* locks are taken one at a time, values are read when a row is locked,    *)
(* writes become visible at COMMIT.  accept_staff_invitation locks the     *)
(* invitation before the membership; the other three lock the membership   *)
(* before the invitations their UPDATE revokes, so they can deadlock; the  *)
(* database then aborts one of the two.                                    *)
(* The user and tenant rows, locked after the membership row, are left     *)
(* out: here there is one membership, whose lock is always taken first.    *)
(***************************************************************************)
CONSTANTS Invitation,  \* primary keys of StaffInvitation
          Worker,      \* requests served at the same time
          Member,      \* the row of the membership
          Nobody       \* holder of a free row

ASSUME RowsAssumption == Member \notin Invitation /\ Nobody \notin Worker

VARIABLES status, outcome,  \* committed columns, as in InvitationLifecycle
          holder,           \* which worker holds the lock of each row
          tx                \* the transaction of each worker

vars == <<status, outcome, holder, tx>>

Row == Invitation \cup {Member}
Kind == {"accept", "issue", "suspend", "activate"}

(* The committed columns are the state of the abstract specification.      *)
Lifecycle == INSTANCE InvitationLifecycle WITH Invitation <- Invitation,
               status <- status, outcome <- outcome

(* A running transaction: which service, where in it, the invitation it    *)
(* accepts or inserts, what its checks decided, which rows it has revoked. *)
Idle == [at |-> "idle"]
Running == [at     : {"begin", "locked_link", "read", "written"},
            kind   : Kind,
            link   : Invitation \cup {Nobody},
            passed : BOOLEAN,
            revoke : SUBSET Invitation]

Pending == {i \in Invitation : outcome[i] = "pending"}

Init ==
  /\ status = "absent"
  /\ outcome = [i \in Invitation |-> "none"]
  /\ holder = [row \in Row |-> Nobody]
  /\ tx = [w \in Worker |-> Idle]

Take(w, rows) == [row \in Row |-> IF row \in rows THEN w ELSE holder[row]]
Free(w, rows) == \A row \in rows : holder[row] \in {w, Nobody}

Release(w) == [row \in Row |-> IF holder[row] = w THEN Nobody ELSE holder[row]]

(* The create view inserts the membership. *)
Create ==
  /\ status = "absent"
  /\ status' = "invited"
  /\ UNCHANGED <<outcome, holder, tx>>

(***************************************************************************)
(* A request enters a service.  The link of an acceptance is of a stored   *)
(* invitation, that of an issue is the primary key of a new one.           *)
(***************************************************************************)
LinksFor(kind) ==
  CASE kind = "accept" -> {i \in Invitation : outcome[i] # "none"}
    [] kind = "issue"  -> {i \in Invitation : /\ outcome[i] = "none"
                                              /\ \A w \in Worker : tx[w] # Idle => tx[w].link # i}
    [] OTHER           -> {Nobody}

Begin(w, kind, link) ==
  /\ status # "absent"
  /\ tx[w] = Idle
  /\ link \in LinksFor(kind)
  /\ tx' = [tx EXCEPT ![w] = [at |-> "begin", kind |-> kind, link |-> link,
                              passed |-> FALSE, revoke |-> {}]]
  /\ UNCHANGED <<status, outcome, holder>>

(* SELECT ... FOR UPDATE of the invitation joined with its membership:     *)
(* the invitation row is the first to be locked.                           *)
LockInvitation(w) ==
  /\ tx[w].at = "begin"
  /\ tx[w].kind = "accept"
  /\ Free(w, {tx[w].link})
  /\ holder' = Take(w, {tx[w].link})
  /\ tx' = [tx EXCEPT ![w].at = "locked_link"]
  /\ UNCHANGED <<status, outcome>>

WantsMember(w) ==
  \/ tx[w].at = "locked_link"
  \/ tx[w].at = "begin" /\ tx[w].kind # "accept"

(* The conditions under which a service goes on, on the rows as they are. *)
Passes(kind, link) ==
  CASE kind = "accept"   -> outcome[link] = "pending" /\ status = "invited"
    [] kind = "issue"    -> status = "invited"
    [] kind = "suspend"  -> status # "suspended"
    [] kind = "activate" -> TRUE

Read(w) == tx' = [tx EXCEPT ![w].at = "read", ![w].passed = Passes(tx[w].kind, tx[w].link)]

ReadUnlocked(w) ==
  /\ WantsMember(w)
  /\ Read(w)
  /\ UNCHANGED <<status, outcome, holder>>

(* The membership row is locked, and what the service goes on to check is  *)
(* read from the rows it has locked.                                       *)
LockMember(w) ==
  /\ WantsMember(w)
  /\ Free(w, {Member})
  /\ holder' = Take(w, {Member})
  /\ Read(w)
  /\ UNCHANGED <<status, outcome>>

RefuseKeepingLocks(w) ==
  /\ tx[w].at = "read"
  /\ ~tx[w].passed \/ tx[w].kind = "accept"
  /\ tx' = [tx EXCEPT ![w] = Idle]
  /\ UNCHANGED <<status, outcome, holder>>

(* InvitationError (for an acceptance also a bad token or a missing        *)
(* password) or the early return: the transaction ends without a write.    *)
Refuse(w) ==
  /\ tx[w].at = "read"
  /\ ~tx[w].passed \/ tx[w].kind = "accept"
  /\ holder' = Release(w)
  /\ tx' = [tx EXCEPT ![w] = Idle]
  /\ UNCHANGED <<status, outcome>>

ToRevoke(w) == IF tx[w].kind = "accept" THEN Pending \ {tx[w].link} ELSE Pending

(* UPDATE ... SET revoked_at: each pending row is locked, then changed. *)
RevokeRows(w) ==
  /\ tx[w].at = "read"
  /\ tx[w].passed
  /\ Free(w, ToRevoke(w))
  /\ holder' = Take(w, ToRevoke(w))
  /\ tx' = [tx EXCEPT ![w].at = "written", ![w].revoke = ToRevoke(w)]
  /\ UNCHANGED <<status, outcome>>

Written(w) ==
  [i \in Invitation |->
     CASE i \in tx[w].revoke                         -> "revoked"
       [] i = tx[w].link /\ tx[w].kind = "accept"    -> "accepted"
       [] i = tx[w].link /\ tx[w].kind = "issue"     -> "pending"
       [] OTHER                                      -> outcome[i]]

KindAsStatus(kind) == IF kind = "issue" THEN status ELSE kind

StatusAfter(kind) ==
  CASE kind \in {"accept", "activate"} -> "active"
    [] kind = "suspend"                -> "suspended"
    [] kind = "issue"                  -> status

Commit(w) ==
  /\ tx[w].at = "written"
  /\ status' = StatusAfter(tx[w].kind)
  /\ outcome' = Written(w)
  /\ holder' = Release(w)
  /\ tx' = [tx EXCEPT ![w] = Idle]

(* The workers that hold a row w is waiting for. *)
Blockers(w) ==
  LET wanted == IF tx[w] = Idle THEN {}
                ELSE IF WantsMember(w) THEN {Member}
                ELSE IF tx[w].at = "begin" THEN {tx[w].link}
                ELSE IF tx[w].at = "read" /\ tx[w].passed THEN ToRevoke(w)
                ELSE {}
  IN {holder[row] : row \in wanted} \ {w, Nobody}

(* PostgreSQL finds the cycle and aborts one transaction of it; the view   *)
(* answers with an error and nobody retries.                               *)
DeadlockAbort(w) ==
  /\ \E v \in Blockers(w) : w \in Blockers(v)
  /\ holder' = Release(w)
  /\ tx' = [tx EXCEPT ![w] = Idle]
  /\ UNCHANGED <<status, outcome>>

Step(w) ==
  \/ LockInvitation(w) \/ LockMember(w) \/ RevokeRows(w) \/ Refuse(w) \/ Commit(w)
  \/ DeadlockAbort(w)

Next ==
  \/ Create
  \/ \E w \in Worker, kind \in Kind, link \in Invitation \cup {Nobody} : Begin(w, kind, link)
  \/ \E w \in Worker : Step(w)

Spec == Init /\ [][Next]_vars

(* The database grants row locks in the order they were asked for and      *)
(* resolves every deadlock, so no transaction is passed over for ever.     *)
FairSpec == Spec /\ \A w \in Worker : SF_vars(Step(w))

-----------------------------------------------------------------------------
TypeOK ==
  /\ status \in {"absent", "invited", "active", "suspended"}
  /\ outcome \in [Invitation -> Lifecycle!Outcome]
  /\ holder \in [Row -> Worker \cup {Nobody}]
  /\ tx \in [Worker -> {Idle} \cup Running]

(* What a service decided from the rows it read is still true when it      *)
(* writes: nobody accepts, suspends or resends under its feet.             *)
DecisionHolds ==
  \A w \in Worker :
     tx[w].at \in {"read", "written"} /\ tx[w].passed => Passes(tx[w].kind, tx[w].link)

(* Under row locks the four services behave as the one-step commands of    *)
(* InvitationLifecycle: every transaction takes effect at its commit.      *)
ServicesAreAtomic == Lifecycle!Spec

(* Every request that enters a service leaves it, in spite of the opposite *)
(* lock orders of accept and the other services.                           *)
ServicesEnd == \A w \in Worker : tx[w] # Idle ~> tx[w] = Idle
=============================================================================
