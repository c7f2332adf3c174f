----------------------------- MODULE Procurement ----------------------------
(***************************************************************************)
(* Contractor approval, tenders, bids and awards: apps/contractors and     *)
(* apps/procurement.  No view opens a transaction, so every write of a     *)
(* request and every group of queries that other requests can tell apart   *)
(* is an action of its own, and the worker may die between any two.        *)
(***************************************************************************)
EXTENDS Tables

CONSTANTS Tender, Contractor, Application, Bid,   \* primary keys and users
          Request                                 \* requests served at once

VARIABLES applications,  \* table Application -> [applicant, status]
          tenders,       \* table Tender -> [published]
          late,          \* tenders whose deadline has passed
          bids,          \* table Bid -> [tender, contractor]
          awards,        \* table Tender -> winning bid (one award per tender)
          events,        \* the audit events, as pairs of tender and action
          requests,      \* table Request -> where the request's code stands
          died           \* history: where the awarding requests of a tender died

vars == <<applications, tenders, late, bids, awards, events, requests, died>>

ReviewStatus == {"pending_review", "approved", "rejected", "info_requested"}
Action == {"published", "draft_created", "award_finalized"}

ApplicationRow == [applicant : Contractor, status : ReviewStatus]
TenderRow      == [published : BOOLEAN]
BidRow         == [tender : Tender, contractor : Contractor]

TenderRequest == [at : {"created"}, tender : Tender, published : BOOLEAN]
BidRequest    == [at : {"dispatch", "bidding"}, tender : Tender, contractor : Contractor]
AwardRequest  == [at : {"awarding"}, tender : Tender]
WinnerRequest == [at : {"close", "award", "audit"}, tender : Tender, winner : Bid]

CanSubmitBids(c) ==
  \E a \in DOMAIN applications :
     applications[a].applicant = c /\ applications[a].status = "approved"

HasBid(t, c) == \E b \in DOMAIN bids : bids[b].tender = t /\ bids[b].contractor = c

Init ==
  /\ applications = Empty
  /\ tenders = Empty
  /\ late = {}
  /\ bids = Empty
  /\ awards = Empty
  /\ events = {}
  /\ requests = Empty
  /\ died = {}

-----------------------------------------------------------------------------
Apply(a, c) ==
  /\ a \notin DOMAIN applications
  /\ applications' = Put(applications, a, [applicant |-> c, status |-> "pending_review"])
  /\ UNCHANGED <<tenders, late, bids, awards, events, requests, died>>

DecisionAsStatus(a, status) ==
  /\ a \in DOMAIN applications
  /\ applications' = Put(applications, a, [applications[a] EXCEPT
                           !.status = IF status = "approved" THEN "approve" ELSE status])
  /\ UNCHANGED <<tenders, late, bids, awards, events, requests, died>>

(* Approve, reject or ask for information, from any status. *)
Review(a, status) ==
  /\ a \in DOMAIN applications
  /\ applications' = Put(applications, a, [applications[a] EXCEPT !.status = status])
  /\ UNCHANGED <<tenders, late, bids, awards, events, requests, died>>

(* The deadline of a tender passes; the form accepts one already in the past. *)
PassDeadline(t) ==
  /\ t \notin late
  /\ late' = late \cup {t}
  /\ UNCHANGED <<applications, tenders, bids, awards, events, requests, died>>

CreateTender(r, t, published) ==
  /\ r \notin DOMAIN requests
  /\ t \notin DOMAIN tenders
  /\ tenders' = Put(tenders, t, [published |-> published])
  /\ requests' = Put(requests, r, [at |-> "created", tender |-> t, published |-> published])
  /\ UNCHANGED <<applications, late, bids, awards, events, died>>

(* The event says what the form said, whatever became of the tender since. *)
AuditTender(r) ==
  /\ r \in DOMAIN requests
  /\ requests[r].at = "created"
  /\ events' = events \cup {<<requests[r].tender,
        IF requests[r].published THEN "published" ELSE "draft_created">>}
  /\ requests' = Delete(requests, r)
  /\ UNCHANGED <<applications, tenders, late, bids, awards, died>>

-----------------------------------------------------------------------------
(***************************************************************************)
(* BidCreateView.dispatch reads the tender, which must be published, ...   *)
(***************************************************************************)
FindTender(r, t, c) ==
  /\ r \notin DOMAIN requests
  /\ t \in DOMAIN tenders
  /\ tenders[t].published
  /\ requests' = Put(requests, r, [at |-> "dispatch", tender |-> t, contractor |-> c])
  /\ UNCHANGED <<applications, tenders, late, bids, awards, events, died>>

GoOn(r, at) == Put(requests, r, [requests[r] EXCEPT !.at = at])

CheckBidNotDeadline(r) ==
  /\ r \in DOMAIN requests
  /\ requests[r].at = "dispatch"
  /\ requests' = IF /\ CanSubmitBids(requests[r].contractor)
                    /\ ~HasBid(requests[r].tender, requests[r].contractor)
                 THEN GoOn(r, "bidding") ELSE Delete(requests, r)
  /\ UNCHANGED <<applications, tenders, late, bids, awards, events, died>>

(***************************************************************************)
(* ... and then lets only an approved contractor through who has no bid,   *)
(* before the deadline.  It looks at the row it read: that the tender is   *)
(* still published is not asked again, now or later.  The form, with its   *)
(* upload, is read and checked after that.                                 *)
(***************************************************************************)
CheckBid(r) ==
  /\ r \in DOMAIN requests
  /\ requests[r].at = "dispatch"
  /\ requests' = IF /\ CanSubmitBids(requests[r].contractor)
                    /\ requests[r].tender \notin late
                    /\ ~HasBid(requests[r].tender, requests[r].contractor)
                 THEN GoOn(r, "bidding") ELSE Delete(requests, r)
  /\ UNCHANGED <<applications, tenders, late, bids, awards, events, died>>

InsertAnyBid(r, b) ==
  /\ r \in DOMAIN requests
  /\ requests[r].at = "bidding"
  /\ b \notin DOMAIN bids
  /\ bids' = Put(bids, b, [tender |-> requests[r].tender, contractor |-> requests[r].contractor])
  /\ requests' = Delete(requests, r)
  /\ UNCHANGED <<applications, tenders, late, awards, events, died>>

(* The INSERT of the bid, under the constraint one_bid_per_tender. *)
InsertBid(r, b) ==
  /\ r \in DOMAIN requests
  /\ requests[r].at = "bidding"
  /\ b \notin DOMAIN bids
  /\ IF HasBid(requests[r].tender, requests[r].contractor)
     THEN UNCHANGED bids
     ELSE bids' = Put(bids, b, [tender     |-> requests[r].tender,
                                contractor |-> requests[r].contractor])
  /\ requests' = Delete(requests, r)
  /\ UNCHANGED <<applications, tenders, late, awards, events, died>>

-----------------------------------------------------------------------------
(* AwardCreateView.dispatch: any tender without an award, published or not. *)
CheckAward(r, t) ==
  /\ r \notin DOMAIN requests
  /\ t \in DOMAIN tenders \ DOMAIN awards
  /\ requests' = Put(requests, r, [at |-> "awarding", tender |-> t])
  /\ UNCHANGED <<applications, tenders, late, bids, awards, events, died>>

Candidates(t) == DOMAIN bids

(* The form offers the bids of the tender, those that won nothing yet. *)
BidsOf(t) == {b \in DOMAIN bids : bids[b].tender = t}

ChooseWinner(r, b) ==
  /\ r \in DOMAIN requests
  /\ requests[r].at = "awarding"
  /\ LET t == requests[r].tender
     IN /\ b \in BidsOf(t)
        /\ \A s \in DOMAIN awards : awards[s] # b
        /\ requests' = Put(requests, r, [at |-> "close", tender |-> t, winner |-> b])
  /\ UNCHANGED <<applications, tenders, late, bids, awards, events, died>>

(* tender.published = False is saved before the award exists. *)
CloseTender(r) ==
  /\ r \in DOMAIN requests
  /\ requests[r].at = "close"
  /\ tenders' = Put(tenders, requests[r].tender, [published |-> FALSE])
  /\ requests' = GoOn(r, "award")
  /\ UNCHANGED <<applications, late, bids, awards, events, died>>

OverwriteAward(r) ==
  /\ r \in DOMAIN requests
  /\ requests[r].at = "award"
  /\ awards' = Put(awards, requests[r].tender, requests[r].winner)
  /\ requests' = GoOn(r, "audit")
  /\ UNCHANGED <<applications, tenders, late, bids, events, died>>

AwardWithoutAudit(r) ==
  /\ r \in DOMAIN requests
  /\ requests[r].at = "award"
  /\ requests[r].tender \notin DOMAIN awards
  /\ \A s \in DOMAIN awards : awards[s] # requests[r].winner
  /\ awards' = Put(awards, requests[r].tender, requests[r].winner)
  /\ requests' = Delete(requests, r)
  /\ UNCHANGED <<applications, tenders, late, bids, events, died>>

(***************************************************************************)
(* The INSERT of the award.  Its two one-to-one columns refuse a second    *)
(* award of the tender and a second award to the bid.                      *)
(***************************************************************************)
InsertAward(r) ==
  /\ r \in DOMAIN requests
  /\ requests[r].at = "award"
  /\ LET t == requests[r].tender
         b == requests[r].winner
     IN IF t \in DOMAIN awards \/ \E s \in DOMAIN awards : awards[s] = b
        THEN /\ requests' = Delete(requests, r)
             /\ UNCHANGED awards
        ELSE /\ requests' = GoOn(r, "audit")
             /\ awards' = Put(awards, t, b)
  /\ UNCHANGED <<applications, tenders, late, bids, events, died>>

(* The audit event of the award; the mail to the winner may fail silently. *)
AuditAward(r) ==
  /\ r \in DOMAIN requests
  /\ requests[r].at = "audit"
  /\ events' = events \cup {<<requests[r].tender, "award_finalized">>}
  /\ requests' = Delete(requests, r)
  /\ UNCHANGED <<applications, tenders, late, bids, awards, died>>

(* The worker dies, or the client goes away before it sends the form. *)
Abort(r) ==
  /\ r \in DOMAIN requests
  /\ requests' = Delete(requests, r)
  /\ died' = IF requests[r].at \in {"award", "audit"}
             THEN died \cup {<<requests[r].tender, requests[r].at>>} ELSE died
  /\ UNCHANGED <<applications, tenders, late, bids, awards, events>>

Next ==
  \/ \E a \in Application, c \in Contractor : Apply(a, c)
  \/ \E a \in Application, s \in ReviewStatus \ {"pending_review"} : Review(a, s)
  \/ \E t \in Tender : PassDeadline(t)
  \/ \E r \in Request, t \in Tender, p \in BOOLEAN : CreateTender(r, t, p)
  \/ \E r \in Request, t \in Tender, c \in Contractor : FindTender(r, t, c)
  \/ \E r \in Request, b \in Bid : InsertBid(r, b) \/ ChooseWinner(r, b)
  \/ \E r \in Request, t \in Tender : CheckAward(r, t)
  \/ \E r \in Request : \/ AuditTender(r) \/ CheckBid(r) \/ CloseTender(r)
                        \/ InsertAward(r) \/ AuditAward(r) \/ Abort(r)

Spec == Init /\ [][Next]_vars

-----------------------------------------------------------------------------
TypeOK ==
  /\ IsTable(applications, Application, ApplicationRow)
  /\ IsTable(tenders, Tender, TenderRow)
  /\ late \subseteq Tender
  /\ IsTable(bids, Bid, BidRow)
  /\ IsTable(awards, Tender, Bid)
  /\ events \subseteq Tender \X Action
  /\ IsTable(requests, Request,
             TenderRequest \cup BidRequest \cup AwardRequest \cup WinnerRequest)
  /\ died \subseteq Tender \X {"award", "audit"}

(* A contractor never has two bids on a tender, although the check for an  *)
(* earlier bid and the insert are far apart.                               *)
OneBidEach ==
  \A b, d \in DOMAIN bids : bids[b] = bids[d] => b = d

(* An award goes to a bid of its own tender that won no other, and from    *)
(* the moment it exists the tender is not published any more.              *)
AwardsSound ==
  \A t \in DOMAIN awards :
     /\ awards[t] \in DOMAIN bids
     /\ bids[awards[t]].tender = t
     /\ \A s \in DOMAIN awards : awards[s] = awards[t] => s = t
     /\ ~tenders[t].published

(* An award is final: neither a second reviewer who decided at the same    *)
(* time nor any later request changes or withdraws it.                     *)
AwardStays ==
  \A t \in DOMAIN awards : t \in DOMAIN awards' /\ awards'[t] = awards[t]

AwardsFinal == [][AwardStays]_vars

(* There is no way left to a bid of c on t: the checks of dispatch refuse  *)
(* c, or the tender is not published, and no request of c that came past   *)
(* that check before is still under way.                                   *)
NoRequest(t, c, at) ==
  ~\E r \in DOMAIN requests : requests[r].at \in at /\ requests[r].tender = t
                                                    /\ requests[r].contractor = c

BiddingOver(t, c) ==
  /\ t \in DOMAIN tenders
  /\ \/ ~tenders[t].published /\ NoRequest(t, c, {"dispatch", "bidding"})
     \/ (t \in late \/ ~CanSubmitBids(c)) /\ NoRequest(t, c, {"bidding"})

(* Bids stored after the deadline, after the award or after the approval   *)
(* was withdrawn come only from requests that the view had let through     *)
(* before.  Once those are through, no bid is added, and nothing but the   *)
(* approval of the contractor before the deadline opens the tender again.  *)
BiddingStops ==
  \A t \in Tender, c \in Contractor :
     BiddingOver(t, c) =>
        /\ HasBid(t, c)' <=> HasBid(t, c)
        /\ \/ BiddingOver(t, c)'
           \/ t \notin late /\ ~CanSubmitBids(c) /\ CanSubmitBids(c)'

BiddingEnds == [][BiddingStops]_vars

(* No event without its award, and no award without its event unless the   *)
(* request that made it is still running or died in between.  A tender     *)
(* that was announced as published is withdrawn only by an award, unless   *)
(* the request that makes the award is still running or died in between.   *)
AuditTrail ==
  /\ \A t \in Tender : <<t, "award_finalized">> \in events => t \in DOMAIN awards
  /\ \A t \in DOMAIN awards :
       \/ <<t, "award_finalized">> \in events
       \/ \E r \in DOMAIN requests : requests[r].at = "audit" /\ requests[r].tender = t
       \/ <<t, "audit">> \in died
  /\ \A t \in DOMAIN tenders :
       <<t, "published">> \in events /\ ~tenders[t].published =>
          \/ t \in DOMAIN awards
          \/ \E r \in DOMAIN requests : requests[r].at = "award" /\ requests[r].tender = t
          \/ <<t, "award">> \in died

=============================================================================
