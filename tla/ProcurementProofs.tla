-------------------------- MODULE ProcurementProofs -------------------------
(***************************************************************************)
(* Theorems about Procurement for every set of tenders, contractors,       *)
(* applications, bids and requests.                                        *)
(***************************************************************************)
EXTENDS Procurement, TLAPS

Rows == TenderRequest \cup BidRequest \cup AwardRequest \cup WinnerRequest

(* What a request checked before, and what it wrote already, still holds:  *)
(* bids are never changed, and no tender is published again.               *)
Sound(r) ==
  LET q == requests[r]
  IN /\ q.tender \in DOMAIN tenders
     /\ q.at \in {"close", "award", "audit"} =>
          q.winner \in DOMAIN bids /\ bids[q.winner].tender = q.tender
     /\ q.at \in {"award", "audit"} => ~tenders[q.tender].published
     /\ q.at = "audit" => q.tender \in DOMAIN awards

RequestsSound == \A r \in DOMAIN requests : Sound(r)

AwardsStored == DOMAIN awards \subseteq DOMAIN tenders

EventsStored == \A t \in Tender : <<t, "published">> \in events => t \in DOMAIN tenders

(* The part of AuditTrail about awards ... *)
AwardsAudited ==
  /\ \A t \in Tender : <<t, "award_finalized">> \in events => t \in DOMAIN awards
  /\ \A t \in DOMAIN awards :
       \/ <<t, "award_finalized">> \in events
       \/ \E r \in DOMAIN requests : requests[r].at = "audit" /\ requests[r].tender = t
       \/ <<t, "audit">> \in died

(* ... and the part about withdrawn tenders, which has to cover those that *)
(* were created as published and whose event is not stored yet.            *)
Announced(t) ==
  \/ <<t, "published">> \in events
  \/ \E r \in DOMAIN requests :
       requests[r].at = "created" /\ requests[r].tender = t /\ requests[r].published

OnItsWay(t) ==
  \/ t \in DOMAIN awards
  \/ \E r \in DOMAIN requests : requests[r].at = "award" /\ requests[r].tender = t
  \/ <<t, "award">> \in died

WithdrawnForAward ==
  \A t \in DOMAIN tenders : Announced(t) /\ ~tenders[t].published => OnItsWay(t)

Inv ==
  /\ TypeOK
  /\ RequestsSound
  /\ AwardsStored
  /\ EventsStored
  /\ WithdrawnForAward
  /\ OneBidEach
  /\ AwardsSound
  /\ AwardsAudited

-----------------------------------------------------------------------------
LEMMA PutTyped ==
  ASSUME NEW table, NEW Key, NEW Row, IsTable(table, Key, Row),
         NEW key \in Key, NEW row \in Row
  PROVE  IsTable(Put(table, key, row), Key, Row)
  BY DEF IsTable, Put

LEMMA DeleteTyped ==
  ASSUME NEW table, NEW Key, NEW Row, IsTable(table, Key, Row), NEW key
  PROVE  IsTable(Delete(table, key), Key, Row)
  BY DEF IsTable, Delete

LEMMA Tables ==
  ASSUME TypeOK
  PROVE  /\ IsTable(applications, Application, ApplicationRow)
         /\ IsTable(tenders, Tender, TenderRow)
         /\ IsTable(bids, Bid, BidRow)
         /\ IsTable(awards, Tender, Bid)
         /\ IsTable(requests, Request, Rows)
  BY DEF TypeOK, Rows

(* Where a request stands says what it remembers. *)
LEMMA RequestTypes ==
  ASSUME TypeOK, NEW r \in DOMAIN requests
  PROVE  /\ r \in Request
         /\ requests[r].tender \in Tender
         /\ requests[r].at \in {"dispatch", "bidding"} => requests[r] \in BidRequest
         /\ requests[r].at \in {"close", "award", "audit"} => requests[r] \in WinnerRequest
  <1>1. r \in Request /\ requests[r] \in Rows
    BY Tables DEF IsTable
  <1>2. QED
    BY <1>1 DEF Rows, TenderRequest, BidRequest, AwardRequest, WinnerRequest

(* A request that goes on with its winner. *)
LEMMA GoOnKeeps ==
  ASSUME TypeOK, NEW r \in DOMAIN requests, NEW at \in {"close", "award", "audit"},
         requests[r].at \in {"close", "award", "audit"}, requests' = GoOn(r, at)
  PROVE  /\ IsTable(requests', Request, Rows)
         /\ DOMAIN requests' = DOMAIN requests
         /\ \A q \in DOMAIN requests : q # r => requests'[q] = requests[q]
         /\ requests'[r].at = at
         /\ requests'[r].tender = requests[r].tender
         /\ requests'[r].winner = requests[r].winner
  <1> DEFINE next == [requests[r] EXCEPT !.at = at]
  <1>1. r \in Request /\ requests[r] \in WinnerRequest
    BY RequestTypes
  <1>2. /\ next \in WinnerRequest /\ next.at = at
        /\ next.tender = requests[r].tender /\ next.winner = requests[r].winner
    BY <1>1 DEF WinnerRequest
  <1>3. requests' = Put(requests, r, next)
    BY DEF GoOn
  <1> HIDE DEF next
  <1>4. next \in Rows
    BY <1>2 DEF Rows
  <1>5. IsTable(requests', Request, Rows)
    BY <1>1, <1>3, <1>4, Tables, PutTyped
  <1>6. QED
    BY <1>2, <1>3, <1>5 DEF Put

-----------------------------------------------------------------------------
(* The rows that later steps rely on stay: no tender, bid or award goes    *)
(* away, no bid or award changes, and no tender is published again.        *)
Growth ==
  /\ \A t \in DOMAIN tenders : /\ t \in DOMAIN tenders'
                               /\ ~tenders[t].published => ~tenders'[t].published
  /\ \A b \in DOMAIN bids : b \in DOMAIN bids' /\ bids'[b] = bids[b]
  /\ AwardStays

LEMMA SoundGrows ==
  ASSUME RequestsSound, Growth, NEW r \in DOMAIN requests, requests'[r] = requests[r]
  PROVE  Sound(r)'
  BY DEF RequestsSound, Growth, AwardStays, Sound

(* A tender is withdrawn, and a request at "award" ends, only in a way     *)
(* that the trail accounts for.                                            *)
LEMMA WithdrawnKept ==
  ASSUME Inv, DOMAIN awards \subseteq DOMAIN awards', died \subseteq died',
         \A t \in DOMAIN tenders' : Announced(t)' /\ ~tenders'[t].published =>
            \/ OnItsWay(t)'
            \/ t \in DOMAIN tenders /\ Announced(t) /\ ~tenders[t].published,
         \A q \in DOMAIN requests : requests[q].at = "award" =>
            \/ q \in DOMAIN requests' /\ requests'[q] = requests[q]
            \/ requests[q].tender \in DOMAIN awards'
            \/ <<requests[q].tender, "award">> \in died'
  PROVE  WithdrawnForAward'
  <1>1. ASSUME NEW t, OnItsWay(t) PROVE OnItsWay(t)'
    BY <1>1 DEF OnItsWay
  <1>2. QED
    BY <1>1 DEF Inv, WithdrawnForAward

(* Most steps withdraw no tender and announce none. *)
LEMMA WithdrawnQuiet ==
  ASSUME Inv, tenders' = tenders, awards' = awards, events' = events, died \subseteq died',
         \A q \in DOMAIN requests' : requests'[q].at = "created" =>
            q \in DOMAIN requests /\ requests'[q] = requests[q],
         \A q \in DOMAIN requests : requests[q].at = "award" =>
            \/ q \in DOMAIN requests' /\ requests'[q] = requests[q]
            \/ requests[q].tender \in DOMAIN awards'
            \/ <<requests[q].tender, "award">> \in died'
  PROVE  WithdrawnForAward'
  <1>1. ASSUME NEW t, Announced(t)' PROVE Announced(t)
    BY <1>1 DEF Announced
  <1>2. QED
    BY <1>1, WithdrawnKept

(* A step that makes no award and no event. *)
LEMMA NoAward ==
  ASSUME Inv, TypeOK', Growth, OneBidEach',
         awards' = awards, events' = events, died' = died, WithdrawnForAward',
         \A r \in DOMAIN requests' :
            \/ Sound(r)'
            \/ (r \in DOMAIN requests /\ requests'[r] = requests[r]),
         \A r \in DOMAIN requests :
            requests[r].at = "audit" => r \in DOMAIN requests' /\ requests'[r] = requests[r]
  PROVE  Inv'
  <1>1. RequestsSound'
    BY SoundGrows DEF Inv, RequestsSound
  <1>2. AwardsStored' /\ EventsStored' /\ AwardsSound'
    BY DEF Inv, Growth, AwardsStored, EventsStored, AwardsSound
  <1>3. AwardsAudited'
    BY DEF Inv, AwardsAudited
  <1>4. QED
    BY <1>1, <1>2, <1>3 DEF Inv

LEMMA ApplyInv ==
  ASSUME Inv, NEW a \in Application, NEW c \in Contractor, Apply(a, c)
  PROVE  Inv' /\ Growth
  <1>1. [applicant |-> c, status |-> "pending_review"] \in ApplicationRow
    BY DEF ApplicationRow, ReviewStatus
  <1>2. IsTable(applications', Application, ApplicationRow)
    BY <1>1, Tables, PutTyped DEF Inv, Apply
  <1>3. UNCHANGED <<tenders, late, bids, awards, events, requests, died>>
    BY DEF Apply
  <1>4. TypeOK' /\ OneBidEach' /\ Growth
    BY <1>2, <1>3 DEF Inv, TypeOK, OneBidEach, Growth, AwardStays
  <1>5. WithdrawnForAward'
    BY <1>3, WithdrawnQuiet
  <1>6. QED
    BY <1>3, <1>4, <1>5, NoAward

LEMMA ReviewInv ==
  ASSUME Inv, NEW a \in Application, NEW status \in ReviewStatus, Review(a, status)
  PROVE  Inv' /\ Growth
  <1> DEFINE row == [applications[a] EXCEPT !.status = status]
  <1>1. applications[a] \in ApplicationRow
    BY Tables DEF Inv, Review, IsTable
  <1>2. row \in ApplicationRow
    BY <1>1 DEF ApplicationRow
  <1>3. applications' = Put(applications, a, row)
    BY DEF Review
  <1> HIDE DEF row
  <1>4. IsTable(applications', Application, ApplicationRow)
    BY <1>2, <1>3, Tables, PutTyped DEF Inv
  <1>5. UNCHANGED <<tenders, late, bids, awards, events, requests, died>>
    BY DEF Review
  <1>6. TypeOK' /\ OneBidEach' /\ Growth
    BY <1>4, <1>5 DEF Inv, TypeOK, OneBidEach, Growth, AwardStays
  <1>7. WithdrawnForAward'
    BY <1>5, WithdrawnQuiet
  <1>8. QED
    BY <1>5, <1>6, <1>7, NoAward

LEMMA PassDeadlineInv ==
  ASSUME Inv, NEW t \in Tender, PassDeadline(t)
  PROVE  Inv' /\ Growth
  <1>1. /\ UNCHANGED <<applications, tenders, bids, awards, events, requests, died>>
        /\ late' = late \cup {t}
    BY DEF PassDeadline
  <1>2. TypeOK' /\ OneBidEach' /\ Growth
    BY <1>1 DEF Inv, TypeOK, OneBidEach, Growth, AwardStays
  <1>3. WithdrawnForAward'
    BY <1>1, WithdrawnQuiet
  <1>4. QED
    BY <1>1, <1>2, <1>3, NoAward

LEMMA CreateTenderInv ==
  ASSUME Inv, NEW r \in Request, NEW t \in Tender, NEW p \in BOOLEAN, CreateTender(r, t, p)
  PROVE  Inv' /\ Growth
  <1> DEFINE ask == [at |-> "created", tender |-> t, published |-> p]
  <1>1. /\ r \notin DOMAIN requests /\ t \notin DOMAIN tenders
        /\ tenders' = Put(tenders, t, [published |-> p])
        /\ requests' = Put(requests, r, ask)
        /\ UNCHANGED <<applications, late, bids, awards, events, died>>
    BY DEF CreateTender
  <1>2. [published |-> p] \in TenderRow /\ ask \in Rows
        /\ ask.at = "created" /\ ask.tender = t /\ ask.published = p
    BY DEF TenderRow, Rows, TenderRequest
  <1> HIDE DEF ask
  <1>3. IsTable(tenders', Tender, TenderRow) /\ IsTable(requests', Request, Rows)
    BY <1>1, <1>2, Tables, PutTyped DEF Inv
  <1>4. TypeOK' /\ OneBidEach'
    BY <1>1, <1>3 DEF Inv, TypeOK, Rows, OneBidEach
  <1>5. Growth
    BY <1>1 DEF Growth, AwardStays, Put
  <1>6. /\ requests'[r] = ask /\ t \in DOMAIN tenders'
        /\ \A q \in DOMAIN requests' : q = r \/ q \in DOMAIN requests
        /\ \A q \in DOMAIN requests : q \in DOMAIN requests' /\ requests'[q] = requests[q]
    BY <1>1 DEF Put
  <1>7. Sound(r)'
    BY <1>2, <1>6 DEF Sound
  <1>8. ASSUME NEW s \in DOMAIN tenders', Announced(s)', ~tenders'[s].published
        PROVE  s \in DOMAIN tenders /\ Announced(s) /\ ~tenders[s].published
    <2>1. CASE s = t
      <3>1. tenders'[t].published = p
        BY <1>1 DEF Put
      <3>2. <<t, "published">> \notin events
        BY <1>1 DEF Inv, EventsStored
      <3>3. \A q \in DOMAIN requests : requests[q].tender # t
        BY <1>1 DEF Inv, RequestsSound, Sound
      <3>4. PICK q \in DOMAIN requests' :
                 requests'[q].at = "created" /\ requests'[q].tender = t /\ requests'[q].published
        BY <1>1, <1>8, <2>1, <3>2 DEF Announced
      <3>5. QED
        BY <1>2, <1>6, <1>8, <2>1, <3>1, <3>3, <3>4
    <2>2. CASE s # t
      <3>1. s \in DOMAIN tenders /\ tenders'[s] = tenders[s]
        BY <1>1, <2>2 DEF Put
      <3>2. Announced(s)
        BY <1>1, <1>2, <1>6, <1>8, <2>2 DEF Announced
      <3>3. QED
        BY <1>8, <3>1, <3>2
    <2>3. QED
      BY <2>1, <2>2
  <1>9. WithdrawnForAward'
    BY <1>1, <1>6, <1>8, WithdrawnKept
  <1>10. QED
    BY <1>1, <1>4, <1>5, <1>6, <1>7, <1>9, NoAward

(* A request that asks for a tender stores nothing else. *)
LEMMA FindInv ==
  ASSUME Inv, NEW r \in Request, NEW t \in Tender,
         (\E c \in Contractor : FindTender(r, t, c)) \/ CheckAward(r, t)
  PROVE  Inv' /\ Growth
  <1>1. PICK ask : /\ ask \in BidRequest \cup AwardRequest
                   /\ ask.tender = t
                   /\ t \in DOMAIN tenders
                   /\ r \notin DOMAIN requests
                   /\ requests' = Put(requests, r, ask)
                   /\ UNCHANGED <<applications, tenders, late, bids, awards, events, died>>
    <2>1. ASSUME NEW c \in Contractor, FindTender(r, t, c)
          PROVE  [at |-> "dispatch", tender |-> t, contractor |-> c] \in BidRequest
      BY DEF BidRequest
    <2>2. [at |-> "awarding", tender |-> t] \in AwardRequest
      BY DEF AwardRequest
    <2>3. QED
      BY <2>1, <2>2 DEF FindTender, CheckAward
  <1>2. ask \in Rows /\ ask.at \notin {"created", "close", "award", "audit"}
    BY <1>1 DEF Rows, BidRequest, AwardRequest
  <1>3. IsTable(requests', Request, Rows)
    BY <1>1, <1>2, Tables, PutTyped DEF Inv
  <1>4. TypeOK' /\ OneBidEach' /\ Growth
    BY <1>1, <1>3 DEF Inv, TypeOK, Rows, OneBidEach, Growth, AwardStays
  <1>5. /\ requests'[r] = ask
        /\ \A q \in DOMAIN requests' : q = r \/ q \in DOMAIN requests
        /\ \A q \in DOMAIN requests : q \in DOMAIN requests' /\ requests'[q] = requests[q]
    BY <1>1 DEF Put
  <1>6. Sound(r)'
    BY <1>1, <1>2, <1>5 DEF Sound
  <1>7. WithdrawnForAward'
    BY <1>1, <1>2, <1>5, WithdrawnQuiet
  <1>8. QED
    BY <1>1, <1>4, <1>5, <1>6, <1>7, NoAward

(* The rest of the checks of a bid: the request goes on, or is sent away. *)
LEMMA CheckBidInv ==
  ASSUME Inv, NEW r \in Request, CheckBid(r)
  PROVE  Inv' /\ Growth
  <1> DEFINE next == [requests[r] EXCEPT !.at = "bidding"]
  <1>1. /\ r \in DOMAIN requests /\ requests[r].at = "dispatch"
        /\ requests' = Put(requests, r, next) \/ requests' = Delete(requests, r)
        /\ UNCHANGED <<applications, tenders, late, bids, awards, events, died>>
    BY DEF CheckBid, GoOn
  <1>2. /\ next \in BidRequest
        /\ next.at = "bidding" /\ next.tender = requests[r].tender
    BY <1>1, RequestTypes DEF Inv, BidRequest
  <1> HIDE DEF next
  <1>3. next \in Rows
    BY <1>2 DEF Rows
  <1>4. IsTable(requests', Request, Rows)
    BY <1>1, <1>3, Tables, PutTyped, DeleteTyped DEF Inv
  <1>5. TypeOK' /\ OneBidEach' /\ Growth
    BY <1>1, <1>4 DEF Inv, TypeOK, Rows, OneBidEach, Growth, AwardStays
  <1>6. /\ \A q \in DOMAIN requests' : \/ q \in DOMAIN requests /\ requests'[q] = requests[q]
                                       \/ q = r /\ requests'[r] = next
        /\ \A q \in DOMAIN requests :
             q # r => q \in DOMAIN requests' /\ requests'[q] = requests[q]
    BY <1>1 DEF Put, Delete
  <1>7. Sound(r)
    BY <1>1 DEF Inv, RequestsSound
  <1>8. requests'[r] = next => Sound(r)'
    BY <1>1, <1>2, <1>7 DEF Sound
  <1>9. WithdrawnForAward'
    BY <1>1, <1>2, <1>6, WithdrawnQuiet
  <1>10. QED
    BY <1>1, <1>5, <1>6, <1>8, <1>9, NoAward

(* The constraint decides: the INSERT adds a bid only if there is none. *)
LEMMA InsertBidInv ==
  ASSUME Inv, NEW r \in Request, NEW b \in Bid, InsertBid(r, b)
  PROVE  Inv' /\ Growth
  <1> DEFINE row == [tender |-> requests[r].tender, contractor |-> requests[r].contractor]
  <1>1. /\ r \in DOMAIN requests /\ requests[r].at = "bidding" /\ b \notin DOMAIN bids
        /\ \/ bids' = bids
           \/ ~HasBid(requests[r].tender, requests[r].contractor) /\ bids' = Put(bids, b, row)
        /\ requests' = Delete(requests, r)
        /\ UNCHANGED <<applications, tenders, late, awards, events, died>>
    BY DEF InsertBid
  <1>2. row \in BidRow
    BY <1>1, RequestTypes DEF Inv, BidRequest, BidRow
  <1>3. /\ row.tender = requests[r].tender /\ row.contractor = requests[r].contractor
    OBVIOUS
  <1>4. \A d \in DOMAIN bids : bids[d] \in BidRow
    BY Tables DEF Inv, IsTable
  <1> HIDE DEF row
  <1>5. IsTable(bids', Bid, BidRow)
    BY <1>1, <1>2, Tables, PutTyped DEF Inv
  <1>6. IsTable(requests', Request, Rows)
    BY <1>1, Tables, DeleteTyped DEF Inv
  <1>7. TypeOK'
    BY <1>1, <1>5, <1>6 DEF Inv, TypeOK, Rows
  <1>8. OneBidEach'
    <2>1. CASE bids' = bids
      BY <2>1 DEF Inv, OneBidEach
    <2>2. CASE ~HasBid(requests[r].tender, requests[r].contractor) /\ bids' = Put(bids, b, row)
      <3>1. \A d \in DOMAIN bids : bids[d] # row
        BY <1>3, <2>2 DEF HasBid
      <3>2. /\ bids'[b] = row
            /\ \A d \in DOMAIN bids' : d = b \/ (d \in DOMAIN bids /\ bids'[d] = bids[d])
        BY <1>1, <2>2 DEF Put
      <3>3. QED
        BY <3>1, <3>2 DEF Inv, OneBidEach
    <2>3. QED
      BY <1>1, <2>1, <2>2
  <1>9. Growth
    BY <1>1 DEF Growth, AwardStays, Put
  <1>10. /\ \A q \in DOMAIN requests' : q \in DOMAIN requests /\ requests'[q] = requests[q]
         /\ \A q \in DOMAIN requests : q # r => q \in DOMAIN requests' /\ requests'[q] = requests[q]
    BY <1>1 DEF Delete
  <1>11. WithdrawnForAward'
    BY <1>1, <1>10, WithdrawnQuiet
  <1>12. QED
    BY <1>1, <1>7, <1>8, <1>9, <1>10, <1>11, NoAward

(* The winner is chosen among the bids of the tender. *)
LEMMA ChooseWinnerInv ==
  ASSUME Inv, NEW r \in Request, NEW b \in Bid, ChooseWinner(r, b)
  PROVE  Inv' /\ Growth
  <1> DEFINE t   == requests[r].tender
             ask == [at |-> "close", tender |-> t, winner |-> b]
  <1>1. /\ r \in DOMAIN requests /\ requests[r].at = "awarding"
        /\ b \in DOMAIN bids /\ bids[b].tender = t
        /\ requests' = Put(requests, r, ask)
        /\ UNCHANGED <<applications, tenders, late, bids, awards, events, died>>
    BY DEF ChooseWinner, BidsOf
  <1>2. t \in DOMAIN tenders /\ t \in Tender
    BY <1>1, RequestTypes DEF Inv, RequestsSound, Sound
  <1>3. ask \in Rows
    BY <1>2 DEF Rows, WinnerRequest
  <1>4. ask.at = "close" /\ ask.tender = t /\ ask.winner = b
    OBVIOUS
  <1> HIDE DEF ask
  <1>5. IsTable(requests', Request, Rows)
    BY <1>1, <1>3, Tables, PutTyped DEF Inv
  <1>6. TypeOK' /\ OneBidEach' /\ Growth
    BY <1>1, <1>5 DEF Inv, TypeOK, Rows, OneBidEach, Growth, AwardStays
  <1>7. /\ requests'[r] = ask
        /\ \A q \in DOMAIN requests' : q = r \/ (q \in DOMAIN requests /\ requests'[q] = requests[q])
        /\ \A q \in DOMAIN requests :
             q # r => q \in DOMAIN requests' /\ requests'[q] = requests[q]
    BY <1>1 DEF Put
  <1>8. Sound(r)'
    BY <1>1, <1>2, <1>4, <1>7 DEF Sound
  <1>9. WithdrawnForAward'
    BY <1>1, <1>4, <1>7, WithdrawnQuiet
  <1>10. QED
    BY <1>1, <1>6, <1>7, <1>8, <1>9, NoAward

LEMMA CloseTenderInv ==
  ASSUME Inv, NEW r \in Request, CloseTender(r)
  PROVE  Inv' /\ Growth
  <1> DEFINE t == requests[r].tender
  <1>1. /\ r \in DOMAIN requests /\ requests[r].at = "close"
        /\ tenders' = Put(tenders, t, [published |-> FALSE])
        /\ requests' = GoOn(r, "award")
        /\ UNCHANGED <<applications, late, bids, awards, events, died>>
    BY DEF CloseTender
  <1>2. t \in Tender /\ [published |-> FALSE] \in TenderRow
    BY <1>1, RequestTypes DEF Inv, TenderRow
  <1>3. IsTable(tenders', Tender, TenderRow)
    BY <1>1, <1>2, Tables, PutTyped DEF Inv
  <1>4. /\ IsTable(requests', Request, Rows)
        /\ DOMAIN requests' = DOMAIN requests
        /\ \A q \in DOMAIN requests : q # r => requests'[q] = requests[q]
        /\ requests'[r].at = "award"
        /\ requests'[r].tender = t
        /\ requests'[r].winner = requests[r].winner
    BY <1>1, GoOnKeeps DEF Inv
  <1>5. TypeOK' /\ OneBidEach'
    BY <1>1, <1>3, <1>4 DEF Inv, TypeOK, Rows, OneBidEach
  <1>6. Growth
    BY <1>1 DEF Growth, AwardStays, Put
  <1>7. t \in DOMAIN tenders' /\ ~tenders'[t].published
    BY <1>1 DEF Put
  <1>8. Sound(r)
    BY <1>1 DEF Inv, RequestsSound
  <1>9. Sound(r)'
    BY <1>1, <1>4, <1>7, <1>8 DEF Sound
  <1>10. OnItsWay(t)'
    BY <1>4, <1>1 DEF OnItsWay
  <1>11. ASSUME NEW s \in DOMAIN tenders', Announced(s)', ~tenders'[s].published, s # t
         PROVE  s \in DOMAIN tenders /\ Announced(s) /\ ~tenders[s].published
    <2>1. s \in DOMAIN tenders /\ tenders'[s] = tenders[s]
      BY <1>1, <1>11 DEF Put
    <2>2. Announced(s)
      BY <1>1, <1>4, <1>11 DEF Announced
    <2>3. QED
      BY <1>11, <2>1, <2>2
  <1>12. WithdrawnForAward'
    BY <1>1, <1>4, <1>10, <1>11, WithdrawnKept
  <1>13. QED
    BY <1>1, <1>4, <1>5, <1>6, <1>9, <1>12, NoAward

-----------------------------------------------------------------------------
(* The event of a new tender is not the event of an award. *)
LEMMA AuditTenderInv ==
  ASSUME Inv, NEW r \in Request, AuditTender(r)
  PROVE  Inv' /\ Growth
  <1>1. PICK action \in {"published", "draft_created"} :
             /\ r \in DOMAIN requests /\ requests[r].at = "created"
             /\ action = "published" => requests[r].published
             /\ events' = events \cup {<<requests[r].tender, action>>}
             /\ requests' = Delete(requests, r)
             /\ UNCHANGED <<applications, tenders, late, bids, awards, died>>
    BY DEF AuditTender
  <1>2. requests[r].tender \in Tender
    BY <1>1, RequestTypes DEF Inv
  <1>3. IsTable(requests', Request, Rows)
    BY <1>1, Tables, DeleteTyped DEF Inv
  <1>4. events' \subseteq Tender \X Action
    BY <1>1, <1>2 DEF Inv, TypeOK, Action
  <1>5. TypeOK' /\ OneBidEach' /\ Growth
    BY <1>1, <1>3, <1>4 DEF Inv, TypeOK, Rows, OneBidEach, Growth, AwardStays
  <1>6. /\ \A q \in DOMAIN requests' : q \in DOMAIN requests /\ requests'[q] = requests[q]
        /\ \A q \in DOMAIN requests : q # r => q \in DOMAIN requests' /\ requests'[q] = requests[q]
    BY <1>1 DEF Delete
  <1>7. RequestsSound'
    BY <1>5, <1>6, SoundGrows DEF Inv, RequestsSound
  <1>8. AwardsStored' /\ AwardsSound'
    BY <1>1 DEF Inv, AwardsStored, AwardsSound
  <1>9. requests[r].tender \in DOMAIN tenders
    BY <1>1 DEF Inv, RequestsSound, Sound
  <1>10. EventsStored'
    BY <1>1, <1>9 DEF Inv, EventsStored
  <1>11. ASSUME NEW t, Announced(t)' PROVE Announced(t)
    BY <1>1, <1>6, <1>11 DEF Announced
  <1>12. WithdrawnForAward'
    BY <1>1, <1>6, <1>11, WithdrawnKept
  <1>13. \A t : <<t, "award_finalized">> \in events' <=> <<t, "award_finalized">> \in events
    BY <1>1
  <1>14. AwardsAudited'
    BY <1>1, <1>6, <1>13 DEF Inv, AwardsAudited
  <1>15. QED
    BY <1>5, <1>7, <1>8, <1>14, <1>10, <1>12 DEF Inv

(***************************************************************************)
(* The two unique columns decide.  An award that is inserted goes to the   *)
(* tender the request closed and to the bid it chose among its bids.       *)
(***************************************************************************)
LEMMA InsertAwardInv ==
  ASSUME Inv, NEW r \in Request, InsertAward(r)
  PROVE  Inv' /\ Growth
  <1> DEFINE t == requests[r].tender
             b == requests[r].winner
  <1>1. /\ r \in DOMAIN requests /\ requests[r].at = "award"
        /\ UNCHANGED <<applications, tenders, late, bids, events, died>>
    BY DEF InsertAward
  <1>2. CASE /\ t \in DOMAIN awards \/ \E s \in DOMAIN awards : awards[s] = b
             /\ requests' = Delete(requests, r) /\ awards' = awards
    <2>1. IsTable(requests', Request, Rows)
      BY <1>2, Tables, DeleteTyped DEF Inv
    <2>2. TypeOK' /\ OneBidEach' /\ Growth
      BY <1>1, <1>2, <2>1 DEF Inv, TypeOK, Rows, OneBidEach, Growth, AwardStays
    <2>3. /\ \A q \in DOMAIN requests' : q \in DOMAIN requests /\ requests'[q] = requests[q]
          /\ \A q \in DOMAIN requests :
               q # r => q \in DOMAIN requests' /\ requests'[q] = requests[q]
      BY <1>2 DEF Delete
    <2>4. t \in DOMAIN awards
      <3>1. bids[b].tender = t
        BY <1>1 DEF Inv, RequestsSound, Sound
      <3>2. \A s \in DOMAIN awards : awards[s] = b => s = t
        BY <3>1 DEF Inv, AwardsSound
      <3>3. QED
        BY <1>2, <3>2
    <2>5. WithdrawnForAward'
      BY <1>1, <1>2, <2>3, <2>4, WithdrawnQuiet
    <2>6. QED
      BY <1>1, <1>2, <2>2, <2>3, <2>5, NoAward
  <1>3. CASE /\ t \notin DOMAIN awards
             /\ \A s \in DOMAIN awards : awards[s] # b
             /\ requests' = GoOn(r, "audit")
             /\ awards' = Put(awards, t, b)
    <2>1. t \in Tender /\ b \in Bid
      BY <1>1, RequestTypes DEF Inv, WinnerRequest
    <2>2. /\ t \in DOMAIN tenders /\ b \in DOMAIN bids
          /\ bids[b].tender = t /\ ~tenders[t].published
      BY <1>1 DEF Inv, RequestsSound, Sound
    <2>3. /\ IsTable(requests', Request, Rows)
          /\ DOMAIN requests' = DOMAIN requests
          /\ \A q \in DOMAIN requests : q # r => requests'[q] = requests[q]
          /\ requests'[r].at = "audit"
          /\ requests'[r].tender = t
          /\ requests'[r].winner = b
      BY <1>1, <1>3, GoOnKeeps DEF Inv
    <2>4. IsTable(awards', Tender, Bid)
      BY <1>3, <2>1, Tables, PutTyped DEF Inv
    <2>5. TypeOK' /\ OneBidEach'
      BY <1>1, <2>3, <2>4 DEF Inv, TypeOK, Rows, OneBidEach
    <2>6. /\ DOMAIN awards' = DOMAIN awards \cup {t}
          /\ awards'[t] = b
          /\ \A s \in DOMAIN awards : awards'[s] = awards[s]
      BY <1>3 DEF Put
    <2>7. Growth
      BY <1>1, <2>6 DEF Growth, AwardStays
    <2>8. Sound(r)'
      BY <1>1, <2>2, <2>3, <2>6 DEF Sound
    <2>9. RequestsSound'
      BY <2>3, <2>7, <2>8, SoundGrows DEF Inv, RequestsSound
    <2>10. AwardsStored'
      BY <1>1, <2>2, <2>6 DEF Inv, AwardsStored
    <2>11. AwardsSound'
      BY <1>1, <1>3, <2>2, <2>6 DEF Inv, AwardsSound
    <2>12. AwardsAudited'
      BY <1>1, <2>3, <2>6 DEF Inv, AwardsAudited
    <2>13. EventsStored'
      BY <1>1 DEF Inv, EventsStored
    <2>14. ASSUME NEW s, Announced(s)' PROVE Announced(s)
      BY <1>1, <2>3, <2>14 DEF Announced
    <2>15. WithdrawnForAward'
      BY <1>1, <2>3, <2>6, <2>14, WithdrawnKept
    <2>16. QED
      BY <2>5, <2>7, <2>9, <2>10, <2>11, <2>12, <2>13, <2>15 DEF Inv
  <1>4. QED
    BY <1>2, <1>3 DEF InsertAward

LEMMA AuditAwardInv ==
  ASSUME Inv, NEW r \in Request, AuditAward(r)
  PROVE  Inv' /\ Growth
  <1> DEFINE t == requests[r].tender
  <1>1. /\ r \in DOMAIN requests /\ requests[r].at = "audit"
        /\ events' = events \cup {<<t, "award_finalized">>}
        /\ requests' = Delete(requests, r)
        /\ UNCHANGED <<applications, tenders, late, bids, awards, died>>
    BY DEF AuditAward
  <1>2. t \in Tender /\ t \in DOMAIN awards
    BY <1>1, RequestTypes DEF Inv, RequestsSound, Sound
  <1>3. IsTable(requests', Request, Rows)
    BY <1>1, Tables, DeleteTyped DEF Inv
  <1>4. events' \subseteq Tender \X Action
    BY <1>1, <1>2 DEF Inv, TypeOK, Action
  <1>5. TypeOK' /\ OneBidEach' /\ Growth
    BY <1>1, <1>3, <1>4 DEF Inv, TypeOK, Rows, OneBidEach, Growth, AwardStays
  <1>6. /\ \A q \in DOMAIN requests' : q \in DOMAIN requests /\ requests'[q] = requests[q]
        /\ \A q \in DOMAIN requests : q # r => q \in DOMAIN requests' /\ requests'[q] = requests[q]
    BY <1>1 DEF Delete
  <1>7. RequestsSound'
    BY <1>5, <1>6, SoundGrows DEF Inv, RequestsSound
  <1>8. AwardsStored' /\ AwardsSound'
    BY <1>1 DEF Inv, AwardsStored, AwardsSound
  <1>9. AwardsAudited'
    BY <1>1, <1>2, <1>6 DEF Inv, AwardsAudited
  <1>10. \A s : <<s, "published">> \in events' <=> <<s, "published">> \in events
    BY <1>1
  <1>11. EventsStored'
    BY <1>1, <1>10 DEF Inv, EventsStored
  <1>12. ASSUME NEW s, Announced(s)' PROVE Announced(s)
    BY <1>6, <1>10, <1>12 DEF Announced
  <1>13. WithdrawnForAward'
    BY <1>1, <1>6, <1>12, WithdrawnKept
  <1>14. QED
    BY <1>5, <1>7, <1>8, <1>9, <1>11, <1>13 DEF Inv

LEMMA AbortInv ==
  ASSUME Inv, NEW r \in Request, Abort(r)
  PROVE  Inv' /\ Growth
  <1>1. /\ r \in DOMAIN requests
        /\ requests' = Delete(requests, r)
        /\ died' = IF requests[r].at \in {"award", "audit"}
                   THEN died \cup {<<requests[r].tender, requests[r].at>>} ELSE died
        /\ UNCHANGED <<applications, tenders, late, bids, awards, events>>
    BY DEF Abort
  <1>2. IsTable(requests', Request, Rows)
    BY <1>1, Tables, DeleteTyped DEF Inv
  <1>3. died' \subseteq Tender \X {"award", "audit"} /\ died \subseteq died'
    BY <1>1, RequestTypes DEF Inv, TypeOK
  <1>4. TypeOK' /\ OneBidEach' /\ Growth
    BY <1>1, <1>2, <1>3 DEF Inv, TypeOK, Rows, OneBidEach, Growth, AwardStays
  <1>5. /\ \A q \in DOMAIN requests' : q \in DOMAIN requests /\ requests'[q] = requests[q]
        /\ \A q \in DOMAIN requests : q # r => q \in DOMAIN requests' /\ requests'[q] = requests[q]
    BY <1>1 DEF Delete
  <1>6. RequestsSound'
    BY <1>4, <1>5, SoundGrows DEF Inv, RequestsSound
  <1>7. AwardsStored' /\ EventsStored' /\ AwardsSound'
    BY <1>1 DEF Inv, AwardsStored, EventsStored, AwardsSound
  <1>8. AwardsAudited'
    BY <1>1, <1>5 DEF Inv, AwardsAudited
  <1>9. WithdrawnForAward'
    BY <1>1, <1>5, <1>3, WithdrawnQuiet
  <1>10. QED
    BY <1>4, <1>6, <1>7, <1>8, <1>9 DEF Inv

-----------------------------------------------------------------------------
LEMMA InitInv == Init => Inv
  BY DEF Init, Inv, TypeOK, RequestsSound, AwardsStored, EventsStored, OneBidEach,
         AwardsSound, AwardsAudited, WithdrawnForAward, IsTable, Empty

LEMMA NextInv == Inv /\ [Next]_vars => Inv' /\ Growth
  <1> SUFFICES ASSUME Inv, [Next]_vars PROVE Inv' /\ Growth
    OBVIOUS
  <1>1. ASSUME NEW a \in Application, NEW c \in Contractor, Apply(a, c) PROVE Inv' /\ Growth
    BY <1>1, ApplyInv
  <1>2. ASSUME NEW a \in Application, NEW s \in ReviewStatus \ {"pending_review"}, Review(a, s)
        PROVE  Inv' /\ Growth
    BY <1>2, ReviewInv
  <1>3. ASSUME NEW t \in Tender, PassDeadline(t) PROVE Inv' /\ Growth
    BY <1>3, PassDeadlineInv
  <1>4. ASSUME NEW r \in Request, NEW t \in Tender, NEW p \in BOOLEAN, CreateTender(r, t, p)
        PROVE  Inv' /\ Growth
    BY <1>4, CreateTenderInv
  <1>5. ASSUME NEW r \in Request, NEW t \in Tender,
               (\E c \in Contractor : FindTender(r, t, c)) \/ CheckAward(r, t)
        PROVE  Inv' /\ Growth
    BY <1>5, FindInv
  <1>6. ASSUME NEW r \in Request, NEW b \in Bid, InsertBid(r, b) PROVE Inv' /\ Growth
    BY <1>6, InsertBidInv
  <1>7. ASSUME NEW r \in Request, NEW b \in Bid, ChooseWinner(r, b) PROVE Inv' /\ Growth
    BY <1>7, ChooseWinnerInv
  <1>8. ASSUME NEW r \in Request, AuditTender(r) PROVE Inv' /\ Growth
    BY <1>8, AuditTenderInv
  <1>9. ASSUME NEW r \in Request, CloseTender(r) PROVE Inv' /\ Growth
    BY <1>9, CloseTenderInv
  <1>10. ASSUME NEW r \in Request, InsertAward(r) PROVE Inv' /\ Growth
    BY <1>10, InsertAwardInv
  <1>11. ASSUME NEW r \in Request, AuditAward(r) PROVE Inv' /\ Growth
    BY <1>11, AuditAwardInv
  <1>12. ASSUME NEW r \in Request, Abort(r) PROVE Inv' /\ Growth
    BY <1>12, AbortInv
  <1>13. CASE UNCHANGED vars
    <2>1. /\ TypeOK' /\ OneBidEach' /\ AwardsStored' /\ EventsStored' /\ AwardsSound'
          /\ AwardsAudited' /\ WithdrawnForAward'
      BY <1>13 DEF vars, Inv, TypeOK, OneBidEach, AwardsStored, EventsStored, AwardsSound,
                   AwardsAudited, WithdrawnForAward, Announced, OnItsWay
    <2>2. RequestsSound' /\ Growth
      BY <1>13 DEF vars, Inv, RequestsSound, Sound, Growth, AwardStays
    <2>3. QED
      BY <2>1, <2>2 DEF Inv
  <1>14. ASSUME NEW r \in Request, CheckBid(r) PROVE Inv' /\ Growth
    BY <1>14, CheckBidInv
  <1>15. QED
    BY <1>1, <1>2, <1>3, <1>4, <1>5, <1>6, <1>7, <1>8, <1>9, <1>10, <1>11, <1>12, <1>13,
       <1>14 DEF Next

LEMMA InvHolds == Spec => []Inv
  BY InitInv, NextInv, PTL DEF Spec

(* Every reachable state is well typed. *)
THEOREM TypeCorrect == Spec => []TypeOK
  <1>1. Inv => TypeOK
    BY DEF Inv
  <1>2. QED
    BY <1>1, InvHolds, PTL

(* However many requests of a contractor pass the check at the same time,  *)
(* one bid on the tender is stored (BidCreateView, one_bid_per_tender).    *)
THEOREM OneBid == Spec => []OneBidEach
  <1>1. Inv => OneBidEach
    BY DEF Inv
  <1>2. QED
    BY <1>1, InvHolds, PTL

(* Every award goes to a bid of its own tender that won no other, and its  *)
(* tender is not published any more (AwardCreateView).                     *)
THEOREM AwardsAreSound == Spec => []AwardsSound
  <1>1. Inv => AwardsSound
    BY DEF Inv
  <1>2. QED
    BY <1>1, InvHolds, PTL

(* An award without its audit event has a request that is still at work or *)
(* died, and an event without its award does not exist.  A tender that was *)
(* announced as published is withdrawn for an award that was made, is on   *)
(* its way or died on its way (AwardCreateView.form_valid).                *)
THEOREM AwardsAreTraced == Spec => []AuditTrail
  <1>1. Inv => AuditTrail
    BY DEF Inv, AwardsAudited, WithdrawnForAward, Announced, OnItsWay, AuditTrail
  <1>2. QED
    BY <1>1, InvHolds, PTL

(* No step changes or withdraws an award, whoever else decided at the same *)
(* time (AwardCreateView, Award.tender).                                   *)
THEOREM AwardsAreFinal == Spec => AwardsFinal
  <1>1. Inv /\ [Next]_vars => AwardStays
    BY NextInv DEF Growth
  <1>2. QED
    BY <1>1, InvHolds, PTL DEF Spec, AwardsFinal

-----------------------------------------------------------------------------
(* How a request comes to ask for a tender, and past the check of its bid. *)
LEMMA BidRequests ==
  ASSUME Inv, [Next]_vars, NEW q \in DOMAIN requests',
         requests'[q].at \in {"dispatch", "bidding"}
  PROVE  \/ q \in DOMAIN requests /\ requests'[q] = requests[q]
         \/ /\ requests'[q].at = "dispatch"
            /\ requests'[q].tender \in DOMAIN tenders
            /\ tenders[requests'[q].tender].published
         \/ /\ q \in DOMAIN requests /\ requests[q].at = "dispatch"
            /\ requests'[q].at = "bidding"
            /\ requests'[q].tender = requests[q].tender
            /\ requests'[q].contractor = requests[q].contractor
            /\ CanSubmitBids(requests[q].contractor)
            /\ requests[q].tender \notin late
  <1> DEFINE Old == q \in DOMAIN requests /\ requests'[q] = requests[q]
  <1>1. UNCHANGED requests => Old
    OBVIOUS
  <1>2. ASSUME NEW r, requests' = Delete(requests, r) PROVE Old
    BY <1>2 DEF Delete
  <1>3. ASSUME NEW r, NEW row, requests' = Put(requests, r, row),
               row.at \notin {"dispatch", "bidding"}
        PROVE  Old
    BY <1>3 DEF Put
  <1>4. ASSUME NEW r \in Request, NEW t \in Tender, NEW c \in Contractor, FindTender(r, t, c),
               ~Old
        PROVE  /\ requests'[q].at = "dispatch"
               /\ requests'[q].tender \in DOMAIN tenders
               /\ tenders[requests'[q].tender].published
    <2> DEFINE ask == [at |-> "dispatch", tender |-> t, contractor |-> c]
    <2>1. /\ requests' = Put(requests, r, ask)
          /\ t \in DOMAIN tenders /\ tenders[t].published
      BY <1>4 DEF FindTender
    <2>2. ask.at = "dispatch" /\ ask.tender = t
      OBVIOUS
    <2> HIDE DEF ask
    <2>3. requests'[q] = ask
      BY <1>4, <2>1 DEF Put
    <2>4. QED
      BY <2>1, <2>2, <2>3
  <1>5. ASSUME NEW r \in Request, CheckBid(r), ~Old
        PROVE  /\ q \in DOMAIN requests /\ requests[q].at = "dispatch"
               /\ requests'[q].at = "bidding"
               /\ requests'[q].tender = requests[q].tender
               /\ requests'[q].contractor = requests[q].contractor
               /\ CanSubmitBids(requests[q].contractor)
               /\ requests[q].tender \notin late
    <2> DEFINE next == [requests[r] EXCEPT !.at = "bidding"]
    <2>1. /\ r \in DOMAIN requests /\ requests[r].at = "dispatch"
          /\ requests' # Delete(requests, r) =>
               /\ requests' = Put(requests, r, next)
               /\ CanSubmitBids(requests[r].contractor)
               /\ requests[r].tender \notin late
      BY <1>5 DEF CheckBid, GoOn
    <2>2. /\ next.at = "bidding" /\ next.tender = requests[r].tender
          /\ next.contractor = requests[r].contractor
      BY <2>1, RequestTypes DEF Inv, BidRequest
    <2> HIDE DEF next
    <2>3. requests' # Delete(requests, r)
      BY <1>2, <1>5
    <2>4. q = r /\ requests'[q] = next
      BY <1>5, <2>1, <2>3 DEF Put
    <2>5. QED
      BY <2>1, <2>2, <2>3, <2>4
  <1>6. ASSUME NEW r \in Request, NEW t \in Tender, NEW p \in BOOLEAN, CreateTender(r, t, p)
        PROVE  Old
    BY <1>3, <1>6 DEF CreateTender
  <1>7. ASSUME NEW r \in Request, NEW t \in Tender, CheckAward(r, t)
        PROVE  Old
    BY <1>3, <1>7 DEF CheckAward
  <1>8. ASSUME NEW r \in Request, NEW b \in Bid, ChooseWinner(r, b)
        PROVE  Old
    BY <1>3, <1>8 DEF ChooseWinner
  <1>9. ASSUME NEW r \in Request, NEW b \in Bid, InsertBid(r, b)
        PROVE  Old
    BY <1>2, <1>9 DEF InsertBid
  <1>10. ASSUME NEW r \in DOMAIN requests, NEW at \in {"award", "audit"},
                requests[r].at \in {"close", "award"}, requests' = GoOn(r, at)
         PROVE  Old
    <2>1. /\ DOMAIN requests' = DOMAIN requests
          /\ \A x \in DOMAIN requests : x # r => requests'[x] = requests[x]
          /\ requests'[r].at = at
      BY <1>10, GoOnKeeps DEF Inv
    <2>2. QED
      BY <2>1
  <1>11. ASSUME NEW r \in Request, CloseTender(r) PROVE Old
    BY <1>10, <1>11 DEF CloseTender
  <1>12. ASSUME NEW r \in Request, InsertAward(r) PROVE Old
    BY <1>2, <1>10, <1>12 DEF InsertAward
  <1>13. ASSUME NEW r \in Request, AuditTender(r) \/ AuditAward(r) \/ Abort(r) PROVE Old
    BY <1>2, <1>13 DEF AuditTender, AuditAward, Abort
  <1>14. ASSUME NEW a \in Application, NEW c \in Contractor, Apply(a, c) PROVE Old
    BY <1>1, <1>14 DEF Apply
  <1>15. ASSUME NEW a \in Application, NEW s \in ReviewStatus, Review(a, s) PROVE Old
    BY <1>1, <1>15 DEF Review
  <1>16. ASSUME NEW t \in Tender, PassDeadline(t) PROVE Old
    BY <1>1, <1>16 DEF PassDeadline
  <1>17. CASE UNCHANGED vars
    BY <1>1, <1>17 DEF vars
  <1>18. QED
    BY <1>4, <1>5, <1>6, <1>7, <1>8, <1>9, <1>11, <1>12, <1>13, <1>14, <1>15, <1>16, <1>17
       DEF Next

(* Only the INSERT of a bid stores one, for a request past the check. *)
LEMMA BidsStored ==
  ASSUME [Next]_vars
  PROVE  bids' = bids \/ \E r \in Request, b \in Bid : InsertBid(r, b)
  BY DEF Next, vars, Apply, Review, PassDeadline, CreateTender, AuditTender, FindTender, CheckBid,
         CheckAward, ChooseWinner, CloseTender, InsertAward, AuditAward, Abort

LEMMA LateStays ==
  ASSUME [Next]_vars
  PROVE  late \subseteq late'
  BY DEF Next, vars, Apply, Review, PassDeadline, CreateTender, AuditTender, FindTender, CheckBid,
         InsertBid, CheckAward, ChooseWinner, CloseTender, InsertAward, AuditAward, Abort

LEMMA NoBidAdded ==
  ASSUME Inv, [Next]_vars, NEW t \in Tender, NEW c \in Contractor, BiddingOver(t, c)
  PROVE  HasBid(t, c)' <=> HasBid(t, c)
  <1>1. CASE bids' = bids
    BY <1>1 DEF HasBid
  <1>2. ASSUME NEW r \in Request, NEW b \in Bid, InsertBid(r, b)
        PROVE  HasBid(t, c)' <=> HasBid(t, c)
    <2> DEFINE row == [tender |-> requests[r].tender, contractor |-> requests[r].contractor]
    <2>1. /\ r \in DOMAIN requests /\ requests[r].at = "bidding" /\ b \notin DOMAIN bids
          /\ bids' = bids \/ bids' = Put(bids, b, row)
      BY <1>2 DEF InsertBid
    <2>2. row.tender # t \/ row.contractor # c
      BY <2>1 DEF BiddingOver, NoRequest
    <2> HIDE DEF row
    <2>3. CASE bids' = Put(bids, b, row)
      <3>1. /\ DOMAIN bids' = DOMAIN bids \cup {b} /\ bids'[b] = row
            /\ \A d \in DOMAIN bids : bids'[d] = bids[d]
        BY <2>1, <2>3 DEF Put
      <3>2. QED
        BY <2>2, <3>1 DEF HasBid
    <2>4. QED
      BY <1>1, <2>1, <2>3
  <1>3. QED
    BY <1>1, <1>2, BidsStored

(* A tender that is not published stays so, and the requests that ask for  *)
(* it have all come past its dispatch.                                     *)
LEMMA WithdrawnStaysOver ==
  ASSUME Inv, [Next]_vars, NEW t \in Tender, NEW c \in Contractor, t \in DOMAIN tenders,
         ~tenders[t].published, NoRequest(t, c, {"dispatch", "bidding"})
  PROVE  BiddingOver(t, c)'
  <1>1. t \in DOMAIN tenders' /\ ~tenders'[t].published
    BY NextInv DEF Growth
  <1>2. NoRequest(t, c, {"dispatch", "bidding"})'
    <2>1. SUFFICES ASSUME NEW q \in DOMAIN requests',
                          requests'[q].at \in {"dispatch", "bidding"},
                          requests'[q].tender = t, requests'[q].contractor = c
                   PROVE  FALSE
      BY DEF NoRequest
    <2>2. QED
      BY <2>1, BidRequests DEF NoRequest
  <1>3. QED
    BY <1>1, <1>2 DEF BiddingOver

(* Whom the check refuses now does not come past it. *)
LEMMA RefusedStaysOver ==
  ASSUME Inv, [Next]_vars, NEW t \in Tender, NEW c \in Contractor, t \in DOMAIN tenders,
         t \in late \/ ~CanSubmitBids(c), NoRequest(t, c, {"bidding"}),
         t \in late' \/ ~CanSubmitBids(c)'
  PROVE  BiddingOver(t, c)'
  <1>1. t \in DOMAIN tenders'
    BY NextInv DEF Growth
  <1>2. NoRequest(t, c, {"bidding"})'
    <2>1. SUFFICES ASSUME NEW q \in DOMAIN requests', requests'[q].at = "bidding",
                          requests'[q].tender = t, requests'[q].contractor = c
                   PROVE  FALSE
      BY DEF NoRequest
    <2>2. QED
      BY <2>1, BidRequests DEF NoRequest
  <1>3. QED
    BY <1>1, <1>2 DEF BiddingOver

(* Once the deadline has passed, the award withdrew the tender, or the     *)
(* contractor is not approved, bids are stored only for requests that came *)
(* past the check before (BidCreateView.dispatch, form_valid).             *)
THEOREM BiddingIsOver == Spec => BiddingEnds
  <1>1. ASSUME Inv, [Next]_vars, NEW t \in Tender, NEW c \in Contractor, BiddingOver(t, c)
        PROVE  /\ HasBid(t, c)' <=> HasBid(t, c)
               /\ \/ BiddingOver(t, c)'
                  \/ t \notin late /\ ~CanSubmitBids(c) /\ CanSubmitBids(c)'
    <2>1. HasBid(t, c)' <=> HasBid(t, c)
      BY <1>1, NoBidAdded
    <2>2. CASE ~tenders[t].published /\ NoRequest(t, c, {"dispatch", "bidding"})
      BY <1>1, <2>1, <2>2, WithdrawnStaysOver DEF BiddingOver
    <2>3. CASE (t \in late \/ ~CanSubmitBids(c)) /\ NoRequest(t, c, {"bidding"})
      <3>1. t \in late => t \in late'
        BY <1>1, LateStays
      <3>2. CASE t \in late' \/ ~CanSubmitBids(c)'
        BY <1>1, <2>1, <2>3, <3>2, RefusedStaysOver DEF BiddingOver
      <3>3. CASE t \notin late' /\ CanSubmitBids(c)'
        BY <2>1, <2>3, <3>1, <3>3
      <3>4. QED
        BY <3>2, <3>3
    <2>4. QED
      BY <1>1, <2>2, <2>3 DEF BiddingOver
  <1>2. Inv /\ [Next]_vars => BiddingStops
    BY <1>1 DEF BiddingStops
  <1>3. QED
    BY <1>2, InvHolds, PTL DEF Spec, BiddingEnds
=============================================================================
