------------------------ MODULE OrganizationsProofs ------------------------
(***************************************************************************)
(* Theorems about Organizations for every set of organizations, users,     *)
(* areas, departments, reports and requests.                               *)
(***************************************************************************)
EXTENDS Organizations, TLAPS

(***************************************************************************)
(* What can be said of a running request q, given the memberships ms, the  *)
(* open organizations os, the units us and the areas vs that moved.  While *)
(* the membership it relies on lasts, its organization is open; the row of *)
(* an organization that it will save says so; the unit it is about belongs *)
(* to its organization, or moved.                                          *)
(***************************************************************************)
Sound(q, ms, os, us, vs) ==
  /\ q.at # "report" => q.user \in User
  /\ q.at \in {"settings", "unit", "project", "report"} => q.tenant \in Tenant
  /\ q.at \in {"work", "settings"} /\ q.tenant # None => q.enabled
  /\ q.tenant # None /\ q.kept =>
       q.tenant \in os /\ (q.user # None => <<q.tenant, q.user>> \in ms)
  /\ q.at = "report" => q.user = None /\ q.unit \in Area
  /\ q.at \in {"unit", "report"} /\ q.unit # None =>
       q.unit \in DOMAIN us /\ (us[q.unit].tenant = q.tenant \/ q.unit \in vs)
  /\ q.at = "switched" => q.modified /\ q.session = q.tenant

SoundRequests ==
  \A r \in DOMAIN requests : Sound(requests[r], members, open, units, moved)

Requests == IsTable(requests, Request, RequestRow) /\ SoundRequests

(* The area and the department of a report exist and are routed within. *)
ReportsRouted ==
  \A i \in DOMAIN reports :
     /\ reports[i].area \in DOMAIN units
     /\ reports[i].area \in moved \/ units[reports[i].area].tenant = reports[i].tenant
     /\ reports[i].department # None =>
          /\ reports[i].department \in DOMAIN units
          /\ units[reports[i].department].tenant = reports[i].tenant

(* A choice that a user can rely on is in force, and no running request    *)
(* will save a session, unless the user switched in it.                    *)
ChosenStays ==
  \A u \in User : chosen[u] # None =>
     /\ sessions[u] = chosen[u]
     /\ chosen[u] \in open /\ <<chosen[u], u>> \in members
     /\ \A r \in DOMAIN requests :
          requests[r].user = u /\ requests[r].at # "switched" => ~requests[r].modified

Inv == TypeOK /\ SoundRequests /\ ReportsRouted /\ ChosenStays

-----------------------------------------------------------------------------
(* Steps that end no membership, close no organization and take no unit    *)
(* from its organization without a record.                                 *)
Grow ==
  /\ members \subseteq members'
  /\ open \subseteq open'
  /\ moved \subseteq moved'
  /\ \A x \in DOMAIN units : /\ x \in DOMAIN units'
                             /\ units'[x].tenant = units[x].tenant \/ x \in moved'

LEMMA SoundGrows ==
  ASSUME NEW q, Sound(q, members, open, units, moved), Grow
  PROVE  Sound(q, members', open', units', moved')
  <1>1. q.tenant # None /\ q.kept =>
          q.tenant \in open' /\ (q.user # None => <<q.tenant, q.user>> \in members')
    BY DEF Sound, Grow
  <1>2. q.at \in {"unit", "report"} /\ q.unit # None =>
          q.unit \in DOMAIN units' /\ (units'[q.unit].tenant = q.tenant \/ q.unit \in moved')
    BY DEF Sound, Grow
  <1>3. QED
    BY <1>1, <1>2 DEF Sound

LEMMA RequestTypes ==
  ASSUME Inv, NEW r \in DOMAIN requests
  PROVE  /\ r \in Request
         /\ requests[r] \in RequestRow
         /\ Sound(requests[r], members, open, units, moved)
  BY DEF Inv, TypeOK, IsTable, SoundRequests

LEMMA PutRequest ==
  ASSUME Inv, Grow, NEW r \in Request, NEW row \in RequestRow,
         Sound(row, members', open', units', moved'), requests' = Put(requests, r, row)
  PROVE  Requests'
  <1>1. IsTable(requests', Request, RequestRow)
    BY DEF Inv, TypeOK, IsTable, Put
  <1>2. ASSUME NEW q \in DOMAIN requests'
        PROVE  Sound(requests'[q], members', open', units', moved')
    <2>1. CASE q = r
      BY <2>1 DEF Put
    <2>2. CASE q # r
      <3>1. q \in DOMAIN requests /\ requests'[q] = requests[q]
        BY <2>2 DEF Put
      <3>2. QED
        BY <3>1, SoundGrows, RequestTypes
    <2>3. QED
      BY <2>1, <2>2
  <1>3. QED
    BY <1>1, <1>2 DEF Requests, SoundRequests

LEMMA DeleteRequest ==
  ASSUME Inv, Grow, NEW r, requests' = Delete(requests, r)
  PROVE  Requests'
  <1>1. IsTable(requests', Request, RequestRow)
    BY DEF Inv, TypeOK, IsTable, Delete
  <1>2. ASSUME NEW q \in DOMAIN requests'
        PROVE  Sound(requests'[q], members', open', units', moved')
    <2>1. q \in DOMAIN requests /\ requests'[q] = requests[q]
      BY DEF Delete
    <2>2. QED
      BY <2>1, SoundGrows, RequestTypes
  <1>3. QED
    BY <1>1, <1>2 DEF Requests, SoundRequests

(* The end of a view: the request is gone, or only its session is left. *)
LEMMA DoneRequest ==
  ASSUME Inv, Grow, NEW r \in DOMAIN requests, requests[r].at # "report",
         requests' = Done(r)
  PROVE  Requests'
  <1> DEFINE row == [requests[r] EXCEPT !.at = "done", !.tenant = None, !.unit = None,
                                        !.enabled = FALSE, !.kept = TRUE]
  <1>1. requests' = Put(requests, r, row) \/ requests' = Delete(requests, r)
    BY DEF Done
  <1>2. /\ row \in RequestRow
        /\ row.at = "done" /\ row.tenant = None /\ row.user = requests[r].user
    BY RequestTypes DEF RequestRow
  <1>3. row.user \in User
    BY <1>2, RequestTypes DEF Sound
  <1> HIDE DEF row
  <1>4. Sound(row, members', open', units', moved')
    BY <1>2, <1>3 DEF Sound
  <1>5. r \in Request
    BY RequestTypes
  <1>6. QED
    BY <1>1, <1>2, <1>4, <1>5, PutRequest, DeleteRequest

(* The choices outlast a step that changes neither them nor a session and  *)
(* makes no request save one.                                              *)
SavesNoMore ==
  \A q \in DOMAIN requests' :
     \/ requests'[q].at = "switched"
     \/ ~requests'[q].modified
     \/ /\ q \in DOMAIN requests
        /\ requests[q].user = requests'[q].user
        /\ requests[q].modified
        /\ requests[q].at # "switched"

LEMMA ChosenKept ==
  ASSUME Inv, Grow, SavesNoMore, UNCHANGED <<sessions, chosen>>
  PROVE  ChosenStays'
  BY DEF Inv, ChosenStays, Grow, SavesNoMore

LEMMA ReportsKept ==
  ASSUME Inv, Grow, moved' \subseteq Area, UNCHANGED reports
  PROVE  ReportsRouted'
  <1>1. \A i \in DOMAIN reports : reports[i] \in ReportRow
    BY DEF Inv, TypeOK, IsTable
  <1>2. QED
    BY <1>1, NoneAssumption, UnitsAssumption DEF Inv, ReportsRouted, Grow, ReportRow

-----------------------------------------------------------------------------
LEMMA PutSavesNoMore ==
  ASSUME NEW r, NEW row, requests' = Put(requests, r, row),
         \/ row.at = "switched"
         \/ row.modified = FALSE
         \/ /\ r \in DOMAIN requests
            /\ requests[r].user = row.user
            /\ requests[r].modified = row.modified
            /\ requests[r].at # "switched"
  PROVE  SavesNoMore
  BY DEF SavesNoMore, Put

LEMMA DeleteSavesNoMore ==
  ASSUME NEW r, requests' = Delete(requests, r)
  PROVE  SavesNoMore
  BY DEF SavesNoMore, Delete

LEMMA DoneSavesNoMore ==
  ASSUME Inv, NEW r \in DOMAIN requests, requests[r].at # "switched", requests' = Done(r)
  PROVE  SavesNoMore
  <1> DEFINE row == [requests[r] EXCEPT !.at = "done", !.tenant = None, !.unit = None,
                                        !.enabled = FALSE, !.kept = TRUE]
  <1>1. requests' = Put(requests, r, row) \/ requests' = Delete(requests, r)
    BY DEF Done
  <1>2. row.user = requests[r].user /\ row.modified = requests[r].modified
    BY RequestTypes DEF RequestRow
  <1> HIDE DEF row
  <1>3. QED
    BY <1>1, <1>2, PutSavesNoMore, DeleteSavesNoMore

(* A step that touches nothing but the requests. *)
LEMMA RequestOnly ==
  ASSUME Inv, Requests', SavesNoMore,
         UNCHANGED <<open, members, sessions, units, reports, projects, chosen, moved>>
  PROVE  Inv'
  <1>1. Grow
    BY DEF Grow
  <1>2. TypeOK' /\ SoundRequests'
    BY DEF Inv, TypeOK, Requests
  <1>3. ReportsRouted'
    BY DEF Inv, ReportsRouted
  <1>4. ChosenStays'
    BY <1>1, ChosenKept
  <1>5. QED
    BY <1>2, <1>3, <1>4 DEF Inv

(* A request that goes on with another row. *)
LEMMA Advance ==
  ASSUME Inv, NEW r \in Request, NEW row \in RequestRow,
         Sound(row, members, open, units, moved),
         requests' = Put(requests, r, row),
         UNCHANGED <<open, members, sessions, units, reports, projects, chosen, moved>>
  PROVE  /\ Requests'
         /\ SavesNoMore => Inv'
  <1>1. Grow
    BY DEF Grow
  <1>2. Sound(row, members', open', units', moved')
    BY <1>1, SoundGrows
  <1>3. Requests'
    BY <1>1, <1>2, PutRequest
  <1>4. QED
    BY <1>3, RequestOnly

-----------------------------------------------------------------------------
(* The middleware finds an organization only through an active membership. *)
LEMMA BeginInv ==
  ASSUME Inv, NEW r \in Request, NEW u \in User, NEW t \in Tenant \cup {None}, Begin(r, u, t)
  PROVE  Inv'
  <1> DEFINE row == [at |-> "work", user |-> u, tenant |-> t, session |-> t,
                     modified |-> t # sessions[u], unit |-> None,
                     enabled |-> t \in open, kept |-> TRUE]
  <1>1. /\ Resolves(u, t) /\ requests' = Put(requests, r, row)
        /\ UNCHANGED <<open, members, sessions, units, reports, projects, chosen, moved>>
    BY DEF Begin
  <1>2. t # None => t \in Mine(u)
    BY <1>1 DEF Resolves
  <1>3. /\ row \in RequestRow
        /\ row.at = "work" /\ row.user = u /\ row.tenant = t
        /\ row.enabled = (t \in open) /\ row.modified = (t # sessions[u])
    BY DEF RequestRow
  <1> HIDE DEF row
  <1>4. t # None => t \in open /\ <<t, u>> \in members
    BY <1>2 DEF Mine, Active
  <1>5. Sound(row, members, open, units, moved)
    BY <1>3, <1>4 DEF Sound
  <1>6. Requests'
    BY <1>1, <1>3, <1>5, Advance
  <1>7. TypeOK' /\ SoundRequests'
    BY <1>1, <1>6 DEF Inv, TypeOK, Requests
  <1>8. ReportsRouted'
    BY <1>1 DEF Inv, ReportsRouted
  <1>9. chosen[u] # None => ~row.modified
    <2>1. SUFFICES ASSUME chosen[u] # None PROVE t = sessions[u]
      BY <1>3
    <2>2. sessions[u] = chosen[u] /\ chosen[u] \in open /\ <<chosen[u], u>> \in members
      BY <2>1 DEF Inv, ChosenStays
    <2>3. sessions[u] \in Mine(u)
      BY <2>1, <2>2 DEF Mine, Active, Inv, TypeOK
    <2>4. QED
      BY <1>1, <2>1, <2>2, <2>3 DEF Resolves
  <1>10. ChosenStays'
    BY <1>1, <1>3, <1>9 DEF Inv, ChosenStays, Put
  <1>11. QED
    BY <1>7, <1>8, <1>10 DEF Inv

LEMMA SwitchInv ==
  ASSUME Inv, NEW r \in Request, NEW t \in Tenant, Switch(r, t)
  PROVE  Inv'
  <1> DEFINE row == Activated(r, t)
  <1>1. /\ r \in DOMAIN requests /\ requests[r].at = "work"
        /\ t \in open /\ <<t, requests[r].user>> \in members
        /\ requests' = Put(requests, r, row)
        /\ UNCHANGED <<open, members, sessions, units, reports, projects, chosen, moved>>
    BY DEF Switch, At, Active
  <1>2. requests[r] \in RequestRow /\ requests[r].user \in User
    BY <1>1, RequestTypes DEF Sound
  <1>3. /\ row \in RequestRow
        /\ row.at = "switched" /\ row.user = requests[r].user
        /\ row.tenant = t /\ row.session = t /\ row.modified = TRUE
    BY <1>2 DEF Activated, RequestRow
  <1> HIDE DEF row
  <1>4. Sound(row, members, open, units, moved)
    BY <1>1, <1>2, <1>3 DEF Sound
  <1>5. SavesNoMore
    BY <1>1, <1>3, PutSavesNoMore
  <1>6. QED
    BY <1>1, <1>3, <1>4, <1>5, Advance

LEMMA AbortInv ==
  ASSUME Inv, NEW r \in Request, Abort(r)
  PROVE  Inv'
  <1>1. Grow
    BY DEF Abort, Grow
  <1>2. Requests' /\ SavesNoMore
    BY <1>1, DeleteRequest, DeleteSavesNoMore DEF Abort
  <1>3. QED
    BY <1>2, RequestOnly DEF Abort

-----------------------------------------------------------------------------
(* Who administers an organization is in it, and it is open. *)
LEMMA Administrator ==
  ASSUME Inv, NEW r \in Request, Administers(r)
  PROVE  /\ r \in DOMAIN requests /\ requests[r].at = "work"
         /\ requests[r] \in RequestRow
         /\ requests[r].user \in User /\ requests[r].tenant \in Tenant
         /\ requests[r].enabled
  <1>1. /\ r \in DOMAIN requests /\ requests[r].at = "work"
        /\ requests[r].tenant \in open
    BY DEF Administers, At, Active
  <1>2. requests[r].tenant \in Tenant
    BY <1>1 DEF Inv, TypeOK
  <1>3. QED
    BY <1>1, <1>2, RequestTypes, NoneAssumption DEF Sound

LEMMA EditSettingsInv ==
  ASSUME Inv, NEW r \in Request, EditSettings(r)
  PROVE  Inv'
  <1> DEFINE row == [requests[r] EXCEPT !.at = "settings"]
  <1>1. /\ Administers(r) /\ requests' = Put(requests, r, row)
        /\ UNCHANGED <<open, members, sessions, units, reports, projects, chosen, moved>>
    BY DEF EditSettings
  <1>2. /\ r \in DOMAIN requests /\ requests[r].at = "work"
        /\ requests[r] \in RequestRow
        /\ requests[r].user \in User /\ requests[r].tenant \in Tenant
        /\ requests[r].enabled
        /\ Sound(requests[r], members, open, units, moved)
    BY <1>1, Administrator, RequestTypes
  <1>3. /\ row \in RequestRow
        /\ row.at = "settings" /\ row.user = requests[r].user
        /\ row.tenant = requests[r].tenant /\ row.enabled = requests[r].enabled
        /\ row.kept = requests[r].kept /\ row.modified = requests[r].modified
    BY <1>2 DEF RequestRow
  <1> HIDE DEF row
  <1>4. Sound(row, members, open, units, moved)
    BY <1>2, <1>3 DEF Sound
  <1>5. SavesNoMore
    BY <1>1, <1>2, <1>3, PutSavesNoMore
  <1>6. QED
    BY <1>1, <1>3, <1>4, <1>5, Advance

LEMMA EditUnitInv ==
  ASSUME Inv, NEW r \in Request, NEW unit \in Unit \cup {None}, NEW enabled \in BOOLEAN,
         EditUnit(r, unit, enabled)
  PROVE  Inv'
  <1> DEFINE row == [requests[r] EXCEPT !.at = "unit", !.unit = unit, !.enabled = enabled]
  <1>1. /\ Administers(r) /\ requests' = Put(requests, r, row)
        /\ unit \in Found(r) \cup {None}
        /\ UNCHANGED <<open, members, sessions, units, reports, projects, chosen, moved>>
    BY DEF EditUnit
  <1>2. /\ r \in DOMAIN requests /\ requests[r].at = "work"
        /\ requests[r] \in RequestRow
        /\ requests[r].user \in User /\ requests[r].tenant \in Tenant
        /\ Sound(requests[r], members, open, units, moved)
    BY <1>1, Administrator, RequestTypes
  <1>3. /\ row \in RequestRow
        /\ row.at = "unit" /\ row.user = requests[r].user /\ row.unit = unit
        /\ row.tenant = requests[r].tenant
        /\ row.kept = requests[r].kept /\ row.modified = requests[r].modified
    BY <1>2 DEF RequestRow
  <1> HIDE DEF row
  <1>4. unit # None => unit \in DOMAIN units /\ units[unit].tenant = requests[r].tenant
    BY <1>1 DEF Found
  <1>5. Sound(row, members, open, units, moved)
    BY <1>2, <1>3, <1>4 DEF Sound
  <1>6. SavesNoMore
    BY <1>1, <1>2, <1>3, PutSavesNoMore
  <1>7. QED
    BY <1>1, <1>3, <1>5, <1>6, Advance

(* The fallback of the project form finds an active membership as well. *)
LEMMA StartProjectInv ==
  ASSUME Inv, NEW r \in Request, NEW t \in Tenant \cup {None}, StartProject(r, t)
  PROVE  Inv'
  <1> DEFINE row == [requests[r] EXCEPT !.at = "project", !.tenant = t]
  <1>1. /\ r \in DOMAIN requests /\ requests[r].at = "work"
        /\ requests' = Put(requests, r, row)
        /\ t \in IF requests[r].tenant = None THEN Mine(requests[r].user)
                                              ELSE {requests[r].tenant}
        /\ UNCHANGED <<open, members, sessions, units, reports, projects, chosen, moved>>
    BY DEF StartProject, At
  <1>2. /\ requests[r] \in RequestRow /\ requests[r].user \in User
        /\ Sound(requests[r], members, open, units, moved)
    BY <1>1, RequestTypes DEF Sound
  <1>3. /\ row \in RequestRow
        /\ row.at = "project" /\ row.user = requests[r].user /\ row.tenant = t
        /\ row.kept = requests[r].kept /\ row.modified = requests[r].modified
    BY <1>2 DEF RequestRow
  <1> HIDE DEF row
  <1>4. /\ t \in Tenant
        /\ row.kept => t \in open /\ <<t, requests[r].user>> \in members
    <2>1. CASE requests[r].tenant = None
      BY <1>1, <2>1 DEF Mine, Active
    <2>2. CASE requests[r].tenant # None
      BY <1>1, <1>2, <1>3, <2>2, NoneAssumption DEF Sound
    <2>3. QED
      BY <2>1, <2>2
  <1>5. Sound(row, members, open, units, moved)
    BY <1>2, <1>3, <1>4 DEF Sound
  <1>6. SavesNoMore
    BY <1>1, <1>2, <1>3, PutSavesNoMore
  <1>7. QED
    BY <1>1, <1>3, <1>5, <1>6, Advance

LEMMA OpenReportInv ==
  ASSUME Inv, NEW r \in Request, NEW a \in Area, OpenReport(r, a)
  PROVE  Inv'
  <1> DEFINE row == [at |-> "report", user |-> None, tenant |-> units[a].tenant,
                     session |-> None, modified |-> FALSE, unit |-> a,
                     enabled |-> TRUE, kept |-> TRUE]
  <1>1. /\ a \in OfferedAreas /\ requests' = Put(requests, r, row)
        /\ UNCHANGED <<open, members, sessions, units, reports, projects, chosen, moved>>
    BY DEF OpenReport
  <1>2. a \in DOMAIN units /\ units[a].tenant \in open
    BY <1>1 DEF OfferedAreas
  <1>3. units[a].tenant \in Tenant
    BY <1>2 DEF Inv, TypeOK
  <1>4. /\ row \in RequestRow
        /\ row.at = "report" /\ row.user = None /\ row.tenant = units[a].tenant
        /\ row.modified = FALSE /\ row.unit = a
    BY <1>3 DEF RequestRow, Unit
  <1> HIDE DEF row
  <1>5. Sound(row, members, open, units, moved)
    BY <1>2, <1>3, <1>4 DEF Sound
  <1>6. SavesNoMore
    BY <1>1, <1>4, PutSavesNoMore
  <1>7. QED
    BY <1>1, <1>4, <1>5, <1>6, Advance

-----------------------------------------------------------------------------
(* The stale row of the settings form says that the organization is open:  *)
(* it was read by the middleware, which found it through an active         *)
(* membership.                                                             *)
LEMMA SaveSettingsInv ==
  ASSUME Inv, NEW r \in Request, SaveSettings(r)
  PROVE  Inv' /\ open' = open \cup {requests[r].tenant}
  <1>1. /\ r \in DOMAIN requests /\ requests[r].at = "settings" /\ requests' = Done(r)
        /\ UNCHANGED <<members, sessions, units, reports, projects, chosen, moved>>
    BY DEF SaveSettings, At
  <1>2. requests[r].tenant \in Tenant /\ requests[r].enabled
    BY <1>1, RequestTypes, NoneAssumption DEF Sound
  <1>3. open' = open \cup {requests[r].tenant}
    BY <1>2 DEF SaveSettings
  <1>4. Grow
    BY <1>1, <1>3 DEF Grow
  <1>5. Requests' /\ SavesNoMore
    BY <1>1, <1>4, DoneRequest, DoneSavesNoMore
  <1>6. TypeOK' /\ SoundRequests'
    BY <1>1, <1>2, <1>3, <1>5 DEF Inv, TypeOK, Requests
  <1>7. ReportsRouted' /\ ChosenStays'
    BY <1>1, <1>4, <1>5, ChosenKept DEF Inv, ReportsRouted
  <1>8. QED
    BY <1>3, <1>6, <1>7 DEF Inv

(* A unit that is saved for another organization is recorded as moved. *)
LEMMA RowSaved ==
  ASSUME Inv, NEW unit \in Unit, NEW row \in UnitRow, SaveRow(unit, row),
         UNCHANGED <<open, members>>
  PROVE  /\ Grow
         /\ IsTable(units', Unit, UnitRow)
         /\ moved' \subseteq moved \cup {unit}
         /\ unit \in DOMAIN units /\ units[unit].tenant = row.tenant => moved' = moved
         /\ unit \notin DOMAIN units => moved' = moved
         /\ DOMAIN units' = DOMAIN units \cup {unit}
         /\ units'[unit] = row
         /\ \A x \in DOMAIN units : x # unit => units'[x] = units[x]
  <1>1. /\ DOMAIN units' = DOMAIN units \cup {unit}
        /\ units'[unit] = row
        /\ \A x \in DOMAIN units : x # unit => units'[x] = units[x]
    BY DEF SaveRow, Put
  <1>2. IsTable(units', Unit, UnitRow)
    BY DEF SaveRow, Put, Inv, TypeOK, IsTable
  <1>3. /\ moved \subseteq moved' /\ moved' \subseteq moved \cup {unit}
        /\ unit \in DOMAIN units /\ units[unit].tenant = row.tenant => moved' = moved
        /\ unit \notin DOMAIN units => moved' = moved
        /\ unit \in DOMAIN units => units[unit].tenant = row.tenant \/ unit \in moved'
    BY DEF SaveRow
  <1>4. Grow
    BY <1>1, <1>3 DEF Grow
  <1>5. QED
    BY <1>1, <1>2, <1>3, <1>4

(* A manager's stale save moves a unit only if the platform moved it before. *)
LEMMA SaveUnitRow ==
  ASSUME Inv, NEW r \in Request, NEW unit \in Unit, SaveUnit(r, unit)
  PROVE  /\ r \in DOMAIN requests /\ requests[r].at = "unit"
         /\ requests[r].tenant \in Tenant
         /\ [tenant |-> requests[r].tenant, enabled |-> requests[r].enabled] \in UnitRow
         /\ moved' = moved
         /\ \/ unit \notin DOMAIN units
            \/ units[unit].tenant = requests[r].tenant \/ unit \in moved
  <1> DEFINE row == [tenant |-> requests[r].tenant, enabled |-> requests[r].enabled]
  <1>1. /\ r \in DOMAIN requests /\ requests[r].at = "unit"
        /\ SaveRow(unit, row)
        /\ IF requests[r].unit = None THEN unit \notin DOMAIN units
                                      ELSE unit = requests[r].unit
    BY DEF SaveUnit, At
  <1>2. /\ requests[r] \in RequestRow /\ requests[r].tenant \in Tenant
        /\ requests[r].unit # None => \/ units[requests[r].unit].tenant = requests[r].tenant
                                      \/ requests[r].unit \in moved
    BY <1>1, RequestTypes DEF Sound
  <1>3. row \in UnitRow /\ row.tenant = requests[r].tenant
    BY <1>2 DEF UnitRow, RequestRow
  <1> HIDE DEF row
  <1>4. unit \notin DOMAIN units \/ units[unit].tenant = requests[r].tenant \/ unit \in moved
    BY <1>1, <1>2
  <1>5. moved' = moved
    BY <1>1, <1>3, <1>4 DEF SaveRow
  <1>6. QED
    BY <1>1, <1>2, <1>3, <1>4, <1>5 DEF row

LEMMA SaveUnitInv ==
  ASSUME Inv, NEW r \in Request, NEW unit \in Unit, SaveUnit(r, unit)
  PROVE  Inv'
  <1> DEFINE row == [tenant |-> requests[r].tenant, enabled |-> requests[r].enabled]
  <1>1. /\ r \in DOMAIN requests /\ requests[r].at = "unit" /\ row \in UnitRow
        /\ moved' = moved
    BY SaveUnitRow
  <1>2. /\ SaveRow(unit, row) /\ requests' = Done(r)
        /\ UNCHANGED <<open, members, sessions, reports, projects, chosen>>
    BY DEF SaveUnit
  <1> HIDE DEF row
  <1>3. Grow /\ IsTable(units', Unit, UnitRow)
    BY <1>1, <1>2, RowSaved
  <1>4. Requests' /\ SavesNoMore
    BY <1>1, <1>2, <1>3, DoneRequest, DoneSavesNoMore
  <1>5. TypeOK' /\ SoundRequests'
    BY <1>1, <1>2, <1>3, <1>4 DEF Inv, TypeOK, Requests
  <1>6. ReportsRouted' /\ ChosenStays'
    BY <1>2, <1>3, <1>4, <1>5, ReportsKept, ChosenKept DEF TypeOK
  <1>7. QED
    BY <1>5, <1>6 DEF Inv

LEMMA SaveAreaInv ==
  ASSUME Inv, NEW a \in Area, NEW row \in UnitRow, SaveArea(a, row)
  PROVE  Inv'
  <1>1. /\ SaveRow(a, row)
        /\ UNCHANGED <<open, members, sessions, reports, projects, requests, chosen>>
    BY DEF SaveArea
  <1>2. a \in Unit
    BY DEF Unit
  <1>3. Grow /\ IsTable(units', Unit, UnitRow) /\ moved' \subseteq moved \cup {a}
    BY <1>1, <1>2, RowSaved
  <1>4. SavesNoMore
    BY <1>1 DEF SavesNoMore
  <1>5. SoundRequests'
    <2>1. ASSUME NEW r \in DOMAIN requests
          PROVE  Sound(requests[r], members', open', units', moved')
      BY <1>3, RequestTypes, SoundGrows
    <2>2. QED
      BY <1>1, <2>1 DEF SoundRequests
  <1>6. TypeOK'
    BY <1>1, <1>3 DEF Inv, TypeOK
  <1>7. ReportsRouted' /\ ChosenStays'
    BY <1>1, <1>3, <1>4, <1>6, ReportsKept, ChosenKept DEF TypeOK
  <1>8. QED
    BY <1>5, <1>6, <1>7 DEF Inv

-----------------------------------------------------------------------------
LEMMA InsertProjectInv ==
  ASSUME Inv, NEW r \in Request, InsertProject(r)
  PROVE  Inv'
  <1>1. /\ r \in DOMAIN requests /\ requests[r].at = "project" /\ requests' = Done(r)
        /\ projects' = projects \cup {<<requests[r].tenant, requests[r].user>>}
        /\ UNCHANGED <<open, members, sessions, units, reports, chosen, moved>>
    BY DEF InsertProject, At
  <1>2. requests[r].tenant \in Tenant /\ requests[r].user \in User
    BY <1>1, RequestTypes DEF Sound
  <1>3. Grow
    BY <1>1 DEF Grow
  <1>4. Requests' /\ SavesNoMore
    BY <1>1, <1>3, DoneRequest, DoneSavesNoMore
  <1>5. TypeOK' /\ SoundRequests'
    BY <1>1, <1>2, <1>4 DEF Inv, TypeOK, Requests, Project
  <1>6. ReportsRouted' /\ ChosenStays'
    BY <1>1, <1>3, <1>4, ChosenKept DEF Inv, ReportsRouted
  <1>7. QED
    BY <1>5, <1>6 DEF Inv

(* The report takes what the form read, which is still so or has moved. *)
LEMMA StoreReportInv ==
  ASSUME Inv, NEW r \in Request, NEW i \in Report, StoreReport(r, i)
  PROVE  Inv'
  <1> DEFINE row == [area |-> requests[r].unit, tenant |-> requests[r].tenant,
                     department |-> None]
  <1>1. /\ r \in DOMAIN requests /\ requests[r].at = "report"
        /\ reports' = Put(reports, i, row)
        /\ requests' = Delete(requests, r)
        /\ UNCHANGED <<open, members, sessions, units, projects, chosen, moved>>
    BY DEF StoreReport, At
  <1>2. /\ requests[r].tenant \in Tenant /\ requests[r].unit \in Area
        /\ requests[r].unit \in DOMAIN units
        /\ \/ units[requests[r].unit].tenant = requests[r].tenant
           \/ requests[r].unit \in moved
    BY <1>1, RequestTypes, NoneAssumption DEF Sound
  <1>3. /\ row \in ReportRow /\ row.area = requests[r].unit
        /\ row.tenant = requests[r].tenant /\ row.department = None
    BY <1>2 DEF ReportRow
  <1> HIDE DEF row
  <1>4. IsTable(reports', Report, ReportRow)
    BY <1>1, <1>3 DEF Inv, TypeOK, IsTable, Put
  <1>5. Grow
    BY <1>1 DEF Grow
  <1>6. Requests' /\ SavesNoMore
    BY <1>1, <1>5, DeleteRequest, DeleteSavesNoMore
  <1>7. TypeOK' /\ SoundRequests'
    BY <1>1, <1>4, <1>6 DEF Inv, TypeOK, Requests
  <1>8. ReportsRouted'
    BY <1>1, <1>2, <1>3 DEF Inv, ReportsRouted, Put
  <1>9. ChosenStays'
    BY <1>1, <1>5, <1>6, ChosenKept
  <1>10. QED
    BY <1>7, <1>8, <1>9 DEF Inv

LEMMA AssignInv ==
  ASSUME Inv, NEW r \in Request, NEW i \in Report, NEW d \in Department \cup {None},
         Assign(r, i, d)
  PROVE  Inv'
  <1>1. /\ r \in DOMAIN requests /\ requests[r].at = "work" /\ requests' = Done(r)
        /\ i \in DOMAIN reports
        /\ d \in OfferedDepartments(reports[i].tenant) \cup {None}
        /\ reports' = [reports EXCEPT ![i].department = d]
        /\ UNCHANGED <<open, members, sessions, units, projects, chosen, moved>>
    BY DEF Assign, At
  <1>2. d # None => d \in DOMAIN units /\ units[d].tenant = reports[i].tenant
    BY <1>1 DEF OfferedDepartments
  <1>3. /\ DOMAIN reports' = DOMAIN reports
        /\ \A j \in DOMAIN reports :
             /\ reports'[j] \in ReportRow
             /\ reports'[j].area = reports[j].area /\ reports'[j].tenant = reports[j].tenant
             /\ reports'[j].department = IF j = i THEN d ELSE reports[j].department
    BY <1>1 DEF Inv, TypeOK, IsTable, ReportRow
  <1>4. IsTable(reports', Report, ReportRow)
    BY <1>1, <1>3 DEF Inv, TypeOK, IsTable
  <1>5. Grow
    BY <1>1 DEF Grow
  <1>6. Requests' /\ SavesNoMore
    BY <1>1, <1>5, DoneRequest, DoneSavesNoMore
  <1>7. TypeOK' /\ SoundRequests'
    BY <1>1, <1>4, <1>6 DEF Inv, TypeOK, Requests
  <1>8. ReportsRouted'
    BY <1>1, <1>2, <1>3 DEF Inv, ReportsRouted
  <1>9. ChosenStays'
    BY <1>1, <1>5, <1>6, ChosenKept
  <1>10. QED
    BY <1>7, <1>8, <1>9 DEF Inv

-----------------------------------------------------------------------------
(* The end of memberships is recorded in the requests and choices that     *)
(* rely on them, and nobody else's membership ends.                        *)
LEMMA LapseInv ==
  ASSUME Inv, NEW lost, Lapse(lost),
         open' \subseteq Tenant, members' \subseteq Tenant \X User,
         \A t \in Tenant, u \in User \cup {None} : <<t, u>> \notin lost =>
            /\ t \in open => t \in open'
            /\ <<t, u>> \in members => <<t, u>> \in members',
         UNCHANGED <<sessions, units, reports, projects, moved>>
  PROVE  Inv'
  <1>1. /\ DOMAIN requests' = DOMAIN requests
        /\ \A r \in DOMAIN requests :
             requests'[r] = [requests[r] EXCEPT
               !.kept = @ /\ <<requests[r].tenant, requests[r].user>> \notin lost]
    BY DEF Lapse
  <1>2. ASSUME NEW r \in DOMAIN requests
        PROVE  /\ requests'[r] \in RequestRow
               /\ requests'[r].at = requests[r].at
               /\ requests'[r].user = requests[r].user
               /\ requests'[r].tenant = requests[r].tenant
               /\ requests'[r].session = requests[r].session
               /\ requests'[r].modified = requests[r].modified
               /\ requests'[r].unit = requests[r].unit
               /\ requests'[r].enabled = requests[r].enabled
               /\ requests'[r].kept <=> /\ requests[r].kept
                                        /\ <<requests[r].tenant, requests[r].user>> \notin lost
    <2> DEFINE kept == requests[r].kept /\ <<requests[r].tenant, requests[r].user>> \notin lost
    <2>1. requests[r] \in RequestRow
      BY RequestTypes
    <2>2. kept \in BOOLEAN /\ requests'[r] = [requests[r] EXCEPT !.kept = kept]
      BY <1>1
    <2> HIDE DEF kept
    <2>3. /\ requests'[r] \in RequestRow
          /\ requests'[r].at = requests[r].at
          /\ requests'[r].user = requests[r].user
          /\ requests'[r].tenant = requests[r].tenant
          /\ requests'[r].session = requests[r].session
          /\ requests'[r].modified = requests[r].modified
          /\ requests'[r].unit = requests[r].unit
          /\ requests'[r].enabled = requests[r].enabled
          /\ requests'[r].kept = kept
      BY <2>1, <2>2 DEF RequestRow
    <2>4. QED
      BY <2>3 DEF kept
  <1>3. IsTable(requests', Request, RequestRow)
    <2>1. DOMAIN requests' \subseteq Request
      BY <1>1, RequestTypes
    <2>2. requests' = [r \in DOMAIN requests' |-> requests'[r]]
      BY DEF Lapse
    <2>3. QED
      BY <1>1, <1>2, <2>1, <2>2 DEF IsTable
  <1>4. ASSUME NEW r \in DOMAIN requests'
        PROVE  Sound(requests'[r], members', open', units', moved')
    <2>1. r \in DOMAIN requests /\ requests[r] \in RequestRow
      BY <1>1, <1>4, RequestTypes
    <2>2. Sound(requests[r], members, open, units, moved)
      BY <2>1, RequestTypes
    <2>3. requests'[r].tenant # None /\ requests'[r].kept =>
            /\ requests'[r].tenant \in open'
            /\ requests'[r].user # None =>
                 <<requests'[r].tenant, requests'[r].user>> \in members'
      <3>1. SUFFICES ASSUME requests'[r].tenant # None, requests'[r].kept
                     PROVE  /\ requests[r].tenant \in open'
                            /\ requests[r].user # None =>
                                 <<requests[r].tenant, requests[r].user>> \in members'
        BY <1>2, <2>1
      <3>2. /\ requests[r].tenant # None /\ requests[r].kept
            /\ <<requests[r].tenant, requests[r].user>> \notin lost
        BY <1>2, <2>1, <3>1
      <3>3. requests[r].tenant \in Tenant /\ requests[r].user \in User \cup {None}
        BY <2>1, <3>2 DEF RequestRow
      <3>4. /\ requests[r].tenant \in open
            /\ requests[r].user # None => <<requests[r].tenant, requests[r].user>> \in members
        BY <2>2, <3>2 DEF Sound
      <3>5. QED
        BY <3>2, <3>3, <3>4
    <2>4. QED
      BY <1>2, <2>1, <2>2, <2>3 DEF Sound
  <1>5. chosen' = [u \in User |-> IF <<chosen[u], u>> \in lost THEN None ELSE chosen[u]]
    BY DEF Lapse
  <1>6. chosen' \in [User -> Tenant \cup {None}]
    BY <1>5 DEF Inv, TypeOK
  <1>7. TypeOK' /\ SoundRequests' /\ ReportsRouted'
    BY <1>3, <1>4, <1>6 DEF Inv, TypeOK, SoundRequests, ReportsRouted
  <1>8. ChosenStays'
    <2> SUFFICES ASSUME NEW u \in User, chosen'[u] # None
                 PROVE  /\ sessions'[u] = chosen'[u]
                        /\ chosen'[u] \in open' /\ <<chosen'[u], u>> \in members'
                        /\ \A r \in DOMAIN requests' :
                             requests'[r].user = u /\ requests'[r].at # "switched" =>
                               ~requests'[r].modified
      BY DEF ChosenStays
    <2>1. chosen'[u] = chosen[u] /\ chosen[u] # None /\ <<chosen[u], u>> \notin lost
      BY <1>5
    <2>2. chosen[u] \in Tenant
      BY <2>1 DEF Inv, TypeOK
    <2>3. /\ sessions[u] = chosen[u] /\ chosen[u] \in open /\ <<chosen[u], u>> \in members
          /\ \A r \in DOMAIN requests :
               requests[r].user = u /\ requests[r].at # "switched" => ~requests[r].modified
      BY <2>1 DEF Inv, ChosenStays
    <2>4. chosen[u] \in open' /\ <<chosen[u], u>> \in members'
      BY <2>1, <2>2, <2>3
    <2>5. QED
      BY <1>1, <1>2, <2>1, <2>3, <2>4
  <1>9. QED
    BY <1>7, <1>8 DEF Inv

(* Steps that only add a membership or open an organization. *)
LEMMA GainInv ==
  ASSUME Inv, open \subseteq open', members \subseteq members',
         open' \subseteq Tenant, members' \subseteq Tenant \X User,
         UNCHANGED <<sessions, units, reports, projects, requests, chosen, moved>>
  PROVE  Inv'
  <1>1. Grow /\ SavesNoMore
    BY DEF Grow, SavesNoMore
  <1>2. TypeOK' /\ ReportsRouted' /\ ChosenStays'
    BY <1>1, ChosenKept DEF Inv, TypeOK, ReportsRouted
  <1>3. ASSUME NEW r \in DOMAIN requests
        PROVE  Sound(requests[r], members', open', units', moved')
    BY <1>1, RequestTypes, SoundGrows
  <1>4. SoundRequests'
    BY <1>3 DEF SoundRequests
  <1>5. QED
    BY <1>2, <1>4 DEF Inv

LEMMA SetMemberInv ==
  ASSUME Inv, NEW m \in Tenant \X User, SetMember(m)
  PROVE  Inv'
  <1>1. UNCHANGED <<open, sessions, units, reports, projects, moved>>
    BY DEF SetMember
  <1>2. open \subseteq Tenant /\ members \subseteq Tenant \X User
    BY DEF Inv, TypeOK
  <1>3. CASE members' = members \cup {m} /\ UNCHANGED <<requests, chosen>>
    BY <1>1, <1>2, <1>3, GainInv
  <1>4. CASE members' = members \ {m} /\ Lapse({m})
    BY <1>1, <1>2, <1>4, LapseInv
  <1>5. QED
    BY <1>3, <1>4 DEF SetMember

LEMMA SaveTenantInv ==
  ASSUME Inv, NEW t \in Tenant, SaveTenant(t)
  PROVE  Inv'
  <1>1. UNCHANGED <<members, sessions, units, reports, projects, moved>>
    BY DEF SaveTenant
  <1>2. open \subseteq Tenant /\ members \subseteq Tenant \X User
    BY DEF Inv, TypeOK
  <1>3. CASE open' = open \cup {t} /\ UNCHANGED <<requests, chosen>>
    BY <1>1, <1>2, <1>3, GainInv
  <1>4. CASE open' = open \ {t} /\ Lapse({t} \X (User \cup {None}))
    BY <1>1, <1>2, <1>4, LapseInv
  <1>5. QED
    BY <1>3, <1>4 DEF SaveTenant

-----------------------------------------------------------------------------
(* A choice that becomes one a user can rely on was the last request of    *)
(* the user, so no other will save the session afterwards.                 *)
LEMMA ReplyInv ==
  ASSUME Inv, NEW r \in Request, Reply(r)
  PROVE  Inv'
  <1> DEFINE u == requests[r].user
             last == \A q \in DOMAIN requests \ {r} : requests[q].user # u
  <1>1. /\ r \in DOMAIN requests /\ requests[r].at \in {"work", "switched", "done"}
        /\ sessions' = IF requests[r].modified
                       THEN [sessions EXCEPT ![u] = requests[r].session] ELSE sessions
        /\ chosen' = IF requests[r].at = "switched"
                     THEN [chosen EXCEPT ![u] = IF last /\ requests[r].kept
                                                THEN requests[r].tenant ELSE None]
                     ELSE chosen
        /\ requests' = Delete(requests, r)
        /\ UNCHANGED <<open, members, units, reports, projects, moved>>
    BY DEF Reply
  <1>2. /\ requests[r] \in RequestRow /\ u \in User
        /\ Sound(requests[r], members, open, units, moved)
    BY <1>1, RequestTypes DEF Sound
  <1>3. Grow
    BY <1>1 DEF Grow
  <1>4. Requests'
    BY <1>1, <1>3, DeleteRequest
  <1>5. sessions \in [User -> Tenant \cup {None}] /\ chosen \in [User -> Tenant \cup {None}]
    BY DEF Inv, TypeOK
  <1>6. requests[r].session \in Tenant \cup {None} /\ requests[r].tenant \in Tenant \cup {None}
    BY <1>2 DEF RequestRow
  <1>7. /\ DOMAIN requests' = DOMAIN requests \ {r}
        /\ \A q \in DOMAIN requests' : requests'[q] = requests[q]
    BY <1>1 DEF Delete
  <1>8. requests[r].at = "switched" =>
          /\ requests[r].modified /\ requests[r].session = requests[r].tenant
          /\ requests[r].kept /\ requests[r].tenant # None =>
               requests[r].tenant \in open /\ <<requests[r].tenant, u>> \in members
    BY <1>2, NoneAssumption DEF Sound
  <1> HIDE DEF u
  <1>9. /\ sessions' \in [User -> Tenant \cup {None}]
        /\ chosen' \in [User -> Tenant \cup {None}]
    BY <1>1, <1>5, <1>6
  <1>10. TypeOK' /\ SoundRequests' /\ ReportsRouted'
    BY <1>1, <1>4, <1>9 DEF Inv, TypeOK, Requests, ReportsRouted
  <1>11. ASSUME NEW v \in User, chosen'[v] # None
         PROVE  /\ sessions'[v] = chosen'[v]
                /\ chosen'[v] \in open' /\ <<chosen'[v], v>> \in members'
                /\ \A q \in DOMAIN requests' :
                     requests'[q].user = v /\ requests'[q].at # "switched" =>
                       ~requests'[q].modified
    <2>1. CASE requests[r].at = "switched" /\ v = u
      <3>1. last /\ requests[r].kept /\ chosen'[v] = requests[r].tenant
        BY <1>1, <1>2, <1>5, <1>11, <2>1
      <3>2. sessions'[v] = requests[r].tenant
        BY <1>1, <1>2, <1>5, <1>8, <2>1
      <3>3. requests[r].tenant \in open /\ <<requests[r].tenant, u>> \in members
        BY <1>8, <1>11, <2>1, <3>1
      <3>4. \A q \in DOMAIN requests' : requests'[q].user # v
        BY <1>7, <2>1, <3>1
      <3>5. QED
        BY <1>1, <2>1, <3>1, <3>2, <3>3, <3>4
    <2>2. CASE ~(requests[r].at = "switched" /\ v = u)
      <3>1. chosen'[v] = chosen[v]
        BY <1>1, <1>5, <2>2
      <3>2. /\ sessions[v] = chosen[v]
            /\ chosen[v] \in open /\ <<chosen[v], v>> \in members
            /\ \A q \in DOMAIN requests :
                 requests[q].user = v /\ requests[q].at # "switched" => ~requests[q].modified
        BY <1>11, <3>1 DEF Inv, ChosenStays
      <3>3. v = u => ~requests[r].modified
        BY <1>1, <2>2, <3>2 DEF u
      <3>4. sessions'[v] = sessions[v]
        BY <1>1, <1>5, <3>3
      <3>5. QED
        BY <1>1, <1>7, <3>1, <3>2, <3>4
    <2>3. QED
      BY <2>1, <2>2
  <1>12. ChosenStays'
    BY <1>11 DEF ChosenStays
  <1>13. QED
    BY <1>10, <1>12 DEF Inv

-----------------------------------------------------------------------------
LEMMA InitInv == Init => Inv
  <1> SUFFICES ASSUME Init PROVE Inv
    OBVIOUS
  <1>1. TypeOK
    BY DEF Init, TypeOK, Empty, IsTable
  <1>2. SoundRequests /\ ReportsRouted /\ ChosenStays
    BY DEF Init, Empty, SoundRequests, ReportsRouted, ChosenStays
  <1>3. QED
    BY <1>1, <1>2 DEF Inv

LEMMA NextInv == Inv /\ [Next]_vars => Inv'
  <1> SUFFICES ASSUME Inv, [Next]_vars
               PROVE  Inv'
    OBVIOUS
  <1>1. ASSUME NEW r \in Request,
               \/ EditSettings(r) \/ SaveSettings(r) \/ InsertProject(r)
               \/ Reply(r) \/ Abort(r)
        PROVE  Inv'
    BY <1>1, EditSettingsInv, SaveSettingsInv, InsertProjectInv, ReplyInv, AbortInv
  <1>2. CASE UNCHANGED vars
    <2>1. UNCHANGED <<open, members, sessions, units, reports, projects, requests, chosen, moved>>
      BY <1>2 DEF vars
    <2>2. open \subseteq Tenant /\ members \subseteq Tenant \X User
      BY DEF Inv, TypeOK
    <2>3. QED
      BY <2>1, <2>2, GainInv
  <1>3. QED
    BY <1>1, <1>2, SetMemberInv, SaveTenantInv, SaveAreaInv, BeginInv, SwitchInv,
       StartProjectInv, EditUnitInv, SaveUnitInv, OpenReportInv, StoreReportInv, AssignInv
       DEF Next

LEMMA InvHolds == Spec => []Inv
  BY InitInv, NextInv, PTL DEF Spec

(* The tables and the running requests are always well typed. *)
THEOREM TypeCorrect == Spec => []TypeOK
  <1>1. Inv => TypeOK
    BY DEF Inv
  <1>2. QED
    BY <1>1, InvHolds, PTL

(* A request works only in an organization of which its user is an active  *)
(* member, or was when the request found out, whatever the session says.   *)
THEOREM MembersOnly == Spec => []WorksForMembers
  <1>1. Inv => WorksForMembers
    BY DEF Inv, SoundRequests, Sound, WorksForMembers
  <1>2. QED
    BY <1>1, InvHolds, PTL

(* A switch that no other request of the user ran beside is in force until *)
(* the next switch or the end of the membership.                           *)
THEOREM SwitchesLast == Spec => []SwitchSticks
  <1>1. Inv => SwitchSticks
    BY DEF Inv, ChosenStays, SwitchSticks
  <1>2. QED
    BY <1>1, InvHolds, PTL

(* Reports, their areas and departments stay within one organization, but  *)
(* for the areas that were moved.                                          *)
THEOREM ReportsStayWithin == Spec => []RoutedWithin
  <1>1. Inv => RoutedWithin
    BY DEF Inv, ReportsRouted, RoutedWithin
  <1>2. QED
    BY <1>1, InvHolds, PTL

-----------------------------------------------------------------------------
(* What SuspensionSticks says of a step and an organization that is not    *)
(* open.                                                                   *)
Explained(t) ==
  /\ t \in open' =>
       \/ SaveTenant(t)
       \/ \E r \in Request : SaveSettings(r) /\ Overtaken(r, t)
  /\ Holdings(t)' # Holdings(t) =>
       \/ \E a \in Area, row \in UnitRow : SaveArea(a, row)
       \/ \E r \in Request : Writes(r) /\ Overtaken(r, t)
       \/ \E r \in Request, a \in Area : TakesBack(r, a, t)

LEMMA HoldingsKept ==
  ASSUME NEW t, UNCHANGED <<units, projects, reports>>
  PROVE  Holdings(t)' = Holdings(t)
  BY DEF Holdings

(* A request for an organization that is not open was overtaken. *)
LEMMA OvertakenRequest ==
  ASSUME Inv, NEW t \in Tenant \ open, NEW r \in DOMAIN requests, requests[r].tenant = t
  PROVE  Overtaken(r, t)
  <1>1. ~requests[r].kept
    BY RequestTypes, NoneAssumption DEF Sound
  <1>2. QED
    BY <1>1 DEF Overtaken

(* So its writes are explained, and writes of others leave t alone. *)
LEMMA WriteExplained ==
  ASSUME Inv, NEW t \in Tenant \ open, NEW r \in Request, r \in DOMAIN requests, Writes(r),
         open' = open, requests[r].tenant # t => Holdings(t)' = Holdings(t)
  PROVE  Explained(t)
  <1>1. requests[r].tenant = t => Overtaken(r, t)
    BY OvertakenRequest
  <1>2. QED
    BY <1>1 DEF Explained

(* A save of a unit that is not one of t's, for another organization,      *)
(* leaves t alone.                                                         *)
LEMMA SaveUnitElsewhere ==
  ASSUME Inv, NEW r \in Request, NEW unit \in Unit, SaveUnit(r, unit),
         NEW t, requests[r].tenant # t,
         unit \in DOMAIN units => units[unit].tenant # t
  PROVE  Holdings(t)' = Holdings(t)
  <1> DEFINE row == [tenant |-> requests[r].tenant, enabled |-> requests[r].enabled]
             its == {x \in DOMAIN units : units[x].tenant = t}
  <1>1. row \in UnitRow /\ row.tenant = requests[r].tenant
    BY SaveUnitRow
  <1>2. SaveRow(unit, row) /\ UNCHANGED <<open, members, projects, reports>>
    BY DEF SaveUnit
  <1> HIDE DEF row
  <1>3. /\ DOMAIN units' = DOMAIN units \cup {unit}
        /\ units'[unit] = row
        /\ \A x \in DOMAIN units : x # unit => units'[x] = units[x]
    BY <1>1, <1>2, RowSaved
  <1>4. {x \in DOMAIN units' : units'[x].tenant = t} = its
    BY <1>1, <1>3
  <1>5. \A x \in its : units'[x] = units[x]
    BY <1>1, <1>3
  <1>6. {<<x, units'[x].enabled>> : x \in {x \in DOMAIN units' : units'[x].tenant = t}}
          = {<<x, units[x].enabled>> : x \in its}
    BY <1>4, <1>5
  <1>7. QED
    BY <1>2, <1>6 DEF Holdings

LEMMA SaveUnitExplained ==
  ASSUME Inv, NEW t \in Tenant \ open, NEW r \in Request, NEW unit \in Unit, SaveUnit(r, unit)
  PROVE  Explained(t)
  <1>1. r \in DOMAIN requests /\ open' = open /\ Writes(r)
    BY DEF SaveUnit, At, Writes
  <1>2. CASE requests[r].tenant = t \/ (unit \in DOMAIN units => units[unit].tenant # t)
    BY <1>1, <1>2, SaveUnitElsewhere, WriteExplained
  <1>3. CASE requests[r].tenant # t /\ unit \in DOMAIN units /\ units[unit].tenant = t
    <2>1. unit \in moved
      BY <1>3, SaveUnitRow
    <2>2. unit \in Area
      BY <2>1 DEF Inv, TypeOK
    <2>3. TakesBack(r, unit, t)
      BY <1>3, <2>1 DEF TakesBack
    <2>4. QED
      BY <1>1, <2>2, <2>3 DEF Explained
  <1>4. QED
    BY <1>2, <1>3

LEMMA InsertProjectExplained ==
  ASSUME Inv, NEW t \in Tenant \ open, NEW r \in Request, InsertProject(r)
  PROVE  Explained(t)
  <1>1. /\ r \in DOMAIN requests /\ Writes(r)
        /\ projects' = projects \cup {<<requests[r].tenant, requests[r].user>>}
        /\ UNCHANGED <<open, units, reports>>
    BY DEF InsertProject, At, Writes
  <1>2. ASSUME requests[r].tenant # t PROVE Holdings(t)' = Holdings(t)
    <2>1. {p \in projects' : p[1] = t} = {p \in projects : p[1] = t}
      BY <1>1, <1>2
    <2>2. QED
      BY <1>1, <2>1 DEF Holdings
  <1>3. QED
    BY <1>1, <1>2, WriteExplained

LEMMA StoreReportExplained ==
  ASSUME Inv, NEW t \in Tenant \ open, NEW r \in Request, NEW i \in Report, StoreReport(r, i)
  PROVE  Explained(t)
  <1> DEFINE row == [area |-> requests[r].unit, tenant |-> requests[r].tenant,
                     department |-> None]
  <1>1. /\ r \in DOMAIN requests /\ Writes(r)
        /\ i \notin DOMAIN reports /\ reports' = Put(reports, i, row)
        /\ UNCHANGED <<open, units, projects>>
    BY DEF StoreReport, At, Writes
  <1>2. row.tenant = requests[r].tenant
    OBVIOUS
  <1> HIDE DEF row
  <1>3. ASSUME requests[r].tenant # t PROVE Holdings(t)' = Holdings(t)
    <2>1. /\ {j \in DOMAIN reports' : reports'[j].tenant = t}
               = {j \in DOMAIN reports : reports[j].tenant = t}
          /\ \A j \in DOMAIN reports : reports'[j] = reports[j]
      BY <1>1, <1>2, <1>3 DEF Put
    <2>2. {<<j, reports'[j].department>> : j \in {j \in DOMAIN reports' : reports'[j].tenant = t}}
            = {<<j, reports[j].department>> : j \in {j \in DOMAIN reports : reports[j].tenant = t}}
      BY <2>1
    <2>3. QED
      BY <1>1, <2>2 DEF Holdings
  <1>4. QED
    BY <1>1, <1>3, WriteExplained

LEMMA AssignExplained ==
  ASSUME Inv, NEW t \in Tenant \ open, NEW r \in Request, NEW i \in Report,
         NEW d \in Department \cup {None}, Assign(r, i, d)
  PROVE  Explained(t)
  <1>1. /\ r \in DOMAIN requests /\ Writes(r)
        /\ i \in DOMAIN reports /\ reports[i].tenant = requests[r].tenant
        /\ reports' = [reports EXCEPT ![i].department = d]
        /\ UNCHANGED <<open, units, projects>>
    BY DEF Assign, At, Writes
  <1>2. ASSUME requests[r].tenant # t PROVE Holdings(t)' = Holdings(t)
    <2>1. /\ DOMAIN reports' = DOMAIN reports
          /\ \A j \in DOMAIN reports : j # i => reports'[j] = reports[j]
          /\ reports'[i].tenant = reports[i].tenant
      BY <1>1 DEF Inv, TypeOK, IsTable, ReportRow
    <2>2. /\ {j \in DOMAIN reports' : reports'[j].tenant = t}
               = {j \in DOMAIN reports : reports[j].tenant = t}
          /\ \A j \in DOMAIN reports : reports[j].tenant = t => reports'[j] = reports[j]
      BY <1>1, <1>2, <2>1
    <2>3. {<<j, reports'[j].department>> : j \in {j \in DOMAIN reports' : reports'[j].tenant = t}}
            = {<<j, reports[j].department>> : j \in {j \in DOMAIN reports : reports[j].tenant = t}}
      BY <2>2
    <2>4. QED
      BY <1>1, <2>3 DEF Holdings
  <1>3. QED
    BY <1>1, <1>2, WriteExplained

LEMMA SaveSettingsExplained ==
  ASSUME Inv, NEW t \in Tenant \ open, NEW r \in Request, SaveSettings(r)
  PROVE  Explained(t)
  <1>1. r \in DOMAIN requests /\ UNCHANGED <<units, projects, reports>>
    BY DEF SaveSettings, At
  <1>2. open' = open \cup {requests[r].tenant}
    BY SaveSettingsInv
  <1>3. requests[r].tenant = t => Overtaken(r, t)
    BY <1>1, OvertakenRequest
  <1>4. QED
    BY <1>1, <1>2, <1>3, HoldingsKept DEF Explained

LEMMA StepExplained ==
  ASSUME Inv, [Next]_vars, NEW t \in Tenant \ open
  PROVE  Explained(t)
  <1>1. UNCHANGED <<open, units, projects, reports>> => Explained(t)
    BY HoldingsKept DEF Explained
  <1>2. ASSUME NEW s \in Tenant, SaveTenant(s)
        PROVE  Explained(t)
    <2>1. UNCHANGED <<units, projects, reports>>
      BY <1>2 DEF SaveTenant
    <2>2. t \in open' => s = t
      BY <1>2 DEF SaveTenant
    <2>3. QED
      BY <1>2, <2>1, <2>2, HoldingsKept DEF Explained
  <1>3. ASSUME NEW a \in Area, NEW row \in UnitRow, SaveArea(a, row)
        PROVE  Explained(t)
    <2>1. open' = open
      BY <1>3 DEF SaveArea
    <2>2. QED
      BY <1>3, <2>1 DEF Explained
  <1>4. ASSUME NEW r \in Request, EditSettings(r) \/ Reply(r) \/ Abort(r)
        PROVE  Explained(t)
    BY <1>1, <1>4 DEF EditSettings, Reply, Abort
  <1>5. ASSUME NEW r \in Request, NEW u \in User, NEW s \in Tenant \cup {None}, Begin(r, u, s)
        PROVE  Explained(t)
    BY <1>1, <1>5 DEF Begin
  <1>6. ASSUME NEW r \in Request, NEW s \in Tenant \cup {None}, Switch(r, s) \/ StartProject(r, s)
        PROVE  Explained(t)
    BY <1>1, <1>6 DEF Switch, StartProject
  <1>7. ASSUME NEW r \in Request, NEW unit \in Unit \cup {None}, NEW enabled \in BOOLEAN,
               EditUnit(r, unit, enabled)
        PROVE  Explained(t)
    BY <1>1, <1>7 DEF EditUnit
  <1>8. ASSUME NEW r \in Request, NEW a \in Area, OpenReport(r, a)
        PROVE  Explained(t)
    BY <1>1, <1>8 DEF OpenReport
  <1>9. ASSUME NEW m \in Tenant \X User, SetMember(m)
        PROVE  Explained(t)
    BY <1>1, <1>9 DEF SetMember
  <1>10. CASE UNCHANGED vars
    BY <1>1, <1>10 DEF vars
  <1>11. QED
    BY <1>2, <1>3, <1>4, <1>5, <1>6, <1>7, <1>8, <1>9, <1>10, SaveSettingsExplained,
       SaveUnitExplained, InsertProjectExplained, StoreReportExplained, AssignExplained
       DEF Next

(* A suspended organization is opened by the platform or by a settings     *)
(* form that the suspension overtook.  What it holds is changed by the     *)
(* platform's form of an area, by a request that the suspension overtook,  *)
(* and by the organization that takes a given area back (admin_views.py).  *)
THEOREM SuspendedLeftAlone == Spec => SuspensionSticks
  <1>1. Inv /\ [Next]_vars => [\A t \in Tenant \ open : Explained(t)]_vars
    BY StepExplained
  <1>2. Inv /\ [Next]_vars =>
          [\A t \in Tenant \ open :
             /\ t \in open' =>
                  \/ SaveTenant(t)
                  \/ \E r \in Request : SaveSettings(r) /\ Overtaken(r, t)
             /\ Holdings(t)' # Holdings(t) =>
                  \/ \E a \in Area, row \in UnitRow : SaveArea(a, row)
                  \/ \E r \in Request : Writes(r) /\ Overtaken(r, t)
                  \/ \E r \in Request, a \in Area : TakesBack(r, a, t)]_vars
    BY <1>1 DEF Explained
  <1>3. QED
    BY <1>2, InvHolds, PTL DEF Spec, SuspensionSticks
=============================================================================
