---------------------------- MODULE Organizations ----------------------------
(***************************************************************************)
(* The organization a request works in, and what it may change there: the  *)
(* active tenant of a session (apps/tenants/middleware.py, request.py),    *)
(* the settings, departments and service areas of an organization          *)
(* (apps/tenants/admin_views.py, views.py), its projects (apps/common),    *)
(* and the routing of reports to it (apps/issues).  No view here opens a   *)
(* transaction: what a request has read is old when it writes, and the     *)
(* session is saved as a whole when the response is ready.                 *)
(* Who is an active member is Membership's affair, and who may manage what *)
(* RoleGrants': here both may change at any time.                          *)
(***************************************************************************)
EXTENDS Tables

CONSTANTS Tenant, User, Area, Department, Report, Request,
          None        \* no organization, no unit, nobody

ASSUME NoneAssumption == None \notin Tenant \cup User \cup Area \cup Department
ASSUME UnitsAssumption == Area \cap Department = {}

VARIABLES open,       \* organizations whose status is active
          members,    \* active memberships of enabled users
          sessions,   \* the organization that the session of a user names
          units,      \* table of departments and service areas
          reports,    \* table Report -> ReportRow
          projects,   \* the projects that were created
          requests,   \* table Request -> where the request's code stands
          chosen,     \* history: the switch that a user can rely on
          moved       \* history: areas that changed their organization

vars == <<open, members, sessions, units, reports, projects, requests, chosen, moved>>

Unit      == Area \cup Department
UnitRow   == [tenant : Tenant, enabled : BOOLEAN]
Project   == Tenant \X User    \* whose, and created by whom
ReportRow == [area : Area, tenant : Tenant, department : Department \cup {None}]

(***************************************************************************)
(* A request: the organization it works in, the session it will save if it *)
(* modified it, the unit and the status column of the row it is about to   *)
(* save.  For the properties: is its user still, without interruption, an  *)
(* active member of that organization?                                     *)
(***************************************************************************)
RequestRow ==
  [at : {"work", "settings", "unit", "project", "report", "assign", "switched", "done"},
   user : User \cup {None}, tenant : Tenant \cup {None},
   session : Tenant \cup {None}, modified : BOOLEAN,
   unit : Unit \cup {None}, enabled : BOOLEAN, kept : BOOLEAN]

Init ==
  /\ open = {}
  /\ members = {}
  /\ sessions = [u \in User |-> None]
  /\ units = Empty
  /\ reports = Empty
  /\ projects = {}
  /\ requests = Empty
  /\ chosen = [u \in User |-> None]
  /\ moved = {}

-----------------------------------------------------------------------------
MemberOnly(t, u) == <<t, u>> \in members

(* TenantMembershipQuerySet.active: the organization has to be active too. *)
Active(t, u) == <<t, u>> \in members /\ t \in open

Mine(u) == {t \in Tenant : Active(t, u)}

(* The history of the memberships in lost, which end with this step. *)
Lapse(lost) ==
  /\ requests' = [r \in DOMAIN requests |->
                    [requests[r] EXCEPT
                       !.kept = @ /\ <<requests[r].tenant, requests[r].user>> \notin lost]]
  /\ chosen' = [u \in User |-> IF <<chosen[u], u>> \in lost THEN None ELSE chosen[u]]

(* A membership is activated or suspended. *)
SetMember(m) ==
  /\ \/ /\ members' = members \cup {m}
        /\ UNCHANGED <<requests, chosen>>
     \/ /\ members' = members \ {m}
        /\ Lapse({m})
  /\ UNCHANGED <<open, sessions, units, reports, projects, moved>>

(* The platform's form of an organization, which has the status as a field. *)
SaveTenant(t) ==
  /\ \/ /\ open' = open \cup {t}
        /\ UNCHANGED <<requests, chosen>>
     \/ /\ open' = open \ {t}
        /\ Lapse({t} \X (User \cup {None}))
  /\ UNCHANGED <<members, sessions, units, reports, projects, moved>>

-----------------------------------------------------------------------------
At(r, step) == r \in DOMAIN requests /\ requests[r].at = step

TrustSession(u, t) == t = sessions[u]

(***************************************************************************)
(* ActiveTenantMiddleware.  A session that names an organization is        *)
(* verified, and cleared if its user is no active member there; one that   *)
(* names none gets the organization of a user who has only one.  No URL    *)
(* names an organization, so that branch of the middleware is unreachable. *)
(***************************************************************************)
Resolves(u, t) ==
  \/ sessions[u] # None /\ t = (IF sessions[u] \in Mine(u) THEN sessions[u] ELSE None)
  \/ sessions[u] = None /\ Mine(u) = {t}
  \/ sessions[u] = None /\ t = None /\ \A s \in Tenant : Mine(u) # {s}

Begin(r, u, t) ==
  /\ r \notin DOMAIN requests
  /\ Resolves(u, t)
  /\ requests' = Put(requests, r,
                     [at |-> "work", user |-> u, tenant |-> t, session |-> t,
                      modified |-> t # sessions[u], unit |-> None,
                      enabled |-> t \in open, kept |-> TRUE])
  /\ UNCHANGED <<open, members, sessions, units, reports, projects, chosen, moved>>

(* The request has done its work; what is left is to save the session. *)
Done(r) ==
  IF requests[r].modified
  THEN Put(requests, r, [requests[r] EXCEPT !.at = "done", !.tenant = None, !.unit = None,
                           !.enabled = FALSE, !.kept = TRUE])
  ELSE Delete(requests, r)

ForThisRequest(r, t) == [requests[r] EXCEPT !.at = "switched", !.tenant = t, !.kept = TRUE]

(* activate_tenant: the request and its session name t. *)
Activated(r, t) ==
  [requests[r] EXCEPT !.at = "switched", !.tenant = t, !.session = t, !.modified = TRUE,
                      !.kept = TRUE]

(* TenantSwitchView: an active member selects t.  A refusal changes nothing. *)
Switch(r, t) ==
  /\ At(r, "work")
  /\ Active(t, requests[r].user)
  /\ requests' = Put(requests, r, Activated(r, t))
  /\ UNCHANGED <<open, members, sessions, units, reports, projects, chosen, moved>>

(* The response: the whole session is saved, if the request modified it.   *)
(* A request that only shows a page replies without more ado.              *)
Reply(r) ==
  LET u == requests[r].user
      last == \A q \in DOMAIN requests \ {r} : requests[q].user # u
  IN /\ r \in DOMAIN requests
     /\ requests[r].at \in {"work", "switched", "done"}
     /\ sessions' = IF requests[r].modified
                    THEN [sessions EXCEPT ![u] = requests[r].session]
                    ELSE sessions
     /\ chosen' = IF requests[r].at = "switched"
                  THEN [chosen EXCEPT ![u] = IF last /\ requests[r].kept
                                             THEN requests[r].tenant ELSE None]
                  ELSE chosen
     /\ requests' = Delete(requests, r)
     /\ UNCHANGED <<open, members, units, reports, projects, moved>>

(* An error or the death of a worker: the session is not saved. *)
Abort(r) ==
  /\ r \in DOMAIN requests
  /\ requests' = Delete(requests, r)
  /\ UNCHANGED <<open, members, sessions, units, reports, projects, chosen, moved>>

-----------------------------------------------------------------------------
(* TenantAdministrationAccessMixin: can() looks the membership up again.   *)
(* Superusers, whom it asks for none, are not among the users here.        *)
Administers(r) == At(r, "work") /\ Active(requests[r].tenant, requests[r].user)

(* The settings form is about the row that the middleware has read.        *)
EditSettings(r) ==
  /\ Administers(r)
  /\ requests' = Put(requests, r, [requests[r] EXCEPT !.at = "settings"])
  /\ UNCHANGED <<open, members, sessions, units, reports, projects, chosen, moved>>

(* ... and saves every column of it, the status included. *)
SaveSettings(r) ==
  /\ At(r, "settings")
  /\ LET t == requests[r].tenant
     IN open' = IF requests[r].enabled THEN open \cup {t} ELSE open \ {t}
  /\ requests' = Done(r)
  /\ UNCHANGED <<members, sessions, units, reports, projects, chosen, moved>>

(* for_request: the units of the active organization only. *)
Found(r) == {unit \in DOMAIN units : units[unit].tenant = requests[r].tenant}

(* The forms of a department and of a service area, which fix the          *)
(* organization.  unit is None when a new one is created.                  *)
EditUnit(r, unit, enabled) ==
  /\ Administers(r)
  /\ unit \in Found(r) \cup {None}
  /\ requests' = Put(requests, r, [requests[r] EXCEPT !.at = "unit", !.unit = unit,
                                     !.enabled = enabled])
  /\ UNCHANGED <<open, members, sessions, units, reports, projects, chosen, moved>>

SaveRow(unit, row) ==
  /\ units' = Put(units, unit, row)
  /\ moved' = IF unit \in DOMAIN units /\ units[unit].tenant # row.tenant
              THEN moved \cup {unit} ELSE moved

(* All columns, the organization as well: an area that the platform moved  *)
(* in the meantime is moved back.                                          *)
SaveUnit(r, unit) ==
  /\ At(r, "unit")
  /\ IF requests[r].unit = None THEN unit \notin DOMAIN units ELSE unit = requests[r].unit
  /\ SaveRow(unit, [tenant |-> requests[r].tenant, enabled |-> requests[r].enabled])
  /\ requests' = Done(r)
  /\ UNCHANGED <<open, members, sessions, reports, projects, chosen>>

(* The platform's form of a service area has the organization as a field.  *)
SaveArea(a, row) ==
  /\ SaveRow(a, row)
  /\ UNCHANGED <<open, members, sessions, reports, projects, requests, chosen>>

-----------------------------------------------------------------------------
ProjectAnyway(r, t) ==
  /\ At(r, "work")
  /\ t = requests[r].tenant
  /\ requests' = Put(requests, r, [requests[r] EXCEPT !.at = "project"])
  /\ UNCHANGED <<open, members, sessions, units, reports, projects, chosen, moved>>

(* ProjectCreateView: without an active organization it takes the first of *)
(* the user's; t is the one that the query happens to answer.              *)
StartProject(r, t) ==
  /\ At(r, "work")
  /\ t \in IF requests[r].tenant = None THEN Mine(requests[r].user) ELSE {requests[r].tenant}
  /\ requests' = Put(requests, r, [requests[r] EXCEPT !.at = "project", !.tenant = t])
  /\ UNCHANGED <<open, members, sessions, units, reports, projects, chosen, moved>>

InsertProject(r) ==
  /\ At(r, "project")
  /\ projects' = projects \cup {<<requests[r].tenant, requests[r].user>>}
  /\ requests' = Done(r)
  /\ UNCHANGED <<open, members, sessions, units, reports, chosen, moved>>

-----------------------------------------------------------------------------
OfferedAreas == {a \in DOMAIN units \cap Area : units[a].enabled /\ units[a].tenant \in open}

(* IssueReportForm reads the chosen area together with its organization.   *)
(* Anybody may report.                                                     *)
OpenReport(r, a) ==
  /\ r \notin DOMAIN requests
  /\ a \in OfferedAreas
  /\ requests' = Put(requests, r,
                     [at |-> "report", user |-> None, tenant |-> units[a].tenant,
                      session |-> None, modified |-> FALSE, unit |-> a,
                      enabled |-> TRUE, kept |-> TRUE])
  /\ UNCHANGED <<open, members, sessions, units, reports, projects, chosen, moved>>

(* submit_issue stores both as they were read, and Issue.clean compares    *)
(* the one copy with the other.  IssueWorkflow has the rest of it.         *)
StoreReport(r, i) ==
  /\ At(r, "report")
  /\ i \notin DOMAIN reports
  /\ reports' = Put(reports, i, [area |-> requests[r].unit, tenant |-> requests[r].tenant,
                                 department |-> None])
  /\ requests' = Delete(requests, r)
  /\ UNCHANGED <<open, members, sessions, units, projects, chosen, moved>>

AnyDepartment(t) == {d \in DOMAIN units \cap Department : units[d].enabled}

OfferedDepartments(t) == {d \in DOMAIN units \cap Department :
                            units[d].tenant = t /\ units[d].enabled}

(* The operations page finds the reports of the active organization.  One  *)
(* step here: neither a report nor a department changes its organization.  *)
Assign(r, i, d) ==
  /\ At(r, "work")
  /\ i \in DOMAIN reports
  /\ reports[i].tenant = requests[r].tenant
  /\ d \in OfferedDepartments(reports[i].tenant) \cup {None}
  /\ reports' = [reports EXCEPT ![i].department = d]
  /\ requests' = Done(r)
  /\ UNCHANGED <<open, members, sessions, units, projects, chosen, moved>>

Next ==
  \/ \E m \in Tenant \X User : SetMember(m)
  \/ \E t \in Tenant : SaveTenant(t)
  \/ \E a \in Area, row \in UnitRow : SaveArea(a, row)
  \/ \E r \in Request, u \in User, t \in Tenant \cup {None} : Begin(r, u, t)
  \/ \E r \in Request, t \in Tenant : Switch(r, t)
  \/ \E r \in Request, t \in Tenant \cup {None} : StartProject(r, t)
  \/ \E r \in Request, unit \in Unit \cup {None}, enabled \in BOOLEAN :
        EditUnit(r, unit, enabled)
  \/ \E r \in Request, unit \in Unit : SaveUnit(r, unit)
  \/ \E r \in Request, a \in Area : OpenReport(r, a)
  \/ \E r \in Request, i \in Report : StoreReport(r, i)
  \/ \E r \in Request, i \in Report, d \in Department \cup {None} : Assign(r, i, d)
  \/ \E r \in Request : \/ EditSettings(r) \/ SaveSettings(r) \/ InsertProject(r)
                        \/ Reply(r) \/ Abort(r)

Spec == Init /\ [][Next]_vars

-----------------------------------------------------------------------------
TypeOK ==
  /\ open \subseteq Tenant
  /\ members \subseteq Tenant \X User
  /\ sessions \in [User -> Tenant \cup {None}]
  /\ IsTable(units, Unit, UnitRow)
  /\ IsTable(reports, Report, ReportRow)
  /\ projects \subseteq Project
  /\ IsTable(requests, Request, RequestRow)
  /\ chosen \in [User -> Tenant \cup {None}]
  /\ moved \subseteq Area

(***************************************************************************)
(* "Resolve the active tenant from a server-verified membership selection" *)
(* (middleware.py): whatever the session says, a request works only in an  *)
(* organization of which its user is an active member, or was when the     *)
(* request found out.                                                      *)
(***************************************************************************)
WorksForMembers ==
  \A r \in DOMAIN requests :
     requests[r].user # None /\ requests[r].tenant # None /\ requests[r].kept =>
       /\ <<requests[r].tenant, requests[r].user>> \in members
       /\ requests[r].tenant \in open

(***************************************************************************)
(* The choice of a user lasts: after a switch that no other request of the *)
(* user was still running beside, the session names the organization until *)
(* the user switches again or ceases to be an active member of it.         *)
(***************************************************************************)
SwitchSticks == \A u \in User : chosen[u] # None => sessions[u] = chosen[u]

Holdings(t) ==
  [units    |-> {<<unit, units[unit].enabled>> : unit \in {unit \in DOMAIN units :
                                                            units[unit].tenant = t}},
   projects |-> {p \in projects : p[1] = t},
   reports  |-> {<<i, reports[i].department>> : i \in {i \in DOMAIN reports :
                                                         reports[i].tenant = t}}]

(* Request r makes its write in this step. *)
Writes(r) ==
  \/ SaveSettings(r)
  \/ InsertProject(r)
  \/ \E unit \in Unit : SaveUnit(r, unit)
  \/ \E i \in Report : \/ StoreReport(r, i)
                       \/ \E d \in Department \cup {None} : Assign(r, i, d)

(* A request for t whose user, or t, ceased to be active since it looked. *)
Overtaken(r, t) == requests[r].tenant = t /\ ~requests[r].kept

(* An organization saves a form of an area that it opened before the       *)
(* platform gave the area to t, and so takes it back.                      *)
TakesBack(r, a, t) ==
  /\ SaveUnit(r, a)
  /\ a \in moved
  /\ units[a].tenant = t
  /\ requests[r].tenant # t

(***************************************************************************)
(* A suspended organization is left alone.  It is opened again only by the *)
(* platform, or by the stale save of a settings form that the suspension   *)
(* overtook.  Its departments and areas, its projects and its reports      *)
(* change only when the platform saves an area, when a request writes that *)
(* the suspension overtook, and when another organization saves a form of  *)
(* an area that the platform has given away from it in the meantime.       *)
(***************************************************************************)
SuspensionSticks ==
  [][\A t \in Tenant \ open :
       /\ t \in open' =>
            \/ SaveTenant(t)
            \/ \E r \in Request : SaveSettings(r) /\ Overtaken(r, t)
       /\ Holdings(t)' # Holdings(t) =>
            \/ \E a \in Area, row \in UnitRow : SaveArea(a, row)
            \/ \E r \in Request : Writes(r) /\ Overtaken(r, t)
            \/ \E r \in Request, a \in Area : TakesBack(r, a, t)]_vars

(***************************************************************************)
(* A report, its area and its department belong to one organization,       *)
(* unless the area changed its organization (Issue.clean).                 *)
(***************************************************************************)
RoutedWithin ==
  \A i \in DOMAIN reports :
     /\ reports[i].area \in moved \/ units[reports[i].area].tenant = reports[i].tenant
     /\ reports[i].department # None => units[reports[i].department].tenant = reports[i].tenant
=============================================================================
