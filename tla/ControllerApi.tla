--------------------------- MODULE ControllerApi ---------------------------
(***************************************************************************)
(* The controller's HTTP API and the server functions of its pages: who    *)
(* may call an operation, the permit it waits for, the rows it writes, the *)
(* live publication of a job, the audit event and the reply.  Each         *)
(* database statement or transaction is a step; a request may time out     *)
(* between any two of them, and clients repeat requests under the same     *)
(* Idempotency-Key.  The admission of Managed Work is one step here; its   *)
(* detail is the subject of ManagedWork.                                   *)
(***************************************************************************)
EXTENDS Options, FiniteSetsExt

CONSTANTS
    ApCalls,
    ApScripts,      \* what is asked for: [calls |-> [call -> request], rows |-> the fleet]
    ApPermits,      \* the limit of the API budget
    ApLimit,        \* the most rows of a kind an inventory holds (2000 in the code)
    ApActions       \* managed_gateway.controller_actions

VARIABLES
    apCall,         \* call -> [req, at, status, job, receipt, rows]
    apJobs,         \* command id -> [agent, request, state]
    apWork,         \* managed work id -> [scope, request]
    apAudit,        \* the audit events, oldest first: [call, actor, action, resource]
    apEffects,      \* <<call, resource>> of the transactions that wrote something
    apHeld,         \* the calls that hold a permit
    apFleet         \* [sites, agents, devices]
apVars == <<apCall, apJobs, apWork, apAudit, apEffects, apHeld, apFleet>>

-----------------------------------------------------------------------------
(* Who may call.                                                           *)

RoleGrants(role, permission) ==
    \/ role = "administrator"
    \/ role \in {"viewer", "operator", "enrollment_admin"} /\ permission = "FleetRead"
    \/ role = "operator" /\ permission = "JobsWrite"
    \/ role = "enrollment_admin" /\ permission = "EnrollmentManage"

\* authenticate_workload_token: 0, or the status of the refusal.
AuthenticateWorkloadToken(t) ==
    IF /\ t.alg \in {"RS256", "ES256", "EdDSA"} /\ t.kid = "known" /\ t.signed
       /\ t.audience = "workload" /\ t.issuer = "provider" /\ t.expired_for <= 30
       /\ Cardinality(t.permissions) \in 1..16 /\ "malformed" \notin t.permissions
    THEN 0 ELSE 401

\* WorkloadPrincipal::from_request_parts and Principal::from_session.
Authenticated(principal, who) ==
    CASE principal \in {"none", "page"} -> 0
      [] principal = "session"  -> IF who.kind = "session" /\ ~who.expired THEN 0 ELSE 401
      [] principal = "workload" -> IF who.kind # "workload" THEN 401
                                   ELSE AuthenticateWorkloadToken(who)

Requires(principal, who, needs) ==
    CASE principal = "none"     -> TRUE
      [] principal = "session"  -> \E r \in who.roles : RoleGrants(r, needs)
      [] principal = "workload" -> needs \in who.permissions

-----------------------------------------------------------------------------
(* The operations: the principal they ask for, the permission, whether     *)
(* they wait for a permit, what they do, and the audit action they record. *)

Op(principal, needs, permit, does, audit) ==
    [principal |-> principal, needs |-> needs, permit |-> permit, does |-> does, audit |-> audit]

GetWorkloadInventory == Op("workload", "inventory:read", TRUE, "inventory", None)
RetireAgentCredentials == Op("session", "EnrollmentManage", TRUE, "retire", None)
PreflightManagedWork == Op("workload", "managed_work:write", TRUE, "preflight", None)
SubmitManagedWork == Op("workload", "managed_work:write", TRUE, "submit", "managed_work.submitted")
GetManagedWork == Op("workload", "managed_work:read", TRUE, "work", None)
ListAuditEvents == Op("session", "AuditRead", TRUE, "events", None)
ListSites == Op("session", "FleetRead", TRUE, "sites", None)
ListAgents == Op("session", "FleetRead", TRUE, "agents", None)
GetAgent == Op("session", "FleetRead", TRUE, "agent", None)
ListDevices == Op("session", "FleetRead", TRUE, "devices", None)
GetJob == Op("session", "FleetRead", TRUE, "job", None)
ListJobs == Op("session", "FleetRead", TRUE, "jobs", None)
CreateJob == Op("session", "JobsWrite", TRUE, "create", "job.created")
CancelJob == Op("session", "JobsWrite", TRUE, "cancel", "job.cancellation_requested")
LoadFleetOverview == Op("page", "FleetRead", FALSE, "overview", None)
IssueInvitation == Op("page", "EnrollmentManage", FALSE, "issue", None)
RevokeInvitation == Op("page", "EnrollmentManage", FALSE, "revoke", None)
LoadInvitations == Op("page", "EnrollmentManage", FALSE, "invitations", None)
PreviewInvitation == Op("none", "none", FALSE, "preview", None)

\* IdempotencyKey::job_id and managed_work_id: injective in the scope and the key.
JobIdOf(agent, key) == <<"job", agent, key>>
CancellationIdOf(job) == <<"job_cancel", job>>
WorkIdOf(organization, key) == <<"mw", organization, key>>

\* The extractors of the request, after the principal: path, key, body.
Extracted(req) == IF req.malformed THEN 400 ELSE 0

\* require_permission of the server functions: every refusal is the same error.
RequirePermission(req) ==
    /\ req.who.kind = "session" /\ ~req.who.expired
    /\ \E r \in req.who.roles : RoleGrants(r, req.op.needs)

\* What the handler refuses before it waits for a permit: 0, or the status.  A server
\* function looks at its arguments after the permission.
Refused(req) ==
    LET o == req.op
        who == Authenticated(o.principal, req.who)
    IN  IF o.principal = "page" THEN IF RequirePermission(req) THEN Extracted(req) ELSE 403
        ELSE IF who # 0 THEN who
        ELSE IF Extracted(req) # 0 THEN Extracted(req)
        ELSE IF ~Requires(o.principal, req.who, o.needs) THEN 403
        ELSE IF o.does \in {"submit", "preflight"} /\ req.scope # req.who.scope THEN 403
        ELSE IF o.does = "events" /\ req.limit \notin 1..200 THEN 400 ELSE 0

\* GatewayError as the API reports it.
StatusOf(error) == CASE error = "InvalidInput" -> 400 [] error = "Forbidden" -> 403
                     [] error = "NotFound" -> 404 [] error = "Conflict" -> 409
                     [] error = "Capacity" -> 429 [] error = "Unavailable" -> 503
                     [] OTHER -> 500

-----------------------------------------------------------------------------
(* The queries.                                                            *)

\* agent_summary: online for two minutes after the last publication.
AgentHealth(agent) == CASE agent.seen = None -> "awaiting_first_contact"
                        [] agent.seen <= 2   -> "online"
                        [] OTHER             -> "offline"
AgentSummary(agent) == [agent_id |-> agent.id, site_id |-> agent.site, health |-> AgentHealth(agent)]
AgentRows(org) == {a \in apFleet.agents : a.org = org}
Agents(org, site) == {AgentSummary(a) : a \in {b \in AgentRows(org) : site = None \/ b.site = site}}
DeviceRows(agents) == {d \in apFleet.devices : d.agent \in agents}
SiteSummary(s, agents, devices) ==
    [site_id |-> s.id, agent_count |-> Cardinality({a \in agents : a.site_id = s.id}),
     device_count |-> Cardinality({d \in devices : d.site = s.id})]
Sites(org) == {SiteSummary(s, Agents(org, None), apFleet.devices) :
                 s \in {t \in apFleet.sites : t.org = org}}

\* workload_inventory: one snapshot, refused beyond the limit.
WorkloadInventory(org) ==
    LET sites == {t \in apFleet.sites : t.org = org}
        agents == Agents(org, None)
        devices == DeviceRows({a.agent_id : a \in agents})
    IN  IF \E S \in {sites, agents, devices} : Cardinality(S) > ApLimit THEN Err
        ELSE [sites |-> {SiteSummary(s, agents, devices) : s \in sites},
              agents |-> agents, devices |-> devices]

\* audit_events: the newest `limit` rows before a row.
AuditEvents(before, limit) ==
    LET older == {i \in DOMAIN apAudit : before = None \/ i < before}
    IN  {i \in older : Cardinality({j \in older : j > i}) < limit}

-----------------------------------------------------------------------------
ApStart(w) ==
    /\ apCall = [c \in ApCalls |-> [req |-> w.calls[c], at |-> "start", status |-> 0,
                                    job |-> None, receipt |-> "none", rows |-> {}, upto |-> 0]]
    /\ apFleet = w.fleet /\ apJobs = w.jobs
    /\ apWork = [i \in {} |-> 0] /\ apAudit = <<>> /\ apEffects = {} /\ apHeld = {}

ApInit == \E w \in ApScripts : ApStart(w)

ApStage(c) == apCall[c].at
Req(c) == apCall[c].req
Does(c, what) == Req(c).op.does = what
Steps(c, at) == apCall' = [apCall EXCEPT ![c].at = at]
\* The handler returns, and the permit it holds goes with it.
Replies(c, status) ==
    /\ apCall' = [apCall EXCEPT ![c].at = "done", ![c].status = status]
    /\ apHeld' = apHeld \ {c}
Rows == <<apJobs, apWork, apAudit, apEffects, apFleet>>

Refuse(c) ==
    /\ ApStage(c) = "start"
    /\ IF Refused(Req(c)) # 0 THEN Replies(c, Refused(Req(c)))
       ELSE Steps(c, IF Req(c).op.permit THEN "permit" ELSE "work") /\ UNCHANGED apHeld
    /\ UNCHANGED Rows

AcquirePermit(c) ==
    /\ ApStage(c) = "permit" /\ Cardinality(apHeld) < ApPermits
    /\ apHeld' = apHeld \cup {c} /\ Steps(c, "work")
    /\ UNCHANGED Rows

\* The reads that answer with what one query returned.
Read(c) ==
    /\ ApStage(c) = "work"
    /\ LET q == Req(c) IN
         \/ Does(c, "sites") /\ Replies(c, 200)
         \/ Does(c, "agents") /\ Replies(c, 200)
         \/ Does(c, "devices") /\ Replies(c, 200)
         \/ Does(c, "preflight") /\ \E s \in {200, 503} : Replies(c, s)
         \/ Does(c, "jobs") /\ Replies(c, IF \E a \in apFleet.agents : a.id = q.agent THEN 200 ELSE 404)
         \/ Does(c, "job") /\ Replies(c, IF q.job \in DOMAIN apJobs THEN 200 ELSE 404)
         \/ /\ Does(c, "agent")
            /\ Replies(c, IF \E a \in AgentRows(q.org) : a.id = q.agent THEN 200 ELSE 404)
    /\ UNCHANGED Rows

\* managed_work, and the scope of the caller's token.
ReadManagedWork(c) ==
    /\ ApStage(c) = "work" /\ Does(c, "work")
    /\ LET w == WorkIdOf(Req(c).org, Req(c).key) IN
         Replies(c, IF w \notin DOMAIN apWork THEN 404
                    ELSE IF apWork[w].scope # Req(c).who.scope THEN 403 ELSE 200)
    /\ UNCHANGED Rows

\* The invitations, while onboarding is enabled; a preview of one that may not exist.
ReadInvitations(c) ==
    /\ ApStage(c) = "work"
    /\ \/ Does(c, "invitations") /\ \E s \in {200, 503} : Replies(c, s)
       \/ Does(c, "preview") /\ \E s \in {200, 404, 503} : Replies(c, s)
    /\ UNCHANGED Rows

ReadInventory(c) ==
    /\ ApStage(c) = "work" /\ Does(c, "inventory")
    /\ LET rows == WorkloadInventory(Req(c).who.scope.org) IN
         /\ apCall' = [apCall EXCEPT ![c].at = "done", ![c].status = IF rows = Err THEN 429 ELSE 200,
                                     ![c].rows = IF rows = Err THEN {} ELSE {rows}]
         /\ apHeld' = apHeld \ {c}
    /\ UNCHANGED Rows

\* The overview page reads the sites and then the agents.
ReadOverview(c) ==
    /\ ApStage(c) = "work" /\ Does(c, "overview")
    /\ apCall' = [apCall EXCEPT ![c].rows = Sites(Req(c).org), ![c].at = "overview_agents"]
    /\ UNCHANGED <<apHeld, Rows>>
ReadOverviewAgents(c) ==
    /\ ApStage(c) = "overview_agents" /\ Replies(c, 200) /\ UNCHANGED Rows

\* A client walks the audit events page by page, each page before the last row it saw.
ReadEvents(c) ==
    /\ ApStage(c) = "work" /\ Does(c, "events")
    /\ LET q == apCall[c]
           page == AuditEvents(IF q.rows = {} THEN None ELSE Min(q.rows), q.req.limit)
       IN  /\ apCall' = [apCall EXCEPT ![c].rows = @ \cup page,
                ![c].upto = IF q.rows = {} THEN Len(apAudit) ELSE @,
                ![c].at = IF page = {} THEN "done" ELSE "start", ![c].status = 200]
           /\ apHeld' = apHeld \ {c}
    /\ UNCHANGED Rows

Terminal == {"completed", "failed", "rejected", "superseded"}

\* enqueue_job up to its transaction: the router admission, the permitted actions, and
\* the row of the command, which an earlier request may already have written.
Enqueue(c, id, agent, request) ==
    \/ /\ request.action \notin ApActions
       /\ Replies(c, 403) /\ UNCHANGED Rows
    \/ /\ request.action \in ApActions /\ ~\E a \in apFleet.agents : a.id = agent
       /\ Replies(c, StatusOf("NotFound")) /\ UNCHANGED Rows
    \/ /\ request.action \in ApActions /\ \E a \in apFleet.agents : a.id = agent
       /\ IF id \in DOMAIN apJobs
          THEN IF apJobs[id].agent # agent \/ apJobs[id].request # request
               THEN Replies(c, StatusOf("Conflict")) /\ UNCHANGED Rows
               ELSE /\ apCall' = [apCall EXCEPT ![c].at = "publish", ![c].job = id]
                    /\ UNCHANGED <<apHeld, Rows>>
          ELSE /\ apJobs' = [i \in DOMAIN apJobs \cup {id} |-> IF i = id
                    THEN [agent |-> agent, request |-> request, state |-> "queued"] ELSE apJobs[i]]
               /\ apCall' = [apCall EXCEPT ![c].at = "publish", ![c].job = id]
               /\ apEffects' = apEffects \cup {<<c, id>>}
               /\ UNCHANGED <<apHeld, apWork, apAudit, apFleet>>

CreateEnqueues(c) ==
    /\ ApStage(c) = "work" /\ Does(c, "create")
    /\ Enqueue(c, JobIdOf(Req(c).agent, Req(c).key), Req(c).agent, Req(c).request)
\* cancel_job reads the job, and enqueues the cancellation in a later transaction.
CancelReads(c) ==
    /\ ApStage(c) = "work" /\ Does(c, "cancel")
    /\ IF Req(c).job \notin DOMAIN apJobs THEN Replies(c, StatusOf("NotFound"))
       ELSE IF apJobs[Req(c).job].state \in Terminal THEN Replies(c, StatusOf("Conflict"))
       ELSE Steps(c, "cancel") /\ UNCHANGED apHeld
    /\ UNCHANGED Rows
CancelEnqueues(c) ==
    /\ ApStage(c) = "cancel"
    /\ LET j == Req(c).job IN
         Enqueue(c, CancellationIdOf(j), apJobs[j].agent, [action |-> "cancel_job", what |-> j])

\* publish_live_command may fail; the job then stays queued for the history.
PublishLive(c) ==
    /\ ApStage(c) = "publish"
    /\ \/ Steps(c, "mark")
       \/ apCall' = [apCall EXCEPT ![c].at = "audit", ![c].receipt = "queued"]
    /\ UNCHANGED <<apHeld, Rows>>
MarkCommandPublished(c) ==
    /\ ApStage(c) = "mark"
    /\ apJobs' = [apJobs EXCEPT ![apCall[c].job].state =
                    IF @ \in {"queued", "published"} THEN "published" ELSE @]
    /\ apCall' = [apCall EXCEPT ![c].at = "audit", ![c].receipt = "published"]
    /\ UNCHANGED <<apHeld, apWork, apAudit, apEffects, apFleet>>

\* submit_managed_work of the controller, admitted or replayed in one transaction.
SubmitAdmits(c) ==
    /\ ApStage(c) = "work" /\ Does(c, "submit")
    /\ LET q == Req(c)
           id == WorkIdOf(q.scope.org, q.key)
       IN  IF id \in DOMAIN apWork
           THEN IF apWork[id].request # q.request
                THEN Replies(c, StatusOf("Conflict")) /\ UNCHANGED Rows
                ELSE /\ apCall' = [apCall EXCEPT ![c].at = "audit", ![c].job = id]
                     /\ UNCHANGED <<apHeld, Rows>>
           ELSE /\ apWork' = [i \in DOMAIN apWork \cup {id} |-> IF i = id
                     THEN [scope |-> q.scope, request |-> q.request] ELSE apWork[i]]
                /\ apCall' = [apCall EXCEPT ![c].at = "audit", ![c].job = id]
                /\ apEffects' = apEffects \cup {<<c, id>>}
                /\ UNCHANGED <<apHeld, apJobs, apAudit, apFleet>>

Event(c, resource) == [call |-> c, action |-> Req(c).op.audit, resource |-> resource]
\* The event is a statement of its own, after the effect is committed.  The event of a
\* cancellation names the job, not the cancellation.
RecordAudit(c) ==
    /\ ApStage(c) = "audit"
    /\ apAudit' = Append(apAudit, Event(c, IF Does(c, "cancel") THEN Req(c).job ELSE apCall[c].job))
    /\ Replies(c, 202)
    /\ UNCHANGED <<apJobs, apWork, apEffects, apFleet>>

\* The retirement and the invitations write their event in the transaction of the
\* effect, and neither when the effect is there already.
Written(what) == \E c \in ApCalls : <<c, what>> \in apEffects
WriteAudited(c, what) ==
    IF Written(what) THEN UNCHANGED <<apAudit, apEffects>>
    ELSE apAudit' = Append(apAudit, Event(c, what)) /\ apEffects' = apEffects \cup {<<c, what>>}

\* create_invitation: a new code each time; the label may be too long.
CreateInvitation(c) ==
    /\ ApStage(c) = "work" /\ Does(c, "issue")
    /\ \/ WriteAudited(c, <<"invitation", c>>) /\ Replies(c, 200)
       \/ \E s \in {400, 503} : Replies(c, s) /\ UNCHANGED <<apAudit, apEffects>>
    /\ UNCHANGED <<apJobs, apWork, apFleet>>
\* revoke_invitation: one that is online, or unknown, is refused.
RevokesInvitation(c) ==
    /\ ApStage(c) = "work" /\ Does(c, "revoke")
    /\ \/ WriteAudited(c, <<"revoked", Req(c).key>>) /\ Replies(c, 200)
       \/ \E s \in {404, 409, 503} : Replies(c, s) /\ UNCHANGED <<apAudit, apEffects>>
    /\ UNCHANGED <<apJobs, apWork, apFleet>>
\* retire_agent_credentials: the keys of the agent are retired and its devices deleted.
RetireCredentials(c) ==
    /\ ApStage(c) = "work" /\ Does(c, "retire")
    /\ IF ~\E a \in AgentRows(Req(c).org) : a.id = Req(c).agent
       THEN Replies(c, StatusOf("NotFound")) /\ UNCHANGED <<apAudit, apEffects, apFleet>>
       ELSE /\ WriteAudited(c, <<"retired", Req(c).agent>>)
            /\ apFleet' = [apFleet EXCEPT !.devices = {d \in @ : d.agent # Req(c).agent}]
            /\ Steps(c, "reconcile") /\ UNCHANGED apHeld
    /\ UNCHANGED <<apJobs, apWork>>
\* A retirement answers once every router has acknowledged, or fails; it can be repeated.
ReconcileRouters(c) ==
    /\ ApStage(c) = "reconcile" /\ \E s \in {204, 503} : Replies(c, s)
    /\ UNCHANGED Rows

\* The database, or a service the step needs, fails: 500 or 503, effects stay.
StepFails(c) ==
    /\ ApStage(c) \in {"work", "cancel", "mark", "audit", "overview_agents"}
    /\ \E s \in {500, 503} : Replies(c, s)
    /\ UNCHANGED Rows
\* The timeout layer drops the handler, and its permit.
ApiTimeout(c) ==
    /\ ApStage(c) \notin {"start", "done"}
    /\ Replies(c, 408)
    /\ UNCHANGED Rows

\* An agent's receipt of a command it got live or from the history: the row takes what
\* it says, whatever the row said before.
AgentReports ==
    \E j \in DOMAIN apJobs, s \in {"accepted", "rejected"} :
        /\ apJobs' = [apJobs EXCEPT ![j].state = s]
        /\ UNCHANGED <<apCall, apWork, apAudit, apEffects, apHeld, apFleet>>
\* An agent enrolls and reports its device.
AgentEnrolls ==
    /\ \E a \in apFleet.coming :
          apFleet' = [apFleet EXCEPT !.coming = @ \ {a}, !.agents = @ \cup {a},
                        !.devices = @ \cup {[id |-> "d", agent |-> a.id, site |-> a.site]}]
    /\ UNCHANGED <<apCall, apJobs, apWork, apAudit, apEffects, apHeld>>

ApStep(c) ==
    \/ CreateInvitation(c) \/ RevokesInvitation(c) \/ RetireCredentials(c) \/ ReadInvitations(c) \/ ReadManagedWork(c)
    \/ Refuse(c) \/ AcquirePermit(c) \/ Read(c) \/ ReadInventory(c) \/ ReadOverview(c)
    \/ ReadOverviewAgents(c) \/ ReadEvents(c) \/ CreateEnqueues(c) \/ CancelReads(c)
    \/ CancelEnqueues(c) \/ PublishLive(c) \/ MarkCommandPublished(c) \/ SubmitAdmits(c)
    \/ RecordAudit(c) \/ ReconcileRouters(c) \/ StepFails(c) \/ ApiTimeout(c)
ApNext == AgentReports \/ AgentEnrolls \/ \E c \in ApCalls : ApStep(c)
ApSpec == ApInit /\ [][ApNext]_apVars

-----------------------------------------------------------------------------
(* Properties.                                                             *)

\* The roles that hold a permission.
Holders(permission) == {"administrator"} \cup
    CASE permission = "FleetRead"        -> {"viewer", "operator", "enrollment_admin"}
      [] permission = "JobsWrite"        -> {"operator"}
      [] permission = "EnrollmentManage" -> {"enrollment_admin"}
      [] OTHER                           -> {}
EntitledTo(req) ==
    CASE req.op.principal = "none"     -> TRUE
      [] req.op.principal \in {"session", "page"} -> req.who.roles \cap Holders(req.op.needs) # {}
      [] req.op.principal = "workload" -> req.op.needs \in req.who.permissions

\* What an answer shows: the work of the caller's scope, the inventory of the caller's
\* organization with counts that agree with the rows listed, and every audit event
\* there was when the walk began, however many were written during it.
ShowsWhatItMay(c) ==
    LET q == Req(c) IN
      CASE Does(c, "work") -> apWork[WorkIdOf(q.org, q.key)].scope = q.who.scope
        [] Does(c, "inventory") ->
             \A i \in apCall[c].rows :
               /\ \A a \in i.agents : \E b \in apFleet.agents : b.id = a.agent_id /\ b.org = q.who.scope.org
               /\ \A d \in i.devices : \E a \in i.agents : a.agent_id = d.agent
               /\ \A t \in i.sites : t.device_count = Cardinality({d \in i.devices : d.site = t.site_id})
        [] Does(c, "events") -> 1 .. apCall[c].upto \subseteq apCall[c].rows
        [] OTHER -> TRUE

\* A write is answered 202 only with its row, written for the same request, and its audit event.
WriteIsRecorded(c) ==
    LET q == Req(c)
        job == apCall[c].job IN
      /\ \E e \in DOMAIN apAudit : apAudit[e].call = c
      /\ \/ Does(c, "create") /\ apJobs[job].request = q.request /\ apJobs[job].agent = q.agent
         \/ Does(c, "cancel") /\ apJobs[job].agent = apJobs[q.job].agent
         \/ Does(c, "submit") /\ apWork[job] = [scope |-> q.who.scope, request |-> q.request]

Answered(c) == ApStage(c) = "done" /\ apCall[c].status \in 200 .. 299
\* A retirement and a revocation are recorded once, and as soon as they happen.
RecordedOnce(what) ==
    Cardinality({e \in DOMAIN apAudit : apAudit[e].resource = what}) = 1
AnswersAreBacked ==
    \A c \in ApCalls : Answered(c) =>
      /\ EntitledTo(Req(c)) /\ ShowsWhatItMay(c)
      /\ apCall[c].status = 202 => WriteIsRecorded(c)
      /\ Does(c, "retire") => RecordedOnce(<<"retired", Req(c).agent>>)
      /\ Does(c, "revoke") => RecordedOnce(<<"revoked", Req(c).key>>)


=============================================================================
