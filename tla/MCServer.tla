------------------------------ MODULE MCServer ------------------------------
(* Small instances of the controller, one component at a time: the initial    *)
(* state chooses which one runs (focus) and in which of its worlds, and the   *)
(* others rest.                                                               *)
EXTENDS ControllerStartup, ControllerSessions, ControllerApi, ManagedWork, TLC

CONSTANT Focuses   \* the components a run looks at
VARIABLE focus

---------------------------------------------------------------------------
(* Startup: every pair of configuration values over two base files, databases  *)
(* of every age with the work and keys of their time, two processes.          *)

EmptyRows == [work |-> {}, keys |-> {}, current |-> <<>>, invitations |-> {}, devices |-> {}]
ColumnsAt(i) == LET f[j \in 0 .. i] ==
                      IF j = 0 THEN {} ELSE (f[j - 1] \ Migrations[j].drops) \cup Migrations[j].adds
                IN  f[i]
SchemaAt(i, rows) == [applied |-> i, history |-> i > 0, sqlx |-> FALSE,
  tables |-> UNION {Migrations[j].creates : j \in 1 .. i}, columns |-> ColumnsAt(i), rows |-> rows]
NoLayers == [files |-> <<>>, environment |-> [x \in {} |-> 0], explicit_missing |-> FALSE]
Managed == [gateway |-> TRUE, endpoints |-> TRUE, policy_files |-> TRUE, routers |-> <<"r1">>,
  zenoh |-> TRUE, organization_named |-> TRUE]
FullFile == Managed @@
  [oidc |-> TRUE, issuer |-> "https", client_id |-> TRUE, roles |-> TRUE, public_url |-> "https",
   dispatch |-> TRUE, dispatch_key |-> TRUE, protection |-> TRUE, openbao |-> "https",
   openbao_role |-> TRUE, onboarding |-> TRUE, base_url |-> "https", certificate |-> "step_ca",
   step_ca |-> TRUE, environment |-> "production"]
ByHand == [migrate_on_startup |-> FALSE]
Layered(file, env) == [files |-> <<file>>, environment |-> env, explicit_missing |-> FALSE]
Proc(cmd, rel, layers) == [cmd |-> cmd, release |-> rel, layers |-> layers]
Latest == Len(Migrations)
RowKey(id, p, at) == [id |-> id, agent |-> "a", purpose |-> p, at |-> at, retired |-> FALSE]
RowWork(st, live) == [id |-> 1, state |-> st, live |-> live, payload |-> TRUE]
RowKeys == {{}} \cup
  {{RowKey("t1", "transport_identity", 0), RowKey("t2", "transport_identity", i),
    RowKey("s1", "agent_state", 0), RowKey("s2", "agent_state", j)} : i, j \in 0 .. 1}
RowsAt(i) ==
  {[work |-> w, current |-> ("a" :> "t1"), devices |-> IF i < 13 THEN {"d"} ELSE {},
    keys |-> IF i >= 9 THEN RetireStray(RetireOlder(k), ("a" :> "t1")) ELSE IF i >= 7 THEN k ELSE {},
    invitations |-> {[id |-> 1, state |-> IF i < 11 THEN "claimed" ELSE "failed"]}] :
   w \in {{}} \cup IF i >= 5 THEN {{RowWork(st, l)} : st \in {"pending_agent", "dispatching", "accepted"},
                                                      l \in BOOLEAN} ELSE {},
   k \in RowKeys}
Values == [config_version |-> {1, 2}, environment |-> {"development", "preview", "production"},
  public_url |-> {"none", "http", "https"}, organization_named |-> BOOLEAN, zenoh |-> BOOLEAN,
  zenoh_mode |-> {"client", "router"}, zenoh_rest |-> BOOLEAN, gateway |-> BOOLEAN,
  versions |-> BOOLEAN, endpoints |-> BOOLEAN, prefix |-> BOOLEAN, onboarding |-> BOOLEAN,
  base_url |-> {"none", "bad", "ftp", "http", "https"}, onboarding_limit |-> {0, 5},
  certificate |-> {"none", "step_ca"}, step_ca |-> BOOLEAN, step_ca_ttl |-> {59, 60, 3600, 3601},
  dispatch |-> BOOLEAN, dispatch_key |-> BOOLEAN, epoch |-> {0, 1}, dispatch_action |-> BOOLEAN,
  envelope_ttl |-> {9, 10, 300, 301}, protection |-> BOOLEAN, transit |-> BOOLEAN, oidc |-> BOOLEAN,
  issuer |-> {"none", "http", "https"}, client_id |-> BOOLEAN, audiences |-> BOOLEAN,
  workload_audience |-> BOOLEAN, openid_scope |-> BOOLEAN, roles |-> BOOLEAN,
  client_secret |-> {"none", "readable", "unreadable"}, openbao |-> {"none", "http", "https"},
  openbao_role |-> BOOLEAN, openbao_timeout |-> {0, 5}, db_url |-> BOOLEAN,
  migrate_on_startup |-> BOOLEAN, min_connections |-> {1, 17}, max_connections |-> {0, 16},
  policy_files |-> BOOLEAN, routers |-> {<<>>, <<"r1">>, <<"r1", "r1">>, <<"r1", "r2">>},
  policy_names |-> BOOLEAN]
Settings == UNION {{(k :> v) : v \in Values[k]} : k \in DOMAIN Values}
Pair(d, a, b) == [db |-> d, started |-> [p \in CsProcs |-> IF p = "p1" THEN a ELSE b]]
ConfigWorlds ==
  {Pair(SchemaAt(Latest, EmptyRows), Proc("serve", Latest, Layered(f, e1 @@ e2)),
        Proc("validate", Latest, [NoLayers EXCEPT !.explicit_missing = TRUE])) :
   f \in {Managed, FullFile}, e1 \in Settings, e2 \in Settings}
DbWorlds ==
  {Pair(d, a, b) :
   d \in {SchemaAt(0, EmptyRows), [SchemaAt(1, EmptyRows) EXCEPT !.history = FALSE, !.applied = 0, !.sqlx = TRUE]},
   a \in {Proc("migrate", Latest, NoLayers), Proc("serve", 10, Layered(FullFile, ByHand))},
   b \in {Proc("migrate", Latest, NoLayers), Proc("migrate", 4, NoLayers), Proc("status", Latest, NoLayers)}
         \cup {Proc(cmd, Latest, Layered(FullFile, ByHand)) : cmd \in {"serve", "explain", "print"}}
         \cup {Proc("serve", Latest, Layered(FullFile, [x \in {} |-> 0]))}}
OldWorlds == UNION {{Pair(SchemaAt(i, r), Proc("migrate", Latest, NoLayers), Proc("serve", i, Layered(FullFile, ByHand))) :
                     r \in RowsAt(i)} : i \in {4, 5, 6, 7, 8, 9, 12}}
MCCsWorlds == ConfigWorlds \cup DbWorlds \cup OldWorlds

---------------------------------------------------------------------------
(* Sessions: what browsers do, and what the provider answers.                 *)

RoleMapping == ("adm" :> "enrollment_admin") @@ ("view" :> "viewer")
Tokens(kind, value) == [id_token |-> TRUE, verified |-> TRUE, azp |-> None, audiences |-> 1,
  access_token_hash |-> "none", claim |-> [kind |-> kind, value |-> value], mapping |-> RoleMapping]
MCSeAnswers == {Tokens("string", "adm"), Tokens("array", {"view", "x"}), Tokens("object", {"x"}),
                [Tokens("string", "adm") EXCEPT !.azp = "other"]}
Visit(b, k) == [browser |-> b, kind |-> k]
MCSeScripts == {
  <<Visit("b1", "login"), Visit("b1", "callback"), Visit("b1", "logout"), Visit("b1", "page")>>,
  <<Visit("b1", "login"), Visit("b2", "login"), Visit("b2", "callback"), Visit("b2", "page")>>,
  <<Visit("b1", "login"), Visit("b1", "callback"), Visit("b1", "page"), Visit("b1", "page")>>,
  <<Visit("b1", "login"), Visit("b1", "login"), Visit("b1", "callback"), Visit("b1", "page")>>}

---------------------------------------------------------------------------
(* The HTTP API: three calls at once, by sessions and by workloads.           *)

Session(role) == [kind |-> "session", expired |-> FALSE, roles |-> {role}]
Token(o) == [kind |-> "workload", alg |-> "RS256", kid |-> "known", signed |-> TRUE,
  audience |-> "workload", issuer |-> "provider", expired_for |-> 30, scope |-> [org |-> o],
  permissions |-> {"inventory:read", "managed_work:write", "managed_work:read"}]
ApReq(op, who) == [op |-> op, who |-> who, malformed |-> FALSE, scope |-> [org |-> "o1"], limit |-> 1,
  key |-> "k", agent |-> "a1", job |-> JobIdOf("a1", "k"), org |-> "o1",
  request |-> [action |-> "print", what |-> "x"]]
Changed(r) == [r EXCEPT !.request.what = "y"]
FleetAgent(i, o, s, seen) == [id |-> i, org |-> o, site |-> s, seen |-> seen]
FleetDevice(d, a, s) == [id |-> d, agent |-> a, site |-> s]
MCFleetRows == [
  sites |-> {[id |-> "s1", org |-> "o1"], [id |-> "s2", org |-> "o1"], [id |-> "s3", org |-> "o2"]},
  agents |-> {FleetAgent("a1", "o1", "s1", 2), FleetAgent("a3", "o2", "s3", None)},
  devices |-> {FleetDevice("d", "a1", "s1"), FleetDevice("e", "a1", "s1"), FleetDevice("d", "a3", "s3")},
  coming |-> {FleetAgent("a2", "o1", "s2", 3)}]
Three(a, b, c) == [calls |-> <<a, b, c>>, fleet |-> MCFleetRows, jobs |-> [i \in {} |-> 0]]
Create == ApReq(CreateJob, Session("operator"))
Submit == ApReq(SubmitManagedWork, Token("o1"))
Retire == ApReq(RetireAgentCredentials, Session("administrator"))
Revoke == ApReq(RevokeInvitation, Session("enrollment_admin"))
Audit == ApReq(ListAuditEvents, Session("administrator"))
Single ==
  {ApReq(op, Session(role)) :
     op \in {RetireAgentCredentials, ListSites, ListAgents, GetAgent, ListDevices, GetJob, ListJobs,
             LoadFleetOverview, IssueInvitation, RevokeInvitation, LoadInvitations, PreviewInvitation},
     role \in {"viewer", "administrator"}}
  \cup {[Create EXCEPT !.request.action = "reboot"], [Create EXCEPT !.agent = "a9"],
        [Audit EXCEPT !.limit = 201], [Create EXCEPT !.who.expired = TRUE],
        [ApReq(GetAgent, Session("administrator")) EXCEPT !.agent = "a3"],
        [Retire EXCEPT !.agent = "a3"],
        [ApReq(GetWorkloadInventory, Token("o1")) EXCEPT !.who.expired_for = 31],
        [Submit EXCEPT !.malformed = TRUE], ApReq(PreflightManagedWork, Token("o1")),
        ApReq(GetManagedWork, Token("o2")), ApReq(GetManagedWork, Token("o1")),
        ApReq(GetWorkloadInventory, Session("viewer")), ApReq(GetWorkloadInventory, Token("o1")),
        ApReq(SubmitManagedWork, Token("o2"))}
NoRequest == [ApReq(PreviewInvitation, Session("viewer")) EXCEPT !.malformed = TRUE]
MCApScripts ==
  {Three(Create, NoRequest, ApReq(CancelJob, Session("operator"))), Three(Create, Changed(Create), Audit),
   Three(Submit, Changed(Submit), Audit), Three(Submit, Submit, Audit), Three(Create, Create, Audit),
   Three(Retire, Retire, ApReq(GetWorkloadInventory, Token("o1"))), Three(Revoke, Revoke, Audit)}
  \cup {Three(Submit, NoRequest, r) : r \in Single}

---------------------------------------------------------------------------
(* Managed Work: one Agent, works that share a key or an intent, one Inline    *)
(* command, and an Agent free to sign what it likes.                          *)

CONSTANTS a1, w1, w2, p1, c1, c2, m1, m2

Submission(w, k, i, content) ==
  [id |-> w, key |-> k, intent |-> i, content |-> content, size |-> 1, pre |-> p1, agent |-> a1,
   major |-> 1, workMajor |-> 1, texts |-> {"legal"}]
MCWorkRequests ==
  {Submission(w1, "k1", "i1", "x"), Submission(w2, "k1", "i1", "x"), Submission(w2, "k2", "i2", "x"),
   Submission(w2, "k2", "i1", "x"), [Submission(w2, "k2", "i2", "x") EXCEPT !.size = 2],
   [Submission(w2, "k2", "i2", "x") EXCEPT !.size = 3],
   [Submission(w1, "k1", "i1", "x") EXCEPT !.workMajor = 2],
   [Submission(w1, "k1", "i1", "x") EXCEPT !.texts = {"legal", "control"}]}
MCInlines == {[id |-> "job", cancel |-> "cancel", content |-> "x", agent |-> a1]}
MCReceipts == {[agent |-> a1, seq |-> 1, verdict |-> "accepted"],
               [agent |-> a1, seq |-> 2, verdict |-> "rejected"]}
Observed(state, version, started, key, at) ==
  [work |-> w1, state |-> state, version |-> version, started |-> started,
   seq |-> version, key |-> key, signer |-> key, at |-> at]
MCObservations ==
  {Observed("accepted", 1, FALSE, 1, 0), Observed("accepted", 1, FALSE, 1, 1),
   Observed("in_progress", 2, TRUE, 2, 1), Observed("failed", 2, FALSE, 1, 1),
   Observed("output_confirmed", 3, TRUE, 1, 1),
   [Observed("failed", 2, FALSE, 1, 0) EXCEPT !.signer = 2]}

\* Concurrent submissions with a single observation, or one caller with every
\* observation.
WithinWorkFocus ==
  \/ /\ focus = "submission"
     /\ publications'[m2] = None
     /\ publications'[m1] \in {None, Observed("accepted", 1, FALSE, 1, 0)}
     /\ keyTimes'[a1] = <<0>>
  \/ /\ focus = "evidence"
     /\ calls'[c2] = IdleCall
     /\ works'[w2] = None
     /\ workRetired' = {}

---------------------------------------------------------------------------

serverVars == <<csVars, seVars, apVars, workVars, focus>>

Rest(S) == CHOOSE x \in S : TRUE
CsRest == Pair(SchemaAt(0, EmptyRows), Proc("status", 0, NoLayers), Proc("status", 0, NoLayers))
SeRest == Rest(SeScripts)
ApRest == [Three(NoRequest, NoRequest, NoRequest) EXCEPT !.fleet.sites = {}, !.fleet.agents = {},
                                                         !.fleet.devices = {}, !.fleet.coming = {}]

MCInit ==
  /\ focus \in Focuses
  /\ WorkInit
  /\ IF focus = "startup" THEN CsInit ELSE CsStart(CsRest)
  /\ IF focus = "sessions" THEN SeInit ELSE SeStart(SeRest)
  /\ IF focus = "api" THEN ApInit ELSE ApStart(ApRest)

OnlyWork == WithinWorkFocus /\ UNCHANGED <<csVars, seVars, apVars, focus>>

MCNext ==
  \/ focus = "startup" /\ CsNext /\ UNCHANGED <<seVars, apVars, workVars, focus>>
  \/ focus = "sessions" /\ SeNext /\ UNCHANGED <<csVars, apVars, workVars, focus>>
  \/ focus = "api" /\ ApNext /\ UNCHANGED <<csVars, seVars, workVars, focus>>
  \/ focus \in {"submission", "evidence"} /\ WorkNext /\ OnlyWork

MCSpec == MCInit /\ [][MCNext]_serverVars

\* Time passes, the Agent keeps asking for its history and the Routers keep
\* reconciling.
DeliverySpec ==
  /\ MCSpec
  /\ WF_serverVars(focus = "submission" /\ Tick /\ OnlyWork)
  /\ WF_serverVars(focus = "submission" /\ ExpirePayloads /\ OnlyWork)
  /\ WF_serverVars(focus = "submission" /\ RoutersAdmit /\ OnlyWork)
  /\ WF_serverVars(focus = "submission" /\ AnswerHistory(a1) /\ OnlyWork)
=============================================================================
