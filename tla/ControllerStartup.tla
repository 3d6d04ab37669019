------------------------- MODULE ControllerStartup -------------------------
(***************************************************************************)
(* How a controller process comes up: the layered configuration and its    *)
(* validation, the command line, the database migrations with the advisory *)
(* lock that serializes their runners, and the order in which the server   *)
(* builds its services.  Several processes (server replicas, migration     *)
(* jobs, status commands) of possibly different releases share one         *)
(* database; each of their reads of the schema is a step of its own.       *)
(***************************************************************************)
EXTENDS Options, FiniteSetsExt

CONSTANTS
    CsProcs,        \* the processes started against the database
    CsWorlds,       \* initial worlds: [db, started], started[p] = [cmd, release, layers]
    CsFaults        \* whether connections and external services may fail

VARIABLES
    csDb,           \* the database, as the Database comment below says
    csLock,         \* the process whose guard connection holds the advisory lock
    csProc,         \* process -> where it is and what it has read
    csFaulty        \* whether a fault has happened
csVars == <<csDb, csLock, csProc, csFaulty>>

-----------------------------------------------------------------------------
(* Settings.  A layer is a function from some of the keys to values.       *)

Server == [config_version |-> 1, environment |-> "development", public_url |-> "none",
           organization_named |-> TRUE, zenoh |-> FALSE, zenoh_mode |-> "client",
           zenoh_rest |-> FALSE]
Gateway == [gateway |-> FALSE, versions |-> TRUE, endpoints |-> FALSE, prefix |-> TRUE,
            onboarding |-> FALSE, base_url |-> "none", onboarding_limit |-> 5,
            certificate |-> "none", step_ca |-> FALSE, step_ca_ttl |-> 300,
            dispatch |-> FALSE, dispatch_key |-> FALSE, epoch |-> 1,
            dispatch_action |-> TRUE, envelope_ttl |-> 120,
            protection |-> FALSE, transit |-> TRUE]
Oidc == [oidc |-> FALSE, issuer |-> "none", client_id |-> FALSE, audiences |-> TRUE,
         workload_audience |-> TRUE, openid_scope |-> TRUE, roles |-> FALSE,
         client_secret |-> "none"]
OpenBao == [openbao |-> "none", openbao_role |-> FALSE, openbao_timeout |-> 5]
Database == [db_url |-> TRUE, migrate_on_startup |-> TRUE, min_connections |-> 1,
             max_connections |-> 16]
Policy == [policy_files |-> FALSE, routers |-> <<>>, policy_names |-> TRUE]

Over(layer, base) == [k \in DOMAIN base \cup DOMAIN layer |->
                        IF k \in DOMAIN layer THEN layer[k] ELSE base[k]]
Defaults == Over(Server, Over(Gateway, Over(Oidc, Over(OpenBao, Over(Database, Policy)))))

\* The files are read in order over the defaults and the environment last.
BuildSettings(layers) == LET files[i \in 0..Len(layers.files)] ==
                               IF i = 0 THEN Defaults ELSE Over(layers.files[i], files[i-1])
                         IN  Over(layers.environment, files[Len(layers.files)])

\* The layer that supplied a setting: the environment, a file (by position), or the default.
OriginOf(layers, k) == IF k \in DOMAIN layers.environment THEN "environment"
                       ELSE IF \E i \in DOMAIN layers.files : k \in DOMAIN layers.files[i]
                            THEN "file" ELSE "default"

\* The settings `config explain` lists.
Overridden(layers) == {k \in DOMAIN BuildSettings(layers) : OriginOf(layers, k) # "default"}

Deployed(c) == c.environment # "development"

RouterPolicyValid(c) == /\ Len(c.routers) \in 1..32 /\ c.policy_files
                        /\ \A i, j \in DOMAIN c.routers : i # j => c.routers[i] # c.routers[j]
OnboardingValid(c) == c.onboarding => c.base_url \in {"http", "https"} /\ c.onboarding_limit # 0
CertificateValid(c) == c.certificate = "step_ca" => c.step_ca /\ c.step_ca_ttl \in 60..3600
DispatchValid(c) == c.dispatch => /\ c.dispatch_key /\ c.epoch # 0 /\ c.dispatch_action
                                  /\ c.envelope_ttl \in 10..300 /\ c.protection
ManagedGatewayValid(c) ==
    c.gateway => /\ RouterPolicyValid(c) /\ c.versions /\ c.endpoints /\ c.prefix
                 /\ OnboardingValid(c) /\ CertificateValid(c) /\ DispatchValid(c)
                 /\ (c.protection => c.transit)
OpenBaoValid(c, required) ==
    IF c.openbao = "none" THEN ~required
    ELSE c.openbao = "https" /\ c.openbao_role /\ c.openbao_timeout # 0
OidcValid(c) == c.oidc => /\ c.issuer # "none" /\ (Deployed(c) => c.issuer = "https")
                          /\ c.client_id /\ c.audiences /\ c.workload_audience
                          /\ c.openid_scope /\ c.roles
                          /\ c.public_url # "none" /\ (Deployed(c) => c.public_url = "https")
DatabaseValid(c, required) == /\ (required => c.db_url) /\ c.max_connections # 0
                              /\ c.min_connections <= c.max_connections

Validate(c) ==
    /\ c.config_version = 1
    /\ ManagedGatewayValid(c)
    /\ OpenBaoValid(c, c.gateway /\ c.protection)
    /\ OidcValid(c)
    /\ DatabaseValid(c, c.gateway \/ c.oidc)
    /\ c.organization_named
    /\ Deployed(c) /\ c.gateway => c.oidc
    /\ c.gateway => c.zenoh
    /\ c.zenoh_rest => c.oidc
    /\ Deployed(c) => c.zenoh_mode = "client"

\* The secret files `config print-effective --no-redact` reads.
ResolvedSecretFiles(c) ==
    (IF c.gateway \/ c.oidc THEN {"database_url"} ELSE {})
    \cup (IF c.oidc /\ c.client_secret # "none" THEN {"client_secret"} ELSE {})
    \cup (IF c.certificate = "step_ca" /\ c.step_ca THEN {"step_ca_key"} ELSE {})
    \cup (IF c.dispatch /\ c.dispatch_key THEN {"dispatch_key"} ELSE {})

-----------------------------------------------------------------------------
(* The migrations.  The database is a record: applied, how many migrations *)
(* its history holds; history and sqlx, whether the two history tables     *)
(* exist; tables and columns, the part of the schema later migrations      *)
(* depend on; rows, the data they rewrite.                                 *)

CreateFleet ==
    [creates |-> {"organizations", "sites", "agents", "devices"}, uses |-> {},
     adds |-> {"certificate_pem", "hardware_fingerprint"}, drops |-> {}]
CreateEnrollment ==
    [creates |-> {"invitations", "invitation_attempts"}, uses |-> {"organizations", "sites"},
     adds |-> {"claimed_at"}, drops |-> {}]
CreateGatewayData ==
    [creates |-> {"commands", "publications", "audit_events"},
     uses |-> {"agents", "organizations"}, adds |-> {}, drops |-> {}]
CreateSessions == [creates |-> {"session"}, uses |-> {}, adds |-> {}, drops |-> {}]
CreateManagedWork ==
    [creates |-> {"managed_work_preflights", "managed_work"},
     uses |-> {"agents", "organizations", "sites", "devices"},
     adds |-> {"dispatch_key", "sealed_document", "work_device_fk"}, drops |-> {}]
ProtectManagedPayloads ==
    [creates |-> {"managed_payloads"}, uses |-> {"commands", "managed_work"},
     adds |-> {"idempotency_key", "payload_deleted_at"}, drops |-> {"sealed_document"}]
RegisterAgentVerificationKeys ==
    [creates |-> {"agent_verification_keys"}, uses |-> {"agents"}, adds |-> {}, drops |-> {}]
StoreAgentStateObservations ==
    [creates |-> {"agent_state_observations"},
     uses |-> {"commands", "managed_work", "managed_payloads", "agents"},
     adds |-> {"print_job_observation"}, drops |-> {}]
RetireAgentVerificationKeys ==
    [creates |-> {}, uses |-> {"agent_verification_keys", "agents"},
     adds |-> {"retired_at"}, drops |-> {}]
RemoveAgentCertificate ==
    [creates |-> {}, uses |-> {"agents"}, adds |-> {}, drops |-> {"certificate_pem"}]
AtomicEnrollment ==
    [creates |-> {}, uses |-> {"invitations"}, adds |-> {"enrollment_fingerprint"},
     drops |-> {"claimed_at"}]
RouterAdmissionTables ==
    [creates |-> {"router_policies"},
     uses |-> {"organizations", "agents", "agent_verification_keys"}, adds |-> {}, drops |-> {}]
ProjectDeviceInventory ==
    [creates |-> {}, uses |-> {"managed_work", "devices"},
     adds |-> {"identity_digest", "device_class"},
     drops |-> {"work_device_fk", "hardware_fingerprint"}]

\* Migrator::migrations, in the order the names sort.
Migrations == <<CreateFleet, CreateEnrollment, CreateGatewayData, CreateSessions,
                CreateManagedWork, ProtectManagedPayloads, RegisterAgentVerificationKeys,
                StoreAgentStateObservations, RetireAgentVerificationKeys,
                RemoveAgentCertificate, AtomicEnrollment, RouterAdmissionTables,
                ProjectDeviceInventory>>

Pending == {"pending_agent", "dispatching"}
LiveWork(rows) == {w \in rows.work : w.state \in Pending /\ w.live}

\* Both payload migrations refuse live pending work and settle what has expired.
SettleExpired(work) ==
    {[w EXCEPT !.state = CASE w.state = "pending_agent" -> "expired"
                           [] w.state = "dispatching" -> "recovery_uncertain"
                           [] OTHER -> w.state,
               !.payload = FALSE] : w \in work}

SamePurpose(k, l) == k.agent = l.agent /\ k.purpose = l.purpose
RetireOlder(keys) ==
    {[k EXCEPT !.retired = \E l \in keys : SamePurpose(k, l) /\ l.at > k.at] : k \in keys}
\* The second UPDATE: of the keys still active, transport keys other than the
\* agent's and state keys that tie for the newest are retired too.
RetireStray(keys, current) ==
    {IF ~k.retired /\ \/ k.purpose = "transport_identity" /\ k.id # current[k.agent]
                      \/ /\ k.purpose = "agent_state"
                         /\ \E l \in keys \ {k} : SamePurpose(k, l) /\ ~l.retired
     THEN [k EXCEPT !.retired = TRUE] ELSE k : k \in keys}

\* The rows after migration i.
Rewrite(i, rows) ==
    CASE i = 6 -> [rows EXCEPT !.work = SettleExpired(@)]
      [] i = 7 -> [rows EXCEPT !.keys = @ \cup
                      {[id |-> rows.current[a], agent |-> a, purpose |-> "transport_identity",
                        at |-> 0, retired |-> FALSE] : a \in DOMAIN rows.current}]
      [] i = 8 -> [rows EXCEPT !.work = SettleExpired(@)]
      [] i = 9 -> [rows EXCEPT !.keys = RetireStray(RetireOlder(@), rows.current)]
      [] i = 11 -> [rows EXCEPT !.invitations =
                      {IF v.state = "claimed" THEN [v EXCEPT !.state = "failed"] ELSE v : v \in @}]
      [] i = 13 -> [rows EXCEPT !.devices = {}]
      [] OTHER -> rows

\* Fault: only dispatched work is looked for.
RefusesDispatchingWork(i, rows) ==
    i \in {6, 8} /\ \E w \in LiveWork(rows) : w.state = "dispatching"
\* The check at the top of both payload migrations, under their table locks.
RefusesLiveWork(i, rows) == i \in {6, 8} /\ LiveWork(rows) # {}

\* Why migration i fails, if it does: the check for live work, a relation or a column its
\* statements need, or the unique index on active keys.
Refusal(i, db) ==
    LET m == Migrations[i]
        keys == Rewrite(i, db.rows).keys
    IN  IF RefusesLiveWork(i, db.rows) THEN "live_work"
        ELSE IF \/ ~(m.uses \subseteq db.tables) \/ m.creates \cap db.tables # {}
                \/ ~(m.drops \subseteq db.columns) \/ m.adds \cap db.columns # {}
             THEN "schema"
        ELSE IF i = 9 /\ \E k, l \in keys : k # l /\ SamePurpose(k, l) /\ ~k.retired /\ ~l.retired
             THEN "unique" ELSE "none"

ApplyMigration(i, db) ==
    [db EXCEPT !.applied = i, !.history = TRUE,
               !.tables = @ \cup Migrations[i].creates,
               !.columns = (@ \ Migrations[i].drops) \cup Migrations[i].adds,
               !.rows = Rewrite(i, @)]

-----------------------------------------------------------------------------
(* The processes.                                                          *)

\* What the command line asks of a process once its configuration is loaded.
Execute(cmd, c) ==
    CASE cmd \in {"validate", "explain"} -> "done"
      [] cmd = "print" -> IF ResolvedSecretFiles(c) = {} THEN "done" ELSE "secrets"
      [] cmd \in {"migrate", "status"} -> "history"
      [] OTHER -> IF c.gateway \/ c.oidc THEN "history" ELSE "onboarding"

Migrates(q) == q.cmd = "migrate" \/ (q.cmd = "serve" /\ q.cfg.migrate_on_startup)

CsStart(w) ==
    /\ csDb = w.db
    /\ csLock = None
    /\ csProc = [p \in CsProcs |->
          [cmd |-> w.started[p].cmd, release |-> w.started[p].release,
           layers |-> w.started[p].layers, at |-> "load", cfg |-> None,
           hist |-> FALSE, sqlx |-> FALSE, next |-> 0, guard |-> FALSE, why |-> "none",
           shown |-> {}]]
    /\ csFaulty = FALSE

CsInit == \E w \in CsWorlds : CsStart(w)

CsGoes(p, at) == csProc' = [csProc EXCEPT ![p].at = at]
CsStops(p, why) == csProc' = [csProc EXCEPT ![p].at = "failed", ![p].why = why, ![p].guard = FALSE]
Releases(p) == csLock' = IF csLock = p THEN None ELSE csLock
CsAt(p, at) == csProc[p].at = at

Load(p) ==
    /\ CsAt(p, "load")
    /\ LET q == csProc[p]
           c == BuildSettings(q.layers)
       IN  IF q.layers.explicit_missing \/ ~Validate(c) THEN CsStops(p, "invalid")
           ELSE csProc' = [csProc EXCEPT ![p].cfg = c, ![p].at = Execute(q.cmd, c),
                              ![p].shown = IF q.cmd = "explain" THEN Overridden(q.layers) ELSE {}]
    /\ UNCHANGED <<csDb, csLock, csFaulty>>

\* `config print-effective --no-redact` shows the secrets it reads.
PrintEffective(p) ==
    /\ CsAt(p, "secrets") /\ CsGoes(p, "done")
    /\ UNCHANGED <<csDb, csLock, csFaulty>>

\* reject_legacy_schema: three queries, one after the other.
ReadHistory(p) ==
    /\ CsAt(p, "history")
    /\ csProc' = [csProc EXCEPT ![p].hist = csDb.history, ![p].at = "sqlx"]
    /\ UNCHANGED <<csDb, csLock, csFaulty>>
ReadSqlx(p) ==
    /\ CsAt(p, "sqlx")
    /\ csProc' = [csProc EXCEPT ![p].sqlx = csDb.sqlx, ![p].at = "schema"]
    /\ UNCHANGED <<csDb, csLock, csFaulty>>
RejectLegacySchema(p) ==
    /\ CsAt(p, "schema")
    /\ LET q == csProc[p] IN
         IF q.sqlx \/ ("organizations" \in csDb.tables /\ ~q.hist) THEN CsStops(p, "legacy")
         ELSE CsGoes(p, IF Migrates(q) THEN "lock" ELSE "status_history")
    /\ UNCHANGED <<csDb, csLock, csFaulty>>

\* migrate: the lock belongs to the guard connection, the work runs on the pool.
TakeLock(p) ==
    /\ CsAt(p, "lock") /\ csLock = None
    /\ csLock' = p
    /\ csProc' = [csProc EXCEPT ![p].at = "pending", ![p].guard = TRUE]
    /\ UNCHANGED <<csDb, csFaulty>>
LockTimesOut(p) ==
    /\ CsFaults /\ CsAt(p, "lock") /\ csLock # None
    /\ CsStops(p, "lock") /\ csFaulty' = TRUE
    /\ UNCHANGED <<csDb, csLock>>
GetPendingMigrations(p) ==
    /\ CsAt(p, "pending")
    /\ csDb' = [csDb EXCEPT !.history = TRUE]
    /\ IF csDb.applied > csProc[p].release THEN CsStops(p, "newer") /\ Releases(p)
       ELSE /\ csProc' = [csProc EXCEPT ![p].next = csDb.applied + 1, ![p].at = "up"]
            /\ UNCHANGED csLock
    /\ UNCHANGED csFaulty
\* Migrator::up, one migration and its history row in one transaction.
Up(p) ==
    /\ CsAt(p, "up")
    /\ LET q == csProc[p] IN
         IF q.next > q.release
         THEN CsGoes(p, "close") /\ UNCHANGED <<csDb, csLock>>
         ELSE IF csDb.applied # q.next - 1
         THEN CsStops(p, "conflict") /\ Releases(p) /\ UNCHANGED csDb
         ELSE IF Refusal(q.next, csDb) # "none"
         THEN CsStops(p, Refusal(q.next, csDb)) /\ Releases(p) /\ UNCHANGED csDb
         ELSE /\ csDb' = ApplyMigration(q.next, csDb)
              /\ csProc' = [csProc EXCEPT ![p].next = q.next + 1]
              /\ UNCHANGED csLock
    /\ UNCHANGED csFaulty
\* Closing the guard releases the lock; a guard lost on the way makes a finished
\* migration report an error.
CloseGuard(p) ==
    /\ CsAt(p, "close")
    /\ IF csProc[p].guard THEN CsGoes(p, IF csProc[p].cmd = "serve" THEN "onboarding" ELSE "done")
       ELSE CsStops(p, "external")
    /\ Releases(p)
    /\ UNCHANGED <<csDb, csFaulty>>
GuardIsLost(p) ==
    /\ CsFaults /\ csLock = p
    /\ csLock' = None /\ csFaulty' = TRUE
    /\ csProc' = [csProc EXCEPT ![p].guard = FALSE]
    /\ UNCHANGED csDb

\* status and ensure_current: a process that finds migrations to apply stops.
MigrationStatus(p) ==
    /\ CsAt(p, "status_history")
    /\ LET q == csProc[p] IN
         IF ~csDb.history THEN CsStops(p, "pending")
         ELSE IF csDb.applied > q.release THEN CsStops(p, "newer")
         ELSE IF csDb.applied < q.release THEN CsStops(p, "pending")
         ELSE CsGoes(p, IF q.cmd = "serve" THEN "onboarding" ELSE "done")
    /\ UNCHANGED <<csDb, csLock, csFaulty>>

\* The services, in the order build makes them.  Each stops the process on a
\* configuration it cannot use.
BuildOnboarding(p) ==
    /\ CsAt(p, "onboarding")
    /\ LET c == csProc[p].cfg IN
         IF c.gateway /\ c.base_url = "bad" THEN CsStops(p, "configuration")
         ELSE CsGoes(p, "identity")
    /\ UNCHANGED <<csDb, csLock, csFaulty>>
BuildIdentity(p) ==
    /\ CsAt(p, "identity")
    /\ LET c == csProc[p].cfg IN
         IF c.oidc /\ (c.public_url = "none" \/ c.issuer = "none") THEN CsStops(p, "configuration")
         ELSE IF c.oidc /\ c.client_secret = "unreadable" THEN CsStops(p, "external")
         ELSE CsGoes(p, "certificate")
    /\ UNCHANGED <<csDb, csLock, csFaulty>>
BuildCertificateIssuer(p) ==
    /\ CsAt(p, "certificate")
    /\ LET c == csProc[p].cfg IN
         IF c.gateway /\ c.certificate = "step_ca" /\ ~c.step_ca THEN CsStops(p, "configuration")
         ELSE CsGoes(p, "openbao")
    /\ UNCHANGED <<csDb, csLock, csFaulty>>
BuildOpenBao(p) ==
    /\ CsAt(p, "openbao")
    /\ LET c == csProc[p].cfg IN
         IF c.gateway /\ c.dispatch /\ ~OpenBaoValid(c, TRUE) THEN CsStops(p, "configuration")
         ELSE CsGoes(p, "security")
    /\ UNCHANGED <<csDb, csLock, csFaulty>>
BuildWorkSecurity(p) ==
    /\ CsAt(p, "security")
    /\ LET c == csProc[p].cfg IN
         IF c.gateway /\ c.dispatch /\ ~(c.dispatch_key /\ c.transit)
         THEN CsStops(p, "configuration")
         ELSE CsGoes(p, "admission")
    /\ UNCHANGED <<csDb, csLock, csFaulty>>
\* The router admission controller signs a sample policy, which checks its names.
BuildRouterAdmission(p) ==
    /\ CsAt(p, "admission")
    /\ LET c == csProc[p].cfg IN
         IF c.gateway /\ ~(RouterPolicyValid(c) /\ c.policy_names) THEN CsStops(p, "configuration")
         ELSE CsGoes(p, "listening")
    /\ UNCHANGED <<csDb, csLock, csFaulty>>

\* A connection, a secret file or a service the step needs fails.
External == {"secrets", "history", "sqlx", "schema", "lock", "pending", "up", "status_history",
             "onboarding", "identity", "certificate", "openbao", "security", "admission"}
ServiceFails(p) ==
    /\ CsFaults /\ csProc[p].at \in External
    /\ CsStops(p, "external") /\ Releases(p) /\ csFaulty' = TRUE
    /\ UNCHANGED csDb

\* What the INSERT of a release names: the document in the row, or a payload of its own.
WorkColumns(release) ==
    IF release < 6 THEN {"sealed_document"}
    ELSE {"idempotency_key", "payload_deleted_at"}
         \cup IF release < 8 THEN {} ELSE {"print_job_observation"}

\* A serving controller admits work, unless the schema has moved on; its deadline passes.
AdmitWork(p) ==
    /\ CsAt(p, "listening") /\ csProc[p].cfg.gateway /\ csProc[p].cfg.dispatch
    /\ WorkColumns(csProc[p].release) \subseteq csDb.columns /\ csDb.rows.work = {}
    /\ csDb' = [csDb EXCEPT !.rows.work =
                  {[id |-> 1, state |-> "dispatching", live |-> TRUE, payload |-> TRUE]}]
    /\ UNCHANGED <<csLock, csProc, csFaulty>>
WorkExpires ==
    /\ \E w \in LiveWork(csDb.rows) :
          csDb' = [csDb EXCEPT !.rows.work = (@ \ {w}) \cup {[w EXCEPT !.live = FALSE]}]
    /\ UNCHANGED <<csLock, csProc, csFaulty>>

CsStep(p) ==
    \/ Load(p) \/ PrintEffective(p) \/ ReadHistory(p) \/ ReadSqlx(p) \/ RejectLegacySchema(p)
    \/ TakeLock(p) \/ LockTimesOut(p) \/ GetPendingMigrations(p) \/ Up(p) \/ CloseGuard(p)
    \/ GuardIsLost(p) \/ MigrationStatus(p) \/ BuildOnboarding(p) \/ BuildIdentity(p)
    \/ BuildCertificateIssuer(p) \/ BuildOpenBao(p) \/ BuildWorkSecurity(p)
    \/ BuildRouterAdmission(p) \/ ServiceFails(p) \/ AdmitWork(p)
CsNext == WorkExpires \/ \E p \in CsProcs : CsStep(p)
CsSpec == CsInit /\ [][CsNext]_csVars

-----------------------------------------------------------------------------
(* Properties.                                                             *)


\* Migrating never takes away work an agent may still execute.
LiveWorkSurvives == [][LiveWork(csDb.rows) \subseteq
                         LiveWork(csDb'.rows) \cup {w \in LiveWork(csDb.rows) :
                            [w EXCEPT !.live = FALSE] \in csDb'.rows.work}]_csVars

=============================================================================
