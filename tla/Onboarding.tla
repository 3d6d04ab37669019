----------------------------- MODULE Onboarding -----------------------------
(***************************************************************************)
(* Enrollment of Agents in the Controller's database: invitations, the     *)
(* throttle on wrong secrets, the enrollment transaction and its replay,   *)
(* verification keys, the Device Projection fed by Agent snapshots, and    *)
(* the retirement of an Agent's credentials.                               *)
(*                                                                         *)
(* A transaction is one step, except that enrollment and publication are   *)
(* cut where they have read something they use after waiting for a lock:   *)
(* tx[i] holds the row lock of invitation i, pub is a publication that has *)
(* read its Agent but not yet locked the invitation.  Every reading of the *)
(* clock is later than the readings before it (microseconds in the code).  *)
(***************************************************************************)
EXTENDS Options, FiniteSetsExt

CONSTANTS
  Invitations,       \* invitation ids; the secret is generated with the id
  Agents,            \* each is derived from one transport key
  StateKeys,         \* Agent State signing keys
  Requests,          \* enrollment requests: the Agent named, its transport key, the
                     \* key of its CSR, its State key, its dispatch key, the protocol
                     \* versions it supports, its credential and a snapshot
  Versions,          \* supported_protocol_versions, best first
  Snapshots,         \* status snapshots an Agent may send: [at, inventory]
  MaxFailures,       \* InvitationAttemptLimit.max_failures
  Window,            \* InvitationAttemptLimit.window
  Lifetime,          \* invitation_ttl
  Horizon,           \* bound on clock readings
  MaxPublications    \* bound on distinct snapshot messages

ASSUME OnboardingConstants ==
  /\ MaxFailures \in Nat /\ Window \in Nat /\ Lifetime \in Nat \ {0}
  /\ Horizon \in Nat /\ MaxPublications \in Nat
  /\ \A s \in Snapshots : s.at \in Nat
  /\ Requests \subseteq [agent : Agents, transport : Agents, csr : Agents,
                         state : StateKeys \cup Agents, dispatch : {"x25519", "zero"},
                         versions : SUBSET {1, 2}, bearer : {"code", "none", "malformed"},
                         snapshot : Snapshots]
  /\ None \notin Agents /\ None \notin Nat
  /\ None \notin {"created", "enrolled", "online", "expired", "revoked"}
  /\ None \notin [agent : Agents, purpose : {"transport", "state"}, retired : BOOLEAN]

VARIABLES
  now,          \* the database clock
  inv,          \* invitations
  attempts,     \* attempts[i]: times of the stored wrong-secret attempts
  tx,           \* tx[i]: the enrollment transaction that holds i's lock
  agent,        \* agents: last_enrolled_at, or None
  keys,         \* agent_verification_keys by key: owner and retirement
  devices,      \* devices[a]: the Device Projection
  pub,          \* a publication between its two reads of the Agent
  seen,         \* publications stored: <<agent, snapshot>>
  retirements,  \* retirements[a]: audit events of credential retirement
  revision      \* router_policies.authority_revision

onbVars == <<now, inv, attempts, tx, agent, keys, devices, pub, seen,
             retirements, revision>>

\* validate_identity(): the Agent ID and the CSR identify the transport key.
Identified(r) == r.agent = r.transport /\ r.csr = r.transport

\* validate_state_signing_key(): a well-formed key other than the transport key.
ValidStateKey(r) == r.state \in StateKeys \ {r.transport}

\* validate_dispatch_key(): a key ID, the KEM and 32 bytes that are not all zero.
ValidDispatchKey(r) == r.dispatch = "x25519"

\* select_protocol_version(): the Controller's first choice among the Agent's.
SelectProtocolVersion(r) ==
  LET common == {i \in DOMAIN Versions : Versions[i] \in r.versions}
  IN IF common = {} THEN None ELSE Versions[Min(common)]

\* invitation_code(): the bearer token is there and parses.
InvitationCode(r) == r.bearer = "code"

\* enroll(), before its transaction.
ValidEnrollment(r) ==
  /\ Identified(r) /\ ValidDispatchKey(r) /\ ValidStateKey(r)
  /\ SelectProtocolVersion(r) # None
  /\ InvitationCode(r)

\* enrollment_fingerprint(): everything but the time and the snapshot, and
\* of the versions the one selected.
Fingerprint(r) == <<r.agent, r.transport, r.csr, r.state, r.dispatch, SelectProtocolVersion(r)>>

NoInvitation == [state |-> None, expires |-> 0, agent |-> None, at |-> None,
                 fingerprint |-> None, snapshot |-> None]

KeyRow(a, purpose) == [agent |-> a, purpose |-> purpose, retired |-> FALSE]
RetireKey(row) == [row EXCEPT !.retired = TRUE]
ActiveKey(a, k, purpose) == keys[k] = KeyRow(a, purpose)

\* active_agents(): enrolled, with an active transport key and State key.
ActiveAgents == {a \in Agents : agent[a] # None /\ ActiveKey(a, a, "transport")
                                /\ \E k \in DOMAIN keys : ActiveKey(a, k, "state")}

OnbInit ==
  /\ now = 0
  /\ inv = [i \in Invitations |-> NoInvitation]
  /\ attempts = [i \in Invitations |-> {}]
  /\ tx = [i \in Invitations |-> None]
  /\ agent = [a \in Agents |-> None]
  /\ keys = [k \in StateKeys \cup Agents |-> None]
  /\ devices = [a \in Agents |-> {}]
  /\ pub = None
  /\ seen = {}
  /\ retirements = [a \in Agents |-> 0]
  /\ revision = 0

\* Utc::now(): a later reading than any before.
ReadClock == now < Horizon /\ now' = now + 1

CreateInvitation(i) ==
  /\ inv[i] = NoInvitation
  /\ inv' = [inv EXCEPT ![i] = [NoInvitation EXCEPT !.state = "created",
                                                    !.expires = now + Lifetime]]
  /\ UNCHANGED <<now, attempts, tx, agent, keys, devices, pub, seen, retirements, revision>>

\* expire_invitation() and invitations(): only what was never used expires.
Expired(i, t) ==
  IF inv[i].state = "created" /\ inv[i].expires < t
    THEN [inv[i] EXCEPT !.state = "expired"] ELSE inv[i]

ListInvitations ==
  /\ \A i \in Invitations : tx[i] = None
  /\ ReadClock
  /\ inv' = [i \in Invitations |-> Expired(i, now)]
  /\ UNCHANGED <<attempts, tx, agent, keys, devices, pub, seen, retirements, revision>>

\* revoke_invitation(): every state but online and revoked.
RevokeInvitation(i) ==
  /\ tx[i] = None
  /\ inv[i].state \notin {None, "online", "revoked"}
  /\ inv' = [inv EXCEPT ![i].state = "revoked"]
  /\ UNCHANGED <<now, attempts, tx, agent, keys, devices, pub, seen, retirements, revision>>

RecentFailures(i, t) == {f \in attempts[i] : f >= t - Window}

Throttled(i, t) == Cardinality(RecentFailures(i, t)) >= Max({MaxFailures, 1})

\* enroll_agent() with a wrong secret: the one rejection that commits.
WrongSecret(i) ==
  /\ inv[i].state # None /\ tx[i] = None
  /\ ReadClock
  /\ ~Throttled(i, now)
  /\ attempts' = [attempts EXCEPT ![i] = RecentFailures(i, now) \cup {now}]
  /\ UNCHANGED <<inv, tx, agent, keys, devices, pub, seen, retirements, revision>>

\* enroll_agent() with the right secret, up to the first write: the row is
\* locked, then the time is read.
EnrollLock(i, r) ==
  /\ ValidEnrollment(r)
  /\ inv[i].state \in {"created", "enrolled"} /\ tx[i] = None
  /\ ReadClock
  /\ ~Throttled(i, now)
  /\ now < inv[i].expires
  /\ tx' = [tx EXCEPT ![i] = [request |-> r, at |-> now]]
  /\ UNCHANGED <<inv, attempts, agent, keys, devices, pub, seen, retirements, revision>>

\* Any error of prepare() or of a write rolls the transaction back.
EnrollRollback(i) ==
  /\ tx[i] # None
  /\ tx' = [tx EXCEPT ![i] = None]
  /\ UNCHANGED <<now, inv, attempts, agent, keys, devices, pub, seen, retirements, revision>>

\* register_verification_key(): a key keeps its owner, a retired key is
\* refused, and the other active keys of the purpose are retired.
MayRegister(a, k, purpose) == keys[k] \in {None, KeyRow(a, purpose)}

\* Mutant: the previous key of the purpose stays active.
RegisteredBeside(a, k, purpose) == [keys EXCEPT ![k] = KeyRow(a, purpose)]

Registered(a, k, purpose) ==
  [x \in DOMAIN keys |->
     IF x = k THEN KeyRow(a, purpose)
     ELSE IF ActiveKey(a, x, purpose) THEN RetireKey(keys[x])
     ELSE keys[x]]

\* InventoryProjection::parse(): no Device id and no identity twice.
Parses(inventory) ==
  \A d, e \in inventory : (d.id = e.id) <=> (d.identity = e.identity)

\* InventoryProjection::apply(): a known id keeps its identity and a known
\* identity its id; what the inventory leaves out is withdrawn.
Applies(a, inventory) ==
  \A d \in inventory : \A s \in devices[a] : (s.id = d.id) <=> (s.identity = d.identity)

\* persist_enrollment(): the Agent row, a fresh Projection, both keys, the
\* invitation; the trigger moves the authority revision.
PersistEnrollment(i) ==
  LET r == tx[i].request
      a == r.agent
  IN /\ tx[i] # None
     /\ inv[i].state = "created"
     /\ Parses(r.snapshot.inventory)
     /\ MayRegister(a, a, "transport") /\ MayRegister(a, r.state, "state")
     /\ agent' = [agent EXCEPT ![a] = tx[i].at]
     /\ devices' = [devices EXCEPT ![a] = r.snapshot.inventory]
     /\ keys' = [Registered(a, r.state, "state") EXCEPT ![a] = KeyRow(a, "transport")]
     /\ attempts' = [attempts EXCEPT ![i] = {}]
     /\ inv' = [inv EXCEPT ![i] = [@ EXCEPT !.state = "enrolled", !.agent = a,
                                            !.at = tx[i].at,
                                            !.fingerprint = Fingerprint(r),
                                            !.snapshot = r.snapshot]]
     /\ revision' = revision + 1
     /\ tx' = [tx EXCEPT ![i] = None]
     /\ UNCHANGED <<now, pub, seen, retirements>>

NotReplaced(i, r) == agent[r.agent] = inv[i].at

\* replayed_enrollment(): same Agent, same fingerprint, enrollment not
\* replaced; nothing is written and the expiry is read once more.
ReplayEnrollment(i) ==
  LET r == tx[i].request
  IN /\ tx[i] # None
     /\ inv[i].state = "enrolled"
     /\ inv[i].agent = r.agent
     /\ inv[i].fingerprint = Fingerprint(r)
     /\ NotReplaced(i, r)
     /\ now < inv[i].expires
     /\ tx' = [tx EXCEPT ![i] = None]
     /\ UNCHANGED <<now, inv, attempts, agent, keys, devices, pub, seen,
                    retirements, revision>>

\* The trigger on agent_verification_keys.
TriggerFires(active) == IF active # {} THEN 1 ELSE 0

\* retire_agent_credentials(): waits for the invitations bound to the Agent.
RetireCredentials(a) ==
  LET active == {k \in DOMAIN keys : \E p \in {"transport", "state"} : ActiveKey(a, k, p)}
  IN /\ agent[a] # None
     /\ \A i \in Invitations : inv[i].agent = a => tx[i] = None
     /\ keys' = [k \in DOMAIN keys |->
                   IF k \in active THEN RetireKey(keys[k]) ELSE keys[k]]
     /\ inv' = [i \in Invitations |->
                  IF inv[i].agent = a /\ inv[i].state \in {"enrolled", "online"}
                    THEN [inv[i] EXCEPT !.state = "revoked"] ELSE inv[i]]
     /\ devices' = [devices EXCEPT ![a] = {}]
     /\ retirements' = [retirements EXCEPT ![a] = @ + (IF active # {} THEN 1 ELSE 0)]
     /\ revision' = revision + TriggerFires(active)
     /\ UNCHANGED <<now, attempts, tx, agent, pub, seen>>

\* record_publication_transaction() of a status snapshot, first read.
PublishRead(a, s) ==
  /\ pub = None
  /\ agent[a] # None
  /\ Parses(s.inventory)
  /\ <<a, s>> \in seen \/ Cardinality(seen) < MaxPublications
  /\ pub' = [agent |-> a, snapshot |-> s, enrolled |-> agent[a]]
  /\ UNCHANGED <<now, inv, attempts, tx, agent, keys, devices, seen, retirements, revision>>

\* The invitation whose enrollment the first read saw, if it still counts.
BoundInvitation(p) ==
  {i \in Invitations : /\ inv[i].agent = p.agent /\ inv[i].at = p.enrolled
                       /\ inv[i].state \in {"enrolled", "online"}}

\* The snapshot is newer than the one the current enrollment holds.
Fresh(p, i) ==
  /\ inv[i].at = agent[p.agent]
  /\ p.snapshot.at > inv[i].snapshot.at

\* The rest of the transaction, once the invitation's lock is free; a
\* changed Device identity rolls it back, a duplicate changes nothing.
PublishCommit ==
  /\ pub # None
  /\ pub' = None
  /\ \A i \in BoundInvitation(pub) : tx[i] = None
  /\ LET fresh == {i \in BoundInvitation(pub) : Fresh(pub, i)}
     IN \/ /\ <<pub.agent, pub.snapshot>> \in seen
           /\ UNCHANGED <<inv, devices, seen>>
        \/ /\ <<pub.agent, pub.snapshot>> \notin seen
           /\ fresh = {}
           /\ seen' = seen \cup {<<pub.agent, pub.snapshot>>}
           /\ UNCHANGED <<inv, devices>>
        \/ /\ <<pub.agent, pub.snapshot>> \notin seen
           /\ fresh # {}
           /\ ~Applies(pub.agent, pub.snapshot.inventory)
           /\ UNCHANGED <<inv, devices, seen>>
        \/ /\ <<pub.agent, pub.snapshot>> \notin seen
           /\ Applies(pub.agent, pub.snapshot.inventory)
           /\ \E i \in fresh :
                /\ inv' = [inv EXCEPT ![i] = [@ EXCEPT !.state = "online",
                                                       !.snapshot = pub.snapshot]]
                /\ devices' = [devices EXCEPT ![pub.agent] = pub.snapshot.inventory]
           /\ seen' = seen \cup {<<pub.agent, pub.snapshot>>}
  /\ UNCHANGED <<now, attempts, tx, agent, keys, retirements, revision>>

OnbNext ==
  \/ \E i \in Invitations :
       \/ CreateInvitation(i) \/ RevokeInvitation(i) \/ WrongSecret(i)
       \/ \E r \in Requests : EnrollLock(i, r)
       \/ EnrollRollback(i) \/ PersistEnrollment(i) \/ ReplayEnrollment(i)
  \/ ListInvitations
  \/ \E a \in Agents : RetireCredentials(a) \/ \E s \in Snapshots : PublishRead(a, s)
  \/ PublishCommit

OnbSpec == OnbInit /\ [][OnbNext]_onbVars
-----------------------------------------------------------------------------
\* The rows of each table.
InvitationRows ==
  [state : {None, "created", "enrolled", "online", "expired", "revoked"}, expires : Nat,
   agent : Agents \cup {None}, at : (0..Horizon) \cup {None},
   fingerprint : {Fingerprint(r) : r \in Requests} \cup {None}, snapshot : Snapshots \cup {None}]
KeyRows == [agent : Agents, purpose : {"transport", "state"}, retired : BOOLEAN]

OnbTypeOK ==
  /\ now \in 0..Horizon
  /\ inv \in [Invitations -> InvitationRows]
  /\ attempts \in [Invitations -> SUBSET (0..Horizon)]
  /\ tx \in [Invitations -> [request : Requests, at : 0..Horizon] \cup {None}]
  /\ agent \in [Agents -> (0..Horizon) \cup {None}]
  /\ keys \in [StateKeys \cup Agents -> KeyRows \cup {None}]
  /\ DOMAIN devices = Agents
  /\ pub \in [agent : Agents, snapshot : Snapshots, enrolled : 0..Horizon] \cup {None}
  /\ retirements \in [Agents -> Nat]
  /\ revision \in Nat

Retired(a) == keys[a] = RetireKey(KeyRow(a, "transport"))

\* A retired Agent stays out: it has no active State key, no Device
\* and no live invitation, whatever enrollment or publication was under way
\* when its credentials were retired, and its retirement is audited once.
RetiredStaysOut ==
  \A a \in Agents : Retired(a) =>
    /\ \A k \in DOMAIN keys : keys[k] # KeyRow(a, "state")
    /\ devices[a] = {}
    /\ \A i \in Invitations : inv[i].agent = a => inv[i].state \notin {"enrolled", "online"}
    /\ retirements[a] = 1

\* An enrolled Agent that is not retired has its transport key and exactly
\* one State key: re-enrollment replaces keys, it never accumulates them.
OneKeyPerPurpose ==
  \A a \in Agents : agent[a] # None /\ ~Retired(a) =>
    /\ ActiveKey(a, a, "transport")
    /\ Cardinality({k \in DOMAIN keys : ActiveKey(a, k, "state")}) = 1

\* The Projection of an Agent is the inventory of the newest snapshot of its
\* current enrollment: no snapshot of a replaced enrollment gets in.
ProjectionIsCurrent ==
  \A i \in Invitations :
    inv[i].state \in {"enrolled", "online"} /\ agent[inv[i].agent] = inv[i].at
      => devices[inv[i].agent] = inv[i].snapshot.inventory

\* Every change of the Agents the Routers may admit moves the authority
\* revision, which is what invalidates the Routers' acknowledgment.
RevisionCovers ==
  [][ActiveAgents' # ActiveAgents => revision' > revision]_onbVars

\* An invitation is consumed once: its Agent, time and fingerprint never
\* change, and revoked and expired invitations never come back to life.
ConsumedOnce ==
  [][\A i \in Invitations :
       /\ inv[i].agent # None =>
            <<inv'[i].agent, inv'[i].at, inv'[i].fingerprint>>
              = <<inv[i].agent, inv[i].at, inv[i].fingerprint>>
       /\ inv[i].state = "revoked" => inv'[i].state = "revoked"
       /\ inv[i].state = "expired" => inv'[i].state \in {"expired", "revoked"}]_onbVars

-----------------------------------------------------------------------------
(* The inductive invariant behind these properties.                        *)

\* Every enrollment holds a clock reading of its own; an invitation is bound
\* to an Agent when it is consumed and not before.
TimesInv ==
  /\ \A i \in Invitations :
       /\ tx[i] # None => ValidEnrollment(tx[i].request) /\ tx[i].at < now
       /\ inv[i].at # None => inv[i].at < now
       /\ inv[i].state \in {None, "created", "expired"} => inv[i].agent = None /\ inv[i].at = None
       /\ inv[i].state \in {"enrolled", "online"} => inv[i].agent # None /\ inv[i].at # None
  /\ \A i, j \in Invitations : i # j =>
       /\ inv[i].at # None => inv[i].at # inv[j].at
       /\ tx[i] # None => inv[j].at # tx[i].at
       /\ tx[i] # None /\ tx[j] # None => tx[i].at # tx[j].at

\* An enrolled Agent owns its transport key, for good; while that key is
\* active there is one State key, and no key belongs to anyone else.
KeysInv ==
  /\ \A a \in Agents : agent[a] # None => ActiveKey(a, a, "transport") \/ Retired(a)
  /\ \A a \in Agents : ActiveKey(a, a, "transport") =>
       \E k \in DOMAIN keys : \A x \in DOMAIN keys : ActiveKey(a, x, "state") <=> x = k
  /\ \A k \in DOMAIN keys : keys[k] # None =>
       /\ agent[keys[k].agent] # None
       /\ keys[k].purpose = "transport" => keys[k].agent = k

\* Credentials are retired once.
RetirementInv == \A a \in Agents : ~Retired(a) => retirements[a] = 0

OnbInv ==
  OnbTypeOK /\ TimesInv /\ KeysInv /\ RetiredStaysOut /\ RetirementInv /\ ProjectionIsCurrent

=============================================================================
