-------------------------- MODULE RouterManagement --------------------------
(***************************************************************************)
(* The management channel between a Controller (inari-server) and a Router *)
(* Supervisor (inari-router), and the access control a Router runs with.   *)
(*                                                                         *)
(* Both ends keep their TLS objects in a cache and read three files (CA,   *)
(* certificate, private key) before each use of it.  The files are rotated *)
(* one at a time while they are read.  A request outlives its caller: what *)
(* the Supervisor's queue accepted is applied after the caller gave up.    *)
(*                                                                         *)
(* A file is a version number, 0 when it is empty or unreadable; a digest  *)
(* is the triple of versions.  A namespace is the prefix and an Agent's    *)
(* name.  Activation is one step here; RouterSupervisor has its steps.     *)
(***************************************************************************)
EXTENDS Options

CONSTANTS
  RmCalls,       \* concurrent calls of the Controller
  RmWorlds,      \* the documents each call may send (docs), the files that
                 \* are replaced (rotates, at most rotations times) and the
                 \* end of the clock
  RmAgents,      \* the names of the form agt_ and 24 hexadecimal digits
  RmPrefixed,    \* other names that begin with agt_
  RmRoots,       \* RmRoots[v]: the issuers version v of a CA file holds
  RmCerts,       \* RmCerts[v]: name, start and end of certificate version v
  RmKey,         \* the configured signing key
  RmFleet,       \* the configured fleet
  RmMaxLife,     \* five minutes
  RmLimits,      \* [peers |-> 64, agents |-> 10000, generation |-> 2^53 - 1]
  RmQueueSize    \* mpsc::channel(16)

VARIABLES
  rmWorld,       \* the world of this behaviour
  rmNow,         \* the clock
  files,         \* files[side]: the versions of ca, cert and key
  rotated,       \* file replacements so far
  loaded,        \* the Controller's RouterAdmissionController exists
  pool,          \* HttpsManagement.current: material and its idle connection
  clientLock,    \* who holds HttpsManagement.current
  acceptor,      \* ManagementAcceptor.current: the digest it was built from
  acceptLock,    \* who holds ManagementAcceptor.current
  rmCall,        \* the Controller's calls
  rmQueue,       \* calls whose document the Supervisor accepted
  router         \* the policy the Router runs, or None

rmVars == <<rmWorld, rmNow, files, rotated, loaded, pool, clientLock, acceptor, acceptLock, rmCall, rmQueue, router>>
channel == <<pool, clientLock, acceptor, acceptLock>>

Blank == [ca |-> 0, cert |-> 0, key |-> 0]
NoPool == [material |-> Blank, idle |-> None]
NoCall == [at |-> "idle", doc |-> None, seen |-> Blank, since |-> Blank, conn |-> None, answer |-> 0]
-----------------------------------------------------------------------------
(* policy.rs *)

\* "*" stands for a name with a character outside the literal ones.
LiteralName(name) == name \notin {"", "*"}

LiteralNamespace(prefix) == \A i \in DOMAIN prefix : prefix[i] \notin {".", ".."} /\ LiteralName(prefix[i])

RmAgentName(name) == name \in RmAgents

\* validate(): version, generation, fleet, times and prefix.
ValidHeader(p) ==
  /\ p.version = 1 /\ p.generation \in 1..RmLimits.generation /\ LiteralName(p.fleet)
  /\ p.issued <= p.start /\ p.start < p.end
  /\ p.end - p.issued \in 1..RmMaxLife
  /\ LiteralNamespace(p.prefix)

\* Mutant: an Agent's namespace may be any below the prefix.
ValidSubjectsAnyNamespace(p) ==
  /\ Len(p.peers) \in 1..RmLimits.peers /\ Len(p.agents) <= RmLimits.agents
  /\ \A i \in DOMAIN p.agents : RmAgentName(p.agents[i].name)

\* validate(): the counts, and every subject once with its own namespace.
ValidSubjects(p) ==
  LET names == p.peers \o [i \in DOMAIN p.agents |-> p.agents[i].name]
  IN /\ Len(p.peers) \in 1..RmLimits.peers /\ Len(p.agents) <= RmLimits.agents
     /\ \A i, j \in DOMAIN names : names[i] = names[j] => i = j
     /\ \A i \in DOMAIN p.peers : LiteralName(p.peers[i]) /\ p.peers[i] \notin RmAgents \cup RmPrefixed
     /\ \A i \in DOMAIN p.agents : /\ RmAgentName(p.agents[i].name)
                                   /\ p.agents[i].namespace = <<p.prefix, p.agents[i].name>>

SignPolicy(p, key) == IF ValidHeader(p) /\ ValidSubjects(p) THEN [policy |-> p, key |-> key] ELSE Err

VerifyPolicy(d) ==
  /\ ValidHeader(d.policy) /\ ValidSubjects(d.policy)
  /\ d.policy.fleet = RmFleet
  /\ d.key = RmKey

-----------------------------------------------------------------------------
(* acl.rs, and the access control of the Controller's own session *)

RmMessages == {"put", "delete", "subscriber", "query", "reply", "queryable", "token", "token query",
               "token subscriber"}
RmPaths == {"presence", "status", "results", "events", "errors", "live", "history", "commit"}
Grant(flows, messages, paths) == [flows |-> flows, messages |-> messages, paths |-> paths]

\* access_control(): what one Agent may do in its namespace.
AgentGrants(prefix) ==
  { Grant({"ingress"}, {"put"}, {"presence", "status", "results", "events", "errors"}),
    Grant({"ingress"}, {"token"}, {"presence"}),
    Grant({"ingress"}, {"subscriber"}, {"live"}),
    Grant({"egress"}, {"put"}, {"live"}),
    Grant({"ingress"}, {"query"}, {"history", "commit"}),
    Grant({"egress"}, {"reply", "queryable"}, {"history", "commit"}) }

GrantMatches(g, flow, message, path) == flow \in g.flows /\ message \in g.messages /\ path \in g.paths

\* The Router's rules for a subject, a namespace and a message; the rest is
\* denied.  Trusted peers have the prefix.
RouterAllows(p, name, space, flow, message, path) ==
  \/ /\ name \in {p.peers[i] : i \in DOMAIN p.peers}
     /\ space[1] = p.prefix /\ message \in RmMessages
  \/ \E i \in DOMAIN p.agents :
       /\ p.agents[i].name = name /\ p.agents[i].namespace = space
       /\ \E g \in AgentGrants(p.prefix) : GrantMatches(g, flow, message, path)

\* apply_access_control(): the rules of the group managed-agents.
ManagedGrants ==
  { Grant({"ingress"}, {"put"}, {"presence", "status", "results", "events", "errors"}),
    Grant({"ingress"}, {"token"}, {"presence"}),
    Grant({"egress"}, {"subscriber"}, RmPaths),
    Grant({"ingress"}, {"query"}, {"commit"}),
    Grant({"egress"}, {"reply", "queryable"}, {"commit"}),
    Grant({"ingress"}, {"subscriber"}, {"live"}),
    Grant({"egress"}, {"put"}, {"live"}),
    Grant({"ingress"}, {"query"}, {"history"}),
    Grant({"egress"}, {"queryable", "reply"}, {"history"}) }

\* apply_access_control(): the group and the default; a deny rule comes first.
SessionAllows(acl, name, flow, message, path) ==
  \/ ~acl.enabled
  \/ /\ ~(flow = "ingress" /\ message \in {"reply", "queryable"} /\ path = "commit" /\ acl.managed)
     /\ \/ acl.default = "allow"
        \/ /\ acl.managed
           /\ acl.names = {} \/ name \in acl.names
           /\ \E g \in ManagedGrants : GrantMatches(g, flow, message, path)

\* What crosses an Agent's link: its publications, commands, and the two
\* queries the Controller answers (managed_gateway/runtime.rs).
Exchanges ==
  {<<"ingress", "put", path>> : path \in {"presence", "status", "results", "events", "errors"}}
  \cup {<<"ingress", "token", "presence">>, <<"ingress", "subscriber", "live">>, <<"egress", "put", "live">>}
  \cup UNION {{<<"egress", "queryable", path>>, <<"ingress", "query", path>>, <<"egress", "reply", path>>}
                : path \in {"history", "commit"}}
-----------------------------------------------------------------------------
(* TLS material *)

\* The key belongs to the certificate: what rustls and reqwest insist on.
Paired(m) == m.cert = m.key

CertCurrent(v) == RmCerts[v].start <= rmNow /\ rmNow < RmCerts[v].end

\* TlsMaterial::load() once the three files are read.
LoadMaterial(m) == m.ca # 0 /\ m.cert # 0 /\ m.key # 0 /\ CertCurrent(m.cert)

\* Mutant: only the certificate is compared with the cached one.
CurrentAcceptorByCert(m) == IF acceptor.cert = m.cert THEN acceptor ELSE IF Paired(m) THEN m ELSE Err

\* current_acceptor() and acceptor(): changed files replace the acceptor.
CurrentAcceptor(m) == IF acceptor = m THEN acceptor ELSE IF Paired(m) THEN m ELSE Err

\* peer_identity(): the one name, and the validity requests are checked by.
PeerIdentity(v, expected) ==
  IF RmCerts[v].name = expected THEN [start |-> RmCerts[v].start, end |-> RmCerts[v].end] ELSE Err

Authorized(peer) == peer.start <= rmNow /\ rmNow < peer.end

\* The two ends of the handshake accept each other's certificate.
Trusts(trust, v) == v \in RmRoots[trust] /\ CertCurrent(v)
-----------------------------------------------------------------------------
(* The Controller *)

Go(c, at) == rmCall' = [rmCall EXCEPT ![c].at = at]

\* A call ends: with its connection kept by the pool of its client, or closed.
EndCall(c, code) == rmCall' = [rmCall EXCEPT ![c] = [@ EXCEPT !.at = "done", !.answer = code]]

\* RouterAdmissionController::load(): the management client is built first.
StartLoad(c) ==
  /\ ~loaded /\ rmCall[c] = NoCall /\ \A b \in RmCalls : rmCall[b] = NoCall
  /\ rmCall' = [rmCall EXCEPT ![c] = [NoCall EXCEPT !.at = "lock"]]
  /\ UNCHANGED <<rmWorld, rmNow, files, rotated, loaded, channel, rmQueue, router>>

\* new(): a sample policy must be one the signer accepts.
ControllerNew(c) ==
  /\ rmCall[c].at = "send" /\ rmCall[c].doc = None
  /\ rmCall' = [rmCall EXCEPT ![c] = NoCall]
  /\ loaded' = \E d \in UNION {rmWorld.docs[b] : b \in RmCalls} : d.key = RmKey /\ SignPolicy(d.policy, RmKey) # Err
  /\ UNCHANGED <<rmWorld, rmNow, files, rotated, channel, rmQueue, router>>

\* HttpsManagement::apply().
StartApply(c, d) ==
  /\ loaded /\ rmCall[c] = NoCall
  /\ rmCall' = [rmCall EXCEPT ![c] = [NoCall EXCEPT !.at = "lock", !.doc = d, !.since = files.controller]]
  /\ UNCHANGED <<rmWorld, rmNow, files, rotated, loaded, channel, rmQueue, router>>

LockClient(c) ==
  /\ rmCall[c].at = "lock" /\ clientLock = None
  /\ clientLock' = c
  /\ Go(c, "ca")
  /\ UNCHANGED <<rmWorld, rmNow, files, rotated, loaded, pool, acceptor, acceptLock, rmQueue, router>>

NextFile(file) == CASE file = "ca" -> "cert" [] file = "cert" -> "key" [] file = "key" -> "refresh"

\* client() after an error of refresh(): the cached client goes too.
ClientFails(c) ==
  /\ pool' = NoPool
  /\ clientLock' = None
  /\ IF rmCall[c].doc = None THEN rmCall' = [rmCall EXCEPT ![c] = NoCall] ELSE EndCall(c, 503)

\* read_material(), one file after the other.
ReadMaterial(c, file) ==
  /\ rmCall[c].at = file
  /\ \/ /\ files.controller[file] = 0
        /\ ClientFails(c)
     \/ /\ files.controller[file] # 0
        /\ rmCall' = [rmCall EXCEPT ![c] = [@ EXCEPT !.at = NextFile(file), !.seen[file] = files.controller[file]]]
        /\ UNCHANGED <<pool, clientLock>>
  /\ UNCHANGED <<rmWorld, rmNow, files, rotated, loaded, acceptor, acceptLock, rmQueue, router>>

\* refresh(): the same bytes keep the client, others replace it and its pool.
Refresh(c) ==
  LET m == rmCall[c].seen
  IN /\ rmCall[c].at = "refresh"
     /\ \/ /\ pool.material = m \/ Paired(m)
           /\ pool' = IF pool.material = m THEN pool ELSE [material |-> m, idle |-> None]
           /\ clientLock' = None
           /\ Go(c, "send")
        \/ /\ pool.material # m /\ ~Paired(m)
           /\ ClientFails(c)
     /\ UNCHANGED <<rmWorld, rmNow, files, rotated, loaded, acceptor, acceptLock, rmQueue, router>>

\* send(): on the client's idle connection, or on a new one.
SendDocument(c) ==
  LET idle == pool.material = rmCall[c].seen /\ pool.idle # None
  IN /\ rmCall[c].at = "send" /\ rmCall[c].doc # None
     /\ \/ /\ idle
           /\ rmCall' = [rmCall EXCEPT ![c] = [@ EXCEPT !.at = "request", !.conn = pool.idle]]
           /\ pool' = [pool EXCEPT !.idle = None]
        \/ /\ ~idle
           /\ rmCall' = [rmCall EXCEPT ![c].at = "accept", ![c].conn =
                           [seen |-> Blank, since |-> files.router.ca, trust |-> 0, cert |-> 0, peer |-> None]]
           /\ UNCHANGED pool
     /\ UNCHANGED <<rmWorld, rmNow, files, rotated, loaded, clientLock, acceptor, acceptLock, rmQueue, router>>

RefuseCall(c, code) ==
  /\ EndCall(c, code)
  /\ acceptLock' = IF acceptLock = c THEN None ELSE acceptLock
-----------------------------------------------------------------------------
(* The Router's management server *)

\* accept(): the cached acceptor is locked while the files are read.
AcceptLocks(c) ==
  /\ rmCall[c].at = "accept" /\ acceptLock = None
  /\ acceptLock' = c
  /\ Go(c, "router ca")
  /\ UNCHANGED <<rmWorld, rmNow, files, rotated, loaded, pool, clientLock, acceptor, rmQueue, router>>

RouterFile(at) == CASE at = "router ca" -> "ca" [] at = "router cert" -> "cert" [] at = "router key" -> "key"
AfterFile(at) == CASE at = "router ca" -> "router cert" [] at = "router cert" -> "router key"
                   [] at = "router key" -> "load"

\* TlsMaterial::load() reads one file after the other.
AcceptReads(c) ==
  LET at == rmCall[c].at
      file == RouterFile(at)
  IN /\ at \in {"router ca", "router cert", "router key"}
     /\ rmCall' = [rmCall EXCEPT ![c] = [@ EXCEPT !.at = AfterFile(at),
                                                  !.conn.seen[file] = files.router[file]]]
     /\ UNCHANGED <<rmWorld, rmNow, files, rotated, loaded, channel, rmQueue, router>>

AcceptLoads(c) ==
  LET m == rmCall[c].conn.seen
  IN /\ rmCall[c].at = "load"
     /\ \/ /\ LoadMaterial(m) /\ CurrentAcceptor(m) # Err
           /\ acceptor' = CurrentAcceptor(m)
           /\ acceptLock' = None
           /\ rmCall' = [rmCall EXCEPT ![c] = [@ EXCEPT !.at = "handshake", !.conn.seen = CurrentAcceptor(m)]]
        \/ /\ ~LoadMaterial(m) \/ CurrentAcceptor(m) = Err
           /\ RefuseCall(c, 503)
           /\ UNCHANGED acceptor
     /\ UNCHANGED <<rmWorld, rmNow, files, rotated, loaded, pool, clientLock, rmQueue, router>>

\* The handshake and the check of the peer's name.
Handshake(c) ==
  LET mine == rmCall[c].seen
      theirs == rmCall[c].conn.seen
      met == Trusts(theirs.ca, mine.cert) /\ Trusts(mine.ca, theirs.cert)
             /\ PeerIdentity(mine.cert, "controller") # Err
  IN /\ rmCall[c].at = "handshake"
     /\ \/ /\ met
           /\ rmCall' = [rmCall EXCEPT ![c] =
                [@ EXCEPT !.at = "request", !.conn.trust = theirs.ca, !.conn.cert = mine.cert,
                          !.conn.peer = PeerIdentity(mine.cert, "controller")]]
        \/ ~met /\ EndCall(c, 503)
     /\ UNCHANGED <<rmWorld, rmNow, files, rotated, loaded, channel, rmQueue, router>>

\* An answer leaves the connection to the pool of its client.
AnswerCall(c, code) ==
  /\ EndCall(c, code)
  /\ pool' = IF pool.material = rmCall[c].seen THEN [pool EXCEPT !.idle = rmCall[c].conn] ELSE pool

\* apply_policy() up to the Supervisor's bounded queue.
TakeRequest(c) ==
  LET ok == Authorized(rmCall[c].conn.peer)
  IN /\ rmCall[c].at = "request"
     /\ \/ /\ ok /\ Len(rmQueue) < RmQueueSize
           /\ rmQueue' = Append(rmQueue, c)
           /\ Go(c, "queued") /\ UNCHANGED pool
        \/ ok /\ Len(rmQueue) >= RmQueueSize /\ AnswerCall(c, 503) /\ UNCHANGED rmQueue
        \/ ~ok /\ AnswerCall(c, 403) /\ UNCHANGED rmQueue
     /\ UNCHANGED <<rmWorld, rmNow, files, rotated, loaded, clientLock, acceptor, acceptLock, router>>

\* response_error() of the Supervisor's checks.
ResponseCode(d) ==
  IF ~VerifyPolicy(d) \/ d.policy.start > rmNow \/ d.policy.end <= rmNow THEN 400
  ELSE IF router # None /\ (\/ d.policy.generation < router.generation
                            \/ d.policy.generation = router.generation /\ d.policy # router) THEN 409
  ELSE 200

\* The Supervisor applies the oldest document, or fails to activate it.
SupervisorApplies ==
  /\ rmQueue # << >>
  /\ rmQueue' = Tail(rmQueue)
  /\ LET c == Head(rmQueue)
         code == ResponseCode(rmCall[c].doc)
     IN \E result \in {code} \cup (IF code = 200 THEN {503} ELSE {}) :
          /\ router' = IF code = 200 THEN rmCall[c].doc.policy ELSE router
          /\ rmCall' = IF rmCall[c].at # "queued" THEN rmCall
                       ELSE [rmCall EXCEPT ![c] = [@ EXCEPT !.at = "applied", !.answer = result]]
  /\ UNCHANGED <<rmWorld, rmNow, files, rotated, loaded, channel>>

\* apply_policy() checks the certificate again before it answers.
Applied(c) ==
  /\ rmCall[c].at = "applied"
  /\ \/ /\ rmCall[c].answer # 200 \/ Authorized(rmCall[c].conn.peer)
        /\ AnswerCall(c, rmCall[c].answer)
     \/ /\ rmCall[c].answer = 200 /\ ~Authorized(rmCall[c].conn.peer)
        /\ AnswerCall(c, 403)
  /\ UNCHANGED <<rmWorld, rmNow, files, rotated, loaded, clientLock, acceptor, acceptLock, rmQueue, router>>

\* The timeouts of the client (20 s), accept() (5 s) and the routes (30 s).
CallTimesOut(c) ==
  /\ rmCall[c].at \in {"accept", "router ca", "router cert", "router key", "load", "handshake", "request", "queued"}
  /\ RefuseCall(c, 503)
  /\ UNCHANGED <<rmWorld, rmNow, files, rotated, loaded, pool, clientLock, acceptor, rmQueue, router>>
-----------------------------------------------------------------------------
(* The environment *)

\* The operator replaces one file, or removes it for a moment.
RotateFile(side, file) ==
  /\ <<side, file>> \in rmWorld.rotates /\ rotated < rmWorld.rotations
  /\ rotated' = rotated + 1
  /\ LET newest == Len(IF file = "ca" THEN RmRoots ELSE RmCerts)
         old == files[side][file]
     IN \E v \in IF old = 0 THEN {newest} ELSE {0} \cup (old + 1..newest) :
          files' = [files EXCEPT ![side][file] = v]
  /\ UNCHANGED <<rmWorld, rmNow, loaded, channel, rmCall, rmQueue, router>>

RmTick ==
  /\ rmNow < rmWorld.until
  /\ rmNow' = rmNow + 1
  /\ UNCHANGED <<rmWorld, files, rotated, loaded, channel, rmCall, rmQueue, router>>

\* from_files(): the Router starts with material that loads.
RmInit ==
  /\ rmWorld \in RmWorlds
  /\ rmNow = 0 /\ rotated = 0 /\ loaded = FALSE
  /\ files = [side \in {"controller", "router"} |-> [ca |-> 1, cert |-> 1, key |-> 1]]
  /\ pool = NoPool /\ clientLock = None
  /\ acceptor = files.router /\ acceptLock = None
  /\ rmCall = [c \in RmCalls |-> NoCall]
  /\ rmQueue = << >> /\ router = None

RmNext ==
  \/ \E c \in RmCalls :
       \/ StartLoad(c) \/ ControllerNew(c) \/ LockClient(c) \/ Refresh(c) \/ SendDocument(c)
       \/ \E d \in rmWorld.docs[c] : StartApply(c, d)
       \/ \E file \in {"ca", "cert", "key"} : ReadMaterial(c, file)
       \/ AcceptLocks(c) \/ AcceptReads(c) \/ AcceptLoads(c) \/ Handshake(c)
       \/ TakeRequest(c) \/ Applied(c) \/ CallTimesOut(c)
  \/ SupervisorApplies
  \/ \E side \in {"controller", "router"}, file \in {"ca", "cert", "key"} : RotateFile(side, file)
  \/ RmTick

RmSpec == RmInit /\ [][RmNext]_rmVars
-----------------------------------------------------------------------------
\* Whatever documents reach the Supervisor, in whatever order and after
\* whatever failure, the rules compile_acl() makes of the one it runs let every
\* message between an admitted Agent and its Controller through, as those of
\* the Controller's session do, and let no Agent act in the namespace of
\* another, nor a subject the policy does not name act at all.
AclIsExact ==
  /\ router # None =>
       /\ \A name, other \in RmAgents, g \in AgentGrants(router.prefix) :
            \A flow \in g.flows, message \in g.messages, path \in g.paths :
              RouterAllows(router, name, <<router.prefix, other>>, flow, message, path)
                => name = other /\ \E i \in DOMAIN router.agents : router.agents[i].name = name
       /\ \A i \in DOMAIN router.agents : \A x \in Exchanges :
            RouterAllows(router, router.agents[i].name, router.agents[i].namespace, x[1], x[2], x[3])
  /\ \A name \in RmAgents, names \in {{}, RmAgents} : \A x \in Exchanges :
       SessionAllows([enabled |-> TRUE, default |-> "deny", managed |-> TRUE, names |-> names],
                     name, x[1], x[2], x[3])

\* A request never travels under credentials that had been replaced before it
\* began: the connection was checked against a CA file read after the Router
\* began to accept it, and shows a certificate read after the call began,
\* whatever the two caches held (docs/router_policy.md: "Content changes
\* replace the TLS acceptor before that handshake").
RotationTakesEffect ==
  \A c \in RmCalls : rmCall[c].at \in {"request", "queued", "applied"} =>
    /\ rmCall[c].conn.trust >= rmCall[c].conn.since
    /\ rmCall[c].conn.cert >= rmCall[c].since.cert

=============================================================================
