--------------------------- MODULE RouterAdmission ---------------------------
(***************************************************************************)
(* How Controller replicas bring every Router to the current Agent policy  *)
(* and how an admission or a retirement is proved to a caller.  The policy *)
(* row of the database, one reconciliation at a time in each replica, and  *)
(* the requests on the wire.  A Router takes the steps of RouterFence, the *)
(* promise that its Supervisor is shown to keep (RouterSupervisor).  Every *)
(* replica is configured with the same Routers.                            *)
(*                                                                         *)
(* A document is a generation and a set of Agents.  Its age is counted by  *)
(* AgePolicies; a document expires at age PolicyLife, is renewed from age  *)
(* PolicyLife - Margin, and an acknowledgment lasts AckLife.  The clocks   *)
(* of Controllers and Routers agree.                                       *)
(***************************************************************************)
EXTENDS Integers, FiniteSets

CONSTANTS
  Members, Routers, Replicas,
  PolicyLife, Margin, AckLife,   \* 45 s, 15 s and 10 s in the code
  ConfigurationDigest,           \* of each replica: what its policies say beside the Agents
  MaxGeneration,                 \* 2^53 - 1 in the code
  MaxRevision                    \* bound on enrollments and retirements

ASSUME AdmissionConstants ==
  /\ PolicyLife \in Nat /\ Margin \in 0..PolicyLife /\ AckLife \in Nat
  /\ MaxGeneration \in Nat /\ MaxRevision \in Nat
  /\ "closed" \notin Members   \* what a Router without a child serves is no Agent

VARIABLES
  active,      \* Agents with active credentials
  retired,     \* Agents whose credentials were retired, for good
  epoch,       \* authority_revision
  row,         \* the policy of router_policies: document, the revision and the
               \* configuration it was built from
  acked,       \* age of acknowledged_at, or AckLife when there is none that counts
  age,         \* age[g]: of the document of generation g
  job,         \* job[c]: the reconciliation replica c is running
  wire,        \* requests sent and not answered; one that stays is lost
  durable, serving, confirmed,   \* of each Router, as in RouterFence
  gone         \* Agents whose retirement was answered with 204

admVars == <<active, retired, epoch, row, acked, age, job, wire,
             durable, serving, confirmed, gone>>

Closed == {"closed"}
NoDocument == [generation |-> 0, authority |-> Closed]
Documents == [generation : 1..MaxGeneration, authority : SUBSET Members] \cup {NoDocument}
Idle == [step |-> "idle", doc |-> NoDocument, left |-> 0, oks |-> {}, goal |-> {}]

AdmInit ==
  /\ active \in SUBSET Members /\ retired = {} /\ epoch = 0
  /\ row = [doc |-> NoDocument, epoch |-> 0, config |-> "none"]
  /\ acked = AckLife
  /\ age = [g \in 0..MaxGeneration |-> 0]
  /\ job = [c \in Replicas |-> Idle]
  /\ wire = {}
  /\ durable = [r \in Routers |-> NoDocument]
  /\ serving = [r \in Routers |-> Closed]
  /\ confirmed = [r \in Routers |-> NoDocument]
  /\ gone = {}

PolicyExpired(g) == age[g] >= PolicyLife
Routing == <<wire, durable, serving, confirmed>>

\* Mutant: the trigger leaves the authority revision alone.
InvalidateAcknowledgment ==
  /\ epoch < MaxRevision
  /\ epoch' = epoch
  /\ acked' = AckLife

\* The trigger on agents and agent_verification_keys.
Invalidate ==
  /\ epoch < MaxRevision
  /\ epoch' = epoch + 1
  /\ acked' = AckLife

Enroll(a) ==
  /\ a \notin active \cup retired
  /\ active' = active \cup {a}
  /\ Invalidate
  /\ UNCHANGED <<retired, row, age, job, Routing, gone>>

\* retire_agent_credentials() of replica c, then its reconciliation.
Retire(c, a) ==
  /\ job[c] = Idle
  /\ \/ /\ a \in active
        /\ Invalidate
     \/ /\ a \in retired
        /\ UNCHANGED <<epoch, acked>>
  /\ active' = active \ {a}
  /\ retired' = retired \cup {a}
  /\ job' = [job EXCEPT ![c] = [Idle EXCEPT !.step = "start", !.goal = {a}]]
  /\ UNCHANGED <<row, age, Routing, gone>>

\* run(), admit(): a reconciliation for its own sake.
Reconcile(c) ==
  /\ job[c] = Idle
  /\ job' = [job EXCEPT ![c] = [Idle EXCEPT !.step = "start"]]
  /\ UNCHANGED <<active, retired, epoch, row, acked, age, Routing, gone>>

\* The row still carries the current authority and this replica's
\* configuration, long enough to be sent.
Reusable(c) ==
  /\ row.doc # NoDocument
  /\ row.epoch = epoch
  /\ row.config = ConfigurationDigest[c]
  /\ age[row.doc.generation] < PolicyLife - Margin

NextGeneration == row.doc.generation + 1

MayAdvance == row.doc.generation < MaxGeneration

\* The signed document of a generation: the active Agents, all of them.
NewDocument(g) == [generation |-> g, authority |-> active]

\* prepare_router_policy(): one generation per document, across replicas.
Prepare(c) ==
  /\ job[c].step = "start"
  /\ \/ /\ Reusable(c)
        /\ job' = [job EXCEPT ![c].step = "send", ![c].doc = row.doc]
        /\ UNCHANGED <<row, acked>>
     \/ /\ ~Reusable(c)
        /\ MayAdvance
        /\ row' = [doc |-> NewDocument(NextGeneration), epoch |-> epoch,
                   config |-> ConfigurationDigest[c]]
        /\ acked' = AckLife
        /\ job' = [job EXCEPT ![c].step = "send", ![c].doc = row'.doc]
     \/ /\ ~Reusable(c)
        /\ ~MayAdvance
        /\ job' = [job EXCEPT ![c] = Idle]
        /\ UNCHANGED <<row, acked>>
  /\ UNCHANGED <<active, retired, epoch, age, Routing, gone>>

\* apply_current_policy(): the document to every Router, unless it expired.
Send(c) ==
  /\ job[c].step = "send"
  /\ \/ /\ PolicyExpired(job[c].doc.generation)
        /\ job' = [job EXCEPT ![c] = Idle]
        /\ UNCHANGED wire
     \/ /\ ~PolicyExpired(job[c].doc.generation)
        /\ job' = [job EXCEPT ![c].step = "wait"]
        /\ wire' = wire \cup {<<c, r, job[c].doc>> : r \in Routers}
  /\ UNCHANGED <<active, retired, epoch, row, acked, age, durable, serving, confirmed, gone>>

\* A timeout, a lost answer, a refusal or an unusable status: no admission.
GiveUp(c) ==
  /\ job[c].step = "wait"
  /\ job' = [job EXCEPT ![c] = Idle]
  /\ UNCHANGED <<active, retired, epoch, row, acked, age, Routing, gone>>

\* The documents sent to a Router that it may still take, its current one
\* included.  A Supervisor checks the time when a request arrives.
Delivered(r) == {m[3] : m \in {w \in wire : w[2] = r /\ ~PolicyExpired(w[3].generation)}}

Fence(r) == INSTANCE RouterFence
              WITH FencePolicies <- Documents, FenceNone <- NoDocument,
                   durable <- durable[r], serving <- serving[r], confirmed <- confirmed[r]

RouterTakes(r) ==
  \E d \in Delivered(r) :
     /\ durable' = [durable EXCEPT ![r] = d]
     /\ serving' \in {[serving EXCEPT ![r] = s] : s \in {serving[r], Closed}}
     /\ UNCHANGED <<active, retired, epoch, row, acked, age, job, wire, confirmed, gone>>
     /\ Fence(r)!FencePersist(d) \/ Fence(r)!FenceReplaceAndClose(d)

RouterServes(r) ==
  /\ ~PolicyExpired(durable[r].generation)
  /\ serving' = [serving EXCEPT ![r] = durable[r].authority]
  /\ UNCHANGED <<active, retired, epoch, row, acked, age, job, wire, durable, confirmed, gone>>
  /\ Fence(r)!FenceServe

\* A failed child, an expired policy or a crash.
RouterCloses(r) ==
  /\ serving[r] # Closed
  /\ serving' = [serving EXCEPT ![r] = Closed]
  /\ UNCHANGED <<active, retired, epoch, row, acked, age, job, wire, durable, confirmed, gone>>
  /\ Fence(r)!FenceClose

ServesDocument(r, d) ==
  durable[r] = d /\ serving[r] = d.authority /\ ~PolicyExpired(d.generation)

\* The answer of a Router that serves the document it was sent, to a replica
\* that may have given up.
RouterConfirm(m) ==
  LET c == m[1]
      r == m[2]
      d == m[3]
  IN /\ m \in wire
     /\ ServesDocument(r, d)
     /\ wire' = wire \ {m}
     /\ job' = IF job[c].step = "wait" /\ job[c].doc = d
                 THEN [job EXCEPT ![c].oks = @ \cup {r}] ELSE job
     /\ confirmed' = [confirmed EXCEPT ![r] = d]
     /\ UNCHANGED <<active, retired, epoch, row, acked, age, durable, serving, gone>>
     /\ Fence(r)!FenceConfirm

\* The row's generation and digest, and the revision it was built from.
IsCurrentGeneration(d) == row.doc = d

IsCurrent(d) == row.doc = d /\ row.epoch = epoch

\* acknowledge_router_policy(): only while the authority is still current.
\* A retirement is answered here.
Acknowledge(c) ==
  /\ job[c].step = "wait" /\ job[c].oks = Routers
  /\ \/ /\ IsCurrent(job[c].doc)
        /\ ~PolicyExpired(row.doc.generation)
        /\ acked' = 0
        /\ job' = [job EXCEPT ![c] = [Idle EXCEPT !.step = "proof", !.doc = row.doc,
                                                  !.left = AckLife]]
        /\ gone' = gone \cup job[c].goal
     \/ /\ \/ ~IsCurrent(job[c].doc)
           \/ PolicyExpired(row.doc.generation)
        /\ job' = [job EXCEPT ![c] = Idle]
        /\ UNCHANGED <<acked, gone>>
  /\ UNCHANGED <<active, retired, epoch, row, age, Routing>>

\* require_admission_in(): what a dispatch or an enrollment answer checks, in
\* its own transaction, with the proof its replica holds.
Admitted(c, a) ==
  /\ job[c].step = "proof" /\ job[c].left > 0
  /\ IsCurrent(job[c].doc)
  /\ ~PolicyExpired(row.doc.generation)
  /\ acked < AckLife
  /\ a \in active

ForgetProof(c) ==
  /\ job[c].step = "proof"
  /\ job' = [job EXCEPT ![c] = Idle]
  /\ UNCHANGED <<active, retired, epoch, row, acked, age, Routing, gone>>

AgePolicies ==
  /\ age' = [g \in DOMAIN age |->
               IF g \in 1..row.doc.generation /\ age[g] < PolicyLife THEN age[g] + 1 ELSE age[g]]
  /\ acked' = IF acked < AckLife THEN acked + 1 ELSE acked
  /\ job' = [c \in Replicas |-> [job[c] EXCEPT !.left = IF @ > 0 THEN @ - 1 ELSE 0]]
  /\ UNCHANGED <<active, retired, epoch, row, Routing, gone>>

AdmNext ==
  \/ \E a \in Members : Enroll(a) \/ \E c \in Replicas : Retire(c, a)
  \/ \E c \in Replicas : Reconcile(c) \/ Prepare(c) \/ Send(c) \/ GiveUp(c)
                         \/ Acknowledge(c) \/ ForgetProof(c)
  \/ \E m \in wire : RouterConfirm(m)
  \/ \E r \in Routers : RouterTakes(r) \/ RouterServes(r) \/ RouterCloses(r)
  \/ AgePolicies

AdmSpec == AdmInit /\ [][AdmNext]_admVars
-----------------------------------------------------------------------------
Reconciliations ==
  [step : {"idle", "start", "send", "wait", "proof"}, doc : Documents, left : 0..AckLife,
   oks : SUBSET Routers, goal : SUBSET Members]

\* Types of the row, the jobs and the Routers.
AdmTypeOK ==
  /\ active \subseteq Members /\ retired \subseteq Members /\ gone \subseteq Members
  /\ epoch \in 0..MaxRevision
  /\ row.doc \in Documents /\ row.epoch \in 0..MaxRevision
  /\ acked \in 0..AckLife
  /\ age \in [0..MaxGeneration -> 0..PolicyLife]
  /\ job \in [Replicas -> Reconciliations]
  /\ wire \subseteq Replicas \X Routers \X Documents
  /\ durable \in [Routers -> Documents]
  /\ serving \in [Routers -> (SUBSET Members) \cup {Closed}]

\* When the transaction that admits work or answers an enrollment passes its
\* check, every Router holds the current document, and serves it or nothing:
\* no Router anywhere serves an Agent without active credentials.
AdmissionMeansCurrent ==
  \A c \in Replicas, a \in Members : Admitted(c, a) =>
    /\ a \in row.doc.authority
    /\ \A r \in Routers : durable[r] = row.doc /\ serving[r] \in {Closed, active}

\* HTTP 204 on a retirement proves the removal: no Router serves the Agent
\* then, nor ever again, whatever late request still arrives.
RetirementIsProved ==
  \A a \in gone : \A r \in Routers : a \notin serving[r] /\ a \notin durable[r].authority

\* The copies of documents: in the row, in reconciliations, on the wire and in
\* the Routers.
Copies == {row.doc} \cup {job[c].doc : c \in Replicas} \cup {m[3] : m \in wire}
            \cup {durable[r] : r \in Routers}

\* No two documents share a generation, wherever copies of them are
\* (prepare_router_policy numbers them in the transaction that stores them).
OneDocumentPerGeneration ==
  \A d, e \in Copies : d.generation = e.generation => d = e

-----------------------------------------------------------------------------
(* The inductive invariant (RouterAdmissionProofs) *)

\* The row holds the newest document, which names the active Agents as long as
\* its revision is the current one.
RowInv ==
  /\ \A d \in Copies : d.generation <= row.doc.generation
  /\ row.epoch <= epoch
  /\ row.epoch = epoch /\ row.doc # NoDocument => row.doc.authority = active

\* A reconciliation past prepare has a document, and the Routers it has heard
\* from, all of them once it holds a proof, are not behind that document.
JobInv ==
  \A c \in Replicas :
    /\ job[c].step \in {"send", "wait", "proof"} => job[c].doc # NoDocument
    /\ job[c].step # "wait" => job[c].oks = {}
    /\ \A r \in Routers :
         r \in job[c].oks \/ job[c].step = "proof" => durable[r].generation >= job[c].doc.generation
    /\ job[c].goal \subseteq retired

\* A Router serves its document or nothing.
ServingInv == \A r \in Routers : serving[r] \in {Closed, durable[r].authority}

\* A retirement that was answered is in force: no document a Router has, or
\* could still take, names the Agent.
GoneInv ==
  /\ active \cap retired = {} /\ gone \subseteq retired
  /\ \A a \in gone, r \in Routers, d \in Copies :
       d.generation >= durable[r].generation => a \notin d.authority

AdmInv == AdmTypeOK /\ OneDocumentPerGeneration /\ RowInv /\ JobInv /\ ServingInv /\ GoneInv
=============================================================================
