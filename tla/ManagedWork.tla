----------------------------- MODULE ManagedWork -----------------------------
(***************************************************************************)
(* Managed Work in the Controller: preflight, submission, durable command  *)
(* and protected payload, live publication, command history, the signed    *)
(* Agent State observations that settle a work, and payload cleanup.       *)
(*                                                                         *)
(* One action is one PostgreSQL transaction, or one step between two       *)
(* awaits of a request.  The Agent is any Agent: it may sign every         *)
(* observation whose lifecycle is valid, in any order, with any of its     *)
(* State keys and with any clock, as one restored from a backup would.     *)
(***************************************************************************)
EXTENDS Options, FiniteSetsExt

CONSTANTS
  WorkAgents,          \* Agents of the one Organization
  WorkIds,         \* managed_work_id values callers use
  Preflights,      \* preflight ids
  WorkRequests,        \* submissions: [id, key, intent, content, size, pre, agent], the
                   \* contract majors of envelope and work, and its texts
  Inlines,         \* jobs: [id, cancel, content, agent], with the id of their cancellation
  Callers,         \* HTTP requests in progress
  MessageIds,      \* publication message ids
  Receipts,        \* unsigned CommandAccepted/Rejected: [agent, seq, verdict]
  Observations,    \* Agent State observations: [work, state, version, started, seq, key, at],
                   \* with the key that made the signature (signer)
  AgentLimit, OrganizationLimit,   \* pending works
  AgentBytes, OrganizationBytes,   \* pending payload bytes
  DocumentLimit,                   \* bytes of one document (REPORT_PDF_LIMIT)
  SubmitTtl, WorkTtl,              \* PREFLIGHT_TTL and WORK_TTL
  CleanupBatch,                    \* works one tick of the cleanup settles (256 in the code)
  EnvelopeTtl,                     \* managed_gateway.dispatch.envelope_ttl
  WorkHorizon, MaxCommands, MaxKeys    \* bounds of the instance

VARIABLES
  workNow,
  admitted,      \* every Router has acknowledged the current policy (RouterAdmission)
  workRetired,       \* Agents whose credentials are retired
  keyTimes,      \* keyTimes[a][k]: when key k of Agent a was registered; key k+1 retires it
  retiredAt,     \* when the Agent's last key was retired
  preflights,
  works,
  payloads,      \* works whose protected payload row exists
  commandLog,      \* commands[a]: the Agent's commands, position = sequence
  calls,
  publications,  \* the publication stored under each message id
  applied        \* the last sequence the Agent applied (external)

workVars == <<workNow, admitted, workRetired, keyTimes, retiredAt, preflights, works,
              payloads, commandLog, calls, publications, applied>>

TerminalState(state) == state \notin {"accepted", "in_progress"}

IdleCall == [pc |-> "idle"]

Exists(w) == works[w] # None

\* require_admission_in: the policy row is current and names the Agent's active key.
MayDispatch(a) == admitted /\ a \notin workRetired

ActiveStateKey(a) == Len(keyTimes[a])

KeyRetiredAt(a, k) == IF k < Len(keyTimes[a]) THEN keyTimes[a][k + 1] ELSE retiredAt[a]

\* The lifecycle an observation must describe before its signature means anything.
ValidLifecycle(o) ==
  /\ o.version >= 1
  /\ o.state = "accepted" <=> o.version = 1
  /\ o.state = "in_progress" => o.started
  /\ o.state \in {"output_confirmed", "outcome_unknown"} => o.version >= 3 /\ o.started
  /\ o.state \in {"accepted", "expired", "canceled"} => ~o.started

\* verify(): the key its header names is registered and made the signature.
VerifyEnvelope(a, o) == o.key \in DOMAIN keyTimes[a] /\ o.signer = o.key

\* The payload fingerprint covers the content and the deadline of the preflight.
RequestFingerprint(r) == <<r.content, preflights[r.pre].expires>>

-----------------------------------------------------------------------------
(* Submission                                                              *)

\* managed_work_target: the Agent and its Device; a retirement deletes the Devices.
ManagedWorkTarget(a) == a \notin workRetired

\* create_managed_work_preflight: the target's key and the two deadlines.
NewPreflight(a) == [agent |-> a, key |-> ActiveStateKey(a),
                    submitBefore |-> workNow + SubmitTtl, expires |-> workNow + WorkTtl]

\* preflight_managed_work: one that is blocked, or fails, writes nothing.
Preflight(p, a) ==
  /\ preflights[p] = None
  /\ MayDispatch(a) /\ ManagedWorkTarget(a)
  /\ workNow + WorkTtl <= WorkHorizon      \* bound: every deadline passes
  /\ preflights' = [preflights EXCEPT ![p] = NewPreflight(a)]
  /\ UNCHANGED <<workNow, admitted, workRetired, keyTimes, retiredAt, works, payloads,
                 commandLog, calls, publications, applied>>

\* The rows found by id, by idempotency key and by print intent.
Candidates(r) == {w \in WorkIds : /\ Exists(w)
                                  /\ \/ w = r.id
                                     \/ works[w].key = r.key
                                     \/ works[w].intent = r.intent}

SameWork(w, r) == /\ works[w].key = r.key
                  /\ works[w].intent = r.intent
                  /\ works[w].fingerprint = RequestFingerprint(r)

\* find_existing_managed_work: nothing, the one matching row, or a conflict.
FoundNothing(r) == Candidates(r) = {}
Found(r, w) == Candidates(r) = {w} /\ SameWork(w, r)

SequenceOf(w) == CHOOSE n \in DOMAIN commandLog[works[w].agent] :
                   commandLog[works[w].agent][n].work = w

\* existing_dispatch: only a work still dispatching is published again.
AfterExisting(w) ==
  IF works[w].state = "dispatching"
  THEN [pc |-> "load", agent |-> works[w].agent, seq |-> SequenceOf(w)]
  ELSE IdleCall

\* decoded_document(): the document has content, and no more than one may have.
DecodedDocument(r) == r.size \in 1 .. DocumentLimit

\* validate_submission(): one contract, and bounded printable texts.
ValidSubmission(r) ==
  /\ r.major = 1 /\ r.workMajor = r.major
  /\ r.texts \intersect {"empty", "too long", "control"} = {}

SubmitReplay(c, r) ==
  /\ calls[c] = IdleCall
  /\ ValidSubmission(r) /\ DecodedDocument(r)
  /\ preflights[r.pre] # None
  /\ \/ FoundNothing(r) /\ calls' = [calls EXCEPT ![c] = [pc |-> "admit", request |-> r]]
     \/ \E w \in WorkIds : Found(r, w) /\ calls' = [calls EXCEPT ![c] = AfterExisting(w)]
  /\ UNCHANGED <<workNow, admitted, workRetired, keyTimes, retiredAt, preflights, works,
                 payloads, commandLog, publications, applied>>

PendingWork(S) == {w \in S : Exists(w) /\ works[w].state \in {"pending_agent", "dispatching"}}

PendingOf(a) == PendingWork({w \in WorkIds : Exists(w) /\ works[w].agent = a})

Bytes(S) == MapThenSumSet(LAMBDA w : works[w].size, S)

WithinQuota(S, r, limit, bytes) == Cardinality(S) < limit /\ Bytes(S) + r.size <= bytes

\* Everything the admission transaction checks: the Router admission, no work of
\* that identity under the Organization and Agent locks, the preflight, the
\* Agent's key and the two quotas.
Admissible(r) ==
  LET p == preflights[r.pre] IN
  /\ MayDispatch(r.agent)
  /\ FoundNothing(r)
  /\ p.agent = r.agent
  /\ p.submitBefore > workNow
  /\ ManagedWorkTarget(r.agent) /\ p.key = ActiveStateKey(r.agent)
  /\ WithinQuota(PendingOf(r.agent), r, AgentLimit, AgentBytes)
  /\ WithinQuota(PendingWork(WorkIds), r, OrganizationLimit, OrganizationBytes)

\* command(): the dispatch is signed and sealed once, when the work is admitted,
\* and is good until its own deadline or the work's.
DispatchCommand(r) == [recipient |-> ActiveStateKey(r.agent),
                       expires |-> Min({workNow + EnvelopeTtl, preflights[r.pre].expires})]

\* insert_dispatch_command(): the Agent's next sequence, queued.
InsertDispatchCommand(r) ==
  Append(commandLog[r.agent], [id |-> r.id, work |-> r.id, content |-> None, state |-> "queued"])

\* A work, its durable command and its payload appear in one transaction; the
\* existing work is looked up again under the Organization and Agent locks.
Admit(c) ==
  /\ calls[c].pc = "admit"
  /\ LET r == calls[c].request IN
     \/ /\ Admissible(r)
        /\ Len(commandLog[r.agent]) < MaxCommands
        /\ works' = [works EXCEPT ![r.id] =
             [agent |-> r.agent, key |-> r.key, intent |-> r.intent, size |-> r.size,
              fingerprint |-> RequestFingerprint(r), expires |-> preflights[r.pre].expires,
              envelope |-> DispatchCommand(r), state |-> "dispatching", observation |-> None]]
        /\ payloads' = payloads \union {r.id}
        /\ commandLog' = [commandLog EXCEPT ![r.agent] = InsertDispatchCommand(r)]
        /\ calls' = [calls EXCEPT ![c] = [pc |-> "load", agent |-> r.agent,
                                         seq |-> Len(commandLog[r.agent]) + 1]]
     \/ /\ MayDispatch(r.agent)
        /\ \E w \in WorkIds : Found(r, w) /\ calls' = [calls EXCEPT ![c] = AfterExisting(w)]
        /\ UNCHANGED <<works, payloads, commandLog>>
  /\ UNCHANGED <<workNow, admitted, workRetired, keyTimes, retiredAt, preflights, publications, applied>>

\* The submission ends with nothing written: a refusal of the transaction, or a
\* payload key, a Router admission, a fingerprint, a signature or a seal that
\* cannot be had.
AdmitFails(c) ==
  /\ calls[c].pc = "admit"
  /\ calls' = [calls EXCEPT ![c] = IdleCall]
  /\ UNCHANGED <<workNow, admitted, workRetired, keyTimes, retiredAt, preflights, works,
                 payloads, commandLog, publications, applied>>

\* enqueue_command: one command per id, replayed for the same Agent and content.
EnqueueWork(c, q) ==
  /\ calls[c] = IdleCall
  /\ MayDispatch(q.agent)
  /\ LET known == {<<a, n>> \in WorkAgents \X (1 .. MaxCommands) :
                     n \in DOMAIN commandLog[a] /\ commandLog[a][n].id = q.id}
     IN \/ /\ known = {}
           /\ Len(commandLog[q.agent]) < MaxCommands
           /\ commandLog' = [commandLog EXCEPT ![q.agent] =
                Append(@, [id |-> q.id, work |-> None, content |-> q.content, state |-> "queued"])]
           /\ calls' = [calls EXCEPT ![c] = [pc |-> "load", agent |-> q.agent,
                                            seq |-> Len(commandLog[q.agent]) + 1]]
        \/ \E n \in DOMAIN commandLog[q.agent] :
             /\ <<q.agent, n>> \in known
             /\ commandLog[q.agent][n].content = q.content
             /\ calls' = [calls EXCEPT ![c] = [pc |-> "load", agent |-> q.agent, seq |-> n]]
             /\ UNCHANGED commandLog
  /\ UNCHANGED <<workNow, admitted, workRetired, keyTimes, retiredAt, preflights, works,
                 payloads, publications, applied>>

JobOf(q) == {n \in DOMAIN commandLog[q.agent] : commandLog[q.agent][n].id = q.id}

\* cancel_job: the id of the cancellation is derived from the job's.
CancelInline(c, q) ==
  /\ \E n \in JobOf(q) : commandLog[q.agent][n].state # "rejected"
  /\ EnqueueWork(c, [q EXCEPT !.id = q.cancel])

-----------------------------------------------------------------------------
(* Delivery                                                                *)

\* managed_payload and dispatch_message: content leaves only for a work still
\* dispatching before its deadline and the envelope's, to an Agent that is
\* still admitted.
Sendable(a, n) ==
  /\ MayDispatch(a)
  /\ LET w == commandLog[a][n].work IN
     w # None => works[w].state = "dispatching" /\ works[w].expires > workNow /\ w \in payloads
                 /\ works[w].envelope.expires > workNow

LoadDispatch(c) ==
  /\ calls[c].pc = "load"
  /\ calls' = [calls EXCEPT ![c] = IF Sendable(calls[c].agent, calls[c].seq)
                                   THEN [@ EXCEPT !.pc = "put"] ELSE IdleCall]
  /\ UNCHANGED <<workNow, admitted, workRetired, keyTimes, retiredAt, preflights, works,
                 payloads, commandLog, publications, applied>>

\* The Agent refuses a sequence gap and ignores what it has applied.
AppliesNext(last, seq) == IF seq = last + 1 THEN seq ELSE last

\* The Agent takes the next sequence and refuses a gap; a put reaches it or is lost.
PutLive(c) ==
  /\ calls[c].pc = "put"
  /\ LET a == calls[c].agent IN
     \/ applied' = [applied EXCEPT ![a] = AppliesNext(@, calls[c].seq)]
     \/ UNCHANGED applied
  /\ calls' = [calls EXCEPT ![c].pc = "mark"]
  /\ UNCHANGED <<workNow, admitted, workRetired, keyTimes, retiredAt, preflights, works,
                 payloads, commandLog, publications>>

Marked(state) == IF state = "queued" THEN "published" ELSE state

\* mark_command_published updates only a command that is queued or published.
MarkPublished(c) ==
  /\ calls[c].pc = "mark"
  /\ commandLog' = [commandLog EXCEPT ![calls[c].agent][calls[c].seq].state = Marked(@)]
  /\ calls' = [calls EXCEPT ![c] = IdleCall]
  /\ UNCHANGED <<workNow, admitted, workRetired, keyTimes, retiredAt, preflights, works,
                 payloads, publications, applied>>

\* command_history: the sequences at and after the one the Agent asks for.
HistoryFrom(a) == applied[a] + 1 .. Len(commandLog[a])

\* history_for_query_key: every command from the sequence on, or an error for all.
AnswerHistory(a) ==
  /\ applied[a] < Len(commandLog[a])
  /\ \A n \in HistoryFrom(a) : Sendable(a, n)
  /\ applied' = [applied EXCEPT ![a] = Len(commandLog[a])]
  /\ UNCHANGED <<workNow, admitted, workRetired, keyTimes, retiredAt, preflights, works,
                 payloads, commandLog, calls, publications>>

-----------------------------------------------------------------------------
(* Publications and evidence                                               *)

\* reconcile_version: an older state is kept out, a conflicting one is an error.
Older(old, new) == new.version < old.version

Repeats(old, new) ==
  /\ new.version = old.version
  /\ new.state = old.state /\ new.started = old.started

Advances(old, new) ==
  /\ new.version > old.version
  /\ ~TerminalState(old.state)
  /\ new.state # "accepted"
  /\ old.started => new.started
  /\ new.seq > old.seq

\* Mutant: the last observation to arrive wins.
ReplacesAlways(old, new) == TRUE

Replaces(old, new) == Advances(old, new) \/ (Repeats(old, new) /\ new.at > old.at)

Reconciles(old, new) == Older(old, new) \/ Repeats(old, new) \/ Advances(old, new)

KeyMayObserve(a, o) ==
  /\ o.key \in DOMAIN keyTimes[a]
  /\ o.at >= keyTimes[a][o.key]
  /\ KeyRetiredAt(a, o.key) = None

\* A signed observation, committed with the publication that carries it.
RecordObservation(m, o) ==
  LET w == o.work
      old == works[w].observation
      a == works[w].agent
  IN
  /\ publications[m] = None
  /\ Exists(w)
  /\ VerifyEnvelope(a, o) /\ ValidLifecycle(o)
  /\ KeyMayObserve(a, o)
  /\ works[w].state \in {"dispatching", "recovery_uncertain", "accepted"}
  /\ old # None => Reconciles(old, o)
  /\ publications' = [publications EXCEPT ![m] = o]
  /\ works' = IF old = None \/ Replaces(old, o)
              THEN [works EXCEPT ![w].state = "accepted", ![w].observation = o]
              ELSE works
  /\ commandLog' = [commandLog EXCEPT ![a][SequenceOf(w)].state = "accepted"]
  /\ payloads' = payloads \ {w}
  /\ UNCHANGED <<workNow, admitted, workRetired, keyTimes, retiredAt, preflights, calls, applied>>

Stored(w) == {publications[m] : m \in {i \in MessageIds :
               publications[i] # None /\ "work" \in DOMAIN publications[i] /\ publications[i].work = w}}

\* A retired key still vouches for evidence that is already recorded: the
\* publication is stored and nothing else happens.
RecordKnownEvidence(m, o) ==
  /\ publications[m] = None
  /\ Exists(o.work) /\ o \in Stored(o.work)
  /\ VerifyEnvelope(works[o.work].agent, o)
  /\ LET retiredTime == KeyRetiredAt(works[o.work].agent, o.key) IN
     retiredTime # None /\ o.at < retiredTime
  /\ publications' = [publications EXCEPT ![m] = o]
  /\ UNCHANGED <<workNow, admitted, workRetired, keyTimes, retiredAt, preflights, works,
                 payloads, commandLog, calls, applied>>

\* An unsigned receipt settles an Inline command of its Agent and nothing else.
RecordReceipt(m, r) ==
  /\ publications[m] = None
  /\ publications' = [publications EXCEPT ![m] = r]
  /\ commandLog' = IF /\ r.seq \in DOMAIN commandLog[r.agent]
                    /\ commandLog[r.agent][r.seq].work = None
                 THEN [commandLog EXCEPT ![r.agent][r.seq].state = r.verdict]
                 ELSE commandLog
  /\ UNCHANGED <<workNow, admitted, workRetired, keyTimes, retiredAt, preflights, works,
                 payloads, calls, applied>>

-----------------------------------------------------------------------------
(* Cleanup, credentials, time                                              *)

\* A payload whose deadline has passed; every settled work has lost its own.
Due == {w \in payloads : works[w].expires <= workNow \/ works[w].state = "recovery_uncertain"}

\* Mutant: only the content is deleted.
StateKept(state) == state

StateAfterExpiry(state) == CASE state = "pending_agent" -> "expired"
                             [] state = "dispatching" -> "recovery_uncertain"
                             [] OTHER -> state

\* expire_managed_payloads, one tick of run_payload_cleanup: a batch of what is due, in
\* no particular order.
ExpirePayloads ==
  /\ Due # {}
  /\ \E batch \in kSubset(IF Cardinality(Due) < CleanupBatch THEN Cardinality(Due) ELSE CleanupBatch, Due) :
       /\ payloads' = payloads \ batch
       /\ works' = [w \in WorkIds |->
            IF w \notin batch THEN works[w]
            ELSE [works[w] EXCEPT !.state = StateAfterExpiry(@)]]
  /\ UNCHANGED <<workNow, admitted, workRetired, keyTimes, retiredAt, preflights, commandLog,
                 calls, publications, applied>>

\* Re-enrollment registers new keys and invalidates the Router policy (Onboarding).
Reenroll(a) ==
  /\ a \notin workRetired
  /\ Len(keyTimes[a]) < MaxKeys
  /\ keyTimes' = [keyTimes EXCEPT ![a] = Append(@, workNow)]
  /\ admitted' = FALSE
  /\ UNCHANGED <<workNow, workRetired, retiredAt, preflights, works, payloads, commandLog,
                 calls, publications, applied>>

RetireAgent(a) ==
  /\ a \notin workRetired
  /\ workRetired' = workRetired \union {a}
  /\ retiredAt' = [retiredAt EXCEPT ![a] = workNow]
  /\ admitted' = FALSE
  /\ UNCHANGED <<workNow, keyTimes, preflights, works, payloads, commandLog, calls,
                 publications, applied>>

\* Every Router has acknowledged the new policy.
RoutersAdmit ==
  /\ ~admitted /\ admitted' = TRUE
  /\ UNCHANGED <<workNow, workRetired, keyTimes, retiredAt, preflights, works, payloads,
                 commandLog, calls, publications, applied>>

\* The process restarts: requests in progress are gone, the database is not.
Restart ==
  /\ \E c \in Callers : calls[c] # IdleCall
  /\ calls' = [c \in Callers |-> IdleCall]
  /\ UNCHANGED <<workNow, admitted, workRetired, keyTimes, retiredAt, preflights, works,
                 payloads, commandLog, publications, applied>>

Tick ==
  /\ workNow < WorkHorizon /\ workNow' = workNow + 1
  /\ UNCHANGED <<admitted, workRetired, keyTimes, retiredAt, preflights, works, payloads,
                 commandLog, calls, publications, applied>>

WorkInit ==
  /\ workNow = 0 /\ admitted = TRUE /\ workRetired = {}
  /\ keyTimes = [a \in WorkAgents |-> <<0>>]
  /\ retiredAt = [a \in WorkAgents |-> None]
  /\ preflights = [p \in Preflights |-> None]
  /\ works = [w \in WorkIds |-> None]
  /\ payloads = {}
  /\ commandLog = [a \in WorkAgents |-> <<>>]
  /\ calls = [c \in Callers |-> IdleCall]
  /\ publications = [m \in MessageIds |-> None]
  /\ applied = [a \in WorkAgents |-> 0]

WorkNext ==
  \/ \E p \in Preflights, a \in WorkAgents : Preflight(p, a)
  \/ \E c \in Callers, r \in WorkRequests : SubmitReplay(c, r)
  \/ \E c \in Callers, q \in Inlines : EnqueueWork(c, q) \/ CancelInline(c, q)
  \/ \E c \in Callers : Admit(c) \/ AdmitFails(c) \/ LoadDispatch(c) \/ PutLive(c) \/ MarkPublished(c)
  \/ \E a \in WorkAgents : AnswerHistory(a) \/ Reenroll(a) \/ RetireAgent(a)
  \/ \E m \in MessageIds : \/ \E o \in Observations : RecordObservation(m, o) \/ RecordKnownEvidence(m, o)
                           \/ \E r \in Receipts : RecordReceipt(m, r)
  \/ ExpirePayloads \/ RoutersAdmit \/ Restart \/ Tick

\* The clock advances, the cleanup task ticks every second, a connected Agent
\* keeps asking for its history and the policy loop keeps reconciling.
WorkFairness == /\ WF_workVars(Tick) /\ WF_workVars(ExpirePayloads)
                /\ WF_workVars(RoutersAdmit)
                /\ \A a \in WorkAgents : WF_workVars(AnswerHistory(a))

WorkSpec == WorkInit /\ [][WorkNext]_workVars /\ WorkFairness

-----------------------------------------------------------------------------
(* Properties                                                              *)

\* One work for an idempotency key and for a print intent, whatever ids callers use
\* (find_existing under advisory locks).
OneWorkPerIdentity ==
  \A v, w \in WorkIds : v # w /\ Exists(v) /\ Exists(w) =>
    works[v].key # works[w].key /\ works[v].intent # works[w].intent

\* The pending works of an Agent and of the Organization are within their quotas
\* (enforce_quota).
PendingWithinQuota ==
  /\ \A a \in WorkAgents : Cardinality(PendingOf(a)) <= AgentLimit /\ Bytes(PendingOf(a)) <= AgentBytes
  /\ Cardinality(PendingWork(WorkIds)) <= OrganizationLimit
  /\ Bytes(PendingWork(WorkIds)) <= OrganizationBytes

\* Protected content exists exactly as long as its work is dispatching, and the
\* work then has one durable command of its own Agent to carry it
\* (admit_managed_work, reconcile_state_observation and expire_managed_payloads
\* change the work, the command and the payload together).  Submissions that overlap,
\* or come again under other ids, make no second work for a key or an intent, and
\* what is pending stays within the quotas.
DispatchIsBacked ==
  /\ payloads = {w \in WorkIds : Exists(w) /\ works[w].state = "dispatching"}
  /\ \A w \in WorkIds : Exists(w) =>
       {<<a, n>> \in WorkAgents \X (1 .. MaxCommands) :
          n \in DOMAIN commandLog[a] /\ commandLog[a][n].work = w}
         = {<<works[w].agent, SequenceOf(w)>>}
  /\ OneWorkPerIdentity
  /\ PendingWithinQuota

\* Whatever the order, repetition or restoration of the Agent's observations, the
\* projection of a work is the newest version ever stored for it, every stored
\* observation of that version describes the same state, and a work is accepted
\* exactly when such evidence exists (reconcile_version).
ProjectionIsNewest ==
  \A w \in WorkIds : Exists(w) =>
    /\ works[w].state = "accepted" <=> Stored(w) # {}
    /\ \A o \in Stored(w) : \/ Older(works[w].observation, o)
                            \/ /\ Repeats(works[w].observation, o)
                               /\ works[w].observation.at >= o.at

\* docs/gateway_protocol.md:708: "The controller returns commands after that
\* sequence in order."  An Inline command carries no content that expires, so
\* the Agent that keeps asking receives it (history_for_query_key).
HistoryDelivers ==
  \A a \in WorkAgents : \A n \in 1 .. MaxCommands :
    (n \in DOMAIN commandLog[a] /\ commandLog[a][n].work = None) ~> (applied[a] >= n \/ a \in workRetired)

=============================================================================
