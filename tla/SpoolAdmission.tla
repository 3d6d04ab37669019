---------------------------- MODULE SpoolAdmission ----------------------------
(***************************************************************************)
(* Durable admission of Device Work on the Agent                           *)
(* (packages/agent/inari/spool): one submission is reserved, encrypted,    *)
(* staged, recorded, published and finally accepted in six transactions    *)
(* and several file operations, and startup reconciliation repairs what a  *)
(* crash left behind.                                                      *)
(*                                                                         *)
(* accept and reconcile hold one lock, so at most one of them runs.  What  *)
(* interleaves with it is the rest of the world: time, crashes with and    *)
(* without loss of unsynced directory entries, failing storage and key     *)
(* store, authority that is withdrawn, and jobs that execution ends.       *)
(*                                                                         *)
(* An admission row is identified with the submission that created it.     *)
(* Everything the replay check compares, except key, origin, intent and    *)
(* deadline, is one value: body.                                           *)
(***************************************************************************)
EXTENDS Naturals, FiniteSets

CONSTANTS
    Submissions,    \* records [key, origin, intent, body, device, deadline, managed]
    Refs,           \* storage references
    DeviceQueueLimit,
    AgentQueueLimit,
    SpoolMaxTime,        \* bound: the clock stops here
    MaxSecret,      \* bound: root keys ever generated
    LookupsFail,    \* TRUE iff lstat of a stored object may fail
    Nil

SpoolTime == 0 .. SpoolMaxTime

ASSUME SpoolConstants ==
    /\ DeviceQueueLimit \in Nat
    /\ AgentQueueLimit \in Nat
    /\ SpoolMaxTime \in Nat
    /\ MaxSecret \in Nat \ {0}
    /\ LookupsFail \in BOOLEAN
    /\ \A s \in Submissions : s.deadline \in Nat /\ s.managed \in BOOLEAN
    /\ Nil \notin Submissions /\ Nil \notin Refs
    /\ Nil \notin {s.intent : s \in Submissions}

VARIABLES
    \* device_work_admissions: state and failure code
    state, code,
    \* spool_reservations of kind admission: the latest one of each admission
    reserv,
    \* spool_artifacts: storage reference and state of the original
    ref, artifact,
    \* spool_artifacts: the derived raster execution recorded for a job
    raster,
    \* spool_admission_keys, spool_job_keys: the root key they are wrapped with
    admissionKey, jobKey,
    \* public_print_jobs
    printJob,
    \* spool_root_keys and the protected secret store
    root, secret,
    \* the two spool directories; the intent each file is sealed for
    staged, objects, unsynced, sealed,
    \* the Agent process and the call that holds the lock
    agentUp, spoolPc, call, plan, at, resuming, file, verdict, todo, referenced,
    \* what the last call of each submission was told
    answer,
    clock

ledger == <<state, code, reserv>>
artifacts == <<ref, artifact, raster>>
keys == <<admissionKey, jobKey>>
roots == <<root, secret>>
files == <<staged, objects, unsynced, sealed>>
frame == <<call, plan, at, resuming, file, verdict>>
scan == <<todo, referenced>>
spoolVars == <<ledger, artifacts, keys, printJob, roots, files, agentUp, spoolPc, frame, scan, answer, clock>>

\* Problem codes.  certification_required is treated like capability_changed
\* everywhere; codes that leave the way open for another try, and no property
\* tells apart, are `refused'.
Final == {"expired", "capability_changed"}
Answers == Final \cup
    {"none", "accepted", "recovery_uncertain", "service_unavailable", "queue_full", "refused"}
Steps == {"idle", "prepare", "resume", "key", "provision", "current", "wrap", "encrypt",
    "record", "publish", "sync", "verify", "finalize", "abortFiles", "abort",
    "reconcile", "missing", "clean"}
Intents == {s.intent : s \in Submissions}

\* One type invariant: the tables, the directories and the call in progress.
SpoolTypeOK ==
    /\ state \in [Submissions -> {"none", "staging", "accepted", "aborted"}]
    /\ code \in [Submissions -> Final \cup {"none", "recovery_uncertain"}]
    /\ reserv \in [Submissions -> {"none", "held", "committed", "released"}]
    /\ ref \in [Submissions -> Refs \cup {Nil}]
    /\ raster \in [Submissions -> Refs \cup {Nil}]
    /\ artifact \in [Submissions -> {"none", "staging", "committed", "delete_pending", "deleted"}]
    /\ admissionKey \in [Submissions -> 0 .. MaxSecret]
    /\ jobKey \in [Submissions -> 0 .. MaxSecret]
    /\ printJob \in [Submissions -> {"none", "accepted", "ended", "failed"}]
    /\ root \in {"none", "provisioning", "current"} /\ secret \in 0 .. MaxSecret
    /\ staged \subseteq Refs /\ objects \subseteq Refs /\ unsynced \subseteq Refs
    /\ sealed \in [Refs -> Intents \cup {Nil}]
    /\ agentUp \in {"down", "starting", "running"} /\ spoolPc \in Steps
    /\ call \in Submissions \cup {Nil} /\ plan \in Submissions \cup {Nil}
    /\ at \in SpoolTime /\ resuming \in BOOLEAN /\ file \in Refs \cup {Nil}
    /\ verdict \in Final \cup {"none", "recovery_uncertain"}
    /\ todo \subseteq Submissions /\ referenced \subseteq Refs
    /\ answer \in [Submissions -> Answers]
    /\ clock \in SpoolTime

SpoolInit ==
    /\ state = [s \in Submissions |-> "none"] /\ code = [s \in Submissions |-> "none"]
    /\ reserv = [s \in Submissions |-> "none"]
    /\ ref = [s \in Submissions |-> Nil] /\ artifact = [s \in Submissions |-> "none"]
    /\ raster = [s \in Submissions |-> Nil]
    /\ admissionKey = [s \in Submissions |-> 0] /\ jobKey = [s \in Submissions |-> 0]
    /\ printJob = [s \in Submissions |-> "none"]
    /\ root = "none" /\ secret = 0
    /\ staged = {} /\ objects = {} /\ unsynced = {}
    /\ sealed = [f \in Refs |-> Nil]
    /\ agentUp = "down" /\ spoolPc = "idle" /\ call = Nil /\ plan = Nil /\ at = 0
    /\ resuming = FALSE /\ file = Nil /\ verdict = "none" /\ todo = {} /\ referenced = {}
    /\ answer = [s \in Submissions |-> "none"] /\ clock = 0
-----------------------------------------------------------------------------
(* How a call ends.                                                        *)

\* The caller of accept gets its answer; reconcile goes on with the next row.
Return(a) ==
    /\ IF call = Nil
       THEN spoolPc' = "reconcile" /\ answer' = answer
       ELSE spoolPc' = "idle" /\ answer' = [answer EXCEPT ![call] = a]
    /\ call' = Nil /\ plan' = Nil /\ at' = (IF call = Nil THEN at ELSE 0)
    /\ resuming' = FALSE /\ file' = Nil /\ verdict' = "none"

GoesTo(step) == spoolPc' = step /\ UNCHANGED answer

\* An exception reconcile does not catch: the Agent does not start.
StartFails ==
    /\ agentUp' = "down" /\ spoolPc' = "idle" /\ call' = Nil /\ plan' = Nil /\ at' = 0
    /\ resuming' = FALSE /\ file' = Nil /\ verdict' = "none"
    /\ todo' = {} /\ referenced' = {}
    /\ UNCHANGED answer

Active(s) == reserv[s] \in {"held", "committed"}

ReleaseReservation(s) ==
    reserv' = [reserv EXCEPT ![s] = IF Active(s) THEN "released" ELSE @]

\* The same in a transaction of its own, whose commit may be uncertain.
GiveBack(s) == ReleaseReservation(s) \/ UNCHANGED reserv

\* SpoolStorageError: with a staged artifact the outcome is open, without one
\* the reservation is given back.
StorageFails ==
    /\ IF call # Nil /\ artifact[plan] # "staging"
       THEN GiveBack(plan) /\ Return("refused")
       ELSE UNCHANGED reserv /\ Return("recovery_uncertain")
    /\ UNCHANGED <<state, code, agentUp, scan>>

\* SpoolRootKeyUnavailable.
RootUnavailable ==
    IF call # Nil
    THEN /\ \/ ReleaseReservation(plan) /\ Return("service_unavailable")
            \/ GiveBack(plan) /\ Return("refused")
         /\ UNCHANGED <<state, code, agentUp, scan>>
    ELSE StartFails /\ UNCHANGED ledger

\* An exception inside an exception handler, which nothing else catches.
CallFails ==
    IF call = Nil THEN StartFails ELSE Return("refused") /\ UNCHANGED <<agentUp, scan>>

\* A file that is in neither directory has no content.
Contents ==
    sealed' = [f \in Refs |-> IF f \in staged' \cup objects' THEN sealed[f] ELSE Nil]

\* _abort_preaccept begins: its files first, its rows after them.
AbortWith(c) == GoesTo("abortFiles") /\ verdict' = c /\ UNCHANGED <<call, plan, at, resuming, file>>

\* SpoolCommitUncertainError, DatabaseCommitUncertainError and a nonce
\* reservation that may or may not have committed.
Uncertain == Return("recovery_uncertain")
-----------------------------------------------------------------------------
(* accept                                                                  *)

ByKey(s) == {a \in Submissions : state[a] # "none" /\ a.key = s.key}
ByOrigin(s) == {a \in Submissions : state[a] # "none" /\ a.origin = s.origin}

\* Mutant: the origin is not looked up.
FoundByKey(s) == ByKey(s)

\* find_idempotency, then find_origin.
Found(s) == IF ByKey(s) # {} THEN ByKey(s) ELSE ByOrigin(s)

\* assert_exact_replay and same_origin_submission.
Conflicts(s, a) ==
    IF a.key = s.key
    THEN <<a.origin, a.intent, a.body, a.deadline>> # <<s.origin, s.intent, s.body, s.deadline>>
    ELSE a.body # s.body

Tell(s, a) ==
    /\ answer' = [answer EXCEPT ![s] = a]
    /\ UNCHANGED <<ledger, artifacts, keys, printJob, roots, files, agentUp, spoolPc, frame, scan, clock>>

\* The answer the ledger already holds.
Replay(s) ==
    /\ agentUp = "running" /\ spoolPc = "idle"
    /\ \E a \in Found(s) :
         \/ Conflicts(s, a) /\ Tell(s, "refused")
         \/ ~Conflicts(s, a) /\ state[a] = "aborted" /\ Tell(s, code[a])
         \/ ~Conflicts(s, a) /\ state[a] = "accepted" /\ Tell(s, "accepted")

Open(s) == \A a \in Found(s) : ~Conflicts(s, a) /\ state[a] = "staging"

\* The checks before the first write: sharing, deadline, free space.
Refuse(s) ==
    /\ agentUp = "running" /\ spoolPc = "idle" /\ Open(s)
    /\ \/ s.managed /\ Tell(s, "refused")
       \/ clock >= s.deadline /\ Tell(s, "expired")
       \/ clock < s.deadline /\ Tell(s, "refused")

Submit(s) ==
    /\ agentUp = "running" /\ spoolPc = "idle" /\ Open(s) /\ clock < s.deadline
    /\ spoolPc' = "prepare" /\ call' = s /\ at' = clock
    /\ UNCHANGED <<ledger, artifacts, keys, printJob, roots, files, agentUp, plan, resuming, file, verdict, scan, answer, clock>>

Holding(D) == Cardinality({a \in Submissions : Active(a) /\ a.device \in D})
SpoolDevices == {s.device : s \in Submissions}

\* assert_quota for one more slot.
HasRoom(d) == Holding({d}) < DeviceQueueLimit /\ Holding(SpoolDevices) < AgentQueueLimit

\* The admission a call works on: the one it finds, or a new one.
Planned == IF Found(call) = {} THEN call ELSE CHOOSE a \in Found(call) : TRUE

\* ledger.prepare: find or create the admission and its held reservation.
Prepare ==
    /\ spoolPc = "prepare"
    /\ LET a == Planned IN
       \/ /\ Active(a)
          /\ plan' = a /\ GoesTo("resume")
          /\ UNCHANGED <<ledger, call, at, resuming, file, verdict>>
       \/ /\ ~Active(a) /\ ~HasRoom(a.device)
          /\ Return("queue_full") /\ UNCHANGED ledger
       \/ /\ ~Active(a) /\ HasRoom(a.device)
          /\ state' = [state EXCEPT ![a] = "staging"]
          /\ reserv' = [reserv EXCEPT ![a] = "held"]
          /\ UNCHANGED code
          /\ \/ plan' = a /\ GoesTo("resume") /\ UNCHANGED <<call, at, resuming, file, verdict>>
             \/ Return("refused")
    /\ UNCHANGED <<artifacts, keys, printJob, roots, files, agentUp, scan, clock>>

\* Mutant: the row of the missing file stays.
KeepMissingArtifact ==
    ReleaseReservation(plan) /\ UNCHANGED <<state, code, artifacts>>

\* remove_missing_artifact
RemoveMissingArtifact ==
    /\ ref' = [ref EXCEPT ![plan] = Nil]
    /\ artifact' = [artifact EXCEPT ![plan] = "none"]
    /\ ReleaseReservation(plan) /\ UNCHANGED <<state, code, raster>>

\* complete_publication and remove_missing_artifact, for _resume_promoted and
\* for _reconcile.
Resume ==
    /\ spoolPc = "resume"
    /\ LET f == ref[plan] IN
       \/ /\ f = Nil
          /\ GoesTo("key") /\ UNCHANGED <<ledger, artifacts, files, agentUp, frame, scan>>
       \/ /\ f # Nil /\ f \notin objects \cup staged
          /\ \/ /\ RemoveMissingArtifact
                /\ \/ /\ call # Nil
                      /\ GoesTo("prepare") /\ plan' = Nil
                      /\ UNCHANGED <<call, at, resuming, file, verdict>>
                   \/ Uncertain
             \/ Uncertain /\ UNCHANGED <<ledger, artifacts>>
          /\ UNCHANGED <<files, agentUp, scan>>
       \/ /\ f # Nil /\ f \in staged \ objects
          /\ GoesTo("publish") /\ resuming' = TRUE /\ file' = f
          /\ UNCHANGED <<ledger, artifacts, files, agentUp, call, plan, at, verdict, scan>>
       \/ /\ f # Nil /\ f \in staged \cap objects
          /\ GoesTo("key") /\ resuming' = TRUE /\ file' = f
          /\ staged' = staged \ {f} /\ unsynced' = unsynced \ {f}
          /\ UNCHANGED <<ledger, artifacts, objects, sealed, agentUp, call, plan, at, verdict, scan>>
       \/ /\ f # Nil /\ f \in staged \cap objects
          /\ staged' = staged \ {f} /\ UNCHANGED <<objects, unsynced, sealed>>
          /\ StorageFails \/ (CallFails /\ UNCHANGED ledger)
          /\ UNCHANGED artifacts
       \/ /\ f # Nil /\ f \in objects \ staged
          /\ GoesTo("key") /\ resuming' = TRUE /\ file' = f
          /\ UNCHANGED <<ledger, artifacts, files, agentUp, call, plan, at, verdict, scan>>
       \/ /\ f # Nil
          /\ StorageFails /\ UNCHANGED <<artifacts, files>>
    /\ UNCHANGED <<keys, printJob, roots, clock>>

NextAfterKey == IF resuming THEN "verify" ELSE "encrypt"

\* _data_key_for: read the admission's key, or see to a current root key first.
DataKey ==
    /\ spoolPc = "key"
    /\ \/ /\ admissionKey[plan] # 0
          /\ GoesTo(NextAfterKey) /\ UNCHANGED <<ledger, root, agentUp, frame, scan>>
       \/ /\ admissionKey[plan] # 0
          /\ RootUnavailable /\ UNCHANGED root
       \/ /\ admissionKey[plan] = 0
          /\ root' = (IF root = "none" THEN "provisioning" ELSE root)
          /\ \/ GoesTo("provision") /\ UNCHANGED frame
             \/ Uncertain
          /\ UNCHANGED <<ledger, agentUp, scan>>
    /\ UNCHANGED <<artifacts, keys, printJob, secret, files, clock>>

\* Mutant: a key is generated although the store holds one.
ProvisionAgain ==
    /\ spoolPc = "provision"
    /\ secret' = secret + 1
    /\ GoesTo("current")
    /\ UNCHANGED <<ledger, artifacts, keys, printJob, root, files, agentUp, frame, scan, clock>>

\* _ensure_current_root outside its transactions: read the protected store,
\* generate the key of a version that is still being provisioned.
Provision ==
    /\ spoolPc = "provision"
    /\ \/ /\ secret # 0
          /\ GoesTo("current") /\ UNCHANGED <<ledger, secret, agentUp, frame, scan>>
       \/ /\ secret = 0 /\ root = "provisioning"
          /\ secret' = 1
          /\ GoesTo("current") /\ UNCHANGED <<ledger, agentUp, frame, scan>>
       \/ RootUnavailable /\ UNCHANGED secret
    /\ UNCHANGED <<artifacts, keys, printJob, root, files, clock>>

MakeCurrent ==
    /\ spoolPc = "current"
    /\ \/ root' = "current" /\ GoesTo("wrap") /\ UNCHANGED frame
       \/ root = "provisioning" /\ root' \in {root, "current"} /\ Uncertain
    /\ UNCHANGED <<ledger, artifacts, keys, printJob, secret, files, agentUp, scan, clock>>

\* The data key is wrapped and recorded; its nonce reservation may be uncertain,
\* and SpoolCryptoError (no randomness, no fresh nonce) ends the admission.
Wrap ==
    /\ spoolPc = "wrap"
    /\ \/ /\ admissionKey' = [admissionKey EXCEPT ![plan] = secret]
          /\ GoesTo(NextAfterKey) /\ UNCHANGED frame
       \/ Uncertain /\ UNCHANGED admissionKey
       \/ Uncertain /\ admissionKey' = [admissionKey EXCEPT ![plan] = secret]
       \/ AbortWith("recovery_uncertain") /\ UNCHANGED admissionKey
    /\ UNCHANGED <<ledger, artifacts, jobKey, printJob, roots, files, agentUp, scan, clock>>

\* The references artifact rows name.
Rows == {ref[s] : s \in Submissions} \cup {raster[s] : s \in Submissions}
Unused == Refs \ (staged \cup objects \cup Rows)

\* encrypt_artifact and stage_bytes.  The document is sealed for the intent of
\* the call, which need not be the intent of the admission it resumes; a
\* SpoolCryptoError ends the admission.
Encrypt ==
    /\ spoolPc = "encrypt"
    /\ \/ \E f \in Unused :
            /\ staged' = staged \cup {f} /\ sealed' = [sealed EXCEPT ![f] = call.intent]
            /\ file' = f /\ GoesTo("record")
            /\ UNCHANGED <<ledger, objects, unsynced, agentUp, call, plan, at, resuming, verdict, scan>>
       \/ StorageFails /\ UNCHANGED files
       \/ Uncertain /\ UNCHANGED <<ledger, files, agentUp, scan>>
       \/ AbortWith("recovery_uncertain") /\ UNCHANGED <<ledger, files, agentUp, scan>>
    /\ UNCHANGED <<artifacts, keys, printJob, roots, clock>>

\* record_staged_artifact
Record ==
    /\ spoolPc = "record"
    /\ \/ Uncertain /\ UNCHANGED artifacts
       \/ /\ ref' = [ref EXCEPT ![plan] = file]
          /\ artifact' = [artifact EXCEPT ![plan] = "staging"] /\ UNCHANGED raster
          /\ \/ GoesTo("publish") /\ UNCHANGED frame
             \/ Uncertain
    /\ UNCHANGED <<ledger, keys, printJob, roots, files, agentUp, scan, clock>>

\* ArtifactFileStore.commit up to its first sync: link, then unlink.
PublishObject ==
    /\ spoolPc = "publish"
    /\ \/ /\ objects' = objects \cup {file} /\ unsynced' = unsynced \cup {file}
          /\ \/ staged' = staged \ {file} /\ GoesTo("sync") /\ UNCHANGED frame
             \/ staged' = staged /\ Uncertain
          /\ UNCHANGED <<ledger, sealed, agentUp, scan>>
       \/ StorageFails /\ UNCHANGED files
    /\ UNCHANGED <<artifacts, keys, printJob, roots, clock>>

\* Both directories are synced, or the publication stays uncertain.
Sync ==
    /\ spoolPc = "sync"
    /\ \/ /\ unsynced' = unsynced \ {file}
          /\ GoesTo(IF resuming THEN "key" ELSE "verify") /\ UNCHANGED frame
       \/ Uncertain /\ UNCHANGED unsynced
    /\ UNCHANGED <<ledger, artifacts, keys, printJob, roots, staged, objects, sealed, agentUp, scan, clock>>

\* _verify_artifact: read the object back and decrypt it for the admission.
Verify ==
    /\ spoolPc = "verify"
    /\ \/ /\ ref[plan] \in objects /\ sealed[ref[plan]] = plan.intent
          /\ GoesTo("finalize") /\ UNCHANGED <<ledger, agentUp, frame, scan>>
       \/ /\ ref[plan] \in objects /\ sealed[ref[plan]] # plan.intent
          /\ AbortWith("recovery_uncertain") /\ UNCHANGED <<ledger, agentUp, scan>>
       \/ StorageFails
    /\ UNCHANGED <<artifacts, keys, printJob, roots, files, clock>>

\* The rows of the publication barrier.
Publication ==
    /\ state' = [state EXCEPT ![plan] = "accepted"]
    /\ printJob' = [printJob EXCEPT ![plan] = "accepted"]
    /\ reserv' = [reserv EXCEPT ![plan] = "committed"]
    /\ artifact' = [artifact EXCEPT ![plan] = "committed"]
    /\ jobKey' = [jobKey EXCEPT ![plan] = admissionKey[plan]]
    /\ admissionKey' = [admissionKey EXCEPT ![plan] = 0]
    /\ UNCHANGED <<code, ref, raster>>

FinalizeTime == IF resuming THEN at ELSE clock

\* _finalize: sharing, deadline, content, authority; then everything at once.
Finalize ==
    /\ spoolPc = "finalize"
    /\ \/ /\ plan.deadline > FinalizeTime /\ ref[plan] \in objects
          /\ Publication
          /\ Return("accepted") \/ Uncertain
          /\ UNCHANGED <<agentUp, scan>>
       \/ /\ \/ plan.managed /\ AbortWith("capability_changed")
             \/ plan.deadline <= FinalizeTime /\ AbortWith("expired")
             \/ plan.deadline > FinalizeTime /\ \E c \in Final : AbortWith(c)
             \/ plan.deadline > FinalizeTime /\ Return("service_unavailable")
             \/ plan.deadline > FinalizeTime /\ Uncertain
          /\ UNCHANGED <<ledger, artifacts, keys, printJob, agentUp, scan>>
       \/ /\ plan.deadline > FinalizeTime
          /\ StorageFails /\ UNCHANGED <<artifacts, keys, printJob>>
    /\ UNCHANGED <<roots, files, clock>>

AbortFiles ==
    /\ spoolPc = "abortFiles"
    /\ \/ /\ staged' = staged \ {ref[plan]} /\ objects' = objects \ {ref[plan]}
          /\ unsynced' = unsynced \ {ref[plan]} /\ Contents
          /\ GoesTo("abort") /\ UNCHANGED <<agentUp, frame, scan>>
       \/ /\ staged' \in {staged, staged \ {ref[plan]}}
          /\ objects' \in {objects, objects \ {ref[plan]}}
          /\ unsynced' = unsynced \cap objects' /\ Contents
          /\ CallFails
    /\ UNCHANGED <<ledger, artifacts, keys, printJob, roots, clock>>

\* Mutant: the admission is not closed.
AbortContent ==
    /\ spoolPc = "abort"
    /\ ref' = [ref EXCEPT ![plan] = Nil]
    /\ artifact' = [artifact EXCEPT ![plan] = "none"]
    /\ admissionKey' = [admissionKey EXCEPT ![plan] = 0]
    /\ ReleaseReservation(plan)
    /\ Return(verdict)
    /\ UNCHANGED <<state, code, raster, jobKey, printJob, roots, files, agentUp, scan, clock>>

\* ledger.abort_preaccept
AbortRows ==
    /\ spoolPc = "abort"
    /\ ref' = [ref EXCEPT ![plan] = Nil]
    /\ artifact' = [artifact EXCEPT ![plan] = "none"]
    /\ admissionKey' = [admissionKey EXCEPT ![plan] = 0]
    /\ ReleaseReservation(plan)
    /\ state' = [state EXCEPT ![plan] = "aborted"]
    /\ code' = [code EXCEPT ![plan] = verdict]
    /\ \/ Return(verdict) /\ UNCHANGED <<agentUp, scan>>
       \/ CallFails
    /\ UNCHANGED <<raster, jobKey, printJob, roots, files, clock>>

\* The same transaction fails.
AbortFails ==
    /\ spoolPc = "abort"
    /\ CallFails
    /\ UNCHANGED <<ledger, artifacts, keys, printJob, roots, files, clock>>
-----------------------------------------------------------------------------
(* reconcile, at startup                                                   *)

Start ==
    /\ agentUp = "down"
    /\ agentUp' = "starting" /\ spoolPc' = "reconcile" /\ at' = clock
    /\ todo' = {s \in Submissions : state[s] = "staging"} /\ referenced' = {}
    /\ UNCHANGED <<ledger, artifacts, keys, printJob, roots, files, call, plan, resuming, file, verdict, answer, clock>>

\* One incomplete admission: give its reservation back, resume it or abort it.
ReconcileRow(a) ==
    /\ spoolPc = "reconcile" /\ a \in todo
    /\ todo' = todo \ {a}
    /\ referenced' = (IF ref[a] = Nil THEN referenced ELSE referenced \cup {ref[a]})
    /\ \/ /\ ref[a] = Nil
          /\ GiveBack(a)
          /\ UNCHANGED <<spoolPc, plan, verdict>>
       \/ /\ ref[a] # Nil /\ Active(a)
          /\ plan' = a /\ spoolPc' = "resume"
          /\ UNCHANGED <<reserv, verdict>>
       \/ /\ ref[a] # Nil /\ ~Active(a)
          /\ plan' = a /\ spoolPc' = "abortFiles" /\ verdict' = "recovery_uncertain"
          /\ UNCHANGED reserv
    /\ UNCHANGED <<state, code, artifacts, keys, printJob, roots, files, agentUp, call, at, resuming, file, answer, clock>>

RowsDone ==
    /\ spoolPc = "reconcile" /\ todo = {}
    /\ spoolPc' = "missing"
    /\ UNCHANGED <<ledger, artifacts, keys, printJob, roots, files, agentUp, frame, scan, answer, clock>>

Missing(s) == printJob[s] = "accepted" /\ ref[s] \notin objects

\* _fail_accepted_job_without_content
FailMissing(s) ==
    /\ spoolPc = "missing" /\ Missing(s)
    /\ printJob' = [printJob EXCEPT ![s] = "failed"]
    /\ artifact' = [artifact EXCEPT ![s] = IF @ = "committed" THEN "deleted" ELSE @]
    /\ jobKey' = [jobKey EXCEPT ![s] = 0]
    /\ reserv' = [reserv EXCEPT ![s] = IF @ = "committed" THEN "released" ELSE @]
    /\ UNCHANGED <<state, code, ref, raster, admissionKey, roots, files, agentUp, spoolPc, frame, scan, answer, clock>>

MissingDone ==
    /\ spoolPc = "missing"
    /\ LookupsFail \/ \A s \in Submissions : ~Missing(s)
    /\ spoolPc' = "clean"
    /\ UNCHANGED <<ledger, artifacts, keys, printJob, roots, files, agentUp, frame, scan, answer, clock>>

\* Mutant: only what this startup has seen is considered.
OrphanObjectsSeen == referenced \ Rows

OrphanObjects == objects \ Rows

\* Staged files no incomplete admission names, then objects no row names.
Clean ==
    /\ spoolPc = "clean"
    /\ \/ \E f \in staged \ referenced : staged' = staged \ {f} /\ UNCHANGED <<objects, unsynced>>
       \/ /\ staged \subseteq referenced
          /\ \E f \in OrphanObjects : objects' = objects \ {f} /\ unsynced' = unsynced \ {f}
          /\ UNCHANGED staged
    /\ Contents
    /\ UNCHANGED <<ledger, artifacts, keys, printJob, roots, agentUp, spoolPc, frame, scan, answer, clock>>

Ready ==
    /\ spoolPc = "clean" /\ staged \subseteq referenced /\ OrphanObjects = {}
    /\ agentUp' = "running" /\ spoolPc' = "idle" /\ at' = 0 /\ referenced' = {}
    /\ UNCHANGED <<ledger, artifacts, keys, printJob, roots, files, call, plan, resuming, file, verdict, todo, answer, clock>>
-----------------------------------------------------------------------------
(* The rest of the world                                                   *)

\* The process dies, or the host loses power and with it any directory entry
\* that was not synced: an object may be gone, a staged name may be back.
SpoolCrash ==
    /\ agentUp # "down"
    /\ agentUp' = "down" /\ spoolPc' = "idle" /\ call' = Nil /\ plan' = Nil /\ at' = 0
    /\ resuming' = FALSE /\ file' = Nil /\ verdict' = "none" /\ todo' = {} /\ referenced' = {}
    /\ answer' = (IF call = Nil THEN answer ELSE [answer EXCEPT ![call] = "none"])
    /\ \/ UNCHANGED files
       \/ /\ \E kept, back \in SUBSET unsynced :
               /\ objects' = (objects \ unsynced) \cup kept
               /\ staged' = staged \cup back
          /\ unsynced' = {} /\ Contents
    /\ UNCHANGED <<ledger, artifacts, keys, printJob, roots, clock>>

\* Execution publishes a derived raster, and records it in a later transaction.
RenderRaster(s) ==
    /\ agentUp = "running" /\ printJob[s] = "accepted" /\ raster[s] = Nil
    /\ \A f \in OrphanObjects : sealed[f] # s.intent
    /\ \E f \in Unused :
         objects' = objects \cup {f} /\ sealed' = [sealed EXCEPT ![f] = s.intent]
    /\ UNCHANGED <<ledger, artifacts, keys, printJob, roots, staged, unsynced, agentUp, spoolPc, frame, scan, answer, clock>>

RecordRaster(s) ==
    /\ agentUp = "running" /\ printJob[s] = "accepted" /\ raster[s] = Nil
    /\ \E f \in OrphanObjects : sealed[f] = s.intent /\ raster' = [raster EXCEPT ![s] = f]
    /\ UNCHANGED <<ledger, ref, artifact, keys, printJob, roots, files, agentUp, spoolPc, frame, scan, answer, clock>>

\* Execution ends a job, and wipes its key when the output was confirmed; the
\* admission's reservation is not touched.
JobEnds(s) ==
    /\ agentUp = "running" /\ printJob[s] = "accepted"
    /\ printJob' = [printJob EXCEPT ![s] = "ended"]
    /\ artifact' = [artifact EXCEPT ![s] = "delete_pending"]
    /\ jobKey' \in {jobKey, [jobKey EXCEPT ![s] = 0]}
    /\ UNCHANGED <<ledger, ref, raster, admissionKey, roots, files, agentUp, spoolPc, frame, scan, answer, clock>>

\* The execution spool deletes the file of an ended job.
ReleaseContent(s) ==
    /\ agentUp = "running" /\ artifact[s] = "delete_pending"
    /\ artifact' = [artifact EXCEPT ![s] = "deleted"]
    /\ objects' = objects \ {ref[s], raster[s]} /\ unsynced' = unsynced \ {ref[s]}
    /\ UNCHANGED staged /\ Contents
    /\ UNCHANGED <<ledger, ref, raster, keys, printJob, roots, agentUp, spoolPc, frame, scan, answer, clock>>

SpoolTick ==
    /\ clock < SpoolMaxTime /\ clock' = clock + 1
    /\ UNCHANGED <<ledger, artifacts, keys, printJob, roots, files, agentUp, spoolPc, frame, scan, answer>>

\* The steps of the call that holds the lock.
AdmissionStep ==
    \/ Prepare \/ Resume \/ DataKey \/ Provision \/ MakeCurrent \/ Wrap \/ Encrypt
    \/ Record \/ PublishObject \/ Sync \/ Verify \/ Finalize \/ AbortFiles \/ AbortRows
    \/ AbortFails
    \/ RowsDone \/ MissingDone \/ Clean \/ Ready
    \/ \E s \in Submissions : ReconcileRow(s) \/ FailMissing(s)

SpoolNext ==
    \/ AdmissionStep \/ Start \/ SpoolCrash \/ SpoolTick
    \/ \E s \in Submissions :
         Replay(s) \/ Refuse(s) \/ Submit(s)
         \/ RenderRaster(s) \/ RecordRaster(s) \/ JobEnds(s) \/ ReleaseContent(s)

SpoolSpec == SpoolInit /\ [][SpoolNext]_spoolVars

-----------------------------------------------------------------------------
(* Properties                                                              *)

\* A submission key and an origin become at most one Print Job, whatever is
\* retried, resumed or repaired (find_idempotency, find_origin, _finalize).
OneJobPerIntent ==
    \A s, t \in Submissions :
        /\ printJob[s] # "none" /\ printJob[t] # "none"
        /\ s.key = t.key \/ s.origin = t.origin
        => s = t

\* Whoever was told `accepted' has a Print Job for the document they
\* submitted, and no crash takes it back.
AcceptedIsKept ==
    \A s \in Submissions : answer[s] = "accepted" =>
        \E a \in Submissions : /\ printJob[a] # "none" /\ a.body = s.body
                               /\ a.key = s.key \/ a.origin = s.origin

\* Every job execution may claim has its document on disk, sealed for its
\* intent, under a key that can still be unwrapped (_finalize, _reconcile).
AcceptedIsReadable ==
    agentUp = "running" => \A s \in Submissions : printJob[s] = "accepted" =>
        /\ ref[s] \in objects /\ sealed[ref[s]] = s.intent
        /\ jobKey[s] = secret /\ jobKey[s] # 0

\* Accepted jobs never exceed the queue limits, although reservations are
\* released and taken again by retries and by startup (assert_quota).
QueueBounded ==
    LET Queued(D) == {s \in Submissions : printJob[s] = "accepted" /\ s.device \in D} IN
    /\ Cardinality(Queued(SpoolDevices)) <= AgentQueueLimit
    /\ \A d \in SpoolDevices : Cardinality(Queued({d})) <= DeviceQueueLimit

\* Someone told that their work expired, or lost its authority, will not see
\* it printed later by a retry or by startup (_abort_preaccept, raise_if_aborted).
FinalIsFinal ==
    \A s \in Submissions : answer[s] \in Final =>
        \A a \in Found(s) :
            ~Conflicts(s, a) /\ a.deadline <= s.deadline => printJob[a] = "none"

\* When the Agent is ready no file in the spool is without an artifact row.
StartupCleans ==
    [][agentUp = "starting" /\ agentUp' = "running" =>
         staged' \cup objects' \subseteq Rows']_spoolVars

\* accept returns and startup finishes: no retry loop inside a call goes on
\* for ever (_RestartAdmission).
CallsEnd == spoolPc # "idle" ~> spoolPc = "idle"

\* What the design says of acceptance: the containing directory is synced
\* before the Accepted state commits.
AcceptedIsDurable ==
    \A s \in Submissions : printJob[s] = "accepted" => ref[s] \notin unsynced

\* What the design says of the queue: it refuses work when it is full.
FullMeansFull ==
    [][\A s \in Submissions : answer[s] # "queue_full" /\ answer'[s] = "queue_full" =>
         LET Queued(D) == {a \in Submissions : a.device \in D
                             /\ (state[a] = "staging" \/ printJob[a] = "accepted")} IN
         \/ Cardinality(Queued({s.device})) >= DeviceQueueLimit
         \/ Cardinality(Queued(SpoolDevices)) >= AgentQueueLimit]_spoolVars

-----------------------------------------------------------------------------
(* The inductive invariant.  Its parts say what each step of a call may rely  *)
(* on, whatever execution, time and crashes did since the step before.        *)

\* The ledger: one row per key and per origin, and what a row says of its job
\* and of its reservation.
RowInv ==
    /\ \A s, t \in Submissions :
         state[s] # "none" /\ state[t] # "none" /\ (s.key = t.key \/ s.origin = t.origin)
           => s = t
    /\ \A s \in Submissions :
         /\ printJob[s] # "none" <=> state[s] = "accepted"
         /\ printJob[s] = "accepted" => reserv[s] = "committed"
         /\ Active(s) => state[s] # "none"
         /\ artifact[s] = "delete_pending" => printJob[s] = "ended"

Scanning == {"reconcile", "missing", "clean"}

\* The call that holds the lock: what accept checked before its first await
\* still holds when the admission is planned and when it is finalized.
CallInv ==
    /\ plan = Nil <=> spoolPc \in {"idle", "prepare"} \cup Scanning
    /\ plan # Nil => state[plan] = "staging"
    /\ spoolPc = "idle" \/ spoolPc \in Scanning => call = Nil
    /\ spoolPc = "prepare" => call # Nil
    /\ spoolPc # "idle" => agentUp = (IF call = Nil THEN "starting" ELSE "running")
    /\ spoolPc = "idle" => agentUp # "starting"
    /\ call # Nil => Open(call) /\ at < call.deadline
    /\ call # Nil /\ plan # Nil => plan \in Found(call)

\* The directories: no two rows name one file, and no step touches the file of
\* a job that it does not own.
FileInv ==
    /\ \A s, t \in Submissions : ref[s] # Nil =>
         /\ ref[s] = ref[t] => s = t
         /\ ref[s] # raster[t]
    /\ unsynced \subseteq objects \cap {ref[s] : s \in Submissions}
    /\ \A s \in Submissions : printJob[s] = "accepted" /\ ref[s] \in objects =>
         sealed[ref[s]] = s.intent
    /\ \/ spoolPc \in {"encrypt", "record"}
       \/ spoolPc \in {"key", "provision", "current", "wrap"} /\ ~resuming
       => ref[plan] = Nil
    /\ spoolPc = "record" => file \in staged /\ file \notin objects \cup Rows
    /\ spoolPc \in {"publish", "sync"} => file = ref[plan] /\ file # Nil
    /\ spoolPc = "finalize" => ref[plan] \in objects /\ sealed[ref[plan]] = plan.intent
    /\ spoolPc = "abort" => ref[plan] \notin staged \cup objects

\* The keys: there is one root key, and no document is sealed or accepted
\* without a data key that it wraps.
KeyInv ==
    /\ \A s \in Submissions :
         /\ admissionKey[s] \in {0, secret} /\ jobKey[s] \in {0, secret}
         /\ printJob[s] = "accepted" => jobKey[s] # 0
    /\ spoolPc \in {"current", "wrap"} => secret # 0
    /\ \/ spoolPc \in {"encrypt", "record", "verify", "finalize"}
       \/ spoolPc \in {"publish", "sync"} /\ ~resuming
       => admissionKey[plan] # 0

\* Startup: the rows it has still to visit are incomplete, it never encrypts,
\* and a reference it has seen and no row names has no file.
ScanInv ==
    /\ \A a \in todo : state[a] = "staging" /\ a # plan
    /\ agentUp # "starting" => todo = {} /\ referenced = {}
    /\ spoolPc \in {"missing", "clean"} => todo = {}
    /\ \A f \in referenced : f \in Rows \/ f \notin staged \cup objects
    /\ spoolPc \in {"encrypt", "record"} => call # Nil
    /\ call = Nil /\ spoolPc = "resume" => ref[plan] # Nil
    /\ call = Nil /\ spoolPc \in {"key", "provision", "current", "wrap", "publish", "sync"}
         => resuming

\* What startup establishes before it cleans, and no step of a running Agent
\* undoes: the content of every job that execution may claim is there.
ContentInv ==
    agentUp = "running" \/ spoolPc = "clean" =>
        \A s \in Submissions : ~Missing(s)

\* A call that may still accept its work holds a reservation, ...
HeldInv == plan # Nil /\ spoolPc \notin {"abortFiles", "abort"} => Active(plan)

\* ... and the reservations, finitely many, are within the limits.
QuotaInv ==
    /\ IsFiniteSet({a \in Submissions : Active(a)})
    /\ Holding(SpoolDevices) <= AgentQueueLimit
    /\ \A d \in SpoolDevices : Holding({d}) <= DeviceQueueLimit

\* The deadline has passed, for the call in progress too.
Lapsed(s) == s.deadline <= clock /\ (spoolPc # "idle" => s.deadline <= at)

\* A final answer rests on an aborted row, or on a deadline that passed while
\* the work was not accepted.
FinalInv ==
    \A s \in Submissions : answer[s] \in Final =>
        \/ \E a \in Submissions :
             /\ state[a] = "aborted" /\ ~Conflicts(s, a)
             /\ a.key = s.key \/ a.origin = s.origin
        \/ /\ Lapsed(s)
           /\ \A a \in Found(s) :
                ~Conflicts(s, a) /\ a.deadline <= s.deadline => state[a] # "accepted"

SpoolInv ==
    /\ SpoolTypeOK /\ RowInv /\ CallInv /\ FileInv /\ KeyInv /\ ScanInv
    /\ HeldInv /\ QuotaInv /\ FinalInv /\ AcceptedIsKept

=============================================================================
