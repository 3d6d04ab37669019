------------------------- MODULE PhysicalExecution -------------------------
(***************************************************************************)
(* The Agent's physical execution of accepted Print Jobs                   *)
(* (packages/agent/inari/physical_execution): the execution ledger in      *)
(* SQLite, the run_one coroutines that drive it, the isolated printer      *)
(* processes that perform the device I/O, and the crashes, restarts,       *)
(* cancellations and lease expiries they have to survive.                  *)
(*                                                                         *)
(* A coroutine awaits one ledger or spool call at a time.  The call runs   *)
(* on another thread: it is a member of `calls' from the moment the        *)
(* coroutine issues it, carries the time read at that moment, and commits  *)
(* as one immediate transaction.  A coroutine that is cancelled leaves its *)
(* call behind; the orphaned call still commits, against whatever the      *)
(* database holds by then.                                                 *)
(***************************************************************************)
EXTENDS Integers, FiniteSets, Sequences

CONSTANTS
    Jobs,            \* Print Jobs; their order is the order of their ids
    Devices,
    DeviceOf,        \* the device of each job
    Deadline,        \* expires_at of each job
    Receipts,        \* jobs whose document is rendered to a derived raster
    Workers,         \* concurrent run_one calls of one scheduler batch
    Attempts,        \* attempt ids: bounds the number of claims
    LeaseDuration,   \* ticks a lease lasts without renewal
    MaxTime,         \* bound: the clock stops here
    MaxGeneration,   \* bound: owner generations, hence restarts
    WallClockSteps,  \* TRUE iff the host's wall clock may be set back
    WorkersCanHang,  \* TRUE iff a printer process may survive terminate and kill
    None

Time == 0 .. MaxTime
Generations == 1 .. MaxGeneration

ASSUME ConstantsAssumption ==
    /\ Jobs \subseteq Nat
    /\ DeviceOf \in [Jobs -> Devices]
    /\ MaxTime \in Nat
    /\ MaxGeneration \in Nat \ {0}
    /\ LeaseDuration \in Nat \ {0}
    /\ Deadline \in [Jobs -> Nat]
    /\ Receipts \subseteq Jobs
    /\ WallClockSteps \in BOOLEAN
    /\ WorkersCanHang \in BOOLEAN
    /\ None \notin Attempts
    /\ None \notin Jobs

VARIABLES
    \* print_jobs, job events, spool artifacts and keys
    jobState, version, journal, stamp, original, derived, keyWiped,
    \* print_execution_attempts and execution_temp reservations
    job, owner, lease, phase, marked, attemptVersion, holds,
    \* the operating system and the device
    child, printed,
    \* the Agent process
    up, gen, pc, claim, result, calls, cancelled,
    \* the surroundings: wall clock, devices a Device Test occupies
    now, testing

jobVars == <<jobState, version, journal, stamp, original, derived, keyWiped>>
attemptVars == <<job, owner, lease, phase, marked, attemptVersion, holds>>
deviceVars == <<child, printed>>
processVars == <<up, gen, pc, claim, result, calls, cancelled>>
envVars == <<now, testing>>
vars == <<jobVars, attemptVars, deviceVars, processVars, envVars>>

Unmarked == {"claimed", "prepared"}
Marked == {"marker_committed", "permission_delivered"}
ActivePhases == Unmarked \cup Marked

Terminal == {"output_confirmed", "failed", "outcome_unknown", "expired"}
JobStates == {"none", "accepted", "in_progress"} \cup Terminal

\* delete_pending rows are told apart by their retention policy.
ArtifactStates == {"none", "committed", "success_immediate", "failure_24h",
                   "deleted"}

\* A printer process: waiting for permission, permitted to use the device,
\* finished with the device, its answer in the pipe, or no longer running.
ChildStates == {"none", "ready", "permitted", "printed", "confirmed",
                "unknown", "gone"}
Alive == {"ready", "permitted", "printed"}

\* The calls a coroutine awaits, and the other points where it can be.
Ops == {"claim_next", "spool_prepare", "mark_prepared", "fail_before_io",
        "mark_io_started", "note_permission", "finish", "spool_release",
        "abandon"}
Points == Ops \cup {"idle", "scheduled", "start_worker", "execute", "close",
                    "cleanup", "abort"}

Call(w, op, a, t) == [w |-> w, op |-> op, a |-> a, at |-> t]

Init ==
    /\ jobState = [j \in Jobs |-> "none"]
    /\ version = [j \in Jobs |-> 0]
    /\ journal = [j \in Jobs |-> <<>>]
    /\ stamp = [j \in Jobs |-> 0]
    /\ original = [j \in Jobs |-> "none"]
    /\ derived = [j \in Jobs |-> "none"]
    /\ keyWiped = {}
    /\ job = [a \in Attempts |-> None]
    /\ owner = [a \in Attempts |-> 0]
    /\ lease = [a \in Attempts |-> 0]
    /\ phase = [a \in Attempts |-> "none"]
    /\ marked = {}
    /\ attemptVersion = [a \in Attempts |-> 0]
    /\ holds = {}
    /\ child = [a \in Attempts |-> "none"]
    /\ printed = [j \in Jobs |-> 0]
    /\ up = "running"
    /\ gen = 1
    /\ pc = [w \in Workers |-> "idle"]
    /\ claim = [w \in Workers |-> None]
    /\ result = [w \in Workers |-> "unknown"]
    /\ calls = {}
    /\ cancelled = {}
    /\ now = 0
    /\ testing = {}

----------------------------------------------------------------------------
(* The ledger's building blocks.                                           *)

\* Mutation of Scheduled: success leaves the artifacts for nobody to delete.
ScheduledOnFailureOnly(artifact, s) ==
    IF artifact = "committed" /\ s \in Terminal \ {"output_confirmed"}
    THEN "failure_24h" ELSE artifact

\* _schedule_artifact_release: committed rows become delete_pending.
Scheduled(artifact, s) ==
    IF artifact = "committed" /\ s \in Terminal
    THEN IF s = "output_confirmed" THEN "success_immediate" ELSE "failure_24h"
    ELSE artifact

\* The jobs in DOMAIN new change state at time t: each gets one new version
\* and one event, and a terminal state schedules its artifacts for deletion.
Publish(new, t) ==
    LET S == DOMAIN new IN
    /\ jobState' = [j \in Jobs |-> IF j \in S THEN new[j] ELSE jobState[j]]
    /\ version' = [j \in Jobs |-> IF j \in S THEN version[j] + 1
                                             ELSE version[j]]
    /\ journal' = [j \in Jobs |-> IF j \in S THEN Append(journal[j], new[j])
                                             ELSE journal[j]]
    /\ stamp' = [j \in Jobs |-> IF j \in S THEN t ELSE stamp[j]]
    /\ original' = [j \in Jobs |-> IF j \in S THEN Scheduled(original[j], new[j])
                                              ELSE original[j]]
    /\ derived' = [j \in Jobs |-> IF j \in S THEN Scheduled(derived[j], new[j])
                                             ELSE derived[j]]
    /\ keyWiped' = keyWiped \cup {j \in S : new[j] = "output_confirmed"}

\* _fence: the attempt is in one of the phases, its lease is not over at the
\* time the caller read, and it belongs to this process.
Fenced(a, t, phases) ==
    /\ phase[a] \in phases
    /\ lease[a] > t
    /\ owner[a] = gen

\* _release_reservation: the hold this job took under this generation.
Released(a) == holds \ {<<job[a], owner[a]>>}

\* Mutation of JobIs: the state of the job is not compared again.
JobIsUnchecked(a, s) == TRUE

\* _job: the job is still in the state and version the attempt recorded.
JobIs(a, s) == /\ jobState[job[a]] = s
               /\ version[job[a]] = attemptVersion[a]

HeldDevices == {DeviceOf[h[1]] : h \in holds}

\* _device_is_busy
DeviceIsBusy(d) == d \in testing \/ d \in HeldDevices

\* Mutation of Before: newest first.
BeforeDescending(i, j) == stamp[i] > stamp[j] \/ (stamp[i] = stamp[j] /\ i > j)

\* ORDER BY accepted_at, id
Before(i, j) == stamp[i] < stamp[j] \/ (stamp[i] = stamp[j] /\ i < j)

FreshAttempt == CHOOSE a \in Attempts : phase[a] = "none"

----------------------------------------------------------------------------
(* Coroutine control.                                                      *)

\* The call c has ended.  If its coroutine still waits for it, the coroutine
\* goes on with attempt a at point `next', where the next call is issued with
\* the time of this moment; otherwise nobody hears the answer.
Continue(c, next, a) ==
    IF pc[c.w] = c.op
    THEN /\ pc' = [pc EXCEPT ![c.w] = next]
         /\ claim' = [claim EXCEPT ![c.w] = IF next = "idle" THEN None
                                                             ELSE a]
         /\ calls' = (calls \ {c}) \cup
                     (IF next \in Ops THEN {Call(c.w, next, a, now)} ELSE {})
    ELSE /\ calls' = calls \ {c}
         /\ UNCHANGED <<pc, claim>>

\* A coroutine step that is not the end of a call.
Goto(w, next) ==
    /\ pc' = [pc EXCEPT ![w] = next]
    /\ claim' = [claim EXCEPT ![w] = IF next = "idle" THEN None ELSE @]
    /\ calls' = IF next \in Ops
                THEN calls \cup {Call(w, next, claim[w], now)}
                ELSE calls

\* _physical_execution_loop: gather starts a batch once the last one is over.
StartBatch ==
    /\ up = "running"
    /\ \A w \in Workers : pc[w] = "idle"
    /\ pc' = [w \in Workers |-> "scheduled"]
    /\ UNCHANGED <<jobVars, attemptVars, deviceVars, up, gen, claim, result,
                   calls, cancelled, envVars>>

\* run_one reads the clock and hands claim_next to a thread.
RunOne(w) ==
    /\ pc[w] = "scheduled"
    /\ Goto(w, "claim_next")
    /\ UNCHANGED <<jobVars, attemptVars, deviceVars, up, gen, result,
                   cancelled, envVars>>

\* Mutation of Late: the scan skips busy devices before it looks at deadlines.
LateOnFreeDevices(t) ==
    {j \in Jobs : /\ jobState[j] = "accepted" /\ Deadline[j] <= t
                  /\ ~DeviceIsBusy(DeviceOf[j])}

\* The accepted jobs a scan at time t finds past their deadline, busy or not.
Late(t) == {j \in Jobs : jobState[j] = "accepted" /\ Deadline[j] <= t}

\* _claim: a new attempt row under a new lease, and an execution_temp
\* reservation that holds the device for the job.
ClaimJob(a, j, t) ==
    /\ job' = [job EXCEPT ![a] = j]
    /\ owner' = [owner EXCEPT ![a] = gen]
    /\ lease' = [lease EXCEPT ![a] = t + LeaseDuration]
    /\ phase' = [phase EXCEPT ![a] = "claimed"]
    /\ attemptVersion' = [attemptVersion EXCEPT ![a] = version[j]]
    /\ holds' = holds \cup {<<j, gen>>}
    /\ UNCHANGED marked

\* claim_next: jobs past their deadline expire as the scan meets them; the
\* first job whose device is free is claimed.  A claim whose content or key
\* is missing raises, and the whole scan rolls back.
ClaimNext(c) ==
    LET accepted == {j \in Jobs : jobState[j] = "accepted"}
        late == Late(c.at)
        free == {j \in accepted \ late : ~DeviceIsBusy(DeviceOf[j])}
    IN
    /\ c \in calls /\ c.op = "claim_next"
    /\ IF free = {}
       THEN /\ Publish([i \in late |-> "expired"], c.at)
            /\ Continue(c, "idle", None)
            /\ UNCHANGED attemptVars
       ELSE \E j \in free :
            /\ \A i \in free \ {j} : Before(j, i)
            /\ IF original[j] # "committed" \/ j \in keyWiped
               THEN /\ Continue(c, "idle", None)
                    /\ UNCHANGED <<jobVars, attemptVars>>
               ELSE /\ \E a \in Attempts : phase[a] = "none"
                    /\ Publish([i \in {i \in late : Before(i, j)} |-> "expired"],
                               c.at)
                    /\ ClaimJob(FreshAttempt, j, c.at)
                    /\ Continue(c, "spool_prepare", FreshAttempt)
    /\ UNCHANGED <<deviceVars, up, gen, result, cancelled, envVars>>

\* _persist_derived: one raster row per admission, so a raster that is already
\* scheduled for deletion cannot be stored again.
CanPersistRaster(j) == derived[j] \in {"none", "committed"}
WithRaster(j) == IF j \in Receipts THEN [derived EXCEPT ![j] = "committed"]
                                   ELSE derived

\* EncryptedExecutionSpool.prepare: decrypt, and for a receipt render once and
\* keep the raster.  Neither the lease nor the state of the job is looked at.
SpoolPrepare(c) ==
    /\ c \in calls /\ c.op = "spool_prepare"
    /\ \/ /\ CanPersistRaster(job[c.a])
          /\ derived' = WithRaster(job[c.a])
          /\ Continue(c, "mark_prepared", c.a)
       \/ /\ Continue(c, "fail_before_io", c.a)
          /\ UNCHANGED derived
    /\ UNCHANGED <<jobState, version, journal, stamp, original, keyWiped,
                   attemptVars, deviceVars, up, gen, result, cancelled,
                   envVars>>

\* mark_prepared; a lost lease is treated like any preparation failure.
MarkPrepared(c) ==
    /\ c \in calls /\ c.op = "mark_prepared"
    /\ IF Fenced(c.a, c.at, {"claimed"})
       THEN /\ phase' = [phase EXCEPT ![c.a] = "prepared"]
            /\ Continue(c, "start_worker", c.a)
       ELSE /\ Continue(c, "fail_before_io", c.a)
            /\ UNCHANGED phase
    /\ UNCHANGED <<jobVars, job, owner, lease, marked, attemptVersion, holds,
                   deviceVars, up, gen, result, cancelled, envVars>>

\* IsolatedPrinterWorker.prepare and wait_ready: the printer process starts
\* and reports ready, or it does not start, or it is not ready in time.
StartWorker(w) ==
    /\ pc[w] = "start_worker"
    /\ \/ /\ child' = [child EXCEPT ![claim[w]] = "ready"]
          /\ Goto(w, "mark_io_started")
       \/ \E s \in {"none", "ready"} :
             /\ child' = [child EXCEPT ![claim[w]] = s]
             /\ Goto(w, "fail_before_io")
    /\ UNCHANGED <<jobVars, attemptVars, printed, up, gen, result, cancelled,
                   envVars>>

\* fail_before_io: the job fails, or expires if its deadline has passed.
FailBeforeIo(c) ==
    /\ c \in calls /\ c.op = "fail_before_io"
    /\ IF Fenced(c.a, c.at, Unmarked) /\ JobIs(c.a, "accepted")
       THEN /\ Publish([i \in {job[c.a]} |-> IF Deadline[i] <= c.at
                                             THEN "expired" ELSE "failed"],
                       c.at)
            /\ phase' = [phase EXCEPT ![c.a] = "finished"]
            /\ holds' = Released(c.a)
       ELSE UNCHANGED <<jobVars, phase, holds>>
    /\ Continue(c, "cleanup", c.a)
    /\ UNCHANGED <<job, owner, lease, marked, attemptVersion, deviceVars, up,
                   gen, result, cancelled, envVars>>

\* Whether the Client Grant and the Device Authority of the job still stand is
\* decided by tables other components write: either answer is possible.
GrantAndAuthority == BOOLEAN

\* mark_io_started: the last fence before the device.  The job may be too
\* late, or its Client Grant or Device Authority withdrawn.
MarkIoStarted(c) ==
    LET fenced == Fenced(c.a, c.at, {"prepared"}) /\ JobIs(c.a, "accepted")
        late == Deadline[job[c.a]] <= c.at
    IN
    /\ c \in calls /\ c.op = "mark_io_started"
    /\ \E permitted \in GrantAndAuthority :
       \/ /\ fenced /\ ~late /\ permitted
          /\ Publish([i \in {job[c.a]} |-> "in_progress"], c.at)
          /\ phase' = [phase EXCEPT ![c.a] = "marker_committed"]
          /\ marked' = marked \cup {c.a}
          /\ attemptVersion' = [attemptVersion EXCEPT ![c.a] = @ + 1]
          /\ Continue(c, "note_permission", c.a)
       \/ /\ fenced /\ (late \/ ~permitted)
          /\ Continue(c, "fail_before_io", c.a)
          /\ UNCHANGED <<jobVars, phase, marked, attemptVersion>>
       \/ /\ ~fenced
          /\ Continue(c, "cleanup", c.a)
          /\ UNCHANGED <<jobVars, phase, marked, attemptVersion>>
    /\ UNCHANGED <<job, owner, lease, holds, deviceVars, up, gen, result,
                   cancelled, envVars>>

\* note_permission_delivered, then the permit is sent to the printer process.
NotePermission(c) ==
    /\ c \in calls /\ c.op = "note_permission"
    /\ IF Fenced(c.a, c.at, {"marker_committed"})
       THEN /\ phase' = [phase EXCEPT ![c.a] = "permission_delivered"]
            /\ child' = IF pc[c.w] = c.op /\ child[c.a] = "ready"
                        THEN [child EXCEPT ![c.a] = "permitted"] ELSE child
            /\ Continue(c, "execute", c.a)
       ELSE /\ Continue(c, "abort", c.a)
            /\ UNCHANGED <<phase, child>>
    /\ UNCHANGED <<jobVars, job, owner, lease, marked, attemptVersion, holds,
                   printed, up, gen, result, cancelled, envVars>>

\* What execute makes of the printer process it waited for.
DriverOutcome(s) == IF s = "confirmed" THEN "confirmed" ELSE "unknown"

\* PreparedPrinterProcess.execute returns: an answer, or the end of the
\* process, or the deadline, at which the process is asked to terminate.
Execute(w) ==
    /\ pc[w] = "execute"
    /\ \/ /\ child[claim[w]] \in {"confirmed", "unknown", "gone"}
          /\ result' = [result EXCEPT ![w] = DriverOutcome(child[claim[w]])]
       \/ /\ now >= Deadline[job[claim[w]]]
          /\ result' = [result EXCEPT ![w] = "unknown"]
    /\ Goto(w, "close")
    /\ UNCHANGED <<jobVars, attemptVars, deviceVars, up, gen, cancelled,
                   envVars>>

\* PreparedPrinterProcess.close, before the result is recorded: terminate,
\* kill, and an error if the process is still alive.
Close(w) ==
    /\ pc[w] = "close"
    /\ \/ /\ child' = [child EXCEPT ![claim[w]] = "gone"]
          /\ Goto(w, "finish")
       \/ /\ WorkersCanHang /\ child[claim[w]] \in Alive
          /\ Goto(w, "abort")
          /\ UNCHANGED child
    /\ UNCHANGED <<jobVars, attemptVars, printed, up, gen, result, cancelled,
                   envVars>>

\* _result_state: a confirmation may carry less evidence than the contract asks.
ResultStates(outcome) == {"outcome_unknown"} \cup
    (IF outcome = "confirmed" THEN {"output_confirmed"} ELSE {})

\* finish: evidence that does not satisfy the contract is not a confirmation.
Finish(c) ==
    /\ c \in calls /\ c.op = "finish"
    /\ IF Fenced(c.a, c.at, {"permission_delivered"})
          /\ JobIs(c.a, "in_progress")
       THEN /\ \E s \in ResultStates(result[c.w]) :
                  Publish([i \in {job[c.a]} |-> s], c.at)
            /\ phase' = [phase EXCEPT ![c.a] = "finished"]
            /\ holds' = Released(c.a)
            /\ Continue(c, "spool_release", c.a)
       ELSE /\ Continue(c, "abandon", c.a)
            /\ UNCHANGED <<jobVars, phase, holds>>
    /\ UNCHANGED <<job, owner, lease, marked, attemptVersion, deviceVars, up,
                   gen, result, cancelled, envVars>>

\* EncryptedExecutionSpool.release: what is already due is deleted.  A
\* failure is logged and forgotten.
SpoolRelease(c) ==
    LET Gone(s) == IF s = "success_immediate" THEN "deleted" ELSE s IN
    /\ c \in calls /\ c.op = "spool_release"
    /\ \/ /\ original' = [original EXCEPT ![job[c.a]] = Gone(@)]
          /\ derived' = [derived EXCEPT ![job[c.a]] = Gone(@)]
       \/ UNCHANGED <<original, derived>>
    /\ Continue(c, "idle", c.a)
    /\ UNCHANGED <<jobState, version, journal, stamp, keyWiped, attemptVars,
                   deviceVars, up, gen, result, cancelled, envVars>>

\* The handlers of run_one that run when no marker was committed: close the
\* process, which only waits for a permit and ends with its pipe, and return.
Cleanup(w) ==
    /\ pc[w] = "cleanup"
    /\ child' = [child EXCEPT ![claim[w]] = IF @ = "none" THEN "none"
                                                          ELSE "gone"]
    /\ Goto(w, "idle")
    /\ UNCHANGED <<jobVars, attemptVars, printed, up, gen, result, cancelled,
                   envVars>>

\* The same handlers after the marker: only when the process is known to have
\* ended is the attempt abandoned.  Otherwise run_one raises and the attempt
\* keeps its hold; the last close, in finally, may still end the process.
Abort(w) ==
    /\ pc[w] = "abort"
    /\ \/ /\ child' = [child EXCEPT ![claim[w]] = "gone"]
          /\ Goto(w, "abandon")
       \/ /\ WorkersCanHang /\ child[claim[w]] \in Alive
          /\ \E s \in {child[claim[w]], "gone"} :
                child' = [child EXCEPT ![claim[w]] = s]
          /\ Goto(w, "idle")
    /\ UNCHANGED <<jobVars, attemptVars, printed, up, gen, result, cancelled,
                   envVars>>

\* Mutation of Abandonable: the usual fence, lease included.
AbandonableUnderLease(a, t) == Fenced(a, t, Marked)

\* The fence of abandon_after_marker: it must work once the lease is over.
Abandonable(a, t) == phase[a] \in Marked /\ owner[a] = gen

\* abandon_after_marker: no lease is required, only a job still in progress.
AbandonAfterMarker(c) ==
    /\ c \in calls /\ c.op = "abandon"
    /\ IF Abandonable(c.a, c.at) /\ jobState[job[c.a]] = "in_progress"
       THEN /\ Publish([i \in {job[c.a]} |-> "outcome_unknown"], c.at)
            /\ phase' = [phase EXCEPT ![c.a] = "recovered"]
            /\ holds' = Released(c.a)
       ELSE UNCHANGED <<jobVars, phase, holds>>
    /\ Continue(c, "idle", c.a)
    /\ UNCHANGED <<job, owner, lease, marked, attemptVersion, deviceVars, up,
                   gen, result, cancelled, envVars>>

\* _heartbeat and renew, for as long as run_one is between claim and return:
\* one renewal at a time, at the time read when it was handed to its thread.
Renew(w) ==
    \E t \in Time :
    /\ claim[w] # None
    /\ ~WallClockSteps => t <= now /\ t + LeaseDuration >= lease[claim[w]]
    /\ Fenced(claim[w], t, ActivePhases)
    /\ lease' = [lease EXCEPT ![claim[w]] = t + LeaseDuration]
    /\ UNCHANGED <<jobVars, job, owner, phase, marked, attemptVersion, holds,
                   deviceVars, processVars, envVars>>

----------------------------------------------------------------------------
(* The printer process.  It outlives a crash of the Agent.                 *)

ChildPrints(a) ==
    /\ child[a] = "permitted"
    /\ child' = [child EXCEPT ![a] = "printed"]
    /\ printed' = [printed EXCEPT ![job[a]] = @ + 1]
    /\ UNCHANGED <<jobVars, attemptVars, processVars, envVars>>

\* The process answers, or ends without an answer.
ChildEnds(a) ==
    /\ \/ /\ child[a] = "permitted"
          /\ child' = [child EXCEPT ![a] = "unknown"]
       \/ /\ child[a] = "printed"
          /\ \E s \in {"confirmed", "unknown"} :
                child' = [child EXCEPT ![a] = s]
       \/ /\ child[a] \in Alive
          /\ child' = [child EXCEPT ![a] = "gone"]
    /\ UNCHANGED <<jobVars, attemptVars, printed, processVars, envVars>>

----------------------------------------------------------------------------
(* The process as a whole, and its surroundings.                           *)

\* RuntimeSupervisor.stop cancels the loop, gather cancels every run_one.
Stop ==
    /\ up = "running"
    /\ gen < MaxGeneration
    /\ up' = "stopping"
    /\ UNCHANGED <<jobVars, attemptVars, deviceVars, gen, pc, claim, result,
                   calls, cancelled, envVars>>

\* Mutation of AfterCancel: a cancelled execute abandons the attempt at once.
AfterCancelWithoutClose(p) ==
    CASE p \in {"scheduled", "claim_next", "spool_release", "abandon",
                "abort"} -> "idle"
      [] p \in {"note_permission", "close"} -> "abort"
      [] p \in {"execute", "finish"} -> "abandon"
      [] OTHER -> "cleanup"

\* Where CancelledError takes a coroutine that waits at point p.
AfterCancel(p) ==
    CASE p \in {"scheduled", "claim_next", "spool_release", "abandon"} -> "idle"
      [] p \in {"spool_prepare", "mark_prepared", "start_worker",
                "fail_before_io", "mark_io_started", "cleanup"} -> "cleanup"
      [] p \in {"note_permission", "close"} -> "abort"
      [] p = "execute" -> "close"
      [] p = "finish" -> "abandon"
      [] p = "abort" -> "idle"

Cancel(w) ==
    /\ up = "stopping"
    /\ pc[w] # "idle"
    /\ w \notin cancelled
    /\ cancelled' = cancelled \cup {w}
    /\ Goto(w, AfterCancel(pc[w]))
    /\ result' = IF pc[w] = "execute" THEN [result EXCEPT ![w] = "unknown"]
                                      ELSE result
    /\ UNCHANGED <<jobVars, attemptVars, deviceVars, up, gen, envVars>>

\* The process ends, at any point.  A printer process that waits for its
\* permit sees the pipe close; one that is at work goes on.
Crash ==
    /\ up # "down"
    /\ gen < MaxGeneration
    /\ up' = "down"
    /\ pc' = [w \in Workers |-> "idle"]
    /\ claim' = [w \in Workers |-> None]
    /\ calls' = {}
    /\ cancelled' = {}
    /\ child' = [a \in Attempts |-> IF child[a] \in {"ready", "confirmed",
                                                     "unknown"}
                                    THEN "gone" ELSE child[a]]
    /\ UNCHANGED <<jobVars, attemptVars, printed, gen, result, envVars>>

\* The attempts recover gives up: those of an older generation, and those
\* whose lease is over.
LostAttempts(g) == {a \in Attempts : /\ phase[a] \in ActivePhases
                                     /\ lease[a] <= now \/ owner[a] < g}

JobsOf(S) == {job[a] : a \in S}

\* Mutations of Recovered: work behind a marker is tried again, or failed.
RecoveredForRetry(lost) ==
    [j \in {i \in JobsOf(lost) : jobState[i] = "in_progress"} |-> "accepted"]
RecoveredAsFailed(lost) ==
    [j \in {i \in JobsOf(lost) : jobState[i] = "in_progress"} |-> "failed"]

\* What becomes of their jobs.  A job whose attempt committed no marker stays
\* accepted and is claimed again, unless it is too late for that; behind a
\* marker the device may have printed.
Recovered(lost) ==
    LET expired == {j \in JobsOf({a \in lost : a \notin marked}) :
                       jobState[j] = "accepted" /\ Deadline[j] <= now}
        unknown == {j \in JobsOf({a \in lost : a \in marked}) :
                       jobState[j] = "in_progress"}
    IN [j \in expired \cup unknown |->
           IF j \in unknown THEN "outcome_unknown" ELSE "expired"]

\* RuntimeSupervisor.start runs recover once, before the loops.  The new
\* generation is the wall clock in nanoseconds.
Restart ==
    \E g \in Generations :
    LET lost == LostAttempts(g) IN
    /\ up = "down"
    /\ g # gen /\ \A a \in Attempts : owner[a] # g
    /\ ~WallClockSteps => g > gen
    /\ up' = "running"
    /\ gen' = g
    /\ Publish(Recovered(lost), now)
    /\ phase' = [a \in Attempts |-> IF a \in lost THEN "recovered"
                                                  ELSE phase[a]]
    /\ holds' = {h \in holds : h[1] \notin JobsOf(lost)}
    /\ UNCHANGED <<job, owner, lease, marked, attemptVersion, deviceVars, pc,
                   claim, result, calls, cancelled, envVars>>

\* Durable admission accepts a job whose deadline lies ahead.
Admit(j) ==
    /\ up # "down"
    /\ jobState[j] = "none"
    /\ now < Deadline[j]
    /\ jobState' = [jobState EXCEPT ![j] = "accepted"]
    /\ version' = [version EXCEPT ![j] = 1]
    /\ journal' = [journal EXCEPT ![j] = <<"accepted">>]
    /\ stamp' = [stamp EXCEPT ![j] = now]
    /\ original' = [original EXCEPT ![j] = "committed"]
    /\ UNCHANGED <<derived, keyWiped, attemptVars, deviceVars, processVars,
                   envVars>>

\* Device Tests come and go.  A new one is admitted only to a device without
\* an execution hold.
DeviceTests ==
    /\ testing' \in SUBSET Devices
    /\ testing' # testing
    /\ (testing' \ testing) \cap HeldDevices = {}
    /\ UNCHANGED <<jobVars, attemptVars, deviceVars, processVars, now>>

\* The wall clock moves on, or is set to another time.
Tick ==
    /\ now' \in Time \ {now}
    /\ ~WallClockSteps => now' = now + 1
    /\ UNCHANGED <<jobVars, attemptVars, deviceVars, processVars, testing>>

----------------------------------------------------------------------------

CoroutineStep(w) ==
    \/ RunOne(w) \/ StartWorker(w) \/ Execute(w) \/ Close(w)
    \/ Cleanup(w) \/ Abort(w)

CallStep(c) ==
    \/ ClaimNext(c) \/ SpoolPrepare(c) \/ MarkPrepared(c) \/ FailBeforeIo(c)
    \/ MarkIoStarted(c) \/ NotePermission(c) \/ Finish(c) \/ SpoolRelease(c)
    \/ AbandonAfterMarker(c)

Next ==
    \/ StartBatch
    \/ \E w \in Workers : CoroutineStep(w) \/ Renew(w) \/ Cancel(w)
    \/ \E c \in calls : CallStep(c)
    \/ \E a \in Attempts : ChildPrints(a) \/ ChildEnds(a)
    \/ Stop \/ Crash \/ Restart
    \/ \E j \in Jobs : Admit(j)
    \/ DeviceTests
    \/ Tick

Spec == Init /\ [][Next]_vars

\* What the Agent's scheduling guarantees.  asyncio resumes every runnable
\* coroutine and the thread pool runs every submitted call; a process asked
\* to stop ends, and the service manager starts it again; time passes.
\* Nothing is assumed of the printer process: execute has a deadline.
Fairness ==
    /\ WF_vars(StartBatch)
    /\ \A w \in Workers :
          /\ WF_vars(CoroutineStep(w))
          /\ WF_vars(Cancel(w))
          /\ \A op \in Ops :
                WF_vars(\E c \in calls : c.w = w /\ c.op = op /\ CallStep(c))
    /\ WF_vars(up = "stopping" /\ Crash)
    /\ WF_vars(Restart)
    /\ WF_vars(Tick)

FairSpec == Spec /\ Fairness

----------------------------------------------------------------------------
(* Properties.                                                             *)

\* Every variable keeps its type.
TypeOK ==
    /\ jobState \in [Jobs -> JobStates]
    /\ version \in [Jobs -> Nat]
    /\ journal \in [Jobs -> Seq(JobStates)]
    /\ stamp \in [Jobs -> Time]
    /\ original \in [Jobs -> ArtifactStates]
    /\ derived \in [Jobs -> ArtifactStates]
    /\ keyWiped \subseteq Jobs
    /\ job \in [Attempts -> Jobs \cup {None}]
    /\ owner \in [Attempts -> Generations \cup {0}]
    /\ lease \in [Attempts -> Nat]
    /\ phase \in [Attempts -> ActivePhases \cup {"none", "finished", "recovered"}]
    /\ marked \subseteq Attempts
    /\ attemptVersion \in [Attempts -> Nat]
    /\ holds \subseteq Jobs \X Generations
    /\ child \in [Attempts -> ChildStates]
    /\ printed \in [Jobs -> Nat]
    /\ up \in {"running", "stopping", "down"}
    /\ gen \in Generations
    /\ pc \in [Workers -> Points]
    /\ claim \in [Workers -> Attempts \cup {None}]
    /\ result \in [Workers -> {"confirmed", "unknown"}]
    /\ calls \subseteq [w : Workers, op : Ops, a : Attempts \cup {None}, at : Time]
    /\ cancelled \subseteq Workers
    /\ now \in Time
    /\ testing \subseteq Devices

\* No job is ever printed twice, whatever crashes, lost leases, cancellations
\* and restarts come between its claims.
AtMostOneOutput == \A j \in Jobs : printed[j] <= 1

\* A job the Agent reports as waiting, failed or expired has not been printed,
\* and no process that could still print it has its permit: reprinting it is
\* safe.
SafeToPrintAgain ==
    \A j \in Jobs : jobState[j] \in {"none", "accepted", "failed", "expired"} =>
        /\ printed[j] = 0
        /\ \A a \in Attempts : job[a] = j =>
              child[a] \notin {"permitted", "printed", "confirmed", "unknown"}

\* output_confirmed is never reported for a job the device did not print.
ConfirmedWasPrinted ==
    \A j \in Jobs : jobState[j] = "output_confirmed" => printed[j] = 1

\* What the Agent reports of a job is true of the device, whatever was lost or
\* cancelled on the way: a job that may be printed again was not printed and
\* will not be, and a confirmed one was printed.
OutcomeIsTrue == SafeToPrintAgain /\ ConfirmedWasPrinted

\* The process's own printer processes use a device only under its hold: no
\* path of run_one, cancelled or not, gives the device away before the printer
\* process is known to have ended.
IoUnderHold ==
    \A a \in Attempts :
        (up # "down" /\ owner[a] = gen /\ child[a] \in {"permitted", "printed"})
        => phase[a] = "permission_delivered" /\ <<job[a], gen>> \in holds

\* The attempt rows and the reservation rows tell the same story: an attempt
\* is active exactly while its job holds its device, and no device is held by
\* two jobs.
HoldsMatchAttempts ==
    /\ holds = {<<job[a], owner[a]>> : a \in {b \in Attempts :
                                                phase[b] \in ActivePhases}}
    /\ \A g, h \in holds : DeviceOf[g[1]] = DeviceOf[h[1]] => g = h

\* While the process runs, every hold is its own: what a dead process held was
\* released by recover ("Startup removes reservations whose owner is invalid").
HoldsAreOwn == up # "down" => \A h \in holds : h[2] = gen

----------------------------------------------------------------------------
(* The inductive invariant behind the safety theorems.                     *)

\* Rows: an attempt has a marker only if its job went past accepted, and no
\* job has two attempts with a marker.
MarkersInv ==
    \A a \in Attempts :
        /\ phase[a] = "none" => a \notin marked /\ owner[a] = 0
        /\ phase[a] # "none" => job[a] \in Jobs /\ owner[a] \in Generations
        /\ phase[a] \in Marked =>
              a \in marked /\ jobState[job[a]] = "in_progress"
        /\ a \in marked => jobState[job[a]] \in {"in_progress", "outcome_unknown",
                                             "output_confirmed"}
        /\ \A b \in Attempts : a \in marked /\ b \in marked /\ job[a] = job[b] => a = b

\* Rows: a job has one active attempt at a time, and a device one hold.
HoldsInv ==
    /\ \A a, b \in Attempts :
          /\ phase[a] \in ActivePhases /\ phase[b] \in ActivePhases
          /\ job[a] = job[b]
          => a = b
    /\ HoldsMatchAttempts

\* Output comes from the one process whose attempt has the marker.
OutputInv ==
    /\ \A a \in Attempts :
          /\ phase[a] = "none" => child[a] = "none"
          /\ child[a] \in {"permitted", "printed", "confirmed", "unknown"} =>
                a \in marked
          /\ child[a] \in {"printed", "confirmed"} => printed[job[a]] = 1
    /\ \A j \in Jobs :
          /\ printed[j] \in {0, 1}
          /\ printed[j] = 1 => \E a \in Attempts :
                /\ job[a] = j /\ a \in marked
                /\ child[a] \in {"printed", "confirmed", "unknown", "gone"}

\* Control: who drives which attempt, and which calls are orphans.
ControlInv ==
    /\ cancelled # {} => up = "stopping"
    /\ up = "down" => calls = {} /\ \A w \in Workers : pc[w] = "idle"
    /\ \A w \in Workers :
          /\ pc[w] \in {"idle", "scheduled", "claim_next"} <=> claim[w] = None
          /\ claim[w] # None => phase[claim[w]] # "none"
          /\ w \in cancelled => pc[w] \notin {"scheduled", "claim_next"}
          /\ \A v \in Workers : claim[w] = claim[v] /\ claim[w] # None => w = v
    /\ \A c \in calls :
          /\ c.op = "claim_next" <=> c.a = None
          /\ c.a # None => phase[c.a] # "none"
          /\ claim[c.w] \in {None, c.a}
          /\ c.op = "claim_next" =>
                /\ pc[c.w] \in {"claim_next", "idle"}
                /\ \A d \in calls : d.w = c.w => d = c
          /\ pc[c.w] = c.op \/ (up = "stopping" /\ c.w \in cancelled)
          /\ \A d \in calls : d.w = c.w => d = c \/ c.w \in cancelled

\* Control: what is known of the printer process at each point of run_one.
WorkerInv ==
    /\ \A w \in Workers :
          /\ pc[w] \in {"spool_prepare", "mark_prepared", "start_worker"} =>
                child[claim[w]] = "none"
          /\ pc[w] \in {"finish", "spool_release", "abandon"} =>
                child[claim[w]] = "gone"
          /\ pc[w] \in {"close", "finish"} /\ result[w] = "confirmed" =>
                printed[job[claim[w]]] = 1
    /\ \A c \in calls :
          /\ c.op \in {"finish", "spool_release", "abandon"} => child[c.a] = "gone"
          /\ c.op = "finish" =>
                /\ pc[c.w] \in {"finish", "spool_release", "abandon", "idle"}
                /\ result[c.w] = "confirmed" => printed[job[c.a]] = 1

\* Generations: with a clock that is never set back, a running process owns
\* every active attempt.
OwnerInv ==
    \A a \in Attempts :
        /\ owner[a] <= gen
        /\ up # "down" /\ phase[a] \in ActivePhases => owner[a] = gen

IInv ==
    /\ TypeOK
    /\ MarkersInv
    /\ HoldsInv
    /\ OutputInv
    /\ ControlInv
    /\ WorkerInv
    /\ IoUnderHold
    /\ ConfirmedWasPrinted

----------------------------------------------------------------------------
(* What the documentation says of holds, workers and retained content.     *)

\* A hold outlives the coroutine that took it only while a printer process that
\* could not be stopped may still use the device ("Every failure path releases
\* its owned reservation in an idempotent transaction").
HeldOnlyWhileUsed ==
    (up = "running" /\ calls = {} /\ \A w \in Workers : pc[w] = "idle") =>
        \A a \in Attempts : phase[a] \in ActivePhases => child[a] \in Alive

\* The content of a job whose output is confirmed is out of reach: its key is
\* wiped in the transaction that confirms it, and no artifact of it, not even
\* a raster rendered by a concurrent attempt, is kept.
ConfirmedContentErased ==
    \A j \in Jobs : jobState[j] = "output_confirmed" =>
        j \in keyWiped /\ original[j] # "committed" /\ derived[j] # "committed"

\* Jobs of one device reach the device in the order in which they were
\* accepted: no job starts while one accepted strictly earlier still waits.
FifoStart ==
    [][\A i, j \in Jobs :
          (/\ jobState[j] = "accepted" /\ jobState'[j] = "in_progress"
           /\ jobState[i] = "accepted" /\ DeviceOf[i] = DeviceOf[j])
          => stamp[i] >= stamp[j]]_vars

PrintJobs == INSTANCE PrintJob WITH state <- jobState

\* The columns the ledger writes follow the domain's transition table, and
\* physical output follows them: PhysicalExecution implements PrintJob.
ImplementsPrintJob == PrintJobs!Spec

\* Every accepted job leaves the queue, even when its device stays held after
\* a lost lease: the scan expires late jobs before it asks for the device.
AcceptedLeavesQueue ==
    \A j \in Jobs : jobState[j] = "accepted" ~> jobState[j] # "accepted"

\* Every job that reached the device gets an outcome, if printer processes can
\* be killed: by finish, by abandon_after_marker once the lease is over, or by
\* recover after a crash or a cancelled marker transaction.
InProgressResolves ==
    \A j \in Jobs : jobState[j] = "in_progress" ~> jobState[j] \in Terminal

----------------------------------------------------------------------------
(* The inductive invariants behind the order of starts, the implementation *)
(* of PrintJob and the erasure of content.                                 *)

\* The raster of a receipt exists once the attempt is prepared, so no call left
\* behind can store it after the job is confirmed and its content erased.
Rendered(a) == job[a] \in Receipts => derived[job[a]] # "none"

ErasedInv ==
    /\ ConfirmedContentErased
    /\ \A j \in Receipts : jobState[j] \in {"in_progress", "output_confirmed"} =>
          derived[j] # "none"
    /\ \A a \in Attempts : phase[a] \in ActivePhases \ {"claimed"} => Rendered(a)
    /\ \A c \in calls : c.op = "mark_prepared" => Rendered(c.a)

\* Calls left behind: nobody else works on the attempt whose marker is about to
\* be written.
OrphanInv ==
    /\ \A w \in cancelled : pc[w] \in {"idle", "cleanup", "abort", "close",
                                      "finish", "spool_release", "abandon"}
    /\ \A c \in calls :
          /\ c.a # None => \A w \in Workers : claim[w] = c.a => w = c.w
          /\ c.op = "mark_io_started" =>
                /\ pc[c.w] \in {"mark_io_started", "cleanup", "idle"}
                /\ \A d \in calls : d.a = c.a => d = c

\* Time: with a clock that is never set back, a call that may still move its
\* job carries a time after the job's last move.
TimeInv ==
    /\ \A j \in Jobs :
          /\ stamp[j] <= now
          /\ jobState[j] = "none" =>
                version[j] = 0 /\ journal[j] = <<>> /\ stamp[j] = 0
          /\ jobState[j] = "accepted" => stamp[j] < Deadline[j]
    /\ \A a \in Attempts : phase[a] # "none" => jobState[job[a]] # "none"
    /\ \A c \in calls :
          /\ c.at <= now
          /\ (/\ c.a # None /\ phase[c.a] \in ActivePhases
              /\ jobState[job[c.a]] \in {"accepted", "in_progress"})
             => stamp[job[c.a]] <= c.at

\* Order: no job of the device was accepted before the one that is claimed.
QueueInv ==
    \A a \in Attempts : \A i \in Jobs :
        /\ phase[a] \in ActivePhases /\ jobState[job[a]] = "accepted"
        /\ jobState[i] = "accepted" /\ DeviceOf[i] = DeviceOf[job[a]]
        => stamp[job[a]] <= stamp[i]

\* What holds between the rows, the coroutines and the printer processes after every
\* step: attempts, holds and permits agree (IInv), no late call brings erased
\* content back (ErasedInv), nobody else works on an attempt whose marker is about to be
\* written (OrphanInv), the times of a job are in order (TimeInv), and a claimed job is
\* the oldest that waits for its device (QueueInv).
LedgerInv == IInv /\ ErasedInv /\ OrphanInv /\ TimeInv /\ QueueInv

=============================================================================
