--------------------------- MODULE RouterSupervisor ---------------------------
(***************************************************************************)
(* The Router Supervisor of crates/inari-router: one actor that owns a     *)
(* stock Zenoh Router process (`child'), its signed policy on disk, and    *)
(* the readiness it reports.  The actor is serial but awaits storage, the  *)
(* mTLS probe and the end of the child, so that time, TLS rotation, the    *)
(* death of the child and a crash of the whole container fall between its  *)
(* steps.  `work' is the stack of operations it is inside of.              *)
(*                                                                         *)
(* A policy is its generation, the authority it grants (fleet, namespace,  *)
(* peers and Agents: what has_same_authority compares) and its expiry; its *)
(* digest is the record itself.  Activation is backdated by the signer, so *)
(* not_before never delays a policy on synchronised clocks.                *)
(***************************************************************************)
EXTENDS Naturals, Sequences

CONSTANTS
  Policies,        \* the signed documents that exist
  Unrenderable,    \* authorities whose access rules Zenoh's configuration refuses
  Horizon,         \* bound on the clock
  TlsExpiry,       \* expiry of each version of the TLS files
  QueueCapacity,   \* mpsc::channel(16)
  StubbornChild    \* TRUE: a child may outlive SIGTERM and SIGKILL timeouts

ASSUME SupervisorConstants ==
  /\ Horizon \in Nat /\ QueueCapacity \in Nat /\ StubbornChild \in BOOLEAN
  /\ \A p \in Policies : p.generation \in Nat \ {0} /\ p.expires \in Nat
                          /\ p.authority # "none"   \* names what no child serves

VARIABLES
  now,        \* the clock
  up,         \* the supervisor process runs
  disk,       \* policy.json
  policy,     \* self.policy
  child,      \* self.child: the ACL it was started with, and whether it lives
  tls,        \* self.tls: the version loaded for the child
  files,      \* the TLS files as they read now; NoTls: unreadable or invalid
  status,     \* the watch channel: last confirmed policy fields and readiness
  work,       \* the operations the actor is inside of, innermost first
  queue,      \* accepted Apply commands
  acked,      \* the last policy a caller was told is ready
  lingering   \* ACLs of children that were given up on but still run

vars == <<now, up, disk, policy, child, tls, files, status, work, queue,
          acked, lingering>>

NoTls == 0
TlsVersions == DOMAIN TlsExpiry
NoPolicy == [generation |-> 0, authority |-> "none", expires |-> 0]
NoChild == [authority |-> "none", alive |-> FALSE]

Authorities == {p.authority : p \in Policies}

Child == [authority : Authorities, alive : BOOLEAN] \cup {NoChild}

Status == [policy : Policies \cup {NoPolicy}, ready : BOOLEAN]

-----------------------------------------------------------------------------
(* Guards of policy.rs and tls.rs *)

Current(p) == p.expires > now

TlsCurrent(version) == version # NoTls /\ TlsExpiry[version] > now

SameAuthority(p, q) == p.authority = q.authority

\* Mutant: another document of the same generation is a retry.
ConflictsOnLower(p, previous) ==
  previous # NoPolicy /\ p.generation < previous.generation

\* The generation order: a repeat must be the same document.
Conflicts(p, previous) ==
  /\ previous # NoPolicy
  /\ \/ p.generation < previous.generation
     \/ p.generation = previous.generation /\ p # previous

-----------------------------------------------------------------------------
(* Pieces of the handlers *)

Frame(at, p, previous, by) == [at |-> at, policy |-> p, previous |-> previous,
                               by |-> by]

\* Mutant: the last readiness stays published.
StillReady == UNCHANGED status

NotReady == status' = [status EXCEPT !.ready = FALSE]

\* stop(): the handle is taken first, so a child that does not die within the
\* two timeouts is no longer owned although it may still run.
StopOk ==
  /\ child' = NoChild /\ tls' = NoTls
  /\ UNCHANGED lingering

StopFails ==
  /\ StubbornChild /\ child.alive
  /\ child' = NoChild /\ tls' = NoTls
  /\ lingering' = lingering \cup {child.authority}

\* Mutant: apply() starts over instead of returning the error.
AbortAndRetry(by, rest) ==
  /\ work' = IF by = "observe" THEN rest ELSE <<Frame("decide", policy, NoPolicy, "apply")>>
  /\ UNCHANGED acked

\* An error inside activate(): observe() and run() only note it, apply()
\* returns it to its caller.
Abort(by, rest) ==
  /\ work' = IF by = "observe" THEN rest ELSE << >>
  /\ UNCHANGED acked

Acknowledge(p) ==
  /\ work' = << >>
  /\ acked' = p

\* activate() up to its first await that can fail: old links close first.
Activate(p, by, rest) ==
  /\ NotReady
  /\ \/ /\ StopOk
        /\ policy' = p
        /\ work' = <<Frame("persist", p, NoPolicy, by)>> \o rest
        /\ UNCHANGED acked
     \/ /\ StopFails
        /\ Abort(by, rest)
        /\ UNCHANGED policy
  /\ UNCHANGED <<disk, up, queue>>

\* The end of the process: the container's other processes end with it.
ProcessEnds ==
  /\ up' = FALSE
  /\ child' = NoChild /\ tls' = NoTls /\ lingering' = {}
  /\ work' = << >> /\ queue' = << >>
  /\ status' = [policy |-> NoPolicy, ready |-> FALSE]
  /\ policy' = NoPolicy
  /\ UNCHANGED <<disk, acked>>

\* not_ready() and stop(), inside observe(): an error of stop() ends the
\* process when a tick observed, and fails the request when apply() did.
Shut(rest) ==
  \/ /\ NotReady /\ StopOk
     /\ work' = rest
     /\ UNCHANGED <<up, disk, policy, queue, acked>>
  \/ /\ StopFails /\ rest # << >>
     /\ NotReady
     /\ work' = << >>
     /\ UNCHANGED <<up, disk, policy, queue, acked>>
  \/ /\ StubbornChild /\ child.alive /\ rest = << >>
     /\ ProcessEnds

Idle(rest) ==
  /\ work' = rest
  /\ UNCHANGED <<up, disk, policy, child, tls, status, queue, acked, lingering>>

\* observe(): the credential check is due at most once a second, so a tick
\* may come before it (the disjuncts that leave everything alone).  The read of
\* the files may fail, or take longer than its 500 ms, whatever they contain.
Observe(rest) ==
  \/ policy # NoPolicy /\ ~Current(policy) /\ Shut(rest)
  \/ /\ policy = NoPolicy \/ Current(policy)
     /\ \/ /\ child # NoChild /\ ~child.alive
           /\ NotReady
           /\ child' = NoChild /\ tls' = NoTls
           /\ work' = rest
           /\ UNCHANGED <<up, disk, policy, queue, acked, lingering>>
        \/ /\ child.alive /\ ~TlsCurrent(tls)
           /\ Shut(rest)
        \/ /\ child.alive /\ TlsCurrent(tls)
           /\ \/ Idle(rest)
              \/ Shut(rest)
              \/ /\ TlsCurrent(files) /\ files # tls
                 /\ Activate(policy, "observe", rest)
        \/ child = NoChild /\ Idle(rest)
        \/ /\ child = NoChild /\ policy # NoPolicy
           /\ Activate(policy, "observe", rest)

-----------------------------------------------------------------------------
(* The actor's steps *)

Ready(at) == up /\ work # << >> /\ Head(work).at = at

\* A 250 ms tick of run() while no command is in progress.
ObserveTick ==
  /\ up /\ work = << >>
  /\ Observe(<< >>)
  /\ UNCHANGED <<now, files>>

\* run(): a policy that is still current is activated before the loop.
RunStored ==
  /\ Ready("run")
  /\ Activate(policy, "observe", << >>)
  /\ UNCHANGED <<now, files>>

\* apply(): verify, require_current, the generation order, then observe().
TakeCommand ==
  LET p == Head(queue)
      next == Frame(IF p = policy /\ status.ready THEN "retry" ELSE "decide",
                    p, NoPolicy, "apply")
  IN
  /\ up /\ work = << >> /\ queue # << >>
  /\ \/ /\ ~Current(p) \/ Conflicts(p, policy)
        /\ queue' = Tail(queue)
        /\ UNCHANGED <<up, disk, policy, child, tls, status, work, acked,
                       lingering>>
     \/ /\ Current(p) /\ ~Conflicts(p, policy)
        /\ queue' = Tail(queue)
        /\ work' = <<Frame("enter", p, NoPolicy, "apply"), next>>
        /\ UNCHANGED <<up, disk, policy, child, tls, status, acked, lingering>>
  /\ UNCHANGED <<now, files>>

ApplyObserve ==
  /\ Ready("enter")
  /\ Observe(Tail(work))
  /\ UNCHANGED <<now, files>>

\* An identical retry of a ready policy is confirmed without activation.
ApplyRetry ==
  LET p == Head(work).policy IN
  /\ Ready("retry")
  /\ \/ /\ status.ready
        /\ Acknowledge(status.policy)
        /\ UNCHANGED <<up, disk, policy, child, tls, status, queue, lingering>>
     \/ /\ ~status.ready
        /\ Observe(<<Frame("decide", p, NoPolicy, "apply")>>)
  /\ UNCHANGED <<now, files>>

\* refresh() keeps the links of a ready Router with the same authority; the
\* higher generation is retained before it is durable.  activate() renders the
\* configuration before it touches anything: a document that does not render is
\* an error with the old child still serving.  (A retained policy rendered when
\* it was activated, so the other activations do not fail there.)
ApplyDecide ==
  LET p == Head(work).policy IN
  /\ Ready("decide")
  /\ \/ /\ status.ready /\ SameAuthority(p, policy)
        /\ policy' = p
        /\ work' = <<Frame("write", p, policy, "apply")>>
        /\ UNCHANGED <<up, disk, child, tls, status, queue, acked, lingering>>
     \/ /\ ~(status.ready /\ SameAuthority(p, policy))
        /\ p.authority \notin Unrenderable
        /\ Activate(p, "apply", << >>)
     \/ /\ ~(status.ready /\ SameAuthority(p, policy))
        /\ p.authority \in Unrenderable
        /\ Abort("apply", << >>)
        /\ UNCHANGED <<up, disk, policy, child, tls, status, queue, lingering>>
  /\ UNCHANGED <<now, files>>

\* persist() of activate(): a failed write may have replaced the file.
ActivatePersist ==
  LET f == Head(work) IN
  /\ Ready("persist")
  /\ \/ /\ disk' = f.policy
        /\ policy' = f.policy
        /\ status' = [status EXCEPT !.policy = f.policy]
        /\ work' = <<Frame("spawn", f.policy, NoPolicy, f.by)>> \o Tail(work)
        /\ UNCHANGED acked
     \/ /\ disk' \in {disk, f.policy}
        /\ Abort(f.by, Tail(work))
        /\ UNCHANGED <<policy, status>>
  /\ UNCHANGED <<now, up, child, tls, files, queue, lingering>>

\* TLS, router.json, the expiry check and the spawn: each may fail.
ActivateSpawn ==
  LET f == Head(work) IN
  /\ Ready("spawn")
  /\ \/ /\ TlsCurrent(files) /\ Current(f.policy)
        /\ child' = [authority |-> f.policy.authority, alive |-> TRUE]
        /\ tls' = files
        /\ work' = <<Frame("probe", f.policy, NoPolicy, f.by)>> \o Tail(work)
        /\ UNCHANGED acked
     \/ /\ Abort(f.by, Tail(work))
        /\ UNCHANGED <<child, tls>>
  /\ UNCHANGED <<now, up, disk, policy, files, status, queue, lingering>>

\* wait_ready() and the last expiry checks: readiness needs both; an expiry
\* found only after the probe leaves the child to the next observe().
ActivateProbe ==
  LET f == Head(work)
      inTime == Current(f.policy) /\ TlsCurrent(tls)
  IN
  /\ Ready("probe")
  /\ \/ /\ child.alive /\ inTime
        /\ status' = [status EXCEPT !.ready = TRUE]
        /\ IF f.by = "observe"
             THEN work' = Tail(work) /\ UNCHANGED acked
             ELSE Acknowledge(status.policy)
        /\ UNCHANGED <<child, tls, lingering>>
     \/ /\ child.alive /\ ~inTime
        /\ Abort(f.by, Tail(work))
        /\ UNCHANGED <<status, child, tls, lingering>>
     \/ /\ NotReady
        /\ StopOk \/ StopFails
        /\ Abort(f.by, Tail(work))
  /\ UNCHANGED <<now, up, disk, policy, files, queue>>

\* The ticks inside refresh(): slow storage does not extend the old policy.
RefreshExpires ==
  LET f == Head(work) IN
  /\ Ready("write")
  /\ child # NoChild
  /\ ~Current(f.previous) \/ ~TlsCurrent(tls)
  /\ NotReady
  /\ \/ StopOk /\ UNCHANGED work
     \/ StopFails /\ work' = <<[f EXCEPT !.by = "stop failed"]>>
  /\ UNCHANGED <<now, up, disk, policy, files, queue, acked>>

\* The end of the durable write of refresh().
RefreshWritten ==
  LET f == Head(work) IN
  /\ Ready("write")
  /\ \/ /\ disk' = f.policy
        /\ work' = IF f.by = "stop failed" THEN << >>
                   ELSE <<[f EXCEPT !.at = "written"]>>
        /\ UNCHANGED <<status, child, tls, lingering>>
     \/ /\ disk' \in {disk, f.policy}
        /\ work' = << >>
        /\ IF f.by = "stop failed" THEN UNCHANGED <<status, child, tls, lingering>>
           ELSE NotReady /\ (StopOk \/ StopFails)
  /\ UNCHANGED <<now, up, policy, files, queue, acked>>

RefreshObserve ==
  /\ Ready("written")
  /\ Observe(<<[Head(work) EXCEPT !.at = "settle"]>>)
  /\ UNCHANGED <<now, files>>

RefreshSettle ==
  LET f == Head(work) IN
  /\ Ready("settle")
  /\ \/ /\ ~Current(f.previous) \/ ~status.ready
        /\ Activate(f.policy, "apply", << >>)
     \/ /\ Current(f.previous) /\ status.ready
        /\ IF Current(f.policy)
             THEN /\ status' = [status EXCEPT !.policy = f.policy]
                  /\ Acknowledge(f.policy)
             ELSE Abort("apply", << >>) /\ UNCHANGED status
        /\ UNCHANGED <<up, disk, policy, child, tls, queue, lingering>>
  /\ UNCHANGED <<now, files>>

\* The loop ends on a shutdown request: not_ready() and stop().
Shutdown ==
  /\ up /\ work = << >>
  /\ ProcessEnds
  /\ UNCHANGED <<now, files>>

-----------------------------------------------------------------------------
(* The environment of the actor *)

\* main() and new(): the stored policy gives the generation to defend.
Boot ==
  /\ ~up
  /\ up' = TRUE
  /\ policy' = disk
  /\ status' = [policy |-> disk, ready |-> FALSE]
  /\ work' = IF disk # NoPolicy /\ Current(disk)
               THEN <<Frame("run", disk, NoPolicy, "observe")>> ELSE << >>
  /\ UNCHANGED <<now, disk, child, tls, files, queue, acked, lingering>>

\* PUT /policy: try_send() into the bounded queue; a signed document of any
\* generation may arrive late or again.
Submit(p) ==
  /\ up /\ Len(queue) < QueueCapacity
  /\ queue' = Append(queue, p)
  /\ UNCHANGED <<now, up, disk, policy, child, tls, files, status, work,
                 acked, lingering>>

Crash ==
  /\ up
  /\ ProcessEnds
  /\ UNCHANGED <<now, files>>

ChildExits ==
  /\ child.alive
  /\ child' = [child EXCEPT !.alive = FALSE]
  /\ UNCHANGED <<now, up, disk, policy, tls, files, status, work, queue,
                 acked, lingering>>

LingeringExits ==
  /\ lingering # {}
  /\ \E a \in lingering : lingering' = lingering \ {a}
  /\ UNCHANGED <<now, up, disk, policy, child, tls, files, status, work,
                 queue, acked>>

Rotate ==
  /\ \E version \in TlsVersions \cup {NoTls} :
       version # files /\ files' = version
  /\ UNCHANGED <<now, up, disk, policy, child, tls, status, work, queue,
                 acked, lingering>>

Tick ==
  /\ now < Horizon
  /\ now' = now + 1
  /\ UNCHANGED <<up, disk, policy, child, tls, files, status, work, queue,
                 acked, lingering>>

-----------------------------------------------------------------------------

Init ==
  /\ now = 0 /\ up = FALSE
  /\ disk = NoPolicy /\ policy = NoPolicy
  /\ child = NoChild /\ tls = NoTls
  /\ files \in TlsVersions
  /\ status = [policy |-> NoPolicy, ready |-> FALSE]
  /\ work = << >> /\ queue = << >>
  /\ acked = NoPolicy /\ lingering = {}

Actor ==
  \/ RunStored \/ ApplyObserve \/ ApplyRetry \/ ApplyDecide
  \/ ActivatePersist \/ ActivateSpawn \/ ActivateProbe
  \/ RefreshExpires \/ RefreshWritten \/ RefreshObserve \/ RefreshSettle

Next ==
  \/ Actor \/ ObserveTick \/ TakeCommand \/ Shutdown \/ Boot
  \/ \E p \in Policies : Submit(p)
  \/ Crash \/ ChildExits \/ LingeringExits \/ Rotate \/ Tick

\* Storage, the probe and stop() end in success or a timeout, the interval
\* keeps ticking, and credential retries are a second apart, so that a queued
\* command is taken in between.
Fairness ==
  /\ WF_vars(Actor)
  /\ SF_vars(ObserveTick)
  /\ SF_vars(TakeCommand)

Spec == Init /\ [][Next]_vars

FairSpec == Spec /\ Fairness

-----------------------------------------------------------------------------

Frames == [at : {"run", "enter", "retry", "decide", "persist", "spawn", "probe",
                 "write", "written", "settle"},
           policy : Policies, previous : Policies \cup {NoPolicy},
           by : {"observe", "apply", "stop failed"}]

\* The type invariant of the Supervisor's state.
TypeOK ==
  /\ now \in 0..Horizon /\ up \in BOOLEAN
  /\ {disk, policy, acked} \subseteq Policies \cup {NoPolicy}
  /\ child \in Child
  /\ {tls, files} \subseteq TlsVersions \cup {NoTls}
  /\ status \in Status
  /\ work \in Seq(Frames) /\ queue \in Seq(Policies) /\ Len(queue) <= QueueCapacity
  /\ lingering \subseteq Authorities

\* Readiness is never reported without a child that was started with the
\* authority of the reported policy and with loaded credentials, whatever
\* expired, rotated or failed while the Supervisor awaited.
ReadyIsBacked ==
  status.ready =>
    /\ child # NoChild /\ tls # NoTls
    /\ child.authority = status.policy.authority
    /\ child.authority = policy.authority

\* A child only ever enforces the authority of the durable policy: a crash
\* and a restart from disk cannot bring back Agents the running ACL refused.
ServesDurableAuthority ==
  child # NoChild => child.authority = disk.authority

\* A generation once acknowledged is never given up: neither a failed write,
\* nor a crash, nor a late lower generation takes the Router behind it.
AcknowledgedGenerationHeld ==
  acked # NoPolicy => disk = acked \/ disk.generation > acked.generation

Fence == INSTANCE RouterFence WITH
  FencePolicies <- Policies, FenceNone <- NoPolicy,
  durable <- disk, serving <- child.authority, confirmed <- acked

\* The Supervisor implements the promise of a Router to its Controllers.
ImplementsFence == Fence!FenceSpec

Overdue == child.alive /\ ~Current(status.policy)

\* Every handler of the actor ends, although observe, activate and refresh call
\* each other, and no child is left to serve a policy that has expired: slow
\* storage, a refresh that fails and a renewal that comes too late all end with
\* the old links closed.
SupervisorSettles ==
  (work # << >> \/ Overdue) ~> (work = << >> /\ ~Overdue)

-----------------------------------------------------------------------------
(* The inductive invariant (RouterSupervisorProofs) *)

Advances(old, new) == new = old \/ new.generation > old.generation

\* The stack: at most one operation waits for the observation, or for the
\* activation that an observation began.
StackInv ==
  \/ Len(work) = 0
  \/ Len(work) = 1 /\ work[1].at # "enter"
  \/ /\ Len(work) = 2
     /\ \/ work[1].at = "enter" /\ work[2].at \in {"retry", "decide"}
        \/ /\ work[1].at \in {"persist", "spawn", "probe"} /\ work[1].by = "observe"
           /\ work[2].at \in {"retry", "decide", "settle"}

\* What an operation relies on while it waits: the policy it will apply is no
\* older than the retained one, or has become the retained one.
Waits(f) ==
  /\ f.at \in {"enter", "retry", "decide"} => Advances(policy, f.policy)
  /\ f.at \notin {"enter", "retry", "decide"} => policy = f.policy
  /\ f.at \in {"written", "settle"} => disk = policy
  /\ f.at = "retry" /\ status.ready => status.policy = disk

WaitInv == \A i \in 1..Len(work) : Waits(work[i])

\* What the operation in progress relies on.
Proceeds(f) ==
  /\ f.at \in {"persist", "spawn"} => child = NoChild
  /\ f.at \in {"persist", "spawn", "probe"} => ~status.ready
  /\ f.at \in {"spawn", "probe"} => disk = policy /\ status.policy = policy
  /\ f.at = "probe" => child # NoChild
  /\ f.at = "write" /\ child # NoChild => status.ready
  /\ f.at = "write" /\ f.by = "stop failed" => child = NoChild

TopInv == Len(work) > 0 => Proceeds(work[1])

\* The policy that readiness reports is the durable one, except during a
\* refresh and after one that took longer than its policy lasts.
ReportInv ==
  status.ready =>
    \/ status.policy = disk
    \/ ~Current(policy)
    \/ \E i \in 1..Len(work) : work[i].at \in {"write", "written", "settle"}

\* The file never is ahead of the retained policy, and a child has one.
DiskInv ==
  /\ up => Advances(disk, policy)
  /\ ~up => policy = NoPolicy /\ child = NoChild /\ work = << >>
  /\ child # NoChild => disk # NoPolicy

SupInv ==
  /\ TypeOK /\ StackInv /\ WaitInv /\ TopInv /\ ReportInv /\ DiskInv
  /\ ReadyIsBacked /\ ServesDurableAuthority /\ AcknowledgedGenerationHeld
=============================================================================
