---------------------------- MODULE ServerRuntime ----------------------------
(***************************************************************************)
(* The long-running part of the controller process: the tasks that         *)
(* `ServerApplication::run` starts and supervises, the Zenoh session       *)
(* supervisor and the handle HTTP requests reach it through, the managed   *)
(* gateway data plane that follows the published session, the readiness    *)
(* that /readyz reports, and the shutdown that ends them.                  *)
(*                                                                         *)
(* A session is its generation number.  `alive` are the sessions not yet   *)
(* closed; a session may be closed under the controller at any time.       *)
(* `tokio::watch` receivers are a flag saying whether the latest value was *)
(* seen; the senders are dropped when the supervisor's task ends.          *)
(***************************************************************************)
EXTENDS Options

CONSTANTS RtPuts,         \* PUT/DELETE requests: commands to the supervisor
          RtReads,        \* queries: run on a snapshot of the session
          RtStreams,      \* event streams: subscriptions on a snapshot
          RtCommandBuffer,  \* `command_buffer` of the configuration
          RtSignalBuffer,   \* capacity of the fault signals channel
          RtWorlds          \* whether Zenoh is enabled, the requests made, whether
                            \* a task of the data plane may fail, whether the
                            \* process is told to stop, and a bound on the attempts
                            \* to open a session

VARIABLES rtWorld,     \* one of them
          sup,         \* the supervisor: phase, attempt, lease
          alive,       \* sessions not closed
          pub,         \* published status and session
          commands,    \* the command channel
          signals,     \* fault signals waiting in their channel
          req,         \* the HTTP requests
          plane,       \* the data plane's transport loop
          synced,      \* readiness of Zenoh, and whether it is up to date
          tasks,       \* outcome of each task
          stop,        \* reason of the shutdown, None before it
          main         \* supervise_tasks: phase, joined tasks, failure

rtVars == <<rtWorld, sup, alive, pub, commands, signals, req, plane, synced,
            tasks, stop, main>>

RtRequests == RtPuts \cup RtReads \cup RtStreams

TaskName == {"signal-listener", "zenoh-supervisor", "data-plane",
             "readiness-sync", "http-server"}

\* A clean exit of these two ends the application.
ShutsDown(t) == t \in {"signal-listener", "http-server"}

Settled == {"ok", "unavailable", "failed", "timeout", "ended"}

\* The status a supervisor state publishes, and the readiness it stands for.
Publication(s) ==
    CASE s.phase = "opening"  -> IF s.attempt = 1 THEN "starting" ELSE "reconnecting"
      [] s.phase = "ready"    -> "connected"
      [] s.phase = "degraded" -> "degraded"
      [] s.phase = "disabled" -> "disabled"
      [] OTHER                -> "shutting_down"

ZenohReadiness(status) ==
    CASE status \in {"starting", "reconnecting"} -> "starting"
      [] status = "connected"                    -> "ready"
      [] status = "disabled"                     -> "disabled"
      [] OTHER                                   -> "degraded"

\* The channels `ZenohSupervisor::new` makes, and the first published values.
SupervisorMade(enabled) ==
    /\ sup = [phase |-> "made", attempt |-> 0, lease |-> 0]
    /\ alive = {}
    /\ pub = [status |-> IF enabled THEN "starting" ELSE "disabled", session |-> 0]
    /\ commands = <<>>
    /\ signals = 0

RtInit ==
    /\ rtWorld \in RtWorlds
    /\ SupervisorMade(rtWorld.enabled)
    /\ req = [r \in RtRequests |-> [at |-> "idle", lease |-> 0]]
    /\ plane = [at |-> "look", lease |-> 0, seen |-> TRUE]
    /\ synced = [level |-> ZenohReadiness(pub.status), seen |-> TRUE]
    /\ tasks = [t \in TaskName |-> "running"]
    /\ stop = None
    /\ main = [at |-> "watching", joined |-> {}, failure |-> None]

-----------------------------------------------------------------------------
\* ShutdownCoordinator: the first reason stays.
Request(reason) == stop' = IF stop = None THEN reason ELSE stop

Requested == stop # None

Running(t) == tasks[t] = "running"

Ends(t, outcome) == tasks' = [tasks EXCEPT ![t] = outcome]

-----------------------------------------------------------------------------
\* The session supervisor.

\* Publishes a state: status first, session next; both before the next await.
Enter(s) ==
    /\ sup' = s
    /\ pub' = [status |-> Publication(s),
               session |-> IF s.phase = "ready" THEN s.lease ELSE 0]
    /\ plane' = [plane EXCEPT !.seen = FALSE]
    /\ synced' = [synced EXCEPT !.seen = FALSE]

Degrade == [sup EXCEPT !.phase = "degraded"]

SupStart ==
    /\ Running("zenoh-supervisor") /\ sup.phase = "made"
    /\ Enter(IF rtWorld.enabled THEN [sup EXCEPT !.phase = "opening", !.attempt = 1]
                       ELSE [sup EXCEPT !.phase = "disabled"])
    /\ UNCHANGED <<rtWorld, alive, commands, signals, req, tasks, stop, main>>

\* `step_opening`: neither signals nor commands are taken while opening.
StepOpening ==
    /\ sup.phase = "opening" /\ ~Requested
    /\ \/ /\ Enter([sup EXCEPT !.phase = "ready", !.lease = @ + 1])
          /\ alive' = alive \cup {sup.lease + 1}
       \/ Enter(Degrade) /\ UNCHANGED alive
    /\ UNCHANGED <<rtWorld, commands, signals, req, tasks, stop, main>>

StepShutdown ==
    /\ sup.phase \in {"opening", "ready", "degraded", "disabled"} /\ Requested
    /\ Enter([sup EXCEPT !.phase = IF @ = "ready" THEN "closing" ELSE "leaving"])
    /\ UNCHANGED <<rtWorld, alive, commands, signals, req, tasks, stop, main>>

\* A fault signal degrades the session only when it is closed; stale signals
\* are dropped.
HandleReadySignalTrusts ==
    /\ sup.phase = "ready" /\ ~Requested /\ signals > 0
    /\ signals' = signals - 1
    /\ Enter(Degrade)
    /\ UNCHANGED <<rtWorld, alive, commands, req, tasks, stop, main>>

HandleReadySignal ==
    /\ sup.phase = "ready" /\ ~Requested /\ signals > 0
    /\ signals' = signals - 1
    /\ IF sup.lease \in alive THEN UNCHANGED <<sup, pub, plane, synced>>
                              ELSE Enter(Degrade)
    /\ UNCHANGED <<rtWorld, alive, commands, req, tasks, stop, main>>

Answer(r, result) ==
    IF req[r].at = "waiting" THEN [req EXCEPT ![r].at = result] ELSE req

\* Signals go before commands.  The publish may fail, the session may close
\* while it runs; the caller is answered before the state changes.
HandleReadyCommand ==
    /\ sup.phase = "ready" /\ ~Requested /\ signals = 0 /\ commands # <<>>
    /\ commands' = Tail(commands)
    /\ \E result \in {"ok", "unavailable"}, closes \in BOOLEAN :
          /\ sup.lease \notin alive => result = "unavailable"
          /\ req' = Answer(Head(commands), result)
          /\ alive' = IF closes THEN alive \ {sup.lease} ELSE alive
          /\ IF sup.lease \in alive' THEN UNCHANGED <<sup, pub, plane, synced>>
                                     ELSE Enter(Degrade)
    /\ UNCHANGED <<rtWorld, signals, tasks, stop, main>>

\* Degraded and disabled: signals are ignored, commands refused at once.
StepUnavailable ==
    /\ sup.phase \in {"degraded", "disabled"} /\ ~Requested
    /\ \/ /\ signals > 0
          /\ signals' = signals - 1
          /\ UNCHANGED <<commands, req>>
       \/ /\ signals = 0 /\ commands # <<>>
          /\ commands' = Tail(commands)
          /\ req' = Answer(Head(commands), "unavailable")
          /\ UNCHANGED signals
    /\ UNCHANGED <<rtWorld, sup, alive, pub, plane, synced, tasks, stop, main>>

StepRetry ==
    /\ sup.phase = "degraded" /\ ~Requested /\ signals = 0 /\ commands = <<>>
    /\ sup.attempt < rtWorld.attempts
    /\ Enter([sup EXCEPT !.phase = "opening", !.attempt = @ + 1])
    /\ UNCHANGED <<rtWorld, alive, commands, signals, req, tasks, stop, main>>

\* The task ends: channels and published values lose their other end, and the
\* callers still waiting in the channel learn it.
FinishShutdown ==
    /\ Running("zenoh-supervisor") /\ sup.phase \in {"closing", "leaving"}
    /\ alive' = IF sup.phase = "closing" THEN alive \ {sup.lease} ELSE alive
    /\ sup' = [sup EXCEPT !.phase = "stopped"]
    /\ commands' = <<>> /\ signals' = 0
    /\ req' = [r \in RtRequests |->
                  IF req[r].at = "waiting" THEN [req[r] EXCEPT !.at = "unavailable"]
                                           ELSE req[r]]
    /\ Ends("zenoh-supervisor", "ok")
    /\ UNCHANGED <<rtWorld, pub, plane, synced, stop, main>>

SupervisorGone == tasks["zenoh-supervisor"] # "running"

SupervisorNext ==
    /\ Running("zenoh-supervisor")
    /\ \/ SupStart \/ StepOpening \/ StepShutdown \/ HandleReadySignal
       \/ HandleReadyCommand \/ StepUnavailable \/ StepRetry \/ FinishShutdown

\* A session closes under the controller.
SessionCloses ==
    /\ sup.lease \in alive
    /\ alive' = alive \ {sup.lease}
    /\ UNCHANGED <<rtWorld, sup, pub, commands, signals, req, plane, synced,
                   tasks, stop, main>>

-----------------------------------------------------------------------------
\* HTTP requests.  They start while the listener accepts.

Move(r, at) == req' = [req EXCEPT ![r].at = at]

Begin(r) ==
    r \in rtWorld.requests /\ Running("http-server") /\ ~Requested /\ req[r].at = "idle"

\* `send_unit_command`: wait for room, or learn that nobody listens.
SendUnitCommand(r) ==
    /\ r \in RtPuts
    /\ \/ Begin(r) /\ Move(r, "sending") /\ UNCHANGED commands
       \/ /\ req[r].at = "sending"
          /\ IF SupervisorGone
             THEN Move(r, "unavailable") /\ UNCHANGED commands
             ELSE /\ Len(commands) < RtCommandBuffer
                  /\ commands' = Append(commands, r)
                  /\ Move(r, "waiting")
    /\ UNCHANGED <<rtWorld, sup, alive, pub, signals, plane, synced, tasks, stop, main>>

\* `connected_session`: a snapshot of what is published.
ConnectedSession(r) ==
    /\ r \in RtReads \cup RtStreams /\ Begin(r)
    /\ req' = [req EXCEPT ![r] =
                 [at |-> IF pub.session = 0 THEN "unavailable" ELSE "connected",
                  lease |-> pub.session]]
    /\ UNCHANGED <<rtWorld, sup, alive, pub, commands, signals, plane, synced,
                   tasks, stop, main>>

\* `try_send`: a full channel drops the report, a closed one too.
ReportSessionFault ==
    signals' = IF SupervisorGone \/ signals = RtSignalBuffer THEN signals ELSE signals + 1

\* The operation is issued on the snapshot; an unavailable session is reported.
IssueOperation(r) ==
    /\ req[r].at = "connected"
    /\ \/ /\ req[r].lease \in alive
          /\ Move(r, IF r \in RtStreams THEN "streaming" ELSE "issued")
          /\ UNCHANGED signals
       \/ Move(r, "unavailable") /\ ReportSessionFault
    /\ UNCHANGED <<rtWorld, sup, alive, pub, commands, plane, synced, tasks, stop, main>>

\* Replies are collected until their channel ends or the deadline passes.
CollectReplies(r) ==
    /\ req[r].at = "issued"
    /\ \E result \in {"ok", "timeout"} : Move(r, result)
    /\ UNCHANGED <<rtWorld, sup, alive, pub, commands, signals, plane, synced,
                   tasks, stop, main>>

\* The subscription of a stream ends with its session, or the client leaves.
StreamEnds(r) ==
    /\ req[r].at = "streaming" /\ req[r].lease \notin alive
    /\ Move(r, "ended")
    /\ UNCHANGED <<rtWorld, sup, alive, pub, commands, signals, plane, synced,
                   tasks, stop, main>>

\* The timeout layer drops the handler; a command already sent stays sent.
RequestTimeout(r) ==
    /\ req[r].at \in {"sending", "waiting", "connected", "issued"}
    /\ Move(r, "timeout")
    /\ UNCHANGED <<rtWorld, sup, alive, pub, commands, signals, plane, synced,
                   tasks, stop, main>>

RequestNext == \E r \in RtRequests :
    \/ SendUnitCommand(r) \/ ConnectedSession(r) \/ IssueOperation(r)
    \/ CollectReplies(r) \/ StreamEnds(r) \/ RequestTimeout(r)

-----------------------------------------------------------------------------
\* The data plane's transport loop: workers for the published session.
PlaneTask(p) ==
    /\ plane' = p
    /\ UNCHANGED <<rtWorld, sup, alive, pub, commands, signals, req, synced, stop, main>>

RunTransport ==
    /\ Running("data-plane")
    /\ \/ /\ plane.at = "look" /\ rtWorld.enabled
          /\ PlaneTask([at |-> IF pub.session = 0 THEN "idle" ELSE "working",
                        lease |-> pub.session, seen |-> TRUE])
          /\ UNCHANGED tasks
       \/ /\ plane.at \in {"idle", "working", "ended"} /\ ~plane.seen
          /\ PlaneTask([plane EXCEPT !.at = "look", !.seen = TRUE])
          /\ UNCHANGED tasks
       \/ /\ plane.at \in {"idle", "working", "ended"} /\ plane.seen /\ SupervisorGone
          /\ Ends("data-plane", "failed") /\ PlaneTask(plane)
       \/ /\ IF rtWorld.enabled THEN plane.at \in {"idle", "working"} ELSE TRUE
          /\ Requested
          /\ Ends("data-plane", "ok") /\ PlaneTask(plane)

\* The queryables and the subscriber of a closed session stop.
SessionWorkersEnd ==
    /\ Running("data-plane") /\ plane.at = "working" /\ plane.lease \notin alive
    /\ PlaneTask([plane EXCEPT !.at = "ended"])
    /\ UNCHANGED tasks

\* Payload cleanup or router policy fails, and with it the joined task.
DataPlaneFails ==
    /\ Running("data-plane") /\ ~Requested /\ rtWorld.fails
    /\ Ends("data-plane", "failed") /\ PlaneTask(plane)

SyncReadiness ==
    /\ Running("readiness-sync")
    /\ \/ /\ ~synced.seen
          /\ synced' = [level |-> ZenohReadiness(pub.status), seen |-> TRUE]
          /\ UNCHANGED tasks
       \/ /\ Requested \/ (synced.seen /\ SupervisorGone)
          /\ Ends("readiness-sync", "ok") /\ UNCHANGED synced
    /\ UNCHANGED <<rtWorld, sup, alive, pub, commands, signals, req, plane, stop, main>>

\* An operating system signal.
SignalListener ==
    /\ Running("signal-listener") /\ rtWorld.stops
    /\ Request("signal") /\ Ends("signal-listener", "ok")
    /\ UNCHANGED <<rtWorld, sup, alive, pub, commands, signals, req, plane, synced, main>>

\* The listener stops accepting, and waits for the responses in flight.
HttpServerDrains ==
    /\ Running("http-server") /\ Requested
    /\ \A r \in RtRequests : req[r].at \in Settled \cup {"idle"}
    /\ Ends("http-server", "ok")
    /\ UNCHANGED <<rtWorld, sup, alive, pub, commands, signals, req, plane, synced,
                   stop, main>>

-----------------------------------------------------------------------------
\* supervise_tasks and its drain.

Ended(t) == tasks[t] \in {"ok", "failed"} /\ t \notin main.joined

FirstFailure(t) == IF main.failure = None THEN t ELSE main.failure

SuperviseTasks(t) ==
    /\ main.at = "watching" /\ Ended(t)
    /\ LET failed == tasks[t] = "failed" IN
       /\ main' = [at |-> IF failed \/ ShutsDown(t) THEN "draining" ELSE "watching",
                   joined |-> main.joined \cup {t},
                   failure |-> IF failed THEN FirstFailure(t) ELSE main.failure]
       /\ IF failed THEN Request(t)
          ELSE IF t = "http-server" THEN Request("server-stopped") ELSE UNCHANGED stop
    /\ UNCHANGED <<rtWorld, sup, alive, pub, commands, signals, req, plane, synced, tasks>>

\* A failure while draining ends the drain; the other tasks are dropped.
DrainRemaining(t) ==
    /\ main.at = "draining" /\ Ended(t)
    /\ main' = [at |-> IF tasks[t] = "failed" THEN "returned" ELSE "draining",
                joined |-> main.joined \cup {t},
                failure |-> IF tasks[t] = "failed" THEN FirstFailure(t) ELSE main.failure]
    /\ UNCHANGED <<rtWorld, sup, alive, pub, commands, signals, req, plane, synced,
                   tasks, stop>>

RunReturns ==
    /\ main.at = "draining" /\ main.joined = TaskName
    /\ main' = [main EXCEPT !.at = "returned"]
    /\ UNCHANGED <<rtWorld, sup, alive, pub, commands, signals, req, plane, synced,
                   tasks, stop>>

\* The grace period passes: the tasks are aborted.
DrainWithTimeout ==
    /\ main.at = "draining"
    /\ main' = [main EXCEPT !.at = "returned", !.failure = FirstFailure("timeout")]
    /\ tasks' = [t \in TaskName |-> IF Running(t) THEN "aborted" ELSE tasks[t]]
    /\ UNCHANGED <<rtWorld, sup, alive, pub, commands, signals, req, plane, synced, stop>>

-----------------------------------------------------------------------------
PlaneNext == RunTransport \/ SessionWorkersEnd

MainNext == (\E t \in TaskName : SuperviseTasks(t) \/ DrainRemaining(t)) \/ RunReturns

RtNext ==
    /\ main.at # "returned"
    /\ \/ SupervisorNext \/ RequestNext \/ PlaneNext \/ SyncReadiness \/ HttpServerDrains
       \/ MainNext \/ SessionCloses \/ SignalListener \/ DataPlaneFails \/ DrainWithTimeout

RtSpec == RtInit /\ [][RtNext]_rtVars

-----------------------------------------------------------------------------
\* The controller holds one session at most, whatever is reported about it and
\* however late: an open session is given up only by the shutdown, which has
\* withdrawn it from the handle before it is closed.  A fault of a session that
\* was replaced, still in the channel or in a slow request, does not cost the
\* controller the session it has now, nor leave that one open behind the next.
SessionHandover ==
    [][/\ alive' \subseteq {sup'.lease}
       /\ sup.phase = "ready" /\ sup'.phase = "degraded" => sup.lease \notin alive'
       /\ sup.phase = "closing" /\ sup'.phase = "stopped" => pub.session = 0
      ]_rtVars

=============================================================================
