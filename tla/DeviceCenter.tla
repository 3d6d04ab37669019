----------------------------- MODULE DeviceCenter -----------------------------
(***************************************************************************)
(* The Device Center desktop program: the setup window (Onboarding), the   *)
(* operations window (DeviceCenter) with its Client Pairing view, and the  *)
(* runtime that runs every request to the local Agent on another thread.   *)
(*                                                                         *)
(* The windows share one thread, so a handler is one step.  A handler      *)
(* starts a request and keeps the task that waits for its reply; storing   *)
(* another task in the same field drops the older one, whose request still *)
(* runs but whose reply nobody applies.  `ui.calls' are the requests and   *)
(* a task field holds the number of the request it waits for (0: none,     *)
(* FollowTask: the stream of setup snapshots).                             *)
(***************************************************************************)
EXTENDS Options

CONSTANTS
  DcLinks,     \* invitation links an operator may hold
  DcRequests,  \* Pairing Requests the Agent may hold
  DcDevices,   \* devices the Agent may find
  DcWorlds,    \* what a run lets the operator and the Agent do (see DcInit)
  DcReads,     \* reads before the 90 s deadline of follow()
  DcEvents     \* capacity of the event broadcast (128)

VARIABLES
  dcWorld,  \* [acts, env, ops, faults, ...]: what may still happen in this run
  agent,    \* the local Agent
  ui,       \* both windows, the requests in flight and the follow task
  live      \* the event supervisor and the channels the shell listens to

dcVars == <<dcWorld, agent, ui, live>>

FollowTask == -1
NoFollow == [run |-> FALSE, mode |-> "none", left |-> 0, queue |-> <<>>]

-----------------------------------------------------------------------------
(* Snapshots                                                               *)

Invitation == [access |-> "required", stage |-> "invitation",
               restart |-> FALSE, devices |-> {}]
Unavailable == [Invitation EXCEPT !.access = "unknown"]

\* The status the Agent reports ...
AgentPhase(a) ==
  CASE a.begun /\ ~a.managed -> "restart_required"
    [] ~(a.begun /\ ~a.managed) /\ a.link = "online" ->
         IF a.devices # {} THEN "ready" ELSE "finding_devices"
    [] ~(a.begun /\ ~a.managed) /\ a.link = "failed" -> "failed"
    [] OTHER -> IF ~a.managed THEN "not_started"
                ELSE IF a.link = "connecting" THEN "connecting"
                                              ELSE "securing_connection"

\* ... and the snapshot the client makes of it.
Snapshot(a) ==
  LET restart == AgentPhase(a) = "restart_required"
      access == IF a.done /\ ~restart THEN "complete" ELSE "required"
      stage == CASE AgentPhase(a) = "not_started" -> "invitation"
                 [] AgentPhase(a) \in {"restart_required", "securing_connection"}
                      -> "securing"
                 [] AgentPhase(a) = "finding_devices" -> "devices"
                 [] AgentPhase(a) = "ready" ->
                      IF access = "complete" THEN "complete" ELSE "devices"
                 [] OTHER -> AgentPhase(a)
  IN  [access |-> access, stage |-> stage, restart |-> restart,
       devices |-> a.devices]

\* pending(): the setup goes on without the operator.
SetupPending(s, afterRestart) ==
  /\ s.access = "required"
  /\ \/ s.restart /\ afterRestart
     \/ ~s.restart /\ s.stage \in {"securing", "connecting"}

-----------------------------------------------------------------------------
(* Requests                                                                *)

\* spawn_future(): a request runs on the runtime and its reply goes to a
\* channel.  A request that changes nothing leaves `calls' when the task
\* `old' that waited for it is replaced.
Effects == {"begin", "confirm", "cancel", "start", "restart", "restart_setup",
            "approve", "deny"}
Kept(calls, old) == {c \in calls : c.n # old \/ c.op \in Effects}

Free(u) == CHOOSE n \in 1..(Cardinality(u.calls) + 1) : \A c \in u.calls : c.n # n

Ask(u, op, arg, old) ==
  [u EXCEPT !.calls = Kept(@, old) \cup
              {[n |-> Free(u), op |-> op, arg |-> arg, started |-> FALSE,
                before |-> FALSE, reply |-> None]}]

Reply(ok, snap, word) == [ok |-> ok, snap |-> snap, word |-> word]

\* The tasks that still wait for request n.
Awaited(u, n) ==
  n \in {u.onb.task, u.shell.setupTask, u.shell.serviceTask, u.shell.dataTask,
         u.pair.task}

-----------------------------------------------------------------------------
(* The operations window                                                   *)

LoadSetup(u, op) ==
  [Ask(u, op, {}, u.shell.setupTask) EXCEPT !.shell.setupTask = Free(u)]

RefreshOperationalData(u) ==
  IF u.shell.setup.access # "complete" THEN u
  ELSE [Ask(u, "data", {}, u.shell.dataTask) EXCEPT !.shell.dataTask = Free(u)]

\* The requests that run when the setup window hands over (history).
Handover(u) == [u EXCEPT !.calls = {[c EXCEPT !.before = TRUE] : c \in @},
                         !.shell.stale = FALSE]

\* A handover that keeps waiting for the read started before it.
AcceptSetupKeepsRead(u, snap) ==
  RefreshOperationalData([Handover(u) EXCEPT !.shell.setup = snap])

\* accept_setup(): the snapshot the setup window hands over.
AcceptSetup(u, snap) ==
  RefreshOperationalData([LoadSetup(Handover(u), "setup") EXCEPT !.shell.setup = snap])

Reveal(u, snap) == [AcceptSetup(u, snap) EXCEPT !.shell.shown = TRUE]

\* apply_setup(): a reply to setup() or retry_setup().
ApplySetup(u, c) ==
  RefreshOperationalData([u EXCEPT !.shell.setup = c.reply.snap,
                                   !.shell.stale = c.before,
                                   !.shell.setupTask = 0])

ServiceOperation(u, op) ==
  [Ask(u, op, {}, u.shell.serviceTask) EXCEPT !.shell.service = "starting",
                                              !.shell.serviceTask = Free(u)]

\* apply_service_response()
ApplyServiceResponse(u, c) ==
  LET state == IF c.reply.ok THEN c.reply.word ELSE "unavailable"
      v == [u EXCEPT !.shell.service = state, !.shell.serviceTask = 0]
  IN  IF c.reply.ok /\ state = "running" /\ u.shell.setup.access = "unknown"
      THEN LoadSetup(v, "setup")
      ELSE v

ApplyData(u, c) ==
  [u EXCEPT !.shell.dataTask = 0,
            !.shell.devices = IF c.reply.ok THEN c.reply.snap.devices ELSE @]

\* request_service_action(), and the two menu actions it stands for.
RequestServiceAction(u) ==
  CASE u.shell.service = "stopped" -> ServiceOperation(u, "start")
    [] u.shell.service = "running" -> ServiceOperation(u, "restart")
    [] OTHER -> u

\* refresh_agent_service(): forget the identity and read everything again.
RefreshAgentService(u) ==
  LET v == LoadSetup([u EXCEPT !.shell.service = "checking"], "retry")
  IN  [Ask(v, "state", {}, v.shell.serviceTask) EXCEPT !.shell.serviceTask = Free(v)]

-----------------------------------------------------------------------------
(* The Client Pairing view of the operations window                        *)

\* load_request(): whatever was awaited before is dropped.
LoadRequest(u, r) ==
  [Ask(u, "review", {r}, u.pair.task) EXCEPT !.pair.state = "loading",
                                             !.pair.asked = {r},
                                             !.pair.task = Free(u)]

PairWorking(p) == p.state \in {"loading", "deciding"}

ShowError(u) == [u EXCEPT !.pair.state = "failed", !.pair.task = 0,
                          !.calls = Kept(@, u.pair.task)]

\* PairingRequestId::parse_input(): an id, or the link of one.
ParseInput(input) == input \subseteq DcRequests /\ input # {}

\* review(): the request named by the input field.
Review(u) ==
  IF ParseInput(u.pair.input)
  THEN LoadRequest(u, CHOOSE r \in u.pair.input : TRUE)
  ELSE ShowError(u)

\* decide() and decision_allowed(): only the pending request on display, and
\* only while the input field still names it.
DecisionAllowed(p) ==
  p.state = "ready" /\ p.word = "pending" /\ p.input = p.shown

Decide(u, decision) ==
  [Ask(u, decision, u.pair.shown, u.pair.task) EXCEPT !.pair.state = "deciding",
                                                      !.pair.task = Free(u)]

\* receive(): the request the Agent returned, or a failure.
ReceivePairing(u, c) ==
  IF ~c.reply.ok THEN ShowError(u)
  ELSE [u EXCEPT !.pair.state = "ready", !.pair.shown = c.arg,
                 !.pair.word = c.reply.word, !.pair.task = 0]

-----------------------------------------------------------------------------
(* The setup window                                                        *)

ClosedWindow ==
  [open |-> FALSE, shown |-> FALSE, revealed |-> FALSE, snapshot |-> Unavailable,
   input |-> {}, preview |-> {}, error |-> FALSE, working |-> FALSE,
   forced |-> FALSE, selected |-> {}, task |-> 0]

Parses(input) == input # {} /\ input \subseteq DcLinks

\* Store a task that waits for a new request.
Await(u, op, arg) ==
  [Ask(u, op, arg, u.onb.task) EXCEPT !.onb.task = Free(u), !.follow = NoFollow]

Busy(u) == [u EXCEPT !.onb.working = TRUE, !.onb.error = FALSE]

FollowSetup(u, mode) ==
  [u EXCEPT !.onb.task = FollowTask, !.calls = Kept(@, u.onb.task),
            !.follow = [run |-> TRUE, mode |-> mode, left |-> DcReads,
                       queue |-> <<>>]]

TrackProgress(u) ==
  IF SetupPending(u.onb.snapshot, FALSE)
  THEN [FollowSetup(u, "observe") EXCEPT !.onb.working = TRUE]
  ELSE u

\* Store a snapshot; select_all_devices() selects every device it names.
TakeSnapshot(u, snap) ==
  [u EXCEPT !.onb.snapshot = snap,
            !.onb.selected = IF snap.stage = "devices" THEN snap.devices ELSE {}]

\* settle(): show the window the first time enrollment stands in the way,
\* hand over and close when it does not.
Settle(u) ==
  IF u.onb.forced \/ u.onb.snapshot.access = "required"
  THEN [u EXCEPT !.onb.shown = @ \/ ~u.onb.revealed, !.onb.revealed = TRUE]
  ELSE [Reveal(u, u.onb.snapshot) EXCEPT !.onb = ClosedWindow, !.follow = NoFollow]

\* Onboarding::new() and open(): a hidden window that reads before it shows.
NewWindow(u, link) ==
  LET v == [u EXCEPT !.onb = [ClosedWindow EXCEPT !.open = TRUE, !.input = link,
                                !.working = link # {}, !.forced = link # {},
                                !.snapshot = IF link = {} THEN @ ELSE Invitation]]
  IN  IF link = {} THEN Await(v, "setup", {}) ELSE Await(v, "preview", link)

\* receive_invitation(): ignored while a request runs.
ReceiveInvitation(u, link) ==
  IF u.onb.working THEN u
  ELSE Await(Busy([u EXCEPT !.onb.input = link, !.onb.forced = TRUE,
                            !.onb.snapshot = Invitation, !.onb.preview = {}]),
             "preview", link)

\* The open_onboarding callback of main(), with OnboardingWindow::show().
OpenOnboarding(u, link) ==
  IF ~u.onb.open THEN NewWindow(u, link)
  ELSE [IF link = {} THEN u ELSE ReceiveInvitation(u, link)
          EXCEPT !.onb.shown = TRUE]

\* The replies a setup task applies.
ApplyPreview(u, c) ==
  Settle([u EXCEPT !.onb.working = FALSE, !.onb.task = 0,
                   !.onb.preview = IF c.reply.ok THEN c.arg ELSE @,
                   !.onb.error = IF c.reply.ok THEN @ ELSE TRUE])

ApplyFirstSetup(u, c) ==
  LET v == [u EXCEPT !.onb.task = 0]
  IN  Settle(TrackProgress(TakeSnapshot(v, IF u.onb.forced THEN Invitation
                                                          ELSE c.reply.snap)))

ApplySetupResponse(u, c) ==
  LET v == [u EXCEPT !.onb.working = FALSE, !.onb.task = 0]
  IN  IF ~c.reply.ok THEN Settle([v EXCEPT !.onb.error = TRUE])
      ELSE Settle(TrackProgress([TakeSnapshot(v, c.reply.snap)
                                   EXCEPT !.onb.preview = {}]))

ApplyRestart(u, c) ==
  IF c.reply.ok THEN FollowSetup(u, "after_restart")
  ELSE [u EXCEPT !.onb.working = FALSE, !.onb.error = TRUE, !.onb.task = 0]

\* follow_setup(): one message of the stream, and its end.
ApplyProgress(u) ==
  LET msg == Head(u.follow.queue)
      v == [u EXCEPT !.follow.queue = Tail(@)]
  IN  IF msg.ok
      THEN Settle([TakeSnapshot(v, msg.snap)
             EXCEPT !.onb.error = FALSE,
                    !.onb.working = SetupPending(msg.snap,
                                      u.follow.mode = "after_restart")])
      ELSE Settle([v EXCEPT !.onb.working = FALSE, !.onb.error = TRUE])

ProgressEnds(u) ==
  [u EXCEPT !.onb.task = 0, !.follow = NoFollow, !.onb.working = FALSE,
            !.onb.error = @ \/ u.onb.working]

-----------------------------------------------------------------------------
(* What the operator can do.  Each action costs one of dcWorld.ops.        *)

\* The invitation form: its field, and review or connect.
FormOffers(o, act) ==
  /\ o.snapshot.access = "required" /\ o.snapshot.stage = "invitation"
  /\ act = "preview" => o.preview = {} /\ o.input # {}
  /\ act = "begin" => o.preview # {}

\* The controls SetupView draws for this state of the setup window.
SetupOffers(o, act) ==
  /\ o.open /\ o.shown /\ ~o.working
  /\ LET s == o.snapshot
     IN  CASE act \in {"edit", "preview", "begin"} -> FormOffers(o, act)
           [] act = "restart" -> s.access = "required" /\ s.restart
           [] act = "retry" ->
                \/ s.access = "unknown"
                \/ /\ s.access = "required" /\ ~s.restart /\ o.error
                   /\ s.stage \in {"securing", "connecting"}
           [] act \in {"confirm", "select"} -> s.stage = "devices" /\ ~s.restart
           [] act = "without" ->
                s.stage = "devices" /\ ~s.restart /\ s.devices # {}
           [] act = "over" -> s.stage = "failed"

BadLink(u) == [u EXCEPT !.onb.error = TRUE]

PreviewLink(u) ==
  IF Parses(u.onb.input)
  THEN Await([Busy(u) EXCEPT !.onb.preview = {}], "preview", u.onb.input)
  ELSE [BadLink(u) EXCEPT !.onb.preview = {}]

BeginSetup(u) ==
  IF Parses(u.onb.input)
  THEN Await([Busy(u) EXCEPT !.onb.forced = FALSE, !.onb.input = {}],
             "begin", u.onb.input)
  ELSE BadLink(u)

RetryConnection(u) ==
  IF u.onb.snapshot.access = "required" THEN FollowSetup(Busy(u), "retry")
  ELSE Await([u EXCEPT !.onb.error = FALSE], "retry", {})

SetupAction(act) ==
  /\ act \in dcWorld.acts /\ dcWorld.ops > 0 /\ SetupOffers(ui.onb, act)
  /\ dcWorld' = [dcWorld EXCEPT !.ops = @ - 1]
  /\ \/ act = "edit" /\ \E text \in {{}} \cup {{l} : l \in DcLinks \cup {"junk"}} :
          ui' = [ui EXCEPT !.onb.input = text]
     \/ act = "select" /\ \E d \in ui.onb.snapshot.devices :
          ui' = [ui EXCEPT !.onb.selected = IF d \in @ THEN @ \ {d} ELSE @ \cup {d}]
     \/ act = "preview" /\ ui' = PreviewLink(ui)
     \/ act = "begin" /\ ui' = BeginSetup(ui)
     \/ act = "restart" /\ ui' = Await(Busy(ui), "restart_setup", {})
     \/ act = "retry" /\ ui' = RetryConnection(ui)
     \/ act = "confirm" /\ ui' = Await(Busy(ui), "confirm", ui.onb.selected)
     \/ act = "without" /\ ui' = Await(Busy(ui), "confirm", {})
     \/ act = "over" /\ ui' = Await([Busy(ui) EXCEPT !.onb.preview = {}], "cancel", {})
  /\ UNCHANGED <<agent, live>>

\* InariLink::parse(): the authority of the link says which kind it is.
ParseLink(link) == CASE link \in DcLinks -> "enrollment"
                     [] link \in DcRequests -> "client_pairing"
                     [] OTHER -> "error"

\* open_link(): an invitation goes to the setup window, a Pairing Request to
\* the Client Pairing view, anything else is an error shown there.
OpenLink(u, link) ==
  LET v == [u EXCEPT !.shell.shown = TRUE, !.shell.page = "pairing"]
  IN  CASE ParseLink(link) = "enrollment" -> OpenOnboarding(u, {link})
        [] ParseLink(link) = "client_pairing" ->
             LoadRequest([v EXCEPT !.pair.input = {link}], link)
        [] ParseLink(link) = "error" -> ShowError(v)

\* The tray, a second launch of the program, and the pages of the shell.
ShellAction(act) ==
  /\ act \in dcWorld.acts /\ dcWorld.ops > 0
  /\ dcWorld' = [dcWorld EXCEPT !.ops = @ - 1]
  /\ \/ act = "link" /\ \E l \in DcLinks \cup DcRequests \cup {"junk"} :
          ui' = OpenLink(ui, l)
     \/ act = "open" /\ ui' = IF ui.shell.setup.access = "required"
                             THEN OpenOnboarding(ui, {})
                             ELSE [ui EXCEPT !.shell.shown = TRUE]
     \/ act = "review_setup" /\ ui' = OpenOnboarding(ui, {})
     \/ act = "service" /\ ui' = RequestServiceAction(ui)
     \/ act = "check" /\ ui.shell.shown /\ ui' = RefreshAgentService(ui)
     \/ act = "hide" /\ ui' = [ui EXCEPT !.onb.shown = FALSE]
     \/ /\ act = "type" /\ ui.shell.shown /\ ~PairWorking(ui.pair)
        /\ \E r \in DcRequests : ui' = [ui EXCEPT !.pair.input = {r}]
     \/ act = "review" /\ ui.shell.shown /\ ~PairWorking(ui.pair) /\ ui' = Review(ui)
     \/ /\ act = "decide" /\ ui.shell.shown /\ DecisionAllowed(ui.pair)
        /\ \E d \in {"approve", "deny"} : ui' = Decide(ui, d)
  /\ UNCHANGED <<agent, live>>

-----------------------------------------------------------------------------
(* The Agent, as the requests see it                                       *)

\* start(), confirm_devices(), cancel() and the restart that applies a record.
Started(a) == [a EXCEPT !.begun = TRUE, !.done = FALSE]
Cancelled(a) == [a EXCEPT !.begun = FALSE, !.done = FALSE]
Restarted(a) == [a EXCEPT !.up = TRUE, !.managed = @ \/ a.begun,
                          !.link = IF a.managed \/ a.begun THEN "securing" ELSE @]

ServiceOps == {"state", "start", "restart", "restart_setup"}

\* review_client_pairing() and decide_client_pairing(): the request as it now
\* stands; a decision counts only while the request is pending.
ServePairing(a, c) ==
  LET r == CHOOSE x \in c.arg : TRUE
      decided == [a.pairing EXCEPT ![r] = CASE c.op = "review" \/ @ # "pending" -> @
                                            [] c.op = "approve" -> "approved"
                                            [] c.op = "deny" -> "denied"]
  IN  <<Reply(TRUE, Unavailable, decided[r]), [a EXCEPT !.pairing = decided]>>

\* What request c answers and leaves behind when it reaches Agent a.
Serve(a, c) ==
  LET fail == <<Reply(FALSE, Unavailable, ""), a>>
      read(b) == <<Reply(TRUE, Snapshot(b), ""), b>>
  IN  CASE c.op = "state" ->
             <<Reply(TRUE, Unavailable, IF a.up THEN "running" ELSE "stopped"), a>>
        [] c.op \in {"start", "restart", "restart_setup"} ->
             <<Reply(TRUE, Unavailable, "running"), Restarted(a)>>
        [] c.op \notin ServiceOps /\ ~a.up -> fail
        [] a.up /\ c.op \in {"setup", "retry", "data", "begin", "preview"} -> read(a)
        [] a.up /\ c.op = "confirm" ->
             IF c.arg \subseteq a.devices THEN read([a EXCEPT !.done = TRUE]) ELSE fail
        [] a.up /\ c.op = "cancel" ->
             <<Reply(TRUE, Invitation, ""), Cancelled(a)>>
        [] a.up /\ c.op \in {"review", "approve", "deny"} -> ServePairing(a, c)

\* begin_setup() starts the enrollment and then reads the setup again: the
\* Agent may stop, or move on, between the two.
CallStarts(c) ==
  /\ c.op = "begin" /\ ~c.started /\ agent.up
  /\ agent' = Started(agent)
  /\ ui' = [ui EXCEPT !.calls = (@ \ {c}) \cup {[c EXCEPT !.started = TRUE]}]
  /\ UNCHANGED <<dcWorld, live>>

CallServed(c) ==
  /\ c.reply = None /\ (c.op = "begin" => c.started \/ ~agent.up)
  /\ agent' = Serve(agent, c)[2]
  /\ ui' = [ui EXCEPT !.calls = (@ \ {c}) \cup
               IF Awaited(ui, c.n) THEN {[c EXCEPT !.reply = Serve(agent, c)[1]]}
                                   ELSE {}]
  /\ UNCHANGED <<dcWorld, live>>

\* ServiceControlError: the service manager refuses, is busy, or does not finish
\* in 30 seconds; a restart may have stopped the service, and a start that is
\* not waited for may still take place.  start() and restart() may also end with
\* another state than running, which restart_setup() makes an error.
ServiceFails(c) ==
  /\ c.reply = None /\ c.op \in ServiceOps
  /\ "service" \in dcWorld.env /\ dcWorld.faults > 0
  /\ dcWorld' = [dcWorld EXCEPT !.faults = @ - 1]
  /\ agent' \in {agent} \cup IF c.op = "state" THEN {}
                           ELSE {Restarted(agent), [agent EXCEPT !.up = FALSE]}
  /\ \E r \in {Reply(FALSE, Unavailable, "")}
              \cup IF c.op \in {"start", "restart"} /\ ~agent'.up
                   THEN {Reply(TRUE, Unavailable, "stopped")} ELSE {} :
       ui' = [ui EXCEPT !.calls = (@ \ {c}) \cup
                IF Awaited(ui, c.n) THEN {[c EXCEPT !.reply = r]} ELSE {}]
  /\ UNCHANGED live

ApplySetupTask(u, c) ==
  CASE c.op = "preview" -> ApplyPreview(u, c)
    [] c.op \in {"setup", "retry"} -> ApplyFirstSetup(u, c)
    [] c.op \in {"begin", "confirm", "cancel"} -> ApplySetupResponse(u, c)
    [] c.op = "restart_setup" -> ApplyRestart(u, c)

\* The reply reaches the task that waits for it; nobody else applies it.
CallApplied(c) ==
  /\ c.reply # None
  /\ LET u == [ui EXCEPT !.calls = @ \ {c}]
     IN  ui' = CASE ~Awaited(u, c.n) -> u
                 [] c.n = u.shell.setupTask -> ApplySetup(u, c)
                 [] c.n = u.shell.serviceTask -> ApplyServiceResponse(u, c)
                 [] c.n = u.shell.dataTask -> ApplyData(u, c)
                 [] c.n = u.pair.task -> ReceivePairing(u, c)
                 [] c.n = u.onb.task -> ApplySetupTask(u, c)
  /\ UNCHANGED <<dcWorld, agent, live>>

-----------------------------------------------------------------------------
(* follow(): read the setup until it stops being pending or time runs out. *)

FollowSends(msg, run) ==
  ui' = [ui EXCEPT !.follow.queue = Append(@, msg), !.follow.run = run,
                   !.follow.left = @ - 1]

FollowRead ==
  /\ ui.follow.run /\ ui.follow.left > 0 /\ agent.up
  /\ FollowSends(Reply(TRUE, Snapshot(agent), ""),
                 SetupPending(Snapshot(agent), ui.follow.mode = "after_restart"))
  /\ UNCHANGED <<dcWorld, agent, live>>

\* transient(): some failures of a read are tried again, others end it.
FollowFails ==
  /\ ui.follow.run /\ ui.follow.left > 0 /\ ~agent.up
  /\ \/ ui' = [ui EXCEPT !.follow.left = @ - 1]
     \/ FollowSends(Reply(FALSE, Unavailable, ""), FALSE)
  /\ UNCHANGED <<dcWorld, agent, live>>

FollowTimedOut ==
  /\ ui.follow.run /\ ui.follow.left = 0
  /\ ui' = [ui EXCEPT !.follow.queue = Append(@, Reply(FALSE, Unavailable, "")),
                      !.follow.run = FALSE]
  /\ UNCHANGED <<dcWorld, agent, live>>

FollowApplied ==
  /\ ui.onb.task = FollowTask
  /\ \/ ui.follow.queue # <<>> /\ ui' = ApplyProgress(ui)
     \/ ui.follow.queue = <<>> /\ ~ui.follow.run /\ ui' = ProgressEnds(ui)
  /\ UNCHANGED <<dcWorld, agent, live>>

-----------------------------------------------------------------------------
(* The event supervisor and the subscription of the shell                  *)

\* AgentEventStream::connect(): the Agent answers with an event stream.
EventsConnect == agent.up

\* AgentEventStream::next(): the stream ends with the Agent, or at a message that
\* is not an update.
StreamEnds == ~agent.up \/ ("event" \in dcWorld.env /\ dcWorld.faults > 0)

\* start_event_supervisor(): connect, read until the stream ends, back off.
Supervise ==
  /\ \/ /\ live.at = "connecting" /\ EventsConnect
        /\ live' = [live EXCEPT !.at = "streaming", !.attempt = 0,
                               !.conn = "connected", !.changed = TRUE]
     \/ /\ live.at = "connecting" /\ ~EventsConnect
        /\ live' = [live EXCEPT !.at = "backoff", !.attempt = 1, !.changed = TRUE,
               !.conn = IF live.attempt = 0 THEN "unavailable" ELSE "reconnecting"]
     \/ /\ live.at = "streaming" /\ StreamEnds
        /\ live' = [live EXCEPT !.at = "backoff", !.attempt = 1, !.changed = TRUE,
                               !.conn = "reconnecting"]
     \/ live.at = "backoff" /\ live' = [live EXCEPT !.at = "connecting"]
  /\ UNCHANGED <<dcWorld, agent, ui>>

\* An event of the stream; a full broadcast drops its oldest event.
AgentEvent ==
  /\ live.at = "streaming" /\ agent.up
  /\ "event" \in dcWorld.env /\ dcWorld.faults > 0
  /\ dcWorld' = [dcWorld EXCEPT !.faults = @ - 1]
  /\ live' = IF live.events < DcEvents THEN [live EXCEPT !.events = @ + 1]
                                       ELSE [live EXCEPT !.lagged = TRUE]
  /\ UNCHANGED <<agent, ui>>

\* recv() and listen_for_updates(): the connection first, then the events.
ShellUpdate ==
  /\ \/ /\ live.changed
        /\ live' = [live EXCEPT !.changed = FALSE]
        /\ LET u == [ui EXCEPT !.shell.conn = live.conn]
           IN  ui' = IF live.conn = "connected" /\ u.shell.setup.access = "unknown"
                     THEN LoadSetup(u, "setup") ELSE u
     \/ /\ ~live.changed /\ live.lagged
        /\ live' = [live EXCEPT !.lagged = FALSE]
        /\ ui' = RefreshOperationalData(ui)
     \/ /\ ~live.changed /\ ~live.lagged /\ live.events > 0
        /\ live' = [live EXCEPT !.events = @ - 1]
        /\ ui' = RefreshOperationalData(ui)
  /\ UNCHANGED <<dcWorld, agent>>

-----------------------------------------------------------------------------
(* The Agent by itself                                                     *)

AgentConnects ==
  /\ agent.up /\ agent.managed
  /\ \/ agent.link = "securing" /\ agent' = [agent EXCEPT !.link = "connecting"]
     \/ /\ agent.link = "connecting"
        /\ \E l \in {"online", "failed"} : agent' = [agent EXCEPT !.link = l]
  /\ UNCHANGED <<dcWorld, ui, live>>

AgentChanges ==
  /\ dcWorld.faults > 0
  /\ dcWorld' = [dcWorld EXCEPT !.faults = @ - 1]
  /\ \/ "stop" \in dcWorld.env /\ agent.up /\ agent' = [agent EXCEPT !.up = FALSE]
     \/ "stop" \in dcWorld.env /\ ~agent.up /\ agent' = Restarted(agent)
     \/ /\ "devices" \in dcWorld.env /\ agent.link = "online"
        /\ \E D \in SUBSET DcDevices : agent' = [agent EXCEPT !.devices = D]
     \/ /\ "expire" \in dcWorld.env
        /\ \E r \in DcRequests : /\ agent.pairing[r] = "pending"
                                 /\ agent' = [agent EXCEPT !.pairing[r] = "expired"]
  /\ UNCHANGED <<ui, live>>

-----------------------------------------------------------------------------
\* DeviceCenter::new(): nothing known, the first reads under way.
Built ==
  LET u == [onb |-> ClosedWindow, follow |-> NoFollow, calls |-> {},
            shell |-> [setup |-> Unavailable, stale |-> FALSE,
                       service |-> "checking", conn |-> "checking",
                       shown |-> FALSE, page |-> "overview", devices |-> {},
                       setupTask |-> 0, serviceTask |-> 0, dataTask |-> 0],
            pair |-> [state |-> "idle", input |-> {}, shown |-> {}, word |-> "",
                      asked |-> {}, task |-> 0]]
      v == LoadSetup(u, "setup")
  IN [Ask(v, "state", {}, 0) EXCEPT !.shell.serviceTask = Free(v)]

(* main(): the operations window is built unshown and starts its reads; then *)
(* the link it was launched with, or the setup window, decides what is shown. *)
Launched(link) == IF link = "none" THEN OpenOnboarding(Built, {}) ELSE OpenLink(Built, link)

DcInit ==
  /\ dcWorld \in DcWorlds
  /\ agent = dcWorld.agent
  /\ ui = Launched(dcWorld.link)
  /\ live = [at |-> IF dcWorld.live THEN "connecting" ELSE "off", attempt |-> 0,
             conn |-> "checking", changed |-> dcWorld.live, events |-> 0,
             lagged |-> FALSE]

DcSetupActs == {"edit", "preview", "begin", "restart", "retry", "confirm",
                "select", "without", "over"}
DcShellActs == {"link", "open", "review_setup", "service", "check", "hide",
                "type", "review", "decide"}

DcReplies ==
  \E c \in ui.calls : CallStarts(c) \/ CallServed(c) \/ ServiceFails(c) \/ CallApplied(c)

DcNext ==
  \/ \E act \in DcSetupActs : SetupAction(act)
  \/ \E act \in DcShellActs : ShellAction(act)
  \/ DcReplies
  \/ FollowRead \/ FollowFails \/ FollowTimedOut \/ FollowApplied
  \/ Supervise \/ AgentEvent \/ ShellUpdate
  \/ AgentConnects \/ AgentChanges

DcSpec == DcInit /\ [][DcNext]_dcVars

-----------------------------------------------------------------------------
(* Properties                                                              *)

\* Once the setup window has handed over, the operations window never shows
\* a setup that was asked for before the handover: accept_setup() replaces
\* the task that waits for the older read, so its late reply, perhaps of an
\* Agent that was not enrolled yet, is dropped.
ShellReadsAfterHandover == ~ui.shell.stale

=============================================================================
