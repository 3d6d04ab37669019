----------------------- MODULE TransmissionPipeline -----------------------
(***************************************************************************)
(* The transmission pipeline of a link (common/pipeline.rs, batch.rs,       *)
(* priority.rs) and the write loop that empties it                          *)
(* (unicast/universal/link.rs).                                             *)
(*                                                                          *)
(* Producers are the threads that schedule network messages; producer 0 is  *)
(* the task that closes the transport and pushes a Close message.  A lane   *)
(* is a priority queue.  The mutexes are StageIn (tpStage) and the current  *)
(* batch (tpQ[q].lock); a step ends where the code may block or where two   *)
(* threads meet on shared memory outside a mutex.  The link carries one     *)
(* stream: the write loops per priority of a link with priorities are left  *)
(* out.                                                                     *)
(***************************************************************************)
EXTENDS Options

CONSTANTS TpLanes,    \* priorities, 0 is served first
          TpWorlds,   \* [jobs, batches, batching, qos, sn, close, lease, breaks, alive, ...]
          TpCap,      \* what a batch holds
          TpRing,     \* RBLEN, the length of the ring buffers
          TpMask      \* the sequence number resolution

VARIABLES tpWorld,    \* the instance of this behaviour
          tpPr,       \* producer -> [pc, i, try, sn, part]
          tpStage,    \* lane -> holder of the StageIn mutex
          tpQ,        \* lane -> [cur, lock, out, free, pending, congested, active, grew]
          tpSn,       \* lane -> [rel, be]: the next sequence numbers
          tpTx,       \* the write loop, then the close of the link: [pc, q, batch, flush]
          tpEvt,      \* the notification of new batches
          tpCancelled,\* the cancellation token of the link's tasks
          tpOrder,    \* lane -> messages in the order they took the lane
          tpAccepted, \* messages whose push returned true
          tpWire      \* batches written on the link

tpVars == <<tpWorld, tpPr, tpStage, tpQ, tpSn, tpTx, tpEvt, tpCancelled, tpOrder, tpAccepted, tpWire>>

TpClose == [k |-> "close", prio |-> 1, rel |-> TRUE, size |-> 1, drop |-> FALSE, express |-> FALSE, id |-> 0]
TpProducers == DOMAIN tpWorld.jobs
TpJobs(p) == IF p = 0 THEN <<TpClose>> ELSE tpWorld.jobs[p]
TpMsg(p) == TpJobs(p)[tpPr[p].i]
TpEnded(p) == tpPr[p].pc \in {"idle", "end"}
Lane(m) == IF tpWorld.qos THEN m.prio ELSE 0
Q(p) == Lane(TpMsg(p))
At(p, pc) == ~ TpEnded(p) /\ tpPr[p].pc = pc
Chan(m) == IF m.rel THEN "rel" ELSE "be"

\* SeqNum::next, set and roll on a resolution of TpMask.
SnNext(sn) == (sn + 1) % (TpMask + 1)
SnGap(from, to) == (to - from) % (TpMask + 1)
Precedes(from, to) == SnGap(from, to) \in 1 .. (TpMask \div 2)

---------------------------------------------------------------------------
(* Batches                                                                  *)

\* WBatch::new and clear
NewBatch == [units |-> <<>>, used |-> 0, eph |-> FALSE]
LastUnit(b) == b.units[Len(b.units)]
Fits(b, m) == b.used + m.size <= TpCap

\* Encode<NetworkMessageRef>: only into an open frame of the same reliability.
InFrame(b, m) == b.units # <<>> /\ LastUnit(b).k = "frame" /\ LastUnit(b).rel = m.rel
EncodeInFrame(b, m) == [b EXCEPT !.units[Len(b.units)].msgs = Append(@, m.id), !.used = @ + m.size]

\* Encode<(NetworkMessageRef, &FrameHeader)>
EncodeFrame(b, m, sn) ==
  [b EXCEPT !.used = @ + m.size, !.units = Append(@,
     [k |-> "frame", lane |-> Lane(m), rel |-> m.rel, sn |-> sn, msgs |-> <<m.id>>])]

\* Encode<(&mut ZBufReader, &mut FragmentHeader)>: as much as the batch holds.
Parts(m) == (m.size + TpCap - 1) \div TpCap
EncodeFragment(m, part, sn, drop) ==
  [units |-> <<[k |-> "frag", lane |-> Lane(m), rel |-> m.rel, sn |-> sn, msgs |-> <<m.id>>,
                part |-> part, first |-> part = 1, more |-> part < Parts(m) /\ ~ drop, drop |-> drop]>>,
   used |-> TpCap, eph |-> drop]

\* StageInRefill::pull: a free batch, allocated at first use; else wait.
HasBatch(q) == tpQ[q].cur # None \/ tpQ[q].free > 0
TakenBatch(q) == IF tpQ[q].cur # None THEN tpQ[q].cur ELSE NewBatch
WithoutBatch(q) ==
  IF tpQ[q].cur # None THEN [tpQ[q] EXCEPT !.cur = None] ELSE [tpQ[q] EXCEPT !.free = @ - 1]

\* StageInOut::move_batch: a full ring drops the batch.
Moved(lane, b) == [lane EXCEPT !.out = IF Len(@) < TpRing THEN Append(@, b) ELSE @, !.grew = TRUE]

---------------------------------------------------------------------------
(* Producers                                                                *)

StartOf(i) == [pc |-> "start", i |-> i, try |-> 1, sn |-> 0, part |-> 1]
\* The push returned: the thread goes on with its next message.
Returned(p) == IF tpPr[p].i = Len(TpJobs(p)) THEN [tpPr[p] EXCEPT !.pc = "end"] ELSE StartOf(tpPr[p].i + 1)
\* TransportUnicastUniversal::close deletes the transport after its push.
AfterPush(p) == tpCancelled' = (tpCancelled \/ p = 0)

\* push_network_message before the lane is locked: a droppable message of a
\* congested lane is dropped.
Schedule(p) ==
  /\ At(p, "start")
  /\ IF TpMsg(p).drop /\ tpQ[Q(p)].congested
     THEN tpPr' = [tpPr EXCEPT ![p] = Returned(p)]
     ELSE tpPr' = [tpPr EXCEPT ![p].pc = "lock"]
  /\ UNCHANGED <<tpWorld, tpStage, tpQ, tpSn, tpTx, tpEvt, tpCancelled, tpOrder, tpAccepted, tpWire>>

\* The lane is locked; congestion is checked again.
LockLane(p) ==
  LET q == Q(p) IN
  /\ At(p, "lock") /\ tpStage[q] = None
  /\ IF TpMsg(p).drop /\ tpQ[q].congested
     THEN tpPr' = [tpPr EXCEPT ![p] = Returned(p)] /\ UNCHANGED <<tpStage, tpOrder>>
     ELSE /\ tpPr' = [tpPr EXCEPT ![p].pc = "current"]
          /\ tpStage' = [tpStage EXCEPT ![q] = p]
          /\ tpOrder' = [tpOrder EXCEPT ![q] = Append(@, TpMsg(p).id)]
  /\ UNCHANGED <<tpWorld, tpQ, tpSn, tpTx, tpEvt, tpCancelled, tpAccepted, tpWire>>

\* StageIn locks the current batch and marks the lane pending.
LockCurrent(p) ==
  LET q == Q(p) IN
  /\ At(p, "current") /\ tpQ[q].lock = None
  /\ tpQ' = [tpQ EXCEPT ![q].lock = p, ![q].pending = TRUE]
  /\ tpPr' = [tpPr EXCEPT ![p].pc = "encode"]
  /\ UNCHANGED <<tpWorld, tpStage, tpSn, tpTx, tpEvt, tpCancelled, tpOrder, tpAccepted, tpWire>>

\* zretok: an express message, or one without batching, leaves at once; any other
\* stays in the current batch and the write loop is told after the unlock.
Retok(p, lane, b) ==
  LET q == Q(p) IN
  IF ~ tpWorld.batching \/ TpMsg(p).express
  THEN /\ tpQ' = [tpQ EXCEPT ![q] = [Moved(lane, b) EXCEPT
                    !.lock = None, !.congested = @ /\ tpPr[p].try = 1]]
       /\ tpEvt' = TRUE
       /\ tpPr' = [tpPr EXCEPT ![p] = Returned(p)]
       /\ tpStage' = [tpStage EXCEPT ![q] = None]
       /\ tpAccepted' = tpAccepted \cup {TpMsg(p).id}
       /\ AfterPush(p)
  ELSE /\ tpQ' = [tpQ EXCEPT ![q] = [lane EXCEPT !.cur = b, !.lock = None]]
       /\ tpPr' = [tpPr EXCEPT ![p].pc = "notify"]
       /\ UNCHANGED <<tpEvt, tpStage, tpAccepted, tpCancelled>>

\* The batch is full: it is moved out and the push goes on with another one.
MoveOn(p, lane, b, sn) ==
  /\ tpQ' = [tpQ EXCEPT ![Q(p)] = Moved(lane, b)]
  /\ tpEvt' = TRUE
  /\ tpPr' = [tpPr EXCEPT ![p].pc = "second", ![p].sn = sn]
  /\ UNCHANGED <<tpStage, tpAccepted, tpCancelled>>

\* Too large for an empty batch: reinsert it and fragment.
GoFragment(p, lane, sn) ==
  /\ tpQ' = [tpQ EXCEPT ![Q(p)] = [lane EXCEPT !.cur = NewBatch]]
  /\ tpPr' = [tpPr EXCEPT ![p].pc = "frag", ![p].sn = sn, ![p].part = 1]
  /\ UNCHANGED <<tpEvt, tpStage, tpAccepted, tpCancelled>>

\* First attempt, in the current batch: in its frame, else in a new frame with the
\* next sequence number; if the batch has no room it is moved out.
Encode(p) ==
  LET q == Q(p)  m == TpMsg(p)  b == TakenBatch(q)  lane == WithoutBatch(q)  sn == tpSn[q][Chan(m)] IN
  /\ At(p, "encode") /\ m.k = "net" /\ HasBatch(q)
  /\ IF InFrame(b, m) /\ Fits(b, m)
     THEN Retok(p, lane, EncodeInFrame(b, m)) /\ UNCHANGED tpSn
     ELSE /\ tpSn' = [tpSn EXCEPT ![q][Chan(m)] = SnNext(@)]
          /\ CASE ~ InFrame(b, m) /\ Fits(b, m) -> Retok(p, lane, EncodeFrame(b, m, sn))
               [] b.units # <<>> /\ (InFrame(b, m) \/ ~ Fits(b, m)) -> MoveOn(p, lane, b, sn)
               [] OTHER -> GoFragment(p, lane, sn)
  /\ UNCHANGED <<tpWorld, tpTx, tpOrder, tpWire>>

\* Second attempt, in an empty batch.
EncodeAgain(p) ==
  LET q == Q(p)  m == TpMsg(p)  lane == WithoutBatch(q) IN
  /\ At(p, "second") /\ m.k = "net" /\ HasBatch(q)
  /\ IF Fits(NewBatch, m) THEN Retok(p, lane, EncodeFrame(NewBatch, m, tpPr[p].sn))
     ELSE GoFragment(p, lane, tpPr[p].sn)
  /\ UNCHANGED <<tpWorld, tpSn, tpTx, tpOrder, tpWire>>

\* One fragment: it takes its batch out of the lane, and the next sequence number
\* is drawn even after the last one.
Fragment(p) ==
  LET q == Q(p)  m == TpMsg(p)  f == tpPr[p].part
      lane == Moved(WithoutBatch(q), EncodeFragment(m, f, tpPr[p].sn, FALSE)) IN
  /\ At(p, "frag") /\ HasBatch(q)
  /\ tpSn' = [tpSn EXCEPT ![q][Chan(m)] = SnNext(@)]
  /\ tpEvt' = TRUE
  /\ IF f < Parts(m)
     THEN /\ tpQ' = [tpQ EXCEPT ![q] = lane]
          /\ tpPr' = [tpPr EXCEPT ![p].part = f + 1, ![p].sn = tpSn[q][Chan(m)]]
          /\ UNCHANGED <<tpStage, tpAccepted>>
     ELSE /\ tpQ' = [tpQ EXCEPT ![q] = [lane EXCEPT !.lock = None, !.congested = @ /\ tpPr[p].try = 1]]
          /\ tpPr' = [tpPr EXCEPT ![p] = Returned(p)]
          /\ tpStage' = [tpStage EXCEPT ![q] = None]
          /\ tpAccepted' = tpAccepted \cup {m.id}
  /\ UNCHANGED <<tpWorld, tpTx, tpCancelled, tpOrder, tpWire>>

\* notify after the unlock: an active backoff is not interrupted.
Notify(p) ==
  LET q == Q(p) IN
  /\ At(p, "notify")
  /\ tpEvt' = (tpEvt \/ ~ tpQ[q].active)
  /\ tpQ' = [tpQ EXCEPT ![q].congested = @ /\ tpPr[p].try = 1, ![q].grew = TRUE]
  /\ tpStage' = [tpStage EXCEPT ![q] = None]
  /\ tpAccepted' = tpAccepted \cup {TpMsg(p).id}
  /\ tpPr' = [tpPr EXCEPT ![p] = Returned(p)]
  /\ AfterPush(p)
  /\ UNCHANGED <<tpWorld, tpSn, tpTx, tpOrder, tpWire>>

\* What a push that found no batch leaves behind: the sequence number is given
\* back, unless a fragment has left; then a stop fragment goes out in an
\* ephemeral batch.
GiveUp(p) ==
  LET q == Q(p)  m == TpMsg(p) IN
  IF tpPr[p].pc = "frag" /\ tpPr[p].part > 1
  THEN [lane |-> Moved(tpQ[q], EncodeFragment(m, tpPr[p].part, tpPr[p].sn, TRUE)),
        sn |-> tpSn[q][Chan(m)], evt |-> TRUE]
  ELSE [lane |-> tpQ[q], sn |-> IF tpPr[p].pc = "encode" THEN tpSn[q][Chan(m)] ELSE tpPr[p].sn,
        evt |-> tpEvt]

\* A producer waits for a batch of its lane.
Waiting(p) == ~ TpEnded(p) /\ tpPr[p].pc \in {"encode", "second", "frag"} /\ ~ HasBatch(Q(p))
ConsumerGone == tpTx.pc \in {"dead", "disabled"}

\* handle_push_result: a message that may not be dropped and was not pushed closes
\* the transport.
HandlePushResult(p) ==
  [tpPr EXCEPT ![p] = Returned(p), ![0].pc = IF ~ TpMsg(p).drop /\ @ = "idle" THEN "lock" ELSE @]

\* The deadline passed without a batch.  The first time the push is tried once more,
\* with the lane marked congested; the second time the message is not pushed.
DeadlineExpires(p) ==
  LET q == Q(p)  m == TpMsg(p)  g == GiveUp(p) IN
  /\ Waiting(p) /\ m.k = "net" /\ ~ ConsumerGone
  /\ tpQ' = [tpQ EXCEPT ![q] = [g.lane EXCEPT !.lock = None]]
  /\ tpSn' = [tpSn EXCEPT ![q][Chan(m)] = g.sn]
  /\ tpEvt' = g.evt
  /\ IF tpPr[p].try = 1
     THEN tpPr' = [tpPr EXCEPT ![p].pc = "congest"] /\ UNCHANGED tpStage
     ELSE tpPr' = HandlePushResult(p) /\ tpStage' = [tpStage EXCEPT ![q] = None]
  /\ UNCHANGED <<tpWorld, tpTx, tpCancelled, tpOrder, tpAccepted, tpWire>>

\* The lane is marked congested under its mutex, whatever was refilled meanwhile.
SetCongested(p) ==
  /\ At(p, "congest")
  /\ tpQ' = [tpQ EXCEPT ![Q(p)].congested = TRUE]
  /\ tpPr' = [tpPr EXCEPT ![p].pc = "current", ![p].try = 2]
  /\ UNCHANGED <<tpWorld, tpStage, tpSn, tpTx, tpEvt, tpCancelled, tpOrder, tpAccepted, tpWire>>

\* The consumer is gone: the wait ends with TransportClosed.
PushClosed(p) ==
  /\ Waiting(p) /\ ConsumerGone
  /\ tpQ' = [tpQ EXCEPT ![Q(p)].lock = None]
  /\ tpStage' = [tpStage EXCEPT ![Q(p)] = None]
  /\ tpPr' = [tpPr EXCEPT ![p] = Returned(p)]
  /\ AfterPush(p)
  /\ UNCHANGED <<tpWorld, tpSn, tpTx, tpEvt, tpOrder, tpAccepted, tpWire>>

\* The user closes the transport.
CloseTransport ==
  /\ tpWorld.close /\ tpPr[0].pc = "idle"
  /\ tpPr' = [tpPr EXCEPT ![0].pc = "lock"]
  /\ UNCHANGED <<tpWorld, tpStage, tpQ, tpSn, tpTx, tpEvt, tpCancelled, tpOrder, tpAccepted, tpWire>>

\* push_transport_message: no deadline.  A Close that finds the batch full moves it
\* out; the batch it is then written to is dropped.
PushTransportMessage ==
  LET q == Q(0)  b == TakenBatch(q)  lane == WithoutBatch(q)
      c == [b EXCEPT !.units = Append(@, [k |-> "close"]), !.used = @ + 1] IN
  /\ ~ TpEnded(0) /\ HasBatch(q)
  /\ \/ At(0, "encode") /\ Fits(b, TpClose) /\ Retok(0, lane, c)
     \/ At(0, "encode") /\ ~ Fits(b, TpClose) /\ MoveOn(0, lane, b, 0)
     \/ /\ At(0, "second")
        /\ tpQ' = [tpQ EXCEPT ![q] = [lane EXCEPT !.lock = None]]
        /\ tpStage' = [tpStage EXCEPT ![q] = None]
        /\ tpPr' = [tpPr EXCEPT ![0] = Returned(0)]
        /\ AfterPush(0)
        /\ UNCHANGED <<tpEvt, tpAccepted>>
  /\ UNCHANGED <<tpWorld, tpSn, tpTx, tpOrder, tpWire>>

---------------------------------------------------------------------------
(* The write loop                                                           *)

Loop(pc, q, b) == [tpTx EXCEPT !.pc = pc, !.q = q, !.batch = b]
PendingLanes == {q \in TpLanes : tpQ[q].pending}

\* stage_pull and try_pull: the first pending lane; a batch of its ring first.
TryPull ==
  /\ tpTx.pc = "pull"
  /\ IF PendingLanes = {}
     THEN tpTx' = [tpTx EXCEPT !.pc = "wait"] /\ UNCHANGED tpQ
     ELSE LET q == CHOOSE x \in PendingLanes : \A y \in PendingLanes : x <= y IN
          IF tpQ[q].out # <<>>
          THEN /\ tpTx' = Loop("write", q, Head(tpQ[q].out))
               /\ tpQ' = [tpQ EXCEPT ![q].out = Tail(@), ![q].active = FALSE]
          ELSE tpTx' = Loop("deep", q, None) /\ UNCHANGED tpQ
  /\ UNCHANGED <<tpWorld, tpPr, tpStage, tpSn, tpEvt, tpCancelled, tpOrder, tpAccepted, tpWire>>

\* A fault: the backoff stays active when the loop finds nothing.
TryPullDeepStaysActive ==
  LET q == tpTx.q IN
  /\ tpTx.pc = "deep" /\ tpQ[q].lock = None
  /\ IF tpQ[q].out # <<>>
     THEN /\ tpTx' = Loop("write", q, Head(tpQ[q].out))
          /\ tpQ' = [tpQ EXCEPT ![q].out = Tail(@)]
     ELSE /\ tpTx' = IF tpQ[q].cur # None THEN Loop("write", q, tpQ[q].cur) ELSE Loop("pull", q, None)
          /\ tpQ' = [tpQ EXCEPT ![q].pending = FALSE, ![q].cur = None]
  /\ UNCHANGED <<tpWorld, tpPr, tpStage, tpSn, tpEvt, tpCancelled, tpOrder, tpAccepted, tpWire>>

\* try_pull_deep with the current batch locked: the ring again, then the current
\* batch, and the lane is pending no more.
TryPullDeep ==
  LET q == tpTx.q IN
  /\ tpTx.pc = "deep" /\ tpQ[q].lock = None
  /\ IF tpQ[q].out # <<>>
     THEN /\ tpTx' = Loop("write", q, Head(tpQ[q].out))
          /\ tpQ' = [tpQ EXCEPT ![q].active = FALSE, ![q].out = Tail(@)]
     ELSE /\ tpTx' = IF tpQ[q].cur # None THEN Loop("write", q, tpQ[q].cur) ELSE Loop("pull", q, None)
          /\ tpQ' = [tpQ EXCEPT ![q].active = FALSE, ![q].pending = FALSE, ![q].cur = None]
  /\ UNCHANGED <<tpWorld, tpPr, tpStage, tpSn, tpEvt, tpCancelled, tpOrder, tpAccepted, tpWire>>

\* The current batch is locked, or it grew since the last backoff: back off.
Backoff ==
  LET q == tpTx.q IN
  /\ tpTx.pc = "deep" /\ (tpQ[q].lock # None \/ (tpQ[q].active /\ tpQ[q].grew))
  /\ tpTx' = [tpTx EXCEPT !.pc = "backoff"]
  /\ tpQ' = [tpQ EXCEPT ![q].active = TRUE, ![q].grew = FALSE]
  /\ UNCHANGED <<tpWorld, tpPr, tpStage, tpSn, tpEvt, tpCancelled, tpOrder, tpAccepted, tpWire>>

\* pull waits for a notification; a backoff also ends by itself.
Wake ==
  /\ tpTx.pc = "backoff" \/ (tpTx.pc = "wait" /\ tpEvt)
  /\ tpTx' = [tpTx EXCEPT !.pc = "pull"]
  /\ tpEvt' = FALSE
  /\ UNCHANGED <<tpWorld, tpPr, tpStage, tpQ, tpSn, tpCancelled, tpOrder, tpAccepted, tpWire>>

\* refill: the flag of the lane's own priority is cleared.  Without QoS the one lane
\* has index 0 and producers read the flag of the default priority: theirs stays.
Refill(lane, b) ==
  IF b.eph THEN lane ELSE [lane EXCEPT !.free = @ + 1, !.congested = @ /\ ~ tpWorld.qos]

\* send_batch, then refill.
Send ==
  /\ tpTx.pc = "write"
  /\ tpWire' = Append(tpWire, tpTx.batch)
  /\ tpTx' = [tpTx EXCEPT !.pc = "pull", !.batch = None]
  /\ tpQ' = [tpQ EXCEPT ![tpTx.q] = Refill(@, tpTx.batch)]
  /\ UNCHANGED <<tpWorld, tpPr, tpStage, tpSn, tpEvt, tpCancelled, tpOrder, tpAccepted>>

\* Nothing was sent for the keep-alive period: the pull is dropped where it waits, a
\* KeepAlive goes out and the pull starts anew.  (Bound: one on the wire at a time.)
TpKeepAlive ==
  /\ tpWorld.alive /\ tpTx.pc \in {"wait", "backoff"} /\ tpWire = <<>>
  /\ tpWire' = <<[NewBatch EXCEPT !.units = <<[k |-> "alive"]>>]>>
  /\ tpTx' = [tpTx EXCEPT !.pc = "pull"]
  /\ UNCHANGED <<tpWorld, tpPr, tpStage, tpQ, tpSn, tpEvt, tpCancelled, tpOrder, tpAccepted>>

\* The link fails under the write loop, which ends without draining.
SendFails ==
  /\ tpWorld.breaks /\ tpTx.pc \in {"write", "flush"} \cup IF tpWorld.alive THEN {"wait", "backoff"} ELSE {}
  /\ tpTx' = Loop("dead", 0, None)
  /\ UNCHANGED <<tpWorld, tpPr, tpStage, tpQ, tpSn, tpEvt, tpCancelled, tpOrder, tpAccepted, tpWire>>

\* The lease expired, or the link is removed: terminate_all cancels its tasks.
LinkRemoved ==
  /\ tpWorld.lease /\ ~ tpCancelled
  /\ tpCancelled' = TRUE
  /\ UNCHANGED <<tpWorld, tpPr, tpStage, tpQ, tpSn, tpTx, tpEvt, tpOrder, tpAccepted, tpWire>>

\* run_until_cancelled gives up the loop where it awaits.
Cancel ==
  /\ tpCancelled /\ tpTx.pc \in {"wait", "backoff", "write"}
  /\ tpTx' = Loop("drain", 0, None)
  /\ UNCHANGED <<tpWorld, tpPr, tpStage, tpQ, tpSn, tpEvt, tpCancelled, tpOrder, tpAccepted, tpWire>>

\* drain blocks on the current batch of every lane in turn.
DrainLock ==
  LET q == tpTx.q IN
  /\ tpTx.pc = "drain" /\ q \in TpLanes /\ tpQ[q].lock = None
  /\ tpQ' = [tpQ EXCEPT ![q].lock = -1]
  /\ tpTx' = [tpTx EXCEPT !.q = q + 1]
  /\ UNCHANGED <<tpWorld, tpPr, tpStage, tpSn, tpEvt, tpCancelled, tpOrder, tpAccepted, tpWire>>

\* ...then takes what the rings and the current batches hold, lane by lane.
Drained(lane) == lane.out \o IF lane.cur # None THEN <<lane.cur>> ELSE <<>>
Drain ==
  /\ tpTx.pc = "drain" /\ tpTx.q \notin TpLanes
  /\ tpTx' = [tpTx EXCEPT !.pc = "flush", !.flush = Drained(tpQ[0]) \o
                IF 1 \in TpLanes THEN Drained(tpQ[1]) ELSE <<>>]
  /\ tpQ' = [q \in TpLanes |-> [tpQ[q] EXCEPT !.out = <<>>, !.cur = None, !.lock = None]]
  /\ UNCHANGED <<tpWorld, tpPr, tpStage, tpSn, tpEvt, tpCancelled, tpOrder, tpAccepted, tpWire>>

\* The remaining batches are written, and the consumer is dropped.
Flush ==
  /\ tpTx.pc = "flush"
  /\ tpWire' = tpWire \o tpTx.flush
  /\ tpTx' = [tpTx EXCEPT !.pc = "dead", !.q = 0, !.flush = <<>>]
  /\ UNCHANGED <<tpWorld, tpPr, tpStage, tpQ, tpSn, tpEvt, tpCancelled, tpOrder, tpAccepted>>

\* The close of the link, once its tasks have ended, disables the pipeline: it locks
\* every lane in turn...
DisableLock ==
  LET q == tpTx.q IN
  /\ tpTx.pc = "dead" /\ q \in TpLanes /\ tpStage[q] = None
  /\ tpStage' = [tpStage EXCEPT ![q] = -1]
  /\ tpTx' = [tpTx EXCEPT !.q = q + 1]
  /\ UNCHANGED <<tpWorld, tpPr, tpQ, tpSn, tpEvt, tpCancelled, tpOrder, tpAccepted, tpWire>>

\* ...and notifies.
Disable ==
  /\ tpTx.pc = "dead" /\ tpTx.q \notin TpLanes
  /\ tpStage' = [q \in TpLanes |-> None]
  /\ tpEvt' = (tpEvt \/ \E q \in TpLanes : ~ tpQ[q].active)
  /\ tpTx' = [tpTx EXCEPT !.pc = "disabled"]
  /\ UNCHANGED <<tpWorld, tpPr, tpQ, tpSn, tpCancelled, tpOrder, tpAccepted, tpWire>>

---------------------------------------------------------------------------
\* TransmissionPipeline::make, TransportPriorityTx::make and sync
TpInit ==
  /\ tpWorld \in TpWorlds
  /\ tpPr = [p \in TpProducers \cup {0} |-> [StartOf(1) EXCEPT !.pc = IF p = 0 THEN "idle" ELSE "start"]]
  /\ tpStage = [q \in TpLanes |-> None]
  /\ tpQ = [q \in TpLanes |-> [cur |-> None, lock |-> None, out |-> <<>>, free |-> tpWorld.batches,
                               pending |-> FALSE, congested |-> FALSE, active |-> FALSE, grew |-> FALSE]]
  /\ tpSn = [q \in TpLanes |-> [rel |-> tpWorld.sn, be |-> tpWorld.sn]]
  /\ tpTx = [pc |-> "pull", q |-> 0, batch |-> None, flush |-> <<>>]
  /\ tpEvt = FALSE /\ tpCancelled = FALSE
  /\ tpOrder = [q \in TpLanes |-> <<>>] /\ tpAccepted = {} /\ tpWire = <<>>

Produce(p) ==
  \/ Schedule(p) \/ LockLane(p) \/ LockCurrent(p) \/ Encode(p) \/ EncodeAgain(p)
  \/ Fragment(p) \/ Notify(p) \/ DeadlineExpires(p) \/ SetCongested(p) \/ PushClosed(p)
ProduceClose ==
  LockLane(0) \/ LockCurrent(0) \/ PushTransportMessage \/ Notify(0) \/ PushClosed(0)
Consume ==
  \/ TryPull \/ TryPullDeep \/ Backoff \/ Wake \/ Send \/ SendFails \/ TpKeepAlive
  \/ Cancel \/ DrainLock \/ Drain \/ Flush \/ DisableLock \/ Disable

TpNext ==
  \/ \E p \in TpProducers : Produce(p)
  \/ ProduceClose \/ CloseTransport \/ LinkRemoved \/ Consume
=============================================================================
