----------------------------- MODULE Reception -----------------------------
(***************************************************************************)
(* What the peer makes of the batches of a TransmissionPipeline             *)
(* (unicast/universal/rx.rs, common/seq_num.rs, defragmentation.rs,         *)
(* priority.rs, link.rs).  A datagram link may lose, repeat and reorder     *)
(* batches.                                                                 *)
(***************************************************************************)
EXTENDS TransmissionPipeline
LOCAL INSTANCE SequencesExt

VARIABLES rxCh,       \* lane -> channel -> [sn, dsn, buf, got]
          rxClosed,   \* a Close arrived: the task that removes the link is spawned
          rxFaults    \* batches lost, repeated or overtaken so far

rxVars == <<rxCh, rxClosed, rxFaults>>

\* TransportChannelRx::sync: as if sn - 1 had been received.
RxSync(sn) == IF sn = 0 THEN TpMask - 1 ELSE sn - 1

\* DefragBuffer::push: an unexpected sequence number or a full buffer clears it.
\* A stop fragment has no content.
PushOk(c, u) == u.sn = c.dsn /\ Len(c.buf) < tpWorld.defrag
DefragPush(c, u) ==
  IF ~ PushOk(c, u) THEN [c EXCEPT !.buf = <<>>]
  ELSE [c EXCEPT !.dsn = SnNext(@),
                 !.buf = IF u.drop THEN @ ELSE Append(@, <<u.msgs[1], u.part>>)]

\* DefragBuffer::defragment: the parts of one message give it back; anything else
\* decodes to something nobody sent.
AllParts(m) == [i \in 1 .. Parts(m) |-> <<m.id, i>>]
TpMessages == UNION {{tpWorld.jobs[p][i] : i \in DOMAIN tpWorld.jobs[p]} : p \in TpProducers}
Defragment(c) ==
  [c EXCEPT !.buf = <<>>,
            !.got = Append(@, IF \E m \in TpMessages : c.buf = AllParts(m) THEN c.buf[1][1] ELSE Err)]

\* A fault: a duplicate or late sequence number is taken.
VerifySnAnyOther(c, sn) == c.sn # sn

\* verify_sn: the sequence number must follow the last one taken.
VerifySn(c, sn) == Precedes(c.sn, sn)

\* handle_frame
HandleFrame(c, u) == IF ~ VerifySn(c, u.sn) THEN c ELSE [c EXCEPT !.sn = u.sn, !.got = @ \o u.msgs]

\* handle_fragment: with markers the first fragment starts the buffer anew, a
\* fragment without a start is dropped and a stop fragment clears the buffer.
HandleFragment(c, u) ==
  LET d == [c EXCEPT !.sn = u.sn, !.buf = IF tpWorld.markers /\ u.first THEN <<>> ELSE @]
      e == IF d.buf = <<>> THEN [d EXCEPT !.dsn = u.sn] ELSE d
      f == DefragPush(e, u) IN
  IF ~ VerifySn(c, u.sn) THEN c
  ELSE IF tpWorld.markers /\ ~ u.first /\ d.buf = <<>> THEN d
  ELSE IF tpWorld.markers /\ u.drop THEN [d EXCEPT !.buf = <<>>]
  ELSE IF PushOk(e, u) /\ ~ u.more THEN Defragment(f)
  ELSE f

\* read_messages: every transport message of the batch, each on its lane's channel.
ReadMessage(ch, u) ==
  IF u.k \in {"close", "alive"} THEN ch
  ELSE LET r == Chan(u) IN
       [ch EXCEPT ![u.lane][r] = IF u.k = "frame" THEN HandleFrame(@, u) ELSE HandleFragment(@, u)]
ReadMessages(ch, b) == FoldLeft(ReadMessage, ch, b.units)

\* One turn of the read loop.  On a datagram link the batch read may have overtaken
\* others, and it may arrive again.
Faulty == tpWorld.lossy /\ rxFaults < tpWorld.faults
Read(i, again) ==
  /\ i <= Len(tpWire)
  /\ (i = 1 /\ ~ again) \/ Faulty
  /\ rxCh' = ReadMessages(rxCh, tpWire[i])
  /\ rxClosed' = (rxClosed \/ \E j \in DOMAIN tpWire[i].units : tpWire[i].units[j].k = "close")
  /\ rxFaults' = rxFaults + (i - 1) + (IF again THEN 1 ELSE 0)
  /\ tpWire' = IF again THEN tpWire ELSE RemoveAt(tpWire, i)
  /\ UNCHANGED <<tpWorld, tpPr, tpStage, tpQ, tpSn, tpTx, tpEvt, tpCancelled, tpOrder, tpAccepted>>

\* A datagram is lost.
Lose ==
  /\ Faulty /\ tpWire # <<>>
  /\ tpWire' = Tail(tpWire)
  /\ rxFaults' = rxFaults + 1
  /\ UNCHANGED <<rxCh, rxClosed, tpWorld, tpPr, tpStage, tpQ, tpSn, tpTx, tpEvt, tpCancelled, tpOrder, tpAccepted>>

RxInit ==
  LET c == [sn |-> RxSync(tpWorld.sn), dsn |-> RxSync(tpWorld.sn), buf |-> <<>>, got |-> <<>>] IN
  /\ rxCh = [q \in TpLanes |-> [rel |-> c, be |-> c]]
  /\ rxClosed = FALSE /\ rxFaults = 0

ChInit == TpInit /\ RxInit
ChNext ==
  \/ TpNext /\ UNCHANGED rxVars
  \/ \E i \in 1 .. 2, again \in BOOLEAN : Read(i, again)
  \/ Lose

---------------------------------------------------------------------------
(* Properties                                                               *)

\* Whatever the link loses, repeats or reorders, and however pushes time out, are
\* retried and are cut short between two fragments, the application of the peer is
\* given, on every lane and channel, whole messages, each once, in the order in
\* which they took the lane of the pipeline (stage_in's mutex).  Wholeness needs the
\* fragmentation markers both sides agreed on.
DeliveredInOrder ==
  \A q \in TpLanes, r \in {"rel", "be"} :
    LET got == rxCh[q][r].got
        Pos(m) == CHOOSE k \in DOMAIN tpOrder[q] : tpOrder[q][k] = m IN
    /\ tpWorld.markers => \A i \in DOMAIN got : got[i] # Err
    /\ \A i, j \in DOMAIN got : i < j /\ Err \notin {got[i], got[j]} => Pos(got[i]) < Pos(got[j])

Healthy == ~ tpCancelled /\ ~ ConsumerGone /\ rxFaults = 0
Received == UNION {{rxCh[q][r].got[i] : i \in DOMAIN rxCh[q][r].got} : q \in TpLanes, r \in {"rel", "be"}}

\* Every push returns, the close of a link that is removed or breaks ends though it
\* locks every lane, and on a link that neither breaks nor is removed every
\* message whose push returned true reaches the peer's application: the flag of a
\* pending lane, the backoff and the notification after the unlock never leave a
\* batch behind with the write loop asleep.
PipelineSettles ==
  <>[](/\ \A p \in TpProducers \cup {0} : TpEnded(p)
       /\ tpTx.pc # "dead" /\ (tpCancelled => tpTx.pc = "disabled")
       /\ Healthy => tpAccepted \subseteq Received)

=============================================================================
