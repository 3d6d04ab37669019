------------------------ MODULE MulticastTransport ------------------------
(***************************************************************************)
(* A multicast group (multicast/manager.rs, establishment.rs, transport.rs, *)
(* link.rs, rx.rs): transports opened on one locator, the peers that join   *)
(* it, the lease task of each peer, and the removal of a transport.         *)
(*                                                                          *)
(* The peers are the environment: McNode holds what a node announces and    *)
(* its next sequence number.  A datagram is handled when it is sent; a lost *)
(* one is a sending step that no transport reads.                           *)
(***************************************************************************)
EXTENDS Options

CONSTANTS McWorlds,      \* [node: what the Join of each node announces, opens, ends, frames]
          McOwn,         \* this node's own [version, reso, batch, qos]
          McMaxSessions, McMaxInsts

VARIABLES mcWorld,   \* node -> [zid, version, reso, batch, qos], the attempts to open,
                     \* what may end a transport, and the frames of a node
          mcSn,      \* node -> next sequence number on the wire
          mcReg,     \* the registered transport
          mcTr,      \* transport -> [pc, tx, rx, job, link, cb, closed, peers]; job is the
                     \* peer the read loop is storing or closing
          mcDel,     \* delete <<t, k>> -> [pc, cb]
          mcInst     \* peers taken in: sequence of [t, node, zid, qos, sn, got, active,
                     \* task, victim, closed, late, orphan]; victim is the peer its lease task
                     \* closes, an orphan was stored after its lease task had ended

mcVars == <<mcWorld, mcSn, mcReg, mcTr, mcDel, mcInst>>

McNodes == DOMAIN mcWorld.node
McTransports == 1 .. mcWorld.opens
Deletes == McTransports \X {"tx", "rx", "user"}
Receiving(t) == mcTr[t].rx = "run"

---------------------------------------------------------------------------
(* open_link                                                                *)

\* The write loop is started with a pipeline of its own, and stopped by disabling
\* that; the read loop is started on the link.
StartTx(tr) == [tr EXCEPT !.tx = "run"]
StopTx(tr) == [tr EXCEPT !.tx = IF @ = "run" THEN "stopping" ELSE @]
StartRx(tr) == [tr EXCEPT !.rx = "run"]

\* TransportMulticastInner::make puts the link in its place, and start_tx.
McMake(t) ==
  /\ mcTr[t].pc = "none"
  /\ mcTr' = [mcTr EXCEPT ![t] = [StartTx(@) EXCEPT !.pc = "store", !.link = TRUE]]
  /\ UNCHANGED <<mcWorld, mcSn, mcReg, mcDel, mcInst>>

\* The registry has one transport per locator; the write loop of a refused one
\* stays as it is.
McStore(t) ==
  /\ mcTr[t].pc = "store"
  /\ IF mcReg # None
     THEN mcTr' = [mcTr EXCEPT ![t].pc = "failed"] /\ UNCHANGED mcReg
     ELSE mcTr' = [mcTr EXCEPT ![t].pc = "handler"] /\ mcReg' = t
  /\ UNCHANGED <<mcWorld, mcSn, mcDel, mcInst>>

\* The event handler refuses the transport, whose locator is freed and write loop
\* stopped, or gives the callback.
McHandler(t) ==
  /\ mcTr[t].pc = "handler"
  /\ \/ /\ mcReg' = None
        /\ mcTr' = [mcTr EXCEPT ![t] = [StopTx(@) EXCEPT !.pc = "failed"]]
     \/ mcTr' = [mcTr EXCEPT ![t].pc = "startRx", ![t].cb = "set"] /\ UNCHANGED mcReg
  /\ UNCHANGED <<mcWorld, mcSn, mcDel, mcInst>>

\* start_rx fails if the link was taken in the meantime.
McStartRx(t) ==
  /\ mcTr[t].pc = "startRx"
  /\ IF mcTr[t].link
     THEN mcTr' = [mcTr EXCEPT ![t] = [StartRx(@) EXCEPT !.pc = "open"]] /\ UNCHANGED mcReg
     ELSE mcTr' = [mcTr EXCEPT ![t].pc = "failed"] /\ mcReg' = None
  /\ UNCHANGED <<mcWorld, mcSn, mcDel, mcInst>>

---------------------------------------------------------------------------
(* The read loop                                                            *)

\* verify_sn with precedes and set; the window is wider than the frames sent.
McPrecedes(last, sn) == last < sn

\* An error of the read loop ends it, and a task that deletes the transport is
\* spawned.
RxFails(t) ==
  /\ mcTr' = [mcTr EXCEPT ![t].rx = "end"]
  /\ mcDel' = [mcDel EXCEPT ![<<t, "rx">>].pc = "take"]

\* The link cannot be read, a batch cannot be decoded, or a handler refuses a
\* message.
McReadFails(t) ==
  /\ "rx" \in mcWorld.ends /\ Receiving(t)
  /\ RxFails(t)
  /\ UNCHANGED <<mcWorld, mcSn, mcReg, mcInst>>

\* handle_join_from_unknown: full, or not compatible with this node, is ignored.
JoinRefused(t, n) ==
  \/ Cardinality({m \in McNodes : mcTr[t].peers[m] # None}) >= McMaxSessions
  \/ mcWorld.node[n].version # McOwn.version
  \/ mcWorld.node[n].reso # McOwn.reso
  \/ mcWorld.node[n].batch # McOwn.batch
  \/ mcWorld.node[n].qos /\ ~ McOwn.qos

\* new_peer up to the spawn of the lease task: without a link it panics, without a
\* callback nothing happens, and an error of the callback or of the announced
\* sequence numbers ends the read loop.  The peer is not in the table yet.
NewPeer(t, n) ==
  IF ~ mcTr[t].link THEN mcTr' = [mcTr EXCEPT ![t].rx = "panicked"] /\ UNCHANGED <<mcInst, mcDel>>
  ELSE IF mcTr[t].cb # "set" THEN UNCHANGED <<mcTr, mcInst, mcDel>>
  ELSE \/ "rx" \in mcWorld.ends /\ RxFails(t) /\ UNCHANGED mcInst
       \/ /\ Len(mcInst) < McMaxInsts
          /\ mcInst' = Append(mcInst,
               [t |-> t, node |-> n, zid |-> mcWorld.node[n].zid, qos |-> mcWorld.node[n].qos,
                sn |-> mcSn[n] - 1, got |-> <<>>, active |-> FALSE, task |-> "run", victim |-> None,
                closed |-> 0, late |-> FALSE, orphan |-> FALSE])
          /\ mcTr' = [mcTr EXCEPT ![t].rx = "store", ![t].job = Len(mcInst) + 1]
          /\ UNCHANGED mcDel

\* new_peer stores the peer under its locator, whether or not its lease task is
\* still there.
StorePeer(t) ==
  LET i == mcTr[t].job IN
  /\ mcTr[t].rx = "store"
  /\ mcTr' = [mcTr EXCEPT ![t].rx = "run", ![t].job = None, ![t].peers[mcInst[i].node] = i]
  /\ mcInst' = [mcInst EXCEPT ![i].orphan = mcInst[i].task = "end"]
  /\ UNCHANGED <<mcWorld, mcSn, mcReg, mcDel>>

\* handle_join_from_peer: the same parameters as at first, else an error.
SameParameters(t, n) ==
  LET p == mcInst[mcTr[t].peers[n]] IN p.zid = mcWorld.node[n].zid /\ p.qos = mcWorld.node[n].qos

\* A Join of node n reaches transport t.
McJoin(t, n) ==
  /\ Receiving(t)
  /\ IF mcTr[t].peers[n] = None
     THEN IF JoinRefused(t, n) THEN UNCHANGED <<mcTr, mcInst, mcDel>> ELSE NewPeer(t, n)
     ELSE /\ mcInst' = [mcInst EXCEPT ![mcTr[t].peers[n]].active = TRUE]
          /\ IF SameParameters(t, n) THEN UNCHANGED <<mcTr, mcDel>> ELSE RxFails(t)
  /\ UNCHANGED <<mcWorld, mcSn, mcReg>>

\* A frame of node n, read by every transport whose loop runs: a peer that is not
\* known is not read; the lanes of a peer are as many as it announced, and reading
\* another one panics.  A datagram may also come late, or twice.
FrameRead(t, n) ==
  /\ mcTr[t].peers[n] # None
  /\ mcInst[mcTr[t].peers[n]].qos = McOwn.qos
McFrame(n, sn) ==
  LET readers == {t \in McTransports : Receiving(t) /\ mcTr[t].peers[n] # None} IN
  /\ sn = mcSn[n] => mcSn[n] <= mcWorld.frames
  /\ mcSn' = [mcSn EXCEPT ![n] = IF sn = @ THEN @ + 1 ELSE @]
  /\ \E lost \in SUBSET readers :
       /\ mcInst' = [i \in DOMAIN mcInst |->
            LET t == mcInst[i].t IN
            IF t \in readers \ lost /\ mcTr[t].peers[n] = i /\ FrameRead(t, n)
            THEN [mcInst[i] EXCEPT !.active = TRUE,
                    !.sn = IF McPrecedes(@, sn) THEN sn ELSE @, !.late = @ \/ mcInst[i].closed > 0,
                    !.got = IF McPrecedes(mcInst[i].sn, sn) THEN Append(@, sn) ELSE @]
            ELSE mcInst[i]]
       /\ mcTr' = [t \in McTransports |->
            IF t \in readers \ lost /\ ~ FrameRead(t, n) THEN [mcTr[t] EXCEPT !.rx = "panicked"] ELSE mcTr[t]]
  /\ UNCHANGED <<mcWorld, mcReg, mcDel>>

\* del_peer, with the table locked: whoever has the locator is removed and its
\* token cancelled.  The handler is closed after the lock is dropped.
DelPeer(t, n) == [mcTr EXCEPT ![t].peers[n] = None]
Cancelled(p) == [p EXCEPT !.task = IF @ = "run" THEN "cancelled" ELSE @]

\* A fault: the peer stays in the table.
McCloseKeeps(t, n) ==
  /\ Receiving(t) /\ mcTr[t].peers[n] # None
  /\ mcTr' = [mcTr EXCEPT ![t].rx = "close", ![t].job = mcTr[t].peers[n]]
  /\ mcInst' = [mcInst EXCEPT ![mcTr[t].peers[n]] = Cancelled(@)]
  /\ UNCHANGED <<mcWorld, mcSn, mcReg, mcDel>>

\* A Close of node n reaches t.
McClose(t, n) ==
  /\ Receiving(t) /\ mcTr[t].peers[n] # None
  /\ mcTr' = [DelPeer(t, n) EXCEPT ![t].rx = "close", ![t].job = mcTr[t].peers[n]]
  /\ mcInst' = [mcInst EXCEPT ![mcTr[t].peers[n]] = Cancelled(@)]
  /\ UNCHANGED <<mcWorld, mcSn, mcReg, mcDel>>
McCloses(t) ==
  /\ mcTr[t].rx = "close"
  /\ mcInst' = [mcInst EXCEPT ![mcTr[t].job].closed = @ + 1]
  /\ mcTr' = [mcTr EXCEPT ![t].rx = "run", ![t].job = None]
  /\ UNCHANGED <<mcWorld, mcSn, mcReg, mcDel>>

\* Node n restarts on the same address with another identifier.
McRestart(n) ==
  /\ "rx" \in mcWorld.ends /\ mcWorld.node[n].zid = n
  /\ mcWorld' = [mcWorld EXCEPT !.node[n].zid = n + 10]
  /\ UNCHANGED <<mcSn, mcReg, mcTr, mcDel, mcInst>>

\* The lease task: a period without a message of the peer ends it.
LeaseTick(i) ==
  /\ mcInst[i].task = "run"
  /\ mcInst' = [mcInst EXCEPT ![i].active = FALSE, ![i].task = IF mcInst[i].active THEN @ ELSE "expired"]
  /\ UNCHANGED <<mcWorld, mcSn, mcReg, mcTr, mcDel>>

\* Expired or cancelled, it removes the peer of its locator, whichever that is now,
\* and closes its handler.
LeaseRemoves(i) ==
  LET t == mcInst[i].t  n == mcInst[i].node  j == mcTr[t].peers[n] IN
  /\ mcInst[i].task \in {"expired", "cancelled"}
  /\ IF j = None
     THEN mcInst' = [mcInst EXCEPT ![i].task = "end"] /\ UNCHANGED mcTr
     ELSE /\ mcTr' = DelPeer(t, n)
          /\ mcInst' = [[mcInst EXCEPT ![j] = Cancelled(@)] EXCEPT ![i].task = "closing", ![i].victim = j]
  /\ UNCHANGED <<mcWorld, mcSn, mcReg, mcDel>>
LeaseCloses(i) ==
  /\ mcInst[i].task = "closing"
  /\ mcInst' = [[mcInst EXCEPT ![mcInst[i].victim].closed = @ + 1] EXCEPT ![i].task = "end", ![i].victim = None]
  /\ UNCHANGED <<mcWorld, mcSn, mcReg, mcTr, mcDel>>

---------------------------------------------------------------------------
(* delete and the end of the loops                                          *)

\* tx_task: a write fails, while the loop runs or while the disabled pipeline is
\* drained, and a task that deletes the transport is spawned...
TxFails(t) ==
  /\ "tx" \in mcWorld.ends /\ mcTr[t].tx \in {"run", "stopping"}
  /\ mcTr' = [mcTr EXCEPT ![t].tx = "end"]
  /\ mcDel' = [mcDel EXCEPT ![<<t, "tx">>].pc = "take"]
  /\ UNCHANGED <<mcWorld, mcSn, mcReg, mcInst>>
\* ...or the pipeline is drained.
TxStops(t) ==
  /\ mcTr[t].tx = "stopping"
  /\ mcTr' = [mcTr EXCEPT ![t].tx = "end"]
  /\ UNCHANGED <<mcWorld, mcSn, mcReg, mcDel, mcInst>>
RxStops(t) ==
  /\ mcTr[t].rx = "run" /\ \E k \in {"tx", "rx", "user"} : mcDel[<<t, k>>].pc = "waitrx"
  /\ mcTr' = [mcTr EXCEPT ![t].rx = "end"]
  /\ UNCHANGED <<mcWorld, mcSn, mcReg, mcDel, mcInst>>

\* close: the Close message is pushed (TransmissionPipeline), then delete.
McUserClose(t) ==
  /\ "user" \in mcWorld.ends /\ mcTr[t].pc \in {"startRx", "open"} /\ mcDel[<<t, "user">>].pc = "idle"
  /\ mcDel' = [mcDel EXCEPT ![<<t, "user">>].pc = "take"]
  /\ UNCHANGED <<mcWorld, mcSn, mcReg, mcTr, mcInst>>

Step(d, from, to) == mcDel[d].pc = from /\ mcDel' = [mcDel EXCEPT ![d].pc = to]

\* delete takes the callback...
DeleteTakes(d) ==
  /\ mcDel[d].pc = "take"
  /\ mcDel' = [mcDel EXCEPT ![d].pc = "unregister", ![d].cb = mcTr[d[1]].cb = "set"]
  /\ mcTr' = [mcTr EXCEPT ![d[1]].cb = "none"]
  /\ UNCHANGED <<mcWorld, mcSn, mcReg, mcInst>>
\* ...removes the locator from the registry...
DeleteUnregisters(d) ==
  /\ Step(d, "unregister", "link")
  /\ mcReg' = None
  /\ UNCHANGED <<mcWorld, mcSn, mcTr, mcInst>>
\* ...takes the link and stops its read loop...
DeleteLink(d) ==
  /\ Step(d, "link", IF mcTr[d[1]].link THEN "waitrx" ELSE "notify")
  /\ mcTr' = [mcTr EXCEPT ![d[1]].link = FALSE]
  /\ UNCHANGED <<mcWorld, mcSn, mcReg, mcInst>>
\* ...waits for it: if it panicked, close returns early; else the write loop is
\* stopped and waited for...
DeleteWaits(d) ==
  LET t == d[1] IN
  /\ \/ /\ mcTr[t].rx = "panicked" /\ Step(d, "waitrx", "notify") /\ UNCHANGED mcTr
     \/ /\ mcTr[t].rx \in {"none", "end"} /\ Step(d, "waitrx", "waittx")
        /\ mcTr' = [mcTr EXCEPT ![t] = StopTx(@)]
     \/ /\ mcTr[t].tx = "end" /\ Step(d, "waittx", "notify") /\ UNCHANGED mcTr
  /\ UNCHANGED <<mcWorld, mcSn, mcReg, mcInst>>
\* ...notifies the callback and cancels the lease tasks...
DeleteNotifies(d) ==
  LET t == d[1] IN
  /\ Step(d, "notify", "tasks")
  /\ mcTr' = [mcTr EXCEPT ![t].closed = IF mcDel[d].cb THEN @ + 1 ELSE @]
  /\ mcInst' = [i \in DOMAIN mcInst |-> IF mcInst[i].t = t THEN Cancelled(mcInst[i]) ELSE mcInst[i]]
  /\ UNCHANGED <<mcWorld, mcSn, mcReg>>
\* ...and waits for them.
DeleteEnds(d) ==
  /\ \A i \in DOMAIN mcInst : mcInst[i].t = d[1] => mcInst[i].task = "end"
  /\ Step(d, "tasks", "end")
  /\ UNCHANGED <<mcWorld, mcSn, mcReg, mcTr, mcInst>>

---------------------------------------------------------------------------
McInit ==
  /\ mcWorld \in McWorlds
  /\ mcSn = [n \in McNodes |-> 1]
  /\ mcReg = None
  /\ mcTr = [t \in McTransports |-> [pc |-> "none", tx |-> "none", rx |-> "none", job |-> None,
                                     link |-> FALSE, cb |-> "none", closed |-> 0, peers |-> [n \in McNodes |-> None]]]
  /\ mcDel = [d \in Deletes |-> [pc |-> "idle", cb |-> FALSE]]
  /\ mcInst = <<>>

McNext ==
  \/ \E t \in McTransports :
       \/ McMake(t) \/ McStore(t) \/ McHandler(t) \/ McStartRx(t) \/ McReadFails(t) \/ StorePeer(t)
       \/ McCloses(t) \/ TxFails(t) \/ TxStops(t) \/ RxStops(t) \/ McUserClose(t)
  \/ \E t \in McTransports, n \in McNodes : McJoin(t, n) \/ McClose(t, n)
  \/ \E n \in McNodes : (\E sn \in 1 .. mcSn[n] : McFrame(n, sn)) \/ McRestart(n)
  \/ \E i \in DOMAIN mcInst : LeaseTick(i) \/ LeaseRemoves(i) \/ LeaseCloses(i)
  \/ \E d \in Deletes : DeleteTakes(d) \/ DeleteUnregisters(d) \/ DeleteLink(d) \/ DeleteWaits(d)
                        \/ DeleteNotifies(d) \/ DeleteEnds(d)

---------------------------------------------------------------------------
(* Properties                                                               *)

\* The Close of a peer, its own lease task, that of an earlier peer of its locator
\* and the removal of the transport all close the handler of a peer (del_peer).  It
\* is closed at most once and given no message afterwards, and the messages it is
\* given are in order.  A handler not closed yet is in the table or in the hands of
\* the task that stores or closes it.  A transport's callback is closed at most
\* once.  When every delete of a transport has ended, its handlers are closed, but
\* for a peer whose lease task ended between its spawn and the insertion into the
\* table.
PeersClosedOnce ==
  /\ \A t \in McTransports : mcTr[t].closed <= 1
  /\ \A i \in DOMAIN mcInst :
       LET p == mcInst[i] IN
       /\ p.closed <= 1 /\ ~ p.late
       /\ \A k \in 2 .. Len(p.got) : p.got[k - 1] < p.got[k]
       /\ p.closed = 0 => \/ mcTr[p.t].peers[p.node] = i
                          \/ mcTr[p.t].job = i
                          \/ \E j \in DOMAIN mcInst : mcInst[j].victim = i
       /\ {mcDel[d].pc : d \in {e \in Deletes : e[1] = p.t}} \in {{"end"}, {"idle", "end"}} =>
            p.closed = 1 \/ p.orphan

=============================================================================
