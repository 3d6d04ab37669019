------------------------- MODULE UnicastTransports -------------------------
(***************************************************************************)
(* The manager's registry of unicast transports (unicast/manager.rs) and    *)
(* the life of a transport and of its links (unicast/universal/transport.rs *)
(* and link.rs; unicast/lowlatency/transport.rs, link.rs, rx.rs and tx.rs).  *)
(*                                                                          *)
(* A process is an establishment <<"est", l>>, the task <<"del", l>> that   *)
(* removes link l after one of its loops failed or received a Close, or a   *)
(* close of transport t by its user, <<"usr", t>>, or by the manager,       *)
(* <<"mgr", t>>, or a message a user sends on the low-latency transport of  *)
(* link l, <<"snd", l>>.  An asynchronous mutex is the process that holds   *)
(* it; a step ends where the code awaits.                                   *)
(***************************************************************************)
EXTENDS Options

CONSTANTS UtLinks,        \* links
          UtWorlds,       \* functions [UtLinks -> [peer, inbound, cfg, lowlat, mixed]]
          UtClosing,      \* those in which the manager is closed
          UtTransports,   \* 1..n: at most n transports are ever made
          UtSelf,         \* the identifier of this node
          MaxSessions, MaxLinks, AcceptPending

VARIABLES utLink,      \* what the links of this behaviour are
          utMap,       \* peer -> registered transport
          utMapLock,   \* holder of the registry's mutex
          utTr,        \* transports made so far
          utLk,        \* link -> [tx, rx, cancelled, writer, alive]: its running loops and their
                       \* token; of a low-latency link also the holder of its lock, and where
                       \* the keep-alive task is
          utPr,        \* process -> [pc, t, cb, links, last]
          utIncoming,  \* establishments counted against accept_pending
          utMgr        \* TransportManager::close: [pc, left]

utVars == <<utLink, utMap, utMapLock, utTr, utLk, utPr, utIncoming, utMgr>>

UtPeers == {utLink[l].peer : l \in UtLinks}
UtProcs == ({"est", "del", "snd"} \X UtLinks) \cup ({"usr", "mgr"} \X UtTransports)
UtEnded == {"idle", "end"}

Goto(q, pc) == utPr' = [utPr EXCEPT ![q].pc = pc]
T(q) == utPr[q].t
Peer(t) == utTr[t].peer

\* TransportUnicastUniversal::make and TransportUnicastLowlatency::make
Make(l) ==
  [peer |-> utLink[l].peer, cfg |-> utLink[l].cfg, lowlat |-> utLink[l].lowlat,
   status |-> "uninitialized", lock |-> None, cb |-> "none", links |-> {}, closed |-> 0]

\* sync of either kind: a transport that was never closed is alive.
Sync(tr) == [tr EXCEPT !.status = "alive"]

---------------------------------------------------------------------------
(* Establishment                                                            *)

\* handle_new_link_unicast: too many pending establishments close the link.
\* An outgoing link comes from open_transport_unicast and is not counted.
NewLink(l) ==
  LET q == <<"est", l>> IN
  /\ utPr[q].pc = "idle" /\ (utLink[l].inbound => utMgr.pc # "end")
  /\ IF utLink[l].inbound /\ utIncoming >= AcceptPending
     THEN Goto(q, "end") /\ UNCHANGED utIncoming
     ELSE Goto(q, "lookup") /\ utIncoming' = utIncoming + (IF utLink[l].inbound THEN 1 ELSE 0)
  /\ UNCHANGED <<utLink, utMap, utMapLock, utTr, utLk, utMgr>>

\* The attempt is over: the accept task gives its place back.
EndAttempt(l) == utIncoming' = utIncoming - (IF utLink[l].inbound THEN 1 ELSE 0)

\* init_transport_unicast: the registry stays locked only for a new transport.
Lookup(l) ==
  LET q == <<"est", l>>  t == utMap[utLink[l].peer] IN
  /\ utPr[q].pc = "lookup" /\ utMapLock = None
  /\ IF t # None
     THEN /\ utPr' = [utPr EXCEPT ![q].pc = "existing", ![q].t = t] /\ UNCHANGED utMapLock
     ELSE /\ Goto(q, "new") /\ utMapLock' = q
  /\ UNCHANGED <<utLink, utMap, utTr, utLk, utIncoming, utMgr>>

\* add_link refuses an inbound link over the limit; without multilink it is one.
LinkLimit(l) == IF utLink[l].cfg.multilink THEN MaxLinks ELSE 1
InboundLinks(t) == {k \in utTr[t].links : utLink[k].inbound}

\* add_link of the universal transport refuses a closed transport and an inbound
\* link too many; that of the low-latency one refuses a second link, and a link
\* with an associated best-effort link.
AddLinkFails(l, t) ==
  \/ utTr[t].status = "closed"
  \/ ~ utTr[t].lowlat /\ utLink[l].inbound /\ Cardinality(InboundLinks(t)) >= LinkLimit(l)
  \/ utTr[t].lowlat /\ (utTr[t].links # {} \/ utLink[l].mixed)

\* init_existing_transport_unicast up to add_link: the configurations must be
\* equal, then the status mutex is taken and kept by a successful add_link.
InitExisting(l) ==
  LET q == <<"est", l>>  t == T(q) IN
  /\ utPr[q].pc = "existing"
  /\ \/ /\ utTr[t].cfg # utLink[l].cfg
        /\ Goto(q, "end") /\ EndAttempt(l) /\ UNCHANGED utTr
     \/ /\ utTr[t].cfg = utLink[l].cfg /\ utTr[t].lock = None
        /\ IF AddLinkFails(l, t)
           THEN Goto(q, "end") /\ EndAttempt(l) /\ UNCHANGED utTr
           ELSE /\ utTr' = [utTr EXCEPT ![t].links = @ \cup {l}, ![t].lock = q]
                /\ Goto(q, "ack") /\ UNCHANGED utIncoming
  /\ UNCHANGED <<utLink, utMap, utMapLock, utLk, utMgr>>

Registered == {p \in UtPeers : utMap[p] # None}

\* init_new_transport_unicast up to add_link.  When add_link fails the new
\* transport is closed while the registry is still locked by this attempt.
InitNew(l) ==
  LET q == <<"est", l>>  t == Len(utTr) + 1 IN
  /\ utPr[q].pc = "new"
  /\ \/ /\ utLink[l].peer = UtSelf \/ Cardinality(Registered) >= MaxSessions
        /\ Goto(q, "end") /\ EndAttempt(l) /\ utMapLock' = None /\ UNCHANGED utTr
     \/ /\ utLink[l].peer # UtSelf /\ Cardinality(Registered) < MaxSessions
        /\ t \in UtTransports
        /\ LET fails == utLink[l].lowlat /\ utLink[l].mixed
           IN /\ utTr' = Append(utTr, IF fails THEN Sync(Make(l))
                                      ELSE [Sync(Make(l)) EXCEPT !.links = {l}, !.lock = q])
              /\ utPr' = [utPr EXCEPT ![q].pc = IF fails THEN "delete" ELSE "newAck", ![q].t = t]
        /\ UNCHANGED <<utMapLock, utIncoming>>
  /\ UNCHANGED <<utLink, utMap, utLk, utMgr>>

\* start_tx and start_rx: a loop started after the link was closed finds its token
\* cancelled and ends at once.
Start(l, loop) == [utLk EXCEPT ![l][loop] = ~ utLk[l].cancelled]

\* close of a link cancels the token and waits for both loops.
Stopped(l) == [utLk[l] EXCEPT !.tx = FALSE, !.rx = FALSE, !.cancelled = TRUE]

\* close of a transport: a low-latency one sends Close on its link first (finalize).
CloseOf(tr) == IF tr.lowlat /\ tr.links # {} THEN "finalize" ELSE "delete"

\* send_open_ack, then start_tx.  Its failure closes the whole transport.
SendOpenAck(l) ==
  LET q == <<"est", l>>  t == T(q) IN
  /\ utPr[q].pc = "ack"
  /\ \/ Goto(q, "notify") /\ utLk' = Start(l, "tx") /\ UNCHANGED utTr
     \/ Goto(q, CloseOf(utTr[t])) /\ utTr' = [utTr EXCEPT ![t].lock = None] /\ UNCHANGED utLk
  /\ UNCHANGED <<utLink, utMap, utMapLock, utIncoming, utMgr>>

\* The same for a new transport, which is registered once the OpenAck is sent.
Register(l) ==
  LET q == <<"est", l>>  t == T(q) IN
  /\ utPr[q].pc = "newAck"
  /\ utMapLock' = None
  /\ \/ /\ Goto(q, "notifyNew") /\ utMap' = [utMap EXCEPT ![Peer(t)] = t]
        /\ utLk' = Start(l, "tx") /\ UNCHANGED utTr
     \/ /\ Goto(q, CloseOf(utTr[t])) /\ utTr' = [utTr EXCEPT ![t].lock = None]
        /\ UNCHANGED <<utMap, utLk>>
  /\ UNCHANGED <<utLink, utIncoming, utMgr>>

\* notify_new_transport_unicast: the handler returns the callback or refuses.
NotifyTransport(l) ==
  LET q == <<"est", l>>  t == T(q) IN
  /\ utPr[q].pc = "notifyNew"
  /\ \/ Goto(q, "notify") /\ utTr' = [utTr EXCEPT ![t].cb = "set"]
     \/ Goto(q, CloseOf(utTr[t])) /\ utTr' = [utTr EXCEPT ![t].lock = None, ![t].cb = "refused"]
  /\ UNCHANGED <<utLink, utMap, utMapLock, utLk, utIncoming, utMgr>>

\* notify_new_link_unicast has returned: start_rx, and the status mutex is free.
NotifyLink(l) ==
  LET q == <<"est", l>>  t == T(q) IN
  /\ utPr[q].pc = "notify"
  /\ Goto(q, "end") /\ EndAttempt(l)
  /\ utLk' = Start(l, "rx")
  /\ utTr' = [utTr EXCEPT ![t].lock = None]
  /\ UNCHANGED <<utLink, utMap, utMapLock, utMgr>>

\* open_timeout and accept_timeout drop an establishment wherever it awaits (it does
\* not between registering and the handler's answer): its guards are released, what
\* it did to the transport stays.
Timeout(l) ==
  LET q == <<"est", l>> IN
  /\ utPr[q].pc \notin UtEnded \cup {"notifyNew"}
  /\ Goto(q, "end") /\ EndAttempt(l)
  /\ utMapLock' = IF utMapLock = q THEN None ELSE utMapLock
  /\ utTr' = [t \in DOMAIN utTr |-> IF utTr[t].lock = q THEN [utTr[t] EXCEPT !.lock = None] ELSE utTr[t]]
  /\ utLk' = [k \in UtLinks |-> IF utLk[k].writer = q THEN [utLk[k] EXCEPT !.writer = None] ELSE utLk[k]]
  /\ UNCHANGED <<utLink, utMap, utMgr>>

---------------------------------------------------------------------------
(* Closing                                                                  *)

\* A loop fails or its lease expires: start_tx and start_rx spawn del_link.  A second
\* spawn would find the link gone and bail.
LinkFails(l) ==
  LET q == <<"del", l>> IN
  /\ utPr[q].pc = "idle" /\ ~ utLink[l].lowlat
  /\ utPr' = [utPr EXCEPT ![q].pc = "delLink", ![q].t = T(<<"est", l>>)]
  /\ \E x \in {"tx", "rx"} : utLk[l][x] /\ utLk' = [utLk EXCEPT ![l][x] = FALSE]
  /\ UNCHANGED <<utLink, utMap, utMapLock, utTr, utIncoming, utMgr>>

\* handle_close for the link: del_link is spawned while the reader goes on.
HandleClose(l) ==
  LET q == <<"del", l>> IN
  /\ utPr[q].pc = "idle" /\ utLk[l].rx /\ ~ utLink[l].lowlat
  /\ utPr' = [utPr EXCEPT ![q].pc = "delLink", ![q].t = T(<<"est", l>>)]
  /\ UNCHANGED <<utLink, utMap, utMapLock, utTr, utLk, utIncoming, utMgr>>

\* del_link: remove it from the transport, or bail when it is gone.
DelLink(l) ==
  LET q == <<"del", l>>  t == T(q) IN
  /\ utPr[q].pc = "delLink"
  /\ IF l \notin utTr[t].links
     THEN Goto(q, "end") /\ UNCHANGED utTr
     ELSE /\ utTr' = [utTr EXCEPT ![t].links = @ \ {l}]
          /\ utPr' = [utPr EXCEPT ![q].pc = "closeLink", ![q].last = (utTr[t].links = {l})]
  /\ UNCHANGED <<utLink, utMap, utMapLock, utLk, utIncoming, utMgr>>

\* The callback has been told; the link's loops are stopped, and the transport
\* goes with its last link.
CloseRemovedLink(l) ==
  LET q == <<"del", l>> IN
  /\ utPr[q].pc = "closeLink"
  /\ utLk' = [utLk EXCEPT ![l] = Stopped(l)]
  /\ Goto(q, IF utPr[q].last THEN "delete" ELSE "end")
  /\ UNCHANGED <<utLink, utMap, utMapLock, utTr, utIncoming, utMgr>>

\* TransportUnicast::close and a Close of the whole session, in the worlds where the
\* manager does not close.
UserClose(t) ==
  LET q == <<"usr", t>> IN
  /\ utMgr.pc = "off" /\ utPr[q].pc = "idle" /\ t \in DOMAIN utTr /\ utTr[t].cb # "none"
  /\ utPr' = [utPr EXCEPT ![q].pc = CloseOf(utTr[t]), ![q].t = t]
  /\ UNCHANGED <<utLink, utMap, utMapLock, utTr, utLk, utIncoming, utMgr>>

\* Fault: whoever deletes the transport tells the callback, whether or not it was
\* the one that took it.
DeleteKeepsCallback(q) ==
  LET t == T(q) IN
  /\ utPr[q].pc = "delete" /\ utTr[t].lock = None /\ ~ utTr[t].lowlat
  /\ utTr' = [utTr EXCEPT ![t].status = "closed", ![t].links = {}, ![t].lock = q]
  /\ utPr' = [utPr EXCEPT ![q].pc = "closing", ![q].cb = (utTr[t].cb = "set"), ![q].links = utTr[t].links]
  /\ UNCHANGED <<utLink, utMap, utMapLock, utLk, utIncoming, utMgr>>

\* delete: closed for good, the callback and the links are taken.
Delete(q) ==
  LET t == T(q) IN
  /\ utPr[q].pc = "delete" /\ utTr[t].lock = None /\ ~ utTr[t].lowlat
  /\ utTr' = [utTr EXCEPT ![t].status = "closed", ![t].links = {}, ![t].lock = q,
                          ![t].cb = IF @ = "set" THEN "taken" ELSE @]
  /\ utPr' = [utPr EXCEPT ![q].pc = "closing", ![q].cb = (utTr[t].cb = "set"), ![q].links = utTr[t].links]
  /\ UNCHANGED <<utLink, utMap, utMapLock, utLk, utIncoming, utMgr>>

\* The links are closed, the callback told, the status mutex released.
CloseAll(q) ==
  LET t == T(q) IN
  /\ utPr[q].pc = "closing" /\ ~ utTr[t].lowlat
  /\ utLk' = [l \in UtLinks |-> IF l \in utPr[q].links THEN Stopped(l) ELSE utLk[l]]
  /\ utTr' = [utTr EXCEPT ![t].lock = None, ![t].closed = @ + (IF utPr[q].cb THEN 1 ELSE 0)]
  /\ Goto(q, "unregister")
  /\ UNCHANGED <<utLink, utMap, utMapLock, utIncoming, utMgr>>

---------------------------------------------------------------------------
(* The low-latency transport: one link that is never taken out of it, whose  *)
(* writers hold its lock while they write.                                   *)

\* The rx task reads an error, or nothing for a lease: it ends and spawns finalize.
LowlatencyRxFails(l) ==
  LET q == <<"del", l>> IN
  /\ utPr[q].pc = "idle" /\ utLk[l].rx /\ utLink[l].lowlat
  /\ utLk' = [utLk EXCEPT ![l].rx = FALSE]
  /\ utPr' = [utPr EXCEPT ![q].pc = "finalize", ![q].t = T(<<"est", l>>)]
  /\ UNCHANGED <<utLink, utMap, utMapLock, utTr, utIncoming, utMgr>>

\* read_messages: a Close spawns delete, and the rx task reads on.
LowlatencyReadsClose(l) ==
  LET q == <<"del", l>> IN
  /\ utPr[q].pc = "idle" /\ utLk[l].rx /\ utLink[l].lowlat
  /\ utPr' = [utPr EXCEPT ![q].pc = "delete", ![q].t = T(<<"est", l>>)]
  /\ UNCHANGED <<utLink, utMap, utMapLock, utTr, utLk, utIncoming, utMgr>>

\* keepalive_task: a tick leaves the select, so the token cannot end the task until
\* it has had the lock of the link and has written...
KeepAliveTick(l) ==
  /\ utLink[l].lowlat /\ utLk[l].tx /\ utLk[l].alive = "select"
  /\ utLk' = [utLk EXCEPT ![l].alive = "wait"]
  /\ UNCHANGED <<utLink, utMap, utMapLock, utTr, utPr, utIncoming, utMgr>>

KeepAliveWrites(l) ==
  /\ \/ /\ utLk[l].alive = "wait" /\ utLk[l].writer = None
        /\ utLk' = [utLk EXCEPT ![l].alive = "write", ![l].writer = <<"alive", l>>]
     \/ /\ utLk[l].alive = "write"
        /\ utLk' = [utLk EXCEPT ![l].alive = "select", ![l].writer = None]
  /\ UNCHANGED <<utLink, utMap, utMapLock, utTr, utPr, utIncoming, utMgr>>

\* ...and a cancelled token ends either task at its select.
TaskCancelled(l) ==
  /\ utLink[l].lowlat /\ utLk[l].cancelled
  /\ \/ utLk[l].rx /\ utLk' = [utLk EXCEPT ![l].rx = FALSE]
     \/ utLk[l].tx /\ utLk[l].alive = "select" /\ utLk' = [utLk EXCEPT ![l].tx = FALSE]
  /\ UNCHANGED <<utLink, utMap, utMapLock, utTr, utPr, utIncoming, utMgr>>

\* send_async: a writer waits for the lock of the link.
SendAsync(q, l) == utLk[l].writer = None /\ utLk' = [utLk EXCEPT ![l].writer = q]

\* schedule: the user's thread takes the lock of the link, writes and releases it,
\* whatever the status of the transport.
LowlatencySchedule(l) ==
  LET q == <<"snd", l>>  t == T(<<"est", l>>) IN
  /\ utPr[q].pc = "idle" /\ utLink[l].lowlat /\ t # 0 /\ utTr[t].cb # "none"
  /\ SendAsync(q, l)
  /\ utPr' = [utPr EXCEPT ![q].pc = "write", ![q].t = t]
  /\ UNCHANGED <<utLink, utMap, utMapLock, utTr, utIncoming, utMgr>>

\* finalize: Close is sent, under the same lock and whether or not that works.
Finalize(q) ==
  LET l == CHOOSE k \in utTr[T(q)].links : TRUE IN
  /\ utPr[q].pc = "finalize" /\ SendAsync(q, l) /\ Goto(q, "write")
  /\ UNCHANGED <<utLink, utMap, utMapLock, utTr, utIncoming, utMgr>>

\* send_with_link returns and the lock is released.
Written(q) ==
  /\ utPr[q].pc = "write"
  /\ utLk' = [l \in UtLinks |-> IF utLk[l].writer = q THEN [utLk[l] EXCEPT !.writer = None] ELSE utLk[l]]
  /\ Goto(q, IF q[1] = "snd" THEN "end" ELSE "delete")
  /\ UNCHANGED <<utLink, utMap, utMapLock, utTr, utIncoming, utMgr>>

\* delete: closed for good and the token cancelled; the status mutex is kept.
LowlatencyDelete(q) ==
  LET t == T(q) IN
  /\ utPr[q].pc = "delete" /\ utTr[t].lock = None /\ utTr[t].lowlat
  /\ utTr' = [utTr EXCEPT ![t].status = "closed", ![t].lock = q]
  /\ utLk' = [l \in UtLinks |-> IF l \in utTr[t].links THEN [utLk[l] EXCEPT !.cancelled = TRUE] ELSE utLk[l]]
  /\ Goto(q, "closing")
  /\ UNCHANGED <<utLink, utMap, utMapLock, utIncoming, utMgr>>

\* Both tasks have ended and the lock of the link is free: it is closed, the callback
\* is taken and told, the status mutex released.
LowlatencyClosed(q) ==
  LET t == T(q) IN
  /\ utPr[q].pc = "closing" /\ utTr[t].lowlat
  /\ \A l \in utTr[t].links : ~ utLk[l].tx /\ ~ utLk[l].rx /\ utLk[l].writer = None
  /\ utTr' = [utTr EXCEPT ![t].lock = None, ![t].closed = @ + (IF utTr[t].cb = "set" THEN 1 ELSE 0),
                          ![t].cb = IF @ = "set" THEN "taken" ELSE @]
  /\ Goto(q, "unregister")
  /\ UNCHANGED <<utLink, utMap, utMapLock, utLk, utIncoming, utMgr>>

---------------------------------------------------------------------------
\* del_transport_unicast removes whatever is registered for the peer.
Unregister(q) ==
  /\ utPr[q].pc = "unregister" /\ utMapLock = None
  /\ utMap' = [utMap EXCEPT ![Peer(T(q))] = None]
  /\ Goto(q, "end")
  /\ IF q[1] = "est" THEN EndAttempt(q[2]) ELSE UNCHANGED utIncoming
  /\ UNCHANGED <<utLink, utMapLock, utTr, utLk, utMgr>>

\* close_unicast: the listeners go, then the registry is emptied in one step...
ManagerClose ==
  /\ utMgr.pc = "idle" /\ utMapLock = None
  /\ utMgr' = [pc |-> "close", left |-> {utMap[p] : p \in Registered}]
  /\ utMap' = [p \in UtPeers |-> None]
  /\ UNCHANGED <<utLink, utMapLock, utTr, utLk, utPr, utIncoming>>

\* ...and what it held is closed, one transport after the other.
ManagerNext ==
  /\ utMgr.pc = "close" /\ \A t \in UtTransports : utPr[<<"mgr", t>>].pc \in UtEnded
  /\ \E t \in utMgr.left :
       /\ utPr' = [utPr EXCEPT ![<<"mgr", t>>].pc = CloseOf(utTr[t]), ![<<"mgr", t>>].t = t]
       /\ utMgr' = [utMgr EXCEPT !.left = @ \ {t}]
  /\ UNCHANGED <<utLink, utMap, utMapLock, utTr, utLk, utIncoming>>

\* TransportManager::close then cancels the accept loop and waits for the accept
\* tasks it spawned.
ManagerTerminate ==
  /\ utMgr.pc = "close" /\ utMgr.left = {} /\ utIncoming = 0
  /\ \A t \in UtTransports : utPr[<<"mgr", t>>].pc \in UtEnded
  /\ utMgr' = [utMgr EXCEPT !.pc = "end"]
  /\ UNCHANGED <<utLink, utMap, utMapLock, utTr, utLk, utPr, utIncoming>>

---------------------------------------------------------------------------
UtInit ==
  /\ utLink \in UtWorlds
  /\ utMap = [p \in UtPeers |-> None] /\ utMapLock = None /\ utTr = <<>>
  /\ utLk = [l \in UtLinks |-> [tx |-> FALSE, rx |-> FALSE, cancelled |-> FALSE, writer |-> None, alive |-> "select"]]
  /\ utPr = [q \in UtProcs |-> [pc |-> "idle", t |-> 0, cb |-> FALSE, links |-> {}, last |-> FALSE]]
  /\ utIncoming = 0
  /\ utMgr = [pc |-> IF utLink \in UtClosing THEN "idle" ELSE "off", left |-> {}]

\* What the runtime does for the tasks it has, as against what users, peers and
\* the network decide to do.
UtProgress ==
  \/ \E l \in UtLinks :
       \/ Lookup(l) \/ InitExisting(l) \/ InitNew(l) \/ SendOpenAck(l) \/ Register(l)
       \/ NotifyTransport(l) \/ NotifyLink(l) \/ Timeout(l) \/ DelLink(l) \/ CloseRemovedLink(l)
       \/ KeepAliveWrites(l) \/ TaskCancelled(l)
  \/ \E q \in UtProcs :
       \/ Delete(q) \/ CloseAll(q) \/ Unregister(q)
       \/ Finalize(q) \/ Written(q) \/ LowlatencyDelete(q) \/ LowlatencyClosed(q)
  \/ ManagerNext \/ ManagerTerminate

UtNext ==
  \/ UtProgress
  \/ \E l \in UtLinks :
       \/ NewLink(l) \/ LinkFails(l) \/ HandleClose(l)
       \/ LowlatencyRxFails(l) \/ LowlatencyReadsClose(l) \/ KeepAliveTick(l) \/ LowlatencySchedule(l)
  \/ \E t \in UtTransports : UserClose(t)
  \/ ManagerClose

---------------------------------------------------------------------------
(* Properties.                                                               *)

\* No link of a transport is read before the handler has answered new_unicast, and
\* its callback is told of the end at most once, when the links still attached have
\* stopped; only a link that its own removal task is closing may still be read.  A
\* low-latency transport says so when neither of its tasks uses the link any more.
CallbackDiscipline ==
  \A t \in DOMAIN utTr :
    /\ utTr[t].closed <= 1
    /\ \A l \in UtLinks : (T(<<"est", l>>) = t /\ utLk[l].rx) =>
         /\ utTr[t].cb # "none"
         /\ utTr[t].closed = 1 => utPr[<<"del", l>>].pc \in {"delLink", "closeLink"}
    /\ (utTr[t].lowlat /\ utTr[t].closed = 1) =>
         \A l \in utTr[t].links : ~ utLk[l].rx /\ ~ utLk[l].tx

=============================================================================
