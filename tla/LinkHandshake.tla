--------------------------- MODULE LinkHandshake ---------------------------
(***************************************************************************)
(* Establishing one unicast link: InitSyn, InitAck, OpenSyn, OpenAck        *)
(* (unicast/establishment/open.rs and accept.rs).  The opener "o" keeps its *)
(* state; the acceptor "a" drops its state after InitAck and gets it back   *)
(* from the cookie the opener returns.  Each side runs under a timeout, and *)
(* a link that is not a stream may lose, repeat or damage a message.        *)
(*                                                                          *)
(* A configuration is the part of TransportManagerConfig the handshake      *)
(* reads.  Sequence number resolutions are a number of bits.                *)
(***************************************************************************)
EXTENDS LinkExtensions

CONSTANTS HsConfigs,   \* pairs [o, a, sameHost, streamed] of configurations
          HsFaults     \* losses, repetitions and damage on a link that is not a stream

VARIABLES hsCfg,       \* the pair this attempt runs with
          hsO, hsA,    \* the two sides: [pc, s, out]
          hsNet,       \* [o, a]: messages on their way to each side
          hsShut,      \* the sides that have closed their end
          hsAdmitted,  \* the acceptor's manager has taken the link
          hsFaults     \* losses, repetitions and damaged messages so far

hsVars == <<hsCfg, hsO, hsA, hsNet, hsShut, hsAdmitted, hsFaults>>

---------------------------------------------------------------------------
\* compute_sn: a fixed function of the two identifiers in order, masked to the
\* agreed resolution; the hash is replaced by an injective mix of small numbers.
ComputeSn(zid1, zid2, bits) == (3 * zid1 + zid2) % 2^bits

\* The segments a side can open: its own, and the other's on the same host.
HsSegments(side) ==
  LET has == {x \in {"o", "a"} : hsCfg[x].shm /\ (x = side \/ hsCfg.sameHost)}
  IN [z \in {hsCfg[x].zid : x \in has} |-> ShmCreate(z + 10)]

\* The largest batch this side accepts on the link.
HsBatchSize(c) == MinOf(c.batch, c.mtu)

OpenState(c) ==
  [reso |-> c.reso, batch |-> HsBatchSize(c),
   qos |-> QosNew(c.qos, c.prio, c.rel), mlink |-> MlNew(c.maxLinks > 1),
   shm |-> FALSE, seg |-> None, pk |-> None, up |-> 0,
   lowlat |-> c.lowlat, compr |-> c.compr, patch |-> 0, region |-> None,
   zid |-> None, cookie |-> None, bound |-> None, txSn |-> None, rxSn |-> None]

\* The acceptor's username nonce is drawn when the state is made.
AcceptState(c) ==
  [reso |-> c.reso, batch |-> HsBatchSize(c),
   qos |-> QosNew(c.qos, c.prio, c.rel), mlink |-> MlNew(c.maxLinks > 1),
   shm |-> FALSE, seg |-> None,
   pk |-> IF c.pk = None THEN None ELSE [challenge |-> 0, nonce |-> None],
   up |-> 21, lowlat |-> c.lowlat, compr |-> c.compr, patch |-> 0,
   region |-> None, zid |-> None, nonce |-> None, bound |-> None,
   user |-> None, txSn |-> None, rxSn |-> None]

---------------------------------------------------------------------------
(* auth/mod.rs runs the configured authenticators one after the other; an    *)
(* authenticator that is not configured ignores what the other side sent.    *)

IfAuth(au, result, otherwise) == IF au = None THEN otherwise ELSE result

AuthSendInitSyn(c) ==
  [pk |-> IfAuth(c.pk, PkSendInitSyn(c.pk), None), up |-> IfAuth(c.up, UpSendInitSyn(c.up), None)]

AuthRecvInitSyn(c, s, ext) ==
  [pk |-> IfAuth(c.pk, PkRecvInitSyn(c.pk, ext.pk, 22), s.pk),
   up |-> IfAuth(c.up, UpRecvInitSyn(s.up, ext.up), s.up)]

AuthSendInitAck(c, s) ==
  [pk |-> IfAuth(c.pk, PkSendInitAck(c.pk, s.pk), None), up |-> IfAuth(c.up, s.up, None)]

AuthRecvInitAck(c, s, ext) ==
  [pk |-> IfAuth(c.pk, PkRecvInitAck(c.pk, ext.pk), s.pk),
   up |-> IfAuth(c.up, UpRecvInitAck(c.up, s.up, ext.up), s.up)]

AuthSendOpenSyn(c, s) ==
  [pk |-> IfAuth(c.pk, PkSendOpenSyn(s.pk), None), up |-> IfAuth(c.up, UpSendOpenSyn(c.up, s.up), None)]

\* Besides the checks, this step names the user of the transport.
AuthRecvOpenSyn(c, s, ext) ==
  [pk |-> IfAuth(c.pk, PkRecvOpenSyn(c.pk, s.pk, ext.pk), s.pk),
   up |-> IfAuth(c.up, UpRecvOpenSyn(c.up, s.up, ext.up), None)]

AuthSendOpenAck(c) == [pk |-> IfAuth(c.pk, TRUE, None), up |-> IfAuth(c.up, TRUE, None)]

AuthRecvOpenAck(c, s, ext) ==
  [pk |-> IfAuth(c.pk, PkRecvOpenAck(s.pk, ext.pk), s.pk),
   up |-> IfAuth(c.up, UpRecvOpenAck(c.up, s.up, ext.up), s.up)]

AuthCookie(c, s) == [pk |-> IfAuth(c.pk, PkCookie(s.pk), None), up |-> s.up]

---------------------------------------------------------------------------
(* The four messages and what a side makes of them.                          *)

InitSyn(c, s) ==
  [t |-> "InitSyn", version |-> c.version, zid |-> c.zid, reso |-> s.reso, batch |-> s.batch,
   qos |-> QosToExts(s.qos), shm |-> IF c.shm THEN c.zid ELSE None, auth |-> AuthSendInitSyn(c),
   mlink |-> IF s.mlink = None THEN None ELSE PkSendInitSyn(MlAuth(c.mkey)),
   lowlat |-> s.lowlat, compr |-> s.compr, patch |-> c.patch, region |-> c.region]

\* recv_init_syn: the smaller of the two resolutions, field by field, and of
\* the two batch sizes.
AcceptInitSyn(c, s, m, segs) ==
  LET auth == AuthRecvInitSyn(c, s, m.auth)
      ext == [qos |-> QosRecvInitSyn(s.qos, m.qos),
              seg |-> IF c.shm THEN ShmRecvInitSyn(segs, m.shm) ELSE None,
              pk |-> auth.pk, up |-> auth.up,
              mlink |-> MlRecvInitSyn(c.mkey, s.mlink, m.mlink, 23)]
  IN IF m.version # c.version \/ AnyErr(ext) THEN Err
     ELSE [s EXCEPT !.reso = [f \in {"sn", "req"} |-> MinOf(s.reso[f], m.reso[f])],
                    !.batch = MinOf(s.batch, m.batch), !.qos = ext.qos, !.seg = ext.seg,
                    !.pk = ext.pk, !.up = ext.up, !.mlink = ext.mlink,
                    !.lowlat = LowLatencyRecv(s.lowlat, m.lowlat),
                    !.compr = CompressionRecv(s.compr, m.compr),
                    !.patch = PatchRecvInitSyn(m.patch), !.region = RegionRecv(m.region),
                    !.zid = m.zid]

\* The cookie: everything the acceptor needs to go on, under its own cipher.
Cookie(c, s, nonce) ==
  LET auth == AuthCookie(c, s)
  IN [zid |-> s.zid, reso |-> s.reso, batch |-> s.batch, nonce |-> nonce,
      qos |-> QosToU64(s.qos), mlink |-> MlCookie(s.mlink), shm |-> s.shm,
      pk |-> auth.pk, up |-> auth.up, lowlat |-> s.lowlat, compr |-> s.compr,
      patch |-> s.patch, region |-> s.region]

InitAck(c, s, nonce, segs) ==
  [t |-> "InitAck", zid |-> c.zid, reso |-> s.reso, batch |-> s.batch,
   qos |-> QosToExts(s.qos), shm |-> IF c.shm THEN ShmSendInitAck(segs, c.zid, s.seg) ELSE None,
   auth |-> AuthSendInitAck(c, s),
   mlink |-> IF s.mlink = None THEN None ELSE PkSendInitAck(MlAuth(c.mkey), s.mlink.pk),
   lowlat |-> s.lowlat, compr |-> s.compr, patch |-> PatchSendInitAck(c.patch, s.patch),
   region |-> c.region, cookie |-> Cookie(c, s, nonce)]

\* recv_init_ack: an acceptor must not answer with a finer resolution.
OpenInitAck(c, s, m, segs) ==
  LET auth == AuthRecvInitAck(c, s, m.auth)
      ext == [qos |-> QosRecvInitAck(s.qos, m.qos),
              seg |-> IF c.shm THEN ShmRecvInitAck(segs, c.zid, m.shm) ELSE None,
              pk |-> auth.pk, up |-> auth.up,
              mlink |-> MlRecvInitAck(c.mkey, s.mlink, m.mlink),
              patch |-> PatchRecvInitAck(c.patch, m.patch)]
  IN IF (\E f \in {"sn", "req"} : m.reso[f] > s.reso[f]) \/ AnyErr(ext) THEN Err
     ELSE [s EXCEPT !.reso = m.reso, !.batch = MinOf(s.batch, m.batch), !.qos = ext.qos,
                    !.seg = ext.seg, !.pk = ext.pk, !.up = ext.up, !.mlink = ext.mlink,
                    !.lowlat = LowLatencyRecv(s.lowlat, m.lowlat),
                    !.compr = CompressionRecv(s.compr, m.compr), !.patch = ext.patch,
                    !.region = RegionRecv(m.region), !.zid = m.zid, !.cookie = m.cookie]

OpenSyn(c, s, segs) ==
  [t |-> "OpenSyn", sn |-> ComputeSn(c.zid, s.zid, s.reso.sn), cookie |-> s.cookie,
   shm |-> IF c.shm THEN ShmSendOpenSyn(segs, s.seg) ELSE None, auth |-> AuthSendOpenSyn(c, s),
   mlink |-> IF s.mlink = None THEN None ELSE PkSendOpenSyn(s.mlink.pk), bound |-> c.bound]

\* recv_open_syn, from the cookie: it must carry the nonce drawn for this link.
CookieState(m) ==
  [reso |-> m.cookie.reso, batch |-> m.cookie.batch, qos |-> QosTryFromU64(m.cookie.qos),
   mlink |-> m.cookie.mlink, shm |-> m.cookie.shm, seg |-> None, pk |-> m.cookie.pk,
   up |-> m.cookie.up, lowlat |-> m.cookie.lowlat, compr |-> m.cookie.compr,
   patch |-> m.cookie.patch, region |-> m.cookie.region, zid |-> m.cookie.zid,
   nonce |-> m.cookie.nonce, bound |-> None, user |-> None, txSn |-> None, rxSn |-> None]

AcceptOpenSyn(c, nonce, seg, m, segs) ==
  LET s == CookieState(m)
      auth == AuthRecvOpenSyn(c, s, m.auth)
      ext == [pk |-> auth.pk, up |-> auth.up, mlink |-> MlRecvOpenSyn(c.mkey, s.mlink, m.mlink)]
  IN IF s.nonce # nonce \/ s.qos = Err \/ AnyErr(ext) THEN Err
     ELSE [s EXCEPT !.seg = seg, !.mlink = ext.mlink, !.user = auth.up, !.rxSn = m.sn,
                    !.shm = s.shm \/ (c.shm /\ ShmRecvOpenSyn(segs, c.zid, m.shm)),
                    !.bound = m.bound]

\* send_open_ack only builds the message: the manager may still refuse the link.
OpenAck(c, s) ==
  [t |-> "OpenAck", sn |-> ComputeSn(c.zid, s.zid, s.reso.sn),
   shm |-> IF c.shm THEN ShmSendOpenAck(s.shm) ELSE None, auth |-> AuthSendOpenAck(c),
   mlink |-> IF s.mlink = None THEN None ELSE TRUE, bound |-> c.bound]

OpenOpenAck(c, s, m) ==
  LET auth == AuthRecvOpenAck(c, s, m.auth)
  IN IF AnyErr(auth) THEN Err
     ELSE [s EXCEPT !.shm = c.shm /\ ShmRecvOpenAck(m.shm), !.bound = m.bound, !.rxSn = m.sn,
                    !.mlink = IF s.mlink = None THEN None ELSE MlRecvOpenAck(s.mlink, m.mlink)]

\* What open_link hands to init_transport_unicast: the transport's configuration
\* and that of its link.  The best-effort half of a mixed link takes its batch size
\* from this side's configuration alone.
OpenConfig(c, s) ==
  [zid |-> s.zid, bound |-> s.bound, sn |-> s.reso.sn, txSn |-> s.txSn, rxSn |-> s.rxSn,
   isQos |-> s.qos # NoQoS, multilink |-> IF s.mlink = None THEN None ELSE s.mlink.peer,
   shm |-> IF s.shm THEN s.seg ELSE None, lowlat |-> s.lowlat, user |-> None,
   patch |-> s.patch, region |-> s.region, batch |-> s.batch, compr |-> s.compr,
   qos |-> s.qos, bestEffort |-> IF c.beMtu = None THEN None ELSE MinOf(c.batch, c.beMtu)]

\* The same in accept_link, which also knows the user.
AcceptConfig(c, s) == [OpenConfig(c, s) EXCEPT !.user = s.user]

---------------------------------------------------------------------------
(* Steps.  step! in open_link and accept_link: an error closes the link, with *)
(* a Close message when the error has a reason.                               *)

OpenFinal == {"open", "closed"}
Other(side) == IF side = "o" THEN "a" ELSE "o"
Close == [t |-> "Close"]

\* link.close(reason)
CloseLink(side, reason) ==
  /\ hsShut' = hsShut \cup {side}
  /\ hsNet' = IF reason = None \/ Other(side) \in hsShut THEN hsNet
              ELSE [hsNet EXCEPT ![Other(side)] = Append(@, Close)]

\* Sending on a link the other side has closed is an error or goes nowhere.
SendOk(side, m) ==
  /\ hsNet' = IF Other(side) \in hsShut THEN hsNet
              ELSE [hsNet EXCEPT ![Other(side)] = Append(@, m)]
  /\ UNCHANGED hsShut

\* What a receive returns: the next message, or an error once the link is closed.
Receives(side, m) ==
  \/ hsNet[side] # <<>> /\ m = Head(hsNet[side])
  \/ hsNet[side] = <<>> /\ Other(side) \in hsShut /\ m = Err

Took(side) == [hsNet EXCEPT ![side] = IF @ = <<>> THEN @ ELSE Tail(@)]

HsIncoming == {Head(hsNet[x]) : x \in {y \in {"o", "a"} : hsNet[y] # <<>>}} \cup {Err}

OSendInitSyn ==
  /\ hsO.pc = "start"
  /\ \/ SendOk("o", InitSyn(hsCfg.o, hsO.s)) /\ hsO' = [hsO EXCEPT !.pc = "initAck"]
     \/ "a" \in hsShut /\ CloseLink("o", "generic") /\ hsO' = [hsO EXCEPT !.pc = "closed"]
  /\ UNCHANGED <<hsCfg, hsA, hsAdmitted, hsFaults>>

\* An error before the receive has a reason, a received Close has none.
OFailed(m) == /\ hsO' = [hsO EXCEPT !.pc = "closed"]
              /\ hsShut' = hsShut \cup {"o"}
              /\ hsNet' = IF (m # Err /\ m.t = "Close") \/ "a" \in hsShut THEN Took("o")
                          ELSE [Took("o") EXCEPT !["a"] = Append(@, Close)]

ORecvInitAck ==
  /\ hsO.pc = "initAck"
  /\ \E m \in HsIncoming :
       /\ Receives("o", m)
       /\ LET s == IF m = Err \/ m.t # "InitAck" THEN Err
                   ELSE OpenInitAck(hsCfg.o, hsO.s, m, HsSegments("o"))
          IN IF s = Err THEN OFailed(m)
             ELSE /\ hsO' = [pc |-> "sendOpenSyn", s |-> s]
                  /\ hsNet' = Took("o") /\ UNCHANGED hsShut
  /\ UNCHANGED <<hsCfg, hsA, hsAdmitted, hsFaults>>

\* The bound callback may refuse the peer.
OSendOpenSyn ==
  /\ hsO.pc = "sendOpenSyn"
  /\ LET m == OpenSyn(hsCfg.o, hsO.s, HsSegments("o"))
     IN \/ /\ hsCfg.o.bound # Err
           /\ SendOk("o", m)
           /\ hsO' = [pc |-> "openAck", s |-> [hsO.s EXCEPT !.txSn = m.sn]]
        \/ /\ hsCfg.o.bound = Err \/ "a" \in hsShut
           /\ CloseLink("o", "generic") /\ hsO' = [hsO EXCEPT !.pc = "closed"]
  /\ UNCHANGED <<hsCfg, hsA, hsAdmitted, hsFaults>>

ORecvOpenAck ==
  /\ hsO.pc = "openAck"
  /\ \E m \in HsIncoming :
       /\ Receives("o", m)
       /\ LET s == IF m = Err \/ m.t # "OpenAck" THEN Err ELSE OpenOpenAck(hsCfg.o, hsO.s, m)
          IN IF s = Err THEN OFailed(m)
             ELSE /\ hsO' = [pc |-> "init", s |-> s]
                  /\ hsNet' = Took("o") /\ UNCHANGED hsShut
  /\ UNCHANGED <<hsCfg, hsA, hsAdmitted, hsFaults>>

\* init_transport_unicast on the opener's side: taken, or refused and closed.
OInitTransport ==
  /\ hsO.pc = "init"
  /\ \/ hsO' = [hsO EXCEPT !.pc = "open"] /\ UNCHANGED <<hsNet, hsShut>>
     \/ hsO' = [hsO EXCEPT !.pc = "closed"] /\ CloseLink("o", "refused")
  /\ UNCHANGED <<hsCfg, hsA, hsAdmitted, hsFaults>>

AFailed == /\ hsA' = [hsA EXCEPT !.pc = "closed"]
           /\ hsShut' = hsShut \cup {"a"}
           /\ hsNet' = IF "o" \in hsShut THEN Took("a")
                       ELSE [Took("a") EXCEPT !["o"] = Append(@, Close)]

ARecvInitSyn ==
  /\ hsA.pc = "initSyn"
  /\ \E m \in HsIncoming :
       /\ Receives("a", m)
       /\ LET s == IF m = Err \/ m.t # "InitSyn" THEN Err
                   ELSE AcceptInitSyn(hsCfg.a, hsA.s, m, HsSegments("a"))
          IN IF s = Err THEN AFailed
             ELSE /\ hsA' = [hsA EXCEPT !.pc = "sendInitAck", !.s = s]
                  /\ hsNet' = Took("a") /\ UNCHANGED hsShut
  /\ UNCHANGED <<hsCfg, hsO, hsAdmitted, hsFaults>>

\* After InitAck only the cookie's nonce and the segment are kept.
ASendInitAck ==
  /\ hsA.pc = "sendInitAck"
  /\ \/ /\ SendOk("a", InitAck(hsCfg.a, hsA.s, 31, HsSegments("a")))
        /\ hsA' = [pc |-> "openSyn", s |-> None, nonce |-> 31, seg |-> hsA.s.seg]
     \/ /\ "o" \in hsShut /\ CloseLink("a", "generic") /\ hsA' = [hsA EXCEPT !.pc = "closed"]
  /\ UNCHANGED <<hsCfg, hsO, hsAdmitted, hsFaults>>

ARecvOpenSyn ==
  /\ hsA.pc = "openSyn"
  /\ \E m \in HsIncoming :
       /\ Receives("a", m)
       /\ LET s == IF m = Err \/ m.t # "OpenSyn" THEN Err
                   ELSE AcceptOpenSyn(hsCfg.a, hsA.nonce, hsA.seg, m, HsSegments("a"))
          IN IF s = Err THEN AFailed
             ELSE /\ hsA' = [hsA EXCEPT !.pc = "buildOpenAck", !.s = s]
                  /\ hsNet' = Took("a") /\ UNCHANGED hsShut
  /\ UNCHANGED <<hsCfg, hsO, hsAdmitted, hsFaults>>

ABuildOpenAck ==
  /\ hsA.pc = "buildOpenAck"
  /\ IF hsCfg.a.bound = Err
     THEN CloseLink("a", "generic") /\ hsA' = [hsA EXCEPT !.pc = "closed"]
     ELSE /\ hsA' = [hsA EXCEPT !.pc = "init", !.s.txSn = OpenAck(hsCfg.a, hsA.s).sn]
          /\ UNCHANGED <<hsNet, hsShut>>
  /\ UNCHANGED <<hsCfg, hsO, hsAdmitted, hsFaults>>

\* init_transport_unicast: refused (limits, another configuration, itself), or
\* taken and then acknowledged; the acknowledgement may fail to be sent.
AInitTransport ==
  /\ hsA.pc = "init"
  /\ \/ /\ CloseLink("a", "refused") /\ hsA' = [hsA EXCEPT !.pc = "closed"]
        /\ UNCHANGED hsAdmitted
     \/ /\ SendOk("a", OpenAck(hsCfg.a, hsA.s))
        /\ hsA' = [hsA EXCEPT !.pc = "open"] /\ hsAdmitted' = TRUE
     \/ /\ "o" \in hsShut /\ CloseLink("a", "generic")
        /\ hsA' = [hsA EXCEPT !.pc = "closed"] /\ hsAdmitted' = TRUE
  /\ UNCHANGED <<hsCfg, hsO, hsFaults>>

\* open_timeout and accept_timeout: the attempt is dropped, and its link with it.
HsTimeout(side) ==
  /\ IF side = "o"
     THEN hsO.pc \notin OpenFinal /\ hsO' = [hsO EXCEPT !.pc = "closed"] /\ UNCHANGED hsA
     ELSE hsA.pc \notin OpenFinal /\ hsA' = [hsA EXCEPT !.pc = "closed"] /\ UNCHANGED hsO
  /\ hsShut' = hsShut \cup {side}
  /\ UNCHANGED <<hsCfg, hsNet, hsAdmitted, hsFaults>>

\* A datagram link loses a message, or delivers it twice.
HsLose(side) ==
  /\ ~ hsCfg.streamed /\ hsFaults < HsFaults /\ hsNet[side] # <<>>
  /\ hsNet' = Took(side) /\ hsFaults' = hsFaults + 1
  /\ UNCHANGED <<hsCfg, hsO, hsA, hsShut, hsAdmitted>>

HsRepeat(side) ==
  /\ ~ hsCfg.streamed /\ hsFaults < HsFaults /\ hsNet[side] # <<>>
  /\ hsNet' = [hsNet EXCEPT ![side] = <<Head(@)>> \o @] /\ hsFaults' = hsFaults + 1
  /\ UNCHANGED <<hsCfg, hsO, hsA, hsShut, hsAdmitted>>

\* A message, one of its extensions or its cookie cannot be decoded any more: its
\* receive fails as one of a message of another kind does.
HsDamage(side) ==
  /\ ~ hsCfg.streamed /\ hsFaults < HsFaults /\ hsNet[side] # <<>>
  /\ hsNet' = [hsNet EXCEPT ![side][1] = [t |-> "undecodable"]] /\ hsFaults' = hsFaults + 1
  /\ UNCHANGED <<hsCfg, hsO, hsA, hsShut, hsAdmitted>>

\* TransportManagerBuilderUnicast::build refuses QoS with low latency.
HsBuilds(c) == ~ (c.qos /\ c.lowlat)

HsInit ==
  /\ hsCfg \in {p \in HsConfigs : HsBuilds(p.o) /\ HsBuilds(p.a)}
  /\ hsO = [pc |-> "start", s |-> OpenState(hsCfg.o)]
  /\ hsA = [pc |-> "initSyn", s |-> AcceptState(hsCfg.a), nonce |-> None, seg |-> None]
  /\ hsNet = [o |-> <<>>, a |-> <<>>]
  /\ hsShut = {} /\ hsAdmitted = FALSE /\ hsFaults = 0

HsNext ==
  \/ OSendInitSyn \/ ORecvInitAck \/ OSendOpenSyn \/ ORecvOpenAck \/ OInitTransport
  \/ ARecvInitSyn \/ ASendInitAck \/ ARecvOpenSyn \/ ABuildOpenAck \/ AInitTransport
  \/ \E side \in {"o", "a"} : HsTimeout(side) \/ HsLose(side) \/ HsRepeat(side) \/ HsDamage(side)

---------------------------------------------------------------------------
(* Properties.                                                               *)

\* When both sides hold an open link they agree on everything the link then
\* runs by: resolution, batch size, QoS, compression, low latency, whether fragments
\* carry markers, shared memory and multilink, each knows the other's identifier,
\* key, region and bound, and each expects the sequence number the other starts
\* with.  The acceptor's half has been through the cookie, the opener's has not.  Of
\* the patch level only the markers agree: the acceptor keeps the level of a newer
\* opener and answers its own.
HandshakeAgrees ==
  (hsO.pc = "open" /\ hsA.pc = "open") =>
    LET co == hsCfg.o  ca == hsCfg.a  o == OpenConfig(co, hsO.s)  a == AcceptConfig(ca, hsA.s)
    IN /\ \A f \in {"sn", "isQos", "qos", "batch", "compr", "lowlat"} : o[f] = a[f]
       /\ o.patch <= a.patch /\ HasFragmentationMarkers(o.patch) = HasFragmentationMarkers(a.patch)
       /\ o.rxSn = a.txSn /\ a.rxSn = o.txSn
       /\ o.zid = ca.zid /\ a.zid = co.zid
       /\ o.region = ca.region /\ a.region = co.region
       /\ o.bound = ca.bound /\ a.bound = co.bound
       /\ <<o.multilink, a.multilink>> \in {<<None, None>>, <<ca.mkey, co.mkey>>}
       /\ <<o.shm, a.shm>> \in {<<None, None>>, <<ca.zid, co.zid>>}

=============================================================================
