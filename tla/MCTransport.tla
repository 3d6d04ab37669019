---------------------------- MODULE MCTransport ----------------------------
(* Small instances of the transport, of the controller's Zenoh session and of *)
(* its REST surface, one component at a time: the initial state chooses which *)
(* one runs (focus) and in which of its worlds, and the others rest.          *)
EXTENDS LinkHandshake, UnicastTransports, TransportLinks, MCChannel, MulticastTransport, SharedMemory,
        ServerRuntime, ZenohRest

CONSTANT Focuses   \* the components a run looks at
VARIABLE focus

---------------------------------------------------------------------------
(* The handshake: two configurations that differ from the base in one way.    *)
(* An opener may be older or newer than the acceptor; an acceptor that has    *)
(* the patch extension is at level 1 at least.                                *)

HsBase(z) == [zid |-> z, version |-> 9, reso |-> [sn |-> 3, req |-> 3], batch |-> 8, mtu |-> 9,
  qos |-> TRUE, prio |-> None, rel |-> None, shm |-> FALSE, pk |-> None, up |-> None,
  maxLinks |-> 1, mkey |-> z + 50, lowlat |-> FALSE, compr |-> FALSE, patch |-> 1,
  region |-> None, bound |-> None, beMtu |-> None]
Pk(k, l) == [key |-> k, lookup |-> l]
Up(c, t) == [cred |-> c, table |-> t]
Vary(z) == LET b == HsBase(z) IN
  {b, [b EXCEPT !.version = 8], [b EXCEPT !.reso.sn = 2], [b EXCEPT !.reso.req = 2],
   [b EXCEPT !.batch = 4, !.compr = TRUE], [b EXCEPT !.mtu = 5, !.beMtu = 7], [b EXCEPT !.qos = FALSE],
   [b EXCEPT !.qos = FALSE, !.lowlat = TRUE], [b EXCEPT !.lowlat = TRUE],
   [b EXCEPT !.prio = <<1, 5>>], [b EXCEPT !.prio = <<2, 4>>, !.rel = TRUE], [b EXCEPT !.rel = FALSE],
   [b EXCEPT !.shm = TRUE], [b EXCEPT !.maxLinks = 2], [b EXCEPT !.region = "r1", !.bound = "south"],
   [b EXCEPT !.bound = Err],
   [b EXCEPT !.pk = Pk(z, None)], [b EXCEPT !.pk = Pk(z, {})], [b EXCEPT !.pk = Pk(z, {1, 2})],
   [b EXCEPT !.pk = Pk(z, {7})],
   [b EXCEPT !.up = Up(None, <<>>)], [b EXCEPT !.up = Up([user |-> 1, pwd |-> 5], <<5>>)],
   [b EXCEPT !.up = Up([user |-> 1, pwd |-> 6], <<6>>)],
   [b EXCEPT !.up = Up([user |-> 2, pwd |-> 5], <<5>>)]}
   \cup {[b EXCEPT !.patch = v] : v \in IF z = 1 THEN {0, 2} ELSE {2}}
MCHsConfigs == {[o |-> x, a |-> y, sameHost |-> h, streamed |-> t] :
                x \in Vary(1), y \in Vary(2), h \in BOOLEAN, t \in BOOLEAN}

---------------------------------------------------------------------------
(* The unicast transports: two links, in or out, to one peer or two.          *)

L(p, i, m, ll, mx) == [peer |-> p, inbound |-> i, cfg |-> [multilink |-> m], lowlat |-> ll, mixed |-> mx]
MCWorlds == {<<L(1, TRUE, TRUE, FALSE, FALSE), L(1, FALSE, TRUE, FALSE, FALSE)>>,
             <<L(1, TRUE, TRUE, FALSE, FALSE), L(1, TRUE, TRUE, FALSE, FALSE)>>,
             <<L(1, TRUE, FALSE, FALSE, FALSE), L(1, TRUE, FALSE, FALSE, FALSE)>>,
             <<L(1, TRUE, FALSE, FALSE, FALSE), L(1, FALSE, TRUE, FALSE, FALSE)>>,
             <<L(1, TRUE, FALSE, FALSE, FALSE), L(2, TRUE, FALSE, FALSE, FALSE)>>,
             <<L(1, TRUE, FALSE, TRUE, TRUE), L(1, FALSE, FALSE, TRUE, FALSE)>>,
             <<L(1, TRUE, FALSE, TRUE, FALSE), L(9, FALSE, FALSE, TRUE, FALSE)>>}
MCClosing == {<<L(1, TRUE, TRUE, FALSE, FALSE), L(1, TRUE, TRUE, FALSE, FALSE)>>}

(* The links of a transport: two mixed ones and two plain ones.               *)
K(i, a, r, p, n) == [id |-> i, assoc |-> a, rel |-> r, prio |-> p, inbound |-> n]
MCPairs == {<<K(1, FALSE, TRUE, <<0, 7>>, TRUE)>>,
            <<K(2, FALSE, TRUE, <<0, 3>>, TRUE), K(3, TRUE, FALSE, <<0, 3>>, TRUE)>>,
            <<K(4, FALSE, FALSE, None, FALSE)>>,
            <<K(5, FALSE, TRUE, <<2, 4>>, TRUE), K(6, TRUE, FALSE, <<2, 4>>, TRUE)>>}
MCMessages == {[rel |-> TRUE, prio |-> 2], [rel |-> TRUE, prio |-> 6], [rel |-> FALSE, prio |-> 3]}

---------------------------------------------------------------------------
(* The multicast transport: joins that agree, disagree, and open it again.    *)

J(z, v, b, q) == [zid |-> z, version |-> v, reso |-> 3, batch |-> b, qos |-> q]
MCMcWorlds == {
  [node |-> <<J(1,9,8,TRUE)>>, opens |-> 1, ends |-> {"rx"}, frames |-> 2],
  [node |-> <<J(1,9,8,TRUE), J(2,9,8,FALSE)>>, opens |-> 1, ends |-> {}, frames |-> 1],
  [node |-> <<J(1,9,8,TRUE)>>, opens |-> 1, ends |-> {"tx", "user"}, frames |-> 0],
  [node |-> <<J(1,8,8,TRUE)>>, opens |-> 2, ends |-> {"user"}, frames |-> 1],
  [node |-> <<J(1,8,8,TRUE), J(2,9,7,TRUE)>>, opens |-> 1, ends |-> {"tx", "rx", "user"}, frames |-> 0]}
MCOwn == [version |-> 9, reso |-> 3, batch |-> 8, qos |-> TRUE]

(* Shared memory: slices of either kind, partners that read one protocol or two. *)
Raw(i, b) == [k |-> "raw", id |-> i, proto |-> 0, big |-> b, ptr |-> FALSE, chunk |-> None, gen |-> 0]
Shm(i, p) == [Raw(i, TRUE) EXCEPT !.k = "shm", !.proto = p]
Msg(s) == [body |-> "put", ext |-> FALSE, slices |-> s]
MCMsgs == <<Msg(<<Raw(1, TRUE)>>), Msg(<<Shm(2, 2), Raw(3, FALSE)>>), [Msg(<<>>) EXCEPT !.body = "del"],
            Msg(<<Raw(4, TRUE), Shm(5, 1), Shm(6, 2)>>), [Msg(<<Raw(7, TRUE)>>) EXCEPT !.body = "reply put"]>>
MCShWorlds == {[optimise |-> o, partner |-> p, readable |-> r, msgs |-> MCMsgs] :
  o \in BOOLEAN, p \in {{1}, {2}, {1, 2}}, r \in {{1}, {2}, {1, 2}}}

---------------------------------------------------------------------------
(* The controller's session on it: writes, reads and streams on up to two     *)
(* sessions in turn, Zenoh on or off.                                         *)

RtWorld(requests, attempts) ==
  [enabled |-> TRUE, requests |-> requests, fails |-> FALSE, stops |-> FALSE, attempts |-> attempts]
MCRtWorlds == {
  RtWorld({"p1", "q1"}, 2), RtWorld({"p1", "p2"}, 1), RtWorld({"q1", "q2"}, 2), RtWorld({"s"}, 2),
  [RtWorld({"p1"}, 1) EXCEPT !.stops = TRUE], [RtWorld({"q1"}, 1) EXCEPT !.stops = TRUE],
  [RtWorld({"p1", "q1"}, 1) EXCEPT !.enabled = FALSE, !.stops = TRUE],
  [RtWorld({"q1"}, 1) EXCEPT !.fails = TRUE]}

---------------------------------------------------------------------------
(* The Zenoh REST surface: Accept headers of up to two ranges on one call,    *)
(* and a PUT next to a call of any other kind.                                *)

ZrRange(t, s, q) == [range |-> <<t, s>>, q |-> q]
ZrGet == [method |-> "GET", grants |-> {"read"}, key |-> "k", params |-> {}, accept |-> <<>>,
          ctype |-> None, codings |-> <<>>, body |-> FALSE]
ZrRanges == {
  ZrRange("*", "*", None), ZrRange("text", "*", <<0, 10, 5>>), ZrRange("text", "html", <<0>>),
  ZrRange("text", "event-stream", <<0, 10, 7, 5>>), ZrRange("application", "json", <<1, 10, 0>>),
  ZrRange("application", "json", <<0, 10, 0, 0, 0, 1>>), [range |-> None, q |-> None],
  ZrRange("text", "html", <<1, 10, 5>>)}
ZrType(t, s, x, p) == [type |-> t, sub |-> s, suffix |-> x, params |-> p]
ZrPuts == {[ZrGet EXCEPT !.method = "PUT", !.grants = {"read", "write"}, !.ctype = ct, !.codings = cd] :
  ct \in {None, Err, ZrType("text", "plain", None, <<"charset=utf-8">>),
          ZrType("application", "json", None, <<>>), ZrType("application", "problem", "json", <<>>)},
  cd \in {<<>>, <<"gzip", "br">>, <<"gzip", "">>}}
ZrOther == {
  [ZrGet EXCEPT !.params = {"_raw"}], [ZrGet EXCEPT !.method = "DELETE", !.grants = {"write"}],
  [ZrGet EXCEPT !.method = "POST", !.grants = {"write"}, !.params = {"_liveliness"}, !.body = TRUE],
  [ZrGet EXCEPT !.method = "POST"], [ZrGet EXCEPT !.grants = None],
  [ZrGet EXCEPT !.params = {"_liveliness", "_time"}], [ZrGet EXCEPT !.params = {"_liveliness", "_raw"}],
  [ZrGet EXCEPT !.key = "@/local"], [ZrGet EXCEPT !.key = "invalid"], [ZrGet EXCEPT !.key = "empty"],
  [ZrGet EXCEPT !.method = "PUT", !.grants = {"write"}, !.key = "@/local"]}
ZrQueries == {[ZrGet EXCEPT !.accept = a] : a \in UNION {[1 .. n -> ZrRanges] : n \in 0 .. 2}}
MCZrRequests(load, c) ==
  CASE load = "accept" -> IF c = 1 THEN ZrQueries ELSE {}
    [] c = 1 -> ZrPuts
    [] c = 2 -> ZrOther
MCZrSettings ==
  [route : {TRUE}, admin : BOOLEAN, perms : {{"read"}}, connected : BOOLEAN, onboarding : {TRUE}, load : {"mix"}]
    \cup [route : {FALSE}, admin : {TRUE}, perms : {{}}, connected : {TRUE}, onboarding : {FALSE},
          load : {"mix", "accept"}]

---------------------------------------------------------------------------

transportVars == <<hsVars, utVars, tlVars, chVars, mcVars, shVars, rtVars, zrVars, focus>>

Rest(S) == CHOOSE x \in S : TRUE

MCInit ==
  /\ focus \in Focuses
  /\ focus # "handshake" => hsCfg = [o |-> HsBase(1), a |-> HsBase(2), sameHost |-> FALSE, streamed |-> FALSE]
  /\ focus # "transports" => utLink = Rest(UtWorlds)
  /\ focus # "channel" => tpWorld = Rest(TpWorlds)
  /\ focus # "multicast" => mcWorld = Rest(McWorlds)
  /\ focus # "memory" => shWorld = Rest(ShWorlds)
  /\ focus # "runtime" => rtWorld = Rest(RtWorlds)
  /\ focus # "rest" => zrConf = Rest(ZrSettings)
  /\ HsInit /\ UtInit /\ TlInit /\ ChInit /\ McInit /\ ShInit /\ RtInit /\ ZrInit

Handshake ==
  focus = "handshake" /\ HsNext /\ UNCHANGED <<utVars, tlVars, chVars, mcVars, shVars, rtVars, zrVars, focus>>
Transports ==
  focus = "transports" /\ UtNext /\ UNCHANGED <<hsVars, tlVars, chVars, mcVars, shVars, rtVars, zrVars, focus>>
Links ==
  focus = "links" /\ TlNext /\ UNCHANGED <<hsVars, utVars, chVars, mcVars, shVars, rtVars, zrVars, focus>>
Channel ==
  focus = "channel" /\ ChNext /\ UNCHANGED <<hsVars, utVars, tlVars, mcVars, shVars, rtVars, zrVars, focus>>
Multicast ==
  focus = "multicast" /\ McNext /\ UNCHANGED <<hsVars, utVars, tlVars, chVars, shVars, rtVars, zrVars, focus>>
Memory ==
  focus = "memory" /\ ShNextStep /\ UNCHANGED <<hsVars, utVars, tlVars, chVars, mcVars, rtVars, zrVars, focus>>
Runtime ==
  focus = "runtime" /\ RtNext /\ UNCHANGED <<hsVars, utVars, tlVars, chVars, mcVars, shVars, zrVars, focus>>
RestSurface ==
  focus = "rest" /\ ZrNext /\ UNCHANGED <<hsVars, utVars, tlVars, chVars, mcVars, shVars, rtVars, focus>>

MCNext == Handshake \/ Transports \/ Links \/ Channel \/ Multicast \/ Memory \/ Runtime \/ RestSurface

MCSpec == MCInit /\ [][MCNext]_transportVars
=============================================================================
