--------------------------- MODULE SharedMemory ---------------------------
(***************************************************************************)
(* Payloads through shared memory (shm.rs, shm_context.rs): what the sender *)
(* makes of the slices of a message, the provider of the implicit           *)
(* optimisation that is created in the background, and what the receiver    *)
(* mounts.                                                                  *)
(*                                                                          *)
(* A slice is [k, id, proto, big, ptr, chunk, gen]: a raw buffer or a       *)
(* shared-memory buffer of a protocol, its content, whether it is as large  *)
(* as the threshold, whether it travels as a pointer (ZSliceKind::ShmPtr),  *)
(* and the chunk of the provider it was copied to.  The provider allocates  *)
(* with the unsafe policy: a chunk whose pointer is still on the link may   *)
(* be collected and used again.                                             *)
(***************************************************************************)
EXTENDS Options

CONSTANTS ShWorlds,   \* [optimise, partner, readable, msgs]
          ShPosix,    \* the protocol of the provider's own buffers
          ShChunks    \* the chunks of the provider

VARIABLES shWorld,    \* the instance of this behaviour
          shProvider, \* LazyShmProvider: None, or its state
          shPool,     \* chunk -> [gen, id]: its generation and what it holds
          shWire,     \* the messages sent
          shGot       \* what reached the callback, [m, held]: None for a message that was dropped

shVars == <<shWorld, shProvider, shPool, shWire, shGot>>

\* The bodies that carry a buffer: Put, Err, a Query with a body, a Reply that is a Put.
HasPayload(m) == m.body \in {"put", "err", "query body", "reply put"}

\* TransportShmConfig::supports_protocol: what the partner's segment listed.
SupportsProtocol(proto) == proto \in shWorld.partner

\* try_get_provider: the first call starts the initialisation, a later one picks up
\* its result; "made" and "failed" are results not yet picked up.
TryGetProvider ==
  CASE shProvider = "enabled" -> "initializing"
    [] shProvider = "made" -> "ready"
    [] shProvider = "failed" -> "error"
    [] OTHER -> shProvider

\* wrap_in_place: a large enough raw slice is copied to a chunk of the provider, if
\* the provider is ready and finds one.
Wraps(s, provider) == s.k = "raw" /\ s.big /\ provider = "ready"
WrapInPlace(s, chunk) ==
  [s EXCEPT !.k = "shm", !.proto = ShPosix, !.ptr = TRUE, !.chunk = chunk, !.gen = shPool[chunk].gen + 1]

\* map_to_partner, slice by slice: a shared-memory buffer becomes a pointer only if
\* the partner supports its protocol.
MapSlice(s, chunk) ==
  IF chunk # None THEN WrapInPlace(s, chunk)
  ELSE IF s.k = "shm" /\ SupportsProtocol(s.proto) THEN [s EXCEPT !.ptr = TRUE]
  ELSE s

\* map_zmsg_to_partner; ext_shm says that there is a pointer among the slices.
MapToPartner(m, alloc) ==
  LET mapped == [i \in DOMAIN m.slices |-> MapSlice(m.slices[i], alloc[i])] IN
  IF ~ HasPayload(m) THEN m
  ELSE [m EXCEPT !.slices = mapped, !.ext = \E i \in DOMAIN mapped : mapped[i].ptr]

\* Chunks that a mounted buffer keeps.
Mounted == UNION {{shGot[i].m.slices[j].chunk : j \in DOMAIN shGot[i].m.slices} :
                  i \in {k \in DOMAIN shGot : shGot[k] # None /\ shGot[k].held}}

\* Where the slices of m may go: any chunk that is not mounted, each at most once, or
\* nowhere when the allocation fails.
Allocations(m, provider) ==
  {a \in [DOMAIN m.slices -> (ShChunks \ Mounted) \cup {None}] :
     /\ \A i \in DOMAIN a : a[i] # None => HasPayload(m) /\ Wraps(m.slices[i], provider)
     /\ \A i, j \in DOMAIN a : i # j /\ a[i] # None => a[i] # a[j]}

\* internal_schedule maps the message; every raw slice over the threshold asks for
\* the provider.
ShSend ==
  LET m == shWorld.msgs[Len(shWire) + 1]
      asks == HasPayload(m) /\ \E i \in DOMAIN m.slices : m.slices[i].k = "raw" /\ m.slices[i].big
      p == IF shProvider # None /\ asks THEN TryGetProvider ELSE shProvider IN
  /\ Len(shWire) < Len(shWorld.msgs)
  /\ shProvider' = p
  /\ \E alloc \in Allocations(m, p) :
       /\ shWire' = Append(shWire, MapToPartner(m, alloc))
       /\ shPool' = [c \in ShChunks |->
            IF \E i \in DOMAIN alloc : alloc[i] = c
            THEN [gen |-> shPool[c].gen + 1, id |-> m.slices[CHOOSE i \in DOMAIN alloc : alloc[i] = c].id]
            ELSE shPool[c]]
  /\ UNCHANGED <<shWorld, shGot>>

\* The blocking task that creates the provider ends.
ProviderMade ==
  /\ shProvider = "initializing"
  /\ shProvider' \in {"made", "failed"}
  /\ UNCHANGED <<shWorld, shPool, shWire, shGot>>

\* ShmReader::read_shmbuf: the protocol must be known and the chunk not used again.
ReadShmbuf(s) == s.proto \in shWorld.readable /\ (s.chunk # None => shPool[s.chunk].gen = s.gen)

\* map_zslice_to_shmbuf: the buffer behind the pointer, or an error: the pointer does
\* not decode (damaged), or it cannot be mounted.
Mount(s, damaged) == IF ~ damaged /\ ReadShmbuf(s) THEN [s EXCEPT !.ptr = FALSE] ELSE Err

\* Fault: a pointer that cannot be mounted is left in its place.
MapToShmbufGoesOn(m, damaged) ==
  LET mounted == [i \in DOMAIN m.slices |->
                    IF m.slices[i].ptr /\ Mount(m.slices[i], damaged) # Err THEN Mount(m.slices[i], damaged)
                    ELSE m.slices[i]] IN
  IF ~ HasPayload(m) \/ ~ m.ext THEN m ELSE [m EXCEPT !.ext = FALSE, !.slices = mounted]

\* map_zmsg_to_shmbuf: the pointers of a message that announces some are mounted; the
\* first error ends it.
MapToShmbuf(m, damaged) ==
  LET mounted == [i \in DOMAIN m.slices |->
                    IF m.slices[i].ptr THEN Mount(m.slices[i], damaged) ELSE m.slices[i]] IN
  IF ~ HasPayload(m) \/ ~ m.ext THEN m
  ELSE IF AnyErr(mounted) THEN Err
  ELSE [m EXCEPT !.ext = FALSE, !.slices = mounted]

\* trigger_callback: a message that cannot be mapped is dropped, any other goes to the
\* callback, which holds its buffers for a while.
ShReceive ==
  /\ Len(shGot) < Len(shWire)
  /\ \E damaged \in BOOLEAN :
       LET m == MapToShmbuf(shWire[Len(shGot) + 1], damaged) IN
       shGot' = Append(shGot, IF m = Err THEN None ELSE [m |-> m, held |-> TRUE])
  /\ UNCHANGED <<shWorld, shProvider, shPool, shWire>>

\* The application drops the message, and its mounted buffers with it.
ShRelease(i) ==
  /\ shGot[i] # None /\ shGot[i].held
  /\ shGot' = [shGot EXCEPT ![i].held = FALSE]
  /\ UNCHANGED <<shWorld, shProvider, shPool, shWire>>

\* init_new_transport_unicast: the provider is used only with the optimisation, and
\* for a partner that reads its protocol.
ShInit ==
  /\ shWorld \in ShWorlds
  /\ shProvider = IF shWorld.optimise /\ SupportsProtocol(ShPosix) THEN "enabled" ELSE None
  /\ shPool = [c \in ShChunks |-> [gen |-> 0, id |-> 0]]
  /\ shWire = <<>> /\ shGot = <<>>

ShNextStep == ShSend \/ ProviderMade \/ ShReceive \/ \E i \in DOMAIN shGot : ShRelease(i)

---------------------------------------------------------------------------
(* Properties                                                               *)

Reads(s) == IF s.chunk # None THEN shPool[s.chunk].id ELSE s.id

\* While the application holds a message it reads what was sent: no slice of it is a
\* pointer, and a slice in a chunk of the sender's provider holds the bytes of its own
\* message, though the sender may use a chunk again before its pointer is mounted.
\* And a message that announced no pointer is never dropped.
ContentSurvives ==
  \A i \in DOMAIN shGot :
    IF shGot[i] = None THEN shWire[i].ext
    ELSE shGot[i].held => \A j \in DOMAIN shGot[i].m.slices :
           LET s == shGot[i].m.slices[j] IN ~ s.ptr /\ Reads(s) = shWorld.msgs[i].slices[j].id
=============================================================================
