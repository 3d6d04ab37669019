--------------------------- MODULE LinkExtensions ---------------------------
(***************************************************************************)
(* The extensions of the unicast handshake (unicast/establishment/ext).    *)
(* Every extension is a pure function of its own state and of what the     *)
(* other side sent; the handshake itself is in LinkHandshake.  An          *)
(* extension that is not sent is None, a bail! is Err.                     *)
(*                                                                         *)
(* Keys, passwords, nonces and names are plain values.  Encryption keeps   *)
(* the key beside the clear text, so that only its owner can open it.      *)
(***************************************************************************)
EXTENDS Options

MinOf(a, b) == IF a < b THEN a ELSE b

---------------------------------------------------------------------------
(* qos.rs.  A state is NoQoS or a record; rel is TRUE for Reliable.        *)

NoQoS == None
QoS(prio, rel) == [prio |-> prio, rel |-> rel]

\* State::new: an endpoint's metadata only counts when QoS is configured.
QosNew(isQos, prio, rel) == IF isQos THEN QoS(prio, rel) ELSE NoQoS

\* State::to_u64, with the flag bits 0..2, the range in bits 3..18 and the
\* reliability in bit 19.
QosToU64(s) ==
  IF s = NoQoS THEN 0
  ELSE IF s.prio = None /\ s.rel = None THEN 1
  ELSE (IF s.prio = None THEN 0 ELSE 2 + s.prio[1] * 2^3 + s.prio[2] * 2^11)
     + (IF s.rel = None THEN 0 ELSE 4 + (IF s.rel THEN 2^19 ELSE 0))

\* State::try_from_u64: 0 and 1 are whole states; otherwise the flags say which
\* part is there, and a priority that does not exist is an error.
QosTryFromU64(v) ==
  LET bit(i) == (v \div 2^i) % 2 = 1
      byte(i) == (v \div 2^i) % 2^8
      prio == IF bit(1) THEN <<byte(3), byte(11)>> ELSE None
  IN IF v = 0 THEN NoQoS
     ELSE IF v = 1 THEN QoS(None, None)
     ELSE IF ~ bit(1) /\ ~ bit(2) THEN Err
     ELSE IF prio # None /\ (prio[1] > 7 \/ prio[2] > 7) THEN Err
     ELSE QoS(prio, IF bit(2) THEN bit(19) ELSE None)

\* State::to_exts: the plain QoS extension or the numeric QoSLink, never both.
QosToExts(s) ==
  [qos |-> s # NoQoS /\ QosToU64(s) = 1,
   link |-> IF s = NoQoS \/ QosToU64(s) = 1 THEN None ELSE QosToU64(s)]

\* State::try_from_exts
QosTryFromExts(e) ==
  IF e.qos /\ e.link # None THEN Err
  ELSE IF e.qos THEN QoS(None, None)
  ELSE IF e.link = None THEN NoQoS
  ELSE QosTryFromU64(e.link)

Includes(wide, range) == wide[1] <= range[1] /\ range[2] <= wide[2]

\* The part both receivers share: QoS only when both have it, a missing part
\* taken from the other side, equal reliabilities, and for the ranges the one
\* of the opener when the acceptor's covers it.
QosMerge(self, other, prios) ==
  IF other = Err THEN Err
  ELSE IF self = NoQoS \/ other = NoQoS THEN NoQoS
  ELSE LET one(a, b) == IF a = None THEN b ELSE IF b = None THEN a ELSE Err
           prio == IF self.prio # None /\ other.prio # None
                   THEN prios ELSE one(self.prio, other.prio)
           rel == IF self.rel = other.rel THEN self.rel ELSE one(self.rel, other.rel)
       IN IF prio = Err \/ rel = Err THEN Err ELSE QoS(prio, rel)

QosRecvInitAck(self, ext) ==
  LET other == QosTryFromExts(ext)
  IN QosMerge(self, other,
       IF Includes(other.prio, self.prio) THEN self.prio ELSE Err)

\* Fault: the acceptor keeps its own, wider range.
QosRecvInitSynKeepsOwn(self, ext) == QosMerge(self, QosTryFromExts(ext), self.prio)

QosRecvInitSyn(self, ext) ==
  LET other == QosTryFromExts(ext)
  IN QosMerge(self, other,
       IF Includes(self.prio, other.prio) THEN other.prio ELSE Err)

---------------------------------------------------------------------------
(* auth/pubkey.rs: mutual challenge on public keys.  An authenticator is    *)
(* None or [key, lookup]; lookup None accepts every key.                    *)

Encrypt(key, text) == [key |-> key, text |-> text]
Decrypt(key, cipher) == IF cipher # None /\ cipher.key = key THEN cipher.text ELSE Err

PkSendInitSyn(au) == [alice |-> au.key]

\* The acceptor's lookup is compared even when it is empty.
PkRecvInitSyn(au, ext, challenge) ==
  IF ext = None THEN Err
  ELSE IF au.lookup # None /\ ext.alice \notin au.lookup THEN Err
  ELSE [challenge |-> challenge, nonce |-> Encrypt(ext.alice, challenge)]

PkSendInitAck(au, s) == [bob |-> au.key, nonce |-> s.nonce]

\* The opener compares its lookup only when it is not empty.
PkRecvInitAck(au, ext) ==
  IF ext = None THEN Err
  ELSE IF au.lookup # None /\ au.lookup # {} /\ ext.bob \notin au.lookup THEN Err
  ELSE LET nonce == Decrypt(au.key, ext.nonce)
       IN IF nonce = Err THEN Err ELSE Encrypt(ext.bob, nonce)

PkSendOpenSyn(nonce) == [nonce |-> nonce]

PkRecvOpenSyn(au, s, ext) ==
  IF ext = None THEN Err
  ELSE IF Decrypt(au.key, ext.nonce) # s.challenge THEN Err ELSE s

\* The acknowledgement carries no value; its absence is the error.
PkRecvOpenAck(s, ext) == IF ext = None THEN Err ELSE s

\* What the cookie keeps of the acceptor's state: the challenge alone.
PkCookie(s) == [challenge |-> s.challenge, nonce |-> None]

---------------------------------------------------------------------------
(* auth/usrpwd.rs: the opener signs the acceptor's nonce with its password. *)
(* An authenticator is None or [cred, table]; cred is None or [user, pwd].  *)

Sign(nonce, pwd) == <<nonce, pwd>>

UpSendInitSyn(au) == IF au.cred = None THEN None ELSE TRUE
UpRecvInitSyn(s, ext) == IF ext = None THEN Err ELSE s

UpRecvInitAck(au, s, ext) ==
  IF au.cred = None THEN s ELSE IF ext = None THEN Err ELSE ext

UpSendOpenSyn(au, s) ==
  IF au.cred = None THEN None
  ELSE [user |-> au.cred.user, hmac |-> Sign(s, au.cred.pwd)]

UpRecvOpenSyn(au, s, ext) ==
  IF ext = None THEN Err
  ELSE IF ext.user \notin DOMAIN au.table THEN Err
  ELSE IF ext.hmac # Sign(s, au.table[ext.user]) THEN Err
  ELSE ext.user

UpRecvOpenAck(au, s, ext) == IF au.cred # None /\ ext = None THEN Err ELSE s

---------------------------------------------------------------------------
(* multilink.rs: the same challenge, with a key made for this process and no *)
(* lookup.  A state is None or [pk, peer]: the extension is dropped as soon   *)
(* as one side does not send it.                                             *)

MlNew(is) == IF is THEN [pk |-> None, peer |-> None] ELSE None
MlAuth(key) == [key |-> key, lookup |-> None]

MlRecvInitSyn(key, s, ext, challenge) ==
  IF s = None \/ ext = None THEN None
  ELSE [pk |-> PkRecvInitSyn(MlAuth(key), ext, challenge), peer |-> ext.alice]

MlRecvInitAck(key, s, ext) ==
  IF s = None \/ ext = None THEN None
  ELSE LET pk == PkRecvInitAck(MlAuth(key), ext)
       IN IF pk = Err THEN Err ELSE [pk |-> pk, peer |-> ext.bob]

MlRecvOpenSyn(key, s, ext) ==
  IF s = None THEN None
  ELSE IF PkRecvOpenSyn(MlAuth(key), s.pk, ext) = Err THEN Err ELSE s

MlRecvOpenAck(s, ext) == IF ext = None THEN None ELSE s

\* The accept state as the cookie carries it.
MlCookie(s) == IF s = None THEN None ELSE [pk |-> PkCookie(s.pk), peer |-> s.peer]

---------------------------------------------------------------------------
(* shm.rs: each side proves that it reads the other's segment, by returning  *)
(* the challenge found there.  segs maps a segment to its content; a segment *)
(* that cannot be opened is not in its domain.                               *)

\* AuthSegment::create keeps the challenge inverted.
ShmCreate(challenge) == - challenge - 1
ShmChallenge(segs, id) == - segs[id] - 1
ShmOpen(segs, id) == IF id \in DOMAIN segs THEN id ELSE None
ShmValidate(segs, mine, found) == ShmChallenge(segs, mine) = found

ShmRecvInitSyn(segs, ext) == IF ext = None THEN None ELSE ShmOpen(segs, ext)

ShmSendInitAck(segs, mine, alice) ==
  IF alice = None THEN None
  ELSE [challenge |-> ShmChallenge(segs, alice), bob |-> mine]

ShmRecvInitAck(segs, mine, ext) ==
  IF ext = None THEN None
  ELSE IF ~ ShmValidate(segs, mine, ext.challenge) THEN None
  ELSE ShmOpen(segs, ext.bob)

ShmSendOpenSyn(segs, bob) == IF bob = None THEN None ELSE ShmChallenge(segs, bob)

ShmRecvOpenSyn(segs, mine, ext) == ext # None /\ ShmValidate(segs, mine, ext)
ShmSendOpenAck(on) == IF on THEN 1 ELSE None
ShmRecvOpenAck(ext) == ext = 1

---------------------------------------------------------------------------
(* lowlatency.rs and compression.rs keep a flag only while both sides send   *)
(* it; patch.rs keeps the opener's level and answers the smaller of the two; *)
(* region_name.rs remembers the other side's name.                           *)

LowLatencyRecv(s, ext) == s /\ ext
CompressionRecv(s, ext) == s /\ ext

PatchRecvInitSyn(ext) == ext
PatchSendInitAck(current, s) == MinOf(current, s)
PatchRecvInitAck(current, ext) == IF ext > current THEN Err ELSE ext

\* PatchType::has_fragmentation_markers: since level 1.
HasFragmentationMarkers(level) == level >= 1

RegionRecv(ext) == ext
=============================================================================
