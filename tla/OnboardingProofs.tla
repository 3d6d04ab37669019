-------------------------- MODULE OnboardingProofs --------------------------
(***************************************************************************)
(* Enrollment for any invitations, Agents, keys, requests and snapshots:   *)
(* OnbInv is inductive, and from it an Agent has one key for each purpose, *)
(* a retired Agent stays out, the Device Projection is the newest snapshot *)
(* of the current enrollment, an invitation is consumed once, and every    *)
(* change of the active Agents moves the authority revision.               *)
(***************************************************************************)
EXTENDS Onboarding, FiniteSetTheorems, TLAPS

\* None is a value of its own.
LEMMA NoneFacts ==
  /\ None \notin Agents /\ None \notin 0..Horizon /\ None \notin KeyRows
  /\ None \notin {"created", "enrolled", "online", "expired", "revoked"}
  /\ Horizon \in Nat /\ Lifetime \in Nat
<1>1. None \notin Agents /\ None \notin Nat /\ None \notin KeyRows
      /\ None \notin {"created", "enrolled", "online", "expired", "revoked"}
  BY Zenon, OnboardingConstants DEF KeyRows
<1>2. Horizon \in Nat /\ Lifetime \in Nat
  BY OnboardingConstants
<1>3. \A x \in 0..Horizon : x \in Nat
  BY <1>2
<1> QED
  BY Zenon, <1>1, <1>2, <1>3

\* The keys persist_enrollment leaves.
KeysAfter(a, st) == [Registered(a, st, "state") EXCEPT ![a] = KeyRow(a, "transport")]

\* The steps that change no key and no Agent row.
LEMMA OtherSteps ==
  ASSUME OnbNext
  PROVE  \/ \E i \in Invitations : PersistEnrollment(i)
         \/ \E a \in Agents : RetireCredentials(a)
         \/ UNCHANGED <<agent, keys, retirements, revision>>
BY ZenonT(40) DEF OnbNext, CreateInvitation, RevokeInvitation, WrongSecret, EnrollLock, EnrollRollback,
   ReplayEnrollment, ListInvitations, PublishRead, PublishCommit

\* What a request under way is like.
LEMMA RequestFacts ==
  ASSUME OnbTypeOK, TimesInv, NEW i \in Invitations, tx[i] # None
  PROVE  /\ tx[i].request \in Requests /\ tx[i].at \in 0..Horizon
         /\ tx[i].request.agent \in Agents
         /\ tx[i].request.state \in StateKeys \ {tx[i].request.agent}
         /\ tx[i].request.snapshot \in Snapshots
<1>1. tx[i] \in [request : Requests, at : 0..Horizon]
  BY Zenon DEF OnbTypeOK
<1>2. ValidEnrollment(tx[i].request)
  BY Zenon DEF TimesInv
<1>3. tx[i].request \in Requests /\ tx[i].at \in 0..Horizon
  BY Zenon, <1>1
<1>4. tx[i].request.agent \in Agents /\ tx[i].request.snapshot \in Snapshots
  BY <1>3, OnboardingConstants
<1> QED
  BY Zenon, <1>2, <1>3, <1>4 DEF ValidEnrollment, Identified, ValidStateKey
-----------------------------------------------------------------------------
(* Types.                                                                  *)

\* One row of invitations changes to a row.
LEMMA RowChanges ==
  ASSUME inv \in [Invitations -> InvitationRows], NEW i \in Invitations, NEW r \in InvitationRows,
         inv' = [inv EXCEPT ![i] = r]
  PROVE  /\ inv' \in [Invitations -> InvitationRows]
         /\ inv'[i] = r
         /\ \A j \in Invitations \ {i} : inv'[j] = inv[j]
BY Zenon

\* The rows each write makes.
LEMMA RowTypes ==
  /\ NoInvitation \in InvitationRows
  /\ \A t \in Nat : [NoInvitation EXCEPT !.state = "created", !.expires = t] \in InvitationRows
  /\ \A r \in InvitationRows :
       /\ [r EXCEPT !.state = "expired"] \in InvitationRows
       /\ [r EXCEPT !.state = "revoked"] \in InvitationRows
       /\ \A s \in Snapshots : [r EXCEPT !.state = "online", !.snapshot = s] \in InvitationRows
       /\ \A q \in Requests, t \in 0..Horizon :
            [r EXCEPT !.state = "enrolled", !.agent = q.agent, !.at = t,
                      !.fingerprint = Fingerprint(q), !.snapshot = q.snapshot] \in InvitationRows
<1>1. NoInvitation \in InvitationRows
  BY NoneFacts DEF NoInvitation, InvitationRows
<1>2. \A t \in Nat : [NoInvitation EXCEPT !.state = "created", !.expires = t] \in InvitationRows
  BY Zenon, NoneFacts DEF NoInvitation, InvitationRows
<1>3. ASSUME NEW r \in InvitationRows
      PROVE  /\ [r EXCEPT !.state = "expired"] \in InvitationRows
             /\ [r EXCEPT !.state = "revoked"] \in InvitationRows
             /\ \A s \in Snapshots : [r EXCEPT !.state = "online", !.snapshot = s] \in InvitationRows
  BY Zenon DEF InvitationRows
<1>4. ASSUME NEW r \in InvitationRows, NEW q \in Requests, NEW t \in 0..Horizon
      PROVE  [r EXCEPT !.state = "enrolled", !.agent = q.agent, !.at = t,
                       !.fingerprint = Fingerprint(q), !.snapshot = q.snapshot] \in InvitationRows
  <2>1. q.agent \in Agents /\ q.snapshot \in Snapshots
    BY OnboardingConstants
  <2>2. Fingerprint(q) \in {Fingerprint(x) : x \in Requests}
    OBVIOUS
  <2> DEFINE f == Fingerprint(q)
             F == {Fingerprint(x) : x \in Requests}
  <2>3. f \in F
    BY <2>2
  <2> HIDE DEF f, F
  <2>4. ASSUME r \in [state : {None, "created", "enrolled", "online", "expired", "revoked"},
                      expires : Nat, agent : Agents \cup {None}, at : (0..Horizon) \cup {None},
                      fingerprint : F \cup {None}, snapshot : Snapshots \cup {None}]
        PROVE  [r EXCEPT !.state = "enrolled", !.agent = q.agent, !.at = t,
                         !.fingerprint = f, !.snapshot = q.snapshot]
               \in [state : {None, "created", "enrolled", "online", "expired", "revoked"},
                    expires : Nat, agent : Agents \cup {None}, at : (0..Horizon) \cup {None},
                    fingerprint : F \cup {None}, snapshot : Snapshots \cup {None}]
    BY Zenon, <2>1, <2>3, <2>4
  <2> QED
    BY Zenon, <2>4 DEF f, F, InvitationRows
<1> QED
  BY Zenon, <1>1, <1>2, <1>3, <1>4

\* Register changes the keys of one Agent's purpose, and retirement its active keys, to rows.
LEMMA KeyTypes ==
  ASSUME OnbTypeOK, NEW a \in Agents
  PROVE  /\ \A p \in {"transport", "state"} : KeyRow(a, p) \in KeyRows
         /\ \A k \in DOMAIN keys : keys[k] \in KeyRows => RetireKey(keys[k]) \in KeyRows
         /\ DOMAIN keys = StateKeys \cup Agents
         /\ None \notin KeyRows
<1>1. \A p \in {"transport", "state"} : KeyRow(a, p) \in KeyRows
  BY DEF KeyRow, KeyRows
<1>2. \A r \in KeyRows : RetireKey(r) \in KeyRows
  BY Zenon DEF KeyRows, RetireKey
<1> QED
  BY Zenon, <1>1, <1>2, NoneFacts DEF OnbTypeOK

LEMMA PersistKeys ==
  ASSUME OnbTypeOK, NEW a \in Agents, NEW st \in StateKeys \ {a},
         keys' = KeysAfter(a, st)
  PROVE  /\ keys' \in [StateKeys \cup Agents -> KeyRows \cup {None}]
         /\ keys'[a] = KeyRow(a, "transport")
         /\ keys'[st] = KeyRow(a, "state")
         /\ \A x \in (StateKeys \cup Agents) \ {a, st} :
              keys'[x] = IF ActiveKey(a, x, "state") THEN RetireKey(keys[x]) ELSE keys[x]
<1> DEFINE D == StateKeys \cup Agents
           R == [x \in D |-> IF x = st THEN KeyRow(a, "state")
                             ELSE IF ActiveKey(a, x, "state") THEN RetireKey(keys[x])
                             ELSE keys[x]]
<1>0. keys \in [D -> KeyRows \cup {None}] /\ DOMAIN keys = D /\ a \in D /\ st \in D /\ a # st
  BY Zenon DEF OnbTypeOK
<1>1. Registered(a, st, "state") = R
  BY Zenon, <1>0 DEF Registered
<1>2. \A x \in D : R[x] \in KeyRows \cup {None}
  <2> SUFFICES ASSUME NEW x \in D PROVE R[x] \in KeyRows \cup {None}
    BY Zenon
  <2>1. CASE x = st
    BY Zenon, <2>1, KeyTypes
  <2>2. CASE x # st /\ ActiveKey(a, x, "state")
    <3>1. keys[x] \in KeyRows
      BY Zenon, <2>2, KeyTypes DEF ActiveKey
    <3> QED
      BY Zenon, <2>2, <3>1, <1>0, KeyTypes
  <2>3. CASE x # st /\ ~ActiveKey(a, x, "state")
    BY Zenon, <2>3, <1>0
  <2> QED
    BY Zenon, <2>1, <2>2, <2>3
<1>3. R \in [D -> KeyRows \cup {None}]
  BY Zenon, <1>2
<1>4. keys' = [R EXCEPT ![a] = KeyRow(a, "transport")]
  BY Zenon, <1>1 DEF KeysAfter
<1>5. KeyRow(a, "transport") \in KeyRows
  BY Zenon, KeyTypes
<1>6. keys' \in [D -> KeyRows \cup {None}]
  BY Zenon, <1>3, <1>4, <1>5
<1>7. keys'[a] = KeyRow(a, "transport") /\ \A x \in D \ {a} : keys'[x] = R[x]
  BY Zenon, <1>0, <1>3, <1>4
<1> QED
  BY Zenon, <1>0, <1>6, <1>7

LEMMA RetireKeys ==
  ASSUME OnbTypeOK, NEW a \in Agents, RetireCredentials(a)
  PROVE  /\ keys' \in [StateKeys \cup Agents -> KeyRows \cup {None}]
         /\ \A k \in StateKeys \cup Agents :
              keys'[k] = IF ActiveKey(a, k, "transport") \/ ActiveKey(a, k, "state")
                           THEN RetireKey(keys[k]) ELSE keys[k]
<1> DEFINE D == StateKeys \cup Agents
           R == [k \in D |-> IF ActiveKey(a, k, "transport") \/ ActiveKey(a, k, "state")
                               THEN RetireKey(keys[k]) ELSE keys[k]]
<1>0. keys \in [D -> KeyRows \cup {None}] /\ DOMAIN keys = D
  BY Zenon DEF OnbTypeOK
<1>1. keys' = R
  <2> DEFINE active == {k \in DOMAIN keys : \E p \in {"transport", "state"} : ActiveKey(a, k, p)}
  <2>1. keys' = [k \in D |-> IF k \in active THEN RetireKey(keys[k]) ELSE keys[k]]
    BY Zenon, <1>0 DEF RetireCredentials
  <2>2. \A k \in D : k \in active <=> ActiveKey(a, k, "transport") \/ ActiveKey(a, k, "state")
    BY Zenon, <1>0
  <2> HIDE DEF active
  <2> QED
    BY Zenon, <2>1, <2>2
<1>2. \A k \in D : R[k] \in KeyRows \cup {None}
  <2> SUFFICES ASSUME NEW k \in D PROVE R[k] \in KeyRows \cup {None}
    BY Zenon
  <2>1. CASE ActiveKey(a, k, "transport") \/ ActiveKey(a, k, "state")
    <3>1. keys[k] \in KeyRows
      BY Zenon, <2>1, KeyTypes DEF ActiveKey
    <3> QED
      BY Zenon, <2>1, <3>1, <1>0, KeyTypes
  <2>2. CASE ~(ActiveKey(a, k, "transport") \/ ActiveKey(a, k, "state"))
    BY Zenon, <2>2, <1>0
  <2> QED
    BY Zenon, <2>1, <2>2
<1> QED
  BY Zenon, <1>1, <1>2


\* The tables keep their types.
LEMMA TypeStep ==
  ASSUME OnbTypeOK, TimesInv, OnbNext
  PROVE  OnbTypeOK'
<1>0. /\ now \in 0..Horizon /\ inv \in [Invitations -> InvitationRows]
      /\ attempts \in [Invitations -> SUBSET (0..Horizon)]
      /\ tx \in [Invitations -> [request : Requests, at : 0..Horizon] \cup {None}]
      /\ agent \in [Agents -> (0..Horizon) \cup {None}]
      /\ DOMAIN devices = Agents /\ retirements \in [Agents -> Nat] /\ revision \in Nat
  BY Zenon DEF OnbTypeOK
<1>t. ReadClock => now' \in 0..Horizon
  BY <1>0, NoneFacts DEF ReadClock
<1>1. ASSUME NEW i \in Invitations, CreateInvitation(i) PROVE OnbTypeOK'
  <2>1. now + Lifetime \in Nat
    BY <1>0, NoneFacts
  <2>2. inv' \in [Invitations -> InvitationRows]
    BY Zenon, <1>0, <1>1, <2>1, RowTypes, RowChanges DEF CreateInvitation
  <2> QED
    BY Zenon, <1>1, <2>2 DEF CreateInvitation, OnbTypeOK
<1>2. ASSUME NEW i \in Invitations, RevokeInvitation(i) PROVE OnbTypeOK'
  <2>1. inv' = [inv EXCEPT ![i] = [inv[i] EXCEPT !.state = "revoked"]]
    BY Zenon, <1>2 DEF RevokeInvitation
  <2>2. inv' \in [Invitations -> InvitationRows]
    BY Zenon, <1>0, <2>1, RowTypes, RowChanges
  <2> QED
    BY Zenon, <1>2, <2>2 DEF RevokeInvitation, OnbTypeOK
<1>3. ASSUME NEW i \in Invitations, WrongSecret(i) PROVE OnbTypeOK'
  <2>1. RecentFailures(i, now) \cup {now} \in SUBSET (0..Horizon)
    BY Zenon, <1>0 DEF RecentFailures
  <2>2. attempts' \in [Invitations -> SUBSET (0..Horizon)]
    BY Zenon, <1>0, <1>3, <2>1 DEF WrongSecret
  <2> QED
    BY Zenon, <1>3, <1>t, <2>2 DEF WrongSecret, OnbTypeOK
<1>4. ASSUME NEW i \in Invitations, NEW r \in Requests, EnrollLock(i, r) PROVE OnbTypeOK'
  <2>1. [request |-> r, at |-> now] \in [request : Requests, at : 0..Horizon]
    BY Zenon, <1>0
  <2>2. tx' \in [Invitations -> [request : Requests, at : 0..Horizon] \cup {None}]
    BY Zenon, <1>0, <1>4, <2>1 DEF EnrollLock
  <2> QED
    BY Zenon, <1>4, <1>t, <2>2 DEF EnrollLock, OnbTypeOK
<1>5. ASSUME NEW i \in Invitations, EnrollRollback(i) PROVE OnbTypeOK'
  <2>1. tx' \in [Invitations -> [request : Requests, at : 0..Horizon] \cup {None}]
    BY Zenon, <1>0, <1>5 DEF EnrollRollback
  <2> QED
    BY Zenon, <1>5, <2>1 DEF EnrollRollback, OnbTypeOK
<1>6. ASSUME NEW i \in Invitations, PersistEnrollment(i) PROVE OnbTypeOK'
  <2> DEFINE r == tx[i].request
             a == r.agent
             row == [inv[i] EXCEPT !.state = "enrolled", !.agent = a, !.at = tx[i].at,
                                   !.fingerprint = Fingerprint(r), !.snapshot = r.snapshot]
  <2>0. /\ r \in Requests /\ tx[i].at \in 0..Horizon /\ a \in Agents
        /\ r.state \in StateKeys \ {a} /\ inv[i] \in InvitationRows
    BY Zenon, <1>0, <1>6, RequestFacts DEF PersistEnrollment
  <2>1. inv' = [inv EXCEPT ![i] = row]
    BY Zenon, <1>6 DEF PersistEnrollment
  <2>2. inv' \in [Invitations -> InvitationRows]
    BY Zenon, <1>0, <2>0, <2>1, RowTypes, RowChanges
  <2>a. keys' = KeysAfter(a, r.state)
    BY Zenon, <1>6 DEF PersistEnrollment, KeysAfter
  <2>3. keys' \in [StateKeys \cup Agents -> KeyRows \cup {None}]
    BY Zenon, <2>0, <2>a, PersistKeys
  <2>4. agent' \in [Agents -> (0..Horizon) \cup {None}]
    BY Zenon, <1>0, <1>6, <2>0 DEF PersistEnrollment
  <2>5. /\ attempts' \in [Invitations -> SUBSET (0..Horizon)]
        /\ tx' \in [Invitations -> [request : Requests, at : 0..Horizon] \cup {None}]
        /\ DOMAIN devices' = Agents
        /\ now' = now /\ pub' = pub /\ retirements' = retirements
    BY Zenon, <1>0, <1>6 DEF PersistEnrollment
  <2>6. revision' \in Nat
    <3>1. revision' = revision + 1
      BY Zenon, <1>6 DEF PersistEnrollment
    <3> QED
      BY <1>0, <3>1
  <2> QED
    BY Zenon, <2>2, <2>3, <2>4, <2>5, <2>6 DEF OnbTypeOK
<1>7. ASSUME NEW i \in Invitations, ReplayEnrollment(i) PROVE OnbTypeOK'
  <2>1. tx' \in [Invitations -> [request : Requests, at : 0..Horizon] \cup {None}]
    BY Zenon, <1>0, <1>7 DEF ReplayEnrollment
  <2> QED
    BY Zenon, <1>7, <2>1 DEF ReplayEnrollment, OnbTypeOK
<1>8. ASSUME ListInvitations PROVE OnbTypeOK'
  <2>1. \A i \in Invitations : Expired(i, now) \in InvitationRows
    BY Zenon, <1>0, RowTypes DEF Expired
  <2>2. inv' \in [Invitations -> InvitationRows]
    BY Zenon, <1>8, <2>1 DEF ListInvitations
  <2> QED
    BY Zenon, <1>8, <1>t, <2>2 DEF ListInvitations, OnbTypeOK
<1>9. ASSUME NEW a \in Agents, RetireCredentials(a) PROVE OnbTypeOK'
  <2>1. keys' \in [StateKeys \cup Agents -> KeyRows \cup {None}]
    BY Zenon, <1>9, RetireKeys
  <2>2. inv' \in [Invitations -> InvitationRows]
    <3>1. \A i \in Invitations :
             (IF inv[i].agent = a /\ inv[i].state \in {"enrolled", "online"}
                THEN [inv[i] EXCEPT !.state = "revoked"] ELSE inv[i]) \in InvitationRows
      BY Zenon, <1>0, RowTypes
    <3> QED
      BY Zenon, <1>9, <3>1 DEF RetireCredentials
  <2>3. PICK n \in {0, 1}, m \in {0, 1} :
          retirements' = [retirements EXCEPT ![a] = @ + n] /\ revision' = revision + m
    BY Zenon, <1>9 DEF RetireCredentials, TriggerFires
  <2>4. retirements[a] + n \in Nat /\ revision + m \in Nat
    BY <1>0
  <2>5. retirements' \in [Agents -> Nat] /\ revision' \in Nat
    BY Zenon, <1>0, <2>3, <2>4
  <2>6. /\ DOMAIN devices' = Agents
        /\ now' = now /\ pub' = pub /\ attempts' = attempts /\ tx' = tx /\ agent' = agent
    BY Zenon, <1>0, <1>9 DEF RetireCredentials
  <2> QED
    BY Zenon, <2>1, <2>2, <2>5, <2>6 DEF OnbTypeOK
<1>10. ASSUME NEW a \in Agents, NEW s \in Snapshots, PublishRead(a, s) PROVE OnbTypeOK'
  <2>1. agent[a] \in 0..Horizon
    BY Zenon, <1>0, <1>10 DEF PublishRead
  <2>2. pub' \in [agent : Agents, snapshot : Snapshots, enrolled : 0..Horizon]
    BY Zenon, <1>10, <2>1 DEF PublishRead
  <2> QED
    BY Zenon, <1>10, <2>2 DEF PublishRead, OnbTypeOK
<1>11. ASSUME PublishCommit PROVE OnbTypeOK'
  <2>1. pub \in [agent : Agents, snapshot : Snapshots, enrolled : 0..Horizon]
    BY Zenon, <1>11 DEF PublishCommit, OnbTypeOK
  <2>2. inv' \in [Invitations -> InvitationRows] /\ DOMAIN devices' = Agents
    <3>1. CASE UNCHANGED <<inv, devices>>
      BY Zenon, <1>0, <3>1
    <3>2. ASSUME NEW i \in Invitations,
                 inv' = [inv EXCEPT ![i] = [@ EXCEPT !.state = "online", !.snapshot = pub.snapshot]],
                 devices' = [devices EXCEPT ![pub.agent] = pub.snapshot.inventory]
          PROVE  inv' \in [Invitations -> InvitationRows] /\ DOMAIN devices' = Agents
      <4>1. pub.snapshot \in Snapshots
        BY Zenon, <2>1
      <4>2. inv' = [inv EXCEPT ![i] = [inv[i] EXCEPT !.state = "online", !.snapshot = pub.snapshot]]
        BY Zenon, <3>2
      <4>3. inv' \in [Invitations -> InvitationRows]
        BY Zenon, <1>0, <4>1, <4>2, RowTypes, RowChanges
      <4> QED
        BY Zenon, <1>0, <3>2, <4>3
    <3> QED
      BY Zenon, <1>11, <3>1, <3>2 DEF PublishCommit, BoundInvitation
  <2> QED
    BY Zenon, <1>11, <2>2 DEF PublishCommit, OnbTypeOK
<1> QED
  BY Zenon, <1>1, <1>2, <1>3, <1>4, <1>5, <1>6, <1>7, <1>8, <1>9, <1>10, <1>11 DEF OnbNext

-----------------------------------------------------------------------------
(* What the writing transactions do, row by row.                           *)

\* persist_enrollment writes one invitation, one Agent and two keys.
LEMMA PersistFacts ==
  ASSUME OnbTypeOK, TimesInv, NEW i \in Invitations, PersistEnrollment(i)
  PROVE  LET r == tx[i].request
             a == r.agent
         IN
             /\ a \in Agents /\ r.state \in StateKeys \ {a} /\ inv[i].state = "created" /\ tx[i] # None
             /\ inv'[i].state = "enrolled" /\ inv'[i].agent = a /\ inv'[i].at = tx[i].at
             /\ inv'[i].snapshot = r.snapshot /\ tx'[i] = None
             /\ \A j \in Invitations \ {i} : inv'[j] = inv[j] /\ tx'[j] = tx[j]
             /\ agent'[a] = tx[i].at /\ agent'[a] # None
             /\ devices'[a] = r.snapshot.inventory
             /\ \A b \in Agents \ {a} : agent'[b] = agent[b] /\ devices'[b] = devices[b]
             /\ keys[a] \in {None, KeyRow(a, "transport")} /\ keys[r.state] \in {None, KeyRow(a, "state")}
             /\ keys'[a] = KeyRow(a, "transport") /\ keys'[r.state] = KeyRow(a, "state")
             /\ \A x \in (StateKeys \cup Agents) \ {a, r.state} :
                  keys'[x] = IF ActiveKey(a, x, "state") THEN RetireKey(keys[x]) ELSE keys[x]
             /\ revision' = revision + 1
             /\ UNCHANGED <<now, pub, retirements>>
<1> DEFINE r == tx[i].request
           a == r.agent
<1>1. /\ tx[i] # None /\ inv[i].state = "created"
      /\ MayRegister(a, a, "transport") /\ MayRegister(a, r.state, "state")
      /\ agent' = [agent EXCEPT ![a] = tx[i].at]
      /\ devices' = [devices EXCEPT ![a] = r.snapshot.inventory]
      /\ keys' = KeysAfter(a, r.state)
      /\ inv' = [inv EXCEPT ![i] = [inv[i] EXCEPT !.state = "enrolled", !.agent = a, !.at = tx[i].at,
                                                  !.fingerprint = Fingerprint(r), !.snapshot = r.snapshot]]
      /\ revision' = revision + 1
      /\ tx' = [tx EXCEPT ![i] = None]
      /\ UNCHANGED <<now, pub, retirements>>
  BY Zenon DEF PersistEnrollment, KeysAfter
<1>2. /\ a \in Agents /\ r.state \in StateKeys \ {a} /\ tx[i].at \in 0..Horizon
      /\ inv \in [Invitations -> InvitationRows] /\ agent \in [Agents -> (0..Horizon) \cup {None}]
      /\ DOMAIN devices = Agents /\ DOMAIN tx = Invitations
  BY Zenon, <1>1, RequestFacts DEF OnbTypeOK
<1>3. /\ keys'[a] = KeyRow(a, "transport") /\ keys'[r.state] = KeyRow(a, "state")
      /\ \A x \in (StateKeys \cup Agents) \ {a, r.state} :
           keys'[x] = IF ActiveKey(a, x, "state") THEN RetireKey(keys[x]) ELSE keys[x]
  BY ZenonT(40), <1>1, <1>2, PersistKeys
<1>4. /\ inv'[i] = [inv[i] EXCEPT !.state = "enrolled", !.agent = a, !.at = tx[i].at,
                                  !.fingerprint = Fingerprint(r), !.snapshot = r.snapshot]
      /\ \A j \in Invitations \ {i} : inv'[j] = inv[j]
  BY Zenon, <1>1, <1>2
<1>5. DOMAIN inv[i] = {"state", "expires", "agent", "at", "fingerprint", "snapshot"}
  BY Zenon, <1>2 DEF InvitationRows
<1>6. /\ inv'[i].state = "enrolled" /\ inv'[i].agent = a /\ inv'[i].at = tx[i].at
      /\ inv'[i].snapshot = r.snapshot
  BY Zenon, <1>4, <1>5
<1>7. /\ agent'[a] = tx[i].at /\ \A b \in Agents \ {a} : agent'[b] = agent[b]
      /\ devices'[a] = r.snapshot.inventory /\ \A b \in Agents \ {a} : devices'[b] = devices[b]
      /\ tx'[i] = None /\ \A j \in Invitations \ {i} : tx'[j] = tx[j]
  BY Zenon, <1>1, <1>2
<1>8. tx[i].at # None
  BY Zenon, <1>2, NoneFacts
<1> QED
  BY Zenon, <1>1, <1>2, <1>3, <1>4, <1>6, <1>7, <1>8 DEF MayRegister

\* retire_agent_credentials revokes the Agent's keys and invitations.
LEMMA RetireFacts ==
  ASSUME OnbTypeOK, NEW a \in Agents, RetireCredentials(a)
  PROVE  /\ agent[a] # None /\ UNCHANGED <<now, tx, agent>>
         /\ \A k \in StateKeys \cup Agents :
              keys'[k] = IF ActiveKey(a, k, "transport") \/ ActiveKey(a, k, "state")
                           THEN RetireKey(keys[k]) ELSE keys[k]
         /\ \A i \in Invitations :
              \/ /\ inv[i].agent = a /\ inv[i].state \in {"enrolled", "online"}
                 /\ inv'[i].state = "revoked" /\ inv'[i].agent = inv[i].agent /\ inv'[i].at = inv[i].at
                 /\ inv'[i].fingerprint = inv[i].fingerprint
              \/ /\ ~(inv[i].agent = a /\ inv[i].state \in {"enrolled", "online"})
                 /\ inv'[i] = inv[i]
         /\ devices'[a] = {} /\ \A b \in Agents \ {a} : devices'[b] = devices[b]
         /\ \A b \in Agents \ {a} : retirements'[b] = retirements[b]
         /\ \/ /\ \E k \in StateKeys \cup Agents : ActiveKey(a, k, "transport") \/ ActiveKey(a, k, "state")
               /\ retirements'[a] = retirements[a] + 1 /\ revision' = revision + 1
            \/ /\ ~\E k \in StateKeys \cup Agents : ActiveKey(a, k, "transport") \/ ActiveKey(a, k, "state")
               /\ retirements'[a] = retirements[a] /\ revision' = revision
<1> DEFINE act == {k \in DOMAIN keys : \E p \in {"transport", "state"} : ActiveKey(a, k, p)}
           n == IF act # {} THEN 1 ELSE 0
<1>1. /\ agent[a] # None /\ UNCHANGED <<now, tx, agent>>
      /\ inv' = [i \in Invitations |-> IF inv[i].agent = a /\ inv[i].state \in {"enrolled", "online"}
                                         THEN [inv[i] EXCEPT !.state = "revoked"] ELSE inv[i]]
      /\ devices' = [devices EXCEPT ![a] = {}]
      /\ retirements' = [retirements EXCEPT ![a] = retirements[a] + n]
      /\ revision' = revision + n
  BY Zenon DEF RetireCredentials, TriggerFires
<1>2. /\ DOMAIN devices = Agents /\ retirements \in [Agents -> Nat] /\ revision \in Nat
      /\ DOMAIN keys = StateKeys \cup Agents /\ inv \in [Invitations -> InvitationRows]
  BY Zenon DEF OnbTypeOK
<1>3. act # {} <=> \E k \in StateKeys \cup Agents : ActiveKey(a, k, "transport") \/ ActiveKey(a, k, "state")
  <2>1. ASSUME NEW k \in act
        PROVE  k \in StateKeys \cup Agents /\ (ActiveKey(a, k, "transport") \/ ActiveKey(a, k, "state"))
    BY Zenon, <1>2
  <2>2. ASSUME NEW k \in StateKeys \cup Agents, ActiveKey(a, k, "transport") \/ ActiveKey(a, k, "state")
        PROVE  k \in act
    BY Zenon, <1>2, <2>2
  <2> HIDE DEF act
  <2> QED
    BY Zenon, <2>1, <2>2
<1>4. /\ devices'[a] = {} /\ \A b \in Agents \ {a} : devices'[b] = devices[b]
      /\ retirements'[a] = retirements[a] + n /\ \A b \in Agents \ {a} : retirements'[b] = retirements[b]
  BY Zenon, <1>1, <1>2
<1>5. retirements[a] + 0 = retirements[a] /\ revision + 0 = revision
  BY <1>2
<1>6. ASSUME NEW i \in Invitations, inv[i].agent = a, inv[i].state \in {"enrolled", "online"}
      PROVE  /\ inv'[i].state = "revoked" /\ inv'[i].agent = inv[i].agent /\ inv'[i].at = inv[i].at
             /\ inv'[i].fingerprint = inv[i].fingerprint
  <2>1. inv'[i] = [inv[i] EXCEPT !.state = "revoked"]
    BY Zenon, <1>1, <1>6
  <2>2. DOMAIN inv[i] = {"state", "expires", "agent", "at", "fingerprint", "snapshot"}
    BY Zenon, <1>2 DEF InvitationRows
  <2> QED
    BY Zenon, <2>1, <2>2
<1>7. \A i \in Invitations : ~(inv[i].agent = a /\ inv[i].state \in {"enrolled", "online"}) => inv'[i] = inv[i]
  BY Zenon, <1>1
<1>8. \/ act # {} /\ n = 1
      \/ act = {} /\ n = 0
  BY Zenon
<1> HIDE DEF act, n
<1>9. \/ /\ \E k \in StateKeys \cup Agents : ActiveKey(a, k, "transport") \/ ActiveKey(a, k, "state")
         /\ retirements'[a] = retirements[a] + 1 /\ revision' = revision + 1
      \/ /\ ~\E k \in StateKeys \cup Agents : ActiveKey(a, k, "transport") \/ ActiveKey(a, k, "state")
         /\ retirements'[a] = retirements[a] /\ revision' = revision
  BY Zenon, <1>1, <1>3, <1>4, <1>5, <1>8
<1> QED
  BY Zenon, <1>1, <1>4, <1>6, <1>7, <1>9, RetireKeys


\* A publication writes the invitation of the current enrollment, or nothing.
LEMMA PublishFacts ==
  ASSUME OnbTypeOK, PublishCommit
  PROVE  /\ pub.agent \in Agents /\ UNCHANGED <<now, tx, agent, keys, retirements, revision>>
         /\ \/ UNCHANGED <<inv, devices>>
            \/ \E i \in Invitations :
                 /\ inv[i].agent = pub.agent /\ inv[i].at = agent[pub.agent]
                 /\ inv[i].state \in {"enrolled", "online"}
                 /\ inv'[i].state = "online" /\ inv'[i].snapshot = pub.snapshot
                 /\ inv'[i].agent = inv[i].agent /\ inv'[i].at = inv[i].at
                 /\ inv'[i].fingerprint = inv[i].fingerprint
                 /\ \A j \in Invitations \ {i} : inv'[j] = inv[j]
                 /\ devices'[pub.agent] = pub.snapshot.inventory
                 /\ \A b \in Agents \ {pub.agent} : devices'[b] = devices[b]
<1>1. pub \in [agent : Agents, snapshot : Snapshots, enrolled : 0..Horizon]
  BY Zenon DEF PublishCommit, OnbTypeOK
<1>2. pub.agent \in Agents /\ inv \in [Invitations -> InvitationRows] /\ DOMAIN devices = Agents
  BY Zenon, <1>1 DEF OnbTypeOK
<1>3. UNCHANGED <<now, tx, agent, keys, retirements, revision>>
  BY Zenon DEF PublishCommit
<1>4. \/ UNCHANGED <<inv, devices>>
      \/ \E i \in Invitations :
           /\ inv[i].agent = pub.agent /\ inv[i].at = agent[pub.agent]
           /\ inv[i].state \in {"enrolled", "online"}
           /\ inv' = [inv EXCEPT ![i] = [inv[i] EXCEPT !.state = "online", !.snapshot = pub.snapshot]]
           /\ devices' = [devices EXCEPT ![pub.agent] = pub.snapshot.inventory]
  BY Zenon DEF PublishCommit, BoundInvitation, Fresh
<1>5. ASSUME NEW i \in Invitations,
             inv' = [inv EXCEPT ![i] = [inv[i] EXCEPT !.state = "online", !.snapshot = pub.snapshot]]
      PROVE  /\ inv'[i].state = "online" /\ inv'[i].snapshot = pub.snapshot
             /\ inv'[i].agent = inv[i].agent /\ inv'[i].at = inv[i].at
             /\ inv'[i].fingerprint = inv[i].fingerprint
             /\ \A j \in Invitations \ {i} : inv'[j] = inv[j]
  <2>1. /\ inv'[i] = [inv[i] EXCEPT !.state = "online", !.snapshot = pub.snapshot]
        /\ \A j \in Invitations \ {i} : inv'[j] = inv[j]
    BY Zenon, <1>2, <1>5
  <2>2. DOMAIN inv[i] = {"state", "expires", "agent", "at", "fingerprint", "snapshot"}
    BY Zenon, <1>2 DEF InvitationRows
  <2> QED
    BY Zenon, <2>1, <2>2
<1>6. devices' = [devices EXCEPT ![pub.agent] = pub.snapshot.inventory]
      => /\ devices'[pub.agent] = pub.snapshot.inventory
         /\ \A b \in Agents \ {pub.agent} : devices'[b] = devices[b]
  BY Zenon, <1>2
<1> QED
  BY Zenon, <1>2, <1>3, <1>4, <1>5, <1>6

\* The steps on invitations that bind none: a row is new, expires or is revoked.
LEMMA QuietFacts ==
  ASSUME OnbTypeOK, OnbNext
  PROVE  \/ \E i \in Invitations : PersistEnrollment(i)
         \/ \E a \in Agents : RetireCredentials(a)
         \/ PublishCommit
         \/ /\ UNCHANGED <<agent, keys, devices, retirements, revision>>
            /\ \A j \in Invitations :
                 \/ inv'[j] = inv[j]
                 \/ /\ inv'[j].agent = inv[j].agent /\ inv'[j].at = inv[j].at
                    /\ inv'[j].fingerprint = inv[j].fingerprint /\ inv'[j].snapshot = inv[j].snapshot
                    /\ \/ inv[j].state = None /\ inv'[j].state = "created"
                       \/ inv[j].state = "created" /\ inv'[j].state = "expired"
                       \/ inv[j].state \notin {None, "revoked"} /\ inv'[j].state = "revoked"
<1> DEFINE Quiet(j) == \/ inv'[j] = inv[j]
                       \/ /\ inv'[j].agent = inv[j].agent /\ inv'[j].at = inv[j].at
                          /\ inv'[j].fingerprint = inv[j].fingerprint /\ inv'[j].snapshot = inv[j].snapshot
                          /\ \/ inv[j].state = None /\ inv'[j].state = "created"
                             \/ inv[j].state = "created" /\ inv'[j].state = "expired"
                             \/ inv[j].state \notin {None, "revoked"} /\ inv'[j].state = "revoked"
<1>0. inv \in [Invitations -> InvitationRows]
  BY Zenon DEF OnbTypeOK
<1>1. ASSUME NEW j \in Invitations
      PROVE  DOMAIN inv[j] = {"state", "expires", "agent", "at", "fingerprint", "snapshot"}
  BY Zenon, <1>0 DEF InvitationRows
<1>2. ASSUME NEW i \in Invitations, CreateInvitation(i) PROVE \A j \in Invitations : Quiet(j)
  <2>1. /\ inv[i] = NoInvitation
        /\ inv' = [inv EXCEPT ![i] = [NoInvitation EXCEPT !.state = "created", !.expires = now + Lifetime]]
    BY Zenon, <1>2 DEF CreateInvitation
  <2>2. /\ inv'[i] = [NoInvitation EXCEPT !.state = "created", !.expires = now + Lifetime]
        /\ \A j \in Invitations \ {i} : inv'[j] = inv[j]
    BY Zenon, <1>0, <2>1
  <2>3. /\ inv'[i].agent = inv[i].agent /\ inv'[i].at = inv[i].at /\ inv[i].state = None
        /\ inv'[i].fingerprint = inv[i].fingerprint /\ inv'[i].snapshot = inv[i].snapshot
        /\ inv'[i].state = "created"
    <3>1. inv[i] = [state |-> None, expires |-> 0, agent |-> None, at |-> None,
                    fingerprint |-> None, snapshot |-> None]
      BY Zenon, <2>1 DEF NoInvitation
    <3>2. inv'[i] = [state |-> "created", expires |-> now + Lifetime, agent |-> None, at |-> None,
                     fingerprint |-> None, snapshot |-> None]
      BY Zenon, <2>2 DEF NoInvitation
    <3> QED
      BY <3>1, <3>2
  <2> QED
    BY Zenon, <2>2, <2>3
<1>3. ASSUME NEW i \in Invitations, RevokeInvitation(i) PROVE \A j \in Invitations : Quiet(j)
  <2>1. /\ inv[i].state \notin {None, "revoked"}
        /\ inv' = [inv EXCEPT ![i] = [inv[i] EXCEPT !.state = "revoked"]]
    BY Zenon, <1>3 DEF RevokeInvitation
  <2>2. /\ inv'[i] = [inv[i] EXCEPT !.state = "revoked"]
        /\ \A j \in Invitations \ {i} : inv'[j] = inv[j]
    BY Zenon, <1>0, <2>1
  <2>3. /\ inv'[i].agent = inv[i].agent /\ inv'[i].at = inv[i].at
        /\ inv'[i].fingerprint = inv[i].fingerprint /\ inv'[i].snapshot = inv[i].snapshot
        /\ inv'[i].state = "revoked"
    BY Zenon, <1>1, <2>2
  <2> QED
    BY Zenon, <2>1, <2>2, <2>3
<1>4. ASSUME ListInvitations PROVE \A j \in Invitations : Quiet(j)
  <2> SUFFICES ASSUME NEW j \in Invitations PROVE Quiet(j)
    BY Zenon
  <2>1. inv'[j] = Expired(j, now)
    BY Zenon, <1>4 DEF ListInvitations
  <2>2. CASE inv'[j] = inv[j]
    BY Zenon, <2>2
  <2>3. CASE inv[j].state = "created" /\ inv'[j] = [inv[j] EXCEPT !.state = "expired"]
    <3>1. /\ inv'[j].agent = inv[j].agent /\ inv'[j].at = inv[j].at
          /\ inv'[j].fingerprint = inv[j].fingerprint /\ inv'[j].snapshot = inv[j].snapshot
          /\ inv'[j].state = "expired"
      BY Zenon, <1>1, <2>3
    <3> QED
      BY Zenon, <2>3, <3>1
  <2> QED
    BY Zenon, <2>1, <2>2, <2>3 DEF Expired
<1>5. ASSUME NEW i \in Invitations, CreateInvitation(i) \/ RevokeInvitation(i)
      PROVE  UNCHANGED <<agent, keys, devices, retirements, revision>>
  BY Zenon, <1>5 DEF CreateInvitation, RevokeInvitation
<1>6. ListInvitations => UNCHANGED <<agent, keys, devices, retirements, revision>>
  BY Zenon DEF ListInvitations
<1>7. ASSUME NEW i \in Invitations,
             \/ WrongSecret(i) \/ (\E r \in Requests : EnrollLock(i, r))
             \/ EnrollRollback(i) \/ ReplayEnrollment(i)
      PROVE  UNCHANGED <<inv, agent, keys, devices, retirements, revision>>
  BY Zenon, <1>7 DEF WrongSecret, EnrollLock, EnrollRollback, ReplayEnrollment
<1>8. ASSUME NEW a \in Agents, NEW s \in Snapshots, PublishRead(a, s)
      PROVE  UNCHANGED <<inv, agent, keys, devices, retirements, revision>>
  BY Zenon, <1>8 DEF PublishRead
<1>9. inv' = inv => \A j \in Invitations : Quiet(j)
  BY Zenon
<1> HIDE DEF Quiet
<1>10. \/ \E i \in Invitations : PersistEnrollment(i)
       \/ \E a \in Agents : RetireCredentials(a)
       \/ PublishCommit
       \/ /\ UNCHANGED <<agent, keys, devices, retirements, revision>>
          /\ \A j \in Invitations : Quiet(j)
  BY Zenon, <1>2, <1>3, <1>4, <1>5, <1>6, <1>7, <1>8, <1>9 DEF OnbNext
<1> QED
  BY Zenon, <1>10 DEF Quiet

\* A transaction under way is new, unchanged or ended.
LEMMA TransactionFacts ==
  ASSUME OnbTypeOK, OnbNext
  PROVE  \/ /\ now' = now \/ now' = now + 1
            /\ \A i \in Invitations : tx'[i] = tx[i] \/ tx'[i] = None
         \/ \E l \in Invitations, r \in Requests :
              /\ ValidEnrollment(r) /\ now' = now + 1 /\ inv' = inv
              /\ tx'[l].request = r /\ tx'[l].at = now
              /\ \A i \in Invitations \ {l} : tx'[i] = tx[i]
<1>0. DOMAIN tx = Invitations
  BY Zenon DEF OnbTypeOK
<1>1. ASSUME NEW l \in Invitations, NEW r \in Requests, EnrollLock(l, r)
      PROVE  /\ ValidEnrollment(r) /\ now' = now + 1 /\ inv' = inv
             /\ tx'[l].request = r /\ tx'[l].at = now
             /\ \A i \in Invitations \ {l} : tx'[i] = tx[i]
  <2>1. /\ ValidEnrollment(r) /\ now' = now + 1 /\ inv' = inv
        /\ tx' = [tx EXCEPT ![l] = [request |-> r, at |-> now]]
    BY Zenon, <1>1 DEF EnrollLock, ReadClock
  <2>2. /\ tx'[l] = [request |-> r, at |-> now]
        /\ \A i \in Invitations \ {l} : tx'[i] = tx[i]
    BY Zenon, <1>0, <2>1
  <2>3. tx'[l].request = r /\ tx'[l].at = now
    BY <2>2
  <2> QED
    BY Zenon, <2>1, <2>2, <2>3
<1>2. ASSUME NEW l \in Invitations, EnrollRollback(l) \/ PersistEnrollment(l) \/ ReplayEnrollment(l)
      PROVE  now' = now /\ \A i \in Invitations : tx'[i] = tx[i] \/ tx'[i] = None
  <2>1. now' = now /\ tx' = [tx EXCEPT ![l] = None]
    BY Zenon, <1>2 DEF EnrollRollback, PersistEnrollment, ReplayEnrollment
  <2> QED
    BY Zenon, <1>0, <2>1
<1>3. ASSUME NEW l \in Invitations, CreateInvitation(l) \/ RevokeInvitation(l) \/ WrongSecret(l)
      PROVE  (now' = now \/ now' = now + 1) /\ tx' = tx
  BY Zenon, <1>3 DEF CreateInvitation, RevokeInvitation, WrongSecret, ReadClock
<1>4. ListInvitations => now' = now + 1 /\ tx' = tx
  BY Zenon DEF ListInvitations, ReadClock
<1>5. PublishCommit => now' = now /\ tx' = tx
  BY Zenon DEF PublishCommit
<1>6. ASSUME NEW a \in Agents, RetireCredentials(a) \/ \E s \in Snapshots : PublishRead(a, s)
      PROVE  now' = now /\ tx' = tx
  BY Zenon, <1>6 DEF RetireCredentials, PublishRead
<1> QED
  BY Zenon, <1>1, <1>2, <1>3, <1>4, <1>5, <1>6 DEF OnbNext


\* What any other step may do to an invitation.
LEMMA InvitationSteps ==
  ASSUME OnbTypeOK, TimesInv, OnbNext, NEW j \in Invitations, ~PersistEnrollment(j)
  PROVE  /\ inv'[j].agent = inv[j].agent /\ inv'[j].at = inv[j].at
         /\ inv'[j].fingerprint = inv[j].fingerprint
         /\ \/ inv'[j].state = inv[j].state
            \/ inv[j].state = None /\ inv'[j].state = "created"
            \/ inv[j].state = "created" /\ inv'[j].state = "expired"
            \/ inv[j].state \notin {None, "revoked"} /\ inv'[j].state = "revoked"
            \/ inv[j].state \in {"enrolled", "online"} /\ inv'[j].state = "online"
<1>1. ASSUME NEW i \in Invitations, PersistEnrollment(i) PROVE inv'[j] = inv[j]
  <2>1. i # j
    BY Zenon, <1>1
  <2>2. \A x \in Invitations \ {i} : inv'[x] = inv[x] /\ tx'[x] = tx[x]
    BY Zenon, <1>1, PersistFacts
  <2> QED
    BY Zenon, <2>1, <2>2
<1>2. ASSUME NEW a \in Agents, RetireCredentials(a)
      PROVE  \/ inv'[j] = inv[j]
             \/ /\ inv'[j].agent = inv[j].agent /\ inv'[j].at = inv[j].at
                /\ inv'[j].fingerprint = inv[j].fingerprint
                /\ inv[j].state \in {"enrolled", "online"} /\ inv'[j].state = "revoked"
  BY Zenon, <1>2, RetireFacts
<1>3. ASSUME PublishCommit
      PROVE  \/ inv'[j] = inv[j]
             \/ /\ inv'[j].agent = inv[j].agent /\ inv'[j].at = inv[j].at
                /\ inv'[j].fingerprint = inv[j].fingerprint
                /\ inv[j].state \in {"enrolled", "online"} /\ inv'[j].state = "online"
  BY Zenon, <1>3, PublishFacts
<1>4. inv[j].state \in {"enrolled", "online"} => inv[j].state \notin {None, "revoked"}
  BY NoneFacts
<1> QED
  BY Zenon, <1>1, <1>2, <1>3, <1>4, QuietFacts
-----------------------------------------------------------------------------
(* The invariant, part by part.                                            *)

\* Clock readings stay apart.
LEMMA Readings ==
  ASSUME OnbTypeOK, now' = now \/ now' = now + 1
  PROVE  /\ \A x \in 0..Horizon : x < now => x < now'
         /\ now' = now + 1 => now < now'
         /\ \A x \in (0..Horizon) \cup {None} : x = None \/ x < now => x # now
<1>1. now \in 0..Horizon
  BY Zenon DEF OnbTypeOK
<1> QED
  BY <1>1, NoneFacts

LEMMA TimesStep ==
  ASSUME OnbTypeOK, TimesInv, OnbNext
  PROVE  TimesInv'
<1> DEFINE Persists(i) == PersistEnrollment(i)
           Locks(l, r) == /\ ValidEnrollment(r) /\ now' = now + 1 /\ inv' = inv
                          /\ tx'[l].request = r /\ tx'[l].at = now
                          /\ \A i \in Invitations \ {l} : tx'[i] = tx[i]
<1>1. ASSUME NEW i \in Invitations
      PROVE  /\ inv[i].at \in (0..Horizon) \cup {None} /\ inv[i].agent \in Agents \cup {None}
             /\ tx[i] # None => tx[i].at \in 0..Horizon
  <2>1. inv[i] \in InvitationRows
    BY Zenon DEF OnbTypeOK
  <2>2. inv[i].at \in (0..Horizon) \cup {None} /\ inv[i].agent \in Agents \cup {None}
    BY Zenon, <2>1 DEF InvitationRows
  <2> QED
    BY Zenon, <2>2, RequestFacts
<1>2. /\ now' = now \/ now' = now + 1
      /\ \/ \A i \in Invitations : tx'[i] = tx[i] \/ tx'[i] = None
         \/ \E l \in Invitations, r \in Requests : Locks(l, r)
  BY Zenon, TransactionFacts
<1>3. ASSUME NEW i \in Invitations, Persists(i)
      PROVE  /\ inv'[i].at = tx[i].at /\ tx[i] # None /\ tx'[i] = None
             /\ inv'[i].state = "enrolled" /\ inv'[i].agent \in Agents
             /\ \A j \in Invitations \ {i} : inv'[j] = inv[j] /\ tx'[j] = tx[j]
             /\ now' = now
  BY Zenon, <1>3, PersistFacts
<1>4. ASSUME NEW i \in Invitations, ~Persists(i)
      PROVE  /\ inv'[i].agent = inv[i].agent /\ inv'[i].at = inv[i].at
             /\ inv'[i].state \in {None, "created", "expired"}
                  => inv[i].state \in {None, "created", "expired"}
             /\ inv'[i].state \in {"enrolled", "online"} => inv[i].state \in {"enrolled", "online"}
  BY <1>4, InvitationSteps, NoneFacts
<1>5. ASSUME NEW i \in Invitations
      PROVE  /\ tx'[i] # None => ValidEnrollment(tx'[i].request) /\ tx'[i].at < now'
             /\ inv'[i].at # None => inv'[i].at < now'
  <2>1. tx'[i] # None => ValidEnrollment(tx'[i].request) /\ tx'[i].at < now'
    <3>1. CASE tx'[i] = tx[i] \/ tx'[i] = None
      BY Zenon, <1>1, <1>2, <3>1, Readings DEF TimesInv
    <3>2. ASSUME NEW r \in Requests, Locks(i, r)
          PROVE  ValidEnrollment(tx'[i].request) /\ tx'[i].at < now'
      <4>1. tx'[i].request = r /\ tx'[i].at = now
        BY Zenon, <3>2
      <4> QED
        BY Zenon, <3>2, <4>1, Readings
    <3> QED
      BY Zenon, <1>2, <3>1, <3>2
  <2>2. inv'[i].at # None => inv'[i].at < now'
    <3>1. CASE Persists(i)
      BY ZenonT(40), <1>1, <1>3, <3>1 DEF TimesInv
    <3>2. CASE ~Persists(i)
      <4>1. inv'[i].at = inv[i].at /\ (inv[i].at # None => inv[i].at < now)
        BY Zenon, <1>4, <3>2 DEF TimesInv
      <4> QED
        BY Zenon, <1>1, <1>2, <4>1, Readings
    <3> QED
      BY Zenon, <3>1, <3>2
  <2> QED
    BY Zenon, <2>1, <2>2
<1>6. ASSUME NEW i \in Invitations
      PROVE  /\ inv'[i].state \in {None, "created", "expired"} => inv'[i].agent = None /\ inv'[i].at = None
             /\ inv'[i].state \in {"enrolled", "online"} => inv'[i].agent # None /\ inv'[i].at # None
  <2>1. CASE Persists(i)
    <3>1. inv'[i].agent # None /\ inv'[i].at \in 0..Horizon
      BY Zenon, <1>1, <1>3, <2>1, NoneFacts
    <3>2. inv'[i].at # None
      BY Zenon, <3>1, NoneFacts
    <3>3. inv'[i].state \notin {None, "created", "expired"}
      BY <1>3, <2>1, NoneFacts
    <3> QED
      BY Zenon, <3>1, <3>2, <3>3
  <2>2. CASE ~Persists(i)
    BY ZenonT(40), <1>4, <2>2 DEF TimesInv
  <2> QED
    BY Zenon, <2>1, <2>2
<1>7. ASSUME NEW i \in Invitations, NEW j \in Invitations, i # j
      PROVE  /\ inv'[i].at # None => inv'[i].at # inv'[j].at
             /\ tx'[i] # None => inv'[j].at # tx'[i].at
             /\ tx'[i] # None /\ tx'[j] # None => tx'[i].at # tx'[j].at
  <2>0. /\ inv[i].at # None => inv[i].at # inv[j].at
        /\ tx[i] # None => inv[j].at # tx[i].at
        /\ tx[j] # None => inv[i].at # tx[j].at
        /\ tx[i] # None /\ tx[j] # None => tx[i].at # tx[j].at
    BY Zenon, <1>7 DEF TimesInv
  <2>1. inv'[i].at # None => inv'[i].at # inv'[j].at
    <3>1. CASE Persists(i)
      BY Zenon, <1>3, <1>7, <2>0, <3>1
    <3>2. CASE Persists(j)
      BY Zenon, <1>3, <1>7, <2>0, <3>2
    <3>3. CASE ~Persists(i) /\ ~Persists(j)
      BY Zenon, <1>4, <2>0, <3>3
    <3> QED
      BY Zenon, <3>1, <3>2, <3>3
  <2>2. CASE \A k \in Invitations : tx'[k] = tx[k] \/ tx'[k] = None
    <3>1. tx'[i] # None => inv'[j].at # tx'[i].at
      <4>1. CASE Persists(j)
        BY Zenon, <1>3, <2>0, <2>2, <4>1
      <4>2. CASE ~Persists(j)
        BY Zenon, <1>4, <2>0, <2>2, <4>2
      <4> QED
        BY Zenon, <4>1, <4>2
    <3> QED
      BY Zenon, <2>0, <2>1, <2>2, <3>1
  <2>3. ASSUME NEW l \in Invitations, NEW r \in Requests, Locks(l, r)
        PROVE  /\ tx'[i] # None => inv'[j].at # tx'[i].at
               /\ tx'[i] # None /\ tx'[j] # None => tx'[i].at # tx'[j].at
    <3>1. tx'[l].at = now /\ inv' = inv
      BY Zenon, <2>3
    <3>2. ASSUME NEW k \in Invitations
          PROVE  inv[k].at # now /\ (tx[k] # None => tx[k].at # now)
      BY Zenon, <1>1, <1>2, Readings DEF TimesInv
    <3>3. CASE i = l
      <4>1. tx'[j] = tx[j]
        BY Zenon, <1>7, <2>3, <3>3
      <4> QED
        BY Zenon, <3>1, <3>2, <3>3, <4>1
    <3>4. CASE j = l
      <4>1. tx'[i] = tx[i]
        BY Zenon, <1>7, <2>3, <3>4
      <4> QED
        BY Zenon, <2>0, <3>1, <3>2, <3>4, <4>1
    <3>5. CASE i # l /\ j # l
      <4>1. tx'[i] = tx[i] /\ tx'[j] = tx[j]
        BY Zenon, <2>3, <3>5
      <4> QED
        BY Zenon, <2>0, <3>1, <4>1
    <3> QED
      BY Zenon, <3>3, <3>4, <3>5
  <2> QED
    BY Zenon, <1>2, <2>1, <2>2, <2>3
<1> HIDE DEF Persists, Locks
<1> QED
  BY Zenon, <1>5, <1>6, <1>7 DEF TimesInv


\* Rows of different Agents or purposes differ, and so do a retired and an active row.
LEMMA KeyRowFacts ==
  ASSUME NEW a, NEW b, NEW p, NEW q
  PROVE  /\ KeyRow(a, p) = KeyRow(b, q) => a = b /\ p = q
         /\ RetireKey(KeyRow(a, p)) # KeyRow(b, q)
         /\ RetireKey(KeyRow(a, p)) = RetireKey(KeyRow(b, q)) => a = b /\ p = q
<1> DEFINE K == KeyRow(a, p)
           L == KeyRow(b, q)
           RK == RetireKey(K)
           RL == RetireKey(L)
<1>1. K.agent = a /\ K.purpose = p /\ RK.agent = a /\ RK.purpose = p /\ RK.retired = TRUE
  BY Zenon DEF KeyRow, RetireKey
<1>2. L.agent = b /\ L.purpose = q /\ RL.agent = b /\ RL.purpose = q /\ L.retired = FALSE
  BY Zenon DEF KeyRow, RetireKey
<1> HIDE DEF K, L, RK, RL
<1>3. (K = L => a = b /\ p = q) /\ (RK = RL => a = b /\ p = q)
  BY <1>1, <1>2
<1>4. RK # L
  <2>1. RK.retired # L.retired
    BY Zenon, <1>1, <1>2
  <2> QED
    BY Zenon, <2>1
<1> QED
  BY Zenon, <1>3, <1>4 DEF K, L, RK, RL

\* What the transactions about an Agent do to a key, ...
KeyChange(a, x) ==
  \/ keys'[x] = keys[x]
  \/ /\ keys[x] = KeyRow(a, "state") \/ keys[x] = KeyRow(a, "transport")
     /\ keys'[x] = RetireKey(keys[x])
  \/ /\ keys[x] = None \/ keys[x] = KeyRow(a, "state") \/ keys[x] = KeyRow(a, "transport")
     /\ keys'[x] = KeyRow(a, "state") \/ keys'[x] = KeyRow(a, "transport")

\* ... which leaves the keys of the other Agents alone.
LEMMA KeysOfOthers ==
  ASSUME OnbTypeOK, NEW a \in Agents, NEW b \in Agents, b # a, NEW x \in StateKeys \cup Agents,
         KeyChange(a, x)
  PROVE  \A p \in {"transport", "state"} :
           /\ keys'[x] = KeyRow(b, p) <=> keys[x] = KeyRow(b, p)
           /\ keys'[x] = RetireKey(KeyRow(b, p))
                <=> keys[x] = RetireKey(KeyRow(b, p))
<1> SUFFICES ASSUME NEW p \in {"transport", "state"}
             PROVE  /\ keys'[x] = KeyRow(b, p) <=> keys[x] = KeyRow(b, p)
                    /\ keys'[x] = RetireKey(KeyRow(b, p))
                         <=> keys[x] = RetireKey(KeyRow(b, p))
  BY Zenon
<1> DEFINE K == KeyRow(b, p)
           L == RetireKey(KeyRow(b, p))
<1>1. K \in KeyRows /\ L \in KeyRows
  BY Zenon DEF KeyRow, KeyRows, RetireKey
<1>2. /\ K # None /\ L # None
  BY Zenon, <1>1, NoneFacts
<1>3. ASSUME NEW q \in {"transport", "state"}
      PROVE  /\ KeyRow(a, q) # K /\ KeyRow(a, q) # L
             /\ RetireKey(KeyRow(a, q)) # K /\ RetireKey(KeyRow(a, q)) # L
  <2>1. KeyRow(a, q) = KeyRow(b, p) => a = b
    BY KeyRowFacts
  <2>2. RetireKey(KeyRow(a, q)) = RetireKey(KeyRow(b, p)) => a = b
    BY KeyRowFacts
  <2>3. RetireKey(KeyRow(a, q)) # KeyRow(b, p)
    BY KeyRowFacts
  <2>4. RetireKey(KeyRow(b, p)) # KeyRow(a, q)
    BY KeyRowFacts
  <2> QED
    BY Zenon, <2>1, <2>2, <2>3, <2>4
<1> HIDE DEF K, L
<1>4. /\ keys'[x] = K <=> keys[x] = K
      /\ keys'[x] = L <=> keys[x] = L
  BY Zenon, <1>2, <1>3 DEF KeyChange
<1> QED
  BY Zenon, <1>4 DEF K, L

\* An enrollment leaves the keys of the other Agents alone.
LEMMA EnrolledKeys ==
  ASSUME OnbTypeOK, TimesInv, NEW i \in Invitations, PersistEnrollment(i),
         NEW a \in Agents, a = tx[i].request.agent, NEW b \in Agents, b # a,
         NEW x \in StateKeys \cup Agents
  PROVE  \A p \in {"transport", "state"} :
           /\ keys'[x] = KeyRow(b, p) <=> keys[x] = KeyRow(b, p)
           /\ keys'[x] = RetireKey(KeyRow(b, p)) <=> keys[x] = RetireKey(KeyRow(b, p))
<1>0. tx[i].request.state \in StateKeys \ {tx[i].request.agent}
  BY Zenon, PersistFacts
<1>1. PICK st \in StateKeys : st = tx[i].request.state
  BY Zenon, <1>0
<1>2. /\ keys[a] \in {None, KeyRow(a, "transport")} /\ keys[st] \in {None, KeyRow(a, "state")}
      /\ keys'[a] = KeyRow(a, "transport") /\ keys'[st] = KeyRow(a, "state")
  BY Zenon, <1>1, PersistFacts
<1>3. \A y \in (StateKeys \cup Agents) \ {a, st} :
        keys'[y] = IF ActiveKey(a, y, "state") THEN RetireKey(keys[y]) ELSE keys[y]
  <2>1. LET c == tx[i].request.agent IN
        \A y \in (StateKeys \cup Agents) \ {c, tx[i].request.state} :
          keys'[y] = IF ActiveKey(c, y, "state") THEN RetireKey(keys[y]) ELSE keys[y]
    BY Zenon, PersistFacts
  <2> QED
    BY Zenon, <1>1, <2>1
<1>4. \/ keys'[x] = keys[x]
      \/ keys[x] = KeyRow(a, "state") /\ keys'[x] = RetireKey(keys[x])
      \/ /\ keys[x] = None \/ keys[x] = KeyRow(a, "state") \/ keys[x] = KeyRow(a, "transport")
         /\ keys'[x] = KeyRow(a, "state") \/ keys'[x] = KeyRow(a, "transport")
  BY Zenon, <1>2, <1>3 DEF ActiveKey
<1>5. KeyChange(a, x)
  BY Zenon, <1>4 DEF KeyChange
<1> QED
  BY Zenon, <1>5, KeysOfOthers

\* An enrollment keeps the keys apart: it takes its own, unused or already its own.
LEMMA KeysAfterEnrollment ==
  ASSUME OnbTypeOK, TimesInv, KeysInv, NEW i \in Invitations, PersistEnrollment(i)
  PROVE  KeysInv'
<1> DEFINE D == StateKeys \cup Agents
<1>a. tx[i].request.agent \in Agents /\ tx[i].request.state \in StateKeys \ {tx[i].request.agent}
  BY Zenon, PersistFacts
<1>0. PICK a \in Agents, st \in StateKeys :
        a = tx[i].request.agent /\ st = tx[i].request.state /\ st # a
  BY Zenon, <1>a
<1>1. /\ agent'[a] # None
      /\ \A b \in Agents \ {a} : agent'[b] = agent[b]
      /\ keys[a] \in {None, KeyRow(a, "transport")} /\ keys[st] \in {None, KeyRow(a, "state")}
      /\ keys'[a] = KeyRow(a, "transport") /\ keys'[st] = KeyRow(a, "state")
  <2>1. \A b \in Agents \ {a} : agent'[b] = agent[b] /\ devices'[b] = devices[b]
    BY Zenon, <1>0, PersistFacts
  <2> QED
    BY Zenon, <1>0, <2>1, PersistFacts
<1>2. \A x \in D \ {a, st} :
        keys'[x] = IF ActiveKey(a, x, "state") THEN RetireKey(keys[x]) ELSE keys[x]
  <2>1. LET c == tx[i].request.agent IN
        \A x \in (StateKeys \cup Agents) \ {c, tx[i].request.state} :
          keys'[x] = IF ActiveKey(c, x, "state") THEN RetireKey(keys[x]) ELSE keys[x]
    BY Zenon, PersistFacts
  <2> QED
    BY Zenon, <1>0, <2>1
<1>3. DOMAIN keys = D /\ DOMAIN keys' = D
  <2>1. OnbTypeOK'
    <3>1. OnbNext
      BY Zenon DEF OnbNext
    <3> QED
      BY Zenon, <3>1, TypeStep
  <2> QED
    BY Zenon, <2>1 DEF OnbTypeOK
<1> HIDE DEF D
<1>4. a \in D /\ st \in D /\ a # st /\ Agents \subseteq D
  BY Zenon, <1>0 DEF D
<1>6. ASSUME NEW b \in Agents, b # a, NEW x \in D
      PROVE  \A p \in {"transport", "state"} :
               /\ keys'[x] = KeyRow(b, p) <=> keys[x] = KeyRow(b, p)
               /\ keys'[x] = RetireKey(KeyRow(b, p))
                    <=> keys[x] = RetireKey(KeyRow(b, p))
  BY Zenon, <1>0, <1>6, EnrolledKeys DEF D
<1>7. ASSUME NEW b \in Agents, agent'[b] # None
      PROVE  ActiveKey(b, b, "transport")' \/ Retired(b)'
  <2>1. CASE b = a
    BY Zenon, <1>1, <2>1 DEF ActiveKey
  <2>2. CASE b # a
    <3>1. ActiveKey(b, b, "transport") \/ Retired(b)
      BY Zenon, <1>1, <1>7, <2>2 DEF KeysInv
    <3> QED
      BY Zenon, <1>4, <1>6, <2>2, <3>1 DEF ActiveKey, Retired
  <2> QED
    BY Zenon, <2>1, <2>2
<1>8. ASSUME NEW b \in Agents, ActiveKey(b, b, "transport")'
      PROVE  \E k \in D : \A x \in D : ActiveKey(b, x, "state")' <=> x = k
  <2>1. CASE b = a
    <3>1. ASSUME NEW x \in D PROVE ActiveKey(a, x, "state")' <=> x = st
      <4>1. CASE x = st
        BY Zenon, <1>1, <4>1 DEF ActiveKey
      <4>2. CASE x = a
        <5>1. KeyRow(a, "transport") = KeyRow(a, "state") => "transport" = "state"
          BY KeyRowFacts
        <5> QED
          BY <1>1, <1>4, <4>2, <5>1 DEF ActiveKey
      <4>3. CASE x # a /\ x # st
        <5>1. RetireKey(KeyRow(a, "state")) # KeyRow(a, "state")
          BY KeyRowFacts
        <5>2. keys'[x] = IF ActiveKey(a, x, "state") THEN RetireKey(keys[x]) ELSE keys[x]
          BY Zenon, <1>2, <4>3
        <5> QED
          BY Zenon, <4>3, <5>1, <5>2 DEF ActiveKey
      <4> QED
        BY Zenon, <4>1, <4>2, <4>3
    <3> QED
      BY Zenon, <1>4, <2>1, <3>1
  <2>2. CASE b # a
    <3>1. ActiveKey(b, b, "transport")
      BY Zenon, <1>4, <1>6, <1>8, <2>2 DEF ActiveKey
    <3>2. PICK k \in D : \A x \in D : ActiveKey(b, x, "state") <=> x = k
      <4>1. \E k \in DOMAIN keys : \A x \in DOMAIN keys : ActiveKey(b, x, "state") <=> x = k
        BY Zenon, <3>1 DEF KeysInv
      <4>2. \E k \in D : \A x \in D : ActiveKey(b, x, "state") <=> x = k
        BY <1>3, <4>1
      <4> QED
        BY Zenon, <4>2
    <3>3. \A x \in D : ActiveKey(b, x, "state")' <=> ActiveKey(b, x, "state")
      BY Zenon, <1>6, <2>2 DEF ActiveKey
    <3> QED
      BY Zenon, <3>2, <3>3
  <2> QED
    BY Zenon, <2>1, <2>2
<1>9. ASSUME NEW k \in D, keys'[k] # None
      PROVE  /\ agent'[keys'[k].agent] # None
             /\ keys'[k].purpose = "transport" => keys'[k].agent = k
  <2>1. CASE k = a
    <3>1. KeyRow(a, "transport").agent = a
      BY Zenon DEF KeyRow, RetireKey
    <3> QED
      BY Zenon, <1>1, <2>1, <3>1
  <2>2. CASE k = st
    <3>1. KeyRow(a, "state").agent = a /\ KeyRow(a, "state").purpose # "transport"
      <4>1. KeyRow(a, "state").agent = a /\ KeyRow(a, "state").purpose = "state"
        BY Zenon DEF KeyRow, RetireKey
      <4> QED
        BY <4>1
    <3> QED
      BY Zenon, <1>1, <2>2, <3>1
  <2>3. CASE k # a /\ k # st
    <3>1. keys'[k] = keys[k] \/ (keys[k] = KeyRow(a, "state") /\ keys'[k] = RetireKey(keys[k]))
      BY Zenon, <1>2, <2>3 DEF ActiveKey
    <3>2. CASE keys'[k] = keys[k]
      <4>1. agent[keys[k].agent] # None /\ (keys[k].purpose = "transport" => keys[k].agent = k)
        BY Zenon, <1>3, <1>9, <3>2 DEF KeysInv
      <4>2. keys[k].agent \in Agents
        <5>1. keys[k] \in KeyRows
          BY Zenon, <1>9, <3>2 DEF OnbTypeOK, D
        <5> QED
          BY Zenon, <5>1 DEF KeyRows
      <4> QED
        BY Zenon, <1>1, <3>2, <4>1, <4>2
    <3>3. CASE keys[k] = KeyRow(a, "state") /\ keys'[k] = RetireKey(keys[k])
      <4>1. keys'[k].agent = a /\ keys'[k].purpose = "state"
        <5>1. RetireKey(KeyRow(a, "state")).agent = a /\ RetireKey(KeyRow(a, "state")).purpose = "state"
          BY Zenon DEF KeyRow, RetireKey
        <5> QED
          BY Zenon, <3>3, <5>1
      <4> QED
        BY <1>1, <4>1
    <3> QED
      BY Zenon, <3>1, <3>2, <3>3
  <2> QED
    BY Zenon, <2>1, <2>2, <2>3
<1> QED
  BY Zenon, <1>3, <1>7, <1>8, <1>9 DEF KeysInv


\* A retirement keeps the other Agents' keys, and leaves this one none.
LEMMA RetiredKeys ==
  ASSUME OnbTypeOK, NEW a \in Agents, RetireCredentials(a)
  PROVE  /\ DOMAIN keys = StateKeys \cup Agents /\ DOMAIN keys' = StateKeys \cup Agents
         /\ \A x \in StateKeys \cup Agents :
              /\ ~ActiveKey(a, x, "transport")' /\ ~ActiveKey(a, x, "state")'
              /\ \/ keys'[x] = keys[x]
                 \/ /\ keys[x] = KeyRow(a, "state") \/ keys[x] = KeyRow(a, "transport")
                    /\ keys'[x] = RetireKey(keys[x])
         /\ ActiveKey(a, a, "transport") => Retired(a)'
         /\ Retired(a) => Retired(a)'
         /\ \A b \in Agents \ {a}, x \in StateKeys \cup Agents, p \in {"transport", "state"} :
              /\ keys'[x] = KeyRow(b, p) <=> keys[x] = KeyRow(b, p)
              /\ keys'[x] = RetireKey(KeyRow(b, p)) <=> keys[x] = RetireKey(KeyRow(b, p))
<1> DEFINE D == StateKeys \cup Agents
<1>1. DOMAIN keys = D /\ DOMAIN keys' = D
  BY Zenon, RetireKeys DEF OnbTypeOK
<1>2. \A x \in D : keys'[x] = IF ActiveKey(a, x, "transport") \/ ActiveKey(a, x, "state")
                                THEN RetireKey(keys[x]) ELSE keys[x]
  BY Zenon, RetireFacts
<1>3. /\ RetireKey(KeyRow(a, "transport")) # KeyRow(a, "transport")
      /\ RetireKey(KeyRow(a, "transport")) # KeyRow(a, "state")
      /\ RetireKey(KeyRow(a, "state")) # KeyRow(a, "transport")
      /\ RetireKey(KeyRow(a, "state")) # KeyRow(a, "state")
  BY KeyRowFacts
<1>4. ASSUME NEW x \in D
      PROVE  /\ ~ActiveKey(a, x, "transport")' /\ ~ActiveKey(a, x, "state")'
             /\ \/ keys'[x] = keys[x]
                \/ /\ keys[x] = KeyRow(a, "state") \/ keys[x] = KeyRow(a, "transport")
                   /\ keys'[x] = RetireKey(keys[x])
  <2>1. CASE ActiveKey(a, x, "transport") \/ ActiveKey(a, x, "state")
    <3>1. keys'[x] = RetireKey(keys[x])
      BY Zenon, <1>2, <2>1
    <3> QED
      BY Zenon, <1>3, <2>1, <3>1 DEF ActiveKey
  <2>2. CASE ~(ActiveKey(a, x, "transport") \/ ActiveKey(a, x, "state"))
    <3>1. keys'[x] = keys[x]
      BY Zenon, <1>2, <2>2
    <3> QED
      BY Zenon, <2>2, <3>1 DEF ActiveKey
  <2> QED
    BY Zenon, <2>1, <2>2
<1>5. ActiveKey(a, a, "transport") => Retired(a)'
  BY Zenon, <1>2 DEF ActiveKey, Retired
<1>6. Retired(a) => Retired(a)'
  <2> SUFFICES ASSUME Retired(a) PROVE Retired(a)'
    BY Zenon
  <2>1. ~ActiveKey(a, a, "transport") /\ ~ActiveKey(a, a, "state")
    BY Zenon, <1>3 DEF ActiveKey, Retired
  <2>2. keys'[a] = keys[a]
    BY Zenon, <1>2, <2>1
  <2> QED
    BY Zenon, <2>2 DEF Retired
<1>7. ASSUME NEW b \in Agents \ {a}, NEW x \in D
      PROVE  \A p \in {"transport", "state"} :
               /\ keys'[x] = KeyRow(b, p) <=> keys[x] = KeyRow(b, p)
               /\ keys'[x] = RetireKey(KeyRow(b, p)) <=> keys[x] = RetireKey(KeyRow(b, p))
  <2>1. KeyChange(a, x)
    BY Zenon, <1>4 DEF KeyChange
  <2> QED
    BY Zenon, <2>1, KeysOfOthers
<1> QED
  BY Zenon, <1>1, <1>4, <1>5, <1>6, <1>7

LEMMA KeysAfterRetirement ==
  ASSUME OnbTypeOK, KeysInv, NEW a \in Agents, RetireCredentials(a)
  PROVE  KeysInv'
<1> DEFINE D == StateKeys \cup Agents
<1>1. /\ DOMAIN keys = D /\ DOMAIN keys' = D /\ agent' = agent
      /\ ActiveKey(a, a, "transport") => Retired(a)'
      /\ Retired(a) => Retired(a)'
  BY Zenon, RetiredKeys, RetireFacts
<1>2. \A x \in D :
        /\ ~ActiveKey(a, x, "transport")' /\ ~ActiveKey(a, x, "state")'
        /\ \/ keys'[x] = keys[x]
           \/ /\ keys[x] = KeyRow(a, "state") \/ keys[x] = KeyRow(a, "transport")
              /\ keys'[x] = RetireKey(keys[x])
  BY Zenon, RetiredKeys
<1>3. \A b \in Agents \ {a}, x \in D, p \in {"transport", "state"} :
        /\ keys'[x] = KeyRow(b, p) <=> keys[x] = KeyRow(b, p)
        /\ keys'[x] = RetireKey(KeyRow(b, p)) <=> keys[x] = RetireKey(KeyRow(b, p))
  BY Zenon, RetiredKeys
<1>4. Agents \subseteq D
  BY Zenon
<1> HIDE DEF D
<1>5. ASSUME NEW b \in Agents, agent'[b] # None
      PROVE  ActiveKey(b, b, "transport")' \/ Retired(b)'
  <2>1. ActiveKey(b, b, "transport") \/ Retired(b)
    BY Zenon, <1>1, <1>5 DEF KeysInv
  <2>2. CASE b # a
    BY Zenon, <1>3, <1>4, <2>1, <2>2 DEF ActiveKey, Retired
  <2> QED
    BY Zenon, <1>1, <2>1, <2>2
<1>6. ASSUME NEW b \in Agents, ActiveKey(b, b, "transport")'
      PROVE  \E k \in D : \A x \in D : ActiveKey(b, x, "state")' <=> x = k
  <2>1. b # a
    BY Zenon, <1>2, <1>4, <1>6
  <2>2. ActiveKey(b, b, "transport")
    BY Zenon, <1>3, <1>4, <1>6, <2>1 DEF ActiveKey
  <2>3. \E k \in DOMAIN keys : \A x \in DOMAIN keys : ActiveKey(b, x, "state") <=> x = k
    BY Zenon, <2>2 DEF KeysInv
  <2>4. PICK k \in D : \A x \in D : ActiveKey(b, x, "state") <=> x = k
    BY <1>1, <2>3
  <2>5. \A x \in D : ActiveKey(b, x, "state")' <=> ActiveKey(b, x, "state")
    BY Zenon, <1>3, <2>1 DEF ActiveKey
  <2> QED
    BY Zenon, <2>4, <2>5
<1>7. ASSUME NEW k \in D, keys'[k] # None
      PROVE  /\ agent'[keys'[k].agent] # None
             /\ keys'[k].purpose = "transport" => keys'[k].agent = k
  <2>1. keys[k] # None
    <3>1. KeyRow(a, "state") # None /\ KeyRow(a, "transport") # None
      BY Zenon, KeyTypes
    <3> QED
      BY Zenon, <1>2, <1>7, <3>1
  <2>2. agent[keys[k].agent] # None /\ (keys[k].purpose = "transport" => keys[k].agent = k)
    BY Zenon, <1>1, <2>1 DEF KeysInv
  <2>3. keys'[k].agent = keys[k].agent /\ keys'[k].purpose = keys[k].purpose
    <3>1. ASSUME NEW p, keys[k] = KeyRow(a, p), keys'[k] = RetireKey(keys[k])
          PROVE  keys'[k].agent = keys[k].agent /\ keys'[k].purpose = keys[k].purpose
      BY Zenon, <3>1 DEF KeyRow, RetireKey
    <3> QED
      BY Zenon, <1>2, <3>1
  <2> QED
    BY Zenon, <1>1, <2>2, <2>3
<1> QED
  BY Zenon, <1>1, <1>5, <1>6, <1>7 DEF KeysInv

LEMMA KeysStep ==
  ASSUME OnbTypeOK, TimesInv, KeysInv, OnbNext
  PROVE  KeysInv'
<1>1. CASE UNCHANGED <<agent, keys, retirements, revision>>
  BY Zenon, <1>1 DEF KeysInv, ActiveKey, Retired
<1> QED
  BY Zenon, <1>1, OtherSteps, KeysAfterEnrollment, KeysAfterRetirement


\* Retirement is final, and nothing that was under way undoes it.
LEMMA RetiredStep ==
  ASSUME OnbTypeOK, TimesInv, KeysInv, RetiredStaysOut, RetirementInv, OnbNext
  PROVE  RetiredStaysOut' /\ RetirementInv'
<1> DEFINE D == StateKeys \cup Agents
           Out(b) == /\ \A k \in D : keys[k] # KeyRow(b, "state")
                     /\ devices[b] = {}
                     /\ \A i \in Invitations : inv[i].agent = b => inv[i].state \notin {"enrolled", "online"}
                     /\ retirements[b] = 1
<1>0. DOMAIN keys = D /\ DOMAIN keys' = D
  BY Zenon, TypeStep DEF OnbTypeOK
<1>1. \A b \in Agents : Retired(b) => Out(b)
  BY Zenon, <1>0 DEF RetiredStaysOut
<1>2. SUFFICES ASSUME NEW b \in Agents
               PROVE  (Retired(b)' => Out(b)') /\ (~Retired(b)' => retirements'[b] = 0)
  BY Zenon, <1>0 DEF RetiredStaysOut, RetirementInv
<1>3. ~Retired(b) => retirements[b] = 0
  BY Zenon DEF RetirementInv
<1>4. b \in D
  BY Zenon
<1>5. ASSUME NEW i \in Invitations, PersistEnrollment(i)
      PROVE  (Retired(b)' => Out(b)') /\ (~Retired(b)' => retirements'[b] = 0)
  <2>0. tx[i].request.agent \in Agents
    BY Zenon, <1>5, PersistFacts
  <2>1. PICK a \in Agents : a = tx[i].request.agent
    BY Zenon, <2>0
  <2>2. /\ keys'[a] = KeyRow(a, "transport") /\ keys[a] \in {None, KeyRow(a, "transport")}
        /\ inv'[i].agent = a /\ retirements' = retirements
    BY Zenon, <1>5, <2>1, PersistFacts
  <2>3. \A j \in Invitations \ {i} : inv'[j] = inv[j] /\ tx'[j] = tx[j]
    BY Zenon, <1>5, PersistFacts
  <2>4. CASE b = a
    <3>1. RetireKey(KeyRow(a, "transport")) # KeyRow(a, "transport")
      BY KeyRowFacts
    <3>2. RetireKey(KeyRow(a, "transport")) # None
      <4>1. RetireKey(KeyRow(a, "transport")) \in KeyRows
        BY Zenon DEF KeyRow, KeyRows, RetireKey
      <4> QED
        BY Zenon, <4>1, NoneFacts
    <3> QED
      BY Zenon, <1>3, <2>2, <2>4, <3>1, <3>2 DEF Retired
  <2>5. CASE b # a
    <3>1. \A x \in D : /\ keys'[x] = KeyRow(b, "state") <=> keys[x] = KeyRow(b, "state")
                       /\ keys'[x] = RetireKey(KeyRow(b, "transport")) <=> keys[x] = RetireKey(KeyRow(b, "transport"))
      BY Zenon, <1>5, <2>1, <2>5, EnrolledKeys
    <3>2. \A c \in Agents \ {a} : agent'[c] = agent[c] /\ devices'[c] = devices[c]
      BY Zenon, <1>5, <2>1, PersistFacts
    <3>3. Retired(b)' <=> Retired(b)
      BY Zenon, <1>4, <3>1 DEF Retired
    <3>4. ASSUME Retired(b) PROVE Out(b)'
      <4>1. \A k \in D : keys'[k] # KeyRow(b, "state")
        BY Zenon, <1>1, <3>1, <3>4
      <4>2. devices'[b] = {} /\ retirements'[b] = 1
        BY Zenon, <1>1, <2>2, <2>5, <3>2, <3>4
      <4>3. \A j \in Invitations : inv'[j].agent = b => inv'[j].state \notin {"enrolled", "online"}
        <5>1. \A j \in Invitations : inv[j].agent = b => inv[j].state \notin {"enrolled", "online"}
          BY Zenon, <1>1, <3>4
        <5> QED
          BY Zenon, <2>2, <2>3, <2>5, <5>1
      <4> QED
        BY Zenon, <4>1, <4>2, <4>3
    <3> QED
      BY Zenon, <1>3, <2>2, <3>3, <3>4
  <2> QED
    BY Zenon, <2>4, <2>5
<1>6. ASSUME NEW a \in Agents, RetireCredentials(a)
      PROVE  (Retired(b)' => Out(b)') /\ (~Retired(b)' => retirements'[b] = 0)
  <2>1. \A i \in Invitations :
          \/ /\ inv[i].agent = a /\ inv[i].state \in {"enrolled", "online"}
             /\ inv'[i].state = "revoked" /\ inv'[i].agent = inv[i].agent
          \/ /\ ~(inv[i].agent = a /\ inv[i].state \in {"enrolled", "online"})
             /\ inv'[i] = inv[i]
    BY Zenon, <1>6, RetireFacts
  <2>2. "revoked" \notin {"enrolled", "online"}
    OBVIOUS
  <2>3. CASE b = a
    <3>1. ActiveKey(a, a, "transport") \/ Retired(a)
      BY Zenon, <1>6, RetireFacts DEF KeysInv
    <3>2. Retired(a)'
      BY Zenon, <1>6, <3>1, RetiredKeys
    <3>3. \A k \in D : keys'[k] # KeyRow(a, "state")
      BY Zenon, <1>6, RetiredKeys DEF ActiveKey
    <3>4. devices'[a] = {}
      BY Zenon, <1>6, RetireFacts
    <3>5. \A i \in Invitations : inv'[i].agent = a => inv'[i].state \notin {"enrolled", "online"}
      BY Zenon, <2>1, <2>2
    <3>6. retirements'[a] = 1
      <4>1. CASE Retired(a)
        <5>1. \A k \in D : ~ActiveKey(a, k, "state")
          BY Zenon, <1>1, <2>3, <4>1 DEF ActiveKey
        <5>2. \A k \in D : ~ActiveKey(a, k, "transport")
          <6> SUFFICES ASSUME NEW k \in D, keys[k] = KeyRow(a, "transport") PROVE FALSE
            BY Zenon DEF ActiveKey
          <6>1. KeyRow(a, "transport") # None
            BY Zenon, KeyTypes
          <6>2. KeyRow(a, "transport").purpose = "transport" /\ KeyRow(a, "transport").agent = a
            BY Zenon DEF KeyRow
          <6>3. keys[k].purpose = "transport" => keys[k].agent = k
            BY Zenon, <1>0, <6>1 DEF KeysInv
          <6>4. k = a
            BY Zenon, <6>2, <6>3
          <6>5. RetireKey(KeyRow(a, "transport")) # KeyRow(a, "transport")
            BY KeyRowFacts
          <6> QED
            BY Zenon, <4>1, <6>4, <6>5 DEF Retired
        <5>3. retirements'[a] = retirements[a]
          BY Zenon, <1>6, <5>1, <5>2, RetireFacts
        <5> QED
          BY Zenon, <1>1, <2>3, <4>1, <5>3
      <4>2. CASE ~Retired(a)
        <5>1. retirements[a] = 0 /\ ActiveKey(a, a, "transport")
          BY Zenon, <1>3, <2>3, <3>1, <4>2
        <5>2. retirements'[a] = retirements[a] + 1
          BY Zenon, <1>4, <1>6, <2>3, <5>1, RetireFacts
        <5> QED
          BY <5>1, <5>2
      <4> QED
        BY Zenon, <4>1, <4>2
    <3> QED
      BY Zenon, <2>3, <3>2, <3>3, <3>4, <3>5, <3>6
  <2>4. CASE b # a
    <3>1. \A x \in D : /\ keys'[x] = KeyRow(b, "state") <=> keys[x] = KeyRow(b, "state")
                       /\ keys'[x] = RetireKey(KeyRow(b, "transport")) <=> keys[x] = RetireKey(KeyRow(b, "transport"))
      BY ZenonT(40), <1>6, <2>4, RetiredKeys
    <3>2. devices'[b] = devices[b] /\ retirements'[b] = retirements[b]
      BY ZenonT(40), <1>6, <2>4, RetireFacts
    <3>3. Retired(b)' <=> Retired(b)
      BY Zenon, <1>4, <3>1 DEF Retired
    <3>4. ASSUME Retired(b) PROVE Out(b)'
      <4>1. \A k \in D : keys'[k] # KeyRow(b, "state")
        BY Zenon, <1>1, <3>1, <3>4
      <4>2. \A i \in Invitations : inv'[i].agent = b => inv'[i].state \notin {"enrolled", "online"}
        <5>1. \A i \in Invitations : inv[i].agent = b => inv[i].state \notin {"enrolled", "online"}
          BY Zenon, <1>1, <3>4
        <5> QED
          BY Zenon, <2>1, <2>2, <5>1
      <4> QED
        BY Zenon, <1>1, <3>2, <3>4, <4>1, <4>2
    <3> QED
      BY Zenon, <1>3, <3>2, <3>3, <3>4
  <2> QED
    BY Zenon, <2>3, <2>4
<1>7. ASSUME PublishCommit
      PROVE  (Retired(b)' => Out(b)') /\ (~Retired(b)' => retirements'[b] = 0)
  <2>1. keys' = keys /\ retirements' = retirements
    BY Zenon, <1>7, PublishFacts
  <2>2. CASE UNCHANGED <<inv, devices>>
    BY Zenon, <1>1, <1>3, <2>1, <2>2 DEF Retired
  <2>3. ASSUME NEW i \in Invitations, inv[i].agent = pub.agent, inv[i].state \in {"enrolled", "online"},
               inv'[i].agent = inv[i].agent,
               \A j \in Invitations \ {i} : inv'[j] = inv[j],
               \A c \in Agents \ {pub.agent} : devices'[c] = devices[c]
        PROVE  (Retired(b)' => Out(b)') /\ (~Retired(b)' => retirements'[b] = 0)
    <3>1. Retired(b)' <=> Retired(b)
      BY Zenon, <2>1 DEF Retired
    <3>2. ASSUME Retired(b), b = pub.agent PROVE FALSE
      <4>1. inv[i].agent = b => inv[i].state \notin {"enrolled", "online"}
        BY Zenon, <1>1, <3>2
      <4> QED
        BY Zenon, <2>3, <3>2, <4>1
    <3>3. ASSUME Retired(b) PROVE Out(b)'
      <4>1. \A j \in Invitations : inv'[j].agent = b => inv'[j].state \notin {"enrolled", "online"}
        <5>1. inv'[i].agent # b
          BY Zenon, <2>3, <3>2, <3>3
        <5>2. \A j \in Invitations \ {i} : inv'[j] = inv[j]
          BY Zenon, <2>3
        <5>3. \A j \in Invitations : inv[j].agent = b => inv[j].state \notin {"enrolled", "online"}
          BY Zenon, <1>1, <3>3
        <5> QED
          BY Zenon, <5>1, <5>2, <5>3
      <4>2. devices'[b] = {}
        BY Zenon, <1>1, <2>3, <3>2, <3>3
      <4> QED
        BY Zenon, <1>1, <2>1, <3>3, <4>1, <4>2
    <3> QED
      BY Zenon, <1>3, <2>1, <3>1, <3>3
  <2> QED
    BY Zenon, <1>7, <2>2, <2>3, PublishFacts
<1>8. ASSUME UNCHANGED <<agent, keys, devices, retirements, revision>>,
             \A j \in Invitations :
               \/ inv'[j] = inv[j]
               \/ /\ inv'[j].agent = inv[j].agent
                  /\ inv'[j].state \in {"created", "expired", "revoked"}
      PROVE  (Retired(b)' => Out(b)') /\ (~Retired(b)' => retirements'[b] = 0)
  <2>1. Retired(b)' <=> Retired(b)
    BY Zenon, <1>8 DEF Retired
  <2>2. \A x \in {"created", "expired", "revoked"} : x \notin {"enrolled", "online"}
    OBVIOUS
  <2>3. ASSUME Retired(b) PROVE Out(b)'
    <3>1. \A j \in Invitations : inv'[j].agent = b => inv'[j].state \notin {"enrolled", "online"}
      BY Zenon, <1>1, <1>8, <2>2, <2>3
    <3> QED
      BY Zenon, <1>1, <1>8, <2>3, <3>1
  <2> QED
    BY Zenon, <1>3, <1>8, <2>1, <2>3
<1> HIDE DEF Out
<1> QED
  BY Zenon, <1>5, <1>6, <1>7, <1>8, QuietFacts


\* An enrollment and a publication install the inventory together with the
\* snapshot it comes from, on the one row of the current enrollment.
LEMMA ProjectionStep ==
  ASSUME OnbTypeOK, TimesInv, ProjectionIsCurrent, OnbNext
  PROVE  ProjectionIsCurrent'
<1> DEFINE Live(x) == x.state \in {"enrolled", "online"}
<1>0. \A i \in Invitations : Live(inv[i]) => inv[i].agent \in Agents /\ inv[i].at # None
  BY DEF OnbTypeOK, TimesInv, InvitationRows
<1>1. \A i \in Invitations : Live(inv[i]) /\ agent[inv[i].agent] = inv[i].at
                             => devices[inv[i].agent] = inv[i].snapshot.inventory
  BY Zenon DEF ProjectionIsCurrent
<1>2. SUFFICES ASSUME NEW j \in Invitations, Live(inv'[j]), agent'[inv'[j].agent] = inv'[j].at
               PROVE  devices'[inv'[j].agent] = inv'[j].snapshot.inventory
  BY Zenon DEF ProjectionIsCurrent
<1>3. ASSUME NEW i \in Invitations, PersistEnrollment(i)
      PROVE  devices'[inv'[j].agent] = inv'[j].snapshot.inventory
  <2>0. tx[i].request.agent \in Agents /\ tx[i] # None
    BY Zenon, <1>3, PersistFacts
  <2>1. PICK a \in Agents : a = tx[i].request.agent
    BY Zenon, <2>0
  <2>2. /\ inv'[i].agent = a /\ inv'[i].snapshot = tx[i].request.snapshot
        /\ devices'[a] = tx[i].request.snapshot.inventory /\ agent'[a] = tx[i].at
        /\ \A b \in Agents \ {a} : agent'[b] = agent[b] /\ devices'[b] = devices[b]
    BY Zenon, <1>3, <2>1, PersistFacts
  <2>3. \A k \in Invitations \ {i} : inv'[k] = inv[k] /\ tx'[k] = tx[k]
    BY Zenon, <1>3, PersistFacts
  <2>4. CASE j = i
    BY Zenon, <2>2, <2>4
  <2>5. CASE j # i
    <3>1. inv'[j] = inv[j]
      BY Zenon, <2>3, <2>5
    <3>2. Live(inv[j]) /\ agent'[inv[j].agent] = inv[j].at
      BY Zenon, <1>2, <3>1
    <3>3. inv[j].at # tx[i].at
      BY Zenon, <2>0, <2>5 DEF TimesInv
    <3>4. inv[j].agent \in Agents \ {a}
      BY Zenon, <1>0, <2>2, <3>2, <3>3
    <3>5. agent'[inv[j].agent] = agent[inv[j].agent] /\ devices'[inv[j].agent] = devices[inv[j].agent]
      BY Zenon, <2>2, <3>4
    <3>6. devices[inv[j].agent] = inv[j].snapshot.inventory
      BY Zenon, <1>1, <3>2, <3>5
    <3> QED
      BY Zenon, <3>1, <3>5, <3>6
  <2> QED
    BY Zenon, <2>4, <2>5
<1>4. ASSUME NEW a \in Agents, RetireCredentials(a)
      PROVE  devices'[inv'[j].agent] = inv'[j].snapshot.inventory
  <2>1. \/ inv'[j].state = "revoked"
        \/ /\ ~(inv[j].agent = a /\ Live(inv[j]))
           /\ inv'[j] = inv[j]
    BY Zenon, <1>4, RetireFacts
  <2>2. "revoked" \notin {"enrolled", "online"}
    OBVIOUS
  <2>3. inv[j].agent # a /\ inv'[j] = inv[j] /\ Live(inv[j])
    BY Zenon, <1>2, <2>1, <2>2
  <2>4. agent' = agent /\ \A b \in Agents \ {a} : devices'[b] = devices[b]
    BY Zenon, <1>4, RetireFacts
  <2>5. inv[j].agent \in Agents \ {a}
    BY Zenon, <1>0, <2>3
  <2> QED
    BY ZenonT(40), <1>1, <1>2, <2>3, <2>4, <2>5
<1>5. ASSUME PublishCommit
      PROVE  devices'[inv'[j].agent] = inv'[j].snapshot.inventory
  <2>1. agent' = agent
    BY Zenon, <1>5, PublishFacts
  <2>2. CASE UNCHANGED <<inv, devices>>
    BY Zenon, <1>1, <1>2, <2>1, <2>2
  <2>3. ASSUME NEW i \in Invitations, inv[i].agent = pub.agent, inv[i].at = agent[pub.agent], Live(inv[i]),
               inv'[i].snapshot = pub.snapshot, inv'[i].agent = inv[i].agent,
               \A k \in Invitations \ {i} : inv'[k] = inv[k],
               devices'[pub.agent] = pub.snapshot.inventory,
               \A c \in Agents \ {pub.agent} : devices'[c] = devices[c]
        PROVE  devices'[inv'[j].agent] = inv'[j].snapshot.inventory
    <3>1. CASE j = i
      BY Zenon, <2>3, <3>1
    <3>2. CASE j # i
      <4>1. inv'[j] = inv[j]
        BY Zenon, <2>3, <3>2
      <4>2. Live(inv[j]) /\ agent[inv[j].agent] = inv[j].at
        BY Zenon, <1>2, <2>1, <4>1
      <4>3. inv[i].at # inv[j].at
        BY ZenonT(40), <1>0, <2>3, <3>2 DEF TimesInv
      <4>4. inv[j].agent \in Agents \ {pub.agent}
        BY Zenon, <1>0, <2>3, <4>2, <4>3
      <4>5. devices'[inv[j].agent] = devices[inv[j].agent]
        BY Zenon, <2>3, <4>4
      <4>6. devices[inv[j].agent] = inv[j].snapshot.inventory
        BY Zenon, <1>1, <4>2
      <4> QED
        BY Zenon, <4>1, <4>5, <4>6
    <3> QED
      BY Zenon, <3>1, <3>2
  <2> QED
    BY Zenon, <1>5, <2>2, <2>3, PublishFacts
<1>6. ASSUME UNCHANGED <<agent, devices>>,
             inv'[j] = inv[j] \/ inv'[j].state \in {"created", "expired", "revoked"}
      PROVE  devices'[inv'[j].agent] = inv'[j].snapshot.inventory
  <2>1. \A x \in {"created", "expired", "revoked"} : x \notin {"enrolled", "online"}
    OBVIOUS
  <2>2. inv'[j] = inv[j]
    BY Zenon, <1>2, <1>6, <2>1
  <2> QED
    BY Zenon, <1>1, <1>2, <1>6, <2>2
<1> QED
  BY Zenon, <1>3, <1>4, <1>5, <1>6, QuietFacts

\* The tables are empty at first.
LEMMA InitInv ==
  ASSUME OnbInit
  PROVE  OnbInv
<1>1. NoInvitation \in InvitationRows
  BY DEF NoInvitation, InvitationRows
<1>2. OnbTypeOK
  <2>1. Horizon \in Nat
    BY Zenon, NoneFacts
  <2>2. now \in 0..Horizon /\ revision \in Nat
    BY <2>1 DEF OnbInit
  <2>3. /\ inv \in [Invitations -> InvitationRows]
        /\ attempts \in [Invitations -> SUBSET (0..Horizon)]
    BY <1>1 DEF OnbInit
  <2>4. retirements \in [Agents -> Nat]
    BY DEF OnbInit
  <2>5. /\ tx \in [Invitations -> [request : Requests, at : 0..Horizon] \cup {None}]
        /\ agent \in [Agents -> (0..Horizon) \cup {None}]
        /\ keys \in [StateKeys \cup Agents -> KeyRows \cup {None}]
        /\ DOMAIN devices = Agents
        /\ pub \in [agent : Agents, snapshot : Snapshots, enrolled : 0..Horizon] \cup {None}
    BY Zenon DEF OnbInit
  <2> QED
    BY Zenon, <2>2, <2>3, <2>4, <2>5 DEF OnbTypeOK
<1>3. \A i \in Invitations : inv[i].state = None /\ inv[i].agent = None /\ inv[i].at = None /\ tx[i] = None
  BY DEF OnbInit, NoInvitation
<1>4. /\ \A k \in StateKeys \cup Agents : keys[k] = None
      /\ \A a \in Agents : agent[a] = None /\ devices[a] = {} /\ retirements[a] = 0
      /\ DOMAIN keys = StateKeys \cup Agents
  BY DEF OnbInit
<1>5. None \notin {"created", "enrolled", "online", "expired", "revoked"}
  BY Zenon, NoneFacts
<1>6. TimesInv
  BY Zenon, <1>3, <1>5 DEF TimesInv
<1>7. \A a \in Agents, p \in {"transport", "state"} : KeyRow(a, p) # None /\ RetireKey(KeyRow(a, p)) # None
  <2>1. \A a \in Agents, p \in {"transport", "state"} : KeyRow(a, p) \in KeyRows /\ RetireKey(KeyRow(a, p)) \in KeyRows
    BY Zenon DEF KeyRow, KeyRows, RetireKey
  <2> QED
    BY Zenon, <2>1, NoneFacts
<1>8. KeysInv
  BY Zenon, <1>4, <1>7 DEF KeysInv, ActiveKey
<1>9. RetiredStaysOut /\ RetirementInv
  BY Zenon, <1>4, <1>7 DEF RetiredStaysOut, RetirementInv, Retired
<1>10. ProjectionIsCurrent
  BY Zenon, <1>3, <1>5 DEF ProjectionIsCurrent
<1> QED
  BY Zenon, <1>2, <1>6, <1>8, <1>9, <1>10 DEF OnbInv

\* Every step of enrollment, publication and retirement keeps the invariant.
LEMMA OnbInvStep ==
  ASSUME OnbInv, [OnbNext]_onbVars
  PROVE  OnbInv'
<1>1. CASE OnbNext
  BY Zenon, <1>1, TypeStep, TimesStep, KeysStep, RetiredStep, ProjectionStep DEF OnbInv
<1>2. CASE UNCHANGED onbVars
  <2>1. UNCHANGED <<now, inv, attempts, tx, agent, keys, devices, pub, retirements, revision>>
    BY Zenon, <1>2 DEF onbVars
  <2>2. OnbTypeOK' /\ TimesInv'
    BY Zenon, <2>1 DEF OnbInv, OnbTypeOK, TimesInv
  <2>3. KeysInv' /\ RetiredStaysOut' /\ RetirementInv' /\ ProjectionIsCurrent'
    BY ZenonT(40), <2>1 DEF OnbInv, KeysInv, RetiredStaysOut, RetirementInv, ProjectionIsCurrent, Retired, ActiveKey
  <2> QED
    BY Zenon, <2>2, <2>3 DEF OnbInv
<1> QED
  BY Zenon, <1>1, <1>2

-----------------------------------------------------------------------------
\* Whatever enrollments, publications and retirements interleave, in whichever
\* order their transactions commit, the tables stay consistent.
THEOREM EnrollmentInvariant == OnbSpec => []OnbInv
<1>1. OnbInit => OnbInv
  BY Zenon, InitInv
<1>2. OnbInv /\ [OnbNext]_onbVars => OnbInv'
  BY Zenon, OnbInvStep
<1> QED
  BY <1>1, <1>2, PTL DEF OnbSpec

\* persist_enrollment() retires the State key it replaces in the transaction
\* that installs the new one: an enrolled Agent has one key for each purpose.
THEOREM KeysDoNotAccumulate == OnbSpec => []OneKeyPerPurpose
<1>1. OnbInv => OneKeyPerPurpose
  <2> SUFFICES ASSUME OnbInv, NEW a \in Agents, agent[a] # None, ~Retired(a)
               PROVE  /\ ActiveKey(a, a, "transport")
                      /\ Cardinality({k \in DOMAIN keys : ActiveKey(a, k, "state")}) = 1
    BY Zenon DEF OneKeyPerPurpose
  <2>1. ActiveKey(a, a, "transport")
    BY Zenon DEF OnbInv, KeysInv
  <2>2. PICK k \in DOMAIN keys : \A x \in DOMAIN keys : ActiveKey(a, x, "state") <=> x = k
    BY Zenon, <2>1 DEF OnbInv, KeysInv
  <2>3. {x \in DOMAIN keys : ActiveKey(a, x, "state")} = {k}
    BY Zenon, <2>2
  <2>4. Cardinality({k}) = 1
    BY Zenon, FS_Singleton
  <2> QED
    BY Zenon, <2>1, <2>3, <2>4
<1> QED
  BY <1>1, EnrollmentInvariant, PTL

\* retire_agent_credentials() is final: an enrollment that had locked its
\* invitation and a publication that had read the Agent before it commit
\* nothing after it.
THEOREM RetirementIsFinal == OnbSpec => []RetiredStaysOut
<1>1. OnbInv => RetiredStaysOut
  BY Zenon DEF OnbInv
<1> QED
  BY <1>1, EnrollmentInvariant, PTL

\* The Device Projection is that of the newest snapshot of the enrollment the
\* Agent has now: a publication signed for an earlier one changes nothing.
THEOREM ProjectionFollowsEnrollment == OnbSpec => []ProjectionIsCurrent
<1>1. OnbInv => ProjectionIsCurrent
  BY Zenon DEF OnbInv
<1> QED
  BY <1>1, EnrollmentInvariant, PTL

\* No step changes the Agents that may be admitted and leaves the authority
\* revision where it was, so no Router's acknowledgment covers more than it saw.
THEOREM RevisionCoversChanges == OnbSpec => RevisionCovers
<1>1. ASSUME OnbInv, OnbNext
      PROVE  ActiveAgents' # ActiveAgents => revision' > revision
  <2>0. OnbTypeOK /\ TimesInv /\ revision \in Nat /\ DOMAIN keys = StateKeys \cup Agents
    BY Zenon, <1>1 DEF OnbInv, OnbTypeOK
  <2>1. revision' = revision + 1 => revision' > revision
    BY <2>0
  <2>2. CASE \E i \in Invitations : PersistEnrollment(i)
    BY Zenon, <2>0, <2>1, <2>2, PersistFacts
  <2>3. ASSUME NEW a \in Agents, RetireCredentials(a)
        PROVE  ActiveAgents' # ActiveAgents => revision' > revision
    <3>1. CASE \E k \in StateKeys \cup Agents : ActiveKey(a, k, "transport") \/ ActiveKey(a, k, "state")
      BY Zenon, <2>0, <2>1, <2>3, <3>1, RetireFacts
    <3>2. CASE ~\E k \in StateKeys \cup Agents : ActiveKey(a, k, "transport") \/ ActiveKey(a, k, "state")
      <4>1. agent' = agent /\ DOMAIN keys' = DOMAIN keys /\ \A k \in StateKeys \cup Agents : keys'[k] = keys[k]
        BY Zenon, <2>0, <2>3, <3>2, RetireFacts, RetiredKeys
      <4>2. ActiveAgents' = ActiveAgents
        BY Zenon, <2>0, <4>1 DEF ActiveAgents, ActiveKey
      <4> QED
        BY Zenon, <4>2
    <3> QED
      BY Zenon, <3>1, <3>2
  <2>4. CASE UNCHANGED <<agent, keys>>
    BY Zenon, <2>4 DEF ActiveAgents, ActiveKey
  <2> QED
    BY Zenon, <1>1, <2>2, <2>3, <2>4, OtherSteps
<1>2. OnbInv /\ [OnbNext]_onbVars => [ActiveAgents' # ActiveAgents => revision' > revision]_onbVars
  BY Zenon, <1>1
<1> QED
  BY <1>2, EnrollmentInvariant, PTL DEF OnbSpec, RevisionCovers

\* An invitation is consumed once: the replay of an enrollment and a second
\* Agent that holds the same code never rebind it.
THEOREM InvitationsAreConsumedOnce == OnbSpec => ConsumedOnce
<1> DEFINE Kept(i) == /\ inv[i].agent # None =>
                           <<inv'[i].agent, inv'[i].at, inv'[i].fingerprint>>
                             = <<inv[i].agent, inv[i].at, inv[i].fingerprint>>
                      /\ inv[i].state = "revoked" => inv'[i].state = "revoked"
                      /\ inv[i].state = "expired" => inv'[i].state \in {"expired", "revoked"}
<1>1. ASSUME OnbInv, OnbNext, NEW i \in Invitations
      PROVE  Kept(i)
  <2>0. OnbTypeOK /\ TimesInv
    BY Zenon, <1>1 DEF OnbInv
  <2>1. CASE PersistEnrollment(i)
    <3>1. inv[i].state = "created"
      BY Zenon, <2>0, <2>1, PersistFacts
    <3>2. inv[i].agent = None
      BY Zenon, <2>0, <3>1 DEF TimesInv
    <3> QED
      BY <3>1, <3>2
  <2>2. CASE ~PersistEnrollment(i)
    <3>1. /\ inv'[i].agent = inv[i].agent /\ inv'[i].at = inv[i].at
          /\ inv'[i].fingerprint = inv[i].fingerprint
          /\ \/ inv'[i].state = inv[i].state
             \/ inv[i].state = None /\ inv'[i].state = "created"
             \/ inv[i].state = "created" /\ inv'[i].state = "expired"
             \/ inv[i].state \notin {None, "revoked"} /\ inv'[i].state = "revoked"
             \/ inv[i].state \in {"enrolled", "online"} /\ inv'[i].state = "online"
      BY Zenon, <1>1, <2>0, <2>2, InvitationSteps
    <3>2. None \notin {"expired", "revoked"}
      BY Zenon, NoneFacts
    <3> QED
      BY <3>1, <3>2
  <2> QED
    BY Zenon, <2>1, <2>2
<1>2. OnbInv /\ [OnbNext]_onbVars => [\A i \in Invitations : Kept(i)]_onbVars
  BY Zenon, <1>1
<1> QED
  BY <1>2, EnrollmentInvariant, PTL DEF OnbSpec, ConsumedOnce

=============================================================================
