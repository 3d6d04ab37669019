------------------------ MODULE RouterAdmissionProofs ------------------------
(***************************************************************************)
(* Router admission for any Agents, Routers, Controller replicas, lives of *)
(* policies and numbers of generations: AdmInv is inductive, and an        *)
(* admission and an answered retirement mean what every Router enforces.   *)
(***************************************************************************)
EXTENDS RouterAdmission, TLAPS

USE AdmissionConstants

\* A document has a generation and an authority.
LEMMA DocumentFields ==
  ASSUME NEW d \in Documents
  PROVE  /\ d.generation \in 0..MaxGeneration
         /\ d.authority \in (SUBSET Members) \cup {Closed}
         /\ d.generation = 0 <=> d = NoDocument
BY DEF Documents, NoDocument, Closed

\* A copy of a document is a document.
LEMMA CopiesAreDocuments == AdmTypeOK => Copies \subseteq Documents
<1> SUFFICES ASSUME AdmTypeOK, NEW d \in Copies PROVE d \in Documents
  BY Zenon
<1>1. CASE d = row.doc
  BY Zenon, <1>1 DEF AdmTypeOK
<1>2. ASSUME NEW c \in Replicas, d = job[c].doc PROVE d \in Documents
  BY Zenon, <1>2 DEF AdmTypeOK, Reconciliations
<1>3. ASSUME NEW m \in wire, d = m[3] PROVE d \in Documents
  BY Zenon, <1>3 DEF AdmTypeOK
<1>4. ASSUME NEW r \in Routers, d = durable[r] PROVE d \in Documents
  BY Zenon, <1>4 DEF AdmTypeOK
<1> QED
  BY Zenon, <1>1, <1>2, <1>3, <1>4 DEF Copies

\* A step that makes no new document keeps their order.
LEMMA OrderKept ==
  ASSUME AdmInv, row' = row, Copies' \subseteq Copies
  PROVE  /\ OneDocumentPerGeneration'
         /\ \A d \in Copies' : d.generation <= row'.doc.generation
BY Zenon DEF AdmInv, OneDocumentPerGeneration, RowInv

\* A reconciliation ends in, or begins from, this one.
LEMMA IdleType == Idle \in Reconciliations
BY DEF Idle, Reconciliations, Documents

\* One reconciliation changes, and the documents are those there were and its own.
LEMMA JobChanges ==
  ASSUME AdmTypeOK, NEW c \in Replicas, NEW j \in Reconciliations,
         job' = [job EXCEPT ![c] = j]
  PROVE  /\ job' \in [Replicas -> Reconciliations]
         /\ job'[c] = j /\ \A x \in Replicas \ {c} : job'[x] = job[x]
         /\ UNCHANGED <<row, durable>> /\ (\A m \in wire' : m[3] \in Copies)
              => Copies' \subseteq Copies \cup {j.doc}
<1>1. job \in [Replicas -> Reconciliations]
  BY Zenon DEF AdmTypeOK
<1>2. /\ job' \in [Replicas -> Reconciliations]
      /\ job'[c] = j /\ \A x \in Replicas \ {c} : job'[x] = job[x]
  BY Zenon, <1>1
<1>3. ASSUME UNCHANGED <<row, durable>>, \A m \in wire' : m[3] \in Copies, NEW d \in Copies'
      PROVE  d \in Copies \cup {j.doc}
  <2>1. ASSUME NEW x \in Replicas, d = job'[x].doc PROVE d \in Copies \cup {j.doc}
    <3>1. CASE x = c
      BY Zenon, <1>2, <2>1, <3>1
    <3>2. CASE x # c
      BY Zenon, <1>2, <2>1, <3>2 DEF Copies
    <3> QED
      BY Zenon, <3>1, <3>2
  <2>2. \/ d \in {row.doc} \cup {durable[r] : r \in Routers}
        \/ d \in {m[3] : m \in wire'}
        \/ d \in {job'[x].doc : x \in Replicas}
    BY Zenon, <1>3 DEF Copies
  <2>3. {row.doc} \cup {durable[r] : r \in Routers} \subseteq Copies
    BY Zenon DEF Copies
  <2> QED
    BY Zenon, <1>3, <2>1, <2>2, <2>3
<1> QED
  BY Zenon, <1>2, <1>3

\* The documents on the wire are copies.
LEMMA WireCopies == \A m \in wire : m[3] \in Copies
BY Zenon DEF Copies

\* A step of one reconciliation that makes no new document, whatever it sends.
LEMMA JobStepInv ==
  ASSUME AdmInv, NEW c \in Replicas, NEW j \in Reconciliations,
         job' = [job EXCEPT ![c] = j],
         j.doc \in Copies \/ j.doc = NoDocument,
         UNCHANGED <<active, retired, epoch, row, durable, serving>>,
         \/ gone' = gone
         \/ /\ gone' \subseteq retired
            /\ \A a \in gone', r \in Routers, d \in Copies :
                 d.generation >= durable[r].generation => a \notin d.authority,
         age' \in [0..MaxGeneration -> 0..PolicyLife], acked' \in 0..AckLife,
         wire' \subseteq Replicas \X Routers \X Documents,
         \A m \in wire' : m[3] \in Copies,
         j.step \in {"send", "wait", "proof"} => j.doc # NoDocument,
         j.step # "wait" => j.oks = {},
         \A r \in Routers : r \in j.oks \/ j.step = "proof"
                              => durable[r].generation >= j.doc.generation,
         j.goal \subseteq retired
  PROVE  AdmInv'
<1>1. /\ job' \in [Replicas -> Reconciliations]
      /\ job'[c] = j /\ \A x \in Replicas \ {c} : job'[x] = job[x]
      /\ \A d \in Copies' : d \in Copies \/ d = NoDocument
  <2>1. AdmTypeOK
    BY Zenon DEF AdmInv
  <2>2. Copies' \subseteq Copies \cup {j.doc}
    BY Zenon, <2>1, JobChanges
  <2>3. /\ job' \in [Replicas -> Reconciliations]
        /\ job'[c] = j /\ \A x \in Replicas \ {c} : job'[x] = job[x]
    BY Zenon, <2>1, JobChanges
  <2> QED
    BY Zenon, <2>2, <2>3
<1>2. AdmTypeOK'
  <2>1. gone' \subseteq Members
    BY Zenon DEF AdmInv, AdmTypeOK
  <2> QED
    BY Zenon, <1>1, <2>1 DEF AdmInv, AdmTypeOK
<1>3. OneDocumentPerGeneration' /\ RowInv'
  <2>1. \A d \in Copies : d \in Documents
    BY Zenon, CopiesAreDocuments DEF AdmInv
  <2>3. row.doc \in Documents
    BY Zenon DEF AdmInv, AdmTypeOK
  <2>4. NoDocument.generation = 0 /\ \A d \in Copies : d.generation = 0 => d = NoDocument
    BY Zenon, <2>1, DocumentFields DEF Documents
  <2>5. OneDocumentPerGeneration'
    BY Zenon, <1>1, <2>4 DEF AdmInv, OneDocumentPerGeneration
  <2>6. row.doc.generation >= 0
    BY <2>3, DocumentFields
  <2> QED
    BY Zenon, <1>1, <2>4, <2>5, <2>6 DEF AdmInv, RowInv
<1>4. JobInv' /\ ServingInv'
  BY Zenon, <1>1 DEF AdmInv, JobInv, ServingInv
<1>5. GoneInv'
  <2>1. \A x \in gone' : x \notin NoDocument.authority
    BY Zenon, <1>2 DEF AdmTypeOK, NoDocument, Closed
  <2>2. /\ gone' \subseteq retired /\ active \cap retired = {}
        /\ \A a \in gone', r \in Routers, d \in Copies :
             d.generation >= durable[r].generation => a \notin d.authority
    BY Zenon DEF AdmInv, GoneInv
  <2> QED
    BY Zenon, <1>1, <2>1, <2>2 DEF GoneInv
<1> QED
  BY Zenon, <1>2, <1>3, <1>4, <1>5 DEF AdmInv

\* The initial state.
LEMMA AdmInitInv == AdmInit => AdmInv
<1> SUFFICES ASSUME AdmInit PROVE AdmInv
  BY Zenon
<1> USE DEF AdmInit
<1>1. AdmTypeOK
  BY IdleType DEF AdmTypeOK, Documents
<1>2. \A d \in Copies : d = NoDocument
  BY Zenon DEF Copies, Idle
<1>3. OneDocumentPerGeneration /\ RowInv
  BY <1>2 DEF OneDocumentPerGeneration, RowInv, NoDocument
<1>4. JobInv /\ ServingInv /\ GoneInv
  BY Zenon DEF JobInv, ServingInv, GoneInv, Idle, NoDocument, Closed
<1> QED
  BY Zenon, <1>1, <1>3, <1>4 DEF AdmInv

-----------------------------------------------------------------------------
(* The database: enrollment and retirement *)

\* An enrollment makes the revision of the row an old one.
LEMMA EnrollInv ==
  ASSUME AdmInv, NEW a \in Members, Enroll(a)
  PROVE  AdmInv'
<1>0. /\ active' = active \cup {a} /\ a \notin retired
      /\ epoch' = epoch + 1 /\ epoch < MaxRevision /\ acked' = AckLife
      /\ UNCHANGED <<retired, row, age, job, wire, durable, serving, gone>>
  BY Zenon DEF Enroll, Invalidate, Routing
<1>1. AdmTypeOK'
  BY <1>0 DEF AdmInv, AdmTypeOK
<1>2. Copies' = Copies
  BY Zenon, <1>0 DEF Copies
<1>3. OneDocumentPerGeneration' /\ \A d \in Copies' : d.generation <= row'.doc.generation
  BY Zenon, <1>0, <1>2, OrderKept
<1>4. RowInv'
  BY <1>0, <1>3 DEF AdmInv, AdmTypeOK, RowInv
<1>5. JobInv' /\ ServingInv'
  BY Zenon, <1>0 DEF AdmInv, JobInv, ServingInv
<1>6. GoneInv'
  BY Zenon, <1>0, <1>2 DEF AdmInv, GoneInv
<1> QED
  BY Zenon, <1>1, <1>3, <1>4, <1>5, <1>6 DEF AdmInv

\* A retirement makes it an old one too, or repeats an earlier retirement.
LEMMA RetireInv ==
  ASSUME AdmInv, NEW c \in Replicas, NEW a \in Members, Retire(c, a)
  PROVE  AdmInv'
<1>0. /\ active' = active \ {a} /\ retired' = retired \cup {a}
      /\ \/ epoch' = epoch + 1 /\ epoch < MaxRevision /\ acked' = AckLife
         \/ a \in retired /\ epoch' = epoch /\ acked' = acked
      /\ job' = [job EXCEPT ![c] = [Idle EXCEPT !.step = "start", !.goal = {a}]]
      /\ UNCHANGED <<row, age, wire, durable, serving, gone>>
  BY Zenon DEF Retire, Invalidate, Routing
<1> DEFINE j == [Idle EXCEPT !.step = "start", !.goal = {a}]
<1>i. /\ j \in Reconciliations
      /\ j.step = "start" /\ j.doc = NoDocument /\ j.oks = {} /\ j.goal = {a}
  BY Zenon, IdleType DEF Reconciliations, Idle
<1>j. job' = [job EXCEPT ![c] = j]
  BY Zenon, <1>0
<1> HIDE DEF j
<1>k. /\ job' \in [Replicas -> Reconciliations]
      /\ job'[c] = j
      /\ \A x \in Replicas \ {c} : job'[x] = job[x]
      /\ Copies' \subseteq Copies \cup {NoDocument}
  BY Zenon, <1>0, <1>i, <1>j, JobChanges, WireCopies DEF AdmInv
<1>1. AdmTypeOK'
  BY SMTT(30), <1>0, <1>k DEF AdmInv, AdmTypeOK
<1>2. \A d \in Copies' : d \in Copies \/ d = NoDocument
  BY Zenon, <1>k
<1>3. OneDocumentPerGeneration' /\ \A d \in Copies' : d.generation <= row'.doc.generation
  <2>1. \A d \in Copies : d \in Documents
    BY Zenon, CopiesAreDocuments DEF AdmInv
  <2>2. \A d \in Copies' : d \in Documents
    BY Zenon, <1>2, <2>1 DEF Documents
  <2>3. row.doc \in Documents
    BY Zenon DEF AdmInv, AdmTypeOK
  <2> QED
    BY <1>0, <1>2, <2>1, <2>2, <2>3, DocumentFields DEF AdmInv, OneDocumentPerGeneration, RowInv
<1>4. RowInv'
  BY <1>0, <1>3 DEF AdmInv, AdmTypeOK, RowInv, GoneInv
<1>5. JobInv' /\ ServingInv'
  BY ZenonT(40), <1>0, <1>i, <1>k DEF AdmInv, JobInv, ServingInv
<1>6. GoneInv'
  <2>1. \A x \in gone : x \notin NoDocument.authority
    BY Zenon DEF AdmInv, AdmTypeOK, NoDocument, Closed
  <2> QED
    BY Zenon, <1>0, <1>2, <2>1 DEF AdmInv, GoneInv
<1> QED
  BY Zenon, <1>1, <1>3, <1>4, <1>5, <1>6 DEF AdmInv

-----------------------------------------------------------------------------
(* The reconciliations *)

\* A reconciliation that begins, is given up or forgets its proof.
LEMMA RestInv ==
  ASSUME AdmInv, NEW c \in Replicas, Reconcile(c) \/ GiveUp(c) \/ ForgetProof(c)
  PROVE  AdmInv'
<1>1. PICK j \in {Idle, [Idle EXCEPT !.step = "start"]} :
        /\ job' = [job EXCEPT ![c] = j]
        /\ UNCHANGED <<active, retired, epoch, row, acked, age, wire, durable, serving, gone>>
  BY Zenon DEF Reconcile, GiveUp, ForgetProof, Routing
<1>2. /\ j \in Reconciliations
      /\ j.doc = NoDocument /\ j.step \in {"idle", "start"} /\ j.oks = {} /\ j.goal = {}
  BY IdleType DEF Reconciliations, Idle
<1>3. /\ age' \in [0..MaxGeneration -> 0..PolicyLife] /\ acked' \in 0..AckLife
      /\ wire' \subseteq Replicas \X Routers \X Documents
      /\ \A m \in wire' : m[3] \in Copies
  BY Zenon, <1>1, WireCopies DEF AdmInv, AdmTypeOK
<1> QED
  BY Zenon, <1>1, <1>2, <1>3, JobStepInv

\* A document is sent to every Router, or has expired.
LEMMA SendInv ==
  ASSUME AdmInv, NEW c \in Replicas, Send(c)
  PROVE  AdmInv'
<1>0. /\ job[c].step = "send" /\ job[c] \in Reconciliations /\ job \in [Replicas -> Reconciliations]
      /\ UNCHANGED <<active, retired, epoch, row, acked, age, durable, serving, gone>>
  BY Zenon DEF Send, AdmInv, AdmTypeOK
<1>1. /\ age' \in [0..MaxGeneration -> 0..PolicyLife] /\ acked' \in 0..AckLife
      /\ wire \subseteq Replicas \X Routers \X Documents
  BY Zenon, <1>0 DEF AdmInv, AdmTypeOK
<1>2. CASE job' = [job EXCEPT ![c] = Idle] /\ wire' = wire
  <2>1. Idle.doc = NoDocument /\ Idle.step = "idle" /\ Idle.oks = {} /\ Idle.goal = {}
    BY Zenon DEF Idle
  <2> QED
    BY Zenon, <1>0, <1>1, <1>2, <2>1, IdleType, WireCopies, JobStepInv
<1>3. CASE /\ job' = [job EXCEPT ![c].step = "wait"]
           /\ wire' = wire \cup {<<c, r, job[c].doc>> : r \in Routers}
  <2> DEFINE j == [job[c] EXCEPT !.step = "wait"]
  <2>1. /\ j \in Reconciliations /\ j.doc = job[c].doc /\ j.step = "wait"
        /\ j.oks = job[c].oks /\ j.goal = job[c].goal
    BY Zenon, <1>0 DEF Reconciliations
  <2>2. job' = [job EXCEPT ![c] = j]
    BY Zenon, <1>3
  <2> HIDE DEF j
  <2>3. job[c].doc \in Copies /\ job[c].doc \in Documents
    BY Zenon, <1>0 DEF Copies, Reconciliations
  <2>4. wire' \subseteq Replicas \X Routers \X Documents /\ \A m \in wire' : m[3] \in Copies
    BY <1>1, <1>3, <2>3, WireCopies
  <2>5. /\ job[c].doc # NoDocument /\ job[c].oks = {} /\ job[c].goal \subseteq retired
    BY Zenon, <1>0 DEF AdmInv, JobInv
  <2> QED
    BY Zenon, <1>0, <1>1, <2>1, <2>2, <2>3, <2>4, <2>5, JobStepInv
<1> QED
  BY Zenon, <1>2, <1>3 DEF Send

\* A Router's answer counts for the reconciliation that waits for it.
LEMMA RouterConfirmInv ==
  ASSUME AdmInv, NEW m \in wire, RouterConfirm(m)
  PROVE  AdmInv'
<1> DEFINE c == m[1]
           r == m[2]
<1>0. /\ ServesDocument(r, m[3]) /\ wire' = wire \ {m}
      /\ job' = IF job[c].step = "wait" /\ job[c].doc = m[3]
                  THEN [job EXCEPT ![c].oks = @ \cup {r}] ELSE job
      /\ UNCHANGED <<active, retired, epoch, row, acked, age, durable, serving, gone>>
  BY Zenon DEF RouterConfirm
<1>1. /\ age' \in [0..MaxGeneration -> 0..PolicyLife] /\ acked' \in 0..AckLife
      /\ wire' \subseteq Replicas \X Routers \X Documents
      /\ c \in Replicas /\ r \in Routers /\ job[c] \in Reconciliations
      /\ job \in [Replicas -> Reconciliations] /\ job[c].doc \in Documents
  BY Zenon, <1>0 DEF AdmInv, AdmTypeOK, Reconciliations
<1>2. \A x \in wire' : x[3] \in Copies
  BY Zenon, <1>0, WireCopies
<1>3. \E j \in Reconciliations :
        /\ job' = [job EXCEPT ![c] = j]
        /\ j.doc = job[c].doc /\ j.step = job[c].step /\ j.goal = job[c].goal
        /\ j.oks = job[c].oks
           \/ (j.oks = job[c].oks \cup {r} /\ job[c].doc = m[3] /\ job[c].step = "wait")
  <2>1. CASE job[c].step = "wait" /\ job[c].doc = m[3]
    <3> DEFINE j == [job[c] EXCEPT !.oks = @ \cup {r}]
    <3>1. /\ j \in Reconciliations /\ j.doc = job[c].doc /\ j.step = job[c].step
          /\ j.oks = job[c].oks \cup {r} /\ j.goal = job[c].goal
      BY Zenon, <1>1 DEF Reconciliations
    <3>2. job' = [job EXCEPT ![c] = j]
      BY Zenon, <1>0, <2>1
    <3> HIDE DEF j
    <3> QED
      BY Zenon, <2>1, <3>1, <3>2
  <2>2. CASE ~(job[c].step = "wait" /\ job[c].doc = m[3])
    <3>1. job' = [job EXCEPT ![c] = job[c]]
      BY Zenon, <1>0, <1>1, <2>2
    <3> QED
      BY Zenon, <1>1, <3>1
  <2> QED
    BY Zenon, <2>1, <2>2
<1>4. PICK j \in Reconciliations :
        /\ job' = [job EXCEPT ![c] = j]
        /\ j.doc = job[c].doc /\ j.step = job[c].step /\ j.goal = job[c].goal
        /\ j.oks = job[c].oks
           \/ (j.oks = job[c].oks \cup {r} /\ job[c].doc = m[3] /\ job[c].step = "wait")
  BY Zenon, <1>3
<1>5. /\ j.step \in {"send", "wait", "proof"} => j.doc # NoDocument
      /\ j.step # "wait" => j.oks = {}
      /\ j.goal \subseteq retired
  BY Zenon, <1>1, <1>4 DEF AdmInv, JobInv
<1>6. ASSUME NEW x \in Routers, x \in j.oks \/ j.step = "proof"
      PROVE  durable[x].generation >= j.doc.generation
  <2>1. CASE x \in job[c].oks \/ job[c].step = "proof"
    BY Zenon, <1>1, <1>4, <2>1 DEF AdmInv, JobInv
  <2>2. CASE x = r /\ job[c].doc = m[3]
    <3>1. durable[x] = j.doc
      BY Zenon, <1>0, <1>4, <2>2 DEF ServesDocument
    <3> QED
      BY <1>1, <1>4, <3>1, DocumentFields
  <2> QED
    BY Zenon, <1>4, <1>6, <2>1, <2>2
<1>7. j.doc \in Copies
  BY Zenon, <1>1, <1>4 DEF Copies
<1> QED
  BY Zenon, <1>0, <1>1, <1>2, <1>4, <1>5, <1>6, <1>7, JobStepInv

\* A new document is numbered above every copy, and the row is its first.
LEMMA PrepareInv ==
  ASSUME AdmInv, NEW c \in Replicas, Prepare(c)
  PROVE  AdmInv'
<1>0. /\ job[c].step = "start" /\ job[c] \in Reconciliations /\ job \in [Replicas -> Reconciliations]
      /\ UNCHANGED <<active, retired, epoch, age, wire, durable, serving, gone>>
      /\ row.doc \in Documents /\ row.epoch \in 0..MaxRevision
  BY Zenon DEF Prepare, AdmInv, AdmTypeOK, Routing
<1>1. /\ age' \in [0..MaxGeneration -> 0..PolicyLife] /\ acked \in 0..AckLife
      /\ wire' \subseteq Replicas \X Routers \X Documents
      /\ \A m \in wire' : m[3] \in Copies
  BY Zenon, <1>0, WireCopies DEF AdmInv, AdmTypeOK
<1>2. job[c].oks = {} /\ job[c].goal \subseteq retired
  BY Zenon, <1>0 DEF AdmInv, JobInv
<1>3. CASE job' = [job EXCEPT ![c] = Idle] /\ UNCHANGED <<row, acked>>
  <2>1. Idle.doc = NoDocument /\ Idle.step = "idle" /\ Idle.oks = {} /\ Idle.goal = {}
    BY Zenon DEF Idle
  <2> QED
    BY Zenon, <1>0, <1>1, <1>3, <2>1, IdleType, JobStepInv
<1>4. CASE /\ Reusable(c) /\ UNCHANGED <<row, acked>>
           /\ job' = [job EXCEPT ![c].step = "send", ![c].doc = row.doc]
  <2> DEFINE j == [job[c] EXCEPT !.step = "send", !.doc = row.doc]
  <2>1. /\ j \in Reconciliations /\ j.doc = row.doc /\ j.step = "send"
        /\ j.oks = job[c].oks /\ j.goal = job[c].goal
    BY Zenon, <1>0 DEF Reconciliations
  <2>2. job' = [job EXCEPT ![c] = j]
    BY Zenon, <1>0, <1>4
  <2> HIDE DEF j
  <2>3. row.doc \in Copies /\ row.doc # NoDocument
    BY Zenon, <1>4 DEF Copies, Reusable
  <2> QED
    BY Zenon, <1>0, <1>1, <1>2, <1>4, <2>1, <2>2, <2>3, JobStepInv
<1>5. CASE /\ MayAdvance
           /\ row' = [doc |-> NewDocument(NextGeneration), epoch |-> epoch,
                      config |-> ConfigurationDigest[c]]
           /\ acked' = AckLife
           /\ job' = [job EXCEPT ![c].step = "send", ![c].doc = row'.doc]
  <2> DEFINE d == row'.doc
             j == [job[c] EXCEPT !.step = "send", !.doc = d]
  <2>1. /\ d \in Documents /\ d # NoDocument /\ d.authority = active
        /\ d.generation = row.doc.generation + 1 /\ row'.epoch = epoch
    <3>1. row.doc.generation + 1 \in 1..MaxGeneration /\ active \subseteq Members
      BY SMTT(60), <1>0, <1>5, DocumentFields DEF MayAdvance, AdmInv, AdmTypeOK
    <3> QED
      BY <1>5, <3>1 DEF NewDocument, NextGeneration, Documents, NoDocument
  <2> HIDE DEF d
  <2>2. /\ j \in Reconciliations /\ j.doc = d /\ j.step = "send"
        /\ j.oks = job[c].oks /\ j.goal = job[c].goal
    BY Zenon, <1>0, <2>1 DEF Reconciliations
  <2>3. job' = [job EXCEPT ![c] = j]
    BY Zenon, <1>0, <1>5 DEF d
  <2> HIDE DEF j
  <2>4. /\ job' \in [Replicas -> Reconciliations]
        /\ job'[c] = j /\ \A x \in Replicas \ {c} : job'[x] = job[x]
    BY Zenon, <1>0, <2>2, <2>3
  <2>5. \A e \in Copies' : e \in Copies \/ e = d
    <3> SUFFICES ASSUME NEW e \in Copies' PROVE e \in Copies \/ e = d
      BY Zenon
    <3>1. \/ e \in {durable[r] : r \in Routers} \/ e \in {m[3] : m \in wire} \/ e = d
          \/ \E x \in Replicas : e = job'[x].doc
      BY Zenon, <1>0 DEF Copies, d
    <3>2. ASSUME NEW x \in Replicas, e = job'[x].doc PROVE e \in Copies \/ e = d
      <4>1. e = d \/ e = job[x].doc
        BY Zenon, <2>2, <2>4, <3>2
      <4> QED
        BY Zenon, <4>1 DEF Copies
    <3>3. {durable[r] : r \in Routers} \cup {m[3] : m \in wire} \subseteq Copies
      BY Zenon DEF Copies
    <3> QED
      BY Zenon, <3>1, <3>2, <3>3
  <2>6. row.doc.generation \in Nat
        /\ \A e \in Copies : e.generation \in Nat /\ e.generation <= row.doc.generation
    BY <1>0, CopiesAreDocuments, DocumentFields DEF AdmInv, RowInv
  <2>7. row'.doc \in Documents /\ row'.epoch \in 0..MaxRevision
    <3>1. epoch \in 0..MaxRevision
      BY Zenon DEF AdmInv, AdmTypeOK
    <3> QED
      BY Zenon, <1>5, <2>1, <3>1 DEF d
  <2>8. AdmTypeOK'
    BY <1>0, <1>1, <1>5, <2>4, <2>7 DEF AdmInv, AdmTypeOK
  <2>9. OneDocumentPerGeneration'
    BY <2>1, <2>5, <2>6 DEF AdmInv, OneDocumentPerGeneration
  <2>10. RowInv'
    <3>1. \A e \in Copies' : e.generation <= d.generation
      BY <2>1, <2>5, <2>6
    <3>2. epoch \in 0..MaxRevision
      BY Zenon DEF AdmInv, AdmTypeOK
    <3> QED
      BY <1>0, <2>1, <3>1, <3>2 DEF RowInv, d
  <2>11. JobInv' /\ ServingInv'
    BY <1>0, <1>2, <2>1, <2>2, <2>4 DEF AdmInv, JobInv, ServingInv
  <2>12. GoneInv'
    BY Zenon, <1>0, <2>1, <2>5 DEF AdmInv, GoneInv
  <2> QED
    BY Zenon, <2>8, <2>9, <2>10, <2>11, <2>12 DEF AdmInv
<1> QED
  BY Zenon, <1>3, <1>4, <1>5 DEF Prepare

\* Every Router has answered: none is behind the row's document, so a document
\* one could take names the active Agents only.
LEMMA AcknowledgeInv ==
  ASSUME AdmInv, NEW c \in Replicas, Acknowledge(c)
  PROVE  AdmInv'
<1>0. /\ job[c].step = "wait" /\ job[c].oks = Routers
      /\ UNCHANGED <<active, retired, epoch, row, age, wire, durable, serving>>
      /\ job[c] \in Reconciliations /\ job[c].goal \subseteq retired
      /\ row.doc \in Documents /\ row.epoch \in 0..MaxRevision
  BY Zenon DEF Acknowledge, AdmInv, AdmTypeOK, Routing, JobInv
<1>1. /\ age' \in [0..MaxGeneration -> 0..PolicyLife] /\ acked \in 0..AckLife
      /\ wire' \subseteq Replicas \X Routers \X Documents
      /\ \A m \in wire' : m[3] \in Copies
  BY Zenon, <1>0, WireCopies DEF AdmInv, AdmTypeOK
<1>2. CASE job' = [job EXCEPT ![c] = Idle] /\ UNCHANGED <<acked, gone>>
  <2>1. Idle.doc = NoDocument /\ Idle.step = "idle" /\ Idle.oks = {} /\ Idle.goal = {}
    BY Zenon DEF Idle
  <2> QED
    BY Zenon, <1>0, <1>1, <1>2, <2>1, IdleType, JobStepInv
<1>3. CASE /\ IsCurrent(job[c].doc)
           /\ acked' = 0
           /\ job' = [job EXCEPT ![c] = [Idle EXCEPT !.step = "proof", !.doc = row.doc,
                                                     !.left = AckLife]]
           /\ gone' = gone \cup job[c].goal
  <2> DEFINE j == [Idle EXCEPT !.step = "proof", !.doc = row.doc, !.left = AckLife]
  <2>1. /\ j \in Reconciliations /\ j.doc = row.doc /\ j.step = "proof"
        /\ j.oks = {} /\ j.goal = {}
    <3>1. Idle.oks = {} /\ Idle.goal = {}
      BY Zenon DEF Idle
    <3>2. row.doc \in Documents /\ AckLife \in 0..AckLife
      BY <1>0
    <3> QED
      BY Zenon, <3>1, <3>2, IdleType DEF Reconciliations
  <2>2. job' = [job EXCEPT ![c] = j]
    BY Zenon, <1>3
  <2> HIDE DEF j
  <2>3. row.doc \in Copies
    BY Zenon DEF Copies
  <2>4. row.doc = job[c].doc /\ row.epoch = epoch /\ row.doc # NoDocument
    BY Zenon, <1>0, <1>3 DEF IsCurrent, AdmInv, JobInv
  <2>5. \A r \in Routers : durable[r].generation >= row.doc.generation
    BY Zenon, <1>0, <2>4 DEF AdmInv, JobInv
  <2>6. gone' \subseteq retired
    BY Zenon, <1>0, <1>3 DEF AdmInv, GoneInv
  <2>7. ASSUME NEW a \in gone', NEW r \in Routers, NEW d \in Copies,
               d.generation >= durable[r].generation
        PROVE  a \notin d.authority
    <3>1. /\ d.generation \in Nat /\ durable[r].generation \in Nat
          /\ row.doc.generation \in Nat
      BY <1>0, CopiesAreDocuments, DocumentFields, SMTT(90) DEF AdmInv, AdmTypeOK
    <3>2. d.generation = row.doc.generation
      BY <2>5, <2>7, <3>1 DEF AdmInv, RowInv
    <3>3. d = row.doc
      BY Zenon, <2>3, <3>2 DEF AdmInv, OneDocumentPerGeneration
    <3> QED
      BY Zenon, <2>4, <2>6, <3>3 DEF AdmInv, RowInv, GoneInv
  <2>8. \/ gone' = gone
        \/ /\ gone' \subseteq retired
           /\ \A a \in gone', r \in Routers, d \in Copies :
                d.generation >= durable[r].generation => a \notin d.authority
    BY Zenon, <2>6, <2>7
  <2>9. /\ \A r \in Routers : r \in j.oks \/ j.step = "proof"
                                => durable[r].generation >= j.doc.generation
        /\ j.step \in {"send", "wait", "proof"} => j.doc # NoDocument
        /\ j.step # "wait" => j.oks = {}
        /\ j.goal \subseteq retired /\ j.doc \in Copies
        /\ acked' \in 0..AckLife
    BY <1>3, <2>1, <2>3, <2>4, <2>5
  <2>10. j \in Reconciliations
    BY Zenon, <2>1
  <2> QED
    BY Zenon, <1>0, <1>1, <2>2, <2>8, <2>9, <2>10, JobStepInv
<1> QED
  BY Zenon, <1>2, <1>3 DEF Acknowledge

-----------------------------------------------------------------------------
(* The Routers, and time *)

\* A Router takes a document no older than its own.
LEMMA RouterTakesInv ==
  ASSUME AdmInv, NEW r \in Routers, RouterTakes(r)
  PROVE  AdmInv'
<1>p. PICK d \in Delivered(r) :
        /\ durable' = [durable EXCEPT ![r] = d]
        /\ serving' \in {[serving EXCEPT ![r] = s] : s \in {serving[r], Closed}}
        /\ UNCHANGED <<active, retired, epoch, row, acked, age, job, wire, confirmed, gone>>
        /\ Fence(r)!FencePersist(d) \/ Fence(r)!FenceReplaceAndClose(d)
  BY Zenon DEF RouterTakes
<1>0. /\ d \in Documents /\ d \in Copies
      /\ durable \in [Routers -> Documents]
      /\ serving \in [Routers -> (SUBSET Members) \cup {Closed}]
  <2>1. PICK m \in wire : d = m[3]
    BY Zenon DEF Delivered
  <2> QED
    BY Zenon, <2>1, WireCopies DEF AdmInv, AdmTypeOK
<1>1. /\ d.generation > durable[r].generation \/ d = durable[r]
      /\ durable' = [durable EXCEPT ![r] = d]
      /\ UNCHANGED <<active, retired, epoch, row, acked, age, job, wire, confirmed, gone>>
  BY Zenon, <1>p DEF Fence!FencePersist, Fence!FenceReplaceAndClose
<1>s. PICK s \in {Closed, d.authority} : serving' = [serving EXCEPT ![r] = s]
  <2>1. PICK s \in {serving[r], Closed} : serving' = [serving EXCEPT ![r] = s]
    BY Zenon, <1>p
  <2>2. serving'[r] = s
    BY Zenon, <1>0, <2>1
  <2>3. serving'[r] \in {Closed, d.authority}
    <3>1. CASE Fence(r)!FencePersist(d)
      BY Zenon, <3>1 DEF Fence!FencePersist, NoDocument
    <3>2. CASE Fence(r)!FenceReplaceAndClose(d)
      BY Zenon, <3>2 DEF Fence!FenceReplaceAndClose, NoDocument
    <3> QED
      BY Zenon, <1>p, <3>1, <3>2
  <2> QED
    BY Zenon, <2>1, <2>2, <2>3
<1>2. /\ durable' \in [Routers -> Documents]
      /\ durable'[r] = d /\ \A x \in Routers \ {r} : durable'[x] = durable[x]
  BY Zenon, <1>0, <1>1
<1>3. /\ serving' \in [Routers -> (SUBSET Members) \cup {Closed}]
      /\ serving'[r] \in {Closed, d.authority}
      /\ \A x \in Routers \ {r} : serving'[x] = serving[x]
  BY Zenon, <1>0, <1>s, DocumentFields
<1>4. \A x \in Routers : /\ durable[x].generation \in Nat /\ durable'[x].generation \in Nat
                         /\ durable'[x].generation >= durable[x].generation
  BY <1>0, <1>1, <1>2, DocumentFields
<1>5. Copies' \subseteq Copies
  <2> SUFFICES ASSUME NEW e \in Copies' PROVE e \in Copies
    BY Zenon
  <2>1. ASSUME NEW x \in Routers, e = durable'[x] PROVE e \in Copies
    <3>1. e = d \/ e = durable[x]
      BY Zenon, <1>2, <2>1
    <3> QED
      BY Zenon, <1>0, <3>1 DEF Copies
  <2> QED
    BY Zenon, <1>1, <2>1 DEF Copies
<1>6. AdmTypeOK'
  BY Zenon, <1>1, <1>2, <1>3 DEF AdmInv, AdmTypeOK
<1>7. OneDocumentPerGeneration' /\ RowInv'
  BY Zenon, <1>1, <1>5, OrderKept DEF AdmInv, RowInv
<1>8. JobInv'
  <2>1. \A x \in Replicas : job[x].doc.generation \in Nat
    BY DocumentFields DEF AdmInv, AdmTypeOK, Reconciliations
  <2> QED
    BY <1>1, <1>4, <2>1, SMTT(30) DEF AdmInv, JobInv
<1>9. ServingInv'
  BY Zenon, <1>2, <1>3 DEF AdmInv, ServingInv
<1>10. GoneInv'
  <2>1. \A e \in Copies : e.generation \in Nat
    BY CopiesAreDocuments, DocumentFields DEF AdmInv
  <2> QED
    BY <1>1, <1>4, <1>5, <2>1 DEF AdmInv, GoneInv
<1> QED
  BY Zenon, <1>6, <1>7, <1>8, <1>9, <1>10 DEF AdmInv

\* A Router serves what it holds, or stops.
LEMMA RouterServingInv ==
  ASSUME AdmInv, NEW r \in Routers, RouterServes(r) \/ RouterCloses(r)
  PROVE  AdmInv'
<1>0. PICK s \in {Closed, durable[r].authority} : serving' = [serving EXCEPT ![r] = s]
  BY Zenon DEF RouterServes, RouterCloses
<1>1. UNCHANGED <<active, retired, epoch, row, acked, age, job, wire, durable, confirmed, gone>>
  BY Zenon DEF RouterServes, RouterCloses
<1>2. durable[r] \in Documents /\ serving \in [Routers -> (SUBSET Members) \cup {Closed}]
  BY Zenon DEF AdmInv, AdmTypeOK
<1>3. /\ serving' \in [Routers -> (SUBSET Members) \cup {Closed}]
      /\ serving'[r] = s /\ \A x \in Routers \ {r} : serving'[x] = serving[x]
  BY Zenon, <1>0, <1>2, DocumentFields
<1>4. Copies' = Copies
  BY Zenon, <1>1 DEF Copies
<1>5. AdmTypeOK'
  BY Zenon, <1>1, <1>3 DEF AdmInv, AdmTypeOK
<1>6. OneDocumentPerGeneration' /\ RowInv'
  BY Zenon, <1>1, <1>4, OrderKept DEF AdmInv, RowInv
<1>7. ServingInv'
  BY Zenon, <1>1, <1>3 DEF AdmInv, ServingInv
<1>8. JobInv' /\ GoneInv'
  BY Zenon, <1>1, <1>4 DEF AdmInv, JobInv, GoneInv
<1> QED
  BY Zenon, <1>5, <1>6, <1>7, <1>8 DEF AdmInv

\* Time changes no document and no authority.
LEMMA AgePoliciesInv ==
  ASSUME AdmInv, AgePolicies
  PROVE  AdmInv'
<1>1. UNCHANGED <<active, retired, epoch, row, wire, durable, serving, gone>>
  BY Zenon DEF AgePolicies, Routing
<1>2. age' \in [0..MaxGeneration -> 0..PolicyLife] /\ acked' \in 0..AckLife
  BY SMTT(30) DEF AgePolicies, AdmInv, AdmTypeOK
<1>3. job' = [c \in Replicas |-> [job[c] EXCEPT !.left = IF @ > 0 THEN @ - 1 ELSE 0]]
  BY Zenon DEF AgePolicies
<1>4. \A c \in Replicas : /\ job'[c] \in Reconciliations
                          /\ job'[c].step = job[c].step /\ job'[c].doc = job[c].doc
                          /\ job'[c].oks = job[c].oks /\ job'[c].goal = job[c].goal
  <2> SUFFICES ASSUME NEW c \in Replicas
               PROVE  /\ job'[c] \in Reconciliations
                      /\ job'[c].step = job[c].step /\ job'[c].doc = job[c].doc
                      /\ job'[c].oks = job[c].oks /\ job'[c].goal = job[c].goal
    BY Zenon
  <2>1. job[c] \in Reconciliations
    BY Zenon DEF AdmInv, AdmTypeOK
  <2>2. (IF job[c].left > 0 THEN job[c].left - 1 ELSE 0) \in 0..AckLife
    BY <2>1 DEF Reconciliations
  <2>3. PICK n \in 0..AckLife : job'[c] = [job[c] EXCEPT !.left = n]
    BY Zenon, <1>3, <2>2
  <2> QED
    BY Zenon, <2>1, <2>3 DEF Reconciliations
<1>5. job' \in [Replicas -> Reconciliations]
  BY Zenon, <1>3, <1>4
<1>6. Copies' = Copies
  BY <1>1, <1>4 DEF Copies
<1>7. AdmTypeOK'
  BY Zenon, <1>1, <1>2, <1>5 DEF AdmInv, AdmTypeOK
<1>8. OneDocumentPerGeneration' /\ RowInv'
  BY Zenon, <1>1, <1>6, OrderKept DEF AdmInv, RowInv
<1>9. JobInv'
  BY Zenon, <1>1, <1>4 DEF AdmInv, JobInv
<1>10. ServingInv' /\ GoneInv'
  BY Zenon, <1>1, <1>6 DEF AdmInv, ServingInv, GoneInv
<1> QED
  BY Zenon, <1>7, <1>8, <1>9, <1>10 DEF AdmInv

-----------------------------------------------------------------------------
(* The theorems *)

\* AdmInv is inductive.
LEMMA AdmNextInv == AdmInv /\ [AdmNext]_admVars => AdmInv'
<1> SUFFICES ASSUME AdmInv, [AdmNext]_admVars PROVE AdmInv'
  BY Zenon
<1>1. ASSUME NEW a \in Members, Enroll(a) PROVE AdmInv'
  BY Zenon, <1>1, EnrollInv
<1>2. ASSUME NEW a \in Members, NEW c \in Replicas, Retire(c, a) PROVE AdmInv'
  BY Zenon, <1>2, RetireInv
<1>3. ASSUME NEW c \in Replicas, Reconcile(c) \/ GiveUp(c) \/ ForgetProof(c) PROVE AdmInv'
  BY Zenon, <1>3, RestInv
<1>4. ASSUME NEW c \in Replicas, Prepare(c) PROVE AdmInv'
  BY Zenon, <1>4, PrepareInv
<1>5. ASSUME NEW c \in Replicas, Send(c) PROVE AdmInv'
  BY Zenon, <1>5, SendInv
<1>6. ASSUME NEW c \in Replicas, Acknowledge(c) PROVE AdmInv'
  BY Zenon, <1>6, AcknowledgeInv
<1>7. ASSUME NEW r \in Routers, RouterTakes(r) PROVE AdmInv'
  BY Zenon, <1>7, RouterTakesInv
<1>8. ASSUME NEW m \in wire, RouterConfirm(m) PROVE AdmInv'
  BY Zenon, <1>8, RouterConfirmInv
<1>9. ASSUME NEW r \in Routers, RouterServes(r) \/ RouterCloses(r) PROVE AdmInv'
  BY Zenon, <1>9, RouterServingInv
<1>10. CASE AgePolicies
  BY Zenon, <1>10, AgePoliciesInv
<1>11. CASE UNCHANGED admVars
  <2>1. Copies' = Copies
    BY Zenon, <1>11 DEF admVars, Copies
  <2> QED
    BY Zenon, <1>11, <2>1 DEF admVars, AdmInv, AdmTypeOK, OneDocumentPerGeneration, RowInv,
                       JobInv, ServingInv, GoneInv
<1> QED
  BY Zenon, <1>1, <1>2, <1>3, <1>4, <1>5, <1>6, <1>7, <1>8, <1>9, <1>10, <1>11 DEF AdmNext

\* The inductive invariant of Router admission, and the types, in every
\* reachable state.
THEOREM AdmissionInvariant == AdmSpec => []AdmInv
<1>1. AdmInit => AdmInv
  BY Zenon, AdmInitInv
<1>2. AdmInv /\ [AdmNext]_admVars => AdmInv'
  BY Zenon, AdmNextInv
<1> QED
  BY <1>1, <1>2, PTL DEF AdmSpec

\* The transaction of require_admission_in passes only when every Router holds
\* the current document and serves it or nothing.
THEOREM AdmissionIsCurrent == AdmSpec => []AdmissionMeansCurrent
<1>1. AdmInv => AdmissionMeansCurrent
  <2> SUFFICES ASSUME AdmInv, NEW c \in Replicas, NEW a \in Members, Admitted(c, a)
               PROVE  /\ a \in row.doc.authority
                      /\ \A r \in Routers : durable[r] = row.doc /\ serving[r] \in {Closed, active}
    BY Zenon DEF AdmissionMeansCurrent
  <2>1. /\ job[c].step = "proof" /\ row.doc = job[c].doc /\ row.epoch = epoch /\ a \in active
    BY Zenon DEF Admitted, IsCurrent
  <2>2. row.doc.authority = active
    BY Zenon, <2>1 DEF AdmInv, RowInv, JobInv
  <2>3. ASSUME NEW r \in Routers PROVE durable[r] = row.doc
    <3>1. durable[r] \in Copies /\ row.doc \in Copies
      BY Zenon DEF Copies
    <3>2. durable[r].generation \in Nat /\ row.doc.generation \in Nat
      BY DocumentFields DEF AdmInv, AdmTypeOK
    <3>3. durable[r].generation = row.doc.generation
      BY <2>1, <3>1, <3>2 DEF AdmInv, RowInv, JobInv
    <3> QED
      BY Zenon, <3>1, <3>3 DEF AdmInv, OneDocumentPerGeneration
  <2> QED
    BY Zenon, <2>1, <2>2, <2>3 DEF AdmInv, ServingInv
<1> QED
  BY <1>1, AdmissionInvariant, PTL

\* A retirement is answered with 204 only when no Router serves the Agent, and
\* no late request brings the Agent back.
THEOREM RetirementHolds == AdmSpec => []RetirementIsProved
<1>1. AdmInv => RetirementIsProved
  <2> SUFFICES ASSUME AdmInv, NEW a \in gone, NEW r \in Routers
               PROVE  a \notin serving[r] /\ a \notin durable[r].authority
    BY Zenon DEF RetirementIsProved
  <2>1. durable[r] \in Copies /\ durable[r].generation \in Nat
    BY DocumentFields DEF Copies, AdmInv, AdmTypeOK
  <2>2. a \notin durable[r].authority
    BY <2>1 DEF AdmInv, GoneInv
  <2>3. a \notin Closed
    BY Zenon DEF AdmInv, AdmTypeOK, Closed
  <2> QED
    BY Zenon, <2>2, <2>3 DEF AdmInv, ServingInv
<1> QED
  BY <1>1, AdmissionInvariant, PTL

\* Two copies of documents with one generation are the same document, in the
\* database, in the replicas, on the wire and in the Routers.
THEOREM DocumentsAreUnique == AdmSpec => []OneDocumentPerGeneration
<1>1. AdmInv => OneDocumentPerGeneration
  BY Zenon DEF AdmInv
<1> QED
  BY <1>1, AdmissionInvariant, PTL

=============================================================================
