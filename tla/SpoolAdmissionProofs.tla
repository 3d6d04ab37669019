------------------------ MODULE SpoolAdmissionProofs ------------------------
(***************************************************************************)
(* Durable admission, proved for any set of submissions, any references    *)
(* and any limits: the inductive invariant SpoolInv of SpoolAdmission, and *)
(* from it one job per intent, kept acceptance, the bounded queue, final   *)
(* answers, clean startup and readable content.                            *)
(***************************************************************************)
EXTENDS SpoolAdmissionSteps

\* A step that leaves these variables alone keeps this part.
LEMMA HeldKept == HeldInv /\ UNCHANGED <<spoolPc, reserv, plan>> => HeldInv'
BY Zenon DEF HeldInv, Active

\* A call that may still accept holds a reservation.
LEMMA HeldStep ==
    ASSUME SpoolInv, SpoolNext
    PROVE  HeldInv'
<1>0. /\ HeldInv
      /\ reserv \in [Submissions -> {"none", "held", "committed", "released"}]
  BY Zenon DEF SpoolInv, SpoolTypeOK
<1> USE <1>0, CallFacts
<1>1. Prepare => HeldInv'
  BY Zenon, PlannedRow DEF HeldInv, Active, Scanning, Prepare, GoesTo, ledger, Return
<1>2. Resume => HeldInv'
  BY Zenon DEF HeldInv, Active, Scanning, Resume, GoesTo, ledger, frame,
  RemoveMissingArtifact, Uncertain, StorageFails, CallFails, ReleaseReservation, Return,
  StartFails, GiveBack
<1>3. DataKey => HeldInv'
  BY Zenon DEF HeldInv, Active, Scanning, DataKey, GoesTo, NextAfterKey, ledger, frame,
  RootUnavailable, Uncertain, ReleaseReservation, Return, StartFails, GiveBack
<1>4. Provision => HeldInv'
  BY Zenon DEF HeldInv, Active, Scanning, Provision, GoesTo, ledger, frame, RootUnavailable,
  ReleaseReservation, Return, StartFails, GiveBack
<1>5. MakeCurrent => HeldInv'
  BY Zenon DEF HeldInv, Active, Scanning, MakeCurrent, GoesTo, frame, Uncertain, ledger,
  Return
<1>6. Wrap => HeldInv'
  BY Zenon DEF HeldInv, Active, Scanning, Wrap, GoesTo, NextAfterKey, frame, Uncertain,
  ledger, Return, AbortWith
<1>7. Encrypt => HeldInv'
  BY Zenon DEF HeldInv, Active, Scanning, Encrypt, GoesTo, ledger, StorageFails, Uncertain,
  ReleaseReservation, Return, GiveBack, AbortWith
<1>8. Record => HeldInv'
  BY Zenon DEF HeldInv, Active, Scanning, Record, Uncertain, GoesTo, frame, ledger, Return
<1>9. PublishObject => HeldInv'
  BY Zenon DEF HeldInv, Active, Scanning, PublishObject, GoesTo, frame, Uncertain, ledger,
  StorageFails, Return, ReleaseReservation, GiveBack
<1>10. Sync => HeldInv'
  BY Zenon DEF HeldInv, Active, Scanning, Sync, GoesTo, frame, Uncertain, ledger, Return
<1>11. Verify => HeldInv'
  BY Zenon DEF HeldInv, Active, Scanning, Verify, GoesTo, ledger, frame, AbortWith,
  StorageFails, ReleaseReservation, Return, GiveBack
<1>12. Finalize => HeldInv'
  BY Zenon DEF HeldInv, Active, Scanning, Finalize, FinalizeTime, Publication, Return,
  Uncertain, AbortWith, ledger, StorageFails, GoesTo, ReleaseReservation, GiveBack
<1>13. AbortFiles => HeldInv'
  BY Zenon DEF HeldInv, Active, Scanning, AbortFiles, GoesTo, frame, CallFails, ledger,
  StartFails, Return
<1>14. AbortRows => HeldInv'
  BY Zenon DEF HeldInv, Active, Scanning, AbortRows, ReleaseReservation, Return, CallFails,
  StartFails
<1>15. AbortFails => HeldInv'
  BY Zenon DEF HeldInv, Active, Scanning, AbortFails, CallFails, ledger, StartFails, Return
<1>16. RowsDone => HeldInv'
  BY Zenon DEF HeldInv, Active, Scanning, RowsDone, ledger, frame
<1>17. MissingDone => HeldInv'
  BY Zenon DEF HeldInv, Active, Scanning, MissingDone, ledger, frame
<1>18. Ready => HeldInv'
  BY Zenon DEF HeldInv, Active, Scanning, Ready, OrphanObjects, ledger
<1>19. Start => HeldInv'
  BY Zenon DEF HeldInv, Active, Scanning, Start, ledger
<1>20. SpoolCrash => HeldInv'
  BY Zenon DEF HeldInv, Active, Scanning, SpoolCrash, ledger
<1>21. \A s \in Submissions : ReconcileRow(s) => HeldInv'
  BY Zenon DEF HeldInv, Active, Scanning, ReconcileRow, ReleaseReservation, GiveBack
<1>22. \A s \in Submissions : FailMissing(s) => HeldInv'
  BY Zenon DEF HeldInv, Active, Scanning, FailMissing, frame
<1>23. \A s \in Submissions : Submit(s) => HeldInv'
  BY Zenon DEF HeldInv, Active, Scanning, Submit, ledger
<1>24. Clean \/ SpoolTick => HeldInv'
  BY Zenon, HeldKept DEF Clean, SpoolTick, OrphanObjects, ledger, frame
<1>25. \A s \in Submissions : Replay(s) \/ Refuse(s) \/ RenderRaster(s) \/
RecordRaster(s) \/ JobEnds(s) \/ ReleaseContent(s) => HeldInv'
  BY ZenonT(40), HeldKept DEF Replay, Refuse, RenderRaster, RecordRaster, JobEnds, ReleaseContent,
  OrphanObjects, Tell, Unused, ledger, frame
<1> QED BY Zenon, <1>1, <1>2, <1>3, <1>4, <1>5, <1>6, <1>7, <1>8, <1>9, <1>10, <1>11, <1>12,
<1>13, <1>14, <1>15, <1>16, <1>17, <1>18, <1>19, <1>20, <1>21, <1>22, <1>23, <1>24,
<1>25 DEF SpoolNext, AdmissionStep

\* A step that leaves these variables alone keeps this part.
LEMMA FinalKept ==
    FinalInv /\ UNCHANGED <<answer, state, clock, spoolPc, at>> => FinalInv'
BY DEF FinalInv, Lapsed, Found, ByKey, ByOrigin

\* A step that gives no final answer and abandons no time it has read.
LEMMA FinalQuiet ==
    ASSUME FinalInv, UNCHANGED <<state, clock>>,
           \A s \in Submissions : answer'[s] \in Final => answer[s] \in Final,
           spoolPc' = "idle" \/ (spoolPc # "idle" /\ at' = at)
    PROVE  FinalInv'
<1>1. \A s \in Submissions : Found(s)' = Found(s) BY Zenon DEF Found, ByKey, ByOrigin
<1>2. \A s \in Submissions : Lapsed(s) => Lapsed(s)' BY Zenon DEF Lapsed
<1> QED BY Zenon, <1>1, <1>2 DEF FinalInv

\* Final answers: an aborted row stays aborted, and the deadline of a refused
\* submission has passed for every later call.
LEMMA FinalStep ==
    ASSUME SpoolInv, SpoolNext
    PROVE  FinalInv'
<1>0. /\ FinalInv
      /\ RowInv
      /\ CallInv
      /\ state \in [Submissions -> {"none", "staging", "accepted", "aborted"}]
      /\ answer \in [Submissions -> Answers]
      /\ at \in Nat /\ clock \in Nat
      /\ Nil \notin Refs /\ Nil \notin Submissions
      /\ \A s \in Submissions : s.deadline \in Nat
  BY SpoolConstants DEF SpoolInv, SpoolTypeOK, SpoolTime
<1> USE <1>0, CallFacts
<1>1. Prepare => FinalInv'
  BY PlannedRow DEF FinalInv, Lapsed, Final, Found, ByKey, ByOrigin, Prepare, GoesTo,
  ledger, Return
<1>2. Resume => FinalInv'
  BY Zenon, FinalQuiet DEF Final, Resume, GoesTo, ledger, frame, Uncertain, StorageFails,
  CallFails, Return, StartFails, RemoveMissingArtifact
<1>3. DataKey => FinalInv'
  BY Zenon, FinalQuiet DEF Final, DataKey, GoesTo, NextAfterKey, ledger, frame,
  RootUnavailable, Uncertain, Return, StartFails
<1>4. Provision => FinalInv'
  BY Zenon, FinalQuiet DEF Final, Provision, GoesTo, ledger, frame, RootUnavailable, Return,
  StartFails
<1>5. MakeCurrent => FinalInv'
  BY Zenon, FinalQuiet DEF Final, MakeCurrent, GoesTo, frame, Uncertain, ledger, Return
<1>6. Wrap => FinalInv'
  BY Zenon, FinalQuiet DEF Final, Wrap, GoesTo, NextAfterKey, frame, Uncertain, ledger, Return, AbortWith
<1>7. Encrypt => FinalInv'
  BY Zenon, FinalQuiet DEF Final, Encrypt, GoesTo, ledger, StorageFails, Uncertain, Return, AbortWith
<1>8. Record => FinalInv'
  BY Zenon, FinalQuiet DEF Final, Record, Uncertain, GoesTo, frame, ledger, Return
<1>9. PublishObject => FinalInv'
  BY Zenon, FinalQuiet DEF Final, PublishObject, GoesTo, frame, Uncertain, ledger,
  StorageFails, Return
<1>10. Sync => FinalInv'
  BY Zenon, FinalQuiet DEF Final, Sync, GoesTo, frame, Uncertain, ledger, Return
<1>11. Verify => FinalInv'
  BY Zenon, FinalQuiet DEF Final, Verify, GoesTo, ledger, frame, AbortWith, StorageFails,
  Return
<1>12. CASE Finalize
  <2> USE DEF FinalInv, Lapsed, Final, Found, ByKey, ByOrigin,
  SpoolTime, ledger, artifacts, keys, roots, files, frame, scan
  <2>1. /\ plan \in Submissions /\ state[plan] = "staging"
        /\ clock' = clock /\ clock \in Nat /\ at \in Nat /\ spoolPc = "finalize"
    BY Zenon, <1>12 DEF Finalize
  <2>2. CASE UNCHANGED state
    BY <1>12, <2>1, <2>2 DEF Finalize, Return, Uncertain, AbortWith, StorageFails, GoesTo
  <2>3. CASE /\ plan.deadline > FinalizeTime /\ Publication
             /\ Return("accepted") \/ Uncertain
    <3>1. \A s \in Submissions : Found(s)' = Found(s)
      <4>1. \A a \in Submissions : state'[a] # "none" <=> state[a] # "none"
        BY Zenon, <2>1, <2>3 DEF Publication
      <4>2. \A s \in Submissions : ByKey(s)' = ByKey(s) /\ ByOrigin(s)' = ByOrigin(s)
        BY Zenon, <4>1
      <4> HIDE DEF ByKey, ByOrigin
      <4> QED BY Zenon, <4>2
    <3>2. ASSUME NEW s \in Submissions, answer'[s] \in Final
          PROVE  answer[s] \in Final
      BY Zenon, <2>1, <2>3, <3>2 DEF Return, Uncertain
    <3>3. \A a \in Submissions \ {plan} : state'[a] = state[a]
      BY Zenon, <2>1, <2>3 DEF Publication
    <3>4. ASSUME NEW s \in Submissions, Lapsed(s)
          PROVE  Lapsed(s)' /\ s.deadline < plan.deadline
      <4>1. s.deadline <= FinalizeTime BY Zenon, <2>1, <3>4 DEF FinalizeTime
      <4>2. s.deadline < plan.deadline BY <2>1, <2>3, <4>1 DEF FinalizeTime
      <4>3. spoolPc' # "idle" => at' = at
        BY Zenon, <2>3 DEF Return, Uncertain
      <4> QED BY Zenon, <2>1, <3>4, <4>2, <4>3
    <3> HIDE DEF Lapsed, Found
    <3>5. ASSUME NEW s \in Submissions, Lapsed(s), NEW a \in Found(s),
                 a.deadline <= s.deadline
          PROVE  a # plan
      BY <2>1, <3>4, <3>5
    <3> QED
      <4>1. SUFFICES ASSUME NEW s \in Submissions, answer'[s] \in Final
                     PROVE  \/ \E a \in Submissions :
                                 /\ state'[a] = "aborted" /\ ~Conflicts(s, a)
                                 /\ a.key = s.key \/ a.origin = s.origin
                            \/ /\ Lapsed(s)'
                               /\ \A a \in Found(s)' :
                                    ~Conflicts(s, a) /\ a.deadline <= s.deadline
                                      => state'[a] # "accepted"
        OBVIOUS
      <4>2. CASE \E a \in Submissions :
                   /\ state[a] = "aborted" /\ ~Conflicts(s, a)
                   /\ a.key = s.key \/ a.origin = s.origin
        BY Zenon, <2>1, <3>3, <4>2
      <4>3. CASE /\ Lapsed(s)
                 /\ \A a \in Found(s) :
                      ~Conflicts(s, a) /\ a.deadline <= s.deadline => state[a] # "accepted"
        <5>1. \A a \in Found(s) : a \in Submissions BY Zenon DEF Found
        <5> QED BY Zenon, <3>1, <3>3, <3>4, <3>5, <4>3, <5>1
      <4> QED BY Zenon, <3>2, <4>1, <4>2, <4>3
  <2> QED BY Zenon, <1>12, <2>2, <2>3 DEF Finalize, StorageFails
<1>13. AbortFiles => FinalInv'
  BY Zenon, FinalQuiet DEF Final, AbortFiles, GoesTo, frame, CallFails, ledger, StartFails,
  Return
<1>14. AbortRows => FinalInv'
  BY DEF FinalInv, Lapsed, Final, Found, ByKey, ByOrigin, AbortRows, Return, CallFails,
  StartFails, CallInv, Open, Conflicts
<1>15. AbortFails => FinalInv'
  BY Zenon, FinalQuiet DEF Final, AbortFails, CallFails, ledger, StartFails, Return
<1>16. RowsDone => FinalInv'
  BY Zenon, FinalQuiet DEF Final, RowsDone, ledger, frame
<1>17. MissingDone => FinalInv'
  BY Zenon, FinalQuiet DEF Final, MissingDone, ledger, frame
<1>18. Ready => FinalInv'
  BY Zenon, FinalQuiet DEF Final, Ready, OrphanObjects, ledger
<1>19. Start => FinalInv'
  BY DEF FinalInv, Lapsed, Final, Found, ByKey, ByOrigin, Start, ledger
<1>20. SpoolCrash => FinalInv'
  BY Zenon, FinalQuiet DEF Final, SpoolCrash, ledger
<1>21. SpoolTick => FinalInv'
  BY DEF FinalInv, Lapsed, Final, Found, ByKey, ByOrigin, SpoolTick, ledger, frame
<1>22. \A s \in Submissions : ReconcileRow(s) => FinalInv'
  BY Zenon, FinalQuiet DEF Final, ReconcileRow
<1>23. \A s \in Submissions : Replay(s) => FinalInv'
  BY DEF FinalInv, Lapsed, Final, Found, ByKey, ByOrigin, Replay, Tell, ledger, frame
<1>24. \A s \in Submissions : Refuse(s) => FinalInv'
  BY DEF FinalInv, Lapsed, Final, Found, ByKey, ByOrigin, Refuse, Tell, ledger, frame,
  Open
<1>25. \A s \in Submissions : Submit(s) => FinalInv'
  BY DEF FinalInv, Lapsed, Final, Found, ByKey, ByOrigin, Submit, ledger
<1>26. Clean => FinalInv'
  BY Zenon, FinalKept DEF Clean, OrphanObjects, ledger, frame
<1>27. \A s \in Submissions : FailMissing(s) \/ RenderRaster(s) \/ RecordRaster(s) \/
JobEnds(s) \/ ReleaseContent(s) => FinalInv'
  BY Zenon, FinalKept DEF FailMissing, RenderRaster, RecordRaster, JobEnds, ReleaseContent,
  OrphanObjects, Unused, ledger, frame
<1> QED BY Zenon, <1>1, <1>2, <1>3, <1>4, <1>5, <1>6, <1>7, <1>8, <1>9, <1>10, <1>11, <1>12,
<1>13, <1>14, <1>15, <1>16, <1>17, <1>18, <1>19, <1>20, <1>21, <1>22, <1>23, <1>24,
<1>25, <1>26, <1>27 DEF SpoolNext, AdmissionStep

\* A step that leaves these variables alone keeps this part.
LEMMA KeptKept == AcceptedIsKept /\ UNCHANGED <<answer, printJob>> => AcceptedIsKept'
BY Zenon DEF AcceptedIsKept

\* Answers of accept, and what the ledger holds for them.
LEMMA KeptStep ==
    ASSUME SpoolInv, SpoolNext
    PROVE  AcceptedIsKept'
<1>0. /\ AcceptedIsKept
      /\ RowInv
      /\ CallInv
      /\ state \in [Submissions -> {"none", "staging", "accepted", "aborted"}]
      /\ answer \in [Submissions -> Answers]
      /\ printJob \in [Submissions -> {"none", "accepted", "ended", "failed"}]
      /\ code \in [Submissions -> Final \cup {"none", "recovery_uncertain"}]
      /\ verdict \in Final \cup {"none", "recovery_uncertain"}
      /\ Nil \notin Refs /\ Nil \notin Submissions
  BY Zenon, SpoolConstants DEF SpoolInv, SpoolTypeOK
<1> USE <1>0, CallFacts
<1>1. Prepare => AcceptedIsKept'
  BY DEF AcceptedIsKept, Prepare, GoesTo, Return
<1>2. Resume => AcceptedIsKept'
  BY SMTT(30) DEF AcceptedIsKept, Resume, GoesTo, Uncertain, StorageFails, CallFails, Return,
  StartFails
<1>3. DataKey => AcceptedIsKept'
  BY DEF AcceptedIsKept, DataKey, GoesTo, NextAfterKey, RootUnavailable, Uncertain,
  Return, StartFails
<1>4. Provision => AcceptedIsKept'
  BY DEF AcceptedIsKept, Provision, GoesTo, RootUnavailable, Return, StartFails
<1>5. MakeCurrent => AcceptedIsKept'
  BY DEF AcceptedIsKept, MakeCurrent, GoesTo, Uncertain, Return
<1>6. Wrap => AcceptedIsKept'
  BY DEF AcceptedIsKept, Wrap, GoesTo, NextAfterKey, Uncertain, Return, AbortWith
<1>7. Encrypt => AcceptedIsKept'
  BY DEF AcceptedIsKept, Encrypt, GoesTo, StorageFails, Uncertain, Return, AbortWith
<1>8. Record => AcceptedIsKept'
  BY DEF AcceptedIsKept, Record, Uncertain, GoesTo, Return
<1>9. PublishObject => AcceptedIsKept'
  BY DEF AcceptedIsKept, PublishObject, GoesTo, Uncertain, StorageFails, Return
<1>10. Sync => AcceptedIsKept'
  BY DEF AcceptedIsKept, Sync, GoesTo, Uncertain, Return
<1>11. Verify => AcceptedIsKept'
  BY DEF AcceptedIsKept, Verify, GoesTo, AbortWith, StorageFails, Return
<1>12. Finalize => AcceptedIsKept'
  BY SMTT(30) DEF AcceptedIsKept, Finalize, FinalizeTime, Publication, Return, Uncertain,
  AbortWith, StorageFails, GoesTo, RowInv, CallInv, Open, Found, ByKey, ByOrigin,
  Conflicts
<1>13. AbortFiles => AcceptedIsKept'
  BY DEF AcceptedIsKept, AbortFiles, GoesTo, CallFails, StartFails, Return
<1>14. AbortRows => AcceptedIsKept'
  BY DEF AcceptedIsKept, Final, ledger, artifacts, keys, roots, files, frame, scan,
  AbortRows, ReleaseReservation, Return, CallFails, Active, StartFails
<1>15. AbortFails => AcceptedIsKept'
  BY DEF AcceptedIsKept, AbortFails, CallFails, StartFails, Return
<1>16. SpoolCrash => AcceptedIsKept'
  BY DEF AcceptedIsKept, SpoolCrash
<1>17. \A s \in Submissions : FailMissing(s) => AcceptedIsKept'
  BY DEF AcceptedIsKept, FailMissing
<1>18. ASSUME NEW s \in Submissions, Replay(s) PROVE AcceptedIsKept'
  <2>1. PICK a \in Found(s) :
           /\ UNCHANGED printJob
           /\ \/ answer' = [answer EXCEPT ![s] = "refused"]
              \/ answer' = [answer EXCEPT ![s] = code[a]]
              \/ ~Conflicts(s, a) /\ state[a] = "accepted" /\ answer' = [answer EXCEPT ![s] = "accepted"]
    BY Zenon, <1>18 DEF Replay, Tell
  <2>2. a \in Submissions /\ (a.key = s.key \/ a.origin = s.origin)
    BY Zenon DEF Found, ByKey, ByOrigin
  <2>3. ~Conflicts(s, a) /\ state[a] = "accepted" => printJob[a] # "none" /\ a.body = s.body
    BY Zenon, <2>2 DEF RowInv, Conflicts
  <2> QED BY <2>1, <2>2, <2>3 DEF AcceptedIsKept, Final
<1>19. \A s \in Submissions : Refuse(s) => AcceptedIsKept'
  BY DEF AcceptedIsKept, Refuse, Tell
<1>20. \A s \in Submissions : JobEnds(s) => AcceptedIsKept'
  BY DEF AcceptedIsKept, JobEnds
<1>21. RowsDone \/ MissingDone \/ Clean \/ Ready \/ Start \/ SpoolTick =>
AcceptedIsKept'
  BY Zenon, KeptKept DEF RowsDone, MissingDone, Clean, Ready, Start, SpoolTick, OrphanObjects
<1>22. \A s \in Submissions : ReconcileRow(s) \/ Submit(s) \/ RenderRaster(s) \/
RecordRaster(s) \/ ReleaseContent(s) => AcceptedIsKept'
  BY Zenon, KeptKept DEF ReconcileRow, Submit, RenderRaster, RecordRaster, ReleaseContent,
  OrphanObjects, Unused
<1> QED BY Zenon, <1>1, <1>2, <1>3, <1>4, <1>5, <1>6, <1>7, <1>8, <1>9, <1>10, <1>11, <1>12,
<1>13, <1>14, <1>15, <1>16, <1>17, <1>18, <1>19, <1>20, <1>21, <1>22 DEF SpoolNext,
AdmissionStep

\* A step that leaves these variables alone keeps this part.
LEMMA ContentKept ==
    ContentInv /\ UNCHANGED <<agentUp, spoolPc, printJob, ref, objects>> => ContentInv'
BY Zenon DEF ContentInv, Missing

\* The content of accepted jobs, from the scan of startup to the next crash.
LEMMA ContentStep ==
    ASSUME ~LookupsFail, ContentInv, SpoolInv, SpoolNext
    PROVE  ContentInv'
<1>0. /\ ContentInv
      /\ ref \in [Submissions -> Refs \cup {Nil}]
      /\ raster \in [Submissions -> Refs \cup {Nil}]
      /\ staged \subseteq Refs /\ objects \subseteq Refs /\ unsynced \subseteq Refs
      /\ printJob \in [Submissions -> {"none", "accepted", "ended", "failed"}]
      /\ Nil \notin Refs /\ Nil \notin Submissions
      /\ \A s \in Submissions : printJob[s] # "none" => state[s] = "accepted"
      /\ \A s \in Submissions : artifact[s] = "delete_pending" => printJob[s] = "ended"
      /\ \A s, t \in Submissions : ref[s] # Nil =>
           (ref[s] = ref[t] => s = t) /\ ref[s] # raster[t]
  BY Zenon, SpoolConstants DEF SpoolInv, SpoolTypeOK, RowInv, FileInv
<1> USE <1>0, CallFacts
<1>1. Prepare => ContentInv'
  BY Zenon DEF ContentInv, Missing, Prepare, GoesTo, Return, artifacts, files
<1>2. Resume => ContentInv'
  BY Zenon DEF ContentInv, Missing, Resume, GoesTo, artifacts, files, RemoveMissingArtifact,
  Uncertain, StorageFails, CallFails, Return, StartFails
<1>3. DataKey => ContentInv'
  BY Zenon DEF ContentInv, Missing, DataKey, GoesTo, NextAfterKey, RootUnavailable, Uncertain,
  artifacts, files, Return, StartFails
<1>4. Provision => ContentInv'
  BY Zenon DEF ContentInv, Missing, Provision, GoesTo, RootUnavailable, artifacts, files,
  Return, StartFails
<1>5. MakeCurrent => ContentInv'
  BY Zenon DEF ContentInv, Missing, MakeCurrent, GoesTo, Uncertain, artifacts, files, Return
<1>6. Wrap => ContentInv'
  BY Zenon DEF ContentInv, Missing, Wrap, GoesTo, NextAfterKey, Uncertain, artifacts, files,
  Return, AbortWith
<1>7. Encrypt => ContentInv'
  BY Zenon DEF ContentInv, Missing, Encrypt, Unused, GoesTo, StorageFails, files, Uncertain,
  artifacts, Return, AbortWith
<1>8. Record => ContentInv'
  BY Zenon DEF ContentInv, Missing, Record, Uncertain, artifacts, GoesTo, files, Return
<1>9. PublishObject => ContentInv'
  BY Zenon DEF ContentInv, Missing, PublishObject, GoesTo, Uncertain, StorageFails, files,
  artifacts, Return
<1>10. Sync => ContentInv'
  BY Zenon DEF ContentInv, Missing, Sync, GoesTo, Uncertain, artifacts, Return
<1>11. Verify => ContentInv'
  BY Zenon DEF ContentInv, Missing, Verify, GoesTo, AbortWith, StorageFails, artifacts, files,
  Return
<1>12. Finalize => ContentInv'
  BY Zenon DEF ContentInv, Missing, Finalize, FinalizeTime, Publication, Return, Uncertain,
  AbortWith, artifacts, StorageFails, files, GoesTo
<1>13. CASE AbortFiles
  <2>1. plan \in Submissions /\ state[plan] = "staging"
    BY Zenon, <1>13 DEF AbortFiles
  <2>2. UNCHANGED <<printJob, ref>> /\ \A f \in objects : f \in objects' \/ f = ref[plan]
    BY Zenon, <1>13 DEF AbortFiles, artifacts
  <2>3. agentUp' = "running" \/ spoolPc' = "clean" => agentUp = "running"
    BY Zenon, <1>13 DEF AbortFiles, GoesTo, CallFails, StartFails, Return
  <2>4. ASSUME NEW s \in Submissions, printJob[s] = "accepted", ref[s] \in objects
        PROVE  ref[s] # ref[plan]
    <3>1. s # plan
      BY Zenon, <2>1, <2>4
    <3> QED
      BY Zenon, <2>1, <2>4, <3>1
  <2> QED
    BY Zenon, <2>2, <2>3, <2>4 DEF ContentInv, Missing
<1>14. AbortRows => ContentInv'
  BY Zenon DEF ContentInv, Missing, AbortRows, Return, CallFails, files, StartFails
<1>15. AbortFails => ContentInv'
  BY Zenon DEF ContentInv, Missing, AbortFails, CallFails, artifacts, files, StartFails,
  Return
<1>16. RowsDone => ContentInv'
  BY Zenon DEF ContentInv, Missing, RowsDone, artifacts, files
<1>17. MissingDone => ContentInv'
  BY Zenon DEF ContentInv, Missing, MissingDone, artifacts, files
<1>18. Clean => ContentInv'
  BY DEF ContentInv, Missing, Clean, OrphanObjects, artifacts, Rows
<1>19. Ready => ContentInv'
  BY Zenon DEF ContentInv, Missing, Ready, OrphanObjects, artifacts, files
<1>20. Start => ContentInv'
  BY Zenon DEF ContentInv, Missing, Start, artifacts, files
<1>21. SpoolCrash => ContentInv'
  BY Zenon DEF ContentInv, Missing, SpoolCrash, files, artifacts
<1>22. \A s \in Submissions : ReconcileRow(s) => ContentInv'
  BY Zenon DEF ContentInv, Missing, ReconcileRow, artifacts, files
<1>23. \A s \in Submissions : FailMissing(s) => ContentInv'
  BY Zenon DEF ContentInv, Missing, FailMissing, files
<1>24. \A s \in Submissions : Submit(s) => ContentInv'
  BY Zenon DEF ContentInv, Missing, Submit, artifacts, files
<1>25. \A s \in Submissions : RenderRaster(s) => ContentInv'
  BY Zenon DEF ContentInv, Missing, RenderRaster, OrphanObjects, Unused, artifacts
<1>26. \A s \in Submissions : JobEnds(s) => ContentInv'
  BY Zenon DEF ContentInv, Missing, JobEnds, files
<1>27. \A s \in Submissions : ReleaseContent(s) => ContentInv'
  BY DEF ContentInv, Missing, ReleaseContent
<1>28. SpoolTick => ContentInv'
  BY Zenon, ContentKept DEF SpoolTick, artifacts, files
<1>29. \A s \in Submissions : Replay(s) \/ Refuse(s) \/ RecordRaster(s) => ContentInv'
  BY Zenon, ContentKept DEF Replay, Refuse, RecordRaster, OrphanObjects, Tell, artifacts, files
<1> QED BY Zenon, <1>1, <1>2, <1>3, <1>4, <1>5, <1>6, <1>7, <1>8, <1>9, <1>10, <1>11, <1>12,
<1>13, <1>14, <1>15, <1>16, <1>17, <1>18, <1>19, <1>20, <1>21, <1>22, <1>23, <1>24,
<1>25, <1>26, <1>27, <1>28, <1>29 DEF SpoolNext, AdmissionStep

\* No other step than the last one of reconcile lets the Agent run.
LEMMA OnlyReadyStarts ==
    ASSUME SpoolNext, agentUp = "starting", agentUp' = "running"
    PROVE  Ready
<1>1. ASSUME Prepare \/ MakeCurrent \/ Wrap \/ Encrypt \/ Record \/ PublishObject \/
Sync \/ Verify \/ Finalize \/ RowsDone \/ MissingDone \/ Clean \/ SpoolTick
      PROVE  FALSE
  BY Zenon, <1>1 DEF Prepare, MakeCurrent, Wrap, NextAfterKey, Encrypt, Unused, Record,
  PublishObject, Sync, Verify, Finalize, FinalizeTime, RowsDone, MissingDone, Clean,
  OrphanObjects, SpoolTick, StorageFails
<1>2. ASSUME Resume \/ DataKey \/ Provision \/ AbortFiles \/ AbortRows \/ AbortFails \/
Start \/ SpoolCrash
      PROVE  FALSE
  BY Zenon, <1>2 DEF Resume, CallFails, StartFails, DataKey, NextAfterKey, RootUnavailable,
  Provision, AbortFiles, AbortRows, AbortFails, Start, SpoolCrash, StorageFails
<1>3. ASSUME NEW s \in Submissions, ReconcileRow(s) \/ FailMissing(s) \/ Replay(s) \/
Refuse(s) \/ Submit(s) \/ RenderRaster(s) \/ RecordRaster(s) \/ JobEnds(s) \/
ReleaseContent(s)
      PROVE  FALSE
  BY Zenon, <1>3 DEF ReconcileRow, FailMissing, Replay, Refuse, Submit, RenderRaster,
  OrphanObjects, Unused, RecordRaster, JobEnds, ReleaseContent, Tell
<1> QED BY Zenon, <1>1, <1>2, <1>3 DEF SpoolNext, AdmissionStep

INSTANCE FiniteSetTheorems

\* Fewer reservations, or the same ones, hold no more slots.
LEMMA QuotaShrinks ==
    ASSUME QuotaInv, \A a \in Submissions : Active(a)' => Active(a)
    PROVE  QuotaInv'
<1> DEFINE Held(D) == {a \in Submissions : Active(a) /\ a.device \in D}
<1>1. IsFiniteSet({a \in Submissions : Active(a)}) BY Zenon DEF QuotaInv
<1>2. IsFiniteSet({a \in Submissions : Active(a)}')
  <2>1. {a \in Submissions : Active(a)}' \subseteq {a \in Submissions : Active(a)} OBVIOUS
  <2> QED BY Zenon, <1>1, <2>1, FS_Subset
<1>3. ASSUME NEW D
      PROVE  Holding(D)' \in Nat /\ Holding(D) \in Nat /\ Holding(D)' <= Holding(D)
  <2>1. Held(D)' \subseteq Held(D) OBVIOUS
  <2>2. IsFiniteSet(Held(D))
    <3>1. Held(D) \subseteq {a \in Submissions : Active(a)} OBVIOUS
    <3> QED BY Zenon, <1>1, <3>1, FS_Subset
  <2>3. Holding(D) = Cardinality(Held(D)) /\ Holding(D)' = Cardinality(Held(D)')
    BY Zenon DEF Holding
  <2> HIDE DEF Held
  <2>4. IsFiniteSet(Held(D)') /\ Cardinality(Held(D)') <= Cardinality(Held(D))
    BY Zenon, <2>1, <2>2, FS_Subset
  <2> QED BY Zenon, <2>2, <2>3, <2>4, FS_CardinalityType
<1>4. Holding(SpoolDevices)' <= AgentQueueLimit
  <2>1. Holding(SpoolDevices) <= AgentQueueLimit BY Zenon DEF QuotaInv
  <2>2. SpoolDevices' = SpoolDevices BY Zenon DEF SpoolDevices
  <2> QED BY <1>3, <2>1, <2>2, SpoolConstants
<1>5. ASSUME NEW d \in SpoolDevices PROVE Holding({d})' <= DeviceQueueLimit
  <2>1. Holding({d}) <= DeviceQueueLimit BY Zenon DEF QuotaInv
  <2> QED BY <1>3, <2>1, SpoolConstants
<1> QED BY Zenon, <1>2, <1>4, <1>5 DEF QuotaInv, SpoolDevices

\* hold_reservation takes one slot more, after assert_quota found room for it.
LEMMA QuotaGrows ==
    ASSUME QuotaInv, NEW x \in Submissions, HasRoom(x.device),
           \A a \in Submissions : Active(a)' => Active(a) \/ a = x
    PROVE  QuotaInv'
<1> DEFINE Held(D) == {a \in Submissions : Active(a) /\ a.device \in D}
<1>1. IsFiniteSet({a \in Submissions : Active(a)}) BY Zenon DEF QuotaInv
<1>2. IsFiniteSet({a \in Submissions : Active(a)}')
  <2> DEFINE A == {a \in Submissions : Active(a)}
  <2>1. A' \subseteq A \cup {x} OBVIOUS
  <2>2. IsFiniteSet(A) BY Zenon, <1>1
  <2> HIDE DEF A
  <2>3. IsFiniteSet(A \cup {x}) BY Zenon, <2>2, FS_AddElement
  <2>4. IsFiniteSet(A') BY Zenon, <2>1, <2>3, FS_Subset
  <2> QED BY Zenon, <2>4 DEF A
<1>3. ASSUME NEW D
      PROVE  /\ Holding(D)' \in Nat /\ Holding(D) \in Nat
             /\ Holding(D)' <= Holding(D) + 1
             /\ x.device \notin D => Holding(D)' <= Holding(D)
  <2>1. /\ Held(D)' \subseteq Held(D) \cup {x}
        /\ x.device \notin D => Held(D)' \subseteq Held(D)
    OBVIOUS
  <2>2. IsFiniteSet(Held(D))
    <3>1. Held(D) \subseteq {a \in Submissions : Active(a)} OBVIOUS
    <3> QED BY Zenon, <1>1, <3>1, FS_Subset
  <2>3. Holding(D) = Cardinality(Held(D)) /\ Holding(D)' = Cardinality(Held(D)')
    BY Zenon DEF Holding
  <2> HIDE DEF Held
  <2>4. /\ IsFiniteSet(Held(D) \cup {x})
        /\ Cardinality(Held(D) \cup {x}) \in {Cardinality(Held(D)), Cardinality(Held(D)) + 1}
    BY Zenon, <2>2, FS_AddElement
  <2>5. IsFiniteSet(Held(D)') /\ Cardinality(Held(D)') <= Cardinality(Held(D) \cup {x})
    BY Zenon, <2>1, <2>4, FS_Subset
  <2>6. x.device \notin D => Cardinality(Held(D)') <= Cardinality(Held(D))
    BY Zenon, <2>1, <2>2, FS_Subset
  <2>7. Cardinality(Held(D)) \in Nat /\ Cardinality(Held(D)') \in Nat
    BY Zenon, <2>2, <2>5, FS_CardinalityType
  <2> QED BY <2>3, <2>4, <2>5, <2>6, <2>7
<1>4. Holding({x.device}) < DeviceQueueLimit /\ Holding(SpoolDevices) < AgentQueueLimit
  BY Zenon DEF HasRoom
<1>5. Holding(SpoolDevices)' <= AgentQueueLimit
  <2>1. SpoolDevices' = SpoolDevices BY Zenon DEF SpoolDevices
  <2> QED BY <1>3, <1>4, <2>1, SpoolConstants
<1>6. ASSUME NEW d \in SpoolDevices PROVE Holding({d})' <= DeviceQueueLimit
  <2>1. Holding({d}) <= DeviceQueueLimit BY Zenon DEF QuotaInv
  <2>2. CASE d = x.device BY <1>3, <1>4, <2>2, SpoolConstants
  <2>3. CASE d # x.device BY <1>3, <2>1, <2>3, SpoolConstants
  <2> QED BY Zenon, <2>2, <2>3
<1> QED BY Zenon, <1>2, <1>5, <1>6 DEF QuotaInv, SpoolDevices


\* A step that leaves the reservations alone keeps this part.
LEMMA QuotaKept == QuotaInv /\ UNCHANGED reserv => QuotaInv'
BY Zenon, QuotaShrinks DEF Active

\* The quota: only hold_reservation takes a slot; finalize commits the one it has.
LEMMA QuotaStep ==
    ASSUME SpoolInv, SpoolNext
    PROVE  QuotaInv'
<1>0. /\ QuotaInv
      /\ HeldInv
      /\ reserv \in [Submissions -> {"none", "held", "committed", "released"}]
  BY Zenon DEF SpoolInv, SpoolTypeOK
<1> USE <1>0, CallFacts
<1>1. CASE Prepare
  <2>1. CASE UNCHANGED reserv BY Zenon, <2>1, QuotaKept
  <2>2. CASE HasRoom(Planned.device) /\ reserv' = [reserv EXCEPT ![Planned] = "held"]
    <3>1. Planned \in Submissions BY Zenon, <1>1, PlannedRow DEF Prepare
    <3>2. \A a \in Submissions : Active(a)' => Active(a) \/ a = Planned
      BY Zenon, <2>2, <3>1 DEF Active
    <3> QED BY Zenon, <2>2, <3>1, <3>2, QuotaGrows
  <2> QED BY Zenon, <1>1, <2>1, <2>2 DEF Prepare, ledger
<1>2. Resume => QuotaInv'
  BY Zenon, QuotaShrinks DEF Active, Resume, ledger, RemoveMissingArtifact, StorageFails,
  ReleaseReservation, GiveBack
<1>3. DataKey => QuotaInv'
  BY Zenon, QuotaShrinks DEF Active, DataKey, NextAfterKey, ledger, RootUnavailable,
  ReleaseReservation, GiveBack
<1>4. Provision => QuotaInv'
  BY Zenon, QuotaShrinks DEF Active, Provision, ledger, RootUnavailable, ReleaseReservation, GiveBack
<1>5. Encrypt => QuotaInv'
  BY Zenon, QuotaShrinks DEF Active, Encrypt, ledger, StorageFails, ReleaseReservation, GiveBack
<1>6. PublishObject => QuotaInv'
  BY Zenon, QuotaShrinks DEF Active, PublishObject, ledger, StorageFails, ReleaseReservation, GiveBack
<1>7. Verify => QuotaInv'
  BY Zenon, QuotaShrinks DEF Active, Verify, ledger, StorageFails, ReleaseReservation, GiveBack
<1>8. Finalize => QuotaInv'
  BY Zenon, QuotaShrinks DEF Active, Finalize, FinalizeTime, Publication, ledger, StorageFails,
  ReleaseReservation, HeldInv, GiveBack
<1>9. AbortRows => QuotaInv'
  BY Zenon, QuotaShrinks DEF Active, AbortRows, ReleaseReservation
<1>10. \A s \in Submissions : ReconcileRow(s) => QuotaInv'
  BY ZenonT(40), QuotaShrinks DEF Active, ReconcileRow, ReleaseReservation, GiveBack
<1>11. \A s \in Submissions : FailMissing(s) => QuotaInv'
  BY Zenon, QuotaShrinks DEF Active, FailMissing
<1>12. MakeCurrent \/ Wrap \/ Record \/ Sync \/ AbortFiles \/ AbortFails \/ RowsDone \/
MissingDone \/ Clean \/ Ready \/ Start \/ SpoolCrash \/ SpoolTick => QuotaInv'
  BY Zenon, QuotaKept DEF MakeCurrent, Wrap, Record, Sync, AbortFiles, AbortFails, RowsDone,
  MissingDone, Clean, Ready, Start, SpoolCrash, SpoolTick, NextAfterKey, OrphanObjects,
  ledger
<1>13. \A s \in Submissions : Replay(s) \/ Refuse(s) \/ Submit(s) \/ RenderRaster(s) \/
RecordRaster(s) \/ JobEnds(s) \/ ReleaseContent(s) => QuotaInv'
  BY Zenon, QuotaKept DEF Replay, Refuse, Submit, RenderRaster, RecordRaster, JobEnds,
  ReleaseContent, OrphanObjects, Tell, Unused, ledger
<1> QED BY Zenon, <1>1, <1>2, <1>3, <1>4, <1>5, <1>6, <1>7, <1>8, <1>9, <1>10, <1>11, <1>12,
<1>13 DEF SpoolNext, AdmissionStep

\* The invariant holds before the first start.
LEMMA SpoolInitInv == SpoolInit => SpoolInv /\ ContentInv
<1> SUFFICES ASSUME SpoolInit PROVE SpoolInv /\ ContentInv OBVIOUS
<1>1. SpoolTypeOK
  <2>1. 0 \in SpoolTime /\ 0 \in 0 .. MaxSecret BY SpoolConstants DEF SpoolTime
  <2> QED BY Zenon, <2>1 DEF SpoolInit, SpoolTypeOK, Steps, Answers
<1>2. RowInv /\ CallInv /\ HeldInv
  BY Zenon DEF SpoolInit, RowInv, CallInv, HeldInv, Active, Scanning
<1>3. FileInv /\ ScanInv BY Zenon DEF SpoolInit, FileInv, ScanInv
<1>4. KeyInv /\ ContentInv BY Zenon DEF SpoolInit, KeyInv, ContentInv
<1>5. QuotaInv
  <2>1. {a \in Submissions : Active(a)} = {} BY Zenon DEF SpoolInit, Active
  <2>2. \A D : {a \in Submissions : Active(a) /\ a.device \in D} = {} BY Zenon, <2>1
  <2>3. \A D : Holding(D) = 0 BY Zenon, <2>2, FS_EmptySet DEF Holding
  <2> QED BY <2>1, <2>3, FS_EmptySet, SpoolConstants DEF QuotaInv
<1>6. FinalInv /\ AcceptedIsKept BY Zenon DEF SpoolInit, FinalInv, AcceptedIsKept, Final
<1> QED BY Zenon, <1>1, <1>2, <1>3, <1>4, <1>5, <1>6 DEF SpoolInv

\* Every part depends on the variables only.
LEMMA SpoolStutter ==
    ASSUME SpoolInv, UNCHANGED spoolVars
    PROVE  SpoolInv' /\ (ContentInv => ContentInv')
<1> USE DEF spoolVars, ledger, artifacts, keys, roots, files, frame, scan
<1>1. SpoolTypeOK' BY ZenonT(40) DEF SpoolInv, SpoolTypeOK
<1>2. RowInv' /\ HeldInv' BY Zenon DEF SpoolInv, RowInv, HeldInv, Active
<1>3. CallInv' BY Zenon DEF SpoolInv, CallInv, Open, Found, ByKey, ByOrigin
<1>4. FileInv' /\ ScanInv' BY Zenon, FileKept, ScanKept DEF SpoolInv
<1>5. KeyInv' BY Zenon DEF SpoolInv, KeyInv
<1>6. QuotaInv' BY Zenon, QuotaShrinks DEF SpoolInv, Active
<1>7. FinalInv' BY Zenon DEF SpoolInv, FinalInv, Lapsed, Found, ByKey, ByOrigin
<1>8. AcceptedIsKept' BY Zenon DEF SpoolInv, AcceptedIsKept
<1>9. ContentInv => ContentInv' BY Zenon DEF ContentInv, Missing
<1> QED BY Zenon, <1>1, <1>2, <1>3, <1>4, <1>5, <1>6, <1>7, <1>8, <1>9 DEF SpoolInv

\* Every step keeps the invariant, part by part.
LEMMA SpoolInvStep == SpoolInv /\ [SpoolNext]_spoolVars => SpoolInv'
<1> SUFFICES ASSUME SpoolInv, [SpoolNext]_spoolVars PROVE SpoolInv' OBVIOUS
<1>1. CASE SpoolNext
  BY Zenon, <1>1, TypeStep, RowStep, CallStep, FileStep, KeyStep, ScanStep, HeldStep, QuotaStep,
     FinalStep, KeptStep DEF SpoolInv
<1>2. CASE UNCHANGED spoolVars BY Zenon, <1>2, SpoolStutter
<1> QED BY Zenon, <1>1, <1>2

\* The parts of the invariant hold together in every state of the admission
\* pipeline and its startup, for any submissions, references and limits.
THEOREM SpoolInvariant == SpoolSpec => []SpoolInv
<1>1. SpoolInit => SpoolInv BY Zenon, SpoolInitInv
<1> QED BY <1>1, SpoolInvStep, PTL DEF SpoolSpec

\* A submission key and an origin become at most one Print Job, whatever is
\* retried, resumed or repaired (find_idempotency, find_origin, _finalize).
THEOREM OneJob == SpoolSpec => []OneJobPerIntent
<1>1. SpoolInv => OneJobPerIntent
  BY Zenon DEF SpoolInv, SpoolTypeOK, RowInv, OneJobPerIntent
<1> QED BY <1>1, SpoolInvariant, PTL

\* Whoever accept() told `accepted' has a Print Job for their document, and no
\* crash and no later startup takes it back.
THEOREM AcceptanceIsKept == SpoolSpec => []AcceptedIsKept
<1>1. SpoolInv => AcceptedIsKept BY Zenon DEF SpoolInv
<1> QED BY <1>1, SpoolInvariant, PTL

\* The jobs in the queue never exceed the limits assert_quota enforces, for any
\* limits: every accepted job keeps the reservation it was admitted with.
THEOREM QueueIsBounded == SpoolSpec => []QueueBounded
<1>1. ASSUME SpoolInv PROVE QueueBounded
  <2> DEFINE Queued(D) == {s \in Submissions : printJob[s] = "accepted" /\ s.device \in D}
             Held(D) == {a \in Submissions : Active(a) /\ a.device \in D}
  <2>1. ASSUME NEW D
        PROVE  Cardinality(Queued(D)) \in Nat /\ Holding(D) \in Nat
               /\ Cardinality(Queued(D)) <= Holding(D)
    <3>1. Queued(D) \subseteq Held(D) BY Zenon, <1>1 DEF SpoolInv, RowInv, Active
    <3>2. Held(D) \subseteq {a \in Submissions : Active(a)} OBVIOUS
    <3>3. IsFiniteSet({a \in Submissions : Active(a)}) BY Zenon, <1>1 DEF SpoolInv, QuotaInv
    <3>4. Holding(D) = Cardinality(Held(D)) BY Zenon DEF Holding
    <3> HIDE DEF Queued, Held
    <3>5. IsFiniteSet(Held(D)) BY Zenon, <3>2, <3>3, FS_Subset
    <3>6. IsFiniteSet(Queued(D)) /\ Cardinality(Queued(D)) <= Cardinality(Held(D))
      BY Zenon, <3>1, <3>5, FS_Subset
    <3> QED BY Zenon, <3>4, <3>5, <3>6, FS_CardinalityType
  <2>2. /\ Holding(SpoolDevices) <= AgentQueueLimit
        /\ \A d \in SpoolDevices : Holding({d}) <= DeviceQueueLimit
    BY Zenon, <1>1 DEF SpoolInv, QuotaInv
  <2>3. /\ Cardinality(Queued(SpoolDevices)) <= AgentQueueLimit
        /\ \A d \in SpoolDevices : Cardinality(Queued({d})) <= DeviceQueueLimit
    <3> HIDE DEF Queued
    <3> QED BY <2>1, <2>2, SpoolConstants
  <2> QED BY Zenon, <2>3 DEF QueueBounded
<1> QED BY <1>1, SpoolInvariant, PTL

\* Someone told that their work expired, or lost its authority, will not see it
\* printed later, by a retry or by startup (_abort_preaccept, raise_if_aborted).
THEOREM FinalAnswersHold == SpoolSpec => []FinalIsFinal
<1>1. ASSUME SpoolInv PROVE FinalIsFinal
  <2> SUFFICES ASSUME NEW s \in Submissions, answer[s] \in Final, NEW b \in Found(s),
                      ~Conflicts(s, b), b.deadline <= s.deadline
               PROVE  printJob[b] = "none"
    BY Zenon DEF FinalIsFinal
  <2>1. b \in Submissions /\ state[b] # "none" BY Zenon DEF Found, ByKey, ByOrigin
  <2>2. state[b] # "accepted"
    <3>1. CASE \E a \in Submissions :
                 /\ state[a] = "aborted" /\ ~Conflicts(s, a)
                 /\ a.key = s.key \/ a.origin = s.origin
      <4>1. PICK a \in Submissions :
              /\ state[a] = "aborted"
              /\ a.key = s.key \/ a.origin = s.origin
        BY Zenon, <3>1
      <4>2. CASE b.key = s.key
        <5>1. b.origin = s.origin BY Zenon, <4>2 DEF Conflicts
        <5> QED BY Zenon, <1>1, <2>1, <4>1, <4>2, <5>1 DEF SpoolInv, RowInv
      <4>3. CASE b.key # s.key
        <5>1. b.origin = s.origin /\ a.key # s.key
          BY Zenon, <2>1, <4>1, <4>3 DEF Found, ByKey, ByOrigin
        <5> QED BY Zenon, <1>1, <2>1, <4>1, <5>1 DEF SpoolInv, RowInv
      <4> QED BY Zenon, <4>2, <4>3
    <3>2. CASE \A a \in Found(s) :
                 ~Conflicts(s, a) /\ a.deadline <= s.deadline => state[a] # "accepted"
      BY Zenon, <3>2
    <3> QED BY Zenon, <1>1, <3>1, <3>2 DEF SpoolInv, FinalInv
  <2> QED BY Zenon, <1>1, <2>1, <2>2 DEF SpoolInv, RowInv
<1> QED BY <1>1, SpoolInvariant, PTL

\* When reconcile lets the Agent start, no file of the spool is without an
\* artifact row, whatever the crash before it left behind.
THEOREM StartupLeavesNoOrphan == SpoolSpec => StartupCleans
<1>1. ASSUME SpoolInv, [SpoolNext]_spoolVars, agentUp = "starting", agentUp' = "running"
      PROVE  staged' \cup objects' \subseteq Rows'
  <2>1. SpoolNext BY Zenon, <1>1 DEF spoolVars
  <2>2. Ready BY Zenon, <1>1, <2>1, OnlyReadyStarts
  <2> QED BY Zenon, <1>1, <2>2 DEF Ready, OrphanObjects, SpoolInv, ScanInv, Rows, files, artifacts
<1> QED BY <1>1, SpoolInvariant, PTL DEF SpoolSpec, StartupCleans

\* Every job execution may claim has its document on disk, sealed for its
\* intent, under a key that can still be unwrapped (_finalize, _reconcile), as
\* long as startup can look at every stored object.
THEOREM AcceptedContentIsReadable ==
    ASSUME ~LookupsFail
    PROVE  SpoolSpec => []AcceptedIsReadable
<1>1. SpoolInit => SpoolInv /\ ContentInv BY Zenon, SpoolInitInv
<1>2. SpoolInv /\ ContentInv /\ [SpoolNext]_spoolVars => SpoolInv' /\ ContentInv'
  <2> SUFFICES ASSUME SpoolInv, ContentInv, [SpoolNext]_spoolVars PROVE ContentInv'
    BY Zenon, SpoolInvStep
  <2>1. CASE SpoolNext BY Zenon, <2>1, ContentStep
  <2>2. CASE UNCHANGED spoolVars BY Zenon, <2>2, SpoolStutter
  <2> QED BY Zenon, <2>1, <2>2
<1>3. SpoolInv /\ ContentInv => AcceptedIsReadable
  BY Zenon DEF SpoolInv, SpoolTypeOK, ContentInv, Missing, FileInv, KeyInv, AcceptedIsReadable
<1> QED BY <1>1, <1>2, <1>3, PTL DEF SpoolSpec
=============================================================================
