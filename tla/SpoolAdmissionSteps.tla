------------------------- MODULE SpoolAdmissionSteps -------------------------
(***************************************************************************)
(* The steps of durable admission, for any set of submissions, references  *)
(* and limits: each lemma <Part>Step shows that every action keeps one     *)
(* part of the inductive invariant SpoolInv of SpoolAdmission.  It has a   *)
(* step for each action that can disturb the part, and one for the actions *)
(* that leave its variables alone.                                         *)
(***************************************************************************)
EXTENDS SpoolAdmission, TLAPS

\* Where the call in progress stands, and the admission it works on.
LEMMA CallFacts ==
    ASSUME SpoolInv
    PROVE  /\ spoolPc \in {"idle", "reconcile", "missing", "clean"} => call = Nil /\ plan = Nil
           /\ spoolPc = "prepare" => call \in Submissions /\ plan = Nil
           /\ spoolPc \notin {"idle", "prepare", "reconcile", "missing", "clean"} =>
                plan \in Submissions /\ plan # Nil /\ state[plan] = "staging"
           /\ spoolPc = "idle" => agentUp # "starting"
           /\ spoolPc # "idle" => agentUp = (IF call = Nil THEN "starting" ELSE "running")
           /\ call \in Submissions \cup {Nil} /\ plan \in Submissions \cup {Nil}
           /\ Nil \notin Submissions
           /\ \A a \in todo : a \in Submissions /\ a # plan /\ state[a] = "staging"
BY Zenon, SpoolConstants DEF SpoolInv, SpoolTypeOK, CallInv, ScanInv, Scanning

\* The admission ledger.prepare works on: its row, or none with its key and origin.
LEMMA PlannedRow ==
    ASSUME SpoolInv, spoolPc = "prepare"
    PROVE  /\ Planned \in Submissions /\ call \in Submissions
           /\ state[Planned] \in {"none", "staging"}
           /\ state[Planned] = "none" => Planned = call /\ Found(call) = {}
           /\ state[Planned] = "staging" => Planned \in Found(call)
<1>1. call \in Submissions BY Zenon, CallFacts
<1>2. CASE Found(call) = {}
  BY Zenon, <1>1, <1>2 DEF SpoolInv, SpoolTypeOK, Planned, Found, ByKey, ByOrigin
<1>3. CASE Found(call) # {}
  <2>1. Planned \in Found(call) BY Zenon, <1>3 DEF Planned
  <2>2. Planned \in Submissions /\ state[Planned] = "staging"
    BY Zenon, <1>1, <2>1, CallFacts DEF SpoolInv, CallInv, Found, ByKey, ByOrigin, Open
  <2> QED BY Zenon, <1>1, <2>1, <2>2
<1> QED BY Zenon, <1>2, <1>3

\* The type invariant in three parts: tables and files, the call, the process.
TablesOK ==
    /\ state \in [Submissions -> {"none", "staging", "accepted", "aborted"}]
    /\ code \in [Submissions -> Final \cup {"none", "recovery_uncertain"}]
    /\ reserv \in [Submissions -> {"none", "held", "committed", "released"}]
    /\ ref \in [Submissions -> Refs \cup {Nil}]
    /\ raster \in [Submissions -> Refs \cup {Nil}]
    /\ artifact \in [Submissions -> {"none", "staging", "committed", "delete_pending", "deleted"}]
    /\ admissionKey \in [Submissions -> 0 .. MaxSecret]
    /\ jobKey \in [Submissions -> 0 .. MaxSecret]
    /\ printJob \in [Submissions -> {"none", "accepted", "ended", "failed"}]
    /\ root \in {"none", "provisioning", "current"} /\ secret \in 0 .. MaxSecret
    /\ staged \subseteq Refs /\ objects \subseteq Refs /\ unsynced \subseteq Refs
    /\ sealed \in [Refs -> Intents \cup {Nil}]
    /\ clock \in SpoolTime

FrameOK ==
    /\ spoolPc \in Steps
    /\ call \in Submissions \cup {Nil} /\ plan \in Submissions \cup {Nil}
    /\ at \in SpoolTime /\ resuming \in BOOLEAN /\ file \in Refs \cup {Nil}
    /\ verdict \in Final \cup {"none", "recovery_uncertain"}
    /\ answer \in [Submissions -> Answers]

ProcessOK ==
    /\ agentUp \in {"down", "starting", "running"}
    /\ todo \subseteq Submissions /\ referenced \subseteq Refs

LEMMA TypeParts == SpoolTypeOK <=> TablesOK /\ FrameOK /\ ProcessOK
BY Zenon DEF SpoolTypeOK, TablesOK, FrameOK, ProcessOK

\* How a call ends keeps the types of its frame.
LEMMA ReturnFrame ==
    ASSUME FrameOK, NEW a \in Answers, Return(a)
    PROVE  FrameOK'
<1>1. at' \in SpoolTime BY SpoolConstants DEF FrameOK, SpoolTime, Return
<1>2. answer' \in [Submissions -> Answers] BY Zenon DEF FrameOK, Return
<1> QED BY Zenon, <1>1, <1>2 DEF FrameOK, Return, Steps

LEMMA StartFailsFrame == ASSUME FrameOK, StartFails PROVE FrameOK' /\ ProcessOK'
<1>1. at' \in SpoolTime BY SpoolConstants DEF SpoolTime, StartFails
<1> QED BY Zenon, <1>1 DEF FrameOK, ProcessOK, StartFails, Steps

\* A step that leaves these variables alone keeps this part.
LEMMA TablesKept ==
    ASSUME TablesOK,
           UNCHANGED <<state, code, reserv, ref, raster, artifact, admissionKey, jobKey, printJob,
                       root, secret, staged, objects, unsynced, sealed, clock>>
    PROVE  TablesOK'
BY Zenon DEF TablesOK

\* The types of the tables and the directories.
LEMMA TablesStep ==
    ASSUME SpoolInv, SpoolNext
    PROVE  TablesOK'
<1>0. TablesOK /\ FrameOK /\ ProcessOK BY Zenon, TypeParts DEF SpoolInv
<1> USE <1>0
<1>1. Prepare => TablesOK'
  BY DEF TablesOK, Prepare, ledger, artifacts, keys, roots, files
<1>2. Resume => TablesOK'
  BY DEF TablesOK, Resume, ledger, artifacts, files, RemoveMissingArtifact,
  StorageFails, keys, roots, ReleaseReservation, GiveBack
<1>3. DataKey => TablesOK'
  BY DEF TablesOK, DataKey, NextAfterKey, ledger, RootUnavailable, artifacts, keys,
  files, ReleaseReservation, GiveBack
<1>4. Provision => TablesOK'
  BY SpoolConstants DEF TablesOK, Provision, ledger, RootUnavailable, artifacts, keys,
  files, ReleaseReservation, GiveBack
<1>5. MakeCurrent => TablesOK'
  BY Zenon DEF TablesOK, MakeCurrent, ledger, artifacts, keys, files
<1>6. Wrap => TablesOK'
  BY SpoolConstants DEF TablesOK, Wrap, NextAfterKey, ledger, artifacts, roots, files
<1>7. Encrypt => TablesOK'
  BY DEF TablesOK, Encrypt, Unused, ledger, StorageFails, files, artifacts, keys, roots,
  ReleaseReservation, SpoolInv, ScanInv, FrameOK, Intents, GiveBack
<1>8. Record => TablesOK'
  BY DEF ledger, artifacts, keys, roots, files, frame, scan, TablesOK, FrameOK, Record
<1>9. CASE PublishObject
  <2> USE DEF ledger, artifacts, keys, roots, files, frame, scan
  <2>1. file \in Refs \/ UNCHANGED objects
    BY Zenon, <1>9 DEF PublishObject, StorageFails, SpoolInv, FileInv, FrameOK
  <2> QED BY <2>1, <1>9 DEF TablesOK, PublishObject, StorageFails, ReleaseReservation, Active, GiveBack
<1>10. Sync => TablesOK'
  BY Zenon DEF TablesOK, Sync, ledger, artifacts, keys, roots
<1>11. Verify => TablesOK'
  BY DEF TablesOK, Verify, ledger, StorageFails, artifacts, keys, roots, files,
  ReleaseReservation, GiveBack
<1>12. CASE Finalize
  <2> USE DEF ledger, artifacts, keys, roots, files, frame, scan
  <2>1. CASE Publication
    <3>1. jobKey' \in [Submissions -> 0 .. MaxSecret]
      BY Zenon, <2>1 DEF TablesOK, Publication
    <3>2. admissionKey' \in [Submissions -> 0 .. MaxSecret]
      <4>1. 0 \in 0 .. MaxSecret BY SpoolConstants
      <4> QED BY Zenon, <2>1, <4>1 DEF TablesOK, Publication
    <3> QED BY Zenon, <2>1, <3>1, <3>2, <1>12 DEF TablesOK, Finalize, Publication
  <2>2. CASE UNCHANGED <<state, code, printJob, artifact, keys>>
    BY <2>2, <1>12 DEF TablesOK, Finalize, StorageFails, ReleaseReservation, Active, Publication, GiveBack
  <2> QED BY Zenon, <2>1, <2>2, <1>12 DEF Finalize, StorageFails
<1>13. AbortFiles => TablesOK'
  BY DEF TablesOK, AbortFiles, Contents, ledger, artifacts, keys, roots
<1>14. CASE AbortRows
  <2> USE DEF ledger, artifacts, keys, roots, files, frame, scan
  <2>1. verdict \in Final \cup {"none", "recovery_uncertain"}
    BY Zenon DEF FrameOK
  <2>2. code' \in [Submissions -> Final \cup {"none", "recovery_uncertain"}]
    BY Zenon, <2>1, <1>14 DEF TablesOK, AbortRows
  <2>3. 0 \in 0 .. MaxSecret BY SpoolConstants
  <2> QED BY Zenon, <2>2, <2>3, <1>14 DEF TablesOK, AbortRows, ReleaseReservation, Active
<1>15. Clean => TablesOK'
  BY DEF TablesOK, Clean, OrphanObjects, Contents, ledger, artifacts, keys, roots
<1>16. SpoolCrash => TablesOK'
  BY DEF TablesOK, SpoolCrash, files, Contents, ledger, artifacts, keys, roots
<1>17. SpoolTick => TablesOK'
  BY SpoolConstants DEF TablesOK, SpoolTick, ledger, artifacts, keys, roots, files,
  SpoolTime
<1>18. \A s \in Submissions : ReconcileRow(s) => TablesOK'
  BY DEF TablesOK, ReconcileRow, ReleaseReservation, artifacts, keys, roots, files, GiveBack
<1>19. \A s \in Submissions : FailMissing(s) => TablesOK'
  BY SpoolConstants DEF TablesOK, FailMissing, roots, files
<1>20. \A s \in Submissions : RenderRaster(s) => TablesOK'
  BY DEF TablesOK, RenderRaster, OrphanObjects, Unused, ledger, artifacts, keys, roots,
  Intents
<1>21. \A s \in Submissions : RecordRaster(s) => TablesOK'
  BY DEF TablesOK, RecordRaster, OrphanObjects, ledger, keys, roots, files
<1>22. \A s \in Submissions : JobEnds(s) => TablesOK'
  BY SpoolConstants DEF TablesOK, JobEnds, ledger, roots, files
<1>23. \A s \in Submissions : ReleaseContent(s) => TablesOK'
  BY DEF TablesOK, ReleaseContent, Contents, ledger, keys, roots
<1>24. AbortFails \/ RowsDone \/ MissingDone \/ Ready \/ Start => TablesOK'
  BY Zenon, TablesKept DEF AbortFails, RowsDone, MissingDone, Ready, Start, OrphanObjects,
  ledger, artifacts, keys, roots, files
<1>25. \A s \in Submissions : Replay(s) \/ Refuse(s) \/ Submit(s) => TablesOK'
  BY Zenon, TablesKept DEF Replay, Refuse, Submit, Tell, ledger, artifacts, keys, roots, files
<1> QED BY Zenon, <1>1, <1>2, <1>3, <1>4, <1>5, <1>6, <1>7, <1>8, <1>9, <1>10, <1>11, <1>12,
<1>13, <1>14, <1>15, <1>16, <1>17, <1>18, <1>19, <1>20, <1>21, <1>22, <1>23, <1>24,
<1>25 DEF SpoolNext, AdmissionStep

\* A step that leaves these variables alone keeps this part.
LEMMA FrameKept ==
    FrameOK /\ UNCHANGED <<spoolPc, call, plan, at, resuming, file, verdict, answer>> => FrameOK'
BY Zenon DEF FrameOK

\* The types of the call in progress.
LEMMA FrameStep ==
    ASSUME SpoolInv, SpoolNext
    PROVE  FrameOK'
<1>0. TablesOK /\ FrameOK /\ ProcessOK BY Zenon, TypeParts DEF SpoolInv
<1> USE <1>0
<1>1. CASE Prepare
  <2> USE DEF ledger, artifacts, keys, roots, files, frame, scan
  <2>1. Planned \in Submissions BY Zenon, <1>1, PlannedRow DEF Prepare
  <2>2. CASE Return("queue_full") \/ Return("refused")
    BY Zenon, <2>2, ReturnFrame DEF Answers
  <2>3. CASE /\ plan' = Planned /\ GoesTo("resume")
             /\ UNCHANGED <<call, at, resuming, file, verdict>>
    BY Zenon, <2>1, <2>3 DEF FrameOK, GoesTo, Steps
  <2> QED BY Zenon, <2>2, <2>3, <1>1 DEF Prepare
<1>2. CASE Resume
  <2> USE DEF ledger, artifacts, keys, roots, files, frame, scan
  <2>1. CASE StartFails BY Zenon, <2>1, StartFailsFrame
  <2>2. CASE Return("refused") \/ Return("recovery_uncertain")
    BY Zenon, <2>2, ReturnFrame DEF Answers
  <2>3. CASE /\ spoolPc' \in {"key", "prepare", "publish"} /\ plan' \in {plan, Nil}
             /\ resuming' \in {resuming, TRUE} /\ file' \in Refs \cup {file}
             /\ UNCHANGED <<call, at, verdict, answer>>
    BY Zenon, <2>3 DEF FrameOK, Steps
  <2>4. objects \cup staged \subseteq Refs BY Zenon DEF TablesOK
  <2> QED
    BY Zenon, <2>1, <2>2, <2>3, <2>4, <1>2 DEF Resume, GoesTo, Uncertain, StorageFails, CallFails
<1>3. DataKey => FrameOK'
  BY Zenon, ReturnFrame, StartFailsFrame DEF FrameOK, Answers, Final, Steps, DataKey, GoesTo,
  NextAfterKey, frame, RootUnavailable, Uncertain
<1>4. Provision => FrameOK'
  BY Zenon, ReturnFrame, StartFailsFrame DEF FrameOK, Answers, Final, Steps, Provision, GoesTo,
  frame, RootUnavailable
<1>5. MakeCurrent => FrameOK'
  BY Zenon, ReturnFrame DEF FrameOK, Answers, Final, Steps, MakeCurrent, GoesTo, frame,
  Uncertain
<1>6. Wrap => FrameOK'
  BY Zenon, ReturnFrame DEF FrameOK, Answers, Final, Steps, Wrap, GoesTo, NextAfterKey, frame,
  Uncertain, AbortWith
<1>7. Encrypt => FrameOK'
  BY Zenon, ReturnFrame DEF FrameOK, Answers, Final, Steps, Encrypt, Unused, GoesTo,
  StorageFails, Uncertain, AbortWith
<1>8. Record => FrameOK'
  BY Zenon, ReturnFrame DEF FrameOK, Answers, Final, Steps, Record, Uncertain, GoesTo, frame
<1>9. PublishObject => FrameOK'
  BY Zenon, ReturnFrame DEF FrameOK, Answers, Final, Steps, PublishObject, GoesTo, frame,
  Uncertain, StorageFails
<1>10. Sync => FrameOK'
  BY Zenon, ReturnFrame DEF FrameOK, Answers, Final, Steps, Sync, GoesTo, frame, Uncertain
<1>11. Verify => FrameOK'
  BY Zenon, ReturnFrame DEF FrameOK, Answers, Final, Steps, Verify, GoesTo, frame, AbortWith,
  StorageFails
<1>12. Finalize => FrameOK'
  BY Zenon, ReturnFrame DEF FrameOK, Answers, Final, Steps, Finalize, FinalizeTime, Uncertain,
  AbortWith, StorageFails, GoesTo
<1>13. AbortFiles => FrameOK'
  BY Zenon, ReturnFrame, StartFailsFrame DEF FrameOK, Answers, Final, Steps, AbortFiles,
  GoesTo, frame, CallFails
<1>14. AbortRows => FrameOK'
  BY Zenon, ReturnFrame, StartFailsFrame DEF FrameOK, Answers, Final, Steps, AbortRows,
  CallFails
<1>15. AbortFails => FrameOK'
  BY Zenon, ReturnFrame, StartFailsFrame DEF FrameOK, Answers, Final, Steps, AbortFails,
  CallFails
<1>16. RowsDone => FrameOK'
  BY Zenon DEF FrameOK, Answers, Final, Steps, RowsDone, frame
<1>17. MissingDone => FrameOK'
  BY Zenon DEF FrameOK, Answers, Final, Steps, MissingDone, frame
<1>18. Ready => FrameOK'
  BY SpoolConstants DEF FrameOK, Answers, Final, Steps, Ready, OrphanObjects, SpoolTime
<1>19. Start => FrameOK'
  BY DEF FrameOK, Answers, Final, Steps, Start, TablesOK
<1>20. CASE SpoolCrash
  <2> USE DEF ledger, artifacts, keys, roots, files, frame, scan
  <2>1. answer' \in [Submissions -> Answers]
    BY Zenon, <1>20 DEF FrameOK, SpoolCrash, Answers
  <2>2. at' \in SpoolTime
    BY <1>20, SpoolConstants DEF SpoolCrash, SpoolTime
  <2> QED BY Zenon, <2>1, <2>2, <1>20 DEF FrameOK, SpoolCrash, Steps
<1>21. \A s \in Submissions : ReconcileRow(s) => FrameOK'
  BY Zenon DEF FrameOK, Answers, Final, Steps, ReconcileRow
<1>22. ASSUME NEW s \in Submissions, Replay(s) PROVE FrameOK'
  <2> USE DEF ledger, artifacts, keys, roots, files, frame, scan
  <2>1. \A a \in Found(s) : code[a] \in Answers
    BY Zenon DEF TablesOK, Found, ByKey, ByOrigin, Answers
  <2>2. \E x \in Answers : Tell(s, x)
    BY Zenon, <2>1, <1>22 DEF Replay, Answers
  <2> QED BY Zenon, <2>2 DEF FrameOK, Tell
<1>23. \A s \in Submissions : Refuse(s) => FrameOK'
  BY Zenon DEF FrameOK, Answers, Final, Steps, Refuse, Tell, frame
<1>24. \A s \in Submissions : Submit(s) => FrameOK'
  BY Zenon DEF FrameOK, Answers, Final, Steps, Submit, TablesOK
<1>25. Clean \/ SpoolTick => FrameOK'
  BY Zenon, FrameKept DEF Clean, SpoolTick, OrphanObjects, frame
<1>26. \A s \in Submissions : FailMissing(s) \/ RenderRaster(s) \/ RecordRaster(s) \/
JobEnds(s) \/ ReleaseContent(s) => FrameOK'
  BY Zenon, FrameKept DEF FailMissing, RenderRaster, RecordRaster, JobEnds, ReleaseContent,
  OrphanObjects, Unused, frame
<1> QED BY Zenon, <1>1, <1>2, <1>3, <1>4, <1>5, <1>6, <1>7, <1>8, <1>9, <1>10, <1>11, <1>12,
<1>13, <1>14, <1>15, <1>16, <1>17, <1>18, <1>19, <1>20, <1>21, <1>22, <1>23, <1>24,
<1>25, <1>26 DEF SpoolNext, AdmissionStep

\* A step that leaves these variables alone keeps this part.
LEMMA ProcessKept == ProcessOK /\ UNCHANGED <<agentUp, todo, referenced>> => ProcessOK'
BY Zenon DEF ProcessOK

\* The types of the process and of its scan.
LEMMA ProcessStep ==
    ASSUME SpoolInv, SpoolNext
    PROVE  ProcessOK'
<1>0. TablesOK /\ FrameOK /\ ProcessOK BY Zenon, TypeParts DEF SpoolInv
<1> USE <1>0
<1>1. Resume => ProcessOK'
  BY Zenon DEF ProcessOK, Resume, scan, StorageFails, CallFails, StartFails
<1>2. DataKey => ProcessOK'
  BY Zenon DEF ProcessOK, DataKey, NextAfterKey, scan, RootUnavailable, StartFails
<1>3. Provision => ProcessOK'
  BY Zenon DEF ProcessOK, Provision, scan, RootUnavailable, StartFails
<1>4. AbortFiles => ProcessOK'
  BY Zenon DEF ProcessOK, AbortFiles, scan, CallFails, StartFails
<1>5. AbortRows => ProcessOK'
  BY Zenon DEF ProcessOK, AbortRows, scan, CallFails, StartFails
<1>6. AbortFails => ProcessOK'
  BY Zenon DEF ProcessOK, AbortFails, CallFails, StartFails, scan
<1>7. Ready => ProcessOK'
  BY Zenon DEF ProcessOK, Ready, OrphanObjects
<1>8. Start => ProcessOK'
  BY Zenon DEF ProcessOK, Start, TablesOK
<1>9. SpoolCrash => ProcessOK'
  BY Zenon DEF ProcessOK, SpoolCrash
<1>10. \A s \in Submissions : ReconcileRow(s) => ProcessOK'
  BY DEF ProcessOK, ReconcileRow, TablesOK
<1>11. Prepare \/ MakeCurrent \/ Wrap \/ Encrypt \/ Record \/ PublishObject \/ Sync \/
Verify \/ Finalize \/ RowsDone \/ MissingDone \/ Clean \/ SpoolTick => ProcessOK'
  BY Zenon, ProcessKept DEF Prepare, MakeCurrent, Wrap, Encrypt, Record, PublishObject, Sync,
  Verify, Finalize, RowsDone, MissingDone, Clean, SpoolTick, FinalizeTime, NextAfterKey,
  OrphanObjects, StorageFails, Unused, scan
<1>12. \A s \in Submissions : FailMissing(s) \/ Replay(s) \/ Refuse(s) \/ Submit(s) \/
RenderRaster(s) \/ RecordRaster(s) \/ JobEnds(s) \/ ReleaseContent(s) => ProcessOK'
  BY ZenonT(40), ProcessKept DEF FailMissing, Replay, Refuse, Submit, RenderRaster, RecordRaster,
  JobEnds, ReleaseContent, OrphanObjects, Tell, Unused, scan
<1> QED BY Zenon, <1>1, <1>2, <1>3, <1>4, <1>5, <1>6, <1>7, <1>8, <1>9, <1>10, <1>11, <1>12 DEF
SpoolNext, AdmissionStep

\* Every step keeps the types.
LEMMA TypeStep == SpoolInv /\ SpoolNext => SpoolTypeOK'
BY Zenon, TablesStep, FrameStep, ProcessStep DEF SpoolTypeOK, TablesOK, FrameOK, ProcessOK

\* A step that leaves these variables alone keeps this part.
LEMMA RowKept == RowInv /\ UNCHANGED <<state, printJob, reserv, artifact>> => RowInv'
BY DEF RowInv, Active

\* One row per key and origin: only prepare creates a row, when it finds none, and
\* only finalize turns a row into a job.
LEMMA RowStep ==
    ASSUME SpoolInv, SpoolNext
    PROVE  RowInv'
<1>0. /\ RowInv
      /\ state \in [Submissions -> {"none", "staging", "accepted", "aborted"}]
      /\ reserv \in [Submissions -> {"none", "held", "committed", "released"}]
      /\ artifact \in [Submissions -> {"none", "staging", "committed", "delete_pending",
                                      "deleted"}]
      /\ printJob \in [Submissions -> {"none", "accepted", "ended", "failed"}]
  BY Zenon DEF SpoolInv, SpoolTypeOK
<1> USE <1>0, CallFacts
<1>1. CASE Prepare
  <2>1. CASE UNCHANGED <<state, reserv>>
    BY Zenon, <1>1, <2>1, RowKept DEF Prepare, artifacts
  <2>2. CASE /\ state' = [state EXCEPT ![Planned] = "staging"]
             /\ reserv' = [reserv EXCEPT ![Planned] = "held"]
    <3>1. UNCHANGED <<printJob, artifact>> BY Zenon, <1>1 DEF Prepare, artifacts
    <3>2. Planned \in Submissions /\ state[Planned] \in {"none", "staging"}
      BY Zenon, <1>1, PlannedRow DEF Prepare
    <3>3. ASSUME NEW t \in Submissions, state[t] # "none",
                 t.key = Planned.key \/ t.origin = Planned.origin
          PROVE  t = Planned
      <4>1. CASE state[Planned] # "none" BY Zenon, <3>2, <3>3, <4>1 DEF RowInv
      <4>2. CASE state[Planned] = "none"
        BY Zenon, <1>1, <3>3, <4>2, PlannedRow DEF Prepare, Found, ByKey, ByOrigin
      <4> QED BY Zenon, <4>1, <4>2
    <3>4. /\ state'[Planned] = "staging" /\ reserv'[Planned] = "held"
          /\ \A s \in Submissions \ {Planned} : state'[s] = state[s] /\ reserv'[s] = reserv[s]
      BY Zenon, <2>2, <3>2
    <3>5. \A s, t \in Submissions :
            state'[s] # "none" /\ state'[t] # "none" /\ (s.key = t.key \/ s.origin = t.origin)
              => s = t
      BY <3>3, <3>4 DEF RowInv
    <3> QED BY <3>1, <3>2, <3>4, <3>5 DEF RowInv, Active
  <2> QED BY Zenon, <1>1, <2>1, <2>2 DEF Prepare, ledger
<1>2. Resume => RowInv'
  BY SMTT(30) DEF RowInv, Active, Resume, GoesTo, ledger, artifacts, frame,
  RemoveMissingArtifact, Uncertain, StorageFails, CallFails, ReleaseReservation, Return,
  StartFails, GiveBack
<1>3. DataKey => RowInv'
  BY DEF RowInv, Active, DataKey, GoesTo, NextAfterKey, ledger, frame, RootUnavailable,
  Uncertain, artifacts, ReleaseReservation, Return, StartFails, GiveBack
<1>4. Provision => RowInv'
  BY DEF RowInv, Active, Provision, GoesTo, ledger, frame, RootUnavailable, artifacts,
  ReleaseReservation, Return, StartFails, GiveBack
<1>5. Encrypt => RowInv'
  BY DEF RowInv, Active, Encrypt, GoesTo, ledger, StorageFails, Uncertain, artifacts,
  ReleaseReservation, Return, GiveBack, AbortWith
<1>6. Record => RowInv'
  BY DEF RowInv, Active, Record, Uncertain, artifacts, GoesTo, frame, ledger, Return
<1>7. PublishObject => RowInv'
  BY DEF RowInv, Active, PublishObject, GoesTo, frame, Uncertain, ledger, StorageFails,
  artifacts, Return, ReleaseReservation, GiveBack
<1>8. Verify => RowInv'
  BY SMTT(30) DEF RowInv, Active, Verify, GoesTo, ledger, frame, AbortWith, StorageFails,
  artifacts, ReleaseReservation, Return, GiveBack
<1>9. Finalize => RowInv'
  BY SMTT(30) DEF RowInv, Active, Finalize, FinalizeTime, Publication, Return, Uncertain,
  AbortWith, ledger, artifacts, StorageFails, GoesTo, ReleaseReservation, GiveBack
<1>10. AbortRows => RowInv'
  BY DEF RowInv, Active, AbortRows, ReleaseReservation, Return, CallFails, StartFails
<1>11. \A s \in Submissions : ReconcileRow(s) => RowInv'
  BY DEF RowInv, Active, ReconcileRow, ReleaseReservation, artifacts, GiveBack
<1>12. \A s \in Submissions : FailMissing(s) => RowInv'
  BY DEF RowInv, Active, FailMissing, frame, Missing
<1>13. \A s \in Submissions : JobEnds(s) => RowInv'
  BY DEF RowInv, Active, JobEnds, ledger, frame
<1>14. \A s \in Submissions : ReleaseContent(s) => RowInv'
  BY DEF RowInv, Active, ReleaseContent, ledger, frame
<1>15. MakeCurrent \/ Wrap \/ Sync \/ AbortFiles \/ AbortFails \/ RowsDone \/
MissingDone \/ Clean \/ Ready \/ Start \/ SpoolCrash \/ SpoolTick => RowInv'
  BY Zenon, RowKept DEF MakeCurrent, Wrap, Sync, AbortFiles, AbortFails, RowsDone, MissingDone,
  Clean, Ready, Start, SpoolCrash, SpoolTick, NextAfterKey, OrphanObjects, ledger,
  artifacts
<1>16. \A s \in Submissions : Replay(s) \/ Refuse(s) \/ Submit(s) \/ RenderRaster(s) \/
RecordRaster(s) => RowInv'
  BY Zenon, RowKept DEF Replay, Refuse, Submit, RenderRaster, RecordRaster, OrphanObjects,
  Tell, Unused, ledger, artifacts
<1> QED BY Zenon, <1>1, <1>2, <1>3, <1>4, <1>5, <1>6, <1>7, <1>8, <1>9, <1>10, <1>11, <1>12,
<1>13, <1>14, <1>15, <1>16 DEF SpoolNext, AdmissionStep

\* A step that leaves these variables alone keeps this part.
LEMMA CallKept ==
    CallInv /\ UNCHANGED <<plan, spoolPc, call, agentUp, at, state>> => CallInv'
BY Zenon DEF CallInv, Open, Found, ByKey, ByOrigin

\* A call that goes on, one that ends, and one that fails the start.
LEMMA CallGoes ==
    ASSUME CallInv, plan # Nil, UNCHANGED <<plan, call, agentUp, at, state>>,
           spoolPc' \notin {"idle", "prepare", "reconcile", "missing", "clean"}
    PROVE  CallInv'
<1>1. spoolPc \notin {"idle", "prepare", "reconcile", "missing", "clean"}
  BY Zenon DEF CallInv, Scanning
<1> QED BY Zenon, <1>1 DEF CallInv, Scanning, Open, Found, ByKey, ByOrigin

LEMMA CallEnds ==
    ASSUME CallInv, plan # Nil, call' = Nil, plan' = Nil,
           spoolPc' = (IF call = Nil THEN "reconcile" ELSE "idle"), UNCHANGED agentUp
    PROVE  CallInv'
BY Zenon DEF CallInv, Scanning

LEMMA CallStops == ASSUME StartFails PROVE CallInv'
BY Zenon DEF CallInv, StartFails, Scanning

\* While a call holds the lock, nothing changes the rows that answer it.
LEMMA CallStep ==
    ASSUME SpoolInv, SpoolNext
    PROVE  CallInv'
<1>0. /\ CallInv
      /\ state \in [Submissions -> {"none", "staging", "accepted", "aborted"}]
      /\ at \in Nat /\ clock \in Nat
      /\ Nil \notin Refs /\ Nil \notin Submissions
  BY SpoolConstants DEF SpoolInv, SpoolTypeOK, SpoolTime
<1> USE <1>0, CallFacts
<1>1. CASE Prepare
  <2> USE DEF CallInv, Open, Found, ByKey, ByOrigin, Scanning, ledger
  <2> DEFINE a == Planned
  <2>1. /\ a \in Submissions /\ call \in Submissions
        /\ agentUp' = agentUp /\ agentUp = "running" /\ plan = Nil
    BY Zenon, <1>1, PlannedRow DEF Prepare
  <2>2. CASE Return("queue_full") /\ UNCHANGED ledger
    BY Zenon, <1>1, <2>1, <2>2 DEF Prepare, Return
  <2>3. CASE Return("refused")
    BY Zenon, <1>1, <2>1, <2>3 DEF Prepare, Return
  <2>4. CASE /\ plan' = a /\ GoesTo("resume") /\ UNCHANGED <<call, at>>
             /\ state' = state \/ state' = [state EXCEPT ![a] = "staging"]
             /\ state'[a] = "staging"
    <3>1. /\ state[a] = "none" => a = call /\ Found(call) = {}
          /\ state[a] = "staging" => a \in Found(call)
          /\ state[a] \in {"none", "staging"}
      BY Zenon, <1>1, PlannedRow DEF Prepare
    <3>2. \A s \in Submissions \ {a} : state'[s] = state[s]
      BY Zenon, <2>1, <2>4
    <3>3. CASE state[a] = "staging"
      <4>1. state' = state BY Zenon, <2>1, <2>4, <3>3
      <4> QED BY Zenon, <1>1, <2>1, <2>4, <3>1, <3>3, <4>1 DEF GoesTo, Prepare
    <3>4. CASE state[a] = "none"
      <4>1. a = call /\ ByKey(call) = {} /\ ByOrigin(call) = {}
        BY Zenon, <3>1, <3>4
      <4>2. ByKey(call)' = {call}
        BY Zenon, <2>1, <2>4, <3>2, <4>1
      <4>3. Found(call)' = {call} BY Zenon, <4>2
      <4>4. ~Conflicts(call, call) BY Zenon DEF Conflicts
      <4>5. Open(call)' BY Zenon, <2>1, <2>4, <4>1, <4>3, <4>4 DEF Open
      <4> HIDE DEF Open, Found
      <4> QED BY Zenon, <1>1, <2>1, <2>4, <4>1, <4>3, <4>5 DEF GoesTo, Prepare
    <3> QED BY Zenon, <3>1, <3>3, <3>4
  <2>5. ASSUME Active(a) PROVE state[a] = "staging"
    BY Zenon, <1>1, <2>1, <2>5, PlannedRow DEF Prepare, SpoolInv, RowInv
  <2> QED BY Zenon, <1>1, <2>1, <2>2, <2>3, <2>4, <2>5 DEF Prepare, GoesTo
<1>2. CASE Resume
  <2>1. CASE GoesTo("prepare")
    BY SMTT(30), <1>2, <2>1, CallFacts DEF CallInv, Resume, GoesTo, StorageFails, Uncertain,
    CallFails, StartFails, Return, RemoveMissingArtifact, ledger, frame, Scanning, Open, Found, ByKey, ByOrigin
  <2>2. CASE ~GoesTo("prepare")
    BY Zenon, <1>2, <2>2, CallFacts, CallGoes, CallEnds, CallStops DEF Resume, GoesTo,
    StorageFails, Uncertain, CallFails, Return, RemoveMissingArtifact, ledger, frame
  <2> QED BY Zenon, <2>1, <2>2
<1>3. DataKey => CallInv'
  BY Zenon, CallGoes, CallEnds, CallStops DEF DataKey, GoesTo, NextAfterKey, ledger, frame,
  RootUnavailable, Uncertain, Return
<1>4. Provision => CallInv'
  BY Zenon, CallGoes, CallEnds, CallStops DEF Provision, GoesTo, ledger, frame,
  RootUnavailable, Return
<1>5. MakeCurrent => CallInv'
  BY Zenon, CallGoes, CallEnds, CallStops DEF MakeCurrent, GoesTo, frame, Uncertain, ledger,
  Return
<1>6. Wrap => CallInv'
  BY Zenon, CallGoes, CallEnds, CallStops DEF Wrap, GoesTo, NextAfterKey, frame, Uncertain,
  ledger, Return, AbortWith
<1>7. Encrypt => CallInv'
  BY Zenon, CallGoes, CallEnds, CallStops DEF Encrypt, GoesTo, ledger, StorageFails, Uncertain,
  Return, AbortWith
<1>8. Record => CallInv'
  BY Zenon, CallGoes, CallEnds, CallStops DEF Record, Uncertain, GoesTo, frame, ledger, Return
<1>9. PublishObject => CallInv'
  BY Zenon, CallGoes, CallEnds, CallStops DEF PublishObject, GoesTo, frame, Uncertain, ledger,
  StorageFails, Return
<1>10. Sync => CallInv'
  BY Zenon, CallGoes, CallEnds, CallStops DEF Sync, GoesTo, frame, Uncertain, ledger, Return
<1>11. Verify => CallInv'
  BY Zenon, CallGoes, CallEnds, CallStops DEF Verify, GoesTo, ledger, frame, AbortWith,
  StorageFails, Return
<1>12. CASE Finalize
  <2>1. /\ plan # Nil /\ UNCHANGED agentUp
        /\ \/ /\ UNCHANGED <<plan, call, at, state>> /\ spoolPc' = "abortFiles"
           \/ call' = Nil /\ plan' = Nil /\ spoolPc' = (IF call = Nil THEN "reconcile" ELSE "idle")
    BY Zenon, <1>12 DEF Finalize, Return, Uncertain, AbortWith, ledger, StorageFails, GoesTo
  <2> QED
    BY Zenon, <2>1, CallGoes, CallEnds
<1>13. AbortFiles => CallInv'
  BY Zenon, CallGoes, CallEnds, CallStops DEF AbortFiles, GoesTo, frame, CallFails, ledger,
  Return
<1>14. AbortRows => CallInv'
  BY Zenon DEF CallInv, Scanning, Open, Found, ByKey, ByOrigin, AbortRows, Return, CallFails,
  StartFails
<1>15. AbortFails => CallInv'
  BY Zenon, CallGoes, CallEnds, CallStops DEF AbortFails, CallFails, ledger, Return
<1>16. RowsDone => CallInv'
  BY Zenon DEF CallInv, Scanning, Open, Found, ByKey, ByOrigin, RowsDone, ledger, frame
<1>17. MissingDone => CallInv'
  BY Zenon DEF CallInv, Scanning, Open, Found, ByKey, ByOrigin, MissingDone, ledger, frame
<1>18. Ready => CallInv'
  BY Zenon DEF CallInv, Scanning, Open, Found, ByKey, ByOrigin, Ready, OrphanObjects, ledger
<1>19. Start => CallInv'
  BY Zenon DEF CallInv, Scanning, Open, Found, ByKey, ByOrigin, Start, ledger
<1>20. SpoolCrash => CallInv'
  BY Zenon DEF CallInv, Scanning, Open, Found, ByKey, ByOrigin, SpoolCrash, ledger
<1>21. \A s \in Submissions : ReconcileRow(s) => CallInv'
  BY Zenon DEF CallInv, Scanning, Open, Found, ByKey, ByOrigin, ReconcileRow
<1>22. \A s \in Submissions : Submit(s) => CallInv'
  BY DEF CallInv, Scanning, Open, Found, ByKey, ByOrigin, Submit, ledger
<1>23. Clean \/ SpoolTick => CallInv'
  BY Zenon, CallKept DEF Clean, SpoolTick, OrphanObjects, ledger, frame
<1>24. \A s \in Submissions : FailMissing(s) \/ Replay(s) \/ Refuse(s) \/
RenderRaster(s) \/ RecordRaster(s) \/ JobEnds(s) \/ ReleaseContent(s) => CallInv'
  BY Zenon, CallKept DEF FailMissing, Replay, Refuse, RenderRaster, RecordRaster, JobEnds,
  ReleaseContent, OrphanObjects, Tell, Unused, ledger, frame
<1> QED BY Zenon, <1>1, <1>2, <1>3, <1>4, <1>5, <1>6, <1>7, <1>8, <1>9, <1>10, <1>11, <1>12,
<1>13, <1>14, <1>15, <1>16, <1>17, <1>18, <1>19, <1>20, <1>21, <1>22, <1>23, <1>24 DEF
SpoolNext, AdmissionStep

\* A step that leaves these variables alone keeps this part.
LEMMA FileKept ==
    FileInv /\ UNCHANGED <<ref, raster, unsynced, objects, printJob, sealed, spoolPc, file,
                           staged, plan, resuming>> => FileInv'
BY SMTT(30) DEF FileInv, Rows

\* The files: no step of execution, startup or another admission removes or
\* replaces the file a row of this admission names.
LEMMA FileStep ==
    ASSUME SpoolInv, SpoolNext
    PROVE  FileInv'
<1>0. /\ FileInv
      /\ ref \in [Submissions -> Refs \cup {Nil}]
      /\ raster \in [Submissions -> Refs \cup {Nil}]
      /\ staged \subseteq Refs /\ objects \subseteq Refs /\ unsynced \subseteq Refs
      /\ sealed \in [Refs -> Intents \cup {Nil}]
      /\ printJob \in [Submissions -> {"none", "accepted", "ended", "failed"}]
      /\ Nil \notin Refs /\ Nil \notin Submissions
      /\ \A s \in Submissions : printJob[s] # "none" => state[s] = "accepted"
      /\ \A s \in Submissions : artifact[s] = "delete_pending" => printJob[s] = "ended"
  BY Zenon, SpoolConstants DEF SpoolInv, SpoolTypeOK, RowInv
<1> USE <1>0, CallFacts
<1>1. Prepare => FileInv'
  BY SMTT(30) DEF FileInv, Rows, Prepare, GoesTo, Return, artifacts, files
<1>2. Resume => FileInv'
  BY SMTT(30) DEF FileInv, Rows, Resume, GoesTo, artifacts, files, frame, RemoveMissingArtifact,
  Uncertain, StorageFails, CallFails, Return, StartFails
<1>3. DataKey => FileInv'
  BY SMTT(30) DEF FileInv, Rows, DataKey, GoesTo, NextAfterKey, frame, RootUnavailable,
  Uncertain, artifacts, files, Return, StartFails
<1>4. Provision => FileInv'
  BY SMTT(30) DEF FileInv, Rows, Provision, GoesTo, frame, RootUnavailable, artifacts, files,
  Return, StartFails
<1>5. MakeCurrent => FileInv'
  BY DEF FileInv, Rows, MakeCurrent, GoesTo, frame, Uncertain, artifacts, files, Return
<1>6. Wrap => FileInv'
  BY DEF FileInv, Rows, Wrap, GoesTo, NextAfterKey, frame, Uncertain, artifacts, files,
  Return, AbortWith
<1>7. Encrypt => FileInv'
  BY SMTT(30) DEF FileInv, Rows, Encrypt, Unused, GoesTo, StorageFails, files, Uncertain,
  artifacts, Return, AbortWith
<1>8. CASE Record
  <2> USE DEF FileInv, Rows, Scanning, ledger, artifacts, keys, roots,
  files, frame, scan
  <2>1. /\ plan \in Submissions /\ file \in Refs /\ file # Nil
        /\ file \notin Rows /\ file \notin objects
    BY ZenonT(40), <1>8 DEF Record
  <2>2. CASE UNCHANGED ref /\ Uncertain
    BY SMTT(30), <1>8, <2>1, <2>2 DEF Record, Uncertain, Return
  <2>3. CASE ref' = [ref EXCEPT ![plan] = file]
    <3>1. /\ UNCHANGED <<raster, files, printJob>>
          /\ \/ spoolPc' = "publish" /\ UNCHANGED frame
             \/ spoolPc' \in {"idle", "reconcile"}
      BY Zenon, <1>8, <2>1, <2>2 DEF Record, GoesTo, Uncertain, Return
    <3>2. ref'[plan] = file /\ \A s \in Submissions \ {plan} : ref'[s] = ref[s]
      BY Zenon, <2>1, <2>3
    <3>3. printJob[plan] # "accepted" /\ ref[plan] \notin unsynced
      BY Zenon, <1>8 DEF Record
    <3>a. \A t \in Submissions : ref[t] # file /\ raster[t] # file
      BY <2>1
    <3>4. ASSUME NEW s \in Submissions, NEW t \in Submissions, ref'[s] # Nil
          PROVE  (ref'[s] = ref'[t] => s = t) /\ ref'[s] # raster'[t]
      <4>1. CASE s = plan BY Zenon, <2>1, <3>1, <3>2, <3>a, <4>1
      <4>2. CASE s # plan BY <2>1, <3>1, <3>2, <3>a, <3>4, <4>2
      <4> QED BY Zenon, <4>1, <4>2
    <3>5. unsynced' \subseteq objects' \cap {ref'[s] : s \in Submissions}
      BY <2>1, <3>1, <3>2, <3>3
    <3> QED BY <2>1, <3>1, <3>2, <3>3, <3>4, <3>5
  <2> QED BY Zenon, <1>8, <2>2, <2>3 DEF Record
<1>9. PublishObject => FileInv'
  BY SMTT(30) DEF FileInv, Rows, PublishObject, GoesTo, frame, Uncertain, StorageFails, files,
  artifacts, Return
<1>10. Sync => FileInv'
  BY DEF FileInv, Rows, Sync, GoesTo, frame, Uncertain, artifacts, Return
<1>11. Verify => FileInv'
  BY SMTT(30) DEF FileInv, Rows, Verify, GoesTo, frame, AbortWith, StorageFails, artifacts,
  files, Return
<1>12. CASE Finalize
  <2> USE DEF FileInv, Rows, Scanning, ledger, artifacts, keys, roots,
  files, frame, scan
  <2>1. /\ plan \in Submissions /\ ref[plan] \in objects
        /\ sealed[ref[plan]] = plan.intent
        /\ UNCHANGED <<ref, raster, files>>
    BY Zenon, <1>12 DEF Finalize, Publication
  <2>2. spoolPc' \in {"idle", "reconcile", "abortFiles"}
    BY Zenon, <1>12 DEF Finalize, Return, Uncertain, AbortWith, StorageFails, GoesTo
  <2>3. ASSUME NEW s \in Submissions, printJob'[s] = "accepted"
        PROVE  printJob[s] = "accepted" \/ s = plan
    BY Zenon, <1>12, <2>1, <2>3 DEF Finalize, Publication
  <2> QED BY <2>1, <2>2, <2>3
<1>13. AbortFiles => FileInv'
  BY SMTT(30) DEF FileInv, Rows, AbortFiles, Contents, GoesTo, frame, CallFails, artifacts,
  StartFails, Return
<1>14. AbortRows => FileInv'
  BY SMTT(30) DEF FileInv, Rows, AbortRows, Return, CallFails, files, StartFails
<1>15. AbortFails => FileInv'
  BY SMTT(30) DEF FileInv, Rows, AbortFails, CallFails, artifacts, files, StartFails, Return
<1>16. RowsDone => FileInv'
  BY SMTT(30) DEF FileInv, Rows, RowsDone, artifacts, files, frame
<1>17. MissingDone => FileInv'
  BY SMTT(30) DEF FileInv, Rows, MissingDone, artifacts, files, frame
<1>18. Clean => FileInv'
  BY SMTT(30) DEF FileInv, Rows, Clean, OrphanObjects, Contents, artifacts, frame
<1>19. Ready => FileInv'
  BY SMTT(30) DEF FileInv, Rows, Ready, OrphanObjects, artifacts, files
<1>20. Start => FileInv'
  BY SMTT(30) DEF FileInv, Rows, Start, artifacts, files
<1>21. SpoolCrash => FileInv'
  BY SMTT(30) DEF FileInv, Rows, SpoolCrash, files, Contents, artifacts
<1>22. \A s \in Submissions : ReconcileRow(s) => FileInv'
  BY SMTT(30) DEF FileInv, Rows, ReconcileRow, artifacts, files
<1>23. \A s \in Submissions : FailMissing(s) => FileInv'
  BY SMTT(30) DEF FileInv, Rows, FailMissing, files, frame
<1>24. \A s \in Submissions : Submit(s) => FileInv'
  BY SMTT(30) DEF FileInv, Rows, Submit, artifacts, files
<1>25. \A s \in Submissions : RenderRaster(s) => FileInv'
  BY SMTT(30) DEF FileInv, Rows, RenderRaster, OrphanObjects, Unused, artifacts, frame
<1>26. \A s \in Submissions : RecordRaster(s) => FileInv'
  BY SMTT(30) DEF FileInv, Rows, RecordRaster, OrphanObjects, files, frame
<1>27. \A s \in Submissions : JobEnds(s) => FileInv'
  BY SMTT(30) DEF FileInv, Rows, JobEnds, files, frame
<1>28. ASSUME NEW s \in Submissions, ReleaseContent(s) PROVE FileInv'
  <2> USE DEF FileInv, Rows, Scanning, ledger, artifacts, keys, roots,
  files, frame, scan
  <2>1. /\ UNCHANGED <<ref, raster, printJob, staged, spoolPc, frame>>
        /\ objects' = objects \ {ref[s], raster[s]} /\ unsynced' = unsynced \ {ref[s]}
        /\ \A f \in staged' \cup objects' : sealed'[f] = sealed[f]
    BY Zenon, <1>28 DEF ReleaseContent, Contents
  <2>2. unsynced' \subseteq objects' \cap {ref'[t] : t \in Submissions}
    BY SMTT(30), <2>1
  <2>3. ASSUME NEW t \in Submissions, printJob'[t] = "accepted", ref'[t] \in objects'
        PROVE  sealed'[ref'[t]] = t.intent
    BY Zenon, <2>1, <2>3
  <2>4. ASSUME spoolPc' = "finalize"
        PROVE  ref'[plan'] \in objects' /\ sealed'[ref'[plan']] = plan'.intent
    <3>1. /\ plan \in Submissions /\ ref[plan] \in objects /\ state[plan] = "staging"
          /\ sealed[ref[plan]] = plan.intent
      BY Zenon, <2>1, <2>4
    <3>2. plan # s
      BY Zenon, <1>28, <3>1 DEF ReleaseContent
    <3> QED BY SMTT(30), <2>1, <3>1, <3>2
  <2> QED BY SMTT(30), <2>1, <2>2, <2>3, <2>4
<1>29. SpoolTick => FileInv'
  BY Zenon, FileKept DEF SpoolTick, artifacts, files, frame
<1>30. \A s \in Submissions : Replay(s) \/ Refuse(s) => FileInv'
  BY Zenon, FileKept DEF Replay, Refuse, Tell, artifacts, files, frame
<1> QED BY Zenon, <1>1, <1>2, <1>3, <1>4, <1>5, <1>6, <1>7, <1>8, <1>9, <1>10, <1>11, <1>12,
<1>13, <1>14, <1>15, <1>16, <1>17, <1>18, <1>19, <1>20, <1>21, <1>22, <1>23, <1>24,
<1>25, <1>26, <1>27, <1>28, <1>29, <1>30 DEF SpoolNext, AdmissionStep

\* A step that leaves these variables alone keeps this part.
LEMMA KeyKept ==
    KeyInv /\ UNCHANGED <<admissionKey, jobKey, secret, printJob, spoolPc, plan, resuming>>
      => KeyInv'
BY DEF KeyInv

\* The keys: the protected store holds one secret, and every wrapped key is its.
LEMMA KeyStep ==
    ASSUME SpoolInv, SpoolNext
    PROVE  KeyInv'
<1>0. /\ KeyInv
      /\ admissionKey \in [Submissions -> 0 .. MaxSecret]
      /\ jobKey \in [Submissions -> 0 .. MaxSecret]
      /\ secret \in 0 .. MaxSecret
      /\ printJob \in [Submissions -> {"none", "accepted", "ended", "failed"}]
      /\ MaxSecret \in Nat
  BY Zenon, SpoolConstants DEF SpoolInv, SpoolTypeOK
<1> USE <1>0, CallFacts
<1>1. Prepare => KeyInv'
  BY Zenon DEF KeyInv, Prepare, GoesTo, Return, keys, roots
<1>2. Resume => KeyInv'
  BY Zenon DEF KeyInv, Resume, GoesTo, frame, Uncertain, StorageFails, CallFails, keys, roots,
  Return, StartFails
<1>3. DataKey => KeyInv'
  BY Zenon DEF KeyInv, DataKey, GoesTo, NextAfterKey, frame, RootUnavailable, Uncertain, keys,
  Return, StartFails
<1>4. Provision => KeyInv'
  BY DEF KeyInv, Provision, GoesTo, frame, RootUnavailable, keys, Return, StartFails
<1>5. MakeCurrent => KeyInv'
  BY Zenon DEF KeyInv, MakeCurrent, GoesTo, frame, Uncertain, keys, Return
<1>6. Wrap => KeyInv'
  BY Zenon DEF KeyInv, Wrap, GoesTo, NextAfterKey, frame, Uncertain, roots, Return, AbortWith
<1>7. Encrypt => KeyInv'
  BY Zenon DEF KeyInv, Encrypt, GoesTo, StorageFails, Uncertain, keys, roots, Return, AbortWith
<1>8. Record => KeyInv'
  BY Zenon DEF KeyInv, Record, Uncertain, GoesTo, frame, keys, roots, Return
<1>9. PublishObject => KeyInv'
  BY SMTT(30) DEF KeyInv, PublishObject, GoesTo, frame, Uncertain, StorageFails, keys, roots,
  Return
<1>10. Sync => KeyInv'
  BY Zenon DEF KeyInv, Sync, GoesTo, frame, Uncertain, keys, roots, Return
<1>11. Verify => KeyInv'
  BY Zenon DEF KeyInv, Verify, GoesTo, frame, AbortWith, StorageFails, keys, roots, Return
<1>12. Finalize => KeyInv'
  BY SMTT(30) DEF KeyInv, Finalize, FinalizeTime, Publication, Return, Uncertain, AbortWith,
  keys, StorageFails, roots, GoesTo
<1>13. AbortFiles => KeyInv'
  BY Zenon DEF KeyInv, AbortFiles, GoesTo, frame, CallFails, keys, roots, StartFails, Return
<1>14. AbortRows => KeyInv'
  BY Zenon DEF KeyInv, AbortRows, Return, CallFails, roots, StartFails
<1>15. AbortFails => KeyInv'
  BY Zenon DEF KeyInv, AbortFails, CallFails, keys, roots, StartFails, Return
<1>16. RowsDone => KeyInv'
  BY Zenon DEF KeyInv, RowsDone, keys, roots, frame
<1>17. MissingDone => KeyInv'
  BY Zenon DEF KeyInv, MissingDone, keys, roots, frame
<1>18. Ready => KeyInv'
  BY Zenon DEF KeyInv, Ready, OrphanObjects, keys, roots
<1>19. Start => KeyInv'
  BY Zenon DEF KeyInv, Start, keys, roots
<1>20. SpoolCrash => KeyInv'
  BY Zenon DEF KeyInv, SpoolCrash, keys, roots
<1>21. \A s \in Submissions : ReconcileRow(s) => KeyInv'
  BY Zenon DEF KeyInv, ReconcileRow, keys, roots
<1>22. ASSUME NEW s \in Submissions, FailMissing(s) PROVE KeyInv'
  <2>1. /\ UNCHANGED <<admissionKey, secret, spoolPc, plan, resuming>>
        /\ \A t \in Submissions : \/ jobKey'[t] = jobKey[t] /\ printJob'[t] = printJob[t]
                                  \/ jobKey'[t] = 0 /\ printJob'[t] = "failed"
    BY Zenon, <1>22 DEF FailMissing, roots, frame
  <2> QED
    BY Zenon, <2>1 DEF KeyInv
<1>23. \A s \in Submissions : Submit(s) => KeyInv'
  BY Zenon DEF KeyInv, Submit, keys, roots
<1>24. \A s \in Submissions : JobEnds(s) => KeyInv'
  BY DEF KeyInv, JobEnds, roots, frame
<1>25. Clean \/ SpoolTick => KeyInv'
  BY Zenon, KeyKept DEF Clean, SpoolTick, OrphanObjects, keys, roots, frame
<1>26. \A s \in Submissions : Replay(s) \/ Refuse(s) \/ RenderRaster(s) \/
RecordRaster(s) \/ ReleaseContent(s) => KeyInv'
  BY Zenon, KeyKept DEF Replay, Refuse, RenderRaster, RecordRaster, ReleaseContent,
  OrphanObjects, Tell, Unused, keys, roots, frame
<1> QED BY Zenon, <1>1, <1>2, <1>3, <1>4, <1>5, <1>6, <1>7, <1>8, <1>9, <1>10, <1>11, <1>12,
<1>13, <1>14, <1>15, <1>16, <1>17, <1>18, <1>19, <1>20, <1>21, <1>22, <1>23, <1>24,
<1>25, <1>26 DEF SpoolNext, AdmissionStep

\* A step that leaves these variables alone keeps this part.
LEMMA ScanKept ==
    ScanInv /\ UNCHANGED <<todo, state, plan, agentUp, referenced, ref, raster, staged, objects,
                           spoolPc, call, resuming>> => ScanInv'
BY DEF ScanInv, Rows

\* Startup: what reconcile has seen is either named by a row or gone.
LEMMA ScanStep ==
    ASSUME SpoolInv, SpoolNext
    PROVE  ScanInv'
<1>0. /\ ScanInv
      /\ state \in [Submissions -> {"none", "staging", "accepted", "aborted"}]
      /\ ref \in [Submissions -> Refs \cup {Nil}]
      /\ raster \in [Submissions -> Refs \cup {Nil}]
      /\ staged \subseteq Refs /\ objects \subseteq Refs /\ unsynced \subseteq Refs
      /\ todo \subseteq Submissions /\ referenced \subseteq Refs
      /\ Nil \notin Refs /\ Nil \notin Submissions
      /\ spoolPc \in {"publish", "sync"} => file = ref[plan] /\ file # Nil
      /\ spoolPc = "abort" => ref[plan] \notin staged \cup objects
  BY Zenon, SpoolConstants DEF SpoolInv, SpoolTypeOK, FileInv
<1> USE <1>0, CallFacts
<1>1. Prepare => ScanInv'
  BY Zenon DEF ScanInv, Rows, Prepare, GoesTo, ledger, Return, artifacts, files, scan
<1>2. CASE Resume
  <2>1. /\ plan \in Submissions /\ UNCHANGED <<state, raster, objects>> /\ staged' \subseteq staged
        /\ \/ UNCHANGED ref
           \/ /\ ref[plan] \notin staged \cup objects
              /\ \A s \in Submissions : ref'[s] = ref[s] \/ ref[s] = ref[plan]
    BY Zenon, <1>2 DEF Resume, ledger, artifacts, files, RemoveMissingArtifact, StorageFails
  <2>2. /\ todo' \subseteq todo /\ referenced' \subseteq referenced
        /\ \/ UNCHANGED <<todo, referenced>> /\ agentUp' = agentUp
           \/ todo' = {} /\ referenced' = {}
    BY Zenon, <1>2 DEF Resume, scan, Uncertain, StorageFails, CallFails, Return, StartFails
  <2>3. /\ spoolPc' \in {"key", "publish", "prepare", "idle", "reconcile"}
        /\ plan' = plan \/ plan' = Nil
        /\ spoolPc' \in {"key", "publish"} /\ call' = Nil => resuming'
    BY Zenon, <1>2 DEF Resume, ScanInv, GoesTo, frame, Uncertain, StorageFails, CallFails, Return, StartFails
  <2>4. \A f \in referenced' : f \in Rows' \/ f \notin staged' \cup objects'
    BY SMTT(30), <2>1, <2>2 DEF ScanInv, Rows
  <2>5. \A a \in todo' : state'[a] = "staging" /\ a # plan'
    BY Zenon, <2>1, <2>2, <2>3
  <2>6. agentUp' # "starting" => todo' = {} /\ referenced' = {}
    BY Zenon, <2>2 DEF ScanInv
  <2> QED
    BY Zenon, <2>3, <2>4, <2>5, <2>6 DEF ScanInv
<1>3. DataKey => ScanInv'
  BY SMTT(30) DEF ScanInv, Rows, DataKey, GoesTo, NextAfterKey, ledger, frame, scan,
  RootUnavailable, Uncertain, artifacts, files, Return, StartFails
<1>4. Provision => ScanInv'
  BY SMTT(30) DEF ScanInv, Rows, Provision, GoesTo, ledger, frame, scan, RootUnavailable,
  artifacts, files, Return, StartFails
<1>5. MakeCurrent => ScanInv'
  BY DEF ScanInv, Rows, MakeCurrent, GoesTo, frame, Uncertain, ledger, artifacts, files,
  scan, Return
<1>6. Wrap => ScanInv'
  BY DEF ScanInv, Rows, Wrap, GoesTo, NextAfterKey, frame, Uncertain, ledger, artifacts,
  files, scan, Return, AbortWith
<1>7. Encrypt => ScanInv'
  BY Zenon DEF ScanInv, Rows, Encrypt, Unused, GoesTo, ledger, scan, StorageFails, files,
  Uncertain, artifacts, Return, AbortWith
<1>8. Record => ScanInv'
  BY Zenon DEF ScanInv, Rows, Record, Uncertain, artifacts, GoesTo, frame, ledger, files,
  scan, Return
<1>9. PublishObject => ScanInv'
  BY SMTT(30) DEF ScanInv, Rows, PublishObject, GoesTo, frame, Uncertain, ledger, scan,
  StorageFails, files, artifacts, Return
<1>10. Sync => ScanInv'
  BY DEF ScanInv, Rows, Sync, GoesTo, frame, Uncertain, ledger, artifacts, scan, Return
<1>11. Verify => ScanInv'
  BY DEF ScanInv, Rows, Verify, GoesTo, ledger, frame, scan, AbortWith, StorageFails,
  artifacts, files, Return
<1>12. Finalize => ScanInv'
  BY SMTT(30) DEF ScanInv, Rows, Finalize, FinalizeTime, Publication, Return, Uncertain, scan,
  AbortWith, ledger, artifacts, StorageFails, files, GoesTo
<1>13. AbortFiles => ScanInv'
  BY SMTT(30) DEF ScanInv, Rows, AbortFiles, Contents, GoesTo, frame, scan, CallFails, ledger,
  artifacts, StartFails, Return
<1>14. AbortRows => ScanInv'
  BY SMTT(30) DEF ScanInv, Rows, AbortRows, Return, scan, CallFails, files, StartFails
<1>15. AbortFails => ScanInv'
  BY Zenon DEF ScanInv, Rows, AbortFails, CallFails, ledger, artifacts, files, StartFails,
  Return, scan
<1>16. RowsDone => ScanInv'
  BY DEF ScanInv, Rows, RowsDone, ledger, artifacts, files, frame, scan
<1>17. MissingDone => ScanInv'
  BY SMTT(30) DEF ScanInv, Rows, MissingDone, ledger, artifacts, files, frame, scan
<1>18. Clean => ScanInv'
  BY SMTT(30) DEF ScanInv, Rows, Clean, OrphanObjects, Contents, ledger, artifacts, frame, scan
<1>19. Ready => ScanInv'
  BY Zenon DEF ScanInv, Rows, Ready, OrphanObjects, ledger, artifacts, files
<1>20. Start => ScanInv'
  BY Zenon DEF ScanInv, Rows, Start, ledger, artifacts, files
<1>21. SpoolCrash => ScanInv'
  BY Zenon DEF ScanInv, Rows, SpoolCrash, files, Contents, ledger, artifacts
<1>22. \A s \in Submissions : ReconcileRow(s) => ScanInv'
  BY SMTT(30) DEF ScanInv, Rows, ReconcileRow, artifacts, files
<1>23. \A s \in Submissions : Submit(s) => ScanInv'
  BY Zenon DEF ScanInv, Rows, Submit, ledger, artifacts, files, scan
<1>24. \A s \in Submissions : RenderRaster(s) => ScanInv'
  BY Zenon DEF ScanInv, Rows, RenderRaster, OrphanObjects, Unused, ledger, artifacts, frame,
  scan
<1>25. \A s \in Submissions : RecordRaster(s) => ScanInv'
  BY Zenon DEF ScanInv, Rows, RecordRaster, OrphanObjects, ledger, files, frame, scan
<1>26. \A s \in Submissions : ReleaseContent(s) => ScanInv'
  BY Zenon DEF ScanInv, Rows, ReleaseContent, Contents, ledger, frame, scan
<1>27. SpoolTick => ScanInv'
  BY Zenon, ScanKept DEF SpoolTick, ledger, artifacts, files, frame, scan
<1>28. \A s \in Submissions : FailMissing(s) \/ Replay(s) \/ Refuse(s) \/ JobEnds(s) =>
ScanInv'
  BY Zenon, ScanKept DEF FailMissing, Replay, Refuse, JobEnds, Tell, ledger, artifacts, files,
  frame, scan
<1> QED BY Zenon, <1>1, <1>2, <1>3, <1>4, <1>5, <1>6, <1>7, <1>8, <1>9, <1>10, <1>11, <1>12,
<1>13, <1>14, <1>15, <1>16, <1>17, <1>18, <1>19, <1>20, <1>21, <1>22, <1>23, <1>24,
<1>25, <1>26, <1>27, <1>28 DEF SpoolNext, AdmissionStep
=============================================================================
