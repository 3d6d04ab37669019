---------------------- MODULE PhysicalExecutionProofs ----------------------
(***************************************************************************)
(* Every ledger call keeps the inductive invariant of PhysicalExecution,   *)
(* and the safety theorems that follow from it.                            *)
(***************************************************************************)
EXTENDS PhysicalExecutionSteps

USE DEF Time, Generations, Unmarked, Marked, ActivePhases, Terminal, JobStates,
        ArtifactStates, ChildStates, Alive, Ops, Points, Call

\* Preparation and deletion touch artifacts only.
LEMMA SpoolIInv ==
  ASSUME IInv, NEW c \in calls, SpoolPrepare(c) \/ SpoolRelease(c)
  PROVE  IInv'
<1> USE ConstantsAssumption DEF jobVars, attemptVars, deviceVars, envVars
<1>a. PICK next \in {"mark_prepared", "fail_before_io", "idle"} :
        /\ c.op \in {"spool_prepare", "spool_release"}
        /\ next = "mark_prepared" => c.op = "spool_prepare"
        /\ c.op = "spool_release" => next = "idle"
        /\ Continue(c, next, c.a)
        /\ UNCHANGED <<jobState, version, journal, stamp, keyWiped, attemptVars,
                       deviceVars, up, gen, result, cancelled, envVars>>
  BY Zenon DEF SpoolPrepare, SpoolRelease
<1>b. /\ c.w \in Workers /\ c.a \in Attempts /\ job[c.a] \in Jobs
      /\ pc[c.w] = c.op => claim[c.w] = c.a
  BY Zenon, <1>a, CallFacts
<1>c. original' \in [Jobs -> ArtifactStates] /\ derived' \in [Jobs -> ArtifactStates]
  <2>0. original \in [Jobs -> ArtifactStates] /\ derived \in [Jobs -> ArtifactStates]
    BY Zenon DEF IInv, TypeOK
  <2>1. CASE SpoolPrepare(c)
    BY Zenon, <1>b, <2>0, <2>1 DEF SpoolPrepare, WithRaster
  <2>2. CASE SpoolRelease(c)
    BY Zenon, <1>b, <2>0, <2>2 DEF SpoolRelease
  <2> QED
    BY Zenon, <2>1, <2>2
<1>1. TypeOK'
  <2>1. /\ pc' \in [Workers -> Points]
        /\ claim' \in [Workers -> Attempts \cup {None}]
        /\ calls' \subseteq [w : Workers, op : Ops,
                             a : Attempts \cup {None}, at : Time]
    BY Zenon, <1>a, <1>b, ContinueType DEF IInv
  <2> QED
    BY Zenon, <1>a, <1>c, <2>1 DEF IInv, TypeOK
<1>2. MarkersInv' /\ HoldsInv' /\ OutputInv'
  BY Zenon, <1>a, MarkersKept, HoldsKept, OutputKept DEF IInv
<1>3. ControlInv'
  BY Zenon, <1>a, ContinueControl
<1>4. WorkerInv'
  <2>1. pc[c.w] = c.op /\ next = "mark_prepared" => child[c.a] = "none"
    BY <1>a, <1>b DEF IInv, WorkerInv
  <2> QED
    BY Zenon, <1>a, <2>1, ContinueWorker
<1>5. IoUnderHold' /\ ConfirmedWasPrinted'
  BY Zenon, <1>a DEF IInv, IoUnderHold, ConfirmedWasPrinted
<1> QED
  BY Zenon, <1>1, <1>2, <1>3, <1>4, <1>5 DEF IInv

\* An attempt goes on to its next phase: its hold stays.
LEMMA NextPhase ==
  ASSUME IInv, NEW a \in Attempts, NEW p \in ActivePhases,
         phase[a] \in ActivePhases,
         phase' = [phase EXCEPT ![a] = p],
         UNCHANGED <<job, owner, holds>>
  PROVE  /\ HoldsInv'
         /\ phase' \in [Attempts -> ActivePhases \cup {"none", "finished", "recovered"}]
         /\ \A b \in Attempts : phase'[b] = "none" <=> phase[b] = "none"
<1>0. phase \in [Attempts -> ActivePhases \cup {"none", "finished", "recovered"}]
  BY Zenon DEF IInv, TypeOK
<1>1. \A b \in Attempts : phase'[b] \in ActivePhases <=> phase[b] \in ActivePhases
  BY Zenon, <1>0
<1>2. {b \in Attempts : phase'[b] \in ActivePhases} =
         {b \in Attempts : phase[b] \in ActivePhases}
  BY Zenon, <1>1
<1>3. HoldsInv'
  <2> HIDE DEF ActivePhases
  <2> QED
    BY <1>1, <1>2 DEF IInv, HoldsInv, HoldsMatchAttempts
<1> QED
  BY Zenon, <1>0, <1>3

\* mark_prepared.
LEMMA MarkPreparedIInv ==
  ASSUME IInv, NEW c \in calls, MarkPrepared(c)
  PROVE  IInv'
<1> USE ConstantsAssumption DEF jobVars, deviceVars, envVars
<1>a. PICK p \in {"prepared", phase[c.a]}, next \in {"start_worker", "fail_before_io"} :
        /\ c.op = "mark_prepared"
        /\ p # phase[c.a] => phase[c.a] = "claimed"
        /\ phase' = [phase EXCEPT ![c.a] = p]
        /\ Continue(c, next, c.a)
        /\ UNCHANGED <<jobVars, job, owner, lease, marked, attemptVersion, holds,
                       deviceVars, up, gen, result, cancelled, envVars>>
  BY ZenonT(40) DEF MarkPrepared, Fenced, IInv, TypeOK
<1>b. /\ c.w \in Workers /\ c.a \in Attempts /\ phase[c.a] # "none"
      /\ pc[c.w] = c.op => claim[c.w] = c.a
  BY Zenon, <1>a, CallFacts
<1>c. phase \in [Attempts -> ActivePhases \cup {"none", "finished", "recovered"}]
  BY Zenon DEF IInv, TypeOK
<1>d. /\ HoldsInv'
      /\ phase' \in [Attempts -> ActivePhases \cup {"none", "finished", "recovered"}]
      /\ \A b \in Attempts : phase'[b] = "none" <=> phase[b] = "none"
  <2>1. CASE p = phase[c.a]
    <3>1. phase' = phase
      BY Zenon, <1>a, <1>b, <1>c, <2>1
    <3>2. UNCHANGED <<job, owner, holds>>
      BY Zenon, <1>a
    <3>3. HoldsInv'
      BY <3>1, <3>2 DEF IInv, HoldsInv, HoldsMatchAttempts
    <3> QED
      BY Zenon, <1>c, <3>1, <3>3
  <2>2. CASE p # phase[c.a]
    BY Zenon, <1>a, <1>b, <2>2, NextPhase
  <2> QED
    BY Zenon, <2>1, <2>2
<1>1. TypeOK'
  <2>1. /\ pc' \in [Workers -> Points]
        /\ claim' \in [Workers -> Attempts \cup {None}]
        /\ calls' \subseteq [w : Workers, op : Ops,
                             a : Attempts \cup {None}, at : Time]
    BY Zenon, <1>a, <1>b, ContinueType DEF IInv
  <2> QED
    BY Zenon, <1>a, <1>d, <2>1, SMTT(30) DEF IInv, TypeOK
<1>2. MarkersInv'
  BY ZenonT(40), <1>a, <1>b, <1>c, <1>d DEF IInv, MarkersInv
<1>3. OutputInv'
  BY <1>a, <1>d DEF IInv, OutputInv
<1>4. ControlInv'
  BY Zenon, <1>a, <1>d, ContinueControl
<1>5. WorkerInv'
  <2>1. pc[c.w] = c.op => child[c.a] = "none"
    BY <1>a, <1>b DEF IInv, WorkerInv
  <2> QED
    BY Zenon, <1>a, <2>1, ContinueWorker
<1>6. IoUnderHold' /\ ConfirmedWasPrinted'
  BY Zenon, <1>a, <1>b, <1>c DEF IInv, IoUnderHold, ConfirmedWasPrinted
<1> QED
  BY Zenon, <1>1, <1>2, <1>3, <1>4, <1>5, <1>6, <1>d DEF IInv

\* note_permission_delivered: from here on the device may be used, under the
\* marker and the hold of the attempt.
LEMMA NotePermissionIInv ==
  ASSUME IInv, NEW c \in calls, NotePermission(c)
  PROVE  IInv'
<1> USE ConstantsAssumption DEF jobVars, envVars
<1>a. PICK p \in {"permission_delivered", phase[c.a]},
           s \in {"permitted", child[c.a]}, next \in {"execute", "abort"} :
        /\ c.op = "note_permission"
        /\ p # phase[c.a] => phase[c.a] = "marker_committed"
        /\ s # child[c.a] => /\ child[c.a] = "ready" /\ p = "permission_delivered"
                             /\ phase[c.a] = "marker_committed" /\ owner[c.a] = gen
        /\ phase' = [phase EXCEPT ![c.a] = p]
        /\ child' = [child EXCEPT ![c.a] = s]
        /\ Continue(c, next, c.a)
        /\ UNCHANGED <<jobVars, job, owner, lease, marked, attemptVersion, holds,
                       printed, up, gen, result, cancelled, envVars>>
  BY SMTT(30) DEF NotePermission, Fenced, IInv, TypeOK
<1>b. /\ c.w \in Workers /\ c.a \in Attempts /\ phase[c.a] # "none"
      /\ pc[c.w] = c.op => claim[c.w] = c.a
  BY Zenon, <1>a, CallFacts
<1>c. /\ phase \in [Attempts -> ActivePhases \cup {"none", "finished", "recovered"}]
      /\ child \in [Attempts -> ChildStates]
  BY Zenon DEF IInv, TypeOK
<1>d. /\ HoldsInv'
      /\ phase' \in [Attempts -> ActivePhases \cup {"none", "finished", "recovered"}]
      /\ \A b \in Attempts : phase'[b] = "none" <=> phase[b] = "none"
  <2>1. CASE p = phase[c.a]
    <3>1. phase' = phase
      BY Zenon, <1>a, <1>b, <1>c, <2>1
    <3>2. UNCHANGED <<job, owner, holds>>
      BY Zenon, <1>a
    <3>3. HoldsInv'
      BY <3>1, <3>2 DEF IInv, HoldsInv, HoldsMatchAttempts
    <3> QED
      BY Zenon, <1>c, <3>1, <3>3
  <2>2. CASE p # phase[c.a]
    BY Zenon, <1>a, <1>b, <2>2, NextPhase
  <2> QED
    BY Zenon, <2>1, <2>2
<1>e. s # child[c.a] => c.a \in marked /\ <<job[c.a], owner[c.a]>> \in holds
  BY Zenon, <1>a, <1>b DEF IInv, MarkersInv, HoldsInv, HoldsMatchAttempts
<1>1. TypeOK'
  <2>1. /\ pc' \in [Workers -> Points]
        /\ claim' \in [Workers -> Attempts \cup {None}]
        /\ calls' \subseteq [w : Workers, op : Ops,
                             a : Attempts \cup {None}, at : Time]
    BY Zenon, <1>a, <1>b, ContinueType DEF IInv
  <2>2. child' \in [Attempts -> ChildStates]
    BY Zenon, <1>a, <1>b, <1>c
  <2> QED
    BY Zenon, <1>a, <1>d, <2>1, <2>2, SMTT(30) DEF IInv, TypeOK
<1>2. MarkersInv'
  BY <1>a, <1>b, <1>c, <1>d, SMTT(30) DEF IInv, MarkersInv
<1>3. OutputInv'
  <2>1. ASSUME NEW b \in Attempts
        PROVE  /\ phase'[b] = "none" => child'[b] = "none"
               /\ child'[b] \in {"permitted", "printed", "confirmed", "unknown"} =>
                     b \in marked'
               /\ child'[b] \in {"printed", "confirmed"} => printed'[job'[b]] = 1
    BY <1>a, <1>b, <1>c, <1>d, <1>e DEF IInv, OutputInv
  <2>2. ASSUME NEW j \in Jobs
        PROVE  /\ printed'[j] \in {0, 1}
               /\ printed'[j] = 1 => \E b \in Attempts :
                     /\ job'[b] = j /\ b \in marked'
                     /\ child'[b] \in {"printed", "confirmed", "unknown", "gone"}
    <3>1. \A b \in Attempts : child[b] \in {"printed", "confirmed", "unknown", "gone"}
                                 => child'[b] = child[b]
      BY Zenon, <1>a, <1>c
    <3> QED
      BY Zenon, <1>a, <3>1 DEF IInv, OutputInv
  <2> QED
    BY Zenon, <2>1, <2>2 DEF OutputInv
<1>4. ControlInv'
  BY Zenon, <1>a, <1>d, ContinueControl
<1>5. WorkerInv'
  <2>1. \A b \in Attempts : child[b] \in {"none", "gone"} => child'[b] = child[b]
    BY Zenon, <1>a, <1>c
  <2> QED
    BY Zenon, <1>a, <2>1, ContinueWorker
<1>6. IoUnderHold' /\ ConfirmedWasPrinted'
  <2>1. ConfirmedWasPrinted'
    BY Zenon, <1>a DEF IInv, ConfirmedWasPrinted
  <2>2. ASSUME NEW b \in Attempts, up # "down", owner[b] = gen,
               child'[b] \in {"permitted", "printed"}
        PROVE  phase'[b] = "permission_delivered" /\ <<job[b], gen>> \in holds
    <3>1. CASE b = c.a /\ s # child[c.a]
      BY Zenon, <1>a, <1>b, <1>c, <1>e, <2>2, <3>1
    <3>2. CASE b # c.a \/ s = child[c.a]
      BY Zenon, <1>a, <1>b, <1>c, <2>2, <3>2, SMTT(30) DEF IInv, IoUnderHold
    <3> QED
      BY Zenon, <3>1, <3>2
  <2> QED
    BY Zenon, <1>a, <2>1, <2>2 DEF IoUnderHold
<1> QED
  BY Zenon, <1>1, <1>2, <1>3, <1>4, <1>5, <1>6, <1>d DEF IInv

\* A call that the ledger refuses leaves every row as it was.
LEMMA RefusedCall ==
  ASSUME IInv, NEW c \in calls, c.op # "claim_next",
         NEW next \in {"fail_before_io", "cleanup", "abandon", "idle"},
         c.op \in {"spool_release", "abandon"} => next = "idle",
         next = "abandon" <=> c.op = "finish",
         Continue(c, next, c.a),
         UNCHANGED <<jobVars, attemptVars, deviceVars, up, gen, result, cancelled,
                     envVars>>
  PROVE  IInv'
<1> USE ConstantsAssumption DEF jobVars, attemptVars, deviceVars, envVars
<1>0. c.a \in Attempts /\ (pc[c.w] = c.op => claim[c.w] = c.a)
  BY Zenon, CallFacts
<1>1. TypeOK'
  <2>1. /\ pc' \in [Workers -> Points]
        /\ claim' \in [Workers -> Attempts \cup {None}]
        /\ calls' \subseteq [w : Workers, op : Ops,
                             a : Attempts \cup {None}, at : Time]
    BY Zenon, <1>0, ContinueType DEF IInv
  <2> QED
    BY Zenon, <2>1, SMTT(30) DEF IInv, TypeOK
<1>2. MarkersInv' /\ HoldsInv' /\ OutputInv'
  BY Zenon, MarkersKept, HoldsKept, OutputKept DEF IInv
<1>3. ControlInv'
  BY Zenon, ContinueControl
<1>4. WorkerInv'
  <2>1. next = "abandon" => child[c.a] = "gone"
    BY Zenon DEF IInv, WorkerInv
  <2> QED
    BY Zenon, <2>1, ContinueWorker
<1>5. IoUnderHold' /\ ConfirmedWasPrinted'
  BY Zenon DEF IInv, IoUnderHold, ConfirmedWasPrinted
<1> QED
  BY Zenon, <1>1, <1>2, <1>3, <1>4, <1>5 DEF IInv

\* A call that ends its attempt and publishes the state of its job.
LEMMA EndingCall ==
  ASSUME IInv, NEW c \in calls,
         c.op \in {"fail_before_io", "finish", "abandon"},
         NEW next \in {"cleanup", "spool_release", "idle"},
         c.op = "abandon" => next = "idle",
         next = "spool_release" <=> c.op = "finish",
         Continue(c, next, c.a),
         NEW p \in {"finished", "recovered"}, NEW s \in JobStates,
         Publish([i \in {job[c.a]} |-> s], c.at),
         phase[c.a] \in ActivePhases,
         phase' = [phase EXCEPT ![c.a] = p],
         holds' = Released(c.a),
         child[c.a] \notin {"permitted", "printed"},
         c.a \in marked => s \in {"outcome_unknown", "output_confirmed"},
         c.a \notin marked => jobState[job[c.a]] = "accepted",
         s = "output_confirmed" => printed[job[c.a]] = 1,
         UNCHANGED <<job, owner, lease, marked, attemptVersion, deviceVars, up,
                     gen, result, cancelled, envVars>>
  PROVE  IInv'
<1> USE ConstantsAssumption DEF deviceVars, envVars
<1>0. /\ c.w \in Workers /\ c.a \in Attempts /\ c.at \in Time /\ job[c.a] \in Jobs
      /\ pc[c.w] = c.op => claim[c.w] = c.a
  BY Zenon, CallFacts
<1>1. /\ jobState' = [jobState EXCEPT ![job[c.a]] = s]
      /\ version' \in [Jobs -> Nat]
      /\ journal' \in [Jobs -> Seq(JobStates)]
      /\ stamp' \in [Jobs -> Time]
      /\ original' \in [Jobs -> ArtifactStates]
      /\ derived' \in [Jobs -> ArtifactStates]
      /\ keyWiped' \subseteq Jobs
  BY Zenon, <1>0, PublishOne DEF IInv
<1>2. /\ phase \in [Attempts -> ActivePhases \cup {"none", "finished", "recovered"}]
      /\ jobState \in [Jobs -> JobStates]
      /\ holds \subseteq Jobs \X Generations
  BY Zenon DEF IInv, TypeOK
<1>3. TypeOK'
  <2>1. /\ pc' \in [Workers -> Points]
        /\ claim' \in [Workers -> Attempts \cup {None}]
        /\ calls' \subseteq [w : Workers, op : Ops,
                             a : Attempts \cup {None}, at : Time]
    BY Zenon, <1>0, ContinueType DEF IInv
  <2>2. /\ phase' \in [Attempts -> ActivePhases \cup {"none", "finished", "recovered"}]
        /\ jobState' \in [Jobs -> JobStates]
        /\ holds' \subseteq Jobs \X Generations
    BY Zenon, <1>0, <1>1, <1>2 DEF Released
  <2> QED
    BY Zenon, <1>1, <2>1, <2>2 DEF IInv, TypeOK
<1>4. MarkersInv' /\ HoldsInv' /\ OutputInv' /\ IoUnderHold' /\ ConfirmedWasPrinted'
  BY Zenon, <1>0, <1>1, EndAttempt
<1>5. ControlInv'
  <2>1. \A b \in Attempts : phase[b] # "none" => phase'[b] # "none"
    BY Zenon, <1>2
  <2> QED
    BY Zenon, <2>1, ContinueControl
<1>6. WorkerInv'
  <2>1. next = "spool_release" => child[c.a] = "gone"
    BY Zenon DEF IInv, WorkerInv
  <2> QED
    BY Zenon, <2>1, ContinueWorker
<1> QED
  BY Zenon, <1>3, <1>4, <1>5, <1>6 DEF IInv

\* fail_before_io: no marker, hence no process with a permit.
LEMMA FailBeforeIoIInv ==
  ASSUME IInv, NEW c \in calls, FailBeforeIo(c)
  PROVE  IInv'
<1> USE DEF jobVars, attemptVars, deviceVars, envVars
<1>0. /\ c.op = "fail_before_io" /\ Continue(c, "cleanup", c.a)
      /\ UNCHANGED <<job, owner, lease, marked, attemptVersion, deviceVars, up,
                     gen, result, cancelled, envVars>>
  BY Zenon DEF FailBeforeIo
<1>1. c.a \in Attempts /\ job[c.a] \in Jobs
  BY Zenon, <1>0, CallFacts
<1>2. CASE Fenced(c.a, c.at, Unmarked) /\ JobIs(c.a, "accepted")
  <2> DEFINE s == IF Deadline[job[c.a]] <= c.at THEN "expired" ELSE "failed"
  <2>1. phase[c.a] \in Unmarked /\ jobState[job[c.a]] = "accepted"
    BY Zenon, <1>2 DEF Fenced, JobIs
  <2>2. c.a \notin marked
    BY Zenon, <1>1, <2>1 DEF IInv, MarkersInv
  <2>3. child[c.a] \notin {"permitted", "printed"}
    BY Zenon, <1>1, <2>2 DEF IInv, OutputInv
  <2>4. /\ Publish([i \in {job[c.a]} |-> IF Deadline[i] <= c.at
                                         THEN "expired" ELSE "failed"], c.at)
        /\ phase' = [phase EXCEPT ![c.a] = "finished"]
        /\ holds' = Released(c.a)
    BY Zenon, <1>2 DEF FailBeforeIo
  <2>5. [i \in {job[c.a]} |-> IF Deadline[i] <= c.at THEN "expired" ELSE "failed"]
           = [i \in {job[c.a]} |-> s]
    BY Zenon
  <2>6. s \in JobStates /\ s # "output_confirmed"
    BY Zenon
  <2>7. Publish([i \in {job[c.a]} |-> s], c.at)
    BY Zenon, <2>4, <2>5
  <2> HIDE DEF s
  <2> QED
    BY Zenon, <1>0, <2>1, <2>2, <2>3, <2>4, <2>6, <2>7, EndingCall
<1>3. CASE ~(Fenced(c.a, c.at, Unmarked) /\ JobIs(c.a, "accepted"))
  <2>1. UNCHANGED <<jobVars, phase, holds>>
    BY Zenon, <1>3 DEF FailBeforeIo
  <2> QED
    BY Zenon, <1>0, <2>1, RefusedCall
<1> QED
  BY Zenon, <1>2, <1>3

\* finish: the process has ended, and a confirmation follows output.
LEMMA FinishIInv ==
  ASSUME IInv, NEW c \in calls, Finish(c)
  PROVE  IInv'
<1> USE DEF jobVars, attemptVars, deviceVars, envVars
<1>0. /\ c.op = "finish"
      /\ UNCHANGED <<job, owner, lease, marked, attemptVersion, deviceVars, up,
                     gen, result, cancelled, envVars>>
  BY Zenon DEF Finish
<1>1. c.a \in Attempts /\ job[c.a] \in Jobs
  BY Zenon, <1>0, CallFacts
<1>2. CASE Fenced(c.a, c.at, {"permission_delivered"}) /\ JobIs(c.a, "in_progress")
  <2>1. /\ phase[c.a] = "permission_delivered"
        /\ phase' = [phase EXCEPT ![c.a] = "finished"]
        /\ holds' = Released(c.a)
        /\ Continue(c, "spool_release", c.a)
    BY Zenon, <1>2 DEF Finish, Fenced
  <2>2. PICK s \in ResultStates(result[c.w]) : Publish([i \in {job[c.a]} |-> s], c.at)
    BY Zenon, <1>2 DEF Finish
  <2>3. /\ s \in {"outcome_unknown", "output_confirmed"}
        /\ s = "output_confirmed" => result[c.w] = "confirmed"
    BY Zenon DEF ResultStates
  <2>4. /\ child[c.a] = "gone"
        /\ result[c.w] = "confirmed" => printed[job[c.a]] = 1
    BY Zenon, <1>0 DEF IInv, WorkerInv
  <2>5. c.a \in marked
    BY Zenon, <1>1, <2>1 DEF IInv, MarkersInv
  <2>6. child[c.a] \notin {"permitted", "printed"}
    BY Zenon, <2>4
  <2> QED
    BY Zenon, <1>0, <2>1, <2>2, <2>3, <2>4, <2>5, <2>6, EndingCall
<1>3. CASE ~(Fenced(c.a, c.at, {"permission_delivered"}) /\ JobIs(c.a, "in_progress"))
  <2>1. Continue(c, "abandon", c.a) /\ UNCHANGED <<jobVars, phase, holds>>
    BY Zenon, <1>3 DEF Finish
  <2> QED
    BY Zenon, <1>0, <2>1, RefusedCall
<1> QED
  BY Zenon, <1>2, <1>3

\* abandon_after_marker: the process has ended.
LEMMA AbandonIInv ==
  ASSUME IInv, NEW c \in calls, AbandonAfterMarker(c)
  PROVE  IInv'
<1> USE DEF jobVars, attemptVars, deviceVars, envVars
<1>0. /\ c.op = "abandon" /\ Continue(c, "idle", c.a)
      /\ UNCHANGED <<job, owner, lease, marked, attemptVersion, deviceVars, up,
                     gen, result, cancelled, envVars>>
  BY Zenon DEF AbandonAfterMarker
<1>1. c.a \in Attempts /\ job[c.a] \in Jobs
  BY Zenon, <1>0, CallFacts
<1>2. CASE Abandonable(c.a, c.at) /\ jobState[job[c.a]] = "in_progress"
  <2>1. /\ phase[c.a] \in Marked
        /\ Publish([i \in {job[c.a]} |-> "outcome_unknown"], c.at)
        /\ phase' = [phase EXCEPT ![c.a] = "recovered"]
        /\ holds' = Released(c.a)
    BY Zenon, <1>2 DEF AbandonAfterMarker, Abandonable
  <2>2. child[c.a] = "gone"
    BY Zenon, <1>0 DEF IInv, WorkerInv
  <2>3. c.a \in marked
    BY Zenon, <1>1, <2>1 DEF IInv, MarkersInv
  <2> QED
    BY Zenon, <1>0, <2>1, <2>2, <2>3, EndingCall
<1>3. CASE ~(Abandonable(c.a, c.at) /\ jobState[job[c.a]] = "in_progress")
  <2>1. UNCHANGED <<jobVars, phase, holds>>
    BY Zenon, <1>3 DEF AbandonAfterMarker
  <2> QED
    BY Zenon, <1>0, <2>1, RefusedCall
<1> QED
  BY Zenon, <1>2, <1>3

\* mark_io_started: the marker goes to an attempt whose job was accepted, so no
\* other attempt of the job has one.
LEMMA MarkIoStartedIInv ==
  ASSUME IInv, NEW c \in calls, MarkIoStarted(c)
  PROVE  IInv'
<1> USE ConstantsAssumption DEF jobVars, attemptVars, deviceVars, envVars
<1>0. /\ c.op = "mark_io_started"
      /\ UNCHANGED <<job, owner, lease, holds, deviceVars, up, gen, result,
                     cancelled, envVars>>
  BY Zenon DEF MarkIoStarted
<1>1. /\ c.w \in Workers /\ c.a \in Attempts /\ c.at \in Time /\ job[c.a] \in Jobs
      /\ pc[c.w] = c.op => claim[c.w] = c.a
  BY Zenon, <1>0, CallFacts
<1>2. CASE /\ Fenced(c.a, c.at, {"prepared"}) /\ JobIs(c.a, "accepted")
           /\ Publish([i \in {job[c.a]} |-> "in_progress"], c.at)
           /\ phase' = [phase EXCEPT ![c.a] = "marker_committed"]
           /\ marked' = marked \cup {c.a}
           /\ attemptVersion' = [attemptVersion EXCEPT ![c.a] = @ + 1]
           /\ Continue(c, "note_permission", c.a)
  <2>1. phase[c.a] = "prepared" /\ jobState[job[c.a]] = "accepted"
    BY Zenon, <1>2 DEF Fenced, JobIs
  <2>2. /\ jobState' = [jobState EXCEPT ![job[c.a]] = "in_progress"]
        /\ version' \in [Jobs -> Nat]
        /\ journal' \in [Jobs -> Seq(JobStates)]
        /\ stamp' \in [Jobs -> Time]
        /\ original' \in [Jobs -> ArtifactStates]
        /\ derived' \in [Jobs -> ArtifactStates]
        /\ keyWiped' \subseteq Jobs
    BY Zenon, <1>1, <1>2, PublishOne DEF IInv
  <2>3. \A b \in Attempts : b \in marked => job[b] # job[c.a] /\ job[b] \in Jobs
    BY Zenon, <2>1 DEF IInv, MarkersInv
  <2>4. c.a \notin marked /\ child[c.a] \notin {"permitted", "printed"}
    BY Zenon, <1>1, <2>3 DEF IInv, OutputInv
  <2>5. /\ HoldsInv'
        /\ phase' \in [Attempts -> ActivePhases \cup {"none", "finished", "recovered"}]
        /\ \A b \in Attempts : phase'[b] = "none" <=> phase[b] = "none"
    BY Zenon, <1>0, <1>1, <1>2, <2>1, NextPhase
  <2>6. /\ phase \in [Attempts -> ActivePhases \cup {"none", "finished", "recovered"}]
        /\ jobState \in [Jobs -> JobStates]
    BY Zenon DEF IInv, TypeOK
  <2>7. TypeOK'
    <3>1. /\ pc' \in [Workers -> Points]
          /\ claim' \in [Workers -> Attempts \cup {None}]
          /\ calls' \subseteq [w : Workers, op : Ops,
                               a : Attempts \cup {None}, at : Time]
      BY Zenon, <1>1, <1>2, ContinueType DEF IInv
    <3>2. attemptVersion' \in [Attempts -> Nat]
      BY SMTT(30), <1>1, <1>2 DEF IInv, TypeOK
    <3>3. jobState' \in [Jobs -> JobStates] /\ marked' \subseteq Attempts
      BY SMTT(30), <1>1, <1>2, <2>2, <2>6 DEF IInv, TypeOK
    <3> QED
      BY Zenon, <1>0, <2>2, <2>5, <3>1, <3>2, <3>3 DEF IInv, TypeOK
  <2>8. MarkersInv'
    <3>1. ASSUME NEW b \in Attempts
          PROVE  /\ phase'[b] = "none" => b \notin marked' /\ owner'[b] = 0
                 /\ phase'[b] # "none" => job'[b] \in Jobs /\ owner'[b] \in Generations
      BY Zenon, <1>0, <1>1, <1>2, <2>1, <2>5 DEF IInv, MarkersInv
    <3>2. ASSUME NEW b \in Attempts
          PROVE  /\ phase'[b] \in Marked =>
                       b \in marked' /\ jobState'[job'[b]] = "in_progress"
                 /\ b \in marked' =>
                       jobState'[job'[b]] \in {"in_progress", "outcome_unknown",
                                               "output_confirmed"}
      <4>1. CASE b = c.a
        BY Zenon, <1>0, <1>1, <1>2, <2>2, <2>6, <4>1
      <4>2. CASE b # c.a
        <5>1. /\ phase'[b] = phase[b] /\ (b \in marked' <=> b \in marked)
              /\ job'[b] = job[b]
          BY Zenon, <1>0, <1>2, <2>6, <4>2
        <5>2. phase[b] \in Marked \/ b \in marked =>
                 b \in marked /\ jobState'[job[b]] = jobState[job[b]]
          BY Zenon, <2>2, <2>3, <2>6 DEF IInv, MarkersInv
        <5> QED
          BY Zenon, <5>1, <5>2 DEF IInv, MarkersInv
      <4> QED
        BY Zenon, <4>1, <4>2
    <3>3. \A b, d \in Attempts : b \in marked' /\ d \in marked' /\ job'[b] = job'[d] => b = d
      BY Zenon, <1>0, <1>2, <2>3 DEF IInv, MarkersInv
    <3> QED
      BY Zenon, <3>1, <3>2, <3>3 DEF MarkersInv
  <2>9. OutputInv'
    BY <1>0, <1>2, <2>5 DEF IInv, OutputInv
  <2>10. ControlInv'
    BY <1>0, <1>2, <2>5, ContinueControl
  <2>11. WorkerInv'
    BY <1>0, <1>2, ContinueWorker, SMTT(30)
  <2>12. IoUnderHold' /\ ConfirmedWasPrinted'
    <3>1. ConfirmedWasPrinted'
      BY Zenon, <1>0, <1>1, <2>2, <2>6 DEF IInv, ConfirmedWasPrinted
    <3>2. \A b \in Attempts : b # c.a => phase'[b] = phase[b]
      BY Zenon, <1>2, <2>6
    <3>3. IoUnderHold'
      BY Zenon, <1>0, <2>4, <3>2 DEF IInv, IoUnderHold
    <3> QED
      BY Zenon, <3>1, <3>3
  <2> QED
    BY Zenon, <2>5, <2>7, <2>8, <2>9, <2>10, <2>11, <2>12 DEF IInv
<1>3. CASE \E next \in {"fail_before_io", "cleanup"} :
              /\ Continue(c, next, c.a)
              /\ UNCHANGED <<jobVars, phase, marked, attemptVersion>>
  BY Zenon, <1>0, <1>3, RefusedCall
<1> QED
  BY Zenon, <1>2, <1>3 DEF MarkIoStarted

\* The end of claim_next: its coroutine is the only one to drive the new
\* attempt, and it left no other call behind.
LEMMA ClaimControl ==
  ASSUME IInv, NEW c \in calls, c.op = "claim_next",
         NEW next \in {"idle", "spool_prepare"}, NEW a \in Attempts \cup {None},
         Continue(c, next, a),
         next = "spool_prepare" => /\ a \in Attempts /\ phase[a] = "none"
                                   /\ phase'[a] # "none" /\ child[a] = "none",
         \A b \in Attempts : phase[b] # "none" =>
            phase'[b] # "none" /\ job'[b] = job[b],
         UNCHANGED <<up, cancelled, result, child, printed>>
  PROVE  ControlInv' /\ WorkerInv'
<1> USE ConstantsAssumption
<1>0. /\ c.w \in Workers /\ c.a = None /\ up # "down"
      /\ \A d \in calls : d.w = c.w => d = c
      /\ pc[c.w] = "claim_next" => c.w \notin cancelled
  BY SMTT(30) DEF IInv, TypeOK, ControlInv
<1>b. /\ \A v \in Workers : claim[v] # None =>
            claim[v] \in Attempts /\ phase[claim[v]] # "none"
      /\ \A d \in calls : d.a # None => d.a \in Attempts /\ phase[d.a] # "none"
  BY SMTT(30) DEF IInv, TypeOK, ControlInv
<1>1. CASE pc[c.w] # c.op
  <2>1. calls' = calls \ {c} /\ pc' = pc /\ claim' = claim
    BY Zenon, <1>1 DEF Continue
  <2>2. ControlInv'
    BY <1>0, <1>b, <2>1, SMTT(30) DEF IInv, TypeOK, ControlInv
  <2>3. WorkerInv'
    <3>1. ASSUME NEW v \in Workers
          PROVE  /\ pc'[v] \in {"spool_prepare", "mark_prepared", "start_worker"} =>
                       child'[claim'[v]] = "none"
                 /\ pc'[v] \in {"finish", "spool_release", "abandon"} =>
                       child'[claim'[v]] = "gone"
                 /\ pc'[v] \in {"close", "finish"} /\ result'[v] = "confirmed" =>
                       printed'[job'[claim'[v]]] = 1
      <4>1. pc[v] \in {"close", "finish"} => claim[v] \in Attempts /\ phase[claim[v]] # "none"
        BY Zenon, Driving
      <4> QED
        BY ZenonT(40), <2>1, <4>1 DEF IInv, WorkerInv
    <3>2. ASSUME NEW d \in calls'
          PROVE  /\ d.op \in {"finish", "spool_release", "abandon"} =>
                       child'[d.a] = "gone"
                 /\ d.op = "finish" =>
                       /\ pc'[d.w] \in {"finish", "spool_release", "abandon", "idle"}
                       /\ result'[d.w] = "confirmed" => printed'[job'[d.a]] = 1
      <4>1. d \in calls /\ (d.op = "finish" => d.a # None)
        BY Zenon, <2>1 DEF IInv, ControlInv
      <4> QED
        BY Zenon, <1>b, <2>1, <4>1 DEF IInv, WorkerInv
    <3> QED
      BY Zenon, <3>1, <3>2 DEF WorkerInv
  <2> QED
    BY Zenon, <2>2, <2>3
<1>2. CASE pc[c.w] = c.op
  <2>a. /\ pc' = [pc EXCEPT ![c.w] = next]
        /\ claim' = [claim EXCEPT ![c.w] = IF next = "idle" THEN None ELSE a]
        /\ calls' = (calls \ {c}) \cup
                    (IF next \in Ops THEN {Call(c.w, next, a, now)} ELSE {})
    BY Zenon, <1>2 DEF Continue
  <2>b. /\ pc \in [Workers -> Points] /\ claim \in [Workers -> Attempts \cup {None}]
        /\ \A d \in calls : d.w \in Workers /\ d.op \in Ops
    BY SMTT(30) DEF IInv, TypeOK
  <2>c. \A v \in Workers : v # c.w => pc'[v] = pc[v] /\ claim'[v] = claim[v]
    BY Zenon, <2>a, <2>b
  <2>d. pc'[c.w] = next /\ claim'[c.w] = IF next = "idle" THEN None ELSE a
    BY Zenon, <1>0, <2>a, <2>b
  <2>e. \A d \in calls' : \/ d \in calls /\ d.w # c.w
                          \/ next = "spool_prepare" /\ d = Call(c.w, next, a, now)
    BY Zenon, <1>0, <2>a
  <2>1. cancelled' # {} => up' = "stopping"
    BY Zenon DEF IInv, ControlInv
  <2>2. ASSUME NEW v \in Workers
        PROVE  /\ pc'[v] \in {"idle", "scheduled", "claim_next"} <=> claim'[v] = None
               /\ claim'[v] # None => phase'[claim'[v]] # "none"
               /\ v \in cancelled' => pc'[v] \notin {"scheduled", "claim_next"}
               /\ \A u \in Workers : claim'[v] = claim'[u] /\ claim'[v] # None => v = u
    BY <1>b, <2>c, <2>d, SMTT(30) DEF IInv, ControlInv
  <2>3. ASSUME NEW d \in calls'
        PROVE  /\ d.op = "claim_next" <=> d.a = None
               /\ d.a # None => phase'[d.a] # "none"
               /\ claim'[d.w] \in {None, d.a}
               /\ d.op = "claim_next" =>
                    /\ pc'[d.w] \in {"claim_next", "idle"}
                    /\ \A e \in calls' : e.w = d.w => e = d
               /\ pc'[d.w] = d.op \/ (up' = "stopping" /\ d.w \in cancelled')
               /\ \A e \in calls' : e.w = d.w => e = d \/ d.w \in cancelled'
    <3>1. CASE d \in calls /\ d.w # c.w
      <4>1. pc'[d.w] = pc[d.w] /\ claim'[d.w] = claim[d.w]
        BY Zenon, <2>b, <2>c, <3>1
      <4>2. \A e \in calls' : e.w = d.w => e \in calls
        BY <2>e, <3>1
      <4> QED
        BY ZenonT(90), <1>b, <3>1, <4>1, <4>2 DEF IInv, ControlInv
    <3>2. CASE next = "spool_prepare" /\ d = Call(c.w, next, a, now)
      <4>1. \A e \in calls' : e.w = d.w => e = d
        BY Zenon, <2>e, <3>2
      <4> QED
        BY Zenon, <2>d, <3>2, <4>1
    <3> QED
      BY Zenon, <2>e, <2>3, <3>1, <3>2
  <2>4. ControlInv'
    BY Zenon, <1>0, <2>1, <2>2, <2>3 DEF ControlInv
  <2>5. ASSUME NEW v \in Workers
        PROVE  /\ pc'[v] \in {"spool_prepare", "mark_prepared", "start_worker"} =>
                     child'[claim'[v]] = "none"
               /\ pc'[v] \in {"finish", "spool_release", "abandon"} =>
                     child'[claim'[v]] = "gone"
               /\ pc'[v] \in {"close", "finish"} /\ result'[v] = "confirmed" =>
                     printed'[job'[claim'[v]]] = 1
    <3>1. CASE v = c.w
      BY Zenon, <2>d, <3>1
    <3>2. CASE v # c.w
      <4>1. pc[v] \in {"close", "finish"} => claim[v] \in Attempts /\ phase[claim[v]] # "none"
        BY Zenon, Driving
      <4> QED
        BY SMTT(30), <2>c, <3>2, <4>1 DEF IInv, WorkerInv
    <3> QED
      BY Zenon, <3>1, <3>2
  <2>6. ASSUME NEW d \in calls'
        PROVE  /\ d.op \in {"finish", "spool_release", "abandon"} =>
                     child'[d.a] = "gone"
               /\ d.op = "finish" =>
                     /\ pc'[d.w] \in {"finish", "spool_release", "abandon", "idle"}
                     /\ result'[d.w] = "confirmed" => printed'[job'[d.a]] = 1
    <3>1. CASE d \in calls /\ d.w # c.w
      <4>1. pc'[d.w] = pc[d.w] /\ (d.op = "finish" => d.a # None)
        BY Zenon, <2>b, <2>c, <3>1 DEF IInv, ControlInv
      <4> QED
        BY ZenonT(40), <1>b, <3>1, <4>1 DEF IInv, WorkerInv
    <3> QED
      BY <2>e, <2>6, <3>1
  <2>7. WorkerInv'
    BY Zenon, <2>5, <2>6 DEF WorkerInv
  <2> QED
    BY Zenon, <2>4, <2>7
<1> QED
  BY Zenon, <1>1, <1>2

\* Accepted jobs that expire have no marker, so nothing but their rows changes.
LEMMA ExpiryKeepsMarkers ==
  ASSUME IInv, NEW S \in SUBSET Jobs, NEW t \in Time,
         \A j \in S : jobState[j] = "accepted",
         Publish([i \in S |-> "expired"], t)
  PROVE  /\ jobState' \in [Jobs -> JobStates]
         /\ version' \in [Jobs -> Nat]
         /\ journal' \in [Jobs -> Seq(JobStates)]
         /\ stamp' \in [Jobs -> Time]
         /\ original' \in [Jobs -> ArtifactStates]
         /\ derived' \in [Jobs -> ArtifactStates]
         /\ keyWiped' \subseteq Jobs
         /\ \A j \in Jobs : jobState[j] # "accepted" => jobState'[j] = jobState[j]
         /\ \A j \in Jobs : jobState'[j] \in {"expired", jobState[j]}
<1>1. [i \in S |-> "expired"] \in [S -> JobStates]
  BY Zenon
<1>2. /\ jobState' \in [Jobs -> JobStates]
      /\ version' \in [Jobs -> Nat]
      /\ journal' \in [Jobs -> Seq(JobStates)]
      /\ stamp' \in [Jobs -> Time]
      /\ original' \in [Jobs -> ArtifactStates]
      /\ derived' \in [Jobs -> ArtifactStates]
      /\ keyWiped' \subseteq Jobs
      /\ \A j \in Jobs : jobState'[j] = IF j \in S THEN [i \in S |-> "expired"][j]
                                                   ELSE jobState[j]
  BY Zenon, <1>1, PublishType DEF IInv
<1> QED
  BY Zenon, <1>2

\* claim_next: a claim takes a free device; a scan that claims nothing only
\* expires jobs.
LEMMA ClaimNextIInv ==
  ASSUME IInv, NEW c \in calls, ClaimNext(c)
  PROVE  IInv'
<1> USE ConstantsAssumption DEF jobVars, attemptVars, deviceVars, envVars
<1>0. /\ c.op = "claim_next"
      /\ UNCHANGED <<deviceVars, up, gen, result, cancelled, envVars>>
  BY Zenon DEF ClaimNext
<1>1. c.w \in Workers /\ c.at \in Time
  BY SMTT(30) DEF IInv, TypeOK
<1>2. CASE /\ Continue(c, "idle", None) /\ UNCHANGED attemptVars
           /\ \/ Publish([i \in Late(c.at) |-> "expired"], c.at)
              \/ UNCHANGED jobVars
  <2>1. /\ jobState' \in [Jobs -> JobStates]
        /\ version' \in [Jobs -> Nat]
        /\ journal' \in [Jobs -> Seq(JobStates)]
        /\ stamp' \in [Jobs -> Time]
        /\ original' \in [Jobs -> ArtifactStates]
        /\ derived' \in [Jobs -> ArtifactStates]
        /\ keyWiped' \subseteq Jobs
        /\ \A j \in Jobs : jobState[j] # "accepted" => jobState'[j] = jobState[j]
        /\ \A j \in Jobs : jobState'[j] \in {"expired", jobState[j]}
    <3>1. CASE UNCHANGED jobVars
      BY Zenon, <3>1 DEF IInv, TypeOK
    <3>2. CASE Publish([i \in Late(c.at) |-> "expired"], c.at)
      <4>1. Late(c.at) \in SUBSET Jobs /\ \A j \in Late(c.at) : jobState[j] = "accepted"
        BY Zenon DEF Late
      <4> QED
        BY Zenon, <1>1, <3>2, <4>1, ExpiryKeepsMarkers
    <3> QED
      BY Zenon, <1>2, <3>1, <3>2
  <2>2. TypeOK'
    <3>1. /\ pc' \in [Workers -> Points]
          /\ claim' \in [Workers -> Attempts \cup {None}]
          /\ calls' \subseteq [w : Workers, op : Ops,
                               a : Attempts \cup {None}, at : Time]
      BY Zenon, <1>2, ContinueType DEF IInv
    <3> QED
      BY Zenon, <1>0, <1>2, <2>1, <3>1 DEF IInv, TypeOK
  <2>3. MarkersInv'
    BY Zenon, <1>2, <2>1 DEF IInv, MarkersInv
  <2>4. HoldsInv' /\ OutputInv'
    BY Zenon, <1>0, <1>2, HoldsKept, OutputKept DEF IInv
  <2>5. ControlInv' /\ WorkerInv'
    BY Zenon, <1>0, <1>2, ClaimControl
  <2>6. IoUnderHold' /\ ConfirmedWasPrinted'
    BY Zenon, <1>0, <1>2, <2>1 DEF IInv, IoUnderHold, ConfirmedWasPrinted
  <2> QED
    BY Zenon, <2>2, <2>3, <2>4, <2>5, <2>6 DEF IInv
<1>3. ASSUME NEW j \in Jobs, NEW S \in SUBSET Jobs,
             jobState[j] = "accepted", ~DeviceIsBusy(DeviceOf[j]),
             \A i \in S : jobState[i] = "accepted",
             \E a \in Attempts : phase[a] = "none",
             Publish([i \in S |-> "expired"], c.at),
             ClaimJob(FreshAttempt, j, c.at),
             Continue(c, "spool_prepare", FreshAttempt)
      PROVE  IInv'
  <2> DEFINE a == FreshAttempt
  <2>0. a \in Attempts /\ phase[a] = "none"
    BY Zenon, <1>3 DEF FreshAttempt
  <2> HIDE DEF a
  <2>1. /\ job' = [job EXCEPT ![a] = j]
        /\ owner' = [owner EXCEPT ![a] = gen]
        /\ lease' = [lease EXCEPT ![a] = c.at + LeaseDuration]
        /\ phase' = [phase EXCEPT ![a] = "claimed"]
        /\ attemptVersion' = [attemptVersion EXCEPT ![a] = version[j]]
        /\ holds' = holds \cup {<<j, gen>>}
        /\ marked' = marked
        /\ Continue(c, "spool_prepare", a)
    BY Zenon, <1>3 DEF ClaimJob, a
  <2>2. /\ jobState' \in [Jobs -> JobStates]
        /\ version' \in [Jobs -> Nat]
        /\ journal' \in [Jobs -> Seq(JobStates)]
        /\ stamp' \in [Jobs -> Time]
        /\ original' \in [Jobs -> ArtifactStates]
        /\ derived' \in [Jobs -> ArtifactStates]
        /\ keyWiped' \subseteq Jobs
        /\ \A k \in Jobs : jobState[k] # "accepted" => jobState'[k] = jobState[k]
        /\ \A k \in Jobs : jobState'[k] \in {"expired", jobState[k]}
    BY Zenon, <1>1, <1>3, ExpiryKeepsMarkers
  <2>3. /\ phase \in [Attempts -> ActivePhases \cup {"none", "finished", "recovered"}]
        /\ job \in [Attempts -> Jobs \cup {None}]
        /\ owner \in [Attempts -> Generations \cup {0}]
        /\ lease \in [Attempts -> Nat]
        /\ attemptVersion \in [Attempts -> Nat]
        /\ version \in [Jobs -> Nat]
        /\ holds \subseteq Jobs \X Generations
        /\ gen \in Generations
    BY Zenon DEF IInv, TypeOK
  <2>4. a \notin marked /\ child[a] = "none"
    BY Zenon, <2>0 DEF IInv, MarkersInv, OutputInv
  <2>5. /\ \A b \in Attempts : b # a => /\ job'[b] = job[b] /\ owner'[b] = owner[b]
                                        /\ phase'[b] = phase[b]
        /\ job'[a] = j /\ owner'[a] = gen /\ phase'[a] = "claimed"
    BY Zenon, <2>0, <2>1, <2>3
  <2>6. TypeOK'
    <3>1. /\ pc' \in [Workers -> Points]
          /\ claim' \in [Workers -> Attempts \cup {None}]
          /\ calls' \subseteq [w : Workers, op : Ops,
                               a : Attempts \cup {None}, at : Time]
      BY Zenon, <2>0, <2>1, ContinueType DEF IInv
    <3>2. c.at + LeaseDuration \in Nat
      BY <1>1
    <3>3. /\ job' \in [Attempts -> Jobs \cup {None}]
          /\ owner' \in [Attempts -> Generations \cup {0}]
          /\ lease' \in [Attempts -> Nat]
          /\ phase' \in [Attempts -> ActivePhases \cup {"none", "finished", "recovered"}]
          /\ attemptVersion' \in [Attempts -> Nat]
          /\ holds' \subseteq Jobs \X Generations
      <4>1. job' \in [Attempts -> Jobs \cup {None}] /\ lease' \in [Attempts -> Nat]
        BY Zenon, <1>3, <2>1, <2>3, <3>2
      <4>2. /\ owner' \in [Attempts -> Generations \cup {0}]
            /\ phase' \in [Attempts -> ActivePhases \cup {"none", "finished", "recovered"}]
        BY Zenon, <2>1, <2>3
      <4>3. version[j] \in Nat
        BY Zenon, <1>3, <2>3
      <4>4. attemptVersion' \in [Attempts -> Nat]
        BY Zenon, <2>1, <2>3, <4>3
      <4>5. holds' \subseteq Jobs \X Generations
        BY <1>3, <2>1, <2>3
      <4> QED
        BY Zenon, <4>1, <4>2, <4>4, <4>5
    <3> QED
      BY Zenon, <1>0, <2>1, <2>2, <3>1, <3>3 DEF IInv, TypeOK
  <2>7. MarkersInv'
    <3>1. \A b \in Attempts : b \in marked => b # a /\ job[b] \in Jobs
                                 /\ jobState'[job[b]] = jobState[job[b]]
      BY Zenon, <2>2, <2>4 DEF IInv, MarkersInv
    <3>2. ASSUME NEW b \in Attempts
          PROVE  /\ phase'[b] = "none" => b \notin marked' /\ owner'[b] = 0
                 /\ phase'[b] # "none" => job'[b] \in Jobs /\ owner'[b] \in Generations
                 /\ phase'[b] \in Marked =>
                       b \in marked' /\ jobState'[job'[b]] = "in_progress"
                 /\ b \in marked' =>
                       jobState'[job'[b]] \in {"in_progress", "outcome_unknown",
                                               "output_confirmed"}
      <4>1. CASE b = a
        BY Zenon, <2>1, <2>3, <2>4, <2>5, <4>1
      <4>2. CASE b # a
        BY SMTT(30), <2>1, <2>5, <3>1, <4>2 DEF IInv, MarkersInv
      <4> QED
        BY Zenon, <4>1, <4>2
    <3>3. \A b, d \in Attempts : b \in marked' /\ d \in marked' /\ job'[b] = job'[d] => b = d
      BY <2>1, <2>5, <3>1, SMTT(30) DEF IInv, MarkersInv
    <3> QED
      BY Zenon, <3>2, <3>3 DEF MarkersInv
  <2>8. HoldsInv'
    <3>1. \A h \in holds : DeviceOf[h[1]] # DeviceOf[j]
      BY Zenon, <1>3 DEF DeviceIsBusy, HeldDevices
    <3>2. holds = {<<job[b], owner[b]>> :
                      b \in {d \in Attempts : phase[d] \in ActivePhases}}
      BY Zenon DEF IInv, HoldsInv, HoldsMatchAttempts
    <3>3. \A b \in Attempts : phase[b] \in ActivePhases => job[b] # j
      <4>1. \A b \in Attempts : phase[b] \in ActivePhases =>
                                   <<job[b], owner[b]>> \in holds
        BY Zenon, <3>2
      <4> QED
        BY Zenon, <3>1, <4>1
    <3>4. \A b \in Attempts : phase'[b] \in ActivePhases <=>
                                 phase[b] \in ActivePhases \/ b = a
      BY Zenon, <2>0, <2>5
    <3>5. \A b, d \in Attempts :
             phase'[b] \in ActivePhases /\ phase'[d] \in ActivePhases
             /\ job'[b] = job'[d] => b = d
      BY <2>5, <3>3, <3>4 DEF IInv, HoldsInv
    <3>6. holds' = {<<job'[b], owner'[b]>> :
                       b \in {d \in Attempts : phase'[d] \in ActivePhases}}
      <4>1. phase[a] \notin ActivePhases
        BY Zenon, <2>0
      <4> HIDE DEF ActivePhases
      <4> QED
        BY <2>0, <2>1, <2>5, <3>2, <3>4, <4>1, SMTT(30)
    <3>7. \A g, h \in holds' : DeviceOf[g[1]] = DeviceOf[h[1]] => g = h
      <4>1. holds' = holds \cup {<<j, gen>>}
        BY Zenon, <2>1
      <4>2. \A g, h \in holds : DeviceOf[g[1]] = DeviceOf[h[1]] => g = h
        BY Zenon DEF IInv, HoldsInv, HoldsMatchAttempts
      <4> QED
        BY <3>1, <4>1, <4>2
    <3> QED
      BY Zenon, <3>5, <3>6, <3>7 DEF HoldsInv, HoldsMatchAttempts
  <2>9. OutputInv'
    <3>1. ASSUME NEW b \in Attempts
          PROVE  /\ phase'[b] = "none" => child'[b] = "none"
                 /\ child'[b] \in {"permitted", "printed", "confirmed", "unknown"} =>
                       b \in marked'
                 /\ child'[b] \in {"printed", "confirmed"} => printed'[job'[b]] = 1
      BY <1>0, <2>1, <2>4, <2>5 DEF IInv, OutputInv
    <3>2. ASSUME NEW k \in Jobs
          PROVE  /\ printed'[k] \in {0, 1}
                 /\ printed'[k] = 1 => \E b \in Attempts :
                       /\ job'[b] = k /\ b \in marked'
                       /\ child'[b] \in {"printed", "confirmed", "unknown", "gone"}
      BY <1>0, <2>1, <2>4, <2>5, SMTT(30) DEF IInv, OutputInv
    <3> QED
      BY Zenon, <3>1, <3>2 DEF OutputInv
  <2>10. ControlInv' /\ WorkerInv'
    BY Zenon, <1>0, <2>0, <2>1, <2>4, <2>5, ClaimControl
  <2>11. IoUnderHold' /\ ConfirmedWasPrinted'
    <3>1. ConfirmedWasPrinted'
      BY Zenon, <1>0, <2>2 DEF IInv, ConfirmedWasPrinted
    <3>2. IoUnderHold'
      BY SMTT(30), <1>0, <2>1, <2>4, <2>5 DEF IInv, IoUnderHold
    <3> QED
      BY Zenon, <3>1, <3>2
  <2> QED
    BY Zenon, <2>6, <2>7, <2>8, <2>9, <2>10, <2>11 DEF IInv
<1> DEFINE free == {j \in {k \in Jobs : jobState[k] = "accepted"} \ Late(c.at) :
                       ~DeviceIsBusy(DeviceOf[j])}
<1>4. CASE free = {}
  BY Zenon, <1>2, <1>4 DEF ClaimNext
<1>5. CASE free # {}
  <2>1. PICK j \in free :
          \/ /\ Continue(c, "idle", None)
             /\ UNCHANGED <<jobVars, attemptVars>>
          \/ /\ \E a \in Attempts : phase[a] = "none"
             /\ Publish([i \in {i \in Late(c.at) : Before(i, j)} |-> "expired"], c.at)
             /\ ClaimJob(FreshAttempt, j, c.at)
             /\ Continue(c, "spool_prepare", FreshAttempt)
    BY Zenon, <1>5 DEF ClaimNext
  <2>2. /\ j \in Jobs /\ jobState[j] = "accepted" /\ ~DeviceIsBusy(DeviceOf[j])
        /\ {i \in Late(c.at) : Before(i, j)} \in SUBSET Jobs
        /\ \A i \in {i \in Late(c.at) : Before(i, j)} : jobState[i] = "accepted"
    BY Zenon DEF Late
  <2> QED
    BY Zenon, <1>2, <1>3, <2>1, <2>2
<1> QED
  BY Zenon, <1>4, <1>5

\* recover: the attempts of the dead process end, and so do their holds.
LEMMA RestartIInv ==
  ASSUME IInv, Restart
  PROVE  IInv'
<1> USE ConstantsAssumption DEF jobVars, attemptVars, deviceVars, envVars
<1>a. PICK g \in Generations :
        /\ up = "down"
        /\ \A a \in Attempts : owner[a] # g
        /\ up' = "running" /\ gen' = g
        /\ Publish(Recovered(LostAttempts(g)), now)
        /\ phase' = [a \in Attempts |-> IF a \in LostAttempts(g) THEN "recovered"
                                                                 ELSE phase[a]]
        /\ holds' = {h \in holds : h[1] \notin JobsOf(LostAttempts(g))}
        /\ UNCHANGED <<job, owner, lease, marked, attemptVersion, deviceVars, pc,
                       claim, result, calls, cancelled, envVars>>
  BY Zenon DEF Restart
<1> DEFINE lost == LostAttempts(g)
           expired == {j \in JobsOf({a \in lost : a \notin marked}) :
                          jobState[j] = "accepted" /\ Deadline[j] <= now}
           unknown == {j \in JobsOf({a \in lost : a \in marked}) :
                          jobState[j] = "in_progress"}
           S == expired \cup unknown
           new == [j \in S |-> IF j \in unknown THEN "outcome_unknown" ELSE "expired"]
<1>b. lost \subseteq Attempts /\ \A a \in lost : phase[a] \in ActivePhases
  BY Zenon DEF LostAttempts
<1>c. /\ \A a \in lost : job[a] \in Jobs
      /\ \A a \in lost : \A b \in Attempts :
            phase[b] \in ActivePhases /\ job[b] = job[a] => b = a
  BY Zenon, <1>b DEF IInv, MarkersInv, HoldsInv
<1>d. Recovered(lost) = new
  BY Zenon DEF Recovered
<1>e. S \in SUBSET Jobs /\ new \in [S -> JobStates]
  BY <1>b, <1>c, SMTT(30) DEF JobsOf
<1>f. \A j \in S : \/ jobState[j] = "accepted" /\ new[j] = "expired"
                   \/ jobState[j] = "in_progress" /\ new[j] = "outcome_unknown"
  BY Zenon
<1>g. \A j \in S : \E a \in lost : job[a] = j
  BY Zenon DEF JobsOf
<1> HIDE DEF lost, S, new
<1>h. /\ jobState' \in [Jobs -> JobStates]
      /\ version' \in [Jobs -> Nat]
      /\ journal' \in [Jobs -> Seq(JobStates)]
      /\ stamp' \in [Jobs -> Time]
      /\ original' \in [Jobs -> ArtifactStates]
      /\ derived' \in [Jobs -> ArtifactStates]
      /\ keyWiped' \subseteq Jobs
      /\ \A j \in Jobs : jobState'[j] = IF j \in S THEN new[j] ELSE jobState[j]
  <2>1. now \in Time /\ Publish(new, now)
    BY Zenon, <1>a, <1>d DEF lost, IInv, TypeOK
  <2> QED
    BY Zenon, <1>e, <2>1, PublishType DEF IInv
<1>i. /\ phase' = [a \in Attempts |-> IF a \in lost THEN "recovered" ELSE phase[a]]
      /\ holds' = {h \in holds : h[1] \notin JobsOf(lost)}
  BY Zenon, <1>a DEF lost
<1>j. phase \in [Attempts -> ActivePhases \cup {"none", "finished", "recovered"}]
  BY Zenon DEF IInv, TypeOK
<1>k. calls = {} /\ cancelled = {} /\ \A w \in Workers : pc[w] = "idle"
  BY Zenon, <1>a DEF IInv, ControlInv
<1>1. TypeOK'
  <2>1. /\ phase' \in [Attempts -> ActivePhases \cup {"none", "finished", "recovered"}]
        /\ holds' \subseteq Jobs \X Generations
    BY Zenon, <1>i, <1>j DEF IInv, TypeOK
  <2> QED
    BY Zenon, <1>a, <1>h, <2>1 DEF IInv, TypeOK
<1>2. MarkersInv'
  <2>1. ASSUME NEW b \in Attempts
        PROVE  /\ phase'[b] = "none" => b \notin marked' /\ owner'[b] = 0
               /\ phase'[b] # "none" => job'[b] \in Jobs /\ owner'[b] \in Generations
    BY Zenon, <1>a, <1>b, <1>i DEF IInv, MarkersInv
  <2>2. ASSUME NEW b \in Attempts, phase'[b] \in Marked
        PROVE  b \in marked' /\ jobState'[job'[b]] = "in_progress"
    <3>1. b \notin lost /\ phase[b] \in Marked
      BY Zenon, <1>i, <2>2
    <3>2. b \in marked /\ jobState[job[b]] = "in_progress" /\ job[b] \in Jobs
      BY Zenon, <3>1 DEF IInv, MarkersInv
    <3>3. job[b] \notin S
      BY <1>c, <1>g, <3>1
    <3> QED
      BY Zenon, <1>a, <1>h, <3>2, <3>3
  <2>3. ASSUME NEW b \in Attempts, b \in marked'
        PROVE  jobState'[job'[b]] \in {"in_progress", "outcome_unknown",
                                       "output_confirmed"}
    <3>1. /\ job[b] \in Jobs /\ job'[b] = job[b]
          /\ jobState[job[b]] \in {"in_progress", "outcome_unknown", "output_confirmed"}
      BY Zenon, <1>a, <2>3 DEF IInv, MarkersInv
    <3> QED
      BY Zenon, <1>f, <1>h, <3>1
  <2>4. \A b, d \in Attempts : b \in marked' /\ d \in marked' /\ job'[b] = job'[d] => b = d
    BY Zenon, <1>a DEF IInv, MarkersInv
  <2> QED
    BY Zenon, <2>1, <2>2, <2>3, <2>4 DEF MarkersInv
<1>3. HoldsInv'
  <2>1. \A b \in Attempts : phase'[b] \in ActivePhases <=>
                               phase[b] \in ActivePhases /\ b \notin lost
    BY Zenon, <1>i, <1>j
  <2>2. \A b, d \in Attempts :
           phase'[b] \in ActivePhases /\ phase'[d] \in ActivePhases
           /\ job'[b] = job'[d] => b = d
    BY Zenon, <1>a, <2>1 DEF IInv, HoldsInv
  <2>3. holds = {<<job[b], owner[b]>> :
                    b \in {d \in Attempts : phase[d] \in ActivePhases}}
    BY Zenon DEF IInv, HoldsInv, HoldsMatchAttempts
  <2>4. \A b \in Attempts : phase[b] \in ActivePhases =>
                               (job[b] \in JobsOf(lost) <=> b \in lost)
    BY Zenon, <1>c DEF JobsOf
  <2>5. holds' = {<<job[b], owner[b]>> :
                     b \in {d \in Attempts : phase'[d] \in ActivePhases}}
    <3> HIDE DEF ActivePhases
    <3> QED
      BY <1>i, <2>1, <2>3, <2>4
  <2>6. \A f, h \in holds' : DeviceOf[f[1]] = DeviceOf[h[1]] => f = h
    BY Zenon, <1>i DEF IInv, HoldsInv, HoldsMatchAttempts
  <2>7. job' = job /\ owner' = owner
    BY Zenon, <1>a
  <2> QED
    BY <2>2, <2>5, <2>6, <2>7, SMTT(30) DEF HoldsInv, HoldsMatchAttempts
<1>4. OutputInv'
  <2>1. \A b \in Attempts : phase'[b] = "none" => phase[b] = "none"
    BY Zenon, <1>b, <1>i
  <2> QED
    BY <1>a, <2>1, SMTT(30) DEF IInv, OutputInv
<1>5. ControlInv'
  <2>1. \A w \in Workers : claim[w] = None
    BY Zenon, <1>k DEF IInv, ControlInv
  <2> QED
    BY Zenon, <1>a, <1>k, <2>1 DEF IInv, ControlInv
<1>6. WorkerInv'
  BY Zenon, <1>a, <1>k DEF WorkerInv
<1>7. IoUnderHold' /\ ConfirmedWasPrinted'
  <2>1. ConfirmedWasPrinted'
    BY Zenon, <1>a, <1>f, <1>h DEF IInv, ConfirmedWasPrinted
  <2>2. IoUnderHold'
    BY Zenon, <1>a DEF IoUnderHold
  <2> QED
    BY Zenon, <2>1, <2>2
<1> QED
  BY Zenon, <1>1, <1>2, <1>3, <1>4, <1>5, <1>6, <1>7 DEF IInv

\* Every step keeps the inductive invariant.
LEMMA NextIInv == IInv /\ [Next]_vars => IInv'
<1> SUFFICES ASSUME IInv, [Next]_vars PROVE IInv'
  BY Zenon
<1>1. CASE UNCHANGED vars
  <2>0. UNCHANGED vars
    BY Zenon, <1>1
  <2> USE DEF vars, jobVars, attemptVars, deviceVars, processVars, envVars
  <2>1. TypeOK'
    BY Zenon, <2>0 DEF IInv, TypeOK
  <2>2. MarkersInv'
    BY Zenon, <2>0 DEF IInv, MarkersInv
  <2>3. HoldsInv'
    BY <2>0, SMTT(30) DEF IInv, HoldsInv, HoldsMatchAttempts
  <2>4. OutputInv'
    BY Zenon, <2>0 DEF IInv, OutputInv
  <2>5. ControlInv'
    BY <2>0, SMTT(30) DEF IInv, ControlInv
  <2>6. WorkerInv'
    BY Zenon, <2>0 DEF IInv, WorkerInv
  <2>7. IoUnderHold' /\ ConfirmedWasPrinted'
    BY Zenon, <2>0 DEF IInv, IoUnderHold, ConfirmedWasPrinted
  <2> QED
    BY Zenon, <2>1, <2>2, <2>3, <2>4, <2>5, <2>6, <2>7 DEF IInv
<1>2. ASSUME NEW w \in Workers, CoroutineStep(w) \/ Renew(w) \/ Cancel(w)
      PROVE  IInv'
  BY Zenon, <1>2, RunOneIInv, StartWorkerIInv, ExecuteIInv, ClosingIInv, RenewIInv,
     CancelIInv DEF CoroutineStep
<1>3. ASSUME NEW c \in calls, CallStep(c)
      PROVE  IInv'
  BY Zenon, <1>3, ClaimNextIInv, SpoolIInv, MarkPreparedIInv, FailBeforeIoIInv,
     MarkIoStartedIInv, NotePermissionIInv, FinishIInv, AbandonIInv DEF CallStep
<1>4. ASSUME NEW a \in Attempts, ChildPrints(a) \/ ChildEnds(a)
      PROVE  IInv'
  BY Zenon, <1>4, ChildPrintsIInv, ChildEndsIInv
<1>5. CASE StartBatch \/ Stop \/ Crash \/ Restart \/ DeviceTests \/ Tick
  BY Zenon, <1>5, StartBatchIInv, StopIInv, CrashIInv, RestartIInv, EnvironmentIInv
<1>6. ASSUME NEW j \in Jobs, Admit(j)
      PROVE  IInv'
  BY Zenon, <1>6, AdmitIInv
<1> QED
  BY Zenon, <1>1, <1>2, <1>3, <1>4, <1>5, <1>6 DEF Next

\* The inductive invariant holds in every reachable state.
THEOREM Invariance == Spec => []IInv
<1>1. Init => IInv
  BY Zenon, InitIInv
<1>2. IInv /\ [Next]_vars => IInv'
  BY Zenon, NextIInv
<1> QED
  BY <1>1, <1>2, PTL DEF Spec

\* What the inductive invariant says of output.
LEMMA IInvOutput ==
  ASSUME IInv
  PROVE  AtMostOneOutput /\ SafeToPrintAgain
<1>1. AtMostOneOutput
  BY SMTT(30) DEF IInv, OutputInv, AtMostOneOutput
<1>2. ASSUME NEW j \in Jobs, jobState[j] \in {"none", "accepted", "failed", "expired"}
      PROVE  /\ printed[j] = 0
             /\ \A a \in Attempts : job[a] = j =>
                   child[a] \notin {"permitted", "printed", "confirmed", "unknown"}
  <2>1. \A a \in Attempts : job[a] = j => a \notin marked
    BY Zenon, <1>2 DEF IInv, MarkersInv
  <2> QED
    BY Zenon, <2>1 DEF IInv, OutputInv
<1> QED
  BY Zenon, <1>1, <1>2 DEF SafeToPrintAgain

\* Type correctness of the ledger, the coroutines and the printer processes.
THEOREM TypeCorrect == Spec => []TypeOK
BY Invariance, PTL DEF IInv

\* At most one output per job: for any number of jobs, devices, workers,
\* attempts and restarts, with leases, deadlines and clocks of any kind.
THEOREM OneOutput == Spec => []AtMostOneOutput
<1>1. IInv => AtMostOneOutput
  BY Zenon, IInvOutput
<1> QED
  BY <1>1, Invariance, PTL

\* A job reported as waiting, failed or expired was not printed and cannot be
\* printed any more by a process that still runs, and a confirmed job was
\* printed.
THEOREM OutcomesAreTrue == Spec => []OutcomeIsTrue
<1>1. IInv => OutcomeIsTrue
  BY Zenon, IInvOutput DEF IInv, OutcomeIsTrue
<1> QED
  BY <1>1, Invariance, PTL

\* run_one gives a device away only when its printer process has ended.
THEOREM DeviceIoUnderHold == Spec => []IoUnderHold
<1>1. IInv => IoUnderHold
  BY Zenon DEF IInv
<1> QED
  BY <1>1, Invariance, PTL

\* Attempt rows and reservation rows agree, and a device has one hold.
THEOREM HoldsAgree == Spec => []HoldsMatchAttempts
<1>1. IInv => HoldsMatchAttempts
  BY Zenon DEF IInv, HoldsInv
<1> QED
  BY <1>1, Invariance, PTL
=============================================================================
