-------------------- MODULE PhysicalExecutionRefinement --------------------
(***************************************************************************)
(* The ledger follows the domain's transition table, starts the jobs of a  *)
(* device in the order of their acceptance, and keeps no content of a job  *)
(* it confirmed.  The three rest on IInv (PhysicalExecutionProofs), on     *)
(* what it leaves out (rasters, times and calls left behind) and on what   *)
(* one step does to a row of print_jobs, to an attempt, to the calls that  *)
(* wait for the database and to the content of a job.                      *)
(***************************************************************************)
EXTENDS PhysicalExecutionProofs

USE DEF Time, Generations, Unmarked, Marked, ActivePhases, Terminal, JobStates,
        ArtifactStates, ChildStates, Alive, Ops, Points, Call

\* What is known of a call that waits for the database.
LEMMA WaitingCall ==
  ASSUME IInv, NEW c \in calls, c.op # "claim_next"
  PROVE  /\ c.w \in Workers /\ c.a \in Attempts /\ c.at \in Time
         /\ phase[c.a] # "none" /\ job[c.a] \in Jobs
         /\ up # "down"
         /\ pc[c.w] = c.op => claim[c.w] = c.a
<1>1. c.w \in Workers /\ c.a \in Attempts /\ c.at \in Time /\ c.op \in Ops
  BY SMTT(30) DEF IInv, TypeOK, ControlInv
<1>2. phase[c.a] # "none" /\ up # "down" /\ (pc[c.w] = c.op => claim[c.w] = c.a)
  BY Zenon, <1>1, ConstantsAssumption DEF IInv, ControlInv
<1> QED
  BY Zenon, <1>1, <1>2 DEF IInv, MarkersInv

\* Only a claim and a restart touch owners or generations, and only a claim
\* makes an attempt active.
LEMMA OwnersKept ==
  ASSUME IInv, [Next]_vars, ~Restart, \A c \in calls : ~ClaimNext(c)
  PROVE  /\ owner' = owner /\ gen' = gen
         /\ up' # "down" => up # "down"
         /\ \A a \in Attempts : phase'[a] \in ActivePhases => phase[a] \in ActivePhases
<1> DEFINE Same == /\ owner' = owner /\ gen' = gen
                   /\ up' # "down" => up # "down"
                   /\ \A a \in Attempts :
                         phase'[a] \in ActivePhases => phase[a] \in ActivePhases
<1> USE DEF jobVars, attemptVars, deviceVars, processVars, envVars
<1>0. phase \in [Attempts -> ActivePhases \cup {"none", "finished", "recovered"}]
  BY Zenon DEF IInv, TypeOK
<1>1. CASE UNCHANGED vars
  BY Zenon, <1>1 DEF vars
<1>2. ASSUME NEW w \in Workers, CoroutineStep(w) \/ Renew(w) \/ Cancel(w)
      PROVE  Same
  BY Zenon, <1>2 DEF CoroutineStep, RunOne, StartWorker, Execute, Close, Cleanup, Abort,
              Renew, Cancel
<1>3. ASSUME NEW c \in calls, CallStep(c)
      PROVE  Same
  <2>1. CASE SpoolPrepare(c) \/ SpoolRelease(c)
    BY Zenon, <2>1 DEF SpoolPrepare, SpoolRelease
  <2>2. CASE MarkPrepared(c)
    BY Zenon, <1>0, <2>2 DEF MarkPrepared, Fenced
  <2>3. CASE FailBeforeIo(c)
    BY Zenon, <1>0, <2>3 DEF FailBeforeIo
  <2>4. CASE MarkIoStarted(c)
    BY Zenon, <1>0, <2>4 DEF MarkIoStarted, Fenced
  <2>5. CASE NotePermission(c)
    BY Zenon, <1>0, <2>5 DEF NotePermission, Fenced
  <2>6. CASE Finish(c)
    BY Zenon, <1>0, <2>6 DEF Finish
  <2>7. CASE AbandonAfterMarker(c)
    BY Zenon, <1>0, <2>7 DEF AbandonAfterMarker
  <2> QED
    BY Zenon, <1>3, <2>1, <2>2, <2>3, <2>4, <2>5, <2>6, <2>7 DEF CallStep
<1>4. ASSUME NEW a \in Attempts, ChildPrints(a) \/ ChildEnds(a)
      PROVE  Same
  BY Zenon, <1>4 DEF ChildPrints, ChildEnds
<1>5. CASE StartBatch \/ Stop \/ Crash \/ DeviceTests \/ Tick
  BY Zenon, <1>5 DEF StartBatch, Stop, Crash, DeviceTests, Tick
<1>6. ASSUME NEW j \in Jobs, Admit(j)
      PROVE  Same
  BY Zenon, <1>6 DEF Admit
<1> HIDE DEF Same
<1>7. Same
  BY Zenon, <1>1, <1>2, <1>3, <1>4, <1>5, <1>6 DEF Next, Same
<1> QED
  BY Zenon, <1>7 DEF Same

\* The row of job j as the step leaves it.
Kept(j) ==
    /\ jobState'[j] = jobState[j] /\ version'[j] = version[j]
    /\ journal'[j] = journal[j] /\ stamp'[j] = stamp[j]

Announced(j, s) == journal'[j] = Append(journal[j], s)

\* The legal moves of a row, and what the step that makes one knows.
Move(j) ==
    \/ /\ jobState[j] = "none" /\ jobState'[j] = "accepted"
       /\ stamp'[j] = now /\ now < Deadline[j]
    \/ /\ jobState[j] = "accepted" /\ jobState'[j] = "in_progress"
       /\ stamp'[j] < Deadline[j]
       /\ \E c \in calls : /\ c.op = "mark_io_started" /\ c \notin calls'
                           /\ phase[c.a] = "prepared" /\ job[c.a] = j
                           /\ stamp'[j] = c.at
    \/ jobState[j] = "accepted" /\ jobState'[j] = "failed"
    \/ /\ jobState[j] = "accepted" /\ jobState'[j] = "expired"
       /\ Deadline[j] <= stamp'[j]
    \/ jobState[j] = "in_progress" /\ jobState'[j] = "outcome_unknown"
    \/ /\ jobState[j] = "in_progress" /\ jobState'[j] = "output_confirmed"
       /\ printed[j] = 1

Timely(j) ==
    /\ version'[j] = version[j] + 1
    /\ Announced(j, jobState'[j])
    /\ stamp[j] <= stamp'[j] /\ stamp'[j] <= now

\* Only the times of a move depend on the clock.
Moved(j) == Move(j) /\ printed' = printed /\ (TimeInv => Timely(j))

LEMMA TimeNat == \A t \in Time : t \in Nat
BY ConstantsAssumption

\* What a publication writes into one row.
LEMMA PublishRow ==
  ASSUME TypeOK, NEW S \in SUBSET Jobs, NEW new \in [S -> JobStates],
         NEW t, Publish(new, t), NEW j \in Jobs
  PROVE  /\ j \notin S => Kept(j)
         /\ j \in S => /\ jobState'[j] = new[j] /\ version'[j] = version[j] + 1
                       /\ Announced(j, new[j])
                       /\ stamp'[j] = t
<1>0. DOMAIN new = S
  BY Zenon
<1>1. /\ jobState' = [i \in Jobs |-> IF i \in S THEN new[i] ELSE jobState[i]]
      /\ version' = [i \in Jobs |-> IF i \in S THEN version[i] + 1
                                               ELSE version[i]]
      /\ journal' = [i \in Jobs |-> IF i \in S THEN Append(journal[i], new[i])
                                               ELSE journal[i]]
      /\ stamp' = [i \in Jobs |-> IF i \in S THEN t ELSE stamp[i]]
  BY Zenon, <1>0 DEF Publish
<1> QED
  BY Zenon, <1>1 DEF Kept, Announced

\* The rows of a scan that expires the jobs in S.
LEMMA ExpiredRows ==
  ASSUME IInv, NEW t \in Time, TimeInv => t <= now, NEW S \in SUBSET Late(t),
         Publish([i \in S |-> "expired"], t), printed' = printed,
         NEW j \in Jobs
  PROVE  Kept(j) \/ Moved(j)
<1>0. S \in SUBSET Jobs /\ [i \in S |-> "expired"] \in [S -> JobStates]
  BY Zenon DEF Late
<1>a. TypeOK
  BY Zenon DEF IInv
<1>1. CASE j \notin S
  BY Zenon, <1>0, <1>a, <1>1, PublishRow
<1>2. CASE j \in S
  <2> DEFINE new == [i \in S |-> "expired"]
  <2>2. new[j] = "expired"
    BY Zenon, <1>2
  <2>a. new \in [S -> JobStates] /\ Publish(new, t)
    BY Zenon, <1>0
  <2> HIDE DEF new
  <2>1. /\ jobState'[j] = new[j] /\ version'[j] = version[j] + 1
        /\ Announced(j, new[j])
        /\ stamp'[j] = t
    BY <1>0, <1>a, <1>2, <2>a, PublishRow
  <2>3. jobState[j] = "accepted" /\ Deadline[j] <= t
    BY Zenon, <1>2 DEF Late
  <2>4. TimeInv => stamp[j] <= t
    BY <2>3, ConstantsAssumption DEF TimeInv, IInv, TypeOK
  <2> QED
    BY Zenon, <2>1, <2>2, <2>3, <2>4 DEF Moved, Move, Timely
<1> QED
  BY Zenon, <1>1, <1>2

\* The rows of a call that moves the one job of its attempt.
LEMMA CallRows ==
  ASSUME IInv, NEW c \in calls, c.op # "claim_next",
         phase[c.a] \in ActivePhases,
         jobState[job[c.a]] \in {"accepted", "in_progress"},
         NEW s \in JobStates,
         Publish([i \in {job[c.a]} |-> s], c.at), printed' = printed,
         jobState'[job[c.a]] = s /\ stamp'[job[c.a]] = c.at => Move(job[c.a]),
         NEW j \in Jobs
  PROVE  Kept(j) \/ Moved(j)
<1> DEFINE k == job[c.a]
<1>0. k \in Jobs /\ c.a # None /\ c.at \in Time
  BY Zenon, WaitingCall, ConstantsAssumption
<1>1. TimeInv => stamp[k] <= c.at /\ c.at <= now
  BY Zenon, <1>0 DEF TimeInv
<1>a. TypeOK
  BY Zenon DEF IInv
<1> HIDE DEF k
<1>2. [i \in {k} |-> s] \in [{k} -> JobStates] /\ {k} \in SUBSET Jobs
  BY Zenon, <1>0
<1>b. Publish([i \in {k} |-> s], c.at)
  BY Zenon DEF k
<1>3. CASE j # k
  <2>1. j \notin {k}
    BY Zenon, <1>3
  <2> QED
    BY Zenon, <1>a, <1>b, <1>2, <2>1, PublishRow
<1>4. CASE j = k
  <2> DEFINE new == [i \in {k} |-> s]
  <2>1. j \in {k} /\ new[j] = s
    BY Zenon, <1>4
  <2>a. new \in [{k} -> JobStates] /\ {k} \in SUBSET Jobs /\ Publish(new, c.at)
    BY Zenon, <1>b, <1>2
  <2> HIDE DEF new
  <2>2. /\ jobState'[j] = new[j] /\ version'[j] = version[j] + 1
        /\ Announced(j, new[j])
        /\ stamp'[j] = c.at
    BY <1>a, <2>a, <2>1, PublishRow
  <2>3. Move(j)
    BY Zenon, <1>4, <2>1, <2>2 DEF k
  <2> QED
    BY Zenon, <1>1, <1>4, <2>1, <2>2, <2>3 DEF Moved, Timely
<1> QED
  BY Zenon, <1>3, <1>4

\* claim_next expires what is late and writes no other row.
LEMMA ClaimRows ==
  ASSUME IInv, NEW c \in calls, ClaimNext(c), NEW j \in Jobs
  PROVE  Kept(j) \/ Moved(j)
<1> USE DEF jobVars, attemptVars, deviceVars, envVars
<1>0. c.at \in Time /\ (TimeInv => c.at <= now) /\ printed' = printed
  BY ZenonT(40) DEF IInv, TypeOK, TimeInv, ClaimNext
<1>1. CASE UNCHANGED jobVars
  BY Zenon, <1>1 DEF Kept
<1>2. CASE Publish([i \in Late(c.at) |-> "expired"], c.at)
  BY Zenon, <1>0, <1>2, ExpiredRows
<1>3. ASSUME NEW k \in Jobs,
             Publish([i \in {i \in Late(c.at) : Before(i, k)} |-> "expired"], c.at)
      PROVE  Kept(j) \/ Moved(j)
  <2> DEFINE S == {i \in Late(c.at) : Before(i, k)}
  <2>1. S \in SUBSET Late(c.at)
    BY Zenon
  <2>2. Publish([i \in S |-> "expired"], c.at)
    BY Zenon, <1>3
  <2> HIDE DEF S
  <2> QED
    BY Zenon, <1>0, <2>1, <2>2, ExpiredRows
<1> QED
  BY Zenon, <1>1, <1>2, <1>3 DEF ClaimNext

\* fail_before_io ends an accepted job, as expired from its deadline on.
LEMMA FailRows ==
  ASSUME IInv, NEW c \in calls, FailBeforeIo(c), NEW j \in Jobs
  PROVE  Kept(j) \/ Moved(j)
<1> USE DEF jobVars, attemptVars, deviceVars, envVars
<1>1. CASE UNCHANGED jobVars
  BY Zenon, <1>1 DEF Kept
<1>2. CASE ~UNCHANGED jobVars
  <2> DEFINE k == job[c.a]
             s == IF Deadline[k] <= c.at THEN "expired" ELSE "failed"
  <2>1. /\ c.op = "fail_before_io" /\ printed' = printed
        /\ Fenced(c.a, c.at, Unmarked) /\ JobIs(c.a, "accepted")
        /\ Publish([i \in {k} |-> IF Deadline[i] <= c.at THEN "expired"
                                                         ELSE "failed"], c.at)
    BY Zenon, <1>2 DEF FailBeforeIo
  <2>2. [i \in {k} |-> IF Deadline[i] <= c.at THEN "expired" ELSE "failed"]
          = [i \in {k} |-> s]
    BY Zenon
  <2>3. Publish([i \in {k} |-> s], c.at)
    BY Zenon, <2>1, <2>2
  <2>4. phase[c.a] \in ActivePhases /\ jobState[k] = "accepted" /\ s \in JobStates
    BY Zenon, <2>1 DEF Fenced, JobIs
  <2>5. jobState'[k] = s /\ stamp'[k] = c.at => Move(k)
    BY Zenon, <2>4 DEF Move
  <2> HIDE DEF s
  <2> QED
    BY Zenon, <2>1, <2>3, <2>4, <2>5, CallRows
<1> QED
  BY Zenon, <1>1, <1>2

\* mark_io_started starts an accepted job before its deadline.
LEMMA StartRows ==
  ASSUME IInv, NEW c \in calls, MarkIoStarted(c), NEW j \in Jobs
  PROVE  Kept(j) \/ Moved(j)
<1> USE DEF jobVars, attemptVars, deviceVars, envVars
<1>1. CASE UNCHANGED jobVars
  BY Zenon, <1>1 DEF Kept
<1>2. CASE ~UNCHANGED jobVars
  <2> DEFINE k == job[c.a]
  <2>1. /\ c.op = "mark_io_started" /\ printed' = printed
        /\ Fenced(c.a, c.at, {"prepared"}) /\ JobIs(c.a, "accepted")
        /\ ~(Deadline[k] <= c.at)
        /\ Publish([i \in {k} |-> "in_progress"], c.at)
        /\ Continue(c, "note_permission", c.a)
    BY Zenon, <1>2 DEF MarkIoStarted
  <2>2. k \in Jobs /\ c.at \in Time
    BY Zenon, <2>1, WaitingCall
  <2>3. c.at < Deadline[k]
    <3>1. Deadline[k] \in Nat
      BY Zenon, <2>2, ConstantsAssumption
    <3>2. c.at \in Nat
      BY Zenon, <2>2, TimeNat
    <3> QED
      BY <2>1, <3>1, <3>2
  <2>4. c \notin calls'
    BY <2>1 DEF Continue
  <2>5. phase[c.a] = "prepared" /\ jobState[k] = "accepted"
    BY Zenon, <2>1 DEF Fenced, JobIs
  <2>6. jobState'[k] = "in_progress" /\ stamp'[k] = c.at => Move(k)
    BY Zenon, <2>1, <2>3, <2>4, <2>5 DEF Move
  <2>7. phase[c.a] \in ActivePhases /\ "in_progress" \in JobStates
    BY Zenon, <2>5
  <2> QED
    BY Zenon, <2>1, <2>5, <2>6, <2>7, CallRows
<1> QED
  BY Zenon, <1>1, <1>2

\* finish and abandon_after_marker end a job in progress; only a job the device
\* printed is confirmed.
LEMMA FinishRows ==
  ASSUME IInv, NEW c \in calls, Finish(c) \/ AbandonAfterMarker(c),
         NEW j \in Jobs
  PROVE  Kept(j) \/ Moved(j)
<1> USE DEF jobVars, attemptVars, deviceVars, envVars
<1>1. CASE UNCHANGED jobVars
  BY Zenon, <1>1 DEF Kept
<1>2. CASE ~UNCHANGED jobVars
  <2> DEFINE k == job[c.a]
  <2>1. PICK s \in {"outcome_unknown", "output_confirmed"} :
          /\ c.op \in {"finish", "abandon"} /\ printed' = printed
          /\ s = "output_confirmed" => c.op = "finish" /\ result[c.w] = "confirmed"
          /\ phase[c.a] \in Marked
          /\ jobState[k] = "in_progress"
          /\ Publish([i \in {k} |-> s], c.at)
    <3>1. CASE Finish(c)
      <4>1. /\ c.op = "finish" /\ printed' = printed
            /\ phase[c.a] \in Marked /\ jobState[k] = "in_progress"
            /\ \E s \in ResultStates(result[c.w]) : Publish([i \in {k} |-> s], c.at)
        BY Zenon, <1>2, <3>1 DEF Finish, Fenced, JobIs
      <4>2. PICK s \in ResultStates(result[c.w]) : Publish([i \in {k} |-> s], c.at)
        BY Zenon, <4>1
      <4>3. /\ s \in {"outcome_unknown", "output_confirmed"}
            /\ s = "output_confirmed" => result[c.w] = "confirmed"
        BY Zenon DEF ResultStates
      <4> QED
        BY Zenon, <4>1, <4>2, <4>3
    <3>2. CASE AbandonAfterMarker(c)
      <4>1. /\ c.op = "abandon" /\ printed' = printed
            /\ phase[c.a] \in Marked /\ jobState[k] = "in_progress"
            /\ Publish([i \in {k} |-> "outcome_unknown"], c.at)
        BY Zenon, <1>2, <3>2 DEF AbandonAfterMarker, Abandonable
      <4> QED
        BY Zenon, <4>1
    <3> QED
      BY Zenon, <3>1, <3>2
  <2>2. s = "output_confirmed" => printed[k] = 1
    BY Zenon, <2>1 DEF IInv, WorkerInv
  <2>3. jobState'[k] = s /\ stamp'[k] = c.at => Move(k)
    BY Zenon, <2>1, <2>2 DEF Move
  <2>4. c.op # "claim_next" /\ phase[c.a] \in ActivePhases /\ s \in JobStates
    BY Zenon, <2>1
  <2> QED
    BY Zenon, <2>1, <2>3, <2>4, CallRows
<1> QED
  BY Zenon, <1>1, <1>2

\* recover expires accepted jobs past their deadline, and gives up the jobs
\* behind a marker, at the present time.
LEMMA RestartRows ==
  ASSUME IInv, Restart, NEW j \in Jobs
  PROVE  Kept(j) \/ Moved(j)
<1> USE DEF deviceVars
<1>1. PICK g \in Generations :
         Publish(Recovered(LostAttempts(g)), now) /\ printed' = printed
  BY Zenon DEF Restart
<1> DEFINE lost == LostAttempts(g)
           expired == {i \in JobsOf({a \in lost : a \notin marked}) :
                          jobState[i] = "accepted" /\ Deadline[i] <= now}
           unknown == {i \in JobsOf({a \in lost : a \in marked}) :
                          jobState[i] = "in_progress"}
           new == Recovered(lost)
           S == expired \cup unknown
<1>2. \A a \in lost : job[a] \in Jobs
  BY Zenon DEF LostAttempts, IInv, MarkersInv
<1>3. S \in SUBSET Jobs
  BY Zenon, <1>2 DEF JobsOf
<1>4. new = [i \in S |-> IF i \in unknown THEN "outcome_unknown" ELSE "expired"]
  BY Zenon DEF Recovered
<1>5. \A i \in S : \/ new[i] = "outcome_unknown" /\ jobState[i] = "in_progress"
                   \/ /\ new[i] = "expired" /\ jobState[i] = "accepted"
                      /\ Deadline[i] <= now
  <2> HIDE DEF new, lost
  <2> QED
    BY Zenon, <1>4
<1>6. new \in [S -> JobStates]
  <2> HIDE DEF new, unknown, expired
  <2> QED
    BY Zenon, <1>4
<1>7. TypeOK /\ Publish(new, now) /\ (TimeInv => stamp[j] <= now)
  BY Zenon, <1>1 DEF IInv, TimeInv
<1>a. now \in Nat
  BY Zenon, TimeNat DEF IInv, TypeOK
<1> HIDE DEF new, S
<1>8. /\ j \notin S => Kept(j)
      /\ j \in S => /\ jobState'[j] = new[j] /\ version'[j] = version[j] + 1
                    /\ Announced(j, new[j]) /\ stamp'[j] = now
  BY <1>3, <1>6, <1>7, PublishRow
<1> QED
  BY <1>1, <1>5, <1>7, <1>a, <1>8 DEF Moved, Move, Timely

\* Admission writes a new row.
LEMMA AdmitRows ==
  ASSUME IInv, NEW k \in Jobs, Admit(k), NEW j \in Jobs
  PROVE  Kept(j) \/ Moved(j)
<1> USE DEF deviceVars
<1>1. CASE j # k
  BY <1>1 DEF Admit, Kept, IInv, TypeOK
<1>2. CASE j = k
  <2>1. /\ jobState[j] = "none" /\ jobState'[j] = "accepted" /\ version'[j] = 1
        /\ stamp'[j] = now /\ now < Deadline[j] /\ printed' = printed
    BY Zenon, <1>2 DEF Admit, IInv, TypeOK
  <2>2. journal'[j] = <<"accepted">>
    BY Zenon, <1>2 DEF Admit, IInv, TypeOK
  <2>3. now \in Nat
    BY Zenon, TimeNat DEF IInv, TypeOK
  <2>4. ASSUME TimeInv
        PROVE  Timely(j)
    <3>1. version[j] = 0 /\ journal[j] = <<>> /\ stamp[j] <= now
      BY Zenon, <2>1, <2>4 DEF TimeInv
    <3>2. Announced(j, "accepted")
      BY <2>2, <3>1 DEF Announced
    <3> QED
      BY <2>1, <2>3, <3>1, <3>2 DEF Timely
  <2> QED
    BY Zenon, <2>1, <2>3, <2>4 DEF Moved, Move, Timely
<1> QED
  BY Zenon, <1>1, <1>2

\* Every step of the Agent leaves the row of a job alone or makes one legal
\* move of it.
LEMMA NextRows ==
  ASSUME IInv, [Next]_vars, NEW j \in Jobs
  PROVE  Kept(j) \/ Moved(j)
<1> DEFINE Ok == Kept(j) \/ Moved(j)
           Rows == <<jobState, version, journal, stamp>>
<1> USE DEF jobVars, attemptVars, deviceVars, processVars, envVars
<1>0. UNCHANGED Rows => Ok
  BY Zenon DEF Kept
<1> HIDE DEF Ok
<1>1. UNCHANGED vars => UNCHANGED Rows
  BY Zenon DEF vars
<1>2. ASSUME NEW w \in Workers, CoroutineStep(w) \/ Renew(w) \/ Cancel(w)
      PROVE  UNCHANGED Rows
  BY Zenon, <1>2 DEF CoroutineStep, RunOne, StartWorker, Execute, Close,
                     Cleanup, Abort, Renew, Cancel
<1>3. ASSUME NEW c \in calls, CallStep(c)
      PROVE  Ok
  <2>1. CASE SpoolPrepare(c) \/ SpoolRelease(c) \/ MarkPrepared(c) \/ NotePermission(c)
    BY Zenon, <1>0, <2>1 DEF SpoolPrepare, SpoolRelease, MarkPrepared, NotePermission
  <2>2. CASE ClaimNext(c)
    BY Zenon, <2>2, ClaimRows DEF Ok
  <2>3. CASE FailBeforeIo(c)
    BY Zenon, <2>3, FailRows DEF Ok
  <2>4. CASE MarkIoStarted(c)
    BY Zenon, <2>4, StartRows DEF Ok
  <2>5. CASE Finish(c) \/ AbandonAfterMarker(c)
    BY Zenon, <2>5, FinishRows DEF Ok
  <2> QED
    BY Zenon, <1>3, <2>1, <2>2, <2>3, <2>4, <2>5 DEF CallStep
<1>4. ASSUME NEW a \in Attempts, ChildPrints(a) \/ ChildEnds(a)
      PROVE  UNCHANGED Rows
  BY Zenon, <1>4 DEF ChildPrints, ChildEnds
<1>5. ASSUME StartBatch \/ Stop \/ Crash \/ DeviceTests \/ Tick
      PROVE  UNCHANGED Rows
  BY Zenon, <1>5 DEF StartBatch, Stop, Crash, DeviceTests, Tick
<1>6. ASSUME Restart
      PROVE  Ok
  BY Zenon, <1>6, RestartRows DEF Ok
<1>7. ASSUME NEW k \in Jobs, Admit(k)
      PROVE  Ok
  BY Zenon, <1>7, AdmitRows DEF Ok
<1> HIDE DEF Rows
<1>8. Ok
  BY Zenon, <1>0, <1>1, <1>2, <1>3, <1>4, <1>5, <1>6, <1>7 DEF Next
<1> QED
  BY Zenon, <1>8 DEF Ok

----------------------------------------------------------------------------
(* Attempts, calls and the clock.                                          *)

\* An attempt keeps its job, and is not active again once it has ended.
Continues(a) ==
    /\ phase[a] # "none" => job'[a] = job[a]
    /\ phase'[a] # "none" => phase[a] # "none"
    /\ phase'[a] \in ActivePhases => phase[a] \in ActivePhases

\* A claim takes the first accepted job of its device.
Claims(a) ==
    /\ phase[a] = "none" /\ job'[a] \in Jobs
    /\ jobState[job'[a]] = "accepted" /\ Kept(job'[a])
    /\ \A i \in Jobs :
          /\ jobState'[i] = "accepted" /\ DeviceOf[i] = DeviceOf[job'[a]]
          => Kept(i) /\ stamp[job'[a]] <= stamp[i]

LEMMA ClaimNextAttempts ==
  ASSUME IInv, NEW c \in calls, ClaimNext(c), NEW a \in Attempts
  PROVE  Continues(a) \/ Claims(a)
<1> USE DEF jobVars, attemptVars
<1>1. CASE UNCHANGED attemptVars
  BY Zenon, <1>1 DEF Continues
<1>2. CASE ~UNCHANGED attemptVars
  <2> DEFINE accepted == {i \in Jobs : jobState[i] = "accepted"}
             late == Late(c.at)
             free == {i \in accepted \ late : ~DeviceIsBusy(DeviceOf[i])}
  <2>1. PICK j \in free :
          /\ \A i \in free \ {j} : Before(j, i)
          /\ \E b \in Attempts : phase[b] = "none"
          /\ Publish([i \in {i \in late : Before(i, j)} |-> "expired"], c.at)
          /\ ClaimJob(FreshAttempt, j, c.at)
    BY Zenon, <1>2 DEF ClaimNext
  <2>2. FreshAttempt \in Attempts /\ phase[FreshAttempt] = "none"
    BY Zenon, <2>1 DEF FreshAttempt
  <2>3. /\ job' = [job EXCEPT ![FreshAttempt] = j]
        /\ phase' = [phase EXCEPT ![FreshAttempt] = "claimed"]
    BY Zenon, <2>1 DEF ClaimJob
  <2>4. CASE a # FreshAttempt
    BY <2>3, <2>4 DEF Continues, IInv, TypeOK
  <2>5. CASE a = FreshAttempt
    <3> DEFINE S == {i \in late : Before(i, j)}
               new == [i \in S |-> "expired"]
    <3>0. TypeOK /\ stamp \in [Jobs -> Nat]
      BY Zenon, TimeNat DEF IInv, TypeOK
    <3>1. job'[a] = j /\ j \in Jobs /\ jobState[j] = "accepted" /\ j \notin S
      BY Zenon, <2>2, <2>3, <2>5 DEF IInv, TypeOK
    <3>2. S \in SUBSET Jobs /\ new \in [S -> JobStates]
      BY Zenon DEF Late
    <3>a. \A i \in S : new[i] = "expired"
      BY Zenon
    <3>b. Publish(new, c.at)
      BY Zenon, <2>1
    <3>c. \A i \in late : i \in S <=> Before(i, j)
      BY Zenon
    <3> HIDE DEF new, S
    <3>3. ASSUME NEW i \in Jobs
          PROVE  /\ i \notin S => Kept(i)
                 /\ i \in S => jobState'[i] = new[i]
      BY <3>0, <3>2, <3>b, PublishRow
    <3>4. ASSUME NEW i \in Jobs, jobState'[i] = "accepted",
                 DeviceOf[i] = DeviceOf[j]
          PROVE  Kept(i) /\ stamp[j] <= stamp[i]
      <4>1. i \notin S /\ Kept(i)
        BY Zenon, <3>3, <3>4, <3>a
      <4>2. jobState[i] = "accepted"
        BY Zenon, <3>4, <4>1 DEF Kept
      <4>3. CASE i \in late
        <5>1. ~Before(i, j)
          BY Zenon, <3>c, <4>1, <4>3
        <5> QED
          BY <3>0, <3>1, <4>1, <5>1 DEF Before
      <4>4. CASE i \notin late
        <5>1. i \in free
          BY Zenon, <3>4, <4>2, <4>4
        <5>2. i = j \/ Before(j, i)
          BY Zenon, <2>1, <5>1
        <5> QED
          BY <3>0, <3>1, <4>1, <5>2 DEF Before
      <4> QED
        BY Zenon, <4>3, <4>4
    <3>5. Kept(j)
      BY Zenon, <3>1, <3>3
    <3> QED
      BY Zenon, <2>2, <2>5, <3>1, <3>4, <3>5 DEF Claims
  <2> QED
    BY Zenon, <2>4, <2>5
<1> QED
  BY Zenon, <1>1, <1>2

LEMMA NextAttempts ==
  ASSUME IInv, [Next]_vars, NEW a \in Attempts
  PROVE  Continues(a) \/ Claims(a)
<1> USE DEF jobVars, attemptVars, deviceVars, processVars, envVars
<1>0. phase \in [Attempts -> ActivePhases \cup {"none", "finished", "recovered"}]
  BY Zenon DEF IInv, TypeOK
<1>1. CASE \E c \in calls : ClaimNext(c)
  BY Zenon, <1>1, ClaimNextAttempts
<1>2. CASE Restart
  BY Zenon, <1>0, <1>2 DEF Restart, LostAttempts, Continues
<1>3. CASE ~Restart /\ \A c \in calls : ~ClaimNext(c)
  <2>1. \A b \in Attempts : phase'[b] \in ActivePhases => phase[b] \in ActivePhases
    BY Zenon, <1>3, OwnersKept
  <2>2. job' = job /\ (phase'[a] # "none" => phase[a] # "none")
    <3> DEFINE Ok == job' = job /\ (phase'[a] # "none" => phase[a] # "none")
    <3>1. UNCHANGED <<job, phase>> => Ok
      BY Zenon
    <3>2. ASSUME NEW c \in calls, CallStep(c)
          PROVE  Ok
      <4>1. c.op # "claim_next" => c.a \in Attempts /\ phase[c.a] # "none"
        BY Zenon, WaitingCall
      <4>2. job' = job /\ (phase' = phase \/ \E q : phase' = [phase EXCEPT ![c.a] = q])
        BY Zenon, <1>3, <3>2 DEF CallStep, SpoolPrepare, SpoolRelease,
             MarkPrepared, NotePermission, FailBeforeIo, MarkIoStarted, Finish,
             AbandonAfterMarker
      <4>3. c.op # "claim_next"
        BY Zenon, <1>3, <3>2 DEF CallStep, SpoolPrepare, SpoolRelease,
             MarkPrepared, NotePermission, FailBeforeIo, MarkIoStarted, Finish,
             AbandonAfterMarker
      <4> QED
        BY Zenon, <1>0, <4>1, <4>2, <4>3
    <3>3. ASSUME NEW w \in Workers, CoroutineStep(w) \/ Renew(w) \/ Cancel(w)
          PROVE  UNCHANGED <<job, phase>>
      BY Zenon, <3>3 DEF CoroutineStep, RunOne, StartWorker, Execute, Close,
                         Cleanup, Abort, Renew, Cancel
    <3>4. ASSUME NEW b \in Attempts, ChildPrints(b) \/ ChildEnds(b)
          PROVE  UNCHANGED <<job, phase>>
      BY Zenon, <3>4 DEF ChildPrints, ChildEnds
    <3>5. ASSUME StartBatch \/ Stop \/ Crash \/ DeviceTests \/ Tick
          PROVE  UNCHANGED <<job, phase>>
      BY Zenon, <3>5 DEF StartBatch, Stop, Crash, DeviceTests, Tick
    <3>6. ASSUME NEW k \in Jobs, Admit(k)
          PROVE  UNCHANGED <<job, phase>>
      BY Zenon, <3>6 DEF Admit
    <3>7. UNCHANGED vars => UNCHANGED <<job, phase>>
      BY Zenon DEF vars
    <3> HIDE DEF Ok
    <3>8. Ok
      BY Zenon, <1>3, <3>1, <3>2, <3>3, <3>4, <3>5, <3>6, <3>7 DEF Next
    <3> QED
      BY Zenon, <3>8 DEF Ok
  <2> QED
    BY Zenon, <2>1, <2>2 DEF Continues
<1> QED
  BY Zenon, <1>1, <1>2, <1>3

\* The calls after a step: those that were there, and one issued just now.
CallsAge == \A d \in calls' : d \in calls \/ d.at = now

LEMMA GotoOrphan ==
  ASSUME IInv, OrphanInv, NEW w \in Workers, NEW next \in Points, Goto(w, next),
         cancelled' \subseteq cancelled \cup {w},
         w \in cancelled' => next \in {"idle", "cleanup", "abort", "close",
                                      "finish", "spool_release", "abandon"},
         next \in Ops \ {"claim_next"} => claim[w] # None,
         next = "mark_io_started" => pc[w] = "start_worker",
         pc[w] \in {"mark_io_started", "cleanup", "idle"} => next \in {"cleanup", "idle"}
  PROVE  OrphanInv' /\ CallsAge
<1> USE ConstantsAssumption
<1>0. /\ pc \in [Workers -> Points] /\ claim \in [Workers -> Attempts \cup {None}]
      /\ \A c \in calls : c.w \in Workers /\ c.op \in Ops
      /\ cancelled \subseteq Workers
  BY DEF IInv, TypeOK
<1>1. /\ pc' = [pc EXCEPT ![w] = next]
      /\ \A v \in Workers : claim'[v] \in {claim[v], None}
      /\ \A d \in calls' : \/ d \in calls
                           \/ next \in Ops /\ d = Call(w, next, claim[w], now)
  BY Zenon, <1>0 DEF Goto
<1>2. CallsAge
  BY <1>1 DEF CallsAge
<1>3. \A v \in cancelled' : pc'[v] \in {"idle", "cleanup", "abort", "close",
                                      "finish", "spool_release", "abandon"}
  BY <1>0, <1>1 DEF OrphanInv
<1>4. ASSUME NEW c \in calls', c.a # None, NEW v \in Workers, claim'[v] = c.a
      PROVE  v = c.w
  <2>1. claim[v] = c.a
    BY Zenon, <1>1, <1>4
  <2>2. CASE c \in calls
    BY Zenon, <1>4, <2>1, <2>2 DEF OrphanInv
  <2>3. CASE c = Call(w, next, claim[w], now)
    BY Zenon, <1>4, <2>1, <2>3 DEF IInv, ControlInv
  <2> QED
    BY Zenon, <1>1, <2>2, <2>3
<1>5. ASSUME NEW c \in calls', c.op = "mark_io_started"
      PROVE  /\ pc'[c.w] \in {"mark_io_started", "cleanup", "idle"}
             /\ \A d \in calls' : d.a = c.a => d = c
  <2>1. CASE c \in calls
    <3>1. /\ pc[c.w] \in {"mark_io_started", "cleanup", "idle"}
          /\ \A d \in calls : d.a = c.a => d = c
          /\ \A v \in Workers : claim[v] = c.a => v = c.w
          /\ c.a # None
      BY Zenon, <1>5, <2>1 DEF OrphanInv, IInv, ControlInv
    <3>2. pc'[c.w] \in {"mark_io_started", "cleanup", "idle"}
      BY Zenon, <1>0, <1>1, <2>1, <3>1
    <3>3. ASSUME NEW d \in calls', d.a = c.a
          PROVE  d = c
      <4>1. CASE d \in calls
        BY Zenon, <3>1, <3>3, <4>1
      <4>2. CASE next \in Ops /\ d = Call(w, next, claim[w], now)
        <5>1. claim[w] = c.a
          BY Zenon, <3>3, <4>2 DEF Call
        <5>2. w = c.w
          BY Zenon, <3>1, <5>1
        <5>3. next \in {"cleanup", "idle"}
          BY Zenon, <3>1, <5>2
        <5> QED
          BY Zenon, <4>2, <5>3 DEF Ops
      <4> QED
        BY Zenon, <1>1, <4>1, <4>2
    <3> QED
      BY Zenon, <3>2, <3>3
  <2>2. CASE c = Call(w, next, claim[w], now)
    <3>1. next = "mark_io_started" /\ pc[w] = "start_worker" /\ claim[w] # None
      BY Zenon, <1>5, <2>2
    <3>2. pc'[c.w] = "mark_io_started"
      BY Zenon, <1>0, <1>1, <2>2, <3>1
    <3>3. ASSUME NEW d \in calls, d.a = c.a
          PROVE  FALSE
      <4>1. d.w = w
        BY Zenon, <2>2, <3>1, <3>3 DEF OrphanInv
      <4>2. w \in cancelled
        BY Zenon, <1>0, <3>1, <4>1 DEF IInv, ControlInv
      <4> QED
        BY Zenon, <3>1, <4>2 DEF OrphanInv
    <3> QED
      BY Zenon, <1>1, <2>2, <3>2, <3>3
  <2> QED
    BY Zenon, <1>1, <2>1, <2>2
<1> QED
  BY Zenon, <1>2, <1>3, <1>4, <1>5 DEF OrphanInv

LEMMA ContinueOrphan ==
  ASSUME IInv, OrphanInv, NEW c \in calls, NEW next \in Points,
         Continue(c, next, c.a), cancelled' = cancelled,
         c.op # "claim_next",
         next \notin {"scheduled", "claim_next", "mark_io_started"},
         c.op \in {"finish", "spool_release", "abandon"} =>
            next \in {"spool_release", "abandon", "idle"}
  PROVE  OrphanInv' /\ CallsAge
<1> USE ConstantsAssumption
<1>0. /\ pc \in [Workers -> Points] /\ claim \in [Workers -> Attempts \cup {None}]
      /\ \A d \in calls : d.w \in Workers /\ d.op \in Ops
      /\ c.w \in Workers /\ c.a # None
      /\ pc[c.w] = c.op => claim[c.w] = c.a
  <2>1. /\ pc \in [Workers -> Points] /\ claim \in [Workers -> Attempts \cup {None}]
        /\ \A d \in calls : d.w \in Workers /\ d.op \in Ops
    BY DEF IInv, TypeOK
  <2>2. c.w \in Workers /\ c.a # None /\ (pc[c.w] = c.op => claim[c.w] = c.a)
    BY Zenon, WaitingCall
  <2> QED
    BY Zenon, <2>1, <2>2
<1>1. CASE pc[c.w] # c.op
  <2>1. calls' = calls \ {c} /\ pc' = pc /\ claim' = claim
    BY Zenon, <1>1 DEF Continue
  <2> QED
    BY Zenon, <2>1 DEF OrphanInv, CallsAge
<1>2. CASE pc[c.w] = c.op
  <2>1. /\ pc' = [pc EXCEPT ![c.w] = next]
        /\ \A v \in Workers : claim'[v] \in {claim[v], None}
        /\ \A d \in calls' : \/ d \in calls /\ d # c
                             \/ next \in Ops /\ d = Call(c.w, next, c.a, now)
    BY ZenonT(40), <1>0, <1>2 DEF Continue
  <2>2. CallsAge
    BY <2>1 DEF CallsAge
  <2>3. \A v \in cancelled' : pc'[v] \in {"idle", "cleanup", "abort", "close",
                                        "finish", "spool_release", "abandon"}
    BY <1>0, <1>2, <2>1 DEF OrphanInv
  <2>4. ASSUME NEW d \in calls', d.a # None, NEW v \in Workers, claim'[v] = d.a
        PROVE  v = d.w
    <3>1. claim[v] = d.a
      BY Zenon, <2>1, <2>4
    <3> QED
      BY <2>1, <2>4, <3>1 DEF OrphanInv
  <2>5. ASSUME NEW d \in calls', d.op = "mark_io_started"
        PROVE  /\ pc'[d.w] \in {"mark_io_started", "cleanup", "idle"}
               /\ \A e \in calls' : e.a = d.a => e = d
    <3>1. d \in calls /\ d # c
      BY <2>1, <2>5
    <3>2. /\ pc[d.w] \in {"mark_io_started", "cleanup", "idle"}
          /\ \A e \in calls : e.a = d.a => e = d
      BY Zenon, <2>5, <3>1 DEF OrphanInv
    <3>3. c.a # d.a
      BY Zenon, <3>1, <3>2
    <3>4. d.w # c.w
      <4>1. ASSUME d.w = c.w PROVE FALSE
        <5>1. c.w \in cancelled
          BY Zenon, <3>1, <4>1 DEF IInv, ControlInv
        <5> QED
          BY <1>0, <1>2, <3>2, <4>1, <5>1 DEF OrphanInv
      <4> QED
        BY Zenon, <4>1
    <3>5. pc'[d.w] = pc[d.w]
      BY Zenon, <1>0, <2>1, <3>1, <3>4
    <3> QED
      BY <2>1, <3>2, <3>3, <3>5
  <2> QED
    BY Zenon, <2>2, <2>3, <2>4, <2>5 DEF OrphanInv
<1> QED
  BY Zenon, <1>1, <1>2

\* A new attempt has no call left behind.
LEMMA ClaimOrphan ==
  ASSUME IInv, OrphanInv, NEW c \in calls, ClaimNext(c)
  PROVE  OrphanInv' /\ CallsAge
<1> USE ConstantsAssumption
<1>0. /\ pc \in [Workers -> Points] /\ claim \in [Workers -> Attempts \cup {None}]
      /\ \A d \in calls : d.w \in Workers /\ d.op \in Ops
      /\ c.w \in Workers /\ c.op = "claim_next" /\ cancelled' = cancelled
      /\ \A d \in calls : d.w = c.w => d = c
      /\ c.a = None
  BY SMTT(30) DEF IInv, TypeOK, ControlInv, ClaimNext
<1>1. PICK next \in {"idle", "spool_prepare"}, a \in Attempts \cup {None} :
        /\ Continue(c, next, a)
        /\ next = "spool_prepare" => a \in Attempts /\ phase[a] = "none"
  <2>1. CASE Continue(c, "idle", None)
    BY Zenon, <2>1
  <2>2. CASE /\ Continue(c, "spool_prepare", FreshAttempt)
             /\ \E a \in Attempts : phase[a] = "none"
    <3>1. FreshAttempt \in Attempts /\ phase[FreshAttempt] = "none"
      BY Zenon, <2>2 DEF FreshAttempt
    <3> QED
      BY Zenon, <2>2, <3>1
  <2> QED
    BY Zenon, <2>1, <2>2 DEF ClaimNext
<1>2. CASE pc[c.w] # c.op
  <2>1. calls' = calls \ {c} /\ pc' = pc /\ claim' = claim
    BY Zenon, <1>1, <1>2 DEF Continue
  <2> QED
    BY ZenonT(40), <1>0, <2>1 DEF OrphanInv, CallsAge
<1>3. CASE pc[c.w] = c.op
  <2>1. /\ pc' = [pc EXCEPT ![c.w] = next]
        /\ claim' = [claim EXCEPT ![c.w] = IF next = "idle" THEN None ELSE a]
        /\ \A d \in calls' : \/ d \in calls /\ d # c
                             \/ /\ next = "spool_prepare"
                                /\ d = Call(c.w, next, a, now)
    BY Zenon, <1>1, <1>3 DEF Continue
  <2>2. CallsAge
    BY <2>1 DEF CallsAge
  <2>3. c.w \notin cancelled
    BY Zenon, <1>0, <1>3 DEF OrphanInv
  <2>4. \A v \in cancelled' : pc'[v] \in {"idle", "cleanup", "abort", "close",
                                        "finish", "spool_release", "abandon"}
    BY <1>0, <2>1, <2>3, SMTT(30) DEF OrphanInv, IInv, TypeOK
  <2>5. /\ \A d \in calls : d.a # None => phase[d.a] # "none"
        /\ \A v \in Workers : claim[v] # None => phase[claim[v]] # "none"
    BY Zenon DEF IInv, ControlInv
  <2>6. ASSUME NEW d \in calls', d.a # None, NEW v \in Workers, claim'[v] = d.a
        PROVE  v = d.w
    <3>1. CASE v = c.w
      BY <1>0, <1>1, <2>1, <2>5, <2>6, <3>1
    <3>2. CASE v # c.w
      <4>1. claim[v] = d.a
        BY Zenon, <1>0, <2>1, <2>6, <3>2
      <4>2. CASE d \in calls
        BY Zenon, <2>6, <4>1, <4>2 DEF OrphanInv
      <4>3. CASE next = "spool_prepare" /\ d = Call(c.w, next, a, now)
        BY Zenon, <1>1, <2>5, <2>6, <4>1, <4>3
      <4> QED
        BY Zenon, <2>1, <4>2, <4>3
    <3> QED
      BY Zenon, <3>1, <3>2
  <2>7. ASSUME NEW d \in calls', d.op = "mark_io_started"
        PROVE  /\ pc'[d.w] \in {"mark_io_started", "cleanup", "idle"}
               /\ \A e \in calls' : e.a = d.a => e = d
    <3>1. d \in calls /\ d # c /\ d.w # c.w
      BY <1>0, <2>1, <2>7
    <3>2. /\ pc[d.w] \in {"mark_io_started", "cleanup", "idle"}
          /\ \A e \in calls : e.a = d.a => e = d
          /\ d.a # None
      BY Zenon, <2>7, <3>1 DEF OrphanInv, IInv, ControlInv
    <3>3. pc'[d.w] = pc[d.w]
      BY Zenon, <1>0, <2>1, <3>1
    <3>4. ASSUME NEW e \in calls', e.a = d.a
          PROVE  e = d
      BY <1>1, <2>1, <2>5, <3>1, <3>2, <3>4
    <3> QED
      BY Zenon, <3>2, <3>3, <3>4
  <2> QED
    BY Zenon, <2>2, <2>4, <2>6, <2>7 DEF OrphanInv
<1> QED
  BY Zenon, <1>2, <1>3

LEMMA NextOrphan ==
  ASSUME IInv, OrphanInv, [Next]_vars
  PROVE  OrphanInv' /\ CallsAge
<1> DEFINE Ok == OrphanInv' /\ CallsAge
<1> USE DEF jobVars, attemptVars, deviceVars, processVars, envVars
<1>0. UNCHANGED <<pc, claim, calls, cancelled>> => Ok
  BY Zenon DEF OrphanInv, CallsAge
<1>1. ASSUME NEW w \in Workers, CoroutineStep(w) \/ Renew(w) \/ Cancel(w)
      PROVE  Ok
  <2>0. pc[w] \in {"idle", "scheduled", "claim_next"} <=> claim[w] = None
    BY Zenon DEF IInv, ControlInv
  <2>a. w \in cancelled => pc[w] \in {"idle", "cleanup", "abort", "close",
                                      "finish", "spool_release", "abandon"}
    BY Zenon DEF OrphanInv
  <2>b. pc[w] \in Points
    BY Zenon DEF IInv, TypeOK
  <2>1. CASE Renew(w)
    BY Zenon, <1>0, <2>1 DEF Renew
  <2>2. CASE Cancel(w)
    <3>1. /\ pc[w] # "idle" /\ cancelled' = cancelled \cup {w}
          /\ Goto(w, AfterCancel(pc[w]))
      BY Zenon, <2>2 DEF Cancel
    <3>2. /\ AfterCancel(pc[w]) \in {"idle", "cleanup", "abort", "close", "abandon"}
          /\ AfterCancel(pc[w]) = "abandon" => pc[w] = "finish"
          /\ pc[w] \in {"mark_io_started", "cleanup"} =>
                AfterCancel(pc[w]) = "cleanup"
      BY Zenon, <2>b, <3>1 DEF AfterCancel
    <3> DEFINE next == AfterCancel(pc[w])
    <3> HIDE DEF next
    <3>3. Goto(w, next) /\ next \in Points
      BY Zenon, <3>1, <3>2 DEF next
    <3> QED
      BY Zenon, <2>0, <3>1, <3>2, <3>3, GotoOrphan DEF next
  <2>3. CASE CoroutineStep(w)
    <3>1. PICK next \in Points :
               /\ Goto(w, next) /\ cancelled' = cancelled
               /\ <<pc[w], next>> \in
                     {<<"scheduled", "claim_next">>,
                      <<"start_worker", "mark_io_started">>,
                      <<"start_worker", "fail_before_io">>, <<"execute", "close">>,
                      <<"close", "finish">>, <<"close", "abort">>,
                      <<"cleanup", "idle">>, <<"abort", "abandon">>,
                      <<"abort", "idle">>}
      <4>1. CASE RunOne(w)
        BY Zenon, <4>1 DEF RunOne
      <4>2. CASE StartWorker(w)
        BY Zenon, <4>2 DEF StartWorker
      <4>3. CASE Execute(w)
        BY Zenon, <4>3 DEF Execute
      <4>4. CASE Close(w)
        BY Zenon, <4>4 DEF Close
      <4>5. CASE Cleanup(w)
        BY Zenon, <4>5 DEF Cleanup
      <4>6. CASE Abort(w)
        BY Zenon, <4>6 DEF Abort
      <4> QED
        BY Zenon, <2>3, <4>1, <4>2, <4>3, <4>4, <4>5, <4>6 DEF CoroutineStep
    <3> QED
      BY Zenon, <2>0, <2>a, <3>1, GotoOrphan
  <2> QED
    BY Zenon, <1>1, <2>1, <2>2, <2>3
<1>2. ASSUME NEW c \in calls, CallStep(c)
      PROVE  Ok
  <2>1. CASE ClaimNext(c)
    BY Zenon, <2>1, ClaimOrphan
  <2>2. CASE ~ClaimNext(c)
    <3>1. PICK next \in Points :
               /\ Continue(c, next, c.a) /\ cancelled' = cancelled
               /\ c.op # "claim_next"
               /\ next \notin {"scheduled", "claim_next", "mark_io_started"}
               /\ c.op \in {"finish", "spool_release", "abandon"} =>
                     next \in {"spool_release", "abandon", "idle"}
      <4>1. CASE SpoolPrepare(c)
        BY Zenon, <4>1 DEF SpoolPrepare
      <4>2. CASE MarkPrepared(c)
        BY Zenon, <4>2 DEF MarkPrepared
      <4>3. CASE FailBeforeIo(c)
        BY Zenon, <4>3, SMTT(30) DEF FailBeforeIo
      <4>4. CASE MarkIoStarted(c)
        BY Zenon, <4>4, SMTT(30) DEF MarkIoStarted
      <4>5. CASE NotePermission(c)
        BY Zenon, <4>5, SMTT(30) DEF NotePermission
      <4>6. CASE Finish(c)
        BY Zenon, <4>6 DEF Finish
      <4>7. CASE SpoolRelease(c)
        BY Zenon, <4>7 DEF SpoolRelease
      <4>8. CASE AbandonAfterMarker(c)
        BY Zenon, <4>8 DEF AbandonAfterMarker
      <4> QED
        BY Zenon, <1>2, <2>2, <4>1, <4>2, <4>3, <4>4, <4>5, <4>6, <4>7, <4>8 DEF CallStep
    <3> QED
      BY Zenon, <3>1, ContinueOrphan
  <2> QED
    BY Zenon, <2>1, <2>2
<1>3. ASSUME NEW a \in Attempts, ChildPrints(a) \/ ChildEnds(a)
      PROVE  UNCHANGED <<pc, claim, calls, cancelled>>
  BY Zenon, <1>3 DEF ChildPrints, ChildEnds
<1>4. ASSUME Stop \/ Restart \/ DeviceTests \/ Tick
      PROVE  UNCHANGED <<pc, claim, calls, cancelled>>
  BY Zenon, <1>4 DEF Stop, Restart, DeviceTests, Tick
<1>5. ASSUME NEW k \in Jobs, Admit(k)
      PROVE  UNCHANGED <<pc, claim, calls, cancelled>>
  BY Zenon, <1>5 DEF Admit
<1>6. UNCHANGED vars => UNCHANGED <<pc, claim, calls, cancelled>>
  BY Zenon DEF vars
<1>7. ASSUME Crash
      PROVE  Ok
  BY Zenon, <1>7 DEF Crash, OrphanInv, CallsAge
<1>8. ASSUME StartBatch
      PROVE  Ok
  <2>1. cancelled = {} /\ cancelled' = {}
    BY Zenon, <1>8 DEF StartBatch, IInv, ControlInv
  <2>2. calls = {} /\ calls' = {}
    <3>1. ASSUME NEW c \in calls PROVE FALSE
      <4>a. c.w \in Workers /\ c.op \in Ops
        BY ZenonT(40) DEF IInv, TypeOK
      <4>b. pc[c.w] = c.op
        BY Zenon, <2>1, <3>1, Zenon DEF IInv, ControlInv
      <4>1. c.w \in Workers /\ c.op \in Ops /\ pc[c.w] = c.op
        BY Zenon, <4>a, <4>b
      <4> QED
        BY Zenon, <1>8, <4>1 DEF StartBatch
    <3> QED
      BY Zenon, <1>8, <3>1 DEF StartBatch
  <2> QED
    BY Zenon, <2>1, <2>2 DEF OrphanInv, CallsAge
<1> HIDE DEF Ok
<1>9. Ok
  BY Zenon, <1>0, <1>1, <1>2, <1>3, <1>4, <1>5, <1>6, <1>7, <1>8 DEF Next
<1> QED
  BY Zenon, <1>9 DEF Ok

\* A clock that is not set back only moves forward.
LEMMA ClockRuns ==
  ASSUME ~WallClockSteps, IInv, [Next]_vars
  PROVE  now <= now'
<1> USE DEF envVars
<1>0. now \in Nat
  BY Zenon, TimeNat DEF IInv, TypeOK
<1>1. CASE Tick
  BY <1>0, <1>1 DEF Tick
<1>2. CASE ~Tick
  <2>1. now' = now
    <3>1. ASSUME NEW w \in Workers, CoroutineStep(w) \/ Renew(w) \/ Cancel(w)
          PROVE  now' = now
      BY Zenon, <3>1 DEF CoroutineStep, RunOne, StartWorker, Execute, Close,
                         Cleanup, Abort, Renew, Cancel
    <3>2. ASSUME NEW c \in calls, CallStep(c)
          PROVE  now' = now
      BY Zenon, <3>2 DEF CallStep, ClaimNext, SpoolPrepare, SpoolRelease,
           MarkPrepared, NotePermission, FailBeforeIo, MarkIoStarted, Finish,
           AbandonAfterMarker
    <3>3. ASSUME NEW a \in Attempts, ChildPrints(a) \/ ChildEnds(a)
          PROVE  now' = now
      BY Zenon, <3>3 DEF ChildPrints, ChildEnds
    <3>4. ASSUME StartBatch \/ Stop \/ Crash \/ Restart \/ DeviceTests
          PROVE  now' = now
      BY Zenon, <3>4 DEF StartBatch, Stop, Crash, Restart, DeviceTests
    <3>5. ASSUME NEW j \in Jobs, Admit(j)
          PROVE  now' = now
      BY Zenon, <3>5 DEF Admit
    <3>6. UNCHANGED vars => now' = now
      BY Zenon DEF vars
    <3> QED
      BY Zenon, <1>2, <3>1, <3>2, <3>3, <3>4, <3>5, <3>6 DEF Next
  <2> QED
    BY <1>0, <2>1
<1> QED
  BY Zenon, <1>1, <1>2

\* The row of an attempt's job does not become accepted again.
LEMMA AcceptedOnce ==
  ASSUME IInv, TimeInv, [Next]_vars, NEW a \in Attempts,
         phase[a] # "none", jobState'[job[a]] = "accepted"
  PROVE  Kept(job[a])
<1>1. job[a] \in Jobs /\ jobState[job[a]] # "none"
  BY Zenon DEF IInv, MarkersInv, TimeInv
<1>2. Kept(job[a]) \/ Moved(job[a])
  BY Zenon, <1>1, NextRows
<1> QED
  BY Zenon, <1>1, <1>2 DEF Moved, Move

LEMMA NextTime ==
  ASSUME ~WallClockSteps, IInv, OrphanInv, TimeInv, [Next]_vars, IInv'
  PROVE  TimeInv'
<1>0. /\ now \in Nat /\ now' \in Nat /\ now <= now'
      /\ stamp \in [Jobs -> Nat] /\ stamp' \in [Jobs -> Nat]
      /\ \A c \in calls : c.at \in Nat
  <2>1. now <= now'
    BY Zenon, ClockRuns
  <2>2. now \in Nat /\ stamp \in [Jobs -> Nat]
    BY TimeNat, SMTT(30) DEF IInv, TypeOK
  <2>3. now' \in Nat /\ stamp' \in [Jobs -> Nat]
    BY TimeNat, SMTT(30) DEF IInv, TypeOK
  <2>4. \A c \in calls : c.at \in Nat
    BY TimeNat, SMTT(30) DEF IInv, TypeOK
  <2> QED
    BY Zenon, <2>1, <2>2, <2>3, <2>4
<1>1. ASSUME NEW j \in Jobs
      PROVE  /\ stamp'[j] <= now
             /\ jobState'[j] = "none" =>
                   version'[j] = 0 /\ journal'[j] = <<>> /\ stamp'[j] = 0
             /\ jobState'[j] = "accepted" => stamp'[j] < Deadline[j]
  <2>1. CASE Kept(j)
    BY Zenon, <2>1 DEF Kept, TimeInv
  <2>2. CASE Moved(j)
    <3>1. stamp'[j] <= now /\ Move(j)
      BY Zenon, <2>2 DEF Moved, Timely
    <3> QED
      BY Zenon, <3>1 DEF Move
  <2> QED
    BY Zenon, <2>1, <2>2, NextRows
<1>2. ASSUME NEW a \in Attempts, phase'[a] # "none"
      PROVE  jobState'[job'[a]] # "none"
  <2>1. CASE Continues(a)
    <3>1. /\ phase[a] # "none" /\ job'[a] = job[a] /\ job[a] \in Jobs
          /\ jobState[job[a]] # "none"
      BY Zenon, <1>2, <2>1 DEF Continues, IInv, MarkersInv, TimeInv
    <3>2. Kept(job[a]) \/ Moved(job[a])
      BY Zenon, <3>1, NextRows
    <3> QED
      BY Zenon, <3>1, <3>2 DEF Kept, Moved, Move
  <2>2. CASE Claims(a)
    BY Zenon, <2>2 DEF Claims, Kept
  <2> QED
    BY Zenon, <2>1, <2>2, NextAttempts
<1>3. ASSUME NEW d \in calls'
      PROVE  /\ d.at <= now'
             /\ (/\ d.a # None /\ phase'[d.a] \in ActivePhases
                 /\ jobState'[job'[d.a]] \in {"accepted", "in_progress"})
                => stamp'[job'[d.a]] <= d.at
  <2>0. d.a # None => d.a \in Attempts /\ phase'[d.a] # "none" /\ job'[d.a] \in Jobs
    <3>1. d.a \in Attempts \cup {None}
      BY DEF IInv, TypeOK
    <3>2. d.a # None => phase'[d.a] # "none"
      BY Zenon DEF IInv, ControlInv
    <3>3. \A a \in Attempts : phase'[a] # "none" => job'[a] \in Jobs
      BY Zenon DEF IInv, MarkersInv
    <3> QED
      BY Zenon, <3>1, <3>2, <3>3
  <2>1. CASE d.at = now
    BY Zenon, <1>0, <1>1, <2>0, <2>1
  <2>2. CASE d \in calls
    <3>1. d.at <= now'
      BY <1>0, <2>2 DEF TimeInv
    <3>2. ASSUME d.a # None, phase'[d.a] \in ActivePhases,
                 jobState'[job'[d.a]] \in {"accepted", "in_progress"}
          PROVE  stamp'[job'[d.a]] <= d.at
      <4> DEFINE k == job[d.a]
      <4>1. phase[d.a] # "none"
        BY Zenon, <2>2, <3>2 DEF IInv, ControlInv
      <4>2. Continues(d.a)
        BY Zenon, <2>0, <3>2, <4>1, NextAttempts DEF Claims
      <4>3. job'[d.a] = k /\ phase[d.a] \in ActivePhases /\ k \in Jobs
        BY Zenon, <2>0, <3>2, <4>1, <4>2 DEF Continues
      <4>4. CASE Kept(k)
        BY Zenon, <2>2, <3>2, <4>3, <4>4 DEF Kept, TimeInv
      <4>5. CASE ~Kept(k)
        <5>1. Moved(k) /\ jobState'[k] # "accepted"
          BY Zenon, <2>0, <3>2, <4>1, <4>3, <4>5, NextRows, AcceptedOnce
        <5>2. PICK c \in calls : /\ c.op = "mark_io_started" /\ c \notin calls'
                                 /\ phase[c.a] = "prepared" /\ job[c.a] = k
          BY Zenon, <3>2, <4>3, <5>1 DEF Moved, Move
        <5>3. c.a \in Attempts
          BY Zenon, <5>2, WaitingCall
        <5>4. c.a = d.a
          BY Zenon, <2>0, <3>2, <4>3, <5>2, <5>3 DEF IInv, HoldsInv
        <5>5. c = d
          BY Zenon, <2>2, <5>2, <5>4 DEF OrphanInv
        <5> QED
          BY Zenon, <5>2, <5>5
      <4> QED
        BY Zenon, <4>4, <4>5
    <3> QED
      BY Zenon, <3>1, <3>2
  <2> QED
    BY Zenon, <2>1, <2>2, NextOrphan DEF CallsAge
<1>4. \A j \in Jobs : stamp'[j] <= now'
  BY <1>0, <1>1
<1> QED
  BY Zenon, <1>1, <1>2, <1>3, <1>4 DEF TimeInv

LEMMA NextQueue ==
  ASSUME IInv, TimeInv, QueueInv, [Next]_vars
  PROVE  QueueInv'
<1> SUFFICES ASSUME NEW a \in Attempts, NEW i \in Jobs,
                    phase'[a] \in ActivePhases, jobState'[job'[a]] = "accepted",
                    jobState'[i] = "accepted", DeviceOf[i] = DeviceOf[job'[a]]
             PROVE  stamp'[job'[a]] <= stamp'[i]
  BY Zenon DEF QueueInv
<1>0. stamp \in [Jobs -> Nat] /\ now \in Nat
  BY TimeNat DEF IInv, TypeOK
<1>1. CASE Claims(a)
  BY Zenon, <1>1 DEF Claims, Kept
<1>2. CASE Continues(a)
  <2>1. /\ phase[a] \in ActivePhases /\ phase[a] # "none" /\ job'[a] = job[a]
        /\ job[a] \in Jobs
    BY Zenon, <1>2, SMTT(30) DEF Continues, IInv, MarkersInv
  <2>2. Kept(job[a])
    BY Zenon, <2>1, AcceptedOnce
  <2>3. CASE Kept(i)
    BY Zenon, <2>1, <2>2, <2>3 DEF Kept, QueueInv
  <2>4. CASE Moved(i)
    BY Zenon, <1>0, <2>1, <2>2, <2>4 DEF Moved, Move, Kept, TimeInv
  <2> QED
    BY Zenon, <2>3, <2>4, NextRows
<1> QED
  BY Zenon, <1>1, <1>2, NextAttempts

----------------------------------------------------------------------------
(* The raster of a receipt and the content of a confirmed job.             *)

\* What a step does to the artifacts of job j: a raster is stored by
\* EncryptedExecutionSpool.prepare only, where none was scheduled for deletion.
Artifacts(j) ==
    /\ j \in keyWiped => j \in keyWiped'
    /\ derived[j] # "none" => derived'[j] # "none"
    /\ original'[j] = "committed" =>
          original[j] = "committed" \/ jobState[j] = "none"
    /\ derived'[j] = "committed" =>
          derived[j] = "committed" \/ (j \in Receipts /\ derived[j] = "none")
    /\ jobState'[j] = "output_confirmed" /\ jobState[j] # "output_confirmed" =>
          /\ j \in keyWiped'
          /\ original'[j] # "committed" /\ derived'[j] # "committed"

LEMMA PublishArtifacts ==
  ASSUME TypeOK, NEW S \in SUBSET Jobs, NEW new \in [S -> JobStates],
         NEW t, Publish(new, t), NEW j \in Jobs
  PROVE  Artifacts(j)
<1>0. DOMAIN new = S
  BY Zenon
<1>1. /\ jobState' = [i \in Jobs |-> IF i \in S THEN new[i] ELSE jobState[i]]
      /\ original' = [i \in Jobs |-> IF i \in S THEN Scheduled(original[i], new[i])
                                                ELSE original[i]]
      /\ derived' = [i \in Jobs |-> IF i \in S THEN Scheduled(derived[i], new[i])
                                               ELSE derived[i]]
      /\ keyWiped' = keyWiped \cup {i \in S : new[i] = "output_confirmed"}
  BY Zenon, <1>0 DEF Publish
<1> QED
  BY Zenon, <1>1 DEF Artifacts, Scheduled

LEMMA NextArtifacts ==
  ASSUME IInv, [Next]_vars, NEW j \in Jobs
  PROVE  Artifacts(j)
<1> USE DEF jobVars, attemptVars, deviceVars, processVars, envVars
<1>a. TypeOK
  BY Zenon DEF IInv
<1>0. UNCHANGED jobVars => Artifacts(j)
  BY Zenon DEF Artifacts
<1>1. UNCHANGED vars => UNCHANGED jobVars
  BY Zenon DEF vars
<1>2. ASSUME NEW w \in Workers, CoroutineStep(w) \/ Renew(w) \/ Cancel(w)
      PROVE  UNCHANGED jobVars
  BY Zenon, <1>2 DEF CoroutineStep, RunOne, StartWorker, Execute, Close,
                     Cleanup, Abort, Renew, Cancel
<1>3. ASSUME NEW a \in Attempts, ChildPrints(a) \/ ChildEnds(a)
      PROVE  UNCHANGED jobVars
  BY Zenon, <1>3 DEF ChildPrints, ChildEnds
<1>4. ASSUME StartBatch \/ Stop \/ Crash \/ DeviceTests \/ Tick
      PROVE  UNCHANGED jobVars
  BY Zenon, <1>4 DEF StartBatch, Stop, Crash, DeviceTests, Tick
<1>5. ASSUME NEW k \in Jobs, Admit(k)
      PROVE  Artifacts(j)
  BY Zenon, <1>5 DEF Admit, Artifacts, IInv, TypeOK
<1>6. ASSUME Restart
      PROVE  Artifacts(j)
  <2>1. PICK g \in Generations : Publish(Recovered(LostAttempts(g)), now)
    BY Zenon, <1>6 DEF Restart
  <2> DEFINE lost == LostAttempts(g)
             S == {i \in JobsOf({a \in lost : a \notin marked}) :
                      jobState[i] = "accepted" /\ Deadline[i] <= now}
                  \cup {i \in JobsOf({a \in lost : a \in marked}) :
                           jobState[i] = "in_progress"}
             new == Recovered(lost)
  <2>2. \A a \in lost : job[a] \in Jobs
    BY Zenon DEF LostAttempts, IInv, MarkersInv
  <2>3. S \in SUBSET Jobs
    BY Zenon, <2>2 DEF JobsOf
  <2>4. new \in [S -> JobStates]
    <3>1. PICK U : new = [i \in S |-> IF i \in U THEN "outcome_unknown" ELSE "expired"]
      BY Zenon DEF Recovered
    <3> HIDE DEF new, S
    <3> QED
      BY Zenon, <3>1
  <2>5. Publish(new, now)
    BY Zenon, <2>1
  <2> HIDE DEF new, S
  <2> QED
    BY Zenon, <1>a, <2>3, <2>4, <2>5, PublishArtifacts
<1>7. ASSUME NEW c \in calls, CallStep(c)
      PROVE  Artifacts(j)
  <2>0. c.op # "claim_next" => job[c.a] \in Jobs
    BY Zenon, WaitingCall
  <2>1. CASE MarkPrepared(c) \/ NotePermission(c)
    BY Zenon, <1>0, <2>1 DEF MarkPrepared, NotePermission
  <2>2. CASE SpoolPrepare(c)
    <3> DEFINE k == job[c.a]
    <3>1. /\ k \in Jobs /\ UNCHANGED <<jobState, original, keyWiped>>
          /\ \/ derived' = derived
             \/ /\ derived[k] \in {"none", "committed"} /\ k \in Receipts
                /\ derived' = [derived EXCEPT ![k] = "committed"]
      BY Zenon, <2>0, <2>2 DEF SpoolPrepare, CanPersistRaster, WithRaster
    <3>2. derived \in [Jobs -> ArtifactStates]
      BY Zenon DEF IInv, TypeOK
    <3> HIDE DEF k
    <3> QED
      BY Zenon, <3>1, <3>2 DEF Artifacts
  <2>3. CASE SpoolRelease(c)
    <3>1. derived \in [Jobs -> ArtifactStates] /\ original \in [Jobs -> ArtifactStates]
      BY Zenon DEF IInv, TypeOK
    <3> QED
      BY Zenon, <2>0, <2>3, <3>1 DEF SpoolRelease, Artifacts
  <2>4. CASE ClaimNext(c)
    <3>1. PICK S \in SUBSET Jobs :
             UNCHANGED jobVars \/ Publish([i \in S |-> "expired"], c.at)
      <4>1. Late(c.at) \in SUBSET Jobs
        BY Zenon DEF Late
      <4>2. \A k : {i \in Late(c.at) : Before(i, k)} \in SUBSET Jobs
        BY Zenon, <4>1
      <4> QED
        BY Zenon, <2>4, <4>1, <4>2 DEF ClaimNext
    <3> DEFINE new == [i \in S |-> "expired"]
    <3>2. new \in [S -> JobStates] /\ (UNCHANGED jobVars \/ Publish(new, c.at))
      BY Zenon, <3>1
    <3> HIDE DEF new
    <3> QED
      BY Zenon, <1>0, <1>a, <3>2, PublishArtifacts
  <2>5. ASSUME NEW new \in [{job[c.a]} -> JobStates], c.op # "claim_next",
               Publish(new, c.at)
        PROVE  Artifacts(j)
    <3>1. {job[c.a]} \in SUBSET Jobs
      BY Zenon, <2>0, <2>5
    <3> QED
      BY Zenon, <1>a, <2>5, <3>1, PublishArtifacts
  <2>6. CASE FailBeforeIo(c)
    <3> DEFINE new == [i \in {job[c.a]} |-> IF Deadline[i] <= c.at
                                            THEN "expired" ELSE "failed"]
    <3>1. c.op = "fail_before_io" /\ (UNCHANGED jobVars \/ Publish(new, c.at))
      BY Zenon, <2>6 DEF FailBeforeIo
    <3>2. new \in [{job[c.a]} -> JobStates]
      BY Zenon
    <3> HIDE DEF new
    <3> QED
      BY Zenon, <1>0, <2>5, <3>1, <3>2
  <2>7. CASE MarkIoStarted(c)
    <3> DEFINE new == [i \in {job[c.a]} |-> "in_progress"]
    <3>1. c.op = "mark_io_started" /\ (UNCHANGED jobVars \/ Publish(new, c.at))
      BY Zenon, <2>7 DEF MarkIoStarted
    <3>2. new \in [{job[c.a]} -> JobStates]
      BY Zenon
    <3> HIDE DEF new
    <3> QED
      BY Zenon, <1>0, <2>5, <3>1, <3>2
  <2>8. CASE Finish(c) \/ AbandonAfterMarker(c)
    <3>1. c.op # "claim_next" /\ (UNCHANGED jobVars \/
             \E s \in {"outcome_unknown", "output_confirmed"} :
                Publish([i \in {job[c.a]} |-> s], c.at))
      BY Zenon, <2>8 DEF Finish, AbandonAfterMarker, ResultStates
    <3>2. ASSUME NEW s \in {"outcome_unknown", "output_confirmed"},
                 Publish([i \in {job[c.a]} |-> s], c.at)
          PROVE  Artifacts(j)
      <4> DEFINE new == [i \in {job[c.a]} |-> s]
      <4>1. new \in [{job[c.a]} -> JobStates] /\ Publish(new, c.at)
        BY Zenon, <3>2
      <4> HIDE DEF new
      <4> QED
        BY Zenon, <2>5, <3>1, <4>1
    <3> QED
      BY Zenon, <1>0, <3>1, <3>2
  <2> QED
    BY Zenon, <1>7, <2>1, <2>2, <2>3, <2>4, <2>6, <2>7, <2>8 DEF CallStep
<1> HIDE DEF jobVars
<1> QED
  BY Zenon, <1>0, <1>1, <1>2, <1>3, <1>4, <1>5, <1>6, <1>7 DEF Next

\* An attempt is prepared by mark_prepared only, and that call is issued only
\* when the raster is stored.
Prepares ==
    /\ \A a \in Attempts : phase'[a] \in ActivePhases \ {"claimed"} =>
          \/ phase[a] \in ActivePhases \ {"claimed"}
          \/ \E c \in calls : c.op = "mark_prepared" /\ c.a = a
    /\ \A d \in calls' : d.op = "mark_prepared" =>
          \/ d \in calls
          \/ job' = job /\ (job[d.a] \in Receipts => derived'[job[d.a]] # "none")

LEMMA NextPrepares ==
  ASSUME IInv, [Next]_vars
  PROVE  Prepares
<1> USE DEF jobVars, attemptVars, deviceVars, processVars, envVars
<1>a. /\ phase \in [Attempts -> ActivePhases \cup {"none", "finished", "recovered"}]
      /\ derived \in [Jobs -> ArtifactStates]
  BY Zenon DEF IInv, TypeOK
<1>0. phase' = phase /\ calls' \subseteq calls => Prepares
  BY Zenon DEF Prepares
<1>1. UNCHANGED vars => phase' = phase /\ calls' \subseteq calls
  BY Zenon DEF vars
<1>2. ASSUME NEW w \in Workers, NEW next \in Points \ {"mark_prepared"},
             Goto(w, next), phase' = phase
      PROVE  Prepares
  BY <1>2, SMTT(30) DEF Goto, Prepares
<1>3. ASSUME NEW w \in Workers, CoroutineStep(w) \/ Renew(w) \/ Cancel(w)
      PROVE  Prepares
  <2>1. CASE Renew(w)
    BY Zenon, <1>0, <2>1 DEF Renew
  <2>2. CASE Cancel(w)
    <3>1. pc[w] \in Points \ {"idle"} /\ Goto(w, AfterCancel(pc[w])) /\ phase' = phase
      BY Zenon, <2>2 DEF Cancel, IInv, TypeOK
    <3>2. AfterCancel(pc[w]) \in Points \ {"mark_prepared"}
      BY Zenon, <3>1 DEF AfterCancel
    <3> QED
      BY Zenon, <1>2, <3>1, <3>2
  <2>3. CASE CoroutineStep(w)
    <3>1. phase' = phase
      BY Zenon, <2>3 DEF CoroutineStep, RunOne, StartWorker, Execute, Close,
                         Cleanup, Abort
    <3>2. \E next \in Points \ {"mark_prepared"} : Goto(w, next)
      BY Zenon, <2>3 DEF CoroutineStep, RunOne, StartWorker, Execute, Close, Cleanup, Abort
    <3> QED
      BY Zenon, <1>2, <3>1, <3>2
  <2> QED
    BY Zenon, <1>3, <2>1, <2>2, <2>3
<1>4. ASSUME NEW c \in calls, NEW next \in Points \ {"mark_prepared"}, NEW a,
             Continue(c, next, a)
      PROVE  \A d \in calls' : d.op = "mark_prepared" => d \in calls
  BY <1>4 DEF Continue
<1>5. ASSUME NEW c \in calls, CallStep(c)
      PROVE  Prepares
  <2>1. CASE SpoolPrepare(c)
    <3>1. phase' = phase /\ job' = job /\ job[c.a] \in Jobs
      BY Zenon, <2>1, WaitingCall DEF SpoolPrepare
    <3>2. CASE Continue(c, "fail_before_io", c.a)
      BY Zenon, <1>4, <3>1, <3>2 DEF Prepares
    <3>3. CASE /\ derived' = WithRaster(job[c.a])
               /\ Continue(c, "mark_prepared", c.a)
      <4>1. job[c.a] \in Receipts => derived'[job[c.a]] # "none"
        BY Zenon, <1>a, <3>1, <3>3 DEF WithRaster
      <4>2. \A d \in calls' : d \in calls \/ d.a = c.a
        BY <3>3 DEF Continue
      <4> QED
        BY Zenon, <3>1, <4>1, <4>2 DEF Prepares
    <3> QED
      BY Zenon, <2>1, <3>2, <3>3 DEF SpoolPrepare
  <2>2. CASE MarkPrepared(c)
    <3>1. c.op = "mark_prepared" /\ c.a \in Attempts
      BY Zenon, <2>2, WaitingCall DEF MarkPrepared
    <3>2. phase' = phase \/ phase' = [phase EXCEPT ![c.a] = "prepared"]
      BY Zenon, <2>2 DEF MarkPrepared
    <3>3. \A d \in calls' : d.op = "mark_prepared" => d \in calls
      BY Zenon, <1>4, <2>2 DEF MarkPrepared
    <3>4. \A a \in Attempts : phase'[a] = phase[a] \/ a = c.a
      BY Zenon, <1>a, <3>2
    <3> QED
      BY Zenon, <3>1, <3>3, <3>4 DEF Prepares
  <2>3. CASE ClaimNext(c)
    <3>1. phase' = phase \/ phase' = [phase EXCEPT ![FreshAttempt] = "claimed"]
      BY Zenon, <2>3 DEF ClaimNext, ClaimJob
    <3>2. \A d \in calls' : d.op = "mark_prepared" => d \in calls
      <4>1. \E a : Continue(c, "idle", a) \/ Continue(c, "spool_prepare", a)
        BY Zenon, <2>3 DEF ClaimNext
      <4> QED
        BY Zenon, <1>4, <4>1
    <3>3. \A a \in Attempts : phase'[a] \in {phase[a], "claimed"}
      BY Zenon, <1>a, <3>1
    <3> QED
      BY Zenon, <3>2, <3>3 DEF Prepares
  <2>4. CASE SpoolRelease(c)
    <3>1. phase' = phase /\ Continue(c, "idle", c.a)
      BY Zenon, <2>4 DEF SpoolRelease
    <3> QED
      BY Zenon, <1>4, <3>1 DEF Prepares
  <2>5. CASE FailBeforeIo(c) \/ Finish(c) \/ AbandonAfterMarker(c)
    <3>1. \E next \in Points \ {"mark_prepared"} : Continue(c, next, c.a)
      BY Zenon, <2>5 DEF FailBeforeIo, Finish, AbandonAfterMarker
    <3>2. \/ phase' = phase
          \/ \E p \in {"finished", "recovered"} : phase' = [phase EXCEPT ![c.a] = p]
      BY Zenon, <2>5 DEF FailBeforeIo, Finish, AbandonAfterMarker
    <3>3. \A a \in Attempts : phase'[a] \in {phase[a], "finished", "recovered"}
      BY Zenon, <1>a, <3>2
    <3> QED
      BY Zenon, <1>4, <3>1, <3>3 DEF Prepares
  <2>6. CASE MarkIoStarted(c) \/ NotePermission(c)
    <3>1. \E next \in Points \ {"mark_prepared"} : Continue(c, next, c.a)
      BY Zenon, <2>6, SMTT(30) DEF MarkIoStarted, NotePermission
    <3>2. \/ phase' = phase
          \/ /\ phase[c.a] \in {"prepared", "marker_committed"}
             /\ \E p \in Marked : phase' = [phase EXCEPT ![c.a] = p]
      BY Zenon, <2>6 DEF MarkIoStarted, NotePermission, Fenced
    <3>3. \A a \in Attempts : \/ phase'[a] = phase[a]
                             \/ phase[a] \in {"prepared", "marker_committed"}
      BY Zenon, <1>a, <3>2
    <3> QED
      BY Zenon, <1>4, <3>1, <3>3 DEF Prepares
  <2> QED
    BY Zenon, <1>5, <2>1, <2>2, <2>3, <2>4, <2>5, <2>6 DEF CallStep
<1>6. ASSUME NEW a \in Attempts, ChildPrints(a) \/ ChildEnds(a)
      PROVE  UNCHANGED <<phase, calls>>
  BY Zenon, <1>6 DEF ChildPrints, ChildEnds
<1>7. ASSUME StartBatch \/ Stop \/ DeviceTests \/ Tick
      PROVE  UNCHANGED <<phase, calls>>
  BY Zenon, <1>7 DEF StartBatch, Stop, DeviceTests, Tick
<1>8. ASSUME NEW j \in Jobs, Admit(j)
      PROVE  UNCHANGED <<phase, calls>>
  BY Zenon, <1>8 DEF Admit
<1>9. ASSUME Crash
      PROVE  Prepares
  BY Zenon, <1>0, <1>9 DEF Crash
<1>10. ASSUME Restart
       PROVE  Prepares
  <2>1. calls' = calls /\ \A a \in Attempts : phase'[a] \in {phase[a], "recovered"}
    BY Zenon, <1>a, <1>10 DEF Restart
  <2> QED
    BY Zenon, <2>1 DEF Prepares
<1> QED
  BY Zenon, <1>0, <1>1, <1>3, <1>5, <1>6, <1>7, <1>8, <1>9, <1>10 DEF Next

LEMMA NextErased ==
  ASSUME IInv, ErasedInv, [Next]_vars, IInv'
  PROVE  ErasedInv'
<1> USE ConstantsAssumption
<1>1. ASSUME NEW j \in Receipts, jobState'[j] \in {"in_progress", "output_confirmed"}
      PROVE  derived[j] # "none" /\ derived'[j] # "none"
  <2>0. j \in Jobs
    BY Zenon
  <2>1. derived[j] # "none"
    <3>1. CASE jobState[j] \in {"in_progress", "output_confirmed"}
      BY Zenon, <3>1 DEF ErasedInv
    <3>2. CASE jobState[j] \notin {"in_progress", "output_confirmed"}
      <4>1. PICK c \in calls : /\ c.op = "mark_io_started"
                               /\ phase[c.a] = "prepared" /\ job[c.a] = j
        <5>1. Move(j)
          BY Zenon, <1>1, <2>0, <3>2, NextRows DEF Kept, Moved
        <5> QED
          BY Zenon, <1>1, <3>2, <5>1 DEF Move
      <4>2. Rendered(c.a)
        BY Zenon, <4>1, WaitingCall DEF ErasedInv
      <4> QED
        BY Zenon, <4>1, <4>2 DEF Rendered
    <3> QED
      BY Zenon, <3>1, <3>2
  <2> QED
    BY Zenon, <2>0, <2>1, NextArtifacts DEF Artifacts
<1>2. ASSUME NEW j \in Jobs, jobState'[j] = "output_confirmed"
      PROVE  j \in keyWiped' /\ original'[j] # "committed" /\ derived'[j] # "committed"
  <2>1. Artifacts(j)
    BY Zenon, NextArtifacts
  <2>2. CASE jobState[j] = "output_confirmed"
    <3>1. j \in keyWiped /\ original[j] # "committed" /\ derived[j] # "committed"
      BY Zenon, <2>2 DEF ErasedInv, ConfirmedContentErased
    <3>2. j \in Receipts => derived[j] # "none"
      BY Zenon, <1>1, <1>2
    <3> QED
      BY Zenon, <2>1, <2>2, <3>1, <3>2 DEF Artifacts
  <2>3. CASE jobState[j] # "output_confirmed"
    BY Zenon, <1>2, <2>1, <2>3 DEF Artifacts
  <2> QED
    BY Zenon, <2>2, <2>3
<1>3. ASSUME NEW a \in Attempts, phase[a] # "none", Rendered(a)
      PROVE  Rendered(a)'
  <2>1. job'[a] = job[a] /\ job[a] \in Jobs
    BY Zenon, <1>3, NextAttempts DEF Continues, Claims, IInv, MarkersInv
  <2>2. Artifacts(job[a])
    BY Zenon, <2>1, NextArtifacts
  <2> QED
    BY Zenon, <1>3, <2>1, <2>2 DEF Rendered, Artifacts
<1>4. Prepares
  BY Zenon, NextPrepares
<1>5. \A c \in calls : c.op = "mark_prepared" =>
         c.a \in Attempts /\ phase[c.a] # "none" /\ Rendered(c.a)
  BY Zenon, WaitingCall DEF ErasedInv
<1>6. ASSUME NEW a \in Attempts, phase'[a] \in ActivePhases \ {"claimed"}
      PROVE  Rendered(a)'
  <2>1. CASE phase[a] \in ActivePhases \ {"claimed"}
    BY Zenon, <1>3, <2>1 DEF ErasedInv
  <2>2. CASE \E c \in calls : c.op = "mark_prepared" /\ c.a = a
    BY Zenon, <1>3, <1>5, <2>2
  <2> QED
    BY Zenon, <1>4, <1>6, <2>1, <2>2 DEF Prepares
<1>7. ASSUME NEW d \in calls', d.op = "mark_prepared"
      PROVE  job'[d.a] \in Receipts => derived'[job'[d.a]] # "none"
  <2>1. CASE d \in calls
    <3>1. d.a \in Attempts /\ phase[d.a] # "none" /\ Rendered(d.a)
      BY Zenon, <1>5, <1>7, <2>1
    <3>2. PICK a \in Attempts : a = d.a
      BY Zenon, <3>1
    <3>3. Rendered(a)'
      BY Zenon, <1>3, <3>1, <3>2
    <3> QED
      BY Zenon, <3>2, <3>3 DEF Rendered
  <2>2. CASE job' = job /\ (job[d.a] \in Receipts => derived'[job[d.a]] # "none")
    BY Zenon, <2>2
  <2> QED
    BY Zenon, <1>4, <1>7, <2>1, <2>2 DEF Prepares
<1>8. ConfirmedContentErased'
  BY Zenon, <1>2 DEF ConfirmedContentErased
<1> QED
  BY Zenon, <1>1, <1>6, <1>7, <1>8 DEF ErasedInv, Rendered

\* The output of a job, as a step of PrintJob.
LEMMA NextOutput ==
  ASSUME IInv, [Next]_vars, NEW j \in Jobs, printed'[j] # printed[j]
  PROVE  /\ Kept(j) /\ jobState[j] \in {"in_progress", "outcome_unknown"}
         /\ printed[j] = 0 /\ printed'[j] = 1
<1> USE DEF jobVars, attemptVars, deviceVars, processVars, envVars
<1>1. PICK a \in Attempts : ChildPrints(a)
  <2>1. ASSUME NEW w \in Workers, CoroutineStep(w) \/ Renew(w) \/ Cancel(w)
        PROVE  printed' = printed
    BY Zenon, <2>1 DEF CoroutineStep, RunOne, StartWorker, Execute, Close,
                       Cleanup, Abort, Renew, Cancel
  <2>2. ASSUME NEW c \in calls, CallStep(c)
        PROVE  printed' = printed
    BY Zenon, <2>2 DEF CallStep, ClaimNext, SpoolPrepare, SpoolRelease,
         MarkPrepared, NotePermission, FailBeforeIo, MarkIoStarted, Finish,
         AbandonAfterMarker
  <2>3. ASSUME NEW a \in Attempts, ChildEnds(a)
        PROVE  printed' = printed
    BY Zenon, <2>3 DEF ChildEnds
  <2>4. ASSUME StartBatch \/ Stop \/ Crash \/ Restart \/ DeviceTests \/ Tick
        PROVE  printed' = printed
    BY Zenon, <2>4 DEF StartBatch, Stop, Crash, Restart, DeviceTests, Tick
  <2>5. ASSUME NEW k \in Jobs, Admit(k)
        PROVE  printed' = printed
    BY Zenon, <2>5 DEF Admit
  <2>6. UNCHANGED vars => printed' = printed
    BY Zenon DEF vars
  <2> QED
    BY Zenon, <2>1, <2>2, <2>3, <2>4, <2>5, <2>6 DEF Next
<1>2. /\ child[a] = "permitted" /\ a \in marked
      /\ printed' = [printed EXCEPT ![job[a]] = @ + 1] /\ UNCHANGED jobVars
  BY Zenon, <1>1 DEF ChildPrints, IInv, OutputInv
<1>3. job[a] = j
  BY ZenonT(40), <1>2 DEF IInv, TypeOK
<1>4. printed[j] # 1
  <2>1. ASSUME printed[j] = 1 PROVE FALSE
    <3>1. PICK b \in Attempts :
             /\ job[b] = j /\ b \in marked
             /\ child[b] \in {"printed", "confirmed", "unknown", "gone"}
      BY Zenon, <2>1 DEF IInv, OutputInv
    <3>2. b = a
      BY Zenon, <1>2, <1>3, <3>1 DEF IInv, MarkersInv
    <3> QED
      BY Zenon, <1>2, <3>1, <3>2
  <2> QED
    BY Zenon, <2>1
<1>5. printed[j] = 0
  BY Zenon, <1>4 DEF IInv, OutputInv
<1>6. printed'[j] = 1
  BY <1>2, <1>3, <1>5, SMTT(30) DEF IInv, TypeOK
<1>7. jobState[j] \in {"in_progress", "outcome_unknown"}
  <2>1. jobState[j] \in {"in_progress", "outcome_unknown", "output_confirmed"}
    BY Zenon, <1>2, <1>3 DEF IInv, MarkersInv
  <2> QED
    BY Zenon, <1>4, <2>1 DEF IInv, ConfirmedWasPrinted
<1>8. Kept(j)
  BY Zenon, <1>2 DEF Kept
<1> QED
  BY Zenon, <1>5, <1>6, <1>7, <1>8

-----------------------------------------------------------------------------

\* With a clock that is not set back, the running process owns every active
\* attempt: a claim is its own, and recover ends the attempts of every smaller
\* generation.
LEMMA NextOwner ==
  ASSUME ~WallClockSteps, IInv, OwnerInv, [Next]_vars
  PROVE  OwnerInv'
<1> USE ConstantsAssumption DEF jobVars, attemptVars, deviceVars, envVars
<1>0. /\ phase \in [Attempts -> ActivePhases \cup {"none", "finished", "recovered"}]
      /\ owner \in [Attempts -> Generations \cup {0}]
      /\ gen \in Generations
  BY Zenon DEF IInv, TypeOK
<1>1. CASE Restart
  <2>1. PICK g \in Generations :
          /\ g > gen /\ gen' = g /\ owner' = owner
          /\ phase' = [a \in Attempts |-> IF a \in LostAttempts(g)
                                          THEN "recovered" ELSE phase[a]]
    BY Zenon, <1>1 DEF Restart
  <2>2. ASSUME NEW a \in Attempts, phase'[a] \in ActivePhases
        PROVE  FALSE
    <3>1. a \notin LostAttempts(g) /\ phase[a] \in ActivePhases
      BY Zenon, <2>1, <2>2
    <3>2. owner[a] < g
      BY <1>0, <2>1 DEF OwnerInv
    <3> QED
      BY Zenon, <3>1, <3>2 DEF LostAttempts
  <2>3. \A a \in Attempts : owner'[a] <= gen'
    BY <1>0, <2>1 DEF OwnerInv
  <2> QED
    BY Zenon, <2>2, <2>3 DEF OwnerInv
<1>2. ASSUME NEW c \in calls, ClaimNext(c)
      PROVE  OwnerInv'
  <2>1. up' = up /\ gen' = gen
    BY Zenon, <1>2 DEF ClaimNext
  <2>2. up # "down"
    BY Zenon, <1>2 DEF IInv, ControlInv
  <2>3. CASE UNCHANGED attemptVars
    BY Zenon, <2>1, <2>3 DEF OwnerInv
  <2>4. CASE \E j \in Jobs : ClaimJob(FreshAttempt, j, c.at)
    <3>1. /\ owner' = [owner EXCEPT ![FreshAttempt] = gen]
          /\ phase' = [phase EXCEPT ![FreshAttempt] = "claimed"]
      BY Zenon, <2>4 DEF ClaimJob
    <3> QED
      BY <1>0, <2>1, <2>2, <3>1 DEF OwnerInv
  <2> QED
    BY Zenon, <1>2, <2>3, <2>4 DEF ClaimNext
<1>3. CASE ~Restart /\ \A c \in calls : ~ClaimNext(c)
  <2>1. /\ owner' = owner /\ gen' = gen
        /\ up' # "down" => up # "down"
        /\ \A a \in Attempts : phase'[a] \in ActivePhases => phase[a] \in ActivePhases
    BY Zenon, <1>3, OwnersKept
  <2> QED
    BY Zenon, <2>1 DEF OwnerInv
<1> QED
  BY Zenon, <1>1, <1>2, <1>3

\* A running process holds devices only in its own name, if its wall clock is
\* never set back: nothing a dead process held survives recover.
THEOREM HoldsSurviveNoRestart ==
  ASSUME ~WallClockSteps
  PROVE  Spec => []HoldsAreOwn
<1>1. Init => OwnerInv
  BY ConstantsAssumption DEF Init, OwnerInv
<1>2. IInv /\ OwnerInv /\ [Next]_vars => OwnerInv'
  BY Zenon, NextOwner
<1>3. IInv /\ OwnerInv => HoldsAreOwn
  <2> SUFFICES ASSUME IInv, OwnerInv, up # "down", NEW h \in holds
               PROVE  h[2] = gen
    BY Zenon DEF HoldsAreOwn
  <2>1. holds = {<<job[a], owner[a]>> : a \in {b \in Attempts :
                                                  phase[b] \in ActivePhases}}
    BY Zenon DEF IInv, HoldsInv, HoldsMatchAttempts
  <2>2. PICK a \in Attempts : phase[a] \in ActivePhases /\ h = <<job[a], owner[a]>>
    BY Zenon, <2>1
  <2> QED
    BY Zenon, <2>2 DEF OwnerInv
<1> QED
  BY <1>1, <1>2, <1>3, Invariance, PTL DEF Spec

\* The key of a confirmed job is wiped and none of its content is kept: neither
\* the original nor a raster, whatever calls cancelled coroutines left behind.
THEOREM ContentIsErased == Spec => []ConfirmedContentErased
<1>1. Init => ErasedInv
  BY ZenonT(40), ConstantsAssumption DEF Init, ErasedInv, ConfirmedContentErased, Rendered
<1>2. IInv /\ ErasedInv /\ [Next]_vars /\ IInv' => ErasedInv'
  BY Zenon, NextErased
<1>3. ErasedInv => ConfirmedContentErased
  BY Zenon DEF ErasedInv
<1> QED
  BY <1>1, <1>2, <1>3, Invariance, PTL DEF Spec

\* The inductive invariant of the ledger, with a clock that is not set back.
THEOREM LedgerInvariance ==
  ASSUME ~WallClockSteps
  PROVE  Spec => []LedgerInv
<1>1. Init => IInv /\ ErasedInv /\ OrphanInv /\ TimeInv /\ QueueInv
  <2> SUFFICES ASSUME Init PROVE IInv /\ ErasedInv /\ OrphanInv /\ TimeInv /\ QueueInv
    BY Zenon
  <2>1. IInv
    BY Zenon, InitIInv
  <2>2. ErasedInv
    BY Zenon, ConstantsAssumption DEF Init, ErasedInv, ConfirmedContentErased, Rendered
  <2>3. OrphanInv /\ QueueInv
    BY Zenon, ConstantsAssumption DEF Init, OrphanInv, QueueInv
  <2>4. TimeInv
    BY ConstantsAssumption, SMTT(30) DEF Init, TimeInv
  <2> QED
    BY Zenon, <2>1, <2>2, <2>3, <2>4
<1>2. LedgerInv /\ [Next]_vars => LedgerInv'
  <2> SUFFICES ASSUME LedgerInv, [Next]_vars PROVE LedgerInv'
    BY Zenon
  <2>0. IInv /\ ErasedInv /\ OrphanInv /\ TimeInv /\ QueueInv
    BY Zenon DEF LedgerInv
  <2>1. IInv'
    BY Zenon, <2>0, NextIInv
  <2>2. ErasedInv'
    BY Zenon, <2>0, <2>1, NextErased
  <2>3. OrphanInv' /\ TimeInv' /\ QueueInv'
    BY Zenon, <2>0, <2>1, NextOrphan, NextTime, NextQueue
  <2> QED
    BY Zenon, <2>1, <2>2, <2>3 DEF LedgerInv
<1>3. Init => LedgerInv
  BY Zenon, <1>1 DEF LedgerInv
<1> QED
  BY <1>2, <1>3, PTL DEF Spec

\* mark_io_started writes the marker of a job only when no job of its device
\* that was accepted strictly earlier still waits.
THEOREM StartsInOrder ==
  ASSUME ~WallClockSteps
  PROVE  Spec => FifoStart
<1> DEFINE InOrder == \A i, j \in Jobs :
              (/\ jobState[j] = "accepted" /\ jobState'[j] = "in_progress"
               /\ jobState[i] = "accepted" /\ DeviceOf[i] = DeviceOf[j])
              => stamp[i] >= stamp[j]
<1>1. ASSUME LedgerInv, [Next]_vars, NEW i \in Jobs, NEW j \in Jobs,
             jobState[j] = "accepted", jobState'[j] = "in_progress",
             jobState[i] = "accepted", DeviceOf[i] = DeviceOf[j]
      PROVE  stamp[i] >= stamp[j]
  <2>0. IInv /\ QueueInv
    BY Zenon, <1>1 DEF LedgerInv
  <2>1. Move(j)
    BY Zenon, <1>1, <2>0, NextRows DEF Kept, Moved
  <2>2. PICK c \in calls : /\ c.op = "mark_io_started"
                           /\ phase[c.a] = "prepared" /\ job[c.a] = j
    BY Zenon, <1>1, <2>1 DEF Move
  <2>3. c.a \in Attempts
    BY Zenon, <2>0, <2>2, WaitingCall
  <2>4. stamp[j] <= stamp[i]
    BY Zenon, <1>1, <2>0, <2>2, <2>3 DEF QueueInv
  <2>5. stamp[i] \in Nat /\ stamp[j] \in Nat
    BY Zenon, <2>0, TimeNat DEF IInv, TypeOK
  <2> QED
    BY Zenon, <2>4, <2>5
<1>2. LedgerInv /\ [Next]_vars => [InOrder]_vars
  BY Zenon, <1>1
<1>3. Spec => []LedgerInv
  BY Zenon, LedgerInvariance
<1> QED
  BY <1>2, <1>3, PTL DEF Spec, FifoStart

\* The execution ledger writes its columns without calling transition(), and
\* yet every step of the Agent is a step of the domain's Print Job: a legal
\* successor, one version, one event, consistent times, one output.
THEOREM ImplementsTheTable ==
  ASSUME ~WallClockSteps
  PROVE  Spec => ImplementsPrintJob
<1>1. Init => PrintJobs!Init
  BY Zenon DEF Init, PrintJobs!Init
<1>2. ASSUME LedgerInv, [Next]_vars, NEW j \in Jobs
      PROVE  PrintJobs!Transition(j) \/ PrintJobs!Output(j) \/ PrintJobs!Stutter(j)
  <2>0. IInv /\ TimeInv
    BY Zenon, <1>2 DEF LedgerInv
  <2>1. CASE printed'[j] # printed[j]
    BY Zenon, <1>2, <2>0, <2>1, NextOutput DEF PrintJobs!Output, Kept
  <2>2. CASE printed'[j] = printed[j] /\ Kept(j)
    BY Zenon, <2>2 DEF PrintJobs!Stutter, Kept
  <2>3. CASE printed'[j] = printed[j] /\ Moved(j)
    <3>1. /\ Move(j) /\ version'[j] = version[j] + 1
          /\ Announced(j, jobState'[j])
          /\ stamp[j] <= stamp'[j]
      BY Zenon, <2>0, <2>3 DEF Moved, Timely
    <3>2. stamp[j] \in Nat /\ stamp'[j] \in Nat /\ Deadline[j] \in Nat
      <4>1. TypeOK'
        BY Zenon, <1>2, <2>0, NextIInv DEF IInv
      <4>2. stamp[j] \in Time /\ stamp'[j] \in Time
        BY <2>0, <4>1, SMTT(30) DEF IInv, TypeOK
      <4> QED
        BY Zenon, <4>2, TimeNat, ConstantsAssumption
    <3>3. jobState'[j] \in PrintJobs!Transitions[jobState[j]]
      BY Zenon, <3>1 DEF Move, PrintJobs!Transitions, PrintJobs!JobStates, PrintJobs!Terminal
    <3>4. /\ stamp'[j] >= stamp[j]
          /\ jobState'[j] = "in_progress" => stamp'[j] <= Deadline[j]
          /\ jobState'[j] = "expired" => stamp'[j] >= Deadline[j]
          /\ jobState'[j] = "output_confirmed" => printed[j] = 1
      <4>1. /\ jobState'[j] = "in_progress" => stamp'[j] < Deadline[j]
            /\ jobState'[j] = "expired" => Deadline[j] <= stamp'[j]
            /\ jobState'[j] = "output_confirmed" => printed[j] = 1
        BY Zenon, <3>1, Zenon DEF Move
      <4> QED
        BY <3>1, <3>2, <4>1
    <3>5. journal'[j] = Append(journal[j], jobState'[j])
      BY Zenon, <3>1 DEF Announced
    <3> QED
      BY Zenon, <2>3, <3>1, <3>3, <3>4, <3>5 DEF PrintJobs!Transition
  <2> QED
    BY Zenon, <1>2, <2>0, <2>1, <2>2, <2>3, NextRows
<1>3. LedgerInv /\ [Next]_vars => [PrintJobs!Next]_(PrintJobs!vars)
  BY Zenon, <1>2 DEF PrintJobs!Next
<1>4. Spec => []LedgerInv
  BY Zenon, LedgerInvariance
<1> QED
  BY <1>1, <1>3, <1>4, PTL DEF Spec, ImplementsPrintJob, PrintJobs!Spec

=============================================================================
